------------------------ MODULE RoomLifecycleProofs ------------------------
(***************************************************************************)
(* What holds of every room object and of every stored room, whoever       *)
(* joins, leaves and switches and whatever fails meanwhile; and, as long   *)
(* as no deadline has passed, of the two together.                         *)
(***************************************************************************)
EXTENDS RoomLifecycle, SequenceTheorems, FiniteSetTheorems, TLAPS

-----------------------------------------------------------------------------
(* The least of a set, and a set as a sequence.                            *)

LEMMA LeastNatural ==
  ASSUME NEW S \in SUBSET Nat, S # {}
  PROVE  \E m \in S : \A k \in S : m <= k
<1>1. PICK m \in S : \A k \in S : <<k, m>> \notin OpToRel(<, Nat)
  BY WFMin, NatLessThanWellFounded
<1>2. \A k \in S : ~ (k < m)
  BY <1>1 DEF OpToRel
<1> QED
  BY <1>2

LEMMA MinIsLeast ==
  ASSUME NEW S \in SUBSET Nat, S # {}
  PROVE  Min(S) \in S /\ \A k \in S : Min(S) <= k
BY LeastNatural DEF Min

LEMMA SetAsSequence ==
  ASSUME NEW S, IsFiniteSet(S)
  PROVE  /\ SetToSeq(S) \in Seq(S)
         /\ \A x \in S : \E i \in DOMAIN SetToSeq(S) : SetToSeq(S)[i] = x
<1> DEFINE n == Cardinality(S)
           Enumerates(f) == f \in [1 .. n -> S] /\ IsInjective(f)
<1>1. n \in Nat /\ ExistsBijection(1 .. n, S)
  BY FS_CardinalityType
<1>2. PICK f : f \in Bijection(1 .. n, S)
  BY <1>1 DEF ExistsBijection
<1>3. Enumerates(f)
  BY <1>2 DEF Bijection, Injection, IsInjective
<1>4. SetToSeq(S) = CHOOSE g \in [1 .. n -> S] : IsInjective(g)
  BY DEF SetToSeq
<1>5. Enumerates(SetToSeq(S))
  BY <1>3, <1>4
<1> DEFINE g == SetToSeq(S)
<1>6. g \in Injection(1 .. n, S)
  BY <1>5 DEF Injection, IsInjective
<1>7. Cardinality(1 .. n) = n
  BY <1>1, FS_Interval
<1>8. g \in Surjection(1 .. n, S)
  <2> HIDE DEF g, n
  <2> QED
    BY <1>6, <1>7, FS_Injection DEF n
<1>9. g \in Seq(S) /\ DOMAIN g = 1 .. n
  BY <1>1, <1>5
<1> QED
  BY <1>8, <1>9 DEF Surjection

-----------------------------------------------------------------------------
(***************************************************************************)
(* A room in order: it has its columns, nobody sits twice, and a lobby     *)
(* with people in it is led by one of them.                                *)
(***************************************************************************)
Single(m) == \A u \in Users : \A i, k \in SeatsOf(m, u) : i = k
Hosted(m) == (m.status = "LOBBY" /\ Humans(m) # {}) => SeatsOf(m, m.host) # {}
InOrder(m) == m \in Room /\ Single(m) /\ Hosted(m)

\* The same people in the same seats, led by the same host.
SamePeople(m, n) ==
  /\ n \in Room /\ n.host = m.host
  /\ n.status = "LOBBY" => m.status = "LOBBY"
  /\ \A u \in Users : SeatsOf(n, u) = SeatsOf(m, u)

LEMMA HumansBySeat == ASSUME NEW m PROVE Humans(m) = UNION {SeatsOf(m, u) : u \in Users}
BY DEF Humans, SeatsOf

LEMMA SamePeopleInOrder == ASSUME NEW m, NEW n, InOrder(m), SamePeople(m, n) PROVE InOrder(n)
<1>1. Humans(n) = Humans(m)
  BY HumansBySeat DEF SamePeople
<1>2. n.host \in Users
  BY DEF SamePeople, Room
<1> QED
  BY <1>1, <1>2 DEF InOrder, SamePeople, Single, Hosted

LEMMA SeatsOfRoom ==
  ASSUME NEW m \in Room
  PROVE  /\ m.seats \in [DOMAIN m.seats -> Seat] /\ DOMAIN m.seats \subseteq Nat
         /\ \A s \in [DOMAIN m.seats -> Seat] : s \in Seats
<1>1. m.seats \in Seats
  BY DEF Room
<1>2. PICK n \in 2 .. MaxSeats : m.seats \in [1 .. n -> Seat]
  BY <1>1 DEF Seats
<1> QED
  BY <1>2, SeatsAssumption DEF Seats

LEMMA LenOfRoom ==
  ASSUME NEW m \in Room
  PROVE  Len(m.seats) \in 2 .. MaxSeats /\ DOMAIN m.seats = 1 .. Len(m.seats)
<1>1. m.seats \in Seats
  BY DEF Room
<1>2. PICK n \in 2 .. MaxSeats : m.seats \in [1 .. n -> Seat]
  BY <1>1 DEF Seats
<1>3. m.seats \in Seq(Seat)
  BY <1>2, SeatsAssumption
<1> QED
  BY <1>2, <1>3, LenProperties, SeatsAssumption

LEMMA HostSeated ==
  ASSUME NEW m \in Room, Humans(m) # {}
  PROVE  HostOf(m) \in Users /\ SeatsOf(m, HostOf(m)) # {}
<1>1. Humans(m) \in SUBSET Nat
  BY SeatsOfRoom DEF Humans
<1>2. Min(Humans(m)) \in Humans(m)
  BY <1>1, MinIsLeast
<1> QED
  BY <1>2 DEF HostOf, Humans, SeatsOf

-----------------------------------------------------------------------------
(* What the operations make of a room in order.                            *)

\* Other flags.
LEMMA ResumeSame == ASSUME NEW m \in Room PROVE SamePeople(m, Resume(m)) /\ Resume(m).seats = m.seats
BY DEF SamePeople, Resume, Room, Pauses, SeatsOf

LEMMA SettleSame == ASSUME NEW m \in Room PROVE SamePeople(m, Settle(m)) /\ Settle(m).seats = m.seats
BY DEF SamePeople, Settle, Resume, Room, Pauses, SeatsOf

LEMMA CleanupSame == ASSUME NEW m \in Room, NEW due \in BOOLEAN PROVE SamePeople(m, Cleanup(m, due))
<1> DEFINE n == Cleanup(m, due)
<1>1. Resume(m) \in Room
  BY ResumeSame DEF SamePeople
<1>2. Unattended(m) \in BOOLEAN
  BY DEF Unattended
<1>3. n \in Room /\ n.host = m.host /\ n.seats = m.seats /\ (n.status = "LOBBY" => m.status = "LOBBY")
  <2>1. CASE m.status = "LOBBY"
    BY <1>2, <2>1 DEF Cleanup, Room, Statuses
  <2>2. CASE m.status = "IN_GAME" /\ Unattended(m)
    BY <1>2, <2>2 DEF Cleanup, Room, Pauses, Statuses
  <2>3. CASE m.status = "IN_GAME" /\ ~Unattended(m)
    BY <1>2, <2>3, ResumeSame DEF Cleanup, SamePeople
  <2>4. CASE m.status = "FINISHED"
    BY <1>2, <2>4 DEF Cleanup, Room
  <2>5. CASE m.status \notin {"LOBBY", "IN_GAME", "FINISHED"}
    BY <2>5 DEF Cleanup
  <2> QED
    BY <2>1, <2>2, <2>3, <2>4, <2>5
<1> HIDE DEF n
<1> QED
  BY <1>3 DEF n, SamePeople, SeatsOf

LEMMA DurableSame == ASSUME NEW m \in Room PROVE SamePeople(m, Durable(m))
BY DEF SamePeople, Durable, Room, SeatsOf

\* Other seats for the same occupants.
LEMMA ReseatedSame ==
  ASSUME NEW m \in Room, NEW s \in [DOMAIN m.seats -> Seat], NEW f \in BOOLEAN, NEW ws \in SUBSET Users,
         \A i \in DOMAIN m.seats : m.seats[i].who # s[i].who => {m.seats[i].who, s[i].who} \cap Users = {}
  PROVE  /\ SamePeople(m, [m EXCEPT !.seats = s])
         /\ SamePeople(m, [m EXCEPT !.seats = s, !.fill = f])
         /\ SamePeople(m, [m EXCEPT !.watchers = ws, !.seats = s])
<1>1. s \in Seats
  BY SeatsOfRoom
<1>2. /\ [m EXCEPT !.seats = s] \in Room
      /\ [m EXCEPT !.seats = s, !.fill = f] \in Room
      /\ [m EXCEPT !.watchers = ws, !.seats = s] \in Room
  BY <1>1 DEF Room
<1>3. \A u \in Users : {i \in DOMAIN s : s[i].who = u} = {i \in DOMAIN m.seats : m.seats[i].who = u}
  OBVIOUS
<1>4. m.status \in Statuses /\ DOMAIN m = {"status", "host", "seats", "watchers", "paused", "empty", "archived", "fill"}
  BY DEF Room
<1> QED
  BY <1>2, <1>3, <1>4 DEF SamePeople, SeatsOf

LEMMA RestoredSame == ASSUME NEW m \in Room PROVE SamePeople(m, Restored(m))
<1> DEFINE s == [i \in DOMAIN m.seats |-> [m.seats[i] EXCEPT !.on = FALSE]]
<1>1. Restored(m) = [m EXCEPT !.seats = s]
  BY DEF Restored
<1>2. s \in [DOMAIN m.seats -> Seat] /\ \A i \in DOMAIN m.seats : s[i].who = m.seats[i].who
  BY SeatsOfRoom DEF Seat
<1> HIDE DEF s
<1> QED
  BY <1>1, <1>2, ReseatedSame

LEMMA FillBotsSame == ASSUME NEW m \in Room PROVE SamePeople(m, FillBots(m))
<1> DEFINE s == [i \in DOMAIN m.seats |-> IF i \in Open(m) THEN SeatedBot ELSE m.seats[i]]
<1>1. FillBots(m) = [m EXCEPT !.seats = s]
  BY DEF FillBots
<1>2. SeatedBot \in Seat
  BY DEF SeatedBot, Seat
<1>3. s \in [DOMAIN m.seats -> Seat]
  BY <1>2, SeatsOfRoom
<1>4. \A i \in DOMAIN m.seats : m.seats[i].who # s[i].who => {m.seats[i].who, s[i].who} \cap Users = {}
  BY UserAssumption DEF SeatedBot, Open, Taken
<1> HIDE DEF s
<1> QED
  BY <1>1, <1>3, <1>4, ReseatedSame
LEMMA StartInOrder == ASSUME NEW m \in Room, Single(m) PROVE InOrder(Start(m)) /\ Start(m).status = "IN_GAME"
<1> DEFINE s == [i \in DOMAIN m.seats |-> IF i \in Startable(m) THEN m.seats[i] ELSE Vacant]
           n == [m EXCEPT !.status = "IN_GAME", !.seats = s]
<1>1. Start(m) = n
  BY DEF Start
<1>2. Vacant \in Seat
  BY DEF Vacant, Seat
<1>3. s \in [DOMAIN m.seats -> Seat]
  BY <1>2, SeatsOfRoom
<1>4. \A u \in Users, i \in DOMAIN m.seats : s[i].who = u => m.seats[i].who = u
  BY UserAssumption DEF Vacant
<1> HIDE DEF s
<1>5. s \in Seats
  BY <1>3, SeatsOfRoom
<1>6. n \in Room /\ n.status = "IN_GAME" /\ n.seats = s
  BY <1>5 DEF Room, Statuses
<1>7. Single(n)
  BY <1>3, <1>4, <1>6 DEF Single, SeatsOf
<1> HIDE DEF n
<1> QED
  BY <1>1, <1>6, <1>7 DEF InOrder, Hosted

LEMMA ResyncedSeat ==
  ASSUME NEW seat \in Seat, NEW here \in BOOLEAN, NEW lobby \in BOOLEAN
  PROVE  Resynced(seat, here, lobby) \in Seat /\ Resynced(seat, here, lobby).who = seat.who
BY DEF Seat, Resynced

LEMMA SyncSame == ASSUME NEW m \in Room, NEW ids PROVE SamePeople(m, Sync(m, ids))
<1> DEFINE s == [i \in DOMAIN m.seats |->
                   IF i \in Humans(m)
                   THEN Resynced(m.seats[i], m.seats[i].who \in ids, m.status = "LOBBY")
                   ELSE m.seats[i]]
           ws == m.watchers \cap ids
           n == [m EXCEPT !.watchers = ws, !.seats = s]
<1>1. Sync(m, ids) = Settle(n)
  BY DEF Sync
<1>2. s \in [DOMAIN m.seats -> Seat] /\ \A i \in DOMAIN m.seats : s[i].who = m.seats[i].who
  <2>1. ASSUME NEW i \in DOMAIN m.seats PROVE s[i] \in Seat /\ s[i].who = m.seats[i].who
    <3>1. m.seats[i] \in Seat
      BY SeatsOfRoom
    <3> DEFINE here == m.seats[i].who \in ids
               lobby == m.status = "LOBBY"
    <3>2. here \in BOOLEAN /\ lobby \in BOOLEAN
      OBVIOUS
    <3>3. s[i] = IF i \in Humans(m) THEN Resynced(m.seats[i], here, lobby) ELSE m.seats[i]
      OBVIOUS
    <3> HIDE DEF here, lobby, s
    <3>4. /\ Resynced(m.seats[i], here, lobby) \in Seat
          /\ Resynced(m.seats[i], here, lobby).who = m.seats[i].who
      BY <3>1, <3>2, ResyncedSeat
    <3> QED
      BY <3>1, <3>3, <3>4
  <2> QED
    BY <2>1
<1>3. ws \in SUBSET Users
  BY DEF Room
<1> HIDE DEF s, ws
<1>4. SamePeople(m, n)
  BY <1>2, <1>3, ReseatedSame
<1> HIDE DEF n
<1>5. SamePeople(n, Settle(n))
  BY <1>4, SettleSame DEF SamePeople
<1> QED
  BY <1>1, <1>4, <1>5 DEF SamePeople

\* The first open seat, if there is one.
FirstOpen(m) == {j \in Open(m) : \A k \in Open(m) : j <= k}

LEMMA AddBotSame == ASSUME NEW m \in Room, NEW n \in AddBot(m) PROVE SamePeople(m, n)
<1>1. PICK i \in Open(m) : n = [m EXCEPT !.seats[i] = SeatedBot, !.fill = FALSE]
  BY DEF AddBot
<1> DEFINE s == [m.seats EXCEPT ![i] = SeatedBot]
<1>2. n = [m EXCEPT !.seats = s, !.fill = FALSE]
  BY <1>1
<1>3. SeatedBot \in Seat
  BY DEF SeatedBot, Seat
<1>4. s \in [DOMAIN m.seats -> Seat]
  BY <1>3, SeatsOfRoom
<1>5. \A k \in DOMAIN m.seats : m.seats[k].who # s[k].who => {m.seats[k].who, s[k].who} \cap Users = {}
  BY UserAssumption, SeatsOfRoom DEF SeatedBot, Open, Taken
<1> HIDE DEF s
<1> QED
  BY <1>2, <1>4, <1>5, ReseatedSame

LEMMA RemoveBotSame == ASSUME NEW m \in Room, NEW i, NEW n \in RemoveBot(m, i) PROVE SamePeople(m, n)
<1>1. i \in SeatsOf(m, Bot) /\ n = [m EXCEPT !.seats[i] = Vacant, !.fill = FALSE]
  BY DEF RemoveBot
<1> DEFINE s == [m.seats EXCEPT ![i] = Vacant]
<1>2. n = [m EXCEPT !.seats = s, !.fill = FALSE]
  BY <1>1
<1>3. Vacant \in Seat
  BY DEF Vacant, Seat
<1>4. s \in [DOMAIN m.seats -> Seat]
  BY <1>3, SeatsOfRoom
<1>5. \A k \in DOMAIN m.seats : m.seats[k].who # s[k].who => {m.seats[k].who, s[k].who} \cap Users = {}
  BY <1>1, UserAssumption, SeatsOfRoom DEF Vacant, SeatsOf
<1> HIDE DEF s
<1> QED
  BY <1>2, <1>4, <1>5, ReseatedSame
\* Here the host's seat may go to another, or the host to another seat.
LEMMA RepairedInOrder ==
  ASSUME NEW m \in Room, Single(m)
  PROVE  InOrder(RepairHost(m)) /\ RepairHost(m).seats = m.seats /\ RepairHost(m).status = m.status
<1>1. CASE m.status # "LOBBY" \/ SeatsOf(m, m.host) # {} \/ Humans(m) = {}
  BY <1>1 DEF RepairHost, InOrder, Hosted
<1>2. CASE m.status = "LOBBY" /\ SeatsOf(m, m.host) = {} /\ Humans(m) # {}
  <2> DEFINE h == HostOf(m)
             n == [m EXCEPT !.host = h]
  <2>1. h \in Users /\ SeatsOf(m, h) # {}
    BY <1>2, HostSeated
  <2>2. RepairHost(m) = n
    BY <1>2 DEF RepairHost
  <2> HIDE DEF h
  <2>3. n \in Room /\ n.host = h /\ n.seats = m.seats /\ n.status = m.status
    BY <2>1 DEF Room
  <2> HIDE DEF n
  <2>4. Single(n) /\ Hosted(n)
    BY <2>1, <2>3 DEF Single, Hosted, SeatsOf
  <2> QED
    BY <2>2, <2>3, <2>4 DEF InOrder
<1> QED
  BY <1>1, <1>2

\* What becomes of a seat.
LEMMA ReadiedSeat ==
  ASSUME NEW x \in Seat, NEW ready \in BOOLEAN
  PROVE  /\ [x EXCEPT !.ready = ready, !.on = TRUE] \in Seat
         /\ [x EXCEPT !.ready = ready, !.on = TRUE].who = x.who
BY DEF Seat

LEMMA TakenSeat ==
  ASSUME NEW x \in Seat, NEW u \in Users
  PROVE  /\ [x EXCEPT !.on = TRUE] \in Seat /\ [x EXCEPT !.on = TRUE].who = x.who
         /\ [x EXCEPT !.who = u, !.on = TRUE] \in Seat /\ [x EXCEPT !.who = u, !.on = TRUE].who = u
BY DEF Seat

LEMMA LeftSeat ==
  ASSUME NEW x \in Seat
  PROVE  [x EXCEPT !.ready = FALSE, !.on = FALSE] \in Seat /\ Vacant \in Seat
BY DEF Seat, Vacant

LEMMA PutSeat ==
  ASSUME NEW m \in Room, NEW i \in DOMAIN m.seats, NEW x \in Seat
  PROVE  /\ [m.seats EXCEPT ![i] = x] \in [DOMAIN m.seats -> Seat]
         /\ \A k \in DOMAIN m.seats : [m.seats EXCEPT ![i] = x][k] = IF k = i THEN x ELSE m.seats[k]
BY SeatsOfRoom

LEMMA JoinInOrder ==
  ASSUME NEW m, InOrder(m), NEW u \in Users, NEW watch \in BOOLEAN, NEW n \in JoinCandidate(m, u, watch)
  PROVE  InOrder(n)
<1>0. m \in Room /\ Single(m)
  BY DEF InOrder
<1>1. CASE SeatsOf(m, u) # {}
  <2> DEFINE i == Min(SeatsOf(m, u))
             s == [m.seats EXCEPT ![i].on = TRUE]
             k == [m EXCEPT !.seats = s]
  <2>1. SeatsOf(m, u) \in SUBSET Nat
    BY <1>0, SeatsOfRoom DEF SeatsOf
  <2>2. i \in DOMAIN m.seats
    BY <1>1, <2>1, MinIsLeast DEF SeatsOf
  <2>3. n = Resume(RepairHost(k))
    BY <1>1 DEF JoinCandidate
  <2> HIDE DEF i
  <2>4. s \in [DOMAIN m.seats -> Seat] /\ \A j \in DOMAIN m.seats : s[j].who = m.seats[j].who
    <3>1. m.seats[i] \in Seat
      BY <1>0, <2>2, SeatsOfRoom
    <3>2. PICK x \in Seat : x = [m.seats[i] EXCEPT !.on = TRUE] /\ x.who = m.seats[i].who
      BY <1>0, <3>1, TakenSeat DEF InOrder
    <3>3. s = [m.seats EXCEPT ![i] = x]
      BY <3>2
    <3> HIDE DEF s
    <3> QED
      BY <1>0, <2>2, <3>2, <3>3, PutSeat
  <2> HIDE DEF s
  <2>5. SamePeople(m, k)
    BY <1>0, <2>4, ReseatedSame
  <2> HIDE DEF k
  <2>6. InOrder(k)
    BY <2>5, SamePeopleInOrder
  <2>7. InOrder(RepairHost(k))
    BY <2>6, RepairedInOrder DEF InOrder
  <2>8. SamePeople(RepairHost(k), Resume(RepairHost(k)))
    BY <2>7, ResumeSame DEF InOrder
  <2> QED
    BY <2>3, <2>7, <2>8, SamePeopleInOrder
<1>2. CASE SeatsOf(m, u) = {} /\ (watch \/ m.status # "LOBBY")
  <2>1. n = [m EXCEPT !.watchers = @ \cup {u}]
    BY <1>2 DEF JoinCandidate
  <2>2. SamePeople(m, n)
    BY <1>0, <2>1 DEF SamePeople, Room, SeatsOf
  <2> QED
    BY <2>2, SamePeopleInOrder
<1>3. CASE SeatsOf(m, u) = {} /\ ~watch /\ m.status = "LOBBY"
  <2>1. PICK i \in Open(m) : n = RepairHost([m EXCEPT !.seats[i] = [@ EXCEPT !.who = u, !.on = TRUE]])
    BY <1>3 DEF JoinCandidate
  <2> DEFINE s == [m.seats EXCEPT ![i] = [m.seats[i] EXCEPT !.who = u, !.on = TRUE]]
             k == [m EXCEPT !.seats = s]
  <2>2. n = RepairHost(k)
    BY <2>1
  <2>3. s \in [DOMAIN m.seats -> Seat] /\ \A j \in DOMAIN m.seats : s[j].who = IF j = i THEN u ELSE m.seats[j].who
    <3>1. i \in DOMAIN m.seats /\ m.seats[i] \in Seat
      BY <1>0, SeatsOfRoom DEF Open
    <3>2. PICK x \in Seat : x = [m.seats[i] EXCEPT !.who = u, !.on = TRUE] /\ x.who = u
      <4>1. \A y \in Seat : /\ [y EXCEPT !.who = u, !.on = TRUE] \in Seat
                            /\ [y EXCEPT !.who = u, !.on = TRUE].who = u
        BY TakenSeat
      <4> QED
        BY <3>1, <4>1
    <3>3. s = [m.seats EXCEPT ![i] = x]
      BY <3>2
    <3> HIDE DEF s
    <3> QED
      BY <1>0, <3>1, <3>2, <3>3, PutSeat
  <2> HIDE DEF s
  <2>5. s \in Seats
    BY <1>0, <2>3, SeatsOfRoom
  <2>6. k \in Room /\ k.seats = s
    BY <1>0, <2>5 DEF Room
  <2> HIDE DEF k
  <2>7. Single(k)
    <3> SUFFICES ASSUME NEW v \in Users, NEW j \in SeatsOf(k, v), NEW l \in SeatsOf(k, v) PROVE j = l
      BY DEF Single
    <3>1. CASE v = u
      BY <1>3, <2>3, <2>6, <3>1 DEF SeatsOf
    <3>2. CASE v # u
      BY <1>0, <2>3, <2>6, <3>2 DEF SeatsOf, Single
    <3> QED
      BY <3>1, <3>2
  <2> QED
    BY <2>2, <2>6, <2>7, RepairedInOrder
<1> QED
  BY <1>1, <1>2, <1>3
LEMMA DepartInOrder ==
  ASSUME NEW m, InOrder(m), NEW u \in Users
  PROVE  InOrder(Depart(m, u))
<1>0. m \in Room /\ Single(m)
  BY DEF InOrder
<1> DEFINE lobby == m.status = "LOBBY"
           s == [i \in DOMAIN m.seats |->
                   IF i \notin SeatsOf(m, u) THEN m.seats[i]
                   ELSE IF lobby THEN Vacant ELSE [m.seats[i] EXCEPT !.ready = FALSE, !.on = FALSE]]
           ws == m.watchers \ {u}
           gone == [m EXCEPT !.watchers = ws, !.seats = s]
           led == IF lobby /\ m.host = u /\ Humans(gone) # {}
                  THEN [gone EXCEPT !.host = HostOf(gone)] ELSE gone
<1>1. Depart(m, u) = Settle(led)
  BY DEF Depart
<1>2. s \in [DOMAIN m.seats -> Seat]
  BY <1>0, SeatsOfRoom, LeftSeat
<1>3. \A i \in DOMAIN m.seats :
        s[i].who = IF lobby /\ m.seats[i].who = u THEN None ELSE m.seats[i].who
  BY <1>0, SeatsOfRoom DEF Seat, Vacant, SeatsOf
<1> HIDE DEF s
<1>4. s \in Seats /\ ws \in SUBSET Users
  BY <1>0, <1>2, SeatsOfRoom DEF Room
<1>5. gone \in Room /\ gone.seats = s /\ gone.host = m.host /\ gone.status = m.status
  BY <1>0, <1>4 DEF Room
<1> HIDE DEF gone
<1>6. \A v \in Users : SeatsOf(gone, v) = IF lobby /\ v = u THEN {} ELSE SeatsOf(m, v)
  BY <1>2, <1>3, <1>5, UserAssumption DEF SeatsOf
<1>7. Single(gone)
  BY <1>0, <1>6 DEF Single
<1>8. InOrder(led)
  <2>1. CASE lobby /\ m.host = u /\ Humans(gone) # {}
    <3> DEFINE h == HostOf(gone)
               n == [gone EXCEPT !.host = h]
    <3>1. h \in Users /\ SeatsOf(gone, h) # {}
      BY <1>5, <2>1, HostSeated
    <3>2. led = n
      BY <2>1
    <3> HIDE DEF h
    <3>3. n \in Room /\ n.host = h /\ n.seats = gone.seats
      BY <1>5, <3>1 DEF Room
    <3> HIDE DEF n, led
    <3>4. Single(n) /\ Hosted(n)
      BY <1>7, <3>1, <3>3 DEF Single, Hosted, SeatsOf
    <3> QED
      BY <3>2, <3>3, <3>4 DEF InOrder
  <2>2. CASE ~lobby \/ Humans(gone) = {}
    BY <1>5, <1>7, <2>2 DEF InOrder, Hosted
  <2>3. CASE lobby /\ m.host # u /\ Humans(gone) # {}
    <3>1. Humans(m) # {}
      BY <1>6, <2>3, HumansBySeat
    <3>2. SeatsOf(m, m.host) # {} /\ m.host \in Users
      BY <2>3, <3>1 DEF InOrder, Hosted, Room
    <3>3. SeatsOf(gone, gone.host) # {}
      BY <1>5, <1>6, <2>3, <3>2
    <3> QED
      BY <1>5, <1>7, <2>3, <3>3 DEF InOrder, Hosted
  <2> QED
    BY <2>1, <2>2, <2>3
<1> HIDE DEF led
<1>9. SamePeople(led, Settle(led))
  BY <1>8, SettleSame DEF InOrder
<1> QED
  BY <1>1, <1>8, <1>9, SamePeopleInOrder

LEMMA FilledInOrder ==
  ASSUME NEW m, InOrder(m)
  PROVE  /\ InOrder(FillBots(m)) /\ InOrder(Start(m)) /\ InOrder(Start(FillBots(m)))
         /\ SamePeople(m, FillBots(m))
<1>1. InOrder(FillBots(m)) /\ SamePeople(m, FillBots(m))
  BY FillBotsSame, SamePeopleInOrder DEF InOrder
<1> QED
  BY <1>1, StartInOrder DEF InOrder

LEMMA SetReadyInOrder ==
  ASSUME NEW m, InOrder(m), NEW u \in Users, NEW ready \in BOOLEAN, NEW n \in SetReady(m, u, ready)
  PROVE  InOrder(n)
<1>0. m \in Room
  BY DEF InOrder
<1> DEFINE s == [i \in DOMAIN m.seats |->
                   IF i \in SeatsOf(m, u) THEN [m.seats[i] EXCEPT !.ready = ready, !.on = TRUE]
                   ELSE m.seats[i]]
           seated == [m EXCEPT !.seats = s]
           filled == IF m.fill THEN FillBots(seated) ELSE seated
<1>1. n \in {Start(filled), filled}
  BY DEF SetReady
<1>2. s \in [DOMAIN m.seats -> Seat] /\ \A i \in DOMAIN m.seats : s[i].who = m.seats[i].who
  BY <1>0, SeatsOfRoom, ReadiedSeat
<1> HIDE DEF s
<1>3. SamePeople(m, seated)
  BY <1>0, <1>2, ReseatedSame
<1> HIDE DEF seated
<1>4. InOrder(seated)
  BY <1>3, SamePeopleInOrder
<1> QED
  BY <1>1, <1>4, FilledInOrder

LEMMA StartByHostInOrder ==
  ASSUME NEW m, InOrder(m), NEW n \in StartByHost(m)
  PROVE  InOrder(n)
<1>1. n \in {Start(m), Start(FillBots(m))}
  BY DEF StartByHost
<1> QED
  BY <1>1, FilledInOrder

LEMMA SettingsSame ==
  ASSUME NEW m \in Room, NEW size \in 0 .. MaxSeats, NEW fill \in BOOLEAN,
         NEW n \in Settings(m, size, fill)
  PROVE  SamePeople(m, n)
<1> DEFINE changed == size # Len(m.seats) \/ fill # m.fill
           seat(i) == IF i \in DOMAIN m.seats THEN m.seats[i] ELSE Vacant
           s == [i \in 1 .. size |-> Rearranged(seat(i), changed)]
<1>1. /\ size >= MinPlayers /\ \A i \in Taken(m) : i <= size
      /\ n = [m EXCEPT !.fill = fill, !.seats = s]
  BY DEF Settings
<1>2. changed \in BOOLEAN
  OBVIOUS
<1> HIDE DEF changed
<1>3. ASSUME NEW x \in Seat PROVE Rearranged(x, changed) \in Seat /\ Rearranged(x, changed).who = x.who
  BY <1>2, <1>3 DEF Rearranged, Seat, SeatedBot
<1>4. ASSUME NEW i \in 1 .. size PROVE seat(i) \in Seat
  BY SeatsOfRoom DEF Vacant, Seat
<1>5. /\ s \in [1 .. size -> Seat]
      /\ \A i \in 1 .. size : s[i].who = IF i \in DOMAIN m.seats THEN m.seats[i].who ELSE None
  BY <1>3, <1>4 DEF Vacant
<1> HIDE DEF s
<1>6. s \in Seats
  BY <1>1, <1>5, SeatsAssumption DEF Seats
<1>7. n \in Room /\ n.seats = s /\ n.host = m.host /\ n.status = m.status
  BY <1>1, <1>6 DEF Room
<1>8. ASSUME NEW u \in Users PROVE SeatsOf(n, u) = SeatsOf(m, u)
  <2>1. \A i \in SeatsOf(m, u) : i \in 1 .. size
    BY <1>1, LenOfRoom, UserAssumption DEF SeatsOf, Taken
  <2> QED
    BY <1>5, <1>7, <2>1, UserAssumption DEF SeatsOf
<1> QED
  BY <1>7, <1>8 DEF SamePeople

LEMMA NewRoomInOrder ==
  ASSUME NEW u \in Users, NEW size \in 2 .. MaxSeats, NEW fill \in BOOLEAN
  PROVE  InOrder(NewRoom(u, size, fill))
<1> DEFINE s == [i \in 1 .. size |-> IF i = 1 THEN [Vacant EXCEPT !.who = u] ELSE Vacant]
           n == NewRoom(u, size, fill)
<1>1. s \in [1 .. size -> Seat] /\ \A i \in 1 .. size : s[i].who = IF i = 1 THEN u ELSE None
  BY DEF Vacant, Seat
<1>2. n.seats = s /\ n.host = u
  BY DEF NewRoom
<1> HIDE DEF s
<1>3. s \in Seats
  BY <1>1 DEF Seats
<1>4. n \in Room
  BY <1>2, <1>3 DEF NewRoom, Room, Statuses, Pauses
<1> HIDE DEF n
<1>5. \A v \in Users : SeatsOf(n, v) = IF v = u THEN {1} ELSE {}
  BY <1>1, <1>2, UserAssumption, SeatsAssumption DEF SeatsOf
<1> QED
  BY <1>2, <1>4, <1>5 DEF n, InOrder, Single, Hosted

LEMMA OutcomeInOrder ==
  ASSUME NEW kind \in AllKinds, NEW arg \in 0 .. MaxSeats, NEW u \in Users, NEW m, InOrder(m),
         NEW n \in Outcome(kind, arg, u, m)
  PROVE  InOrder(n)
<1>0. m \in Room /\ m.fill \in BOOLEAN /\ Len(m.seats) \in 0 .. MaxSeats
  BY LenOfRoom DEF InOrder, Room
<1>1. CASE kind \in Joins
  BY <1>1, JoinInOrder DEF Outcome
<1>2. CASE kind = "leave"
  BY <1>2, DepartInOrder DEF Outcome, Joins
<1>3. CASE kind \in {"ready", "unready"}
  BY <1>3, SetReadyInOrder DEF Outcome, Joins, HostKinds
<1>4. CASE kind = "start"
  BY <1>4, StartByHostInOrder DEF Outcome, Joins, HostKinds
<1>5. CASE kind = "addBot"
  BY <1>0, <1>5, AddBotSame, SamePeopleInOrder DEF Outcome, Joins, HostKinds
<1>6. CASE kind = "removeBot"
  BY <1>0, <1>6, RemoveBotSame, SamePeopleInOrder DEF Outcome, Joins, HostKinds
<1>7. CASE kind = "resize"
  BY <1>0, <1>7, SettingsSame, SamePeopleInOrder DEF Outcome, Joins, HostKinds
<1>8. CASE kind = "setFill"
  BY <1>0, <1>8, SettingsSame, SamePeopleInOrder DEF Outcome, Joins, HostKinds
<1> QED
  BY <1>1, <1>2, <1>3, <1>4, <1>5, <1>6, <1>7, <1>8 DEF AllKinds, HostKinds
-----------------------------------------------------------------------------
(***************************************************************************)
(* Who loses a seat in what user u asks for: u, or whoever is not ready    *)
(* when the game starts.  And no request closes a room.                    *)
(***************************************************************************)
Spared(m, n, u) ==
  \A v \in Users : (SeatsOf(m, v) # {} /\ SeatsOf(n, v) = {}) =>
    v = u \/ (m.status = "LOBBY" /\ n.status = "IN_GAME")
Near(m, n) == n.archived = m.archived /\ (n.status = m.status \/ n.status = "IN_GAME")

LEMMA NearOpen == ASSUME NEW m, NEW n, Near(m, n), Closed(n) PROVE Closed(m)
BY DEF Near, Closed

LEMMA SettleNear == ASSUME NEW m \in Room PROVE Near(m, Settle(m)) /\ Settle(m).status = m.status
BY DEF Near, Settle, Resume, Room

LEMMA SyncNear == ASSUME NEW m \in Room, NEW ids PROVE Near(m, Sync(m, ids))
<1> DEFINE s == [i \in DOMAIN m.seats |->
                   IF i \in Humans(m)
                   THEN Resynced(m.seats[i], m.seats[i].who \in ids, m.status = "LOBBY")
                   ELSE m.seats[i]]
           ws == m.watchers \cap ids
           n == [m EXCEPT !.watchers = ws, !.seats = s]
<1>1. Sync(m, ids) = Settle(n)
  BY DEF Sync
<1> HIDE DEF s
<1>2. n.archived = m.archived /\ n.status = m.status /\ DOMAIN n = DOMAIN m
      /\ DOMAIN m = {"status", "host", "seats", "watchers", "paused", "empty", "archived", "fill"}
  BY DEF Room
<1> HIDE DEF n
<1>3. Settle(n).archived = n.archived /\ Settle(n).status = n.status
  BY <1>2 DEF Settle, Resume
<1> QED
  BY <1>1, <1>2, <1>3 DEF Near

LEMMA CleanupNear == ASSUME NEW m \in Room, Closed(Cleanup(m, FALSE)) PROVE Closed(m)
<1>1. CASE m.status = "LOBBY"
  BY <1>1 DEF Cleanup, Room, Closed
<1>2. CASE m.status = "IN_GAME" /\ Unattended(m)
  BY <1>2 DEF Cleanup, Room, Closed
<1>3. CASE m.status = "IN_GAME" /\ ~Unattended(m)
  BY <1>3 DEF Cleanup, Resume, Room, Closed
<1>4. CASE m.status = "FINISHED"
  BY <1>4 DEF Cleanup, Room, Closed
<1>5. CASE m.status \notin {"LOBBY", "IN_GAME", "FINISHED"}
  BY <1>5 DEF Cleanup
<1> QED
  BY <1>1, <1>2, <1>3, <1>4, <1>5

LEMMA SamePeopleSpared == ASSUME NEW m, NEW n, NEW u, SamePeople(m, n) PROVE Spared(m, n, u)
BY DEF SamePeople, Spared

LEMMA JoinSpared ==
  ASSUME NEW m \in Room, NEW u \in Users, NEW watch \in BOOLEAN, NEW n \in JoinCandidate(m, u, watch)
  PROVE  Spared(m, n, u) /\ Near(m, n)
<1>0. DOMAIN m = {"status", "host", "seats", "watchers", "paused", "empty", "archived", "fill"}
  BY DEF Room
<1>1. ASSUME NEW s, NEW k, k = [m EXCEPT !.seats = s]
      PROVE  /\ RepairHost(k).seats = s /\ Near(m, RepairHost(k))
             /\ Resume(RepairHost(k)).seats = s /\ Near(m, Resume(RepairHost(k)))
  <2>1. k.seats = s /\ k.status = m.status /\ k.archived = m.archived /\ DOMAIN k = DOMAIN m
    BY <1>0, <1>1
  <2>2. /\ RepairHost(k).seats = s /\ RepairHost(k).status = m.status /\ RepairHost(k).archived = m.archived
        /\ DOMAIN RepairHost(k) = DOMAIN m
    BY <1>0, <2>1 DEF RepairHost
  <2>3. /\ Resume(RepairHost(k)).seats = s /\ Resume(RepairHost(k)).status = m.status
        /\ Resume(RepairHost(k)).archived = m.archived
    BY <1>0, <2>2 DEF Resume
  <2> QED
    BY <2>2, <2>3 DEF Near
<1>2. CASE SeatsOf(m, u) # {}
  <2> DEFINE i == Min(SeatsOf(m, u))
             s == [m.seats EXCEPT ![i].on = TRUE]
             k == [m EXCEPT !.seats = s]
  <2>1. n = Resume(RepairHost(k))
    BY <1>2 DEF JoinCandidate
  <2>2. SeatsOf(m, u) \in SUBSET Nat /\ i \in DOMAIN m.seats
    BY <1>2, SeatsOfRoom, MinIsLeast DEF SeatsOf
  <2> HIDE DEF i
  <2>3. DOMAIN s = DOMAIN m.seats /\ \A j \in DOMAIN m.seats : s[j].who = m.seats[j].who
    BY <2>2, SeatsOfRoom DEF Seat
  <2> HIDE DEF s
  <2>4. n.seats = s /\ Near(m, n)
    BY <1>1, <2>1
  <2> QED
    BY <2>3, <2>4 DEF Spared, SeatsOf
<1>3. CASE SeatsOf(m, u) = {} /\ (watch \/ m.status # "LOBBY")
  <2>1. n = [m EXCEPT !.watchers = @ \cup {u}]
    BY <1>3 DEF JoinCandidate
  <2>2. n.seats = m.seats /\ n.status = m.status /\ n.archived = m.archived
    BY <1>0, <2>1
  <2> QED
    BY <2>2 DEF Spared, Near, SeatsOf
<1>4. CASE SeatsOf(m, u) = {} /\ ~watch /\ m.status = "LOBBY"
  <2>1. PICK i \in Open(m) : n = RepairHost([m EXCEPT !.seats[i] = [@ EXCEPT !.who = u, !.on = TRUE]])
    BY <1>4 DEF JoinCandidate
  <2> DEFINE s == [m.seats EXCEPT ![i] = [m.seats[i] EXCEPT !.who = u, !.on = TRUE]]
             k == [m EXCEPT !.seats = s]
  <2>2. n = RepairHost(k)
    BY <2>1
  <2>3. DOMAIN s = DOMAIN m.seats /\ \A j \in DOMAIN m.seats : m.seats[j].who \in Users => s[j].who = m.seats[j].who
    BY SeatsOfRoom, UserAssumption DEF Seat, Open, Taken
  <2> HIDE DEF s
  <2>4. n.seats = s /\ Near(m, n)
    BY <1>1, <2>2
  <2> QED
    BY <2>3, <2>4 DEF Spared, SeatsOf
<1> QED
  BY <1>2, <1>3, <1>4

LEMMA DepartSpared == ASSUME NEW m \in Room, NEW u \in Users PROVE Spared(m, Depart(m, u), u) /\ Near(m, Depart(m, u))
<1>0. DOMAIN m = {"status", "host", "seats", "watchers", "paused", "empty", "archived", "fill"}
  BY DEF Room
<1> DEFINE lobby == m.status = "LOBBY"
           s == [i \in DOMAIN m.seats |->
                   IF i \notin SeatsOf(m, u) THEN m.seats[i]
                   ELSE IF lobby THEN Vacant ELSE [m.seats[i] EXCEPT !.ready = FALSE, !.on = FALSE]]
           gone == [m EXCEPT !.watchers = @ \ {u}, !.seats = s]
           led == IF lobby /\ m.host = u /\ Humans(gone) # {}
                  THEN [gone EXCEPT !.host = HostOf(gone)] ELSE gone
<1>1. Depart(m, u) = Settle(led)
  BY DEF Depart
<1>2. DOMAIN s = DOMAIN m.seats /\ \A i \in DOMAIN m.seats : m.seats[i].who # u => s[i].who = m.seats[i].who
  BY DEF SeatsOf
<1> HIDE DEF s
<1>3. gone.seats = s /\ gone.status = m.status /\ gone.archived = m.archived /\ DOMAIN gone = DOMAIN m
  BY <1>0
<1> HIDE DEF gone
<1>4. led.seats = s /\ led.status = m.status /\ led.archived = m.archived /\ DOMAIN led = DOMAIN m
  BY <1>0, <1>3
<1> HIDE DEF led
<1>5. Settle(led).seats = s /\ Settle(led).status = m.status /\ Settle(led).archived = m.archived
  BY <1>0, <1>4 DEF Settle, Resume
<1>6. Depart(m, u).seats = s /\ Depart(m, u).status = m.status /\ Depart(m, u).archived = m.archived
  BY <1>1, <1>5
<1> QED
  BY <1>2, <1>6 DEF Spared, Near, SeatsOf
LEMMA StartSpared ==
  ASSUME NEW m, NEW k \in Room, k.status = "LOBBY" => m.status = "LOBBY", NEW u, NEW n \in {k, Start(k), FillBots(k), Start(FillBots(k))},
         k.status = "LOBBY", m.archived = k.archived, \A v \in Users : SeatsOf(k, v) = SeatsOf(m, v)
  PROVE  Spared(m, n, u) /\ Near(m, n)
<1>0. DOMAIN k = {"status", "host", "seats", "watchers", "paused", "empty", "archived", "fill"}
  BY DEF Room
<1>1. /\ FillBots(k).archived = k.archived /\ FillBots(k).status = k.status /\ DOMAIN FillBots(k) = DOMAIN k
      /\ SamePeople(k, FillBots(k))
  BY <1>0, FillBotsSame DEF FillBots
<1>2. ASSUME NEW x, DOMAIN x = DOMAIN k
      PROVE  Start(x).archived = x.archived /\ Start(x).status = "IN_GAME"
  BY <1>0, <1>2 DEF Start
<1>3. CASE n \in {k, FillBots(k)}
  BY <1>1, <1>3 DEF Spared, Near, SamePeople
<1>4. CASE n \in {Start(k), Start(FillBots(k))}
  BY <1>1, <1>2, <1>4 DEF Spared, Near
<1> QED
  BY <1>3, <1>4

LEMMA SetReadySpared ==
  ASSUME NEW m \in Room, m.status = "LOBBY", NEW u \in Users, NEW ready \in BOOLEAN, NEW n \in SetReady(m, u, ready)
  PROVE  Spared(m, n, u) /\ Near(m, n)
<1>0. DOMAIN m = {"status", "host", "seats", "watchers", "paused", "empty", "archived", "fill"}
  BY DEF Room
<1> DEFINE s == [i \in DOMAIN m.seats |->
                   IF i \in SeatsOf(m, u) THEN [m.seats[i] EXCEPT !.ready = ready, !.on = TRUE]
                   ELSE m.seats[i]]
           seated == [m EXCEPT !.seats = s]
           filled == IF m.fill THEN FillBots(seated) ELSE seated
<1>1. n \in {Start(filled), filled}
  BY DEF SetReady
<1>2. s \in [DOMAIN m.seats -> Seat] /\ \A i \in DOMAIN m.seats : s[i].who = m.seats[i].who
  BY SeatsOfRoom, ReadiedSeat
<1> HIDE DEF s
<1>3. SamePeople(m, seated)
  BY <1>2, ReseatedSame
<1>4. seated.status = m.status /\ seated.archived = m.archived
  BY <1>0
<1> HIDE DEF seated
<1>5. seated \in Room /\ seated.status = "LOBBY" /\ \A v \in Users : SeatsOf(seated, v) = SeatsOf(m, v)
  BY <1>3, <1>4 DEF SamePeople
<1>6. n \in {seated, Start(seated), FillBots(seated), Start(FillBots(seated))}
  BY <1>1
<1> HIDE DEF filled
<1> QED
  BY <1>4, <1>5, <1>6, StartSpared

LEMMA OutcomeSpared ==
  ASSUME NEW kind \in AllKinds, NEW arg \in 0 .. MaxSeats, NEW u \in Users, NEW m \in Room,
         NEW n \in Outcome(kind, arg, u, m)
  PROVE  Spared(m, n, u) /\ Near(m, n)
<1>0. /\ m.fill \in BOOLEAN /\ Len(m.seats) \in 0 .. MaxSeats
      /\ DOMAIN m = {"status", "host", "seats", "watchers", "paused", "empty", "archived", "fill"}
  BY LenOfRoom DEF Room
<1>1. CASE kind \in Joins
  BY <1>1, JoinSpared DEF Outcome
<1>2. CASE kind = "leave"
  BY <1>2, DepartSpared DEF Outcome, Joins
<1>3. CASE kind \in {"ready", "unready"}
  BY <1>3, SetReadySpared DEF Outcome, Joins, HostKinds
<1>4. CASE kind = "start"
  <2>1. m.status = "LOBBY" /\ n \in StartByHost(m)
    BY <1>4 DEF Outcome, Joins, HostKinds
  <2>2. n \in {m, Start(m), FillBots(m), Start(FillBots(m))}
    BY <2>1 DEF StartByHost
  <2> QED
    BY <2>1, <2>2, StartSpared
<1>5. CASE kind = "addBot"
  <2>1. n \in AddBot(m)
    BY <1>5 DEF Outcome, Joins, HostKinds
  <2>2. n.archived = m.archived /\ n.status = m.status
    BY <1>0, <2>1 DEF AddBot
  <2> QED
    BY <2>1, <2>2, AddBotSame, SamePeopleSpared DEF Near
<1>6. CASE kind = "removeBot"
  <2>1. n \in RemoveBot(m, arg)
    BY <1>6 DEF Outcome, Joins, HostKinds
  <2>2. n.archived = m.archived /\ n.status = m.status
    BY <1>0, <2>1 DEF RemoveBot
  <2> QED
    BY <2>1, <2>2, RemoveBotSame, SamePeopleSpared DEF Near
<1>7. CASE kind \in {"resize", "setFill"}
  <2>1. PICK size \in 0 .. MaxSeats, fill \in BOOLEAN : n \in Settings(m, size, fill)
    BY <1>0, <1>7 DEF Outcome, Joins, HostKinds
  <2>2. n.archived = m.archived /\ n.status = m.status
    BY <1>0, <2>1 DEF Settings
  <2> QED
    BY <2>1, <2>2, SettingsSame, SamePeopleSpared DEF Near
<1> QED
  BY <1>1, <1>2, <1>3, <1>4, <1>5, <1>6, <1>7 DEF AllKinds, HostKinds

-----------------------------------------------------------------------------
(***************************************************************************)
(* The inductive invariant.  Objects and stored rooms are in order; a      *)
(* worker's job Fits the heap of n objects and the set S of stored rooms.  *)
(***************************************************************************)
Stored == {r \in Rooms : store[r] # None}

\* Who may be where with a job of which kind.
Placed(w, j) ==
  /\ j.kind \in AllKinds => w \in Conns
  /\ j.kind = "cleanup" => w \in {Cleaner, Creator}
  /\ j.kind \notin AllKinds => j.from = NoRoom
  /\ j.kind # "none" => j.room \in Rooms
  /\ j.phase = "loading" => j.kind \in AllKinds
  /\ j.phase \in {"queued", "saving", "saved"} => j.kind # "none"
  /\ j.phase \in {"present", "parting"} => w \in Conns
  /\ j.phase = "sweeping" => w = Creator
  /\ j.phase \in {"present", "syncing"} => j.todo # <<>>

\* Its targets exist, and a clone is of a stored room it holds the queue of.
Fits(w, j, n, S) ==
  /\ j \in Job /\ Placed(w, j)
  /\ \A r \in Rooms : j.target[r] \in 0 .. n
  /\ j.read \subseteq S
  /\ j.kind # "cleanup" =>
       \A r \in Held(j) : r \in S /\ (j.phase \in {"loading", "queued"} => j.target[r] # NoObj)
  /\ \A r \in Rooms : j.new[r] # None =>
       /\ InOrder(j.new[r]) /\ r \in Held(j) \cap S /\ j.target[r] # NoObj
       /\ j.phase \in {"saving", "saved"}
  /\ j.phase \in {"saving", "saved"} => \A r \in Rooms : j.new[r] = None => j.target[r] = NoObj

HeapInv ==
  /\ \A r \in Stored : InOrder(store[r])
  /\ \A i \in 1 .. Len(objs) : InOrder(objs[i])
  /\ \A r \in Rooms : rooms[r] # NoObj => r \in Stored
  /\ \A c \in Conns : at[c] # NoRoom => at[c] \in Stored
JobsInv == \A w \in Workers : Fits(w, job[w], Len(objs), Stored)
\* The rooms created are bounded by the ids there are.
CreatorInv == job[Creator].phase # "idle" => Stored # Rooms
LifeInv == TypeOK /\ HeapInv /\ JobsInv /\ CreatorInv

Bounds == {"create", "ask", "close", "silence", "failure", "outage", "expiry", "finish",
           "stall", "restart"}
LEMMA SpendTyped == ASSUME LifeInv, NEW b \in Bounds, Spend(b) PROVE left' \in Scenario
<1>0. left \in Scenario
  BY DEF LifeInv, TypeOK
<1>1. CASE b = "create"
  BY <1>0, <1>1 DEF Spend, Scenario
<1>2. CASE b = "ask"
  BY <1>0, <1>2 DEF Spend, Scenario
<1>3. CASE b = "close"
  BY <1>0, <1>3 DEF Spend, Scenario
<1>4. CASE b = "silence"
  BY <1>0, <1>4 DEF Spend, Scenario
<1>5. CASE b = "failure"
  BY <1>0, <1>5 DEF Spend, Scenario
<1>6. CASE b = "outage"
  BY <1>0, <1>6 DEF Spend, Scenario
<1>7. CASE b = "expiry"
  BY <1>0, <1>7 DEF Spend, Scenario
<1>8. CASE b = "finish"
  BY <1>0, <1>8 DEF Spend, Scenario
<1>9. CASE b = "stall"
  BY <1>0, <1>9 DEF Spend, Scenario
<1>10. CASE b = "restart"
  BY <1>0, <1>10 DEF Spend, Scenario
<1> QED
  BY <1>1, <1>2, <1>3, <1>4, <1>5, <1>6, <1>7, <1>8, <1>9, <1>10 DEF Bounds

LEMMA WorkersDiffer ==
  /\ Conns \subseteq Workers /\ {Sweeper, Cleaner, Creator} \subseteq Workers
  /\ Creator \notin Conns /\ Sweeper \notin Conns /\ Cleaner \notin Conns
  /\ Creator # Cleaner /\ Creator # Sweeper /\ Cleaner # Sweeper
BY WorkersAssumption DEF Workers, Sweeper, Cleaner, Creator

LEMMA IdleFits == ASSUME NEW w, NEW n \in Nat, NEW S PROVE Fits(w, Idle, n, S)
<1>1. Idle \in Job
  BY SeatsAssumption DEF Idle, Job, Phases, NoRoom, NoObj
<1> QED
  BY <1>1 DEF Fits, Placed, Idle, Held, NoObj, AllKinds, Joins, HostKinds

LEMMA IdleJob ==
  /\ Idle \in Job /\ Idle.kind = "none" /\ Idle.room = NoRoom /\ Idle.from = NoRoom /\ Idle.arg = 0
  /\ Idle.phase = "idle" /\ Idle.read = {} /\ Idle.ids = {} /\ Idle.todo = <<>>
  /\ \A r \in Rooms : Idle.target[r] = NoObj /\ Idle.new[r] = None
BY SeatsAssumption DEF Idle, Job, Phases, NoRoom, NoObj

\* Nothing to do but rooms to sync or to clean.
LEMMA TodoFits ==
  ASSUME NEW w, NEW n \in Nat, NEW S, NEW phase \in Phases, NEW todo \in Seq(Rooms),
         phase \in {"present", "parting"} => w \in Conns,
         phase = "sweeping" => w = Creator,
         phase \in {"present", "syncing"} => todo # <<>>,
         phase \notin {"loading", "queued", "saving", "saved"}
  PROVE  Fits(w, [Idle EXCEPT !.phase = phase, !.todo = todo], n, S)
<1> DEFINE k == [Idle EXCEPT !.phase = phase, !.todo = todo]
<1>1. k \in Job /\ k.kind = Idle.kind /\ k.room = Idle.room /\ k.from = Idle.from /\ k.phase = phase
      /\ k.todo = todo /\ k.read = Idle.read /\ k.target = Idle.target /\ k.new = Idle.new
  BY IdleJob DEF Job
<1>2. Held(k) = {}
  BY <1>1, IdleJob DEF Held
<1> HIDE DEF k
<1>3. Placed(w, k)
  BY <1>1, IdleJob DEF Placed, AllKinds, Joins, HostKinds
<1>4. Fits(w, k, n, S)
  BY <1>1, <1>2, <1>3, IdleJob DEF Fits, NoObj
<1> QED
  BY <1>4 DEF k

LEMMA FitsLater ==
  ASSUME NEW w, NEW j, NEW n \in Nat, NEW S, Fits(w, j, n, S), NEW k \in Nat, n <= k, NEW T, S \subseteq T
  PROVE  Fits(w, j, k, T)
BY DEF Fits

\* One worker moves on and the others' jobs still fit.
LEMMA JobMoves ==
  ASSUME LifeInv, NEW w \in Workers, NEW j, job' = [job EXCEPT ![w] = j],
         objs' \in Seq(Room), Len(objs) <= Len(objs'), Stored \subseteq Stored',
         Fits(w, j, Len(objs'), Stored')
  PROVE  JobsInv' /\ job' \in [Workers -> Job]
<1>1. Len(objs) \in Nat /\ Len(objs') \in Nat
  BY LenProperties DEF LifeInv, TypeOK
<1>2. ASSUME NEW v \in Workers PROVE Fits(v, job'[v], Len(objs'), Stored')
  <2>1. CASE v = w
    BY <2>1 DEF LifeInv, TypeOK
  <2>2. CASE v # w
    <3>1. job'[v] = job[v]
      BY <2>2 DEF LifeInv, TypeOK
    <3> QED
      BY <1>1, <3>1, FitsLater DEF LifeInv, JobsInv
  <2> QED
    BY <2>1, <2>2
<1>3. JobsInv'
  BY <1>2 DEF JobsInv
<1>4. \A v \in Workers : job'[v] \in Job
  BY <1>2 DEF Fits
<1> QED
  BY <1>3, <1>4 DEF LifeInv, TypeOK
\* A step that touches neither the store nor the objects.
LEMMA TableMoves ==
  ASSUME LifeInv, NEW w \in Workers, NEW j, job' = [job EXCEPT ![w] = j], Fits(w, j, Len(objs), Stored),
         w = Creator /\ j.phase # "idle" => Stored # Rooms,
         UNCHANGED <<store, objs, scenario>>,
         line' \in [Rooms -> Seq(Workers)],
         rooms' \in [Rooms -> 0 .. Len(objs)], \A r \in Rooms : rooms'[r] # NoObj => r \in Stored,
         at' \in [Conns -> Rooms \cup {NoRoom}], \A c \in Conns : at'[c] # NoRoom => at'[c] \in Stored,
         pres' \in [Conns -> Rooms \cup {NoRoom}], left' \in Scenario
  PROVE  LifeInv'
<1>1. Stored' = Stored /\ objs' = objs /\ store' = store /\ scenario' = scenario
  BY DEF Stored
<1>2. Len(objs) \in Nat /\ objs \in Seq(Room)
  BY LenProperties DEF LifeInv, TypeOK
<1>3. JobsInv' /\ job' \in [Workers -> Job]
  <2>1. Fits(w, j, Len(objs'), Stored') /\ Len(objs) <= Len(objs') /\ Stored \subseteq Stored'
    BY <1>1, <1>2
  <2> QED
    BY <1>1, <1>2, <2>1, JobMoves
<1>4. HeapInv'
  BY <1>1 DEF LifeInv, HeapInv
<1>5. CreatorInv'
  BY <1>1, WorkersDiffer DEF LifeInv, CreatorInv, TypeOK
<1>6. TypeOK'
  BY <1>1, <1>3 DEF LifeInv, TypeOK
<1> QED
  BY <1>3, <1>4, <1>5, <1>6 DEF LifeInv

LEMMA LineTyped ==
  ASSUME LifeInv, NEW w \in Workers
  PROVE  /\ Dequeued(w) \in [Rooms -> Seq(Workers)]
         /\ \A r \in Rooms : [line EXCEPT ![r] = Append(@, w)] \in [Rooms -> Seq(Workers)]
<1>1. \A r \in Rooms : line[r] \in Seq(Workers)
  BY DEF LifeInv, TypeOK
<1>2. \A r \in Rooms : Append(line[r], w) \in Seq(Workers)
  BY <1>1, AppendProperties
<1>3. \A r \in Rooms : line[r] # <<>> => Tail(line[r]) \in Seq(Workers)
  BY <1>1, HeadTailProperties
<1>4. Dequeued(w) \in [Rooms -> Seq(Workers)]
  BY <1>1, <1>3 DEF Dequeued
<1> QED
  BY <1>2, <1>4 DEF LifeInv, TypeOK

LEMMA HeldRooms ==
  ASSUME NEW j \in Job, j.room \in Rooms
  PROVE  /\ Held(j) \subseteq Rooms /\ Held(j) # {}
         /\ j.from = NoRoom => Held(j) = {j.room}
         /\ Min(Held(j)) \in Held(j) /\ Max(Held(j)) \in Held(j)
<1>1. j.from \in Rooms \cup {NoRoom}
  BY DEF Job
<1>2. Held(j) = {j.room} \cup (IF j.from = NoRoom THEN {} ELSE {j.from})
  BY RoomsAssumption DEF Held
<1>3. j.room \in Nat /\ (j.from # NoRoom => j.from \in Nat)
  BY <1>1, RoomsAssumption
<1>4. \E x \in Held(j) : \A y \in Held(j) : x =< y
  BY <1>1, <1>2, <1>3
<1>5. \E x \in Held(j) : \A y \in Held(j) : x >= y
  BY <1>1, <1>2, <1>3
<1>6. Min(Held(j)) \in Held(j)
  BY <1>4 DEF Min
<1>7. Max(Held(j)) \in Held(j)
  BY <1>5 DEF Max
<1> QED
  BY <1>1, <1>2, <1>6, <1>7

LEMMA ThenFits ==
  ASSUME LifeInv, NEW w \in Workers, job[w].phase \in {"queued", "saved"}
  PROVE  /\ Fits(w, Then(w), Len(objs), Stored)
         /\ w = Creator => Stored # Rooms
<1> DEFINE j == job[w]
           n == Len(objs)
<1>0. n \in Nat /\ j \in Job /\ Placed(w, j) /\ j.kind # "none"
  BY LenProperties DEF LifeInv, TypeOK, JobsInv, Fits, Placed
<1>1. w = Creator => Stored # Rooms
  BY DEF LifeInv, CreatorInv
<1>2. j.room \in Rooms /\ j.from \in Rooms \cup {NoRoom} /\ j.todo \in Seq(Rooms)
  BY <1>0 DEF Placed, Job
<1>3. Fits(w, Idle, n, Stored)
  BY <1>0, IdleFits
<1>4. ASSUME NEW phase \in Phases, NEW todo \in Seq(Rooms),
             phase \in {"present", "parting"} => w \in Conns,
             phase = "sweeping" => w = Creator,
             phase \in {"present", "syncing"} => todo # <<>>,
             phase \notin {"loading", "queued", "saving", "saved"}
      PROVE  Fits(w, [Idle EXCEPT !.phase = phase, !.todo = todo], n, Stored)
  BY <1>0, <1>4, TodoFits
<1>5. CASE j.kind \in Joins
  <2> DEFINE todo == (IF j.from = NoRoom THEN <<>> ELSE <<j.from>>) \o <<j.room>>
  <2>1. todo \in Seq(Rooms) /\ todo # <<>>
    BY <1>2
  <2>2. Then(w) = [Idle EXCEPT !.phase = "present", !.todo = todo]
    BY <1>5 DEF Then, Joins
  <2>3. w \in Conns
    BY <1>0, <1>5 DEF Placed, AllKinds
  <2> HIDE DEF todo
  <2>4. Fits(w, [Idle EXCEPT !.phase = "present", !.todo = todo], n, Stored)
    BY <1>4, <2>1, <2>3 DEF Phases
  <2> QED
    BY <1>1, <2>2, <2>4
<1>6. CASE j.kind = "leave"
  <2>1. Then(w) = [Idle EXCEPT !.phase = "parting", !.todo = <<>>]
    <3>1. [Idle EXCEPT !.phase = "parting"] = [Idle EXCEPT !.phase = "parting", !.todo = <<>>]
      <4>1. Idle \in Job /\ Idle.todo = <<>>
        BY SeatsAssumption DEF Idle, Job, Phases, NoRoom, NoObj
      <4> QED
        BY <4>1 DEF Job
    <3> QED
      BY <1>6, <3>1 DEF Then, Joins
  <2>2. w \in Conns
    BY <1>0, <1>6 DEF Placed, AllKinds
  <2>3. <<>> \in Seq(Rooms)
    OBVIOUS
  <2>4. Fits(w, [Idle EXCEPT !.phase = "parting", !.todo = <<>>], n, Stored)
    BY <1>4, <2>2, <2>3 DEF Phases
  <2> QED
    BY <1>1, <2>1, <2>4
<1>7. CASE j.kind = "sync" /\ j.todo # <<>>
  <2>1. Then(w) = [Idle EXCEPT !.phase = "syncing", !.todo = j.todo]
    BY <1>7 DEF Then, Joins
  <2> QED
    BY <1>1, <1>2, <1>4, <1>7, <2>1 DEF Phases
<1>8. CASE j.kind = "cleanup" /\ w = Creator
  <2>1. Then(w) = [Idle EXCEPT !.phase = "sweeping", !.todo = j.todo]
    BY <1>8 DEF Then, Joins
  <2> QED
    BY <1>1, <1>2, <1>4, <1>8, <2>1 DEF Phases
<1>9. CASE /\ j.kind \notin Joins /\ j.kind # "leave"
           /\ ~(j.kind = "sync" /\ j.todo # <<>>) /\ ~(j.kind = "cleanup" /\ w = Creator)
  BY <1>1, <1>3, <1>9 DEF Then
<1> QED
  BY <1>5, <1>6, <1>7, <1>8, <1>9
-----------------------------------------------------------------------------
(* The ends of a task, and its saving.                                     *)

LEMMA ConcludeTables ==
  ASSUME LifeInv, NEW w \in Workers, job[w].phase \in {"queued", "saved"}, Conclude(w)
  PROVE  /\ rooms' \in [Rooms -> 0 .. Len(objs)] /\ \A r \in Rooms : rooms'[r] # NoObj => r \in Stored
         /\ at' \in [Conns -> Rooms \cup {NoRoom}] /\ \A c \in Conns : at'[c] # NoRoom => at'[c] \in Stored
<1> DEFINE j == job[w]
<1>0. /\ Len(objs) \in Nat /\ j \in Job /\ Fits(w, j, Len(objs), Stored) /\ Placed(w, j) /\ j.kind # "none"
      /\ rooms \in [Rooms -> 0 .. Len(objs)] /\ at \in [Conns -> Rooms \cup {NoRoom}]
  BY LenProperties DEF LifeInv, TypeOK, JobsInv, Fits, Placed
<1>1. rooms' = rooms \/ rooms' = [rooms EXCEPT ![j.room] = NoObj]
  BY DEF Conclude
<1>2. rooms' \in [Rooms -> 0 .. Len(objs)] /\ \A r \in Rooms : rooms'[r] # NoObj => r \in Stored
  BY <1>0, <1>1 DEF LifeInv, HeapInv, NoObj
<1>3. CASE j.kind \in Joins
  <2>1. at' = [at EXCEPT ![w] = j.room]
    BY <1>3 DEF Conclude, Joins
  <2>2. j.room \in Held(j) /\ j.room \in Rooms
    BY <1>0, RoomsAssumption DEF Placed, Held
  <2>3. j.room \in Stored
    BY <1>0, <1>3, <2>2 DEF Fits, Joins
  <2> QED
    BY <1>0, <1>2, <2>1, <2>2, <2>3 DEF LifeInv, HeapInv
<1>4. CASE j.kind = "leave"
  <2>1. at' = [at EXCEPT ![w] = IF @ = j.room THEN NoRoom ELSE @]
    BY <1>4 DEF Conclude, Joins
  <2> QED
    BY <1>0, <1>2, <2>1 DEF LifeInv, HeapInv
<1>5. CASE j.kind \notin Joins /\ j.kind # "leave"
  <2>1. at' = [c \in Conns |-> IF c \in Evicted(w) THEN NoRoom ELSE at[c]]
    BY <1>5 DEF Conclude
  <2> QED
    BY <1>0, <1>2, <2>1 DEF LifeInv, HeapInv
<1> QED
  BY <1>3, <1>4, <1>5

\* Who loses a seat when worker w turns room m into n.
Spares(w, m, n) ==
  \A v \in Users : (SeatsOf(m, v) # {} /\ SeatsOf(n, v) = {}) =>
    w \in Conns /\ (v = User[w] \/ (m.status = "LOBBY" /\ n.status = "IN_GAME"))

\* The clones a task may save: rooms in order, in whose queue it is.
Savable(w, clones) ==
  /\ clones \in [Rooms -> Room \cup {None}]
  /\ \A r \in Rooms : clones[r] # None =>
       /\ InOrder(clones[r]) /\ r \in Held(job[w]) \cap Stored /\ Obj(w, r) # NoObj
       /\ Spares(w, objs[Obj(w, r)], clones[r])
\* None of them closes a room.
StaysOpen(w, clones) ==
  \A r \in Rooms : (clones[r] # None /\ Closed(clones[r])) => Closed(objs[Obj(w, r)])

LEMMA ObjTyped ==
  ASSUME LifeInv, NEW w \in Workers, NEW r \in Rooms
  PROVE  /\ Obj(w, r) \in 0 .. Len(objs)
         /\ Obj(w, r) # NoObj => InOrder(objs[Obj(w, r)])
<1>1. Obj(w, r) \in 0 .. Len(objs)
  BY DEF LifeInv, TypeOK, JobsInv, Fits, Obj
<1>2. Len(objs) \in Nat
  BY LenProperties DEF LifeInv, TypeOK
<1>3. Obj(w, r) # NoObj => Obj(w, r) \in 1 .. Len(objs)
  BY <1>1, <1>2 DEF NoObj
<1> QED
  BY <1>1, <1>3 DEF LifeInv, HeapInv

LEMMA SavingFits ==
  ASSUME LifeInv, NEW w \in Workers, job[w].phase = "queued", NEW clones, Savable(w, clones)
  PROVE  Fits(w, [job[w] EXCEPT !.phase = "saving", !.new = clones,
                    !.target = [r \in Rooms |-> IF clones[r] = None THEN NoObj ELSE Obj(w, r)]],
              Len(objs), Stored)
<1> DEFINE j == job[w]
           tgt == [r \in Rooms |-> IF clones[r] = None THEN NoObj ELSE Obj(w, r)]
           k == [j EXCEPT !.phase = "saving", !.new = clones, !.target = tgt]
<1>0. Len(objs) \in Nat /\ j \in Job /\ Fits(w, j, Len(objs), Stored) /\ Placed(w, j) /\ j.kind # "none"
  BY LenProperties DEF LifeInv, TypeOK, JobsInv, Fits, Placed
<1>1. /\ tgt \in [Rooms -> 0 .. Len(objs)]
      /\ \A r \in Rooms : tgt[r] = NoObj <=> clones[r] = None
  BY <1>0, ObjTyped DEF Savable, NoObj
<1>2. tgt \in [Rooms -> Nat] /\ clones \in [Rooms -> Room \cup {None}]
  BY <1>0, <1>1 DEF Savable
<1> HIDE DEF tgt
<1>3. /\ k \in Job /\ k.phase = "saving" /\ k.new = clones /\ k.target = tgt
      /\ k.kind = j.kind /\ k.room = j.room /\ k.from = j.from /\ k.read = j.read /\ k.todo = j.todo
  BY <1>0, <1>2 DEF Job, Phases
<1> HIDE DEF k
<1>4. Placed(w, k)
  BY <1>0, <1>3 DEF Placed
<1>5. Held(k) = Held(j)
  BY <1>3 DEF Held
<1>6. \A r \in Rooms : clones[r] # None => InOrder(clones[r]) /\ r \in Held(j) \cap Stored
  BY DEF Savable
<1>7. Fits(w, k, Len(objs), Stored)
  BY <1>0, <1>1, <1>3, <1>4, <1>5, <1>6 DEF Fits
<1> QED
  BY <1>7 DEF k, tgt

\* A task whose turn it is gives up, is done, or starts to save; only cleanup
\* closes a room, when a deadline passes.
Served(w) ==
  \/ GiveUp(w) \/ Conclude(w)
  \/ \E clones \in [Rooms -> Room \cup {None}] :
       /\ Savable(w, clones) /\ StartSave(w, clones)
       /\ StaysOpen(w, clones) \/ left'.expiry < left.expiry
Turn(w) ==
  /\ w \in Workers /\ Running(w) /\ Served(w) /\ left' \in Scenario /\ left'.expiry <= left.expiry
  /\ left'.unloaded = left.unloaded /\ UNCHANGED <<store, objs, pres>>

LEMMA ServedKeeps ==
  ASSUME LifeInv, NEW w \in Workers, job[w].phase = "queued", Served(w),
         UNCHANGED <<store, objs, pres, scenario>>, left' \in Scenario
  PROVE  LifeInv'
<1>0. /\ Len(objs) \in Nat /\ rooms \in [Rooms -> 0 .. Len(objs)] /\ at \in [Conns -> Rooms \cup {NoRoom}]
      /\ line \in [Rooms -> Seq(Workers)] /\ pres' \in [Conns -> Rooms \cup {NoRoom}]
      /\ \A r \in Rooms : rooms[r] # NoObj => r \in Stored
      /\ \A c \in Conns : at[c] # NoRoom => at[c] \in Stored
  BY LenProperties DEF LifeInv, TypeOK, HeapInv
<1>1. CASE GiveUp(w)
  <2>1. Fits(w, Idle, Len(objs), Stored) /\ Idle.phase = "idle"
    BY <1>0, IdleFits DEF Idle
  <2>2. job' = [job EXCEPT ![w] = Idle] /\ line' \in [Rooms -> Seq(Workers)] /\ at' = at /\ rooms' = rooms
    BY <1>1, LineTyped DEF GiveUp
  <2> QED
    BY <1>0, <2>1, <2>2, TableMoves
<1>2. CASE Conclude(w)
  <2>1. Fits(w, Then(w), Len(objs), Stored) /\ (w = Creator => Stored # Rooms)
    BY ThenFits
  <2>2. job' = [job EXCEPT ![w] = Then(w)] /\ line' \in [Rooms -> Seq(Workers)]
    BY <1>2, LineTyped DEF Conclude
  <2> QED
    BY <1>0, <1>2, <2>1, <2>2, ConcludeTables, TableMoves
<1>3. ASSUME NEW clones \in [Rooms -> Room \cup {None}], Savable(w, clones), StartSave(w, clones)
      PROVE  LifeInv'
  <2> DEFINE k == [job[w] EXCEPT !.phase = "saving", !.new = clones,
                     !.target = [r \in Rooms |-> IF clones[r] = None THEN NoObj ELSE Obj(w, r)]]
  <2>1. job' = [job EXCEPT ![w] = k] /\ line' = line /\ at' = at /\ rooms' = rooms
    BY <1>3 DEF StartSave, LifeInv, TypeOK
  <2>2. Fits(w, k, Len(objs), Stored)
    BY <1>3, SavingFits
  <2>3. w = Creator => Stored # Rooms
    BY DEF LifeInv, CreatorInv
  <2> HIDE DEF k
  <2> QED
    BY <1>0, <2>1, <2>2, <2>3, TableMoves
<1> QED
  BY <1>1, <1>2, <1>3 DEF Served
\* One clone, of a room in whose queue the worker is.
LEMMA CloneSavable ==
  ASSUME LifeInv, NEW w \in Workers, NEW r \in Held(job[w]) \cap Stored, Obj(w, r) # NoObj,
         NEW m, InOrder(m), Spares(w, objs[Obj(w, r)], m)
  PROVE  /\ Savable(w, Clone(r, m)) /\ Clone(r, m) \in [Rooms -> Room \cup {None}]
         /\ (Closed(m) => Closed(objs[Obj(w, r)])) => StaysOpen(w, Clone(r, m))
BY NoneAssumption DEF Savable, StaysOpen, Clone, InOrder, Stored

\* What a queued request or sync works on is there.
LEMMA TargetThere ==
  ASSUME LifeInv, NEW w \in Workers, job[w].phase = "queued", job[w].kind # "cleanup"
  PROVE  /\ job[w].room \in Held(job[w]) /\ Held(job[w]) \subseteq Rooms
         /\ \A r \in Held(job[w]) : Obj(w, r) # NoObj /\ r \in Stored /\ InOrder(objs[Obj(w, r)])
<1>1. job[w] \in Job /\ Fits(w, job[w], Len(objs), Stored) /\ Placed(w, job[w])
  BY DEF LifeInv, JobsInv, Fits
<1>2. job[w].room \in Rooms
  BY <1>1 DEF Placed
<1>3. Held(job[w]) \subseteq Rooms /\ job[w].room \in Held(job[w])
  BY <1>1, <1>2, HeldRooms, RoomsAssumption DEF Held
<1>4. \A r \in Held(job[w]) : Obj(w, r) # NoObj /\ r \in Stored
  BY <1>1, <1>3 DEF Fits, Obj
<1> QED
  BY <1>3, <1>4, ObjTyped

LEMMA TurnKeeps == ASSUME LifeInv, NEW w, Turn(w), UNCHANGED scenario PROVE LifeInv'
BY ServedKeeps DEF Turn, Running

LEMMA SparedSpares ==
  ASSUME NEW c \in Conns, NEW m, NEW n, Spared(m, n, User[c]) PROVE Spares(c, m, n)
BY DEF Spared, Spares

LEMMA SamePeopleSpares == ASSUME NEW w, NEW m, NEW n, SamePeople(m, n) PROVE Spares(w, m, n)
BY DEF SamePeople, Spares

LEMMA ServeTurn == ASSUME LifeInv, NEW c \in Conns, Serve(c) PROVE Turn(c)
<1> DEFINE j == job[c]
           m == objs[Obj(c, j.room)]
           made == Outcome(j.kind, j.arg, User[c], m)
<1>1. c \in Workers /\ j.phase = "queued" /\ j.kind \in AllKinds /\ j \in Job /\ User[c] \in Users /\ Running(c)
  BY WorkersDiffer, UserAssumption DEF Serve, Running, LifeInv, TypeOK
<1>2. j.kind # "cleanup"
  BY <1>1 DEF AllKinds, Joins, HostKinds
<1>3. j.room \in Held(j) \cap Stored /\ Obj(c, j.room) # NoObj /\ InOrder(m)
  BY <1>1, <1>2, TargetThere
<1>4. \A n \in made : InOrder(n) /\ Spared(m, n, User[c]) /\ (Closed(n) => Closed(m))
  BY <1>1, <1>3, OutcomeInOrder, OutcomeSpared, NearOpen DEF Job, InOrder
<1>5. Served(c)
  <2>1. CASE made = {} \/ (j.kind = "leave" /\ made = {m})
    BY <2>1 DEF Serve, Served
  <2>2. CASE made # {} /\ ~(j.kind = "leave" /\ made = {m})
    <3> DEFINE n == CHOOSE x \in made : TRUE
    <3>1. n \in made
      BY <2>2
    <3>2. StartSave(c, Clone(j.room, n))
      BY <2>2 DEF Serve
    <3> HIDE DEF n
    <3>3. InOrder(n) /\ Spares(c, m, n) /\ (Closed(n) => Closed(m))
      BY <1>4, <3>1, SparedSpares
    <3>4. /\ Savable(c, Clone(j.room, n)) /\ Clone(j.room, n) \in [Rooms -> Room \cup {None}]
          /\ StaysOpen(c, Clone(j.room, n))
      BY <1>1, <1>3, <3>3, CloneSavable
    <3> QED
      BY <3>2, <3>4 DEF Served
  <2> QED
    BY <2>1, <2>2
<1>6. left' = left /\ left \in Scenario /\ UNCHANGED <<store, objs, pres>>
  BY DEF Serve, LifeInv, TypeOK
<1> QED
  BY <1>1, <1>5, <1>6 DEF Turn, Scenario

LEMMA SwitchTurn == ASSUME LifeInv, NEW c \in Conns, Switch(c) PROVE Turn(c)
<1> DEFINE j == job[c]
           prev == objs[Obj(c, j.from)]
           dest == objs[Obj(c, j.room)]
           made == IF Barred(prev, User[c]) THEN {} ELSE Outcome(j.kind, j.arg, User[c], dest)
<1>1. c \in Workers /\ j.phase = "queued" /\ j.from # NoRoom /\ j \in Job /\ User[c] \in Users /\ Running(c)
  BY WorkersDiffer, UserAssumption DEF Switch, Running, LifeInv, TypeOK
<1>2. j.kind \in AllKinds
  BY <1>1 DEF LifeInv, JobsInv, Fits, Placed
<1>3. j.kind # "cleanup" /\ j.from \in Held(j)
  BY <1>1, <1>2 DEF AllKinds, Joins, HostKinds, Held
<1>4. /\ j.room \in Held(j) \cap Stored /\ Obj(c, j.room) # NoObj /\ InOrder(dest)
      /\ j.from \in Held(j) \cap Stored /\ Obj(c, j.from) # NoObj /\ InOrder(prev)
  BY <1>1, <1>3, TargetThere
<1>5. \A n \in made : InOrder(n) /\ Spared(dest, n, User[c]) /\ (Closed(n) => Closed(dest))
  BY <1>1, <1>2, <1>4, OutcomeInOrder, OutcomeSpared, NearOpen DEF Job, InOrder
<1>6. /\ InOrder(Depart(prev, User[c])) /\ Spares(c, prev, Depart(prev, User[c]))
      /\ Closed(Depart(prev, User[c])) => Closed(prev)
  BY <1>1, <1>4, DepartInOrder, DepartSpared, SparedSpares, NearOpen DEF InOrder
<1>7. Served(c)
  <2>1. CASE made = {}
    BY <2>1 DEF Switch, Served
  <2>2. CASE made # {}
    <3> DEFINE n == CHOOSE x \in made : TRUE
               d == Depart(prev, User[c])
               clones == [Clone(j.room, n) EXCEPT ![j.from] = d]
    <3>1. n \in made
      BY <2>2
    <3>2. StartSave(c, clones)
      BY <2>2 DEF Switch
    <3> HIDE DEF n
    <3>3. InOrder(n) /\ Spares(c, dest, n) /\ (Closed(n) => Closed(dest))
      BY <1>5, <3>1, SparedSpares
    <3>4. /\ Savable(c, Clone(j.room, n)) /\ Clone(j.room, n) \in [Rooms -> Room \cup {None}]
          /\ StaysOpen(c, Clone(j.room, n))
      BY <1>1, <1>4, <3>3, CloneSavable
    <3>5. Savable(c, clones) /\ clones \in [Rooms -> Room \cup {None}] /\ StaysOpen(c, clones)
      <4>1. InOrder(d) /\ d \in Room /\ Spares(c, prev, d) /\ (Closed(d) => Closed(prev))
        BY <1>6 DEF InOrder
      <4> HIDE DEF d
      <4> QED
        BY <1>4, <3>4, <4>1 DEF Savable, StaysOpen
    <3> QED
      BY <3>2, <3>5 DEF Served
  <2> QED
    BY <2>1, <2>2
<1>8. left' = left /\ left \in Scenario /\ UNCHANGED <<store, objs, pres>>
  BY DEF Switch, LifeInv, TypeOK
<1> QED
  BY <1>1, <1>7, <1>8 DEF Turn, Scenario

LEMMA ServeSyncTurn == ASSUME LifeInv, NEW w \in Workers, ServeSync(w) PROVE Turn(w)
<1> DEFINE j == job[w]
           m == objs[Obj(w, j.room)]
           n == Sync(m, j.ids)
<1>1. j.phase = "queued" /\ j.kind # "cleanup" /\ j \in Job /\ Running(w)
  BY DEF ServeSync, Running, LifeInv, TypeOK
<1>2. j.room \in Held(j) \cap Stored /\ Obj(w, j.room) # NoObj /\ InOrder(m)
  BY <1>1, TargetThere
<1>3. InOrder(n) /\ Spares(w, m, n) /\ (Closed(n) => Closed(m))
  BY <1>2, SyncSame, SyncNear, NearOpen, SamePeopleInOrder, SamePeopleSpares DEF InOrder
<1>4. Conclude(w) \/ StartSave(w, Clone(j.room, n))
  BY DEF ServeSync
<1> HIDE DEF n
<1>5. /\ Savable(w, Clone(j.room, n)) /\ Clone(j.room, n) \in [Rooms -> Room \cup {None}]
      /\ StaysOpen(w, Clone(j.room, n))
  BY <1>2, <1>3, CloneSavable
<1>6. Served(w)
  BY <1>4, <1>5 DEF Served
<1>7. left' = left /\ left \in Scenario /\ UNCHANGED <<store, objs, pres>>
  BY DEF ServeSync, LifeInv, TypeOK
<1> QED
  BY <1>1, <1>6, <1>7 DEF Turn, Scenario

LEMMA ServeCleanupTurn ==
  ASSUME LifeInv, NEW w \in Workers, NEW due \in BOOLEAN, ServeCleanup(w, due)
  PROVE  Turn(w)
<1> DEFINE j == job[w]
           m == objs[rooms[j.room]]
           n == Cleanup(m, due)
<1>1. j.phase = "queued" /\ j.kind = "cleanup" /\ j \in Job /\ Running(w)
  BY DEF ServeCleanup, Running, LifeInv, TypeOK
<1>2. j.room \in Rooms /\ j.room \in Held(j)
  BY <1>1, RoomsAssumption DEF LifeInv, JobsInv, Fits, Placed, Held
<1>3. \/ Conclude(w) /\ left' = left
      \/ /\ rooms[j.room] # NoObj /\ StartSave(w, Clone(j.room, n))
         /\ IF due THEN Spend("expiry") ELSE left' = left
  BY DEF ServeCleanup
<1>4. /\ left' \in Scenario /\ left'.expiry <= left.expiry /\ left'.unloaded = left.unloaded
      /\ left' = left \/ left'.expiry < left.expiry
  <2>1. left \in Scenario
    BY DEF LifeInv, TypeOK
  <2>2. CASE left' = left
    BY <2>1, <2>2 DEF Scenario
  <2>3. CASE Spend("expiry")
    BY <2>1, <2>3 DEF Scenario, Spend
  <2> QED
    BY <1>3, <2>2, <2>3
<1>5. ASSUME rooms[j.room] # NoObj
      PROVE  /\ Savable(w, Clone(j.room, n)) /\ Clone(j.room, n) \in [Rooms -> Room \cup {None}]
             /\ ~due => StaysOpen(w, Clone(j.room, n))
  <2>1. j.room \in Stored /\ Obj(w, j.room) = rooms[j.room]
    BY <1>2, <1>5 DEF LifeInv, HeapInv, Obj
  <2>2. InOrder(m)
    BY <1>2, <1>5, <2>1, ObjTyped
  <2>3. InOrder(n) /\ Spares(w, m, n)
    BY <2>2, CleanupSame, SamePeopleInOrder, SamePeopleSpares DEF InOrder
  <2>4. ~due /\ Closed(n) => Closed(m)
    BY <2>2, CleanupNear DEF InOrder
  <2> HIDE DEF n
  <2> QED
    BY <1>2, <1>5, <2>1, <2>3, <2>4, CloneSavable
<1>6. Served(w)
  <2> HIDE DEF n
  <2>1. CASE Conclude(w)
    BY <2>1 DEF Served
  <2>2. CASE rooms[j.room] # NoObj /\ StartSave(w, Clone(j.room, n)) /\ (IF due THEN Spend("expiry") ELSE left' = left)
    <3>1. StaysOpen(w, Clone(j.room, n)) \/ left'.expiry < left.expiry
      <4>1. CASE due
        <5>1. left.expiry \in Nat /\ Spend("expiry")
          BY <2>2, <4>1 DEF LifeInv, TypeOK, Scenario
        <5>2. left'.expiry < left.expiry
          BY <5>1 DEF Spend, LifeInv, TypeOK, Scenario
        <5> QED
          BY <5>2
      <4>2. CASE ~due
        BY <1>5, <2>2, <4>2
      <4> QED
        BY <4>1, <4>2
    <3> QED
      BY <1>5, <2>2, <3>1 DEF Served
  <2> QED
    BY <1>3, <2>1, <2>2
<1>7. UNCHANGED <<store, objs, pres>>
  BY DEF ServeCleanup
<1> QED
  BY <1>1, <1>4, <1>6, <1>7 DEF Turn

-----------------------------------------------------------------------------
(* The rest of the steps.                                                  *)

\* What a step that leaves most alone needs to know.
LEMMA Tables ==
  ASSUME LifeInv
  PROVE  /\ Len(objs) \in Nat /\ objs \in Seq(Room) /\ store \in [Rooms -> Room \cup {None}]
         /\ rooms \in [Rooms -> 0 .. Len(objs)] /\ \A r \in Rooms : rooms[r] # NoObj => r \in Stored
         /\ at \in [Conns -> Rooms \cup {NoRoom}] /\ \A c \in Conns : at[c] # NoRoom => at[c] \in Stored
         /\ pres \in [Conns -> Rooms \cup {NoRoom}] /\ left \in Scenario
         /\ line \in [Rooms -> Seq(Workers)] /\ job \in [Workers -> Job]
         /\ \A w \in Workers : Fits(w, job[w], Len(objs), Stored) /\ Placed(w, job[w]) /\ job[w] \in Job
         /\ job[Creator].phase # "idle" => Stored # Rooms
BY LenProperties DEF LifeInv, TypeOK, HeapInv, JobsInv, CreatorInv, Fits

\* A job goes on to another phase of the same kind.
LEMMA PhaseFits ==
  ASSUME NEW w, NEW j, NEW n, NEW S, Fits(w, j, n, S), NEW p \in Phases,
         Placed(w, [j EXCEPT !.phase = p]),
         p \in {"loading", "queued"} => j.phase \in {"loading", "queued"},
         p \in {"saving", "saved"} <=> j.phase \in {"saving", "saved"}
  PROVE  Fits(w, [j EXCEPT !.phase = p], n, S)
<1> DEFINE k == [j EXCEPT !.phase = p]
<1>1. /\ j \in Job /\ k \in Job /\ k.kind = j.kind /\ k.room = j.room /\ k.from = j.from /\ k.phase = p
      /\ k.todo = j.todo /\ k.read = j.read /\ k.target = j.target /\ k.new = j.new
  BY DEF Job, Fits
<1>2. Held(k) = Held(j) /\ Placed(w, k)
  BY <1>1 DEF Held
<1> HIDE DEF k
<1>3. Fits(w, k, n, S)
  BY <1>1, <1>2 DEF Fits
<1> QED
  BY <1>3 DEF k

LEMMA PersistFailsKeeps == ASSUME LifeInv, NEW w \in Workers, PersistFails(w), UNCHANGED scenario PROVE LifeInv'
<1>1. /\ job' = [job EXCEPT ![w] = Idle] /\ line' = Dequeued(w) /\ UNCHANGED <<at, rooms, store, objs, pres>>
      /\ Spend("failure")
  BY DEF PersistFails, GiveUp
<1>2. line' \in [Rooms -> Seq(Workers)] /\ left' \in Scenario
  BY <1>1, LineTyped, SpendTyped DEF Bounds
<1>3. Fits(w, Idle, Len(objs), Stored) /\ Idle.phase = "idle"
  BY Tables, IdleFits, IdleJob
<1> QED
  BY <1>1, <1>2, <1>3, Tables, TableMoves

LEMMA AnnounceKeeps ==
  ASSUME LifeInv, NEW c \in Conns, Announce(c) \/ AnnounceFails(c), UNCHANGED scenario PROVE LifeInv'
<1>1. c \in Workers /\ c # Creator /\ job[c] \in Job /\ job[c].phase = "present" /\ Placed(c, job[c])
  BY WorkersDiffer, Tables DEF Announce, AnnounceFails
<1>2. CASE Announce(c)
  <2> DEFINE k == [job[c] EXCEPT !.phase = "syncing"]
  <2>1. job' = [job EXCEPT ![c] = k]
    BY <1>2, Tables DEF Announce
  <2>2. Placed(c, k) /\ "syncing" \in Phases
    BY <1>1 DEF Placed, Phases, Job
  <2>3. Fits(c, k, Len(objs), Stored)
    BY <1>1, <2>2, Tables, PhaseFits
  <2>4. job[c].todo \in Seq(Rooms) /\ job[c].todo # <<>>
    BY <1>1 DEF Job, Placed
  <2>5. job[c].todo[Len(job[c].todo)] \in Rooms
    BY <2>4, LenProperties, EmptySeq, ElementOfSeq
  <2>6. pres' \in [Conns -> Rooms \cup {NoRoom}]
    BY <1>2, <2>5, Tables DEF Announce
  <2> HIDE DEF k
  <2> QED
    BY <1>1, <1>2, <2>1, <2>3, <2>6, Tables, TableMoves DEF Announce
<1>3. CASE AnnounceFails(c)
  <2>1. Fits(c, Idle, Len(objs), Stored)
    BY Tables, IdleFits
  <2>2. left' \in Scenario
    BY <1>3, SpendTyped DEF AnnounceFails, Bounds
  <2> QED
    BY <1>1, <1>3, <2>1, <2>2, Tables, TableMoves DEF AnnounceFails
<1> QED
  BY <1>2, <1>3

LEMMA CloseKeeps == ASSUME LifeInv, NEW c \in Conns, Close(c), UNCHANGED scenario PROVE LifeInv'
<1> DEFINE k == [Idle EXCEPT !.phase = "parting", !.todo = <<at[c]>>]
<1>1. c \in Workers /\ c # Creator /\ <<at[c]>> \in Seq(Rooms)
  BY WorkersDiffer, Tables DEF Close
<1>2. Fits(c, k, Len(objs), Stored)
  BY <1>1, Tables, TodoFits DEF Phases
<1>3. job' = [job EXCEPT ![c] = k] /\ at' = [at EXCEPT ![c] = NoRoom] /\ UNCHANGED <<store, objs, rooms, line, pres>>
  BY DEF Close
<1>4. left' \in Scenario
  BY SpendTyped DEF Close, Bounds
<1>5. at' \in [Conns -> Rooms \cup {NoRoom}] /\ \A d \in Conns : at'[d] # NoRoom => at'[d] \in Stored
  BY <1>3, Tables
<1> HIDE DEF k
<1> QED
  BY <1>1, <1>2, <1>3, <1>4, <1>5, Tables, TableMoves

LEMMA PartKeeps == ASSUME LifeInv, NEW c \in Conns, Part(c), UNCHANGED scenario PROVE LifeInv'
<1>1. c \in Workers /\ c # Creator /\ job[c] \in Job /\ Placed(c, job[c]) /\ job[c].phase = "parting"
  BY WorkersDiffer, Tables DEF Part
<1>2. Fits(c, AfterParting(c), Len(objs), Stored)
  <2>1. CASE job[c].todo = <<>>
    BY <2>1, Tables, IdleFits DEF AfterParting
  <2>2. CASE job[c].todo # <<>>
    <3>1. Placed(c, [job[c] EXCEPT !.phase = "syncing"]) /\ "syncing" \in Phases
      BY <1>1, <2>2 DEF Placed, Phases, Job
    <3> QED
      BY <1>1, <2>2, <3>1, Tables, PhaseFits DEF AfterParting
  <2> QED
    BY <2>1, <2>2
<1>3. /\ job' = [job EXCEPT ![c] = AfterParting(c)] /\ pres' = [pres EXCEPT ![c] = NoRoom]
      /\ UNCHANGED <<store, objs, rooms, line, at, left>>
  BY DEF Part
<1>4. pres' \in [Conns -> Rooms \cup {NoRoom}]
  BY <1>3, Tables
<1> QED
  BY <1>1, <1>2, <1>3, <1>4, Tables, TableMoves

LEMMA QueueSyncKeeps ==
  ASSUME LifeInv, NEW w \in Workers, job[w].phase \in {"parting", "syncing"}, job[w].todo # <<>>,
         NEW ids \in SUBSET Users, QueueSync(w, Head(job[w].todo), ids),
         UNCHANGED <<store, objs, rooms, at, pres, scenario>>, left' \in Scenario
  PROVE  LifeInv'
<1> DEFINE j == job[w]
           r == Head(j.todo)
           rest == Tail(j.todo)
<1>1. j \in Job /\ j.todo \in Seq(Rooms) /\ Placed(w, j)
  BY Tables DEF Job
<1>2. r \in Rooms /\ rest \in Seq(Rooms)
  BY <1>1, HeadTailProperties
<1>3. w = Creator => Stored # Rooms
  BY Tables
<1>4. CASE rooms[r] = NoObj
  <2> DEFINE k == IF rest = <<>> THEN Idle ELSE [j EXCEPT !.todo = rest]
  <2>1. job' = [job EXCEPT ![w] = k] /\ line' = line
    BY <1>4, Tables DEF QueueSync
  <2>2. Fits(w, k, Len(objs), Stored)
    <3>1. CASE rest = <<>>
      BY <3>1, Tables, IdleFits
    <3>2. CASE rest # <<>>
      <4> DEFINE i == [j EXCEPT !.todo = rest]
      <4>1. /\ i \in Job /\ i.kind = j.kind /\ i.room = j.room /\ i.from = j.from /\ i.phase = j.phase
            /\ i.todo = rest /\ i.read = j.read /\ i.target = j.target /\ i.new = j.new
        BY <1>1, <1>2 DEF Job
      <4>2. Held(i) = Held(j)
        BY <4>1 DEF Held
      <4>3. k = i
        BY <3>2
      <4> HIDE DEF i, k
      <4>4. Placed(w, i)
        BY <1>1, <3>2, <4>1 DEF Placed
      <4>5. Fits(w, i, Len(objs), Stored)
        BY <4>1, <4>2, <4>4, Tables DEF Fits
      <4> QED
        BY <4>3, <4>5
    <3> QED
      BY <3>1, <3>2
  <2> HIDE DEF k
  <2> QED
    BY <1>3, <2>1, <2>2, Tables, TableMoves
<1>5. CASE rooms[r] # NoObj
  <2> DEFINE k == [Idle EXCEPT !.kind = "sync", !.phase = "queued", !.room = r, !.ids = ids,
                               !.target[r] = rooms[r], !.todo = rest]
  <2>1. job' = [job EXCEPT ![w] = k] /\ line' = [line EXCEPT ![r] = Append(@, w)]
    BY <1>5 DEF QueueSync, Queue
  <2>2. line' \in [Rooms -> Seq(Workers)]
    BY <1>2, <2>1, LineTyped
  <2>3. Fits(w, k, Len(objs), Stored)
    <3> DEFINE tgt == [Idle.target EXCEPT ![r] = rooms[r]]
    <3>1. tgt \in [Rooms -> 0 .. Len(objs)] /\ tgt[r] = rooms[r] /\ tgt \in [Rooms -> Nat]
      <4>1. Idle.target = [q \in Rooms |-> NoObj]
        BY DEF Idle
      <4>2. rooms[r] \in 0 .. Len(objs) /\ Len(objs) \in Nat
        BY <1>2, Tables
      <4> QED
        BY <1>2, <4>1, <4>2 DEF NoObj
    <3>2. k = [Idle EXCEPT !.kind = "sync", !.phase = "queued", !.room = r, !.ids = ids,
                           !.target = tgt, !.todo = rest]
      OBVIOUS
    <3> HIDE DEF tgt
    <3>3. /\ k \in Job /\ k.kind = "sync" /\ k.room = r /\ k.from = NoRoom /\ k.phase = "queued"
          /\ k.read = {} /\ k.target = tgt /\ k.new = Idle.new
      BY <1>2, <3>1, <3>2, IdleJob DEF Job, Phases
    <3> HIDE DEF k
    <3>4. Placed(w, k)
      BY <1>2, <3>3 DEF Placed, AllKinds, Joins, HostKinds
    <3>5. Held(k) = {r} /\ r \in Stored
      BY <1>2, <1>5, <3>3, Tables, RoomsAssumption DEF Held
    <3> QED
      BY <1>5, <3>1, <3>3, <3>4, <3>5, IdleJob DEF Fits
  <2> HIDE DEF k
  <2> QED
    BY <1>3, <2>1, <2>2, <2>3, Tables, TableMoves
<1> QED
  BY <1>4, <1>5
LEMMA ReadPresenceKeeps == ASSUME LifeInv, NEW w \in Workers, ReadPresence(w), UNCHANGED scenario PROVE LifeInv'
<1> DEFINE ids == PresentIn(Head(job[w].todo))
<1>1. ids \in SUBSET Users
  BY UserAssumption DEF PresentIn
<1>2. job[w].phase = "syncing" /\ job[w].todo # <<>>
  BY Tables DEF ReadPresence, Placed
<1>3. left' \in Scenario
  BY Tables DEF ReadPresence
<1>4. QueueSync(w, Head(job[w].todo), ids) /\ UNCHANGED <<store, objs, rooms, at, pres, scenario>>
  BY DEF ReadPresence
<1> HIDE DEF ids
<1> QED
  BY <1>1, <1>2, <1>3, <1>4, QueueSyncKeeps

LEMMA PartFailsKeeps == ASSUME LifeInv, NEW c \in Conns, PartFails(c), UNCHANGED scenario PROVE LifeInv'
<1>1. c \in Workers /\ c # Creator /\ job[c].phase = "parting" /\ UNCHANGED <<store, objs, rooms, at, pres>>
  BY WorkersDiffer DEF PartFails
<1>2. left' \in Scenario
  BY SpendTyped DEF PartFails, Bounds
<1>3. CASE job[c].todo = <<>>
  <2>1. job' = [job EXCEPT ![c] = Idle] /\ line' = line
    BY <1>3 DEF PartFails
  <2>2. Fits(c, Idle, Len(objs), Stored)
    BY Tables, IdleFits
  <2> QED
    BY <1>1, <1>2, <2>1, <2>2, Tables, TableMoves
<1>4. CASE job[c].todo # <<>>
  <2> DEFINE ids == AttachedTo(Head(job[c].todo))
  <2>1. ids \in SUBSET Users
    BY UserAssumption DEF AttachedTo
  <2>2. QueueSync(c, Head(job[c].todo), ids)
    BY <1>4 DEF PartFails
  <2> HIDE DEF ids
  <2> QED
    BY <1>1, <1>2, <1>4, <2>1, <2>2, QueueSyncKeeps
<1> QED
  BY <1>3, <1>4

\* A step that leaves the jobs alone too.
LEMMA StayingKeeps ==
  ASSUME LifeInv, UNCHANGED <<store, objs, rooms, job, at, scenario>>,
         line' \in [Rooms -> Seq(Workers)], pres' \in [Conns -> Rooms \cup {NoRoom}], left' \in Scenario
  PROVE  LifeInv'
<1>1. job' = [job EXCEPT ![Creator] = job[Creator]] /\ Creator \in Workers
  BY Tables, WorkersDiffer
<1> QED
  BY <1>1, Tables, TableMoves

LEMMA PingKeeps == ASSUME LifeInv, NEW c \in Conns, Ping(c), UNCHANGED scenario PROVE LifeInv'
<1>1. pres' \in [Conns -> Rooms \cup {NoRoom}]
  BY Tables DEF Ping
<1> QED
  BY <1>1, Tables, StayingKeeps DEF Ping

LEMMA QueueSecondKeeps == ASSUME LifeInv, NEW c \in Conns, QueueSecond(c), UNCHANGED scenario PROVE LifeInv'
<1>1. c \in Workers /\ job[c] \in Job /\ Placed(c, job[c]) /\ job[c].phase = "queued"
  BY WorkersDiffer, Tables DEF QueueSecond
<1>2. job[c].room \in Rooms
  BY <1>1 DEF Placed
<1>3. Max(Held(job[c])) \in Rooms
  BY <1>1, <1>2, HeldRooms
<1>4. line' \in [Rooms -> Seq(Workers)]
  BY <1>1, <1>3, LineTyped DEF QueueSecond, Queue
<1> QED
  BY <1>4, Tables, StayingKeeps DEF QueueSecond

LEMMA SweepKeeps == ASSUME LifeInv, NEW c \in Conns, SweepPresence(c), UNCHANGED scenario PROVE LifeInv'
<1> DEFINE k == [Idle EXCEPT !.phase = "syncing", !.todo = <<pres[c]>>]
<1>1. Sweeper \in Workers /\ Sweeper # Creator /\ <<pres[c]>> \in Seq(Rooms)
  BY WorkersDiffer, Tables DEF SweepPresence
<1>2. Fits(Sweeper, k, Len(objs), Stored)
  BY <1>1, Tables, TodoFits DEF Phases
<1>3. /\ job' = [job EXCEPT ![Sweeper] = k] /\ at' = [at EXCEPT ![c] = NoRoom]
      /\ pres' = [pres EXCEPT ![c] = NoRoom] /\ UNCHANGED <<store, objs, rooms, line>>
  BY DEF SweepPresence
<1>4. left' \in Scenario
  BY Tables, SpendTyped DEF SweepPresence, Bounds
<1>5. /\ at' \in [Conns -> Rooms \cup {NoRoom}] /\ \A d \in Conns : at'[d] # NoRoom => at'[d] \in Stored
      /\ pres' \in [Conns -> Rooms \cup {NoRoom}]
  BY <1>3, Tables
<1> HIDE DEF k
<1> QED
  BY <1>1, <1>2, <1>3, <1>4, <1>5, Tables, TableMoves

\* Cleanup is asked for.
LEMMA QueueCleanupKeeps ==
  ASSUME LifeInv, NEW w \in {Cleaner, Creator}, NEW r \in Rooms, NEW todo \in Seq(Rooms),
         w = Creator => Stored # Rooms,
         QueueCleanup(w, r, todo), UNCHANGED <<store, objs, rooms, at, pres, left, scenario>>
  PROVE  LifeInv'
<1> DEFINE k == [Idle EXCEPT !.kind = "cleanup", !.phase = "queued", !.room = r, !.todo = todo]
<1>1. w \in Workers
  BY WorkersDiffer
<1>2. job' = [job EXCEPT ![w] = k] /\ line' = [line EXCEPT ![r] = Append(@, w)]
  BY DEF QueueCleanup, Queue
<1>3. line' \in [Rooms -> Seq(Workers)]
  BY <1>1, <1>2, LineTyped
<1>4. /\ k \in Job /\ k.kind = "cleanup" /\ k.room = r /\ k.from = NoRoom /\ k.phase = "queued"
      /\ k.read = {} /\ k.target = Idle.target /\ k.new = Idle.new
  BY IdleJob DEF Job, Phases
<1> HIDE DEF k
<1>5. Placed(w, k)
  BY <1>4 DEF Placed, AllKinds, Joins, HostKinds
<1>6. Fits(w, k, Len(objs), Stored)
  BY <1>4, <1>5, Tables, IdleJob DEF Fits, NoObj
<1> QED
  BY <1>1, <1>2, <1>3, <1>6, Tables, TableMoves

LEMMA CleanUpKeeps == ASSUME LifeInv, NEW r \in Rooms, CleanUp(r), UNCHANGED scenario PROVE LifeInv'
<1>1. Cleaner # Creator /\ <<>> \in Seq(Rooms)
  BY WorkersDiffer
<1> QED
  BY <1>1, QueueCleanupKeeps DEF CleanUp

LEMMA CleanBeforeKeeps == ASSUME LifeInv, CleanBefore, UNCHANGED scenario PROVE LifeInv'
<1>1. job[Creator].todo \in Seq(Rooms) /\ Creator \in Workers
  BY Tables, WorkersDiffer DEF Job
<1>2. Head(job[Creator].todo) \in Rooms /\ Tail(job[Creator].todo) \in Seq(Rooms)
  BY <1>1, HeadTailProperties DEF CleanBefore
<1>3. Stored # Rooms
  BY Tables DEF CleanBefore
<1> QED
  BY <1>2, <1>3, QueueCleanupKeeps DEF CleanBefore

LEMMA BeginCreateKeeps == ASSUME LifeInv, BeginCreate, UNCHANGED scenario PROVE LifeInv'
<1> DEFINE S == {r \in Rooms : rooms[r] # NoObj}
           todo == SetToSeq(S)
           k == [Idle EXCEPT !.phase = "sweeping", !.todo = todo]
<1>1. Creator \in Workers /\ Stored # Rooms
  BY WorkersDiffer DEF BeginCreate, Stored
<1>2. IsFiniteSet(S)
  BY FS_Subset, RoomsAssumption
<1>3. todo \in Seq(S)
  BY <1>2, SetAsSequence
<1>4. todo \in Seq(Rooms)
  <2> HIDE DEF todo
  <2> QED
    BY <1>3, SeqMonotonic
<1>5. job' = [job EXCEPT ![Creator] = k] /\ UNCHANGED <<store, objs, rooms, line, at, pres, left>>
  BY DEF BeginCreate
<1> HIDE DEF todo
<1>6. Fits(Creator, k, Len(objs), Stored)
  BY <1>4, Tables, TodoFits DEF Phases
<1> HIDE DEF k
<1> QED
  BY <1>1, <1>5, <1>6, Tables, TableMoves

LEMMA CreateFailsKeeps == ASSUME LifeInv, CreateFails, UNCHANGED scenario PROVE LifeInv'
<1>1. Creator \in Workers /\ Fits(Creator, Idle, Len(objs), Stored) /\ Idle.phase = "idle"
  BY WorkersDiffer, Tables, IdleFits, IdleJob
<1>2. left' \in Scenario
  BY SpendTyped DEF CreateFails, Bounds
<1> QED
  BY <1>1, <1>2, Tables, TableMoves DEF CreateFails
-----------------------------------------------------------------------------
(* The steps that write to the store or to the objects.                    *)

LEMMA PersistKeeps == ASSUME LifeInv, NEW w \in Workers, Persist(w), UNCHANGED scenario PROVE LifeInv'
<1> DEFINE j == job[w]
           k == [j EXCEPT !.phase = "saved"]
<1>1. j.phase = "saving" /\ j \in Job /\ Placed(w, j) /\ Fits(w, j, Len(objs), Stored)
  BY Tables DEF Persist
<1>2. /\ store' = Saved(w) /\ UNCHANGED <<objs, rooms, line, at, pres, left>>
      /\ job' = [job EXCEPT ![w] = k]
  BY Tables DEF Persist
<1>3. ASSUME NEW r \in Rooms, j.new[r] # None PROVE InOrder(Durable(j.new[r])) /\ r \in Stored
  BY <1>1, <1>3, DurableSame, SamePeopleInOrder DEF Fits, InOrder
<1>4. store' \in [Rooms -> Room \cup {None}]
  BY <1>2, <1>3, Tables DEF Saved, InOrder
<1>5. Stored' = Stored
  <2>1. ASSUME NEW r \in Rooms PROVE store'[r] # None <=> store[r] # None
    BY <1>2, <1>3, NoneAssumption DEF Saved, InOrder, Stored
  <2> QED
    BY <2>1 DEF Stored
<1>6. \A r \in Stored : InOrder(store'[r])
  BY <1>2, <1>3 DEF Saved, LifeInv, HeapInv, Stored
<1>7. Placed(w, k) /\ "saved" \in Phases
  BY <1>1 DEF Placed, Job, Phases
<1>8. Fits(w, k, Len(objs), Stored)
  BY <1>1, <1>7, PhaseFits
<1>9. JobsInv' /\ job' \in [Workers -> Job]
  <2> HIDE DEF k
  <2>1. Fits(w, k, Len(objs'), Stored') /\ objs' \in Seq(Room) /\ Len(objs) <= Len(objs') /\ Stored \subseteq Stored'
    BY <1>2, <1>5, <1>8, Tables
  <2> QED
    BY <1>2, <2>1, JobMoves
<1>10. HeapInv'
  BY <1>2, <1>5, <1>6 DEF LifeInv, HeapInv
<1>11. CreatorInv'
  <2>1. job'[Creator].phase # "idle" => job[Creator].phase # "idle"
    BY <1>1, <1>2, Tables, WorkersDiffer
  <2> QED
    BY <1>5, <2>1 DEF LifeInv, CreatorInv
<1>12. TypeOK'
  BY <1>2, <1>4, <1>9 DEF LifeInv, TypeOK
<1> QED
  BY <1>9, <1>10, <1>11, <1>12 DEF LifeInv

LEMMA ReplacedInOrder ==
  ASSUME LifeInv, NEW w \in Workers
  PROVE  /\ Replaced(w) \in Seq(Room) /\ Len(Replaced(w)) = Len(objs)
         /\ \A i \in 1 .. Len(objs) : InOrder(Replaced(w)[i])
<1> DEFINE j == job[w]
           a == Replaced(w)
<1>1. Fits(w, j, Len(objs), Stored) /\ Len(objs) \in Nat /\ objs \in Seq(Room)
  BY Tables
<1>2. DOMAIN objs = 1 .. Len(objs) /\ DOMAIN a = 1 .. Len(objs)
  BY <1>1, LenProperties DEF Replaced
<1>3. ASSUME NEW i \in 1 .. Len(objs) PROVE InOrder(a[i])
  <2>1. CASE \E r \in Rooms : j.new[r] # None /\ j.target[r] = i /\ ~Closes(j)
    <3> DEFINE q == CHOOSE r \in Rooms : j.target[r] = i
    <3>1. q \in Rooms /\ j.target[q] = i
      BY <2>1
    <3>2. a[i] = j.new[q]
      BY <1>2, <2>1 DEF Replaced
    <3> HIDE DEF q
    <3>3. j.phase \in {"saving", "saved"}
      BY <1>1, <2>1 DEF Fits
    <3>4. j.new[q] # None
      BY <1>1, <3>1, <3>3 DEF Fits, NoObj
    <3> QED
      BY <1>1, <3>1, <3>2, <3>4 DEF Fits
  <2>2. CASE ~(\E r \in Rooms : j.new[r] # None /\ j.target[r] = i /\ ~Closes(j))
    BY <1>2, <2>2 DEF Replaced, LifeInv, HeapInv
  <2> QED
    BY <2>1, <2>2
<1> HIDE DEF a
<1>4. \A i \in 1 .. Len(objs) : a[i] \in Room
  BY <1>3 DEF InOrder
<1>5. a \in [1 .. Len(objs) -> Room]
  BY <1>2, <1>4 DEF a, Replaced
<1>6. a \in Seq(Room) /\ Len(a) = Len(objs)
  BY <1>1, <1>5
<1> QED
  BY <1>3, <1>6 DEF a

LEMMA ApplyKeeps == ASSUME LifeInv, NEW w \in Workers, Apply(w), UNCHANGED scenario PROVE LifeInv'
<1>1. /\ job[w].phase = "saved" /\ objs' = Replaced(w) /\ Conclude(w) /\ UNCHANGED <<store, pres, left>>
  BY DEF Apply
<1>2. /\ objs' \in Seq(Room) /\ Len(objs') = Len(objs) /\ Stored' = Stored
      /\ \A i \in 1 .. Len(objs') : InOrder(objs'[i])
  BY <1>1, ReplacedInOrder DEF Stored
<1>3. /\ rooms' \in [Rooms -> 0 .. Len(objs)] /\ \A r \in Rooms : rooms'[r] # NoObj => r \in Stored
      /\ at' \in [Conns -> Rooms \cup {NoRoom}] /\ \A c \in Conns : at'[c] # NoRoom => at'[c] \in Stored
  BY <1>1, ConcludeTables
<1>4. Fits(w, Then(w), Len(objs), Stored) /\ (w = Creator => Stored # Rooms)
  BY <1>1, ThenFits
<1>5. job' = [job EXCEPT ![w] = Then(w)] /\ line' \in [Rooms -> Seq(Workers)]
  BY <1>1, LineTyped DEF Conclude
<1>6. JobsInv' /\ job' \in [Workers -> Job]
  <2>1. Fits(w, Then(w), Len(objs'), Stored') /\ Len(objs) <= Len(objs') /\ Stored \subseteq Stored'
    BY <1>2, <1>4, Tables
  <2> QED
    BY <1>2, <1>5, <2>1, JobMoves
<1>7. HeapInv'
  BY <1>1, <1>2, <1>3 DEF LifeInv, HeapInv
<1>8. CreatorInv'
  <2>1. job'[Creator].phase # "idle" => Stored # Rooms
    BY <1>4, <1>5, Tables, WorkersDiffer
  <2> QED
    BY <1>2, <2>1 DEF CreatorInv
<1>9. TypeOK'
  BY <1>1, <1>2, <1>3, <1>5, <1>6 DEF LifeInv, TypeOK
<1> QED
  BY <1>6, <1>7, <1>8, <1>9 DEF LifeInv

LEMMA InGameKeeps ==
  ASSUME LifeInv, NEW r \in Rooms, rooms[r] # NoObj, NEW made, SamePeople(objs[rooms[r]], made),
         InGame(r, made), left' \in Scenario, UNCHANGED scenario
  PROVE  LifeInv'
<1>1. /\ r \in Stored /\ rooms[r] \in 1 .. Len(objs) /\ Len(objs) \in Nat /\ objs \in Seq(Room)
      /\ DOMAIN objs = 1 .. Len(objs)
  BY Tables, LenProperties DEF NoObj
<1>2. InOrder(made) /\ made \in Room
  BY <1>1, SamePeopleInOrder DEF LifeInv, HeapInv, SamePeople
<1>3. InOrder(Durable(made)) /\ Durable(made) \in Room
  BY <1>2, DurableSame, SamePeopleInOrder DEF InOrder
<1>4. /\ objs' = [objs EXCEPT ![rooms[r]] = made] /\ store' = [store EXCEPT ![r] = Durable(made)]
      /\ UNCHANGED <<rooms, line, job, at, pres>>
  BY DEF InGame
<1>5. objs' \in Seq(Room) /\ Len(objs') = Len(objs)
  BY <1>1, <1>2, <1>4, ExceptSeq
<1>6. \A i \in 1 .. Len(objs') : InOrder(objs'[i])
  BY <1>1, <1>2, <1>4, <1>5 DEF LifeInv, HeapInv
<1>7. Stored' = Stored /\ store' \in [Rooms -> Room \cup {None}]
  BY <1>1, <1>3, <1>4, Tables, NoneAssumption DEF Stored
<1>8. \A q \in Stored' : InOrder(store'[q])
  BY <1>3, <1>4, <1>7, Tables DEF LifeInv, HeapInv, Stored
<1>9. HeapInv'
  BY <1>4, <1>6, <1>7, <1>8, Tables DEF HeapInv
<1>10. JobsInv' /\ CreatorInv'
  BY <1>4, <1>5, <1>7 DEF LifeInv, JobsInv, CreatorInv
<1>11. TypeOK'
  BY <1>4, <1>5, <1>7 DEF LifeInv, TypeOK
<1> QED
  BY <1>9, <1>10, <1>11 DEF LifeInv

LEMMA GameKeeps == ASSUME LifeInv, NEW r \in Rooms, Finish(r) \/ Stall(r), UNCHANGED scenario PROVE LifeInv'
<1> DEFINE m == objs[rooms[r]]
<1>1. rooms[r] # NoObj /\ rooms[r] \in 1 .. Len(objs) /\ m.status = "IN_GAME"
  BY Tables DEF Finish, Stall, Playing, NoObj
<1>2. m \in Room
  BY <1>1 DEF LifeInv, HeapInv, InOrder
<1>3. left' \in Scenario
  BY SpendTyped DEF Finish, Stall, Bounds
<1>4. CASE Finish(r)
  <2> DEFINE made == [m EXCEPT !.status = "FINISHED"]
  <2>1. SamePeople(m, made)
    BY <1>2 DEF SamePeople, Room, Statuses, SeatsOf
  <2>2. InGame(r, made)
    BY <1>4 DEF Finish
  <2> HIDE DEF made
  <2> QED
    BY <1>1, <1>3, <2>1, <2>2, InGameKeeps
<1>5. CASE Stall(r)
  <2> DEFINE made == [m EXCEPT !.paused = "STALLED_AUTOMATION"]
  <2>1. SamePeople(m, made)
    BY <1>2 DEF SamePeople, Room, Pauses, SeatsOf
  <2>2. InGame(r, made)
    BY <1>5 DEF Stall
  <2> HIDE DEF made
  <2> QED
    BY <1>1, <1>3, <2>1, <2>2, InGameKeeps
<1> QED
  BY <1>4, <1>5
LEMMA SizeFits == ASSUME LifeInv, NEW size \in 2 .. left.size PROVE size \in 2 .. MaxSeats
<1>1. left.size \in 2 .. MaxSeats
  BY Tables DEF Scenario
<1> QED
  BY <1>1, SeatsAssumption

LEMMA CreateKeeps ==
  ASSUME LifeInv, NEW u \in Users, NEW size \in 2 .. left.size, NEW fill \in BOOLEAN, Create(u, size, fill),
         UNCHANGED scenario
  PROVE  LifeInv'
<1> DEFINE free == {q \in Rooms : store[q] = None}
           r == Min(free)
           m == NewRoom(u, size, fill)
<1>1. size \in 2 .. MaxSeats
  BY SizeFits
<1>2. InOrder(m) /\ m \in Room
  BY <1>1, NewRoomInOrder DEF InOrder
<1>3. free \in SUBSET Nat /\ free # {}
  BY Tables, RoomsAssumption DEF Create, Stored
<1>4. r \in free
  BY <1>3, MinIsLeast
<1>5. /\ store' = [store EXCEPT ![r] = m] /\ objs' = Append(objs, m)
      /\ rooms' = [rooms EXCEPT ![r] = Len(objs) + 1]
      /\ job' = [job EXCEPT ![Creator] = Idle] /\ UNCHANGED <<line, at, pres>>
  BY DEF Create
<1>6. left' \in Scenario
  BY SpendTyped DEF Create, Bounds
<1> HIDE DEF r, m
<1>7. r \in Rooms /\ store[r] = None
  BY <1>4
<1>8. /\ objs' \in Seq(Room) /\ Len(objs') = Len(objs) + 1
      /\ \A i \in 1 .. Len(objs) : objs'[i] = objs[i]
      /\ objs'[Len(objs) + 1] = m
  BY <1>2, <1>5, Tables, AppendProperties
<1>9. \A i \in 1 .. Len(objs') : InOrder(objs'[i])
  BY <1>2, <1>8, Tables DEF LifeInv, HeapInv
<1>10. store' \in [Rooms -> Room \cup {None}] /\ Stored' = Stored \cup {r}
  BY <1>2, <1>5, <1>7, Tables, NoneAssumption DEF Stored
<1>11. \A q \in Stored' : InOrder(store'[q])
  BY <1>2, <1>5, <1>7, <1>10, Tables DEF LifeInv, HeapInv, Stored
<1>12. rooms' \in [Rooms -> 0 .. Len(objs')] /\ \A q \in Rooms : rooms'[q] # NoObj => q \in Stored'
  BY <1>5, <1>7, <1>8, <1>10, Tables
<1>13. JobsInv' /\ job' \in [Workers -> Job]
  <2>1. Fits(Creator, Idle, Len(objs'), Stored') /\ Creator \in Workers
    BY <1>8, Tables, IdleFits, WorkersDiffer
  <2>2. Len(objs) <= Len(objs') /\ Stored \subseteq Stored'
    BY <1>8, <1>10, Tables
  <2> QED
    BY <1>5, <1>8, <2>1, <2>2, JobMoves
<1>14. HeapInv'
  BY <1>5, <1>9, <1>10, <1>11, <1>12, Tables DEF HeapInv
<1>15. CreatorInv'
  BY <1>5, Tables, WorkersDiffer, IdleJob DEF CreatorInv
<1>16. TypeOK'
  BY <1>5, <1>6, <1>8, <1>10, <1>12, <1>13, Tables DEF LifeInv, TypeOK
<1> QED
  BY <1>13, <1>14, <1>15, <1>16 DEF LifeInv

LEMMA RestartKeeps == ASSUME LifeInv, Restart, UNCHANGED scenario PROVE LifeInv'
<1>1. PICK kept \in SUBSET Hydratable :
        LET order == SetToSeq(kept) IN
        /\ objs' = [i \in DOMAIN order |-> Restored(store[order[i]])]
        /\ rooms' = [r \in Rooms |-> IF r \in kept THEN CHOOSE i \in DOMAIN order : order[i] = r ELSE NoObj]
  BY DEF Restart
<1> DEFINE order == SetToSeq(kept)
<1>2. kept \subseteq Stored /\ IsFiniteSet(kept)
  BY FS_Subset, RoomsAssumption DEF Hydratable, Stored
<1>3. order \in Seq(kept) /\ \A x \in kept : \E i \in DOMAIN order : order[i] = x
  BY <1>2, SetAsSequence
<1>4. /\ objs' = [i \in DOMAIN order |-> Restored(store[order[i]])]
      /\ rooms' = [r \in Rooms |-> IF r \in kept THEN CHOOSE i \in DOMAIN order : order[i] = r ELSE NoObj]
      /\ line' = [r \in Rooms |-> <<>>] /\ job' = [w \in Workers |-> Idle]
      /\ at' = [c \in Conns |-> NoRoom] /\ pres' = [c \in Conns |-> NoRoom] /\ store' = store
      /\ Spend("restart")
  BY <1>1 DEF Restart
<1> HIDE DEF order
<1>5. Len(order) \in Nat /\ DOMAIN order = 1 .. Len(order) /\ \A i \in 1 .. Len(order) : order[i] \in kept
  BY <1>3, LenProperties
<1>6. \A i \in 1 .. Len(order) : InOrder(Restored(store[order[i]]))
  BY <1>2, <1>5, RestoredSame, SamePeopleInOrder DEF LifeInv, HeapInv, InOrder
<1>7. objs' \in Seq(Room) /\ Len(objs') = Len(order)
  BY <1>4, <1>5, <1>6 DEF InOrder
<1>8. \A i \in 1 .. Len(objs') : InOrder(objs'[i])
  BY <1>4, <1>5, <1>6, <1>7
<1>9. rooms' \in [Rooms -> 0 .. Len(objs')] /\ \A r \in Rooms : rooms'[r] # NoObj => r \in Stored
  BY <1>2, <1>3, <1>4, <1>5, <1>7 DEF NoObj
<1>10. Stored' = Stored /\ left' \in Scenario
  BY <1>4, SpendTyped DEF Stored, Bounds
<1>11. JobsInv' /\ job' \in [Workers -> Job]
  <2>1. \A w : Fits(w, Idle, Len(objs'), Stored')
    BY <1>5, <1>7, IdleFits
  <2> QED
    BY <1>4, <2>1, IdleJob DEF JobsInv
<1>12. HeapInv'
  BY <1>4, <1>8, <1>9, <1>10 DEF LifeInv, HeapInv
<1>13. CreatorInv'
  BY <1>4, WorkersDiffer, IdleJob DEF CreatorInv
<1>14. TypeOK'
  BY <1>4, <1>7, <1>9, <1>10, <1>11 DEF LifeInv, TypeOK
<1> QED
  BY <1>11, <1>12, <1>13, <1>14 DEF LifeInv

\* What Ask does with one request.
Asking(c, kind, r, arg) ==
  LET from == IF kind \in Joins /\ at[c] # r THEN at[c] ELSE NoRoom
      named == {r, from} \ {NoRoom}
      read == SetToSeq({q \in named : rooms[q] = NoObj})
  IN /\ job[c].phase = "idle"
     /\ Spend("ask")
     /\ store[r] # None
     /\ kind \notin Joins => at[c] = r
     /\ CASE kind = "removeBot" -> arg > 0 [] kind = "resize" -> arg > 1 [] OTHER -> arg = 0
     /\ objs' = objs \o [i \in DOMAIN read |-> Restored(store[read[i]])]
     /\ job' = [job EXCEPT ![c] = [Idle EXCEPT
          !.kind = kind, !.room = r, !.from = from, !.arg = arg, !.phase = "loading",
          !.read = ToSet(read),
          !.target = [q \in Rooms |->
             IF q \notin named THEN NoObj
             ELSE IF rooms[q] # NoObj THEN rooms[q]
             ELSE Len(objs) + (CHOOSE i \in DOMAIN read : read[i] = q)]]]
     /\ UNCHANGED <<store, rooms, line, at, pres>>

LEMMA AskKeeps == ASSUME LifeInv, NEW c \in Conns, Ask(c), UNCHANGED scenario PROVE LifeInv'
<1>1. PICK kind \in left.kinds, r \in Rooms, arg \in 0 .. MaxSeats : Asking(c, kind, r, arg)
  BY DEF Ask, Asking
<1> DEFINE from == IF kind \in Joins /\ at[c] # r THEN at[c] ELSE NoRoom
           named == {r, from} \ {NoRoom}
           absent == {q \in named : rooms[q] = NoObj}
           read == SetToSeq(absent)
           new == [i \in DOMAIN read |-> Restored(store[read[i]])]
           tgt == [q \in Rooms |->
               IF q \notin named THEN NoObj
               ELSE IF rooms[q] # NoObj THEN rooms[q]
               ELSE Len(objs) + (CHOOSE i \in DOMAIN read : read[i] = q)]
           k == [Idle EXCEPT !.kind = kind, !.room = r, !.from = from, !.arg = arg, !.phase = "loading",
                             !.read = ToSet(read), !.target = tgt]
<1>2. /\ objs' = objs \o new /\ job' = [job EXCEPT ![c] = k] /\ UNCHANGED <<store, rooms, line, at, pres>>
      /\ left' \in Scenario
  <2>1. left' \in Scenario
    <3>1. "ask" \in Bounds /\ Spend("ask")
      BY <1>1 DEF Asking, Bounds
    <3> QED
      BY <3>1, SpendTyped
  <2> QED
    BY <1>1, <2>1 DEF Asking
<1>3. c \in Workers /\ c # Creator /\ kind \in AllKinds
  BY WorkersDiffer, Tables DEF Scenario
<1>4. from \in Rooms \cup {NoRoom} /\ r # NoRoom
  BY Tables, RoomsAssumption
<1>5. named \subseteq Stored /\ named = {r} \cup (IF from = NoRoom THEN {} ELSE {from})
  BY <1>1, <1>4, Tables DEF Asking, Stored
<1> HIDE DEF from
<1>6. absent \subseteq Rooms /\ IsFiniteSet(absent) /\ absent \subseteq Stored
  <2>1. absent \subseteq Rooms
    BY <1>5 DEF Stored
  <2> QED
    BY <1>5, <2>1, FS_Subset, RoomsAssumption
<1> HIDE DEF named
<1>7. read \in Seq(absent) /\ \A x \in absent : \E i \in DOMAIN read : read[i] = x
  BY <1>6, SetAsSequence
<1> HIDE DEF read
<1>8. Len(read) \in Nat /\ DOMAIN read = 1 .. Len(read) /\ \A i \in 1 .. Len(read) : read[i] \in absent
  BY <1>7, LenProperties
<1>9. \A i \in 1 .. Len(read) : InOrder(new[i])
  BY <1>6, <1>8, RestoredSame, SamePeopleInOrder DEF LifeInv, HeapInv, InOrder
<1>10. new \in Seq(Room) /\ Len(new) = Len(read)
  BY <1>8, <1>9 DEF InOrder
<1> HIDE DEF new
<1>11. /\ objs' \in Seq(Room) /\ Len(objs') = Len(objs) + Len(read)
       /\ \A i \in 1 .. Len(objs') : objs'[i] = IF i <= Len(objs) THEN objs[i] ELSE new[i - Len(objs)]
  <2>1. objs \in Seq(Room)
    BY Tables
  <2>2. /\ objs \o new \in Seq(Room) /\ Len(objs \o new) = Len(objs) + Len(new)
        /\ \A i \in 1 .. Len(objs) + Len(new) :
             (objs \o new)[i] = IF i <= Len(objs) THEN objs[i] ELSE new[i - Len(objs)]
    BY <1>10, <2>1, ConcatProperties
  <2> QED
    BY <1>2, <1>10, <2>2
<1>12. \A i \in 1 .. Len(objs') : InOrder(objs'[i])
  <2> SUFFICES ASSUME NEW i \in 1 .. Len(objs') PROVE InOrder(objs'[i])
    OBVIOUS
  <2>1. CASE i <= Len(objs)
    BY <1>11, <2>1, Tables DEF LifeInv, HeapInv
  <2>2. CASE ~(i <= Len(objs))
    <3>1. i - Len(objs) \in 1 .. Len(read)
      BY <1>8, <1>11, <2>2, Tables
    <3> QED
      BY <1>9, <1>11, <2>2, <3>1
  <2> QED
    BY <2>1, <2>2
<1>13. Stored' = Stored
  BY <1>2 DEF Stored
<1>14. \A q \in Rooms : /\ tgt[q] \in 0 .. Len(objs')
                        /\ q \in named => tgt[q] # NoObj
  <2> SUFFICES ASSUME NEW q \in Rooms
               PROVE  tgt[q] \in 0 .. Len(objs') /\ (q \in named => tgt[q] # NoObj)
    OBVIOUS
  <2>1. CASE q \notin named
    BY <1>8, <1>11, <2>1, Tables DEF NoObj
  <2>2. CASE q \in named /\ rooms[q] # NoObj
    BY <1>8, <1>11, <2>2, Tables DEF NoObj
  <2>3. CASE q \in named /\ rooms[q] = NoObj
    <3> DEFINE i == CHOOSE i \in DOMAIN read : read[i] = q
    <3>1. i \in 1 .. Len(read)
      BY <1>7, <1>8, <2>3
    <3>2. tgt[q] = Len(objs) + i
      BY <2>3
    <3> HIDE DEF i
    <3> QED
      BY <1>8, <1>11, <3>1, <3>2, Tables DEF NoObj
  <2> QED
    BY <2>1, <2>2, <2>3
<1>15. tgt \in [Rooms -> Nat]
  <2>1. Len(objs') \in Nat
    BY <1>8, <1>11, Tables
  <2>2. \A q \in Rooms : tgt[q] \in Nat
    <3> HIDE DEF tgt
    <3> QED
      BY <1>14, <2>1
  <2> QED
    BY <2>2
<1> HIDE DEF tgt
<1>16. ToSet(read) \subseteq absent
  BY <1>8 DEF ToSet
<1>17. /\ k \in Job /\ k.kind = kind /\ k.room = r /\ k.from = from /\ k.phase = "loading"
       /\ k.read = ToSet(read) /\ k.target = tgt /\ k.new = Idle.new
  BY <1>3, <1>4, <1>6, <1>15, <1>16, IdleJob DEF Job, Phases
<1> HIDE DEF k
<1>18. Held(k) = named
  BY <1>17 DEF Held, named
<1>19. Placed(c, k)
  BY <1>3, <1>17 DEF Placed, AllKinds, Joins, HostKinds
<1>20. Fits(c, k, Len(objs'), Stored')
  <2>1. \A q \in Held(k) : q \in Stored' /\ k.target[q] # NoObj
    BY <1>5, <1>13, <1>14, <1>17, <1>18 DEF Stored
  <2>2. k.read \subseteq Stored' /\ \A q \in Rooms : k.target[q] \in 0 .. Len(objs') /\ k.new[q] = None
    BY <1>6, <1>13, <1>14, <1>16, <1>17, IdleJob
  <2> QED
    BY <1>17, <1>19, <2>1, <2>2 DEF Fits
<1>21. JobsInv' /\ job' \in [Workers -> Job]
  <2>1. Len(objs) <= Len(objs')
    BY <1>8, <1>11, Tables
  <2> QED
    BY <1>2, <1>3, <1>11, <1>13, <1>20, <2>1, JobMoves
<1>22. HeapInv'
  BY <1>2, <1>12, <1>13 DEF LifeInv, HeapInv
<1>23. CreatorInv'
  BY <1>2, <1>3, <1>13, Tables DEF CreatorInv
<1>24. TypeOK'
  <2>1. rooms' \in [Rooms -> 0 .. Len(objs')]
    BY <1>2, <1>8, <1>11, Tables
  <2> QED
    BY <1>2, <1>11, <1>21, <2>1 DEF LifeInv, TypeOK
<1> QED
  BY <1>21, <1>22, <1>23, <1>24 DEF LifeInv
LEMMA LoadedKeeps == ASSUME LifeInv, NEW c \in Conns, Loaded(c), UNCHANGED scenario PROVE LifeInv'
<1> DEFINE j == job[c]
           k == [job[c] EXCEPT !.phase = "queued", !.read = {}]
<1>1. /\ c \in Workers /\ c # Creator /\ j \in Job /\ Placed(c, j) /\ Fits(c, j, Len(objs), Stored)
      /\ j.phase = "loading"
  BY WorkersDiffer, Tables DEF Loaded
<1>2. j.kind \in AllKinds /\ j.kind # "none" /\ j.kind # "cleanup" /\ j.room \in Rooms
  BY <1>1 DEF Placed, AllKinds, Joins, HostKinds
<1>3. rooms' = [q \in Rooms |->
        IF q \in j.read /\ ~Closed(objs[j.target[q]]) THEN j.target[q] ELSE rooms[q]]
  BY DEF Loaded
<1>4. rooms' \in [Rooms -> 0 .. Len(objs)] /\ \A r \in Rooms : rooms'[r] # NoObj => r \in Stored
  BY <1>1, <1>3, Tables DEF Fits
<1>5. UNCHANGED <<store, objs, at, pres, left>>
  BY DEF Loaded
<1>6. \/ job' = [job EXCEPT ![c] = Idle] /\ line' = line
      \/ job' = [job EXCEPT ![c] = k] /\ line' = [line EXCEPT ![Min(Held(j))] = Append(@, c)]
  <2>1. \/ job' = [job EXCEPT ![c] = Idle] /\ line' = line
        \/ job' = [job EXCEPT ![c].phase = "queued", ![c].read = {}] /\ Queue(c, Min(Held(j)))
    BY DEF Loaded
  <2> QED
    BY <1>1, <2>1, Tables DEF Queue
<1>7. CASE job' = [job EXCEPT ![c] = Idle] /\ line' = line
  <2>1. Fits(c, Idle, Len(objs), Stored)
    BY Tables, IdleFits
  <2> QED
    BY <1>1, <1>4, <1>5, <1>7, <2>1, Tables, TableMoves
<1>8. CASE job' = [job EXCEPT ![c] = k] /\ line' = [line EXCEPT ![Min(Held(j))] = Append(@, c)]
  <2>1. Min(Held(j)) \in Rooms
    BY <1>1, <1>2, HeldRooms
  <2>2. line' \in [Rooms -> Seq(Workers)]
    BY <1>1, <1>8, <2>1, LineTyped
  <2>3. /\ k \in Job /\ k.kind = j.kind /\ k.room = j.room /\ k.from = j.from /\ k.phase = "queued"
        /\ k.read = {} /\ k.target = j.target /\ k.new = j.new /\ k.todo = j.todo
    BY <1>1 DEF Job, Phases
  <2>4. Held(k) = Held(j)
    BY <2>3 DEF Held
  <2> HIDE DEF k
  <2>5. Placed(c, k)
    BY <1>1, <1>2, <2>3 DEF Placed
  <2>6. Fits(c, k, Len(objs), Stored)
    BY <1>1, <1>2, <2>3, <2>4, <2>5 DEF Fits
  <2> QED
    BY <1>1, <1>4, <1>5, <1>8, <2>2, <2>6, Tables, TableMoves
<1> QED
  BY <1>6, <1>7, <1>8

-----------------------------------------------------------------------------
(* The theorems.                                                           *)

LEMMA InitLife == Init => LifeInv
<1> SUFFICES ASSUME Init PROVE LifeInv
  OBVIOUS
<1>1. objs = <<>> /\ Len(objs) = 0 /\ objs \in Seq(Room)
  BY DEF Init
<1>2. Stored = {}
  BY DEF Init, Stored
<1>3. \A w : Fits(w, Idle, Len(objs), Stored)
  BY <1>1, IdleFits
<1>4. JobsInv /\ CreatorInv
  BY <1>3, IdleJob, WorkersDiffer DEF Init, JobsInv, CreatorInv
<1>5. HeapInv
  BY <1>1, <1>2 DEF Init, HeapInv, NoObj
<1>6. left \in Scenario
  BY ScenariosAssumption DEF Init
<1>7. TypeOK
  BY <1>1, <1>6, IdleJob DEF Init, TypeOK, NoObj
<1> QED
  BY <1>4, <1>5, <1>7 DEF LifeInv

LEMMA ProgressKeeps == ASSUME LifeInv, NEW w \in Workers, Progress(w), UNCHANGED scenario PROVE LifeInv'
<1>1. CASE w \in Conns /\ (Loaded(w) \/ QueueSecond(w) \/ Serve(w) \/ Switch(w) \/ Announce(w) \/ Part(w))
  BY <1>1, LoadedKeeps, QueueSecondKeeps, ServeTurn, SwitchTurn, TurnKeeps, AnnounceKeeps, PartKeeps
<1>2. CASE ServeSync(w) \/ ServeCleanup(w, FALSE) \/ Persist(w) \/ Apply(w) \/ ReadPresence(w)
  BY <1>2, ServeSyncTurn, ServeCleanupTurn, TurnKeeps, PersistKeeps, ApplyKeeps, ReadPresenceKeeps
<1>3. CASE CleanBefore \/ \E u \in Users, n \in 2 .. left.size, fill \in BOOLEAN : Create(u, n, fill)
  BY <1>3, CleanBeforeKeeps, CreateKeeps
<1> QED
  BY <1>1, <1>2, <1>3 DEF Progress

LEMMA FailureKeeps == ASSUME LifeInv, NEW w \in Workers, Failure(w), UNCHANGED scenario PROVE LifeInv'
BY PersistFailsKeeps, AnnounceKeeps, PartFailsKeeps, SweepKeeps, CreateFailsKeeps DEF Failure

LEMMA LifeStep == LifeInv /\ [Next]_vars => LifeInv'
<1> SUFFICES ASSUME LifeInv, [Next]_vars PROVE LifeInv'
  OBVIOUS
<1>1. CASE UNCHANGED vars
  BY <1>1 DEF LifeInv, TypeOK, HeapInv, JobsInv, CreatorInv, Stored, vars
<1>2. CASE \E w \in Workers : Progress(w) \/ Failure(w) \/ ServeCleanup(w, TRUE)
  BY <1>2, ProgressKeeps, FailureKeeps, ServeCleanupTurn, TurnKeeps DEF Next, vars
<1> QED
  BY <1>1, <1>2, AskKeeps, CloseKeeps, PingKeeps, CleanUpKeeps, GameKeeps, BeginCreateKeeps, RestartKeeps
     DEF Next, Request

\* The rooms, objects, queues and jobs have their types, whatever is asked of
\* room-manager.ts and whatever fails.
THEOREM LifecycleTypeCorrect == Spec => []TypeOK
<1>1. LifeInv => TypeOK
  BY DEF LifeInv
<1> QED
  BY <1>1, InitLife, LifeStep, PTL DEF Spec

LEMMA AlwaysLife == Spec => []LifeInv
BY InitLife, LifeStep, PTL DEF Spec

LEMMA InMemoryInOrder == ASSUME LifeInv, NEW r \in InMemory PROVE InOrder(In(r))
<1>1. rooms[r] \in 1 .. Len(objs)
  BY Tables DEF InMemory, NoObj
<1> QED
  BY <1>1 DEF LifeInv, HeapInv, In

LEMMA OneSeat == ASSUME NEW m, Single(m), NEW u \in Users PROVE Cardinality(SeatsOf(m, u)) <= 1
<1>1. CASE SeatsOf(m, u) = {}
  BY <1>1, FS_EmptySet
<1>2. ASSUME NEW i \in SeatsOf(m, u) PROVE Cardinality(SeatsOf(m, u)) <= 1
  <2>1. SeatsOf(m, u) = {i}
    BY <1>2 DEF Single
  <2>2. Cardinality({i}) = 1
    BY FS_Singleton
  <2> QED
    BY <2>1, <2>2
<1> QED
  BY <1>1, <1>2

LEMMA SeatsInOrderInv == LifeInv => SeatsInOrder
<1> SUFFICES ASSUME LifeInv PROVE SeatsInOrder
  OBVIOUS
<1>1. ASSUME NEW r \in InMemory, In(r).status = "LOBBY", Humans(In(r)) # {}
      PROVE  Seated(In(r), In(r).host)
  BY <1>1, InMemoryInOrder, NoneAssumption DEF InOrder, Hosted, Seated
<1>2. HostPresent
  BY <1>1 DEF HostPresent
<1>3. ASSUME NEW r \in InMemory, NEW u \in Users PROVE Cardinality(SeatsOf(In(r), u)) <= 1
  BY InMemoryInOrder, OneSeat DEF InOrder
<1> QED
  BY <1>2, <1>3 DEF SeatsInOrder, OneSeatEach

\* Every room in memory is led by one of its own and nobody sits there twice
\* (joinRoom, leaveRoom, switchRoom and repairHost in room-manager.ts), also
\* when the object was loaded late or replaces another.
THEOREM SeatsAlwaysInOrder == Spec => []SeatsInOrder
BY AlwaysLife, SeatsInOrderInv, PTL

-----------------------------------------------------------------------------
(***************************************************************************)
(* The queues are locks.  Who stands in the queue of a room has asked for  *)
(* it and stands there once; who saves heads the queues of all its rooms.  *)
(***************************************************************************)
AtWork(j) == j.phase \in {"queued", "saving", "saved"}
Busy(j) == j.phase \in {"saving", "saved"}
InLine(w, r) == \E i \in DOMAIN line[r] : line[r][i] = w
Heads(w) == \A r \in Held(job[w]) : line[r] # <<>> /\ Head(line[r]) = w
LockInv ==
  /\ \A w \in Workers, r \in Rooms : InLine(w, r) => AtWork(job[w]) /\ r \in Held(job[w])
  /\ \A r \in Rooms : \A i, k \in DOMAIN line[r] : line[r][i] = line[r][k] => i = k
  /\ \A w \in Workers : Busy(job[w]) => Heads(w)

\* Worker w goes on to job k: it stays where it is, its task ends, or it
\* enters another queue.
Stays(w, k) ==
  /\ line' = line
  /\ ~AtWork(job[w]) \/ (AtWork(k) /\ Held(k) = Held(job[w]))
  /\ Busy(k) => (Running(w) \/ Busy(job[w])) /\ Held(k) = Held(job[w])
Ends(w, k) == line' = Dequeued(w) /\ (Running(w) \/ Busy(job[w])) /\ ~AtWork(k)
Enters(w, k) ==
  \E r \in Held(k) \cap Rooms :
    /\ line' = [line EXCEPT ![r] = Append(@, w)] /\ k.phase = "queued"
    /\ ~AtWork(job[w]) \/ (k = job[w] /\ ~InLine(w, r))
Moves(w, k) == w \in Workers /\ job' = [job EXCEPT ![w] = k] /\ (Stays(w, k) \/ Ends(w, k) \/ Enters(w, k))

LEMMA LineFacts ==
  ASSUME LifeInv, NEW r \in Rooms
  PROVE  /\ line[r] \in Seq(Workers) /\ Len(line[r]) \in Nat /\ DOMAIN line[r] = 1 .. Len(line[r])
         /\ line[r] # <<>> => Len(line[r]) > 0 /\ Head(line[r]) = line[r][1]
<1>1. line[r] \in Seq(Workers)
  BY Tables
<1> QED
  BY <1>1, LenProperties, EmptySeq, HeadTailProperties

\* Without the head the queue of a room is what it was.
LEMMA LineDequeued ==
  ASSUME LifeInv, LockInv, NEW w \in Workers, NEW r \in Rooms, NEW l, l = Dequeued(w)[r]
  PROVE  /\ \A v \in Workers : (\E i \in DOMAIN l : l[i] = v) =>
                InLine(v, r) /\ (v = w => ~(line[r] # <<>> /\ Head(line[r]) = w))
         /\ \A i, k \in DOMAIN l : l[i] = l[k] => i = k
         /\ line[r] # <<>> /\ Head(line[r]) # w => l = line[r]
<1> DEFINE s == line[r]
<1>1. /\ s \in Seq(Workers) /\ Len(s) \in Nat /\ DOMAIN s = 1 .. Len(s)
      /\ s # <<>> => Len(s) > 0 /\ Head(s) = s[1]
  BY LineFacts
<1>2. \A i, k \in DOMAIN s : s[i] = s[k] => i = k
  BY DEF LockInv
<1>3. l = IF s # <<>> /\ Head(s) = w THEN Tail(s) ELSE s
  BY DEF Dequeued
<1>4. \A v : InLine(v, r) <=> \E i \in DOMAIN s : s[i] = v
  BY DEF InLine
<1> HIDE DEF s
<1>5. CASE s # <<>> /\ Head(s) = w
  <2>1. Len(l) = Len(s) - 1 /\ l \in Seq(Workers) /\ \A i \in 1 .. Len(s) - 1 : l[i] = s[i + 1]
    BY <1>1, <1>3, <1>5, HeadTailProperties
  <2>2. DOMAIN l = 1 .. Len(s) - 1
    BY <2>1, LenProperties
  <2>3. \A i \in DOMAIN l : l[i] = s[i + 1] /\ i + 1 \in DOMAIN s /\ i + 1 # 1
    <3>1. \A i \in DOMAIN l : i \in 1 .. Len(s) - 1 /\ l[i] = s[i + 1]
      BY <2>1, <2>2
    <3>2. \A i \in 1 .. Len(s) - 1 : i + 1 \in 1 .. Len(s) /\ i + 1 # 1
      BY <1>1
    <3> QED
      BY <1>1, <3>1, <3>2
  <2>4. 1 \in DOMAIN s /\ s[1] = w
    BY <1>1, <1>5
  <2>5. \A i \in DOMAIN l : l[i] # w
    BY <1>2, <2>3, <2>4
  <2>6. \A i, k \in DOMAIN l : l[i] = l[k] => i + 1 = k + 1
    BY <1>2, <2>3
  <2>7. \A i, k \in DOMAIN l : l[i] = l[k] => i = k
    BY <1>1, <2>2, <2>6
  <2>8. \A v \in Workers : (\E i \in DOMAIN l : l[i] = v) => (\E i \in DOMAIN s : s[i] = v) /\ v # w
    BY <2>3, <2>5
  <2> QED
    BY <1>4, <1>5, <2>7, <2>8 DEF s
<1>6. CASE ~(s # <<>> /\ Head(s) = w)
  <2>1. l = s
    BY <1>3, <1>6
  <2> QED
    BY <1>2, <1>4, <1>6, <2>1 DEF s
<1> QED
  BY <1>5, <1>6

LEMMA LineAppended ==
  ASSUME LifeInv, LockInv, NEW w \in Workers, NEW r \in Rooms, ~InLine(w, r), NEW l, l = Append(line[r], w)
  PROVE  /\ \A v \in Workers : (\E i \in DOMAIN l : l[i] = v) => InLine(v, r) \/ v = w
         /\ \A i, k \in DOMAIN l : l[i] = l[k] => i = k
         /\ line[r] # <<>> => l # <<>> /\ Head(l) = Head(line[r])
<1> DEFINE s == line[r]
<1>1. /\ s \in Seq(Workers) /\ Len(s) \in Nat /\ DOMAIN s = 1 .. Len(s)
      /\ s # <<>> => Len(s) > 0 /\ Head(s) = s[1]
  BY LineFacts
<1>2. \A i, k \in DOMAIN s : s[i] = s[k] => i = k
  BY DEF LockInv
<1>3. \A v : InLine(v, r) <=> \E i \in DOMAIN s : s[i] = v
  BY DEF InLine
<1>4. l = Append(s, w)
  OBVIOUS
<1> HIDE DEF s
<1>5. /\ l \in Seq(Workers) /\ Len(l) = Len(s) + 1 /\ l[Len(s) + 1] = w
      /\ \A i \in 1 .. Len(s) : l[i] = s[i]
  BY <1>1, <1>4, AppendProperties
<1>6. DOMAIN l = 1 .. Len(s) + 1 /\ l # <<>> /\ Head(l) = l[1]
  BY <1>1, <1>5, LenProperties, EmptySeq, HeadTailProperties
<1>7. \A i \in DOMAIN l : (i \in DOMAIN s /\ l[i] = s[i] /\ l[i] # w) \/ (i = Len(s) + 1 /\ l[i] = w)
  BY <1>1, <1>3, <1>5, <1>6
<1>8. \A i, k \in DOMAIN l : l[i] = l[k] => i = k
  BY <1>2, <1>7
<1>9. s # <<>> => Head(l) = Head(s)
  BY <1>1, <1>5, <1>6
<1> QED
  BY <1>3, <1>6, <1>7, <1>8, <1>9 DEF s

LEMMA MovesKeepLock == ASSUME LifeInv, LockInv, NEW w, NEW k, Moves(w, k) PROVE LockInv'
<1>1. /\ w \in Workers /\ job' = [job EXCEPT ![w] = k] /\ job'[w] = k
      /\ \A v \in Workers : v # w => job'[v] = job[v]
  BY Tables DEF Moves
<1>2. ASSUME NEW v \in Workers, v # w PROVE AtWork(job[v])' = AtWork(job[v]) /\ Held(job[v])' = Held(job[v]) /\ Busy(job[v])' = Busy(job[v])
  BY <1>1, <1>2 DEF AtWork, Held, Busy
<1>3. AtWork(job[w])' = AtWork(k) /\ Held(job[w])' = Held(k) /\ Busy(job[w])' = Busy(k)
  BY <1>1 DEF AtWork, Held, Busy
<1>4. \A v \in Workers : Held(job[v]) \subseteq Rooms
  BY Tables DEF Held, Job
<1>5. CASE Stays(w, k)
  <2>1. line' = line
    BY <1>5 DEF Stays
  <2>2. \A v, r : InLine(v, r)' = InLine(v, r)
    BY <2>1 DEF InLine
  <2>3. ASSUME NEW v \in Workers, NEW r \in Rooms, InLine(v, r) PROVE AtWork(job[v])' /\ r \in Held(job[v])'
    BY <1>2, <1>3, <1>5, <2>3 DEF LockInv, Stays
  <2>4. ASSUME NEW v \in Workers, Busy(job[v])' PROVE Heads(v)'
    <3>1. CASE v = w
      <4>1. Heads(w) /\ Held(k) = Held(job[w])
        BY <1>1, <1>3, <1>5, <2>4, <3>1 DEF LockInv, Stays, Running, Heads
      <4> QED
        BY <1>3, <2>1, <3>1, <4>1 DEF Heads
    <3>2. CASE v # w
      BY <1>2, <2>1, <2>4, <3>2 DEF LockInv, Heads
    <3> QED
      BY <3>1, <3>2
  <2> QED
    BY <2>1, <2>2, <2>3, <2>4 DEF LockInv
<1>6. CASE Ends(w, k)
  <2>1. line' = Dequeued(w) /\ ~AtWork(k) /\ Heads(w)
    BY <1>1, <1>6 DEF Ends, LockInv, Running, Heads
  <2>2. ASSUME NEW v \in Workers, NEW r \in Rooms, InLine(v, r)' PROVE AtWork(job[v])' /\ r \in Held(job[v])'
    <3>0. \E i \in DOMAIN Dequeued(w)[r] : Dequeued(w)[r][i] = v
      BY <2>1, <2>2 DEF InLine
    <3>1. InLine(v, r) /\ (v = w => ~(line[r] # <<>> /\ Head(line[r]) = w))
      BY <1>1, <3>0, LineDequeued
    <3>2. v # w
      BY <2>1, <3>1 DEF LockInv, Heads
    <3> QED
      BY <1>2, <3>1, <3>2 DEF LockInv
  <2>3. ASSUME NEW v \in Workers, Busy(job[v])' PROVE Heads(v)'
    <3>1. v # w
      BY <1>3, <2>1, <2>3 DEF AtWork, Busy
    <3>2. Heads(v)
      BY <1>2, <2>3, <3>1 DEF LockInv
    <3>3. \A r \in Held(job[v]) : Dequeued(w)[r] = line[r]
      BY <1>1, <1>4, <3>1, <3>2, LineDequeued DEF Heads
    <3> QED
      BY <1>2, <2>1, <3>1, <3>2, <3>3 DEF Heads
  <2>4. ASSUME NEW r \in Rooms PROVE (\A i, n \in DOMAIN line[r] : line[r][i] = line[r][n] => i = n)'
    BY <1>1, <2>1, LineDequeued
  <2> QED
    BY <2>2, <2>3, <2>4 DEF LockInv
<1>7. CASE Enters(w, k)
  <2>1. PICK r \in Held(k) \cap Rooms :
          /\ line' = [line EXCEPT ![r] = Append(@, w)] /\ k.phase = "queued"
          /\ ~AtWork(job[w]) \/ (k = job[w] /\ ~InLine(w, r))
    BY <1>7 DEF Enters
  <2>2. ~InLine(w, r) /\ AtWork(k) /\ ~Busy(k)
    BY <1>1, <2>1 DEF LockInv, AtWork, Busy
  <2>3. line'[r] = Append(line[r], w) /\ \A q \in Rooms : q # r => line'[q] = line[q]
    BY <2>1, Tables
  <2>4. ASSUME NEW v \in Workers, NEW q \in Rooms, InLine(v, q)' PROVE AtWork(job[v])' /\ q \in Held(job[v])'
    <3>1. InLine(v, q) \/ (v = w /\ q = r)
      <4>1. CASE q = r
        BY <1>1, <2>2, <2>3, <2>4, <4>1, LineAppended DEF InLine
      <4>2. CASE q # r
        BY <2>3, <2>4, <4>2 DEF InLine
      <4> QED
        BY <4>1, <4>2
    <3>2. CASE v = w
      <4>1. q = r \/ (InLine(w, q) /\ AtWork(job[w]) /\ q \in Held(job[w]))
        BY <1>1, <3>1, <3>2 DEF LockInv
      <4> QED
        BY <1>3, <2>1, <2>2, <3>2, <4>1 DEF AtWork
    <3>3. CASE v # w
      BY <1>2, <3>1, <3>3 DEF LockInv
    <3> QED
      BY <3>2, <3>3
  <2>5. ASSUME NEW v \in Workers, Busy(job[v])' PROVE Heads(v)'
    <3>1. v # w
      BY <1>3, <2>2, <2>5
    <3>2. Heads(v)
      BY <1>2, <2>5, <3>1 DEF LockInv
    <3>3. \A q \in Held(job[v]) : line'[q] # <<>> /\ Head(line'[q]) = Head(line[q])
      BY <1>1, <1>4, <2>2, <2>3, <3>2, LineAppended DEF Heads
    <3> QED
      BY <1>2, <3>1, <3>2, <3>3 DEF Heads
  <2>6. ASSUME NEW q \in Rooms PROVE (\A i, n \in DOMAIN line[q] : line[q][i] = line[q][n] => i = n)'
    <3>1. CASE q = r
      BY <1>1, <2>2, <2>3, <3>1, LineAppended
    <3>2. CASE q # r
      BY <2>3, <3>2 DEF LockInv
    <3> QED
      BY <3>1, <3>2
  <2> QED
    BY <2>4, <2>5, <2>6 DEF LockInv
<1> QED
  BY <1>5, <1>6, <1>7 DEF Moves
-----------------------------------------------------------------------------
(***************************************************************************)
(* As long as no deadline has passed and every restart loads every open    *)
(* room: each stored room has one object, which every job works on, and    *)
(* memory is what the store says but for the clones just committed.        *)
(***************************************************************************)
Alive == ~Happened("expiry")
WorksOn(j) == j.read = {} /\ \A r \in Rooms : j.target[r] # NoObj => j.target[r] = rooms[r]
Committed(r) == \E w \in Workers : job[w].phase = "saved" /\ job[w].new[r] # None

StoredOpen ==
  \A r \in Stored : rooms[r] # NoObj /\ store[r].watchers = {} /\ ~Closed(store[r]) /\ ~Closed(In(r))
OneObject == \A r, q \in Stored : rooms[r] = rooms[q] => r = q
JobsFresh == \A w \in Workers : WorksOn(job[w])
ClonesTrue ==
  \A w \in Workers, r \in Rooms : job[w].new[r] # None =>
    /\ ~Closed(job[w].new[r])
    /\ job[w].phase = "saving" => Spares(w, In(r), job[w].new[r])
    /\ job[w].phase = "saved" => store[r] = Durable(job[w].new[r])
Agreed == \A r \in Stored : ~Committed(r) => Columns(In(r)) = Restored(store[r])
MemCore == StoredOpen /\ OneObject /\ JobsFresh /\ ClonesTrue /\ Agreed

BoundsInv == left.expiry <= Scenarios[scenario].expiry /\ left.unloaded = 0
MemInv == BoundsInv /\ (Alive => MemCore)

\* The bounds only shrink.
Shrinks == left'.expiry <= left.expiry /\ left'.unloaded = left.unloaded
LEMMA SpendShrinks == ASSUME LifeInv, NEW b \in Bounds, Spend(b) PROVE Shrinks
<1>0. left \in Scenario
  BY Tables
<1>1. CASE b = "expiry"
  BY <1>0, <1>1 DEF Spend, Shrinks, Scenario
<1>2. CASE b # "expiry"
  BY <1>0, <1>2 DEF Spend, Shrinks, Scenario, Bounds
<1> QED
  BY <1>1, <1>2

LEMMA SameShrinks == ASSUME LifeInv, left' = left PROVE Shrinks
BY Tables DEF Shrinks, Scenario

\* A step that leaves the deadlines unpassed has passed none.
LEMMA NoExpiry ==
  ASSUME LifeInv, BoundsInv, left' \in Scenario, UNCHANGED scenario, Alive'
  PROVE  ~(left'.expiry < left.expiry)
<1> DEFINE bound == Scenarios[scenario]
<1>1. bound \in Scenario
  BY ScenariosAssumption DEF LifeInv, TypeOK
<1>2. bound.expiry \in Nat /\ left.expiry \in Nat /\ left'.expiry \in Nat
  BY <1>1, Tables DEF Scenario
<1>3. ~(left'.expiry < bound.expiry)
  BY DEF Alive, Happened
<1> QED
  BY <1>2, <1>3 DEF BoundsInv

\* A step beside the data: worker w goes on to job k and nothing is written.
Aside(w, k) ==
  /\ Shrinks
  /\ (MemCore /\ BoundsInv /\ Alive') =>
       /\ UNCHANGED <<store, objs, rooms>> /\ WorksOn(k)
       /\ job[w].phase # "saved" /\ k.phase # "saved"
       /\ \A r \in Rooms : k.new[r] # None => ~Closed(k.new[r]) /\ Spares(w, In(r), k.new[r])
Steps(w) == \E k : Moves(w, k) /\ Aside(w, k)

\* A job that holds nothing.
Plain(k) == ~AtWork(k) /\ k.read = {} /\ \A r \in Rooms : k.target[r] = NoObj /\ k.new[r] = None
LEMMA IdlePlain == Plain(Idle)
BY IdleJob DEF Plain, AtWork

LEMMA TodoPlain ==
  ASSUME NEW phase \in Phases, phase \notin {"queued", "saving", "saved"}, NEW todo
  PROVE  Plain([Idle EXCEPT !.phase = phase, !.todo = todo])
BY IdleJob DEF Plain, AtWork, Job

LEMMA PlainSteps ==
  ASSUME LifeInv, NEW w \in Workers, NEW k, Plain(k), job' = [job EXCEPT ![w] = k],
         \/ line' = line /\ ~AtWork(job[w])
         \/ line' = Dequeued(w) /\ (Running(w) \/ Busy(job[w])),
         job[w].phase # "saved", Shrinks,
         MemCore => UNCHANGED <<store, objs, rooms>>
  PROVE  Steps(w)
<1>1. Moves(w, k)
  BY DEF Moves, Stays, Ends, Plain, AtWork, Busy
<1>2. Aside(w, k)
  BY DEF Aside, Plain, WorksOn, AtWork
<1> QED
  BY <1>1, <1>2 DEF Steps

LEMMA ThenPlain == ASSUME NEW w PROVE Plain(Then(w))
<1> DEFINE j == job[w]
           todo == (IF j.from = NoRoom THEN <<>> ELSE <<j.from>>) \o <<j.room>>
<1>1. CASE j.kind \in Joins
  <2>1. Then(w) = [Idle EXCEPT !.phase = "present", !.todo = todo]
    BY <1>1 DEF Then, Joins
  <2> HIDE DEF todo
  <2> QED
    BY <2>1, TodoPlain DEF Phases
<1>2. CASE j.kind = "leave"
  <2>1. Then(w) = [Idle EXCEPT !.phase = "parting"]
    BY <1>2 DEF Then, Joins
  <2> QED
    BY <2>1, IdleJob DEF Plain, AtWork, Job
<1>3. CASE j.kind = "sync" /\ j.todo # <<>>
  <2>1. Then(w) = [Idle EXCEPT !.phase = "syncing", !.todo = j.todo]
    BY <1>3 DEF Then, Joins
  <2> QED
    BY <2>1, TodoPlain DEF Phases
<1>4. CASE j.kind = "cleanup" /\ w = Creator
  <2>1. Then(w) = [Idle EXCEPT !.phase = "sweeping", !.todo = j.todo]
    BY <1>4 DEF Then, Joins
  <2> QED
    BY <2>1, TodoPlain DEF Phases
<1>5. CASE /\ j.kind \notin Joins /\ j.kind # "leave"
           /\ ~(j.kind = "sync" /\ j.todo # <<>>) /\ ~(j.kind = "cleanup" /\ w = Creator)
  BY <1>5, IdlePlain DEF Then
<1> QED
  BY <1>1, <1>2, <1>3, <1>4, <1>5

LEMMA TurnSteps == ASSUME LifeInv, NEW w, Turn(w), UNCHANGED scenario PROVE Steps(w)
<1>1. /\ w \in Workers /\ Running(w) /\ job[w].phase = "queued" /\ Shrinks /\ UNCHANGED <<store, objs>>
      /\ job[w] \in Job
  BY Tables DEF Turn, Shrinks, Running
<1>2. CASE GiveUp(w)
  <2>1. job' = [job EXCEPT ![w] = Idle] /\ line' = Dequeued(w) /\ rooms' = rooms
    BY <1>2 DEF GiveUp
  <2> QED
    BY <1>1, <2>1, IdlePlain, PlainSteps
<1>3. CASE Conclude(w)
  <2>1. ~Closes(job[w])
    <3>1. job[w].kind = "cleanup" => job[w].room \in Rooms
      BY <1>1, Tables DEF Placed
    <3> QED
      BY <1>1, <3>1, Tables DEF Closes, Fits
  <2>2. job' = [job EXCEPT ![w] = Then(w)] /\ line' = Dequeued(w) /\ rooms' = rooms
    BY <1>3, <2>1 DEF Conclude
  <2> QED
    BY <1>1, <2>2, ThenPlain, PlainSteps
<1>4. ASSUME NEW clones \in [Rooms -> Room \cup {None}], Savable(w, clones), StartSave(w, clones),
             StaysOpen(w, clones) \/ left'.expiry < left.expiry
      PROVE  Steps(w)
  <2> DEFINE tgt == [r \in Rooms |-> IF clones[r] = None THEN NoObj ELSE Obj(w, r)]
             k == [job[w] EXCEPT !.phase = "saving", !.new = clones, !.target = tgt]
  <2>1. job' = [job EXCEPT ![w] = k] /\ line' = line /\ rooms' = rooms
    BY <1>4, Tables DEF StartSave
  <2>2. \A r \in Rooms : tgt[r] = IF clones[r] = None THEN NoObj ELSE Obj(w, r)
    OBVIOUS
  <2> HIDE DEF tgt
  <2>3. /\ k.phase = "saving" /\ k.new = clones /\ k.target = tgt /\ k.read = job[w].read
        /\ k.room = job[w].room /\ k.from = job[w].from
    BY <1>1 DEF Job
  <2> HIDE DEF k
  <2>4. Moves(w, k)
    BY <1>1, <2>1, <2>3 DEF Moves, Stays, AtWork, Busy, Held
  <2>5. ASSUME MemCore, BoundsInv, Alive'
        PROVE  WorksOn(k) /\ \A r \in Rooms : k.new[r] # None => ~Closed(k.new[r]) /\ Spares(w, In(r), k.new[r])
    <3>1. StaysOpen(w, clones)
      <4>1. ~(left'.expiry < left.expiry)
        BY <2>5, NoExpiry DEF Turn
      <4> QED
        BY <1>4, <4>1
    <3>2. \A r \in Stored : Obj(w, r) = rooms[r] /\ ~Closed(In(r))
      BY <2>5 DEF MemCore, StoredOpen, Obj
    <3>3. \A r \in Rooms : clones[r] # None => r \in Stored /\ Spares(w, objs[Obj(w, r)], clones[r])
      BY <1>4 DEF Savable
    <3>4. \A r \in Rooms : clones[r] # None =>
             /\ Obj(w, r) = rooms[r] /\ ~Closed(clones[r]) /\ Spares(w, In(r), clones[r])
      BY <3>1, <3>2, <3>3 DEF StaysOpen, In
    <3>5. k.read = {}
      BY <1>1, <2>3, <2>5 DEF MemCore, JobsFresh, WorksOn
    <3> QED
      BY <2>2, <2>3, <3>4, <3>5 DEF WorksOn
  <2>6. Aside(w, k)
    BY <1>1, <2>1, <2>3, <2>5 DEF Aside
  <2> QED
    BY <2>4, <2>6 DEF Steps
<1> QED
  BY <1>2, <1>3, <1>4 DEF Turn, Served

LEMMA PersistFailsSteps == ASSUME LifeInv, NEW w \in Workers, PersistFails(w) PROVE Steps(w)
<1>1. /\ job' = [job EXCEPT ![w] = Idle] /\ line' = Dequeued(w) /\ UNCHANGED <<rooms, store, objs>>
      /\ Spend("failure") /\ Busy(job[w]) /\ job[w].phase # "saved"
  BY DEF PersistFails, GiveUp, Busy
<1> QED
  BY <1>1, IdlePlain, PlainSteps, SpendShrinks DEF Bounds

LEMMA CloseSteps == ASSUME LifeInv, NEW c \in Conns, Close(c) PROVE Steps(c)
<1> DEFINE k == [Idle EXCEPT !.phase = "parting", !.todo = <<at[c]>>]
<1>1. /\ c \in Workers /\ job' = [job EXCEPT ![c] = k] /\ UNCHANGED <<store, objs, rooms, line>>
      /\ ~AtWork(job[c]) /\ job[c].phase # "saved" /\ Spend("close")
  BY WorkersDiffer DEF Close, AtWork
<1>2. Plain(k)
  BY TodoPlain DEF Phases
<1> HIDE DEF k
<1> QED
  BY <1>1, <1>2, PlainSteps, SpendShrinks DEF Bounds

LEMMA SweepSteps == ASSUME LifeInv, NEW c \in Conns, SweepPresence(c) PROVE Steps(Sweeper)
<1> DEFINE k == [Idle EXCEPT !.phase = "syncing", !.todo = <<pres[c]>>]
<1>1. /\ Sweeper \in Workers /\ job' = [job EXCEPT ![Sweeper] = k] /\ UNCHANGED <<store, objs, rooms, line>>
      /\ ~AtWork(job[Sweeper]) /\ job[Sweeper].phase # "saved"
  BY WorkersDiffer DEF SweepPresence, AtWork
<1>2. Plain(k)
  BY TodoPlain DEF Phases
<1>3. Shrinks
  BY SameShrinks, SpendShrinks DEF SweepPresence, Bounds
<1> HIDE DEF k
<1> QED
  BY <1>1, <1>2, <1>3, PlainSteps

LEMMA BeginCreateSteps == ASSUME LifeInv, BeginCreate PROVE Steps(Creator)
<1> DEFINE todo == SetToSeq({r \in Rooms : rooms[r] # NoObj})
           k == [Idle EXCEPT !.phase = "sweeping", !.todo = todo]
<1>1. /\ Creator \in Workers /\ job' = [job EXCEPT ![Creator] = k] /\ UNCHANGED <<store, objs, rooms, line>>
      /\ ~AtWork(job[Creator]) /\ job[Creator].phase # "saved" /\ left' = left
  BY WorkersDiffer DEF BeginCreate, AtWork
<1> HIDE DEF todo
<1>2. Plain(k)
  BY TodoPlain DEF Phases
<1> HIDE DEF k
<1> QED
  BY <1>1, <1>2, SameShrinks, PlainSteps

LEMMA CreateFailsSteps == ASSUME LifeInv, CreateFails PROVE Steps(Creator)
<1>1. /\ Creator \in Workers /\ job' = [job EXCEPT ![Creator] = Idle] /\ UNCHANGED <<store, objs, rooms, line>>
      /\ ~AtWork(job[Creator]) /\ job[Creator].phase # "saved" /\ Spend("failure")
  BY WorkersDiffer DEF CreateFails, AtWork
<1> QED
  BY <1>1, IdlePlain, SpendShrinks, PlainSteps DEF Bounds

\* A job that keeps its rooms and goes on to another phase.
LEMMA OnwardSteps ==
  ASSUME LifeInv, NEW w \in Workers, NEW k, job' = [job EXCEPT ![w] = k], UNCHANGED <<store, objs, line>>,
         ~AtWork(job[w]), ~AtWork(k), WorksOn(job[w]) => WorksOn(k), k.new = job[w].new,
         UNCHANGED rooms, Shrinks
  PROVE  Steps(w)
<1>1. \A r \in Rooms : job[w].new[r] = None
  BY Tables DEF Fits, AtWork
<1>2. Moves(w, k)
  BY DEF Moves, Stays, AtWork, Busy
<1>3. Aside(w, k)
  BY <1>1 DEF Aside, MemCore, JobsFresh, AtWork
<1> QED
  BY <1>2, <1>3 DEF Steps

LEMMA AnnounceSteps == ASSUME LifeInv, NEW c \in Conns, Announce(c) \/ AnnounceFails(c) PROVE Steps(c)
<1>1. c \in Workers /\ job[c] \in Job /\ ~AtWork(job[c])
  BY WorkersDiffer, Tables DEF Announce, AnnounceFails, AtWork
<1>2. CASE Announce(c)
  <2> DEFINE k == [job[c] EXCEPT !.phase = "syncing"]
  <2>1. job' = [job EXCEPT ![c] = k] /\ UNCHANGED <<store, objs, rooms, line>> /\ left' = left
    BY <1>2, Tables DEF Announce
  <2>2. ~AtWork(k) /\ k.new = job[c].new /\ k.read = job[c].read /\ k.target = job[c].target
    BY <1>1 DEF AtWork, Job
  <2> HIDE DEF k
  <2> QED
    BY <1>1, <2>1, <2>2, OnwardSteps, SameShrinks DEF WorksOn
<1>3. CASE AnnounceFails(c)
  <2>1. /\ job' = [job EXCEPT ![c] = Idle] /\ UNCHANGED <<store, objs, rooms, line>> /\ Spend("outage")
        /\ job[c].phase # "saved"
    BY <1>3 DEF AnnounceFails
  <2> QED
    BY <1>1, <2>1, IdlePlain, SpendShrinks, PlainSteps DEF Bounds
<1> QED
  BY <1>2, <1>3

LEMMA PartSteps == ASSUME LifeInv, NEW c \in Conns, Part(c) PROVE Steps(c)
<1>1. /\ c \in Workers /\ job[c] \in Job /\ ~AtWork(job[c]) /\ job[c].phase # "saved" /\ left' = left
      /\ UNCHANGED <<store, objs, rooms, line>> /\ job' = [job EXCEPT ![c] = AfterParting(c)]
  BY WorkersDiffer, Tables DEF Part, AtWork
<1>2. CASE job[c].todo = <<>>
  BY <1>1, <1>2, IdlePlain, SameShrinks, PlainSteps DEF AfterParting
<1>3. CASE job[c].todo # <<>>
  <2> DEFINE k == [job[c] EXCEPT !.phase = "syncing"]
  <2>1. job' = [job EXCEPT ![c] = k]
    BY <1>1, <1>3 DEF AfterParting
  <2>2. ~AtWork(k) /\ k.new = job[c].new /\ k.read = job[c].read /\ k.target = job[c].target
    BY <1>1 DEF AtWork, Job
  <2> HIDE DEF k
  <2> QED
    BY <1>1, <2>1, <2>2, OnwardSteps, SameShrinks DEF WorksOn
<1> QED
  BY <1>2, <1>3

\* A worker free of queues asks for its turn in a room.
LEMMA EntersSteps ==
  ASSUME LifeInv, NEW w \in Workers, NEW k, NEW r \in Rooms, r \in Held(k), k.phase = "queued",
         job' = [job EXCEPT ![w] = k], line' = [line EXCEPT ![r] = Append(@, w)],
         ~AtWork(job[w]), MemCore => WorksOn(k), \A q \in Rooms : k.new[q] = None,
         UNCHANGED <<store, objs>>, MemCore => UNCHANGED rooms, Shrinks
  PROVE  Steps(w)
<1>1. Moves(w, k)
  BY DEF Moves, Enters
<1>2. Aside(w, k)
  BY DEF Aside, AtWork
<1> QED
  BY <1>1, <1>2 DEF Steps

LEMMA QueueSyncSteps ==
  ASSUME LifeInv, NEW w \in Workers, job[w].phase \in {"parting", "syncing"}, job[w].todo # <<>>,
         NEW ids, QueueSync(w, Head(job[w].todo), ids), UNCHANGED <<store, objs, rooms>>, Shrinks
  PROVE  Steps(w)
<1> DEFINE j == job[w]
           r == Head(j.todo)
           rest == Tail(j.todo)
<1>1. j \in Job /\ j.todo \in Seq(Rooms) /\ ~AtWork(j) /\ j.phase # "saved"
  BY Tables DEF Job, AtWork
<1>2. r \in Rooms
  BY <1>1, HeadTailProperties
<1>3. CASE rooms[r] = NoObj
  <2>1. line' = line
    BY <1>3 DEF QueueSync
  <2>2. CASE rest = <<>>
    <3>1. job' = [job EXCEPT ![w] = Idle]
      BY <1>3, <2>2 DEF QueueSync
    <3> QED
      BY <1>1, <2>1, <3>1, IdlePlain, PlainSteps
  <2>3. CASE rest # <<>>
    <3> DEFINE k == [j EXCEPT !.todo = rest]
    <3>1. job' = [job EXCEPT ![w] = k]
      BY <1>3, <2>3, Tables DEF QueueSync
    <3>2. ~AtWork(k) /\ k.new = j.new /\ k.read = j.read /\ k.target = j.target
      BY <1>1 DEF AtWork, Job
    <3> HIDE DEF k
    <3> QED
      BY <1>1, <2>1, <3>1, <3>2, OnwardSteps DEF WorksOn
  <2> QED
    BY <2>2, <2>3
<1>4. CASE rooms[r] # NoObj
  <2> DEFINE tgt == [Idle.target EXCEPT ![r] = rooms[r]]
             k == [Idle EXCEPT !.kind = "sync", !.phase = "queued", !.room = r, !.ids = ids,
                               !.target = tgt, !.todo = rest]
  <2>1. job' = [job EXCEPT ![w] = k] /\ line' = [line EXCEPT ![r] = Append(@, w)]
    BY <1>4 DEF QueueSync, Queue
  <2>2. \A q \in Rooms : tgt[q] = IF q = r THEN rooms[r] ELSE NoObj
    <3>1. Idle.target = [q \in Rooms |-> NoObj]
      BY DEF Idle
    <3> QED
      BY <1>2, <3>1
  <2> HIDE DEF tgt
  <2>3. k.phase = "queued" /\ k.room = r /\ k.read = {} /\ k.target = tgt /\ k.new = Idle.new
    BY IdleJob DEF Job
  <2> HIDE DEF k
  <2>4. r \in Held(k) /\ WorksOn(k) /\ \A q \in Rooms : k.new[q] = None
    BY <1>2, <2>2, <2>3, IdleJob, RoomsAssumption DEF Held, WorksOn
  <2> QED
    BY <1>1, <1>2, <2>1, <2>3, <2>4, EntersSteps
<1> QED
  BY <1>3, <1>4

LEMMA ReadPresenceSteps == ASSUME LifeInv, NEW w \in Workers, ReadPresence(w) PROVE Steps(w)
<1> DEFINE ids == PresentIn(Head(job[w].todo))
<1>1. /\ job[w].phase = "syncing" /\ job[w].todo # <<>> /\ left' = left
      /\ QueueSync(w, Head(job[w].todo), ids) /\ UNCHANGED <<store, objs, rooms>>
  BY Tables DEF ReadPresence, Placed
<1> HIDE DEF ids
<1> QED
  BY <1>1, QueueSyncSteps, SameShrinks

LEMMA PartFailsSteps == ASSUME LifeInv, NEW c \in Conns, PartFails(c) PROVE Steps(c)
<1>1. /\ c \in Workers /\ job[c].phase = "parting" /\ UNCHANGED <<store, objs, rooms>> /\ Shrinks
      /\ ~AtWork(job[c]) /\ job[c].phase # "saved"
  BY WorkersDiffer, SpendShrinks DEF PartFails, Bounds, AtWork
<1>2. CASE job[c].todo = <<>>
  BY <1>1, <1>2, IdlePlain, PlainSteps DEF PartFails
<1>3. CASE job[c].todo # <<>>
  <2> DEFINE ids == AttachedTo(Head(job[c].todo))
  <2>1. QueueSync(c, Head(job[c].todo), ids)
    BY <1>3 DEF PartFails
  <2> HIDE DEF ids
  <2> QED
    BY <1>1, <1>3, <2>1, QueueSyncSteps
<1> QED
  BY <1>2, <1>3

LEMMA QueueCleanupSteps ==
  ASSUME LifeInv, NEW w \in Workers, NEW r \in Rooms, NEW todo, ~AtWork(job[w]),
         QueueCleanup(w, r, todo), UNCHANGED <<store, objs, rooms, left>>
  PROVE  Steps(w)
<1> DEFINE k == [Idle EXCEPT !.kind = "cleanup", !.phase = "queued", !.room = r, !.todo = todo]
<1>1. job' = [job EXCEPT ![w] = k] /\ line' = [line EXCEPT ![r] = Append(@, w)]
  BY DEF QueueCleanup, Queue
<1>2. k.phase = "queued" /\ k.room = r /\ k.read = {} /\ k.target = Idle.target /\ k.new = Idle.new
  BY IdleJob DEF Job
<1> HIDE DEF k
<1>3. r \in Held(k) /\ WorksOn(k) /\ \A q \in Rooms : k.new[q] = None
  BY <1>2, IdleJob, RoomsAssumption DEF Held, WorksOn
<1> QED
  BY <1>1, <1>2, <1>3, EntersSteps, SameShrinks

LEMMA CleanUpSteps == ASSUME LifeInv, NEW r \in Rooms, CleanUp(r) PROVE Steps(Cleaner)
BY WorkersDiffer, QueueCleanupSteps DEF CleanUp, AtWork

LEMMA CleanBeforeSteps == ASSUME LifeInv, CleanBefore PROVE Steps(Creator)
<1>1. job[Creator].todo \in Seq(Rooms) /\ Creator \in Workers
  BY Tables, WorkersDiffer DEF Job
<1>2. Head(job[Creator].todo) \in Rooms /\ ~AtWork(job[Creator])
  BY <1>1, HeadTailProperties DEF CleanBefore, AtWork
<1> QED
  BY <1>1, <1>2, QueueCleanupSteps DEF CleanBefore

LEMMA QueueSecondSteps == ASSUME LifeInv, NEW c \in Conns, QueueSecond(c) PROVE Steps(c)
<1> DEFINE r == Max(Held(job[c]))
<1>1. /\ c \in Workers /\ job[c] \in Job /\ job[c].phase = "queued" /\ job[c].kind # "none"
      /\ job[c].room \in Rooms
  BY WorkersDiffer, Tables DEF QueueSecond, Placed
<1>2. r \in Held(job[c]) /\ r \in Rooms
  BY <1>1, HeldRooms
<1>3. /\ line' = [line EXCEPT ![r] = Append(@, c)] /\ c \notin ToSet(line[r])
      /\ UNCHANGED <<store, objs, rooms, left>> /\ job' = [job EXCEPT ![c] = job[c]]
  BY Tables DEF QueueSecond, Queue
<1> HIDE DEF r
<1>4. ~InLine(c, r)
  BY <1>3 DEF InLine, ToSet
<1>5. Moves(c, job[c])
  BY <1>1, <1>2, <1>3, <1>4 DEF Moves, Enters
<1>6. \A q \in Rooms : job[c].new[q] = None
  BY <1>1, Tables DEF Fits
<1>7. Aside(c, job[c])
  BY <1>1, <1>3, <1>6, SameShrinks DEF Aside, MemCore, JobsFresh
<1> QED
  BY <1>5, <1>7 DEF Steps

LEMMA AskSteps == ASSUME LifeInv, NEW c \in Conns, Ask(c) PROVE Steps(c)
<1>1. PICK kind \in left.kinds, r \in Rooms, arg \in 0 .. MaxSeats : Asking(c, kind, r, arg)
  BY DEF Ask, Asking
<1> DEFINE from == IF kind \in Joins /\ at[c] # r THEN at[c] ELSE NoRoom
           named == {r, from} \ {NoRoom}
           absent == {q \in named : rooms[q] = NoObj}
           read == SetToSeq(absent)
           new == [i \in DOMAIN read |-> Restored(store[read[i]])]
           tgt == [q \in Rooms |->
               IF q \notin named THEN NoObj
               ELSE IF rooms[q] # NoObj THEN rooms[q]
               ELSE Len(objs) + (CHOOSE i \in DOMAIN read : read[i] = q)]
           k == [Idle EXCEPT !.kind = kind, !.room = r, !.from = from, !.arg = arg, !.phase = "loading",
                             !.read = ToSet(read), !.target = tgt]
<1>2. objs' = objs \o new /\ job' = [job EXCEPT ![c] = k] /\ store[r] # None
  BY <1>1 DEF Asking
<1>3. c \in Workers /\ UNCHANGED <<store, rooms, line>> /\ ~AtWork(job[c]) /\ job[c].phase # "saved" /\ Shrinks
  <2>1. job[c].phase = "idle" /\ Spend("ask") /\ "ask" \in Bounds /\ UNCHANGED <<store, rooms, line>>
    BY <1>1 DEF Asking, Bounds
  <2> QED
    BY <2>1, WorkersDiffer, SpendShrinks DEF AtWork
<1>4. named \subseteq Stored
  BY <1>2, Tables DEF Stored
<1> HIDE DEF from
<1>5. \A q \in Rooms : tgt[q] = IF q \notin named THEN NoObj
               ELSE IF rooms[q] # NoObj THEN rooms[q]
               ELSE Len(objs) + (CHOOSE i \in DOMAIN read : read[i] = q)
  OBVIOUS
<1> HIDE DEF tgt
<1>6. k.phase = "loading" /\ k.read = ToSet(read) /\ k.target = tgt /\ k.new = Idle.new
  BY IdleJob DEF Job
<1>7. ASSUME MemCore PROVE objs' = objs /\ k.read = {} /\ \A q \in Rooms : tgt[q] # NoObj => tgt[q] = rooms[q]
  <2>1. absent = {}
    BY <1>4, <1>7 DEF MemCore, StoredOpen
  <2>2. read \in Seq(absent)
    BY <2>1, SetAsSequence, FS_EmptySet
  <2> HIDE DEF read
  <2>3. read = <<>>
    BY <2>1, <2>2, LenProperties, EmptySeq, ElementOfSeq
  <2>4. new = <<>> /\ ToSet(read) = {}
    BY <2>3 DEF ToSet
  <2>5. objs \o <<>> = objs
    BY Tables, ConcatEmptySeq
  <2>6. \A q \in Rooms : q \in named => rooms[q] # NoObj
    BY <2>1
  <2> QED
    BY <1>2, <1>5, <1>6, <2>4, <2>5, <2>6
<1> HIDE DEF k, named, read
<1>8. Moves(c, k)
  BY <1>2, <1>3, <1>6 DEF Moves, Stays, AtWork, Busy
<1>9. Aside(c, k)
  BY <1>3, <1>6, <1>7, IdleJob DEF Aside, WorksOn
<1> QED
  BY <1>8, <1>9 DEF Steps

LEMMA LoadedSteps == ASSUME LifeInv, NEW c \in Conns, Loaded(c) PROVE Steps(c)
<1> DEFINE j == job[c]
           k == [job[c] EXCEPT !.phase = "queued", !.read = {}]
<1>1. /\ c \in Workers /\ j \in Job /\ Placed(c, j) /\ Fits(c, j, Len(objs), Stored)
      /\ j.phase = "loading" /\ ~AtWork(j) /\ Shrinks /\ UNCHANGED <<store, objs>>
  BY WorkersDiffer, Tables, SameShrinks DEF Loaded, AtWork
<1>2. j.room \in Rooms
  BY <1>1 DEF Placed, AllKinds, Joins, HostKinds
<1>3. MemCore => rooms' = rooms
  <2>1. rooms' = [q \in Rooms |->
          IF q \in j.read /\ ~Closed(objs[j.target[q]]) THEN j.target[q] ELSE rooms[q]]
    BY DEF Loaded
  <2>2. MemCore => j.read = {}
    BY <1>1 DEF MemCore, JobsFresh, WorksOn
  <2>3. rooms = [q \in Rooms |-> rooms[q]]
    BY Tables
  <2> QED
    BY <2>1, <2>2, <2>3
<1>4. \/ job' = [job EXCEPT ![c] = Idle] /\ line' = line
      \/ job' = [job EXCEPT ![c] = k] /\ line' = [line EXCEPT ![Min(Held(j))] = Append(@, c)]
  <2>1. \/ job' = [job EXCEPT ![c] = Idle] /\ line' = line
        \/ job' = [job EXCEPT ![c].phase = "queued", ![c].read = {}] /\ Queue(c, Min(Held(j)))
    BY DEF Loaded
  <2> QED
    BY <1>1, <2>1, Tables DEF Queue
<1>5. CASE job' = [job EXCEPT ![c] = Idle] /\ line' = line
  BY <1>1, <1>3, <1>5, IdlePlain, PlainSteps
<1>6. CASE job' = [job EXCEPT ![c] = k] /\ line' = [line EXCEPT ![Min(Held(j))] = Append(@, c)]
  <2> DEFINE r == Min(Held(j))
  <2>1. r \in Held(j) /\ r \in Rooms
    BY <1>1, <1>2, HeldRooms
  <2>2. /\ k.room = j.room /\ k.from = j.from /\ k.phase = "queued"
        /\ k.read = {} /\ k.target = j.target /\ k.new = j.new
    BY <1>1 DEF Job
  <2> HIDE DEF r
  <2>3. job' = [job EXCEPT ![c] = k] /\ line' = [line EXCEPT ![r] = Append(@, c)]
    BY <1>6 DEF r
  <2> HIDE DEF k
  <2>4. r \in Held(k) /\ \A q \in Rooms : k.new[q] = None
    BY <1>1, <2>1, <2>2 DEF Held, Fits
  <2>5. MemCore => WorksOn(k)
    BY <1>1, <2>2 DEF MemCore, JobsFresh, WorksOn
  <2> QED
    BY <1>1, <1>3, <2>1, <2>2, <2>3, <2>4, <2>5, EntersSteps
<1> QED
  BY <1>4, <1>5, <1>6
-----------------------------------------------------------------------------
(* Every step keeps the locks.                                             *)

LEMMA PersistMoves == ASSUME LifeInv, NEW w \in Workers, Persist(w) PROVE Moves(w, [job[w] EXCEPT !.phase = "saved"])
<1> DEFINE k == [job[w] EXCEPT !.phase = "saved"]
<1>1. job' = [job EXCEPT ![w] = k] /\ line' = line /\ job[w] \in Job /\ job[w].phase = "saving"
  BY Tables DEF Persist
<1>2. k.phase = "saved" /\ k.room = job[w].room /\ k.from = job[w].from
  BY <1>1 DEF Job
<1> HIDE DEF k
<1>3. Moves(w, k)
  BY <1>1, <1>2 DEF Moves, Stays, AtWork, Busy, Held
<1> QED
  BY <1>3 DEF k

LEMMA ApplyMoves == ASSUME LifeInv, NEW w \in Workers, Apply(w) PROVE Moves(w, Then(w))
BY ThenPlain DEF Apply, Conclude, Moves, Ends, Busy, Plain

LEMMA CreateMoves ==
  ASSUME LifeInv, NEW u, NEW size, NEW fill, Create(u, size, fill) PROVE Moves(Creator, Idle)
BY WorkersDiffer, IdlePlain DEF Create, Moves, Stays, AtWork, Busy, Plain

LEMMA StillLock == ASSUME LockInv, UNCHANGED <<line, job>> PROVE LockInv'
<1>1. \A w, r : InLine(w, r)' = InLine(w, r)
  BY DEF InLine
<1>2. \A w : Heads(w)' = Heads(w)
  BY DEF Heads
<1> QED
  BY <1>1, <1>2 DEF LockInv

LEMMA RestartLock == ASSUME Restart PROVE LockInv'
<1>1. line' = [r \in Rooms |-> <<>>] /\ job' = [w \in Workers |-> Idle]
  BY DEF Restart
<1>2. \A w \in Workers : job'[w].phase = "idle"
  BY <1>1, IdleJob
<1>3. \A w \in Workers : ~Busy(job'[w])
  BY <1>2 DEF Busy
<1>4. \A r \in Rooms : line'[r] = <<>> /\ DOMAIN line'[r] = {}
  BY <1>1
<1> QED
  BY <1>3, <1>4 DEF LockInv, InLine

\* The steps that write something.
Writes ==
  \/ \E w \in Workers : Persist(w) \/ Apply(w)
  \/ \E u \in Users, n \in 2 .. left.size, fill \in BOOLEAN : Create(u, n, fill)
  \/ \E r \in Rooms : Finish(r) \/ Stall(r)
  \/ Restart
LEMMA StepKinds ==
  ASSUME LifeInv, [Next]_vars
  PROVE  /\ Writes \/ (\E w : Steps(w)) \/ UNCHANGED <<store, objs, rooms, line, job, left>>
         /\ scenario' = scenario
<1>1. CASE UNCHANGED vars
  BY <1>1 DEF vars
<1>2. ASSUME NEW w \in Workers, Progress(w) \/ Failure(w) \/ ServeCleanup(w, TRUE), scenario' = scenario
      PROVE  Writes \/ Steps(w) \/ \E v : Steps(v)
  <2>1. CASE Progress(w)
    <3>1. CASE w \in Conns /\ (Loaded(w) \/ QueueSecond(w) \/ Serve(w) \/ Switch(w) \/ Announce(w) \/ Part(w))
      BY <1>2, <3>1, LoadedSteps, QueueSecondSteps, ServeTurn, SwitchTurn, TurnSteps, AnnounceSteps, PartSteps
    <3>2. CASE ServeSync(w) \/ ServeCleanup(w, FALSE) \/ Persist(w) \/ Apply(w) \/ ReadPresence(w)
      BY <1>2, <3>2, ServeSyncTurn, ServeCleanupTurn, TurnSteps, ReadPresenceSteps DEF Writes
    <3>3. CASE CleanBefore \/ \E u \in Users, n \in 2 .. left.size, fill \in BOOLEAN : Create(u, n, fill)
      BY <3>3, CleanBeforeSteps DEF Writes
    <3> QED
      BY <2>1, <3>1, <3>2, <3>3 DEF Progress
  <2>2. CASE Failure(w)
    BY <2>2, PersistFailsSteps, AnnounceSteps, PartFailsSteps, SweepSteps, CreateFailsSteps DEF Failure
  <2>3. CASE ServeCleanup(w, TRUE)
    BY <1>2, <2>3, ServeCleanupTurn, TurnSteps
  <2> QED
    BY <1>2, <2>1, <2>2, <2>3
<1>3. ASSUME NEW c \in Conns, Request(c) PROVE (\E w : Steps(w)) \/ UNCHANGED <<store, objs, rooms, line, job, left>>
  BY <1>3, AskSteps, CloseSteps DEF Request, Ping
<1>4. ASSUME NEW r \in Rooms, CleanUp(r) \/ Finish(r) \/ Stall(r) PROVE Writes \/ \E w : Steps(w)
  BY <1>4, CleanUpSteps DEF Writes
<1>5. ASSUME BeginCreate \/ Restart PROVE Writes \/ \E w : Steps(w)
  BY <1>5, BeginCreateSteps DEF Writes
<1>6. scenario' = scenario
  BY DEF Next, vars
<1> QED
  BY <1>1, <1>2, <1>3, <1>4, <1>5, <1>6 DEF Next

LEMMA LockStep == LifeInv /\ LockInv /\ [Next]_vars => LockInv'
<1> SUFFICES ASSUME LifeInv, LockInv, [Next]_vars PROVE LockInv'
  OBVIOUS
<1>1. CASE \E w : Steps(w)
  BY <1>1, MovesKeepLock DEF Steps
<1>2. CASE UNCHANGED <<store, objs, rooms, line, job, left>>
  BY <1>2, StillLock
<1>3. CASE Writes
  <2>1. ASSUME NEW r \in Rooms, Finish(r) \/ Stall(r) PROVE LockInv'
    BY <2>1, StillLock DEF Finish, Stall, InGame
  <2> QED
    BY <1>3, <2>1, PersistMoves, ApplyMoves, CreateMoves, RestartLock, MovesKeepLock DEF Writes
<1> QED
  BY <1>1, <1>2, <1>3, StepKinds

LEMMA InitLock == Init => LockInv
<1> SUFFICES ASSUME Init PROVE LockInv
  OBVIOUS
<1>1. \A r \in Rooms : line[r] = <<>> /\ DOMAIN line[r] = {}
  BY DEF Init
<1>2. \A w \in Workers : job[w].phase = "idle"
  BY IdleJob DEF Init
<1> QED
  BY <1>1, <1>2 DEF LockInv, InLine, Busy
-----------------------------------------------------------------------------
(* Every step keeps memory true.                                           *)

LEMMA AliveBefore ==
  ASSUME LifeInv, left' \in Scenario, Shrinks, UNCHANGED scenario, Alive' PROVE Alive
<1> DEFINE bound == Scenarios[scenario]
<1>1. bound \in Scenario
  BY ScenariosAssumption DEF LifeInv, TypeOK
<1>2. bound.expiry \in Nat /\ left.expiry \in Nat /\ left'.expiry \in Nat
  BY <1>1, Tables DEF Scenario
<1>3. ~(left'.expiry < bound.expiry)
  BY DEF Alive, Happened
<1> QED
  BY <1>2, <1>3 DEF Alive, Happened, Shrinks

LEMMA BoundsKept == ASSUME LifeInv, BoundsInv, left' \in Scenario, Shrinks, UNCHANGED scenario PROVE BoundsInv'
<1> DEFINE bound == Scenarios[scenario]
<1>1. bound \in Scenario
  BY ScenariosAssumption DEF LifeInv, TypeOK
<1>2. bound.expiry \in Nat /\ left.expiry \in Nat /\ left'.expiry \in Nat
  BY <1>1, Tables DEF Scenario
<1> QED
  BY <1>2 DEF BoundsInv, Shrinks

LEMMA StepsKeepMem ==
  ASSUME LifeInv, MemCore, BoundsInv, Alive', NEW w, Steps(w) PROVE MemCore'
<1>1. PICK k : Moves(w, k) /\ Aside(w, k)
  BY DEF Steps
<1>2. /\ w \in Workers /\ job'[w] = k /\ \A v \in Workers : v # w => job'[v] = job[v]
      /\ UNCHANGED <<store, objs, rooms>> /\ WorksOn(k)
      /\ job[w].phase # "saved" /\ k.phase # "saved"
      /\ \A r \in Rooms : k.new[r] # None => ~Closed(k.new[r]) /\ Spares(w, In(r), k.new[r])
  BY <1>1, Tables DEF Moves, Aside
<1>3. Stored' = Stored /\ \A r : In(r)' = In(r)
  BY <1>2 DEF Stored, In
<1>4. \A r \in Rooms : Committed(r)' = Committed(r)
  BY <1>2 DEF Committed
<1>5. StoredOpen' /\ OneObject'
  BY <1>2, <1>3 DEF MemCore, StoredOpen, OneObject
<1>6. JobsFresh'
  BY <1>2 DEF MemCore, JobsFresh, WorksOn
<1>7. ClonesTrue'
  BY <1>2, <1>3 DEF MemCore, ClonesTrue
<1>8. Agreed'
  BY <1>2, <1>3, <1>4, Tables DEF MemCore, Agreed, Stored
<1> QED
  BY <1>5, <1>6, <1>7, <1>8 DEF MemCore

\* A room has at most one saver.
LEMMA OneSaver ==
  ASSUME LifeInv, LockInv, NEW w \in Workers, NEW r \in Rooms, job[w].new[r] # None
  PROVE  /\ r \in Stored /\ line[r] # <<>> /\ job[w].target[r] # NoObj /\ job[w].new[r] \in Room
         /\ job[w].phase \in {"saving", "saved"} /\ r \in Held(job[w])
         /\ \A v \in Workers : job[v].new[r] # None => v = w
<1>1. ASSUME NEW v \in Workers, job[v].new[r] # None
      PROVE  r \in Held(job[v]) /\ Busy(job[v]) /\ line[r] # <<>> /\ Head(line[r]) = v
  <2>1. r \in Held(job[v]) /\ Busy(job[v])
    BY <1>1, Tables DEF Fits, Busy
  <2> QED
    BY <2>1 DEF LockInv, Heads
<1>2. r \in Stored /\ job[w].target[r] # NoObj /\ job[w].new[r] \in Room
  BY Tables DEF Fits, InOrder
<1> QED
  BY <1>1, <1>2 DEF Busy

LEMMA DurableOpen ==
  ASSUME NEW m \in Room
  PROVE  /\ Durable(m).watchers = {} /\ (Closed(Durable(m)) <=> Closed(m))
         /\ Durable(m).status = m.status /\ Durable(m).seats = m.seats
         /\ m.watchers = {} => Durable(m) = m
<1>1. DOMAIN m = {"status", "host", "seats", "watchers", "paused", "empty", "archived", "fill"}
  BY DEF Room
<1>2. m.watchers = {} => Durable(m) = m
  BY DEF Durable, Room
<1> QED
  BY <1>1, <1>2 DEF Durable, Closed

LEMMA RestoredFixed ==
  ASSUME NEW m \in Room, m.watchers = {}
  PROVE  /\ Columns(Restored(m)) = Restored(m) /\ (Closed(Restored(m)) <=> Closed(m))
<1> DEFINE s == [i \in DOMAIN m.seats |-> [m.seats[i] EXCEPT !.on = FALSE]]
           n == [m EXCEPT !.seats = s]
<1>1. Restored(m) = n
  BY DEF Restored
<1>2. \A i \in DOMAIN m.seats : m.seats[i] \in Seat
  BY SeatsOfRoom
<1>3. \A i \in DOMAIN s : [s[i] EXCEPT !.on = FALSE] = s[i]
  BY <1>2 DEF Seat
<1>4. DOMAIN s = DOMAIN m.seats /\ [i \in DOMAIN s |-> [s[i] EXCEPT !.on = FALSE]] = s
  <2>1. [i \in DOMAIN s |-> [s[i] EXCEPT !.on = FALSE]] = [i \in DOMAIN s |-> s[i]]
    BY <1>3
  <2>2. s = [i \in DOMAIN s |-> s[i]] /\ DOMAIN s = DOMAIN m.seats
    OBVIOUS
  <2> QED
    BY <2>1, <2>2
<1> HIDE DEF s
<1>5. n \in Room /\ n.seats = s /\ n.watchers = {} /\ n.archived = m.archived /\ n.status = m.status
  <2>1. n.seats = s /\ n.watchers = {} /\ n.archived = m.archived /\ n.status = m.status
    BY DEF Room
  <2>2. n \in Room
    BY <1>1, RestoredSame DEF SamePeople
  <2> QED
    BY <2>1, <2>2
<1> HIDE DEF n
<1>6. Durable(n) = n
  BY <1>5, DurableOpen
<1>7. Restored(n) = n
  <2>1. [n EXCEPT !.seats = s] = n
    BY <1>5 DEF Room
  <2>2. Restored(n) = [n EXCEPT !.seats = [i \in DOMAIN s |-> [s[i] EXCEPT !.on = FALSE]]]
    BY <1>5 DEF Restored
  <2> QED
    BY <1>4, <2>1, <2>2
<1> QED
  BY <1>1, <1>5, <1>6, <1>7 DEF Columns, Closed

LEMMA PersistMem == ASSUME LifeInv, LockInv, MemCore, NEW w \in Workers, Persist(w) PROVE MemCore'
<1> DEFINE j == job[w]
           k == [j EXCEPT !.phase = "saved"]
<1>1. /\ j.phase = "saving" /\ j \in Job /\ store' = Saved(w) /\ UNCHANGED <<objs, rooms>>
      /\ job' = [job EXCEPT ![w] = k]
  BY Tables DEF Persist
<1>2. k.phase = "saved" /\ k.new = j.new /\ k.target = j.target /\ k.read = j.read
  BY <1>1 DEF Job
<1> HIDE DEF k
<1>3. job'[w] = k /\ \A v \in Workers : v # w => job'[v] = job[v]
  BY <1>1, Tables
<1>4. \A r \in Rooms : store'[r] = IF j.new[r] = None THEN store[r] ELSE Durable(j.new[r])
  BY <1>1 DEF Saved
<1>5. ASSUME NEW r \in Rooms, j.new[r] # None
      PROVE  /\ r \in Stored /\ Durable(j.new[r]) # None /\ Durable(j.new[r]).watchers = {}
             /\ ~Closed(Durable(j.new[r])) /\ \A v \in Workers : job[v].new[r] # None => v = w
  <2>1. /\ j.new[r] \in Room /\ r \in Stored /\ ~Closed(j.new[r])
        /\ \A v \in Workers : job[v].new[r] # None => v = w
    BY <1>5, OneSaver DEF MemCore, ClonesTrue
  <2>2. Durable(j.new[r]) \in Room
    BY <2>1, DurableSame DEF SamePeople
  <2> QED
    BY <2>1, <2>2, DurableOpen, NoneAssumption
<1>6. Stored' = Stored /\ \A r : In(r)' = In(r)
  BY <1>1, <1>4, <1>5 DEF Stored, In
<1>7. StoredOpen' /\ OneObject'
  BY <1>1, <1>4, <1>5, <1>6 DEF MemCore, StoredOpen, OneObject, Stored
<1>8. JobsFresh'
  BY <1>1, <1>2, <1>3 DEF MemCore, JobsFresh, WorksOn
<1>9. ASSUME NEW v \in Workers, NEW r \in Rooms, job'[v].new[r] # None
      PROVE  /\ ~Closed(job'[v].new[r])
             /\ job'[v].phase = "saving" => Spares(v, In(r)', job'[v].new[r])
             /\ job'[v].phase = "saved" => store'[r] = Durable(job'[v].new[r])
  <2>1. CASE v = w
    BY <1>2, <1>3, <1>4, <1>9, <2>1 DEF MemCore, ClonesTrue
  <2>2. CASE v # w
    <3>1. job'[v] = job[v] /\ j.new[r] = None
      BY <1>3, <1>5, <1>9, <2>2
    <3> QED
      BY <1>4, <1>6, <1>9, <3>1 DEF MemCore, ClonesTrue
  <2> QED
    BY <2>1, <2>2
<1>10. ClonesTrue'
  BY <1>9 DEF ClonesTrue
<1>11. ASSUME NEW r \in Stored, ~Committed(r)' PROVE Columns(In(r)) = Restored(store'[r])
  <2>1. j.new[r] = None
    BY <1>2, <1>3, <1>11 DEF Committed, Stored
  <2>2. ~Committed(r)
    BY <1>1, <1>3, <1>11 DEF Committed
  <2> QED
    BY <1>4, <2>1, <2>2 DEF MemCore, Agreed, Stored
<1>12. Agreed'
  BY <1>6, <1>11 DEF Agreed
<1> QED
  BY <1>7, <1>8, <1>10, <1>12 DEF MemCore

LEMMA NothingCloses == ASSUME LifeInv, MemCore, NEW w \in Workers PROVE ~Closes(job[w])
<1> SUFFICES ASSUME Closes(job[w]) PROVE FALSE
  OBVIOUS
<1>1. job[w].kind = "cleanup" /\ job[w].new[job[w].room] # None /\ Closed(job[w].new[job[w].room])
  BY DEF Closes
<1>2. job[w].room \in Rooms
  BY <1>1, Tables DEF Placed
<1> QED
  BY <1>1, <1>2 DEF MemCore, ClonesTrue

\* With one object to a room, a clone replaces the object of its room alone.
LEMMA ReplacedRoom ==
  ASSUME LifeInv, LockInv, MemCore, NEW w \in Workers, NEW r \in Stored
  PROVE  LET new == job[w].new[r] IN
         Replaced(w)[rooms[r]] = IF new # None THEN new ELSE In(r)
<1> DEFINE j == job[w]
           i == rooms[r]
<1>1. r \in Rooms /\ i \in 1 .. Len(objs) /\ DOMAIN objs = 1 .. Len(objs)
  BY Tables, LenProperties DEF MemCore, StoredOpen, Stored, NoObj
<1>2. \A q \in Rooms : j.target[q] # NoObj => j.target[q] = rooms[q] /\ q \in Stored
  BY Tables DEF MemCore, JobsFresh, WorksOn
<1>3. \A q \in Rooms : j.target[q] = i => q = r
  BY <1>1, <1>2 DEF MemCore, OneObject, NoObj
<1>4. ~Closes(j)
  BY NothingCloses
<1>5. CASE j.new[r] # None
  <2>1. j.target[r] = i
    BY <1>1, <1>2, <1>5, Tables DEF Fits
  <2>2. (CHOOSE q \in Rooms : j.target[q] = i) = r
    BY <1>1, <1>3, <2>1
  <2>3. Replaced(w)[i] = j.new[CHOOSE q \in Rooms : j.target[q] = i]
    BY <1>1, <1>4, <1>5, <2>1 DEF Replaced
  <2> QED
    BY <1>5, <2>2, <2>3
<1>6. CASE j.new[r] = None
  <2>1. ~(\E q \in Rooms : j.new[q] # None /\ j.target[q] = i /\ ~Closes(j))
    BY <1>3, <1>6
  <2> QED
    BY <1>1, <1>6, <2>1 DEF Replaced, In
<1> QED
  BY <1>5, <1>6

LEMMA ApplyMem == ASSUME LifeInv, LockInv, MemCore, NEW w \in Workers, Apply(w) PROVE MemCore'
<1> DEFINE j == job[w]
           k == Then(w)
<1>1. /\ j.phase = "saved" /\ job' = [job EXCEPT ![w] = k] /\ store' = store
      /\ objs' = Replaced(w) /\ Plain(k)
  BY ThenPlain DEF Apply, Conclude
<1>2. rooms' = rooms
  BY NothingCloses DEF Apply, Conclude
<1> HIDE DEF k
<1>3. job'[w] = k /\ \A v \in Workers : v # w => job'[v] = job[v]
  BY <1>1, Tables
<1>4. Stored' = Stored /\ Stored \subseteq Rooms
  BY <1>1 DEF Stored
<1>5. \A r \in Stored : In(r)' = IF j.new[r] # None THEN j.new[r] ELSE In(r)
  BY <1>1, <1>2, ReplacedRoom DEF In
<1>6. ASSUME NEW r \in Rooms, j.new[r] # None
      PROVE  /\ r \in Stored /\ ~Closed(j.new[r]) /\ store[r] = Durable(j.new[r])
             /\ \A v \in Workers : job[v].new[r] # None => v = w
  BY <1>1, <1>6, OneSaver DEF MemCore, ClonesTrue
<1>7. StoredOpen' /\ OneObject'
  <2>1. ASSUME NEW r \in Stored PROVE ~Closed(In(r)')
    BY <1>4, <1>5, <1>6 DEF MemCore, StoredOpen
  <2> QED
    BY <1>1, <1>2, <1>4, <2>1 DEF MemCore, StoredOpen, OneObject
<1>8. JobsFresh'
  BY <1>1, <1>2, <1>3 DEF MemCore, JobsFresh, WorksOn, Plain
<1>9. ASSUME NEW v \in Workers, NEW r \in Rooms, job'[v].new[r] # None
      PROVE  /\ ~Closed(job'[v].new[r])
             /\ job'[v].phase = "saving" => Spares(v, In(r)', job'[v].new[r])
             /\ job'[v].phase = "saved" => store'[r] = Durable(job'[v].new[r])
  <2>1. v # w
    BY <1>1, <1>3, <1>9 DEF Plain
  <2>2. job'[v] = job[v] /\ j.new[r] = None
    BY <1>3, <1>6, <1>9, <2>1
  <2>3. r \in Stored
    BY <1>9, <2>2, OneSaver
  <2> QED
    BY <1>1, <1>5, <1>9, <2>2, <2>3 DEF MemCore, ClonesTrue
<1>10. ClonesTrue'
  BY <1>9 DEF ClonesTrue
<1>11. ASSUME NEW r \in Stored, ~Committed(r)' PROVE Columns(In(r)') = Restored(store[r])
  <2>1. CASE j.new[r] # None
    BY <1>4, <1>5, <1>6, <2>1 DEF Columns
  <2>2. CASE j.new[r] = None
    <3>1. ~Committed(r)
      BY <1>3, <1>11, <2>2 DEF Committed
    <3> QED
      BY <1>5, <2>2, <3>1 DEF MemCore, Agreed
  <2> QED
    BY <2>1, <2>2
<1>12. Agreed'
  BY <1>1, <1>4, <1>11 DEF Agreed
<1> QED
  BY <1>7, <1>8, <1>10, <1>12 DEF MemCore

LEMMA InGameMem ==
  ASSUME LifeInv, LockInv, MemCore, NEW r \in Rooms, rooms[r] # NoObj,
         NEW made \in Room, ~Closed(made), InGame(r, made)
  PROVE  MemCore'
<1>1. /\ objs' = [objs EXCEPT ![rooms[r]] = made] /\ store' = [store EXCEPT ![r] = Durable(made)]
      /\ UNCHANGED <<rooms, job>> /\ line[r] = <<>>
  BY DEF InGame
<1>2. /\ r \in Stored /\ rooms[r] \in 1 .. Len(objs) /\ DOMAIN objs = 1 .. Len(objs)
      /\ DOMAIN store = Rooms
  BY Tables, LenProperties DEF NoObj
<1>3. Durable(made) \in Room /\ Durable(made).watchers = {} /\ ~Closed(Durable(made))
  BY DurableOpen, DurableSame DEF SamePeople
<1>4. Stored' = Stored /\ Stored \subseteq Rooms
  BY <1>1, <1>2, <1>3, NoneAssumption DEF Stored
<1>5. \A q \in Stored : In(q)' = IF q = r THEN made ELSE In(q)
  <2>1. \A q \in Stored : rooms[q] = rooms[r] => q = r
    BY <1>2 DEF MemCore, OneObject
  <2> QED
    BY <1>1, <1>2, <2>1 DEF In
<1>6. \A v \in Workers : job[v].new[r] = None
  BY <1>1, OneSaver
<1>7. StoredOpen' /\ OneObject'
  <2>1. ASSUME NEW q \in Stored PROVE ~Closed(In(q)')
    BY <1>5 DEF MemCore, StoredOpen
  <2> QED
    BY <1>1, <1>2, <1>3, <1>4, <2>1 DEF MemCore, StoredOpen, OneObject
<1>8. JobsFresh'
  BY <1>1 DEF MemCore, JobsFresh, WorksOn
<1>9. ASSUME NEW v \in Workers, NEW q \in Rooms, job[v].new[q] # None
      PROVE  /\ ~Closed(job[v].new[q])
             /\ job[v].phase = "saving" => Spares(v, In(q)', job[v].new[q])
             /\ job[v].phase = "saved" => store'[q] = Durable(job[v].new[q])
  <2>1. q # r /\ q \in Stored
    BY <1>6, <1>9, OneSaver
  <2> QED
    BY <1>1, <1>5, <1>9, <2>1 DEF MemCore, ClonesTrue
<1>10. ClonesTrue'
  BY <1>1, <1>9 DEF ClonesTrue
<1>11. \A q \in Rooms : Committed(q)' = Committed(q)
  BY <1>1 DEF Committed
<1>12. ASSUME NEW q \in Stored, ~Committed(q) PROVE Columns(In(q)') = Restored(store'[q])
  <2>1. CASE q = r
    BY <1>1, <1>2, <1>5, <2>1 DEF Columns
  <2>2. CASE q # r
    BY <1>1, <1>5, <1>12, <2>2 DEF MemCore, Agreed
  <2> QED
    BY <2>1, <2>2
<1>13. Agreed'
  BY <1>4, <1>11, <1>12 DEF Agreed
<1> QED
  BY <1>7, <1>8, <1>10, <1>13 DEF MemCore

LEMMA GameMem == ASSUME LifeInv, LockInv, MemCore, NEW r \in Rooms, Finish(r) \/ Stall(r) PROVE MemCore'
<1> DEFINE m == objs[rooms[r]]
<1>1. rooms[r] # NoObj /\ rooms[r] \in 1 .. Len(objs) /\ m.status = "IN_GAME"
  BY Tables DEF Finish, Stall, Playing, NoObj
<1>2. m \in Room
  BY <1>1 DEF LifeInv, HeapInv, InOrder
<1>3. ~Closed(m)
  BY <1>1, Tables DEF MemCore, StoredOpen, In
<1>4. CASE Finish(r)
  <2> DEFINE made == [m EXCEPT !.status = "FINISHED"]
  <2>1. made \in Room /\ ~Closed(made)
    BY <1>2, <1>3 DEF Room, Statuses, Closed
  <2>2. InGame(r, made)
    BY <1>4 DEF Finish
  <2> HIDE DEF made
  <2> QED
    BY <1>1, <2>1, <2>2, InGameMem
<1>5. CASE Stall(r)
  <2> DEFINE made == [m EXCEPT !.paused = "STALLED_AUTOMATION"]
  <2>1. made \in Room /\ ~Closed(made)
    BY <1>2, <1>3 DEF Room, Pauses, Closed
  <2>2. InGame(r, made)
    BY <1>5 DEF Stall
  <2> HIDE DEF made
  <2> QED
    BY <1>1, <2>1, <2>2, InGameMem
<1> QED
  BY <1>4, <1>5

LEMMA CreateMem ==
  ASSUME LifeInv, MemCore, NEW u \in Users, NEW size \in 2 .. left.size, NEW fill \in BOOLEAN,
         Create(u, size, fill)
  PROVE  MemCore'
<1> DEFINE free == {q \in Rooms : store[q] = None}
           m == NewRoom(u, size, fill)
<1>1. size \in 2 .. MaxSeats
  BY SizeFits
<1>2. m \in Room /\ m.watchers = {} /\ ~Closed(m)
  <2>1. m \in Room
    BY <1>1, NewRoomInOrder DEF InOrder
  <2>2. m.watchers = {} /\ m.archived = FALSE /\ m.status = "LOBBY"
    BY DEF NewRoom
  <2> QED
    BY <2>1, <2>2 DEF Closed
<1>3. free \in SUBSET Nat /\ free # {}
  BY Tables, RoomsAssumption DEF Create, Stored
<1>4. PICK r \in free : r = Min(free)
  BY <1>3, MinIsLeast
<1>41. PICK n : n = Len(objs) + 1
  OBVIOUS
<1>5. /\ store' = [store EXCEPT ![r] = m] /\ objs' = Append(objs, m)
      /\ rooms' = [rooms EXCEPT ![r] = n] /\ job' = [job EXCEPT ![Creator] = Idle]
      /\ job[Creator].phase = "sweeping"
  BY <1>4, <1>41 DEF Create
<1> HIDE DEF m
<1>6. r \in Rooms /\ store[r] = None /\ r \notin Stored
  BY <1>4 DEF Stored
<1>7. /\ Len(objs) \in Nat /\ \A i \in 1 .. Len(objs) : objs'[i] = objs[i] /\ i # n
      /\ objs'[n] = m
  BY <1>2, <1>41, <1>5, Tables, AppendProperties
<1>8. Stored' = Stored \cup {r} /\ store'[r] = m /\ rooms'[r] = n
      /\ \A q \in Stored : store'[q] = store[q] /\ rooms'[q] = rooms[q] /\ q # r /\ rooms[q] \in 1 .. Len(objs)
  <2>1. store'[r] = m /\ rooms'[r] = n /\ \A q \in Rooms : q # r => store'[q] = store[q] /\ rooms'[q] = rooms[q]
    BY <1>5, <1>6, Tables
  <2>2. m # None
    BY <1>2, NoneAssumption
  <2>3. Stored' = Stored \cup {r}
    BY <1>6, <2>1, <2>2 DEF Stored
  <2>4. \A q \in Stored : q \in Rooms /\ q # r
    BY <1>6 DEF Stored
  <2>5. ASSUME NEW q \in Stored PROVE rooms[q] \in 1 .. Len(objs)
    <3>1. rooms[q] # NoObj /\ q \in Rooms
      BY <2>4 DEF MemCore, StoredOpen
    <3> QED
      BY <3>1, Tables DEF NoObj
  <2> QED
    BY <2>1, <2>3, <2>4, <2>5
<1>9. In(r)' = m /\ \A q \in Stored : In(q)' = In(q)
  BY <1>7, <1>8 DEF In
<1>10. job'[Creator] = Idle /\ \A v \in Workers : v # Creator => job'[v] = job[v]
  BY <1>5, Tables, WorkersDiffer
<1>11. StoredOpen'
  <2>1. ASSUME NEW q \in Stored'
        PROVE  rooms'[q] # NoObj /\ store'[q].watchers = {} /\ ~Closed(store'[q]) /\ ~Closed(In(q)')
    <3>1. CASE q = r
      <4>1. ~Closed(In(r)')
        BY <1>2, <1>9
      <4>2. n # NoObj
        BY <1>41, <1>7 DEF NoObj
      <4> QED
        BY <1>2, <1>8, <3>1, <4>1, <4>2 DEF In
    <3>2. CASE q # r
      BY <1>8, <1>9, <2>1, <3>2 DEF MemCore, StoredOpen
    <3> QED
      BY <3>1, <3>2
  <2> QED
    BY <2>1 DEF StoredOpen
<1>12. OneObject'
  BY <1>7, <1>8 DEF MemCore, OneObject
<1>13. ASSUME NEW v \in Workers, NEW q \in Rooms, job'[v].target[q] # NoObj
       PROVE  job'[v].target[q] = rooms'[q]
  <2>1. v # Creator /\ job'[v] = job[v]
    BY <1>10, <1>13, IdleJob
  <2>2. job[v].target[q] = rooms[q] /\ q \in Stored
    BY <1>13, <2>1, Tables DEF MemCore, JobsFresh, WorksOn
  <2> QED
    BY <1>8, <2>1, <2>2
<1>14. JobsFresh'
  <2>1. \A v \in Workers : job'[v].read = {}
    BY <1>10, IdleJob DEF MemCore, JobsFresh, WorksOn
  <2> QED
    BY <1>13, <2>1 DEF JobsFresh, WorksOn
<1>15. ASSUME NEW v \in Workers, NEW q \in Rooms, job'[v].new[q] # None
       PROVE  job'[v] = job[v] /\ q \in Stored
  <2>1. v # Creator /\ job'[v] = job[v]
    BY <1>10, <1>15, IdleJob
  <2> QED
    BY <1>15, <2>1, Tables DEF Fits
<1>16. ClonesTrue'
  <2>1. ASSUME NEW v \in Workers, NEW q \in Rooms, job'[v].new[q] # None
        PROVE  /\ ~Closed(job'[v].new[q])
               /\ job'[v].phase = "saving" => Spares(v, In(q)', job'[v].new[q])
               /\ job'[v].phase = "saved" => store'[q] = Durable(job'[v].new[q])
    <3>1. job'[v] = job[v] /\ q \in Stored
      BY <1>15, <2>1
    <3> QED
      BY <1>8, <1>9, <2>1, <3>1 DEF MemCore, ClonesTrue
  <2> QED
    BY <2>1 DEF ClonesTrue
<1>17. ASSUME NEW q \in Stored', ~Committed(q)' PROVE Columns(In(q)') = Restored(store'[q])
  <2>1. CASE q = r
    <3>1. Columns(In(q)') = Columns(m) /\ store'[q] = m
      BY <1>8, <1>9, <2>1
    <3>2. Columns(m) = Restored(m)
      BY <1>2, DurableOpen DEF Columns
    <3> QED
      BY <3>1, <3>2
  <2>2. CASE q # r
    <3>1. q \in Stored /\ q \in Rooms
      BY <1>8, <2>2 DEF Stored
    <3>2. ~Committed(q)
      <4> SUFFICES ASSUME Committed(q) PROVE FALSE
        OBVIOUS
      <4>1. PICK v \in Workers : job[v].phase = "saved" /\ job[v].new[q] # None
        BY DEF Committed
      <4>2. v # Creator
        BY <1>5, <4>1
      <4> QED
        BY <1>10, <1>17, <4>1, <4>2 DEF Committed
    <3> QED
      BY <1>8, <1>9, <3>1, <3>2 DEF MemCore, Agreed
  <2> QED
    BY <2>1, <2>2
<1>18. Agreed'
  BY <1>17 DEF Agreed
<1> QED
  BY <1>11, <1>12, <1>14, <1>16, <1>18 DEF MemCore

\* A restart that loads every open room loads them all.
\* A restart that loads every open room gives each an object of its own.
LEMMA RestartRooms ==
  ASSUME LifeInv, MemCore, BoundsInv, Restart
  PROVE  /\ store' = store /\ Stored' = Stored
         /\ \A w \in Workers : job'[w] = Idle
         /\ \A c \in Conns : at'[c] = NoRoom /\ pres'[c] = NoRoom
         /\ \A r \in Stored : rooms'[r] # NoObj /\ In(r)' = Restored(store[r])
         /\ \A r, q \in Stored : rooms'[r] = rooms'[q] => r = q
<1>1. PICK kept \in SUBSET Hydratable :
        LET order == SetToSeq(kept) IN
        /\ Cardinality(Hydratable \ kept) <= left.unloaded
        /\ objs' = [i \in DOMAIN order |-> Restored(store[order[i]])]
        /\ rooms' = [r \in Rooms |-> IF r \in kept THEN CHOOSE i \in DOMAIN order : order[i] = r ELSE NoObj]
  BY DEF Restart
<1> DEFINE order == SetToSeq(kept)
<1>2. /\ objs' = [i \in DOMAIN order |-> Restored(store[order[i]])]
      /\ rooms' = [r \in Rooms |-> IF r \in kept THEN CHOOSE i \in DOMAIN order : order[i] = r ELSE NoObj]
      /\ job' = [w \in Workers |-> Idle] /\ store' = store
      /\ at' = [c \in Conns |-> NoRoom] /\ pres' = [c \in Conns |-> NoRoom]
  BY <1>1 DEF Restart
<1>3. Hydratable = Stored /\ Stored \subseteq Rooms /\ IsFiniteSet(Stored)
  <2>1. Stored \subseteq Rooms /\ IsFiniteSet(Stored)
    BY FS_Subset, RoomsAssumption DEF Stored
  <2> QED
    BY <2>1 DEF Hydratable, Stored, MemCore, StoredOpen
<1>4. kept = Stored
  <2>1. IsFiniteSet(Hydratable \ kept) /\ Cardinality(Hydratable \ kept) <= 0
    BY <1>1, <1>3, FS_Subset DEF BoundsInv
  <2>2. Cardinality(Hydratable \ kept) = 0
    BY <2>1, FS_CardinalityType
  <2> QED
    BY <1>3, <2>1, <2>2, FS_EmptySet
<1>5. order \in Seq(kept) /\ \A x \in kept : \E i \in DOMAIN order : order[i] = x
  BY <1>3, <1>4, SetAsSequence
<1> HIDE DEF order
<1>6. Len(order) \in Nat /\ DOMAIN order = 1 .. Len(order) /\ \A i \in 1 .. Len(order) : order[i] \in kept
  BY <1>5, LenProperties
<1>7. ASSUME NEW r \in Stored
      PROVE  rooms'[r] \in DOMAIN order /\ order[rooms'[r]] = r
  <2>1. \E i \in DOMAIN order : order[i] = r
    BY <1>4, <1>5
  <2>2. rooms'[r] = CHOOSE i \in DOMAIN order : order[i] = r
    BY <1>2, <1>3, <1>4
  <2> QED
    BY <2>1, <2>2
<1>8. ASSUME NEW r \in Stored
      PROVE  rooms'[r] # NoObj /\ In(r)' = Restored(store[r])
  <2>1. rooms'[r] \in DOMAIN order /\ order[rooms'[r]] = r
    BY <1>7
  <2>2. rooms'[r] # NoObj
    BY <1>6, <2>1 DEF NoObj
  <2>3. objs'[rooms'[r]] = Restored(store[order[rooms'[r]]])
    BY <1>2, <2>1
  <2> QED
    BY <2>1, <2>2, <2>3 DEF In
<1>9. \A r, q \in Stored : rooms'[r] = rooms'[q] => r = q
  BY <1>7
<1> QED
  BY <1>2, <1>8, <1>9 DEF Stored

LEMMA RestartMem == ASSUME LifeInv, MemCore, BoundsInv, Restart PROVE MemCore'
<1>1. /\ store' = store /\ Stored' = Stored /\ (\A w \in Workers : job'[w] = Idle)
      /\ \A r \in Stored : rooms'[r] # NoObj /\ In(r)' = Restored(store[r])
      /\ \A r, q \in Stored : rooms'[r] = rooms'[q] => r = q
  BY RestartRooms
<1>2. ASSUME NEW r \in Stored
      PROVE  store[r].watchers = {} /\ ~Closed(store[r]) /\ ~Closed(In(r)') /\ Columns(In(r)') = Restored(store[r])
  <2>1. store[r] \in Room /\ store[r].watchers = {} /\ ~Closed(store[r])
    BY DEF LifeInv, HeapInv, InOrder, MemCore, StoredOpen
  <2> QED
    BY <1>1, <2>1, RestoredFixed
<1>3. StoredOpen' /\ OneObject'
  BY <1>1, <1>2 DEF StoredOpen, OneObject
<1>4. JobsFresh' /\ ClonesTrue'
  BY <1>1, IdleJob DEF JobsFresh, WorksOn, ClonesTrue
<1>5. Agreed'
  BY <1>1, <1>2 DEF Agreed
<1> QED
  BY <1>3, <1>4, <1>5 DEF MemCore

LEMMA StillMem == ASSUME MemCore, UNCHANGED <<store, objs, rooms, job>> PROVE MemCore'
<1>1. Stored' = Stored /\ \A r : In(r)' = In(r)
  BY DEF Stored, In
<1>2. \A r : Committed(r)' = Committed(r)
  BY DEF Committed
<1>3. StoredOpen' /\ OneObject'
  BY <1>1 DEF MemCore, StoredOpen, OneObject
<1>4. JobsFresh' /\ ClonesTrue'
  BY <1>1 DEF MemCore, JobsFresh, WorksOn, ClonesTrue
<1>5. Agreed'
  BY <1>1, <1>2 DEF MemCore, Agreed
<1> QED
  BY <1>3, <1>4, <1>5 DEF MemCore

LEMMA WritesShrink == ASSUME LifeInv, Writes PROVE Shrinks
BY SameShrinks, SpendShrinks DEF Writes, Persist, Apply, Create, Finish, Stall, Restart, Bounds

LEMMA WritesMem == ASSUME LifeInv, LockInv, MemCore, BoundsInv, Writes PROVE MemCore'
BY PersistMem, ApplyMem, CreateMem, GameMem, RestartMem DEF Writes

LEMMA MemStep == LifeInv /\ LifeInv' /\ LockInv /\ MemInv /\ [Next]_vars => MemInv'
<1> SUFFICES ASSUME LifeInv, LifeInv', LockInv, MemInv, [Next]_vars PROVE MemInv'
  OBVIOUS
<1>1. left' \in Scenario /\ scenario' = scenario
  BY StepKinds DEF LifeInv, TypeOK
<1>2. Shrinks
  BY StepKinds, WritesShrink, SameShrinks DEF Steps, Aside
<1>3. BoundsInv'
  BY <1>1, <1>2, BoundsKept DEF MemInv
<1>4. ASSUME Alive' PROVE MemCore'
  <2>1. MemCore
    BY <1>1, <1>2, <1>4, AliveBefore DEF MemInv
  <2> QED
    BY <1>4, <2>1, StepKinds, StepsKeepMem, WritesMem, StillMem DEF MemInv
<1> QED
  BY <1>3, <1>4 DEF MemInv

-----------------------------------------------------------------------------
(***************************************************************************)
(* The theorems about memory and the store.  In every scenario, a restart  *)
(* hydrates every open room: with one left out, to be loaded at its first  *)
(* request, both are false (see the run room_lazy_load).                   *)
(***************************************************************************)
AllLoaded == \A s \in DOMAIN Scenarios : Scenarios[s].unloaded = 0

LEMMA InitMem == ASSUME AllLoaded PROVE Init => MemInv
<1> SUFFICES ASSUME Init PROVE MemInv
  OBVIOUS
<1>1. BoundsInv
  <2>1. scenario \in DOMAIN Scenarios /\ left = Scenarios[scenario] /\ left \in Scenario
    BY ScenariosAssumption DEF Init
  <2>2. left.unloaded = 0 /\ left.expiry \in Nat
    BY <2>1 DEF AllLoaded, Scenario
  <2> QED
    BY <2>1, <2>2 DEF BoundsInv
<1>2. Stored = {} /\ \A w \in Workers : job[w] = Idle
  BY DEF Init, Stored
<1>3. StoredOpen /\ OneObject /\ Agreed
  BY <1>2 DEF StoredOpen, OneObject, Agreed
<1>4. JobsFresh /\ ClonesTrue
  BY <1>2, IdleJob DEF JobsFresh, WorksOn, ClonesTrue
<1> QED
  BY <1>1, <1>3, <1>4 DEF MemInv, MemCore

LEMMA AlwaysLock == Spec => []LockInv
<1>1. Spec => []LifeInv
  BY AlwaysLife
<1> QED
  BY <1>1, InitLock, LockStep, PTL DEF Spec

\* No two tasks are saving the same room (enqueueRoom and enqueueRooms in
\* room-manager.ts): a worker with clones to commit or just committed holds its
\* one or two rooms alone.
SaversApart ==
  \A w, v \in Workers : (Busy(job[w]) /\ Busy(job[v]) /\ w # v) => Held(job[w]) \cap Held(job[v]) = {}
THEOREM SaversAlwaysApart == Spec => []SaversApart
<1>1. LockInv => SaversApart
  BY DEF LockInv, Heads, SaversApart
<1> QED
  BY <1>1, AlwaysLock, PTL

LEMMA AlwaysMem == ASSUME AllLoaded PROVE Spec => []MemInv
<1>1. Spec => []LifeInv
  BY AlwaysLife
<1>2. Spec => []LockInv
  BY AlwaysLock
<1>3. Init => MemInv
  BY InitMem
<1> QED
  BY <1>1, <1>2, <1>3, MemStep, PTL DEF Spec

\* A room in memory is what a restart would make of the store's, unless a clone
\* has just been committed (persistRoom and replaceRoomState in room-manager.ts).
THEOREM MemoryAlwaysStore == ASSUME AllLoaded PROVE Spec => []MemoryIsStore
<1>1. LifeInv /\ MemInv => MemoryIsStore
  <2> SUFFICES ASSUME LifeInv, MemInv, Alive, NEW r \in InMemory, ~Committed(r)
               PROVE  Columns(In(r)) = Restored(store[r])
    BY DEF MemoryIsStore, Alive, Committed
  <2>1. r \in Stored
    BY Tables DEF InMemory
  <2> QED
    BY <2>1 DEF MemInv, MemCore, Agreed
<1>2. Spec => []LifeInv
  BY AlwaysLife
<1>3. Spec => []MemInv
  BY AlwaysMem
<1> QED
  BY <1>1, <1>2, <1>3, PTL

-----------------------------------------------------------------------------
(***************************************************************************)
(* Nobody loses a seat unasked.                                            *)
(***************************************************************************)
LEMMA StoreWriters ==
  ASSUME [Next]_vars
  PROVE  \/ store' = store
         \/ \E w \in Workers : Persist(w)
         \/ \E u \in Users, n \in 2 .. left.size, fill \in BOOLEAN : Create(u, n, fill)
         \/ \E r \in Rooms : Finish(r) \/ Stall(r)
<1>1. CASE UNCHANGED vars
  BY <1>1 DEF vars
<1>2. ASSUME NEW w \in Workers, Progress(w)
      PROVE  \/ store' = store
             \/ \E v \in Workers : Persist(v)
             \/ \E u \in Users, n \in 2 .. left.size, fill \in BOOLEAN : Create(u, n, fill)
  BY <1>2 DEF Progress, Loaded, QueueSecond, Serve, Switch, Announce, Part, ServeSync, ServeCleanup, Apply,
              ReadPresence, CleanBefore
<1>3. ASSUME NEW w \in Workers, Failure(w) \/ ServeCleanup(w, TRUE) PROVE store' = store
  <2>1. CASE Failure(w)
    BY <2>1 DEF Failure, PersistFails, AnnounceFails, PartFails, SweepPresence, CreateFails
  <2>2. CASE ServeCleanup(w, TRUE)
    BY <2>2 DEF ServeCleanup
  <2> QED
    BY <1>3, <2>1, <2>2
<1>4. ASSUME NEW c \in Conns, Request(c) PROVE store' = store
  <2>1. CASE Ask(c)
    <3>1. PICK kind \in left.kinds, r \in Rooms, arg \in 0 .. MaxSeats : Asking(c, kind, r, arg)
      BY <2>1 DEF Ask, Asking
    <3>2. UNCHANGED <<store, rooms, line, at, pres>>
      BY <3>1 DEF Asking
    <3> QED
      BY <3>2
  <2>2. CASE Close(c) \/ Ping(c)
    BY <2>2 DEF Close, Ping
  <2> QED
    BY <1>4, <2>1, <2>2 DEF Request
<1>5. ASSUME NEW r \in Rooms, CleanUp(r) PROVE store' = store
  BY <1>5 DEF CleanUp
<1>6. ASSUME BeginCreate \/ Restart PROVE store' = store
  BY <1>6 DEF BeginCreate, Restart
<1> QED
  BY <1>1, <1>2, <1>3, <1>4, <1>5, <1>6 DEF Next

LEMMA RestoredStatus == ASSUME NEW m \in Room PROVE Restored(m).status = m.status
<1> DEFINE s == [i \in DOMAIN m.seats |-> [m.seats[i] EXCEPT !.on = FALSE]]
<1>1. Restored(m) = [m EXCEPT !.seats = s]
  BY DEF Restored
<1> HIDE DEF s
<1> QED
  BY <1>1 DEF Room

\* But for a clone just committed, memory and the store seat the same people.
LEMMA StoreAgrees ==
  ASSUME LifeInv, MemCore, NEW r \in Stored, ~Committed(r)
  PROVE  /\ store[r] \in Room /\ In(r) \in Room /\ In(r).status = store[r].status
         /\ \A u \in Users : SeatsOf(In(r), u) = SeatsOf(store[r], u)
<1> DEFINE m == In(r)
           d == Durable(m)
<1>1. store[r] \in Room /\ m \in Room
  <2>1. rooms[r] \in 1 .. Len(objs)
    <3>1. rooms[r] # 0 /\ r \in Rooms
      BY DEF MemCore, StoredOpen, NoObj, Stored
    <3> QED
      BY <3>1, Tables
  <2> QED
    BY <2>1 DEF LifeInv, HeapInv, InOrder, In
<1>2. Restored(d) = Restored(store[r])
  BY DEF MemCore, Agreed, Columns
<1> HIDE DEF m
<1>3. d \in Room /\ d.status = m.status /\ \A u \in Users : SeatsOf(d, u) = SeatsOf(m, u)
  BY <1>1, DurableSame, DurableOpen DEF SamePeople
<1> HIDE DEF d
<1>4. Restored(d).status = d.status /\ \A u \in Users : SeatsOf(Restored(d), u) = SeatsOf(d, u)
  BY <1>3, RestoredSame, RestoredStatus DEF SamePeople
<1>5. /\ Restored(store[r]).status = store[r].status
      /\ \A u \in Users : SeatsOf(Restored(store[r]), u) = SeatsOf(store[r], u)
  BY <1>1, RestoredSame, RestoredStatus DEF SamePeople
<1>6. m.status = store[r].status /\ \A u \in Users : SeatsOf(m, u) = SeatsOf(store[r], u)
  BY <1>2, <1>3, <1>4, <1>5
<1> QED
  BY <1>1, <1>6 DEF m

\* Who loses the seat in the store sat in the room in memory, too.
LEMMA PersistSpares ==
  ASSUME LifeInv, LockInv, MemCore, NEW w \in Workers, Persist(w), NEW r \in Rooms, NEW u \in Users,
         Seated(store[r], u), ~Seated(store'[r], u)
  PROVE  /\ w \in Conns /\ job[w].phase = "saving" /\ job'[w].phase = "saved"
         /\ \/ User[w] = u /\ r \in {job[w].room, job[w].from}
            \/ store[r].status = "LOBBY" /\ store'[r].status = "IN_GAME"
<1> DEFINE n == job[w].new[r]
           m == In(r)
<1>1. job[w].phase = "saving" /\ job'[w].phase = "saved" /\ job[w] \in Job
  BY Tables DEF Persist, Job
<1>2. store'[r] = IF n = None THEN store[r] ELSE Durable(n)
  BY DEF Persist, Saved
<1>3. n # None
  BY <1>2
<1>4. /\ r \in Stored /\ n \in Room /\ r \in Held(job[w])
      /\ \A v \in Workers : job[v].new[r] # None => v = w
  BY <1>3, OneSaver, Tables DEF Fits
<1>5. ~Committed(r)
  BY <1>1, <1>4 DEF Committed
<1>6. Spares(w, m, n)
  BY <1>1, <1>3 DEF MemCore, ClonesTrue
<1>8. SeatsOf(m, u) = SeatsOf(store[r], u) /\ m.status = store[r].status
  BY <1>4, <1>5, StoreAgrees
<1>9. SeatsOf(Durable(n), u) = SeatsOf(n, u) /\ Durable(n).status = n.status /\ Durable(n) # None
  <2>1. Durable(n) \in Room
    BY <1>4, DurableSame DEF SamePeople
  <2> QED
    BY <1>4, <2>1, DurableSame, DurableOpen, NoneAssumption DEF SamePeople
<1>10. SeatsOf(m, u) # {} /\ SeatsOf(n, u) = {}
  BY <1>2, <1>3, <1>8, <1>9 DEF Seated
<1>11. w \in Conns /\ (u = User[w] \/ (m.status = "LOBBY" /\ n.status = "IN_GAME"))
  BY <1>6, <1>10 DEF Spares
<1> HIDE DEF n, m
<1> QED
  BY <1>1, <1>2, <1>3, <1>4, <1>8, <1>9, <1>11 DEF Held

LEMMA GameKeepsSeats ==
  ASSUME LifeInv, LockInv, MemCore, NEW q \in Rooms, Finish(q) \/ Stall(q), NEW r \in Rooms, NEW u \in Users,
         Seated(store[r], u)
  PROVE  Seated(store'[r], u)
<1>1. CASE r # q
  <2>1. store'[r] = store[r]
    BY <1>1, Tables DEF Finish, Stall, InGame
  <2> QED
    BY <2>1
<1>2. CASE r = q
  <2>1. PICK made : made.seats = In(r).seats /\ made \in Room /\ InGame(r, made)
    <3>1. rooms[r] # NoObj /\ rooms[r] \in 1 .. Len(objs)
      BY <1>2, Tables DEF Finish, Stall, Playing, NoObj
    <3>2. In(r) \in Room
      BY <3>1 DEF LifeInv, HeapInv, InOrder, In
    <3>3. CASE Finish(r)
      <4>1. InGame(r, [In(r) EXCEPT !.status = "FINISHED"])
        BY <3>3 DEF Finish, In
      <4>2. [In(r) EXCEPT !.status = "FINISHED"] \in Room /\ [In(r) EXCEPT !.status = "FINISHED"].seats = In(r).seats
        BY <3>2 DEF Room, Statuses
      <4> QED
        BY <4>1, <4>2
    <3>4. CASE Stall(r)
      <4>1. InGame(r, [In(r) EXCEPT !.paused = "STALLED_AUTOMATION"])
        BY <3>4 DEF Stall, In
      <4>2. /\ [In(r) EXCEPT !.paused = "STALLED_AUTOMATION"] \in Room
            /\ [In(r) EXCEPT !.paused = "STALLED_AUTOMATION"].seats = In(r).seats
        BY <3>2 DEF Room, Pauses
      <4> QED
        BY <4>1, <4>2
    <3> QED
      BY <1>2, <3>3, <3>4
  <2>2. line[r] = <<>> /\ store'[r] = Durable(made)
    BY <2>1, Tables DEF InGame
  <2>3. r \in Stored /\ ~Committed(r)
    BY <2>2, OneSaver DEF Seated, Stored, Committed
  <2>4. SeatsOf(In(r), u) # {}
    BY <2>3, StoreAgrees DEF Seated
  <2>5. SeatsOf(Durable(made), u) = SeatsOf(In(r), u) /\ Durable(made) \in Room
    <3>1. SeatsOf(Durable(made), u) = SeatsOf(made, u) /\ Durable(made) \in Room
      BY <2>1, DurableSame DEF SamePeople
    <3>2. SeatsOf(made, u) = SeatsOf(In(r), u)
      BY <2>1 DEF SeatsOf
    <3> QED
      BY <3>1, <3>2
  <2> QED
    BY <2>2, <2>4, <2>5, NoneAssumption DEF Seated
<1> QED
  BY <1>1, <1>2

LEMMA CreateKeepsSeats ==
  ASSUME LifeInv, NEW v \in Users, NEW size \in 2 .. left.size, NEW fill \in BOOLEAN, Create(v, size, fill),
         NEW r \in Rooms, NEW u \in Users, Seated(store[r], u)
  PROVE  Seated(store'[r], u)
<1> DEFINE free == {q \in Rooms : store[q] = None}
<1>1. free \in SUBSET Nat /\ free # {}
  BY Tables, RoomsAssumption DEF Create, Stored
<1>2. Min(free) \in free
  BY <1>1, MinIsLeast
<1>3. r # Min(free)
  BY <1>2 DEF Seated
<1>4. store'[r] = store[r]
  BY <1>3, Tables DEF Create
<1> QED
  BY <1>4

\* A player's seat is taken away only at the player's own request, or when the
\* game starts (joinRoom, leaveRoom, switchRoom, startRoomByHost, cleanupRooms,
\* syncConnections in room-manager.ts), whatever happens at the same time.
THEOREM SeatsAlwaysKept == ASSUME AllLoaded PROVE Spec => SeatsKept
<1> DEFINE Taken1(r, u, c) ==
             /\ job[c].phase = "saving" /\ job'[c].phase = "saved"
             /\ \/ User[c] = u /\ r \in {job[c].room, job[c].from}
                \/ store[r].status = "LOBBY" /\ store'[r].status = "IN_GAME"
           Kept == Alive => \A r \in Rooms, u \in Users :
                     (Seated(store[r], u) /\ ~Seated(store'[r], u)) => \E c \in Conns : Taken1(r, u, c)
<1>1. LifeInv /\ LockInv /\ MemInv /\ [Next]_vars => [Kept]_vars
  <2> SUFFICES ASSUME LifeInv, LockInv, MemInv, [Next]_vars, Alive, NEW r \in Rooms, NEW u \in Users,
                      Seated(store[r], u), ~Seated(store'[r], u)
               PROVE  \E c \in Conns : Taken1(r, u, c)
    OBVIOUS
  <2>1. MemCore /\ store'[r] # store[r]
    BY DEF MemInv
  <2>2. PICK w \in Workers : Persist(w)
    BY <2>1, StoreWriters, CreateKeepsSeats, GameKeepsSeats
  <2> QED
    BY <2>1, <2>2, PersistSpares
<1>2. Spec => []LifeInv
  BY AlwaysLife
<1>3. Spec => []LockInv
  BY AlwaysLock
<1>4. Spec => []MemInv
  BY AlwaysMem
<1>5. Spec => [][Kept]_vars
  BY <1>1, <1>2, <1>3, <1>4, PTL DEF Spec
<1> QED
  BY <1>5 DEF SeatsKept, Alive

-----------------------------------------------------------------------------
(***************************************************************************)
(* One game to a player.  What an operation that turns room m into n does  *)
(* to the seats of user v, seat by seat: a seat never moves.               *)
(***************************************************************************)
\* Nobody is ready in an empty seat.
Neat(m) == \A i \in DOMAIN m.seats : m.seats[i].who = None => ~m.seats[i].ready

\* It is not v's: v's seats are no more ready and no more connected than before.
Keeps(m, n, v) ==
  \A i \in SeatsOf(n, v) : /\ i \in SeatsOf(m, v)
                           /\ n.seats[i].ready => m.seats[i].ready
                           /\ n.seats[i].on => m.seats[i].on
\* v joins: has no other seat but in a lobby.
Comes(m, n, v) == n.status # "LOBBY" => SeatsOf(n, v) \subseteq SeatsOf(m, v)
\* v leaves: keeps a seat in a game, but none in a lobby.
Goes(m, n, v) == SeatsOf(n, v) \subseteq SeatsOf(m, v) /\ (n.status = "LOBBY" => SeatsOf(n, v) = {})
\* The users connected are ids: v stays ready in a lobby only among them.
Follows(m, n, v, ids) ==
  \A i \in SeatsOf(n, v) : /\ i \in SeatsOf(m, v)
                           /\ n.seats[i].ready => m.seats[i].ready /\ (n.status = "LOBBY" => v \in ids)
\* The game begins, with those who are ready and connected.
Begins(m, n) ==
  /\ m.status = "LOBBY" /\ n.status = "IN_GAME"
  /\ \A v \in Users : \A i \in SeatsOf(n, v) : n.seats[i].ready /\ n.seats[i].on

SameHouse(m, n) == n.seats = m.seats /\ n.status = m.status
RoomFields == {"status", "host", "seats", "watchers", "paused", "empty", "archived", "fill"}

LEMMA FixupsSameHouse ==
  ASSUME NEW m, DOMAIN m = RoomFields
  PROVE  /\ SameHouse(m, Resume(m)) /\ SameHouse(m, RepairHost(m)) /\ SameHouse(m, Settle(m))
         /\ SameHouse(m, Resume(RepairHost(m)))
<1>1. SameHouse(m, RepairHost(m)) /\ DOMAIN RepairHost(m) = RoomFields
  BY DEF SameHouse, RepairHost, RoomFields
<1>2. ASSUME NEW k, DOMAIN k = RoomFields PROVE SameHouse(k, Resume(k)) /\ DOMAIN Resume(k) = RoomFields
  BY <1>2 DEF SameHouse, Resume, RoomFields
<1>3. SameHouse(m, Settle(m))
  BY <1>2 DEF SameHouse, Settle, RoomFields
<1>4. SameHouse(RepairHost(m), Resume(RepairHost(m)))
  BY <1>1, <1>2
<1> QED
  BY <1>1, <1>2, <1>3, <1>4 DEF SameHouse

\* With other seats.
LEMMA Reseated ==
  ASSUME NEW m \in Room, NEW s, NEW ws, NEW f
  PROVE  LET k == [m EXCEPT !.seats = s]
             l == [m EXCEPT !.watchers = ws, !.seats = s]
             g == [m EXCEPT !.seats = s, !.fill = f]
             h == [m EXCEPT !.fill = f, !.seats = s]
         IN /\ k.seats = s /\ k.status = m.status /\ DOMAIN k = RoomFields
            /\ l.seats = s /\ l.status = m.status /\ DOMAIN l = RoomFields
            /\ g.seats = s /\ g.status = m.status /\ DOMAIN g = RoomFields
            /\ h.seats = s /\ h.status = m.status /\ DOMAIN h = RoomFields
            /\ DOMAIN m = RoomFields
BY DEF RoomFields, Room

LEMMA JoinComes ==
  ASSUME NEW m, InOrder(m), Neat(m), NEW u \in Users, NEW watch \in BOOLEAN, NEW n \in JoinCandidate(m, u, watch)
  PROVE  /\ Neat(n) /\ n.status = m.status /\ Comes(m, n, u)
         /\ \A v \in Users : v # u => Keeps(m, n, v)
<1>0. m \in Room /\ Single(m) /\ DOMAIN m = RoomFields
  BY Reseated DEF InOrder
<1>1. CASE SeatsOf(m, u) # {}
  <2> DEFINE i == Min(SeatsOf(m, u))
             s == [m.seats EXCEPT ![i].on = TRUE]
             k == [m EXCEPT !.seats = s]
  <2>1. SeatsOf(m, u) \in SUBSET Nat
    BY <1>0, SeatsOfRoom DEF SeatsOf
  <2>2. i \in SeatsOf(m, u)
    BY <1>1, <2>1, MinIsLeast
  <2>3. n = Resume(RepairHost(k))
    BY <1>1 DEF JoinCandidate
  <2> HIDE DEF i
  <2>4. DOMAIN s = DOMAIN m.seats /\ \A j \in DOMAIN m.seats :
           /\ s[j].who = m.seats[j].who /\ s[j].ready = m.seats[j].ready
           /\ m.seats[j].who # u => s[j].on = m.seats[j].on
    BY <1>0, <2>2, SeatsOfRoom DEF Seat, SeatsOf
  <2> HIDE DEF s
  <2>5. k.seats = s /\ k.status = m.status /\ DOMAIN k = RoomFields
    BY <1>0, Reseated
  <2> HIDE DEF k
  <2>6. n.seats = s /\ n.status = m.status
    BY <2>3, <2>5, FixupsSameHouse DEF SameHouse
  <2>7. Neat(n) /\ Comes(m, n, u)
    BY <2>4, <2>6 DEF Neat, Comes, SeatsOf
  <2>8. \A v \in Users : v # u => Keeps(m, n, v)
    BY <2>4, <2>6 DEF Keeps, SeatsOf
  <2> QED
    BY <2>6, <2>7, <2>8
<1>2. CASE SeatsOf(m, u) = {} /\ (watch \/ m.status # "LOBBY")
  <2>1. n = [m EXCEPT !.watchers = @ \cup {u}]
    BY <1>2 DEF JoinCandidate
  <2>2. n.seats = m.seats /\ n.status = m.status
    BY <1>0, <2>1
  <2> QED
    BY <1>2, <2>2 DEF Neat, Comes, Keeps, SeatsOf
<1>3. CASE SeatsOf(m, u) = {} /\ ~watch /\ m.status = "LOBBY"
  <2>1. PICK i \in Open(m) : n = RepairHost([m EXCEPT !.seats[i] = [@ EXCEPT !.who = u, !.on = TRUE]])
    BY <1>3 DEF JoinCandidate
  <2> DEFINE s == [m.seats EXCEPT ![i] = [m.seats[i] EXCEPT !.who = u, !.on = TRUE]]
             k == [m EXCEPT !.seats = s]
  <2>2. n = RepairHost(k)
    BY <2>1
  <2>3. i \in DOMAIN m.seats /\ m.seats[i].who = None
    BY DEF Open, Taken
  <2>4. /\ DOMAIN s = DOMAIN m.seats /\ s[i].who = u
        /\ \A j \in DOMAIN m.seats : j # i => s[j] = m.seats[j]
    BY <1>0, <2>3, SeatsOfRoom DEF Seat
  <2> HIDE DEF s
  <2>5. k.seats = s /\ k.status = m.status /\ DOMAIN k = RoomFields
    BY <1>0, Reseated
  <2> HIDE DEF k
  <2>6. n.seats = s /\ n.status = m.status
    BY <2>2, <2>5, FixupsSameHouse DEF SameHouse
  <2>7. Neat(n)
    BY <2>3, <2>4, <2>6, UserAssumption DEF Neat
  <2>8. \A v \in Users : v # u => Keeps(m, n, v)
    BY <2>3, <2>4, <2>6 DEF Keeps, SeatsOf
  <2>9. Comes(m, n, u)
    BY <1>3, <2>6 DEF Comes
  <2> QED
    BY <2>6, <2>7, <2>8, <2>9
<1> QED
  BY <1>1, <1>2, <1>3

LEMMA DepartGoes ==
  ASSUME NEW m \in Room, Neat(m), NEW u \in Users
  PROVE  LET n == Depart(m, u) IN
         /\ Neat(n) /\ n.status = m.status /\ Goes(m, n, u)
         /\ \A v \in Users : v # u => Keeps(m, n, v)
<1> DEFINE lobby == m.status = "LOBBY"
           s == [i \in DOMAIN m.seats |->
                   IF i \notin SeatsOf(m, u) THEN m.seats[i]
                   ELSE IF lobby THEN Vacant ELSE [m.seats[i] EXCEPT !.ready = FALSE, !.on = FALSE]]
           ws == m.watchers \ {u}
           gone == [m EXCEPT !.watchers = ws, !.seats = s]
           led == IF lobby /\ m.host = u /\ Humans(gone) # {}
                  THEN [gone EXCEPT !.host = HostOf(gone)] ELSE gone
           n == Depart(m, u)
<1>1. n = Settle(led)
  BY DEF Depart
<1>2. /\ DOMAIN s = DOMAIN m.seats
      /\ \A i \in DOMAIN m.seats : m.seats[i].who # u => s[i] = m.seats[i]
      /\ \A i \in DOMAIN m.seats : m.seats[i].who = u =>
           ~s[i].ready /\ IF lobby THEN s[i].who = None ELSE s[i].who = u
  BY SeatsOfRoom DEF Seat, Vacant, SeatsOf
<1> HIDE DEF s, ws
<1>3. gone.seats = s /\ gone.status = m.status /\ DOMAIN gone = RoomFields
  BY Reseated
<1> HIDE DEF gone
<1>4. led.seats = s /\ led.status = m.status /\ DOMAIN led = RoomFields
  BY <1>3 DEF RoomFields
<1> HIDE DEF led
<1>5. n.seats = s /\ n.status = m.status
  BY <1>1, <1>4, FixupsSameHouse DEF SameHouse
<1> HIDE DEF n
<1>6. Neat(n)
  BY <1>2, <1>5, UserAssumption DEF Neat
<1>7. Goes(m, n, u)
  BY <1>2, <1>5, UserAssumption DEF Goes, SeatsOf
<1>8. \A v \in Users : v # u => Keeps(m, n, v)
  BY <1>2, <1>5, UserAssumption DEF Keeps, SeatsOf
<1> QED
  BY <1>5, <1>6, <1>7, <1>8 DEF n

\* Filling up with bots disturbs no human; a start keeps the ready and connected.
LEMMA FillKeeps ==
  ASSUME NEW m \in Room, Neat(m)
  PROVE  LET n == FillBots(m) IN
         /\ n \in Room /\ Neat(n) /\ n.status = m.status
         /\ \A v \in Users : Keeps(m, n, v)
<1> DEFINE s == [i \in DOMAIN m.seats |-> IF i \in Open(m) THEN SeatedBot ELSE m.seats[i]]
           n == FillBots(m)
<1>1. n = [m EXCEPT !.seats = s]
  BY DEF FillBots
<1>2. /\ DOMAIN s = DOMAIN m.seats
      /\ \A i \in DOMAIN m.seats : IF m.seats[i].who = None THEN s[i].who = Bot ELSE s[i] = m.seats[i]
  BY DEF SeatedBot, Open, Taken
<1> HIDE DEF s
<1>3. n.seats = s /\ n.status = m.status
  BY <1>1, Reseated
<1>4. n \in Room
  BY FillBotsSame DEF SamePeople
<1> HIDE DEF n
<1>5. Neat(n)
  BY <1>2, <1>3, UserAssumption DEF Neat
<1>6. \A v \in Users : Keeps(m, n, v)
  BY <1>2, <1>3, UserAssumption DEF Keeps, SeatsOf
<1> QED
  BY <1>3, <1>4, <1>5, <1>6 DEF n

LEMMA StartBegins ==
  ASSUME NEW m \in Room, Neat(m), m.status = "LOBBY"
  PROVE  LET n == Start(m) IN
         /\ Neat(n) /\ Begins(m, n) /\ \A v \in Users : Keeps(m, n, v)
<1> DEFINE s == [i \in DOMAIN m.seats |-> IF i \in Startable(m) THEN m.seats[i] ELSE Vacant]
           n == Start(m)
<1>1. n = [m EXCEPT !.status = "IN_GAME", !.seats = s]
  BY DEF Start
<1>2. /\ DOMAIN s = DOMAIN m.seats
      /\ \A i \in DOMAIN m.seats : \/ s[i].who = None /\ ~s[i].ready
                                   \/ /\ s[i] = m.seats[i] /\ m.seats[i].ready /\ m.seats[i].who # None
                                      /\ m.seats[i].who # Bot => m.seats[i].on
  BY DEF Vacant, Startable, Connected, Taken
<1> HIDE DEF s
<1>3. n.seats = s /\ n.status = "IN_GAME"
  BY <1>1 DEF Room
<1> HIDE DEF n
<1>4. Neat(n)
  BY <1>2, <1>3 DEF Neat
<1>5. \A v \in Users : Keeps(m, n, v)
  BY <1>2, <1>3, UserAssumption DEF Keeps, SeatsOf
<1>6. Begins(m, n)
  BY <1>2, <1>3, UserAssumption DEF Begins, SeatsOf
<1> QED
  BY <1>4, <1>5, <1>6 DEF n

\* A lobby whose seats have been filled up, or not, and that has started, or not.
StartsWell(m, n) ==
  /\ Neat(n) /\ (n.status = m.status \/ Begins(m, n))
  /\ \A v \in Users : Keeps(m, n, v)
LEMMA FilledStartsWell ==
  ASSUME NEW m \in Room, Neat(m), m.status = "LOBBY", NEW n \in {m, Start(m), FillBots(m), Start(FillBots(m))}
  PROVE  StartsWell(m, n)
<1> DEFINE f == FillBots(m)
<1>1. f \in Room /\ Neat(f) /\ f.status = "LOBBY" /\ \A v \in Users : Keeps(m, f, v)
  BY FillKeeps
<1> HIDE DEF f
<1>2. Neat(Start(m)) /\ Begins(m, Start(m)) /\ \A v \in Users : Keeps(m, Start(m), v)
  BY StartBegins
<1>3. Neat(Start(f)) /\ Begins(f, Start(f)) /\ \A v \in Users : Keeps(f, Start(f), v)
  BY <1>1, StartBegins
<1>4. Begins(m, Start(f)) /\ \A v \in Users : Keeps(m, Start(f), v)
  BY <1>1, <1>3 DEF Begins, Keeps
<1>5. \A v \in Users : Keeps(m, m, v)
  BY DEF Keeps
<1> QED
  BY <1>1, <1>2, <1>3, <1>4, <1>5 DEF StartsWell, f

LEMMA SetReadyKeeps ==
  ASSUME NEW m \in Room, Neat(m), m.status = "LOBBY", NEW u \in Users, NEW ready \in BOOLEAN,
         NEW n \in SetReady(m, u, ready)
  PROVE  /\ Neat(n) /\ (n.status = m.status \/ Begins(m, n))
         /\ SeatsOf(n, u) \subseteq SeatsOf(m, u) /\ \A v \in Users : v # u => Keeps(m, n, v)
<1> DEFINE s == [i \in DOMAIN m.seats |->
                   IF i \in SeatsOf(m, u) THEN [m.seats[i] EXCEPT !.ready = ready, !.on = TRUE]
                   ELSE m.seats[i]]
           k == [m EXCEPT !.seats = s]
           filled == IF m.fill THEN FillBots(k) ELSE k
<1>1. n \in {Start(filled), filled}
  BY DEF SetReady
<1>2. /\ s \in [DOMAIN m.seats -> Seat] /\ \A i \in DOMAIN m.seats : s[i].who = m.seats[i].who
      /\ \A i \in DOMAIN m.seats : m.seats[i].who # u => s[i] = m.seats[i]
  BY SeatsOfRoom, ReadiedSeat DEF SeatsOf
<1> HIDE DEF s
<1>3. k.seats = s /\ k.status = "LOBBY" /\ k \in Room
  <2>1. SamePeople(m, [m EXCEPT !.seats = s])
    BY <1>2, ReseatedSame
  <2>2. k.seats = s /\ k.status = m.status
    BY Reseated
  <2> QED
    BY <2>1, <2>2 DEF SamePeople
<1>4. n \in {k, Start(k), FillBots(k), Start(FillBots(k))}
  BY <1>1
<1> HIDE DEF k, filled
<1>5. Neat(k) /\ SeatsOf(k, u) = SeatsOf(m, u)
  BY <1>2, <1>3, UserAssumption DEF Neat, SeatsOf
<1>6. \A v \in Users : v # u => Keeps(m, k, v)
  BY <1>2, <1>3 DEF Keeps, SeatsOf
<1>7. StartsWell(k, n)
  BY <1>3, <1>4, <1>5, FilledStartsWell
<1>8. SeatsOf(n, u) \subseteq SeatsOf(m, u) /\ \A v \in Users : v # u => Keeps(m, n, v)
  BY <1>5, <1>6, <1>7 DEF StartsWell, Keeps
<1> QED
  BY <1>3, <1>7, <1>8 DEF StartsWell, Begins

\* What the host does to the seats is a start, or disturbs no human.
LEMMA AddBotKeeps == ASSUME NEW m \in Room, Neat(m), NEW n \in AddBot(m) PROVE n.status = m.status /\ StartsWell(m, n)
<1>1. PICK i \in Open(m) : n = [m EXCEPT !.seats[i] = SeatedBot, !.fill = FALSE]
  BY DEF AddBot
<1> DEFINE s == [m.seats EXCEPT ![i] = SeatedBot]
<1>2. n = [m EXCEPT !.seats = s, !.fill = FALSE]
  BY <1>1
<1>3. /\ DOMAIN s = DOMAIN m.seats /\ (i \in DOMAIN m.seats => s[i].who = Bot)
      /\ \A k \in DOMAIN m.seats : k # i => s[k] = m.seats[k]
  BY SeatsOfRoom DEF SeatedBot
<1> HIDE DEF s
<1>4. n.seats = s /\ n.status = m.status
  BY <1>2, Reseated
<1>5. Neat(n)
  BY <1>3, <1>4, UserAssumption DEF Neat
<1>6. \A v \in Users : Keeps(m, n, v)
  BY <1>3, <1>4, UserAssumption DEF Keeps, SeatsOf
<1> QED
  BY <1>4, <1>5, <1>6 DEF StartsWell

LEMMA RemoveBotKeeps ==
  ASSUME NEW m \in Room, Neat(m), NEW i, NEW n \in RemoveBot(m, i) PROVE n.status = m.status /\ StartsWell(m, n)
<1>1. i \in SeatsOf(m, Bot) /\ n = [m EXCEPT !.seats[i] = Vacant, !.fill = FALSE]
  BY DEF RemoveBot
<1> DEFINE s == [m.seats EXCEPT ![i] = Vacant]
<1>2. n = [m EXCEPT !.seats = s, !.fill = FALSE]
  BY <1>1
<1>3. /\ DOMAIN s = DOMAIN m.seats /\ (i \in DOMAIN m.seats => s[i].who = None /\ ~s[i].ready)
      /\ \A k \in DOMAIN m.seats : k # i => s[k] = m.seats[k]
  BY SeatsOfRoom DEF Vacant
<1> HIDE DEF s
<1>4. n.seats = s /\ n.status = m.status
  BY <1>2, Reseated
<1>5. Neat(n)
  BY <1>3, <1>4 DEF Neat
<1>6. \A v \in Users : Keeps(m, n, v)
  BY <1>3, <1>4, UserAssumption DEF Keeps, SeatsOf
<1> QED
  BY <1>4, <1>5, <1>6 DEF StartsWell

LEMMA SettingsKeeps ==
  ASSUME NEW m \in Room, Neat(m), NEW size \in 0 .. MaxSeats, NEW fill \in BOOLEAN, NEW n \in Settings(m, size, fill)
  PROVE  n.status = m.status /\ StartsWell(m, n)
<1> DEFINE changed == size # Len(m.seats) \/ fill # m.fill
           seat(i) == IF i \in DOMAIN m.seats THEN m.seats[i] ELSE Vacant
           s == [i \in 1 .. size |-> Rearranged(seat(i), changed)]
<1>1. n = [m EXCEPT !.fill = fill, !.seats = s]
  BY DEF Settings
<1>2. changed \in BOOLEAN
  OBVIOUS
<1> HIDE DEF changed
<1>3. ASSUME NEW x \in Seat
      PROVE  LET y == Rearranged(x, changed) IN
             y.who = x.who /\ (x.who # Bot => y.on = x.on /\ (y.ready => x.ready))
  BY <1>2, <1>3 DEF Rearranged, Seat, SeatedBot
<1>4. ASSUME NEW i \in 1 .. size PROVE seat(i) \in Seat
  BY SeatsOfRoom DEF Vacant, Seat
<1>5. /\ DOMAIN s = 1 .. size
      /\ \A i \in 1 .. size : LET x == seat(i) IN
           s[i].who = x.who /\ (x.who # Bot => s[i].on = x.on /\ (s[i].ready => x.ready))
  BY <1>3, <1>4
<1>6. \A i \in 1 .. size : i \notin DOMAIN m.seats => seat(i).who = None /\ ~seat(i).ready
  BY DEF Vacant
<1>7. \A i \in 1 .. size : i \in DOMAIN m.seats => seat(i) = m.seats[i]
  OBVIOUS
<1> HIDE DEF s, seat
<1>8. n.seats = s /\ n.status = m.status
  BY <1>1, Reseated
<1>9. Neat(n)
  BY <1>5, <1>6, <1>7, <1>8, UserAssumption DEF Neat
<1>10. \A v \in Users : Keeps(m, n, v)
  BY <1>5, <1>6, <1>7, <1>8, UserAssumption DEF Keeps, SeatsOf
<1> QED
  BY <1>8, <1>9, <1>10 DEF StartsWell

LEMMA SyncFollows ==
  ASSUME NEW m \in Room, Neat(m), NEW ids
  PROVE  LET n == Sync(m, ids) IN
         Neat(n) /\ n.status = m.status /\ \A v \in Users : Follows(m, n, v, ids)
<1> DEFINE s == [i \in DOMAIN m.seats |->
                   IF i \in Humans(m)
                   THEN Resynced(m.seats[i], m.seats[i].who \in ids, m.status = "LOBBY")
                   ELSE m.seats[i]]
           ws == m.watchers \cap ids
           k == [m EXCEPT !.watchers = ws, !.seats = s]
           n == Sync(m, ids)
<1>1. n = Settle(k)
  BY DEF Sync
<1>2. ASSUME NEW x \in Seat, NEW here \in BOOLEAN, NEW lobby \in BOOLEAN
      PROVE  LET y == Resynced(x, here, lobby) IN
             y.who = x.who /\ (y.ready => x.ready /\ (lobby => here))
  BY <1>2 DEF Resynced, Seat
<1>3. DOMAIN s = DOMAIN m.seats /\ \A i \in DOMAIN m.seats :
         /\ s[i].who = m.seats[i].who
         /\ s[i].ready => /\ m.seats[i].ready
                          /\ (m.status = "LOBBY" /\ m.seats[i].who \in Users) => m.seats[i].who \in ids
  <2>1. ASSUME NEW i \in DOMAIN m.seats
        PROVE  /\ s[i].who = m.seats[i].who
               /\ s[i].ready => /\ m.seats[i].ready
                                /\ (m.status = "LOBBY" /\ m.seats[i].who \in Users) => m.seats[i].who \in ids
    <3> DEFINE here == m.seats[i].who \in ids
               lobby == m.status = "LOBBY"
    <3>1. m.seats[i] \in Seat /\ here \in BOOLEAN /\ lobby \in BOOLEAN
      BY SeatsOfRoom
    <3>2. s[i] = IF m.seats[i].who \in Users THEN Resynced(m.seats[i], here, lobby) ELSE m.seats[i]
      BY DEF Humans
    <3> HIDE DEF here, lobby, s
    <3>3. LET y == Resynced(m.seats[i], here, lobby) IN
             y.who = m.seats[i].who /\ (y.ready => m.seats[i].ready /\ (lobby => here))
      BY <1>2, <3>1
    <3>4. /\ s[i].who = m.seats[i].who
          /\ s[i].ready => m.seats[i].ready /\ (lobby /\ m.seats[i].who \in Users => here)
      BY <3>2, <3>3
    <3> QED
      BY <3>4 DEF here, lobby
  <2> QED
    BY <2>1
<1> HIDE DEF s, ws
<1>4. k.seats = s /\ k.status = m.status /\ DOMAIN k = RoomFields
  BY Reseated
<1> HIDE DEF k
<1>5. n.seats = s /\ n.status = m.status
  BY <1>1, <1>4, FixupsSameHouse DEF SameHouse
<1> HIDE DEF n
<1>6. Neat(n)
  BY <1>3, <1>5 DEF Neat
<1>7. \A v \in Users : Follows(m, n, v, ids)
  BY <1>3, <1>5 DEF Follows, SeatsOf
<1> QED
  BY <1>5, <1>6, <1>7 DEF n

LEMMA CleanupKeeps ==
  ASSUME NEW m \in Room, Neat(m) PROVE Cleanup(m, FALSE).status = m.status /\ StartsWell(m, Cleanup(m, FALSE))
<1> DEFINE n == Cleanup(m, FALSE)
<1>1. n.seats = m.seats /\ n.status = m.status
  <2>0. DOMAIN m = RoomFields
    BY Reseated
  <2>1. CASE m.status = "LOBBY"
    BY <2>0, <2>1 DEF Cleanup, RoomFields
  <2>2. CASE m.status = "IN_GAME" /\ Unattended(m)
    BY <2>0, <2>2 DEF Cleanup, RoomFields
  <2>3. CASE m.status = "IN_GAME" /\ ~Unattended(m)
    <3>1. n = Resume(m)
      BY <2>3 DEF Cleanup
    <3> QED
      BY <2>0, <3>1, FixupsSameHouse DEF SameHouse
  <2>4. CASE m.status = "FINISHED"
    BY <2>0, <2>4 DEF Cleanup, RoomFields
  <2>5. CASE m.status \notin {"LOBBY", "IN_GAME", "FINISHED"}
    BY <2>5 DEF Cleanup
  <2> QED
    BY <2>1, <2>2, <2>3, <2>4, <2>5
<1> HIDE DEF n
<1> QED
  BY <1>1 DEF StartsWell, Neat, Keeps, SeatsOf, n

-----------------------------------------------------------------------------
(***************************************************************************)
(* The inductive invariant of playing one game at a time.                  *)
(***************************************************************************)
Own(w, v) == w \in Conns /\ v = User[w]

\* What the clone n of room r, made for job j of worker w, has of the object m.
Wrought(w, j, r, m, n) ==
  /\ Neat(n)
  /\ n.status = m.status \/ (j.kind \in {"ready", "unready", "start"} /\ Begins(m, n))
  /\ \A v \in Users :
       IF j.kind = "sync" THEN Follows(m, n, v, j.ids)
       ELSE IF ~Own(w, v) \/ j.kind \in HostKinds \cup {"cleanup"} THEN Keeps(m, n, v)
       ELSE IF j.kind \in Joins /\ r = j.room THEN Comes(m, n, v)
       ELSE IF j.kind \in {"ready", "unready"} THEN SeatsOf(n, v) \subseteq SeatsOf(m, v)
       ELSE Goes(m, n, v)

\* Where connection c is attached while it is about something.
Attached(c) ==
  LET j == job[c] IN
  /\ j.kind \in Joins => IF j.from = NoRoom THEN at[c] \in {NoRoom, j.room} ELSE at[c] = j.from
  /\ j.kind \in AllKinds \ Joins => at[c] = j.room /\ j.from = NoRoom
  /\ j.phase = "present" => at[c] = j.todo[Len(j.todo)]
  /\ at[c] = NoRoom =>
       /\ j.phase = "parting" => j.todo = <<>> \/ \E r \in Rooms : j.todo = <<r>>
       /\ j.phase = "syncing" => pres[c] = NoRoom /\ \E r \in Rooms : j.todo = <<r>>
       /\ j.kind = "sync" => j.todo = <<>> /\ User[c] \notin j.ids

\* The connection c was lost and room r has yet to hear of it.
Winding(c, r) ==
  /\ at[c] = NoRoom
  /\ \/ job[c].phase \in {"parting", "syncing"} /\ job[c].todo = <<r>>
     \/ AtWork(job[c]) /\ job[c].kind = "sync" /\ job[c].room = r
Joining(c, r) == job[c].kind \in Joins /\ Busy(job[c]) /\ job[c].room = r
\* It may yet be let into r without having a game elsewhere checked again.
Waiting(c, r) == job[c].kind \in Joins /\ job[c].phase = "queued" /\ job[c].from = NoRoom /\ job[c].room = r
Anchor(c, r) == at[c] = r \/ Winding(c, r) \/ Joining(c, r)
Bound(c, r) == Anchor(c, r) \/ Waiting(c, r)
Anchored(u, r) == \E c \in Conns : User[c] = u /\ Anchor(c, r)

\* u is ready in a lobby, shown as connected, or plays.
Poised(m, u) == m.status = "LOBBY" /\ \E i \in SeatsOf(m, u) : m.seats[i].ready
Lit(m, u) == \E i \in SeatsOf(m, u) : m.seats[i].on
Plays(m, u) == m.status = "IN_GAME" /\ SeatsOf(m, u) # {}

\* u was ready in r before the server restarted, and has not come back.
Dormant(u, r) ==
  /\ ~Lit(In(r), u) /\ u \notin PresentIn(r)
  /\ \A w \in Workers : (job[w].kind = "sync" /\ job[w].room = r) => u \notin job[w].ids
\* u is bound to no room and plays in no room but r.
Only(u, r) ==
  /\ \A c \in Conns, q \in Rooms : (User[c] = u /\ Bound(c, q)) => q = r
  /\ \A q \in Stored : Plays(In(q), u) => q = r

NeatInv == \A r \in Stored : Neat(In(r))
AllSaved == \A w \in Workers : Busy(job[w]) => \A r \in Held(job[w]) : job[w].new[r] # None
ClonesWrought ==
  \A w \in Workers, r \in Rooms : job[w].new[r] # None => Wrought(w, job[w], r, In(r), job[w].new[r])
AttachInv == \A c \in Conns : Attached(c)
PoisedInv == \A r \in Stored, u \in Users : Poised(In(r), u) => Anchored(u, r) \/ Dormant(u, r)
PlaysInv == \A r \in Stored, u \in Users : Plays(In(r), u) => Only(u, r)
GameCore == NeatInv /\ AllSaved /\ ClonesWrought /\ AttachInv /\ PoisedInv /\ PlaysInv

Steady == Alive /\ ~Happened("failure") /\ ~Happened("silence")

OneConnection == \A c, d \in Conns : User[c] = User[d] => c = d

LEMMA OutcomeWrought ==
  ASSUME NEW c \in Conns, NEW j \in Job, j.kind \in AllKinds, NEW m, InOrder(m), Neat(m),
         NEW n \in Outcome(j.kind, j.arg, User[c], m)
  PROVE  Wrought(c, j, j.room, m, n)
<1> DEFINE u == User[c]
<1>0. /\ m \in Room /\ m.fill \in BOOLEAN /\ Len(m.seats) \in 0 .. MaxSeats /\ u \in Users
      /\ j.arg \in 0 .. MaxSeats /\ \A v \in Users : Own(c, v) <=> v = u
  BY LenOfRoom, UserAssumption DEF InOrder, Room, Job, Own
<1> HIDE DEF u
<1>1. CASE j.kind \in Joins
  <2>1. n \in JoinCandidate(m, u, j.kind = "watch")
    BY <1>1 DEF Outcome, u
  <2>2. Neat(n) /\ n.status = m.status /\ Comes(m, n, u) /\ \A v \in Users : v # u => Keeps(m, n, v)
    BY <1>0, <2>1, JoinComes
  <2> QED
    BY <1>0, <1>1, <2>2 DEF Wrought, Joins, HostKinds
<1>2. CASE j.kind = "leave"
  <2>1. n = Depart(m, u)
    BY <1>2 DEF Outcome, Joins, u
  <2>2. Neat(n) /\ n.status = m.status /\ Goes(m, n, u) /\ \A v \in Users : v # u => Keeps(m, n, v)
    BY <1>0, <2>1, DepartGoes
  <2> QED
    BY <1>0, <1>2, <2>2 DEF Wrought, Joins, HostKinds
<1>3. CASE j.kind \in {"ready", "unready"}
  <2>1. m.status = "LOBBY" /\ n \in SetReady(m, u, j.kind = "ready")
    BY <1>3 DEF Outcome, Joins, HostKinds, u
  <2>2. /\ Neat(n) /\ (n.status = m.status \/ Begins(m, n))
        /\ SeatsOf(n, u) \subseteq SeatsOf(m, u) /\ \A v \in Users : v # u => Keeps(m, n, v)
    BY <1>0, <2>1, SetReadyKeeps
  <2> QED
    BY <1>0, <1>3, <2>2 DEF Wrought, Joins, HostKinds
<1>4. CASE j.kind \in HostKinds
  <2>1. m.status = "LOBBY"
    BY <1>4 DEF Outcome, Joins, HostKinds
  <2>2. StartsWell(m, n) /\ (j.kind = "start" \/ n.status = m.status)
    <3>1. CASE j.kind = "start"
      <4>1. n \in StartByHost(m)
        BY <3>1 DEF Outcome, Joins, HostKinds
      <4>2. n \in {m, Start(m), FillBots(m), Start(FillBots(m))}
        BY <4>1 DEF StartByHost
      <4> QED
        BY <1>0, <2>1, <3>1, <4>2, FilledStartsWell
    <3>2. CASE j.kind = "addBot"
      <4>1. n \in AddBot(m)
        BY <3>2 DEF Outcome, Joins, HostKinds
      <4> QED
        BY <1>0, <4>1, AddBotKeeps
    <3>3. CASE j.kind = "removeBot"
      <4>1. n \in RemoveBot(m, j.arg)
        BY <3>3 DEF Outcome, Joins, HostKinds
      <4> QED
        BY <1>0, <4>1, RemoveBotKeeps
    <3>4. CASE j.kind \in {"resize", "setFill"}
      <4>1. PICK size \in 0 .. MaxSeats, fill \in BOOLEAN : n \in Settings(m, size, fill)
        BY <1>0, <3>4 DEF Outcome, Joins, HostKinds
      <4> QED
        BY <1>0, <4>1, SettingsKeeps
    <3> QED
      BY <1>4, <3>1, <3>2, <3>3, <3>4 DEF HostKinds
  <2> QED
    BY <1>0, <1>4, <2>2 DEF Wrought, StartsWell, HostKinds
<1> QED
  BY <1>1, <1>2, <1>3, <1>4 DEF AllKinds

\* What is told of a clone depends on the kind, the room and the users read.
LEMMA WroughtSame ==
  ASSUME NEW w, NEW j, NEW k, k.kind = j.kind, k.room = j.room, k.ids = j.ids, NEW r, NEW m, NEW n, Wrought(w, j, r, m, n)
  PROVE  Wrought(w, k, r, m, n)
BY DEF Wrought

\* Nobody is in a clone who was not in the room, but for its own user in a
\* lobby; and nobody gets more ready there.
LEMMA WroughtSeats ==
  ASSUME NEW w, NEW j, NEW r, NEW m, NEW n, Wrought(w, j, r, m, n), NEW u \in Users
  PROVE  /\ n.status # "LOBBY" => SeatsOf(n, u) \subseteq SeatsOf(m, u)
         /\ (Plays(n, u) /\ n.status = m.status) => Plays(m, u)
BY DEF Wrought, Keeps, Follows, Comes, Goes, Plays

\* Who comes to play was ready and connected, or has just asked to be.
LEMMA WroughtStart ==
  ASSUME NEW w, NEW j, NEW r, NEW m, NEW n, Wrought(w, j, r, m, n), NEW u \in Users, Plays(n, u), ~Plays(m, u)
  PROVE  /\ j.kind \in {"ready", "unready", "start"}
         /\ \/ Poised(m, u) /\ Lit(m, u)
            \/ w \in Conns /\ u = User[w]
<1>1. j.kind \in {"ready", "unready", "start"} /\ Begins(m, n)
  <2>1. n.status # m.status
    BY WroughtSeats
  <2> QED
    BY <2>1 DEF Wrought
<1>2. PICK i \in SeatsOf(n, u) : n.seats[i].ready /\ n.seats[i].on
  BY <1>1 DEF Plays, Begins
<1>3. Own(w, u) \/ Keeps(m, n, u)
  BY <1>1 DEF Wrought, HostKinds
<1>4. CASE Keeps(m, n, u)
  BY <1>1, <1>2, <1>4 DEF Keeps, Poised, Lit, Begins
<1> QED
  BY <1>1, <1>3, <1>4 DEF Own

\* Who is ready in a clone was so before, or it is the user's own.
LEMMA WroughtPoised ==
  ASSUME NEW w, NEW j, NEW r, NEW m, NEW n, Wrought(w, j, r, m, n), NEW u \in Users, Poised(n, u)
  PROVE  \/ Poised(m, u) /\ (Lit(n, u) => Lit(m, u)) /\ j.kind # "sync"
            /\ (~Own(w, u) \/ j.kind \in HostKinds \cup {"cleanup"})
         \/ Poised(m, u) /\ j.kind = "sync" /\ u \in j.ids
         \/ Own(w, u) /\ j.kind \in Joins /\ r = j.room
         \/ Own(w, u) /\ j.kind \in {"ready", "unready"}
<1>1. n.status = "LOBBY" /\ m.status = "LOBBY" /\ \E i \in SeatsOf(n, u) : n.seats[i].ready
  BY DEF Poised, Wrought, Begins
<1>2. CASE j.kind = "sync"
  <2>1. Follows(m, n, u, j.ids)
    BY <1>2 DEF Wrought
  <2> QED
    BY <1>1, <1>2, <2>1 DEF Follows, Poised
<1>3. CASE j.kind # "sync" /\ (~Own(w, u) \/ j.kind \in HostKinds \cup {"cleanup"})
  <2>1. Keeps(m, n, u)
    BY <1>3 DEF Wrought
  <2> QED
    BY <1>1, <1>3, <2>1 DEF Keeps, Poised, Lit
<1>4. CASE j.kind # "sync" /\ Own(w, u) /\ j.kind \notin HostKinds \cup {"cleanup"}
  <2>1. CASE (j.kind \in Joins /\ r # j.room) \/ j.kind \notin Joins \cup {"ready", "unready"}
    <3>1. Goes(m, n, u)
      BY <1>4, <2>1 DEF Wrought, Joins
    <3> QED
      BY <1>1, <3>1 DEF Goes
  <2> QED
    BY <1>4, <2>1
<1> QED
  BY <1>2, <1>3, <1>4

LEMMA StoredRoom ==
  ASSUME LifeInv, MemCore, NEW r \in Stored
  PROVE  r \in Rooms /\ rooms[r] # NoObj /\ rooms[r] \in 1 .. Len(objs) /\ InOrder(In(r)) /\ In(r) \in Room
<1>1. r \in Rooms /\ rooms[r] # NoObj
  BY DEF MemCore, StoredOpen, Stored
<1>2. rooms[r] \in 1 .. Len(objs)
  BY <1>1, Tables DEF NoObj
<1> QED
  BY <1>1, <1>2 DEF LifeInv, HeapInv, InOrder, In

\* A connection is anchored to one room, but for the moment of a switch.
LEMMA OneAnchor ==
  ASSUME NEW c \in Conns, Attached(c), NEW r \in Rooms, NEW q \in Rooms, Anchor(c, r), Bound(c, q), q # r
  PROVE  job[c].kind \in Joins /\ Busy(job[c]) /\ {r, q} \subseteq Held(job[c])
<1> DEFINE j == job[c]
<1>0. r # NoRoom /\ q # NoRoom
  BY RoomsAssumption
<1>1. CASE at[c] = NoRoom
  <2>1. \A x \in Rooms : Winding(c, x) =>
          ~Joining(c, x) /\ \A y \in Rooms : ~Joining(c, y) /\ ~Waiting(c, y) /\ (Winding(c, y) => y = x)
    BY DEF Winding, Joining, Waiting, AtWork, Busy, Joins
  <2>2. \A x, y \in Rooms : (Joining(c, x) \/ Waiting(c, x)) /\ (Joining(c, y) \/ Waiting(c, y)) => x = y
    BY DEF Joining, Waiting
  <2> QED
    BY <1>0, <1>1, <2>1, <2>2 DEF Anchor, Bound
<1>2. CASE at[c] # NoRoom
  <2>1. \A x \in Rooms : ~Winding(c, x)
    BY <1>2 DEF Winding
  <2>2. \A x \in Rooms : Bound(c, x) =>
          /\ x \in {at[c], j.room}
          /\ x # at[c] => j.kind \in Joins /\ x = j.room /\ (Busy(j) \/ j.from = NoRoom)
    BY <2>1 DEF Bound, Anchor, Joining, Waiting
  <2>3. at[c] \in {r, q} /\ j.kind \in Joins /\ j.room \in {r, q} /\ j.room # at[c] /\ (Busy(j) \/ j.from = NoRoom)
    BY <2>2 DEF Bound
  <2>4. j.from # NoRoom /\ at[c] = j.from
    BY <1>2, <2>3 DEF Attached
  <2> QED
    BY <1>0, <2>3, <2>4 DEF Held
<1> QED
  BY <1>1, <1>2

\* Whose clone has u play binds u to that room alone.
LEMMA CloneBinds ==
  ASSUME OneConnection, LifeInv, LockInv, MemCore, GameCore, NEW w \in Workers, NEW r \in Rooms, NEW u \in Users,
         job[w].new[r] # None, Plays(job[w].new[r], u)
  PROVE  /\ r \in Stored /\ (Plays(In(r), u) \/ Anchored(u, r)) /\ Only(u, r)
<1> DEFINE n == job[w].new[r]
           m == In(r)
           j == job[w]
<1>1. /\ r \in Stored /\ r \in Held(j) /\ Busy(j)
      /\ \A v \in Workers : job[v].new[r] # None => v = w
  BY OneSaver DEF Busy
<1>2. Wrought(w, j, r, m, n)
  BY DEF GameCore, ClonesWrought
<1>3. CASE Plays(m, u)
  BY <1>1, <1>3 DEF GameCore, PlaysInv
<1>4. CASE ~Plays(m, u)
  <2>1. /\ j.kind \in {"ready", "unready", "start"}
        /\ (Poised(m, u) /\ Lit(m, u)) \/ (w \in Conns /\ u = User[w])
    BY <1>2, <1>4, WroughtStart
  <2>2. w \in Conns
    BY <2>1, Tables DEF Placed, AllKinds, HostKinds
  <2>3. PICK c \in Conns : User[c] = u /\ Anchor(c, r)
    <3>1. CASE Poised(m, u) /\ Lit(m, u)
      BY <1>1, <3>1 DEF GameCore, PoisedInv, Dormant, Anchored
    <3>2. CASE u = User[w]
      <4>1. Attached(w) /\ j.kind \in AllKinds \ Joins
        BY <2>1, <2>2 DEF GameCore, AttachInv, AllKinds, Joins, HostKinds
      <4>2. at[w] = r
        BY <1>1, <4>1 DEF Attached, Held
      <4> QED
        BY <2>2, <3>2, <4>2 DEF Anchor
    <3> QED
      BY <2>1, <3>1, <3>2
  <2>4. ASSUME NEW d \in Conns, NEW q \in Rooms, User[d] = u, Bound(d, q) PROVE q = r
    <3> SUFFICES ASSUME q # r PROVE FALSE
      OBVIOUS
    <3>1. d = c
      BY <2>3, <2>4 DEF OneConnection
    <3>2. job[c].kind \in Joins /\ Busy(job[c]) /\ r \in Held(job[c])
      BY <2>3, <2>4, <3>1, OneAnchor DEF GameCore, AttachInv
    <3>3. c = w
      <4>1. c \in Workers
        BY WorkersDiffer
      <4>2. job[c].new[r] # None
        BY <3>2, <4>1 DEF GameCore, AllSaved
      <4> QED
        BY <1>1, <4>1, <4>2
    <3> QED
      BY <2>1, <3>2, <3>3 DEF Joins
  <2>5. ASSUME NEW q \in Stored, Plays(In(q), u) PROVE q = r
    <3>1. Only(u, q)
      BY <2>5 DEF GameCore, PlaysInv
    <3> QED
      BY <2>3, <3>1 DEF Only, Bound
  <2> QED
    BY <1>1, <2>3, <2>4, <2>5 DEF Only, Anchored
<1> QED
  BY <1>3, <1>4

-----------------------------------------------------------------------------
(***************************************************************************)
(* A step of one worker: it goes on to job k, and no room gets players or  *)
(* people ready that were not there.                                       *)
(***************************************************************************)
Fades(r) ==
  /\ Neat(In(r)')
  /\ \A u \in Users :
       /\ Poised(In(r)', u) => r \in Stored /\ Poised(In(r), u) /\ (Lit(In(r)', u) => Lit(In(r), u))
       /\ Plays(In(r)', u) => r \in Stored /\ Plays(In(r), u)
\* No room changes but those nobody else is about to save.
Calms(w) ==
  /\ \A r \in Stored' : Fades(r)
  /\ \A v \in Workers, r \in Rooms : (v # w /\ job[v].new[r] # None) => In(r)' = In(r)
\* What worker w has cloned, and the users it has read.
Works(w, k) ==
  /\ \A r \in Rooms : k.new[r] # None => Wrought(w, k, r, In(r)', k.new[r])
  /\ Busy(k) => \A r \in Held(k) : k.new[r] # None
  /\ k.kind = "sync" => \/ job[w].kind = "sync" /\ k.room = job[w].room /\ k.ids = job[w].ids
                        \/ k.ids \subseteq PresentIn(k.room) \cup AttachedTo(k.room)
\* Where connection w is bound to: away only from rooms it is not ready in, and
\* to a new one only when it plays nowhere else.
Binds(w) ==
  /\ Attached(w)'
  /\ \A r \in Stored : Anchor(w, r) => Anchor(w, r)' \/ ~Poised(In(r), User[w])
  /\ \A q \in Rooms : Bound(w, q)' => Bound(w, q) \/ \A r \in Stored : Plays(In(r), User[w]) => r = q
Others(w) ==
  /\ \A d \in Conns : d # w => at'[d] = at[d]
  /\ \A d \in Conns : pres'[d] \in {pres[d], NoRoom, at'[d]}
Nudges(w, k) ==
  /\ w \in Workers /\ job' = [job EXCEPT ![w] = k]
  /\ Calms(w) /\ Works(w, k) /\ (w \in Conns => Binds(w)) /\ Others(w)

LEMMA NudgesKeep == ASSUME LifeInv, GameCore, NEW w, NEW k, Nudges(w, k) PROVE GameCore'
<1>1. /\ w \in Workers /\ job'[w] = k /\ \A v \in Workers : v # w => job'[v] = job[v]
      /\ Conns \subseteq Workers
  BY Tables, WorkersDiffer DEF Nudges
<1>2. NeatInv'
  BY DEF Nudges, Calms, Fades, NeatInv
<1>3. AllSaved'
  BY <1>1 DEF Nudges, Works, GameCore, AllSaved
<1>4. ClonesWrought'
  <2> SUFFICES ASSUME NEW v \in Workers, NEW r \in Rooms, job'[v].new[r] # None
               PROVE  Wrought(v, job'[v], r, In(r)', job'[v].new[r])
    BY DEF ClonesWrought
  <2>1. CASE v = w
    BY <1>1, <2>1 DEF Nudges, Works
  <2>2. CASE v # w
    <3>1. job'[v] = job[v] /\ In(r)' = In(r)
      BY <1>1, <2>2 DEF Nudges, Calms
    <3> QED
      BY <3>1 DEF GameCore, ClonesWrought
  <2> QED
    BY <2>1, <2>2
<1>5. ASSUME NEW c \in Conns, c # w
      PROVE  /\ Attached(c)' /\ \A r : Winding(c, r)' = Winding(c, r) /\ Joining(c, r)' = Joining(c, r)
             /\ \A r : Waiting(c, r)' = Waiting(c, r) /\ Anchor(c, r)' = Anchor(c, r) /\ Bound(c, r)' = Bound(c, r)
  <2>1. job'[c] = job[c] /\ at'[c] = at[c] /\ pres'[c] \in {pres[c], NoRoom, at[c]}
    BY <1>1, <1>5 DEF Nudges, Others
  <2>2. Attached(c)'
    BY <2>1 DEF GameCore, AttachInv, Attached
  <2>3. \A r : Winding(c, r)' = Winding(c, r) /\ Joining(c, r)' = Joining(c, r) /\ Waiting(c, r)' = Waiting(c, r)
    BY <2>1 DEF Winding, Joining, Waiting
  <2> QED
    BY <2>1, <2>2, <2>3 DEF Anchor, Bound
<1>6. AttachInv'
  BY <1>5 DEF AttachInv, Nudges, Binds
<1>7. ASSUME NEW r \in Stored, NEW u \in Users, Anchored(u, r), Poised(In(r), u) PROVE Anchored(u, r)'
  <2>1. PICK c \in Conns : User[c] = u /\ Anchor(c, r)
    BY <1>7 DEF Anchored
  <2>2. Anchor(c, r)'
    BY <1>5, <1>7, <2>1 DEF Nudges, Binds
  <2> QED
    BY <2>1, <2>2 DEF Anchored
<1>8. PoisedInv'
  <2> SUFFICES ASSUME NEW r \in Stored', NEW u \in Users, Poised(In(r)', u), ~Anchored(u, r)'
               PROVE  Dormant(u, r)'
    BY DEF PoisedInv
  <2>1. r \in Stored /\ Poised(In(r), u) /\ (Lit(In(r)', u) => Lit(In(r), u))
    BY DEF Nudges, Calms, Fades
  <2>2. r \in Rooms /\ r # NoRoom
    BY <2>1, RoomsAssumption DEF Stored
  <2>3. ~Anchored(u, r) /\ Dormant(u, r)
    BY <1>7, <2>1 DEF GameCore, PoisedInv
  <2>4. ~Lit(In(r)', u)
    BY <2>1, <2>3 DEF Dormant
  <2>5. u \notin PresentIn(r)'
    <3> SUFFICES ASSUME NEW c \in Conns, pres'[c] = r, User[c] = u PROVE FALSE
      BY DEF PresentIn
    <3>1. pres[c] # r
      BY <2>3 DEF Dormant, PresentIn
    <3>2. at'[c] = r
      BY <2>2, <3>1 DEF Nudges, Others
    <3> QED
      BY <3>2 DEF Anchored, Anchor
  <2>6. ASSUME NEW v \in Workers, job'[v].kind = "sync", job'[v].room = r PROVE u \notin job'[v].ids
    <3>1. u \notin PresentIn(r) \cup AttachedTo(r)
      BY <2>3 DEF Dormant, AttachedTo, Anchored, Anchor
    <3> QED
      BY <1>1, <2>3, <2>6, <3>1 DEF Nudges, Works, Dormant
  <2> QED
    BY <2>4, <2>5, <2>6 DEF Dormant
<1>9. PlaysInv'
  <2> SUFFICES ASSUME NEW r \in Stored', NEW u \in Users, Plays(In(r)', u) PROVE Only(u, r)'
    BY DEF PlaysInv
  <2>1. r \in Stored /\ Plays(In(r), u)
    BY DEF Nudges, Calms, Fades
  <2>2. Only(u, r)
    BY <2>1 DEF GameCore, PlaysInv
  <2>3. ASSUME NEW c \in Conns, NEW q \in Rooms, User[c] = u, Bound(c, q)' PROVE q = r
    BY <1>5, <2>1, <2>2, <2>3 DEF Nudges, Binds, Only
  <2>4. ASSUME NEW q \in Stored', Plays(In(q)', u) PROVE q = r
    BY <2>2, <2>4 DEF Nudges, Calms, Fades, Only
  <2> QED
    BY <2>3, <2>4 DEF Only
<1> QED
  BY <1>2, <1>3, <1>4, <1>6, <1>8, <1>9 DEF GameCore

-----------------------------------------------------------------------------
(* The steps beside the data.                                              *)

\* What every step of these starts from.
GameNow == OneConnection /\ LifeInv /\ LockInv /\ MemCore /\ GameCore
LEMMA StillCalm == ASSUME GameNow, NEW w, UNCHANGED <<store, objs, rooms>> PROVE Calms(w)
<1>1. Stored' = Stored /\ \A r : In(r)' = In(r)
  BY DEF Stored, In
<1> QED
  BY <1>1 DEF Calms, Fades, GameNow, GameCore, NeatInv

LEMMA StepsStill ==
  ASSUME LifeInv, MemCore, BoundsInv, Alive', NEW w, Steps(w) PROVE UNCHANGED <<store, objs, rooms>>
BY DEF Steps, Aside

LEMMA PlainWorks == ASSUME NEW w, NEW k, Plain(k), k.kind = "none" PROVE Works(w, k)
BY DEF Works, Plain, AtWork, Busy

\* A connection that becomes idle where it was.
LEMMA IdleBinds ==
  ASSUME GameNow, NEW c \in Conns, job'[c] = Idle, at'[c] = at[c],
         \A r \in Rooms : ~Winding(c, r) /\ ~Joining(c, r)
  PROVE  Binds(c)
<1>1. Idle.phase = "idle" /\ Idle.kind = "none"
  BY IdleJob
<1>2. Attached(c)'
  BY <1>1 DEF Attached, AllKinds, Joins, HostKinds
<1>3. \A r : Stored \subseteq Rooms /\ ~Winding(c, r)' /\ ~Joining(c, r)' /\ ~Waiting(c, r)'
  BY <1>1 DEF Stored, Winding, Joining, Waiting, AtWork, Busy
<1> QED
  BY <1>2, <1>3 DEF Binds, Anchor, Bound

\* An idle job, but for its phase and todo.
LEMMA TodoJob ==
  ASSUME NEW phase, NEW todo
  PROVE  LET k == [Idle EXCEPT !.phase = phase, !.todo = todo] IN
         /\ k.phase = phase /\ k.todo = todo /\ k.kind = "none" /\ k.room = NoRoom /\ k.from = NoRoom
         /\ [Idle EXCEPT !.phase = phase].phase = phase /\ [Idle EXCEPT !.phase = phase].todo = <<>>
         /\ [Idle EXCEPT !.phase = phase].kind = "none"
BY DEF Idle

\* Where the end of a task leaves a connection, which is bound nowhere else then.
LEMMA ConcludeAt ==
  ASSUME GameNow, NEW c \in Conns, AtWork(job[c]), Conclude(c), pres' = pres
  PROVE  /\ job'[c] = Then(c) /\ Then(c).kind = "none"
         /\ at'[c] = IF job[c].kind \in Joins THEN job[c].room ELSE IF job[c].kind = "leave" THEN NoRoom ELSE at[c]
         /\ \A d \in Conns : d # c => at'[d] = at[d]
         /\ Attached(c)'
         /\ \A q \in Rooms : Bound(c, q)' => at'[c] = q
<1> DEFINE j == job[c]
           k == Then(c)
           todo == (IF j.from = NoRoom THEN <<>> ELSE <<j.from>>) \o <<j.room>>
<1>0. /\ c \in Workers /\ c # Creator /\ j \in Job /\ Placed(c, j) /\ j.kind # "none"
      /\ at \in [Conns -> Rooms \cup {NoRoom}] /\ Attached(c)
  BY WorkersDiffer, Tables DEF GameNow, GameCore, AttachInv, AtWork, Placed
<1>1. job'[c] = k
  BY <1>0, Tables DEF Conclude, GameNow
<1>2. Evicted(c) = {}
  BY <1>0, NothingCloses DEF Evicted, GameNow
<1>3. /\ at'[c] = IF j.kind \in Joins THEN j.room ELSE IF j.kind = "leave" THEN NoRoom ELSE at[c]
      /\ \A d \in Conns : d # c => at'[d] = at[d]
  <2>1. CASE j.kind \in Joins
    <3>1. at' = [at EXCEPT ![c] = j.room]
      BY <2>1 DEF Conclude, Joins
    <3> QED
      BY <1>0, <2>1, <3>1
  <2>2. CASE j.kind = "leave"
    <3>1. at' = [at EXCEPT ![c] = IF @ = j.room THEN NoRoom ELSE @] /\ at[c] = j.room
      BY <1>0, <2>2 DEF Conclude, Attached, Joins, AllKinds
    <3> QED
      BY <1>0, <2>2, <3>1 DEF Joins
  <2>3. CASE j.kind \notin Joins /\ j.kind # "leave"
    <3>1. at' = [d \in Conns |-> IF d \in Evicted(c) THEN NoRoom ELSE at[d]]
      BY <2>3 DEF Conclude
    <3> QED
      BY <1>2, <2>3, <3>1
  <2> QED
    BY <2>1, <2>2, <2>3
<1>4. /\ k.kind = "none"
      /\ j.kind \in Joins => k.phase = "present" /\ k.todo = todo
      /\ j.kind = "leave" => k.phase = "parting" /\ k.todo = <<>>
      /\ j.kind = "sync" => k.phase = IF j.todo = <<>> THEN "idle" ELSE "syncing"
      /\ j.kind \notin Joins \cup {"leave", "sync"} => k.phase = "idle"
  <2>1. CASE j.kind \in Joins
    <3>1. k = [Idle EXCEPT !.phase = "present", !.todo = todo]
      BY <2>1 DEF Then, Joins
    <3> HIDE DEF k, todo
    <3> QED
      BY <2>1, <3>1, TodoJob DEF Joins
  <2>2. CASE j.kind = "leave"
    <3>1. k = [Idle EXCEPT !.phase = "parting"]
      BY <2>2 DEF Then, Joins
    <3> HIDE DEF k
    <3> QED
      BY <2>2, <3>1, TodoJob DEF Joins
  <2>3. CASE j.kind = "sync"
    <3>1. k = IF j.todo = <<>> THEN Idle ELSE [Idle EXCEPT !.phase = "syncing", !.todo = j.todo]
      BY <2>3 DEF Then, Joins
    <3> HIDE DEF k
    <3> QED
      BY <2>3, <3>1, TodoJob, IdleJob DEF Joins
  <2>4. CASE j.kind \notin Joins \cup {"leave", "sync"}
    <3>1. k = Idle
      BY <1>0, <2>4 DEF Then
    <3> HIDE DEF k
    <3> QED
      BY <2>4, <3>1, IdleJob
  <2> QED
    BY <2>1, <2>2, <2>3, <2>4
<1>5. j.kind \in Joins => k.todo[Len(k.todo)] = j.room
  <2> SUFFICES ASSUME j.kind \in Joins PROVE todo[Len(todo)] = j.room
    BY <1>4
  <2>1. j.room \in Rooms /\ j.from \in Rooms \cup {NoRoom}
    BY <1>0 DEF Placed, Job
  <2> QED
    BY <2>1
<1> HIDE DEF k, todo
<1>6. j.kind \in Joins => at'[c] \in Rooms /\ at'[c] # NoRoom
  BY <1>0, <1>3, RoomsAssumption DEF Placed
<1>7. Attached(c)'
  BY <1>0, <1>1, <1>3, <1>4, <1>5, <1>6 DEF Attached, AllKinds, Joins, HostKinds
<1>8. \A q \in Rooms : ~Winding(c, q)' /\ ~Joining(c, q)' /\ ~Waiting(c, q)'
  <2>1. k.kind \notin Joins /\ ~(AtWork(k) /\ k.kind = "sync")
    BY <1>4 DEF Joins
  <2>2. ASSUME at'[c] = NoRoom, k.phase \in {"parting", "syncing"} PROVE k.todo = <<>>
    BY <1>0, <1>3, <1>4, <1>6, <2>2 DEF Attached, Joins
  <2>3. \A q : <<>> # <<q>>
    OBVIOUS
  <2> QED
    BY <1>1, <2>1, <2>2, <2>3 DEF Winding, Joining, Waiting
<1> QED
  BY <1>1, <1>3, <1>4, <1>7, <1>8 DEF k, Bound, Anchor

\* A task whose turn it is starts to save what it has wrought.
LEMMA StartSaveNudges ==
  ASSUME GameNow, NEW w \in Workers, job[w].phase = "queued", NEW clones \in [Rooms -> Room \cup {None}],
         StartSave(w, clones), UNCHANGED <<store, objs, pres>>,
         \A r \in Rooms : clones[r] # None => Wrought(w, job[w], r, In(r), clones[r]),
         \A r \in Held(job[w]) : clones[r] # None,
         (job[w].kind \in Joins /\ job[w].from # NoRoom) => \A r \in Stored : ~Plays(In(r), User[w])
  PROVE  \E k : Nudges(w, k)
<1> DEFINE j == job[w]
           tgt == [r \in Rooms |-> IF clones[r] = None THEN NoObj ELSE Obj(w, r)]
           k == [j EXCEPT !.phase = "saving", !.new = clones, !.target = tgt]
<1>1. job' = [job EXCEPT ![w] = k] /\ UNCHANGED <<store, objs, rooms, line, at, pres>> /\ j \in Job
  BY Tables DEF StartSave, GameNow
<1> HIDE DEF tgt
<1>2. /\ k.phase = "saving" /\ k.new = clones /\ k.kind = j.kind /\ k.room = j.room /\ k.from = j.from
      /\ k.ids = j.ids /\ k.todo = j.todo
  BY <1>1 DEF Job
<1>3. \A r : In(r)' = In(r)
  BY <1>1 DEF In
<1>4. job'[w] = k
  BY <1>1, Tables DEF GameNow
<1> HIDE DEF k
<1>5. Works(w, k)
  <2>1. Held(k) = Held(j)
    BY <1>2 DEF Held
  <2> QED
    BY <1>2, <1>3, <2>1, WroughtSame DEF Works
<1>6. ASSUME w \in Conns PROVE Binds(w)
  <2>1. Attached(w) /\ Attached(w)'
    BY <1>1, <1>2, <1>4, <1>6 DEF GameNow, GameCore, AttachInv, Attached
  <2>2. \A r : (Winding(w, r)' <=> Winding(w, r)) /\ ~Joining(w, r) /\ ~Waiting(w, r)'
    BY <1>1, <1>2, <1>4 DEF Winding, Joining, Waiting, AtWork, Busy
  <2>3. \A r \in Rooms : Joining(w, r)' => Waiting(w, r) \/ \A q \in Stored : ~Plays(In(q), User[w])
    BY <1>2, <1>4 DEF Joining, Waiting
  <2> QED
    BY <1>1, <2>1, <2>2, <2>3 DEF Binds, Bound, Anchor
<1>7. Others(w)
  BY <1>1 DEF Others
<1> QED
  BY <1>1, <1>5, <1>6, <1>7, StillCalm DEF Nudges

\* A task ends, or gives up.
LEMMA GiveUpNudges ==
  ASSUME GameNow, NEW w \in Workers, job[w].phase = "queued", GiveUp(w), UNCHANGED <<store, objs, pres>>,
         job[w].kind # "sync"
  PROVE  \E k : Nudges(w, k)
<1>1. job' = [job EXCEPT ![w] = Idle] /\ UNCHANGED <<rooms, at>>
  BY DEF GiveUp
<1>2. Works(w, Idle)
  BY IdlePlain, IdleJob, PlainWorks
<1>3. ASSUME w \in Conns PROVE Binds(w)
  <2>1. \A r \in Rooms : ~Winding(w, r) /\ ~Joining(w, r)
    BY DEF Winding, Joining, Busy
  <2>2. job'[w] = Idle
    BY <1>1, Tables DEF GameNow
  <2> QED
    BY <1>1, <1>3, <2>1, <2>2, IdleBinds
<1> QED
  BY <1>1, <1>2, <1>3, StillCalm DEF Nudges, Others

LEMMA ConcludeNudges ==
  ASSUME GameNow, NEW w \in Workers, job[w].phase = "queued", Conclude(w), UNCHANGED <<store, objs, pres, rooms>>,
         job[w].kind \in {"leave", "sync", "cleanup"},
         w \in Conns => (/\ job[w].kind = "leave" => ~Poised(In(job[w].room), User[w])
                         /\ (job[w].kind = "sync" /\ at[w] = NoRoom) => ~Poised(In(job[w].room), User[w]))
  PROVE  \E k : Nudges(w, k)
<1> DEFINE j == job[w]
<1>0. /\ Placed(w, j) /\ j \in Job /\ j.kind \notin Joins /\ (j.kind = "leave" => w \in Conns)
      /\ (w \in Conns => Attached(w))
  BY Tables DEF GameNow, GameCore, AttachInv, Placed, AllKinds, Joins, HostKinds
<1>1. job' = [job EXCEPT ![w] = Then(w)]
  BY DEF Conclude
<1>2. CASE w \in Conns
  <2>1. /\ Then(w).kind = "none" /\ at'[w] = IF j.kind = "leave" THEN NoRoom ELSE at[w]
        /\ \A d \in Conns : d # w => at'[d] = at[d]
        /\ Attached(w)' /\ \A q \in Rooms : Bound(w, q)' => at'[w] = q
    BY <1>0, <1>2, ConcludeAt DEF AtWork
  <2>2. Binds(w)
    <3>1. ASSUME NEW r \in Stored, Anchor(w, r), ~Anchor(w, r)' PROVE ~Poised(In(r), User[w])
      <4>1. at'[w] # r
        BY <3>1 DEF Anchor
      <4>2. ~Joining(w, r)
        BY DEF Joining, Busy
      <4>3. CASE at[w] = r
        <5>1. j.kind = "leave" /\ j.room = r
          BY <1>0, <1>2, <2>1, <4>1, <4>3 DEF Attached, AllKinds, Joins
        <5> QED
          BY <1>2, <5>1
      <4>4. CASE Winding(w, r)
        BY <1>2, <4>4 DEF Winding
      <4> QED
        BY <3>1, <4>2, <4>3, <4>4 DEF Anchor
    <3>2. ASSUME NEW q \in Rooms, Bound(w, q)' PROVE Bound(w, q)
      BY <2>1, <3>2, RoomsAssumption DEF Bound, Anchor
    <3> QED
      BY <2>1, <3>1, <3>2 DEF Binds
  <2>3. Others(w)
    BY <2>1 DEF Others
  <2>4. Works(w, Then(w))
    BY <2>1, ThenPlain, PlainWorks
  <2> QED
    BY <1>1, <2>2, <2>3, <2>4, StillCalm DEF Nudges
<1>3. CASE w \notin Conns
  <2>1. Then(w).kind = "none"
    BY <1>0, <1>3, IdleJob, TodoJob DEF Then
  <2>2. at' = at
    <3>1. at' = [d \in Conns |-> IF d \in Evicted(w) THEN NoRoom ELSE at[d]]
      BY <1>0, <1>3 DEF Conclude
    <3>2. Evicted(w) = {}
      BY NothingCloses DEF Evicted, GameNow
    <3> QED
      BY <3>1, <3>2, Tables DEF GameNow
  <2>3. Works(w, Then(w))
    BY <2>1, ThenPlain, PlainWorks
  <2> QED
    BY <1>1, <1>3, <2>2, <2>3, StillCalm DEF Nudges, Others
<1> QED
  BY <1>2, <1>3

-----------------------------------------------------------------------------
(* The tasks.                                                              *)

LEMMA RoomNow ==
  ASSUME GameNow, NEW w \in Workers, NEW r \in Stored
  PROVE  /\ r \in Rooms /\ r # NoRoom /\ rooms[r] # NoObj /\ Obj(w, r) = rooms[r] /\ objs[Obj(w, r)] = In(r)
         /\ InOrder(In(r)) /\ In(r) \in Room /\ Neat(In(r))
BY StoredRoom, RoomsAssumption DEF GameNow, GameCore, NeatInv, Obj, In

LEMMA CloneOf ==
  ASSUME NEW r \in Rooms, NEW m \in Room
  PROVE  /\ Clone(r, m) \in [Rooms -> Room \cup {None}] /\ Clone(r, m)[r] = m
         /\ \A q \in Rooms : Clone(r, m)[q] # None => q = r
BY NoneAssumption DEF Clone

LEMMA RoomsStay == ASSUME GameNow, NEW w \in Workers, Conclude(w) PROVE rooms' = rooms
BY NothingCloses DEF GameNow, Conclude

LEMMA ServeNudges == ASSUME GameNow, NEW c \in Conns, Serve(c) PROVE \E k : Nudges(c, k)
<1> DEFINE j == job[c]
           r == j.room
           u == User[c]
           m == objs[Obj(c, r)]
           made == Outcome(j.kind, j.arg, u, m)
<1>1. /\ c \in Workers /\ j.phase = "queued" /\ j.kind \in AllKinds /\ j \in Job /\ u \in Users
      /\ j.from = NoRoom /\ UNCHANGED <<store, objs, pres>> /\ j.kind \notin {"cleanup", "sync"}
  BY WorkersDiffer, UserAssumption, Tables DEF GameNow, Serve, Running, AllKinds, Joins, HostKinds
<1>2. r \in Stored /\ r \in Rooms /\ r # NoRoom
  BY <1>1, TargetThere, RoomsAssumption DEF GameNow
<1>3. m = In(r) /\ InOrder(m) /\ Neat(m)
  BY <1>1, <1>2, RoomNow
<1>4. ASSUME NEW n \in made PROVE Wrought(c, j, r, m, n) /\ n \in Room
  BY <1>1, <1>3, OutcomeWrought, OutcomeInOrder DEF InOrder, Job
<1>5. CASE made = {}
  <2>1. GiveUp(c)
    BY <1>5 DEF Serve
  <2> QED
    BY <1>1, <2>1, GiveUpNudges
<1>6. CASE j.kind = "leave" /\ made = {m}
  <2>1. Conclude(c)
    BY <1>6 DEF Serve
  <2>2. Wrought(c, j, r, m, m)
    BY <1>4, <1>6
  <2>3. Goes(m, m, u)
    BY <1>1, <1>6, <2>2 DEF Wrought, Own, Joins, HostKinds
  <2>4. ~Poised(m, u)
    BY <2>3 DEF Goes, Poised
  <2> HIDE DEF m
  <2> QED
    BY <1>1, <1>3, <1>6, <2>1, <2>4, RoomsStay, ConcludeNudges
<1>7. CASE made # {} /\ ~(j.kind = "leave" /\ made = {m})
  <2> DEFINE n == CHOOSE x \in made : TRUE
  <2>1. StartSave(c, Clone(r, n))
    BY <1>7 DEF Serve
  <2>2. n \in made
    BY <1>7
  <2> HIDE DEF n
  <2>3. Wrought(c, j, r, In(r), n) /\ n \in Room /\ n # None
    BY <1>3, <1>4, <2>2, NoneAssumption
  <2>4. Held(j) = {r}
    BY <1>1, <1>2 DEF Held
  <2> HIDE DEF m, made
  <2>5. /\ Clone(r, n) \in [Rooms -> Room \cup {None}] /\ Clone(r, n)[r] = n
        /\ \A q \in Rooms : Clone(r, n)[q] # None => q = r
    BY <1>2, <2>3, CloneOf
  <2> DEFINE clones == Clone(r, n)
  <2> HIDE DEF clones
  <2>6. /\ clones \in [Rooms -> Room \cup {None}] /\ StartSave(c, clones)
        /\ \A q \in Rooms : clones[q] # None => Wrought(c, j, q, In(q), clones[q])
        /\ \A q \in Held(j) : clones[q] # None
    BY <2>1, <2>3, <2>4, <2>5 DEF clones
  <2> QED
    BY <1>1, <2>6, StartSaveNudges
<1> QED
  BY <1>5, <1>6, <1>7

LEMMA SwitchNudges == ASSUME GameNow, NEW c \in Conns, Switch(c) PROVE \E k : Nudges(c, k)
<1> DEFINE j == job[c]
           r == j.room
           f == j.from
           u == User[c]
           prev == objs[Obj(c, f)]
           dest == objs[Obj(c, r)]
           made == IF Barred(prev, u) THEN {} ELSE Outcome(j.kind, j.arg, u, dest)
<1>1. /\ c \in Workers /\ j.phase = "queued" /\ j.kind \in Joins /\ j \in Job /\ u \in Users
      /\ f # NoRoom /\ at[c] = f /\ UNCHANGED <<store, objs, pres>> /\ j.kind \notin {"cleanup", "sync"}
      /\ j.kind \in AllKinds
  <2>1. c \in Workers /\ j.phase = "queued" /\ f # NoRoom /\ UNCHANGED <<store, objs, pres>> /\ u \in Users
    BY WorkersDiffer, UserAssumption DEF Switch, Running
  <2>2. j \in Job /\ Placed(c, j) /\ Attached(c)
    BY <2>1, Tables DEF GameNow, GameCore, AttachInv
  <2>3. j.kind \in Joins
    BY <2>1, <2>2 DEF Placed, Attached
  <2> QED
    BY <2>1, <2>2, <2>3 DEF Attached, Joins, AllKinds
<1>2. r \in Stored /\ r \in Rooms /\ r # NoRoom /\ f \in Stored /\ f \in Rooms
  BY <1>1, TargetThere, RoomsAssumption DEF GameNow, Held
<1>3. dest = In(r) /\ InOrder(dest) /\ Neat(dest) /\ prev = In(f) /\ InOrder(prev) /\ Neat(prev)
  BY <1>1, <1>2, RoomNow
<1>5. CASE made = {}
  <2>1. GiveUp(c)
    BY <1>5 DEF Switch
  <2> QED
    BY <1>1, <2>1, GiveUpNudges
<1>6. CASE made # {}
  <2> DEFINE n == CHOOSE x \in made : TRUE
             d == Depart(prev, u)
             clones == [Clone(r, n) EXCEPT ![f] = d]
  <2>1. StartSave(c, clones)
    BY <1>6 DEF Switch
  <2>2. n \in Outcome(j.kind, j.arg, u, dest) /\ ~Barred(prev, u)
    BY <1>6
  <2> HIDE DEF n
  <2>3. Wrought(c, j, r, In(r), n) /\ n \in Room /\ n # None
    BY <1>1, <1>3, <2>2, OutcomeWrought, OutcomeInOrder, NoneAssumption DEF InOrder, Job
  <2>4. Wrought(c, j, f, In(f), d) /\ d \in Room /\ d # None
    <3>1. /\ Neat(d) /\ d.status = prev.status /\ Goes(prev, d, u) /\ \A v \in Users : v # u => Keeps(prev, d, v)
          /\ d \in Room
      BY <1>1, <1>3, DepartGoes, DepartInOrder DEF InOrder
    <3>2. Comes(prev, d, u)
      BY <3>1 DEF Comes, Goes
    <3> HIDE DEF d, prev
    <3> QED
      BY <1>1, <1>3, <3>1, <3>2, NoneAssumption DEF Wrought, Own, Joins, HostKinds
  <2>5. Held(j) = {r, f}
    BY <1>1, <1>2 DEF Held
  <2>6. ASSUME NEW q \in Stored PROVE ~Plays(In(q), u)
    <3> SUFFICES ASSUME Plays(In(q), u) PROVE FALSE
      OBVIOUS
    <3>1. Only(u, q)
      BY <1>1 DEF GameNow, GameCore, PlaysInv
    <3>2. f = q
      BY <1>1, <1>2, <3>1 DEF Only, Bound, Anchor
    <3> QED
      BY <1>3, <2>2, <3>2 DEF Plays, Barred
  <2> HIDE DEF d, prev, dest, made
  <2>7. /\ Clone(r, n) \in [Rooms -> Room \cup {None}] /\ Clone(r, n)[r] = n
        /\ \A q \in Rooms : Clone(r, n)[q] # None => q = r
    BY <1>2, <2>3, CloneOf
  <2>8. /\ clones \in [Rooms -> Room \cup {None}] /\ clones[f] = d
        /\ \A q \in Rooms : q # f => clones[q] = Clone(r, n)[q]
    BY <1>2, <2>4, <2>7
  <2> HIDE DEF clones
  <2>9. /\ \A q \in Rooms : clones[q] # None => Wrought(c, j, q, In(q), clones[q])
        /\ \A q \in Held(j) : clones[q] # None
    <3>1. ASSUME NEW q \in Rooms, clones[q] # None PROVE Wrought(c, j, q, In(q), clones[q])
      <4>1. CASE q = f
        BY <2>4, <2>8, <4>1
      <4>2. CASE q # f
        <5>1. q = r /\ clones[q] = n
          BY <2>7, <2>8, <3>1, <4>2
        <5> QED
          BY <2>3, <5>1
      <4> QED
        BY <4>1, <4>2
    <3>2. ASSUME NEW q \in Held(j) PROVE clones[q] # None
      <4>1. CASE q = f
        BY <2>4, <2>8, <4>1
      <4>2. CASE q # f
        <5>1. q = r /\ clones[q] = n
          BY <1>2, <2>5, <2>7, <2>8, <3>2, <4>2
        <5> QED
          BY <2>3, <5>1
      <4> QED
        BY <4>1, <4>2
    <3> QED
      BY <3>1, <3>2
  <2> QED
    BY <1>1, <2>1, <2>6, <2>8, <2>9, StartSaveNudges
<1> QED
  BY <1>5, <1>6

LEMMA ServeSyncNudges == ASSUME GameNow, NEW w \in Workers, ServeSync(w) PROVE \E k : Nudges(w, k)
<1> DEFINE j == job[w]
           r == j.room
           m == objs[Obj(w, r)]
           n == Sync(m, j.ids)
<1>1. /\ j.phase = "queued" /\ j.kind = "sync" /\ j \in Job /\ UNCHANGED <<store, objs, pres>>
      /\ j.kind \notin Joins \cup AllKinds /\ j.from = NoRoom
  BY Tables DEF GameNow, ServeSync, Running, Joins, AllKinds, HostKinds, Placed
<1>2. r \in Stored /\ r \in Rooms /\ r # NoRoom
  BY <1>1, TargetThere, RoomsAssumption DEF GameNow
<1>3. m = In(r) /\ InOrder(m) /\ Neat(m)
  BY <1>1, <1>2, RoomNow
<1>4. Neat(n) /\ n.status = m.status /\ n \in Room /\ \A v \in Users : Follows(m, n, v, j.ids)
  BY <1>3, SyncFollows, SyncSame DEF InOrder, SamePeople
<1>5. CASE n = m
  <2>1. Conclude(w)
    BY <1>5 DEF ServeSync
  <2>2. ASSUME w \in Conns, at[w] = NoRoom PROVE ~Poised(m, User[w])
    <3>1. User[w] \notin j.ids /\ User[w] \in Users
      BY <1>1, <2>2, UserAssumption DEF GameNow, GameCore, AttachInv, Attached
    <3>2. Follows(m, m, User[w], j.ids)
      BY <1>4, <1>5, <3>1
    <3> QED
      BY <3>1, <3>2 DEF Follows, Poised
  <2> HIDE DEF m
  <2> QED
    BY <1>1, <1>3, <2>1, <2>2, RoomsStay, ConcludeNudges
<1>6. CASE n # m
  <2>1. StartSave(w, Clone(r, n))
    BY <1>6 DEF ServeSync
  <2> HIDE DEF n, m
  <2>2. Wrought(w, j, r, In(r), n) /\ n # None
    BY <1>1, <1>3, <1>4, NoneAssumption DEF Wrought
  <2>3. Held(j) = {r}
    BY <1>1, <1>2 DEF Held
  <2> DEFINE clones == Clone(r, n)
  <2>4. clones \in [Rooms -> Room \cup {None}] /\ clones[r] = n /\ \A q \in Rooms : clones[q] # None => q = r
    BY <1>2, <1>4, CloneOf
  <2> HIDE DEF clones
  <2>5. /\ StartSave(w, clones)
        /\ \A q \in Rooms : clones[q] # None => Wrought(w, j, q, In(q), clones[q])
        /\ \A q \in Held(j) : clones[q] # None
    BY <2>1, <2>2, <2>3, <2>4 DEF clones
  <2> QED
    BY <1>1, <2>4, <2>5, StartSaveNudges
<1> QED
  BY <1>5, <1>6

LEMMA ServeCleanupNudges == ASSUME GameNow, NEW w \in Workers, ServeCleanup(w, FALSE) PROVE \E k : Nudges(w, k)
<1> DEFINE j == job[w]
           r == j.room
           m == objs[rooms[r]]
           n == Cleanup(m, FALSE)
<1>1. /\ j.phase = "queued" /\ j.kind = "cleanup" /\ j \in Job /\ UNCHANGED <<store, objs, pres>>
      /\ j.kind \notin Joins \cup AllKinds /\ j.from = NoRoom /\ r \in Rooms /\ r # NoRoom /\ w \notin Conns
  BY Tables, WorkersDiffer, RoomsAssumption
  DEF GameNow, ServeCleanup, Running, Joins, AllKinds, HostKinds, Placed
<1>2. \/ Conclude(w)
      \/ rooms[r] # NoObj /\ StartSave(w, Clone(r, n))
  BY DEF ServeCleanup
<1>3. CASE Conclude(w)
  BY <1>1, <1>3, RoomsStay, ConcludeNudges
<1>4. CASE rooms[r] # NoObj /\ StartSave(w, Clone(r, n))
  <2>1. r \in Stored
    BY <1>1, <1>4, Tables DEF GameNow
  <2>2. m = In(r) /\ InOrder(m) /\ Neat(m)
    BY <2>1, RoomNow DEF In
  <2>3. StartsWell(m, n) /\ n.status = m.status /\ n \in Room
    BY <2>2, CleanupKeeps, CleanupSame DEF InOrder, SamePeople
  <2> HIDE DEF n, m
  <2>4. Wrought(w, j, r, In(r), n) /\ n # None
    BY <1>1, <2>2, <2>3, NoneAssumption DEF Wrought, StartsWell
  <2>5. Held(j) = {r}
    BY <1>1 DEF Held
  <2> DEFINE clones == Clone(r, n)
  <2>6. clones \in [Rooms -> Room \cup {None}] /\ clones[r] = n /\ \A q \in Rooms : clones[q] # None => q = r
    BY <1>1, <2>3, CloneOf
  <2> HIDE DEF clones
  <2>7. /\ StartSave(w, clones)
        /\ \A q \in Rooms : clones[q] # None => Wrought(w, j, q, In(q), clones[q])
        /\ \A q \in Held(j) : clones[q] # None
    BY <1>4, <2>4, <2>5, <2>6 DEF clones
  <2> QED
    BY <1>1, <2>6, <2>7, StartSaveNudges
<1> QED
  BY <1>2, <1>3, <1>4

-----------------------------------------------------------------------------
(* The other steps beside the data.                                        *)

\* What holds of a step that breaks no promise about failures.
GameStep == GameNow /\ BoundsInv /\ Alive'
LEMMA GameStill ==
  ASSUME GameStep, NEW w, Steps(w) PROVE UNCHANGED <<store, objs, rooms>>
BY StepsStill DEF GameStep, GameNow

\* Nobody's job goes on.
LEMMA StillNudges ==
  ASSUME GameNow, NEW w \in Workers, UNCHANGED <<job, at>>, \A d \in Conns : pres'[d] \in {pres[d], NoRoom, at[d]},
         \A r \in Stored' : Fades(r),
         \A v \in Workers, r \in Rooms : job[v].new[r] # None => In(r)' = In(r)
  PROVE  \E k : Nudges(w, k)
<1> DEFINE k == job[w]
<1>1. job' = [job EXCEPT ![w] = k] /\ job'[w] = k
  BY Tables DEF GameNow
<1>2. Calms(w)
  BY DEF Calms
<1>3. Works(w, k)
  BY DEF Works, GameNow, GameCore, ClonesWrought, AllSaved
<1>4. ASSUME w \in Conns PROVE Binds(w)
  <2>1. Attached(w)'
    BY <1>4 DEF GameNow, GameCore, AttachInv, Attached
  <2>2. \A r : Anchor(w, r)' = Anchor(w, r) /\ Bound(w, r)' = Bound(w, r)
    BY DEF Anchor, Bound, Winding, Joining, Waiting
  <2> QED
    BY <2>1, <2>2 DEF Binds
<1>5. Others(w)
  BY DEF Others
<1> QED
  BY <1>1, <1>2, <1>3, <1>4, <1>5 DEF Nudges

LEMMA StillFades ==
  ASSUME GameNow, UNCHANGED <<store, objs, rooms>>
  PROVE  (\A r \in Stored' : Fades(r)) /\ \A r : In(r)' = In(r)
BY StillCalm DEF Calms, In

LEMMA QueueSecondNudges == ASSUME GameStep, NEW c \in Conns, QueueSecond(c) PROVE \E k : Nudges(c, k)
BY WorkersDiffer, StillFades, StillNudges DEF GameStep, QueueSecond

LEMMA PingNudges == ASSUME GameStep, NEW c \in Conns, Ping(c) PROVE \E k : Nudges(c, k)
<1>1. UNCHANGED <<store, objs, rooms, job, at>> /\ \A d \in Conns : pres'[d] \in {pres[d], at[d]}
  BY Tables DEF GameStep, GameNow, Ping
<1> QED
  BY <1>1, WorkersDiffer, StillFades, StillNudges DEF GameStep

\* A worker without connection whose job holds no clone.
LEMMA AsideNudges ==
  ASSUME GameNow, NEW w \in Workers, w \notin Conns, NEW k, job' = [job EXCEPT ![w] = k],
         UNCHANGED <<store, objs, rooms, at>>,
         \A d \in Conns : pres'[d] \in {pres[d], NoRoom}, k.kind # "sync", ~Busy(k), \A r \in Rooms : k.new[r] = None
  PROVE  \E l : Nudges(w, l)
<1>1. Works(w, k)
  BY DEF Works
<1> QED
  BY <1>1, StillCalm DEF Nudges, Others

LEMMA QueueCleanupNudges ==
  ASSUME GameNow, NEW w \in Workers, w \notin Conns, NEW r, NEW todo, QueueCleanup(w, r, todo),
         UNCHANGED <<store, objs, rooms, at, pres>>
  PROVE  \E l : Nudges(w, l)
<1> DEFINE k == [Idle EXCEPT !.kind = "cleanup", !.phase = "queued", !.room = r, !.todo = todo]
<1>1. job' = [job EXCEPT ![w] = k]
  BY DEF QueueCleanup
<1>2. k.kind = "cleanup" /\ k.phase = "queued" /\ k.new = Idle.new
  BY DEF Idle
<1> HIDE DEF k
<1> QED
  BY <1>1, <1>2, IdleJob, AsideNudges DEF Busy

LEMMA HouseNudges ==
  ASSUME GameStep, (\E r \in Rooms : CleanUp(r)) \/ BeginCreate \/ CleanBefore \/ CreateFails
  PROVE  \E w, l : Nudges(w, l)
<1>1. ASSUME NEW r \in Rooms, CleanUp(r) PROVE \E l : Nudges(Cleaner, l)
  BY <1>1, WorkersDiffer, QueueCleanupNudges DEF CleanUp, GameStep
<1>2. CASE CleanBefore
  BY <1>2, WorkersDiffer, QueueCleanupNudges DEF CleanBefore, GameStep
<1>3. CASE BeginCreate
  <2> DEFINE todo == SetToSeq({r \in Rooms : rooms[r] # NoObj})
             k == [Idle EXCEPT !.phase = "sweeping", !.todo = todo]
  <2>1. job' = [job EXCEPT ![Creator] = k] /\ UNCHANGED <<store, objs, rooms, at, pres>>
    BY <1>3 DEF BeginCreate
  <2> HIDE DEF todo
  <2>2. k.kind = "none" /\ k.phase = "sweeping" /\ k.new = Idle.new
    BY DEF Idle
  <2> HIDE DEF k
  <2>3. ~Busy(k) /\ k.kind # "sync" /\ \A r \in Rooms : k.new[r] = None
    BY <2>2, IdleJob DEF Busy
  <2>4. Creator \in Workers /\ Creator \notin Conns /\ GameNow
    BY WorkersDiffer DEF GameStep
  <2>5. \E l : Nudges(Creator, l)
    BY <2>1, <2>3, <2>4, AsideNudges
  <2> QED
    BY <2>5
<1>4. CASE CreateFails
  <2>1. job' = [job EXCEPT ![Creator] = Idle] /\ UNCHANGED <<store, objs, rooms, at, pres>>
    BY <1>4 DEF CreateFails
  <2> QED
    BY <2>1, IdleJob, WorkersDiffer, AsideNudges DEF Busy, GameStep
<1> QED
  BY <1>1, <1>2, <1>3, <1>4

LEMMA SweepNudges == ASSUME GameStep, NEW c \in Conns, SweepPresence(c), Orphan(c) PROVE \E l : Nudges(Sweeper, l)
<1> DEFINE k == [Idle EXCEPT !.phase = "syncing", !.todo = <<pres[c]>>]
<1>1. /\ job' = [job EXCEPT ![Sweeper] = k] /\ UNCHANGED <<store, objs, rooms>> /\ at' = at
      /\ \A d \in Conns : pres'[d] \in {pres[d], NoRoom}
  BY Tables DEF SweepPresence, Orphan, GameStep, GameNow
<1>2. k.kind = "none" /\ k.phase = "syncing" /\ k.new = Idle.new
  BY DEF Idle
<1> HIDE DEF k
<1> QED
  BY <1>1, <1>2, IdleJob, WorkersDiffer, AsideNudges DEF Busy, GameStep

\* A connection's job that holds no clone.
LEMMA ConnNudges ==
  ASSUME GameNow, NEW c \in Conns, NEW k, job' = [job EXCEPT ![c] = k], UNCHANGED <<store, objs, rooms>>,
         \A d \in Conns : d # c => at'[d] = at[d] /\ pres'[d] = pres[d],
         pres'[c] \in {pres[c], NoRoom, at'[c]},
         k.kind # "sync" \/ (k.kind = job[c].kind /\ k.room = job[c].room /\ k.ids = job[c].ids),
         ~Busy(k), \A r \in Rooms : k.new[r] = None, job'[c] = k => Binds(c)
  PROVE  \E l : Nudges(c, l)
<1>1. c \in Workers /\ job'[c] = k
  BY WorkersDiffer, Tables DEF GameNow
<1>2. Works(c, k)
  BY DEF Works
<1>3. Others(c)
  BY DEF Others
<1> QED
  BY <1>1, <1>2, <1>3, StillCalm DEF Nudges

LEMMA ConnIdles ==
  ASSUME GameNow, NEW c \in Conns, job' = [job EXCEPT ![c] = Idle], UNCHANGED <<store, objs, rooms, at>>,
         \A d \in Conns : d # c => pres'[d] = pres[d], pres'[c] \in {pres[c], NoRoom},
         \A r \in Rooms : ~Winding(c, r) /\ ~Joining(c, r)
  PROVE  \E l : Nudges(c, l)
BY IdleBinds, IdleJob, ConnNudges DEF Busy

LEMMA AskNudges == ASSUME GameStep, NEW c \in Conns, Ask(c) PROVE \E l : Nudges(c, l)
<1>1. PICK kind \in left.kinds, r \in Rooms, arg \in 0 .. MaxSeats : Asking(c, kind, r, arg)
  BY DEF Ask, Asking
<1>2. UNCHANGED <<store, objs, rooms>>
  BY AskSteps, GameStill DEF GameStep, GameNow
<1> DEFINE from == IF kind \in Joins /\ at[c] # r THEN at[c] ELSE NoRoom
<1>3. /\ UNCHANGED <<at, pres>> /\ job[c].phase = "idle" /\ kind \in AllKinds /\ (kind \notin Joins => at[c] = r)
      /\ at[c] \in Rooms \cup {NoRoom}
  <2>1. kind \in AllKinds
    BY Tables DEF GameStep, GameNow, Scenario
  <2> QED
    BY <1>1, <2>1, Tables DEF Asking, GameStep, GameNow
<1>4. PICK read, tgt : job' = [job EXCEPT ![c] = [Idle EXCEPT !.kind = kind, !.room = r, !.from = from, !.arg = arg,
                          !.phase = "loading", !.read = read, !.target = tgt]]
  BY <1>1 DEF Asking
<1> DEFINE k == [Idle EXCEPT !.kind = kind, !.room = r, !.from = from, !.arg = arg,
                          !.phase = "loading", !.read = read, !.target = tgt]
<1>5. from = IF kind \in Joins /\ at[c] # r THEN at[c] ELSE NoRoom
  OBVIOUS
<1> HIDE DEF from
<1>6. /\ k.kind = kind /\ k.room = r /\ k.from = from /\ k.phase = "loading" /\ k.new = Idle.new /\ k.todo = <<>>
  BY DEF Idle
<1> HIDE DEF k
<1>7. kind # "sync" /\ ~Busy(k)
  BY <1>3, <1>6 DEF AllKinds, Joins, HostKinds, Busy
<1>8. ASSUME job'[c] = k PROVE Binds(c)
  <2>1. Attached(c)'
    BY <1>3, <1>5, <1>6, <1>7, <1>8 DEF Attached
  <2>2. \A q \in Rooms : ~Winding(c, q)' /\ ~Joining(c, q)' /\ ~Waiting(c, q)' /\ ~Winding(c, q) /\ ~Joining(c, q)
    BY <1>3, <1>6, <1>7, <1>8 DEF Winding, Joining, Waiting, Busy, AtWork
  <2> QED
    BY <1>3, <2>1, <2>2 DEF Binds, Anchor, Bound, Stored
<1>9. job' = [job EXCEPT ![c] = k]
  BY <1>4 DEF k
<1> QED
  BY <1>2, <1>3, <1>6, <1>7, <1>8, <1>9, IdleJob, ConnNudges DEF GameStep

LEMMA LoadedNudges == ASSUME GameStep, NEW c \in Conns, Loaded(c) PROVE \E l : Nudges(c, l)
<1> DEFINE j == job[c]
           k == [job[c] EXCEPT !.phase = "queued", !.read = {}]
           u == User[c]
<1>1. /\ c \in Workers /\ j \in Job /\ j.phase = "loading" /\ UNCHANGED <<at, pres>> /\ j.kind \in AllKinds
      /\ j.kind # "sync" /\ \A r \in Rooms : j.new[r] = None
  BY WorkersDiffer, Tables DEF Loaded, GameStep, GameNow, Placed, Fits, AllKinds, Joins, HostKinds
<1>2. UNCHANGED <<store, objs, rooms>>
  BY LoadedSteps, GameStill DEF GameStep, GameNow
<1> DEFINE registered == [q \in Rooms |->
        IF q \in j.read /\ ~Closed(objs[j.target[q]]) THEN j.target[q] ELSE rooms[q]]
           elsewhere == \E q \in Rooms \ {j.room} :
             /\ registered[q] # NoObj /\ objs[registered[q]].status = "IN_GAME" /\ SeatsOf(objs[registered[q]], u) # {}
<1>3. registered = rooms
  <2>1. rooms' = registered
    BY DEF Loaded
  <2> HIDE DEF registered
  <2> QED
    BY <1>2, <2>1
<1>4. \/ job' = [job EXCEPT ![c] = Idle]
      \/ job' = [job EXCEPT ![c] = k] /\ ((j.kind \in Joins /\ j.from = NoRoom) => ~elsewhere)
  <2>1. \/ job' = [job EXCEPT ![c] = Idle]
        \/ /\ job' = [job EXCEPT ![c].phase = "queued", ![c].read = {}]
           /\ (j.kind \in Joins /\ j.from = NoRoom) => ~elsewhere
    BY DEF Loaded
  <2> HIDE DEF elsewhere
  <2> QED
    BY <1>1, <2>1, Tables DEF GameStep, GameNow
<1>5. \A r \in Rooms : ~Winding(c, r) /\ ~Joining(c, r)
  BY <1>1 DEF Winding, Joining, Busy, AtWork
<1>6. CASE job' = [job EXCEPT ![c] = Idle]
  BY <1>1, <1>2, <1>5, <1>6, ConnIdles DEF GameStep
<1>7. CASE job' = [job EXCEPT ![c] = k] /\ ((j.kind \in Joins /\ j.from = NoRoom) => ~elsewhere)
  <2>1. /\ k.kind = j.kind /\ k.room = j.room /\ k.from = j.from /\ k.phase = "queued" /\ k.new = j.new /\ k.todo = j.todo
        /\ k.ids = j.ids
    BY <1>1 DEF Job
  <2> HIDE DEF k, registered
  <2>2. ASSUME job'[c] = k PROVE Binds(c)
    <3>1. Attached(c)'
      <4>1. Attached(c)
        BY DEF GameStep, GameNow, GameCore, AttachInv
      <4> QED
        BY <1>1, <2>1, <2>2, <4>1 DEF Attached
    <3>2. \A q \in Rooms : ~Winding(c, q)' /\ ~Joining(c, q)'
      BY <1>1, <2>1, <2>2 DEF Winding, Joining, Busy, AtWork
    <3>3. ASSUME NEW q \in Rooms, Waiting(c, q)', NEW r \in Stored, Plays(In(r), u) PROVE r = q
      <4>1. j.kind \in Joins /\ j.from = NoRoom /\ q = j.room
        BY <2>1, <2>2, <3>3 DEF Waiting
      <4>2. ~elsewhere
        BY <1>7, <4>1
      <4>3. r \in Rooms /\ rooms[r] # NoObj
        BY <3>3, RoomNow, <1>1 DEF GameStep
      <4> QED
        BY <1>3, <3>3, <4>1, <4>2, <4>3 DEF Plays, In
    <3> QED
      BY <1>1, <1>5, <3>1, <3>2, <3>3 DEF Binds, Anchor, Bound, Stored
  <2>3. ~Busy(k)
    BY <2>1 DEF Busy
  <2> QED
    BY <1>1, <1>2, <1>7, <2>1, <2>2, <2>3, ConnNudges DEF GameStep
<1> QED
  BY <1>4, <1>6, <1>7

-----------------------------------------------------------------------------
(* Announcements, lost connections and the syncs they ask for.             *)

LEMMA AnnounceNudges == ASSUME GameStep, NEW c \in Conns, Announce(c) PROVE \E l : Nudges(c, l)
<1> DEFINE j == job[c]
           k == [job[c] EXCEPT !.phase = "syncing"]
           r == j.todo[Len(j.todo)]
<1>1. /\ c \in Workers /\ j \in Job /\ j.phase = "present" /\ UNCHANGED <<store, objs, rooms, at>>
      /\ job' = [job EXCEPT ![c] = k] /\ \A q \in Rooms : j.new[q] = None
  BY WorkersDiffer, Tables DEF Announce, GameStep, GameNow, Fits
<1>2. Attached(c) /\ at[c] = r
  BY <1>1 DEF GameStep, GameNow, GameCore, AttachInv, Attached
<1>3. at[c] # NoRoom
  <2>1. j.todo \in Seq(Rooms) /\ j.todo # <<>>
    BY <1>1, Tables DEF Job, GameStep, GameNow, Placed
  <2>2. Len(j.todo) \in 1 .. Len(j.todo)
    BY <2>1, EmptySeq, LenProperties
  <2>3. r \in Rooms
    BY <2>1, <2>2, ElementOfSeq
  <2> QED
    BY <1>2, <2>3, RoomsAssumption
<1>4. pres'[c] = at'[c] /\ \A d \in Conns : d # c => at'[d] = at[d] /\ pres'[d] = pres[d]
  BY <1>1, <1>2, Tables DEF Announce, GameStep, GameNow
<1>5. k.kind = j.kind /\ k.room = j.room /\ k.from = j.from /\ k.phase = "syncing" /\ k.new = j.new /\ k.ids = j.ids
  BY <1>1 DEF Job
<1> HIDE DEF k, r
<1>6. ASSUME job'[c] = k PROVE Binds(c)
  <2>1. Attached(c)'
    BY <1>1, <1>2, <1>3, <1>5, <1>6 DEF Attached
  <2>2. \A q \in Rooms : ~Winding(c, q)' /\ ~Joining(c, q)' /\ ~Waiting(c, q)' /\ ~Winding(c, q) /\ ~Joining(c, q)
    BY <1>1, <1>3, <1>5, <1>6 DEF Winding, Joining, Waiting, Busy, AtWork
  <2> QED
    BY <1>1, <2>1, <2>2 DEF Binds, Anchor, Bound, Stored
<1>7. ~Busy(k)
  BY <1>5 DEF Busy
<1> QED
  BY <1>1, <1>4, <1>5, <1>6, <1>7, ConnNudges DEF GameStep

LEMMA AnnounceFailsNudges == ASSUME GameStep, NEW c \in Conns, AnnounceFails(c) PROVE \E l : Nudges(c, l)
<1>1. /\ job' = [job EXCEPT ![c] = Idle] /\ UNCHANGED <<store, objs, rooms, at, pres>> /\ job[c].phase = "present"
  BY DEF AnnounceFails
<1>2. \A r \in Rooms : ~Winding(c, r) /\ ~Joining(c, r)
  BY <1>1 DEF Winding, Joining, Busy, AtWork
<1> QED
  BY <1>1, <1>2, ConnIdles DEF GameStep

LEMMA CloseNudges == ASSUME GameStep, NEW c \in Conns, Close(c) PROVE \E l : Nudges(c, l)
<1>0. PICK r \in Rooms : at[c] = r
  BY Tables DEF Close, GameStep, GameNow
<1> DEFINE k == [Idle EXCEPT !.phase = "parting", !.todo = <<r>>]
<1>1. /\ job' = [job EXCEPT ![c] = k] /\ UNCHANGED <<store, objs, rooms, pres>> /\ job[c].phase = "idle"
      /\ r \in Rooms /\ r # NoRoom /\ at'[c] = NoRoom /\ \A d \in Conns : d # c => at'[d] = at[d]
  BY <1>0, Tables DEF Close, GameStep, GameNow
<1>2. k.kind = "none" /\ k.phase = "parting" /\ k.todo = <<r>> /\ k.new = Idle.new
  BY DEF Idle
<1> HIDE DEF k
<1>3. ASSUME job'[c] = k PROVE Binds(c)
  <2>1. Attached(c)'
    BY <1>1, <1>2, <1>3 DEF Attached, AllKinds, Joins, HostKinds
  <2>2. \A q \in Rooms : ~Joining(c, q)' /\ ~Waiting(c, q)' /\ ~Winding(c, q) /\ ~Joining(c, q)
    BY <1>1, <1>2, <1>3 DEF Winding, Joining, Waiting, Busy, AtWork
  <2>3. Winding(c, r)'
    BY <1>1, <1>2, <1>3 DEF Winding
  <2>4. ASSUME NEW q \in Rooms, Winding(c, q)' PROVE q = r
    <3>1. <<q>> = <<r>>
      BY <1>2, <1>3, <2>4 DEF Winding, AtWork
    <3> QED
      BY <3>1
  <2>5. ASSUME NEW q \in Rooms PROVE (Anchor(c, q) => q = r) /\ (Bound(c, q)' => q = r)
    BY <1>0, <1>1, <2>2, <2>4, RoomsAssumption DEF Bound, Anchor
  <2>6. Anchor(c, r)' /\ Bound(c, r)
    BY <1>0, <2>3 DEF Bound, Anchor
  <2> QED
    BY <2>1, <2>5, <2>6 DEF Binds, Stored
<1>4. ~Busy(k)
  BY <1>2 DEF Busy
<1> QED
  BY <1>1, <1>2, <1>3, <1>4, IdleJob, ConnNudges DEF GameStep

LEMMA PartNudges == ASSUME GameStep, NEW c \in Conns, Part(c) PROVE \E l : Nudges(c, l)
<1> DEFINE j == job[c]
           k == [job[c] EXCEPT !.phase = "syncing"]
<1>1. /\ c \in Workers /\ j \in Job /\ j.phase = "parting" /\ UNCHANGED <<store, objs, rooms, at>>
      /\ pres'[c] = NoRoom /\ (\A d \in Conns : d # c => at'[d] = at[d] /\ pres'[d] = pres[d])
      /\ \A q \in Rooms : j.new[q] = None
  BY WorkersDiffer, Tables DEF Part, GameStep, GameNow, Fits
<1>2. Attached(c)
  BY DEF GameStep, GameNow, GameCore, AttachInv
<1>3. CASE j.todo = <<>>
  <2>1. job' = [job EXCEPT ![c] = Idle]
    BY <1>3 DEF Part, AfterParting
  <2>2. \A r : <<r>> # <<>>
    OBVIOUS
  <2>3. \A r \in Rooms : ~Winding(c, r) /\ ~Joining(c, r)
    BY <1>1, <1>3, <2>2 DEF Winding, Joining, Busy, AtWork
  <2> QED
    BY <1>1, <2>1, <2>3, ConnIdles DEF GameStep
<1>4. CASE j.todo # <<>>
  <2>1. job' = [job EXCEPT ![c] = k]
    BY <1>4 DEF Part, AfterParting
  <2>2. /\ k.kind = j.kind /\ k.room = j.room /\ k.from = j.from /\ k.phase = "syncing" /\ k.new = j.new /\ k.ids = j.ids
        /\ k.todo = j.todo
    BY <1>1 DEF Job
  <2> HIDE DEF k
  <2>3. ASSUME job'[c] = k PROVE Binds(c)
    <3>1. Attached(c)'
      BY <1>1, <1>2, <1>4, <2>2, <2>3 DEF Attached
    <3>2. \A q \in Rooms : ~Joining(c, q)' /\ ~Waiting(c, q)' /\ ~Joining(c, q) /\ (Winding(c, q)' <=> Winding(c, q))
      BY <1>1, <2>2, <2>3 DEF Winding, Joining, Waiting, Busy, AtWork
    <3> QED
      BY <1>1, <3>1, <3>2 DEF Binds, Anchor, Bound, Stored
  <2>4. ~Busy(k)
    BY <2>2 DEF Busy
  <2> QED
    BY <1>1, <2>1, <2>2, <2>3, <2>4, ConnNudges DEF GameStep
<1> QED
  BY <1>3, <1>4

\* A worker has read who is in the first room of its list.
LEMMA QueueSyncNudges ==
  ASSUME GameNow, NEW w \in Workers, job[w].phase \in {"parting", "syncing"}, job[w].todo # <<>>,
         NEW ids, ids \subseteq PresentIn(Head(job[w].todo)) \cup AttachedTo(Head(job[w].todo)),
         (w \in Conns /\ at[w] = NoRoom) => User[w] \notin ids,
         QueueSync(w, Head(job[w].todo), ids), UNCHANGED <<store, objs, rooms, at, pres>>
  PROVE  \E l : Nudges(w, l)
<1> DEFINE j == job[w]
           r == Head(j.todo)
           rest == Tail(j.todo)
<1>1. j \in Job /\ j.todo \in Seq(Rooms) /\ r \in Rooms /\ r # NoRoom /\ \A q \in Rooms : j.new[q] = None
  <2>1. j \in Job /\ j.todo \in Seq(Rooms) /\ \A q \in Rooms : j.new[q] = None
    BY Tables DEF Job, GameNow, Fits
  <2> QED
    BY <2>1, HeadTailProperties, RoomsAssumption
<1>2. w \in Conns => Attached(w)
  BY DEF GameNow, GameCore, AttachInv
<1>3. ASSUME w \in Conns, at[w] = NoRoom PROVE j.todo = <<r>> /\ rest = <<>>
  <2>1. PICK q \in Rooms : j.todo = <<q>>
    BY <1>2, <1>3 DEF Attached
  <2> QED
    BY <2>1
<1>4. ASSUME NEW q \in Rooms, <<q>> = j.todo PROVE q = r
  <2>1. Head(<<q>>) = r
    BY <1>4
  <2> QED
    BY <2>1
<1>5. \A q \in Rooms : ~Joining(w, q) /\ ~Waiting(w, q) /\ (Winding(w, q) => q = r)
  BY <1>4 DEF Joining, Waiting, Winding, Busy, AtWork
<1>6. CASE rooms[r] = NoObj
  <2>1. r \notin Stored
    BY <1>6, StoredRoom DEF GameNow
  <2>2. CASE rest = <<>>
    <3>1. job' = [job EXCEPT ![w] = Idle]
      BY <1>6, <2>2 DEF QueueSync
    <3>2. Works(w, Idle)
      BY IdlePlain, IdleJob, PlainWorks
    <3>3. ASSUME w \in Conns PROVE Binds(w)
      <4>1. job'[w] = Idle
        BY <3>1, Tables DEF GameNow
      <4>2. Attached(w)'
        BY <4>1, IdleJob DEF Attached, AllKinds, Joins, HostKinds
      <4>3. \A q \in Rooms : ~Joining(w, q)' /\ ~Waiting(w, q)' /\ ~Winding(w, q)'
        BY <4>1, IdleJob DEF Joining, Waiting, Winding, Busy, AtWork
      <4> QED
        BY <1>5, <2>1, <4>2, <4>3 DEF Binds, Anchor, Bound, Stored
    <3> QED
      BY <3>1, <3>2, <3>3, StillCalm DEF Nudges, Others
  <2>3. CASE rest # <<>>
    <3> DEFINE k == [j EXCEPT !.todo = rest]
    <3>1. job' = [job EXCEPT ![w] = k]
      BY <1>6, <2>3, Tables DEF QueueSync, GameNow
    <3>2. /\ k.kind = j.kind /\ k.room = j.room /\ k.from = j.from /\ k.phase = j.phase /\ k.new = j.new
          /\ k.ids = j.ids
      BY <1>1 DEF Job
    <3> HIDE DEF k
    <3>3. Works(w, k)
      BY <1>1, <3>2 DEF Works, Busy
    <3>4. ASSUME w \in Conns PROVE Binds(w)
      <4>1. job'[w] = k /\ at[w] # NoRoom /\ at'[w] = at[w]
        BY <1>3, <2>3, <3>1, <3>4, Tables DEF GameNow
      <4>2. Attached(w)'
        BY <1>2, <3>2, <3>4, <4>1 DEF Attached
      <4>3. \A q \in Rooms : ~Joining(w, q)' /\ ~Waiting(w, q)' /\ ~Winding(w, q)'
        BY <3>2, <4>1 DEF Joining, Waiting, Winding, Busy
      <4> QED
        BY <1>5, <2>1, <4>1, <4>2, <4>3 DEF Binds, Anchor, Bound, Stored
    <3> QED
      BY <3>1, <3>3, <3>4, StillCalm DEF Nudges, Others
  <2> QED
    BY <2>2, <2>3
<1>7. CASE rooms[r] # NoObj
  <2>1. PICK tgt : job' = [job EXCEPT ![w] =
             [Idle EXCEPT !.kind = "sync", !.phase = "queued", !.room = r, !.ids = ids,
                          !.target = tgt, !.todo = rest]]
    BY <1>7 DEF QueueSync
  <2> DEFINE k == [Idle EXCEPT !.kind = "sync", !.phase = "queued", !.room = r, !.ids = ids,
                               !.target = tgt, !.todo = rest]
  <2>2. /\ k.kind = "sync" /\ k.room = r /\ k.from = NoRoom /\ k.phase = "queued" /\ k.new = Idle.new
        /\ k.ids = ids /\ k.todo = rest
    BY DEF Idle
  <2>3. job' = [job EXCEPT ![w] = k]
    BY <2>1
  <2> HIDE DEF k
  <2>4. Works(w, k)
    BY <2>2, IdleJob DEF Works, Busy
  <2>5. ASSUME w \in Conns PROVE Binds(w)
    <3>1. job'[w] = k /\ at'[w] = at[w]
      BY <2>3, Tables DEF GameNow
    <3>2. Attached(w)'
      BY <1>3, <2>2, <2>5, <3>1 DEF Attached, AllKinds, Joins, HostKinds
    <3>3. \A q \in Rooms : /\ ~Joining(w, q)' /\ ~Waiting(w, q)'
                           /\ Winding(w, q)' <=> at[w] = NoRoom /\ q = r
      BY <2>2, <3>1 DEF Joining, Waiting, Winding, Busy, AtWork, Joins
    <3>4. at[w] = NoRoom => Winding(w, r)
      BY <1>3, <2>5 DEF Winding
    <3>5. \A q \in Rooms : Winding(w, q) <=> Winding(w, q)'
      BY <1>5, <3>3, <3>4 DEF Winding
    <3> QED
      BY <1>5, <3>1, <3>2, <3>3, <3>5 DEF Binds, Anchor, Bound, Stored
  <2> QED
    BY <2>3, <2>4, <2>5, StillCalm DEF Nudges, Others
<1> QED
  BY <1>6, <1>7

LEMMA ReadPresenceNudges == ASSUME GameStep, NEW w \in Workers, ReadPresence(w) PROVE \E l : Nudges(w, l)
<1> DEFINE r == Head(job[w].todo)
           ids == PresentIn(r)
<1>1. /\ job[w].phase = "syncing" /\ job[w].todo # <<>> /\ QueueSync(w, r, ids) /\ r \in Rooms /\ r # NoRoom
      /\ UNCHANGED <<store, objs, rooms, at, pres>>
  <2>1. job[w].phase = "syncing" /\ job[w].todo # <<>> /\ job[w].todo \in Seq(Rooms)
    BY Tables DEF ReadPresence, GameStep, GameNow, Placed, Job
  <2> QED
    BY <2>1, HeadTailProperties, RoomsAssumption DEF ReadPresence
<1>2. ASSUME w \in Conns, at[w] = NoRoom, User[w] \in ids PROVE FALSE
  <2>1. PICK d \in Conns : pres[d] = r /\ User[d] = User[w]
    BY <1>2 DEF PresentIn
  <2>2. d = w
    BY <1>2, <2>1 DEF GameStep, GameNow, OneConnection
  <2>3. pres[w] = NoRoom
    BY <1>1, <1>2 DEF GameStep, GameNow, GameCore, AttachInv, Attached
  <2> QED
    BY <1>1, <2>1, <2>2, <2>3
<1> HIDE DEF ids
<1>3. ids \subseteq PresentIn(r) \cup AttachedTo(r)
  BY DEF ids
<1> QED
  BY <1>1, <1>2, <1>3, QueueSyncNudges DEF GameStep

LEMMA PartFailsNudges == ASSUME GameStep, NEW c \in Conns, PartFails(c) PROVE \E l : Nudges(c, l)
<1> DEFINE r == Head(job[c].todo)
           ids == AttachedTo(r)
<1>1. c \in Workers /\ job[c].phase = "parting" /\ UNCHANGED <<store, objs, rooms, at, pres>> /\ job[c].todo \in Seq(Rooms)
  BY WorkersDiffer, Tables DEF PartFails, GameStep, GameNow, Job
<1>2. CASE job[c].todo = <<>>
  <2>1. job' = [job EXCEPT ![c] = Idle]
    BY <1>2 DEF PartFails
  <2>2. \A q : <<q>> # <<>>
    OBVIOUS
  <2>3. \A q \in Rooms : ~Winding(c, q) /\ ~Joining(c, q)
    BY <1>1, <1>2, <2>2 DEF Winding, Joining, Busy, AtWork
  <2> QED
    BY <1>1, <2>1, <2>3, ConnIdles DEF GameStep
<1>3. CASE job[c].todo # <<>>
  <2>1. QueueSync(c, r, ids)
    BY <1>3 DEF PartFails
  <2>2. r # NoRoom
    BY <1>1, <1>3, HeadTailProperties, RoomsAssumption
  <2>3. ASSUME at[c] = NoRoom, User[c] \in ids PROVE FALSE
    <3>1. PICK d \in Conns : at[d] = r /\ User[d] = User[c]
      BY <2>3 DEF AttachedTo
    <3>2. d = c
      BY <3>1 DEF GameStep, GameNow, OneConnection
    <3> QED
      BY <2>2, <2>3, <3>1, <3>2
  <2> HIDE DEF ids
  <2>4. ids \subseteq PresentIn(r) \cup AttachedTo(r)
    BY DEF ids
  <2> QED
    BY <1>1, <1>3, <2>1, <2>3, <2>4, QueueSyncNudges DEF GameStep
<1> QED
  BY <1>2, <1>3

-----------------------------------------------------------------------------
(* The steps that write.                                                   *)

LEMMA PersistNudges == ASSUME GameStep, NEW w \in Workers, Persist(w) PROVE \E l : Nudges(w, l)
<1> DEFINE j == job[w]
           k == [job[w] EXCEPT !.phase = "saved"]
<1>1. /\ j.phase = "saving" /\ j \in Job /\ store' = Saved(w) /\ UNCHANGED <<objs, rooms, at, pres>>
      /\ job' = [job EXCEPT ![w] = k]
  BY Tables DEF Persist, GameStep, GameNow
<1>2. /\ k.phase = "saved" /\ k.new = j.new /\ k.kind = j.kind /\ k.room = j.room /\ k.from = j.from /\ k.ids = j.ids
      /\ k.todo = j.todo
  BY <1>1 DEF Job
<1> HIDE DEF k
<1>3. Stored' = Stored
  <2>1. \A r \in Rooms : store'[r] = IF j.new[r] = None THEN store[r] ELSE Durable(j.new[r])
    BY <1>1 DEF Saved
  <2>2. ASSUME NEW r \in Rooms, j.new[r] # None PROVE r \in Stored /\ Durable(j.new[r]) # None
    <3>1. r \in Stored /\ j.new[r] \in Room
      BY <2>2, OneSaver DEF GameStep, GameNow
    <3>2. Durable(j.new[r]) \in Room
      BY <3>1, DurableSame DEF SamePeople
    <3> QED
      BY <3>1, <3>2, NoneAssumption
  <2> QED
    BY <2>1, <2>2 DEF Stored
<1>4. \A r : In(r)' = In(r)
  BY <1>1 DEF In
<1>5. Calms(w)
  BY <1>3, <1>4 DEF Calms, Fades, GameStep, GameNow, GameCore, NeatInv
<1>6. Works(w, k)
  <2>1. \A r \in Rooms : j.new[r] # None => Wrought(w, j, r, In(r), j.new[r])
    BY DEF GameStep, GameNow, GameCore, ClonesWrought
  <2>2. \A r \in Held(j) : j.new[r] # None
    BY <1>1 DEF GameStep, GameNow, GameCore, AllSaved, Busy
  <2>3. Held(k) = Held(j)
    BY <1>2 DEF Held
  <2> QED
    BY <1>2, <1>4, <2>1, <2>2, <2>3, WroughtSame DEF Works
<1>7. ASSUME w \in Conns PROVE Binds(w)
  <2>1. Attached(w) /\ job'[w] = k
    BY <1>1, <1>7, Tables DEF GameStep, GameNow, GameCore, AttachInv
  <2>2. Attached(w)'
    BY <1>1, <1>2, <2>1 DEF Attached
  <2>3. \A q : /\ Winding(w, q)' <=> Winding(w, q)
               /\ Joining(w, q)' <=> Joining(w, q)
               /\ ~Waiting(w, q)'
    BY <1>1, <1>2, <2>1 DEF Winding, Joining, Waiting, AtWork, Busy
  <2> QED
    BY <1>1, <2>2, <2>3 DEF Binds, Anchor, Bound
<1>8. Others(w)
  BY <1>1 DEF Others
<1> QED
  BY <1>1, <1>5, <1>6, <1>7, <1>8 DEF Nudges

\* In a game nobody comes in or gets ready.
LEMMA InGameNudges ==
  ASSUME GameStep, NEW r \in Rooms, rooms[r] # NoObj, NEW made \in Room, InGame(r, made),
         made.seats = In(r).seats, In(r).status = "IN_GAME", made.status # "LOBBY"
  PROVE  \E l : Nudges(Cleaner, l)
<1>1. /\ objs' = [objs EXCEPT ![rooms[r]] = made] /\ store' = [store EXCEPT ![r] = Durable(made)]
      /\ UNCHANGED <<rooms, job, at, pres>> /\ line[r] = <<>>
  BY DEF InGame
<1>2. /\ r \in Stored /\ rooms[r] \in 1 .. Len(objs) /\ DOMAIN objs = 1 .. Len(objs)
      /\ DOMAIN store = Rooms
  BY Tables, LenProperties DEF NoObj, GameStep, GameNow
<1>3. Stored' = Stored
  <2>1. Durable(made) \in Room
    BY DurableSame DEF SamePeople
  <2> QED
    BY <1>1, <1>2, <2>1, NoneAssumption DEF Stored
<1>4. In(r)' = made /\ \A q \in Stored : q # r => In(q)' = In(q)
  <2>1. \A q \in Stored : rooms[q] = rooms[r] => q = r
    BY <1>2 DEF MemCore, OneObject, GameStep, GameNow
  <2> QED
    BY <1>1, <1>2, <2>1 DEF In
<1>5. ASSUME NEW q \in Stored PROVE Fades(q)
  <2>1. Neat(In(q))
    BY DEF GameStep, GameNow, GameCore, NeatInv
  <2>2. CASE q = r
    <3>1. Neat(made) /\ \A u : SeatsOf(made, u) = SeatsOf(In(r), u)
      BY <2>1, <2>2 DEF Neat, SeatsOf
    <3> QED
      BY <1>4, <2>2, <3>1 DEF Fades, Poised, Plays
  <2>3. CASE q # r
    BY <1>4, <2>1, <2>3 DEF Fades
  <2> QED
    BY <2>2, <2>3
<1>6. ASSUME NEW v \in Workers, NEW q \in Rooms, job[v].new[q] # None PROVE In(q)' = In(q)
  <2>1. line[q] # <<>> /\ q \in Stored
    BY <1>6, OneSaver DEF GameStep, GameNow
  <2> QED
    BY <1>1, <1>4, <2>1
<1> QED
  BY <1>1, <1>3, <1>5, <1>6, WorkersDiffer, StillNudges DEF GameStep

LEMMA GameNudges == ASSUME GameStep, NEW r \in Rooms, Finish(r) \/ Stall(r) PROVE \E l : Nudges(Cleaner, l)
<1> DEFINE m == objs[rooms[r]]
<1>1. rooms[r] # NoObj /\ rooms[r] \in 1 .. Len(objs) /\ m.status = "IN_GAME" /\ m = In(r)
  BY Tables DEF Finish, Stall, Playing, NoObj, GameStep, GameNow, In
<1>2. m \in Room
  BY <1>1 DEF LifeInv, HeapInv, InOrder, GameStep, GameNow
<1>4. CASE Finish(r)
  <2> DEFINE made == [m EXCEPT !.status = "FINISHED"]
  <2>1. made \in Room /\ made.seats = m.seats /\ made.status = "FINISHED"
    BY <1>2 DEF Room, Statuses
  <2>2. InGame(r, made)
    BY <1>4 DEF Finish
  <2> HIDE DEF made, m
  <2> QED
    BY <1>1, <2>1, <2>2, InGameNudges
<1>5. CASE Stall(r)
  <2> DEFINE made == [m EXCEPT !.paused = "STALLED_AUTOMATION"]
  <2>1. made \in Room /\ made.seats = m.seats /\ made.status = m.status
    BY <1>2 DEF Room, Pauses
  <2>2. InGame(r, made)
    BY <1>5 DEF Stall
  <2> HIDE DEF made, m
  <2> QED
    BY <1>1, <2>1, <2>2, InGameNudges
<1> QED
  BY <1>4, <1>5

LEMMA CreateNudges ==
  ASSUME GameStep, NEW u \in Users, NEW size \in 2 .. left.size, NEW fill \in BOOLEAN,
         Create(u, size, fill)
  PROVE  \E l : Nudges(Creator, l)
<1> DEFINE free == {q \in Rooms : store[q] = None}
           m == NewRoom(u, size, fill)
<1>1. m \in Room /\ m.status = "LOBBY" /\ \A i \in DOMAIN m.seats : ~m.seats[i].ready
  <2>1. m \in Room
    BY SizeFits, NewRoomInOrder DEF InOrder, GameStep, GameNow
  <2>2. m.status = "LOBBY" /\ m.seats = [i \in 1 .. size |-> IF i = 1 THEN [Vacant EXCEPT !.who = u] ELSE Vacant]
    BY DEF NewRoom
  <2>3. ~Vacant.ready /\ ~[Vacant EXCEPT !.who = u].ready
    BY DEF Vacant
  <2> QED
    BY <2>1, <2>2, <2>3
<1>2. free \in SUBSET Nat /\ free # {}
  BY Tables, RoomsAssumption DEF Create, Stored, GameStep, GameNow
<1>3. PICK r \in free : r = Min(free)
  BY <1>2, MinIsLeast
<1>4. PICK n : n = Len(objs) + 1
  OBVIOUS
<1>5. /\ store' = [store EXCEPT ![r] = m] /\ objs' = Append(objs, m)
      /\ rooms' = [rooms EXCEPT ![r] = n] /\ job' = [job EXCEPT ![Creator] = Idle] /\ UNCHANGED <<at, pres>>
  BY <1>3, <1>4 DEF Create
<1> HIDE DEF m
<1>6. r \in Rooms /\ r \notin Stored
  BY <1>3 DEF Stored
<1>7. /\ Len(objs) \in Nat /\ \A i \in 1 .. Len(objs) : objs'[i] = objs[i] /\ i # n
      /\ objs'[n] = m
  BY <1>1, <1>4, <1>5, Tables, AppendProperties DEF GameStep, GameNow
<1>8. /\ Stored' \subseteq Stored \cup {r} /\ rooms'[r] = n
      /\ \A q \in Stored : rooms'[q] = rooms[q] /\ q # r /\ rooms[q] \in 1 .. Len(objs)
  <2>1. rooms'[r] = n /\ \A q \in Rooms : q # r => store'[q] = store[q] /\ rooms'[q] = rooms[q]
    BY <1>5, <1>6, Tables DEF GameStep, GameNow
  <2>2. Stored' \subseteq Stored \cup {r}
    BY <2>1 DEF Stored
  <2>3. \A q \in Stored : q \in Rooms /\ q # r /\ rooms[q] \in 1 .. Len(objs)
    BY <1>6, StoredRoom DEF GameStep, GameNow
  <2> QED
    BY <2>1, <2>2, <2>3
<1>9. In(r)' = m /\ \A q \in Stored : In(q)' = In(q)
  BY <1>7, <1>8 DEF In
<1>10. Calms(Creator)
  <2>1. ASSUME NEW q \in Stored' PROVE Fades(q)
    <3>1. CASE q \in Stored
      BY <1>9, <3>1 DEF Fades, GameStep, GameNow, GameCore, NeatInv
    <3>2. CASE q = r
      <4>1. Neat(m) /\ \A v : ~Poised(m, v) /\ ~Plays(m, v)
        BY <1>1 DEF Neat, Poised, Plays, SeatsOf
      <4> QED
        BY <1>9, <3>2, <4>1 DEF Fades
    <3> QED
      BY <1>8, <3>1, <3>2
  <2>2. ASSUME NEW v \in Workers, NEW q \in Rooms, job[v].new[q] # None PROVE In(q)' = In(q)
    BY <1>9, <2>2, OneSaver DEF GameStep, GameNow
  <2> QED
    BY <2>1, <2>2 DEF Calms
<1>11. Works(Creator, Idle)
  BY IdlePlain, IdleJob, PlainWorks
<1>12. Others(Creator)
  BY <1>5 DEF Others
<1> QED
  BY <1>5, <1>10, <1>11, <1>12, WorkersDiffer DEF Nudges

-----------------------------------------------------------------------------
(* The end of a save.                                                      *)

\* What connection w is bound to after its save: it leaves only rooms whose
\* clone does not have it ready.
LEMMA SavedBinds ==
  ASSUME GameNow, NEW w \in Conns, Apply(w)
  PROVE  /\ Attached(w)'
         /\ \A q \in Rooms : Bound(w, q)' => Anchor(w, q)
         /\ \A r \in Rooms : Anchor(w, r) => Anchor(w, r)' \/ (job[w].new[r] # None /\ ~Poised(job[w].new[r], User[w]))
         /\ \A r \in Held(job[w]) : (job[w].kind \in Joins /\ r = job[w].room) \/ job[w].kind \in {"ready", "unready"}
                                       => Anchor(w, r)'
         /\ \A d \in Conns : d # w => at'[d] = at[d]
<1> DEFINE j == job[w]
           u == User[w]
<1>1. /\ w \in Workers /\ j.phase = "saved" /\ Conclude(w) /\ pres' = pres /\ AtWork(j) /\ Busy(j) /\ Attached(w)
      /\ u \in Users /\ j.room \in Rooms /\ j.kind # "none" /\ Placed(w, j) /\ j \in Job
  BY WorkersDiffer, UserAssumption, Tables DEF Apply, AtWork, Busy, GameNow, GameCore, AttachInv, Placed
<1>2. /\ at'[w] = IF j.kind \in Joins THEN j.room ELSE IF j.kind = "leave" THEN NoRoom ELSE at[w]
      /\ \A d \in Conns : d # w => at'[d] = at[d]
      /\ Attached(w)' /\ \A q \in Rooms : Bound(w, q)' => at'[w] = q
  BY <1>1, ConcludeAt
<1>3. \A q \in Rooms : q # NoRoom
  BY RoomsAssumption
<1>4. ASSUME NEW q \in Rooms, Bound(w, q)' PROVE Anchor(w, q)
  BY <1>1, <1>2, <1>3, <1>4 DEF Anchor, Joining
<1>5. ASSUME NEW r \in Rooms, Anchor(w, r), ~Anchor(w, r)' PROVE j.new[r] # None /\ ~Poised(j.new[r], u)
  <2>1. at'[w] # r
    BY <1>5 DEF Anchor
  <2>2. ASSUME r \in Held(j) PROVE j.new[r] # None /\ Wrought(w, j, r, In(r), j.new[r])
    BY <1>1, <2>2 DEF GameNow, GameCore, AllSaved, ClonesWrought
  <2>3. CASE j.kind \in Joins
    <3>1. at[w] = r /\ r # j.room
      BY <1>1, <1>2, <1>5, <2>1, <2>3 DEF Anchor, Winding, Joining, Joins
    <3>2. r = j.from /\ r \in Held(j)
      BY <1>1, <1>3, <2>3, <3>1 DEF Attached, Held
    <3>3. Goes(In(r), j.new[r], u)
      BY <1>1, <2>2, <2>3, <3>1, <3>2 DEF Wrought, Own, Joins, HostKinds
    <3> QED
      BY <2>2, <3>2, <3>3 DEF Goes, Poised
  <2>4. CASE j.kind = "leave"
    <3>1. r = j.room /\ r \in Held(j)
      BY <1>1, <1>3, <1>5, <2>4 DEF Anchor, Winding, Joining, Joins, Attached, AllKinds, Held
    <3>2. Goes(In(r), j.new[r], u)
      BY <1>1, <2>2, <2>4, <3>1 DEF Wrought, Own, Joins, HostKinds
    <3> QED
      BY <2>2, <3>1, <3>2 DEF Goes, Poised
  <2>5. CASE j.kind \notin Joins /\ j.kind # "leave"
    <3>1. at[w] = NoRoom /\ j.kind = "sync" /\ r = j.room
      BY <1>1, <1>2, <1>5, <2>1, <2>5 DEF Anchor, Winding, Joining
    <3>2. r \in Held(j) /\ u \notin j.ids
      BY <1>1, <1>3, <3>1 DEF Attached, Held
    <3>3. Follows(In(r), j.new[r], u, j.ids)
      BY <1>1, <2>2, <3>1, <3>2 DEF Wrought
    <3> QED
      BY <2>2, <3>2, <3>3 DEF Follows, Poised
  <2> QED
    BY <2>3, <2>4, <2>5
<1>6. ASSUME NEW r \in Held(j), (j.kind \in Joins /\ r = j.room) \/ j.kind \in {"ready", "unready"} PROVE at'[w] = r
  <2>1. CASE j.kind \in Joins /\ r = j.room
    BY <1>2, <2>1
  <2>2. CASE j.kind \in {"ready", "unready"}
    BY <1>1, <1>2, <1>6, <2>2 DEF Attached, AllKinds, Joins, Held
  <2> QED
    BY <1>6, <2>1, <2>2
<1> QED
  BY <1>2, <1>4, <1>5, <1>6 DEF Anchor

LEMMA ApplyFacts ==
  ASSUME GameNow, NEW w \in Workers, Apply(w)
  PROVE  /\ job'[w].kind = "none" /\ Plain(job'[w]) /\ \A v \in Workers : v # w => job'[v] = job[v]
         /\ Stored' = Stored /\ pres' = pres
         /\ \A r \in Stored : In(r)' = IF job[w].new[r] # None THEN job[w].new[r] ELSE In(r)
         /\ \A d \in Conns : d # w => at'[d] = at[d]
<1> DEFINE j == job[w]
<1>1. /\ j.phase = "saved" /\ job' = [job EXCEPT ![w] = Then(w)] /\ store' = store /\ pres' = pres /\ Conclude(w)
      /\ objs' = Replaced(w)
  BY DEF Apply, Conclude
<1>2. rooms' = rooms
  BY <1>1, RoomsStay
<1>3. job'[w] = Then(w) /\ \A v \in Workers : v # w => job'[v] = job[v]
  BY <1>1, Tables DEF GameNow
<1>4. Stored' = Stored
  BY <1>1 DEF Stored
<1>5. \A r \in Stored : In(r)' = IF j.new[r] # None THEN j.new[r] ELSE In(r)
  BY <1>1, <1>2, ReplacedRoom DEF In, GameNow
<1>6. Then(w).kind = "none" /\ \A d \in Conns : d # w => at'[d] = at[d]
  <2>1. CASE w \in Conns
    BY <1>1, <2>1, ConcludeAt DEF AtWork
  <2>2. CASE w \notin Conns
    <3>1. j.kind \notin Joins /\ j.kind # "leave"
      BY <2>2, Tables DEF Placed, AllKinds, GameNow
    <3>2. Then(w).kind = "none"
      BY <3>1, IdleJob, TodoJob DEF Then
    <3>3. at' = [d \in Conns |-> IF d \in Evicted(w) THEN NoRoom ELSE at[d]]
      BY <1>1, <3>1 DEF Conclude
    <3>4. Evicted(w) = {}
      BY NothingCloses DEF Evicted, GameNow
    <3> QED
      BY <3>2, <3>3, <3>4
  <2> QED
    BY <2>1, <2>2
<1> QED
  BY <1>1, <1>3, <1>4, <1>5, <1>6, ThenPlain

LEMMA ApplyGame == ASSUME GameNow, NEW w \in Workers, Apply(w) PROVE GameCore'
<1> DEFINE j == job[w]
<1>1. /\ job'[w].kind = "none" /\ ~AtWork(job'[w]) /\ (\A r \in Rooms : job'[w].new[r] = None)
      /\ \A v \in Workers : v # w => job'[v] = job[v]
      /\ Stored' = Stored /\ pres' = pres
      /\ \A r \in Stored : In(r)' = IF j.new[r] # None THEN j.new[r] ELSE In(r)
      /\ \A d \in Conns : d # w => at'[d] = at[d]
  BY ApplyFacts DEF Plain
<1>2. Conns \subseteq Workers /\ Stored \subseteq Rooms
  BY WorkersDiffer DEF Stored
<1>3. ASSUME NEW r \in Rooms, j.new[r] # None PROVE r \in Stored /\ Wrought(w, j, r, In(r), j.new[r]) /\ r \in Held(j)
  BY <1>3, OneSaver DEF GameNow, GameCore, ClonesWrought
<1>4. NeatInv'
  BY <1>1, <1>2, <1>3 DEF NeatInv, Wrought, GameNow, GameCore
<1>5. AllSaved'
  BY <1>1 DEF AllSaved, GameNow, GameCore, AtWork, Busy
<1>6. ClonesWrought'
  <2> SUFFICES ASSUME NEW v \in Workers, NEW r \in Rooms, job'[v].new[r] # None
               PROVE  Wrought(v, job'[v], r, In(r)', job'[v].new[r])
    BY DEF ClonesWrought
  <2>1. v # w /\ job'[v] = job[v]
    BY <1>1
  <2>2. r \in Stored /\ j.new[r] = None
    BY <2>1, OneSaver DEF GameNow
  <2>3. In(r)' = In(r)
    BY <1>1, <2>2
  <2> QED
    BY <2>1, <2>3 DEF GameNow, GameCore, ClonesWrought
<1>7. ASSUME NEW c \in Conns, c # w
      PROVE  Attached(c)' /\ \A r : Anchor(c, r)' = Anchor(c, r) /\ Bound(c, r)' = Bound(c, r)
  <2>1. job'[c] = job[c] /\ at'[c] = at[c] /\ pres'[c] = pres[c]
    BY <1>1, <1>2, <1>7
  <2>2. Attached(c)'
    BY <2>1 DEF GameNow, GameCore, AttachInv, Attached
  <2>3. \A r : Winding(c, r)' = Winding(c, r) /\ Joining(c, r)' = Joining(c, r) /\ Waiting(c, r)' = Waiting(c, r)
    BY <2>1 DEF Winding, Joining, Waiting
  <2> QED
    BY <2>1, <2>2, <2>3 DEF Anchor, Bound
<1>8. AttachInv'
  BY <1>7, SavedBinds DEF AttachInv
<1>9. ASSUME NEW r \in Stored, NEW u \in Users, Anchored(u, r), Poised(In(r)', u) PROVE Anchored(u, r)'
  <2>1. PICK c \in Conns : User[c] = u /\ Anchor(c, r)
    BY <1>9 DEF Anchored
  <2>2. Anchor(c, r)'
    <3>1. CASE c # w
      BY <1>7, <2>1, <3>1
    <3>2. CASE c = w
      BY <1>1, <1>2, <1>9, <2>1, <3>2, SavedBinds
    <3> QED
      BY <3>1, <3>2
  <2> QED
    BY <2>1, <2>2 DEF Anchored
<1>10. PoisedInv'
  <2> SUFFICES ASSUME NEW r \in Stored, NEW u \in Users, Poised(In(r)', u), ~Anchored(u, r)' PROVE Dormant(u, r)'
    BY <1>1 DEF PoisedInv
  <2> DEFINE m == In(r)
             n == j.new[r]
  <2>1. ~Anchored(u, r)
    BY <1>9
  <2>2. ASSUME Poised(m, u), Lit(In(r)', u) => Lit(m, u) PROVE Dormant(u, r)'
    <3>1. Dormant(u, r)
      BY <2>1, <2>2 DEF GameNow, GameCore, PoisedInv
    <3>2. ~Lit(In(r)', u) /\ u \notin PresentIn(r)'
      BY <1>1, <2>2, <3>1 DEF Dormant, PresentIn
    <3>3. \A v \in Workers : (job'[v].kind = "sync" /\ job'[v].room = r) => u \notin job'[v].ids
      BY <1>1, <3>1 DEF Dormant
    <3> QED
      BY <3>2, <3>3 DEF Dormant
  <2>3. CASE n = None
    BY <1>1, <2>2, <2>3
  <2>4. CASE n # None
    <3>1. In(r)' = n /\ Wrought(w, j, r, m, n) /\ r \in Held(j)
      BY <1>1, <1>2, <1>3, <2>4
    <3> HIDE DEF m, n
    <3>2. ~(Poised(m, u) /\ j.kind = "sync" /\ u \in j.ids)
      <4> SUFFICES ASSUME Poised(m, u), j.kind = "sync", u \in j.ids PROVE FALSE
        OBVIOUS
      <4>1. Dormant(u, r)
        BY <2>1 DEF GameNow, GameCore, PoisedInv, m
      <4>2. j.room = r
        BY <3>1, Tables DEF GameNow, Placed, AllKinds, Joins, HostKinds, Held
      <4> QED
        BY <4>1, <4>2 DEF Dormant
    <3>3. ~(Own(w, u) /\ ((j.kind \in Joins /\ r = j.room) \/ j.kind \in {"ready", "unready"}))
      <4> SUFFICES ASSUME Own(w, u), (j.kind \in Joins /\ r = j.room) \/ j.kind \in {"ready", "unready"} PROVE FALSE
        OBVIOUS
      <4>1. w \in Conns /\ u = User[w] /\ Anchor(w, r)'
        BY <3>1, SavedBinds DEF Own
      <4> QED
        BY <4>1 DEF Anchored
    <3>4. Poised(n, u)
      BY <3>1
    <3>5. Poised(m, u) /\ (Lit(n, u) => Lit(m, u))
      BY <3>1, <3>2, <3>3, <3>4, WroughtPoised
    <3> QED
      BY <2>2, <3>1, <3>5 DEF m
  <2> QED
    BY <2>3, <2>4
<1>11. ASSUME NEW q \in Stored, NEW u \in Users, Plays(In(q)', u)
       PROVE  (Plays(In(q), u) \/ Anchored(u, q)) /\ Only(u, q)
  <2>1. CASE j.new[q] = None
    BY <1>1, <1>11, <2>1 DEF GameNow, GameCore, PlaysInv
  <2>2. CASE j.new[q] # None
    BY <1>1, <1>2, <1>11, <2>2, CloneBinds DEF GameNow
  <2> QED
    BY <2>1, <2>2
<1>12. ASSUME NEW c \in Conns, NEW q \in Rooms, Bound(c, q)' PROVE Bound(c, q)
  BY <1>7, <1>12, SavedBinds DEF Bound
<1>13. PlaysInv'
  <2> SUFFICES ASSUME NEW r \in Stored, NEW u \in Users, Plays(In(r)', u) PROVE Only(u, r)'
    BY <1>1 DEF PlaysInv
  <2>1. Only(u, r)
    BY <1>11
  <2>2. ASSUME NEW c \in Conns, NEW q \in Rooms, User[c] = u, Bound(c, q)' PROVE q = r
    BY <1>12, <2>1, <2>2 DEF Only
  <2>3. ASSUME NEW q \in Stored, Plays(In(q)', u) PROVE q = r
    BY <1>2, <1>11, <2>1, <2>3 DEF Only, Anchored, Bound
  <2> QED
    BY <1>1, <2>2, <2>3 DEF Only
<1> QED
  BY <1>4, <1>5, <1>6, <1>8, <1>10, <1>13 DEF GameCore

-----------------------------------------------------------------------------
(* What the store says of the games, and restarts.                         *)

\* Who plays in the store plays in memory, or in the clone just committed.
LEMMA StoreBinds ==
  ASSUME GameNow, NEW r \in Stored, NEW u \in Users, Plays(store[r], u)
  PROVE  Only(u, r) /\ (Plays(In(r), u) \/ Anchored(u, r))
<1>1. CASE ~Committed(r)
  <2>1. Plays(In(r), u)
    BY <1>1, StoreAgrees DEF Plays, GameNow
  <2> QED
    BY <2>1 DEF GameNow, GameCore, PlaysInv
<1>2. CASE Committed(r)
  <2>0. r \in Rooms
    BY DEF Stored
  <2>1. PICK w \in Workers : job[w].phase = "saved" /\ job[w].new[r] # None
    BY <1>2 DEF Committed
  <2>2. store[r] = Durable(job[w].new[r]) /\ job[w].new[r] \in Room
    BY <2>0, <2>1, OneSaver DEF GameNow, MemCore, ClonesTrue
  <2>3. Plays(job[w].new[r], u)
    BY <2>2, DurableOpen DEF Plays, SeatsOf
  <2> QED
    BY <2>0, <2>1, <2>3, CloneBinds DEF GameNow
<1> QED
  BY <1>1, <1>2

LEMMA StoreOnce ==
  ASSUME GameNow, NEW r \in Stored, NEW q \in Stored, NEW u \in Users, Plays(store[r], u), Plays(store[q], u)
  PROVE  q = r
<1>1. Only(u, r) /\ (Plays(In(q), u) \/ Anchored(u, q)) /\ q \in Rooms
  BY StoreBinds DEF Stored
<1> QED
  BY <1>1 DEF Only, Anchored, Bound

\* Seat by seat, a restored room keeps who is there and who is ready.
LEMMA RestoredSeats ==
  ASSUME NEW m \in Room
  PROVE  /\ DOMAIN Restored(m).seats = DOMAIN m.seats
         /\ \A i \in DOMAIN m.seats : /\ Restored(m).seats[i].who = m.seats[i].who
                                      /\ Restored(m).seats[i].ready = m.seats[i].ready
                                      /\ Restored(m).seats[i].on = FALSE
<1> DEFINE s == [i \in DOMAIN m.seats |-> [m.seats[i] EXCEPT !.on = FALSE]]
<1>1. \A i \in DOMAIN m.seats : m.seats[i] \in Seat
  BY SeatsOfRoom
<1>2. \A i \in DOMAIN m.seats : s[i].who = m.seats[i].who /\ s[i].ready = m.seats[i].ready /\ s[i].on = FALSE
  BY <1>1 DEF Seat
<1>3. DOMAIN s = DOMAIN m.seats
  OBVIOUS
<1>4. Restored(m) = [m EXCEPT !.seats = s]
  BY DEF Restored
<1> HIDE DEF s
<1>5. Restored(m).seats = s
  BY <1>4, Reseated
<1> QED
  BY <1>2, <1>3, <1>5

LEMMA StoreNeat == ASSUME GameNow, NEW r \in Stored PROVE Neat(Restored(store[r])) /\ store[r] \in Room
<1>1. store[r] \in Room
  BY DEF GameNow, LifeInv, HeapInv, InOrder
<1>2. \E m \in Room : Neat(m) /\ Restored(Durable(m)) = Restored(store[r])
  <2>1. CASE ~Committed(r)
    <3>1. In(r) \in Room /\ Neat(In(r)) /\ Restored(Durable(In(r))) = Restored(store[r])
      BY <2>1, StoreAgrees DEF GameNow, GameCore, NeatInv, MemCore, Agreed, Columns
    <3> QED
      BY <3>1
  <2>2. CASE Committed(r)
    <3>0. r \in Rooms
      BY DEF Stored
    <3>1. PICK w \in Workers : job[w].phase = "saved" /\ job[w].new[r] # None
      BY <2>2 DEF Committed
    <3>2. store[r] = Durable(job[w].new[r]) /\ job[w].new[r] \in Room
      BY <3>0, <3>1, OneSaver DEF GameNow, MemCore, ClonesTrue
    <3>3. Neat(job[w].new[r])
      BY <3>0, <3>1 DEF GameNow, GameCore, ClonesWrought, Wrought
    <3> QED
      BY <3>2, <3>3
  <2> QED
    BY <2>1, <2>2
<1>3. PICK m \in Room : Neat(m) /\ Restored(Durable(m)) = Restored(store[r])
  BY <1>2
<1> DEFINE d == Durable(m)
<1>4. d \in Room /\ d.seats = m.seats
  BY DurableOpen, DurableSame DEF SamePeople
<1> HIDE DEF d
<1>5. /\ DOMAIN Restored(d).seats = DOMAIN m.seats
      /\ \A i \in DOMAIN m.seats : Restored(d).seats[i].who = m.seats[i].who /\ Restored(d).seats[i].ready = m.seats[i].ready
  BY <1>4, RestoredSeats
<1>6. Neat(m)
  BY <1>3
<1>7. Neat(Restored(d))
  BY <1>5, <1>6 DEF Neat
<1> QED
  BY <1>1, <1>3, <1>7 DEF d

\* Who was ready is dormant, and who played plays where the store has it.
LEMMA RestartGame == ASSUME GameNow, BoundsInv, Restart PROVE GameCore'
<1>1. /\ store' = store /\ Stored' = Stored /\ (\A w \in Workers : job'[w] = Idle)
      /\ \A c \in Conns : at'[c] = NoRoom /\ pres'[c] = NoRoom
      /\ \A r \in Stored : In(r)' = Restored(store[r])
  BY RestartRooms DEF GameNow
<1>2. Conns \subseteq Workers /\ \A r \in Stored : r \in Rooms /\ r # NoRoom
  BY WorkersDiffer, RoomsAssumption DEF Stored
<1>3. NeatInv'
  BY <1>1, StoreNeat DEF NeatInv
<1>4. AllSaved' /\ ClonesWrought'
  BY <1>1, IdleJob DEF AllSaved, ClonesWrought, Busy
<1>5. AttachInv'
  BY <1>1, <1>2, IdleJob DEF AttachInv, Attached, AllKinds, Joins, HostKinds
<1>6. PoisedInv'
  <2> SUFFICES ASSUME NEW r \in Stored, NEW u \in Users PROVE Dormant(u, r)'
    BY <1>1 DEF PoisedInv
  <2>1. ~Lit(Restored(store[r]), u)
    BY StoreNeat, RestoredSeats DEF Lit, SeatsOf
  <2>2. u \notin PresentIn(r)'
    BY <1>1, <1>2 DEF PresentIn
  <2> QED
    BY <1>1, <2>1, <2>2, IdleJob DEF Dormant
<1>7. ASSUME NEW r \in Stored, NEW u \in Users, Plays(In(r)', u) PROVE Plays(store[r], u)
  BY <1>1, <1>7, StoreNeat, RestoredSame, RestoredStatus DEF Plays, SamePeople
<1>8. PlaysInv'
  <2> SUFFICES ASSUME NEW r \in Stored, NEW u \in Users, Plays(In(r)', u) PROVE Only(u, r)'
    BY <1>1 DEF PlaysInv
  <2>1. ASSUME NEW c \in Conns, NEW q \in Rooms PROVE ~Bound(c, q)'
    BY <1>1, <1>2, IdleJob, RoomsAssumption DEF Bound, Anchor, Winding, Joining, Waiting, AtWork, Busy
  <2>2. ASSUME NEW q \in Stored, Plays(In(q)', u) PROVE q = r
    BY <1>7, <2>2, StoreOnce
  <2> QED
    BY <1>1, <2>1, <2>2 DEF Only
<1> QED
  BY <1>3, <1>4, <1>5, <1>6, <1>8 DEF GameCore

-----------------------------------------------------------------------------
(* What may still happen.                                                  *)
CapsInv == left.failure <= Scenarios[scenario].failure /\ left.silence <= Scenarios[scenario].silence
Spends == left' = left \/ \E b \in Bounds : Spend(b)
LEMMA NextSpends == ASSUME [Next]_vars PROVE Spends
<1>1. CASE UNCHANGED vars
  BY <1>1 DEF vars, Spends
<1>2. ASSUME NEW w \in Workers, Progress(w) PROVE Spends
  BY <1>2 DEF Progress, Loaded, QueueSecond, Serve, Switch, Announce, Part, ServeSync, ServeCleanup, Persist, Apply,
              ReadPresence, CleanBefore, Create, Spends, Bounds
<1>3. ASSUME NEW w \in Workers, Failure(w) \/ ServeCleanup(w, TRUE) PROVE Spends
  <2>1. CASE Failure(w)
    BY <2>1 DEF Failure, PersistFails, AnnounceFails, PartFails, SweepPresence, CreateFails, Spends, Bounds
  <2>2. CASE ServeCleanup(w, TRUE)
    BY <2>2 DEF ServeCleanup, Spends, Bounds
  <2> QED
    BY <1>3, <2>1, <2>2
<1>4. ASSUME NEW c \in Conns, Request(c) PROVE Spends
  <2>1. CASE Ask(c)
    <3>1. PICK kind \in left.kinds, r \in Rooms, arg \in 0 .. MaxSeats : Asking(c, kind, r, arg)
      BY <2>1 DEF Ask, Asking
    <3>2. Spend("ask")
      BY <3>1 DEF Asking
    <3> QED
      BY <3>2 DEF Spends, Bounds
  <2>2. CASE Close(c) \/ Ping(c)
    BY <2>2 DEF Close, Ping, Spends, Bounds
  <2> QED
    BY <1>4, <2>1, <2>2 DEF Request
<1>5. ASSUME NEW r \in Rooms, CleanUp(r) \/ Finish(r) \/ Stall(r) PROVE Spends
  BY <1>5 DEF CleanUp, Finish, Stall, Spends, Bounds
<1>6. ASSUME BeginCreate \/ Restart PROVE Spends
  BY <1>6 DEF BeginCreate, Restart, Spends, Bounds
<1> QED
  BY <1>1, <1>2, <1>3, <1>4, <1>5, <1>6 DEF Next

LEMMA SpendLess ==
  ASSUME LifeInv, NEW b \in Bounds, Spend(b)
  PROVE  /\ left'.failure = IF b = "failure" THEN left.failure - 1 ELSE left.failure
         /\ left'.silence = IF b = "silence" THEN left.silence - 1 ELSE left.silence
<1>0. left \in Scenario
  BY Tables
<1>1. CASE b = "failure"
  BY <1>0, <1>1 DEF Spend, Scenario
<1>2. CASE b = "silence"
  BY <1>0, <1>2 DEF Spend, Scenario
<1>3. CASE b \notin {"failure", "silence"}
  BY <1>0, <1>3 DEF Spend, Scenario, Bounds
<1> QED
  BY <1>1, <1>2, <1>3

LEMMA StepShrinks == ASSUME LifeInv, [Next]_vars PROVE Shrinks /\ scenario' = scenario
BY StepKinds, WritesShrink, SameShrinks DEF Steps, Aside

LEMMA CapsStep ==
  ASSUME LifeInv, LifeInv', CapsInv, [Next]_vars
  PROVE  /\ CapsInv' /\ (Steady' => Steady)
         /\ (Spend("failure") \/ Spend("silence")) => ~Steady'
<1> DEFINE bound == Scenarios[scenario]
<1>1. bound.failure \in Nat /\ bound.silence \in Nat
  <2>1. bound \in Scenario
    BY ScenariosAssumption DEF LifeInv, TypeOK
  <2> QED
    BY <2>1 DEF Scenario
<1>2. left \in Scenario /\ left' \in Scenario
  BY DEF LifeInv, TypeOK
<1>3. left.failure \in Nat /\ left.silence \in Nat /\ left'.failure \in Nat /\ left'.silence \in Nat
  BY <1>2 DEF Scenario
<1>4. left'.failure <= left.failure /\ left'.silence <= left.silence
  <2>1. CASE left' = left
    BY <1>3, <2>1
  <2>2. ASSUME NEW b \in Bounds, Spend(b) PROVE left'.failure <= left.failure /\ left'.silence <= left.silence
    BY <1>3, <2>2, SpendLess
  <2> QED
    BY <2>1, <2>2, NextSpends DEF Spends
<1>5. scenario' = scenario /\ Shrinks
  BY StepShrinks
<1>6. CapsInv'
  BY <1>1, <1>3, <1>4, <1>5 DEF CapsInv
<1>7. ASSUME Steady' PROVE Steady
  <2>1. Alive
    BY <1>2, <1>5, <1>7, AliveBefore DEF Steady
  <2> QED
    BY <1>1, <1>3, <1>4, <1>5, <1>7, <2>1 DEF Steady, Happened
<1>8. ASSUME Spend("failure") \/ Spend("silence"), Steady' PROVE FALSE
  <2>1. left'.failure = left.failure - 1 \/ left'.silence = left.silence - 1
    BY <1>8, SpendLess DEF Bounds
  <2> QED
    BY <1>1, <1>3, <1>5, <1>8, <2>1 DEF CapsInv, Steady, Happened
<1> QED
  BY <1>6, <1>7, <1>8

-----------------------------------------------------------------------------
(***************************************************************************)
(* Every step keeps the games apart.                                       *)
(***************************************************************************)
GameInv == CapsInv /\ (Steady => GameCore)

LEMMA InitGame == Init => GameInv
<1> SUFFICES ASSUME Init PROVE GameInv
  OBVIOUS
<1>1. /\ Stored = {} /\ (\A w \in Workers : job[w] = Idle)
      /\ \A c \in Conns : at[c] = NoRoom /\ pres[c] = NoRoom
  BY DEF Init, Stored
<1>2. CapsInv
  <2>1. scenario \in DOMAIN Scenarios /\ left = Scenarios[scenario] /\ left \in Scenario
    BY ScenariosAssumption DEF Init
  <2>2. left.failure \in Nat /\ left.silence \in Nat
    BY <2>1 DEF Scenario
  <2> QED
    BY <2>1, <2>2 DEF CapsInv
<1>3. NeatInv /\ PoisedInv /\ PlaysInv
  BY <1>1 DEF NeatInv, PoisedInv, PlaysInv
<1>4. AllSaved /\ ClonesWrought
  BY <1>1, IdleJob DEF AllSaved, ClonesWrought, Busy
<1>5. AttachInv
  BY <1>1, IdleJob, WorkersDiffer DEF AttachInv, Attached, AllKinds, Joins, HostKinds
<1> QED
  BY <1>2, <1>3, <1>4, <1>5 DEF GameInv, GameCore

LEMMA ProgressGame == ASSUME GameStep, NEW w \in Workers, Progress(w) PROVE GameCore'
<1>1. CASE Apply(w)
  BY <1>1, ApplyGame DEF GameStep
<1>2. ASSUME w \in Conns, Loaded(w) \/ QueueSecond(w) \/ Serve(w) \/ Switch(w) \/ Announce(w) \/ Part(w)
      PROVE  \E v, k : Nudges(v, k)
  BY <1>2, LoadedNudges, QueueSecondNudges, ServeNudges, SwitchNudges, AnnounceNudges, PartNudges DEF GameStep
<1>3. ASSUME ServeSync(w) \/ ServeCleanup(w, FALSE) \/ Persist(w) \/ ReadPresence(w) PROVE \E v, k : Nudges(v, k)
  BY <1>3, ServeSyncNudges, ServeCleanupNudges, PersistNudges, ReadPresenceNudges DEF GameStep
<1>4. ASSUME CleanBefore \/ \E u \in Users, n \in 2 .. left.size, fill \in BOOLEAN : Create(u, n, fill)
      PROVE  \E v, k : Nudges(v, k)
  BY <1>4, HouseNudges, CreateNudges
<1>5. Apply(w) \/ \E v, k : Nudges(v, k)
  BY <1>2, <1>3, <1>4 DEF Progress
<1> QED
  BY <1>1, <1>5, NudgesKeep DEF GameStep, GameNow

\* A deadline that passes, a store that fails or a connection swept away.
LEMMA FailureGame ==
  ASSUME GameStep, left' \in Scenario, UNCHANGED scenario, ~Spend("failure"), ~Spend("silence"),
         NEW w \in Workers, Failure(w) \/ ServeCleanup(w, TRUE)
  PROVE  GameCore'
<1>1. ~ServeCleanup(w, TRUE)
  <2>1. SUFFICES ASSUME ServeCleanup(w, TRUE) PROVE FALSE
    OBVIOUS
  <2>2. Spend("expiry")
    BY <2>1 DEF ServeCleanup
  <2>3. left \in Scenario
    BY Tables DEF GameStep, GameNow
  <2>4. left'.expiry < left.expiry
    <3>1. left'.expiry = left.expiry - 1 /\ left.expiry \in Nat
      BY <2>2, <2>3 DEF Spend, Scenario
    <3> QED
      BY <3>1
  <2> QED
    BY <2>4, NoExpiry DEF GameStep, GameNow
<1>2. ~PersistFails(w) /\ ~CreateFails
  BY DEF PersistFails, CreateFails
<1>3. w \in Conns /\ (AnnounceFails(w) \/ PartFails(w) \/ SweepPresence(w))
  BY <1>1, <1>2 DEF Failure
<1>4. SweepPresence(w) => Orphan(w)
  BY DEF SweepPresence
<1>5. \E v, k : Nudges(v, k)
  BY <1>3, <1>4, AnnounceFailsNudges, PartFailsNudges, SweepNudges
<1> QED
  BY <1>5, NudgesKeep DEF GameStep, GameNow

LEMMA GameStepKeeps ==
  ASSUME OneConnection, LifeInv, LifeInv', LockInv, MemInv, GameInv, [Next]_vars
  PROVE  GameInv'
<1>1. /\ CapsInv' /\ (Steady' => Steady)
      /\ (Spend("failure") \/ Spend("silence")) => ~Steady'
  BY CapsStep DEF GameInv
<1> SUFFICES ASSUME Steady' PROVE GameCore'
  BY <1>1 DEF GameInv
<1>2. Steady /\ ~Spend("failure") /\ ~Spend("silence") /\ GameStep
  BY <1>1 DEF GameStep, GameNow, GameInv, MemInv, Steady
<1>3. left' \in Scenario /\ scenario' = scenario
  BY StepShrinks DEF LifeInv, TypeOK
<1>4. CASE UNCHANGED vars
  <2>1. UNCHANGED <<store, objs, rooms, job, at, pres>> /\ \A d \in Conns : pres'[d] = pres[d]
    BY <1>4 DEF vars
  <2>2. Cleaner \in Workers
    BY DEF Workers
  <2>3. \E k : Nudges(Cleaner, k)
    BY <1>2, <2>1, <2>2, StillFades, StillNudges DEF GameStep
  <2> QED
    BY <1>2, <2>3, NudgesKeep DEF GameStep, GameNow
<1>5. ASSUME NEW w \in Workers, Progress(w) \/ Failure(w) \/ ServeCleanup(w, TRUE) PROVE GameCore'
  BY <1>2, <1>3, <1>5, ProgressGame, FailureGame
<1>6. ASSUME NEW c \in Conns, Request(c) PROVE \E v, k : Nudges(v, k)
  BY <1>2, <1>6, AskNudges, CloseNudges, PingNudges DEF Request
<1>7. ASSUME NEW r \in Rooms, CleanUp(r) \/ Finish(r) \/ Stall(r) PROVE \E v, k : Nudges(v, k)
  BY <1>2, <1>7, HouseNudges, GameNudges
<1>8. ASSUME BeginCreate PROVE \E v, k : Nudges(v, k)
  BY <1>2, <1>8, HouseNudges
<1>9. ASSUME Restart PROVE GameCore'
  BY <1>2, <1>9, RestartGame DEF GameStep
<1>10. ASSUME NEW v, NEW k, Nudges(v, k) PROVE GameCore'
  BY <1>2, <1>10, NudgesKeep DEF GameStep, GameNow
<1> QED
  BY <1>4, <1>5, <1>6, <1>7, <1>8, <1>9, <1>10 DEF Next

LEMMA AlwaysGame == ASSUME AllLoaded, OneConnection PROVE Spec => []GameInv
<1>1. Spec => []LifeInv
  BY AlwaysLife
<1>2. Spec => []LockInv
  BY AlwaysLock
<1>3. Spec => []MemInv
  BY AlwaysMem
<1>4. LifeInv /\ LifeInv' /\ LockInv /\ MemInv /\ GameInv /\ [Next]_vars => GameInv'
  BY GameStepKeeps
<1> QED
  BY <1>1, <1>2, <1>3, <1>4, InitGame, PTL DEF Spec

\* A user plays in one game at a time, whatever rooms are joined, left, switched
\* and started at the same time (joinRoom, switchRoom, setReady, startRoom and
\* startRoomByHost in room-manager.ts), by users with one connection each, until
\* a deadline passes, the store fails or a silent connection is swept away: after
\* either, a room may start with a player who has gone to another.
THEOREM OneGameAlways == ASSUME AllLoaded, OneConnection PROVE Spec => [](Steady => OneGameEach)
<1>1. LifeInv /\ LockInv /\ MemInv /\ GameInv => (Steady => OneGameEach)
  <2> SUFFICES ASSUME LifeInv, LockInv, MemInv, GameInv, Steady, NEW u \in Users
               PROVE  Cardinality({r \in Rooms : /\ store[r] # None /\ store[r].status = "IN_GAME"
                                                 /\ Seated(store[r], u)}) <= 1
    BY DEF OneGameEach
  <2>1. GameNow
    BY DEF GameNow, MemInv, GameInv, Steady
  <2> DEFINE G == {r \in Rooms : store[r] # None /\ store[r].status = "IN_GAME" /\ Seated(store[r], u)}
  <2>2. \A r \in G : r \in Stored /\ Plays(store[r], u)
    BY DEF Stored, Plays, Seated
  <2>3. \A r, q \in G : q = r
    BY <2>1, <2>2, StoreOnce
  <2> HIDE DEF G
  <2>4. Cardinality(G) <= 1
    <3>1. CASE G = {}
      BY <3>1, FS_EmptySet
    <3>2. ASSUME NEW r \in G PROVE Cardinality(G) <= 1
      <4>1. G = {r}
        BY <2>3, <3>2
      <4>2. Cardinality({r}) = 1
        BY FS_Singleton
      <4> QED
        BY <4>1, <4>2
    <3> QED
      BY <3>1, <3>2
  <2> QED
    BY <2>4 DEF G
<1>2. Spec => []LifeInv
  BY AlwaysLife
<1>3. Spec => []LockInv
  BY AlwaysLock
<1>4. Spec => []MemInv
  BY AlwaysMem
<1>5. Spec => []GameInv
  BY AlwaysGame
<1> QED
  BY <1>1, <1>2, <1>3, <1>4, <1>5, PTL

\* Who is given a seat by a join is bound to its room by then, so plays nowhere else.
LEMMA SeatGivenAlone ==
  ASSUME GameNow, [Next]_vars, NEW c \in Conns, NEW r \in Rooms,
         job[c].kind \in Joins, job[c].phase = "saving", job'[c].phase = "saved",
         ~Seated(store[r], User[c]), Seated(store'[r], User[c]),
         NEW q \in Rooms \ {r}, Seated(store[q], User[c])
  PROVE  store[q].status # "IN_GAME"
<1> DEFINE n == job[c].new[r]
           u == User[c]
<1>0. u \in Users /\ c \in Workers /\ c # Creator /\ \A v \in Workers : job'[v] = job[v] => v # c
  BY UserAssumption, WorkersDiffer
<1>1. Persist(c)
  <2>1. ASSUME NEW w \in Workers, Persist(w) PROVE w = c
    BY <1>0, <2>1, Tables DEF Persist, GameNow
  <2>2. ~(\E v \in Users, k \in 2 .. left.size, fill \in BOOLEAN : Create(v, k, fill))
    BY <1>0, Tables DEF Create, GameNow
  <2>3. ~(\E p \in Rooms : Finish(p) \/ Stall(p))
    BY DEF Finish, Stall, InGame
  <2> QED
    BY <2>1, <2>2, <2>3, StoreWriters
<1>2. store'[r] = Durable(n) /\ n # None
  BY <1>1 DEF Persist, Saved
<1>3. /\ r \in Stored /\ n \in Room
      /\ \A v \in Workers : job[v].new[r] # None => v = c
  BY <1>0, <1>2, OneSaver DEF GameNow
<1>4. ~Committed(r)
  BY <1>3 DEF Committed
<1>5. SeatsOf(In(r), u) = {} /\ SeatsOf(n, u) # {}
  <2>1. SeatsOf(In(r), u) = SeatsOf(store[r], u) /\ store[r] # None
    BY <1>0, <1>3, <1>4, StoreAgrees DEF GameNow, Stored
  <2>2. SeatsOf(Durable(n), u) = SeatsOf(n, u)
    BY <1>0, <1>3, DurableSame DEF SamePeople
  <2> QED
    BY <1>2, <2>1, <2>2 DEF Seated
<1>6. Wrought(c, job[c], r, In(r), n)
  BY <1>0, <1>2 DEF GameNow, GameCore, ClonesWrought
<1>7. r = job[c].room
  <2>1. ~Goes(In(r), n, u)
    BY <1>5 DEF Goes
  <2> QED
    BY <1>0, <1>6, <2>1 DEF Wrought, Own, Joins, HostKinds
<1>8. Bound(c, r)
  BY <1>7 DEF Bound, Anchor, Joining, Busy
<1>9. SUFFICES ASSUME store[q].status = "IN_GAME" PROVE FALSE
  OBVIOUS
<1>10. q \in Stored /\ Plays(store[q], u)
  BY <1>9 DEF Stored, Plays, Seated
<1>11. Only(u, q)
  BY <1>0, <1>10, StoreBinds
<1> QED
  BY <1>8, <1>11 DEF Only

\* Joining or switching gives nobody a seat beside the one in a running game
\* (assertNoActiveRoom, joinRoom and switchRoom in room-manager.ts): the check
\* reads rooms whose queues the join does not hold, yet no other task can make
\* the user a player there meanwhile.
THEOREM NoSeatEverBesideGame == ASSUME AllLoaded, OneConnection PROVE Spec /\ []Steady => NoSeatBesideGame
<1> DEFINE Alone ==
             \A c \in Conns, r \in Rooms :
               (/\ job[c].kind \in Joins /\ job[c].phase = "saving" /\ job'[c].phase = "saved"
                /\ ~Seated(store[r], User[c]) /\ Seated(store'[r], User[c]))
                 => \A q \in Rooms \ {r} :
                      Seated(store[q], User[c]) => store[q].status # "IN_GAME"
<1>1. LifeInv /\ LockInv /\ MemInv /\ GameInv /\ Steady /\ [Next]_vars => [Alone]_vars
  <2> SUFFICES ASSUME LifeInv, LockInv, MemInv, GameInv, Steady, [Next]_vars PROVE Alone
    OBVIOUS
  <2>1. GameNow
    BY DEF GameNow, MemInv, GameInv, Steady
  <2> QED
    BY <2>1, SeatGivenAlone
<1>2. Spec => []LifeInv
  BY AlwaysLife
<1>3. Spec => []LockInv
  BY AlwaysLock
<1>4. Spec => []MemInv
  BY AlwaysMem
<1>5. Spec => []GameInv
  BY AlwaysGame
<1>6. Spec /\ []Steady => [][Alone]_vars
  BY <1>1, <1>2, <1>3, <1>4, <1>5, PTL DEF Spec
<1> QED
  BY <1>6 DEF NoSeatBesideGame
=============================================================================
