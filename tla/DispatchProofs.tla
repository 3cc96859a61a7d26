--------------------------- MODULE DispatchProofs ---------------------------
(***************************************************************************)
(* Proofs about Dispatch, for any bookings, workers, times and crew sizes. *)
(*                                                                         *)
(* Every operation leaves a reservation table of one of two kinds: one in  *)
(* which nothing new is reserved, or one in which booking b keeps at most  *)
(* what it had and takes picked workers who can take its time.  Neither    *)
(* makes two reservations of one worker overlap.                           *)
(***************************************************************************)
EXTENDS Dispatch, TLAPS

Table == [Bookings -> [Slots -> Reservation]]

\* NoDoubleBooking of any reservation table.
Disjoint(R) ==
    \A x, y \in Bookings : \A c, d \in Slots :
        /\ Active(R[x][c]) /\ Active(R[y][d])
        /\ R[x][c].worker = R[y][d].worker
        /\ Overlap(R[x][c].period, R[y][d].period)
        => x = y /\ c = d

\* r is released, or still what q was but for its state.
Within(r, q) ==
    Active(r) => Active(q) /\ r.worker = q.worker /\ r.period = q.period

\* Booking b keeps in rb at most what it has reserved.
KeptBy(b, rb) ==
    /\ rb \in [Slots -> Reservation]
    /\ \A c \in Slots : Within(rb[c], reservation[b][c])

\* f assigns different workers who can take the time p to the given slots.
Feasible(slots, b, rb, f, p) ==
    /\ slots \subseteq Slots
    /\ f \in [slots -> Workers \cup {NoWorker}]
    /\ \A c, d \in slots : f[c] = f[d] /\ f[c] # NoWorker => c = d
    /\ \A c \in slots : f[c] # NoWorker => CanTake(f[c], b, rb, p)

IInv == TypeOK /\ NoDoubleBooking

-----------------------------------------------------------------------------
(* Crew sizes. *)

\* A booking needs slots that exist, slot 1 among them.
LEMMA NeededSlots ==
  ASSUME TypeOK, NEW b \in Bookings
  PROVE  /\ ServiceOf[b] \in Services /\ required[ServiceOf[b]] \in Slots
         /\ Needed(b) \in SUBSET Slots /\ 1 \in Needed(b)
<1>1. ServiceOf[b] \in Services /\ required[ServiceOf[b]] \in Slots
  BY CrewAssumption DEF TypeOK, CrewSizes
<1>2. required[ServiceOf[b]] \in Nat /\ 1 <= required[ServiceOf[b]]
      /\ required[ServiceOf[b]] <= MaxCrew /\ MaxCrew \in Nat
  BY <1>1, CrewAssumption DEF Slots
<1> HIDE DEF Needed
<1>3. Needed(b) \in SUBSET Slots /\ 1 \in Needed(b)
  BY <1>2 DEF Needed, Slots
<1> QED
  BY <1>1, <1>3

\* Administrators may lower a crew size at any time.
LEMMA LowerCrew ==
  ASSUME TypeOK, NEW b \in Bookings, NEW crew \in Needed(b)
  PROVE  [required EXCEPT ![ServiceOf[b]] = crew] \in CrewSizes
<1>1. /\ ServiceOf[b] \in Services /\ crew \in Slots
      /\ required[ServiceOf[b]] \in Slots /\ crew \in 1..required[ServiceOf[b]]
  BY NeededSlots DEF Needed
<1>2. /\ required \in [Services -> Slots]
      /\ \A s \in Services : required[s] <= CrewLimit[s]
      /\ CrewLimit[ServiceOf[b]] \in Nat
  BY <1>1, CrewAssumption DEF TypeOK, CrewSizes
<1>3. crew <= CrewLimit[ServiceOf[b]]
  BY <1>1, <1>2 DEF Slots
<1> QED
  BY <1>1, <1>2, <1>3 DEF CrewSizes

-----------------------------------------------------------------------------
(* Reservation tables. *)

LEMMA OverlapCommutes ==
  ASSUME NEW p, NEW q
  PROVE  Overlap(p, q) <=> Overlap(q, p)
  BY DEF Overlap

\* A table in which nothing is reserved that was not reserved before.
LEMMA NothingNew ==
  ASSUME NEW R \in Table, NEW Q \in Table, Disjoint(Q),
         \A x \in Bookings, c \in Slots : Within(R[x][c], Q[x][c])
  PROVE  Disjoint(R)
  BY DEF Disjoint, Within

\* The records of the table the picked workers leave.
LEMMA ReserveRecords ==
  ASSUME TypeOK, NEW b \in Bookings, NEW rb, KeptBy(b, rb),
         NEW slots, NEW f, NEW p \in Times, Feasible(slots, b, rb, f, p),
         NEW s \in {"HELD", "ALLOCATED"},
         NEW R, R = Reserve(b, rb, f, s, p)
  PROVE  /\ R \in Table
         /\ \A c \in slots : f[c] # NoWorker =>
               R[b][c].state = s /\ R[b][c].worker = f[c] /\ R[b][c].period = p
         /\ \A c \in Slots : (c \in slots /\ f[c] # NoWorker) \/ R[b][c] = rb[c]
         /\ \A x \in Bookings \ {b}, c \in Slots :
               \/ /\ R[x][c] = Released
                  /\ reservation[x][c].state = "HELD" /\ DeadlinePassed(x)
               \/ /\ R[x][c] = reservation[x][c]
                  /\ ~ /\ reservation[x][c].state = "HELD" /\ DeadlinePassed(x)
                       /\ \E d \in slots : f[d] = reservation[x][c].worker
                       /\ Overlap(reservation[x][c].period, p)
<1>1. DOMAIN f = slots /\ slots \subseteq Slots
  BY DEF Feasible
<1>2. ASSUME NEW c \in Slots
      PROVE  R[b][c] = IF c \in slots /\ f[c] # NoWorker
                       THEN [state |-> s, worker |-> f[c], period |-> p]
                       ELSE rb[c]
  BY <1>1 DEF Reserve
<1>3. ASSUME NEW x \in Bookings \ {b}, NEW c \in Slots
      PROVE  R[x][c] = IF /\ reservation[x][c].state = "HELD" /\ DeadlinePassed(x)
                          /\ \E d \in slots : f[d] = reservation[x][c].worker
                          /\ Overlap(reservation[x][c].period, p)
                       THEN Released ELSE reservation[x][c]
  BY <1>1 DEF Reserve
<1>4. ASSUME NEW c \in slots, f[c] # NoWorker
      PROVE  /\ R[b][c] = [state |-> s, worker |-> f[c], period |-> p]
             /\ R[b][c].state = s /\ R[b][c].worker = f[c] /\ R[b][c].period = p
  <2>1. c \in Slots
    BY <1>1
  <2>2. R[b][c] = [state |-> s, worker |-> f[c], period |-> p]
    BY <1>2, <1>4, <2>1
  <2> QED
    BY <2>2
<1>5. ASSUME NEW c \in Slots
      PROVE  R[b][c] \in Reservation
  <2>1. CASE c \in slots /\ f[c] # NoWorker
    <3>1. f[c] \in Workers
      BY <2>1 DEF Feasible
    <3>2. R[b][c] = [state |-> s, worker |-> f[c], period |-> p]
      BY <1>4, <2>1
    <3> QED
      BY <3>1, <3>2 DEF Reservation
  <2>2. CASE ~(c \in slots /\ f[c] # NoWorker)
    BY <1>2, <2>2 DEF KeptBy
  <2> QED
    BY <2>1, <2>2
<1>6. ASSUME NEW x \in Bookings \ {b}, NEW c \in Slots
      PROVE  R[x][c] \in Reservation
  BY <1>3 DEF Reservation, TypeOK
<1>7. R \in Table
  BY <1>5, <1>6 DEF Reserve, Table
<1> QED
  BY <1>2, <1>3, <1>4, <1>7

\* A table in which b keeps at most what it had and takes workers who can.
LEMMA ReserveIsDisjoint ==
  ASSUME IInv, NEW b \in Bookings, NEW rb, KeptBy(b, rb),
         NEW slots, NEW f, NEW p \in Times, Feasible(slots, b, rb, f, p),
         NEW s \in {"HELD", "ALLOCATED"},
         NEW R, R = Reserve(b, rb, f, s, p)
  PROVE  Disjoint(R)
<1> DEFINE New(c) == c \in slots /\ f[c] # NoWorker
<1>1. TypeOK /\ NoDoubleBooking
  BY DEF IInv
<1>2. \A c \in Slots : New(c) => R[b][c].worker = f[c] /\ R[b][c].period = p
  BY <1>1, ReserveRecords
<1>3. \A c \in Slots : ~New(c) => R[b][c] = rb[c]
  BY <1>1, ReserveRecords
<1>4. \A x \in Bookings \ {b}, c \in Slots :
        \/ R[x][c] = Released
        \/ /\ R[x][c] = reservation[x][c]
           /\ ~ /\ reservation[x][c].state = "HELD" /\ DeadlinePassed(x)
                /\ \E d \in slots : f[d] = reservation[x][c].worker
                /\ Overlap(reservation[x][c].period, p)
  BY <1>1, ReserveRecords
<1>5. \A x \in Bookings, c \in Slots :
        ~(x = b /\ New(c)) => Within(R[x][c], reservation[x][c])
  BY <1>3, <1>4 DEF KeptBy, Within, Active, Released
<1>6. \A c, d \in Slots : New(c) /\ New(d) /\ R[b][c].worker = R[b][d].worker => c = d
  BY <1>2 DEF Feasible
<1>7. \A c, d \in Slots : New(c) /\ ~New(d) /\ Active(R[b][d])
                            => R[b][c].worker # R[b][d].worker
  BY <1>2, <1>3 DEF Feasible, CanTake
<1>8. ASSUME NEW c \in Slots, NEW x \in Bookings \ {b}, NEW d \in Slots,
             New(c), Active(R[x][d]), R[b][c].worker = R[x][d].worker,
             Overlap(p, R[x][d].period)
      PROVE  FALSE
  <2>1. R[x][d] = reservation[x][d]
    BY <1>4, <1>8 DEF Active, Released
  <2>2. f[c] = reservation[x][d].worker
    BY <1>2, <1>8, <2>1
  <2>3. CanTake(f[c], b, rb, p)
    BY <1>8 DEF Feasible
  <2>4. Overlap(reservation[x][d].period, p)
    BY <1>8, <2>1, OverlapCommutes
  <2>5. reservation[x][d].state = "HELD" /\ DeadlinePassed(x)
    BY <1>8, <2>1, <2>2, <2>3, <2>4 DEF CanTake
  <2>6. c \in slots /\ f[c] = reservation[x][d].worker
    BY <1>8, <2>2
  <2>7. R[x][d] = Released
    BY <1>4, <2>4, <2>5, <2>6
  <2> QED
    BY <1>8, <2>7 DEF Active, Released
<1>9. SUFFICES ASSUME NEW x \in Bookings, NEW y \in Bookings, NEW c \in Slots, NEW d \in Slots,
                      Active(R[x][c]), Active(R[y][d]),
                      R[x][c].worker = R[y][d].worker,
                      Overlap(R[x][c].period, R[y][d].period)
               PROVE  x = y /\ c = d
  BY DEF Disjoint
<1>10. CASE ~(x = b /\ New(c)) /\ ~(y = b /\ New(d))
  BY <1>1, <1>5, <1>9, <1>10 DEF NoDoubleBooking, Within
<1>11. CASE x = b /\ New(c) /\ y = b
  BY <1>6, <1>7, <1>9, <1>11
<1>12. CASE x = b /\ New(c) /\ y # b
  <2>1. R[b][c].period = p
    BY <1>2, <1>12
  <2> QED
    BY <1>8, <1>9, <1>12, <2>1
<1>13. CASE y = b /\ New(d) /\ x = b
  BY <1>6, <1>7, <1>9, <1>13
<1>14. CASE y = b /\ New(d) /\ x # b
  <2>1. R[b][d].period = p
    BY <1>2, <1>14
  <2>2. Overlap(p, R[x][c].period)
    BY <1>9, <1>14, <2>1, OverlapCommutes
  <2> QED
    BY <1>8, <1>9, <1>14, <2>2
<1> QED
  BY <1>10, <1>11, <1>12, <1>13, <1>14

-----------------------------------------------------------------------------
(* Picking workers. *)

LEMMA PicksAreFeasible ==
  ASSUME NEW b \in Bookings, NEW rb, NEW p, NEW slots \in SUBSET Slots,
         NEW candidates \in SUBSET Workers,
         \A w \in candidates : CanTake(w, b, rb, p),
         NEW f \in Picks(slots, candidates)
  PROVE  Feasible(slots, b, rb, f, p)
  BY NoWorkerAssumption DEF Picks, Feasible

LEMMA PicksWithAreFeasible ==
  ASSUME NEW b \in Bookings, NEW rb, NEW p, NEW slots \in SUBSET Slots,
         NEW candidates \in SUBSET Workers,
         \A w \in candidates : CanTake(w, b, rb, p),
         NEW prefer \in Workers \cup {NoWorker},
         prefer # NoWorker /\ 1 \in slots => CanTake(prefer, b, rb, p),
         NEW f \in PicksWith(slots, candidates, prefer)
  PROVE  Feasible(slots, b, rb, f, p)
<1>1. CASE ~(prefer # NoWorker /\ 1 \in slots)
  BY <1>1, PicksAreFeasible DEF PicksWith
<1>2. CASE prefer # NoWorker /\ 1 \in slots
  <2>1. PICK g \in Picks(slots \ {1}, candidates \ {prefer}) :
          f = [c \in slots |-> IF c = 1 THEN prefer ELSE g[c]]
    BY <1>2 DEF PicksWith
  <2>2. Feasible(slots \ {1}, b, rb, g, p)
    BY <2>1, PicksAreFeasible
  <2>3. \A c \in slots \ {1} : g[c] # prefer
    BY <1>2, <2>1 DEF Picks
  <2> QED
    BY <1>2, <2>1, <2>2, <2>3 DEF Feasible
<1> QED
  BY <1>1, <1>2

-----------------------------------------------------------------------------
(* Dispatch. *)

\* What booking b keeps when it is dispatched: its holds become allocations.
LEMMA HoldsBecomeAllocations ==
  ASSUME NEW b \in Bookings, NEW rb, KeptBy(b, rb),
         NEW held, held = [c \in Slots |-> IF rb[c].state = "HELD"
                                           THEN [rb[c] EXCEPT !.state = "ALLOCATED"]
                                           ELSE rb[c]]
  PROVE  KeptBy(b, held)
<1>1. ASSUME NEW c \in Slots
      PROVE  held[c] \in Reservation /\ Within(held[c], reservation[b][c])
  <2>1. rb[c] \in Reservation /\ Within(rb[c], reservation[b][c])
    BY DEF KeptBy
  <2>2. CASE rb[c].state = "HELD"
    <3>1. held[c] = [rb[c] EXCEPT !.state = "ALLOCATED"]
      BY <2>2
    <3>2. rb[c] \in [state : {"HELD", "ALLOCATED", "ACCEPTED"}, worker : Workers, period : Times]
      BY <2>1, <2>2 DEF Reservation, Released
    <3>3. /\ held[c].state = "ALLOCATED" /\ held[c].worker = rb[c].worker
          /\ held[c].period = rb[c].period
      BY <3>1, <3>2
    <3>4. held[c] \in Reservation
      BY <3>1, <3>2 DEF Reservation
    <3> QED
      BY <2>1, <2>2, <3>3, <3>4 DEF Within, Active
  <2>3. CASE rb[c].state # "HELD"
    BY <2>1, <2>3
  <2> QED
    BY <2>2, <2>3
<1> QED
  BY <1>1 DEF KeptBy

\* Dispatching b leaves well-typed tables and no overlap.
LEMMA AllocateIsSound ==
  ASSUME IInv, NEW b \in Bookings, NEW st, NEW rb, KeptBy(b, rb),
         NEW ob \in [Slots -> Assignment], NEW gone, NEW p,
         st = "CONFIRMED" => p \in Times,
         NEW prefer \in Workers \cup {NoWorker},
         AllocateAndOffer(b, st, rb, ob, gone, p, prefer)
  PROVE  /\ reservation' \in Table
         /\ Disjoint(reservation')
         /\ assignment' \in [Bookings -> [Slots -> Assignment]]
         /\ required' \in CrewSizes
<1> DEFINE held == [c \in Slots |-> IF rb[c].state = "HELD"
                                    THEN [rb[c] EXCEPT !.state = "ALLOCATED"]
                                    ELSE rb[c]]
           idle == {c \in Needed(b) : ~Live(ob[c])}
           missing == {c \in idle : held[c].state # "ALLOCATED"}
           candidates == {w \in Workers \ gone : CanTake(w, b, held, p)}
<1>1. CASE st # "CONFIRMED"
  <2>1. /\ reservation' = [reservation EXCEPT ![b] = rb]
        /\ assignment' = [assignment EXCEPT ![b] = ob]
    BY <1>1 DEF AllocateAndOffer
  <2>2. reservation \in Table /\ Disjoint(reservation)
    BY DEF IInv, TypeOK, Table, NoDoubleBooking, Disjoint
  <2>3. reservation' \in Table
    BY <2>1, <2>2 DEF KeptBy, Table
  <2>4. \A x \in Bookings, c \in Slots : Within(reservation'[x][c], reservation[x][c])
    BY <2>1, <2>2 DEF KeptBy, Within, Table
  <2>5. Disjoint(reservation')
    BY <2>2, <2>3, <2>4, NothingNew
  <2> QED
    BY <1>1, <2>1, <2>3, <2>5 DEF IInv, TypeOK, AllocateAndOffer
<1>2. CASE st = "CONFIRMED"
  <2>1. missing \in SUBSET Slots
    BY NeededSlots DEF IInv
  <2>2. KeptBy(b, held)
    BY HoldsBecomeAllocations
  <2>3. /\ prefer # NoWorker /\ 1 \in missing => CanTake(prefer, b, held, p)
        /\ \E crew \in Needed(b) :
              /\ required' = [required EXCEPT ![ServiceOf[b]] = crew]
              /\ \E f \in PicksWith(missing \cap 1..crew, candidates, prefer) :
                    reservation' = Reserve(b, held, f, "ALLOCATED", p)
        /\ assignment' = [assignment EXCEPT ![b] = [c \in Slots |->
              IF c \in idle /\ reservation'[b][c].state = "ALLOCATED"
              THEN [state |-> "OFFERED", lapsed |-> FALSE,
                    worker |-> reservation'[b][c].worker]
              ELSE ob[c]]]
    BY <1>2 DEF AllocateAndOffer
  <2>4. PICK crew \in Needed(b) :
          /\ required' = [required EXCEPT ![ServiceOf[b]] = crew]
          /\ \E f \in PicksWith(missing \cap 1..crew, candidates, prefer) :
                reservation' = Reserve(b, held, f, "ALLOCATED", p)
    BY <2>3
  <2> DEFINE filled == missing \cap 1..crew
  <2>9. PICK f \in PicksWith(filled, candidates, prefer) :
          reservation' = Reserve(b, held, f, "ALLOCATED", p)
    BY <2>4
  <2>5. Feasible(filled, b, held, f, p)
    <3>1. candidates \in SUBSET Workers /\ \A w \in candidates : CanTake(w, b, held, p)
      OBVIOUS
    <3>2. filled \in SUBSET Slots /\ (1 \in filled => 1 \in missing)
      BY <2>1
    <3> HIDE DEF held, missing, candidates, filled
    <3> QED
      BY <2>3, <2>9, <3>1, <3>2, PicksWithAreFeasible
  <2>6. reservation' \in Table /\ Disjoint(reservation')
    <3> HIDE DEF held, missing, filled
    <3>1. TypeOK /\ p \in Times
      BY <1>2 DEF IInv
    <3>2. reservation' \in Table
      BY <2>2, <2>5, <2>9, <3>1, ReserveRecords
    <3>3. Disjoint(reservation')
      BY <2>2, <2>5, <2>9, <3>1, ReserveIsDisjoint
    <3> QED
      BY <3>2, <3>3
  <2>7. ASSUME NEW c \in Slots, reservation'[b][c].state = "ALLOCATED"
        PROVE  [state |-> "OFFERED", lapsed |-> FALSE,
                worker |-> reservation'[b][c].worker] \in Assignment
    <3>1. reservation'[b][c] \in Reservation
      BY <2>6 DEF Table
    <3>2. reservation'[b][c].worker \in Workers
      BY <2>7, <3>1 DEF Reservation, Released
    <3> QED
      BY <3>2 DEF Assignment
  <2>8. assignment' \in [Bookings -> [Slots -> Assignment]]
    BY <2>3, <2>7 DEF IInv, TypeOK
  <2>10. required' \in CrewSizes
    BY <2>4, LowerCrew DEF IInv
  <2> QED
    BY <2>6, <2>8, <2>10
<1> QED
  BY <1>1, <1>2

-----------------------------------------------------------------------------
(* Transitions. *)

LEMMA TransitionsAreOfBookings ==
  \A t \in BookingTransitions : t.from \in BookingStatuses /\ t.to \in BookingStatuses
  BY DEF BookingTransitions, T, BookingStatuses

\* An applied transition moves a booking that exists, and no other.
LEMMA ApplyMoves ==
  ASSUME TypeOK, NEW b \in Bookings, NEW event, NEW source, Apply(b, event, source)
  PROVE  /\ period[b] \in Times
         /\ status' \in [Bookings -> BookingStatuses \cup {"UNBOOKED"}]
         /\ \A x \in Bookings \ {b} : status'[x] = status[x]
         /\ window' \in [Bookings -> Windows]
<1>1. PICK to \in Resolve(status[b], event, source) :
        status' = [status EXCEPT ![b] = to]
  BY DEF Apply
<1>2. PICK t \in BookingTransitions : t.from = status[b] /\ t.to = to
  BY <1>1 DEF Resolve
<1>3. status[b] \in BookingStatuses /\ to \in BookingStatuses
  BY <1>2, TransitionsAreOfBookings
<1>4. status[b] # "UNBOOKED"
  BY <1>3 DEF BookingStatuses
<1>5. window' \in [Bookings -> Windows]
  BY DEF Apply, TypeOK, Windows
<1> QED
  BY <1>1, <1>3, <1>4, <1>5 DEF TypeOK

-----------------------------------------------------------------------------
(* What an operation hands to dispatch. *)

\* A booking that gives back none, some or all of its reservations.
LEMMA LessIsKept ==
  ASSUME TypeOK, NEW b \in Bookings
  PROVE  /\ KeptBy(b, reservation[b])
         /\ KeptBy(b, LiveReleased(b))
         /\ KeptBy(b, NothingReserved)
         /\ \A c \in Slots : \A w : KeptBy(b, [reservation[b] EXCEPT ![c] =
                                                  IF @.worker = w THEN Released ELSE @])
<1>1. Released \in Reservation /\ ~Active(Released)
  BY DEF Reservation, Released, Active
<1>2. reservation[b] \in [Slots -> Reservation]
  BY DEF TypeOK
<1>3. KeptBy(b, reservation[b])
  BY <1>2 DEF KeptBy, Within
<1>4. KeptBy(b, LiveReleased(b))
  BY <1>1, <1>2 DEF KeptBy, Within, LiveReleased
<1>5. KeptBy(b, NothingReserved)
  BY <1>1 DEF KeptBy, Within, NothingReserved
<1>6. ASSUME NEW c \in Slots, NEW w
      PROVE  KeptBy(b, [reservation[b] EXCEPT ![c] = IF @.worker = w THEN Released ELSE @])
  BY <1>1, <1>2 DEF KeptBy, Within
<1> QED
  BY <1>3, <1>4, <1>5, <1>6

\* The assignments an operation ends, and the workers they tell of.
LEMMA EndedAssignments ==
  ASSUME TypeOK, NEW b \in Bookings
  PROVE  /\ assignment[b] \in [Slots -> Assignment]
         /\ LiveEnded(b) \in [Slots -> Assignment]
         /\ AcceptedBy(b) \subseteq Workers
         /\ \A c \in Slots :
              /\ [assignment[b] EXCEPT ![c] = NoAssignment] \in [Slots -> Assignment]
              /\ assignment[b][c].state = "OFFERED" => assignment[b][c].worker \in Workers
<1>1. assignment[b] \in [Slots -> Assignment] /\ NoAssignment \in Assignment
  BY DEF TypeOK, Assignment
<1>2. ASSUME NEW c \in Slots, assignment[b][c].state # "NONE"
      PROVE  assignment[b][c].worker \in Workers
  BY <1>1, <1>2 DEF Assignment, NoAssignment
<1>3. AcceptedBy(b) \subseteq Workers
  BY <1>2 DEF AcceptedBy
<1>4. LiveEnded(b) \in [Slots -> Assignment]
  BY <1>1 DEF LiveEnded
<1> QED
  BY <1>1, <1>2, <1>3, <1>4

\* A booking that gives all its capacity back.
LEMMA GiveBackIsSound ==
  ASSUME IInv, NEW b \in Bookings, GiveCapacityBack(b)
  PROVE  /\ reservation' \in Table
         /\ Disjoint(reservation')
         /\ assignment' \in [Bookings -> [Slots -> Assignment]]
         /\ tried' \in [Bookings -> SUBSET Workers]
<1>1. TypeOK /\ reservation \in Table /\ Disjoint(reservation)
  BY DEF IInv, TypeOK, Table, NoDoubleBooking, Disjoint
<1>2. KeptBy(b, NothingReserved)
  BY <1>1, LessIsKept
<1>3. reservation' = [reservation EXCEPT ![b] = NothingReserved]
  BY DEF GiveCapacityBack
<1>4. reservation' \in Table
  BY <1>1, <1>2, <1>3 DEF KeptBy, Table
<1>5. \A x \in Bookings, c \in Slots : Within(reservation'[x][c], reservation[x][c])
  BY <1>1, <1>2, <1>3 DEF KeptBy, Within, Table
<1>6. Disjoint(reservation')
  BY <1>1, <1>4, <1>5, NothingNew
<1>7. /\ assignment' \in [Bookings -> [Slots -> Assignment]]
      /\ tried' \in [Bookings -> SUBSET Workers]
  BY <1>1, EndedAssignments DEF GiveCapacityBack, TypeOK
<1> QED
  BY <1>4, <1>6, <1>7

\* Holds taken for every slot of a booking that keeps nothing it had.
LEMMA HoldIsSound ==
  ASSUME IInv, NEW b \in Bookings, NEW p \in Times,
         NEW f \in Picks(Needed(b), {w \in Workers : CanTake(w, b, NothingReserved, p)}),
         reservation' = Reserve(b, NothingReserved, f, "HELD", p)
  PROVE  reservation' \in Table /\ Disjoint(reservation')
<1>1. TypeOK /\ Needed(b) \in SUBSET Slots
  BY NeededSlots DEF IInv
<1>2. KeptBy(b, NothingReserved)
  BY <1>1, LessIsKept
<1>3. Feasible(Needed(b), b, NothingReserved, f, p)
  BY <1>1, PicksAreFeasible
<1>4. reservation' \in Table
  BY <1>1, <1>2, <1>3, ReserveRecords
<1>5. Disjoint(reservation')
  BY <1>1, <1>2, <1>3, ReserveIsDisjoint
<1> QED
  BY <1>4, <1>5

-----------------------------------------------------------------------------
(* Every operation preserves the invariant. *)

\* Status, period and window stay well-typed.
Course ==
    /\ status' \in [Bookings -> BookingStatuses \cup {"UNBOOKED"}]
    /\ period' \in [Bookings -> Times \cup {{}}]
    /\ \A b \in Bookings : status'[b] # "UNBOOKED" => period'[b] \in Times
    /\ window' \in [Bookings -> Windows]

\* Reservations, assignments and the workers tried stay well-typed and disjoint.
Capacity ==
    /\ reservation' \in Table /\ Disjoint(reservation')
    /\ assignment' \in [Bookings -> [Slots -> Assignment]]
    /\ tried' \in [Bookings -> SUBSET Workers]
    /\ required' \in CrewSizes

LEMMA Assemble ==
  ASSUME Course, Capacity, available' \in SUBSET Workers
  PROVE  IInv'
  BY DEF Course, Capacity, IInv, TypeOK, NoDoubleBooking, Disjoint, Table

LEMMA CapacityUnchanged ==
  ASSUME IInv, UNCHANGED <<reservation, assignment, tried, required>>
  PROVE  Capacity
  BY DEF IInv, TypeOK, NoDoubleBooking, Disjoint, Table, Capacity

LEMMA CourseUnchanged ==
  ASSUME TypeOK, UNCHANGED <<status, period, window>>
  PROVE  Course
  BY DEF TypeOK, Course

LEMMA ApplyKeepsCourse ==
  ASSUME TypeOK, NEW b \in Bookings, NEW event, NEW source,
         Apply(b, event, source), UNCHANGED period
  PROVE  Course /\ period[b] \in Times
<1>1. /\ period[b] \in Times
      /\ status' \in [Bookings -> BookingStatuses \cup {"UNBOOKED"}]
      /\ \A x \in Bookings \ {b} : status'[x] = status[x]
      /\ window' \in [Bookings -> Windows]
  BY ApplyMoves
<1>2. \A x \in Bookings : status'[x] # "UNBOOKED" => period[x] \in Times
  BY <1>1 DEF TypeOK
<1> QED
  BY <1>1, <1>2 DEF TypeOK, Course

\* An operation that dispatches the booking, whatever it kept and ended.
LEMMA DispatchKeepsCapacity ==
  ASSUME IInv, NEW b \in Bookings, NEW st, NEW rb, KeptBy(b, rb),
         NEW ob \in [Slots -> Assignment], NEW gone, NEW p,
         st = "CONFIRMED" => p \in Times,
         NEW prefer \in Workers \cup {NoWorker},
         AllocateAndOffer(b, st, rb, ob, gone, p, prefer),
         tried' \in [Bookings -> SUBSET Workers]
  PROVE  Capacity
  BY AllocateIsSound DEF Capacity

LEMMA CreateHolds ==
  ASSUME IInv, NEW b \in Bookings, NEW p \in Times, Create(b, p)
  PROVE  IInv'
<1>1. PICK f \in Picks(Needed(b), {w \in Workers : CanTake(w, b, NothingReserved, p)}) :
        reservation' = Reserve(b, NothingReserved, f, "HELD", p)
  BY DEF Create
<1>2. reservation' \in Table /\ Disjoint(reservation')
  BY <1>1, HoldIsSound
<1>3. Capacity
  BY <1>2 DEF Create, Capacity, IInv, TypeOK
<1>4. Course
  BY DEF Create, Course, IInv, TypeOK, BookingStatuses, Windows
<1> QED
  BY <1>3, <1>4, Assemble DEF Create, IInv, TypeOK

LEMMA ConfirmHolds ==
  ASSUME IInv, NEW b \in Bookings, NEW event, NEW source, Confirm(b, event, source)
  PROVE  IInv'
<1>1. TypeOK
  BY DEF IInv
<1>2. Course /\ period[b] \in Times
  BY <1>1, ApplyKeepsCourse DEF Confirm
<1>3. KeptBy(b, reservation[b]) /\ assignment[b] \in [Slots -> Assignment]
  BY <1>1, LessIsKept, EndedAssignments
<1>4. tried' \in [Bookings -> SUBSET Workers] /\ available' \in SUBSET Workers
  BY <1>1 DEF Confirm, TypeOK
<1>5. Capacity
  BY <1>2, <1>3, <1>4, DispatchKeepsCapacity DEF Confirm
<1> QED
  BY <1>2, <1>4, <1>5, Assemble

\* ExpireUnpaid, Cancel and PlaceOnHold.
LEMMA EndHolds ==
  ASSUME IInv, NEW b \in Bookings, NEW event, NEW source,
         Apply(b, event, source), GiveCapacityBack(b),
         UNCHANGED <<period, available, required>>
  PROVE  IInv'
<1>1. Course
  BY ApplyKeepsCourse DEF IInv
<1>2. Capacity
  BY GiveBackIsSound DEF Capacity, IInv, TypeOK
<1> QED
  BY <1>1, <1>2, Assemble DEF IInv, TypeOK

LEMMA AcceptHolds ==
  ASSUME IInv, NEW b \in Bookings, NEW c \in Slots, Accept(b, c)
  PROVE  IInv'
<1>1. TypeOK /\ reservation \in Table /\ Disjoint(reservation)
  BY DEF IInv, TypeOK, Table, NoDoubleBooking, Disjoint
<1>2. Course
  <2>1. CASE Apply(b, "WORKER_ACCEPTED", "WORKER_APP")
    BY <1>1, <2>1, ApplyKeepsCourse DEF Accept
  <2>2. CASE UNCHANGED <<status, window>>
    BY <1>1, <2>2, CourseUnchanged DEF Accept
  <2> QED
    BY <2>1, <2>2 DEF Accept
<1>3. reservation' \in Table /\ Disjoint(reservation')
  <2>1. CASE reservation[b][c].state = "ALLOCATED"
             /\ reservation' = [reservation EXCEPT ![b][c].state = "ACCEPTED"]
    <3>1. reservation[b][c] \in [state : {"HELD", "ALLOCATED", "ACCEPTED"},
                                 worker : Workers, period : Times]
      BY <1>1, <2>1 DEF Table, Reservation, Released
    <3>2. /\ reservation'[b][c] = [reservation[b][c] EXCEPT !.state = "ACCEPTED"]
          /\ \A x \in Bookings, d \in Slots :
                x # b \/ d # c => reservation'[x][d] = reservation[x][d]
          /\ reservation' = [x \in Bookings |-> [d \in Slots |-> reservation'[x][d]]]
      BY <1>1, <2>1 DEF Table
    <3>3. /\ reservation'[b][c].worker = reservation[b][c].worker
          /\ reservation'[b][c].period = reservation[b][c].period
          /\ reservation'[b][c] \in Reservation
      BY <3>1, <3>2 DEF Reservation
    <3>4. reservation' \in Table
      BY <1>1, <3>2, <3>3 DEF Table
    <3>5. \A x \in Bookings, d \in Slots : Within(reservation'[x][d], reservation[x][d])
      BY <2>1, <3>2, <3>3 DEF Within, Active
    <3> QED
      BY <1>1, <3>4, <3>5, NothingNew
  <2>2. CASE reservation' = reservation
    BY <1>1, <2>2
  <2> QED
    BY <2>1, <2>2 DEF Accept
<1>4. assignment' \in [Bookings -> [Slots -> Assignment]]
  <2>1. assignment[b][c] \in [state : {"OFFERED", "ACCEPTED", "COMPLETED"},
                              worker : Workers, lapsed : BOOLEAN]
    BY <1>1 DEF Accept, TypeOK, Assignment, NoAssignment
  <2>2. [assignment[b][c] EXCEPT !.state = "ACCEPTED"] \in Assignment
    BY <2>1 DEF Assignment
  <2> QED
    BY <1>1, <2>2 DEF Accept, TypeOK
<1> QED
  BY <1>1, <1>2, <1>3, <1>4, Assemble DEF Accept, Capacity, TypeOK

\* Reject and ExpireOverdueOffer.
LEMMA OfferNextHolds ==
  ASSUME IInv, NEW b \in Bookings, NEW c \in Slots,
         assignment[b][c].state = "OFFERED", OfferNext(b, c)
  PROVE  IInv'
<1> DEFINE w == assignment[b][c].worker
           freed == [reservation[b] EXCEPT ![c] = IF @.worker = w THEN Released ELSE @]
           ended == [assignment[b] EXCEPT ![c] = NoAssignment]
<1>1. TypeOK
  BY DEF IInv
<1>2. KeptBy(b, freed)
  BY <1>1, LessIsKept
<1>3. ended \in [Slots -> Assignment] /\ w \in Workers
  BY <1>1, EndedAssignments
<1>4. /\ tried' = [tried EXCEPT ![b] = @ \cup {w}]
      /\ AllocateAndOffer(b, status[b], freed, ended, tried'[b], period[b], NoWorker)
      /\ UNCHANGED <<status, period, window, available>>
  BY DEF OfferNext
<1>5. tried' \in [Bookings -> SUBSET Workers]
  BY <1>1, <1>3, <1>4 DEF TypeOK
<1>6. status[b] = "CONFIRMED" => period[b] \in Times
  BY <1>1 DEF TypeOK
<1>7. Capacity
  <2> HIDE DEF freed, ended
  <2> QED
    BY <1>2, <1>3, <1>4, <1>5, <1>6, DispatchKeepsCapacity
<1> QED
  BY <1>1, <1>4, <1>7, CourseUnchanged, Assemble DEF TypeOK

LEMMA UnassignHolds ==
  ASSUME IInv, NEW b \in Bookings, NEW source, NEW prefer \in Workers \cup {NoWorker},
         Unassign(b, source, prefer)
  PROVE  IInv'
<1>1. TypeOK
  BY DEF IInv
<1>2. Course
  <2>1. CASE UNCHANGED <<status, window>>
    BY <1>1, <2>1, CourseUnchanged DEF Unassign
  <2>2. CASE Apply(b, "WORKER_UNASSIGNED", source)
    BY <1>1, <2>2, ApplyKeepsCourse DEF Unassign
  <2> QED
    BY <2>1, <2>2 DEF Unassign
<1>3. period[b] \in Times
  BY <1>1 DEF Unassign, TypeOK
<1>4. KeptBy(b, LiveReleased(b)) /\ LiveEnded(b) \in [Slots -> Assignment]
  BY <1>1, LessIsKept, EndedAssignments
<1>5. tried' \in [Bookings -> SUBSET Workers]
  BY <1>1, EndedAssignments DEF Unassign, TypeOK
<1>6. Capacity
  BY <1>3, <1>4, <1>5, DispatchKeepsCapacity DEF Unassign
<1> QED
  BY <1>1, <1>2, <1>6, Assemble DEF Unassign, TypeOK

LEMMA RedispatchHolds ==
  ASSUME IInv, NEW b \in Bookings, Redispatch(b)
  PROVE  IInv'
<1>1. TypeOK /\ period[b] \in Times
  BY DEF IInv, Redispatch, TypeOK
<1>2. KeptBy(b, reservation[b]) /\ assignment[b] \in [Slots -> Assignment]
  BY <1>1, LessIsKept, EndedAssignments
<1>3. tried' \in [Bookings -> SUBSET Workers]
  BY <1>1 DEF Redispatch, TypeOK
<1>4. Capacity
  BY <1>1, <1>2, <1>3, DispatchKeepsCapacity DEF Redispatch
<1> QED
  BY <1>1, <1>4, CourseUnchanged, Assemble DEF Redispatch, TypeOK

LEMMA ReleaseHoldHolds ==
  ASSUME IInv, NEW b \in Bookings, ReleaseHold(b)
  PROVE  IInv'
<1>1. TypeOK
  BY DEF IInv
<1>2. Course /\ period[b] \in Times
  BY <1>1, ApplyKeepsCourse DEF ReleaseHold
<1>3. KeptBy(b, reservation[b]) /\ assignment[b] \in [Slots -> Assignment]
  BY <1>1, LessIsKept, EndedAssignments
<1>4. tried' \in [Bookings -> SUBSET Workers]
  BY <1>1 DEF ReleaseHold, TypeOK
<1>5. Capacity
  BY <1>2, <1>3, <1>4, DispatchKeepsCapacity DEF ReleaseHold
<1> QED
  BY <1>1, <1>2, <1>5, Assemble DEF ReleaseHold, TypeOK

LEMMA RescheduleHolds ==
  ASSUME IInv, NEW b \in Bookings, NEW p \in Times, Reschedule(b, p)
  PROVE  IInv'
<1>1. TypeOK
  BY DEF IInv
<1>2. /\ status' \in [Bookings -> BookingStatuses \cup {"UNBOOKED"}]
      /\ \A x \in Bookings \ {b} : status'[x] = status[x]
      /\ window' \in [Bookings -> Windows]
  <2>1. CASE UNCHANGED <<status, window>>
    BY <1>1, <2>1 DEF TypeOK
  <2>2. CASE Apply(b, "WORKER_UNASSIGNED", "SYSTEM")
    BY <1>1, <2>2, ApplyMoves
  <2> QED
    BY <2>1, <2>2 DEF Reschedule
<1>3. period' = [period EXCEPT ![b] = p]
  BY DEF Reschedule
<1>4. Course
  BY <1>1, <1>2, <1>3 DEF TypeOK, Course
<1>5. KeptBy(b, NothingReserved) /\ LiveEnded(b) \in [Slots -> Assignment]
  BY <1>1, LessIsKept, EndedAssignments
<1>6. tried' \in [Bookings -> SUBSET Workers]
  BY <1>1 DEF Reschedule, TypeOK
<1>7. CASE ReserveAgain(b, p)
  <2>1. PICK f \in Picks(Needed(b), {w \in Workers : CanTake(w, b, NothingReserved, p)}) :
          reservation' = Reserve(b, NothingReserved, f, "HELD", p)
    BY <1>7 DEF ReserveAgain
  <2>2. reservation' \in Table /\ Disjoint(reservation')
    BY <2>1, HoldIsSound
  <2>3. assignment' \in [Bookings -> [Slots -> Assignment]]
    BY <1>1, <1>5, <1>7 DEF ReserveAgain, TypeOK
  <2> QED
    BY <1>1, <1>4, <1>6, <1>7, <2>2, <2>3, Assemble
       DEF Capacity, Reschedule, ReserveAgain, TypeOK
<1>8. CASE AllocateAndOffer(b, status'[b], NothingReserved, LiveEnded(b),
                            tried[b], p, NoWorker)
  <2>1. Capacity
    BY <1>5, <1>6, <1>8, DispatchKeepsCapacity
  <2> QED
    BY <1>1, <1>4, <2>1, Assemble DEF Reschedule, TypeOK
<1> QED
  BY <1>7, <1>8 DEF Reschedule

LEMMA FieldEventHolds ==
  ASSUME IInv, NEW b \in Bookings, NEW event, FieldEvent(b, event)
  PROVE  IInv'
<1>1. TypeOK
  BY DEF IInv
<1>2. Course
  BY <1>1, ApplyKeepsCourse DEF FieldEvent
<1>3. \A c \in Slots : assignment[b][c].state = "ACCEPTED" =>
        [assignment[b][c] EXCEPT !.state = "COMPLETED"] \in Assignment
  BY <1>1 DEF TypeOK, Assignment, NoAssignment
<1>4. assignment' \in [Bookings -> [Slots -> Assignment]]
  BY <1>1, <1>3 DEF FieldEvent, TypeOK
<1>5. Capacity
  BY <1>4 DEF FieldEvent, Capacity, IInv, TypeOK, NoDoubleBooking, Disjoint, Table
<1> QED
  BY <1>1, <1>2, <1>5, Assemble DEF FieldEvent, TypeOK

LEMMA ReleaseExpiredHoldsHolds ==
  ASSUME IInv, ReleaseExpiredHolds
  PROVE  IInv'
<1>1. TypeOK /\ reservation \in Table /\ Disjoint(reservation)
  BY DEF IInv, TypeOK, Table, NoDoubleBooking, Disjoint
<1>2. Released \in Reservation /\ ~Active(Released)
  BY DEF Reservation, Released, Active
<1>3. reservation' \in Table
  BY <1>1, <1>2 DEF ReleaseExpiredHolds, Table
<1>4. \A x \in Bookings, c \in Slots : Within(reservation'[x][c], reservation[x][c])
  BY <1>1, <1>2 DEF ReleaseExpiredHolds, Within
<1>5. Disjoint(reservation')
  BY <1>1, <1>3, <1>4, NothingNew
<1> QED
  BY <1>1, <1>3, <1>5, CourseUnchanged, Assemble DEF ReleaseExpiredHolds, Capacity, TypeOK

\* Time passes, workers come and go, and administrators change services.
LEMMA EnvironmentHolds ==
  ASSUME IInv,
         \/ \E b \in Bookings : PaymentDeadlinePasses(b) \/ GraceEnds(b)
         \/ \E b \in Bookings, c \in Slots : OfferLapses(b, c)
         \/ \E w \in Workers : AvailabilityChanges(w)
         \/ \E s \in Services : UpdateService(s)
  PROVE  IInv'
<1>1. TypeOK
  BY DEF IInv
<1>2. ASSUME NEW b \in Bookings, PaymentDeadlinePasses(b) \/ GraceEnds(b)
      PROVE  IInv'
  <2>1. Course
    BY <1>1, <1>2 DEF PaymentDeadlinePasses, GraceEnds, Course, TypeOK, Windows
  <2>2. UNCHANGED <<reservation, assignment, tried, available, required>>
    BY <1>2 DEF PaymentDeadlinePasses, GraceEnds
  <2> QED
    BY <1>1, <2>1, <2>2, CapacityUnchanged, Assemble DEF TypeOK
<1>3. ASSUME NEW b \in Bookings, NEW c \in Slots, OfferLapses(b, c)
      PROVE  IInv'
  <2>1. assignment[b][c] \in [state : {"OFFERED", "ACCEPTED", "COMPLETED"},
                              worker : Workers, lapsed : BOOLEAN]
    BY <1>1, <1>3 DEF OfferLapses, TypeOK, Assignment, NoAssignment
  <2>2. [assignment[b][c] EXCEPT !.lapsed = TRUE] \in Assignment
    BY <2>1 DEF Assignment
  <2>3. assignment' \in [Bookings -> [Slots -> Assignment]]
    BY <1>1, <1>3, <2>2 DEF OfferLapses, TypeOK
  <2>4. Capacity
    BY <1>3, <2>3 DEF OfferLapses, Capacity, IInv, TypeOK, NoDoubleBooking, Disjoint, Table
  <2> QED
    BY <1>1, <1>3, <2>4, CourseUnchanged, Assemble DEF OfferLapses, TypeOK
<1>4. ASSUME NEW w \in Workers, AvailabilityChanges(w)
      PROVE  IInv'
  <2>1. available' \in SUBSET Workers
    BY <1>1, <1>4 DEF AvailabilityChanges, TypeOK
  <2> QED
    BY <1>1, <1>4, <2>1, CourseUnchanged, CapacityUnchanged, Assemble DEF AvailabilityChanges
<1>5. ASSUME NEW s \in Services, UpdateService(s)
      PROVE  IInv'
  <2>1. PICK crew \in (1..CrewLimit[s]) \ {required[s]} :
          required' = [required EXCEPT ![s] = crew]
    BY <1>5 DEF UpdateService
  <2>2. CrewLimit[s] \in Nat /\ crew \in Slots /\ crew <= CrewLimit[s]
    BY <2>1, CrewAssumption DEF Slots
  <2>3. required' \in CrewSizes
    BY <1>1, <2>1, <2>2 DEF TypeOK, CrewSizes
  <2>4. Capacity
    BY <1>5, <2>3 DEF UpdateService, Capacity, IInv, TypeOK, NoDoubleBooking, Disjoint, Table
  <2> QED
    BY <1>1, <1>5, <2>4, CourseUnchanged, Assemble DEF UpdateService, TypeOK
<1> QED
  BY <1>2, <1>3, <1>4, <1>5

-----------------------------------------------------------------------------
LEMMA InitHolds == Init => IInv
<1>1. Init => TypeOK
  BY DEF Init, TypeOK, Windows, NothingReserved, NothingOffered, Reservation, Assignment
<1>2. Init => NoDoubleBooking
  BY DEF Init, NoDoubleBooking, NothingReserved, Released, Active
<1> QED
  BY <1>1, <1>2 DEF IInv

LEMMA BookingStepHolds ==
  ASSUME IInv, NEW b \in Bookings, BookingStep(b)
  PROVE  IInv'
<1>1. CASE \E p \in Times : Create(b, p) \/ Reschedule(b, p)
  BY <1>1, CreateHolds, RescheduleHolds
<1>2. CASE ConfirmPaid(b) \/ ConfirmWithoutPrepayment(b)
  BY <1>2, ConfirmHolds DEF ConfirmPaid, ConfirmWithoutPrepayment
<1>3. CASE ExpireUnpaid(b) \/ PlaceOnHold(b) \/ \E source \in Sources : Cancel(b, source)
  BY <1>3, EndHolds DEF ExpireUnpaid, PlaceOnHold, Cancel
<1>4. CASE \E c \in Slots : Accept(b, c)
  BY <1>4, AcceptHolds
<1>5. CASE \E c \in Slots : Reject(b, c) \/ ExpireOverdueOffer(b, c)
  BY <1>5, OfferNextHolds DEF Reject, ExpireOverdueOffer
<1>6. CASE WorkerWithdraws(b) \/ TakeOffJob(b) \/ \E w \in Workers : AssignTo(b, w)
  BY <1>6, UnassignHolds DEF WorkerWithdraws, TakeOffJob, AssignTo
<1>7. CASE Redispatch(b) \/ RedispatchUnassigned(b)
  BY <1>7, RedispatchHolds DEF RedispatchUnassigned
<1>8. CASE ReleaseHold(b)
  BY <1>8, ReleaseHoldHolds
<1>9. CASE \E event \in FieldEvents : FieldEvent(b, event)
  BY <1>9, FieldEventHolds
<1>10. CASE Close(b)
  <2>1. Course
    BY <1>10, ApplyKeepsCourse DEF Close, IInv
  <2> QED
    BY <1>10, <2>1, CapacityUnchanged, Assemble DEF Close, IInv, TypeOK
<1> QED
  BY <1>1, <1>2, <1>3, <1>4, <1>5, <1>6, <1>7, <1>8, <1>9, <1>10 DEF BookingStep

LEMMA StepHolds == IInv /\ [Next]_vars => IInv'
<1> SUFFICES ASSUME IInv, [Next]_vars
             PROVE  IInv'
  OBVIOUS
<1>1. CASE \E b \in Bookings : BookingStep(b)
  BY <1>1, BookingStepHolds
<1>2. CASE ReleaseExpiredHolds
  BY <1>2, ReleaseExpiredHoldsHolds
<1>3. CASE \/ \E b \in Bookings : PaymentDeadlinePasses(b) \/ GraceEnds(b)
           \/ \E b \in Bookings, c \in Slots : OfferLapses(b, c)
           \/ \E w \in Workers : AvailabilityChanges(w)
           \/ \E s \in Services : UpdateService(s)
  BY <1>3, EnvironmentHolds
<1>4. CASE UNCHANGED vars
  BY <1>4, CourseUnchanged, CapacityUnchanged, Assemble DEF vars, IInv, TypeOK
<1> QED
  BY <1>1, <1>2, <1>3, <1>4 DEF Next

\* The inductive invariant: the types of the state, and no double booking.
THEOREM Invariant == Spec => []IInv
  BY InitHolds, StepHolds, PTL DEF Spec

\* Bookings, reservations, assignments and workers stay well-typed.
THEOREM Typing == Spec => []TypeOK
<1>1. IInv => TypeOK
  BY DEF IInv
<1> QED
  BY <1>1, Invariant, PTL

\* No worker's time is ever reserved twice, for any number of bookings, workers
\* and times, whatever the crews: two reservations of one worker whose blocked
\* periods overlap are the same reservation.
THEOREM NeverDoubleBooked == Spec => []NoDoubleBooking
<1>1. IInv => NoDoubleBooking
  BY DEF IInv
<1> QED
  BY <1>1, Invariant, PTL

-----------------------------------------------------------------------------
(***************************************************************************)
(* What reservations, offers and statuses say of each other, whatever the  *)
(* crew size is now.  Orderly states it slot by slot.  A step changes one  *)
(* booking's rows, for which Orderly is shown to hold again, together with *)
(* what the action properties say of them; of the others' rows it can only *)
(* release holds whose deadline has passed.                                *)
(***************************************************************************)

\* The visit has taken place, or the customer was not there.
Over == {"COMPLETED", "NO_SHOW", "CLOSED"}

\* Statuses in which a worker may have been offered the job.
Dispatched == {"CONFIRMED", "ASSIGNED", "EN_ROUTE", "ARRIVED", "IN_PROGRESS"} \cup Over

\* The reservation behind the live assignment a of a booking at p.
Backs(r, a, p) ==
    /\ r.worker = a.worker /\ r.period = p
    /\ r.state = IF a.state = "OFFERED" THEN "ALLOCATED" ELSE "ACCEPTED"

\* How a booking's status st and time p go with reservation r and assignment a
\* of one of its slots.  An allocation may be without an offer: when its slot was
\* above the crew size at the time.
SlotOK(st, p, r, a) ==
    /\ r.state = "HELD" => st = "PENDING_PAYMENT" /\ r.period = p
    /\ r.state = "ALLOCATED" => st \in Dispatched /\ r.period = p
    /\ r.state = "ACCEPTED" => Live(a) \/ st \in Over
    /\ Live(a) => st \in Dispatched /\ Backs(r, a, p)

\* The same for all slots R and A, with the payment deadline w.
RowOK(st, w, p, R, A) ==
    /\ w # "NONE" <=> st = "PENDING_PAYMENT"
    /\ \A c \in Slots : SlotOK(st, p, R[c], A[c])

Orderly ==
    \A b \in Bookings :
        RowOK(status[b], window[b], period[b], reservation[b], assignment[b])

\* The rows of booking b after a step.
RowHoldsNext(b) ==
    RowOK(status'[b], window'[b], period'[b], reservation'[b], assignment'[b])

\* A step leaves other bookings than b alone, but for holds past their deadline.
ExpiredOnly(b) ==
    \A x \in Bookings \ {b}, c \in Slots :
        \/ reservation'[x][c] = reservation[x][c]
        \/ /\ reservation'[x][c] = Released
           /\ reservation[x][c].state = "HELD" /\ DeadlinePassed(x)

OthersKept(b) ==
    /\ ExpiredOnly(b)
    /\ \A x \in Bookings \ {b} :
          /\ status'[x] = status[x] /\ window'[x] = window[x]
          /\ period'[x] = period[x] /\ assignment'[x] = assignment[x]

\* What CrewIsComplete, PayableTimeIsHeld and NoLeakedCapacity say of a step.
CrewKept(b) ==
    Crewed(status'[b]) =>
        IF Crewed(status[b])
        THEN \A c \in Slots : assignment[b][c].state = "ACCEPTED"
                                 => assignment'[b][c] = assignment[b][c]
        ELSE AcceptedSlots(assignment'[b]) >= required[ServiceOf[b]]

TimeKept(b) ==
    window'[b] = "OPEN" =>
        \/ /\ window[b] = "OPEN"
           /\ period'[b] = period[b] /\ reservation'[b] = reservation[b]
        \/ \A c \in Needed(b) : HeldFor(b, c)'

UseKept(b) ==
    \A c \in Slots :
        Purposeful(b, c) =>
            \/ Purposeful(b, c)'
            \/ reservation[b][c].state = "HELD" /\ c \notin Needed(b)

Kept(b) == CrewKept(b) /\ TimeKept(b) /\ UseKept(b)

\* A step of booking b that leaves the whole in order.
GoodStep(b) == OthersKept(b) /\ RowHoldsNext(b) /\ Kept(b)

-----------------------------------------------------------------------------
(* Rows. *)

LEMMA ReleasedSlot ==
  /\ ~Active(Released) /\ Released.state = "RELEASED"
  /\ ~Live(NoAssignment) /\ NoAssignment.state = "NONE"
  BY DEF Active, Released, Live, NoAssignment

\* A released hold leaves its slot in order.
LEMMA ReleasedIsOK ==
  ASSUME NEW st, NEW p, NEW r, NEW a, SlotOK(st, p, r, a), r.state = "HELD"
  PROVE  SlotOK(st, p, Released, a)
<1>1. ~Live(a)
  BY DEF SlotOK, Backs
<1> QED
  BY <1>1, ReleasedSlot DEF SlotOK

\* So is a booking whose rows a step of another one leaves alone.
LEMMA OtherRow ==
  ASSUME TypeOK, TypeOK', Orderly, NEW b \in Bookings, OthersKept(b),
         NEW x \in Bookings \ {b}
  PROVE  RowHoldsNext(x) /\ Kept(x)
<1>1. /\ status'[x] = status[x] /\ window'[x] = window[x]
      /\ period'[x] = period[x] /\ assignment'[x] = assignment[x]
  BY DEF OthersKept
<1>2. \A c \in Slots :
        \/ reservation'[x][c] = reservation[x][c]
        \/ /\ reservation'[x][c] = Released
           /\ reservation[x][c].state = "HELD" /\ DeadlinePassed(x)
  BY DEF OthersKept, ExpiredOnly
<1>3. /\ RowOK(status[x], window[x], period[x], reservation[x], assignment[x])
      /\ \A c \in Slots : SlotOK(status[x], period[x], reservation[x][c], assignment[x][c])
  BY DEF Orderly, RowOK
<1>4. ASSUME NEW c \in Slots
      PROVE  SlotOK(status[x], period[x], reservation'[x][c], assignment[x][c])
  BY <1>2, <1>3, ReleasedIsOK
<1>5. RowHoldsNext(x)
  BY <1>1, <1>3, <1>4 DEF RowHoldsNext, RowOK
<1>6. CrewKept(x)
  BY <1>1 DEF CrewKept
<1>7. TimeKept(x)
  <2>1. ASSUME window[x] = "OPEN"
        PROVE  reservation'[x] = reservation[x]
    <3>1. \A c \in Slots : reservation'[x][c] = reservation[x][c]
      BY <1>2, <2>1 DEF DeadlinePassed
    <3>2. /\ reservation[x] \in [Slots -> Reservation]
          /\ reservation'[x] \in [Slots -> Reservation]
      BY DEF TypeOK
    <3> QED
      BY <3>1, <3>2
  <2> QED
    BY <1>1, <2>1 DEF TimeKept
<1>8. UseKept(x)
  BY <1>1, <1>2, ReleasedSlot DEF UseKept, Purposeful
<1> QED
  BY <1>5, <1>6, <1>7, <1>8 DEF Kept

\* The whole stays in order when the rows of one booking do.
LEMMA OneRow ==
  ASSUME TypeOK, TypeOK', Orderly, NEW b \in Bookings, GoodStep(b)
  PROVE  Orderly' /\ \A x \in Bookings : Kept(x)
<1>1. \A x \in Bookings : RowHoldsNext(x) /\ Kept(x)
  BY OtherRow DEF GoodStep
<1> QED
  BY <1>1 DEF Orderly, RowHoldsNext

\* A booking that holds nothing and offers nothing is in order, and a step that
\* leaves it like that, unless it may still be paid, is a good one.
LEMMA EmptyRow ==
  ASSUME NEW st, NEW w, NEW p, NEW R, NEW A,
         w # "NONE" <=> st = "PENDING_PAYMENT",
         \A c \in Slots : R[c] = Released /\ ~Live(A[c])
  PROVE  RowOK(st, w, p, R, A)
<1>1. ASSUME NEW c \in Slots
      PROVE  SlotOK(st, p, R[c], A[c])
  BY ReleasedSlot DEF SlotOK, Live
<1> QED
  BY <1>1 DEF RowOK

LEMMA EmptyIsKept ==
  ASSUME NEW b, ~Crewed(status'[b]), window'[b] # "OPEN",
         \A c \in Slots : reservation'[b][c] = Released
  PROVE  Kept(b)
  BY ReleasedSlot DEF Kept, CrewKept, TimeKept, UseKept, Purposeful

-----------------------------------------------------------------------------
(* Transitions. *)

Targets(e) ==
    CASE e \in {"PAYMENT_CAPTURED", "CONFIRM_WITHOUT_PREPAYMENT"} -> "CONFIRMED"
      [] e = "HOLD_EXPIRED" -> "EXPIRED"
      [] e = "CANCEL" -> "CANCELLED"
      [] e = "PLACE_ON_HOLD" -> "ON_HOLD"
      [] e = "WORKER_ACCEPTED" -> "ASSIGNED"
      [] e \in {"WORKER_UNASSIGNED", "RELEASE_HOLD"} -> "CONFIRMED"
      [] e = "START_TRAVEL" -> "EN_ROUTE"
      [] e = "MARK_ARRIVED" -> "ARRIVED"
      [] e = "START_SERVICE" -> "IN_PROGRESS"
      [] e = "CUSTOMER_NO_SHOW" -> "NO_SHOW"
      [] e = "COMPLETE_SERVICE" -> "COMPLETED"
      [] e = "CLOSE" -> "CLOSED"

\* Where the events of the visit start from.
StartOf(e) ==
    CASE e = "START_TRAVEL" -> "ASSIGNED"
      [] e = "MARK_ARRIVED" -> "EN_ROUTE"
      [] e \in {"START_SERVICE", "CUSTOMER_NO_SHOW"} -> "ARRIVED"
      [] e = "COMPLETE_SERVICE" -> "IN_PROGRESS"

LEMMA TransitionTable ==
  \A t \in BookingTransitions :
    /\ t.to = Targets(t.event) /\ t.to # "PENDING_PAYMENT"
    /\ t.event \in FieldEvents => t.from = StartOf(t.event)
    /\ t.event = "RELEASE_HOLD" => t.from = "ON_HOLD"
    /\ t.event \in {"PAYMENT_CAPTURED", "CONFIRM_WITHOUT_PREPAYMENT"} =>
         t.from = "PENDING_PAYMENT"
    /\ t.event = "CLOSE" => t.from \in {"COMPLETED", "NO_SHOW"}
  BY DEF BookingTransitions, T, Targets, StartOf, FieldEvents

\* What a transition does to status and deadline.
LEMMA ApplyEffect ==
  ASSUME TypeOK, Orderly, NEW b \in Bookings, NEW event, NEW source, Apply(b, event, source)
  PROVE  /\ \A x \in Bookings \ {b} : status'[x] = status[x] /\ window'[x] = window[x]
         /\ status'[b] = Targets(event) /\ status'[b] # "PENDING_PAYMENT"
         /\ window'[b] = "NONE"
         /\ event \in FieldEvents => status[b] = StartOf(event)
         /\ event = "RELEASE_HOLD" => status[b] = "ON_HOLD"
         /\ event \in {"PAYMENT_CAPTURED", "CONFIRM_WITHOUT_PREPAYMENT"} =>
              status[b] = "PENDING_PAYMENT"
         /\ event = "CLOSE" => status[b] \in {"COMPLETED", "NO_SHOW"}
<1>1. PICK to \in Resolve(status[b], event, source) :
        status' = [status EXCEPT ![b] = to]
  BY DEF Apply
<1>2. PICK t \in BookingTransitions : t.from = status[b] /\ t.event = event /\ t.to = to
  BY <1>1 DEF Resolve
<1>3. /\ status'[b] = to
      /\ \A x \in Bookings \ {b} : status'[x] = status[x]
  BY <1>1 DEF TypeOK
<1>4. window[b] # "NONE" <=> status[b] = "PENDING_PAYMENT"
  BY DEF Orderly, RowOK
<1>5. /\ window'[b] = "NONE"
      /\ \A x \in Bookings \ {b} : window'[x] = window[x]
  BY <1>4 DEF Apply, TypeOK
<1> QED
  BY <1>2, <1>3, <1>5, TransitionTable

-----------------------------------------------------------------------------
(* Capacity taken for one booking. *)

\* Rows with which a booking can be dispatched at p: what it has is for p, and
\* its live assignments are backed.
Offerable(rb, ob, p) ==
    \A c \in Slots :
        /\ rb[c].state \in {"HELD", "ALLOCATED"} => rb[c].period = p
        /\ rb[c].state = "ACCEPTED" => Live(ob[c])
        /\ Live(ob[c]) => Backs(rb[c], ob[c], p)

LEMMA Kinds ==
  /\ \A r \in Reservation : r.state \in {"RELEASED", "HELD", "ALLOCATED", "ACCEPTED"}
  /\ \A r \in Reservation : r.state = "RELEASED" => r = Released
  /\ \A r \in Reservation : r.state # "RELEASED" =>
        r \in [state : {"HELD", "ALLOCATED", "ACCEPTED"}, worker : Workers, period : Times]
  /\ \A a \in Assignment : a.state \in {"NONE", "OFFERED", "ACCEPTED", "COMPLETED"}
  BY DEF Reservation, Released, Assignment, NoAssignment

\* Holds for every slot of the crew.
LEMMA HeldRow ==
  ASSUME IInv, NEW b \in Bookings, NEW p \in Times,
         NEW f \in Picks(Needed(b), {w \in Workers : CanTake(w, b, NothingReserved, p)}),
         \A c \in Needed(b) : f[c] # NoWorker,
         reservation' = Reserve(b, NothingReserved, f, "HELD", p)
  PROVE  /\ ExpiredOnly(b)
         /\ \A c \in Needed(b) :
               reservation'[b][c].state = "HELD" /\ reservation'[b][c].period = p
         /\ \A c \in Slots \ Needed(b) : reservation'[b][c] = Released
<1>1. TypeOK /\ Needed(b) \in SUBSET Slots
  BY NeededSlots DEF IInv
<1>2. KeptBy(b, NothingReserved)
  BY <1>1, LessIsKept
<1>3. Feasible(Needed(b), b, NothingReserved, f, p)
  BY <1>1, PicksAreFeasible
<1>4. /\ \A c \in Needed(b) : f[c] # NoWorker =>
            reservation'[b][c].state = "HELD" /\ reservation'[b][c].period = p
      /\ \A c \in Slots : (c \in Needed(b) /\ f[c] # NoWorker)
                          \/ reservation'[b][c] = NothingReserved[c]
      /\ ExpiredOnly(b)
  BY <1>1, <1>2, <1>3, ReserveRecords DEF ExpiredOnly
<1> QED
  BY <1>1, <1>4 DEF NothingReserved

\* A dispatched booking is in order: each slot it fills is offered, and what it
\* has beyond its crew is what it had.
LEMMA DispatchedRow ==
  ASSUME IInv, NEW b \in Bookings, NEW rb, KeptBy(b, rb),
         NEW ob \in [Slots -> Assignment], NEW gone, NEW p \in Times,
         NEW prefer \in Workers \cup {NoWorker}, Offerable(rb, ob, p),
         AllocateAndOffer(b, "CONFIRMED", rb, ob, gone, p, prefer)
  PROVE  /\ ExpiredOnly(b)
         /\ \A x \in Bookings \ {b} : assignment'[x] = assignment[x]
         /\ \A c \in Slots :
               /\ SlotOK("CONFIRMED", p, reservation'[b][c], assignment'[b][c])
               /\ \/ ~Active(reservation'[b][c])
                  \/ Live(assignment'[b][c])
                  \/ /\ c \notin Needed(b) /\ ~Live(ob[c])
                     /\ rb[c].state \in {"HELD", "ALLOCATED"}
<1> DEFINE held == [c \in Slots |-> IF rb[c].state = "HELD"
                                    THEN [rb[c] EXCEPT !.state = "ALLOCATED"]
                                    ELSE rb[c]]
           idle == {c \in Needed(b) : ~Live(ob[c])}
           missing == {c \in idle : held[c].state # "ALLOCATED"}
           candidates == {w \in Workers \ gone : CanTake(w, b, held, p)}
<1>1. TypeOK /\ missing \in SUBSET Slots /\ Needed(b) \subseteq Slots
  BY NeededSlots DEF IInv
<1>2. KeptBy(b, held)
  BY HoldsBecomeAllocations
<1>3. /\ prefer # NoWorker /\ 1 \in missing => CanTake(prefer, b, held, p)
      /\ \E crew \in Needed(b) :
            /\ required' = [required EXCEPT ![ServiceOf[b]] = crew]
            /\ \E f \in PicksWith(missing \cap 1..crew, candidates, prefer) :
                  reservation' = Reserve(b, held, f, "ALLOCATED", p)
      /\ assignment' = [assignment EXCEPT ![b] = [c \in Slots |->
            IF c \in idle /\ reservation'[b][c].state = "ALLOCATED"
            THEN [state |-> "OFFERED", lapsed |-> FALSE,
                  worker |-> reservation'[b][c].worker]
            ELSE ob[c]]]
  BY DEF AllocateAndOffer
<1>4. PICK crew \in Needed(b) :
        \E f \in PicksWith(missing \cap 1..crew, candidates, prefer) :
           reservation' = Reserve(b, held, f, "ALLOCATED", p)
  BY <1>3
<1> DEFINE filled == missing \cap 1..crew
<1>9. PICK f \in PicksWith(filled, candidates, prefer) :
        reservation' = Reserve(b, held, f, "ALLOCATED", p)
  BY <1>4
<1>5. Feasible(filled, b, held, f, p)
  <2>1. candidates \in SUBSET Workers /\ \A w \in candidates : CanTake(w, b, held, p)
    OBVIOUS
  <2>2. filled \in SUBSET Slots /\ (1 \in filled => 1 \in missing)
    BY <1>1
  <2> HIDE DEF held, missing, candidates, filled
  <2> QED
    BY <1>3, <1>9, <2>1, <2>2, PicksWithAreFeasible
<1>6. /\ \A c \in filled : f[c] # NoWorker =>
            reservation'[b][c].state = "ALLOCATED" /\ reservation'[b][c].period = p
      /\ \A c \in Slots : (c \in filled /\ f[c] # NoWorker) \/ reservation'[b][c] = held[c]
      /\ ExpiredOnly(b)
  <2> HIDE DEF held, missing, filled
  <2> QED
    BY <1>1, <1>2, <1>5, <1>9, ReserveRecords DEF ExpiredOnly
<1>7. \A x \in Bookings \ {b} : assignment'[x] = assignment[x]
  BY <1>1, <1>3 DEF TypeOK
<1>8. ASSUME NEW c \in Slots
      PROVE  /\ SlotOK("CONFIRMED", p, reservation'[b][c], assignment'[b][c])
             /\ \/ ~Active(reservation'[b][c])
                \/ Live(assignment'[b][c])
                \/ /\ c \notin Needed(b) /\ ~Live(ob[c])
                   /\ rb[c].state \in {"HELD", "ALLOCATED"}
  <2>1. assignment'[b][c] = IF c \in idle /\ reservation'[b][c].state = "ALLOCATED"
                            THEN [state |-> "OFFERED", lapsed |-> FALSE,
                                  worker |-> reservation'[b][c].worker]
                            ELSE ob[c]
    BY <1>1, <1>3 DEF TypeOK
  <2>2. /\ rb[c].state \in {"HELD", "ALLOCATED"} => rb[c].period = p
        /\ rb[c].state = "ACCEPTED" => Live(ob[c])
        /\ Live(ob[c]) => Backs(rb[c], ob[c], p)
    BY DEF Offerable
  <2>3. rb[c] \in Reservation /\ ob[c] \in Assignment
    BY DEF KeptBy
  <2>4. rb[c].state = "HELD" => held[c].state = "ALLOCATED" /\ held[c].period = p
    BY <2>2, <2>3, Kinds
  <2>5. rb[c].state # "HELD" => held[c] = rb[c]
    OBVIOUS
  <2>9. c \in filled => c \in idle
    OBVIOUS
  <2>10. c \in idle <=> c \in Needed(b) /\ ~Live(ob[c])
    OBVIOUS
  <2> HIDE DEF held, candidates, idle, filled
  <2>6. CASE c \in idle /\ reservation'[b][c].state = "ALLOCATED"
    <3>1. reservation'[b][c].period = p
      <4>1. CASE c \in filled /\ f[c] # NoWorker
        BY <1>6, <4>1
      <4>2. CASE reservation'[b][c] = held[c]
        BY <2>2, <2>4, <2>5, <2>6, <4>2
      <4> QED
        BY <1>6, <4>1, <4>2
    <3>2. /\ assignment'[b][c].state = "OFFERED"
          /\ assignment'[b][c].worker = reservation'[b][c].worker
      BY <2>1, <2>6
    <3> QED
      BY <2>6, <3>1, <3>2 DEF SlotOK, Backs, Live, Dispatched
  <2>7. CASE c \in idle /\ reservation'[b][c].state # "ALLOCATED"
    <3>1. reservation'[b][c] = held[c]
      BY <1>6, <2>7
    <3>2. rb[c].state = "RELEASED" /\ reservation'[b][c] = rb[c]
      BY <2>2, <2>3, <2>4, <2>5, <2>7, <2>10, <3>1, Kinds
    <3>3. assignment'[b][c] = ob[c] /\ ~Live(ob[c])
      BY <2>1, <2>7, <2>10
    <3> QED
      BY <3>2, <3>3 DEF SlotOK, Live, Active
  <2>8. CASE c \notin idle
    <3>1. reservation'[b][c] = held[c] /\ assignment'[b][c] = ob[c]
      BY <1>6, <2>1, <2>8, <2>9
    <3>2. CASE Live(ob[c])
      <4>1. rb[c].state \in {"ALLOCATED", "ACCEPTED"} /\ Backs(rb[c], ob[c], p)
        BY <2>2, <3>2 DEF Backs
      <4> QED
        BY <2>2, <2>5, <3>1, <3>2, <4>1 DEF SlotOK, Dispatched
    <3>3. CASE ~Live(ob[c])
      <4>1. c \notin Needed(b)
        BY <2>8, <2>10, <3>3
      <4>2. CASE rb[c].state \in {"HELD", "ALLOCATED"}
        <5>1. reservation'[b][c].state = "ALLOCATED" /\ reservation'[b][c].period = p
          BY <2>2, <2>4, <2>5, <3>1, <4>2
        <5> QED
          BY <3>1, <3>3, <4>1, <4>2, <5>1 DEF SlotOK, Dispatched
      <4>3. CASE rb[c].state = "RELEASED"
        BY <2>5, <3>1, <3>3, <4>3 DEF SlotOK, Active
      <4> QED
        BY <2>2, <2>3, <3>3, <4>2, <4>3, Kinds
    <3> QED
      BY <3>2, <3>3
  <2> QED
    BY <2>6, <2>7, <2>8
<1> QED
  BY <1>6, <1>7, <1>8

-----------------------------------------------------------------------------
(* Every operation is a good step. *)

\* What a booking's rows say while it is in order.
LEMMA Row ==
  ASSUME Orderly, NEW b \in Bookings
  PROVE  /\ RowOK(status[b], window[b], period[b], reservation[b], assignment[b])
         /\ \A c \in Slots :
               SlotOK(status[b], period[b], reservation[b][c], assignment[b][c])
  BY DEF Orderly, RowOK

\* A confirmed booking can be dispatched as it is, and one that is not yet
\* confirmed or is on hold has only its holds.
LEMMA CanBeDispatched ==
  ASSUME Orderly, NEW b \in Bookings,
         status[b] \in {"PENDING_PAYMENT", "CONFIRMED", "ON_HOLD"}
  PROVE  Offerable(reservation[b], assignment[b], period[b])
  BY Row DEF SlotOK, Offerable, Over

\* An allocation nobody is offered serves no purpose before the visit is over.
LEMMA Unoffered ==
  ASSUME NEW b \in Bookings, NEW c \in Slots, status[b] \notin Over,
         reservation[b][c].state = "ALLOCATED", ~Live(assignment[b][c])
  PROVE  ~Purposeful(b, c)
  BY DEF Purposeful, Active, Over

\* Dispatching leaves a confirmed booking whose rows are in order: it keeps some
\* of its rows and ends assignments only along with their reservations.
LEMMA DispatchIsGood ==
  ASSUME IInv, Orderly, NEW b \in Bookings, status[b] \notin Over,
         NEW rb, KeptBy(b, rb), NEW ob \in [Slots -> Assignment], NEW gone,
         \A c \in Slots : rb[c].state = "RELEASED" \/ rb[c] = reservation[b][c],
         \A c \in Slots : rb[c].state = "ALLOCATED" /\ Live(assignment[b][c]) => Live(ob[c]),
         NEW prefer \in Workers \cup {NoWorker},
         period'[b] \in Times, Offerable(rb, ob, period'[b]),
         AllocateAndOffer(b, "CONFIRMED", rb, ob, gone, period'[b], prefer),
         status'[b] = "CONFIRMED", window'[b] = "NONE",
         \A x \in Bookings \ {b} : /\ status'[x] = status[x] /\ window'[x] = window[x]
                                   /\ period'[x] = period[x]
  PROVE  GoodStep(b)
<1> DEFINE p == period'[b]
<1>1. p \in Times /\ Offerable(rb, ob, p)
      /\ AllocateAndOffer(b, "CONFIRMED", rb, ob, gone, p, prefer)
  OBVIOUS
<1> HIDE DEF p
<1>2. /\ ExpiredOnly(b)
      /\ \A x \in Bookings \ {b} : assignment'[x] = assignment[x]
      /\ \A c \in Slots :
            /\ SlotOK("CONFIRMED", p, reservation'[b][c], assignment'[b][c])
            /\ \/ ~Active(reservation'[b][c])
               \/ Live(assignment'[b][c])
               \/ /\ c \notin Needed(b) /\ ~Live(ob[c])
                  /\ rb[c].state \in {"HELD", "ALLOCATED"}
  BY <1>1, DispatchedRow
<1>3. RowHoldsNext(b)
  BY <1>2 DEF RowHoldsNext, RowOK, p
<1>4. CrewKept(b) /\ TimeKept(b)
  BY DEF CrewKept, TimeKept, Crewed
<1>5. ASSUME NEW c \in Slots, Purposeful(b, c), ~Purposeful(b, c)'
      PROVE  reservation[b][c].state = "HELD" /\ c \notin Needed(b)
  <2>1. /\ c \notin Needed(b) /\ ~Live(ob[c])
        /\ rb[c].state \in {"HELD", "ALLOCATED"}
    BY <1>2, <1>5 DEF Purposeful
  <2>2. rb[c] = reservation[b][c]
    BY <2>1
  <2>3. reservation[b][c].state # "ALLOCATED"
    BY <1>5, <2>1, <2>2, Unoffered
  <2> QED
    BY <2>1, <2>2, <2>3
<1>6. UseKept(b)
  BY <1>5 DEF UseKept
<1> QED
  BY <1>2, <1>3, <1>4, <1>6 DEF GoodStep, OthersKept, Kept

LEMMA CreateIsGood ==
  ASSUME IInv, Orderly, NEW b \in Bookings, NEW p \in Times, Create(b, p)
  PROVE  GoodStep(b)
<1>1. TypeOK /\ Needed(b) \subseteq Slots
  BY NeededSlots DEF IInv
<1>2. PICK f \in Picks(Needed(b), {w \in Workers : CanTake(w, b, NothingReserved, p)}) :
        /\ \A c \in Needed(b) : f[c] # NoWorker
        /\ reservation' = Reserve(b, NothingReserved, f, "HELD", p)
  BY DEF Create
<1>3. /\ ExpiredOnly(b)
      /\ \A c \in Needed(b) :
            reservation'[b][c].state = "HELD" /\ reservation'[b][c].period = p
      /\ \A c \in Slots \ Needed(b) : reservation'[b][c] = Released
  BY <1>2, HeldRow
<1>4. /\ status'[b] = "PENDING_PAYMENT" /\ window'[b] = "OPEN" /\ period'[b] = p
      /\ assignment' = assignment
      /\ \A x \in Bookings \ {b} : /\ status'[x] = status[x] /\ window'[x] = window[x]
                                   /\ period'[x] = period[x]
  BY <1>1 DEF Create, TypeOK
<1>5. ASSUME NEW c \in Slots
      PROVE  SlotOK("PENDING_PAYMENT", p, reservation'[b][c], assignment[b][c])
  <2>1. SlotOK("UNBOOKED", period[b], reservation[b][c], assignment[b][c])
    BY Row DEF Create
  <2>2. ~Live(assignment[b][c])
    BY <2>1 DEF SlotOK, Dispatched, Over
  <2> QED
    BY <1>3, <2>2, ReleasedSlot DEF SlotOK
<1>6. RowHoldsNext(b)
  BY <1>4, <1>5 DEF RowHoldsNext, RowOK
<1>7. CrewKept(b) /\ TimeKept(b)
  BY <1>1, <1>3, <1>4 DEF CrewKept, TimeKept, HeldFor, Crewed
<1>8. UseKept(b)
  BY <1>3, <1>4, ReleasedSlot DEF UseKept, Purposeful
<1> QED
  BY <1>3, <1>4, <1>6, <1>7, <1>8 DEF GoodStep, OthersKept, Kept

LEMMA ConfirmIsGood ==
  ASSUME IInv, Orderly, NEW b \in Bookings, NEW source,
         NEW event \in {"PAYMENT_CAPTURED", "CONFIRM_WITHOUT_PREPAYMENT"},
         Confirm(b, event, source)
  PROVE  GoodStep(b)
<1>1. TypeOK /\ Apply(b, event, source) /\ period' = period
      /\ AllocateAndOffer(b, "CONFIRMED", reservation[b], assignment[b],
                          tried[b], period[b], NoWorker)
  BY DEF IInv, Confirm
<1>2. KeptBy(b, reservation[b]) /\ assignment[b] \in [Slots -> Assignment]
  BY <1>1, LessIsKept, EndedAssignments
<1>3. /\ status'[b] = "CONFIRMED" /\ window'[b] = "NONE" /\ status[b] = "PENDING_PAYMENT"
      /\ \A x \in Bookings \ {b} : status'[x] = status[x] /\ window'[x] = window[x]
  BY <1>1, ApplyEffect DEF Targets
<1>4. period[b] \in Times /\ status[b] \notin Over
  BY <1>1, <1>3 DEF TypeOK, Over
<1>5. Offerable(reservation[b], assignment[b], period[b])
  BY <1>3, CanBeDispatched
<1> QED
  BY <1>1, <1>2, <1>3, <1>4, <1>5, DispatchIsGood

LEMMA ReleaseHoldIsGood ==
  ASSUME IInv, Orderly, NEW b \in Bookings, ReleaseHold(b)
  PROVE  GoodStep(b)
<1>1. TypeOK /\ Apply(b, "RELEASE_HOLD", "ADMIN") /\ period' = period
      /\ AllocateAndOffer(b, "CONFIRMED", reservation[b], assignment[b],
                          tried[b], period[b], NoWorker)
  BY DEF IInv, ReleaseHold
<1>2. KeptBy(b, reservation[b]) /\ assignment[b] \in [Slots -> Assignment]
  BY <1>1, LessIsKept, EndedAssignments
<1>3. /\ status'[b] = "CONFIRMED" /\ window'[b] = "NONE" /\ status[b] = "ON_HOLD"
      /\ \A x \in Bookings \ {b} : status'[x] = status[x] /\ window'[x] = window[x]
  BY <1>1, ApplyEffect DEF Targets
<1>4. period[b] \in Times /\ status[b] \notin Over
  BY <1>1, <1>3 DEF TypeOK, Over
<1>5. Offerable(reservation[b], assignment[b], period[b])
  BY <1>3, CanBeDispatched
<1> QED
  BY <1>1, <1>2, <1>3, <1>4, <1>5, DispatchIsGood

LEMMA RedispatchIsGood ==
  ASSUME IInv, Orderly, NEW b \in Bookings, Redispatch(b)
  PROVE  GoodStep(b)
<1>1. TypeOK /\ status[b] = "CONFIRMED" /\ UNCHANGED <<status, period, window>>
      /\ AllocateAndOffer(b, "CONFIRMED", reservation[b], assignment[b],
                          tried[b], period[b], NoWorker)
  BY DEF IInv, Redispatch
<1>2. KeptBy(b, reservation[b]) /\ assignment[b] \in [Slots -> Assignment]
  BY <1>1, LessIsKept, EndedAssignments
<1>3. window[b] = "NONE" /\ period[b] \in Times /\ status[b] \notin Over
  BY <1>1, Row DEF RowOK, TypeOK, Over
<1>4. Offerable(reservation[b], assignment[b], period[b])
  BY <1>1, CanBeDispatched
<1> QED
  BY <1>1, <1>2, <1>3, <1>4, DispatchIsGood

\* ExpireUnpaid, Cancel and PlaceOnHold.
LEMMA EndIsGood ==
  ASSUME IInv, Orderly, NEW b \in Bookings, NEW source,
         NEW event \in {"HOLD_EXPIRED", "CANCEL", "PLACE_ON_HOLD"},
         Apply(b, event, source), GiveCapacityBack(b),
         UNCHANGED <<period, available, required>>
  PROVE  GoodStep(b)
<1>1. TypeOK
  BY DEF IInv
<1>2. /\ status'[b] \in {"EXPIRED", "CANCELLED", "ON_HOLD"} /\ window'[b] = "NONE"
      /\ \A x \in Bookings \ {b} : status'[x] = status[x] /\ window'[x] = window[x]
  BY <1>1, ApplyEffect DEF Targets
<1>3. /\ reservation' = [reservation EXCEPT ![b] = NothingReserved]
      /\ assignment' = [assignment EXCEPT ![b] = LiveEnded(b)]
  BY DEF GiveCapacityBack
<1>4. \A c \in Slots : reservation'[b][c] = Released /\ ~Live(assignment'[b][c])
  BY <1>1, <1>3, ReleasedSlot DEF TypeOK, NothingReserved, LiveEnded
<1>5. RowHoldsNext(b) /\ Kept(b)
  BY <1>2, <1>4, EmptyRow, EmptyIsKept DEF RowHoldsNext, Crewed
<1>6. OthersKept(b)
  BY <1>1, <1>2, <1>3 DEF OthersKept, ExpiredOnly, TypeOK
<1> QED
  BY <1>5, <1>6 DEF GoodStep

LEMMA AcceptIsGood ==
  ASSUME IInv, Orderly, NEW b \in Bookings, NEW c \in Slots, Accept(b, c)
  PROVE  GoodStep(b)
<1>1. TypeOK /\ assignment[b][c].state = "OFFERED" /\ period' = period
  BY DEF IInv, Accept
<1>2. /\ RowOK(status[b], window[b], period[b], reservation[b], assignment[b])
      /\ \A d \in Slots :
            SlotOK(status[b], period[b], reservation[b][d], assignment[b][d])
  BY Row
<1>3. /\ status[b] \in Dispatched /\ window[b] = "NONE"
      /\ Backs(reservation[b][c], assignment[b][c], period[b])
      /\ reservation[b][c].state = "ALLOCATED"
  BY <1>1, <1>2 DEF RowOK, SlotOK, Live, Backs, Dispatched, Over
<1>4. /\ reservation' = [reservation EXCEPT ![b][c].state = "ACCEPTED"]
      /\ assignment' = [assignment EXCEPT ![b][c].state = "ACCEPTED"]
  BY <1>3 DEF Accept, Backs
<1>5. /\ reservation[b][c] \in [state : {"HELD", "ALLOCATED", "ACCEPTED"},
                                worker : Workers, period : Times]
      /\ assignment[b][c] \in [state : {"OFFERED", "ACCEPTED", "COMPLETED"},
                               worker : Workers, lapsed : BOOLEAN]
  BY <1>1, <1>3 DEF TypeOK, Reservation, Released, Assignment, NoAssignment
<1>6. /\ reservation'[b][c] = [reservation[b][c] EXCEPT !.state = "ACCEPTED"]
      /\ assignment'[b][c] = [assignment[b][c] EXCEPT !.state = "ACCEPTED"]
      /\ \A d \in Slots \ {c} : /\ reservation'[b][d] = reservation[b][d]
                                /\ assignment'[b][d] = assignment[b][d]
      /\ \A x \in Bookings \ {b} : /\ reservation'[x] = reservation[x]
                                   /\ assignment'[x] = assignment[x]
  BY <1>1, <1>4 DEF TypeOK
<1>7. /\ reservation'[b][c].state = "ACCEPTED" /\ assignment'[b][c].state = "ACCEPTED"
      /\ Backs(reservation'[b][c], assignment'[b][c], period[b])
  <2>1. /\ reservation'[b][c].state = "ACCEPTED" /\ assignment'[b][c].state = "ACCEPTED"
        /\ reservation'[b][c].worker = reservation[b][c].worker
        /\ reservation'[b][c].period = reservation[b][c].period
        /\ assignment'[b][c].worker = assignment[b][c].worker
    BY <1>5, <1>6
  <2> QED
    BY <1>3, <2>1 DEF Backs
<1>8. /\ \A x \in Bookings \ {b} : status'[x] = status[x] /\ window'[x] = window[x]
      /\ window'[b] = "NONE"
      /\ \/ status'[b] = status[b]
         \/ /\ status[b] = "CONFIRMED" /\ status'[b] = "ASSIGNED"
            /\ AcceptedSlots(assignment'[b]) >= required[ServiceOf[b]]
  <2>1. CASE /\ Apply(b, "WORKER_ACCEPTED", "WORKER_APP")
             /\ status[b] = "CONFIRMED"
             /\ AcceptedSlots(assignment'[b]) >= required[ServiceOf[b]]
    BY <1>1, <2>1, ApplyEffect DEF Targets
  <2>2. CASE UNCHANGED <<status, window>>
    BY <1>3, <2>2
  <2> QED
    BY <2>1, <2>2 DEF Accept
<1>9. status'[b] \in Dispatched /\ (status[b] \in Over => status'[b] = status[b])
  BY <1>3, <1>8 DEF Dispatched, Over
<1>10. ASSUME NEW d \in Slots
      PROVE  SlotOK(status'[b], period[b], reservation'[b][d], assignment'[b][d])
  <2>1. CASE d = c
    BY <1>7, <1>9, <2>1 DEF SlotOK, Live
  <2>2. CASE d # c
    <3>1. /\ SlotOK(status[b], period[b], reservation[b][d], assignment[b][d])
          /\ reservation'[b][d] = reservation[b][d] /\ assignment'[b][d] = assignment[b][d]
      BY <1>2, <1>6, <2>2
    <3>2. reservation[b][d].state # "HELD"
      BY <1>3, <3>1 DEF SlotOK, Dispatched, Over
    <3> QED
      BY <1>9, <3>1, <3>2 DEF SlotOK
  <2> QED
    BY <2>1, <2>2
<1>11. status'[b] # "PENDING_PAYMENT"
  BY <1>9 DEF Dispatched, Over
<1>12. RowHoldsNext(b)
  BY <1>1, <1>8, <1>10, <1>11 DEF RowHoldsNext, RowOK
<1>13. OthersKept(b)
  BY <1>1, <1>6, <1>8 DEF OthersKept, ExpiredOnly
<1>14. CrewKept(b)
  <2>1. \A d \in Slots : assignment[b][d].state = "ACCEPTED" =>
          assignment'[b][d] = assignment[b][d]
    BY <1>1, <1>6
  <2>2. ~Crewed("CONFIRMED")
    BY DEF Crewed
  <2> QED
    BY <1>8, <2>1, <2>2 DEF CrewKept
<1>15. UseKept(b)
  <2>1. ASSUME NEW d \in Slots, Purposeful(b, d)
        PROVE  Purposeful(b, d)'
    <3>1. CASE d = c
      BY <1>7, <3>1 DEF Purposeful, Live
    <3>2. CASE d # c
      <4>1. status[b] # "PENDING_PAYMENT"
        BY <1>3 DEF Dispatched, Over
      <4>2. reservation'[b][d] = reservation[b][d] /\ assignment'[b][d] = assignment[b][d]
        BY <1>6, <3>2
      <4> QED
        BY <1>9, <2>1, <4>1, <4>2 DEF Purposeful, Over
    <3> QED
      BY <3>1, <3>2
  <2> QED
    BY <2>1 DEF UseKept
<1> QED
  BY <1>8, <1>12, <1>13, <1>14, <1>15 DEF GoodStep, Kept, TimeKept

\* Reject and ExpireOverdueOffer.
LEMMA OfferNextIsGood ==
  ASSUME IInv, Orderly, NEW b \in Bookings, NEW c \in Slots,
         assignment[b][c].state = "OFFERED", OfferNext(b, c)
  PROVE  GoodStep(b)
<1> DEFINE w == assignment[b][c].worker
           freed == [reservation[b] EXCEPT ![c] = IF @.worker = w THEN Released ELSE @]
           ended == [assignment[b] EXCEPT ![c] = NoAssignment]
<1>1. TypeOK /\ reservation[b] \in [Slots -> Reservation]
      /\ assignment[b] \in [Slots -> Assignment]
  BY DEF IInv, TypeOK
<1>2. SlotOK(status[b], period[b], reservation[b][c], assignment[b][c])
  BY Row
<1>3. status[b] \in Dispatched /\ Backs(reservation[b][c], assignment[b][c], period[b])
  BY <1>2 DEF SlotOK, Live
<1>4. window[b] = "NONE" /\ status[b] # "PENDING_PAYMENT"
  BY <1>3, Row DEF RowOK, Dispatched, Over
<1>5. ASSUME NEW d \in Slots
      PROVE  \/ d = c /\ freed[d] = Released /\ ended[d] = NoAssignment
             \/ d # c /\ freed[d] = reservation[b][d] /\ ended[d] = assignment[b][d]
  <2>1. CASE d = c
    BY <1>1, <1>3, <2>1 DEF Backs
  <2>2. CASE d # c
    BY <1>1, <2>2
  <2> QED
    BY <2>1, <2>2
<1>6. KeptBy(b, freed) /\ ended \in [Slots -> Assignment]
  BY <1>1, LessIsKept, EndedAssignments
<1>7. /\ AllocateAndOffer(b, status[b], freed, ended, tried'[b], period[b], NoWorker)
      /\ UNCHANGED <<status, period, window>>
  BY DEF OfferNext
<1> HIDE DEF freed, ended
<1>8. CASE status[b] = "CONFIRMED"
  <2>1. Offerable(reservation[b], assignment[b], period[b])
    BY <1>8, CanBeDispatched
  <2>2. Offerable(freed, ended, period[b])
    BY <1>5, <2>1, ReleasedSlot DEF Offerable
  <2>3. period[b] \in Times /\ status[b] \notin Over
    BY <1>1, <1>8 DEF TypeOK, Over
  <2>4. \A d \in Slots : /\ freed[d].state = "RELEASED" \/ freed[d] = reservation[b][d]
                         /\ freed[d].state = "ALLOCATED" /\ Live(assignment[b][d]) => Live(ended[d])
    BY <1>5, ReleasedSlot
  <2> QED
    BY <1>4, <1>6, <1>7, <1>8, <2>2, <2>3, <2>4, DispatchIsGood
<1>9. CASE status[b] # "CONFIRMED"
  <2>1. /\ reservation' = [reservation EXCEPT ![b] = freed]
        /\ assignment' = [assignment EXCEPT ![b] = ended]
    BY <1>7, <1>9 DEF AllocateAndOffer
  <2>2. /\ reservation'[b] = freed /\ assignment'[b] = ended
        /\ \A x \in Bookings \ {b} : reservation'[x] = reservation[x] /\ assignment'[x] = assignment[x]
    BY <1>1, <2>1 DEF TypeOK
  <2>3. ASSUME NEW d \in Slots
        PROVE  SlotOK(status[b], period[b], freed[d], ended[d])
    <3>1. SlotOK(status[b], period[b], reservation[b][d], assignment[b][d])
      BY Row
    <3>2. SlotOK(status[b], period[b], Released, NoAssignment)
      BY ReleasedSlot DEF SlotOK
    <3> QED
      BY <1>5, <3>1, <3>2
  <2>4. RowHoldsNext(b)
    BY <1>4, <1>7, <2>2, <2>3 DEF RowHoldsNext, RowOK
  <2>5. CrewKept(b)
    BY <1>5, <1>7, <2>2 DEF CrewKept
  <2>6. UseKept(b)
    BY <1>5, <1>7, <2>2, ReleasedSlot DEF UseKept, Purposeful
  <2> QED
    BY <1>4, <1>7, <2>2, <2>4, <2>5, <2>6
       DEF GoodStep, Kept, TimeKept, OthersKept, ExpiredOnly
<1> QED
  BY <1>8, <1>9

\* While a job can be taken from its workers, releasing their time and ending
\* their assignments leaves nothing of the crew but allocations never offered.
LEMMA NobodyLeft ==
  ASSUME TypeOK, Orderly, NEW b \in Bookings,
         status[b] \in {"CONFIRMED", "ASSIGNED", "EN_ROUTE"}, NEW c \in Slots
  PROVE  /\ ~Live(LiveEnded(b)[c])
         /\ \/ LiveReleased(b)[c] = Released
            \/ /\ LiveReleased(b)[c] = reservation[b][c] /\ ~Live(assignment[b][c])
               /\ reservation[b][c].state \notin {"HELD", "ACCEPTED"}
<1>1. SlotOK(status[b], period[b], reservation[b][c], assignment[b][c])
  BY Row
<1>2. ~Live(LiveEnded(b)[c])
  BY ReleasedSlot DEF LiveEnded
<1>3. CASE Live(assignment[b][c])
  BY <1>1, <1>2, <1>3 DEF SlotOK, Backs, LiveReleased
<1>4. CASE ~Live(assignment[b][c])
  BY <1>1, <1>2, <1>4 DEF SlotOK, Over, LiveReleased
<1> QED
  BY <1>3, <1>4

LEMMA UnassignIsGood ==
  ASSUME IInv, Orderly, NEW b \in Bookings, NEW source, NEW prefer \in Workers \cup {NoWorker},
         Unassign(b, source, prefer)
  PROVE  GoodStep(b)
<1>1. TypeOK /\ status[b] \in {"CONFIRMED", "ASSIGNED", "EN_ROUTE"} /\ period' = period
      /\ AllocateAndOffer(b, "CONFIRMED", LiveReleased(b), LiveEnded(b),
                          tried'[b], period[b], prefer)
  BY DEF IInv, Unassign
<1>2. /\ status'[b] = "CONFIRMED" /\ window'[b] = "NONE"
      /\ \A x \in Bookings \ {b} : status'[x] = status[x] /\ window'[x] = window[x]
  <2>1. CASE status[b] = "CONFIRMED" /\ UNCHANGED <<status, window>>
    BY <2>1, Row DEF RowOK
  <2>2. CASE Apply(b, "WORKER_UNASSIGNED", source)
    BY <1>1, <2>2, ApplyEffect DEF Targets
  <2> QED
    BY <2>1, <2>2 DEF Unassign
<1>3. KeptBy(b, LiveReleased(b)) /\ LiveEnded(b) \in [Slots -> Assignment]
  BY <1>1, LessIsKept, EndedAssignments
<1>4. period[b] \in Times /\ status[b] \notin Over
  BY <1>1 DEF TypeOK, Over
<1>5. \A c \in Slots :
        /\ ~Live(LiveEnded(b)[c])
        /\ \/ LiveReleased(b)[c] = Released
           \/ /\ LiveReleased(b)[c] = reservation[b][c] /\ ~Live(assignment[b][c])
              /\ reservation[b][c].state \notin {"HELD", "ACCEPTED"}
  BY <1>1, NobodyLeft
<1>6. Offerable(LiveReleased(b), LiveEnded(b), period[b])
  BY <1>5, Row, ReleasedSlot DEF Offerable, SlotOK
<1>7. \A c \in Slots :
        /\ LiveReleased(b)[c].state = "RELEASED" \/ LiveReleased(b)[c] = reservation[b][c]
        /\ ~(LiveReleased(b)[c].state = "ALLOCATED" /\ Live(assignment[b][c]))
  BY <1>5, ReleasedSlot
<1> QED
  BY <1>1, <1>2, <1>3, <1>4, <1>6, <1>7, DispatchIsGood

LEMMA RescheduleIsGood ==
  ASSUME IInv, Orderly, NEW b \in Bookings, NEW p \in Times, Reschedule(b, p)
  PROVE  GoodStep(b)
<1>1. TypeOK /\ Needed(b) \subseteq Slots /\ status[b] \in Reschedulable
  BY NeededSlots DEF IInv, Reschedule
<1>2. period'[b] = p /\ \A x \in Bookings \ {b} : period'[x] = period[x]
  BY <1>1 DEF Reschedule, TypeOK
<1>3. /\ \A x \in Bookings \ {b} : status'[x] = status[x] /\ window'[x] = window[x]
      /\ \/ status[b] = "ASSIGNED" /\ status'[b] = "CONFIRMED" /\ window'[b] = "NONE"
         \/ status[b] # "ASSIGNED" /\ status'[b] = status[b] /\ window'[b] = window[b]
  <2>1. CASE status[b] = "ASSIGNED"
    BY <1>1, <2>1, ApplyEffect DEF Reschedule, Targets
  <2>2. CASE status[b] # "ASSIGNED"
    BY <2>2 DEF Reschedule
  <2> QED
    BY <2>1, <2>2
<1>4. \A c \in Slots : ~Live(LiveEnded(b)[c])
  BY ReleasedSlot DEF LiveEnded
<1>5. CASE status[b] = "PENDING_PAYMENT"
  <2>1. ReserveAgain(b, p)
    BY <1>5 DEF Reschedule
  <2>2. PICK f \in Picks(Needed(b), {w \in Workers : CanTake(w, b, NothingReserved, p)}) :
          /\ \A c \in Needed(b) : f[c] # NoWorker
          /\ reservation' = Reserve(b, NothingReserved, f, "HELD", p)
    BY <2>1 DEF ReserveAgain
  <2>3. /\ ExpiredOnly(b)
        /\ \A c \in Needed(b) :
              reservation'[b][c].state = "HELD" /\ reservation'[b][c].period = p
        /\ \A c \in Slots \ Needed(b) : reservation'[b][c] = Released
    BY <2>2, HeldRow
  <2>4. /\ assignment'[b] = LiveEnded(b)
        /\ \A x \in Bookings \ {b} : assignment'[x] = assignment[x]
    BY <1>1, <2>1 DEF ReserveAgain, TypeOK
  <2>5. ASSUME NEW c \in Slots
        PROVE  SlotOK("PENDING_PAYMENT", p, reservation'[b][c], assignment'[b][c])
    BY <1>4, <2>3, <2>4, ReleasedSlot DEF SlotOK
  <2>6. RowHoldsNext(b)
    BY <1>2, <1>3, <1>5, <2>1, <2>5 DEF RowHoldsNext, RowOK, ReserveAgain
  <2>7. CrewKept(b) /\ TimeKept(b)
    BY <1>1, <1>2, <1>3, <1>5, <2>3 DEF CrewKept, TimeKept, HeldFor, Crewed
  <2>8. UseKept(b)
    BY <1>3, <1>5, <2>3, ReleasedSlot DEF UseKept, Purposeful
  <2> QED
    BY <1>2, <1>3, <2>3, <2>4, <2>6, <2>7, <2>8 DEF GoodStep, Kept, OthersKept
<1>6. CASE status[b] \in {"CONFIRMED", "ASSIGNED"}
  <2>1. AllocateAndOffer(b, "CONFIRMED", NothingReserved, LiveEnded(b), tried[b], p, NoWorker)
    BY <1>3, <1>6 DEF Reschedule
  <2>2. status'[b] = "CONFIRMED" /\ window'[b] = "NONE" /\ status[b] \notin Over
    BY <1>3, <1>6, Row DEF RowOK, Over
  <2>3. KeptBy(b, NothingReserved) /\ LiveEnded(b) \in [Slots -> Assignment]
    BY <1>1, LessIsKept, EndedAssignments
  <2>4. Offerable(NothingReserved, LiveEnded(b), p)
    BY <1>4, ReleasedSlot DEF Offerable, NothingReserved
  <2>5. \A c \in Slots : NothingReserved[c].state = "RELEASED"
    BY ReleasedSlot DEF NothingReserved
  <2> QED
    BY <1>2, <1>3, <2>1, <2>2, <2>3, <2>4, <2>5, DispatchIsGood
<1>7. CASE status[b] = "ON_HOLD"
  <2>1. AllocateAndOffer(b, "ON_HOLD", NothingReserved, LiveEnded(b), tried[b], p, NoWorker)
    BY <1>3, <1>7 DEF Reschedule
  <2>2. /\ reservation' = [reservation EXCEPT ![b] = NothingReserved]
        /\ assignment' = [assignment EXCEPT ![b] = LiveEnded(b)]
    BY <2>1 DEF AllocateAndOffer
  <2>3. \A c \in Slots : reservation'[b][c] = Released /\ ~Live(assignment'[b][c])
    BY <1>1, <1>4, <2>2 DEF TypeOK, NothingReserved
  <2>4. status'[b] = "ON_HOLD" /\ window'[b] = "NONE"
    BY <1>3, <1>7, Row DEF RowOK
  <2>5. RowHoldsNext(b) /\ Kept(b)
    BY <2>3, <2>4, EmptyRow, EmptyIsKept DEF RowHoldsNext, Crewed
  <2>6. OthersKept(b)
    BY <1>1, <1>2, <1>3, <2>2 DEF OthersKept, ExpiredOnly, TypeOK
  <2> QED
    BY <2>5, <2>6 DEF GoodStep
<1> QED
  BY <1>1, <1>5, <1>6, <1>7 DEF Reschedulable

LEMMA FieldEventIsGood ==
  ASSUME IInv, Orderly, NEW b \in Bookings, NEW event \in FieldEvents, FieldEvent(b, event)
  PROVE  GoodStep(b)
<1>1. TypeOK /\ period' = period /\ reservation' = reservation
  BY DEF IInv, FieldEvent
<1>2. PICK source : Apply(b, event, source)
  BY DEF FieldEvent
<1>3. /\ \A x \in Bookings \ {b} : status'[x] = status[x] /\ window'[x] = window[x]
      /\ status'[b] = Targets(event) /\ window'[b] = "NONE" /\ status[b] = StartOf(event)
  BY <1>1, <1>2, ApplyEffect
<1>4. /\ status[b] \in {"ASSIGNED", "EN_ROUTE", "ARRIVED", "IN_PROGRESS"}
      /\ event = "COMPLETE_SERVICE" => status'[b] = "COMPLETED"
      /\ event # "COMPLETE_SERVICE" =>
           status'[b] \in {"EN_ROUTE", "ARRIVED", "IN_PROGRESS", "NO_SHOW"}
  BY <1>3 DEF FieldEvents, StartOf, Targets
<1>5. status'[b] \in Dispatched /\ status[b] \notin Over
  BY <1>4 DEF Dispatched, Over
<1>6. ASSUME NEW c \in Slots
      PROVE  SlotOK(status'[b], period[b], reservation[b][c], assignment'[b][c])
  <2>1. /\ SlotOK(status[b], period[b], reservation[b][c], assignment[b][c])
        /\ assignment[b][c] \in Assignment /\ reservation[b][c] \in Reservation
    BY <1>1, Row DEF TypeOK
  <2>2. reservation[b][c].state # "HELD"
    BY <1>4, <2>1 DEF SlotOK
  <2>3. CASE event # "COMPLETE_SERVICE"
    <3>1. assignment' = assignment
      BY <2>3 DEF FieldEvent
    <3> QED
      BY <1>5, <2>1, <2>2, <3>1 DEF SlotOK
  <2>4. CASE event = "COMPLETE_SERVICE"
    <3>1. assignment'[b][c] = IF assignment[b][c].state = "ACCEPTED"
                              THEN [assignment[b][c] EXCEPT !.state = "COMPLETED"]
                              ELSE assignment[b][c]
      BY <1>1, <2>4 DEF FieldEvent, TypeOK
    <3>2. assignment[b][c].state = "ACCEPTED" => assignment'[b][c].state = "COMPLETED"
      BY <2>1, <3>1 DEF Assignment, NoAssignment
    <3>3. Live(assignment'[b][c]) => assignment'[b][c] = assignment[b][c]
      BY <3>1, <3>2 DEF Live
    <3>4. status'[b] \in Over
      BY <1>4, <2>4 DEF Over
    <3> QED
      BY <1>5, <2>1, <2>2, <3>3, <3>4 DEF SlotOK
  <2> QED
    BY <2>3, <2>4
<1>7. RowHoldsNext(b)
  <2>1. status'[b] # "PENDING_PAYMENT"
    BY <1>4
  <2> QED
    BY <1>1, <1>3, <1>6, <2>1 DEF RowHoldsNext, RowOK
<1>8. \A x \in Bookings \ {b} : assignment'[x] = assignment[x]
  BY <1>1 DEF FieldEvent, TypeOK
<1>9. event # "COMPLETE_SERVICE" => assignment' = assignment
  BY DEF FieldEvent
<1>10. CrewKept(b)
  BY <1>4, <1>9 DEF CrewKept, Crewed
<1>11. UseKept(b)
  BY <1>1, <1>4, <1>9 DEF UseKept, Purposeful
<1> QED
  BY <1>1, <1>3, <1>7, <1>8, <1>10, <1>11
     DEF GoodStep, Kept, TimeKept, OthersKept, ExpiredOnly

LEMMA CloseIsGood ==
  ASSUME IInv, Orderly, NEW b \in Bookings, Close(b)
  PROVE  GoodStep(b)
<1>1. TypeOK /\ UNCHANGED <<period, reservation, assignment>>
  BY DEF IInv, Close
<1>2. /\ \A x \in Bookings \ {b} : status'[x] = status[x] /\ window'[x] = window[x]
      /\ status'[b] = "CLOSED" /\ window'[b] = "NONE"
      /\ status[b] \in {"COMPLETED", "NO_SHOW"}
  BY <1>1, ApplyEffect DEF Close, Targets
<1>3. ASSUME NEW c \in Slots
      PROVE  SlotOK("CLOSED", period[b], reservation[b][c], assignment[b][c])
  <2>1. SlotOK(status[b], period[b], reservation[b][c], assignment[b][c])
    BY Row
  <2> QED
    BY <1>2, <2>1 DEF SlotOK, Over, Dispatched
<1>4. RowHoldsNext(b)
  BY <1>1, <1>2, <1>3 DEF RowHoldsNext, RowOK
<1>5. Kept(b)
  BY <1>1, <1>2 DEF Kept, CrewKept, TimeKept, UseKept, Purposeful, Crewed
<1> QED
  BY <1>1, <1>2, <1>4, <1>5 DEF GoodStep, OthersKept, ExpiredOnly

-----------------------------------------------------------------------------
(* Steps of no booking's own. *)

LEMMA ReleaseExpiredHoldsIsGood ==
  ASSUME IInv, IInv', Orderly, ReleaseExpiredHolds
  PROVE  Orderly' /\ \A x \in Bookings : Kept(x)
<1>1. /\ UNCHANGED <<status, period, window, assignment>>
      /\ \A x \in Bookings, c \in Slots :
           \/ reservation'[x][c] = reservation[x][c]
           \/ /\ reservation'[x][c] = Released
              /\ reservation[x][c].state = "HELD" /\ DeadlinePassed(x)
  BY DEF ReleaseExpiredHolds
<1> SUFFICES ASSUME NEW b \in Bookings
             PROVE  RowHoldsNext(b) /\ Kept(b)
  BY DEF Orderly, RowHoldsNext
<1>2. RowOK(status[b], window[b], period[b], reservation[b], assignment[b])
  BY Row
<1>3. ASSUME NEW c \in Slots
      PROVE  SlotOK(status[b], period[b], reservation'[b][c], assignment[b][c])
  BY <1>1, <1>2, ReleasedIsOK DEF RowOK
<1>4. RowHoldsNext(b)
  BY <1>1, <1>2, <1>3 DEF RowHoldsNext, RowOK
<1>5. window[b] = "OPEN" => reservation'[b] = reservation[b]
  <2>1. window[b] = "OPEN" => \A c \in Slots : reservation'[b][c] = reservation[b][c]
    BY <1>1 DEF DeadlinePassed
  <2>2. /\ reservation[b] \in [Slots -> Reservation]
        /\ reservation'[b] \in [Slots -> Reservation]
    BY DEF IInv, TypeOK
  <2> QED
    BY <2>1, <2>2
<1>6. UseKept(b)
  BY <1>1, ReleasedSlot DEF UseKept, Purposeful
<1> QED
  BY <1>1, <1>4, <1>5, <1>6 DEF Kept, CrewKept, TimeKept

\* Nothing happens to what the rows are about.
LEMMA Idle ==
  ASSUME Orderly, UNCHANGED <<status, period, window, reservation, assignment>>
  PROVE  Orderly' /\ \A x \in Bookings : Kept(x)
<1>1. Orderly'
  BY DEF Orderly, RowOK, SlotOK, Backs, Live
<1>2. \A x \in Bookings : Kept(x)
  BY DEF Kept, CrewKept, TimeKept, UseKept, Purposeful
<1> QED
  BY <1>1, <1>2

\* Time passes, workers come and go, and administrators change services.
LEMMA EnvironmentIsGood ==
  ASSUME IInv, IInv', Orderly,
         \/ \E b \in Bookings : PaymentDeadlinePasses(b) \/ GraceEnds(b)
         \/ \E b \in Bookings, c \in Slots : OfferLapses(b, c)
         \/ \E w \in Workers : AvailabilityChanges(w)
         \/ \E s \in Services : UpdateService(s)
  PROVE  Orderly' /\ \A x \in Bookings : Kept(x)
<1>1. TypeOK /\ TypeOK'
  BY DEF IInv
<1>2. ASSUME NEW b \in Bookings, PaymentDeadlinePasses(b) \/ GraceEnds(b)
      PROVE  GoodStep(b)
  <2>1. /\ window[b] \in {"OPEN", "GRACE"} /\ window'[b] \in {"GRACE", "CLOSED"}
        /\ \A x \in Bookings \ {b} : window'[x] = window[x]
        /\ UNCHANGED <<status, period, reservation, assignment>>
    BY <1>1, <1>2 DEF PaymentDeadlinePasses, GraceEnds, TypeOK
  <2>2. RowHoldsNext(b)
    BY <2>1, Row DEF RowHoldsNext, RowOK
  <2>3. Kept(b)
    BY <2>1 DEF Kept, CrewKept, TimeKept, UseKept, Purposeful
  <2> QED
    BY <2>1, <2>2, <2>3 DEF GoodStep, OthersKept, ExpiredOnly
<1>3. ASSUME NEW b \in Bookings, NEW c \in Slots, OfferLapses(b, c)
      PROVE  GoodStep(b)
  <2>1. /\ assignment' = [assignment EXCEPT ![b][c].lapsed = TRUE]
        /\ UNCHANGED <<status, period, window, reservation>>
        /\ assignment[b][c].state = "OFFERED"
    BY <1>3 DEF OfferLapses
  <2>2. assignment[b][c] \in [state : {"OFFERED", "ACCEPTED", "COMPLETED"},
                              worker : Workers, lapsed : BOOLEAN]
    BY <1>1, <2>1 DEF TypeOK, Assignment, NoAssignment
  <2>3. /\ assignment'[b][c] = [assignment[b][c] EXCEPT !.lapsed = TRUE]
        /\ \A d \in Slots \ {c} : assignment'[b][d] = assignment[b][d]
        /\ \A x \in Bookings \ {b} : assignment'[x] = assignment[x]
    BY <1>1, <2>1 DEF TypeOK
  <2>4. \A d \in Slots : /\ assignment'[b][d].state = assignment[b][d].state
                         /\ assignment'[b][d].worker = assignment[b][d].worker
    BY <2>2, <2>3
  <2>5. ASSUME NEW d \in Slots
        PROVE  SlotOK(status[b], period[b], reservation[b][d], assignment'[b][d])
    BY <2>4, Row DEF SlotOK, Backs, Live
  <2>6. RowHoldsNext(b)
    BY <2>1, <2>5, Row DEF RowHoldsNext, RowOK
  <2>7. CrewKept(b)
    BY <2>1, <2>3 DEF CrewKept
  <2>8. TimeKept(b) /\ UseKept(b)
    BY <2>1, <2>4 DEF TimeKept, UseKept, Purposeful, Live
  <2> QED
    BY <2>1, <2>3, <2>6, <2>7, <2>8 DEF GoodStep, Kept, OthersKept, ExpiredOnly
<1>4. CASE \/ \E w \in Workers : AvailabilityChanges(w)
           \/ \E s \in Services : UpdateService(s)
  <2>1. UNCHANGED <<status, period, window, reservation, assignment>>
    BY <1>4 DEF AvailabilityChanges, UpdateService
  <2> QED
    BY <2>1, Idle
<1> QED
  BY <1>1, <1>2, <1>3, <1>4, OneRow

-----------------------------------------------------------------------------
LEMMA OrderedInit == Init => Orderly
<1> SUFFICES ASSUME Init, NEW b \in Bookings
             PROVE  RowOK(status[b], window[b], period[b], reservation[b], assignment[b])
  BY DEF Orderly
<1>1. /\ status[b] = "UNBOOKED" /\ window[b] = "NONE"
      /\ \A c \in Slots : reservation[b][c] = Released /\ assignment[b][c] = NoAssignment
  BY DEF Init, NothingReserved, NothingOffered
<1> QED
  BY <1>1, ReleasedSlot, EmptyRow

LEMMA BookingStepIsGood ==
  ASSUME IInv, Orderly, NEW b \in Bookings, BookingStep(b)
  PROVE  GoodStep(b)
<1>1. CASE \E p \in Times : Create(b, p) \/ Reschedule(b, p)
  BY <1>1, CreateIsGood, RescheduleIsGood
<1>2. CASE ConfirmPaid(b) \/ ConfirmWithoutPrepayment(b)
  BY <1>2, ConfirmIsGood DEF ConfirmPaid, ConfirmWithoutPrepayment
<1>3. CASE ExpireUnpaid(b) \/ PlaceOnHold(b) \/ \E source \in Sources : Cancel(b, source)
  BY <1>3, EndIsGood DEF ExpireUnpaid, PlaceOnHold, Cancel
<1>4. CASE \E c \in Slots : Accept(b, c)
  BY <1>4, AcceptIsGood
<1>5. CASE \E c \in Slots : Reject(b, c) \/ ExpireOverdueOffer(b, c)
  BY <1>5, OfferNextIsGood DEF Reject, ExpireOverdueOffer
<1>6. CASE WorkerWithdraws(b) \/ TakeOffJob(b) \/ \E w \in Workers : AssignTo(b, w)
  BY <1>6, UnassignIsGood DEF WorkerWithdraws, TakeOffJob, AssignTo
<1>7. CASE Redispatch(b) \/ RedispatchUnassigned(b)
  BY <1>7, RedispatchIsGood DEF RedispatchUnassigned
<1>8. CASE ReleaseHold(b)
  BY <1>8, ReleaseHoldIsGood
<1>9. CASE \E event \in FieldEvents : FieldEvent(b, event)
  BY <1>9, FieldEventIsGood
<1>10. CASE Close(b)
  BY <1>10, CloseIsGood
<1> QED
  BY <1>1, <1>2, <1>3, <1>4, <1>5, <1>6, <1>7, <1>8, <1>9, <1>10 DEF BookingStep

LEMMA StepIsGood ==
  ASSUME IInv, IInv', Orderly, [Next]_vars
  PROVE  Orderly' /\ \A x \in Bookings : Kept(x)
<1>1. CASE \E b \in Bookings : BookingStep(b)
  BY <1>1, BookingStepIsGood, OneRow DEF IInv
<1>2. CASE ReleaseExpiredHolds
  BY <1>2, ReleaseExpiredHoldsIsGood
<1>3. CASE \/ \E b \in Bookings : PaymentDeadlinePasses(b) \/ GraceEnds(b)
           \/ \E b \in Bookings, c \in Slots : OfferLapses(b, c)
           \/ \E w \in Workers : AvailabilityChanges(w)
           \/ \E s \in Services : UpdateService(s)
  BY <1>3, EnvironmentIsGood
<1>4. CASE UNCHANGED vars
  BY <1>4, Idle DEF vars
<1> QED
  BY <1>1, <1>2, <1>3, <1>4 DEF Next

\* Reservations, assignments, statuses and deadlines of every booking agree.
THEOREM Order == Spec => []Orderly
<1>1. IInv /\ IInv' /\ Orderly /\ [Next]_vars => Orderly'
  BY StepIsGood
<1> QED
  BY OrderedInit, <1>1, Invariant, PTL DEF Spec

\* "An offer is a real, conflict-free slot", for any number of bookings, crews,
\* workers and times, whatever administrators make of the crew sizes: behind
\* every live assignment stands its reservation.
THEOREM EveryOfferIsReal == Spec => []OffersAreReal
<1>1. Orderly => OffersAreReal
  BY Row DEF OffersAreReal, SlotOK, Backs
<1> QED
  BY <1>1, Order, PTL

\* A booking looks crewed only once the workers its service needs by then have
\* accepted, and no step takes one of them away without saying so.
THEOREM EveryCrewIsComplete == Spec => CrewIsComplete
<1>1. ASSUME IInv, IInv', Orderly, [Next]_vars
      PROVE  [\A b \in Bookings : Crewed(status'[b]) =>
                 IF Crewed(status[b])
                 THEN \A c \in Slots : assignment[b][c].state = "ACCEPTED"
                                          => assignment'[b][c] = assignment[b][c]
                 ELSE AcceptedSlots(assignment'[b]) >= required[ServiceOf[b]]]_vars
  BY <1>1, StepIsGood DEF Kept, CrewKept
<1> QED
  BY <1>1, Invariant, Order, PTL DEF Spec, CrewIsComplete

\* While the customer may still pay, nobody but the booking's own reschedule
\* changes what is held for it.
THEOREM PayableTimeStaysHeld == Spec => PayableTimeIsHeld
<1>1. ASSUME IInv, IInv', Orderly, [Next]_vars
      PROVE  [\A b \in Bookings : window'[b] = "OPEN" =>
                 \/ /\ window[b] = "OPEN"
                    /\ period'[b] = period[b] /\ reservation'[b] = reservation[b]
                 \/ \A c \in Needed(b) : HeldFor(b, c)']_vars
  BY <1>1, StepIsGood DEF Kept, TimeKept
<1> QED
  BY <1>1, Invariant, Order, PTL DEF Spec, PayableTimeIsHeld

\* A worker's time is left blocked for nothing only by the confirmation of a
\* booking whose service needs fewer workers than were held for it.
THEOREM CapacityNeverLeaks == Spec => NoLeakedCapacity
<1>1. ASSUME IInv, IInv', Orderly, [Next]_vars
      PROVE  [\A b \in Bookings, c \in Slots :
                 Purposeful(b, c) =>
                     \/ Purposeful(b, c)'
                     \/ reservation[b][c].state = "HELD" /\ c \notin Needed(b)]_vars
  BY <1>1, StepIsGood DEF Kept, UseKept
<1> QED
  BY <1>1, Invariant, Order, PTL DEF Spec, NoLeakedCapacity
=============================================================================
