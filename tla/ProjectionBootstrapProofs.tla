----------------------- MODULE ProjectionBootstrapProofs -----------------------
(***************************************************************************)
(* For any log, events, read limit and number of crashes: what the cursors *)
(* of the projectors guarantee, and what the tables amount to after any    *)
(* number of interrupted replays.                                          *)
(***************************************************************************)
EXTENDS ProjectionBootstrap, WellFoundedInduction, TLAPS

\* The sequences a projector applied, in order, up to its cursor.
InOrder(s, c) ==
  /\ \A i, j \in 1 .. Len(s) : i < j => s[i] < s[j]
  /\ c = IF s = <<>> THEN 0 ELSE Last(s)

\* No cursor is past the log.
Cursors ==
  /\ log \in Seq(Event)
  /\ pc \in 1 .. Running
  /\ left \in Nat
  /\ \A p \in Projectors : cursor[p] \in Nat /\ cursor[p] <= Len(log) /\ applied[p] \in Seq(Nat)
  /\ DOMAIN cursor = Projectors /\ DOMAIN applied = Projectors

IInv == Cursors /\ \A p \in Projectors : InOrder(applied[p], cursor[p])

\* A projector whose turn has been is at the end of the log, and the others can get there.
Reaching ==
  old <= Limit =>
    /\ \A i \in 1 .. Len(Order) : i < pc => cursor[Order[i]] = Len(log)
    /\ \A p \in Projectors : cursor[p] + Limit >= Len(log)
    /\ pc # Running => cursor[Order[pc]] + left >= Len(log)

LEMMA OrderIsOfProjectors ==
  /\ Len(Order) = 3 /\ Running = 4
  /\ Order[1] = "plans" /\ Order[2] = "turns" /\ Order[3] = "latest"
  BY DEF Order, Running

LEMMA OrderCovers ==
  /\ \A i \in 1 .. Len(Order) : Order[i] \in Projectors
  /\ \A p \in Projectors : \E i \in 1 .. Len(Order) : p = Order[i]
  BY OrderIsOfProjectors DEF Projectors

\* The sequences from the first up to some number.
LEMMA FirstNumbers ==
  ASSUME NEW n \in Nat
  PROVE  LET s == [i \in 1 .. n |-> i] IN s \in Seq(Nat) /\ Len(s) = n /\ InOrder(s, n)
<1> DEFINE s == [i \in 1 .. n |-> i]
<1>1. s \in Seq(Nat) /\ Len(s) = n
  OBVIOUS
<1>2. CASE n = 0
  BY <1>1, <1>2 DEF InOrder
<1>3. CASE n > 0
  <2>1. s # <<>> /\ Last(s) = n
    BY <1>1, <1>3 DEF Last
  <2> QED
    BY <1>1, <2>1 DEF InOrder
<1> QED
  BY <1>1, <1>2, <1>3

\* A later sequence keeps the order.
LEMMA InOrderAppend ==
  ASSUME NEW s \in Seq(Nat), NEW c \in Nat, InOrder(s, c), NEW n \in Nat, c < n
  PROVE  Append(s, n) \in Seq(Nat) /\ InOrder(Append(s, n), n)
<1> DEFINE t == Append(s, n)
<1>1. t \in Seq(Nat) /\ Len(t) = Len(s) + 1 /\ t[Len(t)] = n /\ t # <<>>
  OBVIOUS
<1>2. \A i \in 1 .. Len(s) : t[i] = s[i]
  OBVIOUS
<1>3. \A i \in 1 .. Len(s) : s[i] <= c
  <2> SUFFICES ASSUME NEW i \in 1 .. Len(s) PROVE s[i] <= c
    OBVIOUS
  <2>1. s # <<>> /\ c = s[Len(s)] /\ Len(s) \in 1 .. Len(s) /\ s[i] \in Nat
    BY DEF InOrder, Last
  <2> QED
    BY <2>1 DEF InOrder
<1>4. \A i, j \in 1 .. Len(t) : i < j => t[i] < t[j]
  <2> SUFFICES ASSUME NEW i \in 1 .. Len(t), NEW j \in 1 .. Len(t), i < j PROVE t[i] < t[j]
    OBVIOUS
  <2>1. CASE j = Len(t)
    <3>1. i \in 1 .. Len(s) /\ s[i] \in Nat
      BY <1>1, <2>1
    <3> QED
      BY <1>1, <1>2, <1>3, <2>1, <3>1
  <2>2. CASE j # Len(t)
    <3>1. i \in 1 .. Len(s) /\ j \in 1 .. Len(s)
      BY <1>1, <2>2
    <3> QED
      BY <1>2, <3>1 DEF InOrder
  <2> QED
    BY <2>1, <2>2
<1> QED
  BY <1>1, <1>4 DEF InOrder, Last

LEMMA InitIInv == ASSUME Init PROVE IInv /\ Reaching
<1>1. log \in Seq(Event) /\ Len(log) \in Nat
  <2>1. PICK n \in 0 .. MaxLog : log \in [1 .. n -> OldEvents]
    BY BoundsAssumption DEF Init, BoundedSeq, SeqOf
  <2> QED
    BY <2>1, BoundsAssumption, EventsAssumption
<1>2. \A p \in Projectors : cursor[p] \in {0, Len(log)} /\ applied[p] = [i \in 1 .. cursor[p] |-> i]
  BY DEF Init
<1>3. pc = 1 /\ left = Limit /\ old = Len(log) /\ DOMAIN cursor = Projectors /\ DOMAIN applied = Projectors
  BY DEF Init
<1>4. Cursors
  BY <1>1, <1>2, <1>3, FirstNumbers, OrderIsOfProjectors, BoundsAssumption DEF Cursors
<1>5. ASSUME NEW p \in Projectors PROVE InOrder(applied[p], cursor[p])
  <2>1. cursor[p] \in Nat /\ applied[p] = [i \in 1 .. cursor[p] |-> i]
    BY <1>1, <1>2
  <2> QED
    BY <2>1, FirstNumbers
<1>6. Reaching
  <2>1. old <= Limit => \A p \in Projectors : cursor[p] + Limit >= Len(log)
    BY <1>1, <1>2, <1>3, BoundsAssumption
  <2>2. Order[1] \in Projectors /\ pc = 1 /\ left = Limit
    BY <1>3, OrderCovers, OrderIsOfProjectors
  <2>3. ~\E i \in 1 .. Len(Order) : i < pc
    BY <1>3, OrderIsOfProjectors
  <2> QED
    BY <2>1, <2>2, <2>3 DEF Reaching
<1> QED
  BY <1>4, <1>5, <1>6 DEF IInv

LEMMA StepIInv == ASSUME IInv, [Next]_vars PROVE IInv'
<1> USE DEF IInv, Cursors
<1>1. CASE ReplayEvent
  <2> DEFINE p == Order[pc]
             n == cursor[p] + 1
  <2>1. p \in Projectors
    BY <1>1, OrderCovers, OrderIsOfProjectors DEF ReplayEvent
  <2>2. /\ cursor' = [cursor EXCEPT ![p] = n] /\ applied' = [applied EXCEPT ![p] = Append(@, n)]
        /\ cursor[p] # Len(log) /\ left # 0 /\ left' = left - 1 /\ log' = log /\ pc' = pc
    BY <1>1 DEF ReplayEvent, StreamEnds
  <2>3. n \in Nat /\ n <= Len(log) /\ cursor[p] < n
    BY <2>1, <2>2
  <2>4. Append(applied[p], n) \in Seq(Nat) /\ InOrder(Append(applied[p], n), n)
    BY <2>1, <2>3, InOrderAppend
  <2>5. \A q \in Projectors : \/ q = p /\ cursor'[q] = n /\ applied'[q] = Append(applied[p], n)
                              \/ cursor'[q] = cursor[q] /\ applied'[q] = applied[q]
    BY <2>1, <2>2
  <2>6. DOMAIN cursor' = Projectors /\ DOMAIN applied' = Projectors /\ left' \in Nat
    BY <2>2
  <2> QED
    BY <2>2, <2>3, <2>4, <2>5, <2>6
<1>2. CASE NextProjector
  BY <1>2, OrderIsOfProjectors, BoundsAssumption DEF NextProjector
<1>3. ASSUME NEW e \in NewEvents, CommitEvent(e) PROVE IInv'
  <2> DEFINE n == Len(log) + 1
  <2>1. log' = Append(log, e) /\ pc' = pc /\ left' = left
    BY <1>3 DEF CommitEvent
  <2>2. log' \in Seq(Event) /\ Len(log') = n
    BY <2>1, EventsAssumption
  <2>3. /\ cursor' = [p \in Projectors |-> n]
        /\ applied' = [p \in Projectors |-> Append(applied[p], n)]
    BY <1>3 DEF CommitEvent
  <2>4. \A p \in Projectors : Append(applied[p], n) \in Seq(Nat) /\ InOrder(Append(applied[p], n), n)
    BY InOrderAppend
  <2> QED
    BY <2>1, <2>2, <2>3, <2>4
<1>4. CASE Restart
  BY <1>4, OrderIsOfProjectors, BoundsAssumption DEF Restart
<1>5. CASE UNCHANGED vars
  BY <1>5 DEF vars
<1> QED
  BY <1>1, <1>2, <1>3, <1>4, <1>5 DEF Next, Bootstrap

\* Every event up to the cursor, none left out.
Whole == old <= Limit => \A p \in Projectors : applied[p] = [i \in 1 .. cursor[p] |-> i]

LEMMA WholeAppend ==
  ASSUME NEW c \in Nat
  PROVE  Append([i \in 1 .. c |-> i], c + 1) = [i \in 1 .. c + 1 |-> i]
  OBVIOUS

LEMMA StepReaching ==
  ASSUME IInv, Reaching, Whole, [Next]_vars
  PROVE  Reaching' /\ Whole'
<1> SUFFICES ASSUME old <= Limit, old' = old PROVE Reaching' /\ Whole'
  BY DEF Reaching, Whole, Next, Bootstrap, ReplayEvent, NextProjector, CommitEvent, Restart, vars
<1>0. /\ log \in Seq(Event) /\ Len(log) \in Nat /\ pc \in 1 .. 4 /\ left \in Nat /\ Limit \in Nat \ {0}
      /\ \A p \in Projectors : cursor[p] \in Nat /\ cursor[p] <= Len(log)
      /\ DOMAIN cursor = Projectors /\ DOMAIN applied = Projectors
  BY OrderIsOfProjectors, BoundsAssumption DEF IInv, Cursors
<1> USE <1>0, OrderIsOfProjectors, OrderCovers DEF Reaching, Whole
<1>1. CASE ReplayEvent
  <2> DEFINE p == Order[pc]
             n == cursor[p] + 1
  <2>1. p \in Projectors /\ pc # Running
    BY <1>1 DEF ReplayEvent
  <2>2. /\ cursor' = [cursor EXCEPT ![p] = n] /\ applied' = [applied EXCEPT ![p] = Append(@, n)]
        /\ cursor[p] # Len(log) /\ left # 0 /\ left' = left - 1 /\ log' = log /\ pc' = pc
    BY <1>1 DEF ReplayEvent, StreamEnds
  <2>3. \A q \in Projectors : q # p => cursor'[q] = cursor[q] /\ applied'[q] = applied[q]
    BY <2>1, <2>2
  <2>4. cursor'[p] = n /\ applied'[p] = Append(applied[p], n)
    BY <2>1, <2>2
  <2>5. \A i \in 1 .. Len(Order) : i < pc => Order[i] # p
    BY <2>1
  <2>6. Reaching'
    <3>1. \A i \in 1 .. Len(Order) : i < pc' => cursor'[Order[i]] = Len(log')
      BY <2>2, <2>3, <2>5
    <3>2. \A q \in Projectors : cursor'[q] + Limit >= Len(log')
      BY <2>1, <2>2, <2>3, <2>4
    <3>3. cursor'[p] + left' >= Len(log')
      BY <2>1, <2>2, <2>4
    <3> QED
      BY <2>2, <3>1, <3>2, <3>3
  <2>7. Whole'
    <3>1. applied'[p] = [i \in 1 .. n |-> i]
      BY <2>1, <2>4, WholeAppend
    <3> QED
      BY <2>3, <2>4, <3>1
  <2> QED
    BY <2>6, <2>7
<1>2. CASE NextProjector
  <2>1. /\ pc \in 1 .. 3 /\ pc' = pc + 1 /\ left' = Limit
        /\ log' = log /\ cursor' = cursor /\ applied' = applied
        /\ cursor[Order[pc]] = Len(log) \/ left = 0
    BY <1>2 DEF NextProjector, StreamEnds
  <2>2. cursor[Order[pc]] = Len(log)
    BY <2>1
  <2> QED
    BY <2>1, <2>2
<1>3. ASSUME NEW e \in NewEvents, CommitEvent(e) PROVE Reaching' /\ Whole'
  <2> DEFINE n == Len(log) + 1
  <2>1. /\ log' = Append(log, e) /\ pc' = pc /\ pc = Running
        /\ cursor' = [p \in Projectors |-> n]
        /\ applied' = [p \in Projectors |-> Append(applied[p], n)]
    BY <1>3 DEF CommitEvent
  <2>2. Len(log') = n
    BY <2>1, EventsAssumption
  <2>3. ASSUME NEW p \in Projectors PROVE cursor[p] = Len(log)
    <3>1. PICK i \in 1 .. Len(Order) : p = Order[i]
      OBVIOUS
    <3>2. i < pc
      BY <2>1
    <3> QED
      BY <3>1, <3>2
  <2>4. Whole'
    <3>1. Append([i \in 1 .. Len(log) |-> i], n) = [i \in 1 .. n |-> i]
      BY WholeAppend
    <3>2. \A p \in Projectors : applied[p] = [i \in 1 .. Len(log) |-> i]
      BY <2>3
    <3>3. \A p \in Projectors : applied'[p] = [i \in 1 .. n |-> i] /\ cursor'[p] = n
      BY <2>1, <3>1, <3>2
    <3> HIDE OrderIsOfProjectors, OrderCovers, <1>0
    <3> QED
      BY <3>3
  <2>5. \A q \in Projectors : cursor'[q] = Len(log') /\ Len(log') \in Nat
    BY <2>1, <2>2
  <2>6. Reaching'
    <3>1. \A i \in 1 .. Len(Order) : cursor'[Order[i]] = Len(log')
      BY <2>5
    <3>2. \A q \in Projectors : cursor'[q] + Limit >= Len(log')
      BY <2>5
    <3> HIDE OrderIsOfProjectors, OrderCovers
    <3> QED
      BY <2>1, <3>1, <3>2
  <2> QED
    BY <2>4, <2>6
<1>4. CASE Restart
  BY <1>4 DEF Restart
<1>5. CASE UNCHANGED vars
  BY <1>5 DEF vars
<1> QED
  BY <1>1, <1>2, <1>3, <1>4, <1>5 DEF Next, Bootstrap

-----------------------------------------------------------------------------
(* The cursors.                                                            *)

\* The inductive invariant holds.
THEOREM SpecIInv == Spec => []IInv
<1>1. Init => IInv
  BY InitIInv
<1>2. IInv /\ [Next]_vars => IInv'
  BY StepIInv
<1> QED
  BY <1>1, <1>2, PTL DEF Spec

\* Restarts anywhere in the replay make no projector see an event twice or out of
\* order, and its cursor is the last one it saw.
THEOREM SeenOnce == Spec => []NeverTwice
<1>1. IInv => NeverTwice
  BY DEF IInv, InOrder, NeverTwice
<1> QED
  BY <1>1, SpecIInv, PTL

\* When the log of the older version fits into one read, every projector sees every
\* event up to its cursor, and when the server runs all of them have seen the whole log.
CaughtUp ==
  WithinLimit => \A p \in Projectors :
    /\ applied[p] = [i \in 1 .. cursor[p] |-> i]
    /\ pc = Running => cursor[p] = Len(log)

\* No projector is left behind by an interrupted start: the next one finishes it.
THEOREM NoneSkipped == Spec => []CaughtUp
<1>1. Init => Reaching /\ Whole
  BY InitIInv DEF Init, Whole
<1>2. IInv /\ (Reaching /\ Whole) /\ [Next]_vars => (Reaching /\ Whole)'
  BY StepReaching
<1>3. Reaching /\ Whole => CaughtUp
  BY OrderCovers, OrderIsOfProjectors DEF Reaching, Whole, CaughtUp, WithinLimit
<1> QED
  BY <1>1, <1>2, <1>3, SpecIInv, PTL DEF Spec

-----------------------------------------------------------------------------
(* Bounded induction.                                                      *)

LEMMA NaturalsAreFounded ==
  \E R : IsWellFoundedOn(R, Nat) /\ \A m \in Nat, n \in Nat : m < n => <<m, n>> \in R
<1>1. \A m \in Nat, n \in Nat : m < n => <<m, n>> \in OpToRel(<, Nat)
  BY Zenon DEF OpToRel
<1> QED
  BY <1>1, NatLessThanWellFounded, Zenon

\* A set of natural numbers that has any has a least one.
LEMMA LeastNatural ==
  ASSUME NEW S, S \subseteq Nat, S # {}
  PROVE  \E m \in S : \A n \in S : m <= n
<1>1. PICK R : IsWellFoundedOn(R, Nat) /\ \A m \in Nat, n \in Nat : m < n => <<m, n>> \in R
  BY NaturalsAreFounded, Zenon
<1>2. IsWellFoundedOn(R, Nat)
  BY <1>1
<1>3. PICK m \in S : \A n \in S : ~ (<<n, m>> \in R)
  BY <1>2, WFMin
<1>4. ASSUME NEW n \in S PROVE ~ (n < m)
  BY <1>1, <1>3, Zenon
<1>5. \A n \in S : m <= n
  BY <1>4
<1> QED
  BY <1>5

\* A set that holds 0 and, with a number below the bound, the next one, holds all up
\* to the bound.
LEMMA UpTo ==
  ASSUME NEW S, NEW bound \in Nat, 0 \in S,
         \A n \in 0 .. bound : n < bound /\ n \in S => n + 1 \in S
  PROVE  0 .. bound \subseteq S
<1> DEFINE Missing == {n \in 0 .. bound : n \notin S}
<1> SUFFICES ASSUME Missing # {} PROVE FALSE
  OBVIOUS
<1>1. Missing \subseteq Nat
  OBVIOUS
<1>2. PICK m \in Missing : \A n \in Missing : m <= n
  <2> HIDE DEF Missing
  <2> QED
    BY <1>1, LeastNatural
<1>3. m # 0 /\ m - 1 \in 0 .. bound /\ m - 1 < bound /\ m - 1 + 1 = m /\ ~ (m <= m - 1)
  BY <1>2
<1>4. m - 1 \notin Missing
  BY <1>2, <1>3
<1> QED
  BY <1>2, <1>3, <1>4

-----------------------------------------------------------------------------
(* What an event does to the rows, and what a log amounts to.              *)

IsRows(r) == r = [plans |-> r.plans, turns |-> r.turns, latest |-> r.latest]

PlansAfter(plans, turns, e) ==
  CASE e.type = "proposed-plan-upserted" ->
         {row \in plans : row.id # e.plan} \cup {[id |-> e.plan, turn |-> e.turn]}
    [] e.type = "reverted" ->
         {row \in plans : row.turn = NoTurn \/ row.turn \in {kept.turn : kept \in KeptTurns(turns, e.count)}}
    [] OTHER -> plans

TurnsAfter(turns, e) ==
  CASE e.type = "turn-diff-completed" ->
         {row \in turns : row.turn # e.turn /\ row.count # e.count} \cup {[turn |-> e.turn, count |-> e.count]}
    [] e.type = "reverted" -> KeptTurns(turns, e.count)
    [] OTHER -> turns

LastOf(turns) ==
  IF turns = {} THEN NoTurn
  ELSE (CHOOSE row \in turns : \A other \in turns : other.count <= row.count).turn

LatestAfter(latest, turns, e) ==
  CASE e.type \in {"turn-diff-completed", "session-set"} -> e.turn
    [] e.type = "reverted" -> LastOf(KeptTurns(turns, e.count))
    [] OTHER -> latest

\* Each projector writes its own rows.
LEMMA PlansProjector ==
  ASSUME NEW r, IsRows(r), NEW e
  PROVE  Apply("plans", r, e) = [plans |-> PlansAfter(r.plans, r.turns, e), turns |-> r.turns,
                                 latest |-> r.latest]
<1> DEFINE plans == r.plans
           turns == r.turns
           latest == r.latest
<1>1. r = [plans |-> plans, turns |-> turns, latest |-> latest]
  BY DEF IsRows
<1>2. CASE e.type = "proposed-plan-upserted"
  <2>1. Apply("plans", r, e) = [r EXCEPT !.plans = PlansAfter(plans, turns, e)]
    BY <1>2 DEF Apply, ApplyPlans, PlansAfter
  <2> HIDE DEF plans, turns, latest
  <2> QED
    BY <1>1, <2>1 DEF plans, turns, latest
<1>3. CASE e.type = "reverted"
  <2>1. Apply("plans", r, e) = [r EXCEPT !.plans = PlansAfter(plans, turns, e)]
    BY <1>3 DEF Apply, ApplyPlans, PlansAfter
  <2> QED
    BY <1>1, <2>1
<1>4. CASE e.type \notin {"proposed-plan-upserted", "reverted"}
  <2>1. Apply("plans", r, e) = r /\ PlansAfter(plans, turns, e) = plans
    BY <1>4 DEF Apply, ApplyPlans, PlansAfter
  <2> QED
    BY <1>1, <2>1
<1> QED
  BY <1>2, <1>3, <1>4

LEMMA TurnsProjector ==
  ASSUME NEW r, IsRows(r), NEW e
  PROVE  Apply("turns", r, e) = [plans |-> r.plans, turns |-> TurnsAfter(r.turns, e),
                                 latest |-> r.latest]
<1>1. CASE e.type \in {"turn-diff-completed", "reverted"}
  <2>1. Apply("turns", r, e) = [r EXCEPT !.turns = TurnsAfter(r.turns, e)]
    BY <1>1 DEF Apply, ApplyTurns, TurnsAfter
  <2> QED
    BY <2>1 DEF IsRows
<1>2. CASE e.type \notin {"turn-diff-completed", "reverted"}
  <2>1. Apply("turns", r, e) = r /\ TurnsAfter(r.turns, e) = r.turns
    BY <1>2 DEF Apply, ApplyTurns, TurnsAfter
  <2> QED
    BY <2>1 DEF IsRows
<1> QED
  BY <1>1, <1>2

LEMMA LatestProjector ==
  ASSUME NEW r, IsRows(r), NEW e
  PROVE  Apply("latest", r, e) = [plans |-> r.plans, turns |-> r.turns,
                                  latest |-> LatestAfter(r.latest, r.turns, e)]
<1>1. CASE e.type \in {"turn-diff-completed", "session-set", "reverted"}
  <2>1. Apply("latest", r, e) = [r EXCEPT !.latest = LatestAfter(r.latest, r.turns, e)]
    BY <1>1 DEF Apply, ApplyLatest, LatestAfter, LastOf
  <2> QED
    BY <2>1 DEF IsRows
<1>2. CASE e.type \notin {"turn-diff-completed", "session-set", "reverted"}
  <2>1. Apply("latest", r, e) = r /\ LatestAfter(r.latest, r.turns, e) = r.latest
    BY <1>2 DEF Apply, ApplyLatest, LatestAfter
  <2> QED
    BY <2>1 DEF IsRows
<1> QED
  BY <1>1, <1>2

\* Live projection: the plans see the turns before the event, the latest turn those after it.
LEMMA EventProjected ==
  ASSUME NEW r, IsRows(r), NEW e
  PROVE  LET turns == TurnsAfter(r.turns, e) IN
           ProjectEvent(r, e) = [plans |-> PlansAfter(r.plans, r.turns, e), turns |-> turns,
                                 latest |-> LatestAfter(r.latest, turns, e)]
<1> DEFINE r1 == [plans |-> PlansAfter(r.plans, r.turns, e), turns |-> r.turns, latest |-> r.latest]
           r2 == [plans |-> r1.plans, turns |-> TurnsAfter(r1.turns, e), latest |-> r1.latest]
           r3 == [plans |-> r2.plans, turns |-> r2.turns,
                  latest |-> LatestAfter(r2.latest, r2.turns, e)]
<1>1. Apply("plans", r, e) = r1
  BY PlansProjector
<1>2. IsRows(r1) /\ IsRows(r2)
  BY DEF IsRows
<1>3. Apply("turns", r1, e) = r2
  <2> HIDE DEF r1
  <2> QED
    BY <1>2, TurnsProjector
<1>4. Apply("latest", r2, e) = r3
  <2> HIDE DEF r2
  <2> QED
    BY <1>2, LatestProjector
<1>5. ProjectEvent(r, e) = r3
  BY <1>1, <1>3, <1>4, OrderIsOfProjectors DEF ProjectEvent
<1>6. r3 = [plans |-> PlansAfter(r.plans, r.turns, e), turns |-> TurnsAfter(r.turns, e),
            latest |-> LatestAfter(r.latest, TurnsAfter(r.turns, e), e)]
  OBVIOUS
<1> QED
  BY <1>5, <1>6

\* The recursive definition of RowsAlong has the value it describes.
LEMMA RowsAlongIs ==
  ASSUME NEW s \in Seq(Event)
  PROVE  LET at == RowsAlong(s) IN
           at = [n \in 0 .. Len(s) |-> IF n = 0 THEN NoRows ELSE ProjectEvent(at[n - 1], s[n])]
<1> DEFINE Step(f, n) == IF n = 0 THEN NoRows ELSE ProjectEvent(f[n - 1], s[n])
           Some == {m \in 0 .. Len(s) : \E f : f = [n \in 0 .. m |-> Step(f, n)]}
<1>1. 0 \in Some
  <2> DEFINE f == [n \in 0 .. 0 |-> NoRows]
  <2>1. f = [n \in 0 .. 0 |-> Step(f, n)]
    OBVIOUS
  <2> HIDE DEF f, Step
  <2> QED
    BY <2>1
<1>2. ASSUME NEW m \in 0 .. Len(s), m < Len(s), m \in Some PROVE m + 1 \in Some
  <2>1. PICK f : f = [n \in 0 .. m |-> Step(f, n)]
    BY <1>2
  <2> DEFINE g == [n \in 0 .. m + 1 |-> IF n = m + 1 THEN Step(f, n) ELSE f[n]]
  <2>2. ASSUME NEW n \in 0 .. m + 1 PROVE g[n] = Step(g, n)
    <3>1. CASE n = 0
      <4>1. g[n] = f[n] /\ f[n] = NoRows
        BY <2>1, <3>1
      <4> QED
        BY <3>1, <4>1
    <3>2. CASE n # 0
      <4>1. n - 1 \in 0 .. m /\ n - 1 \in 0 .. m + 1 /\ n - 1 # m + 1 /\ (n \in 0 .. m \/ n = m + 1)
        BY <3>2
      <4>2. g[n - 1] = f[n - 1]
        BY <4>1
      <4>3. Step(g, n) = Step(f, n)
        BY <3>2, <4>2
      <4>4. g[n] = Step(f, n)
        BY <2>1, <4>1
      <4> QED
        BY <4>3, <4>4
    <3> QED
      BY <3>1, <3>2
  <2>3. g = [n \in 0 .. m + 1 |-> Step(g, n)]
    BY <2>2
  <2>4. m + 1 \in 0 .. Len(s)
    BY <1>2
  <2> HIDE DEF g, Step
  <2> QED
    BY <2>3, <2>4
<1>3. Len(s) \in Nat
  OBVIOUS
<1>4. Len(s) \in Some
  <2> HIDE DEF Some
  <2>1. 0 .. Len(s) \subseteq Some
    BY <1>1, <1>2, <1>3, UpTo
  <2> QED
    BY <1>3, <2>1
<1>5. \E f : f = [n \in 0 .. Len(s) |-> Step(f, n)]
  BY <1>4
<1> QED
  BY <1>5, Zenon DEF RowsAlong

\* The rows after each event of a log, from those before it.
LEMMA RowsStep ==
  ASSUME NEW s \in Seq(Event)
  PROVE  /\ RowsAlong(s)[0] = NoRows
         /\ \A n \in 1 .. Len(s) : RowsAlong(s)[n] = ProjectEvent(RowsAlong(s)[n - 1], s[n])
<1> DEFINE at == RowsAlong(s)
<1>1. at = [n \in 0 .. Len(s) |-> IF n = 0 THEN NoRows ELSE ProjectEvent(at[n - 1], s[n])]
  BY RowsAlongIs
<1> HIDE DEF at
<1>2. 0 \in 0 .. Len(s) /\ \A n \in 1 .. Len(s) : n \in 0 .. Len(s) /\ n # 0
  OBVIOUS
<1>3. at[0] = NoRows /\ \A n \in 1 .. Len(s) : at[n] = ProjectEvent(at[n - 1], s[n])
  BY <1>1, <1>2
<1> QED
  BY <1>3 DEF at

LEMMA RowsTyped ==
  ASSUME NEW s \in Seq(Event)
  PROVE  \A n \in 0 .. Len(s) : IsRows(RowsAlong(s)[n])
<1> DEFINE Good == {n \in 0 .. Len(s) : IsRows(RowsAlong(s)[n])}
<1>1. 0 \in Good
  BY RowsStep DEF NoRows, IsRows
<1>2. ASSUME NEW n \in 0 .. Len(s), n < Len(s), n \in Good PROVE n + 1 \in Good
  <2>1. n + 1 \in 1 .. Len(s) /\ n + 1 - 1 = n /\ n + 1 \in 0 .. Len(s)
    BY <1>2
  <2>2. RowsAlong(s)[n + 1] = ProjectEvent(RowsAlong(s)[n + 1 - 1], s[n + 1])
    BY <2>1, RowsStep
  <2> DEFINE r == ProjectEvent(RowsAlong(s)[n], s[n + 1])
  <2>3. IsRows(r)
    <3>1. IsRows(RowsAlong(s)[n])
      BY <1>2
    <3> QED
      BY <3>1, EventProjected DEF IsRows
  <2> QED
    BY <2>1, <2>2, <2>3
<1>3. 0 .. Len(s) \subseteq Good
  <2>1. Len(s) \in Nat
    OBVIOUS
  <2> HIDE DEF Good
  <2> QED
    BY <1>1, <1>2, <2>1, UpTo
<1> QED
  BY <1>3

\* What the three tables are after one event of the log more.
LEMMA RowsAfter ==
  ASSUME NEW s \in Seq(Event), NEW n \in 0 .. Len(s), n < Len(s)
  PROVE  LET r == RowsAlong(s)[n]
             next == RowsAlong(s)[n + 1]
         IN /\ next.plans = PlansAfter(r.plans, r.turns, s[n + 1])
            /\ next.turns = TurnsAfter(r.turns, s[n + 1])
            /\ next.latest = LatestAfter(r.latest, next.turns, s[n + 1])
<1> DEFINE r == RowsAlong(s)[n]
<1>1. n + 1 \in 1 .. Len(s) /\ n + 1 - 1 = n
  OBVIOUS
<1>2. RowsAlong(s)[n + 1] = ProjectEvent(RowsAlong(s)[n + 1 - 1], s[n + 1])
  BY <1>1, RowsStep
<1>3. IsRows(r) /\ RowsAlong(s)[n + 1] = ProjectEvent(r, s[n + 1])
  BY <1>1, <1>2, RowsTyped
<1>4. ProjectEvent(r, s[n + 1])
      = [plans |-> PlansAfter(r.plans, r.turns, s[n + 1]), turns |-> TurnsAfter(r.turns, s[n + 1]),
         latest |-> LatestAfter(r.latest, TurnsAfter(r.turns, s[n + 1]), s[n + 1])]
  BY <1>3, EventProjected
<1> QED
  BY <1>3, <1>4

\* Along a common prefix the rows are the same.
LEMMA RowsPrefix ==
  ASSUME NEW s \in Seq(Event), NEW t \in Seq(Event),
         Len(s) <= Len(t), \A i \in 1 .. Len(s) : t[i] = s[i]
  PROVE  \A n \in 0 .. Len(s) : RowsAlong(t)[n] = RowsAlong(s)[n]
<1> DEFINE Same == {n \in 0 .. Len(s) : RowsAlong(t)[n] = RowsAlong(s)[n]}
<1>1. 0 \in Same
  BY RowsStep
<1>2. ASSUME NEW n \in 0 .. Len(s), n < Len(s), n \in Same PROVE n + 1 \in Same
  <2>1. n + 1 \in 1 .. Len(s) /\ n + 1 \in 1 .. Len(t) /\ n + 1 - 1 = n /\ n + 1 \in 0 .. Len(s)
    BY <1>2
  <2>2. RowsAlong(s)[n + 1] = ProjectEvent(RowsAlong(s)[n + 1 - 1], s[n + 1])
    BY <2>1, RowsStep
  <2>3. RowsAlong(t)[n + 1] = ProjectEvent(RowsAlong(t)[n + 1 - 1], t[n + 1])
    BY <2>1, RowsStep
  <2> QED
    BY <1>2, <2>1, <2>2, <2>3
<1>3. 0 .. Len(s) \subseteq Same
  <2>1. Len(s) \in Nat
    OBVIOUS
  <2> HIDE DEF Same
  <2> QED
    BY <1>1, <1>2, <2>1, UpTo
<1> QED
  BY <1>3

-----------------------------------------------------------------------------
(* What the tables amount to while projectors replay one after another.    *)

L(n) == RowsAlong(log)[n]

\* No event after these touches the turns any more.
Settled(n) == \A i \in n + 1 .. Len(log) : log[i].type \notin {"turn-diff-completed", "reverted"}
NoOldReverts == \A i \in 1 .. old : log[i].type # "reverted"

\* Once the server has written an event, no projector is behind.
Grown ==
  /\ old \in Nat /\ old <= Len(log) /\ IsRows(rows)
  /\ Len(log) > old => \A p \in Projectors : cursor[p] = Len(log)

\* The turns are those of the log up to their projector's cursor, always.  The latest
\* turn is that of its cursor when the turns do not change later, so that a replayed
\* revert has seen them as they were; the plans are when no revert is replayed.
LiveSoFar ==
  old <= Limit =>
    /\ rows.turns = L(cursor["turns"]).turns
    /\ Settled(cursor["latest"]) => rows.latest = L(cursor["latest"]).latest
    /\ NoOldReverts => rows.plans = L(cursor["plans"]).plans

\* Settled turns are the last ones.
LEMMA SettledTurns ==
  ASSUME log \in Seq(Event), NEW n \in 0 .. Len(log), Settled(n)
  PROVE  L(n).turns = L(Len(log)).turns
<1> DEFINE Same == {k \in 0 .. Len(log) - n : L(n + k).turns = L(n).turns}
<1>1. Len(log) - n \in Nat /\ Len(log) - n \in 0 .. Len(log) - n /\ n + (Len(log) - n) = Len(log)
  OBVIOUS
<1>2. 0 \in Same
  BY <1>1
<1>3. ASSUME NEW k \in 0 .. Len(log) - n, k < Len(log) - n, k \in Same PROVE k + 1 \in Same
  <2>1. n + k \in 0 .. Len(log) /\ n + k < Len(log) /\ n + k + 1 \in n + 1 .. Len(log)
        /\ k + 1 \in 0 .. Len(log) - n /\ n + (k + 1) = n + k + 1
    BY <1>1, <1>3
  <2>2. L(n + k + 1).turns = TurnsAfter(L(n + k).turns, log[n + k + 1])
    BY <2>1, RowsAfter DEF L
  <2>3. log[n + k + 1].type \notin {"turn-diff-completed", "reverted"}
    BY <2>1 DEF Settled
  <2>4. L(n + k + 1).turns = L(n + k).turns
    BY <2>2, <2>3 DEF TurnsAfter
  <2> QED
    BY <1>3, <2>1, <2>4
<1>4. 0 .. Len(log) - n \subseteq Same
  <2> HIDE DEF Same
  <2> QED
    BY <1>1, <1>2, <1>3, UpTo
<1>5. Len(log) - n \in Same
  <2> HIDE DEF Same
  <2> QED
    BY <1>1, <1>4
<1>6. L(n + (Len(log) - n)).turns = L(n).turns
  BY <1>5
<1> QED
  BY <1>1, <1>6

\* Keeping twice what a revert keeps is keeping it once.
LEMMA KeptTwice ==
  ASSUME NEW turns, NEW e, e.type = "reverted"
  PROVE  KeptTurns(TurnsAfter(turns, e), e.count) = KeptTurns(turns, e.count)
  BY DEF TurnsAfter, KeptTurns

\* The latest turn after one event, replayed over turns that do not change later.
LEMMA LatestReplayed ==
  ASSUME log \in Seq(Event), NEW n \in 0 .. Len(log), n < Len(log), NEW latest,
         Settled(n) => latest = L(n).latest, Settled(n + 1)
  PROVE  LatestAfter(latest, L(Len(log)).turns, log[n + 1]) = L(n + 1).latest
<1> DEFINE e == log[n + 1]
<1>1. n + 1 \in 0 .. Len(log) /\ Len(log) \in Nat
  OBVIOUS
<1>2. L(n + 1).latest = LatestAfter(L(n).latest, L(n + 1).turns, e)
  BY RowsAfter DEF L
<1>3. L(n + 1).turns = L(Len(log)).turns
  BY <1>1, SettledTurns
<1>4. CASE e.type \in {"turn-diff-completed", "session-set", "reverted"}
  BY <1>2, <1>3, <1>4 DEF LatestAfter
<1>5. CASE e.type \notin {"turn-diff-completed", "session-set", "reverted"}
  <2>1. \A i \in n + 1 .. Len(log) : i = n + 1 \/ i \in n + 1 + 1 .. Len(log)
    BY <1>1
  <2>2. Settled(n)
    BY <1>5, <2>1 DEF Settled
  <2> QED
    BY <1>2, <1>3, <1>5, <2>2 DEF LatestAfter
<1> QED
  BY <1>4, <1>5

LEMMA InitLive == ASSUME Init PROVE Grown /\ LiveSoFar
<1>1. log \in Seq(Event) /\ Len(log) \in Nat
  BY InitIInv DEF IInv, Cursors
<1>2. /\ RowsAlong(log)[0] = NoRows /\ IsRows(NoRows) /\ IsRows(L(Len(log)))
      /\ LiveRows(log) = L(Len(log)) /\ L(0) = NoRows
  <2>1. RowsAlong(log)[0] = NoRows
    BY <1>1, RowsStep
  <2>2. IsRows(NoRows)
    BY DEF IsRows, NoRows
  <2>3. IsRows(RowsAlong(log)[Len(log)])
    <3>1. Len(log) \in 0 .. Len(log)
      BY <1>1
    <3> QED
      BY <1>1, <3>1, RowsTyped
  <2> QED
    BY <2>1, <2>2, <2>3 DEF L, LiveRows
<1>3. PICK behind \in {{}, {"plans"}, Projectors} :
        /\ cursor = [p \in Projectors |-> IF p \in behind THEN 0 ELSE Len(log)]
        /\ rows = CASE behind = {}         -> LiveRows(log)
                    [] behind = {"plans"}  -> [LiveRows(log) EXCEPT !.plans = {}]
                    [] behind = Projectors -> NoRows
  BY DEF Init
<1>4. old = Len(log) /\ "plans" \in Projectors /\ "turns" \in Projectors /\ "latest" \in Projectors
  BY DEF Init, Projectors
<1>a. Projectors # {} /\ Projectors # {"plans"} /\ {} # {"plans"}
  BY DEF Projectors
<1>5. CASE behind = {}
  <2>1. rows = L(Len(log)) /\ \A p \in Projectors : cursor[p] = Len(log)
    BY <1>2, <1>3, <1>5, <1>a, Zenon
  <2> QED
    BY <1>1, <1>2, <1>4, <2>1 DEF Grown, LiveSoFar
<1>6. CASE behind = {"plans"}
  <2>1. rows = [L(Len(log)) EXCEPT !.plans = {}]
    BY <1>2, <1>3, <1>6, <1>a, Zenon
  <2>2. cursor["plans"] = 0 /\ cursor["turns"] = Len(log) /\ cursor["latest"] = Len(log)
    BY <1>3, <1>4, <1>6
  <2>3. /\ IsRows(rows) /\ rows.plans = {} /\ rows.turns = L(Len(log)).turns
        /\ rows.latest = L(Len(log)).latest
    BY <1>2, <2>1 DEF IsRows
  <2>4. rows.plans = L(0).plans
    BY <1>2, <2>3 DEF NoRows
  <2> QED
    BY <1>1, <1>4, <2>2, <2>3, <2>4 DEF Grown, LiveSoFar
<1>7. CASE behind = Projectors
  <2>2. rows = NoRows /\ \A p \in Projectors : cursor[p] = 0
    BY <1>3, <1>7, <1>a
  <2> QED
    BY <1>1, <1>2, <1>4, <2>2 DEF Grown, LiveSoFar
<1> QED
  BY <1>3, <1>5, <1>6, <1>7

LEMMA LiveUnmoved ==
  ASSUME Grown, LiveSoFar, UNCHANGED <<log, rows, cursor, old>>
  PROVE  Grown' /\ LiveSoFar'
  BY DEF Grown, LiveSoFar, L, Settled, NoOldReverts

LEMMA LiveStep ==
  ASSUME IInv, Reaching, Grown, LiveSoFar, [Next]_vars
  PROVE  Grown' /\ LiveSoFar'
<1>0. /\ log \in Seq(Event) /\ Len(log) \in Nat /\ pc \in 1 .. 4
      /\ \A p \in Projectors : cursor[p] \in Nat /\ cursor[p] <= Len(log) /\ cursor[p] \in 0 .. Len(log)
      /\ DOMAIN cursor = Projectors
      /\ "plans" \in Projectors /\ "turns" \in Projectors /\ "latest" \in Projectors
  BY OrderIsOfProjectors DEF IInv, Cursors, Projectors
<1>1. CASE ReplayEvent
  <2> DEFINE p == Order[pc]
             c == cursor[p]
             e == log[c + 1]
  <2>1. /\ pc \in 1 .. 3 /\ p \in Projectors /\ c < Len(log) /\ c \in 0 .. Len(log)
        /\ c + 1 \in 1 .. Len(log)
    BY <1>0, <1>1, OrderCovers, OrderIsOfProjectors DEF ReplayEvent, StreamEnds
  <2>2. /\ cursor' = [cursor EXCEPT ![p] = c + 1] /\ rows' = Apply(p, rows, e)
        /\ UNCHANGED <<log, old>>
    BY <1>1 DEF ReplayEvent
  <2>3. Len(log) <= old /\ IsRows(rows) /\ old \in Nat /\ old <= Len(log)
    BY <1>0, <2>1 DEF Grown
  <2>4. \A n : L(n)' = L(n) /\ Settled(n)' = Settled(n)
    BY <2>2 DEF L, Settled
  <2>5. NoOldReverts' = NoOldReverts
    BY <2>2 DEF NoOldReverts
  <2>6. cursor'[p] = c + 1 /\ \A q \in Projectors : q # p => cursor'[q] = cursor[q]
    BY <1>0, <2>1, <2>2
  <2>7. CASE p = "plans"
    <3>1. rows' = [plans |-> PlansAfter(rows.plans, rows.turns, e), turns |-> rows.turns,
                   latest |-> rows.latest]
      BY <2>2, <2>3, <2>7, PlansProjector
    <3>2. NoOldReverts => e.type # "reverted"
      BY <2>1, <2>3 DEF NoOldReverts
    <3>3. L(c + 1).plans = PlansAfter(L(c).plans, L(c).turns, e)
      BY <1>0, <2>1, RowsAfter DEF L
    <3>4. old <= Limit /\ NoOldReverts => rows.plans = L(c).plans
      BY <2>7 DEF LiveSoFar
    <3>5. old <= Limit /\ NoOldReverts => rows'.plans = L(c + 1).plans
      BY <3>1, <3>2, <3>3, <3>4 DEF PlansAfter
    <3>6. /\ IsRows(rows') /\ rows'.turns = rows.turns /\ rows'.latest = rows.latest
          /\ cursor'["turns"] = cursor["turns"] /\ cursor'["latest"] = cursor["latest"]
      BY <1>0, <2>6, <2>7, <3>1 DEF IsRows
    <3>7. LiveSoFar'
      BY <2>2, <2>4, <2>5, <2>6, <2>7, <3>5, <3>6 DEF LiveSoFar
    <3> QED
      BY <2>2, <2>3, <3>6, <3>7 DEF Grown
  <2>8. CASE p = "turns"
    <3>1. rows' = [plans |-> rows.plans, turns |-> TurnsAfter(rows.turns, e), latest |-> rows.latest]
      BY <2>2, <2>3, <2>8, TurnsProjector
    <3>2. L(c + 1).turns = TurnsAfter(L(c).turns, e)
      BY <1>0, <2>1, RowsAfter DEF L
    <3>3. old <= Limit => rows.turns = L(c).turns
      BY <2>8 DEF LiveSoFar
    <3>4. old <= Limit => rows'.turns = L(c + 1).turns
      BY <3>1, <3>2, <3>3
    <3>5. /\ IsRows(rows') /\ rows'.plans = rows.plans /\ rows'.latest = rows.latest
          /\ cursor'["plans"] = cursor["plans"] /\ cursor'["latest"] = cursor["latest"]
      BY <1>0, <2>6, <2>8, <3>1 DEF IsRows
    <3>6. LiveSoFar'
      BY <2>2, <2>4, <2>5, <2>6, <2>8, <3>4, <3>5 DEF LiveSoFar
    <3> QED
      BY <2>2, <2>3, <3>5, <3>6 DEF Grown
  <2>9. CASE p = "latest"
    <3>1. rows' = [plans |-> rows.plans, turns |-> rows.turns,
                   latest |-> LatestAfter(rows.latest, rows.turns, e)]
      BY <2>2, <2>3, <2>9, LatestProjector
    <3>2. old <= Limit => cursor["turns"] = Len(log)
      <4>1. pc = 3 /\ 2 \in 1 .. Len(Order) /\ 2 < pc
        BY <2>1, <2>9, OrderIsOfProjectors
      <4> QED
        BY <4>1, OrderIsOfProjectors DEF Reaching
    <3>3. old <= Limit => rows.turns = L(Len(log)).turns
      BY <3>2 DEF LiveSoFar
    <3>4. old <= Limit /\ Settled(c) => rows.latest = L(c).latest
      BY <2>9 DEF LiveSoFar
    <3>5. old <= Limit /\ Settled(c + 1)
            => LatestAfter(rows.latest, L(Len(log)).turns, e) = L(c + 1).latest
      BY <1>0, <2>1, <3>4, LatestReplayed
    <3>6. old <= Limit /\ Settled(c + 1) => rows'.latest = L(c + 1).latest
      BY <3>1, <3>3, <3>5
    <3>7. /\ IsRows(rows') /\ rows'.plans = rows.plans /\ rows'.turns = rows.turns
          /\ cursor'["plans"] = cursor["plans"] /\ cursor'["turns"] = cursor["turns"]
      BY <1>0, <2>6, <2>9, <3>1 DEF IsRows
    <3>8. LiveSoFar'
      BY <2>2, <2>4, <2>5, <2>6, <2>9, <3>6, <3>7 DEF LiveSoFar
    <3> QED
      BY <2>2, <2>3, <3>7, <3>8 DEF Grown
  <2> QED
    BY <2>1, <2>7, <2>8, <2>9, OrderIsOfProjectors
<1>2. CASE NextProjector \/ Restart \/ UNCHANGED vars
  BY <1>2, LiveUnmoved DEF NextProjector, Restart, vars
<1>3. ASSUME NEW e \in NewEvents, CommitEvent(e) PROVE Grown' /\ LiveSoFar'
  <2>0. PICK n \in Nat : n = Len(log)
    BY <1>0
  <2>1. /\ log' = Append(log, e) /\ pc = Running /\ rows' = ProjectEvent(rows, e)
        /\ cursor' = [p \in Projectors |-> n + 1] /\ old' = old
    BY <1>3, <2>0 DEF CommitEvent
  <2>2. /\ log' \in Seq(Event) /\ Len(log') = n + 1 /\ log'[n + 1] = e
        /\ \A i \in 1 .. n : log'[i] = log[i]
    BY <1>0, <2>0, <2>1, EventsAssumption
  <2>3. /\ n \in 0 .. Len(log') /\ n < Len(log') /\ n \in 0 .. Len(log) /\ Len(log) <= Len(log')
        /\ n + 1 \in 0 .. Len(log')
    BY <1>0, <2>0, <2>2
  <2>4. \A k \in 0 .. Len(log) : RowsAlong(log')[k] = RowsAlong(log)[k]
    <3>1. \A i \in 1 .. Len(log) : log'[i] = log[i]
      BY <2>0, <2>2
    <3>2. log \in Seq(Event) /\ log' \in Seq(Event) /\ Len(log) <= Len(log')
      BY <1>0, <2>2, <2>3
    <3> QED
      BY <3>1, <3>2, RowsPrefix, Zenon
  <2>6. /\ IsRows(rows) /\ old \in Nat /\ old <= n
        /\ \A p \in Projectors : cursor'[p] = n + 1
    BY <2>0, <2>1 DEF Grown
  <2>7. /\ rows'.plans = PlansAfter(rows.plans, rows.turns, e)
        /\ rows'.turns = TurnsAfter(rows.turns, e)
        /\ rows'.latest = LatestAfter(rows.latest, rows'.turns, e)
        /\ IsRows(rows')
    BY <2>1, <2>6, EventProjected DEF IsRows
  <2> DEFINE r == RowsAlong(log')[n]
             next == RowsAlong(log')[n + 1]
  <2>8. /\ next.plans = PlansAfter(r.plans, r.turns, e)
        /\ next.turns = TurnsAfter(r.turns, e)
        /\ next.latest = LatestAfter(r.latest, next.turns, e)
    BY <2>2, <2>3, RowsAfter
  <2>9. r = L(n)
    BY <2>3, <2>4 DEF L
  <2>10. Grown'
    BY <2>0, <2>1, <2>2, <2>6, <2>7 DEF Grown
  <2>11. ASSUME old <= Limit PROVE LiveSoFar'
    <3>1. \A p \in Projectors : cursor[p] = n
      <4> SUFFICES ASSUME NEW p \in Projectors PROVE cursor[p] = n
        OBVIOUS
      <4>1. PICK i \in 1 .. Len(Order) : p = Order[i]
        BY OrderCovers
      <4>2. i < pc
        BY <2>1, <4>1, OrderIsOfProjectors
      <4> QED
        BY <2>0, <2>11, <4>1, <4>2 DEF Reaching
    <3>2. Settled(n)
      BY <1>0, <2>0 DEF Settled
    <3>3. /\ rows.turns = L(n).turns /\ rows.latest = L(n).latest
          /\ NoOldReverts => rows.plans = L(n).plans
      BY <1>0, <2>11, <3>1, <3>2 DEF LiveSoFar
    <3>4. NoOldReverts' => NoOldReverts
      <4>1. \A i \in 1 .. old : i \in 1 .. n
        BY <2>6
      <4> QED
        BY <2>1, <2>2, <4>1 DEF NoOldReverts
    <3>5. /\ rows'.turns = next.turns /\ rows'.latest = next.latest
          /\ NoOldReverts' => rows'.plans = next.plans
      BY <2>7, <2>8, <2>9, <3>3, <3>4
    <3>6. /\ RowsAlong(log')[cursor'["plans"]] = next /\ RowsAlong(log')[cursor'["turns"]] = next
          /\ RowsAlong(log')[cursor'["latest"]] = next
      BY <1>0, <2>6
    <3> HIDE DEF next, r
    <3> QED
      BY <3>5, <3>6 DEF LiveSoFar, L
  <2>12. ASSUME ~(old <= Limit) PROVE LiveSoFar'
    BY <2>1, <2>12 DEF LiveSoFar
  <2> QED
    BY <2>10, <2>11, <2>12
<1> QED
  BY <1>1, <1>2, <1>3 DEF Next, Bootstrap

\* After every start, interrupted ones included, the turns and the latest turn are those
\* of live projection, and without old reverts so are the plans, for any log that fits
\* into one read.
THEOREM ReplayLive == Spec => []ReplayIsLive
<1>1. Init => (Reaching /\ Whole) /\ (Grown /\ LiveSoFar)
  BY InitIInv, InitLive DEF Init, Whole
<1>2. IInv /\ (Reaching /\ Whole) /\ [Next]_vars => (Reaching /\ Whole)'
  BY StepReaching
<1>3. IInv /\ (Reaching /\ Whole) /\ (Grown /\ LiveSoFar) /\ [Next]_vars => (Grown /\ LiveSoFar)'
  BY LiveStep
<1>4. IInv /\ Reaching /\ Grown /\ LiveSoFar => ReplayIsLive
  <2> SUFFICES ASSUME IInv, Reaching, LiveSoFar, WithinLimit, pc = Running
               PROVE  /\ rows.turns = LiveRows(log).turns /\ rows.latest = LiveRows(log).latest
                      /\ NoOldReverts => rows.plans = LiveRows(log).plans
    BY DEF ReplayIsLive, NoOldReverts
  <2>1. \A p \in Projectors : cursor[p] = Len(log)
    <3> SUFFICES ASSUME NEW p \in Projectors PROVE cursor[p] = Len(log)
      OBVIOUS
    <3>1. PICK i \in 1 .. Len(Order) : p = Order[i]
      BY OrderCovers
    <3>2. i < pc
      BY <3>1, OrderIsOfProjectors
    <3> QED
      BY <3>1, <3>2 DEF Reaching, WithinLimit
  <2>2. Settled(Len(log))
    BY DEF Settled, IInv, Cursors
  <2>3. LiveRows(log) = L(Len(log))
    BY DEF L, LiveRows
  <2> QED
    BY <2>1, <2>2, <2>3 DEF LiveSoFar, WithinLimit, Projectors
<1> QED
  BY <1>1, <1>2, <1>3, <1>4, SpecIInv, PTL DEF Spec
=============================================================================
