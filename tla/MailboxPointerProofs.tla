------------------------ MODULE MailboxPointerProofs ------------------------
(***************************************************************************)
(* What MailboxPointer checks on two panes and one message, for every set  *)
(* of panes, batch, number of messages and of mishaps.  The handlers are   *)
(* functions from one state record to the next, and so are the lemmas:     *)
(* each says that its function takes a good state to a good one.           *)
(***************************************************************************)
EXTENDS MailboxPointer, FiniteSetTheorems, WellFoundedInduction, TLAPS

(***************************************************************************)
(* Numbers and finite sets.                                                *)
(***************************************************************************)

LEMMA Least ==
    ASSUME NEW T, T \subseteq Nat, T # {}
    PROVE  \E x \in T : \A y \in T : x <= y
<1> DEFINE R == OpToRel(<, Nat)
<1>1. \E x \in T : \A y \in T : <<y, x>> \notin R
  <2>1. IsWellFoundedOn(R, Nat)
    BY NatLessThanWellFounded
  <2> HIDE DEF R
  <2> QED BY <2>1, WFMin
<1>2. PICK x \in T : \A y \in T : <<y, x>> \notin R
  BY <1>1
<1>3. \A y \in T : ~(y < x)
  BY <1>2 DEF OpToRel
<1>4. \A y \in T : x \in Nat /\ y \in Nat
  OBVIOUS
<1>5. \A y \in T : x <= y
  BY <1>3, <1>4
<1> QED BY <1>5

LEMMA Greatest ==
    ASSUME NEW n \in Nat, NEW T, T \subseteq 1..n, T # {}
    PROVE  \E x \in T : \A y \in T : y <= x
<1> DEFINE U == {n - x : x \in T}
<1>1. U \subseteq Nat
  OBVIOUS
<1>2. PICK z \in T : TRUE
  OBVIOUS
<1>3. n - z \in U
  OBVIOUS
<1>4. \E u \in U : \A v \in U : u <= v
  <2> HIDE DEF U
  <2> QED BY <1>1, <1>3, Least
<1>5. PICK u \in U : \A v \in U : u <= v
  BY <1>4
<1>6. PICK x \in T : u = n - x
  BY <1>5
<1>7. \A y \in T : n - x <= n - y
  BY <1>5, <1>6
<1> QED BY <1>7

LEMMA NewestIsOne ==
    ASSUME NEW n \in Nat, NEW ids, ids \subseteq 1..n, ids # {}
    PROVE  Newest(ids) \in ids
BY Greatest DEF Newest

\* The oldest of a set are some of it, if there are any, no more than a batch, and all of it if it
\* is no more than one.
LEMMA OldestIsBatch ==
    ASSUME NEW n \in Nat, NEW S, S \subseteq 1..n
    PROVE  /\ Oldest(S) \subseteq S
           /\ IsFiniteSet(Oldest(S)) /\ Cardinality(Oldest(S)) <= BatchLimit
           /\ S # {} => Oldest(S) # {}
           /\ Cardinality(S) <= BatchLimit => Oldest(S) = S
<1> DEFINE B(i) == {j \in S : j < i}
<1>1. IsFiniteSet(S)
  <2>1. IsFiniteSet(1..n)
    BY FS_Interval
  <2> QED BY <2>1, FS_Subset
<1>2. \A i : IsFiniteSet(B(i)) /\ Cardinality(B(i)) \in Nat
  BY <1>1, FS_Subset, FS_CardinalityType
<1>3. Oldest(S) \subseteq S /\ \A i \in S : i \in Oldest(S) <=> Cardinality(B(i)) < BatchLimit
  BY DEF Oldest
<1>4. IsFiniteSet(Oldest(S))
  BY <1>1, <1>3, FS_Subset
<1>5. Cardinality(Oldest(S)) <= BatchLimit
  <2>1. CASE Oldest(S) = {}
    BY <2>1, FS_EmptySet, PointerAssumption
  <2>2. CASE Oldest(S) # {}
    <3>1. PICK m \in Oldest(S) : \A y \in Oldest(S) : y <= m
      BY <1>3, <2>2, Greatest
    <3>2. Oldest(S) \ {m} \subseteq B(m)
      <4> SUFFICES ASSUME NEW y \in Oldest(S), y # m PROVE y \in S /\ y < m
        OBVIOUS
      <4>1. y \in S /\ m \in S /\ y <= m
        BY <1>3, <3>1
      <4>2. y \in Int /\ m \in Int
        BY <4>1
      <4> QED BY <4>1, <4>2
    <3>3. Cardinality(Oldest(S) \ {m}) <= Cardinality(B(m))
      BY <1>2, <3>2, FS_Subset
    <3>4. Cardinality(Oldest(S) \ {m}) = Cardinality(Oldest(S)) - 1
      BY <1>4, <3>1, FS_RemoveElement
    <3>5. Cardinality(B(m)) < BatchLimit
      BY <1>3, <3>1
    <3>6. Cardinality(Oldest(S)) \in Nat /\ Cardinality(Oldest(S) \ {m}) \in Nat
      BY <1>4, FS_CardinalityType, FS_RemoveElement
    <3>7. Cardinality(B(m)) \in Nat /\ BatchLimit \in Nat
      BY <1>2, PointerAssumption
    <3> QED BY <3>3, <3>4, <3>5, <3>6, <3>7
  <2> QED BY <2>1, <2>2
<1>6. ASSUME S # {} PROVE Oldest(S) # {}
  <2>0. S \subseteq Nat
    OBVIOUS
  <2>1. PICK x \in S : \A y \in S : x <= y
    BY <1>6, <2>0, Least
  <2>2. B(x) = {}
    <3> SUFFICES ASSUME NEW y \in S, y < x PROVE FALSE
      OBVIOUS
    <3>1. x <= y /\ x \in Int /\ y \in Int
      BY <2>0, <2>1
    <3> QED BY <3>1
  <2>3. Cardinality(B(x)) = 0
    BY <2>2, FS_EmptySet
  <2> QED BY <1>3, <2>3, PointerAssumption
<1>7. ASSUME Cardinality(S) <= BatchLimit PROVE Oldest(S) = S
  <2>1. ASSUME NEW i \in S PROVE Cardinality(B(i)) < BatchLimit
    <3>1. B(i) \subseteq S \ {i}
      BY <2>1
    <3>2. Cardinality(S \ {i}) = Cardinality(S) - 1 /\ IsFiniteSet(S \ {i})
      BY <1>1, <2>1, FS_RemoveElement
    <3>3. Cardinality(B(i)) <= Cardinality(S \ {i})
      BY <3>1, <3>2, FS_Subset
    <3>4. Cardinality(S) \in Nat /\ Cardinality(S \ {i}) \in Nat /\ Cardinality(B(i)) \in Nat
      BY <1>1, <1>2, <3>2, FS_CardinalityType
    <3>5. BatchLimit \in Nat
      BY PointerAssumption
    <3> QED BY <1>7, <3>2, <3>3, <3>4, <3>5
  <2> QED BY <1>3, <2>1
<1> QED BY <1>3, <1>4, <1>5, <1>6, <1>7

(***************************************************************************)
(* Good states.                                                            *)
(***************************************************************************)

Good(t) == t \in States /\ IsFiniteSet(t.mem.calls) /\ Sound(t)

LEMMA Fields ==
    ASSUME NEW t \in States
    PROVE  /\ t.rows \in Seq(Messages) /\ t.agent \in [Panes -> Agents]
           /\ t.mem \in Memories /\ t.box \in Boxes /\ t.seen \in Pasts
           /\ t.mem.flights \subseteq Flights /\ t.mem.calls \subseteq Calls
           /\ t.mem.mark \subseteq Marks
           /\ t.box.owner \in Panes
           /\ DOMAIN t.rows = 1..Len(t.rows) /\ Len(t.rows) \in Nat
           /\ \A i \in DOMAIN t.rows : t.rows[i] \in Messages
BY DEF States, Memories, Boxes, Pasts

\* What a row becomes.
LEMMA RowKinds ==
    ASSUME NEW row \in Messages
    PROVE  /\ AsDelivered(row) \in Messages /\ AsUndelivered(row) \in Messages
           /\ AsRead(row) \in Messages
           /\ AsDelivered(row).phase = "none" /\ AsUndelivered(row).phase = "none"
           /\ AsRead(row).phase = "none"
           /\ AsDelivered(row).delivered = TRUE /\ AsRead(row).read = TRUE
           /\ AsDelivered(row).read = row.read /\ AsUndelivered(row).read = row.read
BY DEF Messages, Cleared, AsDelivered, AsUndelivered, AsRead, Phases

\* A function that writes rows and nothing else.
OnlyRows(t, u) ==
    /\ u \in States
    /\ u.mem = t.mem /\ u.agent = t.agent /\ u.box = t.box /\ u.seen = t.seen
    /\ DOMAIN u.rows = DOMAIN t.rows

LEMMA RowsWritten ==
    ASSUME NEW t \in States, NEW R \in [DOMAIN t.rows -> Messages]
    PROVE  /\ OnlyRows(t, [t EXCEPT !.rows = R])
           /\ [t EXCEPT !.rows = R].rows = R
<1>1. R \in Seq(Messages)
  BY Fields
<1> QED BY <1>1 DEF OnlyRows, States

LEMMA SettleEnterWrites ==
    ASSUME NEW t \in States, NEW ids, NEW to, NEW phases
    PROVE  LET u == SettleEnter(t, ids, to, phases) IN
           /\ OnlyRows(t, u)
           /\ \A i \in DOMAIN t.rows :
                u.rows[i] = IF i \in ids /\ t.rows[i].to = to /\ t.rows[i].phase \in phases
                            THEN AsDelivered(t.rows[i]) ELSE t.rows[i]
<1> DEFINE R == [i \in DOMAIN t.rows |->
                   IF i \in ids /\ (t.rows[i].to = to /\ t.rows[i].phase \in phases)
                   THEN AsDelivered(t.rows[i]) ELSE t.rows[i]]
<1>1. R \in [DOMAIN t.rows -> Messages]
  BY Fields, RowKinds
<1>2. SettleEnter(t, ids, to, phases) = [t EXCEPT !.rows = R]
  BY DEF SettleEnter, Update
<1>3. \A i \in DOMAIN t.rows : R[i] =
                      IF i \in ids /\ (t.rows[i].to = to /\ t.rows[i].phase \in phases)
                      THEN AsDelivered(t.rows[i]) ELSE t.rows[i]
  OBVIOUS
<1>4. OnlyRows(t, [t EXCEPT !.rows = R]) /\ [t EXCEPT !.rows = R].rows = R
  <2> HIDE DEF R
  <2> QED BY <1>1, RowsWritten
<1> QED BY <1>2, <1>3, <1>4

LEMMA ReleaseEnterWrites ==
    ASSUME NEW t \in States, NEW ids, NEW to, NEW phases
    PROVE  LET u == ReleaseEnter(t, ids, to, phases) IN
           /\ OnlyRows(t, u)
           /\ \A i \in DOMAIN t.rows :
                u.rows[i] = IF i \in ids /\ ~t.rows[i].read /\ t.rows[i].to = to
                               /\ t.rows[i].phase \in phases
                            THEN AsUndelivered(t.rows[i]) ELSE t.rows[i]
<1> DEFINE R == [i \in DOMAIN t.rows |->
                   IF i \in ids /\ (/\ ~t.rows[i].read /\ t.rows[i].to = to
                                   /\ t.rows[i].phase \in phases)
                   THEN AsUndelivered(t.rows[i]) ELSE t.rows[i]]
<1>1. R \in [DOMAIN t.rows -> Messages]
  BY Fields, RowKinds
<1>2. ReleaseEnter(t, ids, to, phases) = [t EXCEPT !.rows = R]
  BY DEF ReleaseEnter, Update
<1>3. \A i \in DOMAIN t.rows : R[i] =
                      IF i \in ids /\ (/\ ~t.rows[i].read /\ t.rows[i].to = to
                                      /\ t.rows[i].phase \in phases)
                      THEN AsUndelivered(t.rows[i]) ELSE t.rows[i]
  OBVIOUS
<1>4. OnlyRows(t, [t EXCEPT !.rows = R]) /\ [t EXCEPT !.rows = R].rows = R
  <2> HIDE DEF R
  <2> QED BY <1>1, RowsWritten
<1> QED BY <1>2, <1>3, <1>4

LEMMA ReleaseAllWrites ==
    ASSUME NEW t \in States, NEW ids
    PROVE  LET u == ReleaseAll(t, ids) IN
           /\ OnlyRows(t, u)
           /\ \A i \in DOMAIN t.rows :
                u.rows[i] = IF i \in ids THEN AsUndelivered(t.rows[i]) ELSE t.rows[i]
<1> DEFINE R == [i \in DOMAIN t.rows |->
                   IF i \in ids /\ TRUE THEN AsUndelivered(t.rows[i]) ELSE t.rows[i]]
<1>1. R \in [DOMAIN t.rows -> Messages]
  BY Fields, RowKinds
<1>2. ReleaseAll(t, ids) = [t EXCEPT !.rows = R]
  BY DEF ReleaseAll, Update
<1>3. \A i \in DOMAIN t.rows : R[i] =
                      IF i \in ids /\ TRUE THEN AsUndelivered(t.rows[i]) ELSE t.rows[i]
  OBVIOUS
<1>4. OnlyRows(t, [t EXCEPT !.rows = R]) /\ [t EXCEPT !.rows = R].rows = R
  <2> HIDE DEF R
  <2> QED BY <1>1, RowsWritten
<1> QED BY <1>2, <1>3, <1>4

LEMMA ReleasePendingWrites ==
    ASSUME NEW t \in States, NEW p
    PROVE  LET u == ReleasePendingForPane(t, p) IN
           /\ OnlyRows(t, u)
           /\ \A i \in DOMAIN t.rows :
                u.rows[i] = IF t.rows[i].phase # "none" /\ t.rows[i].to[1] = p
                            THEN IF t.rows[i].phase = "reserved" THEN AsUndelivered(t.rows[i])
                                                                 ELSE AsDelivered(t.rows[i])
                            ELSE t.rows[i]
<1> DEFINE R == [i \in DOMAIN t.rows |->
                   IF i \in DOMAIN t.rows /\ (t.rows[i].phase # "none" /\ t.rows[i].to[1] = p)
                   THEN IF t.rows[i].phase = "reserved" THEN AsUndelivered(t.rows[i])
                                                        ELSE AsDelivered(t.rows[i])
                   ELSE t.rows[i]]
<1>1. R \in [DOMAIN t.rows -> Messages]
  BY Fields, RowKinds
<1>2. ReleasePendingForPane(t, p) = [t EXCEPT !.rows = R]
  BY DEF ReleasePendingForPane, Update
<1>3. \A i \in DOMAIN t.rows : R[i] =
                      IF i \in DOMAIN t.rows /\ (t.rows[i].phase # "none" /\ t.rows[i].to[1] = p)
                      THEN IF t.rows[i].phase = "reserved" THEN AsUndelivered(t.rows[i])
                                                           ELSE AsDelivered(t.rows[i])
                      ELSE t.rows[i]
  OBVIOUS
<1>4. OnlyRows(t, [t EXCEPT !.rows = R]) /\ [t EXCEPT !.rows = R].rows = R
  <2> HIDE DEF R
  <2> QED BY <1>1, RowsWritten
<1> QED BY <1>2, <1>3, <1>4

Advanced(t, u, ids, to, from, phase) ==
    /\ OnlyRows(t, u)
    /\ \A i \in DOMAIN t.rows :
         u.rows[i] = IF i \in ids /\ t.rows[i].phase = from
                     THEN [t.rows[i] EXCEPT !.phase = phase, !.to = to] ELSE t.rows[i]

LEMMA AdvanceWrites ==
    ASSUME NEW t \in States, NEW ids, NEW to \in Incarnations, NEW from, NEW phase \in Phases
    PROVE  Advanced(t, Advance(t, ids, to, from, phase), ids, to, from, phase)
<1> DEFINE R == [i \in DOMAIN t.rows |->
                   IF i \in ids /\ t.rows[i].phase = from
                   THEN [t.rows[i] EXCEPT !.phase = phase, !.to = to] ELSE t.rows[i]]
<1>1. R \in [DOMAIN t.rows -> Messages]
  <2>1. ASSUME NEW i \in DOMAIN t.rows
        PROVE  t.rows[i] \in Messages /\ [t.rows[i] EXCEPT !.phase = phase, !.to = to] \in Messages
    <3>1. t.rows[i] \in Messages
      BY Fields
    <3> QED BY <3>1 DEF Messages
  <2> QED BY <2>1
<1>2. Advance(t, ids, to, from, phase) = [t EXCEPT !.rows = R]
  BY DEF Advance, Update
<1>3. \A i \in DOMAIN t.rows : R[i] =
                      IF i \in ids /\ t.rows[i].phase = from
                      THEN [t.rows[i] EXCEPT !.phase = phase, !.to = to] ELSE t.rows[i]
  OBVIOUS
<1>4. OnlyRows(t, [t EXCEPT !.rows = R]) /\ [t EXCEPT !.rows = R].rows = R
  <2> HIDE DEF R
  <2> QED BY <1>1, RowsWritten
<1> QED BY <1>2, <1>3, <1>4 DEF Advanced

\* A step that types nothing and presses nothing: rows are settled or given back, but not what a
\* flight still needs nor what was entered; flights and calls end or wait for something else.
RowGoesOn(t, u, i) ==
    \/ u.rows[i] = t.rows[i]
    \/ /\ u.rows[i].phase = "none"
       /\ \A f \in u.mem.flights : i \in f.ids => u.rows[i].read
       /\ \/ u.rows[i].read \/ u.rows[i].delivered
          \/ t.box.owner \in t.seen.left
          \/ <<i, Process(t, t.box.owner)>> \notin t.seen.entered

FlightGoesOn(t, u, g) ==
    /\ \E f \in t.mem.flights : Ticket(f) = Ticket(g)
    /\ u.mem.flights = {g} /\ u.mem.mark = t.mem.mark
    /\ SeenBy(g.ids, g.to) \subseteq u.seen.typed
    /\ g.timer => g.submit
    /\ g.submit => \A c \in u.mem.calls : c.ticket # Ticket(g)

GoesOn(t, u) ==
    /\ u \in States
    /\ DOMAIN u.rows = DOMAIN t.rows
    /\ \A i \in DOMAIN t.rows : RowGoesOn(t, u, i)
    /\ \A p \in Panes : /\ u.agent[p].alive = t.agent[p].alive
                        /\ u.agent[p].process = t.agent[p].process
    /\ u.box.owner = t.box.owner
    /\ u.seen.entered = t.seen.entered /\ u.seen.left = t.seen.left /\ u.seen.twice = t.seen.twice
    /\ u.seen.entered \subseteq u.seen.typed /\ u.seen.typed \subseteq t.seen.typed
    /\ u.mem.calls \subseteq t.mem.calls
    /\ \A m, n \in u.mem.mark : m = n
    /\ \A g \in u.mem.flights : FlightGoesOn(t, u, g)

LEMMA ReservedIsFinite ==
    ASSUME NEW t \in States
    PROVE  /\ Reserved(t) \subseteq 1..Len(t.rows)
           /\ IsFiniteSet(Reserved(t)) /\ Cardinality(Reserved(t)) \in Nat
<1>1. Reserved(t) \subseteq 1..Len(t.rows)
  BY Fields DEF Reserved, Unread
<1>2. IsFiniteSet(1..Len(t.rows))
  BY Fields, FS_Interval
<1> QED BY <1>1, <1>2, FS_Subset, FS_CardinalityType

\* Fewer rows in doubt are still one batch for one process.
LEMMA FewerReserved ==
    ASSUME NEW t \in States, NEW u \in States, RowsAreSound(t),
           Reserved(u) \subseteq Reserved(t),
           \A i \in Reserved(u) : u.rows[i].to = t.rows[i].to
    PROVE  /\ Cardinality(Reserved(u)) <= BatchLimit
           /\ \A i, j \in Reserved(u) : u.rows[i].to = u.rows[j].to
<1>1. Cardinality(Reserved(u)) <= Cardinality(Reserved(t))
  BY ReservedIsFinite, FS_Subset
<1>2. BatchLimit \in Nat
  BY PointerAssumption
<1>3. Cardinality(Reserved(u)) <= BatchLimit
  BY <1>1, <1>2, ReservedIsFinite DEF RowsAreSound
<1> QED BY <1>3 DEF RowsAreSound

LEMMA TicketTells ==
    ASSUME NEW f, NEW g, Ticket(f) = Ticket(g)
    PROVE  f.id = g.id /\ f.pane = g.pane /\ f.to = g.to /\ f.ids = g.ids
<1>1. \A h : /\ Ticket(h).id = h.id /\ Ticket(h).pane = h.pane
             /\ Ticket(h).to = h.to /\ Ticket(h).ids = h.ids
  BY DEF Ticket
<1> QED BY <1>1

LEMMA GoesOnKeeps ==
    ASSUME NEW t, NEW u, Good(t), GoesOn(t, u)
    PROVE  Good(u)
<1> USE DEF Good, Sound
<1>1. t \in States /\ u \in States
  BY DEF GoesOn
<1>2. IsFiniteSet(u.mem.calls)
  BY FS_Subset DEF GoesOn
<1>3. ASSUME NEW g \in u.mem.flights
      PROVE  \E f \in t.mem.flights :
               Ticket(f) = Ticket(g) /\ f.pane = g.pane /\ f.to = g.to /\ f.ids = g.ids
  BY <1>3, TicketTells DEF GoesOn, FlightGoesOn
<1>4. \A p \in Panes : Process(u, p) = Process(t, p)
  BY DEF GoesOn, Process
<1>5. OnePointer(u)
  <2>1. ASSUME NEW g \in u.mem.flights
        PROVE  u.mem.flights = {g} /\ u.mem.mark = {MarkOf(Ticket(g))}
    BY <1>3 DEF GoesOn, FlightGoesOn, OnePointer
  <2> QED BY <2>1 DEF GoesOn, OnePointer
<1>6. FlightIsSound(u)
  <2> SUFFICES ASSUME NEW g \in u.mem.flights
               PROVE  /\ u.agent[g.pane].alive
                      /\ g.to = Process(u, g.pane)
                      /\ g.ids # {} /\ g.ids \subseteq DOMAIN u.rows
                      /\ SeenBy(g.ids, g.to) \subseteq u.seen.typed
                      /\ \A i \in g.ids :
                           \/ u.rows[i].read
                           \/ u.rows[i].phase \in {"written", "entered"} /\ u.rows[i].to = g.to
    BY DEF FlightIsSound
  <2>1. PICK f \in t.mem.flights : f.pane = g.pane /\ f.to = g.to /\ f.ids = g.ids
    BY <1>3
  <2>2. g.pane \in Panes
    BY <1>1, Fields DEF Flights
  <2>3. u.agent[g.pane].alive /\ g.to = Process(u, g.pane) /\ g.ids # {}
        /\ g.ids \subseteq DOMAIN u.rows
    BY <1>4, <2>1, <2>2 DEF GoesOn, FlightIsSound
  <2>4. SeenBy(g.ids, g.to) \subseteq u.seen.typed
    BY DEF GoesOn, FlightGoesOn
  <2>5. ASSUME NEW i \in g.ids
        PROVE  \/ u.rows[i].read
               \/ u.rows[i].phase \in {"written", "entered"} /\ u.rows[i].to = g.to
    <3>1. i \in DOMAIN t.rows /\ i \in f.ids
      BY <2>1, <2>3 DEF GoesOn
    <3>2. \/ t.rows[i].read
          \/ t.rows[i].phase \in {"written", "entered"} /\ t.rows[i].to = g.to
      BY <2>1, <3>1 DEF FlightIsSound
    <3>3. RowGoesOn(t, u, i)
      BY <3>1 DEF GoesOn
    <3> QED BY <3>2, <3>3 DEF RowGoesOn
  <2> QED BY <2>3, <2>4, <2>5
<1>7. CallsAreSound(u)
  <2>1. \A c \in u.mem.calls : c.ticket.to[1] = c.ticket.pane
    BY DEF GoesOn, CallsAreSound
  <2>2. ASSUME NEW g \in u.mem.flights
        PROVE  /\ g.timer => g.submit
               /\ g.submit => \A c \in u.mem.calls : c.ticket # Ticket(g)
    BY DEF GoesOn, FlightGoesOn
  <2>3. ASSUME NEW g \in u.mem.flights, NEW c \in u.mem.calls, c.ticket = Ticket(g)
        PROVE  /\ \A d \in u.mem.calls : d.ticket = Ticket(g) => c = d
               /\ c.kind = "text" => \A i \in g.ids : u.rows[i].phase # "entered"
    <3>1. PICK f \in t.mem.flights : Ticket(f) = Ticket(g) /\ f.ids = g.ids
      BY <1>3
    <3>2. \A d \in u.mem.calls : d.ticket = Ticket(g) => c = d
      BY <2>3, <3>1 DEF GoesOn, CallsAreSound
    <3>3. ASSUME c.kind = "text", NEW i \in g.ids PROVE u.rows[i].phase # "entered"
      <4>1. t.rows[i].phase # "entered" /\ i \in DOMAIN t.rows
        BY <2>3, <3>1, <3>3 DEF GoesOn, CallsAreSound, FlightIsSound
      <4> QED BY <4>1 DEF GoesOn, RowGoesOn
    <3> QED BY <3>2, <3>3
  <2> QED BY <2>1, <2>2, <2>3 DEF CallsAreSound
<1>8. RowsAreSound(u)
  <2>1. ASSUME NEW i \in DOMAIN u.rows, u.rows[i].phase # "none"
        PROVE  i \in DOMAIN t.rows /\ u.rows[i] = t.rows[i]
    BY <2>1 DEF GoesOn, RowGoesOn
  <2>2. \A i \in DOMAIN u.rows :
          u.rows[i].phase # "none" => ~u.rows[i].read /\ u.rows[i].to \in Incarnations
    BY <2>1 DEF RowsAreSound
  <2>3. Reserved(u) \subseteq Reserved(t) /\ \A i \in Reserved(u) : u.rows[i].to = t.rows[i].to
    BY <2>1 DEF Reserved, Unread
  <2> QED BY <1>1, <2>2, <2>3, FewerReserved DEF RowsAreSound
<1>9. PastIsSound(u)
  <2>1. /\ u.seen.entered \subseteq u.seen.typed /\ ~u.seen.twice
    BY DEF GoesOn, PastIsSound
  <2>2. ASSUME NEW x \in u.seen.typed
        PROVE  /\ x[1] \in DOMAIN u.rows
               /\ x[2][1] \in u.seen.left \cup {u.box.owner}
               /\ x[2][2] <= u.agent[x[2][1]].process
    <3>1. x \in t.seen.typed
      BY DEF GoesOn
    <3>2. x[2][1] \in Panes
      BY <1>1, <3>1 DEF States, Pasts, Incarnations
    <3> QED BY <3>1, <3>2 DEF GoesOn, PastIsSound
  <2>3. ASSUME u.box.owner \notin u.seen.left, NEW i \in DOMAIN u.rows,
               <<i, Process(u, u.box.owner)>> \in u.seen.entered
        PROVE  \/ u.rows[i].read
               \/ u.rows[i].phase = "none" /\ u.rows[i].delivered
               \/ u.rows[i].phase = "entered" /\ u.rows[i].to = Process(u, u.box.owner)
    <3>1. /\ t.box.owner \notin t.seen.left /\ i \in DOMAIN t.rows
          /\ <<i, Process(t, t.box.owner)>> \in t.seen.entered
          /\ Process(u, u.box.owner) = Process(t, t.box.owner)
      BY <1>1, <1>4, <2>3, Fields DEF GoesOn
    <3>2. \/ t.rows[i].read
          \/ t.rows[i].phase = "none" /\ t.rows[i].delivered
          \/ t.rows[i].phase = "entered" /\ t.rows[i].to = Process(t, t.box.owner)
      BY <3>1 DEF PastIsSound
    <3> QED BY <3>1, <3>2 DEF GoesOn, RowGoesOn
  <2> QED BY <2>1, <2>2, <2>3 DEF PastIsSound
<1> QED BY <1>1, <1>2, <1>5, <1>6, <1>7, <1>8, <1>9

\* A step that writes no row and touches no flight, call or watermark.
Same(t, u) ==
    /\ u \in States
    /\ u.rows = t.rows /\ u.seen = t.seen
    /\ u.mem.flights = t.mem.flights /\ u.mem.calls = t.mem.calls /\ u.mem.mark = t.mem.mark
    /\ \A p \in Panes : /\ u.agent[p].alive = t.agent[p].alive
                        /\ u.agent[p].process = t.agent[p].process
    /\ u.box.owner = t.box.owner

LEMMA FlightStays ==
    ASSUME NEW t, Good(t), NEW f \in t.mem.flights
    PROVE  /\ f \in Flights /\ t.mem.flights = {f} /\ t.mem.mark = {MarkOf(Ticket(f))}
           /\ SeenBy(f.ids, f.to) \subseteq t.seen.typed
           /\ f.timer => f.submit
           /\ f.submit => \A c \in t.mem.calls : c.ticket # Ticket(f)
BY Fields DEF Good, Sound, OnePointer, FlightIsSound, CallsAreSound

LEMMA SameKeeps ==
    ASSUME NEW t, NEW u, Good(t), Same(t, u)
    PROVE  GoesOn(t, u) /\ Good(u)
<1>1. GoesOn(t, u)
  <2>1. \A m, n \in t.mem.mark : m = n
    BY DEF Good, Sound, OnePointer
  <2>2. t.seen.entered \subseteq t.seen.typed
    BY DEF Good, Sound, PastIsSound
  <2>3. \A g \in u.mem.flights : FlightGoesOn(t, u, g)
    BY FlightStays DEF Same, FlightGoesOn
  <2> QED BY <2>1, <2>2, <2>3 DEF GoesOn, Same, RowGoesOn
<1> QED BY <1>1, GoesOnKeeps

(***************************************************************************)
(* The delivery's memory.                                                  *)
(***************************************************************************)

\* A function that writes the delivery's memory and nothing else.
OnlyMemory(t, u) ==
    u \in States /\ u.rows = t.rows /\ u.agent = t.agent /\ u.box = t.box /\ u.seen = t.seen

LEMMA FlightsWritten ==
    ASSUME NEW t \in States, NEW F, F \subseteq Flights
    PROVE  LET u == [t EXCEPT !.mem.flights = F] IN
           /\ OnlyMemory(t, u)
           /\ u.mem.flights = F /\ u.mem.calls = t.mem.calls /\ u.mem.mark = t.mem.mark
BY DEF States, Memories, OnlyMemory

LEMMA CallsWritten ==
    ASSUME NEW t \in States, NEW C, C \subseteq Calls
    PROVE  LET u == [t EXCEPT !.mem.calls = C] IN
           /\ OnlyMemory(t, u)
           /\ u.mem.flights = t.mem.flights /\ u.mem.calls = C /\ u.mem.mark = t.mem.mark
BY DEF States, Memories, OnlyMemory

LEMMA MarkWritten ==
    ASSUME NEW t \in States, NEW M, M \subseteq Marks
    PROVE  LET u == [t EXCEPT !.mem.mark = M] IN
           /\ OnlyMemory(t, u)
           /\ u.mem.flights = t.mem.flights /\ u.mem.calls = t.mem.calls /\ u.mem.mark = M
BY DEF States, Memories, OnlyMemory

LEMMA AnsweredKeeps ==
    ASSUME NEW t, Good(t), NEW c \in t.mem.calls
    PROVE  LET u == Answered(t, c) IN
           /\ GoesOn(t, u) /\ Good(u)
           /\ OnlyMemory(t, u)
           /\ u.mem.flights = t.mem.flights /\ u.mem.mark = t.mem.mark
           /\ u.mem.calls = t.mem.calls \ {c}
<1> DEFINE u == [t EXCEPT !.mem.calls = t.mem.calls \ {c}]
<1>1. Answered(t, c) = u
  BY DEF Answered
<1>2. /\ OnlyMemory(t, u)
      /\ u.mem.flights = t.mem.flights /\ u.mem.mark = t.mem.mark
      /\ u.mem.calls = t.mem.calls \ {c}
  BY CallsWritten, Fields DEF Good
<1> HIDE DEF u
<1>3. \A g \in u.mem.flights : FlightGoesOn(t, u, g)
  BY <1>2, FlightStays DEF FlightGoesOn, OnlyMemory
<1>4. GoesOn(t, u)
  BY <1>2, <1>3 DEF GoesOn, OnlyMemory, RowGoesOn, Good, Sound, OnePointer, PastIsSound
<1> QED BY <1>1, <1>2, <1>4, GoesOnKeeps

\* The flight waits for something else.
LEMMA ChangedKeeps ==
    ASSUME NEW t, Good(t), NEW f \in t.mem.flights, NEW g \in Flights, Ticket(g) = Ticket(f),
           g.timer => g.submit, g.submit => \A c \in t.mem.calls : c.ticket # Ticket(f)
    PROVE  LET u == Changed(t, f, g) IN
           /\ GoesOn(t, u) /\ Good(u)
           /\ OnlyMemory(t, u)
           /\ u.mem.flights = {g} /\ u.mem.mark = t.mem.mark /\ u.mem.calls = t.mem.calls
<1> DEFINE u == [t EXCEPT !.mem.flights = (t.mem.flights \ {f}) \cup {g}]
<1>1. Changed(t, f, g) = u
  BY DEF Changed
<1>2. (t.mem.flights \ {f}) \cup {g} = {g}
  BY FlightStays
<1>3. /\ OnlyMemory(t, u)
      /\ u.mem.flights = {g} /\ u.mem.mark = t.mem.mark /\ u.mem.calls = t.mem.calls
  BY <1>2, FlightsWritten, Fields DEF Good
<1> HIDE DEF u
<1>4. SeenBy(g.ids, g.to) \subseteq t.seen.typed
  BY FlightStays, TicketTells
<1>5. \A h \in u.mem.flights : FlightGoesOn(t, u, h)
  BY <1>3, <1>4 DEF FlightGoesOn, OnlyMemory
<1>6. GoesOn(t, u)
  BY <1>3, <1>5 DEF GoesOn, OnlyMemory, RowGoesOn, Good, Sound, OnePointer, PastIsSound
<1> QED BY <1>1, <1>3, <1>6, GoesOnKeeps

\* A flight that waits for nothing asks the terminal.
LEMMA CalledKeeps ==
    ASSUME NEW t, Good(t), NEW f \in t.mem.flights, ~f.submit, NEW kind \in {"probe", "enter"},
           \A c \in t.mem.calls : c.ticket # Ticket(f)
    PROVE  LET u == Called(t, kind, Ticket(f)) IN
           /\ Good(u)
           /\ OnlyMemory(t, u)
           /\ u.mem.flights = t.mem.flights /\ u.mem.mark = t.mem.mark
           /\ u.mem.calls = t.mem.calls \cup {[kind |-> kind, ticket |-> Ticket(f)]}
<1> DEFINE c == [kind |-> kind, ticket |-> Ticket(f)]
           u == [t EXCEPT !.mem.calls = t.mem.calls \cup {c}]
<1>1. Called(t, kind, Ticket(f)) = u
  BY DEF Called
<1>2. f \in Flights
  BY FlightStays
<1>3. c \in Calls
  BY <1>2 DEF Calls, Flights, Ticket
<1>4. /\ OnlyMemory(t, u)
      /\ u.mem.flights = t.mem.flights /\ u.mem.mark = t.mem.mark
      /\ u.mem.calls = t.mem.calls \cup {c}
  <2>1. t.mem.calls \cup {c} \subseteq Calls /\ t \in States
    BY <1>3, Fields DEF Good
  <2> HIDE DEF c
  <2> QED BY <2>1, CallsWritten
<1> HIDE DEF u
<1>5. IsFiniteSet(u.mem.calls)
  BY <1>4, FS_AddElement DEF Good
<1>6. c.ticket.to[1] = c.ticket.pane /\ c.ticket = Ticket(f) /\ c.kind = kind
  <2>1. f.to[1] = f.pane
    BY DEF Good, Sound, FlightIsSound, Process
  <2> QED BY <2>1 DEF Ticket
<1> HIDE DEF c
<1>7. \A g \in t.mem.flights : g = f
  BY FlightStays
<1>8. CallsAreSound(u)
  BY <1>4, <1>6, <1>7 DEF OnlyMemory, CallsAreSound, Good, Sound
<1>9. OnePointer(u)
  BY <1>4 DEF OnePointer, Good, Sound
<1>10. FlightIsSound(u)
  BY <1>4 DEF OnlyMemory, FlightIsSound, Process, Good, Sound
<1>11. RowsAreSound(u)
  BY <1>4 DEF OnlyMemory, RowsAreSound, Reserved, Unread, Good, Sound
<1>12. PastIsSound(u)
  BY <1>4 DEF OnlyMemory, PastIsSound, Process, Good, Sound
<1> QED BY <1>1, <1>4, <1>5, <1>8, <1>9, <1>10, <1>11, <1>12 DEF c, Good, Sound, OnlyMemory

LEMMA SubmitKeeps ==
    ASSUME NEW t, Good(t), NEW f \in t.mem.flights,
           \A c \in t.mem.calls : c.ticket # Ticket(f)
    PROVE  LET u == Submit(t, f) IN
           /\ Good(u)
           /\ OnlyMemory(t, u)
           /\ \A c \in u.mem.calls : c \in t.mem.calls \/ c.kind = "probe"
<1> DEFINE g == [f EXCEPT !.submit = FALSE, !.timer = FALSE, !.deferred = FALSE,
                          !.idleSeen = FALSE]
           s == Changed(t, f, g)
<1>1. f \in Flights
  BY FlightStays
<1>2. g \in Flights /\ ~g.submit /\ ~g.timer /\ Ticket(g) = Ticket(f)
  BY <1>1 DEF Flights, Ticket
<1>3. Submit(t, f) = Called(s, "probe", Ticket(g))
  BY <1>2 DEF Submit
<1> HIDE DEF g
<1>4. /\ Good(s) /\ OnlyMemory(t, s)
      /\ s.mem.flights = {g} /\ s.mem.mark = t.mem.mark /\ s.mem.calls = t.mem.calls
  BY <1>2, ChangedKeeps
<1> HIDE DEF s
<1>5. \A c \in s.mem.calls : c.ticket # Ticket(g)
  BY <1>2, <1>4
<1>6. LET u == Called(s, "probe", Ticket(g)) IN
      /\ Good(u) /\ OnlyMemory(s, u)
      /\ u.mem.calls = s.mem.calls \cup {[kind |-> "probe", ticket |-> Ticket(g)]}
  BY <1>2, <1>4, <1>5, CalledKeeps
<1> QED BY <1>3, <1>4, <1>6 DEF OnlyMemory

LEMMA TakeDeferredEnterKeeps ==
    ASSUME NEW t, Good(t), NEW p
    PROVE  LET u == TakeDeferredEnter(t, p) IN
           /\ Good(u)
           /\ OnlyMemory(t, u)
           /\ \A c \in u.mem.calls : c \in t.mem.calls \/ c.kind = "probe"
<1>1. CASE ~\E f \in FlightsOf(t, p) : f.deferred
  BY <1>1 DEF TakeDeferredEnter, OnlyMemory, Good
<1>2. CASE \E f \in FlightsOf(t, p) : f.deferred
  <2> DEFINE f == CHOOSE f \in FlightsOf(t, p) : TRUE
  <2>1. f \in t.mem.flights
    BY <1>2 DEF FlightsOf
  <2>2. TakeDeferredEnter(t, p) =
          IF f.submit THEN Submit(t, f) ELSE Changed(t, f, [f EXCEPT !.idleSeen = TRUE])
    BY <1>2 DEF TakeDeferredEnter
  <2> HIDE DEF f
  <2>3. CASE f.submit
    BY <2>1, <2>2, <2>3, FlightStays, SubmitKeeps
  <2>4. CASE ~f.submit
    <3> DEFINE g == [f EXCEPT !.idleSeen = TRUE]
    <3>1. f \in Flights /\ ~f.timer
      BY <2>1, <2>4, FlightStays
    <3>2. g \in Flights /\ ~g.submit /\ ~g.timer /\ Ticket(g) = Ticket(f)
      BY <2>4, <3>1 DEF Flights, Ticket
    <3> HIDE DEF g
    <3>3. LET u == Changed(t, f, g) IN
          Good(u) /\ OnlyMemory(t, u) /\ u.mem.calls = t.mem.calls
      BY <2>1, <3>2, ChangedKeeps
    <3> QED BY <2>2, <2>4, <3>3 DEF g
  <2> QED BY <2>3, <2>4
<1> QED BY <1>1, <1>2

LEMMA DeferUntilIdleKeeps ==
    ASSUME NEW t, Good(t), NEW p
    PROVE  LET u == DeferUntilIdle(t, p) IN
           /\ GoesOn(t, u) /\ Good(u)
           /\ OnlyMemory(t, u)
           /\ u.mem.mark = t.mem.mark /\ u.mem.calls = t.mem.calls
           /\ \A g \in u.mem.flights : \E f \in t.mem.flights :
                Ticket(g) = Ticket(f) /\ g.submit = f.submit
<1> DEFINE D(f) == IF f.pane = p THEN [f EXCEPT !.timer = FALSE, !.deferred = TRUE,
                                                !.idleSeen = FALSE] ELSE f
           F == {D(f) : f \in t.mem.flights}
           u == [t EXCEPT !.mem.flights = F]
<1>1. DeferUntilIdle(t, p) = u
  BY DEF DeferUntilIdle
<1>2. \A f \in t.mem.flights : /\ D(f) \in Flights /\ Ticket(D(f)) = Ticket(f)
                               /\ D(f).submit = f.submit /\ (D(f).timer => f.timer)
  <2> SUFFICES ASSUME NEW f \in t.mem.flights
               PROVE  /\ D(f) \in Flights /\ Ticket(D(f)) = Ticket(f)
                      /\ D(f).submit = f.submit /\ (D(f).timer => f.timer)
    OBVIOUS
  <2>1. f \in Flights
    BY FlightStays
  <2>2. CASE f.pane = p
    BY <2>1, <2>2 DEF Flights, Ticket
  <2>3. CASE f.pane # p
    BY <2>1, <2>3
  <2> QED BY <2>2, <2>3
<1> HIDE DEF D
<1>3. /\ OnlyMemory(t, u)
      /\ u.mem.flights = F /\ u.mem.mark = t.mem.mark /\ u.mem.calls = t.mem.calls
  <2>1. F \subseteq Flights /\ t \in States
    BY <1>2 DEF Good
  <2> HIDE DEF F
  <2> QED BY <2>1, FlightsWritten
<1> HIDE DEF u
<1>4. ASSUME NEW g \in F PROVE FlightGoesOn(t, u, g)
  <2>1. PICK f \in t.mem.flights : g = D(f)
    OBVIOUS
  <2>2. F = {g}
    BY <2>1, FlightStays
  <2>3. Ticket(g) = Ticket(f) /\ g.submit = f.submit /\ (g.timer => f.timer)
    BY <1>2, <2>1
  <2>4. SeenBy(g.ids, g.to) \subseteq t.seen.typed
    BY <2>3, FlightStays, TicketTells
  <2>5. g.timer => g.submit
    BY <2>3, FlightStays
  <2>6. g.submit => \A c \in t.mem.calls : c.ticket # Ticket(g)
    <3>1. f.submit => \A c \in t.mem.calls : c.ticket # Ticket(f)
      BY FlightStays
    <3> QED BY <2>3, <3>1
  <2> HIDE DEF F
  <2> QED BY <1>3, <2>2, <2>3, <2>4, <2>5, <2>6 DEF FlightGoesOn, OnlyMemory
<1>5. GoesOn(t, u)
  <2> HIDE DEF F
  <2> QED BY <1>3, <1>4 DEF GoesOn, OnlyMemory, RowGoesOn, Good, Sound, OnePointer, PastIsSound
<1>6. \A g \in F : \E f \in t.mem.flights : Ticket(g) = Ticket(f) /\ g.submit = f.submit
  BY <1>2
<1> QED BY <1>1, <1>3, <1>5, <1>6, GoesOnKeeps

(***************************************************************************)
(* Staging a pointer.                                                      *)
(***************************************************************************)

LEMMA FreshIdIsFresh ==
    ASSUME NEW t, Good(t), t.mem.flights = {}
    PROVE  FreshId(t) \in Nat /\ \A c \in t.mem.calls : c.ticket.id # FreshId(t)
<1> DEFINE used == {f.id : f \in t.mem.flights} \cup {c.ticket.id : c \in t.mem.calls}
<1>1. used = {c.ticket.id : c \in t.mem.calls}
  OBVIOUS
<1>2. IsFiniteSet(used)
  <2> DEFINE S == t.mem.calls
             g == [c \in S |-> c.ticket.id]
  <2>1. g \in Surjection(S, used)
    BY <1>1 DEF Surjection
  <2>2. IsFiniteSet(S)
    BY DEF Good
  <2> QED BY <2>1, <2>2, FS_Surjection
<1> HIDE DEF used
<1>3. Cardinality(used) \in Nat
  BY <1>2, FS_CardinalityType
<1>4. \E n \in 0..Cardinality(used) : n \notin used
  <2> SUFFICES ASSUME 0..Cardinality(used) \subseteq used PROVE FALSE
    OBVIOUS
  <2>1. Cardinality(0..Cardinality(used)) = Cardinality(used) + 1
    BY <1>3, FS_Interval
  <2>2. Cardinality(0..Cardinality(used)) <= Cardinality(used)
    BY <1>2, FS_Subset
  <2> QED BY <1>3, <2>1, <2>2
<1>5. FreshId(t) = CHOOSE n \in 0..Cardinality(used) : n \notin used
  BY DEF FreshId, used
<1>6. FreshId(t) \in 0..Cardinality(used) /\ FreshId(t) \notin used
  BY <1>4, <1>5
<1> QED BY <1>1, <1>3, <1>6

LEMMA ProcessIsIncarnation ==
    ASSUME NEW t \in States, NEW p \in Panes
    PROVE  Process(t, p) \in Incarnations /\ Process(t, p)[1] = p
<1>1. t.agent[p] \in Agents
  BY Fields
<1> QED BY <1>1 DEF Process, Incarnations, Agents

LEMMA UndeliveredIs ==
    ASSUME NEW t \in States
    PROVE  /\ Undelivered(t) \subseteq 1..Len(t.rows)
           /\ \A i \in Undelivered(t) : /\ i \in DOMAIN t.rows /\ ~t.rows[i].read
                                        /\ ~t.rows[i].delivered /\ t.rows[i].phase = "none"
BY Fields DEF Undelivered, Unread

\* Who may be staged for: the process at work in the owner's pane, when nothing else is on its way
\* or in doubt.
Stageable(t, p, ids) ==
    /\ p = t.box.owner /\ t.agent[p].alive
    /\ t.mem.flights = {} /\ Reserved(t) = {}
    /\ ids # {} /\ ids \subseteq Undelivered(t)
    /\ IsFiniteSet(ids) /\ Cardinality(ids) <= BatchLimit

\* What Stage writes besides the rows.
Launched(b, f, mark, call, typed) ==
    LET c == [b EXCEPT !.mem.mark = {mark}]
        d == [c EXCEPT !.mem.flights = @ \cup {f}, !.seen.typed = @ \cup typed]
    IN [d EXCEPT !.mem.calls = @ \cup {call}]

LEMMA LaunchedMemory ==
    ASSUME NEW b \in States, b.mem.flights = {}, NEW f \in Flights, NEW mark \in Marks,
           NEW call \in Calls, NEW typed \in SUBSET (Nat \X Incarnations)
    PROVE  LET u == Launched(b, f, mark, call, typed) IN
           /\ u \in States
           /\ u.agent = b.agent /\ u.box = b.box /\ u.rows = b.rows
           /\ u.mem.flights = {f} /\ u.mem.mark = {mark} /\ u.mem.calls = b.mem.calls \cup {call}
           /\ u.seen = [b.seen EXCEPT !.typed = @ \cup typed]
<1> DEFINE c == [b EXCEPT !.mem.mark = {mark}]
           d == [c EXCEPT !.mem.flights = @ \cup {f}, !.seen.typed = @ \cup typed]
           m == [b.mem EXCEPT !.mark = {mark}, !.flights = {f}]
           seen1 == [b.seen EXCEPT !.typed = @ \cup typed]
           m2 == [m EXCEPT !.calls = @ \cup {call}]
<1>1. b.mem \in Memories /\ b.seen \in Pasts
  BY Fields
<1>2. /\ m \in Memories /\ m.flights = {f} /\ m.mark = {mark} /\ m.calls = b.mem.calls
      /\ seen1 \in Pasts
  BY <1>1 DEF Memories, Pasts
<1>3. m2 \in Memories /\ m2.flights = {f} /\ m2.mark = {mark} /\ m2.calls = b.mem.calls \cup {call}
  <2> HIDE DEF m
  <2> QED BY <1>1, <1>2 DEF Memories
<1>4. d = [b EXCEPT !.mem = m, !.seen = seen1]
  BY <1>1 DEF States, Memories, Pasts
<1> HIDE DEF d, m, seen1
<1>5. [d EXCEPT !.mem.calls = @ \cup {call}] = [b EXCEPT !.mem = m2, !.seen = seen1]
  BY <1>2, <1>4 DEF States
<1> HIDE DEF m2
<1>6. LET v == [b EXCEPT !.mem = m2, !.seen = seen1] IN
      /\ v \in States
      /\ v.agent = b.agent /\ v.box = b.box /\ v.rows = b.rows /\ v.mem = m2 /\ v.seen = seen1
  BY <1>2, <1>3 DEF States
<1> QED BY <1>3, <1>5, <1>6 DEF d, seen1, Launched

Staged(t, u, p, ids) ==
    LET k == [id |-> FreshId(t), pane |-> p, to |-> Process(t, p), ids |-> ids] IN
    /\ u \in States
    /\ u.agent = t.agent /\ u.box = t.box
    /\ DOMAIN u.rows = DOMAIN t.rows
    /\ \A i \in DOMAIN t.rows :
         u.rows[i] = IF i \in ids
                     THEN [t.rows[i] EXCEPT !.phase = "written", !.to = Process(t, p)]
                     ELSE t.rows[i]
    /\ \E f \in Flights : /\ u.mem.flights = {f} /\ Ticket(f) = k
                          /\ ~f.submit /\ ~f.timer
    /\ u.mem.mark = {MarkOf(k)}
    /\ u.mem.calls = t.mem.calls \cup {[kind |-> "text", ticket |-> k]}
    /\ u.seen = [t.seen EXCEPT !.typed = @ \cup SeenBy(ids, Process(t, p))]

LEMMA StageIs ==
    ASSUME NEW t, Good(t), NEW p \in Panes, NEW ids, Stageable(t, p, ids)
    PROVE  Staged(t, Stage(t, p, ids), p, ids)
<1> DEFINE k == [id |-> FreshId(t), pane |-> p, to |-> Process(t, p), ids |-> ids]
           f == [id |-> k.id, pane |-> p, to |-> k.to, ids |-> ids,
                 submit |-> FALSE, timer |-> FALSE, deferred |-> FALSE, idleSeen |-> FALSE]
           a == Advance(t, ids, Process(t, p), "none", "reserved")
           b == Advance(a, ids, Process(t, p), "reserved", "written")
           call == [kind |-> "text", ticket |-> k]
           typed == SeenBy(ids, Process(t, p))
<1>1. t \in States /\ FreshId(t) \in Nat /\ Process(t, p) \in Incarnations
  BY FreshIdIsFresh, ProcessIsIncarnation DEF Good, Stageable
<1>2. /\ ids \subseteq 1..Len(t.rows) /\ ids \subseteq Nat /\ ids # {}
      /\ \A i \in ids : i \in DOMAIN t.rows /\ t.rows[i].phase = "none"
  BY <1>1, UndeliveredIs, Fields DEF Stageable
<1>3. Newest(ids) \in Nat
  BY <1>1, <1>2, NewestIsOne, Fields
<1>4. /\ f \in Flights /\ Ticket(f) = k /\ ~f.submit /\ ~f.timer
      /\ call \in Calls /\ MarkOf(k) \in Marks
  BY <1>1, <1>2, <1>3 DEF Flights, Ticket, Calls, MarkOf, Marks
<1>5. Advanced(t, a, ids, Process(t, p), "none", "reserved")
  <2>1. "reserved" \in Phases
    BY DEF Phases
  <2> QED BY <1>1, <2>1, AdvanceWrites
<1> HIDE DEF a
<1>6. Advanced(a, b, ids, Process(t, p), "reserved", "written")
  <2>1. "written" \in Phases
    BY DEF Phases
  <2>2. a \in States
    BY <1>5 DEF Advanced, OnlyRows
  <2> QED BY <1>1, <2>1, <2>2, AdvanceWrites
<1> USE DEF Advanced
<1>7. /\ b \in States /\ b.agent = t.agent /\ b.box = t.box /\ b.mem = t.mem /\ b.seen = t.seen
      /\ DOMAIN b.rows = DOMAIN t.rows
  BY <1>5, <1>6 DEF OnlyRows
<1>8. ASSUME NEW i \in DOMAIN t.rows
      PROVE  b.rows[i] = IF i \in ids
                         THEN [t.rows[i] EXCEPT !.phase = "written", !.to = Process(t, p)]
                         ELSE t.rows[i]
  <2>0. t.rows[i] \in Messages
    BY <1>1, Fields
  <2>1. CASE i \in ids
    <3>1. a.rows[i] = [t.rows[i] EXCEPT !.phase = "reserved", !.to = Process(t, p)]
      BY <1>2, <1>5, <2>1
    <3>2. a.rows[i].phase = "reserved"
      BY <2>0, <3>1 DEF Messages
    <3>3. b.rows[i] = [a.rows[i] EXCEPT !.phase = "written", !.to = Process(t, p)]
      BY <1>5, <1>6, <2>1, <3>2 DEF OnlyRows
    <3>4. b.rows[i] = [[t.rows[i] EXCEPT !.phase = "reserved", !.to = Process(t, p)]
                         EXCEPT !.phase = "written", !.to = Process(t, p)]
      BY <3>1, <3>3
    <3> QED BY <2>0, <2>1, <3>4 DEF Messages
  <2>2. CASE i \notin ids
    BY <1>5, <1>6, <2>2 DEF OnlyRows
  <2> QED BY <2>1, <2>2
<1>9. typed \subseteq Nat \X Incarnations
  BY <1>1, <1>2 DEF SeenBy
<1>10. b.mem.flights = {}
  BY <1>7 DEF Stageable
<1> DEFINE u == Launched(b, f, MarkOf(k), call, typed)
<1>11. Stage(t, p, ids) = u
  BY DEF Stage, SetMark, Called, Launched, a
<1>12. /\ u \in States
       /\ u.agent = b.agent /\ u.box = b.box /\ u.rows = b.rows
       /\ u.mem.flights = {f} /\ u.mem.mark = {MarkOf(k)} /\ u.mem.calls = b.mem.calls \cup {call}
       /\ u.seen = [b.seen EXCEPT !.typed = @ \cup typed]
  <2> HIDE DEF b, k, f, call, typed
  <2> QED BY <1>4, <1>7, <1>9, <1>10, LaunchedMemory
<1> HIDE DEF u, b
<1>13. Staged(t, u, p, ids)
  BY <1>4, <1>7, <1>8, <1>12 DEF Staged
<1> QED BY <1>11, <1>13

LEMMA StageKeeps ==
    ASSUME NEW t, Good(t), NEW p \in Panes, NEW ids, Stageable(t, p, ids)
    PROVE  Good(Stage(t, p, ids))
<1> DEFINE u == Stage(t, p, ids)
           q == Process(t, p)
           k == [id |-> FreshId(t), pane |-> p, to |-> q, ids |-> ids]
           call == [kind |-> "text", ticket |-> k]
<1>0. t \in States
  BY DEF Good
<1>00. Staged(t, u, p, ids)
  BY StageIs
<1>1. /\ u \in States
      /\ u.agent = t.agent /\ u.box = t.box
      /\ DOMAIN u.rows = DOMAIN t.rows
      /\ u.mem.mark = {MarkOf(k)}
      /\ u.mem.calls = t.mem.calls \cup {call}
      /\ u.seen = [t.seen EXCEPT !.typed = @ \cup SeenBy(ids, q)]
  BY <1>00 DEF Staged
<1>2. \A i \in DOMAIN t.rows :
        u.rows[i] = IF i \in ids THEN [t.rows[i] EXCEPT !.phase = "written", !.to = q]
                                 ELSE t.rows[i]
  BY <1>00 DEF Staged
<1>3. PICK f \in Flights : u.mem.flights = {f} /\ Ticket(f) = k /\ ~f.submit /\ ~f.timer
  BY <1>00 DEF Staged
<1>4. f.pane = p /\ f.to = q /\ f.ids = ids /\ call.ticket = k /\ call.kind = "text"
      /\ k.to = q /\ k.pane = p
  BY <1>3 DEF Ticket
<1>5. q \in Incarnations /\ q[1] = p
  BY <1>0, ProcessIsIncarnation
<1>6. \A i \in ids : /\ i \in DOMAIN t.rows /\ ~t.rows[i].read
                     /\ ~t.rows[i].delivered /\ t.rows[i].phase = "none"
  BY <1>0, UndeliveredIs DEF Stageable
<1>7. \A i \in ids : u.rows[i].phase = "written" /\ u.rows[i].to = q /\ ~u.rows[i].read
  <2> SUFFICES ASSUME NEW i \in ids
               PROVE  u.rows[i].phase = "written" /\ u.rows[i].to = q /\ ~u.rows[i].read
    OBVIOUS
  <2>1. t.rows[i] \in Messages /\ ~t.rows[i].read
    BY <1>0, <1>6, Fields
  <2>2. u.rows[i] = [t.rows[i] EXCEPT !.phase = "written", !.to = q]
    BY <1>2, <1>6
  <2> QED BY <2>1, <2>2 DEF Messages
<1>8. \A i \in DOMAIN t.rows : i \notin ids => u.rows[i] = t.rows[i]
  BY <1>2
<1>9. u.seen.entered = t.seen.entered /\ u.seen.left = t.seen.left /\ u.seen.twice = t.seen.twice
      /\ u.seen.typed = t.seen.typed \cup SeenBy(ids, q)
  <2>1. t.seen \in Pasts
    BY <1>0, Fields
  <2> QED BY <1>1, <2>1 DEF Pasts
<1>10. \A r : Process(u, r) = Process(t, r)
  BY <1>1 DEF Process
<1>11. \A c \in t.mem.calls : c.ticket # k
  <2>1. \A c \in t.mem.calls : c.ticket.id # k.id
    BY FreshIdIsFresh DEF Stageable
  <2> QED BY <2>1
<1>12. /\ p = t.box.owner /\ t.agent[p].alive /\ ids # {} /\ Reserved(t) = {}
       /\ Cardinality(ids) <= BatchLimit
  BY DEF Stageable
<1> HIDE DEF u, q, k, call
<1>13. IsFiniteSet(u.mem.calls)
  BY <1>1, FS_AddElement DEF Good
<1>14. OnePointer(u)
  BY <1>1, <1>3 DEF OnePointer
<1>15. FlightIsSound(u)
  BY <1>1, <1>3, <1>4, <1>6, <1>7, <1>9, <1>10, <1>12 DEF FlightIsSound, q
<1>16. CallsAreSound(u)
  <2>1. \A c \in u.mem.calls : c.ticket.to[1] = c.ticket.pane
    BY <1>1, <1>4, <1>5 DEF Good, Sound, CallsAreSound
  <2>2. \A c \in u.mem.calls : c.ticket = k => c = call
    BY <1>1, <1>11
  <2>3. \A i \in ids : u.rows[i].phase # "entered"
    BY <1>7
  <2> QED BY <1>3, <1>4, <2>1, <2>2, <2>3 DEF CallsAreSound
<1>17. RowsAreSound(u)
  <2>1. \A i \in DOMAIN t.rows : t.rows[i].phase # "none" => t.rows[i].read
    BY <1>12 DEF Reserved, Unread
  <2>2. \A i \in DOMAIN t.rows : t.rows[i].phase # "none" => ~t.rows[i].read
    BY DEF Good, Sound, RowsAreSound
  <2>3. \A i \in DOMAIN u.rows : u.rows[i].phase # "none" => i \in ids
    BY <1>1, <1>8, <2>1, <2>2
  <2>4. Reserved(u) = ids
    BY <1>1, <1>6, <1>7, <2>3 DEF Reserved, Unread
  <2> QED BY <1>5, <1>7, <1>12, <2>3, <2>4 DEF RowsAreSound
<1>18. PastIsSound(u)
  <2>1. u.seen.entered \subseteq u.seen.typed /\ ~u.seen.twice
    BY <1>9 DEF Good, Sound, PastIsSound
  <2>2. ASSUME NEW x \in u.seen.typed
        PROVE  /\ x[1] \in DOMAIN u.rows
               /\ x[2][1] \in u.seen.left \cup {u.box.owner}
               /\ x[2][2] <= u.agent[x[2][1]].process
    <3>1. CASE x \in t.seen.typed
      BY <1>1, <1>9, <3>1 DEF Good, Sound, PastIsSound
    <3>2. CASE x \in SeenBy(ids, q)
      <4>1. x[1] \in ids /\ x[2] = q
        BY <3>2 DEF SeenBy
      <4>2. q[1] = p /\ q[2] = t.agent[p].process
        BY DEF q, Process
      <4>3. t.agent[p].process \in Int
        <5>1. t.agent[p] \in Agents
          BY <1>0, Fields
        <5> QED BY <5>1 DEF Agents
      <4> QED BY <1>1, <1>6, <1>12, <4>1, <4>2, <4>3
    <3> QED BY <1>9, <3>1, <3>2
  <2>3. ASSUME u.box.owner \notin u.seen.left, NEW i \in DOMAIN u.rows,
               <<i, Process(u, u.box.owner)>> \in u.seen.entered
        PROVE  \/ u.rows[i].read
               \/ u.rows[i].phase = "none" /\ u.rows[i].delivered
               \/ u.rows[i].phase = "entered" /\ u.rows[i].to = Process(u, u.box.owner)
    <3>1. \/ t.rows[i].read
          \/ t.rows[i].phase = "none" /\ t.rows[i].delivered
          \/ t.rows[i].phase = "entered" /\ t.rows[i].to = Process(t, t.box.owner)
      BY <1>1, <1>9, <1>10, <2>3 DEF Good, Sound, PastIsSound
    <3>2. i \notin ids
      BY <1>6, <3>1
    <3> QED BY <1>1, <1>8, <1>10, <3>1, <3>2
  <2> QED BY <2>1, <2>2, <2>3 DEF PastIsSound
<1> QED BY <1>1, <1>13, <1>14, <1>15, <1>16, <1>17, <1>18 DEF Good, Sound, u

(***************************************************************************)
(* Delivery.                                                               *)
(***************************************************************************)

LEMMA PanesWritten ==
    ASSUME NEW t \in States, NEW P, P \subseteq Panes
    PROVE  /\ OnlyMemory(t, [t EXCEPT !.mem.recheck = P]) /\ Same(t, [t EXCEPT !.mem.recheck = P])
           /\ OnlyMemory(t, [t EXCEPT !.mem.parked = P]) /\ Same(t, [t EXCEPT !.mem.parked = P])
           /\ OnlyMemory(t, [t EXCEPT !.mem.cold = P]) /\ Same(t, [t EXCEPT !.mem.cold = P])
BY DEF States, Memories, Same, OnlyMemory

LEMMA FlagsWritten ==
    ASSUME NEW t \in States, NEW b \in BOOLEAN
    PROVE  /\ OnlyMemory(t, [t EXCEPT !.mem.again = b]) /\ Same(t, [t EXCEPT !.mem.again = b])
           /\ OnlyMemory(t, [t EXCEPT !.mem.micro = b]) /\ Same(t, [t EXCEPT !.mem.micro = b])
           /\ OnlyMemory(t, [t EXCEPT !.mem.repoint = b]) /\ Same(t, [t EXCEPT !.mem.repoint = b])
BY DEF States, Memories, Same, OnlyMemory

LEMMA PanesOf ==
    ASSUME NEW t \in States
    PROVE  /\ t.mem.recheck \subseteq Panes /\ t.mem.parked \subseteq Panes
           /\ t.mem.cold \subseteq Panes
BY DEF States, Memories

LEMMA RedriveKeeps ==
    ASSUME NEW t \in States, NEW force
    PROVE  Same(t, Redrive(t, force)) /\ OnlyMemory(t, Redrive(t, force))
<1> DEFINE u == [t EXCEPT !.mem.again = FALSE, !.mem.micro = TRUE]
<1>1. Same(t, u) /\ OnlyMemory(t, u)
  BY DEF States, Memories, Same, OnlyMemory
<1>2. Same(t, t) /\ OnlyMemory(t, t)
  BY DEF Same, OnlyMemory
<1>3. Redrive(t, force) = u \/ Redrive(t, force) = t
  BY DEF Redrive
<1> HIDE DEF u
<1> QED BY <1>1, <1>2, <1>3

LEMMA ParkRedeliveryKeeps ==
    ASSUME NEW t \in States
    PROVE  Same(t, ParkRedelivery(t)) /\ OnlyMemory(t, ParkRedelivery(t))
BY FlagsWritten DEF ParkRedelivery

\* A step that may type into the owner's pane: what it has typed it has also recorded.
Offers(t, u) ==
    /\ DOMAIN u.rows = DOMAIN t.rows
    /\ \A p \in Panes : /\ u.agent[p].alive = t.agent[p].alive
                        /\ u.agent[p].process = t.agent[p].process
    /\ u.box.owner = t.box.owner
    /\ u.seen.entered = t.seen.entered /\ u.seen.left = t.seen.left /\ u.seen.twice = t.seen.twice
    /\ \A c \in u.mem.calls : c \in t.mem.calls \/ c.kind # "text" \/
         \A i \in c.ticket.ids : i \in DOMAIN u.rows => /\ ~u.rows[i].read
                                                        /\ u.rows[i].phase = "written"

LEMMA GoesOnOffers ==
    ASSUME NEW t, NEW s, NEW u, GoesOn(t, s), Offers(s, u)
    PROVE  Offers(t, u)
BY DEF GoesOn, Offers

LEMMA SameOffers ==
    ASSUME NEW t, NEW u, Same(t, u)
    PROVE  Offers(t, u)
BY DEF Same, Offers

LEMMA SameThenOffers ==
    ASSUME NEW t, NEW s, NEW u, Same(t, s), Offers(s, u)
    PROVE  Offers(t, u)
BY DEF Same, Offers

LEMMA StageOffers ==
    ASSUME NEW t, Good(t), NEW p \in Panes, NEW ids, Stageable(t, p, ids)
    PROVE  Offers(t, Stage(t, p, ids))
<1> DEFINE u == Stage(t, p, ids)
           q == Process(t, p)
           k == [id |-> FreshId(t), pane |-> p, to |-> q, ids |-> ids]
<1>1. Staged(t, u, p, ids)
  BY StageIs
<1>2. t \in States /\ t.seen \in Pasts
  BY Fields DEF Good
<1> HIDE DEF u
<1>3. /\ DOMAIN u.rows = DOMAIN t.rows /\ u.agent = t.agent /\ u.box = t.box
      /\ u.mem.calls = t.mem.calls \cup {[kind |-> "text", ticket |-> k]}
      /\ u.seen = [t.seen EXCEPT !.typed = @ \cup SeenBy(ids, q)]
  BY <1>1 DEF Staged
<1>4. u.seen.entered = t.seen.entered /\ u.seen.left = t.seen.left /\ u.seen.twice = t.seen.twice
  BY <1>2, <1>3 DEF Pasts
<1>5. ASSUME NEW i \in ids, i \in DOMAIN u.rows
      PROVE  ~u.rows[i].read /\ u.rows[i].phase = "written"
  <2>1. t.rows[i] \in Messages /\ ~t.rows[i].read
    BY <1>2, UndeliveredIs, Fields DEF Stageable
  <2>2. u.rows[i] = [t.rows[i] EXCEPT !.phase = "written", !.to = q]
    BY <1>1, <1>3, <1>5 DEF Staged
  <2> QED BY <2>1, <2>2 DEF Messages
<1> QED BY <1>3, <1>4, <1>5 DEF Offers, u

LEMMA DeliverBatchKeeps ==
    ASSUME NEW t, Good(t), NEW p, p = t.box.owner, t.mem.flights = {}, Reserved(t) = {}
    PROVE  Good(DeliverBatch(t, p)) /\ Offers(t, DeliverBatch(t, p))
<1> DEFINE ids == Oldest(Undelivered(t))
<1>1. t \in States /\ p \in Panes
  BY Fields DEF Good
<1>2. CASE DeliverBatch(t, p) = t
  BY <1>1, <1>2 DEF Offers
<1>3. CASE DeliverBatch(t, p) # t
  <2>1. ids # {} /\ t.agent[p].alive /\ DeliverBatch(t, p) = Stage(t, p, ids)
    BY <1>3 DEF DeliverBatch
  <2>2. ids \subseteq Undelivered(t) /\ IsFiniteSet(ids) /\ Cardinality(ids) <= BatchLimit
    BY <1>1, UndeliveredIs, Fields, OldestIsBatch
  <2> HIDE DEF ids
  <2>3. Stageable(t, p, ids)
    BY <2>1, <2>2 DEF Stageable
  <2> QED BY <1>1, <2>1, <2>3, StageKeeps, StageOffers
<1> QED BY <1>2, <1>3

\* What was entered into the process at work is not still on its way there.
LEMMA EnteredIsDone ==
    ASSUME NEW t, Good(t), NEW i \in DOMAIN t.rows, ~t.rows[i].read,
           t.rows[i].phase \in {"reserved", "written"}
    PROVE  \/ t.box.owner \in t.seen.left
           \/ <<i, Process(t, t.box.owner)>> \notin t.seen.entered
BY DEF Good, Sound, PastIsSound

\* Rows written while nothing is on its way.
LEMMA RowsGoOn ==
    ASSUME NEW t, Good(t), t.mem.flights = {}, NEW u, OnlyRows(t, u),
           \A i \in DOMAIN t.rows : RowGoesOn(t, u, i)
    PROVE  GoesOn(t, u) /\ Good(u)
<1>1. GoesOn(t, u)
  BY DEF OnlyRows, GoesOn, Good, Sound, OnePointer, PastIsSound
<1> QED BY <1>1, GoesOnKeeps

LEMMA SettleEnterKeeps ==
    ASSUME NEW t, Good(t), t.mem.flights = {}, NEW ids, NEW to, NEW phases
    PROVE  GoesOn(t, SettleEnter(t, ids, to, phases)) /\ Good(SettleEnter(t, ids, to, phases))
<1> DEFINE u == SettleEnter(t, ids, to, phases)
<1>1. OnlyRows(t, u)
  BY SettleEnterWrites DEF Good
<1>2. \A i \in DOMAIN t.rows : u.rows[i] = t.rows[i] \/ u.rows[i] = AsDelivered(t.rows[i])
  BY SettleEnterWrites DEF Good
<1>3. \A i \in DOMAIN t.rows :
        AsDelivered(t.rows[i]).phase = "none" /\ AsDelivered(t.rows[i]).delivered
  BY Fields, RowKinds DEF Good
<1> HIDE DEF u
<1>4. \A i \in DOMAIN t.rows : RowGoesOn(t, u, i)
  BY <1>1, <1>2, <1>3 DEF RowGoesOn, OnlyRows
<1> QED BY <1>1, <1>4, RowsGoOn DEF u

\* The rows in doubt are given back together: none of them was entered into the process at work.
LEMMA ReleaseAllKeeps ==
    ASSUME NEW t, Good(t), NEW p, p = t.box.owner, t.mem.flights = {},
           OtherProcess(t, p, Reserved(t)) \/ ~MayBeTyped(t, Reserved(t))
    PROVE  LET u == ReleaseAll(t, Reserved(t)) IN
           /\ GoesOn(t, u) /\ Good(u) /\ OnlyRows(t, u)
           /\ Reserved(u) = {}
<1> DEFINE u == ReleaseAll(t, Reserved(t))
<1>0. t \in States
  BY DEF Good
<1>1. OnlyRows(t, u)
  BY <1>0, ReleaseAllWrites
<1>2. \A i \in DOMAIN t.rows :
        u.rows[i] = IF i \in Reserved(t) THEN AsUndelivered(t.rows[i]) ELSE t.rows[i]
  BY <1>0, ReleaseAllWrites
<1>3. \A i \in DOMAIN t.rows :
        AsUndelivered(t.rows[i]).phase = "none" /\ AsUndelivered(t.rows[i]).read = t.rows[i].read
  BY <1>0, Fields, RowKinds
<1> HIDE DEF u
<1>4. ASSUME NEW i \in Reserved(t)
      PROVE  \/ t.box.owner \in t.seen.left
             \/ <<i, Process(t, t.box.owner)>> \notin t.seen.entered
  <2>1. i \in DOMAIN t.rows /\ ~t.rows[i].read /\ t.rows[i].phase # "none"
    BY DEF Reserved, Unread
  <2>2. t.rows[i].phase = "entered" /\ t.rows[i].to = Process(t, p) => FALSE
    <3>1. CASE OtherProcess(t, p, Reserved(t))
      BY <3>1 DEF OtherProcess, Good, Sound, RowsAreSound
    <3>2. CASE ~MayBeTyped(t, Reserved(t))
      BY <3>2 DEF MayBeTyped
    <3> QED BY <3>1, <3>2
  <2> QED BY <2>1, <2>2 DEF Good, Sound, PastIsSound
<1>5. \A i \in DOMAIN t.rows : RowGoesOn(t, u, i)
  BY <1>1, <1>2, <1>3, <1>4 DEF RowGoesOn, OnlyRows
<1>6. Reserved(u) = {}
  <2> SUFFICES ASSUME NEW i \in Reserved(u) PROVE FALSE
    OBVIOUS
  <2>1. i \in DOMAIN u.rows /\ ~u.rows[i].read /\ u.rows[i].phase # "none"
    BY DEF Reserved, Unread
  <2>2. i \in DOMAIN t.rows /\ i \notin Reserved(t)
    BY <1>1, <1>2, <1>3, <2>1 DEF OnlyRows
  <2>3. u.rows[i] = t.rows[i]
    BY <1>2, <2>2
  <2> QED BY <2>1, <2>2, <2>3 DEF Reserved, Unread
<1> QED BY <1>1, <1>5, <1>6, RowsGoOn DEF u

LEMMA DeliverUnlessPendingKeeps ==
    ASSUME NEW t, Good(t), NEW p, p = t.box.owner, t.mem.flights = {}
    PROVE  Good(DeliverUnlessPending(t, p)) /\ Offers(t, DeliverUnlessPending(t, p))
<1> DEFINE pending == Oldest(Reserved(t))
<1>0. t \in States
  BY DEF Good
<1>1. pending = Reserved(t)
  <2>1. Cardinality(Reserved(t)) <= BatchLimit
    BY DEF Good, Sound, RowsAreSound
  <2> QED BY <1>0, <2>1, ReservedIsFinite, Fields, OldestIsBatch
<1>2. CASE Reserved(t) = {}
  <2>1. DeliverUnlessPending(t, p) = DeliverBatch(t, p)
    BY <1>1, <1>2 DEF DeliverUnlessPending
  <2> QED BY <1>2, <2>1, DeliverBatchKeeps
<1>3. CASE Reserved(t) # {} /\ (OtherProcess(t, p, Reserved(t)) \/ ~MayBeTyped(t, Reserved(t)))
  <2> DEFINE s == ReleaseAll(t, Reserved(t))
  <2>1. DeliverUnlessPending(t, p) = DeliverBatch(s, p)
    BY <1>1, <1>3 DEF DeliverUnlessPending
  <2>2. GoesOn(t, s) /\ Good(s) /\ OnlyRows(t, s) /\ Reserved(s) = {}
    BY <1>3, ReleaseAllKeeps
  <2> HIDE DEF s
  <2>3. s.box.owner = p /\ s.mem.flights = {}
    BY <2>2 DEF OnlyRows
  <2>4. Good(DeliverBatch(s, p)) /\ Offers(s, DeliverBatch(s, p))
    BY <2>2, <2>3, DeliverBatchKeeps
  <2> QED BY <2>1, <2>2, <2>4, GoesOnOffers
<1>4. CASE Reserved(t) # {} /\ ~(OtherProcess(t, p, Reserved(t)) \/ ~MayBeTyped(t, Reserved(t)))
  <2> DEFINE u == SettleEnter(t, Reserved(t), Process(t, p), {"written", "entered"})
  <2>1. DeliverUnlessPending(t, p) = u
    BY <1>1, <1>4 DEF DeliverUnlessPending
  <2>2. GoesOn(t, u) /\ Good(u)
    BY SettleEnterKeeps
  <2> HIDE DEF u
  <2>3. Offers(u, u)
    BY DEF Offers
  <2> QED BY <2>1, <2>2, <2>3, GoesOnOffers
<1> QED BY <1>2, <1>3, <1>4

LEMMA DeliverKeeps ==
    ASSUME NEW t, Good(t), NEW p, p = t.box.owner
    PROVE  Good(Deliver(t, p)) /\ Offers(t, Deliver(t, p))
<1> DEFINE settled == [t EXCEPT !.mem.recheck = t.mem.recheck \ {p}]
           waiting == [settled EXCEPT !.mem.parked = settled.mem.parked \cup {p}]
           armed == [t EXCEPT !.mem.recheck = t.mem.recheck \cup {p}]
<1>1. t \in States /\ p \in Panes
  BY Fields DEF Good
<1>2. Same(t, settled) /\ OnlyMemory(t, settled)
  <2>1. t.mem.recheck \ {p} \subseteq Panes
    BY <1>1, PanesOf
  <2> QED BY <1>1, <2>1, PanesWritten
<1>3. Same(t, armed) /\ OnlyMemory(t, armed)
  <2>1. t.mem.recheck \cup {p} \subseteq Panes
    BY <1>1, PanesOf
  <2> QED BY <1>1, <2>1, PanesWritten
<1>4. Good(settled) /\ Good(armed)
  BY <1>2, <1>3, SameKeeps
<1>5. Deliver(t, p) =
        IF t.box.outstanding # {} THEN t
        ELSE IF ~t.agent[p].settled THEN ParkRedelivery(armed)
        ELSE IF FlightsOf(t, p) # {} THEN TakeDeferredEnter(waiting, p)
        ELSE IF \E m \in t.mem.mark : m.active THEN ParkRedelivery(settled)
        ELSE IF t.box.waiter THEN settled
        ELSE DeliverUnlessPending(settled, p)
  BY DEF Deliver
<1> HIDE DEF settled, armed
<1>6. Same(settled, waiting) /\ OnlyMemory(settled, waiting)
  <2>1. settled.mem.parked \cup {p} \subseteq Panes /\ settled \in States
    BY <1>1, <1>2, PanesOf DEF Same
  <2> QED BY <2>1, PanesWritten
<1>7. Good(waiting)
  BY <1>4, <1>6, SameKeeps
<1> HIDE DEF waiting
<1>8. /\ Good(ParkRedelivery(armed)) /\ Offers(t, ParkRedelivery(armed))
      /\ Good(ParkRedelivery(settled)) /\ Offers(t, ParkRedelivery(settled))
  <2>1. Same(armed, ParkRedelivery(armed)) /\ Same(settled, ParkRedelivery(settled))
    BY <1>2, <1>3, ParkRedeliveryKeeps DEF Same
  <2> QED BY <1>2, <1>3, <1>4, <2>1, SameKeeps, SameOffers, SameThenOffers
<1>9. Good(settled) /\ Offers(t, settled) /\ Offers(t, t)
  BY <1>2, <1>4, SameOffers DEF Offers
<1>10. Good(TakeDeferredEnter(waiting, p)) /\ Offers(t, TakeDeferredEnter(waiting, p))
  <2> DEFINE u == TakeDeferredEnter(waiting, p)
  <2>1. Good(u) /\ OnlyMemory(waiting, u)
        /\ \A c \in u.mem.calls : c \in waiting.mem.calls \/ c.kind = "probe"
    BY <1>7, TakeDeferredEnterKeeps
  <2> HIDE DEF u
  <2>2. Offers(waiting, u)
    BY <2>1 DEF OnlyMemory, Offers
  <2>3. Offers(settled, u)
    BY <1>6, <2>2, SameThenOffers
  <2> QED BY <1>2, <2>1, <2>3, SameThenOffers DEF u
<1>11. ASSUME ~\E m \in t.mem.mark : m.active
       PROVE  /\ Good(DeliverUnlessPending(settled, p))
              /\ Offers(t, DeliverUnlessPending(settled, p))
  <2>1. t.mem.flights = {}
    <3> SUFFICES ASSUME NEW f \in t.mem.flights PROVE FALSE
      OBVIOUS
    <3>1. MarkOf(Ticket(f)) \in t.mem.mark
      BY FlightStays
    <3> QED BY <1>11, <3>1 DEF MarkOf
  <2>2. settled.mem.flights = {} /\ settled.box.owner = p
    BY <1>2, <2>1 DEF Same
  <2>3. Good(DeliverUnlessPending(settled, p)) /\ Offers(settled, DeliverUnlessPending(settled, p))
    BY <1>4, <2>2, DeliverUnlessPendingKeeps
  <2> QED BY <1>2, <2>3, SameThenOffers
<1> QED BY <1>5, <1>8, <1>9, <1>10, <1>11

LEMMA OfferMailKeeps ==
    ASSUME NEW t, Good(t), NEW p \in Panes
    PROVE  Good(OfferMail(t, p)) /\ Offers(t, OfferMail(t, p))
<1>1. t \in States /\ t.mem.recheck \cup {p} \subseteq Panes /\ t.mem.recheck \ {p} \subseteq Panes
  BY PanesOf DEF Good
<1>2. /\ Good([t EXCEPT !.mem.recheck = t.mem.recheck \cup {p}])
      /\ Offers(t, [t EXCEPT !.mem.recheck = t.mem.recheck \cup {p}])
      /\ Good([t EXCEPT !.mem.recheck = t.mem.recheck \ {p}])
      /\ Offers(t, [t EXCEPT !.mem.recheck = t.mem.recheck \ {p}])
  <2>1. /\ Same(t, [t EXCEPT !.mem.recheck = t.mem.recheck \cup {p}])
        /\ Same(t, [t EXCEPT !.mem.recheck = t.mem.recheck \ {p}])
    BY <1>1, PanesWritten
  <2> QED BY <2>1, SameKeeps, SameOffers
<1>3. t.box.owner = p => Good(Deliver(t, p)) /\ Offers(t, Deliver(t, p))
  BY DeliverKeeps
<1> QED BY <1>2, <1>3 DEF OfferMail

LEMMA DeliverForHandleKeeps ==
    ASSUME NEW t, Good(t)
    PROVE  Good(DeliverForHandle(t)) /\ Offers(t, DeliverForHandle(t))
<1>1. Good(Deliver(t, t.box.owner)) /\ Offers(t, Deliver(t, t.box.owner))
  BY DeliverKeeps
<1>2. Offers(t, t)
  BY DEF Offers
<1> QED BY <1>1, <1>2 DEF DeliverForHandle

(***************************************************************************)
(* A flight ends.                                                          *)
(***************************************************************************)

Ended(t, k) ==
    [t EXCEPT !.mem.flights = {f \in t.mem.flights : Ticket(f) # k},
              !.mem.parked = t.mem.parked \ {k.pane}]

LEMMA EndedIs ==
    ASSUME NEW t \in States, NEW k
    PROVE  LET u == Ended(t, k) IN
           /\ OnlyMemory(t, u)
           /\ u.mem.flights = {f \in t.mem.flights : Ticket(f) # k}
           /\ u.mem.calls = t.mem.calls /\ u.mem.mark = t.mem.mark
<1> DEFINE F == {f \in t.mem.flights : Ticket(f) # k}
           P == t.mem.parked \ {k.pane}
           m == [t.mem EXCEPT !.flights = F, !.parked = P]
<1>1. t.mem \in Memories /\ F \subseteq Flights /\ P \subseteq Panes
  BY Fields, PanesOf
<1>2. Ended(t, k) = [t EXCEPT !.mem = m]
  BY DEF Ended, States
<1> HIDE DEF F, P
<1>3. m \in Memories /\ m.flights = F /\ m.calls = t.mem.calls /\ m.mark = t.mem.mark
  BY <1>1 DEF Memories
<1> HIDE DEF m
<1>4. LET u == [t EXCEPT !.mem = m] IN OnlyMemory(t, u) /\ u.mem = m
  BY <1>3 DEF States, OnlyMemory
<1> QED BY <1>2, <1>3, <1>4 DEF F

\* What a handler does to a good state on the way to ending the flight k: it settles or gives back
\* rows, and the watermark, which only a flight other than k still needs.
Ends(t, v, k) ==
    /\ v \in States
    /\ v.agent = t.agent /\ v.box = t.box
    /\ DOMAIN v.rows = DOMAIN t.rows
    /\ v.mem.flights = t.mem.flights /\ v.mem.calls = t.mem.calls
    /\ v.seen.entered = t.seen.entered /\ v.seen.left = t.seen.left /\ v.seen.twice = t.seen.twice
    /\ v.seen.entered \subseteq v.seen.typed /\ v.seen.typed \subseteq t.seen.typed
    /\ \A m, n \in v.mem.mark : m = n
    /\ \A g \in t.mem.flights : Ticket(g) # k =>
         v.mem.mark = t.mem.mark /\ SeenBy(g.ids, g.to) \subseteq v.seen.typed
    /\ \A i \in DOMAIN t.rows :
         \/ v.rows[i] = t.rows[i]
         \/ /\ v.rows[i].phase = "none"
            /\ \A g \in t.mem.flights : Ticket(g) # k /\ i \in g.ids => v.rows[i].read
            /\ \/ v.rows[i].read \/ v.rows[i].delivered
               \/ t.box.owner \in t.seen.left
               \/ <<i, Process(t, t.box.owner)>> \notin t.seen.entered

LEMMA EndsThenMemory ==
    ASSUME NEW t, NEW v, NEW w, NEW k, Ends(t, v, k), Same(v, w), OnlyMemory(v, w)
    PROVE  Ends(t, w, k)
BY DEF Ends, Same, OnlyMemory

LEMMA EndsKeeps ==
    ASSUME NEW t, Good(t), NEW v, NEW k, Ends(t, v, k)
    PROVE  /\ Good(Ended(v, k))
           /\ ~IsCurrent(v, k) => Good(v)
<1> USE DEF Ends
<1>1. ASSUME NEW u, OnlyMemory(v, u), u.mem.calls = v.mem.calls, u.mem.mark = v.mem.mark,
             u.mem.flights = {f \in v.mem.flights : Ticket(f) # k}
      PROVE  Good(u)
  <2>1. ASSUME NEW g \in u.mem.flights PROVE FlightGoesOn(t, u, g)
    <3>1. g \in t.mem.flights /\ Ticket(g) # k
      BY <1>1
    <3>2. t.mem.flights = {g}
      BY <3>1, FlightStays
    <3>3. /\ u.mem.flights = {g} /\ u.mem.mark = t.mem.mark
          /\ SeenBy(g.ids, g.to) \subseteq u.seen.typed
      BY <1>1, <3>1, <3>2 DEF OnlyMemory
    <3>4. /\ g.timer => g.submit
          /\ g.submit => \A c \in t.mem.calls : c.ticket # Ticket(g)
      BY <3>1, FlightStays
    <3> QED BY <1>1, <3>1, <3>3, <3>4 DEF FlightGoesOn
  <2>2. \A i \in DOMAIN t.rows : RowGoesOn(t, u, i)
    BY <1>1 DEF RowGoesOn, OnlyMemory
  <2>3. GoesOn(t, u)
    BY <1>1, <2>1, <2>2 DEF GoesOn, OnlyMemory
  <2> QED BY <2>3, GoesOnKeeps
<1>2. Good(Ended(v, k))
  <2>1. v \in States
    OBVIOUS
  <2> DEFINE u == Ended(v, k)
  <2>2. /\ OnlyMemory(v, u) /\ u.mem.calls = v.mem.calls /\ u.mem.mark = v.mem.mark
        /\ u.mem.flights = {f \in v.mem.flights : Ticket(f) # k}
    BY <2>1, EndedIs
  <2> HIDE DEF u
  <2>3. Good(u)
    BY <1>1, <2>2
  <2> QED BY <2>3 DEF u
<1>3. ASSUME ~IsCurrent(v, k) PROVE Good(v)
  <2>1. v.mem.flights = {f \in v.mem.flights : Ticket(f) # k}
    BY <1>3 DEF IsCurrent
  <2>2. OnlyMemory(v, v)
    BY DEF OnlyMemory
  <2> QED BY <1>1, <2>1, <2>2
<1> QED BY <1>2, <1>3

\* A handler of a good state: it starts no process and ends none.
Kept(t, u) ==
    /\ Good(u)
    /\ \A p \in Panes : /\ u.agent[p].alive = t.agent[p].alive
                        /\ u.agent[p].process = t.agent[p].process

LEMMA KeptThenSame ==
    ASSUME NEW t, NEW u, NEW v, Kept(t, u), Same(u, v)
    PROVE  Kept(t, v)
<1>1. Good(v)
  BY SameKeeps DEF Kept
<1> QED BY <1>1 DEF Kept, Same

LEMMA KeptIsKept ==
    ASSUME NEW t, NEW u, NEW v, Kept(t, u), Kept(u, v)
    PROVE  Kept(t, v)
BY DEF Kept

\* settle, and the delivery that waited for it.
LEMMA SettleKeeps ==
    ASSUME NEW t, Good(t), NEW v, NEW k, Ends(t, v, k)
    PROVE  Kept(t, Settle(v, k))
<1> DEFINE ended == Ended(v, k)
<1>1. Good(ended) /\ (~IsCurrent(v, k) => Good(v))
  BY EndsKeeps
<1>2. ended.box = v.box /\ ended.agent = t.agent /\ v.agent = t.agent
  <2>1. OnlyMemory(v, ended)
    BY EndedIs DEF Ends
  <2> HIDE DEF ended
  <2> QED BY <2>1 DEF OnlyMemory, Ends
<1>3. Settle(v, k) =
        IF ~IsCurrent(v, k) THEN v
        ELSE IF k.pane \notin v.mem.parked THEN ended
        ELSE IF k.pane \in v.mem.cold \/ v.box.owner # k.pane
        THEN Redrive(ParkRedelivery(ended), FALSE)
        ELSE Deliver(ended, k.pane)
  BY DEF Settle, Ended
<1> HIDE DEF ended
<1>4. Kept(t, ended) /\ (~IsCurrent(v, k) => Kept(t, v))
  BY <1>1, <1>2 DEF Kept
<1>5. Kept(t, Redrive(ParkRedelivery(ended), FALSE))
  <2>1. Same(ended, ParkRedelivery(ended))
    BY <1>1, ParkRedeliveryKeeps DEF Good
  <2>2. Kept(t, ParkRedelivery(ended))
    BY <1>4, <2>1, KeptThenSame
  <2>3. Same(ParkRedelivery(ended), Redrive(ParkRedelivery(ended), FALSE))
    BY <2>2, RedriveKeeps DEF Kept, Good
  <2> QED BY <2>2, <2>3, KeptThenSame
<1>6. k.pane = v.box.owner => Kept(t, Deliver(ended, k.pane))
  <2>1. k.pane = v.box.owner =>
          Good(Deliver(ended, k.pane)) /\ Offers(ended, Deliver(ended, k.pane))
    BY <1>1, <1>2, DeliverKeeps
  <2> QED BY <1>2, <2>1 DEF Kept, Offers
<1> QED BY <1>3, <1>4, <1>5, <1>6

LEMMA EndsAtOnce ==
    ASSUME NEW t, Good(t), NEW k
    PROVE  Ends(t, t, k)
<1>1. \A g \in t.mem.flights : SeenBy(g.ids, g.to) \subseteq t.seen.typed
  BY FlightStays
<1> QED BY <1>1 DEF Ends, Good, Sound, OnePointer, PastIsSound

\* A callback that is not stale is that of the only flight.
LEMMA CurrentIsOnly ==
    ASSUME NEW t, Good(t), NEW k, IsCurrent(t, k)
    PROVE  \E f \in t.mem.flights :
             /\ f \in Flights /\ t.mem.flights = {f} /\ Ticket(f) = k
             /\ k.pane = f.pane /\ k.to = f.to /\ k.ids = f.ids /\ k.pane \in Panes
             /\ t.mem.mark = {MarkOf(k)}
<1>1. PICK f \in t.mem.flights : Ticket(f) = k
  BY DEF IsCurrent
<1>2. f \in Flights /\ t.mem.flights = {f} /\ t.mem.mark = {MarkOf(Ticket(f))}
  BY FlightStays
<1>3. k.pane = f.pane /\ k.to = f.to /\ k.ids = f.ids
  BY <1>1 DEF Ticket
<1>4. f.pane \in Panes
  BY <1>2 DEF Flights
<1> QED BY <1>1, <1>2, <1>3, <1>4

LEMMA ClearMarkIs ==
    ASSUME NEW t \in States, NEW k
    PROVE  LET u == ClearMark(t, k) IN
           /\ OnlyMemory(t, u)
           /\ u.mem.flights = t.mem.flights /\ u.mem.calls = t.mem.calls
           /\ u.mem.mark = {m \in t.mem.mark : ~Owns(m, k)}
<1> DEFINE M == {m \in t.mem.mark : ~Owns(m, k)}
<1>1. M \subseteq Marks
  BY Fields
<1>2. ClearMark(t, k) = [t EXCEPT !.mem.mark = M]
  BY DEF ClearMark
<1> HIDE DEF M
<1>3. LET u == [t EXCEPT !.mem.mark = M] IN
      /\ OnlyMemory(t, u)
      /\ u.mem.flights = t.mem.flights /\ u.mem.calls = t.mem.calls /\ u.mem.mark = M
  BY <1>1, MarkWritten
<1> QED BY <1>2, <1>3 DEF M

LEMMA DeactivateMarkIs ==
    ASSUME NEW t \in States, NEW k
    PROVE  LET u == DeactivateMark(t, k) IN
           /\ OnlyMemory(t, u)
           /\ u.mem.flights = t.mem.flights /\ u.mem.calls = t.mem.calls
           /\ (\A m, n \in t.mem.mark : m = n) => \A m, n \in u.mem.mark : m = n
<1> DEFINE M == {IF Owns(m, k) THEN [m EXCEPT !.active = FALSE] ELSE m : m \in t.mem.mark}
<1>1. M \subseteq Marks
  <2>1. \A m \in Marks : [m EXCEPT !.active = FALSE] \in Marks
    BY DEF Marks
  <2> QED BY <2>1, Fields
<1>2. (\A m, n \in t.mem.mark : m = n) => \A m, n \in M : m = n
  OBVIOUS
<1>3. DeactivateMark(t, k) = [t EXCEPT !.mem.mark = M]
  BY DEF DeactivateMark
<1> HIDE DEF M
<1>4. LET u == [t EXCEPT !.mem.mark = M] IN
      /\ OnlyMemory(t, u)
      /\ u.mem.flights = t.mem.flights /\ u.mem.calls = t.mem.calls /\ u.mem.mark = M
  BY <1>1, MarkWritten
<1> QED BY <1>2, <1>3, <1>4

\* No other flight is for the pane of k: its rows and its watermark are not those of k.
Alone(t, k) == \A g \in t.mem.flights : Ticket(g) # k => g.pane # k.pane

LEMMA CurrentIsAlone ==
    ASSUME NEW t, Good(t), NEW k, IsCurrent(t, k)
    PROVE  Alone(t, k) /\ \A g \in t.mem.flights : Ticket(g) = k
BY CurrentIsOnly DEF Alone

LEMMA ClearMarkEnds ==
    ASSUME NEW t, Good(t), NEW v, NEW k, Ends(t, v, k), Alone(t, k)
    PROVE  Ends(t, ClearMark(v, k), k)
<1> DEFINE u == ClearMark(v, k)
<1>1. v \in States
  BY DEF Ends
<1>2. /\ OnlyMemory(v, u)
      /\ u.mem.flights = v.mem.flights /\ u.mem.calls = v.mem.calls
      /\ u.mem.mark = {m \in v.mem.mark : ~Owns(m, k)}
  BY <1>1, ClearMarkIs
<1> HIDE DEF u
<1>3. ASSUME NEW g \in t.mem.flights, Ticket(g) # k PROVE u.mem.mark = v.mem.mark
  <2>1. v.mem.mark = {MarkOf(Ticket(g))}
    BY <1>3, FlightStays DEF Ends
  <2>2. MarkOf(Ticket(g)).pane # k.pane
    BY <1>3 DEF Alone, MarkOf, Ticket
  <2> QED BY <1>2, <2>1, <2>2 DEF Owns
<1>4. \A m, n \in u.mem.mark : m = n
  BY <1>2 DEF Ends
<1> QED BY <1>2, <1>3, <1>4 DEF Ends, OnlyMemory, u

LEMMA ClearMarkThenEnds ==
    ASSUME NEW t, Good(t), NEW v, NEW k, Ends(t, v, k), Alone(t, k), NEW force
    PROVE  Ends(t, ClearMarkThen(v, k, force), k)
<1> DEFINE c == ClearMark(v, k)
<1>1. Ends(t, c, k)
  BY ClearMarkEnds
<1> HIDE DEF c
<1>2. Same(c, Redrive(c, force)) /\ OnlyMemory(c, Redrive(c, force))
  BY <1>1, RedriveKeeps DEF Ends
<1>3. Ends(t, Redrive(c, force), k)
  BY <1>1, <1>2, EndsThenMemory
<1> QED BY <1>3 DEF ClearMarkThen, c

LEMMA DeactivateMarkEnds ==
    ASSUME NEW t, Good(t), NEW k, IsCurrent(t, k)
    PROVE  Ends(t, DeactivateMark(t, k), k)
<1> DEFINE u == DeactivateMark(t, k)
<1>1. Ends(t, t, k) /\ t \in States
  BY EndsAtOnce DEF Good
<1>2. /\ OnlyMemory(t, u)
      /\ u.mem.flights = t.mem.flights /\ u.mem.calls = t.mem.calls
      /\ \A m, n \in u.mem.mark : m = n
  <2>1. \A m, n \in t.mem.mark : m = n
    BY <1>1 DEF Ends
  <2> QED BY <1>1, <2>1, DeactivateMarkIs
<1> HIDE DEF u
<1>3. \A g \in t.mem.flights : Ticket(g) = k
  BY CurrentIsAlone
<1> QED BY <1>1, <1>2, <1>3 DEF Ends, OnlyMemory, u

\* Rows settled or given back by a handler that ends k.
LEMMA RowsEnd ==
    ASSUME NEW t, Good(t), NEW k, NEW u, OnlyRows(t, u),
           \A i \in DOMAIN t.rows :
             \/ u.rows[i] = t.rows[i]
             \/ /\ u.rows[i].phase = "none"
                /\ \A g \in t.mem.flights : Ticket(g) # k /\ i \in g.ids => u.rows[i].read
                /\ \/ u.rows[i].read \/ u.rows[i].delivered
                   \/ t.box.owner \in t.seen.left
                   \/ <<i, Process(t, t.box.owner)>> \notin t.seen.entered
    PROVE  Ends(t, u, k)
<1>1. \A g \in t.mem.flights : SeenBy(g.ids, g.to) \subseteq t.seen.typed
  BY FlightStays
<1> QED BY <1>1 DEF Ends, OnlyRows, Good, Sound, OnePointer, PastIsSound

LEMMA SettleEnterEnds ==
    ASSUME NEW t, Good(t), NEW k, IsCurrent(t, k), NEW phases
    PROVE  Ends(t, SettleEnter(t, k.ids, k.to, phases), k)
<1> DEFINE u == SettleEnter(t, k.ids, k.to, phases)
<1>1. OnlyRows(t, u)
  BY SettleEnterWrites DEF Good
<1>2. \A i \in DOMAIN t.rows : u.rows[i] = t.rows[i] \/ u.rows[i] = AsDelivered(t.rows[i])
  BY SettleEnterWrites DEF Good
<1>3. \A i \in DOMAIN t.rows :
        AsDelivered(t.rows[i]).phase = "none" /\ AsDelivered(t.rows[i]).delivered
  BY Fields, RowKinds DEF Good
<1>4. \A g \in t.mem.flights : Ticket(g) = k
  BY CurrentIsAlone
<1> HIDE DEF u
<1> QED BY <1>1, <1>2, <1>3, <1>4, RowsEnd DEF u

LEMMA ReleaseEnterEnds ==
    ASSUME NEW t, Good(t), NEW k, Alone(t, k), k.to[1] = k.pane
    PROVE  Ends(t, ReleaseEnter(t, k.ids, k.to, {"written"}), k)
<1> DEFINE u == ReleaseEnter(t, k.ids, k.to, {"written"})
<1>1. OnlyRows(t, u)
  BY ReleaseEnterWrites DEF Good
<1>2. \A i \in DOMAIN t.rows :
        \/ u.rows[i] = t.rows[i]
        \/ /\ u.rows[i] = AsUndelivered(t.rows[i])
           /\ ~t.rows[i].read /\ t.rows[i].to = k.to /\ t.rows[i].phase = "written"
  BY ReleaseEnterWrites DEF Good
<1> HIDE DEF u
<1>3. ASSUME NEW i \in DOMAIN t.rows, u.rows[i] # t.rows[i]
      PROVE  /\ u.rows[i].phase = "none"
             /\ \A g \in t.mem.flights : Ticket(g) # k /\ i \in g.ids => u.rows[i].read
             /\ \/ t.box.owner \in t.seen.left
                \/ <<i, Process(t, t.box.owner)>> \notin t.seen.entered
  <2>1. ~t.rows[i].read /\ t.rows[i].to = k.to /\ t.rows[i].phase = "written"
    BY <1>2, <1>3
  <2>2. u.rows[i].phase = "none"
    <3>1. t.rows[i] \in Messages
      BY Fields DEF Good
    <3>2. AsUndelivered(t.rows[i]).phase = "none"
      BY <3>1, RowKinds
    <3>3. u.rows[i] = AsUndelivered(t.rows[i])
      BY <1>2, <1>3
    <3> QED BY <3>2, <3>3
  <2>3. ASSUME NEW g \in t.mem.flights, Ticket(g) # k, i \in g.ids PROVE FALSE
    <3>1. t.rows[i].to = g.to /\ g.to[1] = g.pane
      BY <2>1, <2>3 DEF Good, Sound, FlightIsSound, Process
    <3> QED BY <2>1, <2>3, <3>1 DEF Alone
  <2> QED BY <2>1, <2>2, <2>3, EnteredIsDone
<1> QED BY <1>1, <1>3, RowsEnd DEF u

LEMMA ThenRedrive ==
    ASSUME NEW t, NEW u, Kept(t, u), NEW force
    PROVE  Kept(t, Redrive(u, force))
<1>1. Same(u, Redrive(u, force))
  BY RedriveKeeps DEF Kept, Good
<1> QED BY <1>1, KeptThenSame

\* The four ways a submission ends.
LEMMA RollBackKeeps ==
    ASSUME NEW t, Good(t), NEW k, Alone(t, k), k.to[1] = k.pane
    PROVE  Kept(t, RollBack(t, k))
<1> DEFINE released == ReleaseEnter(t, k.ids, k.to, {"written"})
<1>1. Ends(t, released, k)
  BY ReleaseEnterEnds
<1> HIDE DEF released
<1>2. Ends(t, ClearMark(released, k), k)
  BY <1>1, ClearMarkEnds
<1>3. Kept(t, Settle(released, k)) /\ Kept(t, Settle(ClearMark(released, k), k))
  BY <1>1, <1>2, SettleKeeps
<1> QED BY <1>3, ThenRedrive DEF RollBack, released

LEMMA GiveUpKeeps ==
    ASSUME NEW t, Good(t), NEW k, IsCurrent(t, k), NEW phase
    PROVE  Kept(t, GiveUp(t, k, phase))
<1> DEFINE settled == SettleEnter(t, k.ids, k.to, {phase})
<1>1. Ends(t, settled, k)
  BY SettleEnterEnds
<1> HIDE DEF settled
<1>2. Ends(t, ClearMark(settled, k), k)
  BY <1>1, CurrentIsAlone, ClearMarkEnds
<1> QED BY <1>2, SettleKeeps DEF GiveUp, settled

LEMMA SubmittedKeeps ==
    ASSUME NEW t, Good(t), NEW k, IsCurrent(t, k)
    PROVE  Kept(t, Submitted(t, k))
<1> DEFINE settled == SettleEnter(t, k.ids, k.to, {"entered"})
<1>1. Ends(t, settled, k)
  BY SettleEnterEnds
<1> HIDE DEF settled
<1>2. Ends(t, ClearMark(settled, k), k)
  BY <1>1, CurrentIsAlone, ClearMarkEnds
<1>3. Kept(t, Settle(settled, k)) /\ Kept(t, Settle(ClearMark(settled, k), k))
  BY <1>1, <1>2, SettleKeeps
<1> QED BY <1>3, ThenRedrive DEF Submitted, settled

LEMMA UndecidedKeeps ==
    ASSUME NEW t, Good(t), NEW k, IsCurrent(t, k)
    PROVE  Kept(t, Undecided(t, k)) /\ Kept(t, Settle(DeactivateMark(t, k), k))
<1>1. Kept(t, Settle(DeactivateMark(t, k), k))
  BY DeactivateMarkEnds, SettleKeeps
<1> QED BY <1>1, ThenRedrive DEF Undecided

(***************************************************************************)
(* The text is answered.                                                   *)
(***************************************************************************)

LEMMA TextAcceptedKeeps ==
    ASSUME NEW t, Good(t), NEW k, IsCurrent(t, k), \A c \in t.mem.calls : c.ticket # k
    PROVE  Kept(t, TextAccepted(t, k))
<1> DEFINE f == CHOOSE f \in t.mem.flights : Ticket(f) = k
           g == [f EXCEPT !.submit = TRUE, !.timer = ~f.deferred]
<1>1. f \in t.mem.flights /\ Ticket(f) = k
  BY DEF IsCurrent
<1>2. TextAccepted(t, k) =
        IF MustRelease(t, k.ids) THEN Settle(ClearMarkThen(t, k, FALSE), k)
        ELSE IF f.deferred /\ f.idleSeen THEN Submit(t, f)
        ELSE Changed(t, f, g)
  BY DEF TextAccepted
<1> HIDE DEF f
<1>3. Kept(t, Settle(ClearMarkThen(t, k, FALSE), k))
  <2>1. Ends(t, ClearMarkThen(t, k, FALSE), k)
    BY EndsAtOnce, CurrentIsAlone, ClearMarkThenEnds
  <2> QED BY <2>1, SettleKeeps
<1>4. Kept(t, Submit(t, f))
  BY <1>1, SubmitKeeps DEF Kept, OnlyMemory
<1>5. Kept(t, Changed(t, f, g))
  <2>1. f \in Flights
    BY <1>1, FlightStays
  <2>2. g \in Flights /\ g.submit /\ Ticket(g) = Ticket(f)
    BY <2>1 DEF Flights, Ticket
  <2> HIDE DEF g
  <2> QED BY <1>1, <2>2, ChangedKeeps DEF Kept, OnlyMemory
<1> QED BY <1>2, <1>3, <1>4, <1>5

\* A terminal that refuses the text has typed none of it: what it did not enter is forgotten.
LEMMA TextRefusedKeeps ==
    ASSUME NEW t, Good(t), NEW k, IsCurrent(t, k), \A i \in k.ids : t.rows[i].phase # "entered"
    PROVE  Kept(t, TextRefused(t, k))
<1> DEFINE typed == t.seen.typed \ (SeenBy(k.ids, k.to) \ t.seen.entered)
           seen1 == [t.seen EXCEPT !.typed = typed]
           R == [i \in DOMAIN t.rows |->
                   IF i \in k.ids /\ ~t.rows[i].read THEN AsUndelivered(t.rows[i]) ELSE t.rows[i]]
           w == [t EXCEPT !.seen = seen1]
           v == [w EXCEPT !.rows = R]
<1>1. t \in States /\ t.seen \in Pasts
  BY Fields DEF Good
<1>2. /\ seen1 \in Pasts /\ seen1.typed = typed
      /\ seen1.entered = t.seen.entered /\ seen1.left = t.seen.left /\ seen1.twice = t.seen.twice
  BY <1>1 DEF Pasts
<1>3. Untyped(t, k) = w
  BY <1>1 DEF Untyped, States
<1> HIDE DEF seen1
<1>4. /\ w \in States /\ w.rows = t.rows /\ w.mem = t.mem /\ w.agent = t.agent /\ w.box = t.box
      /\ w.seen = seen1
  BY <1>1, <1>2 DEF States
<1> HIDE DEF w
<1>5. Update(w, k.ids, LAMBDA row : ~row.read, AsUndelivered) = v
  BY <1>4 DEF Update
<1>6. R \in [DOMAIN w.rows -> Messages]
  BY <1>1, <1>4, Fields, RowKinds
<1>7. \A i \in DOMAIN t.rows :
        R[i] = IF i \in k.ids /\ ~t.rows[i].read THEN AsUndelivered(t.rows[i]) ELSE t.rows[i]
  OBVIOUS
<1> HIDE DEF R
<1>8. OnlyRows(w, v) /\ v.rows = R
  BY <1>4, <1>6, RowsWritten
<1> HIDE DEF v
<1>9. PICK f \in t.mem.flights : Ticket(f) = k /\ k.ids = f.ids
  BY CurrentIsOnly
<1>10. ASSUME NEW i \in DOMAIN t.rows, i \in k.ids, ~t.rows[i].read
       PROVE  /\ R[i].phase = "none"
              /\ \/ t.box.owner \in t.seen.left
                 \/ <<i, Process(t, t.box.owner)>> \notin t.seen.entered
  <2>1. t.rows[i].phase = "written"
    BY <1>9, <1>10 DEF Good, Sound, FlightIsSound
  <2>2. R[i].phase = "none"
    <3>1. t.rows[i] \in Messages
      BY <1>1, Fields
    <3>2. AsUndelivered(t.rows[i]).phase = "none"
      BY <3>1, RowKinds
    <3>3. R[i] = AsUndelivered(t.rows[i])
      BY <1>7, <1>10
    <3> QED BY <3>2, <3>3
  <2> QED BY <1>10, <2>1, <2>2, EnteredIsDone
<1>11. \A g \in t.mem.flights : Ticket(g) = k
  BY CurrentIsAlone
<1>12. /\ \A m, n \in t.mem.mark : m = n
       /\ t.seen.entered \subseteq t.seen.typed
  BY DEF Good, Sound, OnePointer, PastIsSound
<1>13. Ends(t, v, k)
  BY <1>2, <1>4, <1>7, <1>8, <1>10, <1>11, <1>12 DEF Ends, OnlyRows
<1>14. Kept(t, Settle(ClearMarkThen(v, k, FALSE), k))
  BY <1>13, CurrentIsAlone, ClearMarkThenEnds, SettleKeeps
<1> QED BY <1>3, <1>5, <1>14 DEF TextRefused

(***************************************************************************)
(* Enter is pressed.                                                       *)
(***************************************************************************)

Pressed(t, u, k, sent) ==
    LET call == [kind |-> "enter", ticket |-> k] IN
    /\ u \in States
    /\ u.agent = t.agent /\ u.box = t.box
    /\ DOMAIN u.rows = DOMAIN t.rows
    /\ \A i \in DOMAIN t.rows :
         u.rows[i] = IF i \in k.ids /\ t.rows[i].phase = "written"
                     THEN [t.rows[i] EXCEPT !.phase = "entered", !.to = k.to] ELSE t.rows[i]
    /\ u.mem.flights = t.mem.flights /\ u.mem.mark = t.mem.mark
    /\ u.mem.calls = t.mem.calls \cup {call}
    /\ u.seen.typed = t.seen.typed /\ u.seen.left = t.seen.left
    /\ u.seen.entered = t.seen.entered \cup sent
    /\ u.seen.twice = (t.seen.twice \/ (k.pane \notin t.seen.left /\ sent \cap t.seen.entered # {}))

LEMMA PressEnterIs ==
    ASSUME NEW t, Good(t), NEW k, IsCurrent(t, k)
    PROVE  Pressed(t, PressEnter(t, k), k, SeenBy(k.ids, Process(t, k.pane)))
<1> DEFINE sent == SeenBy(k.ids, Process(t, k.pane))
           call == [kind |-> "enter", ticket |-> k]
           a == Advance(t, k.ids, k.to, "written", "entered")
           twice == t.seen.twice \/ (k.pane \notin t.seen.left /\ sent \cap t.seen.entered # {})
           seen1 == [t.seen EXCEPT !.twice = twice, !.entered = t.seen.entered \cup sent]
           b == [a EXCEPT !.seen = seen1]
           m == [t.mem EXCEPT !.calls = t.mem.calls \cup {call}]
           u == [b EXCEPT !.mem = m]
<1>1. t \in States /\ t.seen \in Pasts /\ t.mem \in Memories
  BY Fields DEF Good
<1>2. PICK f \in t.mem.flights : /\ f \in Flights /\ Ticket(f) = k /\ k.pane \in Panes
                                 /\ k.to = f.to /\ k.ids = f.ids
  BY CurrentIsOnly
<1>3. call \in Calls /\ k.to \in Incarnations /\ k.ids \subseteq Nat
  BY <1>2 DEF Flights, Calls, Ticket
<1>4. sent \subseteq Nat \X Incarnations
  BY <1>1, <1>2, <1>3, ProcessIsIncarnation DEF SeenBy
<1>5. Advanced(t, a, k.ids, k.to, "written", "entered")
  <2>1. "entered" \in Phases
    BY DEF Phases
  <2> QED BY <1>1, <1>3, <2>1, AdvanceWrites
<1> HIDE DEF a
<1>6. /\ a \in States /\ a.agent = t.agent /\ a.box = t.box /\ a.mem = t.mem /\ a.seen = t.seen
      /\ DOMAIN a.rows = DOMAIN t.rows
      /\ \A i \in DOMAIN t.rows :
           a.rows[i] = IF i \in k.ids /\ t.rows[i].phase = "written"
                       THEN [t.rows[i] EXCEPT !.phase = "entered", !.to = k.to] ELSE t.rows[i]
  BY <1>5 DEF Advanced, OnlyRows
<1> HIDE DEF sent, twice, call
<1>7. twice \in BOOLEAN
  <2>1. t.seen.twice \in BOOLEAN
    BY <1>1 DEF Pasts
  <2> QED BY <2>1 DEF twice
<1>8. /\ seen1 \in Pasts /\ seen1.typed = t.seen.typed /\ seen1.left = t.seen.left
      /\ seen1.entered = t.seen.entered \cup sent /\ seen1.twice = twice
  BY <1>1, <1>4, <1>7 DEF Pasts
<1>9. /\ m \in Memories /\ m.flights = t.mem.flights /\ m.mark = t.mem.mark
      /\ m.calls = t.mem.calls \cup {call}
  BY <1>1, <1>3 DEF Memories
<1>10. [a EXCEPT !.seen.twice = @ \/ (k.pane \notin t.seen.left /\ sent \cap t.seen.entered # {}),
                 !.seen.entered = @ \cup sent] = b
  BY <1>1, <1>6 DEF States, Pasts, twice
<1>11. b.mem = t.mem
  BY <1>6 DEF States
<1>12. Called(b, "enter", k) = u
  BY <1>11, <1>6, <1>8 DEF Called, States, call
<1>13. PressEnter(t, k) = u
  BY <1>10, <1>12 DEF PressEnter, a, sent
<1> HIDE DEF m, seen1
<1>14. /\ u \in States /\ u.agent = a.agent /\ u.box = a.box /\ u.rows = a.rows
       /\ u.mem = m /\ u.seen = seen1
  BY <1>6, <1>8, <1>9 DEF States
<1> HIDE DEF u
<1>15. Pressed(t, u, k, sent)
  BY <1>6, <1>8, <1>9, <1>14 DEF Pressed, call, twice
<1> QED BY <1>13, <1>15 DEF sent

LEMMA PressEnterKeeps ==
    ASSUME NEW t, Good(t), NEW k, IsCurrent(t, k), SameTarget(t, k), Claimed(t, k),
           \A f \in t.mem.flights : ~f.submit,
           \A c \in t.mem.calls : c.ticket # k
    PROVE  Kept(t, PressEnter(t, k))
<1> DEFINE u == PressEnter(t, k)
           q == Process(t, k.pane)
           sent == SeenBy(k.ids, q)
           call == [kind |-> "enter", ticket |-> k]
<1>0. t \in States /\ Pressed(t, u, k, sent)
  BY PressEnterIs DEF Good
<1>1. PICK f \in t.mem.flights :
        /\ f \in Flights /\ t.mem.flights = {f} /\ Ticket(f) = k
        /\ k.pane = f.pane /\ k.to = f.to /\ k.ids = f.ids /\ k.pane \in Panes
  BY CurrentIsOnly
<1>2. k.to = q /\ t.box.owner = k.pane
  BY DEF SameTarget
<1>3. \A i \in k.ids : i \in DOMAIN t.rows /\ t.rows[i] \in Messages
  BY <1>0, <1>1, Fields DEF Good, Sound, FlightIsSound
<1>4. \A i \in k.ids : t.rows[i].phase = "written" /\ t.rows[i].to = q /\ ~t.rows[i].read
  BY <1>2 DEF Claimed
<1> HIDE DEF u
<1>5. ASSUME NEW i \in k.ids
      PROVE  u.rows[i].phase = "entered" /\ u.rows[i].to = q /\ ~u.rows[i].read
  <2>1. u.rows[i] = [t.rows[i] EXCEPT !.phase = "entered", !.to = q]
    BY <1>0, <1>2, <1>3, <1>4 DEF Pressed
  <2> QED BY <1>3, <1>4, <2>1 DEF Messages
<1>6. \A i \in DOMAIN t.rows : i \notin k.ids => u.rows[i] = t.rows[i]
  BY <1>0 DEF Pressed
<1>7. /\ u \in States /\ u.agent = t.agent /\ u.box = t.box
      /\ DOMAIN u.rows = DOMAIN t.rows
      /\ u.mem.flights = t.mem.flights /\ u.mem.mark = t.mem.mark
      /\ u.mem.calls = t.mem.calls \cup {call}
      /\ u.seen.typed = t.seen.typed /\ u.seen.left = t.seen.left
      /\ u.seen.entered = t.seen.entered \cup sent
      /\ u.seen.twice = (\/ t.seen.twice
                         \/ (k.pane \notin t.seen.left /\ sent \cap t.seen.entered # {}))
  BY <1>0 DEF Pressed
<1>8. \A p : Process(u, p) = Process(t, p)
  BY <1>7 DEF Process
<1>9. call.ticket = k /\ call.kind = "enter" /\ k.to[1] = k.pane
  BY <1>2 DEF Process
<1>10. SeenBy(f.ids, f.to) = sent /\ sent \subseteq t.seen.typed
  <2>1. SeenBy(f.ids, f.to) = sent
    BY <1>1, <1>2
  <2>2. SeenBy(f.ids, f.to) \subseteq t.seen.typed
    BY FlightStays
  <2> HIDE DEF sent
  <2> QED BY <2>1, <2>2
<1>11. k.pane \notin t.seen.left => sent \cap t.seen.entered = {}
  <2> SUFFICES ASSUME k.pane \notin t.seen.left, NEW x \in sent, x \in t.seen.entered PROVE FALSE
    OBVIOUS
  <2>1. PICK i \in k.ids : x = <<i, q>>
    BY DEF SeenBy
  <2> QED BY <1>2, <1>3, <1>4, <2>1 DEF Good, Sound, PastIsSound
<1> HIDE DEF call, q
<1>12. IsFiniteSet(u.mem.calls)
  <2>1. IsFiniteSet(t.mem.calls)
    BY DEF Good
  <2>2. IsFiniteSet(t.mem.calls \cup {call})
    BY <2>1, FS_AddElement
  <2> QED BY <1>7, <2>2
<1>13. OnePointer(u)
  BY <1>7 DEF OnePointer, Good, Sound
<1>14. FlightIsSound(u)
  <2>1. \A i \in f.ids : u.rows[i].phase \in {"written", "entered"} /\ u.rows[i].to = f.to
    BY <1>1, <1>2, <1>5
  <2>2. \A g \in u.mem.flights : g = f
    BY <1>1, <1>7
  <2> HIDE DEF sent
  <2> QED BY <1>7, <1>8, <1>10, <2>1, <2>2 DEF FlightIsSound, Good, Sound
<1>15. CallsAreSound(u)
  <2>1. \A c \in u.mem.calls : c.ticket.to[1] = c.ticket.pane
    BY <1>7, <1>9 DEF Good, Sound, CallsAreSound
  <2>2. \A c \in u.mem.calls : c.ticket = k => c = call
    BY <1>7
  <2>3. ~f.timer
    BY <1>1, FlightStays
  <2> QED BY <1>1, <1>7, <1>9, <2>1, <2>2, <2>3 DEF CallsAreSound
<1>16. RowsAreSound(u)
  <2>1. \A i \in DOMAIN u.rows : i \in k.ids \/ u.rows[i] = t.rows[i]
    BY <1>6, <1>7
  <2>2. q \in Incarnations
    BY <1>0, <1>1, ProcessIsIncarnation DEF q
  <2>3. \A i \in DOMAIN u.rows :
          u.rows[i].phase # "none" => ~u.rows[i].read /\ u.rows[i].to \in Incarnations
    BY <1>5, <1>7, <2>1, <2>2 DEF Good, Sound, RowsAreSound
  <2>4. Reserved(u) \subseteq Reserved(t) /\ \A i \in Reserved(u) : u.rows[i].to = t.rows[i].to
    BY <1>4, <1>5, <1>7, <2>1 DEF Reserved, Unread
  <2>5. RowsAreSound(t)
    BY DEF Good, Sound
  <2> QED BY <1>0, <1>7, <2>3, <2>4, <2>5, FewerReserved DEF RowsAreSound
<1>17. PastIsSound(u)
  <2>1. u.seen.entered \subseteq u.seen.typed /\ ~u.seen.twice
    BY <1>7, <1>10, <1>11 DEF Good, Sound, PastIsSound
  <2>2. \A x \in u.seen.typed :
          /\ x[1] \in DOMAIN u.rows
          /\ x[2][1] \in u.seen.left \cup {u.box.owner}
          /\ x[2][2] <= u.agent[x[2][1]].process
    BY <1>7 DEF Good, Sound, PastIsSound
  <2>3. ASSUME u.box.owner \notin u.seen.left, NEW i \in DOMAIN u.rows,
               <<i, Process(u, u.box.owner)>> \in u.seen.entered
        PROVE  \/ u.rows[i].read
               \/ u.rows[i].phase = "none" /\ u.rows[i].delivered
               \/ u.rows[i].phase = "entered" /\ u.rows[i].to = Process(u, u.box.owner)
    <3>1. Process(u, u.box.owner) = q
      BY <1>2, <1>7, <1>8 DEF q
    <3>2. CASE i \in k.ids
      BY <1>5, <3>1, <3>2
    <3>3. CASE i \notin k.ids
      <4>1. <<i, q>> \notin sent
        BY <3>3 DEF SeenBy
      <4>2. <<i, q>> \in t.seen.entered
        BY <1>7, <2>3, <3>1, <4>1
      <4>3. u.rows[i] = t.rows[i] /\ i \in DOMAIN t.rows
        BY <1>6, <1>7, <3>3
      <4> QED BY <1>2, <1>7, <2>3, <3>1, <4>2, <4>3 DEF Good, Sound, PastIsSound, q
    <3> QED BY <3>2, <3>3
  <2> QED BY <2>1, <2>2, <2>3 DEF PastIsSound
<1> QED BY <1>7, <1>12, <1>13, <1>14, <1>15, <1>16, <1>17 DEF Kept, Good, Sound, u

LEMMA HoldUntilIdleKeeps ==
    ASSUME NEW t, Good(t), NEW k, \A c \in t.mem.calls : c.ticket # k
    PROVE  Kept(t, HoldUntilIdle(t, k))
<1> DEFINE s == DeferUntilIdle(t, k.pane)
           H(f) == IF Ticket(f) = k THEN [f EXCEPT !.submit = TRUE] ELSE f
           F == {H(f) : f \in s.mem.flights}
           u == [s EXCEPT !.mem.flights = F]
<1>1. Good(s) /\ OnlyMemory(t, s) /\ s.mem.calls = t.mem.calls
  BY DeferUntilIdleKeeps
<1>2. HoldUntilIdle(t, k) = u
  BY DEF HoldUntilIdle
<1> HIDE DEF s
<1>3. CASE \A f \in s.mem.flights : Ticket(f) # k
  <2>1. F = s.mem.flights
    BY <1>3
  <2> HIDE DEF F
  <2>2. F \subseteq Flights /\ s \in States
    BY <1>1, <2>1, Fields DEF Good
  <2>3. /\ OnlyMemory(s, u)
        /\ u.mem.flights = F /\ u.mem.calls = s.mem.calls /\ u.mem.mark = s.mem.mark
    BY <2>2, FlightsWritten
  <2>4. Same(s, u)
    BY <2>1, <2>3 DEF Same, OnlyMemory
  <2> QED BY <1>1, <1>2, <2>3, <2>4, SameKeeps DEF Kept, OnlyMemory
<1>4. CASE \E f \in s.mem.flights : Ticket(f) = k
  <2>1. PICK f \in s.mem.flights : Ticket(f) = k
    BY <1>4
  <2>2. f \in Flights /\ s.mem.flights = {f}
    BY <1>1, <2>1, FlightStays
  <2> DEFINE g == [f EXCEPT !.submit = TRUE]
  <2>3. F = {g}
    BY <2>1, <2>2
  <2>4. g \in Flights /\ g.submit /\ Ticket(g) = Ticket(f)
    BY <2>2 DEF Flights, Ticket
  <2>5. u = Changed(s, f, g)
    <3>1. (s.mem.flights \ {f}) \cup {g} = {g}
      BY <2>2
    <3> QED BY <2>3, <3>1 DEF Changed
  <2> HIDE DEF g, u, F
  <2>6. Good(Changed(s, f, g)) /\ OnlyMemory(s, Changed(s, f, g))
    <3>1. \A c \in s.mem.calls : c.ticket # Ticket(g)
      BY <1>1, <2>1, <2>4
    <3> QED BY <1>1, <2>1, <2>4, <3>1, ChangedKeeps
  <2> QED BY <1>1, <1>2, <2>5, <2>6 DEF Kept, OnlyMemory
<1> QED BY <1>3, <1>4

(***************************************************************************)
(* The terminals.                                                          *)
(***************************************************************************)

LEMMA RetirePaneKeeps ==
    ASSUME NEW t, Good(t), NEW p \in Panes
    PROVE  LET u == RetirePane(t, p) IN
           /\ Kept(t, u)
           /\ u.agent = t.agent /\ u.box = t.box
           /\ \A g \in u.mem.flights : g.pane # p
<1> DEFINE unsent == {f \in FlightsOf(t, p) : f.ids # {}}
           ids == UNION {f.ids : f \in unsent}
           marks == {m \in t.mem.mark : m.pane = p}
           F == t.mem.flights \ unsent
           M == t.mem.mark \ marks
           Q == t.mem.parked \ {p}
           C == t.mem.cold \ {p}
           mem1 == [t.mem EXCEPT !.flights = F, !.parked = Q, !.mark = M, !.cold = C]
           gone == [t EXCEPT !.mem = mem1]
           Moot(row) == /\ ~row.read
                        /\ row.phase \in {"reserved", "written"}
                        /\ \E f \in unsent : row.to = f.to
           R == [i \in DOMAIN t.rows |->
                   IF i \in ids /\ Moot(t.rows[i]) THEN AsUndelivered(t.rows[i]) ELSE t.rows[i]]
           u == [gone EXCEPT !.rows = R]
<1>1. t \in States /\ t.mem \in Memories
  BY Fields DEF Good
<1>2. F \subseteq Flights /\ M \subseteq Marks /\ Q \subseteq Panes /\ C \subseteq Panes
  BY <1>1, Fields, PanesOf
<1>3. /\ \A f \in F : f \in t.mem.flights /\ f.pane # p
      /\ \A f \in t.mem.flights : f.pane # p => f \in F
      /\ \A f \in unsent : f \in t.mem.flights /\ f.pane = p
  BY DEF FlightsOf, Good, Sound, FlightIsSound
<1>4. \A m \in M : m \in t.mem.mark
  OBVIOUS
<1>5. \A g \in F : M = t.mem.mark
  <2> SUFFICES ASSUME NEW g \in F PROVE M = t.mem.mark
    OBVIOUS
  <2>1. t.mem.mark = {MarkOf(Ticket(g))} /\ g.pane # p
    BY <1>3, FlightStays
  <2>2. MarkOf(Ticket(g)).pane = g.pane
    BY DEF MarkOf, Ticket
  <2> QED BY <2>1, <2>2
<1>6. RetirePane(t, p) =
        IF marks # {}
        THEN Redrive(Update(gone, ids, LAMBDA row : Moot(row), AsUndelivered), TRUE)
        ELSE Update(gone, ids, LAMBDA row : Moot(row), AsUndelivered)
  <2>1. [t EXCEPT !.mem.flights = @ \ unsent, !.mem.parked = @ \ {p},
                  !.mem.mark = @ \ marks, !.mem.cold = @ \ {p}] = gone
    BY <1>1 DEF States, Memories
  <2> QED BY <2>1 DEF RetirePane
<1> HIDE DEF F, M, Q, C
<1>7. mem1 \in Memories /\ mem1.flights = F /\ mem1.mark = M /\ mem1.calls = t.mem.calls
  BY <1>1, <1>2 DEF Memories
<1> HIDE DEF mem1
<1>8. /\ gone \in States /\ gone.rows = t.rows /\ gone.agent = t.agent /\ gone.box = t.box
      /\ gone.seen = t.seen /\ gone.mem = mem1
  BY <1>1, <1>7 DEF States
<1> HIDE DEF gone
<1>9. Update(gone, ids, LAMBDA row : Moot(row), AsUndelivered) = u
  BY <1>8 DEF Update
<1> HIDE DEF ids
<1>10. \A i \in DOMAIN t.rows :
         R[i] = IF i \in ids /\ Moot(t.rows[i]) THEN AsUndelivered(t.rows[i]) ELSE t.rows[i]
  OBVIOUS
<1>11. R \in [DOMAIN gone.rows -> Messages]
  BY <1>1, <1>8, Fields, RowKinds
<1> HIDE DEF R
<1>12. OnlyRows(gone, u) /\ u.rows = R
  BY <1>8, <1>11, RowsWritten
<1> HIDE DEF u
<1>13. /\ u.mem.flights = F /\ u.mem.mark = M /\ u.mem.calls = t.mem.calls
       /\ u.agent = t.agent /\ u.box = t.box /\ u.seen = t.seen /\ u \in States
       /\ DOMAIN u.rows = DOMAIN t.rows
  BY <1>7, <1>8, <1>12 DEF OnlyRows
<1>14. ASSUME NEW i \in DOMAIN t.rows PROVE RowGoesOn(t, u, i)
  <2>1. CASE i \in ids /\ Moot(t.rows[i])
    <3>1. t.rows[i] \in Messages
      BY <1>1, Fields
    <3>2. u.rows[i].phase = "none"
      <4>1. u.rows[i] = AsUndelivered(t.rows[i])
        BY <1>10, <1>12, <2>1
      <4>2. AsUndelivered(t.rows[i]).phase = "none"
        BY <3>1, RowKinds
      <4> QED BY <4>1, <4>2
    <3>3. PICK f \in unsent : TRUE
      BY <2>1
    <3>4. F = {}
      BY <1>3, <3>3, FlightStays
    <3> QED BY <1>13, <2>1, <3>2, <3>4, EnteredIsDone DEF RowGoesOn
  <2>2. CASE ~(i \in ids /\ Moot(t.rows[i]))
    BY <1>10, <1>12, <2>2 DEF RowGoesOn
  <2> QED BY <2>1, <2>2
<1> HIDE DEF Moot, unsent
<1>15. ASSUME NEW g \in F PROVE FlightGoesOn(t, u, g)
  <2>1. g \in t.mem.flights /\ t.mem.flights = {g} /\ F = {g} /\ M = t.mem.mark
    BY <1>3, <1>5, FlightStays
  <2>2. /\ SeenBy(g.ids, g.to) \subseteq t.seen.typed
        /\ g.timer => g.submit
        /\ g.submit => \A c \in t.mem.calls : c.ticket # Ticket(g)
    BY <2>1, FlightStays
  <2> QED BY <1>13, <2>1, <2>2 DEF FlightGoesOn
<1>16. (\A m, n \in M : m = n) /\ t.seen.entered \subseteq t.seen.typed
  BY <1>4 DEF Good, Sound, OnePointer, PastIsSound
<1>17. GoesOn(t, u)
  BY <1>13, <1>14, <1>15, <1>16 DEF GoesOn
<1>18. Kept(t, u)
  BY <1>13, <1>17, GoesOnKeeps DEF Kept
<1>19. Kept(t, Redrive(u, TRUE)) /\ OnlyMemory(u, Redrive(u, TRUE)) /\ Same(u, Redrive(u, TRUE))
  BY <1>13, <1>18, ThenRedrive, RedriveKeeps
<1>20. RetirePane(t, p) = u \/ RetirePane(t, p) = Redrive(u, TRUE)
  BY <1>6, <1>9
<1> QED BY <1>3, <1>13, <1>18, <1>19, <1>20 DEF OnlyMemory, Same

LEMMA ReleasePendingKeeps ==
    ASSUME NEW t, Good(t), NEW p, \A g \in t.mem.flights : g.pane # p
    PROVE  Kept(t, ReleasePendingForPane(t, p))
<1> DEFINE u == ReleasePendingForPane(t, p)
<1>1. OnlyRows(t, u)
  BY ReleasePendingWrites DEF Good
<1>2. \A i \in DOMAIN t.rows :
        u.rows[i] = IF t.rows[i].phase # "none" /\ t.rows[i].to[1] = p
                    THEN IF t.rows[i].phase = "reserved" THEN AsUndelivered(t.rows[i])
                                                         ELSE AsDelivered(t.rows[i])
                    ELSE t.rows[i]
  BY ReleasePendingWrites DEF Good
<1> HIDE DEF u
<1>3. ASSUME NEW i \in DOMAIN t.rows PROVE RowGoesOn(t, u, i)
  <2>1. /\ AsDelivered(t.rows[i]).phase = "none" /\ AsUndelivered(t.rows[i]).phase = "none"
        /\ AsDelivered(t.rows[i]).delivered
    BY Fields, RowKinds DEF Good
  <2>2. CASE t.rows[i].phase # "none" /\ t.rows[i].to[1] = p
    <3>1. \A f \in t.mem.flights : i \notin f.ids
      <4> SUFFICES ASSUME NEW f \in t.mem.flights, i \in f.ids PROVE FALSE
        OBVIOUS
      <4>1. ~t.rows[i].read
        BY <2>2 DEF Good, Sound, RowsAreSound
      <4>2. t.rows[i].to = f.to /\ f.to[1] = f.pane
        BY <4>1 DEF Good, Sound, FlightIsSound, Process
      <4> QED BY <2>2, <4>2
    <3>2. u.mem.flights = t.mem.flights
      BY <1>1 DEF OnlyRows
    <3>3. CASE t.rows[i].phase = "reserved"
      <4>1. u.rows[i].phase = "none"
        BY <1>2, <2>1, <2>2, <3>3
      <4>2. ~t.rows[i].read
        BY <2>2 DEF Good, Sound, RowsAreSound
      <4> QED BY <3>1, <3>2, <3>3, <4>1, <4>2, EnteredIsDone DEF RowGoesOn
    <3>4. CASE t.rows[i].phase # "reserved"
      <4>1. u.rows[i].phase = "none" /\ u.rows[i].delivered
        BY <1>2, <2>1, <2>2, <3>4
      <4> QED BY <3>1, <3>2, <4>1 DEF RowGoesOn
    <3> QED BY <3>3, <3>4
  <2>3. CASE ~(t.rows[i].phase # "none" /\ t.rows[i].to[1] = p)
    BY <1>2, <2>3 DEF RowGoesOn
  <2> QED BY <2>2, <2>3
<1>4. GoesOn(t, u)
  <2>1. \A g \in u.mem.flights : FlightGoesOn(t, u, g)
    BY <1>1, FlightStays DEF OnlyRows, FlightGoesOn
  <2> QED BY <1>1, <1>3, <2>1 DEF OnlyRows, GoesOn, Good, Sound, OnePointer, PastIsSound
<1> QED BY <1>1, <1>4, GoesOnKeeps DEF Kept, OnlyRows, u

LEMMA ObserveWorkingKeeps ==
    ASSUME NEW t, Good(t), NEW p \in Panes
    PROVE  Kept(t, ObserveWorking(t, p))
<1>1. Kept(t, t)
  BY DEF Kept
<1>2. Kept(t, DeferUntilIdle(t, p))
  BY DeferUntilIdleKeeps DEF Kept, OnlyMemory
<1>3. Kept(t, ReleasePendingForPane(RetirePane(t, p), p))
  <2> DEFINE u == RetirePane(t, p)
  <2>1. Kept(t, u) /\ \A g \in u.mem.flights : g.pane # p
    BY RetirePaneKeeps
  <2> HIDE DEF u
  <2>2. Kept(u, ReleasePendingForPane(u, p))
    BY <2>1, ReleasePendingKeeps DEF Kept
  <2>3. Kept(t, ReleasePendingForPane(u, p))
    BY <2>1, <2>2, KeptIsKept
  <2> QED BY <2>3 DEF u
<1> QED BY <1>1, <1>2, <1>3 DEF ObserveWorking

LEMMA ObserveIdleKeeps ==
    ASSUME NEW t, Good(t), NEW p \in Panes
    PROVE  Kept(t, ObserveIdle(t, p))
<1> DEFINE s == IF p \in t.mem.cold THEN DeferUntilIdle(t, p) ELSE t
<1>1. Good(s) /\ s.agent = t.agent
  BY DeferUntilIdleKeeps DEF OnlyMemory
<1> HIDE DEF s
<1>2. Good(TakeDeferredEnter(s, p)) /\ OnlyMemory(s, TakeDeferredEnter(s, p))
  BY <1>1, TakeDeferredEnterKeeps
<1> QED BY <1>1, <1>2 DEF ObserveIdle, s, Kept, OnlyMemory

\* Processes end and follow each other where no flight is under way.
LEMMA SuccessorKeeps ==
    ASSUME NEW t, Good(t), NEW u \in States,
           u.rows = t.rows, u.seen = t.seen, u.box.owner = t.box.owner,
           u.mem.flights = t.mem.flights, u.mem.calls = t.mem.calls, u.mem.mark = t.mem.mark,
           \A p \in Panes : \/ u.agent[p].process = t.agent[p].process
                            \/ u.agent[p].process > t.agent[p].process,
           \A f \in t.mem.flights : /\ u.agent[f.pane].alive
                                    /\ u.agent[f.pane].process = t.agent[f.pane].process
    PROVE  Good(u)
<1>1. t \in States
  BY DEF Good
<1>2. \A p \in Panes : t.agent[p].process \in Int /\ u.agent[p].process \in Int
  <2>1. \A p \in Panes : t.agent[p] \in Agents /\ u.agent[p] \in Agents
    BY <1>1, Fields
  <2> QED BY <2>1 DEF Agents
<1>3. OnePointer(u) /\ CallsAreSound(u)
  BY DEF OnePointer, CallsAreSound, Good, Sound
<1>4. FlightIsSound(u)
  BY DEF FlightIsSound, Process, Good, Sound
<1>5. RowsAreSound(u)
  BY DEF RowsAreSound, Reserved, Unread, Good, Sound
<1>6. PastIsSound(u)
  <2>1. u.seen.entered \subseteq u.seen.typed /\ ~u.seen.twice
    BY DEF Good, Sound, PastIsSound
  <2>2. ASSUME NEW x \in t.seen.typed
        PROVE  /\ x[1] \in DOMAIN u.rows
               /\ x[2][1] \in u.seen.left \cup {u.box.owner}
               /\ x[2][2] <= t.agent[x[2][1]].process
               /\ x[2][2] <= u.agent[x[2][1]].process
    <3>1. x[2][1] \in Panes /\ x[2][2] \in Int
      BY <1>1 DEF States, Pasts, Incarnations
    <3>2. /\ x[1] \in DOMAIN t.rows
          /\ x[2][1] \in t.seen.left \cup {t.box.owner}
          /\ x[2][2] <= t.agent[x[2][1]].process
      BY DEF Good, Sound, PastIsSound
    <3> QED BY <1>2, <3>1, <3>2
  <2>3. ASSUME u.box.owner \notin u.seen.left, NEW i \in DOMAIN u.rows,
               <<i, Process(u, u.box.owner)>> \in u.seen.entered
        PROVE  \/ u.rows[i].read
               \/ u.rows[i].phase = "none" /\ u.rows[i].delivered
               \/ u.rows[i].phase = "entered" /\ u.rows[i].to = Process(u, u.box.owner)
    <3> DEFINE p == t.box.owner
    <3>1. p \in Panes
      BY <1>1, Fields
    <3>2. <<i, Process(u, p)>> \in t.seen.typed
      BY <2>1, <2>3
    <3>3. Process(u, p)[1] = p /\ Process(u, p)[2] = u.agent[p].process
      BY DEF Process
    <3>4. u.agent[p].process <= t.agent[p].process
      BY <2>2, <3>2, <3>3
    <3>5. u.agent[p].process = t.agent[p].process
      BY <1>2, <3>1, <3>4
    <3>6. Process(u, p) = Process(t, p)
      BY <3>5 DEF Process
    <3> QED BY <2>3, <3>6 DEF Good, Sound, PastIsSound
  <2> QED BY <2>1, <2>2, <2>3 DEF PastIsSound
<1> QED BY <1>3, <1>4, <1>5, <1>6 DEF Good, Sound

(***************************************************************************)
(* Mail arrives and is read; the Run moves; Orca restarts.                 *)
(***************************************************************************)

LEMMA AppendKeeps ==
    ASSUME NEW t, Good(t), NEW u \in States,
           u.rows = Append(t.rows, NewRow), u.agent = t.agent, u.seen = t.seen,
           u.box.owner = t.box.owner,
           u.mem.flights = t.mem.flights, u.mem.calls = t.mem.calls, u.mem.mark = t.mem.mark
    PROVE  Kept(t, u)
<1> DEFINE n == Len(t.rows)
<1>1. t \in States /\ t.rows \in Seq(Messages) /\ DOMAIN t.rows = 1..n /\ n \in Nat
  BY Fields DEF Good
<1>2. NewRow \in Messages /\ NewRow.phase = "none"
  BY DEF NewRow, Messages, Phases
<1>3. /\ DOMAIN u.rows = 1..(n + 1)
      /\ \A i \in DOMAIN t.rows : u.rows[i] = t.rows[i]
      /\ u.rows[n + 1] = NewRow
  BY <1>1, <1>2
<1>4. /\ \A i \in DOMAIN t.rows : i \in DOMAIN u.rows
      /\ \A i \in DOMAIN u.rows : i \in DOMAIN t.rows \/ i = n + 1
      /\ n + 1 \notin DOMAIN t.rows
  BY <1>1, <1>3
<1> HIDE DEF n
<1>5. OnePointer(u)
  BY DEF OnePointer, Good, Sound
<1>6. FlightIsSound(u)
  BY <1>3, <1>4 DEF FlightIsSound, Process, Good, Sound
<1>7. CallsAreSound(u)
  BY <1>3 DEF CallsAreSound, FlightIsSound, Good, Sound
<1>8. RowsAreSound(u)
  <2>1. \A i \in DOMAIN u.rows :
          u.rows[i].phase # "none" => i \in DOMAIN t.rows /\ u.rows[i] = t.rows[i]
    BY <1>2, <1>3, <1>4
  <2>2. Reserved(u) \subseteq Reserved(t) /\ \A i \in Reserved(u) : u.rows[i].to = t.rows[i].to
    BY <2>1 DEF Reserved, Unread
  <2>3. RowsAreSound(t)
    BY DEF Good, Sound
  <2> QED BY <1>1, <2>1, <2>2, <2>3, FewerReserved DEF RowsAreSound
<1>9. PastIsSound(u)
  <2>1. /\ u.seen.entered \subseteq u.seen.typed /\ ~u.seen.twice
        /\ \A x \in u.seen.typed :
             /\ x[1] \in DOMAIN t.rows
             /\ x[2][1] \in u.seen.left \cup {u.box.owner}
             /\ x[2][2] <= u.agent[x[2][1]].process
    BY DEF PastIsSound, Good, Sound
  <2>2. ASSUME u.box.owner \notin u.seen.left, NEW i \in DOMAIN u.rows,
               <<i, Process(u, u.box.owner)>> \in u.seen.entered
        PROVE  \/ u.rows[i].read
               \/ u.rows[i].phase = "none" /\ u.rows[i].delivered
               \/ u.rows[i].phase = "entered" /\ u.rows[i].to = Process(u, u.box.owner)
    <3>1. i \in DOMAIN t.rows
      BY <2>1, <2>2
    <3> QED BY <1>3, <2>2, <3>1 DEF PastIsSound, Process, Good, Sound
  <2> QED BY <1>4, <2>1, <2>2 DEF PastIsSound
<1> QED BY <1>5, <1>6, <1>7, <1>8, <1>9 DEF Kept, Good, Sound

LEMMA BoxWritten ==
    ASSUME NEW t \in States, NEW b \in BOOLEAN, NEW S, S \subseteq Nat
    PROVE  /\ Same(t, [t EXCEPT !.box.outstanding = S])
           /\ Same(t, [t EXCEPT !.box.waiter = b])
           /\ Same(t, [t EXCEPT !.box.woken = b])
BY DEF States, Boxes, Same

LEMMA ReadMailKeeps ==
    ASSUME NEW t \in States
    PROVE  Same(t, ReadMail(t))
<1> DEFINE S == IF t.box.outstanding = {} THEN Oldest(Unread(t)) ELSE t.box.outstanding
<1>1. S \subseteq Nat
  <2>1. Unread(t) \subseteq 1..Len(t.rows)
    BY Fields DEF Unread
  <2>2. Oldest(Unread(t)) \subseteq Unread(t)
    BY DEF Oldest
  <2>3. t.box.outstanding \subseteq Nat
    BY DEF States, Boxes
  <2> QED BY <2>1, <2>2, <2>3
<1>2. ReadMail(t) = [t EXCEPT !.box.outstanding = S]
  BY DEF ReadMail
<1> HIDE DEF S
<1> QED BY <1>1, <1>2, BoxWritten, Zenon

\* What is read is done with.
LEMMA ReadRowsKeeps ==
    ASSUME NEW t, Good(t), NEW ids
    PROVE  Kept(t, Update(t, ids, LAMBDA row : TRUE, AsRead))
<1> DEFINE R == [i \in DOMAIN t.rows |-> IF i \in ids /\ TRUE THEN AsRead(t.rows[i]) ELSE t.rows[i]]
           u == [t EXCEPT !.rows = R]
<1>1. t \in States
  BY DEF Good
<1>2. Update(t, ids, LAMBDA row : TRUE, AsRead) = u
  BY DEF Update
<1>3. R \in [DOMAIN t.rows -> Messages]
  BY <1>1, Fields, RowKinds
<1>4. \A i \in DOMAIN t.rows : R[i] = t.rows[i] \/ R[i] = AsRead(t.rows[i])
  OBVIOUS
<1>5. \A i \in DOMAIN t.rows : AsRead(t.rows[i]).phase = "none" /\ AsRead(t.rows[i]).read
  BY <1>1, Fields, RowKinds
<1> HIDE DEF R
<1>6. OnlyRows(t, u) /\ u.rows = R
  BY <1>1, <1>3, RowsWritten
<1> HIDE DEF u
<1>7. \A i \in DOMAIN t.rows : RowGoesOn(t, u, i)
  BY <1>4, <1>5, <1>6 DEF RowGoesOn
<1>8. \A g \in u.mem.flights : FlightGoesOn(t, u, g)
  BY <1>6, FlightStays DEF OnlyRows, FlightGoesOn
<1>9. GoesOn(t, u)
  BY <1>6, <1>7, <1>8 DEF OnlyRows, GoesOn, Good, Sound, OnePointer, PastIsSound
<1> QED BY <1>2, <1>6, <1>9, GoesOnKeeps DEF Kept, OnlyRows

\* A Run that moves has typed nothing where it comes to, unless it was there before.
LEMMA OwnerLeaves ==
    ASSUME NEW t, Good(t), NEW u \in States, u.box.owner # t.box.owner,
           u.rows = t.rows, u.mem = t.mem, u.agent = t.agent,
           u.seen.typed = t.seen.typed, u.seen.entered = t.seen.entered,
           u.seen.twice = t.seen.twice, u.seen.left = t.seen.left \cup {t.box.owner}
    PROVE  Kept(t, u)
<1>1. OnePointer(u) /\ CallsAreSound(u)
  BY DEF OnePointer, CallsAreSound, Good, Sound
<1>2. FlightIsSound(u) /\ RowsAreSound(u)
  BY DEF FlightIsSound, Process, RowsAreSound, Reserved, Unread, Good, Sound
<1>3. PastIsSound(u)
  <2>1. /\ u.seen.entered \subseteq u.seen.typed /\ ~u.seen.twice
        /\ \A x \in u.seen.typed :
             /\ x[1] \in DOMAIN u.rows
             /\ x[2][1] \in u.seen.left
             /\ x[2][2] <= u.agent[x[2][1]].process
    BY DEF PastIsSound, Good, Sound
  <2>2. ASSUME u.box.owner \notin u.seen.left, NEW i,
               <<i, Process(u, u.box.owner)>> \in u.seen.entered
        PROVE  FALSE
    <3>1. Process(u, u.box.owner)[1] = u.box.owner
      BY DEF Process
    <3>2. Process(u, u.box.owner)[1] \in u.seen.left
      BY <2>1, <2>2
    <3> QED BY <2>2, <3>1, <3>2
  <2> QED BY <2>1, <2>2 DEF PastIsSound
<1>4. IsFiniteSet(u.mem.calls)
  BY DEF Good
<1> QED BY <1>1, <1>2, <1>3, <1>4 DEF Kept, Good, Sound

\* A restart forgets all that is on its way, and keeps the rows.
LEMMA RestartedKeeps ==
    ASSUME NEW t \in States, RowsAreSound(t), PastIsSound(t)
    PROVE  Kept(t, Restarted(t))
<1> DEFINE b == (Undelivered(t) \cup Reserved(t) # {})
           m == [EmptyMemory EXCEPT !.repoint = b]
           A == [p \in Panes |-> [t.agent[p] EXCEPT !.live = FALSE, !.status = "neutral",
                                                    !.settled = FALSE]]
           box1 == [t.box EXCEPT !.waiter = FALSE, !.woken = FALSE]
           u == [t EXCEPT !.mem = m, !.box = box1, !.agent = A]
<1>1. /\ m \in Memories /\ m.flights = {} /\ m.calls = {} /\ m.mark = {}
  BY DEF EmptyMemory, Memories
<1>2. box1 \in Boxes /\ box1.owner = t.box.owner
  <2>1. t.box \in Boxes
    BY Fields
  <2> QED BY <2>1 DEF Boxes
<1>3. /\ A \in [Panes -> Agents]
      /\ \A p \in Panes : A[p].alive = t.agent[p].alive /\ A[p].process = t.agent[p].process
  <2>1. ASSUME NEW p \in Panes
        PROVE  LET a == [t.agent[p] EXCEPT !.live = FALSE, !.status = "neutral",
                                           !.settled = FALSE] IN
               a \in Agents /\ a.alive = t.agent[p].alive /\ a.process = t.agent[p].process
    <3>1. t.agent[p] \in Agents
      BY Fields
    <3> QED BY <3>1 DEF Agents, Statuses
  <2> QED BY <2>1
<1>4. Restarted(t) = u
  BY DEF Restarted, States
<1> HIDE DEF m, A, box1
<1>5. /\ u \in States /\ u.rows = t.rows /\ u.mem = m /\ u.agent = A /\ u.box = box1
      /\ u.seen = t.seen
  BY <1>1, <1>2, <1>3 DEF States
<1> HIDE DEF u
<1>6. OnePointer(u) /\ FlightIsSound(u) /\ CallsAreSound(u)
  BY <1>1, <1>5 DEF OnePointer, FlightIsSound, CallsAreSound
<1>7. RowsAreSound(u)
  BY <1>5 DEF RowsAreSound, Reserved, Unread
<1>8. PastIsSound(u)
  <2>1. t.box.owner \in Panes
    BY Fields
  <2>2. Process(u, u.box.owner) = Process(t, t.box.owner)
    BY <1>2, <1>3, <1>5, <2>1 DEF Process
  <2>3. \A x \in t.seen.typed : x[2][1] \in Panes
    BY DEF States, Pasts, Incarnations
  <2>4. \A x \in u.seen.typed :
          /\ x[1] \in DOMAIN u.rows
          /\ x[2][1] \in u.seen.left \cup {u.box.owner}
          /\ x[2][2] <= u.agent[x[2][1]].process
    BY <1>2, <1>3, <1>5, <2>3 DEF PastIsSound
  <2> QED BY <1>2, <1>5, <2>2, <2>4 DEF PastIsSound
<1>9. IsFiniteSet(u.mem.calls)
  BY <1>1, <1>5, FS_EmptySet
<1> QED BY <1>3, <1>4, <1>5, <1>6, <1>7, <1>8, <1>9 DEF Kept, Good, Sound

(***************************************************************************)
(* The steps.  Now is the state record; a step that starts and ends no     *)
(* process is a handler applied to it.                                     *)
(***************************************************************************)

LEMMA NowIs ==
    /\ Now.rows = rows /\ Now.mem = mem /\ Now.agent = agent /\ Now.box = box /\ Now.seen = seen
    /\ PointerInvariant <=>
         /\ Good(Now) /\ faults \in 0..MaxFaults
         /\ \A p \in Panes : agent[p].process + (IF agent[p].alive THEN 0 ELSE 1) <= faults + 1
BY DEF Now, PointerInvariant, TypeOK, Good

LEMMA BecomesIs ==
    ASSUME NEW t \in States, Becomes(t)
    PROVE  Now' = t
BY DEF Becomes, Now, States

\* What a step makes of the state and of the count of mishaps.
LEMMA StepIs ==
    ASSUME NEW t, Good(t), Becomes(t), faults' \in 0..MaxFaults,
           \A p \in Panes : t.agent[p].process + (IF t.agent[p].alive THEN 0 ELSE 1) <= faults' + 1
    PROVE  PointerInvariant'
<1>1. Now' = t
  BY BecomesIs DEF Good
<1>2. Good(Now)'
  BY <1>1 DEF Good, Sound, OnePointer, FlightIsSound, CallsAreSound, RowsAreSound, PastIsSound,
              Reserved, Unread, Process
<1>3. Sound(Now)'
  BY <1>2 DEF Good
<1>4. TypeOK'
  BY <1>1 DEF Becomes, TypeOK, Good
<1>5. (\A p \in Panes : agent[p].process + (IF agent[p].alive THEN 0 ELSE 1) <= faults + 1)'
  BY DEF Becomes
<1> QED BY <1>3, <1>4, <1>5 DEF PointerInvariant

LEMMA StepKeeps ==
    ASSUME PointerInvariant, NEW t, Kept(Now, t), Becomes(t),
           faults' = faults \/ (faults < MaxFaults /\ faults' = faults + 1)
    PROVE  PointerInvariant'
<1>1. faults \in 0..MaxFaults /\ MaxFaults \in Nat
  BY NowIs, PointerAssumption
<1>2. faults' \in 0..MaxFaults /\ faults' \in Int /\ faults <= faults'
  BY <1>1
<1>3. ASSUME NEW p \in Panes
      PROVE  t.agent[p].process + (IF t.agent[p].alive THEN 0 ELSE 1) <= faults' + 1
  <2>1. agent[p] \in Agents /\ t.agent[p].alive = agent[p].alive
        /\ t.agent[p].process = agent[p].process
    BY NowIs, Fields DEF Kept, Good
  <2>2. agent[p].process \in Int
    BY <2>1 DEF Agents
  <2>3. agent[p].process + (IF agent[p].alive THEN 0 ELSE 1) <= faults + 1
    BY NowIs
  <2> QED BY <1>1, <1>2, <2>1, <2>2, <2>3
<1> QED BY <1>2, <1>3, StepIs DEF Kept

LEMMA ThenOffers ==
    ASSUME NEW t, NEW s, NEW u, Kept(t, s), Good(u), Offers(s, u)
    PROVE  Kept(t, u)
BY DEF Kept, Offers

LEMMA NowKept ==
    ASSUME PointerInvariant, NEW s, Same(Now, s)
    PROVE  Kept(Now, s) /\ Good(s)
BY NowIs, SameKeeps DEF Kept, Same

LEMMA SendMessageStep ==
    ASSUME PointerInvariant, SendMessage
    PROVE  PointerInvariant'
<1> DEFINE s == [Now EXCEPT !.rows = Append(Now.rows, NewRow), !.mem.repoint = TRUE]
           u == IF box.waiter THEN [s EXCEPT !.box.waiter = FALSE, !.box.woken = TRUE]
                              ELSE [s EXCEPT !.mem.micro = TRUE]
<1>1. Good(Now) /\ Now \in States
  BY NowIs DEF Good
<1>2. Becomes(u) /\ faults' = faults
  BY DEF SendMessage
<1>3. /\ s \in States /\ s.rows = Append(Now.rows, NewRow) /\ s.agent = Now.agent
      /\ s.seen = Now.seen /\ s.box = Now.box
      /\ s.mem.flights = Now.mem.flights /\ s.mem.calls = Now.mem.calls
      /\ s.mem.mark = Now.mem.mark
  <2> DEFINE R == Append(Now.rows, NewRow)
             m == [Now.mem EXCEPT !.repoint = TRUE]
  <2>1. R \in Seq(Messages)
    <3>1. NewRow \in Messages
      BY DEF NewRow, Messages, Phases
    <3> QED BY <1>1, <3>1, Fields
  <2>2. /\ m \in Memories /\ m.flights = Now.mem.flights /\ m.calls = Now.mem.calls
        /\ m.mark = Now.mem.mark
    BY <1>1, Fields DEF Memories
  <2>3. s = [Now EXCEPT !.rows = R, !.mem = m]
    BY <1>1 DEF States
  <2> HIDE DEF R, m, s
  <2>4. LET v == [Now EXCEPT !.rows = R, !.mem = m] IN
        /\ v \in States /\ v.rows = R /\ v.mem = m
        /\ v.agent = Now.agent /\ v.seen = Now.seen /\ v.box = Now.box
    BY <1>1, <2>1, <2>2 DEF States
  <2> QED BY <2>2, <2>3, <2>4 DEF R
<1> HIDE DEF s
<1>4. Kept(Now, s)
  BY <1>1, <1>3, AppendKeeps
<1>5. Same(s, [s EXCEPT !.mem.micro = TRUE])
  BY <1>3, FlagsWritten
<1>6. Same(s, [s EXCEPT !.box.waiter = FALSE, !.box.woken = TRUE])
  BY <1>3 DEF States, Boxes, Same
<1>7. Kept(Now, u)
  BY <1>4, <1>5, <1>6, KeptThenSame
<1> HIDE DEF u
<1> QED BY <1>2, <1>7, StepKeeps

LEMMA RunMicrotaskStep ==
    ASSUME PointerInvariant, RunMicrotask
    PROVE  PointerInvariant'
<1> DEFINE s == [Now EXCEPT !.mem.micro = FALSE]
<1>1. Becomes(DeliverForHandle(s)) /\ faults' = faults
  BY DEF RunMicrotask
<1>2. Same(Now, s)
  BY NowIs, FlagsWritten DEF Good
<1> HIDE DEF s
<1>3. Kept(Now, s) /\ Good(s)
  BY <1>2, NowKept
<1>4. Kept(Now, DeliverForHandle(s))
  BY <1>3, DeliverForHandleKeeps, ThenOffers
<1> QED BY <1>1, <1>4, StepKeeps

LEMMA RepointTimerStep ==
    ASSUME PointerInvariant, RepointTimer
    PROVE  PointerInvariant'
<1> DEFINE s == [Now EXCEPT !.mem.repoint = FALSE]
<1>1. Becomes(DeliverForHandle(s)) /\ faults' = faults
  BY DEF RepointTimer
<1>2. Same(Now, s)
  BY NowIs, FlagsWritten DEF Good
<1> HIDE DEF s
<1>3. Kept(Now, s) /\ Good(s)
  BY <1>2, NowKept
<1>4. Kept(Now, DeliverForHandle(s))
  BY <1>3, DeliverForHandleKeeps, ThenOffers
<1> QED BY <1>1, <1>4, StepKeeps

LEMMA RecheckTimerStep ==
    ASSUME PointerInvariant, NEW p \in Panes, RecheckTimer(p)
    PROVE  PointerInvariant'
<1> DEFINE s == [Now EXCEPT !.mem.recheck = Now.mem.recheck \ {p}]
<1>1. Becomes(IF p \in mem.cold THEN s ELSE OfferMail(s, p)) /\ faults' = faults
  BY DEF RecheckTimer
<1>2. Same(Now, s)
  <2>1. Now \in States /\ Now.mem.recheck \ {p} \subseteq Panes
    BY NowIs, PanesOf DEF Good
  <2> QED BY <2>1, PanesWritten
<1> HIDE DEF s
<1>3. Kept(Now, s) /\ Good(s)
  BY <1>2, NowKept
<1>4. Kept(Now, OfferMail(s, p))
  BY <1>3, OfferMailKeeps, ThenOffers
<1> QED BY <1>1, <1>3, <1>4, StepKeeps

LEMMA CheckMailStep ==
    ASSUME PointerInvariant, NEW wait \in BOOLEAN, CheckMail(wait)
    PROVE  PointerInvariant'
<1> DEFINE s == ReadMail(Now)
           b == wait /\ s.box.outstanding = {}
           u == [s EXCEPT !.box.waiter = b]
<1>1. Becomes(u) /\ faults' = faults
  BY DEF CheckMail
<1>2. Same(Now, s) /\ s \in States
  BY NowIs, ReadMailKeeps DEF Good, Same
<1> HIDE DEF s
<1>3. b \in BOOLEAN
  OBVIOUS
<1> HIDE DEF b
<1>4. Same(s, u)
  BY <1>2, <1>3, BoxWritten
<1> HIDE DEF u
<1>5. Kept(Now, u)
  BY <1>2, <1>4, NowKept, KeptThenSame
<1> QED BY <1>1, <1>5, StepKeeps

LEMMA WokenCheckReadsStep ==
    ASSUME PointerInvariant, WokenCheckReads
    PROVE  PointerInvariant'
<1> DEFINE s == [Now EXCEPT !.box.woken = FALSE]
<1>1. Becomes(ReadMail(s)) /\ faults' = faults
  BY DEF WokenCheckReads
<1>2. Same(Now, s)
  BY NowIs, BoxWritten DEF Good
<1> HIDE DEF s
<1>3. Same(s, ReadMail(s))
  BY <1>2, ReadMailKeeps DEF Same
<1>4. Kept(Now, ReadMail(s))
  BY <1>2, <1>3, NowKept, KeptThenSame
<1> QED BY <1>1, <1>4, StepKeeps

LEMMA CheckTimesOutStep ==
    ASSUME PointerInvariant, CheckTimesOut
    PROVE  PointerInvariant'
<1> DEFINE s == [Now EXCEPT !.box.waiter = FALSE]
<1>1. Becomes(s) /\ faults' = faults
  BY DEF CheckTimesOut
<1>2. Same(Now, s)
  BY NowIs, BoxWritten DEF Good
<1> HIDE DEF s
<1> QED BY <1>1, <1>2, NowKept, StepKeeps

LEMMA AcknowledgeMailStep ==
    ASSUME PointerInvariant, AcknowledgeMail
    PROVE  PointerInvariant'
<1> DEFINE s == [Now EXCEPT !.box.outstanding = {}]
           u == Update(s, box.outstanding, LAMBDA row : TRUE, AsRead)
<1>1. Becomes(u) /\ faults' = faults
  BY DEF AcknowledgeMail
<1>2. Same(Now, s)
  BY NowIs, BoxWritten DEF Good
<1> HIDE DEF s
<1>3. Kept(Now, s) /\ Good(s)
  BY <1>2, NowKept
<1>4. Kept(s, u)
  BY <1>3, ReadRowsKeeps
<1> HIDE DEF u
<1>5. Kept(Now, u)
  BY <1>3, <1>4, KeptIsKept
<1> QED BY <1>1, <1>5, StepKeeps

LEMMA RebindStep ==
    ASSUME PointerInvariant, NEW p \in Panes, Rebind(p)
    PROVE  PointerInvariant'
<1> DEFINE u == [Now EXCEPT !.box.owner = p, !.box.outstanding = {}, !.box.waiter = FALSE,
                            !.seen.left = Now.seen.left \cup {box.owner}]
<1>1. Becomes(u) /\ faults < MaxFaults /\ faults' = faults + 1 /\ p # box.owner
  BY DEF Rebind, Mishap
<1>2. Good(Now) /\ Now \in States /\ Now.box = box /\ box.owner \in Panes
  BY NowIs, Fields DEF Good
<1>3. /\ u \in States /\ u.box.owner = p /\ u.rows = Now.rows /\ u.mem = Now.mem
      /\ u.agent = Now.agent
      /\ u.seen.typed = Now.seen.typed /\ u.seen.entered = Now.seen.entered
      /\ u.seen.twice = Now.seen.twice /\ u.seen.left = Now.seen.left \cup {box.owner}
  BY <1>2 DEF States, Boxes, Pasts
<1> HIDE DEF u
<1>4. Kept(Now, u)
  BY <1>1, <1>2, <1>3, OwnerLeaves
<1> QED BY <1>1, <1>4, StepKeeps

(***************************************************************************)
(* Answers and timers.                                                     *)
(***************************************************************************)

\* An answered call: its flight, if there still is one, waits for no other answer.
LEMMA AnsweredNow ==
    ASSUME PointerInvariant, NEW call \in mem.calls
    PROVE  LET t == Answered(Now, call)
               k == call.ticket IN
           /\ Kept(Now, t) /\ Good(t)
           /\ t.rows = Now.rows /\ t.agent = agent
           /\ k.to[1] = k.pane
           /\ IsCurrent(t, k) =>
                /\ \A c \in t.mem.calls : c.ticket # k
                /\ \A f \in t.mem.flights : ~f.submit
                /\ call.kind = "text" => \A i \in k.ids : t.rows[i].phase # "entered"
<1> DEFINE t == Answered(Now, call)
           k == call.ticket
<1>1. Good(Now) /\ call \in Now.mem.calls /\ Now.agent = agent
  BY NowIs
<1>2. /\ Good(t) /\ OnlyMemory(Now, t)
      /\ t.mem.flights = Now.mem.flights /\ t.mem.calls = Now.mem.calls \ {call}
  BY <1>1, AnsweredKeeps
<1> HIDE DEF t
<1>3. CallsAreSound(Now)
  BY <1>1 DEF Good, Sound
<1>4. k.to[1] = k.pane
  BY <1>1, <1>3 DEF CallsAreSound
<1>5. ASSUME IsCurrent(t, k)
      PROVE  /\ \A c \in t.mem.calls : c.ticket # k
             /\ \A f \in t.mem.flights : ~f.submit
             /\ call.kind = "text" => \A i \in k.ids : t.rows[i].phase # "entered"
  <2>1. PICK f \in Now.mem.flights : Now.mem.flights = {f} /\ Ticket(f) = k /\ k.ids = f.ids
    <3>1. IsCurrent(Now, k)
      BY <1>2, <1>5 DEF IsCurrent
    <3> QED BY <1>1, <3>1, CurrentIsOnly
  <2>2. \A c \in Now.mem.calls : c.ticket = k => c = call
    BY <1>1, <1>3, <2>1 DEF CallsAreSound
  <2>3. ~f.submit
    BY <1>1, <1>3, <2>1 DEF CallsAreSound
  <2>4. call.kind = "text" => \A i \in f.ids : Now.rows[i].phase # "entered"
    BY <1>1, <1>3, <2>1 DEF CallsAreSound
  <2> QED BY <1>2, <2>1, <2>2, <2>3, <2>4 DEF OnlyMemory
<1> QED BY <1>1, <1>2, <1>4, <1>5 DEF Kept, OnlyMemory, t

LEMMA TextSettlesStep ==
    ASSUME PointerInvariant, NEW call \in mem.calls,
           NEW outcome \in {"accepted", "refused", "unverifiable"}, TextSettles(call, outcome)
    PROVE  PointerInvariant'
<1> DEFINE t == Answered(Now, call)
           k == call.ticket
           u == IF ~IsCurrent(t, k) THEN t
                ELSE CASE outcome = "accepted" -> TextAccepted(t, k)
                       [] outcome = "refused" -> TextRefused(t, k)
                       [] OTHER -> Settle(DeactivateMark(t, k), k)
<1>1. /\ Becomes(u) /\ call.kind = "text"
      /\ faults' = faults \/ (faults < MaxFaults /\ faults' = faults + 1)
  BY DEF TextSettles, Mishap
<1>2. /\ Kept(Now, t) /\ Good(t)
      /\ IsCurrent(t, k) => /\ \A c \in t.mem.calls : c.ticket # k
                            /\ \A i \in k.ids : t.rows[i].phase # "entered"
  BY <1>1, AnsweredNow
<1> HIDE DEF t, k
<1>3. Kept(Now, u)
  <2>1. CASE ~IsCurrent(t, k)
    BY <1>2, <2>1
  <2>2. CASE IsCurrent(t, k)
    <3>1. Kept(t, TextAccepted(t, k)) /\ Kept(t, TextRefused(t, k))
          /\ Kept(t, Settle(DeactivateMark(t, k), k))
      BY <1>2, <2>2, TextAcceptedKeeps, TextRefusedKeeps, UndecidedKeeps
    <3>2. Kept(Now, TextAccepted(t, k)) /\ Kept(Now, TextRefused(t, k))
          /\ Kept(Now, Settle(DeactivateMark(t, k), k))
      BY <1>2, <3>1, KeptIsKept
    <3> QED BY <2>2, <3>2
  <2> QED BY <2>1, <2>2
<1> HIDE DEF u
<1> QED BY <1>1, <1>3, StepKeeps

LEMMA EnterTimerStep ==
    ASSUME PointerInvariant, NEW f \in mem.flights, EnterTimer(f)
    PROVE  PointerInvariant'
<1>1. Becomes(Submit(Now, f)) /\ faults' = faults /\ f.timer
  BY DEF EnterTimer
<1>2. Good(Now) /\ f \in Now.mem.flights
  BY NowIs
<1>3. \A c \in Now.mem.calls : c.ticket # Ticket(f)
  BY <1>1, <1>2, FlightStays
<1>4. Kept(Now, Submit(Now, f))
  BY <1>2, <1>3, SubmitKeeps DEF Kept, OnlyMemory
<1> QED BY <1>1, <1>4, StepKeeps

LEMMA ProbeAnswersStep ==
    ASSUME PointerInvariant, NEW call \in mem.calls, NEW absent \in BOOLEAN,
           ProbeAnswers(call, absent)
    PROVE  PointerInvariant'
<1> DEFINE t == Answered(Now, call)
           k == call.ticket
           a == agent[k.pane]
           u == IF absent THEN RollBack(t, k)
                ELSE IF ~IsCurrent(t, k) THEN t
                ELSE IF ~SameTarget(t, k) THEN RollBack(t, k)
                ELSE IF a.live /\ a.status = "neutral" THEN HoldUntilIdle(t, k)
                ELSE IF ~QueueSafe(t, k) \/ MustRelease(t, k.ids) THEN GiveUp(t, k, "written")
                ELSE IF ~Claimed(t, k) THEN Undecided(t, k)
                ELSE PressEnter(t, k)
<1>1. Becomes(u) /\ faults' = faults /\ (absent => ~agent[k.pane].alive)
  BY DEF ProbeAnswers
<1>2. /\ Kept(Now, t) /\ Good(t) /\ t.agent = agent /\ k.to[1] = k.pane
      /\ IsCurrent(t, k) => /\ \A c \in t.mem.calls : c.ticket # k
                            /\ \A f \in t.mem.flights : ~f.submit
  BY AnsweredNow
<1> HIDE DEF t, k
<1>3. ASSUME absent PROVE Kept(t, RollBack(t, k))
  <2>1. \A g \in t.mem.flights : t.agent[g.pane].alive
    BY <1>2 DEF Good, Sound, FlightIsSound
  <2>2. Alone(t, k)
    BY <1>1, <1>2, <1>3, <2>1 DEF Alone
  <2> QED BY <1>2, <2>2, RollBackKeeps
<1>4. ASSUME IsCurrent(t, k)
      PROVE  /\ Kept(t, RollBack(t, k)) /\ Kept(t, HoldUntilIdle(t, k))
             /\ Kept(t, GiveUp(t, k, "written")) /\ Kept(t, Undecided(t, k))
             /\ SameTarget(t, k) /\ Claimed(t, k) => Kept(t, PressEnter(t, k))
  <2>1. Alone(t, k)
    BY <1>2, <1>4, CurrentIsAlone
  <2>2. Kept(t, RollBack(t, k)) /\ Kept(t, HoldUntilIdle(t, k))
    BY <1>2, <1>4, <2>1, RollBackKeeps, HoldUntilIdleKeeps
  <2>3. Kept(t, GiveUp(t, k, "written")) /\ Kept(t, Undecided(t, k))
    BY <1>2, <1>4, GiveUpKeeps, UndecidedKeeps
  <2>4. SameTarget(t, k) /\ Claimed(t, k) => Kept(t, PressEnter(t, k))
    BY <1>2, <1>4, PressEnterKeeps
  <2> QED BY <2>2, <2>3, <2>4
<1>5. Kept(t, t)
  BY <1>2 DEF Kept
<1>6. Kept(t, u)
  BY <1>3, <1>4, <1>5
<1> HIDE DEF u
<1>7. Kept(Now, u)
  BY <1>2, <1>6, KeptIsKept
<1> QED BY <1>1, <1>7, StepKeeps

LEMMA EnterSettlesStep ==
    ASSUME PointerInvariant, NEW call \in mem.calls,
           NEW outcome \in {"accepted", "refused", "unverifiable"}, EnterSettles(call, outcome)
    PROVE  PointerInvariant'
<1> DEFINE t == Answered(Now, call)
           k == call.ticket
           u == IF ~IsCurrent(t, k) THEN t
                ELSE CASE outcome = "accepted" -> Submitted(t, k)
                       [] outcome = "refused" -> GiveUp(t, k, "entered")
                       [] OTHER -> Undecided(t, k)
<1>1. Becomes(u) /\ (faults' = faults \/ (faults < MaxFaults /\ faults' = faults + 1))
  BY DEF EnterSettles, Mishap
<1>2. Kept(Now, t) /\ Good(t)
  BY AnsweredNow
<1> HIDE DEF t, k
<1>3. Kept(Now, u)
  <2>1. CASE ~IsCurrent(t, k)
    BY <1>2, <2>1
  <2>2. CASE IsCurrent(t, k)
    <3>1. Kept(t, Submitted(t, k)) /\ Kept(t, GiveUp(t, k, "entered"))
          /\ Kept(t, Undecided(t, k))
      BY <1>2, <2>2, SubmittedKeeps, GiveUpKeeps, UndecidedKeeps
    <3>2. Kept(Now, Submitted(t, k)) /\ Kept(Now, GiveUp(t, k, "entered"))
          /\ Kept(Now, Undecided(t, k))
      BY <1>2, <3>1, KeptIsKept
    <3> QED BY <2>2, <3>2
  <2> QED BY <2>1, <2>2
<1> HIDE DEF u
<1> QED BY <1>1, <1>3, StepKeeps

(***************************************************************************)
(* The terminals' steps.                                                   *)
(***************************************************************************)

LEMMA StatusWritten ==
    ASSUME NEW t \in States, NEW p \in Panes, NEW status \in Statuses, NEW b \in BOOLEAN
    PROVE  /\ Same(t, [t EXCEPT !.agent[p].status = status, !.agent[p].live = TRUE,
                                !.agent[p].settled = b])
           /\ Same(t, [t EXCEPT !.agent[p].settled = b])
           /\ Same(t, [t EXCEPT !.agent[p].status = status, !.agent[p].settled = b])
<1> DEFINE a == [t.agent[p] EXCEPT !.status = status, !.live = TRUE, !.settled = b]
           c == [t.agent[p] EXCEPT !.settled = b]
           d == [t.agent[p] EXCEPT !.status = status, !.settled = b]
<1>1. t.agent \in [Panes -> Agents] /\ t.agent[p] \in Agents
  BY Fields
<1>2. /\ a \in Agents /\ a.alive = t.agent[p].alive /\ a.process = t.agent[p].process
      /\ c \in Agents /\ c.alive = t.agent[p].alive /\ c.process = t.agent[p].process
      /\ d \in Agents /\ d.alive = t.agent[p].alive /\ d.process = t.agent[p].process
  BY <1>1 DEF Agents
<1>3. /\ [t EXCEPT !.agent[p].status = status, !.agent[p].live = TRUE, !.agent[p].settled = b]
         = [t EXCEPT !.agent = [t.agent EXCEPT ![p] = a]]
      /\ [t EXCEPT !.agent[p].settled = b] = [t EXCEPT !.agent = [t.agent EXCEPT ![p] = c]]
      /\ [t EXCEPT !.agent[p].status = status, !.agent[p].settled = b]
         = [t EXCEPT !.agent = [t.agent EXCEPT ![p] = d]]
  BY <1>1 DEF States, Agents
<1> HIDE DEF a, c, d
<1>4. ASSUME NEW e \in Agents, e.alive = t.agent[p].alive, e.process = t.agent[p].process
      PROVE  Same(t, [t EXCEPT !.agent = [t.agent EXCEPT ![p] = e]])
  <2> DEFINE A == [t.agent EXCEPT ![p] = e]
  <2>1. /\ A \in [Panes -> Agents]
        /\ \A q \in Panes : A[q].alive = t.agent[q].alive /\ A[q].process = t.agent[q].process
    BY <1>1, <1>4
  <2> HIDE DEF A
  <2> DEFINE v == [t EXCEPT !.agent = A]
  <2>2. /\ v \in States /\ v.agent = A
        /\ v.rows = t.rows /\ v.mem = t.mem /\ v.box = t.box /\ v.seen = t.seen
    BY <2>1 DEF States
  <2> HIDE DEF v
  <2>3. Same(t, v)
    BY <2>1, <2>2 DEF Same
  <2> QED BY <2>3 DEF v, A
<1> QED BY <1>2, <1>3, <1>4

LEMMA TitleStep ==
    ASSUME PointerInvariant, NEW p \in Panes, NEW status \in Titles, NEW settled \in BOOLEAN,
           Title(p, status, settled)
    PROVE  PointerInvariant'
<1> DEFINE s == CASE status \in {"working", "permission"} -> ObserveWorking(Now, p)
                  [] status = "idle" -> ObserveIdle(Now, p)
                  [] OTHER -> Now
           t == [s EXCEPT !.agent[p].status = status, !.agent[p].live = TRUE,
                          !.agent[p].settled = settled]
<1>1. (Becomes(OfferMail(t, p)) \/ Becomes(t)) /\ faults' = faults
  BY DEF Title
<1>2. Kept(Now, s)
  <2>1. Good(Now)
    BY NowIs
  <2>2. Kept(Now, ObserveWorking(Now, p)) /\ Kept(Now, ObserveIdle(Now, p)) /\ Kept(Now, Now)
    BY <2>1, ObserveWorkingKeeps, ObserveIdleKeeps DEF Kept
  <2> QED BY <2>2
<1> HIDE DEF s
<1>3. Same(s, t)
  <2>1. s \in States /\ status \in Statuses
    BY <1>2, PointerAssumption DEF Kept, Good
  <2> QED BY <2>1, StatusWritten, Zenon
<1> HIDE DEF t
<1>4. Kept(Now, t)
  BY <1>2, <1>3, KeptThenSame
<1>5. Kept(Now, OfferMail(t, p))
  <2>1. Good(t)
    BY <1>4 DEF Kept
  <2> QED BY <1>4, <2>1, OfferMailKeeps, ThenOffers
<1> QED BY <1>1, <1>4, <1>5, StepKeeps

LEMMA FallsQuietStep ==
    ASSUME PointerInvariant, NEW p \in Panes, FallsQuiet(p)
    PROVE  PointerInvariant'
<1> DEFINE u == [Now EXCEPT !.agent[p].settled = TRUE]
<1>1. Becomes(u) /\ faults' = faults
  BY DEF FallsQuiet
<1>2. Same(Now, u)
  <2>1. "idle" \in Statuses /\ Now \in States
    BY NowIs DEF Statuses, Good
  <2> QED BY <2>1, StatusWritten, Zenon
<1> HIDE DEF u
<1> QED BY <1>1, <1>2, NowKept, StepKeeps

LEMMA ParkPaneStep ==
    ASSUME PointerInvariant, NEW p \in Panes, ParkPane(p)
    PROVE  PointerInvariant'
<1> DEFINE u == [Now EXCEPT !.mem.cold = Now.mem.cold \cup {p}]
<1>1. Becomes(u) /\ faults < MaxFaults /\ faults' = faults + 1
  BY DEF ParkPane, Mishap
<1>2. Same(Now, u)
  <2>1. Now \in States /\ Now.mem.cold \cup {p} \subseteq Panes
    BY NowIs, PanesOf DEF Good
  <2> QED BY <2>1, PanesWritten
<1> HIDE DEF u
<1> QED BY <1>1, <1>2, NowKept, StepKeeps

LEMMA UnparkPaneStep ==
    ASSUME PointerInvariant, NEW p \in Panes, UnparkPane(p)
    PROVE  PointerInvariant'
<1> DEFINE u == [Now EXCEPT !.mem.cold = Now.mem.cold \ {p}]
<1>1. /\ Becomes(IF agent[p].status = "idle" /\ agent[p].live THEN OfferMail(u, p) ELSE u)
      /\ faults' = faults
  BY DEF UnparkPane
<1>2. Same(Now, u)
  <2>1. Now \in States /\ Now.mem.cold \ {p} \subseteq Panes
    BY NowIs, PanesOf DEF Good
  <2> QED BY <2>1, PanesWritten
<1> HIDE DEF u
<1>3. Kept(Now, u) /\ Good(u)
  BY <1>2, NowKept
<1>4. Kept(Now, OfferMail(u, p))
  BY <1>3, OfferMailKeeps, ThenOffers
<1> QED BY <1>1, <1>3, <1>4, StepKeeps

\* A process that ends takes its pane's flight with it.
LEMMA ProcessExitsStep ==
    ASSUME PointerInvariant, NEW p \in Panes, ProcessExits(p)
    PROVE  PointerInvariant'
<1> DEFINE r == RetirePane(Now, p)
           b == (r.mem.repoint \/ box.owner = p)
           a == [r.agent[p] EXCEPT !.alive = FALSE, !.live = FALSE]
           A == [r.agent EXCEPT ![p] = a]
           m == [r.mem EXCEPT !.repoint = b]
           u == [r EXCEPT !.agent = A, !.mem = m]
<1>1. /\ Becomes([r EXCEPT !.agent[p].alive = FALSE, !.agent[p].live = FALSE,
                           !.mem.repoint = @ \/ box.owner = p])
      /\ agent[p].alive /\ faults < MaxFaults /\ faults' = faults + 1
  BY DEF ProcessExits, Mishap
<1>2. Good(Now) /\ Now.agent = agent /\ Now.box = box /\ faults \in 0..MaxFaults
  BY NowIs
<1>3. /\ Kept(Now, r) /\ r.agent = agent
      /\ \A g \in r.mem.flights : g.pane # p
  BY <1>2, RetirePaneKeeps
<1> HIDE DEF r
<1>4. r \in States /\ Good(r) /\ r.mem \in Memories /\ r.agent \in [Panes -> Agents]
      /\ r.agent[p] \in Agents
  BY <1>3, Fields DEF Kept, Good
<1>5. [r EXCEPT !.agent[p].alive = FALSE, !.agent[p].live = FALSE,
                !.mem.repoint = @ \/ box.owner = p] = u
  BY <1>4 DEF States, Agents, Memories
<1>6. b \in BOOLEAN
  BY <1>4 DEF Memories
<1> HIDE DEF b
<1>7. a \in Agents /\ ~a.alive /\ a.process = agent[p].process
  BY <1>3, <1>4 DEF Agents
<1> HIDE DEF a
<1>8. /\ A \in [Panes -> Agents] /\ A[p] = a
      /\ \A q \in Panes : q # p => A[q] = agent[q]
  BY <1>3, <1>4, <1>7
<1>9. /\ m \in Memories /\ m.flights = r.mem.flights /\ m.calls = r.mem.calls
      /\ m.mark = r.mem.mark
  BY <1>4, <1>6 DEF Memories
<1> HIDE DEF A, m
<1>10. /\ u \in States /\ u.agent = A /\ u.mem = m
       /\ u.rows = r.rows /\ u.box = r.box /\ u.seen = r.seen
  BY <1>4, <1>8, <1>9 DEF States
<1> HIDE DEF u
<1>11. \A q \in Panes : A[q].process = agent[q].process
  BY <1>7, <1>8
<1>12. \A f \in r.mem.flights : A[f.pane].alive /\ A[f.pane].process = agent[f.pane].process
  <2> SUFFICES ASSUME NEW f \in r.mem.flights
               PROVE  A[f.pane].alive /\ A[f.pane].process = agent[f.pane].process
    OBVIOUS
  <2>1. f.pane \in Panes
    BY <1>4, Fields DEF Flights
  <2>2. f.pane # p /\ agent[f.pane].alive
    BY <1>3, <1>4 DEF Good, Sound, FlightIsSound
  <2> QED BY <1>8, <2>1, <2>2
<1>13. Good(u)
  BY <1>3, <1>4, <1>9, <1>10, <1>11, <1>12, SuccessorKeeps
<1>14. ASSUME NEW q \in Panes
       PROVE  A[q].process + (IF A[q].alive THEN 0 ELSE 1) <= faults' + 1
  <2>1. agent[q] \in Agents /\ agent[q].process \in Int
    BY <1>3, <1>4 DEF Agents
  <2>2. agent[q].process + (IF agent[q].alive THEN 0 ELSE 1) <= faults + 1
    BY NowIs
  <2>3. faults \in Int /\ faults' = faults + 1
    BY <1>1, <1>2
  <2>4. CASE q = p
    BY <1>1, <1>7, <1>8, <2>1, <2>2, <2>3, <2>4
  <2>5. CASE q # p
    BY <1>8, <2>1, <2>2, <2>3, <2>5
  <2> QED BY <2>4, <2>5
<1>15. faults' \in 0..MaxFaults
  BY <1>1, <1>2, PointerAssumption
<1> QED BY <1>1, <1>5, <1>10, <1>13, <1>14, <1>15, StepIs

\* The process that follows it has a number of its own.
LEMMA ProcessRespawnsStep ==
    ASSUME PointerInvariant, NEW p \in Panes, NEW reset \in BOOLEAN, ProcessRespawns(p, reset)
    PROVE  PointerInvariant'
<1> DEFINE a == [agent[p] EXCEPT !.alive = TRUE, !.process = agent[p].process + 1]
           A == [agent EXCEPT ![p] = a]
           u == [Now EXCEPT !.agent = A]
           v == IF reset THEN [u EXCEPT !.agent[p].status = "neutral", !.agent[p].settled = FALSE]
                         ELSE u
<1>1. Good(Now) /\ Now \in States /\ Now.agent = agent /\ agent \in [Panes -> Agents]
      /\ agent[p] \in Agents /\ faults \in 0..MaxFaults
  BY NowIs, Fields DEF Good
<1>2. [Now EXCEPT !.agent[p].alive = TRUE, !.agent[p].process = @ + 1] = u
  BY <1>1 DEF States, Agents
<1>3. Becomes(v) /\ ~agent[p].alive /\ faults' = faults
  BY <1>2 DEF ProcessRespawns
<1>4. agent[p].process + 1 <= faults + 1 /\ agent[p].process \in 1..(MaxFaults + 1)
  BY <1>1, <1>3, NowIs DEF Agents
<1>5. agent[p].process + 1 \in 1..(MaxFaults + 1)
  BY <1>1, <1>4, PointerAssumption
<1>6. a \in Agents /\ a.alive /\ a.process = agent[p].process + 1
  BY <1>1, <1>5 DEF Agents
<1> HIDE DEF a
<1>7. /\ A \in [Panes -> Agents] /\ A[p] = a
      /\ \A q \in Panes : q # p => A[q] = agent[q]
  BY <1>1, <1>6
<1> HIDE DEF A
<1>8. /\ u \in States /\ u.agent = A /\ u.mem = Now.mem
      /\ u.rows = Now.rows /\ u.box = Now.box /\ u.seen = Now.seen
  BY <1>1, <1>7 DEF States
<1> HIDE DEF u
<1>9. \A q \in Panes : A[q].process = agent[q].process \/ A[q].process > agent[q].process
  BY <1>4, <1>6, <1>7
<1>10. \A f \in Now.mem.flights : A[f.pane].alive /\ A[f.pane].process = agent[f.pane].process
  <2> SUFFICES ASSUME NEW f \in Now.mem.flights
               PROVE  A[f.pane].alive /\ A[f.pane].process = agent[f.pane].process
    OBVIOUS
  <2>1. f.pane \in Panes
    BY <1>1, Fields DEF Flights
  <2>2. agent[f.pane].alive
    BY <1>1 DEF Good, Sound, FlightIsSound
  <2> QED BY <1>3, <1>7, <2>1, <2>2
<1>11. Good(u)
  BY <1>1, <1>8, <1>9, <1>10, SuccessorKeeps
<1>12. Same(u, v)
  <2>1. "neutral" \in Statuses
    BY DEF Statuses
  <2>2. Same(u, [u EXCEPT !.agent[p].status = "neutral", !.agent[p].settled = FALSE])
    BY <1>8, <2>1, StatusWritten, Zenon
  <2>3. Same(u, u)
    BY <1>8 DEF Same
  <2> QED BY <2>2, <2>3
<1> HIDE DEF v
<1>13. Good(v)
  BY <1>11, <1>12, SameKeeps
<1>14. ASSUME NEW q \in Panes
       PROVE  v.agent[q].process + (IF v.agent[q].alive THEN 0 ELSE 1) <= faults' + 1
  <2>1. agent[q] \in Agents /\ agent[q].process \in Int /\ agent[p].process \in Int
    BY <1>1 DEF Agents
  <2>2. agent[q].process + (IF agent[q].alive THEN 0 ELSE 1) <= faults + 1
    BY NowIs
  <2>3. faults \in Int /\ faults' = faults
    BY <1>1, <1>3
  <2>4. v.agent[q].process = A[q].process /\ v.agent[q].alive = A[q].alive
    BY <1>8, <1>12 DEF Same
  <2>5. CASE q = p
    BY <1>4, <1>6, <1>7, <2>1, <2>3, <2>4, <2>5
  <2>6. CASE q # p
    BY <1>7, <2>1, <2>2, <2>3, <2>4, <2>6
  <2> QED BY <2>5, <2>6
<1> QED BY <1>1, <1>3, <1>13, <1>14, StepIs

LEMMA RestartStep ==
    ASSUME PointerInvariant, Restart
    PROVE  PointerInvariant'
<1>1. Becomes(Restarted(Now)) /\ faults < MaxFaults /\ faults' = faults + 1
  BY DEF Restart, Mishap
<1>2. Kept(Now, Restarted(Now))
  BY NowIs, RestartedKeeps DEF Good, Sound
<1> QED BY <1>1, <1>2, StepKeeps

\* Killed while it stages, Orca leaves the rows reserved: they are new to the process.
LEMMA RestartWhileStagingStep ==
    ASSUME PointerInvariant, RestartWhileStaging
    PROVE  PointerInvariant'
<1> DEFINE s == [Now EXCEPT !.mem.micro = FALSE]
           t == DeliverForHandle(s)
           staged == UNION {c.ticket.ids : c \in {c \in t.mem.calls \ mem.calls : c.kind = "text"}}
           R == [i \in DOMAIN t.rows |->
                   IF i \in staged THEN [t.rows[i] EXCEPT !.phase = "reserved"] ELSE t.rows[i]]
           v == [t EXCEPT !.rows = R]
           w == [v EXCEPT !.seen = seen]
<1>1. faults < MaxFaults /\ faults' = faults + 1
  BY DEF RestartWhileStaging, Mishap
<1>2. Good(Now) /\ Now \in States /\ Now.mem = mem /\ Now.seen = seen /\ seen \in Pasts
  BY NowIs, Fields DEF Good
<1>3. Same(Now, s)
  BY <1>2, FlagsWritten
<1>4. Becomes(Restarted([t EXCEPT !.rows = R, !.seen = seen]))
  BY DEF RestartWhileStaging
<1> HIDE DEF s
<1>5. Kept(Now, s) /\ Good(s) /\ s.mem.calls = mem.calls /\ s.seen = seen
      /\ s.rows = Now.rows
  BY <1>2, <1>3, NowKept DEF Same
<1>6. Good(t) /\ Offers(s, t)
  BY <1>5, DeliverForHandleKeeps
<1> HIDE DEF t
<1>7. t \in States
  BY <1>6 DEF Good
<1>8. ASSUME NEW i \in DOMAIN t.rows, i \in staged
      PROVE  ~t.rows[i].read /\ t.rows[i].phase = "written"
  <2>1. PICK c \in t.mem.calls \ mem.calls : c.kind = "text" /\ i \in c.ticket.ids
    BY <1>8
  <2> QED BY <1>5, <1>6, <1>8, <2>1 DEF Offers
<1> HIDE DEF staged
<1>9. R \in [DOMAIN t.rows -> Messages]
  <2>1. ASSUME NEW i \in DOMAIN t.rows
        PROVE  t.rows[i] \in Messages /\ [t.rows[i] EXCEPT !.phase = "reserved"] \in Messages
    <3>1. t.rows[i] \in Messages
      BY <1>7, Fields
    <3> QED BY <3>1 DEF Messages, Phases
  <2> QED BY <2>1
<1>10. ASSUME NEW i \in DOMAIN t.rows
       PROVE  \/ i \notin staged /\ R[i] = t.rows[i]
              \/ /\ i \in staged
                 /\ R[i].phase = "reserved" /\ ~R[i].read /\ R[i].to = t.rows[i].to
                 /\ ~t.rows[i].read /\ t.rows[i].phase = "written"
  <2>1. t.rows[i] \in Messages
    BY <1>7, Fields
  <2>2. CASE i \in staged
    <3>1. R[i] = [t.rows[i] EXCEPT !.phase = "reserved"]
      BY <2>2
    <3> QED BY <1>8, <2>1, <2>2, <3>1 DEF Messages
  <2>3. CASE i \notin staged
    BY <2>3
  <2> QED BY <2>2, <2>3
<1> HIDE DEF R
<1>11. OnlyRows(t, v) /\ v.rows = R
  BY <1>7, <1>9, RowsWritten
<1>12. [t EXCEPT !.rows = R, !.seen = seen] = w
  OBVIOUS
<1> HIDE DEF v
<1>13. /\ w \in States /\ w.rows = R /\ w.mem = t.mem /\ w.agent = t.agent /\ w.box = t.box
       /\ w.seen = seen /\ DOMAIN w.rows = DOMAIN t.rows
  BY <1>2, <1>11 DEF OnlyRows, States
<1> HIDE DEF w
<1>14. RowsAreSound(w)
  <2>1. \A i \in DOMAIN w.rows :
          w.rows[i].phase # "none" => ~w.rows[i].read /\ w.rows[i].to \in Incarnations
    BY <1>6, <1>10, <1>13 DEF Good, Sound, RowsAreSound
  <2>2. Reserved(w) \subseteq Reserved(t) /\ \A i \in Reserved(w) : w.rows[i].to = t.rows[i].to
    BY <1>10, <1>13 DEF Reserved, Unread
  <2>3. RowsAreSound(t)
    BY <1>6 DEF Good, Sound
  <2> QED BY <1>7, <1>13, <2>1, <2>2, <2>3, FewerReserved DEF RowsAreSound
<1>15. /\ DOMAIN t.rows = DOMAIN s.rows /\ t.box.owner = s.box.owner
       /\ \A p \in Panes : t.agent[p].process = s.agent[p].process
       /\ t.seen.entered = seen.entered /\ t.seen.left = seen.left
  BY <1>5, <1>6 DEF Offers
<1>16. PastIsSound(w)
  <2>1. PastIsSound(s) /\ PastIsSound(t)
    BY <1>5, <1>6 DEF Good, Sound
  <2>2. \A x \in seen.typed : x[2][1] \in Panes
    BY <1>2 DEF Pasts, Incarnations
  <2>3. /\ w.seen.entered \subseteq w.seen.typed /\ ~w.seen.twice
        /\ \A x \in w.seen.typed :
             /\ x[1] \in DOMAIN w.rows
             /\ x[2][1] \in w.seen.left \cup {w.box.owner}
             /\ x[2][2] <= w.agent[x[2][1]].process
    BY <1>5, <1>13, <1>15, <2>1, <2>2 DEF PastIsSound
  <2>4. ASSUME w.box.owner \notin w.seen.left, NEW i \in DOMAIN w.rows,
               <<i, Process(w, w.box.owner)>> \in w.seen.entered
        PROVE  \/ w.rows[i].read
               \/ w.rows[i].phase = "none" /\ w.rows[i].delivered
               \/ w.rows[i].phase = "entered" /\ w.rows[i].to = Process(w, w.box.owner)
    <3>1. Process(w, w.box.owner) = Process(t, t.box.owner)
      BY <1>13 DEF Process
    <3>2. \/ t.rows[i].read
          \/ t.rows[i].phase = "none" /\ t.rows[i].delivered
          \/ t.rows[i].phase = "entered" /\ t.rows[i].to = Process(t, t.box.owner)
      BY <1>13, <1>15, <2>1, <2>4, <3>1 DEF PastIsSound
    <3> QED BY <1>10, <1>13, <3>1, <3>2
  <2> QED BY <2>3, <2>4 DEF PastIsSound
<1>17. Kept(w, Restarted(w))
  BY <1>13, <1>14, <1>16, RestartedKeeps
<1>18. Kept(Now, Restarted(w))
  BY <1>5, <1>6, <1>13, <1>17 DEF Kept, Offers
<1> QED BY <1>1, <1>4, <1>12, <1>18, StepKeeps

(***************************************************************************)
(* The invariant and what follows from it.                                 *)
(***************************************************************************)

LEMMA InitHolds ==
    ASSUME Init
    PROVE  PointerInvariant
<1>1. /\ Now \in States
  <2>1. EmptyMemory \in Memories
    BY DEF EmptyMemory, Memories
  <2>2. agent \in [Panes -> Agents]
    <3>1. 1 \in 1..(MaxFaults + 1) /\ "neutral" \in Statuses
      BY PointerAssumption DEF Statuses
    <3> QED BY <3>1 DEF Init, Agents
  <2>3. box \in Boxes /\ seen \in Pasts
    BY DEF Init, Boxes, Pasts
  <2>4. rows \in Seq(Messages)
    BY DEF Init
  <2> QED BY <2>1, <2>2, <2>3, <2>4 DEF Init, Now, States
<1>2. mem.flights = {} /\ mem.calls = {} /\ mem.mark = {} /\ rows = <<>> /\ faults = 0
      /\ seen.typed = {} /\ seen.entered = {} /\ ~seen.twice
  BY DEF Init, EmptyMemory
<1>3. DOMAIN rows = {}
  BY <1>2
<1>4. /\ Now.rows = rows /\ Now.mem = mem /\ Now.agent = agent /\ Now.box = box
      /\ Now.seen = seen
  BY NowIs
<1>5. OnePointer(Now) /\ FlightIsSound(Now) /\ CallsAreSound(Now)
  BY <1>2, <1>4 DEF OnePointer, FlightIsSound, CallsAreSound
<1>6. RowsAreSound(Now)
  <2>1. Reserved(Now) = {}
    BY <1>3, <1>4 DEF Reserved, Unread
  <2>2. Cardinality({}) = 0
    BY FS_EmptySet
  <2> QED BY <1>3, <1>4, <2>1, <2>2, PointerAssumption DEF RowsAreSound
<1>7. PastIsSound(Now)
  BY <1>2, <1>4 DEF PastIsSound
<1>8. IsFiniteSet(mem.calls) /\ faults \in 0..MaxFaults
  BY <1>2, FS_EmptySet, PointerAssumption
<1>9. \A p \in Panes : agent[p].process + (IF agent[p].alive THEN 0 ELSE 1) <= faults + 1
  BY <1>2 DEF Init
<1> QED BY <1>1, <1>5, <1>6, <1>7, <1>8, <1>9 DEF PointerInvariant, TypeOK, Sound

LEMMA StutterHolds ==
    ASSUME PointerInvariant, UNCHANGED vars
    PROVE  PointerInvariant'
<1>1. Kept(Now, Now) /\ Becomes(Now) /\ faults' = faults
  BY NowIs DEF vars, Kept, Becomes
<1> QED BY <1>1, StepKeeps

LEMMA NextHolds ==
    ASSUME PointerInvariant, Next
    PROVE  PointerInvariant'
<1>1. CASE SendMessage BY <1>1, SendMessageStep
<1>2. CASE RunMicrotask BY <1>2, RunMicrotaskStep
<1>3. CASE RepointTimer BY <1>3, RepointTimerStep
<1>4. CASE \E wait \in BOOLEAN : CheckMail(wait) BY <1>4, CheckMailStep
<1>5. CASE WokenCheckReads BY <1>5, WokenCheckReadsStep
<1>6. CASE CheckTimesOut BY <1>6, CheckTimesOutStep
<1>7. CASE AcknowledgeMail BY <1>7, AcknowledgeMailStep
<1>8. CASE \E call \in mem.calls : WriteSettles(call)
  BY <1>8, TextSettlesStep, EnterSettlesStep DEF WriteSettles
<1>9. CASE \E call \in mem.calls : ProbeSettles(call)
  BY <1>9, ProbeAnswersStep DEF ProbeSettles
<1>10. CASE \E f \in mem.flights : EnterTimer(f) BY <1>10, EnterTimerStep
<1>11. CASE \E p \in Panes : RecheckTimer(p) BY <1>11, RecheckTimerStep
<1>12. CASE \E p \in Panes : Rebind(p) BY <1>12, RebindStep
<1>13. CASE \E p \in Panes : \E status \in Titles, settled \in BOOLEAN : Title(p, status, settled)
  BY <1>13, TitleStep
<1>14. CASE \E p \in Panes : FallsQuiet(p) BY <1>14, FallsQuietStep
<1>15. CASE \E p \in Panes : ParkPane(p) BY <1>15, ParkPaneStep
<1>16. CASE \E p \in Panes : UnparkPane(p) BY <1>16, UnparkPaneStep
<1>17. CASE \E p \in Panes : ProcessExits(p) BY <1>17, ProcessExitsStep
<1>18. CASE \E p \in Panes : \E reset \in BOOLEAN : ProcessRespawns(p, reset)
  BY <1>18, ProcessRespawnsStep
<1>19. CASE Restart BY <1>19, RestartStep
<1>20. CASE RestartWhileStaging BY <1>20, RestartWhileStagingStep
<1> QED BY <1>1, <1>2, <1>3, <1>4, <1>5, <1>6, <1>7, <1>8, <1>9, <1>10, <1>11, <1>12, <1>13,
           <1>14, <1>15, <1>16, <1>17, <1>18, <1>19, <1>20 DEF Next

\* The inductive invariant: at most one pointer is on its way, its rows and its watermark stay its
\* own until it ends, it waits for one thing at a time, and rows in doubt are one batch for one
\* process, whatever timers, answers, exits and restarts do (mailbox-pointer-delivery.ts,
\* db/messages/mailbox-pointer-enter-state.ts).
THEOREM PointerInvariantHolds == Spec => []PointerInvariant
<1>1. Init => PointerInvariant
  BY InitHolds
<1>2. PointerInvariant /\ [Next]_vars => PointerInvariant'
  BY NextHolds, StutterHolds
<1> QED BY <1>1, <1>2, PTL DEF Spec

\* Enter is pressed only into the process whose composer holds the pointer: retirePty ends the
\* flight with the process, and the probe compares the incarnation before each Enter
\* (mailbox-pointer-submit.ts).
THEOREM EnterFollowsItsTextHolds == Spec => []EnterFollowsItsText
<1>1. PointerInvariant => EnterFollowsItsText
  BY NowIs DEF PointerInvariant, Sound, PastIsSound, EnterFollowsItsText
<1> QED BY <1>1, PointerInvariantHolds, PTL

\* Enter is pressed at most once for a message in one process of a pane the Run never left: what
\* was entered is read, delivered or still marked entered for that process, so that it is never
\* typed again (the phases of db/messages/mailbox-pointer-enter-state.ts).
THEOREM EnterNeverTwiceHolds == Spec => []EnterNeverTwice
<1>1. PointerInvariant => EnterNeverTwice
  BY NowIs DEF PointerInvariant, Sound, PastIsSound, EnterNeverTwice
<1> QED BY <1>1, PointerInvariantHolds, PTL

\* What a flight has typed stays reserved for it while it may yet press Enter: the watermark keeps
\* every other delivery out (OrchestrationMailboxPointerState.releaseSupersededWatermark), and a
\* handler gives back only its own rows.
THEOREM FlightKeepsItsRowsHolds == Spec => []FlightKeepsItsRows
<1>1. PointerInvariant => FlightKeepsItsRows
  BY NowIs DEF PointerInvariant, Sound, FlightIsSound, FlightKeepsItsRows
<1> QED BY <1>1, PointerInvariantHolds, PTL
=============================================================================
