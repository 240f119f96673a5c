-------------------------- MODULE DenialLog_proofs --------------------------
(***************************************************************************)
(* Proofs about the account of the denials.  First what a sum over the     *)
(* actors does when one of them moves; then the inductive invariant        *)
(* DenialIInv in two parts, the shape of the shutdown and the sums.        *)
(***************************************************************************)
EXTENDS DenialLog, FiniteSetTheorems, TLAPS

USE DenialAssumption
USE DEF window, shutdown, tallies, Actors, Stoppers

-----------------------------------------------------------------------------
(***************************************************************************)
(* Sums over the actors.                                                   *)
(***************************************************************************)
Finite(n) == n \in [Actors -> Nat] /\ IsFiniteSet(Pile(n))

LEMMA PileElement ==
    ASSUME NEW n, NEW x
    PROVE  x \in Pile(n) <=> \E a \in Actors : \E i \in 1..n[a] : x = <<a, i>>
  BY DEF Pile

LEMMA Apart == Serve \notin Callers /\ Closer \notin Callers /\ Serve # Closer
  OBVIOUS

LEMMA ActorsAreFinite == IsFiniteSet(Actors) /\ IsFiniteSet(Callers)
<1>1. IsFiniteSet({Serve}) /\ IsFiniteSet({Closer})
  BY FS_Singleton
<1>2. IsFiniteSet({Serve} \cup {Closer})
  BY <1>1, FS_Union
<1>3. IsFiniteSet(Callers \cup ({Serve} \cup {Closer}))
  BY <1>2, FS_Union
<1>4. Callers \cup ({Serve} \cup {Closer}) = Actors
  OBVIOUS
<1> QED
  BY <1>3, <1>4

\* The part of one actor in a sum.
LEMMA Column ==
    ASSUME NEW a, NEW k \in Nat
    PROVE  IsFiniteSet({a} \X (1..k)) /\ Cardinality({a} \X (1..k)) = k
<1>1. IsFiniteSet({a}) /\ Cardinality({a}) = 1
  BY FS_Singleton
<1>2. IsFiniteSet(1..k) /\ Cardinality(1..k) = k
  BY FS_Interval
<1>3. IsFiniteSet({a} \X (1..k)) /\ Cardinality({a} \X (1..k)) = 1 * k
  BY <1>1, <1>2, FS_Product
<1> QED
  BY <1>3

LEMMA TotalIsNat ==
    ASSUME NEW n, Finite(n)
    PROVE  Total(n) \in Nat
  BY FS_CardinalityType DEF Finite, Total

LEMMA TotalMoves ==
    ASSUME NEW n, Finite(n), NEW a \in Actors, NEW m \in Nat
    PROVE  /\ Finite([n EXCEPT ![a] = m])
           /\ Total([n EXCEPT ![a] = m]) = Total(n) - n[a] + m
<1> DEFINE new == [n EXCEPT ![a] = m]
           Own(k) == {a} \X (1..k)
           Rest == Pile(n) \ Own(n[a])
<1>1. n \in [Actors -> Nat] /\ n[a] \in Nat /\ new \in [Actors -> Nat]
  BY DEF Finite
<1>2. IsFiniteSet(Own(n[a])) /\ Cardinality(Own(n[a])) = n[a]
  BY <1>1, Column
<1>3. IsFiniteSet(Own(m)) /\ Cardinality(Own(m)) = m
  BY Column
<1>4. IsFiniteSet(Rest)
  BY FS_Difference DEF Finite
<1>5. Pile(n) = Rest \cup Own(n[a])
  <2>1. Own(n[a]) \subseteq Pile(n)
    BY DEF Pile
  <2> QED
    BY <2>1
<1>6. Pile(new) = Rest \cup Own(m)
  <2>1. ASSUME NEW x \in Pile(new)
        PROVE  x \in Rest \cup Own(m)
    <3>1. PICK b \in Actors : \E i \in 1..new[b] : x = <<b, i>>
      BY <2>1, PileElement
    <3>2. CASE b = a
      BY <3>1, <3>2, <1>1
    <3>3. CASE b # a
      <4>1. new[b] = n[b]
        BY <3>3, <1>1
      <4>2. x \in Pile(n)
        BY <3>1, <4>1, PileElement
      <4> QED
        BY <3>1, <3>3, <4>2
    <3> QED
      BY <3>2, <3>3
  <2>2. ASSUME NEW x \in Rest
        PROVE  x \in Pile(new)
    <3>1. PICK b \in Actors : \E i \in 1..n[b] : x = <<b, i>>
      BY <2>2, PileElement
    <3>2. b # a
      BY <3>1, <2>2
    <3>3. new[b] = n[b]
      BY <3>2, <1>1
    <3> QED
      BY <3>1, <3>3, PileElement
  <2>3. Own(m) \subseteq Pile(new)
    <3>1. new[a] = m
      BY <1>1
    <3> QED
      BY <3>1 DEF Pile
  <2> QED
    BY <2>1, <2>2, <2>3
<1>7. Rest \cap Own(n[a]) = {} /\ Rest \cap Own(m) = {}
  <2>1. ASSUME NEW x \in Rest, x \in Own(m)
        PROVE  FALSE
    <3>1. PICK b \in Actors : \E i \in 1..n[b] : x = <<b, i>>
      BY <2>1, PileElement
    <3>2. b = a
      BY <3>1, <2>1
    <3> QED
      BY <3>1, <3>2, <2>1
  <2> QED
    BY <2>1
<1>8. Cardinality({}) = 0
  BY FS_EmptySet
<1>9. Cardinality(Pile(n)) = Cardinality(Rest) + n[a]
  <2>1. Cardinality(Rest \cup Own(n[a])) = Cardinality(Rest) + Cardinality(Own(n[a])) - Cardinality(Rest \cap Own(n[a]))
    BY <1>2, <1>4, FS_Union
  <2>2. Cardinality(Rest) \in Nat
    BY <1>4, FS_CardinalityType
  <2>3. Cardinality(Rest \cap Own(n[a])) = 0
    BY <1>7, <1>8
  <2>4. Cardinality(Rest \cup Own(n[a])) = Cardinality(Rest) + n[a]
    BY <2>1, <2>2, <2>3, <1>1, <1>2
  <2> QED
    BY <2>4, <1>5
<1>10. IsFiniteSet(Pile(new)) /\ Cardinality(Pile(new)) = Cardinality(Rest) + m
  <2>1. /\ IsFiniteSet(Rest \cup Own(m))
        /\ Cardinality(Rest \cup Own(m)) = Cardinality(Rest) + Cardinality(Own(m)) - Cardinality(Rest \cap Own(m))
    BY <1>3, <1>4, FS_Union
  <2>2. Cardinality(Rest) \in Nat
    BY <1>4, FS_CardinalityType
  <2>3. Cardinality(Rest \cap Own(m)) = 0
    BY <1>7, <1>8
  <2>4. Cardinality(Rest \cup Own(m)) = Cardinality(Rest) + m
    BY <2>1, <2>2, <2>3, <1>3
  <2> QED
    BY <2>1, <2>4, <1>6
<1>11. Cardinality(Rest) \in Nat
  BY <1>4, FS_CardinalityType
<1> HIDE DEF Rest, Own
<1> QED
  BY <1>1, <1>9, <1>10, <1>11 DEF Finite, Total

LEMMA TotalIsZero ==
    ASSUME NEW n, Finite(n)
    PROVE  Total(n) = 0 <=> \A a \in Actors : n[a] = 0
<1>1. Total(n) = 0 <=> Pile(n) = {}
  BY FS_EmptySet DEF Finite, Total
<1>2. ASSUME Pile(n) = {}, NEW a \in Actors
      PROVE  n[a] = 0
  <2>1. n[a] \in Nat
    BY DEF Finite
  <2>2. n[a] > 0 => <<a, 1>> \in Pile(n)
    BY <2>1, PileElement
  <2> QED
    BY <1>2, <2>1, <2>2
<1>3. ASSUME \A a \in Actors : n[a] = 0, NEW x \in Pile(n)
      PROVE  FALSE
  <2>1. PICK a \in Actors : \E i \in 1..n[a] : x = <<a, i>>
    BY <1>3, PileElement
  <2> QED
    BY <2>1, <1>3
<1> QED
  BY <1>1, <1>2, <1>3

\* A sum of nothing, and a sum of bounded parts.
LEMMA SmallTotalIsFinite ==
    ASSUME NEW n \in [Actors -> 0..2]
    PROVE  Finite(n)
<1>1. PICK k \in Nat : k = 2
  OBVIOUS
<1>2. IsFiniteSet(1..k)
  BY FS_Interval
<1>3. IsFiniteSet(Actors \X (1..k))
  BY <1>2, ActorsAreFinite, FS_Product
<1>4. Pile(n) \in SUBSET (Actors \X (1..k))
  <2>1. ASSUME NEW x \in Pile(n)
        PROVE  x \in Actors \X (1..k)
    <3>1. PICK a \in Actors : \E i \in 1..n[a] : x = <<a, i>>
      BY <2>1, PileElement
    <3>2. PICK i \in 1..n[a] : x = <<a, i>>
      BY <3>1
    <3>3. n[a] \in 0..k
      BY <1>1
    <3>4. i \in 1..k
      BY <3>2, <3>3
    <3> QED
      BY <3>2, <3>4
  <2> QED
    BY <2>1
<1>5. IsFiniteSet(Pile(n))
  BY <1>3, <1>4, FS_Subset
<1> QED
  BY <1>5 DEF Finite

-----------------------------------------------------------------------------
(***************************************************************************)
(* What the place of an actor says: the tickets it holds, and whether its  *)
(* own denial is still to be written.                                      *)
(***************************************************************************)
Writing == {"append", "record", "summary", "summarise"}
Due(a, w) ==
    CASE w \in {"decide", "record", "last"} -> 1
      [] w \in {"account", "summary", "summarise", "append", "leave"} ->
             IF a = Serve THEN 1 ELSE 2
      [] OTHER -> 0
Owes(a, w) == IF a \in Callers /\ w \in Writing THEN 1 ELSE 0
TicketsOf == [a \in Actors |-> Tickets(a)]

LEMMA DueIsSmall ==
    ASSUME NEW a, NEW w
    PROVE  Due(a, w) \in 0..2
  BY DEF Due

LEMMA TicketsAreDue == TicketsOf = [a \in Actors |-> Due(a, pc[a])]
  BY DEF TicketsOf, Tickets, Due

LEMMA TicketsAreFinite == Finite(TicketsOf)
<1>1. TicketsOf \in [Actors -> 0..2]
  BY TicketsAreDue, DueIsSmall
<1> QED
  BY <1>1, SmallTotalIsFinite

LEMMA UnwrittenIsFinite == IsFiniteSet(Unwritten) /\ Cardinality(Unwritten) \in Nat
<1>1. Unwritten \in SUBSET Callers
  BY DEF Unwritten
<1> QED
  BY <1>1, ActorsAreFinite, FS_Subset, FS_CardinalityType

\* Actor a moves to w.
LEMMA TicketsMove ==
    ASSUME NEW a \in Actors, NEW w, pc \in [Actors -> Steps], pc' = [pc EXCEPT ![a] = w]
    PROVE  Total(TicketsOf)' = Total(TicketsOf) - Due(a, pc[a]) + Due(a, w)
<1>1. TicketsOf' = [b \in Actors |-> Due(b, pc'[b])]
  BY DEF TicketsOf, Tickets, Due
<1>2. TicketsOf' = [TicketsOf EXCEPT ![a] = Due(a, w)]
  <2>1. \A b \in Actors : pc'[b] = IF b = a THEN w ELSE pc[b]
    OBVIOUS
  <2> QED
    BY <1>1, <2>1, TicketsAreDue
<1>3. Due(a, w) \in Nat
  BY DueIsSmall
<1>4. TicketsOf[a] = Due(a, pc[a])
  BY TicketsAreDue
<1>5. Total(TicketsOf)' = Total(TicketsOf')
  BY DEF Total, Pile
<1>6. Total([TicketsOf EXCEPT ![a] = Due(a, w)]) = Total(TicketsOf) - TicketsOf[a] + Due(a, w)
  BY <1>3, TicketsAreFinite, TotalMoves
<1> QED
  BY <1>2, <1>4, <1>5, <1>6

LEMMA UnwrittenMoves ==
    ASSUME NEW a \in Actors, NEW w, pc \in [Actors -> Steps], pc' = [pc EXCEPT ![a] = w]
    PROVE  Cardinality(Unwritten)' = Cardinality(Unwritten) - Owes(a, pc[a]) + Owes(a, w)
<1>0. \A b \in Actors : pc'[b] = IF b = a THEN w ELSE pc[b]
  OBVIOUS
<1>1. Unwritten' = {b \in Callers : Owes(b, pc'[b]) = 1} /\ Unwritten = {b \in Callers : Owes(b, pc[b]) = 1}
  BY DEF Unwritten, Owes, Writing
<1>a. \A b \in Actors : \A v : Owes(b, v) \in {0, 1} /\ (b \notin Callers => Owes(b, v) = 0)
  BY DEF Owes
<1>b. a \in Unwritten <=> Owes(a, pc[a]) = 1
  BY <1>1, <1>a
<1>c. Cardinality(Unwritten)' = Cardinality(Unwritten')
  OBVIOUS
<1>d. Cardinality(Unwritten) \in Nat
  BY UnwrittenIsFinite
<1>2. CASE Owes(a, w) = 1
  <2>1. Unwritten' = Unwritten \cup {a}
    BY <1>0, <1>1, <1>2, <1>a
  <2>2. Cardinality(Unwritten \cup {a}) = IF a \in Unwritten THEN Cardinality(Unwritten) ELSE Cardinality(Unwritten) + 1
    BY UnwrittenIsFinite, FS_AddElement
  <2>3. Owes(a, pc[a]) \in {0, 1}
    BY <1>a
  <2> QED
    BY <1>2, <1>b, <1>d, <2>1, <2>2, <2>3
<1>3. CASE Owes(a, w) = 0
  <2>1. Unwritten' = Unwritten \ {a}
    BY <1>0, <1>1, <1>3, <1>a
  <2>2. Cardinality(Unwritten \ {a}) = IF a \in Unwritten THEN Cardinality(Unwritten) - 1 ELSE Cardinality(Unwritten)
    BY UnwrittenIsFinite, FS_RemoveElement
  <2>3. Owes(a, pc[a]) \in {0, 1}
    BY <1>a
  <2> QED
    BY <1>3, <1>b, <1>d, <2>1, <2>2, <2>3
<1> QED
  BY <1>2, <1>3, <1>a

\* Actor a takes or gives up a count.
LEMMA PoppedMoves ==
    ASSUME NEW a \in Actors, NEW m \in Nat, Finite(held), held' = [held EXCEPT ![a] = m]
    PROVE  Finite(held)' /\ Popped' = Popped - held[a] + m
<1>1. Finite(held') /\ Total(held') = Total(held) - held[a] + m
  BY TotalMoves
<1>2. Finite(held)' = Finite(held') /\ Popped' = Total(held') /\ Popped = Total(held)
  BY DEF Popped, Finite, Total, Pile
<1> QED
  BY <1>1, <1>2

LEMMA PoppedStays ==
    ASSUME Finite(held), UNCHANGED held
    PROVE  Finite(held)' /\ Popped' = Popped
<1>1. held' = held
  OBVIOUS
<1>2. Finite(held)' = Finite(held') /\ Popped' = Total(held') /\ Popped = Total(held)
  BY DEF Popped, Finite, Total, Pile
<1> QED
  BY <1>1, <1>2

-----------------------------------------------------------------------------
(***************************************************************************)
(* The invariant.  ClosedIsComplete is not inductive: it has to be known   *)
(* that a closed log without tickets lets nobody take one, for which the   *)
(* tickets have to be those of the threads, and that nobody drains twice,  *)
(* or the second drain would clear overran.                                *)
(***************************************************************************)
CallerPlaces == {"idle", "decide", "account", "last", "leave"} \cup Writing
StopPlaces == {"start", "drain", "wait", "close", "done"}
Places ==
    /\ \A c \in Callers : pc[c] \in CallerPlaces
    /\ pc[Serve] \in {"loop", "summary", "summarise", "leave"} \cup StopPlaces
    /\ pc[Closer] \in {"idle"} \cup StopPlaces

\* A count taken out of a window is held only on the way to its summary.
HeldByWriters == \A a \in Actors : held[a] > 0 => pc[a] \in {"summary", "summarise"}

OneDrains ==
    /\ \A s \in Stoppers : pc[s] = "drain" => draining /\ ~closed
    /\ \A s, t \in Stoppers : pc[s] = "drain" /\ pc[t] = "drain" => s = t

ClosedFirst ==
    /\ \A s \in Stoppers : pc[s] = "close" => closed
    /\ ~fileOpen => closed
    /\ overran => closed

Shape == TypeOK /\ Places /\ HeldByWriters /\ Finite(held) /\ OneDrains /\ ClosedFirst

TicketsCounted == inflight = Total(TicketsOf)
NothingAfterClose == closed /\ ~overran => inflight = 0 /\ suppressed = 0
Sums == TicketsCounted /\ NothingAfterClose /\ AllAccounted

DenialIInv == Shape /\ Sums

-----------------------------------------------------------------------------
(***************************************************************************)
(* The shape is kept by every step.                                        *)
(***************************************************************************)
Frame == Places /\ HeldByWriters /\ OneDrains /\ ClosedFirst

\* Actor a moves to w, with h held; the shutdown is as it was.
LEMMA FrameMoves ==
    ASSUME Shape, NEW a \in Actors, NEW w \in Steps, NEW h \in Nat,
           pc' = [pc EXCEPT ![a] = w], held' = [held EXCEPT ![a] = h],
           h > 0 => w \in {"summary", "summarise"},
           a \in Callers => w \in CallerPlaces,
           a = Serve => w \in {"loop", "summary", "summarise", "leave", "start"},
           a = Closer => w = "start",
           UNCHANGED shutdown
    PROVE  Frame'
<1> USE DEF Shape, TypeOK, Steps
<1>0. /\ \A b \in Actors : pc'[b] = IF b = a THEN w ELSE pc[b]
      /\ \A b \in Actors : held'[b] = IF b = a THEN h ELSE held[b]
  OBVIOUS
<1>1. Places'
  BY <1>0 DEF Places, CallerPlaces, StopPlaces
<1>2. HeldByWriters'
  BY <1>0 DEF HeldByWriters
<1>3. OneDrains'
  BY <1>0 DEF OneDrains, CallerPlaces, Writing
<1>4. ClosedFirst'
  BY <1>0 DEF ClosedFirst, CallerPlaces, Writing
<1> QED
  BY <1>1, <1>2, <1>3, <1>4 DEF Frame

\* The same without a change of what is held.
LEMMA FrameWalks ==
    ASSUME Shape, NEW a \in Actors, NEW w \in Steps,
           pc' = [pc EXCEPT ![a] = w], UNCHANGED held,
           held[a] > 0 => w \in {"summary", "summarise"},
           a \in Callers => w \in CallerPlaces,
           a = Serve => w \in {"loop", "summary", "summarise", "leave", "start"},
           a = Closer => w = "start",
           UNCHANGED shutdown
    PROVE  Frame'
<1>1. held[a] \in Nat /\ held' = [held EXCEPT ![a] = held[a]]
  BY DEF Shape, TypeOK
<1> QED
  BY <1>1, FrameMoves

\* A caller, with its summary behind it or not begun.
LEMMA CallerWalks ==
    ASSUME Shape, NEW c \in Callers, NEW w \in CallerPlaces, held[c] = 0,
           pc' = [pc EXCEPT ![c] = w], UNCHANGED <<held, shutdown>>
    PROVE  Frame'
<1>1. w \in Steps
  BY DEF CallerPlaces, Writing, Steps
<1>2. c # Serve /\ c # Closer /\ ~ held[c] > 0
  BY Apart
<1> QED
  BY <1>1, <1>2, FrameWalks

LEMMA CallerMoves ==
    ASSUME Shape, NEW c \in Callers, NEW w \in CallerPlaces, NEW h \in Nat,
           h > 0 => w \in {"summary", "summarise"},
           pc' = [pc EXCEPT ![c] = w], held' = [held EXCEPT ![c] = h], UNCHANGED shutdown
    PROVE  Frame'
<1>1. w \in Steps
  BY DEF CallerPlaces, Writing, Steps
<1>2. c # Serve /\ c # Closer
  BY Apart
<1> QED
  BY <1>1, <1>2, FrameMoves

LEMMA ServeMoves ==
    ASSUME Shape, NEW w \in {"loop", "summary", "summarise", "leave", "start"}, NEW h \in Nat,
           h > 0 => w \in {"summary", "summarise"},
           pc' = [pc EXCEPT ![Serve] = w], held' = [held EXCEPT ![Serve] = h], UNCHANGED shutdown
    PROVE  Frame'
<1>1. w \in Steps
  BY DEF Steps
<1>2. Serve \notin Callers /\ Serve # Closer
  BY Apart
<1> QED
  BY <1>1, <1>2, FrameMoves

\* Either, with nothing in its hands.
LEMMA WriterEnds ==
    ASSUME Shape, NEW a \in Callers \cup {Serve}, NEW w \in Steps,
           a \in Callers => w \in CallerPlaces, a = Serve => w \in {"loop", "leave"},
           pc' = [pc EXCEPT ![a] = w], held' = [held EXCEPT ![a] = 0], UNCHANGED shutdown
    PROVE  Frame'
<1>1. PICK h \in Nat : h = 0
  OBVIOUS
<1>2. ~ h > 0 /\ held' = [held EXCEPT ![a] = h]
  BY <1>1
<1>3. CASE a \in Callers
  BY <1>2, <1>3, CallerMoves
<1>4. CASE a = Serve
  <2>1. pc' = [pc EXCEPT ![Serve] = w] /\ held' = [held EXCEPT ![Serve] = h]
    BY <1>2, <1>4
  <2>2. w \in {"loop", "summary", "summarise", "leave", "start"}
    BY <1>4
  <2> QED
    BY <1>2, <2>1, <2>2, ServeMoves
<1> QED
  BY <1>3, <1>4

LEMMA StopperBegins ==
    ASSUME Shape, NEW s \in Stoppers, held[s] = 0,
           pc' = [pc EXCEPT ![s] = "start"], UNCHANGED <<held, shutdown>>
    PROVE  Frame'
<1>1. "start" \in Steps /\ "start" \in {"loop", "summary", "summarise", "leave", "start"}
  BY DEF Steps
<1>2. s \notin Callers /\ ~ held[s] > 0
  BY Apart
<1> QED
  BY <1>1, <1>2, FrameWalks

LEMMA FrameStays ==
    ASSUME Shape, UNCHANGED <<pc, held, shutdown>>
    PROVE  Frame'
  BY DEF Shape, Frame, Places, HeldByWriters, OneDrains, ClosedFirst

LEMMA IdleHoldsNothing ==
    ASSUME Shape, NEW a \in Actors, pc[a] \notin {"summary", "summarise"}
    PROVE  held[a] = 0
  BY DEF Shape, TypeOK, HeldByWriters

LEMMA ShapeFromParts ==
    ASSUME Shape, TypeOK', Frame',
           UNCHANGED held \/ \E a \in Actors, h \in Nat : held' = [held EXCEPT ![a] = h]
    PROVE  Shape'
<1>1. Finite(held)'
  BY PoppedMoves, PoppedStays DEF Shape
<1> QED
  BY <1>1 DEF Shape, Frame

LEMMA JoinShape ==
    ASSUME Shape, NEW c \in Callers, Join(c)
    PROVE  Shape'
<1>1. TypeOK'
  BY DEF Shape, TypeOK, Join, GoTo, Steps
<1>2. CASE closed
  <2>1. Frame'
    BY <1>2, FrameStays DEF Join
  <2> QED
    BY <1>1, <2>1, ShapeFromParts DEF Join
<1>3. CASE ~closed
  <2>1. held[c] = 0
    BY IdleHoldsNothing DEF Join
  <2>2. pc' = [pc EXCEPT ![c] = "decide"] /\ UNCHANGED <<held, shutdown>>
    BY <1>3 DEF Join, GoTo
  <2>3. Frame'
    BY <2>1, <2>2, CallerWalks DEF CallerPlaces
  <2> QED
    BY <1>1, <2>2, <2>3, ShapeFromParts
<1> QED
  BY <1>2, <1>3

LEMMA DecideShape ==
    ASSUME Shape, NEW c \in Callers, Decide(c)
    PROVE  Shape'
<1>1. TypeOK'
  BY DEF Shape, TypeOK, Decide, GoTo, Steps
<1>2. held[c] = 0
  BY IdleHoldsNothing DEF Decide
<1>3. PICK w \in {"last", "account", "record"} : pc' = [pc EXCEPT ![c] = w]
  BY DEF Decide, GoTo
<1>4. UNCHANGED <<held, shutdown>>
  BY DEF Decide
<1>5. Frame'
  <2>1. w \in CallerPlaces
    BY DEF CallerPlaces, Writing
  <2> QED
    BY <1>2, <1>3, <1>4, <2>1, CallerWalks
<1> QED
  BY <1>1, <1>4, <1>5, ShapeFromParts

LEMMA AccountShape ==
    ASSUME Shape, NEW c \in Callers, Account(c)
    PROVE  Shape'
<1>1. TypeOK'
  BY DEF Shape, TypeOK, Account, GoTo, Steps
<1>2. held[c] = 0
  BY IdleHoldsNothing DEF Account
<1>3. PICK w \in {"summary", "append", "leave"}, h \in Nat :
        /\ pc' = [pc EXCEPT ![c] = w] /\ held' = [held EXCEPT ![c] = h]
        /\ h > 0 => w = "summary"
  <2>1. CASE UNCHANGED held
    <3>1. held' = [held EXCEPT ![c] = 0]
      BY <1>2, <2>1 DEF Shape, TypeOK
    <3>2. \E w \in {"summary", "append", "leave"} : pc' = [pc EXCEPT ![c] = w]
      BY DEF Account, GoTo
    <3>3. PICK w \in {"summary", "append", "leave"} : pc' = [pc EXCEPT ![c] = w]
      BY <3>2
    <3>4. ~ 0 > 0
      OBVIOUS
    <3> QED
      BY <3>1, <3>3, <3>4
  <2>2. CASE held' = [held EXCEPT ![c] = suppressed] /\ pc' = [pc EXCEPT ![c] = IF suppressed > 0 THEN "summary" ELSE "append"]
    BY <2>2 DEF Shape, TypeOK
  <2> QED
    BY <2>1, <2>2 DEF Account, GoTo
<1>4. UNCHANGED shutdown
  BY DEF Account
<1>5. Frame'
  <2>1. w \in CallerPlaces
    BY DEF CallerPlaces, Writing
  <2> QED
    BY <1>3, <1>4, <2>1, CallerMoves
<1> QED
  BY <1>1, <1>3, <1>5, ShapeFromParts

LEMMA FlushShape ==
    ASSUME Shape, Flush
    PROVE  Shape'
<1>1. TypeOK'
  BY DEF Shape, TypeOK, Flush, GoTo, Steps
<1>2. /\ pc' = [pc EXCEPT ![Serve] = "summary"] /\ held' = [held EXCEPT ![Serve] = suppressed]
      /\ suppressed \in Nat /\ UNCHANGED shutdown
  BY DEF Shape, TypeOK, Flush, GoTo
<1>3. Frame'
  BY <1>2, ServeMoves
<1> QED
  BY <1>1, <1>2, <1>3, ShapeFromParts

LEMMA SummaryShape ==
    ASSUME Shape, NEW a \in Callers \cup {Serve}, Summary(a)
    PROVE  Shape'
<1>1. TypeOK'
  <2>1. pc' \in [Actors -> Steps] /\ held' \in [Actors -> Nat]
    BY DEF Shape, TypeOK, Summary, GoTo, Steps
  <2>2. sticky' \in BOOLEAN
    BY DEF Shape, TypeOK, Summary
  <2> QED
    BY <2>1, <2>2 DEF Shape, TypeOK, Summary
<1>2. UNCHANGED shutdown
  BY DEF Summary
<1>3. CASE pc' = [pc EXCEPT ![a] = "leave"] /\ held' = [held EXCEPT ![a] = 0]
  <2>1. Frame'
    <3>1. "leave" \in Steps /\ "leave" \in CallerPlaces /\ "leave" \in {"loop", "leave"}
      BY DEF Steps, CallerPlaces
    <3> QED
      BY <1>2, <1>3, <3>1, WriterEnds
  <2> QED
    BY <1>1, <1>3, <2>1, ShapeFromParts
<1>4. CASE pc' = [pc EXCEPT ![a] = "summarise"] /\ UNCHANGED held
  <2>1. Frame'
    BY <1>2, <1>4, FrameWalks, Apart DEF CallerPlaces, Writing, Steps
  <2> QED
    BY <1>1, <1>4, <2>1, ShapeFromParts
<1> QED
  BY <1>3, <1>4 DEF Summary, GoTo

LEMMA SummariseShape ==
    ASSUME Shape, NEW a \in Callers \cup {Serve}, Summarise(a)
    PROVE  Shape'
<1>1. TypeOK'
  <2>1. pc' \in [Actors -> Steps] /\ held' \in [Actors -> Nat]
    BY DEF Shape, TypeOK, Summarise, GoTo, Steps, Summarised
  <2>2. held[a] \in Nat /\ OwnDenial(a) \in Nat
    BY DEF Shape, TypeOK, OwnDenial
  <2>3. summed' \in Nat /\ dropped' \in Nat /\ failures' \in Nat
    BY <2>2 DEF Shape, TypeOK, Summarise, Broken
  <2>4. sticky' \in BOOLEAN
    BY Zenon DEF Shape, TypeOK, Summarise, Broken
  <2> QED
    BY <2>1, <2>3, <2>4 DEF Shape, TypeOK, Summarise
<1>2. UNCHANGED shutdown /\ held' = [held EXCEPT ![a] = 0]
  BY DEF Summarise
<1>3. PICK w \in {"leave", Summarised(a)} : pc' = [pc EXCEPT ![a] = w]
  BY DEF Summarise, GoTo
<1>4. Frame'
  <2>1. w \in Steps
    BY DEF Steps, Summarised
  <2>2. a \in Callers => w \in CallerPlaces
    BY Apart DEF Summarised, CallerPlaces, Writing
  <2>3. a = Serve => w \in {"loop", "leave"}
    BY DEF Summarised
  <2> QED
    BY <1>2, <1>3, <2>1, <2>2, <2>3, WriterEnds
<1> QED
  BY <1>1, <1>2, <1>4, ShapeFromParts

LEMMA AppendShape ==
    ASSUME Shape, NEW c \in Callers, Append(c)
    PROVE  Shape'
<1>1. TypeOK'
  <2>1. pc' \in [Actors -> Steps]
    BY DEF Shape, TypeOK, Append, GoTo, Steps
  <2>2. lines' \in Nat /\ dropped' \in Nat /\ failures' \in Nat /\ refused' \in Nat
    BY DEF Shape, TypeOK, Append, Broken
  <2>3. sticky' \in BOOLEAN
    BY Zenon DEF Shape, TypeOK, Append, Broken
  <2> QED
    BY <2>1, <2>2, <2>3 DEF Shape, TypeOK, Append
<1>2. UNCHANGED <<shutdown, held>> /\ held[c] = 0
  BY IdleHoldsNothing DEF Append
<1>3. PICK w \in {"leave", "last"} : pc' = [pc EXCEPT ![c] = w]
  BY DEF Append, GoTo
<1>4. Frame'
  BY <1>2, <1>3, CallerWalks DEF CallerPlaces
<1> QED
  BY <1>1, <1>2, <1>4, ShapeFromParts

LEMMA LeaveShape ==
    ASSUME Shape, NEW a \in Callers \cup {Serve}, Leave(a)
    PROVE  Shape'
<1>1. TypeOK'
  BY DEF Shape, TypeOK, Leave, GoTo, Steps
<1>2. UNCHANGED <<shutdown, held>> /\ held[a] = 0
  BY IdleHoldsNothing DEF Leave
<1>3. /\ a \in Callers => \E w \in {"last", "idle"} : pc' = [pc EXCEPT ![a] = w]
      /\ a = Serve => pc' = [pc EXCEPT ![a] = "loop"]
  BY DEF Shape, Places, Leave, GoTo, StopPlaces
<1>4. Frame'
  <2>1. CASE a \in Callers
    BY <1>2, <1>3, <2>1, CallerWalks DEF CallerPlaces
  <2>2. CASE a = Serve
    <3>1. held' = [held EXCEPT ![a] = 0]
      BY <1>2, <2>2 DEF Shape, TypeOK
    <3>2. "loop" \in Steps /\ "loop" \in {"loop", "leave"} /\ a \notin Callers
      BY <2>2, Apart DEF Steps
    <3> QED
      BY <1>2, <1>3, <2>2, <3>1, <3>2, WriterEnds
  <2> QED
    BY <2>1, <2>2
<1> QED
  BY <1>1, <1>2, <1>4, ShapeFromParts

LEMMA StopShape ==
    ASSUME Shape, NEW s \in Stoppers, Stop(s)
    PROVE  Shape'
<1>1. TypeOK'
  BY DEF Shape, TypeOK, Stop, GoTo, Steps
<1>2. UNCHANGED <<shutdown, held>> /\ held[s] = 0
  BY IdleHoldsNothing DEF Stop
<1>3. Frame'
  BY <1>2, StopperBegins DEF Stop, GoTo
<1> QED
  BY <1>1, <1>2, <1>3, ShapeFromParts

LEMMA ShutdownStartShape ==
    ASSUME Shape, NEW s \in Stoppers, ShutdownStart(s)
    PROVE  Shape'
<1>1. TypeOK'
  BY DEF Shape, TypeOK, ShutdownStart, GoTo, Steps
<1>2. UNCHANGED <<closed, fileOpen, overran, held>>
  BY DEF ShutdownStart
<1>3. PICK w \in {"done", "wait", "drain"} :
        /\ \A b \in Actors : pc'[b] = IF b = s THEN w ELSE pc[b]
        /\ w = "drain" => ~closed /\ ~draining /\ draining'
        /\ w # "drain" => draining' = draining
  <2>1. \E w \in {"done", "wait", "drain"} :
        /\ pc' = [pc EXCEPT ![s] = w]
        /\ w = "drain" => ~closed /\ ~draining /\ draining'
        /\ w # "drain" => draining' = draining
    BY DEF ShutdownStart, GoTo
  <2> QED
    BY <2>1 DEF Shape, TypeOK
<1>4. Places'
  BY <1>3, Apart DEF Shape, Places, StopPlaces
<1>5. HeldByWriters'
  BY <1>2, <1>3 DEF Shape, HeldByWriters, ShutdownStart
<1>6. OneDrains'
  BY <1>2, <1>3 DEF Shape, OneDrains
<1>7. ClosedFirst'
  BY <1>2, <1>3 DEF Shape, ClosedFirst
<1> QED
  BY <1>1, <1>2, <1>4, <1>5, <1>6, <1>7, ShapeFromParts DEF Frame

LEMMA ShutdownCountShape ==
    ASSUME Shape, NEW s \in Stoppers, ShutdownCount(s)
    PROVE  Shape'
<1>1. TypeOK'
  <2>1. pc' \in [Actors -> Steps]
    BY DEF Shape, TypeOK, ShutdownCount, Steps
  <2>2. summed' \in Nat /\ dropped' \in Nat /\ failures' \in Nat
    BY DEF Shape, TypeOK, ShutdownCount, Broken
  <2>4. sticky' \in BOOLEAN
    BY Zenon DEF Shape, TypeOK, ShutdownCount, Broken
  <2>3. overran' \in BOOLEAN /\ written' \in 0..Burst
    BY DEF ShutdownCount
  <2> QED
    BY <2>1, <2>2, <2>3, <2>4 DEF Shape, TypeOK, ShutdownCount
<1>2. closed' /\ UNCHANGED <<fileOpen, held>> /\ pc[s] = "drain"
  BY DEF ShutdownCount, Drained
<1>3. \A b \in Actors : pc'[b] = IF b = s THEN "close" ELSE IF pc[b] = "wait" THEN "done" ELSE pc[b]
  BY DEF ShutdownCount
<1>4. Places'
  <2>1. \A c \in Callers : pc[c] # "wait" /\ c # s
    BY Apart DEF Shape, Places, CallerPlaces, Writing
  <2>2. \A c \in Callers : pc'[c] = pc[c]
    BY <1>3, <2>1
  <2>3. \A b \in Stoppers : pc'[b] \in {pc[b], "close", "done"}
    BY <1>3
  <2> QED
    BY <2>2, <2>3 DEF Shape, Places, StopPlaces
<1>5. HeldByWriters'
  BY <1>2, <1>3 DEF Shape, HeldByWriters
<1>6. OneDrains'
  BY <1>2, <1>3 DEF Shape, OneDrains
<1>7. ClosedFirst'
  BY <1>2 DEF ClosedFirst
<1> QED
  BY <1>1, <1>2, <1>4, <1>5, <1>6, <1>7, ShapeFromParts DEF Frame

LEMMA CloseFileShape ==
    ASSUME Shape, NEW s \in Stoppers, CloseFile(s)
    PROVE  Shape'
<1>1. TypeOK'
  BY DEF Shape, TypeOK, CloseFile, GoTo, Steps
<1>2. UNCHANGED <<closed, draining, held>> /\ closed
  BY DEF Shape, ClosedFirst, CloseFile
<1>3. \A b \in Actors : pc'[b] = IF b = s THEN "done" ELSE pc[b]
  BY DEF CloseFile, GoTo, Shape, TypeOK
<1>4. Places'
  BY <1>3, Apart DEF Shape, Places, StopPlaces
<1>5. HeldByWriters'
  BY <1>2, <1>3 DEF Shape, HeldByWriters, CloseFile
<1>6. OneDrains'
  BY <1>2, <1>3 DEF Shape, OneDrains
<1>7. ClosedFirst'
  BY <1>2 DEF ClosedFirst
<1> QED
  BY <1>1, <1>2, <1>4, <1>5, <1>6, <1>7, ShapeFromParts DEF Frame

LEMMA OthersShape ==
    ASSUME Shape, Tick \/ UNCHANGED vars
    PROVE  Shape'
<1>1. TypeOK'
  BY DEF Shape, TypeOK, Tick, vars
<1>2. UNCHANGED <<pc, held, shutdown>>
  BY DEF Tick, vars
<1>3. Frame'
  BY <1>2, FrameStays
<1> QED
  BY <1>1, <1>2, <1>3, ShapeFromParts

-----------------------------------------------------------------------------
(***************************************************************************)
(* The sums.                                                               *)
(***************************************************************************)
T == Total(TicketsOf)
U == Cardinality(Unwritten)

LEMMA SumTypes ==
    ASSUME Shape
    PROVE  T \in Nat /\ U \in Nat /\ Popped \in Nat
  BY TicketsAreFinite, UnwrittenIsFinite, TotalIsNat DEF Shape, T, U, Popped

LEMMA NoTickets ==
    ASSUME TicketsCounted, inflight = 0, NEW a \in Actors
    PROVE  Due(a, pc[a]) = 0
<1>1. TicketsOf[a] = 0
  BY TicketsAreFinite, TotalIsZero DEF TicketsCounted
<1> QED
  BY <1>1, TicketsAreDue

LEMMA HasTicket ==
    ASSUME Shape, TicketsCounted, NEW a \in Actors, Due(a, pc[a]) # 0
    PROVE  inflight > 0
  BY NoTickets DEF Shape, TypeOK

\* Who has a ticket finds the log open, unless the drain was overrun.
LEMMA TicketIsInTime ==
    ASSUME DenialIInv, NEW a \in Actors, Due(a, pc[a]) # 0
    PROVE  closed => overran
  BY HasTicket DEF DenialIInv, Sums, NothingAfterClose

LEMMA PlacesStay ==
    ASSUME UNCHANGED pc
    PROVE  T' = T /\ U' = U
<1>1. TicketsOf' = TicketsOf /\ Unwritten' = Unwritten
  BY DEF TicketsOf, Tickets, Unwritten
<1>2. T' = Total(TicketsOf') /\ U' = Cardinality(Unwritten')
  BY DEF T, U, Total, Pile
<1> QED
  BY <1>1, <1>2 DEF T, U

LEMMA PlacesMove ==
    ASSUME Shape, NEW a \in Actors, NEW w, pc' = [pc EXCEPT ![a] = w]
    PROVE  T' = T - Due(a, pc[a]) + Due(a, w) /\ U' = U - Owes(a, pc[a]) + Owes(a, w)
  BY TicketsMove, UnwrittenMoves DEF Shape, TypeOK, T, U

\* What the places of a caller and of the accept loop count for.
LEMMA CallerCounts ==
    ASSUME NEW c \in Callers
    PROVE  /\ Due(c, "idle") = 0 /\ Due(c, "decide") = 1 /\ Due(c, "record") = 1 /\ Due(c, "last") = 1
           /\ Due(c, "account") = 2 /\ Due(c, "summary") = 2 /\ Due(c, "summarise") = 2
           /\ Due(c, "append") = 2 /\ Due(c, "leave") = 2
           /\ Owes(c, "idle") = 0 /\ Owes(c, "decide") = 0 /\ Owes(c, "record") = 1 /\ Owes(c, "last") = 0
           /\ Owes(c, "account") = 0 /\ Owes(c, "summary") = 1 /\ Owes(c, "summarise") = 1
           /\ Owes(c, "append") = 1 /\ Owes(c, "leave") = 0
  BY Apart DEF Due, Owes, Writing

LEMMA StopperCounts ==
    /\ Due(Serve, "summary") = 1 /\ Due(Serve, "summarise") = 1 /\ Due(Serve, "leave") = 1
    /\ \A s \in Stoppers : Due(s, "idle") = 0 /\ Due(s, "loop") = 0
    /\ \A s \in Stoppers, w \in StopPlaces : Due(s, w) = 0
    /\ \A s \in Stoppers : \A w : Owes(s, w) = 0
  BY Apart DEF Due, Owes, Writing, StopPlaces

LEMMA SumsOf ==
    ASSUME DenialIInv
    PROVE  /\ inflight = T
           /\ closed /\ ~overran => inflight = 0 /\ suppressed = 0
           /\ ~overran => denied = lines + summed + suppressed + Popped + U + refused + dropped
           /\ dropped > 0 => sticky
  BY DEF DenialIInv, Sums, TicketsCounted, NothingAfterClose, AllAccounted, T, U

LEMMA SumsFrom ==
    ASSUME inflight' = T',
           closed' /\ ~overran' => inflight' = 0 /\ suppressed' = 0,
           ~overran' => denied' = lines' + summed' + suppressed' + Popped' + U' + refused' + dropped',
           dropped' > 0 => sticky'
    PROVE  Sums'
  BY DEF Sums, TicketsCounted, NothingAfterClose, AllAccounted, T, U

LEMMA CounterTypes ==
    ASSUME DenialIInv
    PROVE  /\ Shape /\ T \in Nat /\ U \in Nat /\ Popped \in Nat
           /\ denied \in Nat /\ lines \in Nat /\ summed \in Nat /\ suppressed \in Nat
           /\ refused \in Nat /\ dropped \in Nat /\ inflight \in Nat
           /\ \A a \in Actors : held[a] \in Nat
  BY SumTypes DEF DenialIInv, Shape, TypeOK

LEMMA JoinSums ==
    ASSUME DenialIInv, NEW c \in Callers, Join(c)
    PROVE  Sums'
<1>1. Popped' = Popped
  BY PoppedStays DEF DenialIInv, Shape, Join
<1>2. CASE closed
  <2>1. T' = T /\ U' = U
    BY <1>2, PlacesStay DEF Join
  <2> QED
    BY <1>1, <1>2, <2>1, CounterTypes, SumsOf, SumsFrom DEF Join
<1>3. CASE ~closed
  <2>1. T' = T + 1 /\ U' = U
    BY <1>3, CounterTypes, PlacesMove, CallerCounts DEF Join, GoTo
  <2> QED
    BY <1>1, <1>3, <2>1, CounterTypes, SumsOf, SumsFrom DEF Join
<1> QED
  BY <1>2, <1>3

LEMMA DecideSums ==
    ASSUME DenialIInv, NEW c \in Callers, Decide(c)
    PROVE  Sums'
<1>1. Popped' = Popped
  BY PoppedStays DEF DenialIInv, Shape, Decide
<1>2. closed => overran
  <2>1. Due(c, pc[c]) # 0
    BY CallerCounts DEF Decide
  <2> QED
    BY <2>1, TicketIsInTime
<1>a. UNCHANGED <<closed, overran, suppressed, lines, summed, dropped, sticky>>
  BY DEF Decide
<1>3. CASE pc' = [pc EXCEPT ![c] = "last"] /\ refused' = refused + 1 /\ denied' = denied + 1 /\ UNCHANGED inflight
  <2>1. T' = T /\ U' = U
    <3>1. pc[c] = "decide" /\ pc' = [pc EXCEPT ![c] = "last"] /\ Shape
      BY <1>3, CounterTypes DEF Decide, GoTo
    <3>2. T' = T - Due(c, "decide") + Due(c, "last") /\ U' = U - Owes(c, "decide") + Owes(c, "last")
      BY <3>1, PlacesMove
    <3> QED
      BY <3>2, CounterTypes, CallerCounts
  <2> QED
    BY <1>1, <1>2, <1>a, <1>3, <2>1, CounterTypes, SumsOf, SumsFrom
<1>4. CASE pc' = [pc EXCEPT ![c] = "account"] /\ inflight' = inflight + 1 /\ UNCHANGED <<refused, denied>>
  <2>1. T' = T + 1 /\ U' = U
    <3>1. pc[c] = "decide" /\ pc' = [pc EXCEPT ![c] = "account"] /\ Shape
      BY <1>4, CounterTypes DEF Decide, GoTo
    <3>2. T' = T - Due(c, "decide") + Due(c, "account") /\ U' = U - Owes(c, "decide") + Owes(c, "account")
      BY <3>1, PlacesMove
    <3> QED
      BY <3>2, CounterTypes, CallerCounts
  <2> QED
    BY <1>1, <1>2, <1>a, <1>4, <2>1, CounterTypes, SumsOf, SumsFrom
<1>5. CASE pc' = [pc EXCEPT ![c] = "record"] /\ denied' = denied + 1 /\ UNCHANGED <<inflight, refused>>
  <2>1. T' = T /\ U' = U + 1
    <3>1. pc[c] = "decide" /\ pc' = [pc EXCEPT ![c] = "record"] /\ Shape
      BY <1>5, CounterTypes DEF Decide, GoTo
    <3>2. T' = T - Due(c, "decide") + Due(c, "record") /\ U' = U - Owes(c, "decide") + Owes(c, "record")
      BY <3>1, PlacesMove
    <3> QED
      BY <3>2, CounterTypes, CallerCounts
  <2> QED
    BY <1>1, <1>2, <1>a, <1>5, <2>1, CounterTypes, SumsOf, SumsFrom
<1> QED
  BY <1>3, <1>4, <1>5 DEF Decide, GoTo

LEMMA AccountSums ==
    ASSUME DenialIInv, NEW c \in Callers, Account(c)
    PROVE  Sums'
<1>1. closed => overran
  <2>1. Due(c, pc[c]) # 0
    BY CallerCounts DEF Account
  <2> QED
    BY <2>1, TicketIsInTime
<1>2. held[c] = 0
  BY IdleHoldsNothing DEF DenialIInv, Account
<1>a. UNCHANGED <<closed, overran, lines, summed, dropped, sticky, refused, inflight>> /\ denied' = denied + 1
  BY DEF Account
<1>3. CASE /\ suppressed' = 0 /\ held' = [held EXCEPT ![c] = suppressed]
           /\ pc' = [pc EXCEPT ![c] = IF suppressed > 0 THEN "summary" ELSE "append"]
  <2>1. Popped' = Popped + suppressed
    <3>1. Popped' = Popped - held[c] + suppressed
      BY <1>3, CounterTypes, PoppedMoves DEF Shape
    <3> QED
      BY <1>2, <3>1, CounterTypes
  <2>2. PICK w \in {"summary", "append"} : pc' = [pc EXCEPT ![c] = w]
    BY <1>3
  <2>3. T' = T /\ U' = U + 1
    <3>1. pc[c] = "account" /\ Shape
      BY CounterTypes DEF Account
    <3>2. T' = T - Due(c, "account") + Due(c, w) /\ U' = U - Owes(c, "account") + Owes(c, w)
      BY <2>2, <3>1, PlacesMove
    <3>3. Due(c, w) = 2 /\ Owes(c, w) = 1
      BY CallerCounts
    <3> QED
      BY <3>2, <3>3, CounterTypes, CallerCounts
  <2> QED
    BY <1>1, <1>a, <1>3, <2>1, <2>3, CounterTypes, SumsOf, SumsFrom
<1>4. CASE pc' = [pc EXCEPT ![c] = "append"] /\ UNCHANGED <<suppressed, held>>
  <2>1. Popped' = Popped
    BY <1>4, PoppedStays DEF DenialIInv, Shape
  <2>2. T' = T /\ U' = U + 1
    <3>1. pc[c] = "account" /\ pc' = [pc EXCEPT ![c] = "append"] /\ Shape
      BY <1>4, CounterTypes DEF Account, GoTo
    <3>2. T' = T - Due(c, "account") + Due(c, "append") /\ U' = U - Owes(c, "account") + Owes(c, "append")
      BY <3>1, PlacesMove
    <3> QED
      BY <3>2, CounterTypes, CallerCounts
  <2>3. UNCHANGED suppressed
    BY <1>4
  <2> QED
    BY <1>1, <1>a, <2>1, <2>2, <2>3, CounterTypes, SumsOf, SumsFrom
<1>5. CASE pc' = [pc EXCEPT ![c] = "leave"] /\ suppressed' = suppressed + 1 /\ UNCHANGED held
  <2>1. Popped' = Popped
    BY <1>5, PoppedStays DEF DenialIInv, Shape
  <2>2. T' = T /\ U' = U
    <3>1. pc[c] = "account" /\ pc' = [pc EXCEPT ![c] = "leave"] /\ Shape
      BY <1>5, CounterTypes DEF Account, GoTo
    <3>2. T' = T - Due(c, "account") + Due(c, "leave") /\ U' = U - Owes(c, "account") + Owes(c, "leave")
      BY <3>1, PlacesMove
    <3> QED
      BY <3>2, CounterTypes, CallerCounts
  <2> QED
    BY <1>1, <1>a, <1>5, <2>1, <2>2, CounterTypes, SumsOf, SumsFrom
<1> QED
  BY <1>3, <1>4, <1>5 DEF Account, GoTo

LEMMA FlushSums ==
    ASSUME DenialIInv, Flush
    PROVE  Sums'
<1>1. held[Serve] = 0
  BY IdleHoldsNothing DEF DenialIInv, Flush
<1>2. Popped' = Popped + suppressed
  <2>1. held' = [held EXCEPT ![Serve] = suppressed] /\ Finite(held) /\ suppressed \in Nat
    BY CounterTypes DEF Flush, Shape
  <2>2. Popped' = Popped - held[Serve] + suppressed
    BY <2>1, PoppedMoves
  <2> QED
    BY <1>1, <2>2, CounterTypes
<1>3. T' = T + 1 /\ U' = U
  <2>1. pc[Serve] = "loop" /\ pc' = [pc EXCEPT ![Serve] = "summary"] /\ Shape
    BY CounterTypes DEF Flush, GoTo
  <2>2. T' = T - Due(Serve, "loop") + Due(Serve, "summary") /\ U' = U - Owes(Serve, "loop") + Owes(Serve, "summary")
    BY <2>1, PlacesMove
  <2> QED
    BY <2>2, CounterTypes, StopperCounts
<1>4. /\ UNCHANGED <<closed, overran, lines, summed, dropped, sticky, refused, denied>> /\ ~closed
      /\ suppressed' = 0 /\ inflight' = inflight + 1
  BY DEF Flush
<1> QED
  BY <1>2, <1>3, <1>4, CounterTypes, SumsOf, SumsFrom

\* Who holds a count, with what the places count for.
LEMMA WriterCounts ==
    ASSUME NEW a \in Callers \cup {Serve}
    PROVE  /\ Due(a, "summary") > 0 /\ Due(a, "leave") > 0
           /\ Due(a, "summary") = Due(a, "summarise") /\ Due(a, "summarise") = Due(a, "leave")
           /\ Due(a, Summarised(a)) = Due(a, "leave")
           /\ Owes(a, "summary") = OwnDenial(a) /\ Owes(a, "summarise") = OwnDenial(a)
           /\ Owes(a, Summarised(a)) = OwnDenial(a) /\ Owes(a, "leave") = 0
           /\ Due(a, "leave") \in Nat /\ OwnDenial(a) \in Nat
  BY CallerCounts, StopperCounts, Apart DEF Summarised, OwnDenial

LEMMA SummarySums ==
    ASSUME DenialIInv, NEW a \in Callers \cup {Serve}, Summary(a)
    PROVE  Sums'
<1>0. pc[a] = "summary"
  BY DEF Summary
<1>1. closed => overran
  <2>1. Due(a, pc[a]) # 0
    BY <1>0, WriterCounts
  <2> QED
    BY <2>1, TicketIsInTime
<1>a. UNCHANGED <<closed, overran, suppressed, lines, summed, dropped, refused, denied, inflight>>
  BY DEF Summary
<1>2. CASE closed
  <2>1. T' = T
    <3>1. pc[a] = "summary" /\ pc' = [pc EXCEPT ![a] = "leave"] /\ Shape
      BY <1>2, CounterTypes DEF Summary, GoTo
    <3>2. T' = T - Due(a, "summary") + Due(a, "leave") /\ U' = U - Owes(a, "summary") + Owes(a, "leave")
      BY <3>1, PlacesMove
    <3> QED
      BY <3>2, CounterTypes, WriterCounts
  <2>2. sticky'
    BY <1>2 DEF Summary
  <2> QED
    BY <1>1, <1>a, <1>2, <2>1, <2>2, CounterTypes, SumsOf, SumsFrom
<1>3. CASE ~closed
  <2>1. T' = T /\ U' = U
    <3>1. pc[a] = "summary" /\ pc' = [pc EXCEPT ![a] = "summarise"] /\ Shape
      BY <1>3, CounterTypes DEF Summary, GoTo
    <3>2. T' = T - Due(a, "summary") + Due(a, "summarise") /\ U' = U - Owes(a, "summary") + Owes(a, "summarise")
      BY <3>1, PlacesMove
    <3> QED
      BY <3>2, CounterTypes, WriterCounts
  <2>2. UNCHANGED <<sticky, held>>
    BY <1>3 DEF Summary
  <2>3. Popped' = Popped
    BY <2>2, PoppedStays DEF DenialIInv, Shape
  <2> QED
    BY <1>3, <1>a, <2>1, <2>2, <2>3, CounterTypes, SumsOf, SumsFrom
<1> QED
  BY <1>2, <1>3

LEMMA SummariseSums ==
    ASSUME DenialIInv, NEW a \in Callers \cup {Serve}, Summarise(a)
    PROVE  Sums'
<1>0. pc[a] = "summarise" /\ a \in Actors /\ held[a] \in Nat
  BY CounterTypes DEF Summarise
<1>1. closed => overran
  <2>1. Due(a, pc[a]) # 0
    BY <1>0, WriterCounts
  <2> QED
    BY <1>0, <2>1, TicketIsInTime
<1>2. Popped' = Popped - held[a]
  <2>1. held' = [held EXCEPT ![a] = 0] /\ Finite(held)
    BY CounterTypes DEF Summarise, Shape
  <2>2. PICK z \in Nat : z = 0
    OBVIOUS
  <2>3. Popped' = Popped - held[a] + z
    BY <1>0, <2>1, <2>2, PoppedMoves
  <2> QED
    BY <1>0, <2>2, <2>3, CounterTypes
<1>a. UNCHANGED <<closed, overran, suppressed, lines, refused, denied, inflight>>
  BY DEF Summarise
<1>3. CASE pc' = [pc EXCEPT ![a] = Summarised(a)] /\ summed' = summed + held[a] /\ UNCHANGED <<sticky, dropped>>
  <2>1. T' = T /\ U' = U
    <3>1. pc[a] = "summarise" /\ pc' = [pc EXCEPT ![a] = Summarised(a)] /\ Shape
      BY <1>0, <1>3, CounterTypes DEF Summarise, GoTo
    <3>2. T' = T - Due(a, "summarise") + Due(a, Summarised(a)) /\ U' = U - Owes(a, "summarise") + Owes(a, Summarised(a))
      BY <3>1, PlacesMove
    <3> QED
      BY <3>2, CounterTypes, WriterCounts
  <2> QED
    BY <1>0, <1>1, <1>2, <1>a, <1>3, <2>1, CounterTypes, SumsOf, SumsFrom
<1>4. CASE /\ pc' = [pc EXCEPT ![a] = "leave"] /\ dropped' = dropped + held[a] + OwnDenial(a) /\ sticky'
           /\ UNCHANGED summed
  <2>1. T' = T /\ U' = U - OwnDenial(a)
    <3>1. pc[a] = "summarise" /\ pc' = [pc EXCEPT ![a] = "leave"] /\ Shape
      BY <1>0, <1>4, CounterTypes DEF Summarise, GoTo
    <3>2. T' = T - Due(a, "summarise") + Due(a, "leave") /\ U' = U - Owes(a, "summarise") + Owes(a, "leave")
      BY <3>1, PlacesMove
    <3> QED
      BY <3>2, CounterTypes, WriterCounts
  <2>2. OwnDenial(a) \in Nat
    BY WriterCounts
  <2> QED
    BY <1>0, <1>1, <1>2, <1>a, <1>4, <2>1, <2>2, CounterTypes, SumsOf, SumsFrom
<1>5. CASE ~fileOpen /\ pc' = [pc EXCEPT ![a] = "leave"] /\ sticky' /\ UNCHANGED <<summed, dropped>>
  <2>1. closed
    BY <1>5 DEF DenialIInv, Shape, ClosedFirst
  <2>2. T' = T
    <3>1. pc[a] = "summarise" /\ pc' = [pc EXCEPT ![a] = "leave"] /\ Shape
      BY <1>0, <1>5, CounterTypes DEF Summarise, GoTo
    <3>2. T' = T - Due(a, "summarise") + Due(a, "leave") /\ U' = U - Owes(a, "summarise") + Owes(a, "leave")
      BY <3>1, PlacesMove
    <3> QED
      BY <3>2, CounterTypes, WriterCounts
  <2> QED
    BY <1>1, <1>a, <1>5, <2>1, <2>2, CounterTypes, SumsOf, SumsFrom
<1> QED
  BY <1>3, <1>4, <1>5 DEF Summarise, GoTo, Broken

LEMMA AppendSums ==
    ASSUME DenialIInv, NEW c \in Callers, Append(c)
    PROVE  Sums'
<1>1. closed => overran
  <2>1. Due(c, pc[c]) # 0
    BY CallerCounts DEF Append
  <2> QED
    BY <2>1, TicketIsInTime
<1>2. Popped' = Popped
  BY PoppedStays DEF DenialIInv, Shape, Append
<1>3. T' = T /\ U' = U - 1
  <2>1. CASE pc[c] = "append"
    <3>1. T' = T /\ U' = U - 1
      <4>1. pc[c] = "append" /\ pc' = [pc EXCEPT ![c] = "leave"] /\ Shape
        BY <2>1, CounterTypes DEF Append, GoTo
      <4>2. T' = T - Due(c, "append") + Due(c, "leave") /\ U' = U - Owes(c, "append") + Owes(c, "leave")
        BY <4>1, PlacesMove
      <4> QED
        BY <4>2, CounterTypes, CallerCounts
    <3> QED
      BY <3>1
  <2>2. CASE pc[c] = "record"
    <3>1. T' = T /\ U' = U - 1
      <4>1. pc[c] = "record" /\ pc' = [pc EXCEPT ![c] = "last"] /\ Shape
        BY <2>2, CounterTypes DEF Append, GoTo
      <4>2. T' = T - Due(c, "record") + Due(c, "last") /\ U' = U - Owes(c, "record") + Owes(c, "last")
        BY <4>1, PlacesMove
      <4> QED
        BY <4>2, CounterTypes, CallerCounts
    <3> QED
      BY <3>1
  <2> QED
    BY <2>1, <2>2 DEF Append
<1>4. ~fileOpen => closed
  BY DEF DenialIInv, Shape, ClosedFirst
<1>5. \/ lines' = lines + 1 /\ UNCHANGED <<sticky, dropped, refused>>
      \/ closed /\ sticky' /\ refused' = refused + 1 /\ UNCHANGED <<lines, dropped>>
      \/ ~closed /\ sticky' /\ dropped' = dropped + 1 /\ UNCHANGED <<lines, refused>>
  BY <1>4 DEF Append, Broken
<1>6. UNCHANGED <<closed, overran, suppressed, summed, denied, inflight>>
  BY DEF Append
<1> QED
  BY <1>1, <1>2, <1>3, <1>5, <1>6, CounterTypes, SumsOf, SumsFrom

LEMMA LeaveSums ==
    ASSUME DenialIInv, NEW a \in Callers \cup {Serve}, Leave(a)
    PROVE  Sums'
<1>1. Popped' = Popped
  BY PoppedStays DEF DenialIInv, Shape, Leave
<1>2. \/ a \in Callers /\ pc[a] = "leave" /\ pc' = [pc EXCEPT ![a] = "last"]
      \/ a \in Callers /\ pc[a] = "last" /\ pc' = [pc EXCEPT ![a] = "idle"]
      \/ a = Serve /\ pc[a] = "leave" /\ pc' = [pc EXCEPT ![a] = "loop"]
  BY Apart DEF Leave, GoTo, DenialIInv, Shape, Places, StopPlaces
<1>3. Due(a, pc[a]) # 0
  BY <1>2, CallerCounts, StopperCounts
<1>4. inflight' = inflight - 1
  <2>1. inflight > 0
    BY <1>3, HasTicket DEF DenialIInv, Sums
  <2> QED
    BY <2>1 DEF Leave
<1>5. closed => overran
  BY <1>3, TicketIsInTime
<1>6. T' = T - 1 /\ U' = U
  <2>1. CASE a \in Callers /\ pc[a] = "leave" /\ pc' = [pc EXCEPT ![a] = "last"]
    <3>1. T' = T - 1 /\ U' = U
      <4>1. pc[a] = "leave" /\ pc' = [pc EXCEPT ![a] = "last"] /\ Shape
        BY <2>1, CounterTypes
      <4>2. T' = T - Due(a, "leave") + Due(a, "last") /\ U' = U - Owes(a, "leave") + Owes(a, "last")
        BY <4>1, PlacesMove
      <4> QED
        BY <2>1, <4>2, CounterTypes, CallerCounts
    <3> QED
      BY <3>1
  <2>2. CASE a \in Callers /\ pc[a] = "last" /\ pc' = [pc EXCEPT ![a] = "idle"]
    <3>1. T' = T - 1 /\ U' = U
      <4>1. pc[a] = "last" /\ pc' = [pc EXCEPT ![a] = "idle"] /\ Shape
        BY <2>2, CounterTypes
      <4>2. T' = T - Due(a, "last") + Due(a, "idle") /\ U' = U - Owes(a, "last") + Owes(a, "idle")
        BY <4>1, PlacesMove
      <4> QED
        BY <2>2, <4>2, CounterTypes, CallerCounts
    <3> QED
      BY <3>1
  <2>3. CASE a = Serve /\ pc[a] = "leave" /\ pc' = [pc EXCEPT ![a] = "loop"]
    <3>1. T' = T - 1 /\ U' = U
      <4>1. pc[Serve] = "leave" /\ pc' = [pc EXCEPT ![Serve] = "loop"] /\ Shape
        BY <2>3, CounterTypes
      <4>2. T' = T - Due(Serve, "leave") + Due(Serve, "loop") /\ U' = U - Owes(Serve, "leave") + Owes(Serve, "loop")
        BY <4>1, PlacesMove
      <4> QED
        BY <4>2, CounterTypes, StopperCounts
    <3> QED
      BY <3>1
  <2> QED
    BY <1>2, <2>1, <2>2, <2>3
<1>7. UNCHANGED <<closed, overran, suppressed, lines, summed, denied, dropped, refused, sticky>>
  BY DEF Leave
<1> QED
  BY <1>1, <1>4, <1>5, <1>6, <1>7, CounterTypes, SumsOf, SumsFrom

\* The steps of the shutdown but the count move between places without tickets.
LEMMA StopperSums ==
    ASSUME DenialIInv, NEW s \in Stoppers, Stop(s) \/ ShutdownStart(s) \/ CloseFile(s)
    PROVE  Sums'
<1>1. Popped' = Popped
  BY PoppedStays DEF DenialIInv, Shape, Stop, ShutdownStart, CloseFile
<1>2. PICK w \in StopPlaces : pc' = [pc EXCEPT ![s] = w]
  BY DEF Stop, ShutdownStart, CloseFile, GoTo, StopPlaces
<1>3. Due(s, pc[s]) = 0 /\ Due(s, w) = 0 /\ Owes(s, pc[s]) = 0 /\ Owes(s, w) = 0
  <2>1. pc[s] \in StopPlaces \cup {"idle", "loop"}
    BY DEF Stop, ShutdownStart, CloseFile, StopPlaces
  <2> QED
    BY <2>1, StopperCounts
<1>4. T' = T /\ U' = U
  <2>1. T' = T - Due(s, pc[s]) + Due(s, w) /\ U' = U - Owes(s, pc[s]) + Owes(s, w)
    BY <1>2, CounterTypes, PlacesMove
  <2> QED
    BY <1>3, <2>1, CounterTypes
<1>5. UNCHANGED <<inflight, closed, overran, suppressed, lines, summed, denied, dropped, refused, sticky>>
  BY DEF Stop, ShutdownStart, CloseFile
<1> QED
  BY <1>1, <1>4, <1>5, CounterTypes, SumsOf, SumsFrom

LEMMA ShutdownCountSums ==
    ASSUME DenialIInv, NEW s \in Stoppers, ShutdownCount(s)
    PROVE  Sums'
<1>1. Popped' = Popped
  BY PoppedStays DEF DenialIInv, Shape, ShutdownCount
<1>2. ~closed /\ ~overran
  BY DEF DenialIInv, Shape, OneDrains, ClosedFirst, ShutdownCount, Drained
<1>3. \A b \in Actors : /\ Due(b, pc'[b]) = Due(b, pc[b])
                         /\ Owes(b, pc'[b]) = Owes(b, pc[b])
  <2>1. \A b \in Actors : pc'[b] = IF b = s THEN "close" ELSE IF pc[b] = "wait" THEN "done" ELSE pc[b]
    BY DEF ShutdownCount
  <2>2. pc[s] = "drain"
    BY DEF ShutdownCount, Drained
  <2> QED
    BY <2>1, <2>2 DEF Due, Owes, Writing
<1>4. T' = T /\ U' = U
  <2>1. TicketsOf' = [b \in Actors |-> Due(b, pc'[b])]
    BY DEF TicketsOf, Tickets, Due
  <2>2. TicketsOf' = TicketsOf
    BY <1>3, <2>1, TicketsAreDue
  <2>3. Unwritten' = Unwritten
    <3>1. Unwritten' = {b \in Callers : Owes(b, pc'[b]) = 1} /\ Unwritten = {b \in Callers : Owes(b, pc[b]) = 1}
      BY DEF Unwritten, Owes, Writing
    <3> QED
      BY <1>3, <3>1
  <2>4. T' = Total(TicketsOf') /\ U' = Cardinality(Unwritten')
    BY DEF T, U, Total, Pile
  <2> QED
    BY <2>2, <2>3, <2>4 DEF T, U
<1>5. /\ UNCHANGED <<inflight, denied, lines, refused>> /\ suppressed' = 0
      /\ overran' = (inflight > 0)
      /\ \/ summed' = summed + suppressed /\ UNCHANGED <<dropped, sticky>>
         \/ dropped' = dropped + suppressed /\ sticky' /\ UNCHANGED summed
  BY DEF ShutdownCount, Broken
<1>6. overran' <=> inflight > 0
  BY <1>5
<1> QED
  BY <1>1, <1>2, <1>4, <1>5, <1>6, CounterTypes, SumsOf, SumsFrom

LEMMA OthersSums ==
    ASSUME DenialIInv, Tick \/ UNCHANGED vars
    PROVE  Sums'
<1>1. Popped' = Popped
  BY PoppedStays DEF DenialIInv, Shape, Tick, vars
<1>2. T' = T /\ U' = U
  BY PlacesStay DEF Tick, vars
<1>3. UNCHANGED <<inflight, closed, overran, suppressed, lines, summed, denied, dropped, refused, sticky>>
  BY DEF Tick, vars
<1> QED
  BY <1>1, <1>2, <1>3, CounterTypes, SumsOf, SumsFrom

-----------------------------------------------------------------------------
(***************************************************************************)
(* The theorems.                                                           *)
(***************************************************************************)
LEMMA InitDenial == Init => DenialIInv
<1> SUFFICES ASSUME Init PROVE DenialIInv
  OBVIOUS
<1>1. TypeOK /\ Places /\ HeldByWriters /\ OneDrains /\ ClosedFirst
  <2>1. pc \in [Actors -> Steps] /\ held \in [Actors -> Nat]
    BY DEF Init, Steps
  <2>4. written \in 0..Burst /\ windowStart \in Nat \cup {NoWindow}
    BY DEF Init
  <2>5. {draining, closed, overran, sticky, fileOpen} \subseteq BOOLEAN
    BY Zenon DEF Init
  <2>6. /\ clock \in Nat /\ suppressed \in Nat /\ inflight \in Nat /\ refused \in Nat /\ denied \in Nat
        /\ lines \in Nat /\ summed \in Nat /\ dropped \in Nat /\ failures \in Nat
    BY DEF Init
  <2>2. TypeOK
    BY <2>1, <2>4, <2>5, <2>6 DEF TypeOK
  <2>3. \A a \in Actors : pc[a] = (IF a = Serve THEN "loop" ELSE "idle") /\ held[a] = 0
    BY DEF Init
  <2> QED
    BY <2>2, <2>3, Apart DEF Init, Places, HeldByWriters, OneDrains, ClosedFirst, CallerPlaces, StopPlaces
<1>2. Finite(held) /\ Popped = 0
  <2>1. held \in [Actors -> 0..2]
    BY DEF Init
  <2>2. Finite(held)
    BY <2>1, SmallTotalIsFinite
  <2> QED
    BY <2>2, TotalIsZero DEF Init, Popped
<1>3. Total(TicketsOf) = 0
  <2>1. \A a \in Actors : TicketsOf[a] = 0
    BY DEF Init, TicketsOf, Tickets
  <2> QED
    BY <2>1, TicketsAreFinite, TotalIsZero
<1>4. Cardinality(Unwritten) = 0
  <2>1. Unwritten = {}
    BY Apart DEF Init, Unwritten
  <2> QED
    BY <2>1, FS_EmptySet
<1>5. Sums
  BY <1>2, <1>3, <1>4 DEF Init, Sums, TicketsCounted, NothingAfterClose, AllAccounted
<1> QED
  BY <1>1, <1>2, <1>5 DEF DenialIInv, Shape

LEMMA NextDenial == DenialIInv /\ [Next]_vars => DenialIInv'
<1> SUFFICES ASSUME DenialIInv, [Next]_vars PROVE Shape' /\ Sums'
  BY DEF DenialIInv
<1> USE CounterTypes
<1>1. ASSUME NEW c \in Callers, Join(c) PROVE Shape' /\ Sums'
  BY <1>1, JoinShape, JoinSums
<1>2. ASSUME NEW c \in Callers, Decide(c) PROVE Shape' /\ Sums'
  BY <1>2, DecideShape, DecideSums
<1>3. ASSUME NEW c \in Callers, Account(c) PROVE Shape' /\ Sums'
  BY <1>3, AccountShape, AccountSums
<1>4. ASSUME NEW a \in Callers \cup {Serve}, Summary(a) PROVE Shape' /\ Sums'
  BY <1>4, SummaryShape, SummarySums
<1>5. ASSUME NEW a \in Callers \cup {Serve}, Summarise(a) PROVE Shape' /\ Sums'
  BY <1>5, SummariseShape, SummariseSums
<1>6. ASSUME NEW c \in Callers, Append(c) PROVE Shape' /\ Sums'
  BY <1>6, AppendShape, AppendSums
<1>7. ASSUME NEW a \in Callers \cup {Serve}, Leave(a) PROVE Shape' /\ Sums'
  BY <1>7, LeaveShape, LeaveSums
<1>8. CASE Flush
  BY <1>8, FlushShape, FlushSums
<1>9. ASSUME NEW s \in Stoppers, Stop(s) \/ StopperStep(s) PROVE Shape' /\ Sums'
  <2>1. CASE Stop(s)
    BY <2>1, StopShape, StopperSums
  <2>2. CASE ShutdownStart(s)
    BY <2>2, ShutdownStartShape, StopperSums
  <2>3. CASE ShutdownCount(s)
    BY <2>3, ShutdownCountShape, ShutdownCountSums
  <2>4. CASE CloseFile(s)
    BY <2>4, CloseFileShape, StopperSums
  <2> QED
    BY <1>9, <2>1, <2>2, <2>3, <2>4 DEF StopperStep
<1>10. CASE Tick \/ UNCHANGED vars
  BY <1>10, OthersShape, OthersSums
<1> QED
  BY <1>1, <1>2, <1>3, <1>4, <1>5, <1>6, <1>7, <1>8, <1>9, <1>10 DEF Next, CallerStep, ServeStep

\* The shape of the shutdown, the tickets and the accounting, for any number of
\* callers, any burst and any window (_account_denial, _shutdown_log).
THEOREM DenialInvariant == Spec => []DenialIInv
<1>1. DenialIInv /\ UNCHANGED vars => DenialIInv'
  BY NextDenial
<1> QED
  BY InitDenial, NextDenial, PTL DEF Spec

\* Types, and the tickets are those of the threads inside: none is returned
\* twice or kept (_begin_log_call, _end_log_call).
THEOREM TicketsAreKept == Spec => []DenialInv
<1>1. DenialIInv => DenialInv
  BY DEF DenialIInv, Shape, Sums, TicketsCounted, DenialInv, TicketsOf
<1> QED
  BY <1>1, DenialInvariant, PTL

\* Coalescing loses no denial unless a call outlived the drain bound
\* (_account_denial, _flush_expired_window, _append_summary, _shutdown_log).
THEOREM NoDenialIsLost == Spec => []AllAccounted
<1>1. DenialIInv => AllAccounted
  BY DEF DenialIInv, Sums
<1> QED
  BY <1>1, DenialInvariant, PTL

\* A log closed after a complete drain leaves no count and no writer behind it
\* (_shutdown_log).
THEOREM CloseIsComplete == Spec => []ClosedIsComplete
<1>1. DenialIInv => ClosedIsComplete
  <2> SUFFICES ASSUME DenialIInv, closed, ~overran
               PROVE  suppressed = 0 /\ Popped = 0 /\ Unwritten = {}
    BY DEF ClosedIsComplete
  <2>1. inflight = 0 /\ suppressed = 0
    BY DEF DenialIInv, Sums, NothingAfterClose
  <2>2. \A a \in Actors : Due(a, pc[a]) = 0
    BY <2>1, NoTickets DEF DenialIInv, Sums
  <2>3. \A a \in Actors : held[a] = 0
    <3> SUFFICES ASSUME NEW a \in Actors, pc[a] \in {"summary", "summarise"}
                 PROVE  FALSE
      BY IdleHoldsNothing DEF DenialIInv
    <3> QED
      BY <2>2 DEF Due
  <2>4. Popped = 0
    BY <2>3, TotalIsZero DEF DenialIInv, Shape, Popped
  <2>5. Unwritten = {}
    BY <2>2 DEF Unwritten, Due
  <2> QED
    BY <2>1, <2>4, <2>5
<1> QED
  BY <1>1, DenialInvariant, PTL

=============================================================================
