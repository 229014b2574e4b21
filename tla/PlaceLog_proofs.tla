--------------------------- MODULE PlaceLog_proofs --------------------------
(***************************************************************************)
(* Proofs about PlaceLog, for every number of slots and set of places, on  *)
(* its own and under the host, the link and the serial task of HostWrite.  *)
(*                                                                         *)
(* The walk finds the greatest slot of a kind, so the proofs speak of the  *)
(* log it walks: FreeIn and LatestIn are Free and Latest of any log.       *)
(***************************************************************************)
EXTENDS HostWrite, FiniteSetTheorems, WellFoundedInduction, TLAPS

-----------------------------------------------------------------------------
(* The walk.                                                               *)

FreeIn(l) ==
    CHOOSE f \in 0..Slots :
      /\ \A s \in f..(Slots - 1) : l[s] = Erased
      /\ f > 0 => l[f - 1] # Erased

LastRecord(l) ==
    CHOOSE s \in 0..(Slots - 1) :
      l[s] \in Place /\ \A r \in (s + 1)..(Slots - 1) : ~(l[r] \in Place)

LatestIn(l) ==
    IF \E s \in 0..(Slots - 1) : l[s] \in Place THEN l[LastRecord(l)] ELSE None

LEMMA GreatestExists ==
  ASSUME NEW N \in Nat, NEW S \in SUBSET (0..N), S # {}
  PROVE  \E m \in S : \A i \in S : i <= m
<1> DEFINE From(n) == n .. N
           T == {From(n) : n \in S}
<1>1. T # {}
  OBVIOUS
<1>2. T \subseteq FiniteSubsetsOf(Nat)
  <2> SUFFICES ASSUME NEW n \in S PROVE From(n) \in FiniteSubsetsOf(Nat)
    OBVIOUS
  <2>1. n \in Int /\ N \in Int
    OBVIOUS
  <2>2. IsFiniteSet(From(n))
    BY <2>1, FS_Interval
  <2>3. From(n) \in SUBSET Nat
    OBVIOUS
  <2> QED BY <2>2, <2>3 DEF FiniteSubsetsOf
<1> HIDE DEF T
<1>3. PICK x \in T : \A y \in T : ~ (<<y, x>> \in StrictSubsetOrdering(Nat))
  BY <1>1, <1>2, FS_StrictSubsetOrderingWellFounded, WFMin, Zenon
<1>4. PICK m \in S : x = From(m)
  BY DEF T
<1>5. \A i \in S : i <= m
  <2> SUFFICES ASSUME NEW i \in S, m < i PROVE FALSE
    OBVIOUS
  <2>1. From(i) \in T
    BY DEF T
  <2>2. /\ From(i) \in SUBSET Nat /\ From(m) \in SUBSET Nat
        /\ From(i) \subseteq From(m)
    OBVIOUS
  <2>3. m \in From(m) /\ m \notin From(i)
    OBVIOUS
  <2>4. <<From(i), From(m)>> \in StrictSubsetOrdering(Nat)
    BY <2>2, <2>3 DEF StrictSubsetOrdering
  <2> QED BY <2>4, <2>1, <1>3, <1>4
<1> QED BY <1>5

LEMMA SlotFacts == Slots \in Nat /\ Slots > 0 /\ Slot = 0..(Slots - 1)
BY PlaceAssumption DEF Slot

\* The slot after the last that is not erased exists.
LEMMA FreeFound ==
  ASSUME NEW l \in Log
  PROVE  /\ FreeIn(l) \in 0..Slots
         /\ \A s \in FreeIn(l)..(Slots - 1) : l[s] = Erased
         /\ FreeIn(l) > 0 => l[FreeIn(l) - 1] # Erased
<1> DEFINE used == {s \in Slot : l[s] # Erased}
           Fits(f) == /\ \A s \in f..(Slots - 1) : l[s] = Erased
                      /\ f > 0 => l[f - 1] # Erased
<1>1. \E f \in 0..Slots : Fits(f)
  <2>1. CASE used = {}
    <3>1. Fits(0)
      BY <2>1, SlotFacts
    <3> QED BY <3>1, SlotFacts
  <2>2. CASE used # {}
    <3>1. used \in SUBSET (0..(Slots - 1)) /\ Slots - 1 \in Nat
      BY SlotFacts
    <3> HIDE DEF used
    <3>2. PICK m \in used : \A i \in used : i <= m
      BY <2>2, <3>1, GreatestExists
    <3>3. m \in 0..(Slots - 1) /\ l[m] # Erased
      BY <3>1 DEF used
    <3>4. ASSUME NEW s \in (m + 1)..(Slots - 1) PROVE l[s] = Erased
      <4>1. s \in Slot /\ ~(s <= m)
        BY <3>3, SlotFacts
      <4> QED BY <4>1, <3>2 DEF used
    <3>5. m + 1 \in 0..Slots /\ (m + 1) - 1 = m
      BY <3>3, SlotFacts
    <3>6. Fits(m + 1)
      BY <3>3, <3>4, <3>5
    <3> QED BY <3>5, <3>6
  <2> QED BY <2>1, <2>2
<1> QED BY <1>1 DEF FreeIn

\* With a record in the log the walk finds one, and none follows it.
LEMMA LastFound ==
  ASSUME NEW l, \E s \in 0..(Slots - 1) : l[s] \in Place
  PROVE  /\ LastRecord(l) \in 0..(Slots - 1) /\ l[LastRecord(l)] \in Place
         /\ \A r \in (LastRecord(l) + 1)..(Slots - 1) : ~(l[r] \in Place)
<1> DEFINE whole == {s \in 0..(Slots - 1) : l[s] \in Place}
<1>1. whole \in SUBSET (0..(Slots - 1)) /\ Slots - 1 \in Nat /\ whole # {}
  BY SlotFacts
<1> HIDE DEF whole
<1>2. PICK m \in whole : \A i \in whole : i <= m
  BY <1>1, GreatestExists
<1>3. m \in 0..(Slots - 1) /\ l[m] \in Place
  BY DEF whole
<1>4. ASSUME NEW r \in (m + 1)..(Slots - 1), l[r] \in Place PROVE FALSE
  <2>1. r \in 0..(Slots - 1) /\ ~(r <= m)
    BY <1>3, SlotFacts
  <2> QED BY <2>1, <1>2, <1>4 DEF whole
<1> QED BY <1>3, <1>4 DEF LastRecord

LEMMA LatestType ==
  ASSUME NEW l
  PROVE  /\ LatestIn(l) \in Place \cup {None}
         /\ LatestIn(l) # None => \E s \in Slot : l[s] = LatestIn(l) /\ l[s] \in Place
BY LastFound, SlotFacts DEF LatestIn

\* The last record is determined by what it is.
LEMMA LatestOf ==
  ASSUME NEW l, NEW m \in Slot, l[m] \in Place,
         \A r \in (m + 1)..(Slots - 1) : ~(l[r] \in Place)
  PROVE  LatestIn(l) = l[m]
<1>1. \E s \in 0..(Slots - 1) : l[s] \in Place
  BY SlotFacts
<1>2. /\ LastRecord(l) \in 0..(Slots - 1) /\ l[LastRecord(l)] \in Place
      /\ \A r \in (LastRecord(l) + 1)..(Slots - 1) : ~(l[r] \in Place)
  BY <1>1, LastFound
<1>3. LastRecord(l) = m
  <2>1. ~(LastRecord(l) < m)
    <3> SUFFICES ASSUME LastRecord(l) < m PROVE FALSE
      OBVIOUS
    <3>1. m \in (LastRecord(l) + 1)..(Slots - 1)
      BY <1>2, SlotFacts
    <3> QED BY <3>1, <1>2
  <2>2. ~(m < LastRecord(l))
    <3> SUFFICES ASSUME m < LastRecord(l) PROVE FALSE
      OBVIOUS
    <3>1. LastRecord(l) \in (m + 1)..(Slots - 1)
      BY <1>2, SlotFacts
    <3> QED BY <3>1, <1>2
  <2> QED BY <2>1, <2>2, <1>2, SlotFacts
<1> QED BY <1>1, <1>3 DEF LatestIn

\* Logs with the same records in the same slots have the same last one.
LEMMA LatestSame ==
  ASSUME NEW l, NEW k, \A s \in Slot : l[s] = k[s] \/ (l[s] \notin Place /\ k[s] \notin Place)
  PROVE  LatestIn(k) = LatestIn(l)
<1>1. \A s \in Slot : (l[s] \in Place <=> k[s] \in Place) /\ (l[s] \in Place => k[s] = l[s])
  OBVIOUS
<1>2. CASE \E s \in 0..(Slots - 1) : l[s] \in Place
  <2>1. /\ LastRecord(l) \in 0..(Slots - 1) /\ l[LastRecord(l)] \in Place
        /\ \A r \in (LastRecord(l) + 1)..(Slots - 1) : ~(l[r] \in Place)
    BY <1>2, LastFound
  <2>2. LastRecord(l) \in Slot /\ \A r \in (LastRecord(l) + 1)..(Slots - 1) : r \in Slot
    BY <2>1, SlotFacts
  <2>3. k[LastRecord(l)] = l[LastRecord(l)] /\ k[LastRecord(l)] \in Place
    BY <2>1, <2>2, <1>1
  <2>4. \A r \in (LastRecord(l) + 1)..(Slots - 1) : ~(k[r] \in Place)
    BY <2>1, <2>2, <1>1
  <2>5. LatestIn(k) = k[LastRecord(l)]
    BY <2>2, <2>3, <2>4, LatestOf
  <2> QED BY <2>5, <2>3, <1>2 DEF LatestIn
<1>3. CASE ~ \E s \in 0..(Slots - 1) : l[s] \in Place
  <2>1. ~ \E s \in 0..(Slots - 1) : k[s] \in Place
    BY <1>1, <1>3, SlotFacts
  <2> QED BY <1>3, <2>1 DEF LatestIn
<1> QED BY <1>2, <1>3

LEMMA WalkFinds ==
  /\ Free = FreeIn(log)
  /\ Latest(Slots) = LatestIn(log)
BY DEF Free, FreeIn, Latest, LatestIn, LastRecord, Decodes

\* An erased log has no record.
LEMMA BlankLog == Blank \in Log /\ LatestIn(Blank) = None
<1>1. \A s \in 0..(Slots - 1) : Blank[s] = Erased
  BY SlotFacts DEF Blank
<1>2. LatestIn(Blank) = None
  BY <1>1, PlaceAssumption DEF LatestIn
<1> QED BY <1>2 DEF Blank, Log

-----------------------------------------------------------------------------
(* The invariant.                                                          *)

\* What follows the next slot, and the slot a save has chosen, is erased.
Ahead ==
    /\ next # None /\ save.op = "idle" => \A s \in next..(Slots - 1) : log[s] = Erased
    /\ save.op = "program" =>
         /\ save.slot \in Slot /\ save.place \in Place /\ next # None
         /\ \A s \in save.slot..(Slots - 1) : log[s] = Erased
    /\ save.op = "erase" =>
         save.slot = Slots /\ next = Slots /\ save.place \in Place

\* No slot has been used, or is about to be, that no program is counted for.
Accounted ==
    /\ \A s \in Slot : log[s] # Erased => s < programs
    /\ save.op = "idle" /\ next # None => next <= programs
    /\ save.op = "program" => save.slot <= programs
    /\ save.op = "erase" => programs = Slots

PlaceInv == PlaceTypeOK /\ Ahead /\ Accounted /\ LatestIn(log) \in recent

LEMMA InitPlaceInv == PlaceInit => PlaceInv
<1> SUFFICES ASSUME PlaceInit PROVE PlaceInv
  OBVIOUS
<1>1. log = Blank /\ next = None /\ save = Idle /\ recent = {None} /\ programs = 0
  BY DEF PlaceInit
<1>2. Idle \in Save
  BY SlotFacts DEF Idle, Save
<1>3. PlaceTypeOK
  BY <1>1, <1>2, BlankLog, SlotFacts DEF PlaceTypeOK
<1>4. Ahead /\ Accounted
  BY <1>1, SlotFacts DEF Ahead, Accounted, Idle, Blank
<1> QED BY <1>1, <1>3, <1>4, BlankLog DEF PlaceInv

\* A walk to the end finds the place and a slot after which all is erased.
LEMMA FreeFits ==
  ASSUME PlaceInv
  PROVE  /\ Free \in 0..Slots
         /\ \A s \in Free..(Slots - 1) : log[s] = Erased
         /\ Free <= programs
<1>1. log \in Log /\ programs \in 0..Slots
  BY DEF PlaceInv, PlaceTypeOK
<1>2. /\ Free \in 0..Slots
      /\ \A s \in Free..(Slots - 1) : log[s] = Erased
      /\ Free > 0 => log[Free - 1] # Erased
  BY <1>1, FreeFound, WalkFinds
<1>3. Free > 0 => Free - 1 < programs
  BY <1>2, SlotFacts DEF PlaceInv, Accounted
<1> QED BY <1>1, <1>2, <1>3, SlotFacts

LEMMA ReadKeeps == PlaceInv /\ ReadPlace => PlaceInv'
<1> SUFFICES ASSUME PlaceInv, ReadPlace PROVE PlaceInv'
  OBVIOUS
<1>1. /\ save = Idle /\ next' \in {Free, None}
      /\ UNCHANGED <<log, save, recent, programs>>
  BY DEF ReadPlace, Walk
<1>2. PlaceTypeOK'
  BY <1>1, FreeFits DEF PlaceInv, PlaceTypeOK, Log
<1>3. Ahead'
  BY <1>1, FreeFits DEF PlaceInv, Ahead, Idle
<1>4. Accounted'
  BY <1>1, FreeFits DEF PlaceInv, Accounted, Idle
<1> QED BY <1>1, <1>2, <1>3, <1>4 DEF PlaceInv

\* A save begins in the next slot, or with an erase when there is none left.
LEMMA BeginKeeps ==
  ASSUME PlaceInv, NEW place \in Place, BeginSave(place)
  PROVE  PlaceInv'
<1>1. /\ save = Idle /\ UNCHANGED <<log, recent, programs>>
      /\ next' \in 0..Slots /\ save' = Saving(place, next')
      /\ \A s \in next'..(Slots - 1) : log[s] = Erased
      /\ next' <= programs
  <2>1. CASE next # None /\ save' = Saving(place, next) /\ UNCHANGED next
    BY <2>1 DEF BeginSave, PlaceInv, PlaceTypeOK, Ahead, Accounted, Idle
  <2>2. CASE next = None /\ next' = Free /\ save' = Saving(place, Free)
    BY <2>2, FreeFits DEF BeginSave
  <2> QED BY <2>1, <2>2 DEF BeginSave
<1>2. next' # None /\ programs \in 0..Slots
  BY <1>1, PlaceAssumption DEF PlaceInv, PlaceTypeOK
<1>3. CASE next' = Slots
  <2>1. save' = [op |-> "erase", place |-> place, slot |-> Slots]
    BY <1>1, <1>3, SlotFacts DEF Saving, Full
  <2>2. save' \in Save
    BY <2>1, SlotFacts DEF Save
  <2>3. PlaceTypeOK'
    BY <1>1, <2>2 DEF PlaceInv, PlaceTypeOK, Log
  <2>4. Ahead' /\ Accounted'
    BY <1>1, <1>2, <1>3, <2>1, SlotFacts DEF PlaceInv, Ahead, Accounted
  <2> QED BY <1>1, <2>3, <2>4 DEF PlaceInv
<1>4. CASE next' # Slots
  <2>0. next' \in Slot
    BY <1>1, <1>4, SlotFacts
  <2>1. save' = [op |-> "program", place |-> place, slot |-> next']
    BY <1>1, <2>0, SlotFacts DEF Saving, Full
  <2>2. save' \in Save
    BY <2>1, <1>1 DEF Save
  <2>3. PlaceTypeOK'
    BY <1>1, <2>2 DEF PlaceInv, PlaceTypeOK, Log
  <2>4. Ahead' /\ Accounted'
    BY <1>1, <1>2, <2>0, <2>1 DEF PlaceInv, Ahead, Accounted
  <2> QED BY <1>1, <2>3, <2>4 DEF PlaceInv
<1> QED BY <1>3, <1>4

LEMMA EraseKeeps == PlaceInv /\ Erase => PlaceInv'
<1> SUFFICES ASSUME PlaceInv, Erase PROVE PlaceInv'
  OBVIOUS
<1>1. /\ save.op = "erase" /\ log' = Blank /\ next' = next
      /\ save' = [save EXCEPT !.op = "program", !.slot = 0]
      /\ recent' = {None} /\ programs' = 0
  BY DEF Erase
<1>2. save \in Save /\ save.place \in Place /\ next = Slots
  BY <1>1 DEF PlaceInv, PlaceTypeOK, Ahead
<1>3. save'.op = "program" /\ save'.slot = 0 /\ save'.place = save.place /\ save' \in Save
  <2>1. save' = [op |-> "program", place |-> save.place, slot |-> 0]
    BY <1>1, <1>2 DEF Save
  <2>2. 0 \in 0..Slots
    BY SlotFacts
  <2> QED BY <1>2, <2>1, <2>2 DEF Save
<1>4. next' # None /\ next' \in 0..Slots
  BY <1>1, <1>2, SlotFacts, PlaceAssumption
<1>5. \A s \in Slot : log'[s] = Erased
  BY <1>1 DEF Blank
<1>6. PlaceTypeOK'
  BY <1>1, <1>3, <1>4, BlankLog, SlotFacts DEF PlaceTypeOK
<1>7. Ahead' /\ Accounted'
  BY <1>1, <1>2, <1>3, <1>4, <1>5, SlotFacts DEF Ahead, Accounted
<1> QED BY <1>1, <1>6, <1>7, BlankLog DEF PlaceInv

LEMMA IdleIs == Idle \in Save /\ Idle.op = "idle"
BY SlotFacts DEF Idle, Save

LEMMA EraseFailsKeeps == PlaceInv /\ EraseFails => PlaceInv'
<1> SUFFICES ASSUME PlaceInv, EraseFails PROVE PlaceInv'
  OBVIOUS
<1>1. /\ save.op = "erase" /\ log' \in {log, Blank} /\ save' = Idle
      /\ recent' = recent \cup {None} /\ UNCHANGED <<next, programs>>
  BY DEF EraseFails
<1>2. /\ log \in Log /\ recent \subseteq Place \cup {None}
      /\ programs = Slots /\ next = Slots /\ LatestIn(log) \in recent
  BY <1>1 DEF PlaceInv, PlaceTypeOK, Ahead, Accounted
<1>3. PlaceTypeOK'
  BY <1>1, <1>2, IdleIs, BlankLog, SlotFacts DEF PlaceTypeOK, Log
<1>4. Ahead' /\ Accounted'
  BY <1>1, <1>2, IdleIs, SlotFacts DEF Ahead, Accounted
<1>5. LatestIn(log') \in recent'
  BY <1>1, <1>2, BlankLog
<1> QED BY <1>3, <1>4, <1>5 DEF PlaceInv

\* What a program leaves in the slot a save has chosen: the record, nothing, or
\* a torn slot; the last record is the saved one or the one there was.
LEMMA ProgramLeaves ==
  ASSUME PlaceInv, save.op = "program"
  PROVE  /\ Programmed \in Log /\ Cut \in Log
         /\ LatestIn(Programmed) = save.place
         /\ LatestIn(Cut) = LatestIn(log)
         /\ \A s \in Slot : s # save.slot => Programmed[s] = log[s] /\ Cut[s] = log[s]
         /\ programs < Slots => Counted = programs + 1
         /\ Counted \in 0..Slots /\ save.slot + 1 <= Counted /\ programs <= Counted
<1>1. /\ log \in Log /\ save.slot \in Slot /\ save.place \in Place
      /\ \A s \in save.slot..(Slots - 1) : log[s] = Erased
      /\ save.slot <= programs /\ programs \in 0..Slots
  BY DEF PlaceInv, PlaceTypeOK, Ahead, Accounted
<1>2. log[save.slot] = Erased
  BY <1>1, SlotFacts
<1>3. Programmed = [log EXCEPT ![save.slot] = save.place]
  BY <1>1, <1>2 DEF Programmed, Log
<1>4. Programmed \in Log /\ Cut \in Log
  BY <1>1, <1>3 DEF Cut, Log
<1>5. /\ \A s \in Slot : s # save.slot => Programmed[s] = log[s] /\ Cut[s] = log[s]
      /\ Programmed[save.slot] = save.place /\ Cut[save.slot] = Torn
  BY <1>1, <1>3 DEF Cut, Log
<1>6. LatestIn(Programmed) = save.place
  <2>1. ASSUME NEW r \in (save.slot + 1)..(Slots - 1) PROVE ~(Programmed[r] \in Place)
    <3>1. r \in Slot /\ r # save.slot /\ r \in save.slot..(Slots - 1)
      BY <1>1, SlotFacts
    <3> QED BY <3>1, <1>1, <1>5, PlaceAssumption
  <2> QED BY <2>1, <1>1, <1>5, LatestOf
<1>7. LatestIn(Cut) = LatestIn(log)
  <2>1. \A s \in Slot : log[s] = Cut[s] \/ (log[s] \notin Place /\ Cut[s] \notin Place)
    BY <1>1, <1>2, <1>5, PlaceAssumption
  <2> HIDE DEF Cut
  <2> QED BY <2>1, LatestSame
<1>8. /\ programs < Slots => Counted = programs + 1
      /\ Counted \in 0..Slots /\ save.slot + 1 <= Counted /\ programs <= Counted
  BY <1>1, SlotFacts DEF Counted
<1> QED BY <1>4, <1>5, <1>6, <1>7, <1>8

\* A program that ends, well or not, or is cut short: the slot is spent.
LEMMA SpentKeeps ==
  ASSUME PlaceInv, save.op = "program", save' = Idle,
         next' = save.slot + 1 \/ next' = None,
         log' \in {log, Cut, Programmed}, programs' = Counted,
         recent' \subseteq Place \cup {None}, LatestIn(log') \in recent'
  PROVE  PlaceInv'
<1>1. /\ log \in Log /\ save.slot \in Slot /\ save.place \in Place
      /\ \A s \in save.slot..(Slots - 1) : log[s] = Erased
      /\ \A s \in Slot : log[s] # Erased => s < programs
      /\ save.slot <= programs /\ programs \in 0..Slots
  BY DEF PlaceInv, PlaceTypeOK, Ahead, Accounted
<1>2. log' \in Log /\ \A s \in Slot : s # save.slot => log'[s] = log[s]
  BY <1>1, ProgramLeaves
<1>3. Counted \in 0..Slots /\ save.slot + 1 <= Counted /\ programs <= Counted
  BY ProgramLeaves
<1>4. save.slot + 1 \in 0..Slots
  BY <1>1, SlotFacts
<1>5. PlaceTypeOK'
  BY <1>2, <1>3, <1>4, IdleIs DEF PlaceTypeOK
<1>6. ASSUME NEW s \in (save.slot + 1)..(Slots - 1) PROVE log'[s] = Erased
  <2>1. s \in Slot /\ s # save.slot /\ s \in save.slot..(Slots - 1)
    BY <1>1, SlotFacts
  <2> QED BY <2>1, <1>1, <1>2
<1>7. Ahead'
  BY <1>6, IdleIs DEF Ahead
<1>8. ASSUME NEW s \in Slot, log'[s] # Erased PROVE s < Counted
  BY <1>1, <1>2, <1>3, <1>8, SlotFacts
<1>9. Accounted'
  BY <1>3, <1>8, IdleIs DEF Accounted
<1> QED BY <1>5, <1>7, <1>9 DEF PlaceInv

LEMMA ProgramKeeps == PlaceInv /\ (Program \/ ProgramFails) => PlaceInv'
<1> SUFFICES ASSUME PlaceInv, Program \/ ProgramFails PROVE PlaceInv'
  OBVIOUS
<1>1. /\ save.op = "program" /\ save' = Idle /\ next' = save.slot + 1
      /\ programs' = Counted
      /\ \/ log' = Programmed /\ recent' = {save.place}
         \/ log' \in {log, Cut, Programmed} /\ recent' = recent \cup {save.place}
  BY DEF Program, ProgramFails
<1>2. recent \subseteq Place \cup {None} /\ save.place \in Place /\ LatestIn(log) \in recent
  BY <1>1 DEF PlaceInv, PlaceTypeOK, Ahead
<1>3. LatestIn(Programmed) = save.place /\ LatestIn(Cut) = LatestIn(log)
  BY <1>1, ProgramLeaves
<1>4. recent' \subseteq Place \cup {None} /\ LatestIn(log') \in recent'
  BY <1>1, <1>2, <1>3
<1> QED BY <1>1, <1>4, SpentKeeps

LEMMA CutKeeps == PlaceInv /\ PowerCut => PlaceInv'
<1> SUFFICES ASSUME PlaceInv, PowerCut PROVE PlaceInv'
  OBVIOUS
<1>1. save' = Idle /\ next' = None
  BY DEF PowerCut
<1>2. /\ log \in Log /\ recent \subseteq Place \cup {None} /\ programs \in 0..Slots
      /\ LatestIn(log) \in recent
  BY DEF PlaceInv, PlaceTypeOK
<1>3. CASE save.op = "idle" /\ UNCHANGED <<log, recent, programs>>
  <2>1. PlaceTypeOK' /\ Ahead' /\ Accounted'
    BY <1>1, <1>2, <1>3, IdleIs DEF PlaceInv, PlaceTypeOK, Ahead, Accounted, Log
  <2> QED BY <1>2, <1>3, <2>1 DEF PlaceInv
<1>4. CASE /\ save.op = "erase" /\ log' \in Log
           /\ \A s \in Slot : log'[s] \in {log[s], Erased, Torn}
           /\ recent' = recent \cup {None} \cup {log[s] : s \in {r \in Slot : Decodes(r)}}
           /\ UNCHANGED programs
  <2>1. recent' \subseteq Place \cup {None}
    BY <1>2, <1>4 DEF Decodes
  <2>2. LatestIn(log') \in recent'
    <3>1. CASE LatestIn(log') = None
      BY <3>1, <1>4
    <3>2. CASE LatestIn(log') # None
      <4>1. PICK s \in Slot : log'[s] = LatestIn(log') /\ log'[s] \in Place
        BY <3>2, LatestType
      <4>2. log[s] = log'[s] /\ Decodes(s)
        BY <4>1, <1>4, PlaceAssumption DEF Decodes
      <4> QED BY <4>1, <4>2, <1>4
    <3> QED BY <3>1, <3>2
  <2>3. programs = Slots
    BY <1>4 DEF PlaceInv, Accounted
  <2>4. PlaceTypeOK' /\ Ahead' /\ Accounted'
    BY <1>1, <1>2, <1>4, <2>1, <2>3, IdleIs, SlotFacts DEF PlaceTypeOK, Ahead, Accounted
  <2> QED BY <2>2, <2>4 DEF PlaceInv
<1>5. CASE /\ save.op = "program" /\ log' \in {log, Cut, Programmed}
           /\ recent' = recent \cup {save.place} /\ programs' = Counted
  <2>1. save.place \in Place
    BY <1>5 DEF PlaceInv, Ahead
  <2>2. LatestIn(Programmed) = save.place /\ LatestIn(Cut) = LatestIn(log)
    BY <1>5, ProgramLeaves
  <2>3. recent' \subseteq Place \cup {None} /\ LatestIn(log') \in recent'
    BY <1>2, <1>5, <2>1, <2>2
  <2> QED BY <1>1, <1>5, <2>3, SpentKeeps
<1> QED BY <1>3, <1>4, <1>5 DEF PowerCut

LEMMA NextPlaceInv == PlaceInv /\ [PlaceNext]_placeVars => PlaceInv'
<1> SUFFICES ASSUME PlaceInv, [PlaceNext]_placeVars PROVE PlaceInv'
  OBVIOUS
<1>1. ASSUME NEW place \in Place, BeginSave(place) PROVE PlaceInv'
  BY <1>1, BeginKeeps
<1>2. CASE ReadPlace
  BY <1>2, ReadKeeps
<1>3. CASE Erase
  BY <1>3, EraseKeeps
<1>4. CASE EraseFails
  BY <1>4, EraseFailsKeeps
<1>5. CASE Program \/ ProgramFails
  BY <1>5, ProgramKeeps
<1>6. CASE PowerCut
  BY <1>6, CutKeeps
<1>7. CASE Unreadable \/ UNCHANGED placeVars
  <2>1. UNCHANGED <<log, next, save, recent, programs>>
    BY <1>7 DEF Unreadable, placeVars
  <2>2. PlaceTypeOK' /\ Ahead' /\ Accounted'
    BY <2>1 DEF PlaceInv, PlaceTypeOK, Ahead, Accounted, Log
  <2> QED BY <2>1, <2>2 DEF PlaceInv
<1> QED BY <1>1, <1>2, <1>3, <1>4, <1>5, <1>6, <1>7 DEF PlaceNext

-----------------------------------------------------------------------------
(* The theorems.                                                           *)

LEMMA PlaceInvariant == PlaceSpec => []PlaceInv
<1> QED BY InitPlaceInv, NextPlaceInv, PTL DEF PlaceSpec

\* Type correctness of the sector, the next slot and the save under way.
THEOREM PlaceTypeCorrect == PlaceSpec => []PlaceTypeOK
<1>1. PlaceInv => PlaceTypeOK
  BY DEF PlaceInv
<1> QED BY <1>1, PlaceInvariant, PTL

\* A whole walk (read_operator_state) finds the place last recorded or one tried
\* since, through failing erases and programs and power cuts in them.
THEOREM LastPlaceKept == PlaceSpec => []KeepsLastPlace
<1>1. PlaceInv => KeepsLastPlace
  BY WalkFinds DEF PlaceInv, KeepsLastPlace
<1> QED BY <1>1, PlaceInvariant, PTL

\* write_operator_state programs a slot once between erases.
THEOREM SlotsUsedOnce == PlaceSpec => []SlotsProgrammedOnce
<1>1. PlaceInv => SlotsProgrammedOnce
  BY SlotFacts DEF PlaceInv, Ahead, SlotsProgrammedOnce
<1> QED BY <1>1, PlaceInvariant, PTL

\* write_operator_state erases the sector only when every slot is spent.
THEOREM SpentBeforeErase == PlaceSpec => []ErasesWhenSpent
<1>1. PlaceInv => ErasesWhenSpent
  BY DEF PlaceInv, Accounted, ErasesWhenSpent
<1> QED BY <1>1, PlaceInvariant, PTL

-----------------------------------------------------------------------------
(* The log within HostWrite.                                               *)

\* Whatever the host, the link, the operator and the battery do, the log takes
\* a step of its own or none.
LEMMA HostStepsTheLog ==
  [Next]_vars => [PlaceNext]_placeVars
<1> SUFFICES ASSUME [Next]_vars PROVE PlaceNext \/ UNCHANGED placeVars
  OBVIOUS
<1>1. CASE HostNext \/ Lose
  BY <1>1 DEF HostNext, HostReceives, HostWaits, Lose
<1>2. CASE Answered \/ Write
  BY <1>2 DEF Answered, Write
<1>3. CASE Reload
  <2>1. BeginSave(HostedPlace) \/ Unreadable \/ UNCHANGED placeVars
    BY <1>3 DEF Reload, TakesPlace
  <2> QED BY <2>1, HostAssumption DEF PlaceNext
<1>4. CASE Publish
  <2>1. CASE radio.placeWritten
    <3>1. ReadPlace
      BY <1>4, <2>1 DEF Publish, ReadPlace
    <3> QED BY <3>1 DEF PlaceNext
  <2>2. CASE ~radio.placeWritten
    BY <1>4, <2>2 DEF Publish
  <2> QED BY <2>1, <2>2
<1>5. CASE TakePlace
  BY <1>5 DEF TakePlace, PlaceNext
<1>6. CASE SaveRuns \/ SaveFails
  BY <1>6 DEF SaveRuns, SaveFails, PlaceNext
<1>7. CASE Restart
  BY <1>7 DEF Restart, PlaceNext
<1>8. CASE UNCHANGED vars
  BY <1>8 DEF vars
<1> QED BY <1>1, <1>2, <1>3, <1>4, <1>5, <1>6, <1>7, <1>8 DEF Next, SerialNext

\* A radio that a host programs keeps its log as PlaceLog describes it.
THEOREM HostKeepsTheLog == Spec => PlaceSpec
<1>1. Init => PlaceInit
  BY DEF Init
<1> QED BY <1>1, HostStepsTheLog, PTL DEF Spec, PlaceSpec

\* Through a host's writes, its repetitions and the radio's reloads and restarts
\* a whole walk finds the place last recorded, or one tried since.
THEOREM HostLosesNoPlace == Spec => []KeepsLastPlace
<1> QED BY HostKeepsTheLog, LastPlaceKept, PTL

-----------------------------------------------------------------------------
(* The host's session.                                                     *)

\* What a session reads before it writes and again at the end.
WholeRead == [op |-> "read", block |-> Whole]

LEMMA Blocks ==
  /\ ImageBlocks \in Nat /\ PlaceBlocks \in Nat
  /\ Image \subseteq Nat /\ 0 \notin Image /\ 0 \notin PlacePart
  /\ Image \cup PlacePart \cup {Whole} = Whole..(ImageBlocks + PlaceBlocks)
  /\ Image \cap PlacePart = {}
<1>1. /\ ImageBlocks \in Nat /\ PlaceBlocks \in Nat
      /\ ImageBlocks > 0 /\ PlaceBlocks > 0
  BY HostAssumption
<1> QED BY <1>1 DEF Image, PlacePart, Whole

\* Min and Max are the ends of a place's blocks.
LEMMA PlaceEnds ==
  /\ Min(PlacePart) = ImageBlocks + 1
  /\ Max(PlacePart) = ImageBlocks + PlaceBlocks
  /\ Min(PlacePart) \in PlacePart /\ Max(PlacePart) \in PlacePart
<1>1. /\ ImageBlocks \in Nat /\ PlaceBlocks \in Nat
      /\ ImageBlocks > 0 /\ PlaceBlocks > 0
  BY HostAssumption
<1> DEFINE lo == ImageBlocks + 1
           hi == ImageBlocks + PlaceBlocks
<1>2. /\ lo \in PlacePart /\ \A y \in PlacePart : lo <= y
      /\ hi \in PlacePart /\ \A y \in PlacePart : hi >= y
  BY <1>1 DEF PlacePart
<1>3. \A x \in PlacePart : (\A y \in PlacePart : x <= y) => x = lo
  BY <1>1, <1>2 DEF PlacePart
<1>4. \A x \in PlacePart : (\A y \in PlacePart : x >= y) => x = hi
  BY <1>1, <1>2 DEF PlacePart
<1> HIDE DEF lo, hi
<1>5. Min(PlacePart) = lo
  BY <1>2, <1>3 DEF Min
<1>6. Max(PlacePart) = hi
  BY <1>2, <1>4 DEF Max
<1> QED BY <1>2, <1>5, <1>6 DEF lo, hi

\* A set of image blocks has a least one.
LEMMA LeastBlock ==
  ASSUME NEW S \in SUBSET Image, S # {}
  PROVE  Min(S) \in S
<1>1. ImageBlocks \in Nat /\ S \subseteq 1..ImageBlocks
  BY Blocks DEF Image
<1> DEFINE R == {ImageBlocks - i : i \in S}
<1>2. R \in SUBSET (0..ImageBlocks) /\ R # {}
  <2>1. R \in SUBSET (0..ImageBlocks)
    BY <1>1
  <2>2. PICK i \in S : TRUE
    OBVIOUS
  <2>3. ImageBlocks - i \in R
    OBVIOUS
  <2> HIDE DEF R
  <2> QED BY <2>1, <2>3
<1>3. PICK m \in R : \A i \in R : i <= m
  <2> HIDE DEF R
  <2> QED BY <1>1, <1>2, GreatestExists
<1>4. PICK x \in S : m = ImageBlocks - x
  OBVIOUS
<1>5. \A y \in S : x <= y
  <2> TAKE y \in S
  <2>1. ImageBlocks - y \in R
    OBVIOUS
  <2>2. ImageBlocks - y <= ImageBlocks - x
    BY <2>1, <1>3, <1>4
  <2> QED BY <2>2, <1>1
<1> QED BY <1>5 DEF Min

\* Where the session is: a step of the image knows its block.
Placed(h) ==
    /\ h.step \in {"hello", "live", "final"} => h.block = Whole
    /\ h.step \in {"write", "verify"} => h.block \in Image
    /\ h.step = "place" => h.block \in PlacePart

\* The next block that differs, or the reading of the whole.
LEMMA NextBlockIs ==
  ASSUME NEW h \in Host
  PROVE  /\ NextBlock(h) \in Host /\ Placed(NextBlock(h))
         /\ NextBlock(h).step \in {"write", "final"}
<1> DEFINE rest == {b \in h.changed : b > h.block}
<1>1. rest \in SUBSET Image
  BY DEF Host
<1>2. CASE rest = {}
  <2>1. NextBlock(h) = [h EXCEPT !.step = "final", !.block = Whole]
    BY <1>2 DEF NextBlock
  <2>2. Whole \in Whole..(ImageBlocks + PlaceBlocks)
    BY Blocks
  <2> QED BY <2>1, <2>2 DEF Host, Steps, Placed
<1>3. CASE rest # {}
  <2>1. NextBlock(h) = [h EXCEPT !.step = "write", !.block = Min(rest)]
    BY <1>3 DEF NextBlock
  <2>2. Min(rest) \in Image
    <3> HIDE DEF rest
    <3> QED BY <1>1, <1>3, LeastBlock
  <2>3. Min(rest) \in Whole..(ImageBlocks + PlaceBlocks)
    BY <2>2, Blocks
  <2> HIDE DEF rest
  <2> QED BY <2>1, <2>2, <2>3 DEF Host, Steps, Placed
<1> QED BY <1>2, <1>3

\* How a session goes on after an answer.
LEMMA SteppedIs ==
  ASSUME NEW h \in Host, Placed(h), h.step \notin {"done", "failed"},
         NEW data \in SUBSET Image
  PROVE  LET n == Stepped(h, data)
         IN  /\ n \in Host /\ Placed(n)
             /\ h.step = "hello" => n.step = "live"
             /\ h.step = "live" => n.step \in {"write", "final"}
             /\ h.step = "write" => n.step = "verify"
             /\ h.step = "verify" => n.step \in {"write", "final", "failed"}
             /\ h.step = "final" => (n.step = "failed" \/ (n.step = "place" /\ data = Image))
             /\ h.step = "place" => n.step \in {"place", "done"}
<1> DEFINE n == Stepped(h, data)
<1>1. h.step \in Steps /\ h.block \in Whole..(ImageBlocks + PlaceBlocks)
  BY DEF Host
<1>2. CASE h.step = "hello"
  <2>1. n = [h EXCEPT !.step = "live"]
    BY <1>2 DEF Stepped
  <2> QED BY <2>1, <1>2 DEF Host, Steps, Placed
<1>3. CASE h.step = "live"
  <2> DEFINE c == [h EXCEPT !.changed = Image \ data]
  <2>1. c \in Host
    BY DEF Host
  <2>2. n = NextBlock(c)
    BY <1>3 DEF Stepped
  <2> HIDE DEF c, n
  <2>3. n \in Host /\ Placed(n) /\ n.step \in {"write", "final"}
    BY <2>1, <2>2, NextBlockIs
  <2> QED BY <2>3, <1>3 DEF n
<1>4. CASE h.step = "write"
  <2>1. n = [h EXCEPT !.step = "verify"]
    BY <1>4 DEF Stepped
  <2> QED BY <2>1, <1>4 DEF Host, Steps, Placed
<1>5. CASE h.step = "verify"
  <2>1. CASE h.block \in data
    <3>1. n = NextBlock(h)
      BY <1>5, <2>1 DEF Stepped
    <3> HIDE DEF n
    <3>2. n \in Host /\ Placed(n) /\ n.step \in {"write", "final"}
      BY <3>1, NextBlockIs
    <3> QED BY <3>2, <1>5 DEF n
  <2>2. CASE h.block \notin data
    <3>1. n = [h EXCEPT !.step = "failed"]
      BY <1>5, <2>2 DEF Stepped
    <3> QED BY <3>1, <1>5 DEF Host, Steps, Placed
  <2> QED BY <2>1, <2>2
<1>6. CASE h.step = "final"
  <2>1. CASE data = Image
    <3>1. n = [h EXCEPT !.step = "place", !.block = Min(PlacePart)]
      BY <1>6, <2>1 DEF Stepped, ReadWhole
    <3>2. /\ Min(PlacePart) \in PlacePart
          /\ Min(PlacePart) \in Whole..(ImageBlocks + PlaceBlocks)
      BY Blocks, PlaceEnds
    <3> QED BY <3>1, <3>2, <1>6, <2>1 DEF Host, Steps, Placed
  <2>2. CASE data # Image
    <3>1. n = [h EXCEPT !.step = "failed"]
      BY <1>6, <2>2 DEF Stepped, ReadWhole
    <3> HIDE DEF n
    <3>2. n \in Host /\ n.step = "failed"
      BY <3>1 DEF Host, Steps
    <3>3. Placed(n)
      BY <3>2 DEF Placed
    <3> QED BY <3>2, <3>3, <1>6 DEF n
  <2> QED BY <2>1, <2>2
<1>7. CASE h.step = "place"
  <2>1. CASE h.block = Max(PlacePart)
    <3>1. n = [h EXCEPT !.step = "done"]
      BY <1>7, <2>1 DEF Stepped
    <3> QED BY <3>1, <1>7 DEF Host, Steps, Placed
  <2>2. CASE h.block # Max(PlacePart)
    <3>1. n = [h EXCEPT !.block = @ + 1]
      BY <1>7, <2>2 DEF Stepped
    <3>2. h.block \in PlacePart /\ h.block # ImageBlocks + PlaceBlocks
      BY <1>7, <2>2, PlaceEnds DEF Placed
    <3>3. /\ h.block + 1 \in PlacePart
          /\ h.block + 1 \in Whole..(ImageBlocks + PlaceBlocks)
      BY <3>2, Blocks DEF PlacePart, Whole
    <3> QED BY <3>1, <3>3, <1>7 DEF Host, Steps, Placed
  <2> QED BY <2>1, <2>2
<1> QED BY <1>1, <1>2, <1>3, <1>4, <1>5, <1>6, <1>7 DEF Steps

LEMMA AskedIs ==
  ASSUME NEW h \in Host
  PROVE  /\ Asked(h) \in Request
         /\ Asked(h).op = "write" => h.step \notin {"hello", "live", "verify", "final"}
         /\ Asked(h) = WholeRead => h.step \in {"live", "verify", "final"} /\ h.block = Whole
         /\ h.step = "final" /\ h.block = Whole => Asked(h) = WholeRead
  BY DEF Asked, Host, Request, WholeRead, Whole

\* What a session asks: a write names a block.
Posed == {r \in Request : r.op = "write" => r.block \in Image \cup PlacePart}

LEMMA AskedPosed ==
  ASSUME NEW h \in Host, Placed(h), h.step \notin {"done", "failed"}
  PROVE  Asked(h) \in Posed
<1>1. Asked(h) \in Request /\ Asked(h).block = h.block
  BY AskedIs DEF Asked
<1>2. Asked(h).op = "write" => h.step \in {"write", "place"}
  BY AskedIs DEF Host, Steps
<1> QED BY <1>1, <1>2 DEF Posed, Placed

\* Where the session and the queues may be.
HostTypeInv == HostTypeOK /\ Placed(host) /\ toRadio \in Seq(Posed)

\* The same request again, or the end of the attempts.
Resends ==
    /\ host'.step = host.step /\ host'.block = host.block
    /\ toRadio' = Append(toRadio, Asked(host))
GivesUp == host'.step = "failed" /\ toRadio' = toRadio

\* An answer that fits takes the session on; the next request is sent with it.
GoesOn(n) ==
    /\ host'.step = n.step /\ host'.block = n.block
    /\ toRadio' = IF n.step \in {"done", "failed"} THEN toRadio ELSE Append(toRadio, Asked(n))

LEMMA AskedSame ==
  ASSUME NEW h, NEW g, h.step = g.step, h.block = g.block
  PROVE  Asked(h) = Asked(g)
  BY DEF Asked

LEMMA TryAgainIs ==
  ASSUME HostTypeInv, ~Ended, TryAgain
  PROVE  /\ host' \in Host /\ Placed(host')
         /\ \/ Resends /\ toHost' = <<>>
            \/ GivesUp /\ toHost' = toHost
<1>1. host \in Host /\ Placed(host) /\ host.attempt \in 1..Attempts /\ Attempts \in Nat \ {0}
  BY HostAssumption DEF HostTypeInv, HostTypeOK, Host
<1>2. CASE host.attempt < Attempts
  <2>1. /\ host' = [host EXCEPT !.attempt = @ + 1, !.stale = 0]
        /\ toHost' = <<>> /\ toRadio' = Append(toRadio, Asked(host))
    BY <1>2 DEF TryAgain
  <2>2. host.attempt + 1 \in 1..Attempts /\ 0 \in 0..StalePackets
    BY <1>1, <1>2, HostAssumption
  <2>3. host' \in Host /\ host'.step = host.step /\ host'.block = host.block
    BY <2>1, <2>2, <1>1 DEF Host
  <2> QED BY <2>1, <2>3, <1>1 DEF Placed, Resends
<1>3. CASE ~(host.attempt < Attempts)
  <2>1. /\ host' = [host EXCEPT !.step = "failed", !.attempt = 1, !.stale = 0]
        /\ UNCHANGED <<toRadio, toHost>>
    BY <1>3 DEF TryAgain
  <2>2. 1 \in 1..Attempts /\ 0 \in 0..StalePackets
    BY <1>1, HostAssumption
  <2>3. host' \in Host /\ host'.step = "failed"
    BY <2>1, <2>2, <1>1 DEF Host, Steps
  <2> QED BY <2>1, <2>3 DEF Placed, GivesUp
<1> QED BY <1>2, <1>3

\* What the host does with a packet: takes it for its answer, passes it over, or
\* asks again.
LEMMA HostReceivesIs ==
  ASSUME HostTypeInv, HostReceives
  PROVE  /\ host' \in Host /\ Placed(host')
         /\ toHost # <<>>
         /\ \/ /\ Head(toHost).request = Asked(host)
               /\ GoesOn(Stepped(host, Head(toHost).data))
               /\ toHost' = Tail(toHost)
            \/ /\ host'.step = host.step /\ host'.block = host.block
               /\ toRadio' = toRadio /\ toHost' = Tail(toHost)
            \/ Resends /\ toHost' = <<>>
            \/ GivesUp /\ toHost' = toHost
<1>1. /\ host \in Host /\ Placed(host) /\ host.step \notin {"done", "failed"}
      /\ toHost \in Seq(Reply) /\ toHost # <<>>
  BY DEF HostTypeInv, HostTypeOK, HostReceives, Ended
<1>2. Head(toHost) \in Reply /\ Head(toHost).data \in SUBSET Image
  <2>1. Head(toHost) \in Reply
    BY <1>1
  <2> QED BY <2>1 DEF Reply
<1>3. CASE Answers(Head(toHost))
  <2> DEFINE n == Stepped(host, Head(toHost).data)
  <2>1. n \in Host /\ Placed(n)
    BY <1>1, <1>2, SteppedIs
  <2>2. toHost' = Tail(toHost) /\ Advance(n)
    BY <1>3 DEF HostReceives
  <2> HIDE DEF n
  <2>3. /\ host' = [n EXCEPT !.attempt = 1, !.stale = 0]
        /\ GoesOn(n)
    BY <2>1, <2>2 DEF Advance, GoesOn, Host
  <2>4. 1 \in 1..Attempts /\ 0 \in 0..StalePackets
    BY HostAssumption
  <2>5. host' \in Host /\ Placed(host')
    BY <2>1, <2>3, <2>4 DEF Host, Placed
  <2> QED BY <2>2, <2>3, <2>5, <1>1, <1>3 DEF n, Answers
<1>4. CASE ~Answers(Head(toHost)) /\ host.stale + 1 < StalePackets
  <2>1. /\ host' = [host EXCEPT !.stale = @ + 1]
        /\ toHost' = Tail(toHost) /\ UNCHANGED toRadio
    BY <1>4 DEF HostReceives
  <2>2. host.stale + 1 \in 0..StalePackets
    BY <1>1, <1>4, HostAssumption DEF Host
  <2>3. host' \in Host /\ host'.step = host.step /\ host'.block = host.block
    BY <2>1, <2>2, <1>1 DEF Host
  <2> QED BY <2>1, <2>3, <1>1 DEF Placed
<1>5. CASE ~Answers(Head(toHost)) /\ ~(host.stale + 1 < StalePackets)
  <2>1. TryAgain /\ ~Ended
    BY <1>5 DEF HostReceives
  <2> QED BY <2>1, <1>1, TryAgainIs
<1> QED BY <1>3, <1>4, <1>5

LEMMA HostWaitsIs ==
  ASSUME HostTypeInv, HostWaits
  PROVE  /\ host' \in Host /\ Placed(host')
         /\ \/ Resends /\ toHost' = <<>>
            \/ GivesUp /\ toHost' = toHost
  BY TryAgainIs DEF HostWaits

LEMMA HostQueues ==
  ASSUME HostTypeInv, HostReceives \/ HostWaits
  PROVE  /\ host' \in Host /\ Placed(host')
         /\ toRadio' \in Seq(Posed) /\ toHost' \in Seq(Reply)
<1>1. /\ host \in Host /\ Placed(host)
      /\ toHost \in Seq(Reply) /\ toRadio \in Seq(Posed) /\ ~Ended
  BY DEF HostTypeInv, HostTypeOK, HostReceives, HostWaits
<1>2. host' \in Host /\ Placed(host')
  BY HostReceivesIs, HostWaitsIs
<1>3. <<>> \in Seq(Reply) /\ (toHost # <<>> => Tail(toHost) \in Seq(Reply))
  BY <1>1
<1>4. toHost' \in Seq(Reply)
  BY <1>1, <1>3, HostReceivesIs, HostWaitsIs
<1>5. Resends => toRadio' \in Seq(Posed)
  BY <1>1, AskedPosed DEF Resends, Ended
<1>6. GivesUp => toRadio' \in Seq(Posed)
  BY <1>1 DEF GivesUp
<1>7. ASSUME toHost # <<>>, GoesOn(Stepped(host, Head(toHost).data))
      PROVE  toRadio' \in Seq(Posed)
  <2> DEFINE n == Stepped(host, Head(toHost).data)
  <2>1. Head(toHost) \in Reply /\ Head(toHost).data \in SUBSET Image
    <3>1. Head(toHost) \in Reply
      BY <1>1, <1>7
    <3> QED BY <3>1 DEF Reply
  <2>2. n \in Host /\ Placed(n)
    BY <1>1, <2>1, SteppedIs DEF Ended
  <2>3. GoesOn(n)
    BY <1>7
  <2> HIDE DEF n
  <2>4. n.step \notin {"done", "failed"} => Asked(n) \in Posed
    BY <2>2, AskedPosed
  <2> QED BY <2>3, <2>4, <1>1 DEF GoesOn
<1> QED BY <1>1, <1>2, <1>4, <1>5, <1>6, <1>7, HostReceivesIs, HostWaitsIs

\* An open write, or a new one.
LEMMA OpenedIs ==
  ASSUME HostTypeInv
  PROVE  /\ Opened \in Staging
         /\ Opened = staging \/ (~staging.open /\ Opened = [Shut EXCEPT !.open = TRUE, !.kept = stored])
  BY DEF HostTypeInv, HostTypeOK, Opened, Shut, Staging

LEMMA StagesTypes ==
  ASSUME HostTypeInv, NEW b \in Image, Stages(b)
  PROVE  staging' \in Staging
<1>1. staging \in Staging /\ Opened \in Staging
  BY OpenedIs DEF HostTypeInv, HostTypeOK
<1>2. CASE staging' = [Opened EXCEPT !.blocks = @ \cup {b}]
  BY <1>1, <1>2 DEF Staging
<1>3. CASE staging' = [staging EXCEPT !.spoilt = @ \cup {b}]
  BY <1>1, <1>3 DEF Staging
<1> QED BY <1>2, <1>3 DEF Stages

\* The serial task: what it holds keeps its type.
LEMMA WriteTypes ==
  ASSUME HostTypeInv, Write
  PROVE  radio' \in Radio /\ staging' \in Staging
<1> DEFINE b == Head(toRadio).block
<1>1. /\ radio \in Radio /\ staging \in Staging
      /\ radio.gathered \subseteq PlacePart
  BY DEF HostTypeInv, HostTypeOK, Radio
<1>2. StoresImage(b) \/ StoresPlace(b) \/ Refuses(b)
  BY DEF Write
<1> HIDE DEF b
<1>3. CASE StoresImage(b)
  <2>1. staging' \in Staging
    BY <1>3, StagesTypes DEF StoresImage
  <2>2. radio' = [radio EXCEPT !.written = TRUE]
    BY <1>3 DEF StoresImage
  <2> QED BY <2>1, <2>2, <1>1 DEF Radio
<1>4. CASE StoresPlace(b)
  <2>1. /\ radio' = [radio EXCEPT !.written = TRUE, !.placeWritten = TRUE,
                                  !.gathered = @ \cup {b}]
        /\ b \in PlacePart /\ staging' = staging
    BY <1>4 DEF StoresPlace
  <2>2. radio.gathered \cup {b} \in SUBSET PlacePart
    BY <1>1, <2>1
  <2> QED BY <2>1, <2>2, <1>1 DEF Radio
<1>5. CASE Refuses(b)
  <2>1. staging' \in {staging, Opened} /\ radio' = [radio EXCEPT !.written = TRUE]
    BY <1>5 DEF Refuses
  <2> QED BY <2>1, <1>1, OpenedIs DEF Radio
<1> QED BY <1>2, <1>3, <1>4, <1>5

LEMMA TypesAtFirst == Init => HostTypeInv
<1> SUFFICES ASSUME Init PROVE HostTypeInv
  OBVIOUS
<1>1. stored \in SUBSET Image
  BY HostAssumption DEF Init
<1>2. 1 \in 1..Attempts /\ 0 \in 0..StalePackets /\ 0 \in 0..MaxFaults
  BY HostAssumption
<1>3. Whole \in Whole..(ImageBlocks + PlaceBlocks)
  BY Blocks
<1>4. NewHost \in Host /\ Placed(NewHost)
  BY <1>2, <1>3 DEF NewHost, Host, Steps, Placed
<1>5. radio \in Radio /\ staging \in Staging
  BY DEF Init, NewRadio, Radio, Shut, Staging
<1>6. Hello \in Request /\ Hello \in Posed
  BY <1>3 DEF Hello, Request, Posed
<1>7. toRadio \in Seq(Request) /\ toRadio \in Seq(Posed) /\ toHost \in Seq(Reply)
  BY <1>6 DEF Init
<1> QED BY <1>1, <1>2, <1>4, <1>5, <1>7 DEF Init, HostTypeInv, HostTypeOK

LEMMA CommittedIs ==
  ASSUME HostTypeInv
  PROVE  Committed \subseteq Image /\ View \subseteq Image
  BY DEF HostTypeInv, HostTypeOK, Staging, Committed, View

\* A commit that succeeds shuts the write; one that fails leaves it open.
LEMMA CommitTypes ==
  ASSUME HostTypeInv, CommitSucceeds \/ CommitFails
  PROVE  /\ staging' \in Staging /\ stored' \subseteq Committed
         /\ faults' = faults \/ (faults < MaxFaults /\ faults' = faults + 1)
<1>1. CASE CommitSucceeds
  BY <1>1 DEF CommitSucceeds, Shut, Staging
<1>2. CASE CommitFails
  <2>1. staging \in Staging
    BY DEF HostTypeInv, HostTypeOK
  <2> QED BY <2>1, <1>2 DEF CommitFails, Staging
<1> QED BY <1>1, <1>2

\* The radio's part of each step of the serial task.
LEMMA RadioTypes ==
  ASSUME HostTypeInv, SerialNext \/ Restart
  PROVE  /\ radio' \in Radio /\ staging' \in Staging /\ stored' \subseteq Image
         /\ running' \in {"blank", "other", "new", "unread"} /\ at' \in Place \cup {None}
<1>1. /\ radio \in Radio /\ staging \in Staging /\ stored \subseteq Image
      /\ running \in {"blank", "other", "new", "unread"} /\ at \in Place \cup {None}
  BY DEF HostTypeInv, HostTypeOK
<1>2. CASE Answered \/ SaveRuns \/ SaveFails
  BY <1>1, <1>2 DEF Answered, SaveRuns, SaveFails, radioVars
<1>3. CASE Write
  <2>1. running' \in {running, "blank"} /\ UNCHANGED <<stored, at>>
    BY <1>3 DEF Write
  <2> QED BY <1>1, <1>3, <2>1, WriteTypes
<1>4. CASE Reload
  <2>1. /\ CommitSucceeds \/ CommitFails
        /\ UNCHANGED <<running, at>>
        /\ radio' = [radio EXCEPT !.written = FALSE, !.gathered = {}, !.loading = TRUE]
    BY <1>4 DEF Reload
  <2>2. radio' \in Radio
    BY <2>1, <1>1 DEF Radio
  <2>3. staging' \in Staging /\ stored' \subseteq Image
    BY <2>1, CommitTypes, CommittedIs
  <2> QED BY <2>1, <2>2, <2>3, <1>1
<1>5. CASE Publish
  <2>1. /\ radio' = [radio EXCEPT !.loading = FALSE, !.placeWritten = FALSE]
        /\ running' \in {Loaded(View), "unread"} /\ UNCHANGED <<staging, stored>>
    BY <1>5 DEF Publish, Loads
  <2>2. radio' \in Radio
    BY <2>1, <1>1 DEF Radio
  <2>3. Loaded(View) \in {"blank", "other", "new", "unread"}
    BY DEF Loaded
  <2>4. at' \in Place \cup {None}
    BY <1>1, <1>5 DEF Publish
  <2> QED BY <2>1, <2>2, <2>3, <2>4, <1>1
<1>6. CASE TakePlace
  BY <1>1, <1>6 DEF TakePlace
<1>7. CASE Restart
  <2>1. /\ radio' = NewRadio /\ staging' = Shut
        /\ running' = "blank" /\ at' = None /\ UNCHANGED stored
    BY <1>7 DEF Restart
  <2>2. radio' \in Radio /\ staging' \in Staging
    BY <2>1 DEF NewRadio, Radio, Shut, Staging
  <2> QED BY <2>1, <2>2, <1>1
<1> QED BY <1>2, <1>3, <1>4, <1>5, <1>6, <1>7 DEF SerialNext

LEMMA OthersTypes ==
  ASSUME HostTypeInv, Lose \/ SerialNext \/ Restart
  PROVE  /\ host' = host
         /\ toRadio' \in Seq(Posed) /\ toHost' \in Seq(Reply)
<1>1. /\ toRadio \in Seq(Posed) /\ toHost \in Seq(Reply)
      /\ View \subseteq Image
  BY CommittedIs DEF HostTypeInv, HostTypeOK
<1>2. CASE Lose
  <2>1. /\ toRadio # <<>> => Tail(toRadio) \in Seq(Posed)
        /\ toHost # <<>> => Tail(toHost) \in Seq(Reply)
    BY <1>1
  <2> QED BY <1>1, <1>2, <2>1 DEF Lose
<1>3. CASE Answered \/ Write
  <2>1. /\ toRadio # <<>> /\ toRadio' = Tail(toRadio) /\ host' = host
    BY <1>3 DEF Answered, Write
  <2>2. Head(toRadio) \in Request
    BY <1>1, <2>1 DEF Posed
  <2>3. ASSUME NEW data \in SUBSET Image, Replied(data)
        PROVE  toHost' \in Seq(Reply)
    BY <2>2, <2>3, <1>1 DEF Replied, Reply
  <2>4. CASE Answered
    <3> DEFINE d == IF Head(toRadio).op = "hello" THEN {}
               ELSE IF Head(toRadio).block = Whole THEN View
               ELSE View \cap {Head(toRadio).block}
    <3>1. Replied(d)
      BY <2>4 DEF Answered
    <3>2. d \in SUBSET Image
      BY <1>1
    <3> HIDE DEF d
    <3> QED BY <1>1, <2>1, <2>3, <3>1, <3>2
  <2>5. CASE Write
    <3>1. Replied({}) \/ UNCHANGED toHost
      BY <2>5 DEF Write
    <3> QED BY <1>1, <2>1, <2>3, <3>1
  <2> QED BY <1>3, <2>4, <2>5
<1>4. CASE Reload \/ Publish \/ TakePlace \/ SaveRuns \/ SaveFails
  BY <1>1, <1>4 DEF Reload, Publish, TakePlace, SaveRuns, SaveFails, hostVars
<1>5. CASE Restart
  BY <1>1, <1>5 DEF Restart
<1> QED BY <1>2, <1>3, <1>4, <1>5 DEF SerialNext

LEMMA CountTypes ==
  ASSUME HostTypeInv, Next
  PROVE  faults' \in 0..MaxFaults /\ harm' \in [image : BOOLEAN, place : BOOLEAN]
<1>1. /\ faults \in 0..MaxFaults /\ harm \in [image : BOOLEAN, place : BOOLEAN]
      /\ MaxFaults \in Nat
  BY HostAssumption DEF HostTypeInv, HostTypeOK
<1>2. faults' = faults \/ (faults < MaxFaults /\ faults' = faults + 1)
  <2>1. CASE Write \/ Publish
    BY <2>1 DEF Write, Refuses, Publish, Loads
  <2>2. CASE Reload
    BY <2>2, CommitTypes DEF Reload
  <2>3. CASE ~(Write \/ Reload \/ Publish)
    BY <2>3 DEF Next, HostNext, SerialNext, HostReceives, HostWaits, Lose, Answered,
                TakePlace, SaveRuns, SaveFails, Restart
  <2> QED BY <2>1, <2>2, <2>3
<1>3. CASE UNCHANGED harm
  BY <1>1, <1>2, <1>3
<1>4. CASE Publish \/ SaveFails
  <2>1. harm' = harm \/ \E p \in BOOLEAN : harm' = [harm EXCEPT !.place = p]
    <3>1. CASE Publish
      BY <1>1, <3>1 DEF Publish, Sent
    <3>2. CASE SaveFails
      BY <1>1, <3>2 DEF SaveFails, Sent
    <3> QED BY <1>4, <3>1, <3>2
  <2> QED BY <1>1, <1>2, <2>1
<1>5. CASE Reload \/ Restart
  <2>1. staging \in Staging /\ (Reload => staging' \in Staging)
    BY RadioTypes DEF HostTypeInv, HostTypeOK, SerialNext
  <2>2. staging.open \in BOOLEAN /\ (Reload => staging'.open \in BOOLEAN)
    BY <2>1 DEF Staging
  <2>3. \E i, p \in BOOLEAN : harm' = [image |-> i, place |-> p]
    <3> DEFINE lost == IF GatheredPlace THEN save' = Idle ELSE Parts
    <3>1. CASE Reload
      <4>1. (harm.image \/ (staging'.open /\ ReadBack)) \in BOOLEAN
        OBVIOUS
      <4>2. (harm.place \/ lost) \in BOOLEAN
        OBVIOUS
      <4>3. harm' = [image |-> harm.image \/ (staging'.open /\ ReadBack),
                     place |-> harm.place \/ lost]
        BY <3>1 DEF Reload
      <4> HIDE DEF lost
      <4> QED BY <4>1, <4>2, <4>3
    <3>2. CASE Restart
      BY <3>2 DEF Restart
    <3> QED BY <1>5, <3>1, <3>2
  <2> QED BY <1>1, <1>2, <2>3
<1>6. UNCHANGED harm \/ Reload \/ Publish \/ SaveFails \/ Restart
  BY DEF Next, HostNext, SerialNext, HostReceives, HostWaits, Lose, Answered, Write,
         TakePlace, SaveRuns
<1> QED BY <1>1, <1>2, <1>3, <1>4, <1>5, <1>6

LEMMA TypesKept == HostTypeInv /\ [Next]_vars => HostTypeInv'
<1> SUFFICES ASSUME HostTypeInv, [Next]_vars PROVE HostTypeInv'
  OBVIOUS
<1>1. CASE UNCHANGED vars
  BY <1>1 DEF vars, hostVars, radioVars, HostTypeInv, HostTypeOK, Placed
<1>2. CASE Next
  <2>1. faults' \in 0..MaxFaults /\ harm' \in [image : BOOLEAN, place : BOOLEAN]
    BY <1>2, CountTypes
  <2>2. /\ radio' \in Radio /\ staging' \in Staging /\ stored' \subseteq Image
        /\ running' \in {"blank", "other", "new", "unread"} /\ at' \in Place \cup {None}
    <3>1. CASE SerialNext \/ Restart
      BY <3>1, RadioTypes
    <3>2. CASE HostNext \/ Lose
      BY <3>2 DEF HostNext, HostReceives, HostWaits, Lose, radioVars, HostTypeInv, HostTypeOK
    <3> QED BY <1>2, <3>1, <3>2 DEF Next
  <2>3. host' \in Host /\ Placed(host') /\ toRadio' \in Seq(Posed) /\ toHost' \in Seq(Reply)
    <3>1. CASE HostNext
      BY <3>1, HostQueues DEF HostNext
    <3>2. CASE Lose \/ SerialNext \/ Restart
      BY <3>2, OthersTypes DEF HostTypeInv, HostTypeOK
    <3> QED BY <1>2, <3>1, <3>2 DEF Next
  <2>4. toRadio' \in Seq(Request)
    BY <2>3 DEF Posed
  <2>5. Placed(host)'
    BY <2>3 DEF Placed
  <2> QED BY <2>1, <2>2, <2>3, <2>4, <2>5 DEF HostTypeInv, HostTypeOK
<1> QED BY <1>1, <1>2 DEF vars

\* The session, the link, the serial task and the memory view keep their types.
THEOREM HostTypeCorrect == Spec => []HostTypeOK
<1>1. HostTypeInv => HostTypeOK
  BY DEF HostTypeInv
<1> QED BY <1>1, TypesAtFirst, TypesKept, PTL DEF Spec

-----------------------------------------------------------------------------
(* The image a session read back.                                          *)
(*                                                                         *)
(* A whole reading may be answered late, so the argument is about every    *)
(* such request and answer on the link: those of the first reading come    *)
(* before every write and say only what was stored.  What they say stays   *)
(* true until a commit fails, or the battery is pulled with a write open,  *)
(* after the last reading was asked for; where a commit runs in a session  *)
(* the link is empty.                                                      *)

NoWrites(q) == \A i \in 1..Len(q) : q[i].op # "write"
Foremost(q) ==
    \A i \in 1..Len(q) : q[i] = WholeRead => \A j \in 1..(i - 1) : q[j].op # "write"
AsksWhole(q) == \E i \in 1..Len(q) : q[i] = WholeRead
Within(q, S) == \A i \in 1..Len(q) : q[i].request = WholeRead => q[i].data \subseteq S

LEMMA RequestAdded ==
  ASSUME NEW q \in Seq(Request), NEW r \in Request
  PROVE  /\ NoWrites(q) /\ r.op # "write" => NoWrites(Append(q, r))
         /\ NoWrites(q) => Foremost(q) /\ Foremost(Append(q, r))
         /\ Foremost(q) /\ r # WholeRead => Foremost(Append(q, r))
         /\ r # WholeRead /\ AsksWhole(Append(q, r)) => AsksWhole(q)
<1> DEFINE a == Append(q, r)
<1>1. /\ Len(q) \in Nat /\ Len(a) = Len(q) + 1 /\ a[Len(q) + 1] = r
      /\ \A i \in 1..Len(q) : a[i] = q[i]
  OBVIOUS
<1>2. \A i \in 1..Len(a) : i \in 1..Len(q) \/ i = Len(q) + 1
  BY <1>1
<1>3. \A i \in 1..Len(a) : \A j \in 1..(i - 1) : j \in 1..Len(q)
  BY <1>1
<1> HIDE DEF a
<1>4. NoWrites(q) /\ r.op # "write" => NoWrites(a)
  BY <1>1, <1>2 DEF NoWrites
<1>5. NoWrites(q) => Foremost(q)
  BY <1>1 DEF NoWrites, Foremost
<1>6. NoWrites(q) => Foremost(a)
  BY <1>1, <1>3 DEF NoWrites, Foremost
<1>7. Foremost(q) /\ r # WholeRead => Foremost(a)
  <2> SUFFICES ASSUME Foremost(q), r # WholeRead, NEW i \in 1..Len(a), a[i] = WholeRead,
                      NEW j \in 1..(i - 1)
               PROVE  a[j].op # "write"
    BY DEF Foremost
  <2>1. i \in 1..Len(q) /\ j \in 1..Len(q)
    BY <1>1, <1>2, <1>3
  <2> QED BY <2>1, <1>1 DEF Foremost
<1>8. r # WholeRead /\ AsksWhole(a) => AsksWhole(q)
  BY <1>1, <1>2 DEF AsksWhole
<1> QED BY <1>4, <1>5, <1>6, <1>7, <1>8 DEF a

LEMMA RequestTaken ==
  ASSUME NEW q \in Seq(Request), q # <<>>
  PROVE  /\ NoWrites(q) => NoWrites(Tail(q)) /\ Head(q).op # "write"
         /\ Foremost(q) => Foremost(Tail(q))
         /\ AsksWhole(Tail(q)) => AsksWhole(q)
         /\ Head(q) = WholeRead => AsksWhole(q)
         /\ Foremost(q) /\ Head(q).op = "write" => ~AsksWhole(Tail(q))
<1> DEFINE t == Tail(q)
<1>1. /\ Len(q) \in Nat /\ Len(q) >= 1 /\ Len(t) = Len(q) - 1 /\ Head(q) = q[1]
      /\ \A i \in 1..Len(t) : t[i] = q[i + 1]
  OBVIOUS
<1>2. \A i \in 1..Len(t) : i + 1 \in 1..Len(q) /\ 1 \in 1..((i + 1) - 1)
  BY <1>1
<1>3. 1 \in 1..Len(q)
  BY <1>1
<1> HIDE DEF t
<1>4. NoWrites(q) => NoWrites(t) /\ Head(q).op # "write"
  BY <1>1, <1>2, <1>3 DEF NoWrites
<1>5. Foremost(q) => Foremost(t)
  <2> SUFFICES ASSUME Foremost(q), NEW i \in 1..Len(t), t[i] = WholeRead,
                      NEW j \in 1..(i - 1)
               PROVE  t[j].op # "write"
    BY DEF Foremost
  <2>1. /\ j \in 1..Len(t) /\ j + 1 \in 1..((i + 1) - 1)
        /\ i + 1 \in 1..Len(q) /\ q[i + 1] = WholeRead
    BY <1>1
  <2>2. q[j + 1].op # "write"
    BY <2>1 DEF Foremost
  <2> QED BY <2>1, <2>2, <1>1
<1>6. AsksWhole(t) => AsksWhole(q)
  BY <1>1, <1>2 DEF AsksWhole
<1>7. Head(q) = WholeRead => AsksWhole(q)
  BY <1>1, <1>3 DEF AsksWhole
<1>8. Foremost(q) /\ Head(q).op = "write" => ~AsksWhole(t)
  BY <1>1, <1>2 DEF Foremost, AsksWhole
<1> QED BY <1>4, <1>5, <1>6, <1>7, <1>8 DEF t

LEMMA AnswersWithin ==
  ASSUME NEW q \in Seq(Reply), NEW S, Within(q, S)
  PROVE  /\ q # <<>> => Within(Tail(q), S)
         /\ Within(<<>>, S)
         /\ \A T : S \subseteq T => Within(q, T)
         /\ \A r \in Reply : (r.request = WholeRead => r.data \subseteq S)
               => Within(Append(q, r), S)
         /\ q # <<>> /\ Head(q).request = WholeRead => Head(q).data \subseteq S
<1>1. q # <<>> => Within(Tail(q), S)
  <2> SUFFICES ASSUME q # <<>>, NEW i \in 1..Len(Tail(q)), Tail(q)[i].request = WholeRead
               PROVE  Tail(q)[i].data \subseteq S
    BY DEF Within
  <2>1. i + 1 \in 1..Len(q) /\ Tail(q)[i] = q[i + 1]
    OBVIOUS
  <2> QED BY <2>1 DEF Within
<1>2. Within(<<>>, S)
  BY DEF Within
<1>3. \A T : S \subseteq T => Within(q, T)
  BY DEF Within
<1>4. ASSUME NEW r \in Reply, r.request = WholeRead => r.data \subseteq S
      PROVE  Within(Append(q, r), S)
  <2> SUFFICES ASSUME NEW i \in 1..Len(Append(q, r)), Append(q, r)[i].request = WholeRead
               PROVE  Append(q, r)[i].data \subseteq S
    BY DEF Within
  <2>1. \/ i \in 1..Len(q) /\ Append(q, r)[i] = q[i]
        \/ Append(q, r)[i] = r
    OBVIOUS
  <2> QED BY <2>1, <1>4 DEF Within
<1>5. q # <<>> /\ Head(q).request = WholeRead => Head(q).data \subseteq S
  <2>1. q # <<>> => 1 \in 1..Len(q) /\ Head(q) = q[1]
    OBVIOUS
  <2> QED BY <2>1 DEF Within
<1> QED BY <1>1, <1>2, <1>3, <1>4, <1>5

\* What the serial task and the memory hold: a write that is shut left nothing
\* staged, an open one commits to no less than the region holds, and what a load
\* left is the image as it can be read, or none.
RadioInv ==
    /\ ~staging.open => staging = Shut
    /\ stored \subseteq Committed
    /\ radio.loading => ~radio.written
    /\ ~radio.written /\ ~radio.loading => running \in {Loaded(View), "unread"}

\* What the link says of the image, by the step the session is at.
LinkOK(step, q, back) ==
    /\ step \in {"hello", "live", "write", "verify"} =>
          /\ Foremost(q) /\ (AsksWhole(q) => View = stored)
          /\ Within(back, stored)
    /\ step \in {"hello", "live"} => ~staging.open /\ NoWrites(q)
    /\ step = "final" /\ ~harm.image => Within(back, View)
    /\ step \in {"place", "done"} /\ ~harm.image => View = Image

ImageInv == HostTypeInv /\ RadioInv /\ LinkOK(host.step, toRadio, toHost)

\* What is stored is read, and a commit leaves nothing of that out.
LEMMA ViewIs ==
  ASSUME HostTypeInv, RadioInv
  PROVE  /\ stored \subseteq View /\ View \subseteq Committed
         /\ ~staging.open => View = stored
<1>1. ~staging.open => staging = Shut /\ View = stored
  BY DEF RadioInv, View, Shut
<1>2. stored \subseteq View /\ View \subseteq Committed
  BY <1>1 DEF RadioInv, View, Committed
<1> QED BY <1>1, <1>2

LEMMA ImageAtFirst == Init => ImageInv
<1> SUFFICES ASSUME Init PROVE ImageInv
  OBVIOUS
<1>1. RadioInv
  BY DEF Init, NewRadio, RadioInv, Shut, Committed
<1>2. toRadio = <<Hello>> /\ toHost = <<>> /\ host.step = "hello" /\ View = stored
      /\ ~staging.open
  BY DEF Init, NewHost, Shut, View
<1>3. Len(toRadio) = 1 /\ toRadio[1].op # "write"
  BY <1>2 DEF Hello
<1>4. NoWrites(toRadio) /\ Foremost(toRadio)
  BY <1>3 DEF NoWrites, Foremost
<1>5. Within(toHost, stored)
  BY <1>2 DEF Within
<1> QED BY <1>1, <1>2, <1>4, <1>5, TypesAtFirst DEF ImageInv, LinkOK

\* Fewer answers do no harm, and neither does asking again what was asked.
LEMMA FewerAnswers ==
  ASSUME HostTypeInv, NEW step, NEW q, LinkOK(step, q, toHost)
  PROVE  /\ LinkOK(step, q, <<>>)
         /\ toHost # <<>> => LinkOK(step, q, Tail(toHost))
<1>1. toHost \in Seq(Reply)
  BY DEF HostTypeInv, HostTypeOK
<1>2. \A S : Within(toHost, S) =>
        Within(<<>>, S) /\ (toHost # <<>> => Within(Tail(toHost), S))
  BY <1>1, AnswersWithin
<1> QED BY <1>2 DEF LinkOK

LEMMA AsksAgain ==
  ASSUME NEW h \in Host, Placed(h), h.step \notin {"done", "failed"},
         NEW q \in Seq(Request), NEW back, LinkOK(h.step, q, back),
         ~staging.open => View = stored
  PROVE  LinkOK(h.step, Append(q, Asked(h)), back)
<1> DEFINE a == Asked(h)
<1>1. /\ a \in Request
      /\ h.step \in {"hello", "live"} => a.op # "write"
      /\ h.step \in {"hello", "write", "verify"} => a # WholeRead
  <2>1. h.step \in {"write", "verify"} => h.block # Whole
    BY Blocks DEF Placed, Whole
  <2> QED BY <2>1, AskedIs
<1> HIDE DEF a
<1>2. h.step \in {"hello", "live"} => NoWrites(Append(q, a)) /\ Foremost(Append(q, a))
  BY <1>1, RequestAdded DEF LinkOK
<1>3. h.step \in {"write", "verify"} =>
        Foremost(Append(q, a)) /\ (AsksWhole(Append(q, a)) => AsksWhole(q))
  BY <1>1, RequestAdded DEF LinkOK
<1>4. LinkOK(h.step, Append(q, a), back)
  <2>1. CASE h.step \in {"hello", "live"}
    BY <1>2, <2>1 DEF LinkOK
  <2>2. CASE h.step \in {"write", "verify"}
    BY <1>3, <2>2 DEF LinkOK
  <2>3. CASE h.step \notin {"hello", "live", "write", "verify"}
    BY <2>3 DEF LinkOK
  <2> QED BY <2>1, <2>2, <2>3
<1> QED BY <1>4 DEF a

\* An answer that fits takes the session on, and what it read of the image is
\* still there.
LEMMA AnswerTakesOn ==
  ASSUME ImageInv, ~Ended, toHost # <<>>, Head(toHost).request = Asked(host),
         GoesOn(Stepped(host, Head(toHost).data)), toHost' = Tail(toHost)
  PROVE  LinkOK(host'.step, toRadio', toHost')
<1> DEFINE d == Head(toHost).data
           n == Stepped(host, d)
<1>1. /\ host \in Host /\ Placed(host) /\ host.step \notin {"done", "failed"}
      /\ toRadio \in Seq(Request) /\ toHost \in Seq(Reply)
      /\ stored \subseteq View /\ View \subseteq Image
      /\ ~staging.open => View = stored
  BY ViewIs, CommittedIs DEF ImageInv, HostTypeInv, HostTypeOK, Ended
<1>2. d \in SUBSET Image
  <2>1. Head(toHost) \in Reply
    BY <1>1
  <2> QED BY <2>1 DEF Reply
<1>3. LinkOK(host.step, toRadio, toHost')
  BY FewerAnswers DEF ImageInv
<1>4. host.step = "final" /\ ~harm.image => d \subseteq View
  <2>1. host.step = "final" => Asked(host) = WholeRead
    BY <1>1, AskedIs DEF Placed
  <2>2. host.step = "final" /\ ~harm.image => Within(toHost, View)
    BY DEF ImageInv, LinkOK
  <2> QED BY <2>1, <2>2, <1>1, AnswersWithin
<1>5. /\ n \in Host /\ Placed(n)
      /\ host.step = "hello" => n.step = "live"
      /\ host.step = "live" => n.step \in {"write", "final"}
      /\ host.step = "write" => n.step = "verify"
      /\ host.step = "verify" => n.step \in {"write", "final", "failed"}
      /\ host.step = "final" => (n.step = "failed" \/ (n.step = "place" /\ d = Image))
      /\ host.step = "place" => n.step \in {"place", "done"}
  <2> HIDE DEF d
  <2> QED BY <1>1, <1>2, SteppedIs DEF n
<1>6. GoesOn(n)
  OBVIOUS
<1> HIDE DEF n, d
<1>7. LinkOK(n.step, toRadio, toHost')
  <2>1. Within(toHost', stored) => Within(toHost', View)
    <3>1. toHost' \in Seq(Reply)
      BY <1>1
    <3> QED BY <3>1, <1>1, AnswersWithin
  <2>2. NoWrites(toRadio) => Foremost(toRadio)
    BY <1>1, RequestAdded, AskedIs
  <2>3. host.step \in Steps
    BY <1>1 DEF Host
  <2>4. host.step = "final" /\ n.step = "place" /\ ~harm.image => View = Image
    BY <1>1, <1>4, <1>5
  <2> QED BY <1>1, <1>3, <1>5, <2>1, <2>2, <2>3, <2>4 DEF LinkOK, Steps
<1>8. CASE n.step \in {"done", "failed"}
  BY <1>6, <1>7, <1>8 DEF GoesOn
<1>9. CASE n.step \notin {"done", "failed"}
  <2>1. LinkOK(n.step, Append(toRadio, Asked(n)), toHost')
    BY <1>1, <1>5, <1>7, <1>9, AsksAgain
  <2> QED BY <1>6, <1>9, <2>1 DEF GoesOn
<1> QED BY <1>8, <1>9

LEMMA HostKeepsLink ==
  ASSUME ImageInv, HostReceives \/ HostWaits
  PROVE  LinkOK(host'.step, toRadio', toHost')
<1>1. /\ HostTypeInv /\ host \in Host /\ Placed(host)
      /\ host.step \notin {"done", "failed"} /\ ~Ended
      /\ toRadio \in Seq(Request) /\ toHost \in Seq(Reply)
      /\ LinkOK(host.step, toRadio, toHost)
      /\ ~staging.open => View = stored
  BY ViewIs DEF ImageInv, HostTypeInv, HostTypeOK, Ended, HostReceives, HostWaits
<1>2. ASSUME Resends, toHost' = <<>>
      PROVE  LinkOK(host'.step, toRadio', toHost')
  <2>1. LinkOK(host.step, toRadio, <<>>)
    BY <1>1, FewerAnswers
  <2>2. LinkOK(host.step, Append(toRadio, Asked(host)), <<>>)
    BY <1>1, <2>1, AsksAgain
  <2> QED BY <1>2, <2>2 DEF Resends
<1>3. ASSUME GivesUp PROVE LinkOK(host'.step, toRadio', toHost')
  BY <1>3 DEF GivesUp, LinkOK
<1>4. CASE HostWaits
  BY <1>1, <1>2, <1>3, <1>4, HostWaitsIs
<1>5. CASE HostReceives
  <2>1. CASE /\ Head(toHost).request = Asked(host)
             /\ GoesOn(Stepped(host, Head(toHost).data))
             /\ toHost' = Tail(toHost)
    BY <1>1, <1>5, <2>1, HostReceivesIs, AnswerTakesOn
  <2>2. CASE /\ host'.step = host.step /\ host'.block = host.block
             /\ toRadio' = toRadio /\ toHost' = Tail(toHost)
    <3>1. LinkOK(host.step, toRadio, Tail(toHost))
      BY <1>1, <1>5, HostReceivesIs, FewerAnswers
    <3> QED BY <2>2, <3>1
  <2> QED BY <1>1, <1>2, <1>3, <1>5, <2>1, <2>2, HostReceivesIs
<1> QED BY <1>4, <1>5

LEMMA HostKeepsImage ==
  ASSUME ImageInv, HostReceives \/ HostWaits
  PROVE  ImageInv'
<1>1. UNCHANGED <<radioVars, harm>>
  BY DEF HostReceives, HostWaits
<1>2. HostTypeInv'
  BY TypesKept DEF ImageInv, Next, HostNext
<1>3. RadioInv'
  BY <1>1 DEF ImageInv, RadioInv, radioVars, Loaded, View, Committed
<1>4. LinkOK(host.step, toRadio, toHost)'
  BY <1>1, HostKeepsLink DEF LinkOK, radioVars, View
<1> QED BY <1>2, <1>3, <1>4 DEF ImageInv

LEMMA LoseKeepsImage ==
  ASSUME ImageInv, Lose
  PROVE  ImageInv'
<1>1. /\ HostTypeInv /\ toRadio \in Seq(Request) /\ toHost \in Seq(Reply)
      /\ LinkOK(host.step, toRadio, toHost)
  BY DEF ImageInv, HostTypeInv, HostTypeOK
<1>2. UNCHANGED <<host, radioVars, harm>>
  BY DEF Lose
<1>3. HostTypeInv'
  BY TypesKept DEF ImageInv, Next
<1>4. RadioInv'
  BY <1>2 DEF ImageInv, RadioInv, radioVars, Loaded, View, Committed
<1>5. LinkOK(host.step, toRadio', toHost')
  <2>1. CASE toRadio # <<>> /\ toRadio' = Tail(toRadio) /\ UNCHANGED toHost
    <3>1. /\ NoWrites(toRadio) => NoWrites(toRadio')
          /\ Foremost(toRadio) => Foremost(toRadio')
          /\ AsksWhole(toRadio') => AsksWhole(toRadio)
      BY <1>1, <2>1, RequestTaken
    <3> QED BY <1>1, <2>1, <3>1 DEF LinkOK
  <2>2. CASE toHost # <<>> /\ toHost' = Tail(toHost) /\ UNCHANGED toRadio
    BY <1>1, <2>2, FewerAnswers
  <2> QED BY <2>1, <2>2 DEF Lose
<1>6. LinkOK(host.step, toRadio, toHost)'
  BY <1>2, <1>5 DEF LinkOK, radioVars, View
<1> QED BY <1>3, <1>4, <1>6 DEF ImageInv

\* A whole reading is answered with what a session may take for its own.
LEMMA AnswerKeepsImage ==
  ASSUME ImageInv, Answered
  PROVE  ImageInv'
<1>1. /\ HostTypeInv /\ toRadio \in Seq(Request) /\ toHost \in Seq(Reply)
      /\ LinkOK(host.step, toRadio, toHost) /\ View \subseteq Image
      /\ toRadio # <<>> /\ toRadio' = Tail(toRadio)
  BY CommittedIs DEF ImageInv, HostTypeInv, HostTypeOK, Answered
<1>2. UNCHANGED <<host, radioVars, harm>>
  BY DEF Answered
<1>3. HostTypeInv'
  BY TypesKept DEF ImageInv, Next, SerialNext
<1>4. RadioInv'
  BY <1>2 DEF ImageInv, RadioInv, radioVars, Loaded, View, Committed
<1> DEFINE d == IF Head(toRadio).op = "hello" THEN {}
               ELSE IF Head(toRadio).block = Whole THEN View
               ELSE View \cap {Head(toRadio).block}
           r == [request |-> Head(toRadio), data |-> d]
<1>5. toHost' = Append(toHost, r) /\ r.request = Head(toRadio) /\ r.data = d
  BY DEF Answered, Replied
<1>6. r \in Reply
  <2>1. Head(toRadio) \in Request
    BY <1>1
  <2>2. d \in SUBSET Image
    BY <1>1
  <2> HIDE DEF d
  <2> QED BY <2>1, <2>2 DEF Reply
<1>7. Head(toRadio) = WholeRead => d = View
  BY DEF WholeRead
<1> HIDE DEF d, r
<1>8. /\ NoWrites(toRadio) => NoWrites(toRadio')
      /\ Foremost(toRadio) => Foremost(toRadio')
      /\ AsksWhole(toRadio') => AsksWhole(toRadio)
      /\ Head(toRadio) = WholeRead => AsksWhole(toRadio)
  BY <1>1, RequestTaken
<1>9. Within(toHost, View) => Within(toHost', View)
  BY <1>1, <1>5, <1>6, <1>7, AnswersWithin
<1>10. Within(toHost, stored) /\ (AsksWhole(toRadio) => View = stored)
         => Within(toHost', stored)
  BY <1>1, <1>5, <1>6, <1>7, <1>8, AnswersWithin
<1>11. LinkOK(host.step, toRadio', toHost')
  BY <1>1, <1>8, <1>9, <1>10 DEF LinkOK
<1>12. LinkOK(host.step, toRadio, toHost)'
  BY <1>2, <1>11 DEF LinkOK, radioVars, View
<1> QED BY <1>3, <1>4, <1>12 DEF ImageInv

\* A write opens, or a block enters it, and nothing that could be read is lost.
LEMMA StagesKeepsView ==
  ASSUME HostTypeInv, RadioInv, UNCHANGED stored,
         \/ staging' = staging \/ staging' = Opened
         \/ \E b \in Image : Stages(b)
  PROVE  /\ View \subseteq View'
         /\ ~staging'.open => staging' = Shut
         /\ stored \subseteq Committed'
<1>1. /\ staging \in Staging /\ Opened \in Staging
      /\ stored \subseteq Committed /\ stored \subseteq View
      /\ ~staging.open => staging = Shut /\ View = stored
  BY OpenedIs, ViewIs DEF HostTypeInv, HostTypeOK, RadioInv
<1>2. /\ Opened.open /\ Opened.spoilt = staging.spoilt /\ Opened.blocks = staging.blocks
      /\ stored \subseteq (Opened.blocks \cup Opened.kept) \ Opened.spoilt
  <2>1. CASE staging.open
    BY <1>1, <2>1 DEF Opened, Committed
  <2>2. CASE ~staging.open
    BY <1>1, <2>2 DEF Opened, Shut
  <2> QED BY <2>1, <2>2
<1>3. CASE staging' = staging
  BY <1>1, <1>3 DEF View, Committed
<1>4. CASE staging' = Opened
  BY <1>2, <1>4 DEF View, Committed
<1>5. ASSUME NEW b \in Image, Stages(b)
      PROVE  /\ View \subseteq View' /\ staging'.open
             /\ stored \subseteq Committed'
  <2>1. CASE b \notin staging.spoilt /\ staging' = [Opened EXCEPT !.blocks = @ \cup {b}]
    <3>1. /\ staging'.open /\ staging'.blocks = staging.blocks \cup {b}
          /\ staging'.kept = Opened.kept /\ staging'.spoilt = staging.spoilt
      BY <1>1, <1>2, <2>1 DEF Staging
    <3> QED BY <1>2, <2>1, <3>1 DEF View, Committed
  <2>2. CASE /\ staging.tried /\ b \notin staging.blocks \cup staging.kept
             /\ staging' = [staging EXCEPT !.spoilt = @ \cup {b}]
    <3>1. staging.open
      BY <1>1, <2>2 DEF Shut
    <3>2. /\ staging'.open /\ staging'.blocks = staging.blocks
          /\ staging'.kept = staging.kept /\ staging'.spoilt = staging.spoilt \cup {b}
      BY <1>1, <2>2, <3>1 DEF Staging
    <3>3. stored \subseteq (staging.blocks \cup staging.kept) \ staging.spoilt
      BY <1>1, <3>1 DEF Committed
    <3> QED BY <2>2, <3>2, <3>3 DEF View, Committed
  <2> QED BY <1>5, <2>1, <2>2 DEF Stages
<1> QED BY <1>1, <1>2, <1>3, <1>4, <1>5

LEMMA WriteKeepsImage ==
  ASSUME ImageInv, Write
  PROVE  ImageInv'
<1> DEFINE b == Head(toRadio).block
           r == [request |-> Head(toRadio), data |-> {}]
<1>1. /\ HostTypeInv /\ toRadio \in Seq(Request) /\ toHost \in Seq(Reply)
      /\ LinkOK(host.step, toRadio, toHost) /\ radio \in Radio /\ RadioInv
      /\ toRadio # <<>> /\ toRadio' = Tail(toRadio) /\ Head(toRadio).op = "write"
      /\ ~radio.loading
  BY DEF ImageInv, HostTypeInv, HostTypeOK, Write, Serves
<1>2. /\ UNCHANGED <<host, stored, harm>>
      /\ toHost' = Append(toHost, r) \/ toHost' = toHost
      /\ StoresImage(b) \/ StoresPlace(b) \/ Refuses(b)
  BY DEF Write, Replied
<1>3. HostTypeInv'
  BY TypesKept DEF ImageInv, Next, SerialNext
<1>4. r \in Reply /\ r.request # WholeRead
  <2>1. Head(toRadio) \in Request
    BY <1>1
  <2> QED BY <2>1, <1>1 DEF Reply, WholeRead
<1> HIDE DEF b, r
<1>5. radio'.written /\ ~radio'.loading
  BY <1>1, <1>2 DEF Radio, StoresImage, StoresPlace, Refuses
<1>6. /\ View \subseteq View' /\ View' \subseteq Image
      /\ ~staging'.open => staging' = Shut
      /\ stored \subseteq Committed'
  <2>1. \/ staging' = staging \/ staging' = Opened
        \/ \E c \in Image : Stages(c)
    BY <1>2 DEF StoresImage, StoresPlace, Refuses
  <2>2. View' \subseteq Image
    BY <1>3 DEF HostTypeInv, HostTypeOK, Staging, View
  <2> QED BY <1>1, <1>2, <2>1, <2>2, StagesKeepsView
<1>7. RadioInv'
  BY <1>2, <1>5, <1>6 DEF RadioInv
<1>8. ASSUME NEW S, Within(toHost, S) PROVE Within(toHost', S)
  <2>1. Within(Append(toHost, r), S)
    BY <1>1, <1>4, <1>8, AnswersWithin
  <2> QED BY <1>2, <1>8, <2>1
<1>9. Within(toHost', View) => Within(toHost', View')
  BY <1>3, <1>6, AnswersWithin DEF HostTypeInv, HostTypeOK
<1>10. /\ host.step \notin {"hello", "live"}
       /\ Foremost(toRadio) => Foremost(toRadio') /\ ~AsksWhole(toRadio')
  BY <1>1, RequestTaken DEF LinkOK
<1>11. LinkOK(host.step, toRadio, toHost)'
  BY <1>1, <1>2, <1>6, <1>8, <1>9, <1>10 DEF LinkOK
<1> QED BY <1>3, <1>7, <1>11 DEF ImageInv

\* On a quiet link nobody asks for the image and no answer is under way, or the
\* session is over.  A commit that fails after the last reading was asked for ends
\* what is promised; any other takes in all that could be read.
LEMMA ReloadKeepsImage ==
  ASSUME ImageInv, Reload
  PROVE  ImageInv'
<1>1. /\ HostTypeInv /\ radio \in Radio /\ staging \in Staging /\ RadioInv
      /\ LinkOK(host.step, toRadio, toHost) /\ toRadio = <<>>
      /\ toHost = <<>> \/ host.step \in {"done", "failed"}
      /\ View \subseteq Committed
      /\ harm \in [image : BOOLEAN, place : BOOLEAN]
  BY ViewIs DEF ImageInv, HostTypeInv, HostTypeOK, Reload, Quiet, Ended
<1>2. /\ UNCHANGED hostVars
      /\ radio' = [radio EXCEPT !.written = FALSE, !.gathered = {}, !.loading = TRUE]
      /\ harm'.image = (harm.image \/ (staging'.open /\ ReadBack))
      /\ CommitSucceeds \/ CommitFails
  BY DEF Reload
<1>3. HostTypeInv'
  BY TypesKept DEF ImageInv, Next, SerialNext
<1>4. ~radio'.written /\ radio'.loading
  BY <1>1, <1>2 DEF Radio
<1>5. /\ ~staging'.open => staging' = Shut
      /\ stored' \subseteq Committed'
      /\ View \subseteq View' \/ (staging.open /\ staging'.open)
  <2>1. CASE CommitSucceeds
    BY <1>1, <2>1 DEF CommitSucceeds, Shut, View, Committed
  <2>2. CASE CommitFails
    <3>1. /\ staging.open /\ stored' \subseteq Committed
          /\ staging' = [staging EXCEPT !.tried = TRUE]
      BY <2>2 DEF CommitFails
    <3>2. /\ staging'.open /\ staging'.blocks = staging.blocks
          /\ staging'.kept = staging.kept /\ staging'.spoilt = staging.spoilt
      BY <1>1, <3>1 DEF Staging
    <3> QED BY <3>1, <3>2 DEF Committed
  <2> QED BY <1>2, <2>1, <2>2
<1>6. RadioInv'
  BY <1>4, <1>5 DEF RadioInv
<1>7. /\ \A S : Within(<<>>, S)
      /\ NoWrites(<<>>) /\ Foremost(<<>>) /\ ~AsksWhole(<<>>)
  BY DEF Within, NoWrites, Foremost, AsksWhole
<1>8. CASE host.step \in {"hello", "live", "write", "verify"}
  <2>1. toHost = <<>>
    BY <1>1, <1>8
  <2>2. ~staging.open => ~staging'.open
    BY <1>2 DEF CommitSucceeds, CommitFails, Shut
  <2> QED BY <1>1, <1>2, <1>3, <1>6, <1>7, <1>8, <2>1, <2>2 DEF ImageInv, LinkOK, hostVars
<1>9. CASE host.step \in {"final", "place", "done"}
  <2>1. harm'.image \/ (~harm.image /\ View \subseteq View')
    BY <1>2, <1>5, <1>9 DEF ReadBack, Sent
  <2>2. View' \subseteq Image
    BY <1>3 DEF HostTypeInv, HostTypeOK, Staging, View
  <2>3. host.step = "final" => toHost = <<>>
    BY <1>1
  <2> QED BY <1>1, <1>2, <1>3, <1>6, <1>7, <1>9, <2>1, <2>2, <2>3 DEF ImageInv, LinkOK, hostVars
<1>10. CASE host.step = "failed"
  BY <1>2, <1>3, <1>6, <1>10 DEF ImageInv, LinkOK, hostVars
<1>11. host.step \in Steps
  BY <1>1 DEF HostTypeInv, HostTypeOK, Host
<1> QED BY <1>8, <1>9, <1>10, <1>11 DEF Steps

LEMMA PublishKeepsImage ==
  ASSUME ImageInv, Publish \/ TakePlace \/ SaveRuns \/ SaveFails
  PROVE  ImageInv'
<1>1. /\ radio \in Radio /\ LinkOK(host.step, toRadio, toHost) /\ RadioInv
      /\ harm \in [image : BOOLEAN, place : BOOLEAN]
  BY DEF ImageInv, HostTypeInv, HostTypeOK
<1>2. UNCHANGED <<host, toRadio, toHost, stored, staging>>
  BY DEF Publish, TakePlace, SaveRuns, SaveFails, hostVars, radioVars
<1>3. HostTypeInv'
  BY TypesKept DEF ImageInv, Next, SerialNext
<1>4. harm'.image = harm.image
  BY <1>1 DEF Publish, TakePlace, SaveRuns, SaveFails
<1>5. View' = View /\ Committed' = Committed
  BY <1>2 DEF View, Committed
<1>6. RadioInv'
  <2>1. CASE Publish
    <3>1. /\ radio' = [radio EXCEPT !.loading = FALSE, !.placeWritten = FALSE]
          /\ running' \in {Loaded(View), "unread"}
      BY <2>1 DEF Publish, Loads
    <3>2. ~radio'.loading
      BY <3>1, <1>1 DEF Radio
    <3> QED BY <3>1, <3>2, <1>1, <1>2, <1>5 DEF RadioInv, Loaded
  <2>2. CASE TakePlace \/ SaveRuns \/ SaveFails
    <3>1. UNCHANGED <<radio, running>>
      BY <2>2 DEF TakePlace, SaveRuns, SaveFails, radioVars
    <3> QED BY <3>1, <1>1, <1>2, <1>5 DEF RadioInv, Loaded
  <2> QED BY <2>1, <2>2
<1>7. LinkOK(host.step, toRadio, toHost)'
  BY <1>1, <1>2, <1>4, <1>5 DEF LinkOK
<1> QED BY <1>3, <1>6, <1>7 DEF ImageInv

\* What was staged is gone, and so is every request; a session that had already
\* asked for its last reading with a write open is promised nothing more.
LEMMA RestartKeepsImage ==
  ASSUME ImageInv, Restart
  PROVE  ImageInv'
<1>1. /\ HostTypeInv /\ RadioInv /\ LinkOK(host.step, toRadio, toHost)
      /\ toHost \in Seq(Reply)
      /\ ~staging.open => View = stored
  BY ViewIs DEF ImageInv, HostTypeInv, HostTypeOK
<1>2. /\ UNCHANGED <<host, toHost, stored>> /\ toRadio' = <<>>
      /\ radio' = NewRadio /\ staging' = Shut
      /\ harm'.image = (harm.image \/ (staging.open /\ ReadBack))
  BY DEF Restart
<1>3. HostTypeInv'
  BY TypesKept DEF ImageInv, Next
<1>4. View' = stored /\ RadioInv'
  BY <1>2 DEF NewRadio, RadioInv, Shut, View, Committed
<1>5. NoWrites(toRadio') /\ Foremost(toRadio')
  BY <1>2 DEF NoWrites, Foremost
<1>6. ~staging'.open
  BY <1>2 DEF Shut
<1>7. host.step \in {"final", "place", "done"} /\ ~harm'.image =>
        ~harm.image /\ View' = View
  BY <1>1, <1>2, <1>4 DEF ReadBack, Sent
<1>8. LinkOK(host.step, toRadio, toHost)'
  BY <1>1, <1>2, <1>4, <1>5, <1>6, <1>7 DEF LinkOK
<1> QED BY <1>3, <1>4, <1>8 DEF ImageInv

LEMMA ImageKept == ImageInv /\ [Next]_vars => ImageInv'
<1> SUFFICES ASSUME ImageInv, [Next]_vars PROVE ImageInv'
  OBVIOUS
<1>1. CASE UNCHANGED vars
  <2>1. HostTypeInv'
    BY TypesKept DEF ImageInv
  <2> QED BY <1>1, <2>1 DEF vars, hostVars, radioVars, ImageInv, RadioInv, LinkOK, Loaded,
                     View, Committed
<1>2. CASE HostNext
  BY <1>2, HostKeepsImage DEF HostNext
<1>3. CASE Lose
  BY <1>3, LoseKeepsImage
<1>4. CASE Answered \/ Write \/ Reload
  BY <1>4, AnswerKeepsImage, WriteKeepsImage, ReloadKeepsImage
<1>5. CASE Publish \/ TakePlace \/ SaveRuns \/ SaveFails
  BY <1>5, PublishKeepsImage
<1>6. CASE Restart
  BY <1>6, RestartKeepsImage
<1> QED BY <1>1, <1>2, <1>3, <1>4, <1>5, <1>6 DEF Next, SerialNext

\* From the end of the last reading on the radio holds the whole image, and runs
\* it whenever it takes no write and loads nothing, however many messages were
\* lost, late or repeated, blocks refused and commits failed before, and wherever
\* in the write it reloaded.  Promised are neither a commit that fails nor a write
\* cut off uncommitted after that reading was asked for, and a load that cannot
\* read the memory leaves no image.
THEOREM VerifiedImageRuns == Spec => []VerifiedRuns
<1>1. ImageInv => VerifiedRuns
  <2> SUFFICES ASSUME ImageInv, Sent, ~harm.image
               PROVE  /\ View = Image
                      /\ (~radio.written /\ ~radio.loading => running \in {"new", "unread"})
    BY DEF VerifiedRuns
  <2>1. View = Image
    BY DEF ImageInv, LinkOK, Sent
  <2>2. ~radio.written /\ ~radio.loading => running \in {Loaded(Image), "unread"}
    BY <2>1 DEF ImageInv, RadioInv
  <2> QED BY <2>1, <2>2 DEF Loaded
<1> QED BY <1>1, ImageAtFirst, ImageKept, PTL DEF Spec
=============================================================================
