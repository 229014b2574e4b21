------------------------------ MODULE PlaceLog ------------------------------
(***************************************************************************)
(* Where the operator left the K1: a log of records in one erase sector    *)
(* (radio-firmware-k1: py32f071_eeprom.rs over radio-eeprom's driver).     *)
(*                                                                         *)
(* A save programs the next erased slot and leaves the others alone; only  *)
(* a full sector is erased first.  The next slot is known in RAM once the  *)
(* sector has been walked.  Each save is an erase, if one is due, and a    *)
(* program; each may fail, done or not, and the battery may be pulled in   *)
(* it.  A walk may meet a bus that stops answering.                        *)
(***************************************************************************)
EXTENDS Integers

CONSTANTS
    Place,   \* operator states a record holds
    Slots,   \* records the sector holds
    Erased,  \* a slot never programmed
    Torn,    \* a slot whose checksum is refused
    None     \* an absent Option

Slot == 0..(Slots - 1)
Log == [Slot -> Place \cup {Erased, Torn}]

ASSUME PlaceAssumption ==
    /\ Slots \in Nat \ {0}
    /\ Erased \notin Place /\ Torn \notin Place /\ Erased # Torn
    /\ None \notin Place /\ None \notin 0..Slots

VARIABLES
    log,      \* the sector
    next,     \* RetainedConfiguration::next_slot
    save,     \* the write_operator_state under way
    recent,   \* what a whole walk may find (history)
    programs  \* programs since the last erase that was confirmed (history)

placeVars == <<log, next, save, recent, programs>>

Save == [op : {"idle", "erase", "program"}, place : Place \cup {None}, slot : 0..Slots]
Idle == [op |-> "idle", place |-> None, slot |-> 0]
Blank == [s \in Slot |-> Erased]

PlaceInit ==
    /\ log = Blank /\ next = None /\ save = Idle
    /\ recent = {None} /\ programs = 0

-----------------------------------------------------------------------------
(* The walk.                                                               *)

Decodes(s) == log[s] \in Place

\* The last whole record of the first n slots; a torn one is walked past.
Latest(n) ==
    IF \E s \in 0..(n - 1) : Decodes(s)
      THEN log[CHOOSE s \in 0..(n - 1) :
                 Decodes(s) /\ \A r \in (s + 1)..(n - 1) : ~Decodes(r)]
      ELSE None

\* The slot after the last that is not erased.
FreeAfterRecord ==
    CHOOSE f \in 0..Slots :
      /\ \A s \in f..(Slots - 1) : ~Decodes(s)
      /\ f > 0 => Decodes(f - 1)
Free ==
    CHOOSE f \in 0..Slots :
      /\ \A s \in f..(Slots - 1) : log[s] = Erased
      /\ f > 0 => log[f - 1] # Erased

\* read_operator_state finds the place, and knows the next slot if the bus
\* answers to the end.
Walk(found) ==
    \/ found = Latest(Slots) /\ next' = Free
    \/ \E n \in Slot : found = Latest(n) /\ next' = None

ReadPlace ==
    /\ save = Idle
    /\ \E found \in Place \cup {None} : Walk(found)
    /\ UNCHANGED <<log, save, recent, programs>>

-----------------------------------------------------------------------------
(* write_operator_state.                                                   *)

FullEarly(slot) == slot >= Slots - 1
Full(slot) == slot >= Slots

Saving(place, slot) ==
    [op |-> IF Full(slot) THEN "erase" ELSE "program", place |-> place, slot |-> slot]

\* The sector is walked first if it has not been; a save that cannot walk it
\* is given up.
BeginSave(place) ==
    /\ save = Idle
    /\ \/ next # None /\ save' = Saving(place, next) /\ UNCHANGED next
       \/ next = None /\ next' = Free /\ save' = Saving(place, Free)
    /\ UNCHANGED <<log, recent, programs>>

Unreadable ==
    /\ save = Idle /\ next = None
    /\ UNCHANGED placeVars

Erase ==
    /\ save.op = "erase"
    /\ log' = Blank
    /\ save' = [save EXCEPT !.op = "program", !.slot = 0]
    /\ recent' = {None} /\ programs' = 0
    /\ UNCHANGED next

\* The command is refused, or obeyed and its end not seen.
EraseFails ==
    /\ save.op = "erase"
    /\ log' \in {log, Blank}
    /\ save' = Idle
    /\ recent' = recent \cup {None}
    /\ UNCHANGED <<next, programs>>

\* Programming clears bits: over anything but erased bytes nothing readable
\* comes of it.
Programmed ==
    [log EXCEPT ![save.slot] = IF @ \in {Erased, save.place} THEN save.place ELSE Torn]

Cut == [log EXCEPT ![save.slot] = Torn]

Counted == IF programs < Slots THEN programs + 1 ELSE programs

\* The slot is spent before the program is issued.
Program ==
    /\ save.op = "program"
    /\ next' = save.slot + 1
    /\ log' = Programmed
    /\ save' = Idle
    /\ recent' = {save.place} /\ programs' = Counted

ProgramFails ==
    /\ save.op = "program"
    /\ next' = save.slot + 1
    /\ log' \in {log, Cut, Programmed}
    /\ save' = Idle
    /\ recent' = recent \cup {save.place} /\ programs' = Counted

\* The battery is pulled.  An erase cut short leaves slots as they were,
\* erased, or unreadable.
PowerCut ==
    /\ save' = Idle /\ next' = None
    /\ \/ /\ save.op = "idle"
          /\ UNCHANGED <<log, recent, programs>>
       \/ /\ save.op = "erase"
          /\ log' \in Log
          /\ \A s \in Slot : log'[s] \in {log[s], Erased, Torn}
          /\ recent' = recent \cup {None} \cup {log[s] : s \in {r \in Slot : Decodes(r)}}
          /\ UNCHANGED programs
       \/ /\ save.op = "program"
          /\ log' \in {log, Cut, Programmed}
          /\ recent' = recent \cup {save.place} /\ programs' = Counted

PlaceNext ==
    \/ \E place \in Place : BeginSave(place)
    \/ ReadPlace \/ Unreadable
    \/ Erase \/ EraseFails \/ Program \/ ProgramFails
    \/ PowerCut

PlaceSpec == PlaceInit /\ [][PlaceNext]_placeVars

-----------------------------------------------------------------------------
(* Properties.                                                             *)

PlaceTypeOK ==
    /\ log \in Log /\ next \in 0..Slots \cup {None} /\ save \in Save
    /\ recent \subseteq Place \cup {None}
    /\ programs \in 0..Slots

\* A whole walk finds the place last recorded, or one whose recording was tried
\* since and not confirmed; none at all only between an erase and the program
\* after it, and an older one only after an erase the battery was pulled in.
KeepsLastPlace == Latest(Slots) \in recent

\* A slot is programmed once between erases: what follows the next slot, and
\* the slot a save has chosen, are erased.
SlotsProgrammedOnce ==
    /\ next # None /\ save.op = "idle" => \A s \in next..(Slots - 1) : log[s] = Erased
    /\ save.op = "program" => log[save.slot] = Erased

\* py32f071_eeprom.rs: the sector is erased once every so many saves.  No erase
\* is begun before every slot has been programmed since the last one done.
ErasesWhenSpent == save.op = "erase" => programs = Slots
=============================================================================
