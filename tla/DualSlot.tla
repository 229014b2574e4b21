------------------------------ MODULE DualSlot ------------------------------
(***************************************************************************)
(* The two relative slots that hold the configuration of an object device, *)
(* crates/radio-storage/src/dual_slot.rs: which slot is in force, and the  *)
(* update of the other one, block by block, over a memory whose every      *)
(* operation may fail and whose power may go at any time.                  *)
(*                                                                         *)
(* A checksum stands for what it covers: a header names the generation and *)
(* the image it was computed from, a payload block its image, a commit     *)
(* marker both.  A block whose write was interrupted is Torn, which no     *)
(* checksum accepts; the erased tag does not authenticate anything either. *)
(***************************************************************************)
EXTENDS Integers

CONSTANTS
    Image,     \* canonical configuration images
    Parts,     \* number of payload blocks of a slot
    GenMod,    \* generations are counted modulo this number
    Earlier,   \* the generation and image a memory used before may hold
    None

ASSUME SlotAssumption ==
    /\ Parts \in Nat \ {0}
    /\ GenMod \in Nat /\ GenMod > 4
    /\ Earlier \subseteq [gen : 1 .. GenMod - 1, image : Image]
    /\ None \notin Image \cup {0, 1}

VARIABLES
    slots,     \* what the blocks of both slots hold
    update     \* the update under way: its slot, generation, image and block

slotVars == <<slots, update>>

Slot == {0, 1}
Header == 0
Payload == 1 .. Parts
Commit == Parts + 1
Block == Header .. Commit
Generation == 0 .. GenMod - 1

Content == [at : {-2, -1} \cup Block, gen : Generation, image : Image \cup {None}]
Erased == [at |-> -1, gen |-> 0, image |-> None]
Torn == [at |-> -2, gen |-> 0, image |-> None]
EmptySlot == [b \in Block |-> Erased]

(* One block of the slot that holds an image: a payload block does not     *)
(* know its generation.                                                    *)
Encoded(b, g, im) ==
    [at |-> b, gen |-> IF b \in Payload THEN 0 ELSE g, image |-> im]

(* The erased commit block that comes first, then the blocks in order.     *)
Tombstone == -1
Target(at) == IF at = Tombstone THEN Commit ELSE at
Replacement(u) == IF u.at = Tombstone THEN Erased ELSE Encoded(u.at, u.gen, u.image)

Meta == [gen : Generation \ {0}, image : Image]
Update == [slot : Slot, gen : Generation \ {0}, image : Image, at : Tombstone .. Commit]

ASSUME NoneAssumption == None \notin Meta /\ None \notin Update

ValidMeta(s) ==
    LET g == s[Header].gen
        im == s[Header].image
    IN  IF /\ im \in Image
           /\ g # 0
           /\ \A b \in Block : s[b] = Encoded(b, g, im)
        THEN [gen |-> g, image |-> im]
        ELSE None

(* The second slot wins only when it is ahead by less than half the range. *)
Difference(g, h) == IF g >= h THEN g - h ELSE g - h + GenMod
Ahead(g, h) == g # h /\ 2 * Difference(g, h) < GenMod

(* Mutant: the first valid slot is taken.                                  *)
NewestSlotFirst(ss) ==
    IF ValidMeta(ss[0]) # None THEN 0 ELSE IF ValidMeta(ss[1]) # None THEN 1 ELSE None

NewestSlot(ss) ==
    LET first == ValidMeta(ss[0])
        second == ValidMeta(ss[1])
    IN  IF first = None /\ second = None THEN None
        ELSE IF first = None THEN 1
        ELSE IF second = None THEN 0
        ELSE IF Ahead(second.gen, first.gen) THEN 1 ELSE 0

NextGeneration(g) == IF g = GenMod - 1 THEN 1 ELSE g + 1

(* What a start reads back: the newest valid slot, or nothing.             *)
Load(ss) == IF NewestSlot(ss) = None THEN None ELSE ValidMeta(ss[NewestSlot(ss)])

(* A memory that was never used, or that earlier updates left complete.    *)
InitSlots ==
    /\ \/ slots = [s \in Slot |-> EmptySlot]
       \/ \E e \in Earlier :
              slots = [s \in Slot |-> IF s = 0 THEN [b \in Block |-> Encoded(b, e.gen, e.image)]
                                               ELSE EmptySlot]
    /\ update = None

(* Mutant: the slot in force is updated.                                   *)
UpdatingInPlace(im) ==
    LET newest == NewestSlot(slots)
    IN  IF newest = None
        THEN [slot |-> 0, gen |-> 1, image |-> im, at |-> Tombstone]
        ELSE [slot |-> newest, image |-> im, at |-> Tombstone,
              gen |-> NextGeneration(ValidMeta(slots[newest]).gen)]

(* An update of the slot that is not in force, or of the first one.        *)
Updating(im) ==
    LET newest == NewestSlot(slots)
    IN  IF newest = None
        THEN [slot |-> 0, gen |-> 1, image |-> im, at |-> Tombstone]
        ELSE [slot |-> 1 - newest, image |-> im, at |-> Tombstone,
              gen |-> NextGeneration(ValidMeta(slots[newest]).gen)]

BeginUpdate(im) ==
    /\ update = None
    /\ update' = Updating(im)
    /\ UNCHANGED slots

(* A block written and read back.                                          *)
Written(ss, u, content) == [ss EXCEPT ![u.slot][Target(u.at)] = content]

WriteBlock ==
    /\ update # None
    /\ update.at < Commit
    /\ slots' = Written(slots, update, Replacement(update))
    /\ update' = [update EXCEPT !.at = @ + 1]

(* The final marker: the update is complete once it reads back.            *)
WriteMarker ==
    /\ update # None
    /\ update.at = Commit
    /\ slots' = Written(slots, update, Replacement(update))
    /\ update' = None

(* A read, a write or a read-back fails, or the power goes: the block may  *)
(* be as it was, as it should be or anything between.                      *)
Interrupted ==
    /\ update # None
    /\ \E content \in {slots[update.slot][Target(update.at)], Torn, Replacement(update)} :
           slots' = Written(slots, update, content)
    /\ update' = None

SlotNext ==
    \/ \E im \in Image : BeginUpdate(im)
    \/ WriteBlock
    \/ WriteMarker
    \/ Interrupted

SlotSpec == InitSlots /\ [][SlotNext]_slotVars

-----------------------------------------------------------------------------

SlotTypeOK ==
    /\ slots \in [Slot -> [Block -> Content]]
    /\ update \in Update \cup {None}

LoadedImage == IF Load(slots) = None THEN None ELSE Load(slots).image
Attempted == IF update = None THEN None ELSE update.image

Stored == INSTANCE AtomicImage WITH image <- LoadedImage, attempt <- Attempted

(* Whatever fails and whenever the power goes, a start reads back the      *)
(* image that was in force or, from one step on, the one being stored:     *)
(* the blocks of load and update (dual_slot.rs) implement one image that   *)
(* is replaced at once.                                                    *)
StoresAtomically == Stored!Spec
=============================================================================
