------------------------ MODULE ObjectDevice_proofs ------------------------
(***************************************************************************)
(* What the two slots, the device and the host keep to, for every set of   *)
(* images, number of blocks, objects and pages, and for any number of      *)
(* losses, repetitions, failures and restarts.                             *)
(***************************************************************************)
EXTENDS ObjectDevice, FiniteSetTheorems, TLAPS

-----------------------------------------------------------------------------
(***************************************************************************)
(* Part 1.  The slots: one image that is replaced at once.                 *)
(***************************************************************************)

(* What an update under way has left: its slot is not the one in force, it *)
(* counts on from the one in force, and what it has written is in place.   *)
UpdateOK ==
    update # None =>
        LET s == update.slot
            other == ValidMeta(slots[1 - s])
        IN  /\ NewestSlot(slots) # s
            /\ other # None => update.gen = NextGeneration(other.gen)
            /\ update.at > Tombstone => slots[s][Commit] = Erased
            /\ \A b \in Block : b < update.at =>
                   slots[s][b] = Encoded(b, update.gen, update.image)

SlotInv == SlotTypeOK /\ UpdateOK

-----------------------------------------------------------------------------

LEMMA BlockNumbers ==
    /\ Commit \in Nat /\ Header \in Block /\ Commit \in Block /\ Commit > 0
    /\ Payload \subseteq Block
    /\ \A at \in Tombstone .. Commit : Target(at) \in Block
    /\ \A b \in Block : b \in Int /\ b >= 0 /\ b <= Commit
BY SlotAssumption DEF Commit, Header, Block, Payload, Target, Tombstone

LEMMA Numbers ==
    /\ GenMod \in Nat /\ GenMod > 4
    /\ 1 \in Generation \ {0}
    /\ \A g \in Generation : g \in Int
BY SlotAssumption DEF Generation

LEMMA ContentTypes ==
    /\ Erased \in Content
    /\ Torn \in Content
    /\ \A b \in Block, g \in Generation, im \in Image : Encoded(b, g, im) \in Content
<1>1. 0 \in Generation
  BY SlotAssumption DEF Generation
<1>2. Erased \in Content /\ Torn \in Content
  BY <1>1 DEF Erased, Torn, Content
<1>3. ASSUME NEW b \in Block, NEW g \in Generation, NEW im \in Image
      PROVE  Encoded(b, g, im) \in Content
  BY <1>1 DEF Encoded, Content
<1>4. QED
  BY <1>2, <1>3

(* A slot authenticates as what its blocks name, or as nothing.            *)
LEMMA MetaType ==
    ASSUME NEW s \in [Block -> Content]
    PROVE  ValidMeta(s) \in Meta \cup {None}
<1>1. s[Header] \in Content
  BY BlockNumbers
<1>2. s[Header].gen \in Generation
  BY <1>1 DEF Content
<1>3. QED
  BY <1>2 DEF ValidMeta, Meta

(* No marker, no slot.                                                     *)
LEMMA Unmarked ==
    ASSUME NEW s, s[Commit] = Erased \/ s[Commit] = Torn
    PROVE  ValidMeta(s) = None
<1>1. s[Commit].at # Commit
  BY BlockNumbers DEF Erased, Torn
<1>2. \A g, im : Encoded(Commit, g, im).at = Commit
  BY DEF Encoded
<1>3. ~ \A b \in Block : s[b] = Encoded(b, s[Header].gen, s[Header].image)
  BY <1>1, <1>2, BlockNumbers
<1>4. QED
  BY <1>3 DEF ValidMeta

(* All blocks in place, and the slot authenticates.                        *)
LEMMA Marked ==
    ASSUME NEW s, NEW g \in Generation \ {0}, NEW im \in Image,
           \A b \in Block : s[b] = Encoded(b, g, im)
    PROVE  ValidMeta(s) = [gen |-> g, image |-> im]
<1>1. Header \notin Payload
  BY DEF Header, Payload
<1>2. s[Header] = [at |-> Header, gen |-> g, image |-> im]
  BY <1>1, BlockNumbers DEF Encoded
<1>3. s[Header].gen = g /\ s[Header].image = im
  BY <1>2
<1>4. QED
  BY <1>3 DEF ValidMeta

LEMMA NextIsAhead ==
    ASSUME NEW g \in Generation \ {0}
    PROVE  /\ NextGeneration(g) \in Generation \ {0}
           /\ Ahead(NextGeneration(g), g)
           /\ ~Ahead(g, NextGeneration(g))
<1>1. NextGeneration(g) \in Generation \ {0}
  BY SlotAssumption DEF NextGeneration, Generation
<1>2. Ahead(NextGeneration(g), g)
  BY SlotAssumption DEF NextGeneration, Generation, Ahead, Difference
<1>3. ~Ahead(g, NextGeneration(g))
  BY SlotAssumption DEF NextGeneration, Generation, Ahead, Difference
<1>4. QED
  BY <1>1, <1>2, <1>3

LEMMA NewestType ==
    ASSUME NEW ss
    PROVE  /\ NewestSlot(ss) \in {0, 1, None}
           /\ NewestSlot(ss) \in {0, 1} => ValidMeta(ss[NewestSlot(ss)]) # None
           /\ NewestSlot(ss) = None => ValidMeta(ss[0]) = None /\ ValidMeta(ss[1]) = None
BY SlotAssumption DEF NewestSlot

(* What is loaded when a slot is known not to be in force, and when it is. *)
LEMMA LoadOther ==
    ASSUME NEW ss, NEW s \in Slot, NewestSlot(ss) # s
    PROVE  Load(ss) = ValidMeta(ss[1 - s])
<1>1. CASE NewestSlot(ss) = None
  BY <1>1, NewestType, SlotAssumption DEF Load, Slot
<1>2. CASE NewestSlot(ss) # None
  <2>1. NewestSlot(ss) = 1 - s
    BY <1>2, NewestType DEF Slot
  <2>2. QED
    BY <1>2, <2>1 DEF Load
<1>3. QED
  BY <1>1, <1>2

LEMMA NotNewest ==
    ASSUME NEW ss, NEW s \in Slot, ValidMeta(ss[s]) = None
    PROVE  NewestSlot(ss) # s
BY NewestType DEF Slot

LEMMA LoadNewest ==
    ASSUME NEW ss, NEW s \in Slot, ValidMeta(ss[s]) # None,
           ValidMeta(ss[1 - s]) # None =>
               /\ Ahead(ValidMeta(ss[s]).gen, ValidMeta(ss[1 - s]).gen)
               /\ ~Ahead(ValidMeta(ss[1 - s]).gen, ValidMeta(ss[s]).gen)
    PROVE  Load(ss) = ValidMeta(ss[s])
<1>1. NewestSlot(ss) = s
  <2>1. CASE s = 0
    BY <2>1 DEF NewestSlot
  <2>2. CASE s = 1
    BY <2>2 DEF NewestSlot
  <2>3. QED
    BY <2>1, <2>2 DEF Slot
<1>2. s # None
  BY SlotAssumption DEF Slot
<1>3. QED
  BY <1>1, <1>2 DEF Load

-----------------------------------------------------------------------------
(* The invariant.                                                          *)

LEMMA SlotInitInv == InitSlots => SlotInv
<1> SUFFICES ASSUME InitSlots PROVE SlotInv
  OBVIOUS
<1>1. update = None
  BY DEF InitSlots
<1>2. EmptySlot \in [Block -> Content]
  BY ContentTypes DEF EmptySlot
<1>3. slots \in [Slot -> [Block -> Content]]
  <2>1. CASE slots = [s \in Slot |-> EmptySlot]
    BY <2>1, <1>2
  <2>2. CASE \E e \in Earlier :
              slots = [s \in Slot |-> IF s = 0 THEN [b \in Block |-> Encoded(b, e.gen, e.image)]
                                               ELSE EmptySlot]
    <3>1. PICK e \in Earlier :
              slots = [s \in Slot |-> IF s = 0 THEN [b \in Block |-> Encoded(b, e.gen, e.image)]
                                               ELSE EmptySlot]
      BY <2>2
    <3>2. e.gen \in Generation /\ e.image \in Image
      BY SlotAssumption DEF Generation
    <3>3. [b \in Block |-> Encoded(b, e.gen, e.image)] \in [Block -> Content]
      BY <3>2, ContentTypes
    <3>4. QED
      BY <3>1, <3>3, <1>2
  <2>3. QED
    BY <2>1, <2>2 DEF InitSlots
<1>4. QED
  BY <1>1, <1>3 DEF SlotInv, SlotTypeOK, UpdateOK

(* An update of the slot that is not in force.                             *)
LEMMA UpdatingStarts ==
    ASSUME SlotTypeOK, NEW im \in Image
    PROVE  LET u == Updating(im)
           IN  /\ u \in Update
               /\ u.at = Tombstone /\ u.image = im
               /\ NewestSlot(slots) # u.slot
               /\ ValidMeta(slots[1 - u.slot]) # None =>
                      u.gen = NextGeneration(ValidMeta(slots[1 - u.slot]).gen)
<1> DEFINE u == Updating(im)
           newest == NewestSlot(slots)
<1>1. Tombstone \in Tombstone .. Commit
  BY BlockNumbers DEF Tombstone
<1>2. CASE newest = None
  <2>1. u = [slot |-> 0, gen |-> 1, image |-> im, at |-> Tombstone]
    BY <1>2 DEF Updating
  <2>2. ValidMeta(slots[1]) = None
    BY <1>2, NewestType
  <2>3. u \in Update
    BY <2>1, <1>1, Numbers DEF Update, Slot
  <2>4. QED
    BY <2>1, <2>2, <2>3, <1>2, SlotAssumption
<1>3. CASE newest # None
  <2>1. newest \in Slot /\ 1 - newest \in Slot
    BY <1>3, NewestType DEF Slot
  <2>2. u = [slot |-> 1 - newest, image |-> im, at |-> Tombstone,
             gen |-> NextGeneration(ValidMeta(slots[newest]).gen)]
    BY <1>3 DEF Updating
  <2>3. ValidMeta(slots[newest]) \in Meta
    BY <2>1, MetaType, NewestType DEF SlotTypeOK, Slot
  <2>4. NextGeneration(ValidMeta(slots[newest]).gen) \in Generation \ {0}
    BY <2>3, NextIsAhead DEF Meta
  <2>5. u \in Update
    BY <2>1, <2>2, <2>4, <1>1 DEF Update
  <2>6. 1 - u.slot = newest /\ newest # u.slot
    BY <2>1, <2>2 DEF Slot
  <2>7. QED
    BY <2>2, <2>5, <2>6
<1>4. QED
  BY <1>2, <1>3

(* A block written: the slots keep their type, the other slot its blocks.  *)
LEMMA WrittenType ==
    ASSUME SlotTypeOK, update # None, NEW content \in Content
    PROVE  /\ Written(slots, update, content) \in [Slot -> [Block -> Content]]
           /\ Written(slots, update, content)[1 - update.slot] = slots[1 - update.slot]
           /\ \A b \in Block : Written(slots, update, content)[update.slot][b] =
                  IF b = Target(update.at) THEN content ELSE slots[update.slot][b]
<1>1. update \in Update
  BY DEF SlotTypeOK
<1>2. update.slot \in Slot /\ 1 - update.slot \in Slot /\ update.slot # 1 - update.slot
  BY <1>1 DEF Update, Slot
<1>3. Target(update.at) \in Block
  BY <1>1, BlockNumbers DEF Update
<1>4. slots \in [Slot -> [Block -> Content]]
  BY DEF SlotTypeOK
<1>5. QED
  BY <1>2, <1>3, <1>4 DEF Written

LEMMA ReplacementType ==
    ASSUME SlotTypeOK, update # None
    PROVE  Replacement(update) \in Content
<1>1. update \in Update
  BY DEF SlotTypeOK
<1>2. CASE update.at = Tombstone
  BY <1>2, ContentTypes DEF Replacement
<1>3. CASE update.at # Tombstone
  <2>1. update.at \in Block
    BY <1>1, <1>3, BlockNumbers DEF Update, Tombstone, Block, Header
  <2>2. QED
    BY <1>1, <1>3, <2>1, ContentTypes DEF Replacement, Update
<1>4. QED
  BY <1>2, <1>3

(* A block that is not the last one: the slot still does not authenticate. *)
LEMMA BlockWritten ==
    ASSUME SlotInv, update # None, update.at < Commit, NEW content \in Content,
           update.at = Tombstone => content \in {slots[update.slot][Commit], Torn, Erased}
    PROVE  LET ss == Written(slots, update, content)
           IN  /\ NewestSlot(ss) # update.slot
               /\ Load(ss) = Load(slots)
<1> DEFINE ss == Written(slots, update, content)
           s == update.slot
<1>1. update \in Update /\ s \in Slot
  BY DEF SlotInv, SlotTypeOK, Update
<1>2. ss[1 - s] = slots[1 - s]
  BY WrittenType DEF SlotInv
<1>3. NewestSlot(slots) # s
  BY DEF SlotInv, UpdateOK
<1>4. NewestSlot(ss) # s
  <2>1. CASE update.at = Tombstone
    <3>1. ss[s][Commit] = content
      BY <2>1, WrittenType, BlockNumbers DEF SlotInv, Target
    <3>2. CASE content \in {Torn, Erased}
      BY <3>1, <3>2, <1>1, Unmarked, NotNewest
    <3>3. CASE content = slots[s][Commit]
      <4>1. Target(update.at) = Commit
        BY <2>1 DEF Target
      <4>2. slots \in [Slot -> [Block -> Content]]
        BY DEF SlotInv, SlotTypeOK
      <4>3. ss = slots
        BY <4>1, <4>2, <3>3, <1>1 DEF Written
      <4>4. QED
        BY <4>3, <1>3
    <3>4. QED
      BY <2>1, <3>2, <3>3
  <2>2. CASE update.at # Tombstone
    <3>1. update.at > Tombstone /\ Target(update.at) # Commit
      BY <2>2, <1>1, BlockNumbers DEF Update, Target, Tombstone
    <3>2. ss[s][Commit] = slots[s][Commit]
      BY <3>1, WrittenType, BlockNumbers DEF SlotInv
    <3>3. ss[s][Commit] = Erased
      BY <3>1, <3>2 DEF SlotInv, UpdateOK
    <3>4. QED
      BY <3>3, <1>1, Unmarked, NotNewest
  <2>3. QED
    BY <2>1, <2>2
<1>5. Load(ss) = ValidMeta(ss[1 - s])
  BY <1>1, <1>4, LoadOther
<1>6. Load(slots) = ValidMeta(slots[1 - s])
  BY <1>1, <1>3, LoadOther
<1>7. QED
  BY <1>2, <1>4, <1>5, <1>6

(* The marker in place, all blocks are, and the slot is ahead.             *)
LEMMA MarkerWritten ==
    ASSUME SlotInv, update # None, update.at = Commit
    PROVE  Load(Written(slots, update, Replacement(update)))
               = [gen |-> update.gen, image |-> update.image]
<1> DEFINE ss == Written(slots, update, Replacement(update))
           s == update.slot
<1>1. update \in Update /\ s \in Slot /\ update.gen \in Generation \ {0} /\ update.image \in Image
  BY DEF SlotInv, SlotTypeOK, Update
<1>2. ss[1 - s] = slots[1 - s]
  BY WrittenType, ReplacementType DEF SlotInv
<1>3. Target(update.at) = Commit /\ update.at # Tombstone
  BY BlockNumbers DEF Target, Tombstone
<1>4. Replacement(update) = Encoded(Commit, update.gen, update.image)
  BY <1>3 DEF Replacement
<1>5. ASSUME NEW b \in Block
      PROVE  ss[s][b] = Encoded(b, update.gen, update.image)
  <2>1. CASE b = Commit
    BY <2>1, <1>3, <1>4, WrittenType, ReplacementType DEF SlotInv
  <2>2. CASE b # Commit
    <3>1. ss[s][b] = slots[s][b]
      BY <2>2, <1>3, WrittenType, ReplacementType DEF SlotInv
    <3>2. b < update.at
      BY <2>2, BlockNumbers
    <3>3. QED
      BY <3>1, <3>2 DEF SlotInv, UpdateOK
  <2>3. QED
    BY <2>1, <2>2
<1>6. ValidMeta(ss[s]) = [gen |-> update.gen, image |-> update.image]
  BY <1>1, <1>5, Marked
<1>7. ValidMeta(ss[s]) # None
  BY <1>1, <1>6, NoneAssumption DEF Meta
<1>8. ASSUME ValidMeta(ss[1 - s]) # None
      PROVE  /\ Ahead(ValidMeta(ss[s]).gen, ValidMeta(ss[1 - s]).gen)
             /\ ~Ahead(ValidMeta(ss[1 - s]).gen, ValidMeta(ss[s]).gen)
  <2>1. slots[1 - s] \in [Block -> Content]
    BY <1>1 DEF SlotInv, SlotTypeOK, Slot
  <2>2. ValidMeta(slots[1 - s]).gen \in Generation \ {0}
    BY <2>1, <1>2, <1>8, MetaType DEF Meta
  <2>3. update.gen = NextGeneration(ValidMeta(slots[1 - s]).gen)
    BY <1>2, <1>8 DEF SlotInv, UpdateOK
  <2>4. ValidMeta(ss[s]).gen = update.gen
    BY <1>6
  <2>5. QED
    BY <2>2, <2>3, <2>4, <1>2, NextIsAhead
<1>9. Load(ss) = ValidMeta(ss[s])
  BY <1>1, <1>7, <1>8, LoadNewest
<1>10. QED
  BY <1>6, <1>9

LEMMA SlotNextInv == SlotInv /\ [SlotNext]_slotVars => SlotInv'
<1> SUFFICES ASSUME SlotInv, [SlotNext]_slotVars PROVE SlotInv'
  OBVIOUS
<1>1. ASSUME NEW im \in Image, BeginUpdate(im) PROVE SlotInv'
  <2>1. slots' = slots /\ update' = Updating(im)
    BY <1>1 DEF BeginUpdate
  <2>2. SlotTypeOK'
    BY <2>1, UpdatingStarts DEF SlotInv, SlotTypeOK
  <2>3. \A b \in Block : ~(b < Tombstone)
    BY BlockNumbers DEF Tombstone
  <2>4. UpdateOK'
    BY <2>1, <2>3, UpdatingStarts DEF SlotInv, UpdateOK, Tombstone
  <2>5. QED
    BY <2>2, <2>4 DEF SlotInv
<1>2. CASE WriteBlock
  <2> DEFINE s == update.slot
             ss == Written(slots, update, Replacement(update))
  <2>1. update # None /\ update.at < Commit /\ update \in Update /\ s \in Slot
    BY <1>2 DEF WriteBlock, SlotInv, SlotTypeOK, Update
  <2>2. slots' = ss /\ update' = [update EXCEPT !.at = @ + 1]
    BY <1>2 DEF WriteBlock
  <2>3. /\ update' \in Update /\ update'.slot = s /\ update'.gen = update.gen
        /\ update'.image = update.image /\ update'.at = update.at + 1
    BY <2>1, <2>2, BlockNumbers DEF Update, Tombstone
  <2>4. SlotTypeOK'
    BY <2>1, <2>2, <2>3, WrittenType, ReplacementType DEF SlotInv, SlotTypeOK
  <2>5. update.at = Tombstone => Replacement(update) = Erased
    BY DEF Replacement
  <2>6. NewestSlot(ss) # s
    BY <2>1, <2>5, BlockWritten, ReplacementType DEF SlotInv
  <2>7. ss[1 - s] = slots[1 - s]
    BY <2>1, WrittenType, ReplacementType DEF SlotInv
  <2>8. ss[s][Commit] = Erased
    <3>1. CASE update.at = Tombstone
      BY <3>1, <2>1, <2>5, WrittenType, ReplacementType, BlockNumbers DEF SlotInv, Target
    <3>2. CASE update.at # Tombstone
      <4>1. update.at > Tombstone /\ Target(update.at) # Commit
        BY <3>2, <2>1, BlockNumbers DEF Update, Target, Tombstone
      <4>2. ss[s][Commit] = slots[s][Commit]
        BY <4>1, <2>1, WrittenType, ReplacementType, BlockNumbers DEF SlotInv
      <4>3. QED
        BY <4>1, <4>2, <2>1 DEF SlotInv, UpdateOK
    <3>3. QED
      BY <3>1, <3>2
  <2>9. ASSUME NEW b \in Block, b < update.at + 1
        PROVE  ss[s][b] = Encoded(b, update.gen, update.image)
    <3>1. update.at # Tombstone
      BY <2>1, <2>9, BlockNumbers DEF Update, Tombstone
    <3>2. Target(update.at) = update.at
      BY <3>1 DEF Target
    <3>3. CASE b = update.at
      BY <3>1, <3>2, <3>3, <2>1, WrittenType, ReplacementType DEF SlotInv, Replacement
    <3>4. CASE b # update.at
      <4>1. b < update.at
        BY <3>4, <2>1, <2>9, BlockNumbers DEF Update, Tombstone
      <4>2. ss[s][b] = slots[s][b]
        BY <3>2, <3>4, <2>1, WrittenType, ReplacementType DEF SlotInv
      <4>3. QED
        BY <4>1, <4>2, <2>1 DEF SlotInv, UpdateOK
    <3>5. QED
      BY <3>3, <3>4
  <2>10. ValidMeta(ss[1 - s]) # None => update.gen = NextGeneration(ValidMeta(ss[1 - s]).gen)
    BY <2>1, <2>7 DEF SlotInv, UpdateOK
  <2> HIDE DEF ss, s
  <2>11. UpdateOK'
    BY <2>2, <2>3, <2>6, <2>8, <2>9, <2>10 DEF UpdateOK
  <2>12. QED
    BY <2>4, <2>11 DEF SlotInv
<1>3. CASE WriteMarker
  <2>1. slots' = Written(slots, update, Replacement(update)) /\ update' = None /\ update # None
    BY <1>3 DEF WriteMarker
  <2>2. QED
    BY <2>1, WrittenType, ReplacementType DEF SlotInv, SlotTypeOK, UpdateOK
<1>4. CASE Interrupted
  <2>1. PICK content \in {slots[update.slot][Target(update.at)], Torn, Replacement(update)} :
            slots' = Written(slots, update, content)
    BY <1>4 DEF Interrupted
  <2>2. update # None /\ update' = None /\ update \in Update
    BY <1>4 DEF Interrupted, SlotInv, SlotTypeOK
  <2>3. slots[update.slot][Target(update.at)] \in Content
    BY <2>2, BlockNumbers DEF SlotInv, SlotTypeOK, Update
  <2>4. content \in Content
    BY <2>1, <2>2, <2>3, ContentTypes, ReplacementType DEF SlotInv
  <2>5. QED
    BY <2>1, <2>2, <2>4, WrittenType DEF SlotInv, SlotTypeOK, UpdateOK
<1>5. CASE UNCHANGED slotVars
  BY <1>5 DEF slotVars, SlotInv, SlotTypeOK, UpdateOK
<1>6. QED
  BY <1>1, <1>2, <1>3, <1>4, <1>5 DEF SlotNext

-----------------------------------------------------------------------------
(* Every step of the slots is one of the abstract image.                   *)

LEMMA LoadedType ==
    ASSUME SlotTypeOK
    PROVE  LoadedImage \in Image \cup {None}
<1>1. Load(slots) \in Meta \cup {None}
  <2>1. slots[0] \in [Block -> Content] /\ slots[1] \in [Block -> Content]
    BY DEF SlotTypeOK, Slot
  <2>2. QED
    BY <2>1, MetaType, NewestType DEF Load
<1>2. QED
  BY <1>1 DEF LoadedImage, Meta

LEMMA AttemptedIs ==
    ASSUME SlotTypeOK, update # None
    PROVE  Attempted = update.image /\ Attempted \in Image /\ Attempted # None
BY SlotAssumption DEF SlotTypeOK, Attempted, Update

LEMMA SlotsStep ==
    ASSUME SlotInv, [SlotNext]_slotVars
    PROVE  [Stored!Next]_<<LoadedImage, Attempted>>
<1>1. ASSUME NEW im \in Image, BeginUpdate(im) PROVE Stored!Begin
  <2>1. update = None /\ slots' = slots /\ update' = Updating(im)
    BY <1>1 DEF BeginUpdate
  <2>2. Attempted = None /\ LoadedImage' = LoadedImage
    BY <2>1 DEF Attempted, LoadedImage, Load, NewestSlot
  <2>3. Updating(im) \in Update /\ Updating(im).image = im
    BY UpdatingStarts DEF SlotInv
  <2>4. Attempted' = im
    BY <2>1, <2>3, NoneAssumption DEF Attempted
  <2>5. QED
    BY <2>2, <2>4 DEF Stored!Begin
<1>2. CASE WriteBlock
  <2>1. update # None /\ update.at < Commit /\ update \in Update
    BY <1>2 DEF WriteBlock, SlotInv, SlotTypeOK
  <2>2. slots' = Written(slots, update, Replacement(update))
    BY <1>2 DEF WriteBlock
  <2>3. update.at = Tombstone => Replacement(update) = Erased
    BY DEF Replacement
  <2>4. Load(slots') = Load(slots)
    BY <2>1, <2>2, <2>3, BlockWritten, ReplacementType DEF SlotInv
  <2>5. LoadedImage' = LoadedImage
    BY <2>4 DEF LoadedImage
  <2>6. update' = [update EXCEPT !.at = @ + 1]
    BY <1>2 DEF WriteBlock
  <2>7. update' \in Update /\ update'.image = update.image
    BY <2>1, <2>6, BlockNumbers DEF Update, Tombstone
  <2>8. Attempted' = Attempted
    BY <2>1, <2>7, NoneAssumption DEF Attempted
  <2>9. QED
    BY <2>5, <2>8
<1>3. CASE WriteMarker
  <2>1. update # None /\ update.at = Commit /\ update' = None
    BY <1>3 DEF WriteMarker
  <2>2. slots' = Written(slots, update, Replacement(update))
    BY <1>3 DEF WriteMarker
  <2>3. Load(slots') = [gen |-> update.gen, image |-> update.image]
    BY <2>1, <2>2, MarkerWritten
  <2>4. [gen |-> update.gen, image |-> update.image] # None
    BY <2>1, NoneAssumption DEF SlotInv, SlotTypeOK, Update, Meta
  <2>5. LoadedImage' = update.image
    BY <2>3, <2>4 DEF LoadedImage
  <2>6. Stored!Replace
    BY <2>1, <2>5, AttemptedIs DEF SlotInv, Attempted, Stored!Replace
  <2>7. QED
    BY <2>6 DEF Stored!Next
<1>4. CASE Interrupted
  <2>1. PICK content \in {slots[update.slot][Target(update.at)], Torn, Replacement(update)} :
            slots' = Written(slots, update, content)
    BY <1>4 DEF Interrupted
  <2>2. update # None /\ update' = None /\ update \in Update
    BY <1>4 DEF Interrupted, SlotInv, SlotTypeOK
  <2>3. Attempted # None /\ Attempted' = None /\ Attempted = update.image
    BY <2>2, AttemptedIs DEF SlotInv, Attempted
  <2>4. slots[update.slot][Target(update.at)] \in Content
    BY <2>2, BlockNumbers DEF SlotInv, SlotTypeOK, Update
  <2>5. content \in Content
    BY <2>1, <2>2, <2>4, ContentTypes, ReplacementType DEF SlotInv
  <2>6. CASE update.at < Commit
    <3>1. update.at = Tombstone => content \in {slots[update.slot][Commit], Torn, Erased}
      BY <2>1 DEF Target, Replacement
    <3>2. Load(slots') = Load(slots)
      BY <3>1, <2>1, <2>2, <2>5, <2>6, BlockWritten
    <3>3. LoadedImage' = LoadedImage
      BY <3>2 DEF LoadedImage
    <3>4. QED
      BY <3>3, <2>3 DEF Stored!Next, Stored!GiveUp
  <2>7. CASE update.at = Commit
    <3>1. Target(update.at) = Commit /\ update.at > Tombstone
      BY <2>7, BlockNumbers DEF Target, Tombstone
    <3>2. CASE content = Replacement(update)
      <4>1. Load(slots') = [gen |-> update.gen, image |-> update.image]
        BY <3>2, <2>1, <2>2, <2>7, MarkerWritten
      <4>2. [gen |-> update.gen, image |-> update.image] # None
        BY <2>2, NoneAssumption DEF Update, Meta
      <4>3. LoadedImage' = update.image
        BY <4>1, <4>2 DEF LoadedImage
      <4>4. QED
        BY <4>3, <2>3 DEF Stored!Next, Stored!Replace
    <3>3. CASE content # Replacement(update)
      <4>1. slots[update.slot][Commit] = Erased
        BY <3>1, <2>2 DEF SlotInv, UpdateOK
      <4>2. content = Erased \/ content = Torn
        BY <4>1, <3>1, <3>3, <2>1
      <4>3. slots'[update.slot][Commit] = content
        BY <2>1, <2>2, <2>5, <3>1, WrittenType, BlockNumbers DEF SlotInv
      <4>4. update.slot \in Slot /\ slots'[1 - update.slot] = slots[1 - update.slot]
        BY <2>1, <2>2, <2>5, WrittenType DEF SlotInv, Update
      <4>5. Load(slots') = ValidMeta(slots'[1 - update.slot])
        BY <4>2, <4>3, <4>4, Unmarked, NotNewest, LoadOther
      <4>6. Load(slots) = ValidMeta(slots[1 - update.slot])
        BY <4>4, <2>2, LoadOther DEF SlotInv, UpdateOK
      <4>7. LoadedImage' = LoadedImage
        BY <4>4, <4>5, <4>6 DEF LoadedImage
      <4>8. QED
        BY <4>7, <2>3 DEF Stored!Next, Stored!GiveUp
    <3>4. QED
      BY <3>2, <3>3
  <2>8. QED
    BY <2>2, <2>6, <2>7, BlockNumbers DEF Update, Tombstone
<1>5. CASE UNCHANGED slotVars
  <2>1. LoadedImage' = LoadedImage /\ Attempted' = Attempted
    BY <1>5 DEF slotVars, LoadedImage, Attempted, Load, NewestSlot
  <2>2. QED
    BY <2>1
<1>6. QED
  BY <1>1, <1>2, <1>3, <1>4, <1>5 DEF SlotNext, Stored!Next

LEMMA SlotsInit ==
    ASSUME InitSlots
    PROVE  Stored!Init
<1>1. update = None /\ SlotTypeOK
  BY SlotInitInv DEF InitSlots, SlotInv
<1>2. QED
  BY <1>1, LoadedType DEF Stored!Init, Attempted

-----------------------------------------------------------------------------

(* Blocks and updates keep their types, for every geometry.                *)
THEOREM SlotTypeCorrect == SlotSpec => []SlotTypeOK
<1>1. SlotInv => SlotTypeOK
  BY DEF SlotInv
<1>2. QED
  BY <1>1, SlotInitInv, SlotNextInv, PTL DEF SlotSpec

(* A memory updated block by block, interrupted anywhere, is one image     *)
(* that is replaced at once (dual_slot.rs, update and load).               *)
THEOREM SlotsStoreAtomically == SlotSpec => StoresAtomically
<1>1. InitSlots => Stored!Init
  BY SlotsInit
<1>2. SlotInv /\ [SlotNext]_slotVars => [Stored!Next]_<<LoadedImage, Attempted>>
  BY SlotsStep
<1>3. QED
  BY <1>1, <1>2, SlotInitInv, SlotNextInv, PTL DEF SlotSpec, StoresAtomically, Stored!Spec

(* An update that ends without an error is what the next start finds, also *)
(* where the generations wrap (newest_slot, next_generation).              *)
StoredIsLoaded ==
    [][WriteMarker => Load(slots') = [gen |-> update.gen, image |-> update.image]]_slotVars
THEOREM FinishedUpdateIsLoaded == SlotSpec => StoredIsLoaded
<1>1. SlotInv /\ [SlotNext]_slotVars =>
          [WriteMarker => Load(slots') = [gen |-> update.gen, image |-> update.image]]_slotVars
  BY MarkerWritten DEF WriteMarker
<1>2. QED
  BY <1>1, SlotInitInv, SlotNextInv, PTL DEF SlotSpec, StoredIsLoaded

-----------------------------------------------------------------------------
(***************************************************************************)
(* Part 2.  The invariants of the host and the device.                     *)
(***************************************************************************)

(* The requests that carry the number of a transaction.                    *)
Parties == {"begin", "write", "validate", "commit", "abort"}

(* A request the device has an exchange for.                               *)
Remembered(r) ==
    \/ device.held # None /\ device.held.req.seq = r.seq
    \/ device.last # None /\ device.last.req.seq = r.seq

(* What the requests and the two sides know of each other.                 *)
RequestsOK ==
    /\ \A i \in DOMAIN link.requests :
           link.requests[i].cmd \in Parties => link.requests[i].tx > 0
    /\ Waiting =>
           /\ host.req.cmd \in Parties => host.req.tx > 0
           /\ host.req.cmd \in {"begin", "write", "validate"} => host.at.want # None /\ host.tx > 0
           /\ host.req.cmd = "commit" => host.tx > 0
           /\ host.req.cmd = "read" =>
                  host.at.listing # None /\ host.at.key \in 1 .. Len(host.at.listing.keys)
           /\ link.requests # <<>> => link.requests[Len(link.requests)] = host.req
    /\ Len(link.requests) = 2 /\ link.requests[2].cmd = "commit" =>
           link.requests[1] = link.requests[2] \/ link.requests[1].cmd = "validate"

(* A transaction has a candidate the store has room for.                   *)
CandidateOK ==
    device.tx # 0 => device.candidate # None /\ Cardinality(Objects(device.candidate)) <= Capacity

(* While the store writes, the commit it writes for is at the head of the  *)
(* link, for the transaction and the candidate the device has validated.   *)
CommitOK ==
    update # None =>
        /\ link.requests # <<>>
        /\ Incoming.cmd = "commit" /\ Incoming.tx = device.tx
        /\ device.validated /\ device.gen < GenMod - 1
        /\ update.image = device.candidate
        /\ ~Remembered(Incoming)

(* The request the device answered last is remembered with that answer:    *)
(* held, or last; one that only shares its number was refused.             *)
AskedOK ==
    history.asked # None =>
        IF update # None THEN Incoming # history.asked.req
        ELSE LET r == history.asked.req
                 e == IF device.held # None /\ device.held.req.seq = r.seq
                      THEN device.held ELSE device.last
             IN  /\ e # None /\ e.req.seq = r.seq
                 /\ history.asked.answer = IF e.req = r THEN e.answer ELSE Refuse(r)

-----------------------------------------------------------------------------

(* Generations from g on to h, around the ring of those but zero.          *)
Steps(g, h) == IF h >= g THEN h - g ELSE h - g + GenMod - 1

(* A commit of the device's transaction may still be performed: it is on   *)
(* its way or the host will send it, and the device has not answered it.   *)
Committing ==
    \E r \in {link.requests[i] : i \in DOMAIN link.requests}
                \cup (IF Waiting THEN {host.req} ELSE {}) :
        /\ r.cmd = "commit" /\ r.tx = device.tx
        /\ Remembered(r) => Len(link.requests) = 2 /\ link.requests[1].cmd = "validate"

(* What may still bring a new generation: an operation not begun, one that *)
(* prepares its commit, a commit under way. The rest has been spent.       *)
Preparing == Waiting /\ host.req.cmd \in {"begin", "write", "validate"}

Left == budget.operations + (IF Preparing THEN 1 ELSE 0) + (IF Committing THEN 1 ELSE 0)
Spent == Operations - Left

(* What has been named, by how the generation l.gen that a start would     *)
(* find lies ahead of it; g is the one in force, with the configuration c, *)
(* and a the last one acknowledged.                                        *)
NamesFit(l, n, g, c, a, s) ==
    /\ n[g] = c
    /\ n[0] \in {None, Blank}
    /\ \A h \in Generation \ {0} : n[h] # None =>
           /\ l # None
           /\ Steps(h, l.gen) <= s
           /\ g # 0
           /\ Steps(g, l.gen) <= Steps(h, l.gen)
    /\ l # None => n[l.gen] \in {None, l.image}
    /\ a # None => /\ l # None
                   /\ Steps(a.gen, l.gen) <= s
                   /\ l.gen = a.gen => l = a

(* No more generations were named than operations were spent, and they lie *)
(* one behind the other.                                                   *)
NamesOK ==
    /\ Left <= Operations
    /\ NamesFit(Load(slots), history.named, device.gen, device.active, history.acked, Spent)

-----------------------------------------------------------------------------
(* Every request anybody holds.                                            *)
Known == {link.requests[i] : i \in DOMAIN link.requests}
         \cup (IF Waiting THEN {host.req} ELSE {})
         \cup (IF device.last # None THEN {device.last.req} ELSE {})
         \cup (IF device.held # None THEN {device.held.req} ELSE {})

(* Within one session a sequence number names one request, and both        *)
(* queues of the link are in the order of the numbers.                     *)
Numbered ==
    /\ \A r \in Known : r.seq < host.seq
    /\ \A r, s \in Known : r.seq = s.seq => r = s
    /\ Waiting => host.req.seq = host.seq - 1
    /\ device.last # None => device.last.answer.seq = device.last.req.seq
    /\ device.held # None => device.held.answer.seq = device.held.req.seq
    /\ \A i \in DOMAIN link.answers : link.answers[i].seq < host.seq
    /\ \A i, j \in DOMAIN link.requests : i <= j => link.requests[i].seq <= link.requests[j].seq
    /\ \A i, j \in DOMAIN link.answers : i <= j => link.answers[i].seq <= link.answers[j].seq
    /\ \A i \in DOMAIN link.answers, j \in DOMAIN link.requests :
           link.answers[i].seq <= link.requests[j].seq
    /\ \A j \in DOMAIN link.requests :
           /\ device.last # None => device.last.req.seq <= link.requests[j].seq
           /\ device.held # None => device.held.req.seq <= link.requests[j].seq

(* Until a first session opens there is nothing to answer.                 *)
FirstSession ==
    budget.sessions > 0 =>
        /\ budget.sessions = 1
        /\ link.requests = <<>> /\ link.answers = <<>> /\ ~Waiting
        /\ device.last = None /\ device.held = None
        /\ ~host.open

(* Sessions that leave nothing unanswered.  A new one opens with the same  *)
(* frame as every other, and what the one before it left on the link are   *)
(* repetitions: they are behind the host once that frame is answered.      *)
Opening == Request(1, "hello", 0, None)

Matched ==
    /\ device.last # None => device.last.answer.seq = device.last.req.seq
    /\ device.held # None => device.held.answer.seq = device.held.req.seq
    /\ device.held # None => device.held.req.seq # 1
    /\ \A r \in Known : r.seq = 1 => r = Opening

Greeting ==
    /\ ~host.open /\ host.tx = 0
    /\ Waiting => host.req = Opening /\ host.seq = 2
    /\ \A i, j \in DOMAIN link.requests :
           i <= j /\ link.requests[i] = Opening => link.requests[j] = Opening
    /\ \A i \in DOMAIN link.answers : link.answers[i].seq = 1 =>
           /\ \A j \in DOMAIN link.answers : i <= j => link.answers[j].seq = 1
           /\ \A j \in DOMAIN link.requests : link.requests[j] = Opening
           /\ device.last # None => device.last.req = Opening
           /\ device.held = None

Recent ==
    LET from == IF Waiting THEN host.seq - 2 ELSE host.seq - 1
    IN  /\ \A i \in DOMAIN link.answers : from <= link.answers[i].seq
        /\ \A j \in DOMAIN link.requests : from <= link.requests[j].seq

Tidy == Matched /\ IF host.seq <= 2 THEN Greeting ELSE Numbered /\ Recent

(* Answers the host's request has, on the way or remembered.               *)
Replies ==
    {link.answers[i] : i \in {j \in DOMAIN link.answers : link.answers[j].seq = host.req.seq}}
    \cup (IF device.last # None /\ device.last.req = host.req THEN {device.last.answer} ELSE {})
    \cup (IF device.held # None /\ device.held.req = host.req THEN {device.held.answer} ELSE {})

(* As long as the host gave nothing up: an open transaction is the one the *)
(* host works on, a begin on its way is the host's or its repetition, and  *)
(* an answer that lets the host rest finds the transaction closed.         *)
Undoubted ==
    /\ Waiting => host.req.tx = host.tx
    /\ device.tx # 0 =>
           /\ Waiting /\ host.req.cmd \in Parties /\ host.req.tx = device.tx
           /\ host.req.cmd = "begin" => device.last # None /\ device.last.req = host.req
    /\ \A i \in DOMAIN link.requests :
        link.requests[i].cmd = "begin" =>
           /\ Waiting /\ host.req.cmd \in {"begin", "write", "validate"}
           /\ link.requests[i].tx = host.req.tx
           /\ host.req.cmd = "begin" => link.requests[i] = host.req
           /\ device.tx # 0 => device.last # None /\ device.last.req = link.requests[i]
    /\ Waiting => \A a \in Replies :
        /\ host.req.cmd = "begin" => a.cmd = "begin"
        /\ host.req.cmd = "commit" /\ a.cmd = "commit" => device.tx = 0
        /\ host.req.cmd = "abort" => device.tx = 0

(* Once the host did give one up, a transaction may stay open.             *)
OpenOK == ~history.lost => Undoubted

-----------------------------------------------------------------------------

(* A listing that arrived, against what its generation names in n: the     *)
(* page from an offset on, and the number of the objects.                  *)
Truthful(n, d, offset) ==
    /\ n[d.gen] # None
    /\ d.total = Cardinality(Objects(n[d.gen]))
    /\ d.page = Page(n[d.gen], offset)

(* The pages gathered so far: the first objects of the configuration.      *)
InOrder(n, l) ==
    /\ n[l.gen] # None
    /\ l.total = Cardinality(Objects(n[l.gen]))
    /\ Len(l.keys) <= l.total
    /\ \A i \in 1 .. Len(l.keys) :
           l.keys[i] \in Objects(n[l.gen]) /\ Rank(n[l.gen], l.keys[i]) = i

(* The first objects of the listing, read back.                            *)
Copied(n, l, count, snap) ==
    \A k \in Key : snap[k] = IF k \in {l.keys[i] : i \in 1 .. count} THEN n[l.gen][k] ELSE None

(* How many objects of the listing the host has in its copy.               *)
ReadSoFar == IF host.req.cmd = "read" THEN host.at.key - 1 ELSE host.at.key

(* Every listing the host may receive is that of one configuration.        *)
Told == host.req.cmd = "list" =>
    \A a \in Replies : a.cmd = "list" => Truthful(history.named, a.data, host.req.arg)

(* What the host has of a backup goes with the request it waits for: the   *)
(* pages so far with the next page, a whole listing with the reads.        *)
Gathered ==
    /\ host.req.cmd \notin {"list", "read"} => host.at.listing = None /\ host.at.pages = None
    /\ host.at.listing = None => host.at.snap = Blank
    /\ host.req.cmd = "list" =>
           /\ IF host.at.pages = None THEN host.req.arg = 0
              ELSE /\ InOrder(history.named, host.at.pages)
                   /\ host.req.arg = Len(host.at.pages.keys)
           /\ host.at.listing # None => host.at.key = Len(host.at.listing.keys)
    /\ host.req.cmd = "read" =>
           host.at.pages = None /\ host.req.arg = host.at.listing.keys[host.at.key]
    /\ host.at.listing # None =>
           /\ InOrder(history.named, host.at.listing)
           /\ Len(host.at.listing.keys) = host.at.listing.total

(* What was read belongs to the generation of the first listing, ...       *)
Truth ==
    /\ Copied(history.named, host.at.listing, ReadSoFar, host.at.snap)
    /\ host.req.cmd = "read" => \A a \in Replies :
           a.cmd = "read" => a.data = history.named[host.at.listing.gen][host.req.arg]

(* ... or the device has left that generation, and no second listing will  *)
(* show it again.                                                          *)
Doubt ==
    /\ device.gen # host.at.listing.gen
    /\ host.req.cmd = "list" =>
           /\ \A a \in Replies : a.cmd = "list" => a.data.gen # host.at.listing.gen
           /\ host.at.pages # None => host.at.pages.gen # host.at.listing.gen

(* The snapshot handed out is the configuration its generation names.      *)
Kept == history.kept # None => history.named[history.kept.gen] = history.kept.image

(* A backup under way is true of its generation, or is going to be refused *)
(* by its second listing.                                                  *)
BackupOK ==
    /\ Kept
    /\ Waiting => Told /\ Gathered /\ (host.at.listing # None => Truth \/ Doubt)

-----------------------------------------------------------------------------
(***************************************************************************)
(* Part 3.  Types, and what each step does.                                *)
(***************************************************************************)

LEMMA FrameOut ==
    ASSUME NEW S, NEW s \in Seq(S), s # <<>>
    PROVE  /\ Head(s) \in S /\ Head(s) = s[1] /\ 1 \in DOMAIN s
           /\ Tail(s) \in Seq(S) /\ Len(Tail(s)) = Len(s) - 1
           /\ DOMAIN Tail(s) = 1 .. Len(s) - 1
           /\ \A i \in 1 .. Len(s) - 1 : Tail(s)[i] = s[i + 1]
OBVIOUS

LEMMA FrameIn ==
    ASSUME NEW S, NEW s \in Seq(S), NEW e \in S
    PROVE  /\ Append(s, e) \in Seq(S) /\ Len(Append(s, e)) = Len(s) + 1
           /\ Append(s, e) # <<>>
           /\ DOMAIN Append(s, e) = 1 .. Len(s) + 1
           /\ \A i \in 1 .. Len(s) : Append(s, e)[i] = s[i]
           /\ Append(s, e)[Len(s) + 1] = e
           /\ s # <<>> => Head(Append(s, e)) = Head(s)
<1>1. /\ Append(s, e) \in Seq(S) /\ Len(Append(s, e)) = Len(s) + 1
      /\ Append(s, e)[Len(s) + 1] = e
  OBVIOUS
<1>2. /\ DOMAIN Append(s, e) = 1 .. Len(s) + 1
      /\ \A i \in 1 .. Len(s) : Append(s, e)[i] = s[i]
  OBVIOUS
<1>3. Append(s, e) # <<>>
  BY <1>1
<1>4. s # <<>> => Head(Append(s, e)) = Head(s)
  BY <1>1, <1>2
<1> QED BY <1>1, <1>2, <1>3, <1>4

-----------------------------------------------------------------------------
(* Requests and answers.                                                   *)

LEMMA RequestParts ==
    ASSUME NEW r \in RequestType
    PROVE  /\ r.seq \in Nat /\ r.tx \in Nat /\ r # None
           /\ r.cmd \in {"hello", "capabilities", "begin", "validate", "commit", "abort",
                         "list", "read", "write"}
           /\ r.cmd = "list" => r.arg \in Nat
           /\ r.cmd = "read" => r.arg \in Key
           /\ r.cmd = "write" => r.arg \in [key : Key, data : Formats]
           /\ Refuse(r) \in AnswerType
BY ExchangeAssumption DEF RequestType, Refuse, AnswerType

LEMMA Asking ==
    ASSUME NEW s \in Nat, NEW t \in Nat
    PROVE  /\ \A cmd \in {"hello", "capabilities", "begin", "validate", "commit", "abort"} :
                  Request(s, cmd, t, None) \in RequestType
           /\ \A o \in Nat : Request(s, "list", t, o) \in RequestType
           /\ \A k \in Key : Request(s, "read", t, k) \in RequestType
           /\ \A k \in Key, d \in Formats :
                  Request(s, "write", t, [key |-> k, data |-> d]) \in RequestType
BY DEF Request, RequestType

LEMMA Accepting ==
    ASSUME NEW r \in RequestType
    PROVE  /\ r.cmd \in {"hello", "capabilities", "write", "validate", "abort"} =>
                  Accept(r, None) \in AnswerType
           /\ \A g \in Generation : r.cmd \in {"begin", "commit"} => Accept(r, g) \in AnswerType
           /\ \A d \in Formats : r.cmd = "read" => Accept(r, d) \in AnswerType
           /\ \A g \in Generation, t \in Nat, p \in Seq(Key) : r.cmd = "list" =>
                  Accept(r, [gen |-> g, total |-> t, page |-> p]) \in AnswerType
BY RequestParts DEF Accept, AnswerType

LEMMA AnswerParts ==
    ASSUME NEW a \in AnswerType
    PROVE  /\ a.seq \in Nat
           /\ a.cmd \in {"begin", "commit"} => a.data \in Generation
           /\ a.cmd = "read" => a.data \in Formats
           /\ a.cmd = "list" => /\ a.data.gen \in Generation /\ a.data.total \in Nat
                                /\ a.data.page \in Seq(Key)
BY DEF AnswerType

LEMMA Exchanged ==
    ASSUME NEW r \in RequestType, NEW a \in AnswerType
    PROVE  [req |-> r, answer |-> a] \in Exchange /\ [req |-> r, answer |-> a] # None
BY ExchangeAssumption DEF Exchange

-----------------------------------------------------------------------------
(* Frames leave the link at its head and enter at its end.                 *)

LEMMA LinkParts ==
    ASSUME link \in LinkType
    PROVE  link.requests \in Seq(RequestType) /\ link.answers \in Seq(AnswerType)
BY DEF LinkType

LEMMA TakenType ==
    ASSUME link \in LinkType, link.answers # <<>>
    PROVE  /\ Taken \in LinkType /\ Taken.requests = link.requests
           /\ Taken.answers = Tail(link.answers)
           /\ Head(link.answers) \in AnswerType
BY LinkParts DEF LinkType, Taken

LEMMA ReceivedType ==
    ASSUME link \in LinkType, link.requests # <<>>
    PROVE  /\ Received \in LinkType /\ Received.answers = link.answers
           /\ Received.requests = Tail(link.requests)
           /\ Incoming \in RequestType /\ Incoming = link.requests[1]
           /\ Len(Received.requests) = Len(link.requests) - 1
BY LinkParts DEF LinkType, Received, Incoming

LEMMA SentType ==
    ASSUME link \in LinkType, link.requests # <<>>, NEW a \in AnswerType
    PROVE  LET l == Sent(Received, a)
           IN  /\ l \in LinkType /\ l.requests = Tail(link.requests)
               /\ l.answers = Append(link.answers, a)
               /\ Len(l.requests) = Len(link.requests) - 1
<1>1. Received \in LinkType /\ Received.answers = link.answers
      /\ Received.requests = Tail(link.requests)
      /\ Len(Received.requests) = Len(link.requests) - 1
  BY ReceivedType
<1>2. Append(link.answers, a) \in Seq(AnswerType)
  BY LinkParts
<1> QED
  BY <1>1, <1>2 DEF LinkType, Sent
-----------------------------------------------------------------------------
(* Keys in their order: the rank of a key among others.                    *)

LEMMA KeySets ==
    ASSUME NEW S \in SUBSET Key
    PROVE  IsFiniteSet(S) /\ Cardinality(S) \in Nat /\ Cardinality(S) <= Keys
<1>1. IsFiniteSet(Key) /\ Cardinality(Key) = Keys
  BY FS_Interval, DeviceAssumption DEF Key
<1>2. QED
  BY <1>1, FS_Subset, FS_CardinalityType

(* The keys of S up to k.                                                  *)
UpTo(S, k) == {j \in S : j <= k}

LEMMA RankGrows ==
    ASSUME NEW S \in SUBSET Key, NEW k \in S
    PROVE  /\ Cardinality(UpTo(S, k)) \in 1 .. Cardinality(S)
           /\ \A j \in S : j < k => Cardinality(UpTo(S, j)) < Cardinality(UpTo(S, k))
<1>1. S \subseteq Int
  BY DEF Key
<1>2. UpTo(S, k) \in SUBSET S /\ k \in UpTo(S, k)
  BY <1>1 DEF UpTo
<1>3. /\ IsFiniteSet(UpTo(S, k)) /\ Cardinality(UpTo(S, k)) \in Nat
      /\ Cardinality(UpTo(S, k)) <= Cardinality(S) /\ Cardinality(S) \in Nat
  BY <1>2, KeySets, FS_Subset
<1>4. Cardinality(UpTo(S, k)) # 0
  BY <1>2, <1>3, FS_EmptySet
<1>5. ASSUME NEW j \in S, j < k
      PROVE  Cardinality(UpTo(S, j)) < Cardinality(UpTo(S, k))
  <2>1. UpTo(S, j) \in SUBSET UpTo(S, k) /\ k \notin UpTo(S, j)
    <3>1. \A i \in S : i \in Int
      BY <1>1
    <3>2. j \in Int /\ k \in Int /\ j < k
      BY <3>1, <1>5
    <3>3. \A i \in S : i <= j => i <= k
      BY <3>1, <3>2
    <3>4. k \notin UpTo(S, j)
      BY <3>2 DEF UpTo
    <3>5. UpTo(S, j) \subseteq UpTo(S, k)
      BY <3>3 DEF UpTo
    <3>6. QED
      BY <3>4, <3>5
  <2>2. UpTo(S, j) \in SUBSET S
    BY DEF UpTo
  <2>3. Cardinality(UpTo(S, j)) \in Nat
    BY <2>2, KeySets
  <2>4. Cardinality(UpTo(S, j)) <= Cardinality(UpTo(S, k))
    BY <1>3, <2>1, FS_Subset
  <2>5. Cardinality(UpTo(S, j)) # Cardinality(UpTo(S, k))
    BY <1>2, <1>3, <2>1, FS_Subset
  <2>6. QED
    BY <1>3, <2>3, <2>4, <2>5
<1>6. QED
  BY <1>3, <1>4, <1>5

LEMMA RanksDiffer ==
    ASSUME NEW S \in SUBSET Key, NEW j \in S, NEW k \in S,
           Cardinality(UpTo(S, j)) = Cardinality(UpTo(S, k))
    PROVE  j = k
<1>1. j \in Int /\ k \in Int
  BY DEF Key
<1>2. Cardinality(UpTo(S, j)) \in Nat /\ Cardinality(UpTo(S, k)) \in Nat
  BY RankGrows
<1>3. ~(j < k) /\ ~(k < j)
  BY RankGrows, <1>2
<1>4. QED
  BY <1>1, <1>3

LEMMA RankTaken ==
    ASSUME NEW S \in SUBSET Key, NEW n \in 1 .. Cardinality(S)
    PROVE  \E k \in S : Cardinality(UpTo(S, k)) = n
<1> DEFINE rank == [k \in S |-> Cardinality(UpTo(S, k))]
           T == 1 .. Cardinality(S)
<1>1. rank \in [S -> T]
  BY RankGrows
<1>2. \A j, k \in S : rank[j] = rank[k] => j = k
  BY RanksDiffer
<1>3. rank \in Injection(S, T)
  BY <1>1, <1>2 DEF Injection, IsInjective
<1>4. IsFiniteSet(T) /\ Cardinality(T) = Cardinality(S)
  <2>1. Cardinality(S) \in Nat
    BY KeySets
  <2>2. QED
    BY <2>1, FS_Interval
<1>5. rank \in Surjection(S, T)
  BY <1>3, <1>4, FS_Injection
<1>6. QED
  BY <1>5 DEF Surjection

(* A set of keys that is not empty has a first one.                        *)
LEMMA FirstKey ==
    ASSUME NEW S \in SUBSET Key, S # {}
    PROVE  \E k \in S : \A j \in S : k <= j
<1>1. 1 \in 1 .. Cardinality(S)
  BY KeySets, FS_EmptySet
<1>2. PICK k \in S : Cardinality(UpTo(S, k)) = 1
  BY <1>1, RankTaken
<1>3. ASSUME NEW j \in S PROVE k <= j
  <2>1. j \in Int /\ k \in Int
    BY DEF Key
  <2>2. Cardinality(UpTo(S, j)) \in 1 .. Cardinality(S) /\ Cardinality(S) \in Nat
    BY RankGrows, KeySets
  <2>3. j < k => Cardinality(UpTo(S, j)) < 1
    BY <1>2, RankGrows
  <2>4. QED
    BY <2>1, <2>2, <2>3
<1>4. QED
  BY <1>3

(* The objects of a page follow each other in rank from the offset on.     *)
LEMMA PageIs ==
    ASSUME NEW c, NEW offset \in Nat, offset <= Cardinality(Objects(c))
    PROVE  LET rest == Cardinality(Objects(c)) - offset
           IN  /\ Page(c, offset) \in Seq(Key)
               /\ Len(Page(c, offset)) = IF rest > PageSize THEN PageSize ELSE rest
               /\ \A i \in 1 .. Len(Page(c, offset)) :
                      /\ Page(c, offset)[i] \in Objects(c)
                      /\ Rank(c, Page(c, offset)[i]) = offset + i
<1> DEFINE S == Objects(c)
           rest == Cardinality(S) - offset
           n == IF rest > PageSize THEN PageSize ELSE rest
           p == Page(c, offset)
<1>1. S \in SUBSET Key /\ Cardinality(S) \in Nat
  BY KeySets DEF Objects
<1>2. n \in Nat /\ n <= rest
  BY <1>1, DeviceAssumption
<1>3. p = [i \in 1 .. n |-> CHOOSE k \in S : Rank(c, k) = offset + i]
  BY DEF Page
<1>4. ASSUME NEW i \in 1 .. n
      PROVE  p[i] \in S /\ Rank(c, p[i]) = offset + i
  <2>1. offset + i \in 1 .. Cardinality(S)
    BY <1>1, <1>2
  <2>2. \A k : Rank(c, k) = Cardinality(UpTo(S, k))
    BY DEF Rank, UpTo
  <2>3. \E k \in S : Rank(c, k) = offset + i
    BY <1>1, <2>1, <2>2, RankTaken
  <2>4. p[i] = CHOOSE k \in S : Rank(c, k) = offset + i
    BY <1>3
  <2>5. QED
    BY <2>3, <2>4
<1>5. p \in [1 .. n -> Key]
  BY <1>1, <1>3, <1>4
<1>6. p \in Seq(Key) /\ Len(p) = n
  BY <1>2, <1>5
<1>7. QED
  BY <1>4, <1>6
-----------------------------------------------------------------------------
(* Configurations within the capacity.                                     *)

LEMMA Blanks == Blank \in Configuration /\ Objects(Blank) = {} /\ Cardinality(Objects(Blank)) = 0
<1>1. Blank \in Configuration /\ Objects(Blank) = {}
  BY DEF Blank, Configuration, Objects
<1>2. QED
  BY <1>1, FS_EmptySet

LEMMA Images ==
    /\ \A c \in Image : c \in Configuration /\ Cardinality(Objects(c)) <= Capacity
    /\ \A c \in Configuration :
           Cardinality(Objects(c)) <= Capacity /\ Valid(c) => c \in Image
    /\ Image \cup {Blank} \subseteq Configuration
<1>1. \A c : Objects(c) = {k \in 1 .. Keys : c[k] # None}
  BY DEF Objects, Key
<1>2. \A c \in Image : c \in Configuration /\ Cardinality(Objects(c)) <= Capacity
  BY <1>1, DeviceAssumption DEF Configuration, Key
<1>3. ASSUME NEW c \in Configuration, Cardinality(Objects(c)) <= Capacity, Valid(c)
      PROVE  c \in Image
  <2>1. None \notin Rejected
    BY DeviceAssumption
  <2>2. \A k \in 1 .. Keys : c[k] \notin Rejected
    BY <1>3, <2>1 DEF Valid, Objects, Key
  <2>3. c \in [1 .. Keys -> Formats \cup {None}]
    BY DEF Configuration, Key
  <2>4. QED
    BY <1>1, <1>3, <2>2, <2>3, DeviceAssumption
<1>4. QED
  BY <1>2, <1>3, Blanks

LEMMA WriteFits ==
    ASSUME NEW c \in Configuration, Cardinality(Objects(c)) <= Capacity,
           NEW k \in Key, NEW d \in Formats, Fits(c, k)
    PROVE  /\ [c EXCEPT ![k] = d] \in Configuration
           /\ Cardinality(Objects([c EXCEPT ![k] = d])) <= Capacity
<1> DEFINE e == [c EXCEPT ![k] = d]
<1>1. e \in Configuration /\ d # None
  BY DeviceAssumption DEF Configuration
<1>2. e[k] = d /\ \A j \in Key : j # k => e[j] = c[j]
  BY DEF Configuration
<1>3. Objects(e) = Objects(c) \cup {k}
  BY <1>1, <1>2 DEF Objects
<1>4. Objects(c) \in SUBSET Key
  BY DEF Objects
<1>5. IsFiniteSet(Objects(c)) /\ Cardinality(Objects(c)) \in Nat
  BY <1>4, KeySets
<1>6. Cardinality(Objects(e)) =
          IF k \in Objects(c) THEN Cardinality(Objects(c)) ELSE Cardinality(Objects(c)) + 1
  BY <1>3, <1>5, FS_AddElement
<1>7. k \in Objects(c) \/ Cardinality(Objects(c)) < Capacity
  BY DEF Fits, Objects
<1>8. QED
  BY <1>1, <1>5, <1>6, <1>7, DeviceAssumption

-----------------------------------------------------------------------------
(* What the steps of either side do to the link and to themselves.         *)

LEMMA HostParts ==
    ASSUME host \in HostType
    PROVE  /\ host.open \in BOOLEAN /\ host.seq \in Nat \ {0} /\ host.tx \in Nat
           /\ host.req \in RequestType \cup {None}
           /\ host.at.want \in Wanted \cup {None} /\ host.at.key \in Nat
           /\ host.at.receipt \in Generation \cup {None}
           /\ host.at.pages \in Listed \cup {None} /\ host.at.listing \in Listed \cup {None}
           /\ host.at.snap \in Configuration
           /\ Waiting => host.req \in RequestType
BY DEF HostType, Waiting

(* What a host holds of its operation.                                     *)
AtType == [want : Wanted \cup {None}, key : Nat, receipt : Generation \cup {None},
           pages : Listed \cup {None}, listing : Listed \cup {None}, snap : Configuration]

LEMMA AtTypes == Idle \in AtType /\ (host \in HostType => host.at \in AtType)
BY Blanks DEF Idle, AtType, HostType

LEMMA AskEffect ==
    ASSUME host \in HostType, NEW l \in LinkType, NEW at \in AtType, NEW cmd, NEW arg,
           Request(host.seq, cmd, host.tx, arg) \in RequestType, Ask(at, cmd, arg, l)
    PROVE  /\ host' \in HostType /\ host'.at = at /\ host'.seq = host.seq + 1
           /\ host'.tx = host.tx /\ host'.open = host.open
           /\ host'.req = Request(host.seq, cmd, host.tx, arg) /\ host'.req # None
           /\ link' \in LinkType /\ link'.answers = l.answers
           /\ link'.requests = Append(l.requests, host'.req)
           /\ Len(l.requests) < 2
<1> DEFINE r == Request(host.seq, cmd, host.tx, arg)
<1>1. host' = [host EXCEPT !.at = at, !.seq = @ + 1, !.req = r] /\ Len(l.requests) < 2
  BY DEF Ask
<1>2. host' \in HostType /\ host'.at = at /\ host'.seq = host.seq + 1
      /\ host'.tx = host.tx /\ host'.open = host.open /\ host'.req = r
  <2>1. r \in RequestType /\ host.seq + 1 \in Nat \ {0}
    BY HostParts
  <2> HIDE DEF r
  <2>2. QED
    BY <1>1, <2>1 DEF HostType, AtType
<1>3. link' = [l EXCEPT !.requests = Append(@, host'.req)]
  BY DEF Ask
<1>4. Append(l.requests, r) \in Seq(RequestType)
  BY DEF LinkType
<1>5. link' \in LinkType /\ link'.answers = l.answers
      /\ link'.requests = Append(l.requests, host'.req)
  BY <1>2, <1>3, <1>4 DEF LinkType
<1>6. QED
  BY <1>1, <1>2, <1>5, ExchangeAssumption

LEMMA EndsEffect ==
    ASSUME host \in HostType, NEW l \in LinkType, Ends(l)
    PROVE  /\ host' \in HostType /\ host'.at = Idle /\ host'.seq = host.seq
           /\ host'.tx = host.tx /\ host'.open = host.open /\ host'.req = None
           /\ link' = l
BY AtTypes DEF Ends, HostType, AtType

LEMMA AnswerEffect ==
    ASSUME TypeOK, link.requests # <<>>, NEW after \in DeviceType, NEW a \in AnswerType,
           Answer(after, a)
    PROVE  /\ link' \in LinkType /\ link'.requests = Tail(link.requests)
           /\ link'.answers = Append(link.answers, a)
           /\ Len(link'.requests) = Len(link.requests) - 1
           /\ device' \in DeviceType
           /\ device' = [after EXCEPT !.last = [req |-> Incoming, answer |-> a], !.held = None]
           /\ device'.last = [req |-> Incoming, answer |-> a] /\ device'.last # None
           /\ device'.held = None
           /\ device'.gen = after.gen /\ device'.active = after.active /\ device'.tx = after.tx
           /\ device'.candidate = after.candidate /\ device'.validated = after.validated
           /\ history' \in HistoryType
           /\ history'.asked = [req |-> Incoming, answer |-> a]
           /\ history' = [history EXCEPT !.asked = [req |-> Incoming, answer |-> a]]
           /\ slots' = slots /\ update' = update /\ host' = host /\ budget' = budget
<1>1. link \in LinkType /\ history \in HistoryType
  BY DEF TypeOK
<1>2. Incoming \in RequestType
  BY <1>1, ReceivedType
<1> DEFINE e == [req |-> Incoming, answer |-> a]
<1>3. e \in Exchange /\ e # None
  BY <1>2, Exchanged
<1>4. link' = Sent(Received, a) /\ device' = [after EXCEPT !.last = e, !.held = None]
      /\ history' = [history EXCEPT !.asked = e]
  BY DEF Answer
<1>5. device' \in DeviceType /\ device'.last = e /\ device'.held = None
      /\ device'.gen = after.gen /\ device'.active = after.active /\ device'.tx = after.tx
      /\ device'.candidate = after.candidate /\ device'.validated = after.validated
  BY <1>3, <1>4 DEF DeviceType
<1>6. history' \in HistoryType /\ history'.asked = e
  BY <1>1, <1>3, <1>4 DEF HistoryType
<1>7. slots' = slots /\ update' = update /\ host' = host /\ budget' = budget
  BY DEF Answer
<1>8. QED
  BY <1>1, <1>3, <1>4, <1>5, <1>6, <1>7, SentType
-----------------------------------------------------------------------------
(* A request that is performed, whatever it asks for.                      *)

(* The device becomes `after` and answers a; it commits nothing.           *)
Handling(after, a) ==
    /\ after \in DeviceType /\ a \in AnswerType
    /\ Answer(after, a)
    /\ Answering /\ ~Repeated
    /\ a.seq = Incoming.seq /\ a.cmd \in {Incoming.cmd, "error"}
    /\ after.gen = device.gen /\ after.active = device.active
    /\ after.validated => after.candidate \in Image
    /\ after.tx # 0 => /\ after.candidate # None
                       /\ Cardinality(Objects(after.candidate)) <= Capacity
    /\ Incoming.cmd \notin {"begin", "abort"} => after.tx = device.tx
    /\ Incoming.cmd = "begin" =>
           IF device.tx = 0 THEN after.tx = Incoming.tx /\ a.cmd = "begin"
                            ELSE after.tx = device.tx
    /\ Incoming.cmd = "abort" =>
           after.tx = IF Incoming.tx = device.tx THEN 0 ELSE device.tx
    /\ Incoming.cmd = "commit" => a.cmd = "error"
    /\ a.cmd = "list" =>
           /\ Incoming.arg <= Cardinality(Objects(device.active))
           /\ a.data = [gen |-> device.gen, total |-> Cardinality(Objects(device.active)),
                        page |-> Page(device.active, Incoming.arg)]
    /\ a.cmd = "read" => a.data = device.active[Incoming.arg]

(* Types, the slots, and what the two sides know of each other: inductive. *)
BaseInv == TypeOK /\ SlotInv /\ RequestsOK /\ CandidateOK /\ CommitOK

(* Requests that are performed within one step.                            *)
Performing ==
    \/ DeviceInfo \/ ListObjects \/ ReadObject \/ BeginTransaction \/ Strange
    \/ WriteObject \/ ValidateTransaction \/ AbortTransaction \/ CommitRefused

LEMMA DeviceParts ==
    ASSUME device \in DeviceType
    PROVE  /\ device.gen \in Generation /\ device.active \in Image \cup {Blank}
           /\ device.active \in Configuration
           /\ Cardinality(Objects(device.active)) \in Nat
           /\ Cardinality(Objects(device.active)) <= Capacity
           /\ device.tx \in Nat
           /\ device.candidate \in Configuration \cup {None} /\ device.validated \in BOOLEAN
           /\ device.last \in Exchange \cup {None} /\ device.held \in Exchange \cup {None}
<1>1. device.active \in Image \cup {Blank}
  BY DEF DeviceType
<1>2. device.active \in Configuration /\ Cardinality(Objects(device.active)) <= Capacity
  <2>1. CASE device.active \in Image
    BY <2>1, Images
  <2>2. CASE device.active = Blank
    BY <2>2, Blanks, DeviceAssumption
  <2>3. QED
    BY <1>1, <2>1, <2>2
<1>3. Objects(device.active) \in SUBSET Key
  BY DEF Objects
<1>4. QED
  BY <1>1, <1>2, <1>3, KeySets DEF DeviceType

LEMMA Handled ==
    ASSUME BaseInv, Performing
    PROVE  \E after, a : Handling(after, a)
<1> DEFINE r == Incoming
<1>1. /\ link \in LinkType /\ device \in DeviceType /\ Answering /\ ~Repeated
      /\ (device.validated => device.candidate \in Image)
      /\ link.requests # <<>>
  BY DEF BaseInv, TypeOK, Performing, DeviceInfo, ListObjects, ReadObject, BeginTransaction,
         Strange, WriteObject, ValidateTransaction, AbortTransaction, CommitRefused, Asked,
         Answering
<1>2. r \in RequestType /\ r = link.requests[1]
  BY <1>1, ReceivedType
<1>3. /\ Refuse(r) \in AnswerType /\ Refuse(r).seq = r.seq /\ Refuse(r).cmd = "error"
      /\ \A d : Accept(r, d).seq = r.seq /\ Accept(r, d).cmd = r.cmd /\ Accept(r, d).data = d
  BY <1>2, RequestParts DEF Refuse, Accept
<1>4. /\ r.cmd # "error"
      /\ r.cmd \in Parties => r.tx \in Nat /\ r.tx > 0
  <2>1. 1 \in DOMAIN link.requests
    BY <1>1, LinkParts
  <2>2. QED
    BY <1>2, <2>1, RequestParts DEF BaseInv, RequestsOK
<1>5. device.tx # 0 => /\ device.candidate # None
                       /\ Cardinality(Objects(device.candidate)) <= Capacity
  BY DEF BaseInv, CandidateOK
<1>6. ASSUME Answer(device, Refuse(r)), r.cmd = "begin" => device.tx # 0,
             r.cmd = "abort" => r.tx # device.tx
      PROVE  Handling(device, Refuse(r))
  BY <1>1, <1>3, <1>5, <1>6 DEF Handling
<1> HIDE DEF r
<1>7. CASE DeviceInfo
  <2>1. Answer(device, Accept(r, None)) /\ r.cmd \in {"hello", "capabilities"}
    BY <1>7 DEF DeviceInfo, Asked, r
  <2>2. Handling(device, Accept(r, None))
    BY <2>1, <1>1, <1>2, <1>3, <1>5, Accepting DEF Handling, r
  <2>3. QED
    BY <2>2
<1>8. CASE ListObjects
  <2> DEFINE n == Cardinality(Objects(device.active))
             d == [gen |-> device.gen, total |-> n, page |-> Page(device.active, r.arg)]
  <2>1. /\ r.cmd = "list" /\ r.arg \in Nat
        /\ Answer(device, IF r.arg > n THEN Refuse(r) ELSE Accept(r, d))
    BY <1>8, <1>2, RequestParts DEF ListObjects, Asked, r
  <2>2. n \in Nat /\ device.gen \in Generation
    BY <1>1, DeviceParts
  <2>3. CASE r.arg > n
    BY <2>1, <2>3, <1>6
  <2>4. CASE ~(r.arg > n)
    <3>1. r.arg <= n
      BY <2>1, <2>2, <2>4
    <3>2. Page(device.active, r.arg) \in Seq(Key)
      BY <2>1, <3>1, PageIs
    <3>3. Accept(r, d) \in AnswerType
      BY <3>2, <2>1, <2>2, <1>2, Accepting
    <3>4. Answer(device, Accept(r, d))
      BY <2>1, <2>4
    <3>5. Handling(device, Accept(r, d))
      BY <3>1, <3>3, <3>4, <2>1, <1>1, <1>3, <1>5 DEF Handling, r
    <3>6. QED
      BY <3>5
  <2>5. QED
    BY <2>3, <2>4
<1>9. CASE ReadObject
  <2> DEFINE d == device.active[r.arg]
  <2>1. r.cmd = "read" /\ Answer(device, IF d = None THEN Refuse(r) ELSE Accept(r, d))
    BY <1>9 DEF ReadObject, Asked, r
  <2>2. CASE d = None
    BY <2>1, <2>2, <1>6
  <2>3. CASE d # None
    <3>1. r.arg \in Key
      BY <2>1, <1>2, RequestParts
    <3>2. d \in Formats
      BY <2>3, <3>1, <1>1, DeviceParts DEF Configuration
    <3>3. Accept(r, d) \in AnswerType
      BY <2>1, <3>2, <1>2, Accepting
    <3>4. Handling(device, Accept(r, d))
      BY <3>3, <2>1, <2>3, <1>1, <1>3, <1>5 DEF Handling, r
    <3>5. QED
      BY <3>4
  <2>4. QED
    BY <2>2, <2>3
<1>10. CASE BeginTransaction
  <2> DEFINE after == [device EXCEPT !.tx = r.tx, !.candidate = device.active,
                                     !.validated = FALSE]
  <2>1. r.cmd = "begin"
    BY <1>10 DEF BeginTransaction, Asked, r
  <2>2. CASE device.tx # 0
    <3>1. Answer(device, Refuse(r))
      BY <1>10, <2>2 DEF BeginTransaction, r
    <3>2. QED
      BY <2>1, <2>2, <3>1, <1>6
  <2>3. CASE device.tx = 0
    <3>1. Answer(after, Accept(r, device.gen))
      BY <1>10, <2>3 DEF BeginTransaction, r
    <3>2. r.tx \in Nat /\ device.active \in Configuration
          /\ Cardinality(Objects(device.active)) <= Capacity
      BY <2>1, <1>1, <1>4, DeviceParts DEF Parties
    <3>3. after \in DeviceType /\ after.tx = r.tx /\ after.gen = device.gen
          /\ after.active = device.active /\ after.candidate = device.active
          /\ after.validated = FALSE
      BY <3>2, <1>1 DEF DeviceType
    <3>4. Accept(r, device.gen) \in AnswerType
      BY <2>1, <1>1, <1>2, Accepting, DeviceParts
    <3>5. after.candidate # None
      BY <3>2, <3>3, ExchangeAssumption
    <3>6. Handling(after, Accept(r, device.gen))
      <4> HIDE DEF after
      <4>1. QED
        BY <3>1, <3>2, <3>3, <3>4, <3>5, <2>1, <2>3, <1>1, <1>3 DEF Handling, r
    <3>7. QED
      BY <3>6
  <2>4. QED
    BY <2>2, <2>3
<1>11. CASE Strange
  <2>1. /\ r.cmd \in {"write", "validate", "commit", "abort"} /\ r.tx # device.tx
        /\ Answer(device, Refuse(r))
    BY <1>11 DEF Strange, Asked, Matching, r
  <2>2. QED
    BY <2>1, <1>6
<1>12. CASE WriteObject
  <2> DEFINE after == [device EXCEPT !.candidate[r.arg.key] = r.arg.data, !.validated = FALSE]
  <2>1. r.cmd = "write" /\ r.tx = device.tx
    BY <1>12 DEF WriteObject, Asked, Matching, r
  <2>2. /\ device.candidate \in Configuration
        /\ Cardinality(Objects(device.candidate)) <= Capacity
    BY <2>1, <1>1, <1>4, <1>5, DeviceParts DEF Parties
  <2>3. r.arg.key \in Key /\ r.arg.data \in Formats
    BY <2>1, <1>2, RequestParts
  <2>4. CASE Fits(device.candidate, r.arg.key)
    <3> DEFINE c == [device.candidate EXCEPT ![r.arg.key] = r.arg.data]
    <3>1. Answer(after, Accept(r, None))
      BY <1>12, <2>4 DEF WriteObject, r
    <3>2. c \in Configuration /\ Cardinality(Objects(c)) <= Capacity
      BY <2>2, <2>3, <2>4, WriteFits
    <3>3. after = [device EXCEPT !.candidate = c, !.validated = FALSE]
      OBVIOUS
    <3> HIDE DEF c
    <3>4. after \in DeviceType /\ after.tx = device.tx /\ after.gen = device.gen
          /\ after.active = device.active /\ after.candidate = c
          /\ after.validated = FALSE
      BY <3>2, <3>3, <1>1 DEF DeviceType
    <3>5. Accept(r, None) \in AnswerType
      BY <2>1, <1>2, Accepting
    <3>6. c # None
      BY <3>2, ExchangeAssumption
    <3>7. Handling(after, Accept(r, None))
      <4> HIDE DEF after
      <4>1. QED
        BY <3>1, <3>2, <3>4, <3>5, <3>6, <2>1, <1>1, <1>3 DEF Handling, r
    <3>8. QED
      BY <3>7
  <2>5. CASE ~Fits(device.candidate, r.arg.key)
    <3>1. Answer(device, Refuse(r))
      BY <1>12, <2>5 DEF WriteObject, r
    <3>2. QED
      BY <2>1, <3>1, <1>6
  <2>6. QED
    BY <2>4, <2>5
<1>13. CASE ValidateTransaction
  <2> DEFINE v == Valid(device.candidate)
             after == [device EXCEPT !.validated = v]
             a == IF v THEN Accept(r, None) ELSE Refuse(r)
  <2>1. r.cmd = "validate" /\ r.tx = device.tx /\ Answer(after, a)
    BY <1>13 DEF ValidateTransaction, Asked, Matching, r
  <2>2. /\ device.candidate \in Configuration
        /\ Cardinality(Objects(device.candidate)) <= Capacity
    BY <2>1, <1>1, <1>4, <1>5, DeviceParts DEF Parties
  <2>3. v \in BOOLEAN
    BY DEF Valid
  <2>4. v => device.candidate \in Image
    BY <2>2, Images
  <2> HIDE DEF v
  <2>5. after \in DeviceType /\ after.tx = device.tx /\ after.gen = device.gen
        /\ after.active = device.active /\ after.candidate = device.candidate
        /\ after.validated = v
    BY <2>3, <1>1 DEF DeviceType
  <2>6. a \in AnswerType /\ a.seq = r.seq /\ a.cmd \in {"validate", "error"}
    BY <2>1, <1>2, <1>3, Accepting
  <2>7. Handling(after, a)
    <3> HIDE DEF after, a
    <3>1. QED
      BY <2>1, <2>2, <2>4, <2>5, <2>6, <1>1, <1>5 DEF Handling, r
  <2>8. QED
    BY <2>7
<1>14. CASE AbortTransaction
  <2> DEFINE after == [device EXCEPT !.tx = 0, !.candidate = None, !.validated = FALSE]
  <2>1. r.cmd = "abort" /\ r.tx = device.tx /\ Answer(after, Accept(r, None))
    BY <1>14 DEF AbortTransaction, Asked, Matching, r
  <2>2. after \in DeviceType /\ after.tx = 0 /\ after.gen = device.gen
        /\ after.active = device.active /\ after.validated = FALSE
    BY <1>1 DEF DeviceType
  <2>3. Accept(r, None) \in AnswerType
    BY <2>1, <1>2, Accepting
  <2>4. Handling(after, Accept(r, None))
    <3> HIDE DEF after
    <3>1. QED
      BY <2>1, <2>2, <2>3, <1>1, <1>3 DEF Handling, r
  <2>5. QED
    BY <2>4
<1>15. CASE CommitRefused
  <2>1. r.cmd = "commit" /\ Answer(device, Refuse(r))
    BY <1>15 DEF CommitRefused, Asked, r
  <2>2. QED
    BY <2>1, <1>6
<1>16. QED
  BY <1>7, <1>8, <1>9, <1>10, <1>11, <1>12, <1>13, <1>14, <1>15 DEF Performing
-----------------------------------------------------------------------------
(* A host that goes on with an exchange, and one that comes to rest.       *)

(* What every step of the host leaves alone.                               *)
HostFrame ==
    /\ slots' = slots /\ update' = update /\ device' = device
    /\ budget' \in BudgetType
    /\ budget'.sessions = budget.sessions /\ budget'.operations = budget.operations
    /\ history' \in HistoryType
    /\ history'.named = history.named /\ history'.acked = history.acked
    /\ history'.asked = history.asked
    /\ history.lost => history'.lost

(* After the answer it waited for, or without one.                         *)
Afterwards(l) ==
    \/ Expected /\ l = Taken /\ history'.lost = history.lost
    \/ Waiting /\ l = link /\ history'.lost

(* An exchange that reads nothing keeps what was read.                     *)
Plain(at) ==
    /\ at.listing \in {None, host.at.listing} /\ at.pages \in {None, host.at.pages}
    /\ at.snap \in {Blank, host.at.snap}

(* The host goes on to its next request, with the link l before it.        *)
Asks(at, cmd, arg, l) ==
    /\ HostFrame /\ history'.kept = history.kept
    /\ Afterwards(l)
    /\ l = link => cmd = "abort"
    /\ at \in AtType /\ Request(host.seq, cmd, host.tx, arg) \in RequestType
    /\ Ask(at, cmd, arg, l)
    /\ cmd \in {"capabilities", "write", "validate", "commit", "abort", "list", "read"}
    /\ cmd = "capabilities" => host.req.cmd = "hello"
    /\ cmd \in {"write", "validate"} => host.req.cmd \in {"begin", "write"} /\ at.want # None
    /\ cmd = "commit" => host.req.cmd = "validate"
    /\ cmd = "abort" => host.req.cmd \in {"write", "validate", "commit"}
    /\ cmd \in {"list", "read"} =>
           \/ host.req.cmd \in {"list", "read"}
           \/ host.req.cmd = "commit" /\ Head(link.answers).cmd = "commit"
    /\ cmd = "read" => at.listing # None /\ at.key \in 1 .. Len(at.listing.keys)
    /\ cmd \notin {"list", "read"} => Plain(at)

(* The host has finished what it was asked, or failed.                     *)
Rests(l) ==
    /\ HostFrame
    /\ Afterwards(l)
    /\ host' \in HostType /\ host'.seq = host.seq /\ host'.tx = host.tx
    /\ host'.req = None
    /\ host'.open # host.open => host.req.cmd = "capabilities" /\ l # link
    /\ link' = l
    /\ host.req.cmd \notin {"write", "validate"}
    /\ l # link => /\ host.req.cmd = "commit" => Head(link.answers).cmd = "commit"
                   /\ host.req.cmd = "begin" => Head(link.answers).cmd # "begin"

LEMMA UnreadFrame ==
    ASSUME TypeOK, Unread
    PROVE  HostFrame /\ history'.kept = history.kept /\ history'.lost = history.lost
BY DEF TypeOK, Unread, HostOnly, HostFrame

LEMMA PagesType ==
    ASSUME TypeOK, Granted("list")
    PROVE  /\ Pages \in Listed /\ Data.gen \in Generation /\ Data.total \in Nat
           /\ Data.page \in Seq(Key)
           /\ IF host.at.pages = None THEN Len(Pages.keys) = Len(Data.page)
              ELSE Len(Pages.keys) = Len(host.at.pages.keys) + Len(Data.page)
<1>1. Head(link.answers) \in AnswerType /\ Head(link.answers).cmd = "list"
  BY TakenType DEF TypeOK, Granted, Expected
<1>2. Data.gen \in Generation /\ Data.total \in Nat /\ Data.page \in Seq(Key)
  BY <1>1, AnswerParts DEF Data
<1>3. host.at.pages \in Listed \cup {None}
  BY HostParts DEF TypeOK
<1> HIDE DEF Data
<1>4. CASE host.at.pages = None
  BY <1>2, <1>4 DEF Pages, Listed
<1>5. CASE host.at.pages # None
  <2>1. host.at.pages \in Listed /\ host.at.pages.keys \in Seq(Key)
    BY <1>3, <1>5 DEF Listed
  <2>2. /\ host.at.pages.keys \o Data.page \in Seq(Key)
        /\ Len(host.at.pages.keys \o Data.page) = Len(host.at.pages.keys) + Len(Data.page)
    BY <1>2, <2>1
  <2>3. Pages = [host.at.pages EXCEPT !.keys = @ \o Data.page]
    BY <1>5 DEF Pages
  <2>4. Pages \in Listed /\ Pages.keys = host.at.pages.keys \o Data.page
    BY <2>1, <2>2, <2>3 DEF Listed
  <2>5. Len(Pages.keys) = Len(host.at.pages.keys) + Len(Data.page)
    BY <2>2, <2>4, Zenon
  <2>6. QED
    BY <1>2, <1>5, <2>4, <2>5
<1>6. QED
  BY <1>4, <1>5

LEMMA TakenDiffers ==
    ASSUME TypeOK, Expected
    PROVE  Taken # link
<1>1. Taken.answers = Tail(link.answers) /\ link.answers # <<>>
      /\ link.answers \in Seq(AnswerType)
  BY TakenType, LinkParts DEF TypeOK, Expected
<1>2. Len(Tail(link.answers)) # Len(link.answers)
  BY <1>1
<1>3. QED
  BY <1>1, <1>2

LEMMA WriteRestAsks ==
    ASSUME BaseInv, NEW key \in Nat, Expected, host.req.cmd \in {"begin", "write"},
           WriteRest(key), Unread
    PROVE  \E at, cmd, arg, l : Asks(at, cmd, arg, l) /\ cmd \notin {"list", "read"}
<1> DEFINE rest == {k \in Objects(host.at.want) : k > key}
           next == CHOOSE k \in rest : \A j \in rest : k <= j
<1>1. /\ host \in HostType /\ host.at \in AtType /\ host.seq \in Nat /\ host.tx \in Nat
      /\ Waiting
  BY AtTypes, HostParts DEF BaseInv, TypeOK, Expected
<1>2. HostFrame /\ history'.kept = history.kept /\ history'.lost = history.lost
  BY UnreadFrame DEF BaseInv
<1>3. host.at.want \in Configuration /\ host.at.want # None
  <2>1. host.at.want # None /\ host.at.want \in Wanted \cup {None}
    BY <1>1, HostParts DEF BaseInv, RequestsOK
  <2>2. QED
    BY <2>1, DeviceAssumption DEF Configuration, Key
<1>4. Taken # link /\ Afterwards(Taken)
  BY <1>2, TakenDiffers DEF Afterwards, BaseInv
<1>5. CASE rest = {}
  <2>1. Ask(host.at, "validate", None, Taken)
    BY <1>5 DEF WriteRest
  <2>2. Asks(host.at, "validate", None, Taken)
    BY <2>1, <1>1, <1>2, <1>3, <1>4, Asking DEF Asks, Plain
  <2>3. QED
    BY <2>2
<1>6. CASE rest # {}
  <2>1. rest \in SUBSET Key
    BY DEF Objects
  <2>2. next \in rest
    BY <1>6, <2>1, FirstKey
  <2>3. next \in Key /\ host.at.want[next] \in Formats
    BY <1>3, <2>2 DEF Objects, Configuration
  <2> DEFINE at == [host.at EXCEPT !.key = next]
             arg == [key |-> next, data |-> host.at.want[next]]
  <2>4. Ask(at, "write", arg, Taken)
    BY <1>6 DEF WriteRest
  <2> HIDE DEF next
  <2>5. at \in AtType /\ at.want = host.at.want /\ Plain(at)
    BY <1>1, <2>3 DEF AtType, Key, Plain
  <2>6. Request(host.seq, "write", host.tx, arg) \in RequestType
    BY <1>1, <2>3, Asking
  <2> HIDE DEF at, arg
  <2>7. Asks(at, "write", arg, Taken)
    BY <2>4, <2>5, <2>6, <1>1, <1>2, <1>3, <1>4 DEF Asks
  <2>8. QED
    BY <2>7
<1>7. QED
  BY <1>5, <1>6

LEMMA ReadRestAsks ==
    ASSUME BaseInv, NEW at \in AtType, Expected, host.req.cmd \in {"list", "read"},
           at.listing # None, at.key <= Len(at.listing.keys), ReadRest(at), Unread
    PROVE  \/ /\ at.key = Len(at.listing.keys)
              /\ Asks(at, "list", 0, Taken)
           \/ /\ at.key + 1 \in 1 .. Len(at.listing.keys)
              /\ Asks([at EXCEPT !.key = @ + 1], "read", at.listing.keys[at.key + 1], Taken)
<1>1. /\ host \in HostType /\ host.at \in AtType /\ host.seq \in Nat /\ host.tx \in Nat
      /\ Waiting
  BY AtTypes, HostParts DEF BaseInv, TypeOK, Expected
<1>2. HostFrame /\ history'.kept = history.kept /\ history'.lost = history.lost
  BY UnreadFrame DEF BaseInv
<1>3. Taken # link /\ Afterwards(Taken)
  BY <1>2, TakenDiffers DEF Afterwards, BaseInv
<1>4. at.listing \in Listed /\ at.listing.keys \in Seq(Key) /\ at.key \in Nat
  BY DEF AtType, Listed
<1>5. CASE at.key = Len(at.listing.keys)
  <2>1. Ask(at, "list", 0, Taken)
    BY <1>5 DEF ReadRest
  <2>2. Asks(at, "list", 0, Taken)
    BY <2>1, <1>1, <1>2, <1>3, Asking DEF Asks
  <2>3. QED
    BY <1>5, <2>2
<1>6. CASE at.key # Len(at.listing.keys)
  <2> DEFINE next == [at EXCEPT !.key = @ + 1]
             k == at.listing.keys[at.key + 1]
  <2>1. at.key + 1 \in 1 .. Len(at.listing.keys)
    BY <1>4, <1>6
  <2>2. k \in Key
    BY <1>4, <2>1
  <2>3. next \in AtType /\ next.listing = at.listing /\ next.key = at.key + 1
    BY <1>4 DEF AtType
  <2>4. Ask(next, "read", k, Taken)
    BY <1>6 DEF ReadRest
  <2>5. Request(host.seq, "read", host.tx, k) \in RequestType
    BY <1>1, <2>2, Asking
  <2>6. Asks(next, "read", k, Taken)
    <3> HIDE DEF next, k
    <3>1. QED
      BY <2>1, <2>3, <2>4, <2>5, <1>1, <1>2, <1>3 DEF Asks
  <2>7. QED
    BY <2>1, <2>6
<1>7. QED
  BY <1>5, <1>6

(* The five ways the reading part of the host goes on.                     *)
LEMMA NextPageAsks ==
    ASSUME BaseInv, NextPage
    PROVE  LET at == [host.at EXCEPT !.pages = Pages]
           IN  at \in AtType /\ Asks(at, "list", Len(Pages.keys), Taken)
<1> DEFINE at == [host.at EXCEPT !.pages = Pages]
<1>1. /\ TypeOK /\ Expected /\ host.req.cmd = "list" /\ Unread
      /\ Ask(at, "list", Len(Pages.keys), Taken) /\ Granted("list")
  BY DEF BaseInv, NextPage, Granted
<1>2. host.at \in AtType /\ host.seq \in Nat /\ host.tx \in Nat
  BY <1>1, AtTypes, HostParts DEF TypeOK
<1>3. Pages \in Listed
  BY <1>1, PagesType
<1>4. at \in AtType
  BY <1>2, <1>3 DEF AtType
<1>5. Len(Pages.keys) \in Nat
  BY <1>3 DEF Listed
<1>6. HostFrame /\ history'.kept = history.kept /\ history'.lost = history.lost
  BY <1>1, UnreadFrame
<1>7. Taken # link /\ Afterwards(Taken)
  BY <1>1, <1>6, TakenDiffers DEF Afterwards
<1>8. Asks(at, "list", Len(Pages.keys), Taken)
  <2> HIDE DEF at
  <2>1. QED
    BY <1>1, <1>2, <1>4, <1>5, <1>6, <1>7, Asking DEF Asks
<1>9. QED
  BY <1>4, <1>8

FirstAt == [host.at EXCEPT !.listing = Pages, !.pages = None, !.key = 0]

LEMMA FirstListingAsks ==
    ASSUME BaseInv, FirstListing
    PROVE  /\ FirstAt \in AtType /\ FirstAt.listing = Pages /\ FirstAt.pages = None
           /\ FirstAt.key = 0 /\ FirstAt.snap = host.at.snap
           /\ Pages \in Listed /\ Pages # None
           /\ \/ /\ Len(Pages.keys) = 0
                 /\ Asks(FirstAt, "list", 0, Taken)
              \/ /\ 1 \in 1 .. Len(Pages.keys)
                 /\ Asks([FirstAt EXCEPT !.key = @ + 1], "read", Pages.keys[1], Taken)
<1>1. /\ TypeOK /\ Expected /\ host.req.cmd = "list" /\ Unread /\ ReadRest(FirstAt)
      /\ Granted("list")
  BY DEF BaseInv, FirstListing, Granted, FirstAt
<1>2. host.at \in AtType
  BY <1>1, AtTypes DEF TypeOK
<1>3. Pages \in Listed /\ Pages # None
  BY <1>1, PagesType, ExchangeAssumption
<1>4. /\ FirstAt \in AtType /\ FirstAt.listing = Pages /\ FirstAt.pages = None
      /\ FirstAt.key = 0 /\ FirstAt.snap = host.at.snap
  BY <1>2, <1>3 DEF AtType, FirstAt
<1>5. Len(Pages.keys) \in Nat
  BY <1>3 DEF Listed
<1>6. \/ Len(Pages.keys) = 0 /\ Asks(FirstAt, "list", 0, Taken)
      \/ /\ 1 \in 1 .. Len(Pages.keys)
         /\ Asks([FirstAt EXCEPT !.key = @ + 1], "read", Pages.keys[1], Taken)
  BY <1>1, <1>3, <1>4, <1>5, ReadRestAsks
<1>7. QED
  BY <1>3, <1>4, <1>6

ReadAt == [host.at EXCEPT !.snap[host.at.listing.keys[host.at.key]] = Data]

LEMMA ReadBackAsks ==
    ASSUME BaseInv, ReadBack
    PROVE  /\ ReadAt \in AtType /\ ReadAt.listing = host.at.listing /\ ReadAt.key = host.at.key
           /\ ReadAt.pages = host.at.pages
           /\ host.at.listing \in Listed /\ host.at.key \in 1 .. Len(host.at.listing.keys)
           /\ host.at.listing.keys[host.at.key] \in Key
           /\ ReadAt.snap = [host.at.snap EXCEPT ![host.at.listing.keys[host.at.key]] = Data]
           /\ \/ /\ host.at.key = Len(host.at.listing.keys)
                 /\ Asks(ReadAt, "list", 0, Taken)
              \/ /\ host.at.key + 1 \in 1 .. Len(host.at.listing.keys)
                 /\ Asks([ReadAt EXCEPT !.key = @ + 1], "read",
                         host.at.listing.keys[host.at.key + 1], Taken)
<1> DEFINE k == host.at.listing.keys[host.at.key]
           snap == [host.at.snap EXCEPT ![k] = Data]
<1>1. TypeOK /\ Expected /\ host.req.cmd = "read" /\ Unread /\ ReadRest(ReadAt) /\ Waiting
      /\ Head(link.answers).cmd = "read"
  BY DEF BaseInv, ReadBack, Granted, Expected, ReadAt
<1>2. host.at \in AtType
  BY <1>1, AtTypes DEF TypeOK
<1>3. host.at.listing # None /\ host.at.key \in 1 .. Len(host.at.listing.keys)
  BY <1>1 DEF BaseInv, RequestsOK
<1>4. host.at.listing \in Listed /\ host.at.snap \in Configuration
  BY <1>2, <1>3 DEF AtType
<1>5. k \in Key
  BY <1>3, <1>4 DEF Listed
<1>6. Data \in Formats
  BY <1>1, TakenType, AnswerParts DEF TypeOK, Expected, Data
<1>7. snap \in Configuration
  BY <1>4, <1>5, <1>6 DEF Configuration
<1>8. ReadAt = [host.at EXCEPT !.snap = snap]
  BY DEF ReadAt
<1> HIDE DEF snap
<1>9. ReadAt \in AtType /\ ReadAt.listing = host.at.listing /\ ReadAt.key = host.at.key
      /\ ReadAt.pages = host.at.pages /\ ReadAt.snap = snap
  BY <1>2, <1>7, <1>8 DEF AtType
<1>10. host.at.key <= Len(host.at.listing.keys)
  BY <1>3
<1>11. \/ /\ host.at.key = Len(host.at.listing.keys)
          /\ Asks(ReadAt, "list", 0, Taken)
       \/ /\ host.at.key + 1 \in 1 .. Len(host.at.listing.keys)
          /\ Asks([ReadAt EXCEPT !.key = @ + 1], "read",
                  host.at.listing.keys[host.at.key + 1], Taken)
  BY <1>1, <1>3, <1>9, <1>10, ReadRestAsks
<1>12. QED
  BY <1>3, <1>4, <1>5, <1>9, <1>11 DEF snap

LEMMA ReceiptSteps ==
    ASSUME BaseInv, Receipt
    PROVE  \/ Rests(Taken)
           \/ Asks([host.at EXCEPT !.receipt = Data], "list", 0, Taken)
<1> DEFINE at == [host.at EXCEPT !.receipt = Data]
<1>1. /\ TypeOK /\ Expected /\ host.req.cmd = "commit" /\ Head(link.answers).cmd = "commit"
      /\ Unread /\ (Ends(Taken) \/ Ask(at, "list", 0, Taken))
  BY DEF BaseInv, Receipt, Granted
<1>2. /\ host \in HostType /\ host.at \in AtType /\ host.seq \in Nat /\ host.tx \in Nat
      /\ Taken \in LinkType
  BY <1>1, AtTypes, HostParts, TakenType DEF TypeOK, Expected
<1>3. HostFrame /\ history'.kept = history.kept /\ history'.lost = history.lost
  BY <1>1, UnreadFrame
<1>4. Taken # link /\ Afterwards(Taken)
  BY <1>1, <1>3, TakenDiffers DEF Afterwards
<1>5. CASE Ends(Taken)
  BY <1>1, <1>2, <1>3, <1>4, <1>5, EndsEffect DEF Rests
<1>6. CASE Ask(at, "list", 0, Taken)
  <2>1. Data \in Generation
    BY <1>1, TakenType, AnswerParts DEF TypeOK, Expected, Data
  <2>2. at \in AtType
    BY <1>2, <2>1 DEF AtType
  <2> HIDE DEF at
  <2>3. Asks(at, "list", 0, Taken)
    BY <1>1, <1>2, <1>3, <1>4, <1>6, <2>2, Asking DEF Asks
  <2>4. QED
    BY <2>3 DEF at
<1>7. QED
  BY <1>1, <1>5, <1>6

LEMMA FailedSteps ==
    ASSUME BaseInv, NEW l \in LinkType, Afterwards(l), Failed(l), HostFrame, Waiting,
           history'.kept = history.kept,
           l # link /\ host.req.cmd = "begin" => Head(link.answers).cmd # "begin"
    PROVE  Rests(l) \/ Asks(host.at, "abort", None, l)
<1>1. /\ host \in HostType /\ host.at \in AtType /\ host.seq \in Nat /\ host.tx \in Nat
  BY AtTypes, HostParts DEF BaseInv, TypeOK
<1>2. CASE host.req.cmd \in {"write", "validate", "commit"}
  <2>1. Ask(host.at, "abort", None, l)
    BY <1>2 DEF Failed
  <2>2. QED
    BY <2>1, <1>1, <1>2, Asking DEF Asks, Plain
<1>3. CASE host.req.cmd \notin {"write", "validate", "commit"}
  <2>1. Ends(l)
    BY <1>3 DEF Failed
  <2>2. QED
    BY <2>1, <1>1, <1>3, EndsEffect DEF Rests
<1>4. QED
  BY <1>2, <1>3

LEMMA HostSteps ==
    ASSUME BaseInv, HostStep
    PROVE  \/ Ignore
           \/ \E at, cmd, arg, l :
                  /\ Asks(at, cmd, arg, l)
                  /\ cmd \in {"list", "read"} => NextPage \/ FirstListing \/ ReadBack \/ Receipt
           \/ \E l : Rests(l) /\ (SecondListing \/ history'.kept = history.kept)
<1>1. TypeOK /\ host \in HostType /\ host.at \in AtType /\ host.seq \in Nat /\ host.tx \in Nat
  BY AtTypes, HostParts DEF BaseInv, TypeOK
<1>2. Unread => HostFrame /\ history'.kept = history.kept /\ history'.lost = history.lost
  BY <1>1, UnreadFrame
<1>3. Expected => Taken # link /\ Taken \in LinkType /\ Waiting
  BY <1>1, TakenDiffers, TakenType DEF TypeOK, Expected
<1>4. CASE Hello
  <2>1. Expected /\ host.req.cmd = "hello" /\ Ask(Idle, "capabilities", None, Taken) /\ Unread
    BY <1>4 DEF Hello, Granted
  <2>2. Asks(Idle, "capabilities", None, Taken)
    BY <2>1, <1>1, <1>2, <1>3, AtTypes, Asking DEF Asks, Afterwards, Plain, Idle
  <2>3. QED
    BY <2>2
<1>5. CASE Capabilities
  <2>1. Expected /\ host.req.cmd = "capabilities" /\ link' = Taken /\ Unread
        /\ host' = [host EXCEPT !.open = TRUE, !.req = None]
    BY <1>5 DEF Capabilities, Granted
  <2>2. host' \in HostType /\ host'.seq = host.seq /\ host'.tx = host.tx /\ host'.req = None
    BY <2>1, <1>1 DEF HostType
  <2>3. Rests(Taken)
    BY <2>1, <2>2, <1>2, <1>3 DEF Rests, Afterwards
  <2>4. QED
    BY <2>1, <2>3, <1>2
<1>6. CASE Begun
  BY <1>6, WriteRestAsks DEF Begun, Granted
<1>7. CASE Wrote
  BY <1>7, <1>1, WriteRestAsks, HostParts DEF Wrote, Granted
<1>8. CASE Validated
  <2>1. Expected /\ host.req.cmd = "validate" /\ Ask(host.at, "commit", None, Taken) /\ Unread
    BY <1>8 DEF Validated, Granted
  <2>2. Asks(host.at, "commit", None, Taken)
    BY <2>1, <1>1, <1>2, <1>3, Asking DEF Asks, Afterwards, Plain
  <2>3. QED
    BY <2>2
<1>9. CASE Receipt
  <2>1. history'.kept = history.kept
    BY <1>2, <1>9 DEF Receipt
  <2>2. QED
    BY <1>9, <2>1, ReceiptSteps
<1>10. CASE Aborted
  <2>1. Expected /\ host.req.cmd = "abort" /\ Ends(Taken) /\ Unread
    BY <1>10 DEF Aborted
  <2>2. Rests(Taken)
    BY <2>1, <1>1, <1>2, <1>3, EndsEffect DEF Rests, Afterwards
  <2>3. QED
    BY <2>1, <2>2, <1>2
<1>11. CASE NextPage
  BY <1>11, NextPageAsks
<1>12. CASE FirstListing
  BY <1>12, FirstListingAsks
<1>13. CASE ReadBack
  BY <1>13, ReadBackAsks
<1>14. CASE SecondListing
  <2>1. /\ Expected /\ host.req.cmd = "list" /\ Ends(Taken) /\ HostOnly /\ Granted("list")
        /\ \/ history' = [history EXCEPT !.kept = [gen |-> Pages.gen, image |-> host.at.snap]]
           \/ history' = history
    BY <1>14 DEF SecondListing, Granted
  <2>2. Pages.gen \in Generation /\ host.at.snap \in Configuration
    BY <2>1, <1>1, PagesType, HostParts DEF Listed
  <2>3. history \in HistoryType /\ budget \in BudgetType
    BY <1>1 DEF TypeOK
  <2>4. HostFrame /\ history'.lost = history.lost
    <3>1. CASE history' = history
      BY <3>1, <2>1, <2>3 DEF HostFrame, HostOnly
    <3>2. CASE history' = [history EXCEPT !.kept = [gen |-> Pages.gen, image |-> host.at.snap]]
      <4> DEFINE kept == [gen |-> Pages.gen, image |-> host.at.snap]
      <4>1. kept \in [gen : Generation, image : Configuration]
        BY <2>2
      <4>2. history' = [history EXCEPT !.kept = kept]
        BY <3>2
      <4> HIDE DEF kept
      <4>3. /\ history' \in HistoryType /\ history'.named = history.named
            /\ history'.acked = history.acked /\ history'.asked = history.asked
            /\ history'.lost = history.lost
        BY <4>1, <4>2, <2>3 DEF HistoryType
      <4>4. QED
        BY <4>3, <2>1, <2>3 DEF HostFrame, HostOnly
    <3>3. QED
      BY <2>1, <3>1, <3>2
  <2>5. Rests(Taken)
    BY <2>1, <2>4, <1>1, <1>3, EndsEffect DEF Rests, Afterwards
  <2>6. QED
    BY <1>14, <2>5
<1>15. CASE Failure
  <2>1. Expected /\ Failed(Taken) /\ Unread /\ Refused
    BY <1>15 DEF Failure, Refused
  <2>2. host.req.cmd = "begin" => Head(link.answers).cmd # "begin"
    BY <2>1 DEF Refused, Granted
  <2>3. Rests(Taken) \/ Asks(host.at, "abort", None, Taken)
    BY <2>1, <2>2, <1>2, <1>3, FailedSteps DEF Afterwards
  <2>4. QED
    BY <2>1, <2>3, <1>2
<1>16. CASE NoResponse
  <2>1. /\ Waiting /\ Failed(link) /\ history' = [history EXCEPT !.lost = TRUE]
        /\ slots' = slots /\ update' = update /\ device' = device
        /\ ~Silent => budget.mishaps > 0
        /\ budget' = IF Silent THEN budget ELSE [budget EXCEPT !.mishaps = @ - 1]
    BY <1>16 DEF NoResponse
  <2>2. history \in HistoryType /\ budget \in BudgetType /\ link \in LinkType
    BY <1>1 DEF TypeOK
  <2>3. /\ history' \in HistoryType /\ history'.named = history.named
        /\ history'.acked = history.acked /\ history'.asked = history.asked
        /\ history'.kept = history.kept /\ history'.lost
    BY <2>1, <2>2 DEF HistoryType
  <2>4. /\ budget' \in BudgetType
        /\ budget'.sessions = budget.sessions /\ budget'.operations = budget.operations
    <3>1. CASE Silent
      BY <3>1, <2>1, <2>2
    <3>2. CASE ~Silent
      BY <3>2, <2>1, <2>2 DEF BudgetType
    <3>3. QED
      BY <3>1, <3>2
  <2>5. HostFrame
    BY <2>1, <2>3, <2>4 DEF HostFrame
  <2>6. Rests(link) \/ Asks(host.at, "abort", None, link)
    BY <2>1, <2>2, <2>3, <2>5, FailedSteps DEF Afterwards
  <2>7. QED
    BY <2>3, <2>6
<1>17. QED
  BY <1>4, <1>5, <1>6, <1>7, <1>8, <1>9, <1>10, <1>11, <1>12, <1>13, <1>14, <1>15, <1>16
     DEF HostStep
-----------------------------------------------------------------------------
(* The other steps of the device.                                          *)

LEMMA ReplayEffect ==
    ASSUME BaseInv, Replay
    PROVE  LET a == IF Settled.req = Incoming THEN Settled.answer ELSE Refuse(Incoming)
           IN  /\ Settled \in Exchange /\ Settled # None /\ Settled.req.seq = Incoming.seq
               /\ Settled \in {device.last, device.held}
               /\ a \in AnswerType
               /\ link.requests # <<>> /\ update = None
               /\ link' \in LinkType /\ link'.requests = Tail(link.requests)
               /\ link'.answers = Append(link.answers, a)
               /\ Len(link'.requests) = Len(link.requests) - 1
               /\ device' \in DeviceType /\ device'.gen = device.gen
               /\ device'.active = device.active /\ device'.tx = device.tx
               /\ device'.candidate = device.candidate /\ device'.validated = device.validated
               /\ device'.last = device.last
               /\ device'.held = IF Settled = device.held THEN device.held ELSE None
               /\ history' \in HistoryType
               /\ history' = [history EXCEPT !.asked = [req |-> Incoming, answer |-> a]]
               /\ history'.asked = [req |-> Incoming, answer |-> a]
               /\ slots' = slots /\ update' = update /\ host' = host /\ budget' = budget
<1> DEFINE a == IF Settled.req = Incoming THEN Settled.answer ELSE Refuse(Incoming)
           e == [req |-> Incoming, answer |-> a]
<1>1. /\ link \in LinkType /\ device \in DeviceType /\ history \in HistoryType
      /\ update = None /\ link.requests # <<>>
      /\ Settled # None /\ Settled.req.seq = Incoming.seq
  BY DEF BaseInv, TypeOK, Replay, Answering, Repeated
<1>2. Settled \in {device.last, device.held} /\ Settled \in Exchange
  BY <1>1, DeviceParts DEF Settled
<1>3. Incoming \in RequestType
  BY <1>1, ReceivedType
<1>4. a \in AnswerType
  BY <1>2, <1>3, RequestParts DEF Exchange
<1> HIDE DEF a
<1>5. link' = Sent(Received, a)
  BY DEF Replay, a
<1>6. /\ link' \in LinkType /\ link'.requests = Tail(link.requests)
      /\ link'.answers = Append(link.answers, a)
      /\ Len(link'.requests) = Len(link.requests) - 1
  BY <1>1, <1>4, <1>5, SentType
<1>7. Last(link'.answers) = a
  BY <1>1, <1>4, <1>6, LinkParts, FrameIn DEF Last
<1>8. e \in Exchange
  BY <1>3, <1>4, Exchanged
<1>9. history' = [history EXCEPT !.asked = e]
  BY <1>7 DEF Replay
<1>10. history' \in HistoryType /\ history'.asked = e
  BY <1>1, <1>8, <1>9 DEF HistoryType
<1>11. device' = IF Settled = device.held THEN device ELSE [device EXCEPT !.held = None]
  BY DEF Replay
<1>12. /\ device' \in DeviceType /\ device'.gen = device.gen
       /\ device'.active = device.active /\ device'.tx = device.tx
       /\ device'.candidate = device.candidate /\ device'.validated = device.validated
       /\ device'.last = device.last
       /\ device'.held = IF Settled = device.held THEN device.held ELSE None
  BY <1>1, <1>11 DEF DeviceType
<1>13. slots' = slots /\ update' = update /\ host' = host /\ budget' = budget
  BY DEF Replay
<1>14. QED
  BY <1>1, <1>2, <1>4, <1>6, <1>9, <1>10, <1>12, <1>13 DEF a

(* A commit that did not reach both slots.                                 *)
LEMMA UndoneEffect ==
    ASSUME BaseInv, link.requests # <<>>, Undone
    PROVE  /\ Refuse(Incoming) \in AnswerType /\ Incoming \in RequestType
           /\ link' \in LinkType /\ link'.requests = Tail(link.requests)
           /\ link'.answers = Append(link.answers, Refuse(Incoming))
           /\ Len(link'.requests) = Len(link.requests) - 1
           /\ device' \in DeviceType /\ device'.gen = device.gen
           /\ device'.active = device.active /\ device'.tx = device.tx
           /\ device'.candidate = device.candidate /\ device'.validated = device.validated
           /\ device'.last = device.last
           /\ device'.held = [req |-> Incoming, answer |-> Refuse(Incoming)]
           /\ device'.held # None
           /\ history' \in HistoryType
           /\ history' = [history EXCEPT !.asked = [req |-> Incoming, answer |-> Refuse(Incoming)]]
           /\ history'.asked = [req |-> Incoming, answer |-> Refuse(Incoming)]
<1> DEFINE a == Refuse(Incoming)
           e == [req |-> Incoming, answer |-> a]
<1>1. link \in LinkType /\ device \in DeviceType /\ history \in HistoryType
  BY DEF BaseInv, TypeOK
<1>2. Incoming \in RequestType /\ a \in AnswerType
  BY <1>1, ReceivedType, RequestParts
<1>3. e \in Exchange /\ e # None
  BY <1>2, Exchanged
<1>4. link' = Sent(Received, a) /\ device' = [device EXCEPT !.held = e]
      /\ history' = [history EXCEPT !.asked = e]
  BY DEF Undone
<1> HIDE DEF a
<1>5. /\ link' \in LinkType /\ link'.requests = Tail(link.requests)
      /\ link'.answers = Append(link.answers, a)
      /\ Len(link'.requests) = Len(link.requests) - 1
  BY <1>1, <1>2, <1>4, SentType
<1> HIDE DEF e
<1>6. history' \in HistoryType /\ history'.asked = e
  BY <1>1, <1>3, <1>4 DEF HistoryType
<1>7. /\ device' \in DeviceType /\ device'.gen = device.gen
      /\ device'.active = device.active /\ device'.tx = device.tx
      /\ device'.candidate = device.candidate /\ device'.validated = device.validated
      /\ device'.last = device.last /\ device'.held = e
  BY <1>1, <1>3, <1>4 DEF DeviceType
<1>8. QED
  BY <1>2, <1>3, <1>4, <1>5, <1>6, <1>7 DEF a, e

LEMMA NamedType ==
    ASSUME NEW n \in [Generation -> Configuration \cup {None}], NEW g \in Generation,
           NEW c \in Configuration
    PROVE  /\ Named(n, g, c) \in [Generation -> Configuration \cup {None}]
           /\ \A h \in Generation : n[h] # None => Named(n, g, c)[h] = n[h]
           /\ Named(n, g, c)[g] = IF n[g] = None THEN c ELSE n[g]
           /\ \A h \in Generation : h # g => Named(n, g, c)[h] = n[h]
BY DEF Named

(* A commit that did.                                                      *)
LEMMA StoreMarkerEffect ==
    ASSUME BaseInv, StoreMarker
    PROVE  /\ update # None /\ update.at = Commit /\ update' = None
           /\ slots' = Written(slots, update, Replacement(update))
           /\ host' = host /\ budget' = budget /\ link.requests # <<>>
           /\ Incoming \in RequestType /\ Incoming.cmd = "commit"
           /\ device.candidate \in Image /\ update.image = device.candidate
           /\ device.gen + 1 \in Generation
           /\ \/ ~Agrees /\ Undone
              \/ /\ Agrees
                 /\ LET a == Accept(Incoming, device.gen + 1)
                    IN  /\ a \in AnswerType
                        /\ link' \in LinkType /\ link'.requests = Tail(link.requests)
                        /\ link'.answers = Append(link.answers, a)
                        /\ Len(link'.requests) = Len(link.requests) - 1
                        /\ device' \in DeviceType /\ device'.gen = device.gen + 1
                        /\ device'.active = device.candidate /\ device'.tx = 0
                        /\ device'.candidate = None /\ device'.validated = FALSE
                        /\ device'.last = [req |-> Incoming, answer |-> a]
                        /\ device'.last # None /\ device'.held = device.held
                        /\ history' \in HistoryType
                        /\ history'.asked = [req |-> Incoming, answer |-> a]
                        /\ history'.acked = [gen |-> device.gen + 1, image |-> device.candidate]
                        /\ history'.named = Named(history.named, device.gen + 1,
                                                  device.candidate)
                        /\ history'.kept = history.kept /\ history'.lost = history.lost
<1> DEFINE g == device.gen + 1
           a == Accept(Incoming, g)
           e == [req |-> Incoming, answer |-> a]
           c == device.candidate
<1>1. link \in LinkType /\ device \in DeviceType /\ history \in HistoryType
  BY DEF BaseInv, TypeOK
<1>2. /\ update # None /\ update.at = Commit /\ update' = None
      /\ slots' = Written(slots, update, Replacement(update))
      /\ host' = host /\ budget' = budget
  BY DEF StoreMarker, WriteMarker
<1>3. /\ link.requests # <<>> /\ Incoming.cmd = "commit" /\ device.validated
      /\ device.gen < GenMod - 1 /\ update.image = c
  BY <1>2 DEF BaseInv, CommitOK
<1>4. c \in Image /\ c \in Configuration
  BY <1>3, Images DEF BaseInv, TypeOK
<1>5. g \in Generation /\ g # 0
  BY <1>1, <1>3, DeviceParts, SlotAssumption DEF Generation
<1>6. Incoming \in RequestType
  BY <1>1, <1>3, ReceivedType
<1>7. a \in AnswerType
  BY <1>3, <1>5, <1>6, Accepting
<1>8. e \in Exchange /\ e # None
  BY <1>6, <1>7, Exchanged
<1>9. CASE ~Agrees
  BY <1>2, <1>3, <1>4, <1>5, <1>6, <1>9 DEF StoreMarker
<1>10. CASE Agrees
  <2> DEFINE m == [gen |-> g, image |-> c]
             n == Named(history.named, g, c)
  <2>1. Committed = [device EXCEPT !.gen = g, !.active = c, !.tx = 0, !.candidate = None,
                                   !.validated = FALSE]
    BY DEF Committed
  <2>2. Committed \in DeviceType /\ Committed.gen = g /\ Committed.active = c
        /\ Committed.tx = 0 /\ Committed.candidate = None /\ Committed.validated = FALSE
        /\ Committed.last = device.last /\ Committed.held = device.held
    BY <2>1, <1>1, <1>4, <1>5 DEF DeviceType
  <2>3. m \in Meta
    BY <1>4, <1>5 DEF Meta
  <2>4. n \in [Generation -> Configuration \cup {None}]
    BY <1>1, <1>4, <1>5, NamedType DEF HistoryType
  <2>5. /\ link' = Sent(Received, a)
        /\ device' = [Committed EXCEPT !.last = e]
        /\ history' = [history EXCEPT !.asked = e, !.acked = m, !.named = n]
    BY <1>10, <2>2 DEF StoreMarker
  <2> HIDE DEF a, e, m, n
  <2>6. /\ link' \in LinkType /\ link'.requests = Tail(link.requests)
        /\ link'.answers = Append(link.answers, a)
        /\ Len(link'.requests) = Len(link.requests) - 1
    BY <1>1, <1>3, <1>7, <2>5, SentType
  <2>7. /\ device' \in DeviceType /\ device'.gen = g /\ device'.active = c /\ device'.tx = 0
        /\ device'.candidate = None /\ device'.validated = FALSE /\ device'.last = e
        /\ device'.held = device.held
    BY <1>8, <2>2, <2>5 DEF DeviceType
  <2>8. /\ history' \in HistoryType /\ history'.asked = e /\ history'.acked = m
        /\ history'.named = n /\ history'.kept = history.kept /\ history'.lost = history.lost
    BY <1>1, <1>8, <2>3, <2>4, <2>5 DEF HistoryType
  <2>9. QED
    BY <1>2, <1>3, <1>4, <1>5, <1>6, <1>7, <1>8, <1>10, <2>6, <2>7, <2>8 DEF a, e, m, n
<1>11. QED
  BY <1>9, <1>10

LEMMA MishapEffect ==
    ASSUME budget \in BudgetType, Mishap
    PROVE  /\ budget' \in BudgetType /\ budget'.sessions = budget.sessions
           /\ budget'.operations = budget.operations
BY DEF BudgetType, Mishap

LEMMA LoadType ==
    ASSUME NEW ss \in [Slot -> [Block -> Content]]
    PROVE  Load(ss) \in Meta \cup {None}
<1>1. ss[0] \in [Block -> Content] /\ ss[1] \in [Block -> Content]
  BY DEF Slot
<1>2. QED
  BY <1>1, MetaType, NewestType DEF Load

LEMMA LoadedDevice ==
    ASSUME NEW ss \in [Slot -> [Block -> Content]]
    PROVE  /\ Loaded(ss) \in DeviceType
           /\ Loaded(ss).tx = 0 /\ Loaded(ss).candidate = None /\ Loaded(ss).validated = FALSE
           /\ Loaded(ss).last = None /\ Loaded(ss).held = None
           /\ Loaded(ss).gen = IF Load(ss) = None THEN 0 ELSE Load(ss).gen
           /\ Loaded(ss).active = IF Load(ss) = None THEN Blank ELSE Load(ss).image
           /\ Loaded(ss).active \in Configuration
<1>1. 0 \in Generation
  BY SlotAssumption DEF Generation
<1>2. Fresh \in DeviceType
  BY <1>1 DEF Fresh, DeviceType
<1>3. CASE Load(ss) = None
  BY <1>2, <1>3, Blanks DEF Loaded, Fresh
<1>4. CASE Load(ss) # None
  <2>1. Load(ss).gen \in Generation /\ Load(ss).image \in Image
    BY <1>4, LoadType DEF Meta
  <2>2. Loaded(ss) = [Fresh EXCEPT !.gen = Load(ss).gen, !.active = Load(ss).image]
    BY <1>4 DEF Loaded
  <2>3. QED
    BY <1>2, <1>4, <2>1, <2>2, Images DEF Fresh, DeviceType
<1>5. QED
  BY <1>3, <1>4

LEMMA RebootEffect ==
    ASSUME BaseInv, SlotInv', Reboot
    PROVE  /\ device' = Loaded(slots') /\ device' \in DeviceType
           /\ device'.active \in Configuration
           /\ link' \in LinkType /\ link'.answers = link.answers
           /\ IF update = None THEN link' = link /\ slots' = slots
              ELSE /\ link.requests # <<>> /\ link'.requests = Tail(link.requests)
                   /\ Interrupted
           /\ update' = None
           /\ host' = host
           /\ history' \in HistoryType /\ history'.asked = None
           /\ history'.acked = history.acked /\ history'.kept = history.kept
           /\ history'.lost = (history.lost \/ update # None)
           /\ history'.named = Named(history.named, device'.gen, device'.active)
           /\ budget' \in BudgetType /\ budget'.sessions = budget.sessions
           /\ budget'.operations = budget.operations
<1>1. link \in LinkType /\ history \in HistoryType /\ budget \in BudgetType
  BY DEF BaseInv, TypeOK
<1>2. /\ device' = Loaded(slots') /\ host' = host /\ Mishap
      /\ link' = (IF update = None THEN link ELSE Received)
      /\ history' = [history EXCEPT !.asked = None, !.lost = @ \/ update # None,
                                    !.named = Named(@, device'.gen, device'.active)]
      /\ (Interrupted \/ (update = None /\ slots' = slots /\ update' = update))
  BY DEF Reboot
<1>3. device' \in DeviceType /\ device'.active \in Configuration /\ device'.gen \in Generation
  BY <1>2, LoadedDevice DEF SlotInv, SlotTypeOK, DeviceType
<1> DEFINE n == Named(history.named, device'.gen, device'.active)
<1>4. n \in [Generation -> Configuration \cup {None}]
  BY <1>1, <1>3, NamedType DEF HistoryType
<1>5. /\ history' \in HistoryType /\ history'.asked = None
      /\ history'.acked = history.acked /\ history'.kept = history.kept
      /\ history'.lost = (history.lost \/ update # None)
      /\ history'.named = n
  <2> HIDE DEF n
  <2>1. history' = [history EXCEPT !.asked = None, !.lost = @ \/ update # None, !.named = n]
    BY <1>2 DEF n
  <2>2. QED
    BY <2>1, <1>1, <1>4 DEF HistoryType
<1>6. CASE update = None
  <2>1. ~Interrupted
    BY <1>6 DEF Interrupted
  <2>2. QED
    BY <1>1, <1>2, <1>3, <1>5, <1>6, <2>1, MishapEffect
<1>7. CASE update # None
  <2>1. Interrupted /\ update' = None
    BY <1>2, <1>7 DEF Interrupted
  <2>2. link.requests # <<>>
    BY <1>7 DEF BaseInv, CommitOK
  <2>3. /\ link' \in LinkType /\ link'.answers = link.answers
        /\ link'.requests = Tail(link.requests)
    BY <1>1, <1>2, <1>7, <2>2, ReceivedType
  <2>4. QED
    BY <1>1, <1>2, <1>3, <1>5, <1>7, <2>1, <2>2, <2>3, MishapEffect
<1>8. QED
  BY <1>6, <1>7
-----------------------------------------------------------------------------
(* The link and the beginnings of the host.                                *)

LEMMA LoseEffect ==
    ASSUME BaseInv, Lose
    PROVE  /\ update = None /\ link' \in LinkType
           /\ \/ /\ link.requests # <<>> /\ link'.requests = Tail(link.requests)
                 /\ link'.answers = link.answers
              \/ /\ link.answers # <<>> /\ link'.answers = Tail(link.answers)
                 /\ link'.requests = link.requests
           /\ slots' = slots /\ update' = update /\ host' = host /\ device' = device
           /\ history' \in HistoryType /\ history'.lost
           /\ history'.named = history.named /\ history'.acked = history.acked
           /\ history'.asked = history.asked /\ history'.kept = history.kept
           /\ budget' \in BudgetType /\ budget'.sessions = budget.sessions
           /\ budget'.operations = budget.operations
<1>1. link \in LinkType /\ history \in HistoryType /\ budget \in BudgetType
  BY DEF BaseInv, TypeOK
<1>2. history' = [history EXCEPT !.lost = TRUE]
  BY DEF Lose
<1>3. /\ history' \in HistoryType /\ history'.lost
      /\ history'.named = history.named /\ history'.acked = history.acked
      /\ history'.asked = history.asked /\ history'.kept = history.kept
  BY <1>1, <1>2 DEF HistoryType
<1>4. QED
  BY <1>1, <1>3, MishapEffect, ReceivedType, TakenType DEF Lose

LEMMA ResendEffect ==
    ASSUME BaseInv, Resend
    PROVE  /\ Waiting /\ host.req \in RequestType /\ Len(link.requests) < 2
           /\ link' \in LinkType /\ link'.requests = Append(link.requests, host.req)
           /\ link'.answers = link.answers
           /\ slots' = slots /\ update' = update /\ host' = host /\ device' = device
           /\ history' = history
           /\ budget' \in BudgetType /\ budget'.sessions = budget.sessions
           /\ budget'.operations = budget.operations
<1>1. link \in LinkType /\ budget \in BudgetType /\ host \in HostType
  BY DEF BaseInv, TypeOK
<1>2. Waiting /\ host.req \in RequestType
  BY <1>1, HostParts DEF Resend, Waiting
<1>3. link' = [link EXCEPT !.requests = Append(@, host.req)]
  BY DEF Resend
<1>4. Append(link.requests, host.req) \in Seq(RequestType)
  BY <1>1, <1>2, LinkParts
<1>5. link' \in LinkType /\ link'.requests = Append(link.requests, host.req)
      /\ link'.answers = link.answers
  BY <1>1, <1>3, <1>4 DEF LinkType
<1>6. QED
  BY <1>1, <1>2, <1>5, MishapEffect DEF Resend

LEMMA ConnectEffect ==
    ASSUME BaseInv, Connect
    PROVE  /\ host' = [open |-> FALSE, seq |-> 2, tx |-> 0, at |-> Idle,
                       req |-> Request(1, "hello", 0, None)]
           /\ host' \in HostType /\ host'.req \in RequestType /\ host'.req # None
           /\ Len(link.requests) < 2
           /\ link' \in LinkType /\ link'.requests = Append(link.requests, host'.req)
           /\ link'.answers \in {<<>>, link.answers}
           /\ slots' = slots /\ update' = update /\ device' = device
           /\ history' \in HistoryType /\ history'.lost = (history.lost \/ Waiting)
           /\ history'.named = history.named /\ history'.acked = history.acked
           /\ history'.asked = history.asked /\ history'.kept = history.kept
           /\ budget.sessions > 0
           /\ budget' \in BudgetType /\ budget'.sessions = budget.sessions - 1
           /\ budget'.operations = budget.operations
<1> DEFINE r == Request(1, "hello", 0, None)
<1>1. link \in LinkType /\ history \in HistoryType /\ budget \in BudgetType
  BY DEF BaseInv, TypeOK
<1>2. r \in RequestType /\ r # None
  BY Asking, ExchangeAssumption
<1>3. host' = [open |-> FALSE, seq |-> 2, tx |-> 0, at |-> Idle, req |-> r]
      /\ Len(link.requests) < 2
  BY DEF Connect
<1> HIDE DEF r
<1>4. Idle \in AtType
  BY AtTypes
<1>5. host' \in HostType /\ host'.req = r
  BY <1>2, <1>3, <1>4 DEF HostType, AtType
<1>6. PICK kept \in {<<>>, link.answers} :
          link' = [requests |-> Append(link.requests, host'.req), answers |-> kept]
  BY DEF Connect
<1>7. link' \in LinkType /\ link'.requests = Append(link.requests, r)
      /\ link'.answers \in {<<>>, link.answers}
  <2>1. Append(link.requests, r) \in Seq(RequestType)
    BY <1>1, <1>2, LinkParts
  <2>2. kept \in Seq(AnswerType)
    <3>1. <<>> \in Seq(AnswerType)
      OBVIOUS
    <3>2. link.answers \in Seq(AnswerType)
      BY <1>1, LinkParts
    <3>3. QED
      BY <1>6, <3>1, <3>2, Zenon
  <2>3. QED
    BY <1>5, <1>6, <2>1, <2>2 DEF LinkType
<1>8. history' = [history EXCEPT !.lost = @ \/ Waiting]
  BY DEF Connect
<1>9. /\ history' \in HistoryType /\ history'.lost = (history.lost \/ Waiting)
      /\ history'.named = history.named /\ history'.acked = history.acked
      /\ history'.asked = history.asked /\ history'.kept = history.kept
  <2>1. (history.lost \/ Waiting) \in BOOLEAN
    BY DEF Waiting
  <2>2. QED
    BY <1>1, <1>8, <2>1 DEF HistoryType
<1>10. /\ budget.sessions > 0 /\ (Waiting => budget.mishaps > 0)
       /\ budget' = [budget EXCEPT !.sessions = @ - 1,
                                   !.mishaps = IF Waiting THEN @ - 1 ELSE @]
  BY DEF Connect
<1>11. /\ budget' \in BudgetType /\ budget'.sessions = budget.sessions - 1
       /\ budget'.operations = budget.operations
  <2>1. budget.sessions - 1 \in Nat /\ budget.mishaps \in Nat
    BY <1>1, <1>10 DEF BudgetType
  <2>2. CASE Waiting
    <3>1. budget.mishaps - 1 \in Nat
      BY <1>10, <2>1, <2>2
    <3>2. budget' = [budget EXCEPT !.sessions = @ - 1, !.mishaps = @ - 1]
      BY <1>10, <2>2
    <3>3. QED
      BY <1>1, <2>1, <3>1, <3>2 DEF BudgetType
  <2>3. CASE ~Waiting
    <3>1. budget' = [budget EXCEPT !.sessions = @ - 1, !.mishaps = @]
      BY <1>10, <2>3
    <3>2. QED
      BY <1>1, <2>1, <3>1 DEF BudgetType
  <2>4. QED
    BY <2>2, <2>3
<1>12. QED
  BY <1>2, <1>3, <1>5, <1>7, <1>9, <1>10, <1>11 DEF Connect, r

LEMMA OperationEffect ==
    ASSUME BaseInv, Operation
    PROVE  /\ host.open /\ ~Waiting
           /\ slots' = slots /\ update' = update /\ device' = device /\ history' = history
           /\ budget' \in BudgetType /\ budget'.sessions = budget.sessions
           /\ budget'.operations = budget.operations - 1 /\ budget.operations > 0
<1>1. budget \in BudgetType /\ budget.operations > 0
      /\ budget' = [budget EXCEPT !.operations = @ - 1]
  BY DEF BaseInv, TypeOK, Operation
<1>2. /\ budget' \in BudgetType /\ budget'.sessions = budget.sessions
      /\ budget'.operations = budget.operations - 1
  BY <1>1 DEF BudgetType
<1>3. QED
  BY <1>1, <1>2 DEF Operation

LEMMA WriteConfigurationEffect ==
    ASSUME BaseInv, WriteConfiguration
    PROVE  /\ host' \in HostType /\ host'.open = host.open /\ host'.seq = host.seq + 1
           /\ host'.tx = host.tx + 1 /\ host'.at.want \in Wanted
           /\ host'.at.listing = None /\ host'.at.pages = None /\ host'.at.snap = Blank
           /\ host'.req = Request(host.seq, "begin", host.tx + 1, None)
           /\ host'.req \in RequestType /\ host'.req # None
           /\ Len(link.requests) < 2
           /\ link' \in LinkType /\ link'.requests = Append(link.requests, host'.req)
           /\ link'.answers = link.answers
<1> DEFINE r == Request(host.seq, "begin", host.tx + 1, None)
<1>1. link \in LinkType /\ host \in HostType /\ host.seq \in Nat \ {0} /\ host.tx \in Nat
  BY HostParts DEF BaseInv, TypeOK
<1>2. r \in RequestType /\ r # None
  <2>1. host.tx + 1 \in Nat /\ host.seq \in Nat
    BY <1>1
  <2>2. QED
    BY <2>1, Asking, ExchangeAssumption
<1> HIDE DEF r
<1>3. PICK want \in Wanted :
          host' = [host EXCEPT !.at = [Idle EXCEPT !.want = want], !.seq = @ + 1, !.tx = @ + 1,
                               !.req = r]
  BY DEF WriteConfiguration, r
<1> DEFINE at == [Idle EXCEPT !.want = want]
<1>4. Idle \in AtType /\ Idle.listing = None /\ Idle.pages = None /\ Idle.snap = Blank
  BY AtTypes DEF Idle
<1>5. at \in AtType /\ at.want = want /\ at.listing = None /\ at.pages = None /\ at.snap = Blank
  BY <1>4 DEF AtType
<1> HIDE DEF at
<1>6. /\ host' \in HostType /\ host'.open = host.open /\ host'.seq = host.seq + 1
      /\ host'.tx = host.tx + 1 /\ host'.at = at /\ host'.req = r
  <2>1. host' = [host EXCEPT !.at = at, !.seq = @ + 1, !.tx = @ + 1, !.req = r]
    BY <1>3 DEF at
  <2>2. host.seq + 1 \in Nat \ {0} /\ host.tx + 1 \in Nat
    BY <1>1
  <2>3. QED
    BY <1>1, <1>2, <1>5, <2>1, <2>2 DEF HostType, AtType
<1>7. link' = [link EXCEPT !.requests = Append(@, host'.req)] /\ Len(link.requests) < 2
  BY DEF WriteConfiguration
<1>8. Append(link.requests, r) \in Seq(RequestType)
  BY <1>1, <1>2, LinkParts
<1>9. link' \in LinkType /\ link'.requests = Append(link.requests, host'.req)
      /\ link'.answers = link.answers
  BY <1>1, <1>6, <1>7, <1>8 DEF LinkType
<1>10. QED
  BY <1>2, <1>5, <1>6, <1>7, <1>9 DEF r

LEMMA BackupEffect ==
    ASSUME BaseInv, BackupConfiguration
    PROVE  /\ host' \in HostType /\ host'.at = Idle /\ host'.seq = host.seq + 1
           /\ host'.tx = host.tx /\ host'.open = host.open
           /\ host'.req = Request(host.seq, "list", host.tx, 0)
           /\ host'.req \in RequestType /\ host'.req # None
           /\ Len(link.requests) < 2
           /\ link' \in LinkType /\ link'.requests = Append(link.requests, host'.req)
           /\ link'.answers = link.answers
<1>1. link \in LinkType /\ host \in HostType /\ host.seq \in Nat /\ host.tx \in Nat
  BY HostParts DEF BaseInv, TypeOK
<1>2. Request(host.seq, "list", host.tx, 0) \in RequestType
  BY <1>1, Asking
<1>3. Ask(Idle, "list", 0, link)
  BY DEF BackupConfiguration
<1>4. QED
  BY <1>1, <1>2, <1>3, AtTypes, AskEffect

-----------------------------------------------------------------------------
(* The base of the invariants.                                             *)

LEMMA SlotSteps ==
    ASSUME BaseInv, [Next]_vars
    PROVE  [SlotNext]_slotVars
<1>1. CASE CommitTransaction
  <2>1. device.candidate \in Image
    BY <1>1 DEF CommitTransaction, BaseInv, TypeOK
  <2>2. QED
    BY <1>1, <2>1 DEF CommitTransaction, SlotNext
<1>2. CASE StoreBlock \/ StoreMarker \/ StoreFailed \/ Reboot
  BY <1>2 DEF StoreBlock, StoreMarker, StoreFailed, Reboot, SlotNext, slotVars
<1>3. CASE Performing
  BY <1>3, Handled DEF Handling, Answer, slotVars
<1>4. CASE Replay \/ HostStep \/ Lose \/ Resend \/ Connect \/ WriteConfiguration
           \/ BackupConfiguration
  <2>1. CASE HostStep
    BY <2>1, HostSteps DEF Asks, Rests, HostFrame, Ignore, Unread, HostOnly, slotVars
  <2>2. CASE ~HostStep
    BY <1>4, <2>2 DEF Replay, Lose, Resend, Connect, WriteConfiguration, BackupConfiguration,
       Operation, slotVars
  <2>3. QED
    BY <2>1, <2>2
<1>5. CASE UNCHANGED vars
  BY <1>5 DEF vars, slotVars
<1>6. QED
  BY <1>1, <1>2, <1>3, <1>4, <1>5 DEF Next, DeviceStep, Performing

LEMMA SlotsKept ==
    ASSUME BaseInv, [Next]_vars
    PROVE  SlotInv' /\ SlotTypeOK'
BY SlotSteps, SlotNextInv DEF BaseInv, SlotInv

LEMMA QueueLength ==
    ASSUME TypeOK
    PROVE  /\ link.requests \in Seq(RequestType) /\ Len(link.requests) \in {0, 1, 2}
           /\ DOMAIN link.requests = 1 .. Len(link.requests)
           /\ (link.requests = <<>>) <=> (Len(link.requests) = 0)
<1>1. link.requests \in Seq(RequestType) /\ Len(link.requests) <= 2
  BY LinkParts DEF TypeOK
<1>2. Len(link.requests) \in Nat /\ DOMAIN link.requests = 1 .. Len(link.requests)
  BY <1>1
<1>3. link.requests = <<>> <=> Len(link.requests) = 0
  BY <1>1
<1>4. \A n \in Nat : n <= 2 => n \in {0, 1, 2}
  OBVIOUS
<1>5. Len(link.requests) \in {0, 1, 2}
  BY <1>1, <1>2, <1>4, Zenon
<1>6. QED
  BY <1>1, <1>2, <1>3, <1>5, Zenon

(* A request taken from the link, by the device or by its loss.            *)
LEMMA RequestsTail ==
    ASSUME BaseInv, link' \in LinkType, link.requests # <<>>,
           link'.requests = Tail(link.requests), host' = host
    PROVE  RequestsOK' /\ Len(link'.requests) <= 2
<1> DEFINE q == link.requests
<1>1. /\ q \in Seq(RequestType) /\ Len(q) \in {1, 2} /\ Len(link'.requests) = Len(q) - 1
      /\ DOMAIN link'.requests = 1 .. Len(q) - 1 /\ DOMAIN q = 1 .. Len(q)
      /\ \A i \in 1 .. Len(q) - 1 : link'.requests[i] = q[i + 1]
  <2>1. q \in Seq(RequestType) /\ Len(q) \in {1, 2} /\ q # <<>> /\ DOMAIN q = 1 .. Len(q)
    BY QueueLength DEF BaseInv
  <2>2. /\ Len(Tail(q)) = Len(q) - 1 /\ DOMAIN Tail(q) = 1 .. Len(q) - 1
        /\ \A i \in 1 .. Len(q) - 1 : Tail(q)[i] = q[i + 1]
    BY <2>1, FrameOut, Zenon
  <2>3. QED
    BY <2>1, <2>2
<1>2. ASSUME NEW i \in DOMAIN link'.requests
      PROVE  link'.requests[i].cmd \in Parties => link'.requests[i].tx > 0
  <2>1. i + 1 \in DOMAIN q /\ link'.requests[i] = q[i + 1]
    BY <1>1, <1>2
  <2>2. QED
    BY <2>1 DEF BaseInv, RequestsOK
<1>3. link'.requests # <<>> => link'.requests[Len(link'.requests)] = q[Len(q)]
  BY <1>1
<1>4. Waiting' = Waiting
  BY DEF Waiting
<1>5. QED
  BY <1>1, <1>2, <1>3, <1>4 DEF BaseInv, RequestsOK

(* RequestsOK of the request the host waits for.                           *)
HostKnows ==
    /\ host.req.cmd \in Parties => host.req.tx > 0
    /\ host.req.cmd \in {"begin", "write", "validate"} => host.at.want # None /\ host.tx > 0
    /\ host.req.cmd = "commit" => host.tx > 0
    /\ host.req.cmd = "read" =>
           host.at.listing # None /\ host.at.key \in 1 .. Len(host.at.listing.keys)

(* A request given to the link.                                            *)
LEMMA RequestsAppend ==
    ASSUME BaseInv, link' \in LinkType, host'.req \in RequestType, Len(link.requests) < 2,
           link'.requests = Append(link.requests, host'.req), HostKnows',
           host'.req.cmd = "commit" /\ link.requests # <<>> =>
               \/ link.requests[1] = host'.req
               \/ link.requests[1].cmd = "validate"
    PROVE  RequestsOK' /\ Len(link'.requests) <= 2
<1> DEFINE q == link.requests
           r == host'.req
<1>1. /\ q \in Seq(RequestType) /\ Len(q) \in {0, 1} /\ Len(link'.requests) = Len(q) + 1
      /\ DOMAIN link'.requests = 1 .. Len(q) + 1 /\ DOMAIN q = 1 .. Len(q)
      /\ \A i \in 1 .. Len(q) : link'.requests[i] = q[i]
      /\ link'.requests[Len(q) + 1] = r
  <2>1. q \in Seq(RequestType) /\ Len(q) \in {0, 1} /\ DOMAIN q = 1 .. Len(q)
    BY QueueLength DEF BaseInv
  <2>2. QED
    BY <2>1, FrameIn
<1>2. ASSUME NEW i \in DOMAIN link'.requests
      PROVE  link'.requests[i].cmd \in Parties => link'.requests[i].tx > 0
  <2>1. CASE i = Len(q) + 1
    BY <1>1, <2>1 DEF HostKnows
  <2>2. CASE i # Len(q) + 1
    <3>1. i \in DOMAIN q /\ link'.requests[i] = q[i]
      BY <1>1, <1>2, <2>2
    <3>2. QED
      BY <3>1 DEF BaseInv, RequestsOK
  <2>3. QED
    BY <2>1, <2>2
<1>3. link'.requests[Len(link'.requests)] = r
  BY <1>1
<1>4. Len(link'.requests) = 2 /\ link'.requests[2].cmd = "commit" =>
           link'.requests[1] = link'.requests[2] \/ link'.requests[1].cmd = "validate"
  BY <1>1
<1>5. QED
  BY <1>1, <1>2, <1>3, <1>4 DEF RequestsOK, HostKnows

LEMMA RequestsSame ==
    ASSUME BaseInv, link'.requests = link.requests, host' = host \/ host'.req = None
    PROVE  RequestsOK' /\ Len(link'.requests) <= 2
BY DEF BaseInv, TypeOK, RequestsOK, Waiting

LEMMA AsksRequests ==
    ASSUME BaseInv, NEW at, NEW cmd, NEW arg, NEW l, Asks(at, cmd, arg, l)
    PROVE  /\ host' \in HostType /\ host'.at = at /\ host'.seq = host.seq + 1
           /\ host'.tx = host.tx /\ host'.open = host.open
           /\ host'.req = Request(host.seq, cmd, host.tx, arg) /\ host'.req # None
           /\ host'.req.seq = host.seq /\ host'.req.cmd = cmd /\ host'.req.tx = host.tx
           /\ host'.req.arg = arg /\ host'.req \in RequestType
           /\ link' \in LinkType /\ link'.answers = l.answers
           /\ link'.requests = Append(link.requests, host'.req)
           /\ Len(link.requests) < 2 /\ l \in LinkType /\ l.requests = link.requests
           /\ l.answers = IF l = link THEN link.answers ELSE Tail(link.answers)
           /\ l # link => Expected
           /\ RequestsOK' /\ Len(link'.requests) <= 2
           /\ Waiting
<1>1. TypeOK /\ host \in HostType /\ link \in LinkType /\ Waiting
  BY DEF BaseInv, TypeOK, Asks, Afterwards, Expected
<1>2. /\ l \in LinkType /\ l.requests = link.requests /\ (l # link => Expected)
      /\ l.answers = IF l = link THEN link.answers ELSE Tail(link.answers)
  BY <1>1, TakenType DEF Asks, Afterwards, Expected
<1>3. /\ host' \in HostType /\ host'.at = at /\ host'.seq = host.seq + 1
      /\ host'.tx = host.tx /\ host'.open = host.open
      /\ host'.req = Request(host.seq, cmd, host.tx, arg) /\ host'.req # None
      /\ link' \in LinkType /\ link'.answers = l.answers
      /\ link'.requests = Append(link.requests, host'.req)
      /\ Len(link.requests) < 2
  BY <1>1, <1>2, AskEffect DEF Asks
<1>4. /\ host'.req.seq = host.seq /\ host'.req.cmd = cmd /\ host'.req.tx = host.tx
      /\ host'.req.arg = arg /\ host'.req \in RequestType
  BY <1>3 DEF Request, Asks
<1>5. /\ cmd \in Parties => host.req.cmd \in Parties
      /\ host.req.cmd \in {"begin", "write", "validate", "commit"} => host.tx > 0
  BY <1>1 DEF Asks, BaseInv, RequestsOK, Parties
<1>6. HostKnows'
  BY <1>3, <1>4, <1>5 DEF HostKnows, Asks, Parties
<1>7. cmd = "commit" /\ link.requests # <<>> => link.requests[1].cmd = "validate"
  <2> SUFFICES ASSUME cmd = "commit", link.requests # <<>>
               PROVE  link.requests[1].cmd = "validate"
    OBVIOUS
  <2>1. link.requests[Len(link.requests)] = host.req /\ host.req.cmd = "validate"
    BY <1>1 DEF BaseInv, RequestsOK, Asks
  <2>2. Len(link.requests) = 1
    BY <1>1, <1>3, QueueLength
  <2>3. QED
    BY <2>1, <2>2
<1>8. RequestsOK' /\ Len(link'.requests) <= 2
  BY <1>3, <1>4, <1>6, <1>7, RequestsAppend
<1>9. QED
  BY <1>1, <1>2, <1>3, <1>4, <1>8

LEMMA RestsRequests ==
    ASSUME BaseInv, NEW l, Rests(l)
    PROVE  /\ link' \in LinkType /\ link'.requests = link.requests
           /\ link'.answers = IF l = link THEN link.answers ELSE Tail(link.answers)
           /\ l # link => Expected
           /\ RequestsOK' /\ Len(link'.requests) <= 2
           /\ Waiting /\ ~Waiting'
<1>1. TypeOK /\ link \in LinkType /\ Waiting /\ host'.req = None /\ link' = l
  BY DEF BaseInv, TypeOK, Rests, Afterwards, Expected
<1>2. /\ l \in LinkType /\ l.requests = link.requests /\ (l # link => Expected)
      /\ l.answers = IF l = link THEN link.answers ELSE Tail(link.answers)
  BY <1>1, TakenType DEF Rests, Afterwards, Expected
<1>3. QED
  BY <1>1, <1>2, RequestsSame DEF Waiting

LEMMA IgnoreEffect ==
    ASSUME BaseInv, Ignore
    PROVE  /\ link.answers # <<>> /\ ~Expected
           /\ link' \in LinkType /\ link'.requests = link.requests
           /\ link'.answers = Tail(link.answers)
           /\ slots' = slots /\ update' = update /\ device' = device /\ host' = host
           /\ budget' = budget /\ history' = history
BY TakenType DEF BaseInv, TypeOK, Ignore, Unread, HostOnly

LEMMA RepeatedIs == Repeated <=> Remembered(Incoming)
BY DEF Repeated, Remembered, Settled

(* While a commit is being stored its request stays at the head.           *)
LEMMA CommitStays ==
    ASSUME BaseInv, update' = update, device' = device, NEW r \in RequestType,
           link'.requests \in {link.requests, Append(link.requests, r)}
    PROVE  CommitOK' /\ CandidateOK'
<1>1. link.requests # <<>> => link'.requests # <<>> /\ Incoming' = Incoming
  BY FrameIn, QueueLength DEF BaseInv, Incoming
<1>2. Remembered(Incoming)' = Remembered(Incoming') 
  BY DEF Remembered
<1>3. \A x : device' = device => (Remembered(x)' <=> Remembered(x))
  BY DEF Remembered
<1>4. CommitOK'
  BY <1>1 DEF BaseInv, CommitOK, Remembered
<1>5. QED
  BY <1>4 DEF BaseInv, CandidateOK

LEMMA BaseInit == Init => BaseInv
<1> SUFFICES ASSUME Init PROVE BaseInv
  OBVIOUS
<1>1. SlotInv /\ SlotTypeOK
  BY SlotInitInv DEF Init, SlotInv
<1>2. update = None
  BY DEF Init, InitSlots
<1>3. host = [open |-> FALSE, seq |-> 1, tx |-> 0, req |-> None, at |-> Idle]
      /\ link = [requests |-> <<>>, answers |-> <<>>] /\ device = Loaded(slots)
  BY DEF Init
<1>4. host \in HostType /\ ~Waiting
  <2>1. Idle \in AtType
    BY AtTypes
  <2>2. QED
    BY <1>3, <2>1 DEF HostType, AtType, Waiting
<1>5. link \in LinkType /\ link.requests = <<>> /\ Len(link.requests) <= 2
      /\ Len(link.requests) # 2
  BY <1>3 DEF LinkType
<1>6. device \in DeviceType /\ device.tx = 0 /\ device.validated = FALSE
      /\ device.active \in Configuration /\ device.gen \in Generation
  BY <1>1, <1>3, LoadedDevice DEF SlotTypeOK, DeviceType
<1>7. budget \in BudgetType
  BY DeviceAssumption DEF Init, BudgetType
<1>8. history \in HistoryType
  <2> DEFINE n == Named([g \in Generation |-> None], device.gen, device.active)
  <2>1. n \in [Generation -> Configuration \cup {None}]
    BY <1>6, NamedType
  <2>2. Load(slots) \in Meta \cup {None}
    BY <1>1, LoadType DEF SlotTypeOK
  <2>3. history = [named |-> n, acked |-> Load(slots), asked |-> None, kept |-> None,
                   lost |-> FALSE]
    BY DEF Init
  <2> HIDE DEF n
  <2>4. QED
    BY <2>1, <2>2, <2>3 DEF HistoryType
<1>9. TypeOK
  BY <1>1, <1>4, <1>5, <1>6, <1>7, <1>8 DEF TypeOK
<1>10. RequestsOK
  BY <1>4, <1>5 DEF RequestsOK
<1>11. QED
  BY <1>1, <1>2, <1>6, <1>9, <1>10 DEF BaseInv, CandidateOK, CommitOK

LEMMA BaseNext ==
    ASSUME BaseInv, [Next]_vars
    PROVE  BaseInv'
<1>1. SlotInv' /\ SlotTypeOK'
  BY SlotsKept
<1>2. /\ TypeOK /\ host \in HostType /\ link \in LinkType /\ device \in DeviceType
      /\ budget \in BudgetType /\ history \in HistoryType
      /\ (device.validated => device.candidate \in Image)
  BY DEF BaseInv, TypeOK
<1>3. CASE Performing
  <2>1. PICK after, a : Handling(after, a)
    BY <1>3, Handled
  <2>2. /\ link.requests # <<>> /\ update = None /\ after \in DeviceType /\ a \in AnswerType
        /\ Answer(after, a)
    BY <2>1 DEF Handling, Answering
  <2>3. /\ link' \in LinkType /\ link'.requests = Tail(link.requests)
        /\ device' \in DeviceType /\ device'.tx = after.tx
        /\ device'.candidate = after.candidate /\ device'.validated = after.validated
        /\ history' \in HistoryType
        /\ update' = None /\ host' = host /\ budget' = budget
    BY <1>2, <2>2, AnswerEffect
  <2>4. RequestsOK' /\ Len(link'.requests) <= 2
    BY <2>2, <2>3, RequestsTail
  <2>5. TypeOK'
    BY <1>1, <1>2, <2>1, <2>3, <2>4 DEF TypeOK, Handling
  <2>6. CandidateOK'
    BY <2>1, <2>3 DEF CandidateOK, Handling
  <2>7. QED
    BY <1>1, <2>3, <2>4, <2>5, <2>6 DEF BaseInv, CommitOK
<1>4. CASE Replay
  <2>1. /\ link.requests # <<>> /\ update' = None /\ host' = host /\ budget' = budget
        /\ link' \in LinkType /\ link'.requests = Tail(link.requests)
        /\ device' \in DeviceType /\ device'.tx = device.tx
        /\ device'.candidate = device.candidate /\ device'.validated = device.validated
        /\ history' \in HistoryType
    BY <1>4, ReplayEffect
  <2>2. RequestsOK' /\ Len(link'.requests) <= 2
    BY <2>1, RequestsTail
  <2>3. TypeOK'
    BY <1>1, <1>2, <2>1, <2>2 DEF TypeOK
  <2>4. QED
    BY <1>1, <2>1, <2>2, <2>3 DEF BaseInv, CommitOK, CandidateOK
<1>5. CASE CommitTransaction
  <2>1. /\ update = None /\ slots' = slots /\ update' = Updating(device.candidate)
        /\ device' = [device EXCEPT !.held = None]
        /\ host' = host /\ link' = link /\ budget' = budget /\ history' = history
        /\ link.requests # <<>> /\ Incoming.cmd = "commit" /\ Incoming.tx = device.tx
        /\ device.validated /\ device.gen < GenMod - 1 /\ ~Repeated
    BY <1>5 DEF CommitTransaction, BeginUpdate, Asked, Answering, Matching
  <2>2. /\ device' \in DeviceType /\ device'.tx = device.tx /\ device'.gen = device.gen
        /\ device'.candidate = device.candidate /\ device'.validated = device.validated
        /\ device'.last = device.last /\ device'.held = None
    BY <1>2, <2>1 DEF DeviceType
  <2>3. device.candidate \in Image
    BY <1>2, <2>1
  <2>4. update'.image = device.candidate
    BY <2>1, <2>3, UpdatingStarts DEF BaseInv, TypeOK
  <2>5. ~Remembered(Incoming)
    BY <2>1, RepeatedIs
  <2>6. ~Remembered(Incoming)'
    BY <2>1, <2>2, <2>5 DEF Remembered, Incoming
  <2>7. CommitOK'
    BY <2>1, <2>2, <2>4, <2>6 DEF CommitOK, Incoming
  <2>8. TypeOK'
    BY <1>1, <1>2, <2>1, <2>2 DEF TypeOK
  <2>9. RequestsOK' /\ CandidateOK'
    BY <2>1, <2>2, RequestsSame DEF BaseInv, CandidateOK
  <2>10. QED
    BY <1>1, <2>7, <2>8, <2>9 DEF BaseInv
<1>6. CASE StoreBlock
  <2>1. /\ update # None /\ update' = [update EXCEPT !.at = @ + 1] /\ host' = host
        /\ link' = link /\ device' = device /\ budget' = budget /\ history' = history
    BY <1>6 DEF StoreBlock, WriteBlock
  <2>2. update'.image = update.image
    BY <2>1 DEF BaseInv, TypeOK, SlotTypeOK, Update
  <2>3. TypeOK' /\ RequestsOK' /\ CandidateOK'
    BY <1>1, <1>2, <2>1, RequestsSame DEF TypeOK, BaseInv, CandidateOK
  <2>4. CommitOK'
    BY <2>1, <2>2 DEF BaseInv, CommitOK, Incoming, Remembered
  <2>5. QED
    BY <1>1, <2>3, <2>4 DEF BaseInv
<1>7. ASSUME Undone, link.requests # <<>>, update' = None, host' = host,
             budget' \in BudgetType
      PROVE  BaseInv'
  <2>1. /\ link' \in LinkType /\ link'.requests = Tail(link.requests)
        /\ device' \in DeviceType /\ device'.tx = device.tx
        /\ device'.candidate = device.candidate /\ device'.validated = device.validated
        /\ history' \in HistoryType
    BY <1>7, UndoneEffect
  <2>2. RequestsOK' /\ Len(link'.requests) <= 2
    BY <1>7, <2>1, RequestsTail
  <2>3. TypeOK'
    BY <1>1, <1>2, <1>7, <2>1, <2>2 DEF TypeOK
  <2>4. QED
    BY <1>1, <1>7, <2>1, <2>2, <2>3 DEF BaseInv, CommitOK, CandidateOK
<1>8. CASE StoreMarker
  <2>1. CASE Undone
    BY <1>2, <1>7, <1>8, <2>1, StoreMarkerEffect
  <2>2. CASE ~Undone
    <3>1. /\ link.requests # <<>> /\ update' = None /\ host' = host /\ budget' = budget
          /\ link' \in LinkType /\ link'.requests = Tail(link.requests)
          /\ device' \in DeviceType /\ device'.tx = 0 /\ device'.validated = FALSE
          /\ history' \in HistoryType
      BY <1>8, <2>2, StoreMarkerEffect
    <3>2. RequestsOK' /\ Len(link'.requests) <= 2
      BY <3>1, RequestsTail
    <3>3. TypeOK'
      BY <1>1, <1>2, <3>1, <3>2 DEF TypeOK
    <3>4. QED
      BY <1>1, <3>1, <3>2, <3>3 DEF BaseInv, CommitOK, CandidateOK
  <2>3. QED
    BY <2>1, <2>2
<1>9. CASE StoreFailed
  <2>1. Undone /\ update # None /\ update' = None /\ host' = host /\ budget' \in BudgetType
    BY <1>2, <1>9, MishapEffect DEF StoreFailed, Interrupted
  <2>2. link.requests # <<>>
    BY <2>1 DEF BaseInv, CommitOK
  <2>3. QED
    BY <1>7, <2>1, <2>2
<1>10. CASE Reboot
  <2>1. /\ device' \in DeviceType /\ device'.tx = 0 /\ device'.validated = FALSE
        /\ link' \in LinkType /\ update' = None /\ host' = host
        /\ IF update = None THEN link' = link
           ELSE link.requests # <<>> /\ link'.requests = Tail(link.requests)
        /\ history' \in HistoryType /\ budget' \in BudgetType
    BY <1>1, <1>10, RebootEffect, LoadedDevice DEF SlotTypeOK
  <2>2. RequestsOK' /\ Len(link'.requests) <= 2
    BY <2>1, RequestsTail, RequestsSame
  <2>3. TypeOK'
    BY <1>1, <1>2, <2>1, <2>2 DEF TypeOK
  <2>4. QED
    BY <1>1, <2>1, <2>2, <2>3 DEF BaseInv, CommitOK, CandidateOK
<1>11. CASE Lose
  <2>1. /\ update' = None /\ link' \in LinkType /\ host' = host /\ device' = device
        /\ \/ link.requests # <<>> /\ link'.requests = Tail(link.requests)
           \/ link'.requests = link.requests
        /\ history' \in HistoryType /\ budget' \in BudgetType
    BY <1>11, LoseEffect
  <2>2. RequestsOK' /\ Len(link'.requests) <= 2
    BY <2>1, RequestsTail, RequestsSame
  <2>3. TypeOK'
    BY <1>1, <1>2, <2>1, <2>2 DEF TypeOK
  <2>4. QED
    BY <1>1, <2>1, <2>2, <2>3 DEF BaseInv, CommitOK, CandidateOK
<1>12. ASSUME update' = update, device' = device, host' \in HostType, link' \in LinkType,
              budget' \in BudgetType, history' \in HistoryType,
              NEW r \in RequestType,
              link'.requests \in {link.requests, Append(link.requests, r)},
              RequestsOK', Len(link'.requests) <= 2
       PROVE  BaseInv'
  <2>1. TypeOK'
    BY <1>1, <1>2, <1>12 DEF TypeOK
  <2>2. CommitOK' /\ CandidateOK'
    BY <1>12, CommitStays
  <2>3. QED
    BY <1>1, <1>12, <2>1, <2>2 DEF BaseInv
<1>13. CASE Resend
  <2>1. /\ host.req \in RequestType /\ host' = host /\ HostKnows
        /\ link' \in LinkType /\ link'.requests = Append(link.requests, host.req)
        /\ Len(link.requests) < 2
    BY <1>13, ResendEffect DEF BaseInv, RequestsOK, HostKnows
  <2>2. HostKnows'
    BY <2>1 DEF HostKnows
  <2>3. link.requests # <<>> => link.requests[1] = host.req
    BY <1>13, <1>2, <2>1, ResendEffect, QueueLength DEF BaseInv, RequestsOK
  <2>4. RequestsOK' /\ Len(link'.requests) <= 2
    BY <2>1, <2>2, <2>3, RequestsAppend
  <2>5. QED
    BY <1>2, <1>12, <1>13, <2>1, <2>4, ResendEffect
<1>14. CASE Connect
  <2>1. /\ host' \in HostType /\ host'.req \in RequestType
        /\ host'.req.cmd = "hello"
        /\ link' \in LinkType /\ link'.requests = Append(link.requests, host'.req)
        /\ Len(link.requests) < 2
    BY <1>14, ConnectEffect DEF Request
  <2>2. HostKnows'
    BY <2>1 DEF HostKnows, Parties
  <2>3. RequestsOK' /\ Len(link'.requests) <= 2
    BY <2>1, <2>2, RequestsAppend
  <2>4. QED
    BY <1>12, <1>14, <2>1, <2>3, ConnectEffect
<1>15. CASE WriteConfiguration
  <2>1. /\ host' \in HostType /\ host'.req \in RequestType /\ host'.tx = host.tx + 1
        /\ host'.req.cmd = "begin" /\ host'.req.tx = host.tx + 1 /\ host'.at.want \in Wanted
        /\ link' \in LinkType /\ link'.requests = Append(link.requests, host'.req)
        /\ Len(link.requests) < 2
    BY <1>15, WriteConfigurationEffect DEF Request
  <2>2. host.tx + 1 > 0 /\ None \notin Wanted
    BY <1>2, HostParts, DeviceAssumption, ExchangeAssumption DEF Configuration, Key
  <2>3. HostKnows'
    BY <2>1, <2>2 DEF HostKnows
  <2>4. RequestsOK' /\ Len(link'.requests) <= 2
    BY <2>1, <2>3, RequestsAppend
  <2>5. Operation
    BY <1>15 DEF WriteConfiguration
  <2>6. QED
    BY <1>2, <1>12, <2>1, <2>4, <2>5, OperationEffect
<1>16. CASE BackupConfiguration
  <2>1. /\ host' \in HostType /\ host'.req \in RequestType
        /\ host'.req.cmd = "list"
        /\ link' \in LinkType /\ link'.requests = Append(link.requests, host'.req)
        /\ Len(link.requests) < 2
    BY <1>16, BackupEffect DEF Request
  <2>2. HostKnows'
    BY <2>1 DEF HostKnows, Parties
  <2>3. RequestsOK' /\ Len(link'.requests) <= 2
    BY <2>1, <2>2, RequestsAppend
  <2>4. Operation
    BY <1>16 DEF BackupConfiguration
  <2>5. QED
    BY <1>2, <1>12, <2>1, <2>3, <2>4, OperationEffect
<1>17. CASE HostStep
  <2>1. PICK r : r \in RequestType
    <3>1. 0 \in Nat
      OBVIOUS
    <3>2. QED
      BY <3>1, Asking
  <2>2. CASE Ignore
    BY <1>2, <1>12, <2>1, <2>2, IgnoreEffect, RequestsSame
  <2>3. ASSUME NEW at, NEW cmd, NEW arg, NEW l, Asks(at, cmd, arg, l)
        PROVE  BaseInv'
    BY <1>12, <2>3, AsksRequests DEF Asks, HostFrame
  <2>4. ASSUME NEW l, Rests(l)
        PROVE  BaseInv'
    BY <1>12, <2>1, <2>4, RestsRequests DEF Rests, HostFrame
  <2>5. QED
    BY <1>17, <2>2, <2>3, <2>4, HostSteps
<1>18. CASE UNCHANGED vars
  BY <1>1, <1>18 DEF vars, BaseInv, TypeOK, RequestsOK, CandidateOK, CommitOK, Waiting,
     Incoming, Remembered
<1>19. QED
  BY <1>3, <1>4, <1>5, <1>6, <1>8, <1>9, <1>10, <1>11, <1>13, <1>14, <1>15, <1>16, <1>17, <1>18
     DEF Next, DeviceStep, Performing

-----------------------------------------------------------------------------

(* Requests, answers, the service and its store keep their types; what is  *)
(* validated is an image, so a commit never stores more objects than the   *)
(* capacity or one the validation refuses.                                 *)
THEOREM DeviceTypeCorrect == Spec => []TypeOK
<1>1. BaseInv => TypeOK
  BY DEF BaseInv
<1>2. QED
  BY <1>1, BaseInit, BaseNext, PTL DEF Spec

(* The device moves its slots only as the dual-slot store does, so the     *)
(* configuration a start finds is one image replaced at once.              *)
THEOREM DeviceStoresAtomically == Spec => StoresAtomically
<1>1. Init => InitSlots
  BY DEF Init
<1>2. Spec => SlotSpec
  BY <1>1, BaseInit, BaseNext, SlotSteps, PTL DEF Spec, SlotSpec
<1>3. QED
  BY <1>2, SlotsStoreAtomically, PTL

-----------------------------------------------------------------------------
(***************************************************************************)
(* Part 4.  A request that arrives twice.                                  *)
(***************************************************************************)

(* A step of the host or of the link leaves the device alone.              *)
Elsewhere ==
    /\ slots' = slots /\ update' = update /\ device' = device
    /\ history'.named = history.named /\ history'.acked = history.acked
    /\ history'.asked = history.asked
    /\ Len(link'.answers) <= Len(link.answers)
    /\ \/ link'.requests = link.requests
       \/ update = None /\ link.requests # <<>> /\ link'.requests = Tail(link.requests)
       \/ \E r \in RequestType : link'.requests = Append(link.requests, r)

LEMMA Elsewheres ==
    ASSUME BaseInv, [Next]_vars
    PROVE  Elsewhere \/ DeviceStep \/ StoreFailed \/ Reboot
<1>1. /\ link.answers \in Seq(AnswerType)
      /\ link.answers # <<>> => Len(Tail(link.answers)) <= Len(link.answers)
      /\ Len(link.answers) <= Len(link.answers) /\ 0 <= Len(link.answers)
  BY LinkParts DEF BaseInv, TypeOK
<1>2. CASE Lose
  BY <1>1, <1>2, LoseEffect DEF Elsewhere
<1>3. CASE Resend
  BY <1>1, <1>3, ResendEffect DEF Elsewhere
<1>4. CASE Connect
  BY <1>1, <1>4, ConnectEffect DEF Elsewhere
<1>5. CASE WriteConfiguration
  <2>1. Operation
    BY <1>5 DEF WriteConfiguration
  <2>2. QED
    BY <1>1, <1>5, <2>1, OperationEffect, WriteConfigurationEffect DEF Elsewhere
<1>6. CASE BackupConfiguration
  <2>1. Operation
    BY <1>6 DEF BackupConfiguration
  <2>2. QED
    BY <1>1, <1>6, <2>1, OperationEffect, BackupEffect DEF Elsewhere
<1>7. CASE HostStep
  <2>1. CASE Ignore
    BY <1>1, <2>1, IgnoreEffect DEF Elsewhere
  <2>2. ASSUME NEW at, NEW cmd, NEW arg, NEW l, Asks(at, cmd, arg, l) PROVE Elsewhere
    BY <1>1, <2>2, AsksRequests DEF Asks, HostFrame, Elsewhere, Expected
  <2>3. ASSUME NEW l, Rests(l) PROVE Elsewhere
    BY <1>1, <2>3, RestsRequests DEF Rests, HostFrame, Elsewhere, Expected
  <2>4. QED
    BY <1>7, <2>1, <2>2, <2>3, HostSteps
<1>8. CASE UNCHANGED vars
  BY <1>1, <1>8 DEF vars, Elsewhere
<1>9. QED
  BY <1>2, <1>3, <1>4, <1>5, <1>6, <1>7, <1>8 DEF Next

(* The exchange the device remembers for a request.                        *)
Settles(r) == IF device.held # None /\ device.held.req.seq = r.seq THEN device.held ELSE device.last

LEMMA AskedNext ==
    ASSUME BaseInv, AskedOK, [Next]_vars
    PROVE  AskedOK'
<1>1. BaseInv'
  BY BaseNext
<1>2. CASE Elsewhere
  <2>1. update # None => link.requests # <<>>
    BY DEF BaseInv, CommitOK
  <2>2. update # None => Incoming' = Incoming
    BY <1>2, <2>1, FrameIn, QueueLength DEF BaseInv, Elsewhere, Incoming
  <2>3. QED
    BY <1>2, <2>2 DEF Elsewhere, AskedOK
<1>3. CASE Performing
  <2>1. PICK after, a : Handling(after, a)
    BY <1>3, Handled
  <2>2. /\ history'.asked = [req |-> Incoming, answer |-> a] /\ device'.held = None
        /\ device'.last = [req |-> Incoming, answer |-> a] /\ device'.last # None
        /\ update' = None
    BY <2>1, AnswerEffect DEF Handling, Answering, BaseInv
  <2>3. QED
    BY <2>2 DEF AskedOK
<1>4. CASE Replay
  <2> DEFINE a == IF Settled.req = Incoming THEN Settled.answer ELSE Refuse(Incoming)
  <2>1. /\ device'.last = device.last
        /\ device'.held = (IF Settled = device.held THEN device.held ELSE None)
        /\ history'.asked = [req |-> Incoming, answer |-> a]
        /\ update' = None
    BY <1>4, ReplayEffect
  <2>2. Settled # None /\ Settled.req.seq = Incoming.seq
    BY <1>4 DEF Replay, Repeated
  <2> HIDE DEF a
  <2>3. history'.asked.req = Incoming /\ history'.asked.answer = a
    BY <2>1
  <2>4. Settles(history.asked.req)' = Settled
    <3>1. CASE Settled = device.held
      BY <3>1, <2>1, <2>2, <2>3 DEF Settles
    <3>2. CASE Settled # device.held
      BY <3>2, <2>1, <2>3 DEF Settles, Settled
    <3>3. QED
      BY <3>1, <3>2
  <2>5. QED
    BY <2>1, <2>2, <2>3, <2>4 DEF AskedOK, Settles, a
<1>5. CASE CommitTransaction
  <2>1. /\ update' # None /\ history' = history /\ link' = link /\ ~Repeated /\ update = None
    BY <1>5, <1>1, UpdatingStarts, NoneAssumption
       DEF BaseInv, TypeOK, CommitTransaction, BeginUpdate, Asked, Answering
  <2>2. history.asked # None => Incoming # history.asked.req
    BY <2>1 DEF AskedOK, Repeated, Settled
  <2>3. QED
    BY <2>1, <2>2 DEF AskedOK, Incoming
<1>6. CASE StoreBlock
  <2>1. /\ update # None /\ update' = [update EXCEPT !.at = @ + 1]
        /\ link' = link /\ history' = history
    BY <1>6 DEF StoreBlock, WriteBlock
  <2>2. update' # None
    <3>1. update' = [slot |-> update.slot, gen |-> update.gen, image |-> update.image,
                     at |-> update.at + 1]
      BY <2>1 DEF BaseInv, TypeOK, SlotTypeOK, Update
    <3>2. update \in Update /\ update.at < Commit
      BY <1>6, <2>1 DEF StoreBlock, WriteBlock, BaseInv, TypeOK, SlotTypeOK
    <3>3. update' \in Update
      BY <3>1, <3>2, BlockNumbers DEF Update, Tombstone
    <3>4. QED
      BY <3>3, NoneAssumption
  <2>3. QED
    BY <2>1, <2>2 DEF AskedOK, Incoming
<1>7. ASSUME Undone, link.requests # <<>>, update' = None
      PROVE  AskedOK'
  BY <1>7, UndoneEffect DEF AskedOK
<1>8. CASE StoreMarker
  <2>1. CASE Undone
    BY <1>7, <1>8, <2>1, StoreMarkerEffect
  <2>2. CASE ~Undone
    <3> DEFINE e == [req |-> Incoming, answer |-> Accept(Incoming, device.gen + 1)]
    <3>1. /\ update # None /\ update' = None /\ history'.asked = e /\ device'.last = e
          /\ device'.last # None /\ device'.held = device.held
      BY <1>8, <2>2, StoreMarkerEffect
    <3>2. ~Remembered(Incoming)
      BY <3>1 DEF BaseInv, CommitOK
    <3>3. QED
      BY <3>1, <3>2 DEF AskedOK, Remembered
  <2>3. QED
    BY <2>1, <2>2
<1>9. CASE StoreFailed
  <2>1. Undone /\ update # None /\ update' = None
    BY <1>9 DEF StoreFailed, Interrupted
  <2>2. link.requests # <<>>
    BY <2>1 DEF BaseInv, CommitOK
  <2>3. QED
    BY <1>7, <2>1, <2>2
<1>10. CASE Reboot
  BY <1>10, <1>1, RebootEffect DEF BaseInv, AskedOK
<1>11. QED
  BY <1>2, <1>3, <1>4, <1>5, <1>6, <1>8, <1>9, <1>10, Elsewheres DEF DeviceStep, Performing

LEMMA AskedStep ==
    ASSUME BaseInv, AskedOK, [Next]_vars, history.asked # None, history'.asked # None,
           link.requests # <<>>, Incoming = history.asked.req
    PROVE  /\ Store(device') = Store(device)
           /\ UNCHANGED <<slots, update>>
           /\ Len(link'.answers) > Len(link.answers) =>
                  Last(link'.answers) = history.asked.answer
<1>1. update = None /\ Repeated /\ Settled = Settles(history.asked.req)
  BY DEF AskedOK, Repeated, Settled, Settles
<1>2. CASE Elsewhere
  <2>1. Len(link'.answers) <= Len(link.answers) /\ Len(link.answers) \in Nat
        /\ Len(link'.answers) \in Nat
    BY <1>2, BaseNext, LinkParts DEF Elsewhere, BaseInv, TypeOK, LinkType
  <2>2. ~(Len(link'.answers) > Len(link.answers))
    BY <2>1
  <2>3. QED
    BY <1>2, <2>2 DEF Elsewhere, Store
<1>3. ~Performing /\ ~CommitTransaction
  BY <1>1 DEF Performing, DeviceInfo, ListObjects, ReadObject, BeginTransaction, Strange,
     WriteObject, ValidateTransaction, AbortTransaction, CommitRefused, CommitTransaction, Asked
<1>4. ~StoreBlock /\ ~StoreMarker /\ ~StoreFailed
  BY <1>1 DEF StoreBlock, StoreMarker, StoreFailed, WriteBlock, WriteMarker, Interrupted
<1>5. ~Reboot
  BY BaseNext, RebootEffect DEF BaseInv
<1>6. CASE Replay
  <2> DEFINE a == IF Settled.req = Incoming THEN Settled.answer ELSE Refuse(Incoming)
  <2>1. /\ a \in AnswerType /\ link'.answers = Append(link.answers, a)
        /\ device'.gen = device.gen
        /\ device'.active = device.active /\ device'.tx = device.tx
        /\ device'.candidate = device.candidate /\ device'.validated = device.validated
        /\ slots' = slots /\ update' = update
    BY <1>6, ReplayEffect
  <2>2. a = history.asked.answer
    BY <1>1 DEF AskedOK, Settled, Settles
  <2> HIDE DEF a
  <2>3. Last(link'.answers) = a
    BY <2>1, LinkParts, FrameIn DEF BaseInv, TypeOK, Last
  <2>4. QED
    BY <2>1, <2>2, <2>3 DEF Store
<1>7. QED
  BY <1>2, <1>3, <1>4, <1>5, <1>6, Elsewheres DEF DeviceStep, Performing

(* A request that reaches the device twice in a row is performed once and  *)
(* answered twice alike.                                                   *)
THEOREM RepeatedPerformedOnce == Spec => ReplayChangesNothing
<1>1. Init => AskedOK
  BY DEF Init, AskedOK
<1>2. BaseInv /\ AskedOK /\ [Next]_vars =>
        [/\ history.asked # None /\ history'.asked # None
         /\ link.requests # <<>> /\ Incoming = history.asked.req
         => /\ Store(device') = Store(device)
            /\ UNCHANGED <<slots, update>>
            /\ Len(link'.answers) > Len(link.answers) =>
                   Last(link'.answers) = history.asked.answer]_vars
  BY AskedStep
<1>3. QED
  BY <1>1, <1>2, AskedNext, BaseInit, BaseNext, PTL DEF Spec, ReplayChangesNothing

-----------------------------------------------------------------------------
(***************************************************************************)
(* Part 5.  Generations: the ring they run on, how many the operations can *)
(* use, and what each names.                                               *)
(***************************************************************************)

(* What a start finds changes only by an update that ends.                 *)
LEMMA StepLoads ==
    ASSUME SlotInv, [SlotNext]_slotVars
    PROVE  \/ Load(slots') = Load(slots) /\ ~WriteMarker
           \/ /\ update # None /\ update' = None
              /\ Load(slots') = [gen |-> update.gen, image |-> update.image]
<1>1. ASSUME NEW im \in Image, BeginUpdate(im) PROVE Load(slots') = Load(slots) /\ ~WriteMarker
  BY <1>1 DEF BeginUpdate, WriteMarker
<1>2. CASE WriteBlock
  <2>1. update # None /\ update.at < Commit /\ ~WriteMarker
        /\ slots' = Written(slots, update, Replacement(update))
    BY <1>2, BlockNumbers DEF WriteBlock, WriteMarker
  <2>2. update.at = Tombstone => Replacement(update) = Erased
    BY DEF Replacement
  <2>3. Load(slots') = Load(slots)
    BY <2>1, <2>2, BlockWritten, ReplacementType DEF SlotInv
  <2>4. QED
    BY <2>1, <2>3
<1>3. CASE WriteMarker
  BY <1>3, MarkerWritten DEF WriteMarker
<1>4. CASE Interrupted /\ ~WriteMarker
  <2>1. PICK content \in {slots[update.slot][Target(update.at)], Torn, Replacement(update)} :
            slots' = Written(slots, update, content)
    BY <1>4 DEF Interrupted
  <2>2. update # None /\ update' = None /\ update \in Update
    BY <1>4 DEF Interrupted, SlotInv, SlotTypeOK
  <2>4. slots[update.slot][Target(update.at)] \in Content
    BY <2>2, BlockNumbers DEF SlotInv, SlotTypeOK, Update
  <2>5. content \in Content
    BY <2>1, <2>2, <2>4, ContentTypes, ReplacementType DEF SlotInv
  <2>6. CASE update.at < Commit
    <3>1. update.at = Tombstone => content \in {slots[update.slot][Commit], Torn, Erased}
      BY <2>1 DEF Target, Replacement
    <3>2. Load(slots') = Load(slots)
      BY <3>1, <2>1, <2>2, <2>5, <2>6, BlockWritten
    <3>3. QED
      BY <3>2, <1>4
  <2>7. CASE update.at = Commit
    <3>1. Target(update.at) = Commit /\ update.at > Tombstone
      BY <2>7, BlockNumbers DEF Target, Tombstone
    <3>2. CASE content = Replacement(update)
      BY <3>2, <2>1, <2>2, <2>7, MarkerWritten
    <3>3. CASE content # Replacement(update)
      <4>1. slots[update.slot][Commit] = Erased
        BY <3>1, <2>2 DEF SlotInv, UpdateOK
      <4>2. content = Erased \/ content = Torn
        BY <4>1, <3>1, <3>3, <2>1
      <4>3. slots'[update.slot][Commit] = content
        BY <2>1, <2>2, <2>5, <3>1, WrittenType, BlockNumbers DEF SlotInv
      <4>4. update.slot \in Slot /\ slots'[1 - update.slot] = slots[1 - update.slot]
        BY <2>1, <2>2, <2>5, WrittenType DEF SlotInv, Update
      <4>5. Load(slots') = ValidMeta(slots'[1 - update.slot])
        BY <4>2, <4>3, <4>4, Unmarked, NotNewest, LoadOther
      <4>6. Load(slots) = ValidMeta(slots[1 - update.slot])
        BY <4>4, <2>2, LoadOther DEF SlotInv, UpdateOK
      <4>7. QED
        BY <4>4, <4>5, <4>6, <1>4
    <3>4. QED
      BY <3>2, <3>3
  <2>8. QED
    BY <2>2, <2>6, <2>7, BlockNumbers DEF Update, Tombstone
<1>5. CASE UNCHANGED slotVars
  BY <1>5, NoneAssumption DEF slotVars, WriteMarker
<1>6. QED
  BY <1>1, <1>2, <1>3, <1>4, <1>5 DEF SlotNext

(* An update counts on from what a start would find.                       *)
LEMMA UpdateFollows ==
    ASSUME SlotInv, update # None
    PROVE  /\ update.gen \in Generation \ {0} /\ update.image \in Image
           /\ [gen |-> update.gen, image |-> update.image] # None
           /\ Load(slots) # None => update.gen = NextGeneration(Load(slots).gen)
<1>1. update \in Update /\ update.slot \in Slot
  BY DEF SlotInv, SlotTypeOK, Update
<1>2. Load(slots) = ValidMeta(slots[1 - update.slot])
  BY <1>1, LoadOther DEF SlotInv, UpdateOK
<1>3. [gen |-> update.gen, image |-> update.image] \in Meta
  BY <1>1 DEF Update, Meta
<1>4. QED
  BY <1>1, <1>2, <1>3, NoneAssumption DEF SlotInv, UpdateOK, Update

-----------------------------------------------------------------------------
(* Generations follow each other around the ring of those but zero.        *)

Ring == Generation \ {0}

LEMMA StepsType ==
    ASSUME NEW g \in Ring, NEW h \in Ring
    PROVE  /\ Steps(g, h) \in Nat
           /\ Steps(g, h) = 0 <=> g = h
BY SlotAssumption DEF Ring, Generation, Steps

LEMMA StepsOn ==
    ASSUME NEW g \in Ring, NEW h \in Ring, Steps(g, h) < GenMod - 2
    PROVE  /\ NextGeneration(h) \in Ring
           /\ Steps(g, NextGeneration(h)) = Steps(g, h) + 1
BY SlotAssumption DEF Ring, Generation, Steps, NextGeneration

LEMMA StepsBack ==
    ASSUME NEW h \in Ring
    PROVE  Steps(NextGeneration(h), h) = GenMod - 2
BY SlotAssumption DEF Ring, Generation, Steps, NextGeneration

LEMMA StepsAhead ==
    ASSUME NEW g \in Ring, NEW h \in Ring, NEW n \in Nat, 2 * (n + 1) < GenMod,
           Steps(g, h) <= n, g # h
    PROVE  Ahead(h, g)
BY SlotAssumption DEF Ring, Generation, Steps, Ahead, Difference

(* What is left of a budget of generations: a commit under way, a write    *)
(* that may still come to one, operations not begun.                       *)
LEMMA LeftType ==
    ASSUME BaseInv
    PROVE  /\ budget.operations \in Nat /\ Left \in Nat
           /\ ~Preparing /\ ~Committing => Left = budget.operations
           /\ Preparing /\ ~Committing => Left = budget.operations + 1
           /\ ~Preparing /\ Committing => Left = budget.operations + 1
           /\ Preparing /\ Committing => Left = budget.operations + 2
BY DEF BaseInv, TypeOK, BudgetType, Left

(* The request of the host, if any of its is on its way, is the last one.  *)
LEMMA HostIsLast ==
    ASSUME BaseInv, Waiting, link.requests # <<>>
    PROVE  link.requests[Len(link.requests)] = host.req
BY DEF BaseInv, RequestsOK

(* With the head of the link handled, the only commit left is the second   *)
(* request, and the first one was a validation.                            *)
LEMMA CommitBehind ==
    ASSUME BaseInv, link.requests # <<>>, host' = host, link' \in LinkType,
           link'.requests = Tail(link.requests), Committing',
           NEW s, s = Incoming, Remembered(s)'
    PROVE  /\ Len(link.requests) = 2 /\ link.requests[1].cmd = "validate"
           /\ link.requests[2].cmd = "commit" /\ link.requests[2].tx = device'.tx
<1> DEFINE q == link.requests
<1>1. /\ q \in Seq(RequestType) /\ Len(q) \in {1, 2} /\ Len(link'.requests) = Len(q) - 1
      /\ DOMAIN link'.requests = 1 .. Len(q) - 1
      /\ \A i \in 1 .. Len(q) - 1 : link'.requests[i] = q[i + 1]
      /\ Incoming = q[1]
  <2>1. q \in Seq(RequestType) /\ Len(q) \in {1, 2} /\ q # <<>>
    BY QueueLength DEF BaseInv
  <2>2. /\ Len(Tail(q)) = Len(q) - 1 /\ DOMAIN Tail(q) = 1 .. Len(q) - 1
        /\ \A i \in 1 .. Len(q) - 1 : Tail(q)[i] = q[i + 1]
        /\ Head(q) = q[1]
    BY <2>1, FrameOut, Zenon
  <2>3. QED
    BY <2>1, <2>2 DEF Incoming
<1>2. PICK r : /\ r \in {link'.requests[i] : i \in DOMAIN link'.requests}
                          \cup (IF Waiting' THEN {host'.req} ELSE {})
               /\ r.cmd = "commit" /\ r.tx = device'.tx /\ ~Remembered(r)'
  BY <1>1 DEF Committing
<1>3. Waiting' => host'.req = q[Len(q)]
  BY <1>1, HostIsLast DEF Waiting
<1>4. r \in {q[i] : i \in 1 .. Len(q)}
  BY <1>1, <1>2, <1>3
<1>5. r # q[1]
  BY <1>1, <1>2
<1>6. Len(q) = 2 /\ r = q[2]
  BY <1>1, <1>4, <1>5
<1>7. q[1].cmd = "validate"
  BY <1>2, <1>5, <1>6 DEF BaseInv, RequestsOK
<1>8. QED
  BY <1>2, <1>6, <1>7

LEMMA CommittingHandled ==
    ASSUME BaseInv, [Next]_vars, Performing \/ Replay, Committing'
    PROVE  Committing
<1>1. CASE Performing
  <2>1. PICK after, a : Handling(after, a)
    BY <1>1, Handled
  <2>2. /\ link' \in LinkType /\ link'.requests = Tail(link.requests) /\ link.requests # <<>>
        /\ device'.last = [req |-> Incoming, answer |-> a] /\ device'.last # None
        /\ host' = host /\ device'.tx = after.tx
    BY <2>1, AnswerEffect DEF Handling, Answering, BaseInv
  <2>3. \A s : s = Incoming => Remembered(s)'
    BY <2>2 DEF Remembered
  <2>4. /\ Len(link.requests) = 2 /\ link.requests[1].cmd = "validate"
        /\ link.requests[2].cmd = "commit" /\ link.requests[2].tx = device'.tx
    BY <2>2, <2>3, CommitBehind
  <2>5. Incoming = link.requests[1]
    BY <2>2, ReceivedType DEF BaseInv, TypeOK
  <2>6. device'.tx = device.tx
    BY <2>1, <2>2, <2>4, <2>5 DEF Handling
  <2>7. 2 \in DOMAIN link.requests
    BY <2>4, QueueLength DEF BaseInv
  <2>8. QED
    BY <2>4, <2>6, <2>7 DEF Committing
<1>2. CASE Replay
  <2>1. /\ link' \in LinkType /\ link'.requests = Tail(link.requests) /\ link.requests # <<>>
        /\ device'.last = device.last
        /\ device'.held = (IF Settled = device.held THEN device.held ELSE None)
        /\ host' = host /\ device'.tx = device.tx
    BY <1>2, ReplayEffect
  <2>2. Settled # None /\ Settled.req.seq = Incoming.seq
    BY <1>2 DEF Replay, Repeated
  <2>3. \A s : s = Incoming => Remembered(s)'
    BY <2>1, <2>2 DEF Remembered, Settled
  <2>4. /\ Len(link.requests) = 2 /\ link.requests[1].cmd = "validate"
        /\ link.requests[2].cmd = "commit" /\ link.requests[2].tx = device'.tx
    BY <2>1, <2>3, CommitBehind
  <2>5. 2 \in DOMAIN link.requests
    BY <2>4, QueueLength DEF BaseInv
  <2>6. QED
    BY <2>1, <2>4, <2>5 DEF Committing
<1>3. QED
  BY <1>1, <1>2

LEMMA CommittingEnds ==
    ASSUME BaseInv, [Next]_vars, StoreMarker \/ StoreFailed \/ Reboot
    PROVE  ~Committing'
<1>1. BaseInv'
  BY BaseNext
<1>2. ASSUME Undone, update # None, host' = host
      PROVE  ~Committing'
  <2>1. link.requests # <<>> /\ Incoming.cmd = "commit"
    BY <1>2 DEF BaseInv, CommitOK
  <2>2. /\ link' \in LinkType /\ link'.requests = Tail(link.requests)
        /\ device'.held = [req |-> Incoming, answer |-> Refuse(Incoming)] /\ device'.held # None
    BY <1>2, <2>1, UndoneEffect
  <2>3. \A s : s = Incoming => Remembered(s)'
    BY <2>2 DEF Remembered
  <2>4. Incoming = link.requests[1]
    BY <2>1, ReceivedType DEF BaseInv, TypeOK
  <2>5. QED
    BY <1>2, <2>1, <2>2, <2>3, <2>4, CommitBehind
<1>3. ASSUME device'.tx = 0
      PROVE  ~Committing'
  <2>1. \A i \in DOMAIN link'.requests :
            link'.requests[i].cmd = "commit" => link'.requests[i].tx > 0
    BY <1>1 DEF BaseInv, RequestsOK, Parties
  <2>2. Waiting' /\ host'.req.cmd = "commit" => host'.req.tx > 0
    BY <1>1 DEF BaseInv, RequestsOK, Parties
  <2>3. QED
    BY <1>3, <2>1, <2>2 DEF Committing
<1>4. CASE StoreMarker
  BY <1>2, <1>3, <1>4, StoreMarkerEffect
<1>5. CASE StoreFailed
  BY <1>2, <1>5 DEF StoreFailed, Interrupted
<1>6. CASE Reboot
  <2>1. slots' \in [Slot -> [Block -> Content]]
    BY <1>1 DEF BaseInv, TypeOK, SlotTypeOK
  <2>2. QED
    BY <1>1, <1>3, <1>6, <2>1, RebootEffect, LoadedDevice DEF BaseInv
<1>7. QED
  BY <1>4, <1>5, <1>6

(* A request given to the link that is no commit, or is there already.     *)
LEMMA CommittingAdds ==
    ASSUME BaseInv, device' = device, link' \in LinkType, Len(link.requests) < 2,
           host'.req \in RequestType, link'.requests = Append(link.requests, host'.req),
           host' = host \/ host'.req.cmd # "commit",
           Committing'
    PROVE  Committing
<1> DEFINE q == link.requests
           n == host'.req
<1>1. /\ q \in Seq(RequestType) /\ Len(q) \in {0, 1} /\ Len(link'.requests) = Len(q) + 1
      /\ DOMAIN link'.requests = 1 .. Len(q) + 1 /\ DOMAIN q = 1 .. Len(q)
      /\ \A i \in 1 .. Len(q) : link'.requests[i] = q[i]
      /\ link'.requests[Len(q) + 1] = n
  <2>1. q \in Seq(RequestType) /\ Len(q) \in {0, 1} /\ DOMAIN q = 1 .. Len(q)
    BY QueueLength DEF BaseInv
  <2>2. QED
    BY <2>1, FrameIn
<1>2. n # None /\ Waiting'
  BY RequestParts DEF Waiting
<1>3. PICK r : /\ r \in {link'.requests[i] : i \in DOMAIN link'.requests} \cup {n}
               /\ r.cmd = "commit" /\ r.tx = device.tx
               /\ Remembered(r)' => Len(link'.requests) = 2 /\ link'.requests[1].cmd = "validate"
  BY <1>2 DEF Committing
<1>4. r \in {q[i] : i \in 1 .. Len(q)} \cup {n}
  BY <1>1, <1>3
<1>5. Remembered(r)' = Remembered(r)
  BY DEF Remembered
<1>6. host' = host /\ q # <<>> => q[Len(q)] = n
  BY <1>2, HostIsLast DEF Waiting
<1>7. ~Remembered(r)
  <2>1. SUFFICES ASSUME Remembered(r) PROVE FALSE
    OBVIOUS
  <2>2. Len(q) = 1 /\ q[1].cmd = "validate"
    BY <1>1, <1>3, <1>5, <2>1
  <2>3. r = n /\ host' = host
    BY <1>3, <1>4, <2>2
  <2>4. QED
    BY <1>1, <1>3, <1>6, <2>2, <2>3
<1>8. host' = host \/ r # n
  BY <1>3
<1>9. r \in {q[i] : i \in DOMAIN q} \cup (IF Waiting THEN {host.req} ELSE {})
  BY <1>1, <1>2, <1>4, <1>8 DEF Waiting
<1>10. QED
  BY <1>3, <1>7, <1>9 DEF Committing

LEMMA CommittingLost ==
    ASSUME BaseInv, device' = device, link' \in LinkType,
           host' = host \/ host'.req = None,
           \/ link'.requests = link.requests
           \/ link.requests # <<>> /\ link'.requests = Tail(link.requests) /\ host' = host,
           Committing'
    PROVE  Committing
<1>1. CASE link'.requests = link.requests
  BY <1>1 DEF Committing, Waiting, Remembered
<1>2. CASE link.requests # <<>> /\ link'.requests = Tail(link.requests) /\ host' = host
  <2> DEFINE q == link.requests
  <2>1. /\ q \in Seq(RequestType) /\ Len(q) \in {1, 2} /\ Len(link'.requests) = Len(q) - 1
        /\ DOMAIN link'.requests = 1 .. Len(q) - 1
        /\ \A i \in 1 .. Len(q) - 1 : link'.requests[i] = q[i + 1]
        /\ DOMAIN q = 1 .. Len(q)
    <3>1. q \in Seq(RequestType) /\ Len(q) \in {1, 2} /\ DOMAIN q = 1 .. Len(q)
      BY <1>2, QueueLength DEF BaseInv
    <3>2. /\ Len(Tail(q)) = Len(q) - 1 /\ DOMAIN Tail(q) = 1 .. Len(q) - 1
          /\ \A i \in 1 .. Len(q) - 1 : Tail(q)[i] = q[i + 1]
      BY <1>2, <3>1, FrameOut, Zenon
    <3>3. QED
      BY <1>2, <3>1, <3>2
  <2>2. PICK r : /\ r \in {link'.requests[i] : i \in DOMAIN link'.requests}
                            \cup (IF Waiting' THEN {host'.req} ELSE {})
                 /\ r.cmd = "commit" /\ r.tx = device'.tx /\ ~Remembered(r)'
    <3>1. Len(link'.requests) # 2
      BY <2>1
    <3>2. QED
      BY <3>1 DEF Committing
  <2>3. r \in {q[i] : i \in DOMAIN q} \cup (IF Waiting THEN {host.req} ELSE {})
    BY <1>2, <2>1, <2>2 DEF Waiting
  <2>4. ~Remembered(r)
    BY <2>2 DEF Remembered
  <2>5. QED
    BY <2>2, <2>3, <2>4 DEF Committing
<1>3. QED
  BY <1>1, <1>2

(* The budget of generations never grows, and an update that ends takes    *)
(* from it.                                                                *)
LEMMA LeftNext ==
    ASSUME BaseInv, [Next]_vars
    PROVE  /\ Left' \in Nat /\ Left' <= Left
           /\ update # None /\ update' = None => Left' + 1 <= Left
<1>1. /\ BaseInv' /\ TypeOK /\ link' \in LinkType /\ budget.operations \in Nat /\ Left \in Nat
      /\ budget'.operations \in Nat
  BY BaseNext, LeftType DEF BaseInv, TypeOK, BudgetType
<1>2. Left' \in Nat
  BY <1>1 DEF Left
<1>3. ASSUME budget'.operations = budget.operations, Preparing' => Preparing,
             Committing' => Committing, ~(update # None /\ update' = None)
      PROVE  /\ Left' <= Left
             /\ update # None /\ update' = None => Left' + 1 <= Left
  BY <1>1, <1>3 DEF Left
<1>4. ASSUME budget'.operations = budget.operations, Preparing' => Preparing,
             Committing, ~Committing'
      PROVE  Left' + 1 <= Left
  BY <1>1, <1>4 DEF Left
<1>5. update # None => Committing
  <2>1. SUFFICES ASSUME update # None PROVE Committing
    OBVIOUS
  <2>2. /\ link.requests # <<>> /\ Incoming.cmd = "commit" /\ Incoming.tx = device.tx
        /\ ~Remembered(Incoming)
    BY <2>1 DEF BaseInv, CommitOK
  <2>3. Incoming = link.requests[1] /\ 1 \in DOMAIN link.requests
    BY <1>1, <2>2, ReceivedType, QueueLength DEF TypeOK
  <2>4. QED
    BY <2>2, <2>3 DEF Committing
<1>6. host' = host => (Preparing' => Preparing)
  BY DEF Preparing, Waiting
<1>7. update' = update => ~(update # None /\ update' = None)
  OBVIOUS
<1>8. CASE Performing \/ Replay
  <2>1. host' = host /\ budget' = budget /\ update' = update
    <3>1. CASE Performing
      BY <3>1, Handled DEF Handling, Answer
    <3>2. CASE Replay
      BY <3>2 DEF Replay
    <3>3. QED
      BY <1>8, <3>1, <3>2
  <2>2. QED
    BY <1>2, <1>3, <1>6, <1>7, <1>8, <2>1, CommittingHandled
<1>9. CASE CommitTransaction
  <2>1. host' = host /\ budget' = budget /\ update = None
    BY <1>9 DEF CommitTransaction, BeginUpdate
  <2>2. Committing
    <3>1. /\ link.requests # <<>> /\ Incoming.cmd = "commit" /\ Incoming.tx = device.tx
          /\ ~Remembered(Incoming)
      BY <1>9, RepeatedIs DEF CommitTransaction, Asked, Answering, Matching
    <3>2. Incoming = link.requests[1] /\ 1 \in DOMAIN link.requests
      BY <1>1, <3>1, ReceivedType, QueueLength DEF TypeOK
    <3>3. QED
      BY <3>1, <3>2 DEF Committing
  <2>3. QED
    BY <1>2, <1>3, <1>6, <2>1, <2>2
<1>10. CASE StoreBlock
  <2>1. /\ host' = host /\ budget' = budget /\ device' = device /\ link' = link /\ update # None
        /\ update' = [update EXCEPT !.at = @ + 1]
    BY <1>10 DEF StoreBlock, WriteBlock
  <2>2. Committing
    BY <1>5, <2>1
  <2>3. update' # None
    <3>1. update' = [slot |-> update.slot, gen |-> update.gen, image |-> update.image,
                     at |-> update.at + 1]
      BY <2>1 DEF BaseInv, TypeOK, SlotTypeOK, Update
    <3>2. update \in Update /\ update.at < Commit
      BY <1>10, <2>1 DEF StoreBlock, WriteBlock, BaseInv, TypeOK, SlotTypeOK
    <3>3. update' \in Update
      BY <3>1, <3>2, BlockNumbers DEF Update, Tombstone
    <3>4. QED
      BY <3>3, NoneAssumption
  <2>4. QED
    BY <1>2, <1>3, <1>6, <2>1, <2>2, <2>3
<1>11. CASE StoreMarker \/ StoreFailed \/ (Reboot /\ update # None)
  <2>1. host' = host /\ budget'.operations = budget.operations /\ update # None
    <3>1. CASE StoreMarker
      BY <3>1 DEF StoreMarker, WriteMarker
    <3>2. CASE StoreFailed
      BY <1>1, <3>2, MishapEffect DEF StoreFailed, Interrupted, TypeOK
    <3>3. CASE Reboot /\ update # None
      BY <1>1, <3>3, RebootEffect DEF BaseInv
    <3>4. QED
      BY <1>11, <3>1, <3>2, <3>3
  <2>2. Committing /\ ~Committing'
    BY <1>5, <1>11, <2>1, CommittingEnds
  <2>3. Left' + 1 <= Left
    BY <1>4, <1>6, <2>1, <2>2
  <2>4. Left' <= Left
    <3>1. \A m, n \in Nat : m + 1 <= n => m <= n
      OBVIOUS
    <3>2. QED
      BY <1>1, <1>2, <2>3, <3>1, Zenon
  <2>5. QED
    BY <1>2, <2>3, <2>4
<1>12. CASE Reboot /\ update = None
  <2>1. host' = host /\ budget'.operations = budget.operations
    BY <1>1, <1>12, RebootEffect DEF BaseInv
  <2>2. ~Committing'
    BY <1>12, CommittingEnds
  <2>3. QED
    BY <1>2, <1>3, <1>6, <1>12, <2>1, <2>2
<1>13. CASE Lose
  <2>1. Committing' => Committing
    BY <1>13, LoseEffect, CommittingLost
  <2>2. QED
    BY <1>2, <1>3, <1>6, <1>7, <1>13, <2>1, LoseEffect
<1>14. CASE Resend
  <2>1. Committing' => Committing
    BY <1>14, ResendEffect, CommittingAdds
  <2>2. QED
    BY <1>2, <1>3, <1>6, <1>7, <1>14, <2>1, ResendEffect
<1>15. CASE Connect
  <2>1. host'.req.cmd = "hello"
    BY <1>15, ConnectEffect DEF Request
  <2>2. Committing' => Committing
    BY <1>15, <2>1, ConnectEffect, CommittingAdds
  <2>3. ~Preparing'
    BY <2>1 DEF Preparing
  <2>4. QED
    BY <1>2, <1>3, <1>7, <1>15, <2>2, <2>3, ConnectEffect
<1>16. CASE WriteConfiguration \/ BackupConfiguration
  <2>1. Operation
    BY <1>16 DEF WriteConfiguration, BackupConfiguration
  <2>2. /\ budget'.operations = budget.operations - 1 /\ ~Waiting /\ update' = update
        /\ device' = device
    BY <2>1, OperationEffect
  <2>3. /\ host'.req.cmd \in {"begin", "list"} /\ host'.req \in RequestType
        /\ Len(link.requests) < 2
        /\ link'.requests = Append(link.requests, host'.req)
    BY <1>16, WriteConfigurationEffect, BackupEffect DEF Request
  <2>4. Committing' => Committing
    BY <1>1, <2>2, <2>3, CommittingAdds
  <2>5. ~Preparing
    BY <2>2 DEF Preparing
  <2>6. Left' <= Left
    BY <1>1, <2>2, <2>4, <2>5 DEF Left
  <2>7. QED
    BY <1>2, <1>7, <2>2, <2>6
<1>17. CASE HostStep
  <2>1. CASE Ignore
    BY <1>2, <1>3, <1>6, <1>7, <2>1, IgnoreEffect, CommittingLost
  <2>2. ASSUME NEW at, NEW cmd, NEW arg, NEW l, Asks(at, cmd, arg, l)
        PROVE  Left' <= Left /\ update' = update
    <3>1. /\ update' = update /\ device' = device /\ budget'.operations = budget.operations
          /\ host'.req.cmd = cmd /\ host'.req \in RequestType /\ Waiting
          /\ Len(link.requests) < 2 /\ link'.requests = Append(link.requests, host'.req)
      BY <2>2, AsksRequests DEF Asks, HostFrame
    <3>2. CASE cmd = "commit"
      <4>1. Preparing /\ ~Preparing'
        BY <2>2, <3>1, <3>2 DEF Asks, Preparing
      <4>2. QED
        BY <1>1, <3>1, <4>1 DEF Left
    <3>3. CASE cmd # "commit"
      <4>1. Committing' => Committing
        BY <1>1, <3>1, <3>3, CommittingAdds
      <4>2. Preparing' => Preparing
        BY <2>2, <3>1 DEF Asks, Preparing
      <4>3. QED
        BY <1>1, <3>1, <4>1, <4>2 DEF Left
    <3>4. QED
      BY <3>1, <3>2, <3>3
  <2>3. ASSUME NEW l, Rests(l)
        PROVE  Left' <= Left /\ update' = update
    <3>1. /\ update' = update /\ device' = device /\ budget'.operations = budget.operations
          /\ host'.req = None /\ link'.requests = link.requests /\ ~Waiting'
      BY <2>3, RestsRequests DEF Rests, HostFrame
    <3>2. Committing' => Committing
      BY <1>1, <3>1, CommittingLost
    <3>3. QED
      BY <1>1, <3>1, <3>2 DEF Left, Preparing
  <2>4. QED
    BY <1>2, <1>7, <1>17, <2>1, <2>2, <2>3, HostSteps
<1>18. CASE UNCHANGED vars
  <2>1. Committing' => Committing
    BY <1>18 DEF vars, Committing, Remembered, Waiting
  <2>2. QED
    BY <1>2, <1>3, <1>6, <1>7, <1>18, <2>1 DEF vars
<1>19. QED
  BY <1>8, <1>9, <1>10, <1>11, <1>12, <1>13, <1>14, <1>15, <1>16, <1>17, <1>18
     DEF Next, DeviceStep, Performing

(* What each generation has named.                                         *)
Names == [Generation -> Configuration \cup {None}]

LEMMA FitLater ==
    ASSUME NEW l \in Meta \cup {None}, NEW n \in Names, NEW g \in Generation,
           NEW c \in Configuration, NEW a \in Meta \cup {None}, NEW s \in Nat, NEW t \in Nat,
           NamesFit(l, n, g, c, a, s), s <= t
    PROVE  NamesFit(l, n, g, c, a, t)
<1>1. l # None => l.gen \in Ring
  BY DEF Meta, Ring
<1>2. ASSUME NEW h \in Ring, n[h] # None
      PROVE  l # None /\ Steps(h, l.gen) <= t /\ g # 0 /\ Steps(g, l.gen) <= Steps(h, l.gen)
  BY <1>1, <1>2, StepsType DEF NamesFit, Ring
<1>3. a # None => l # None /\ Steps(a.gen, l.gen) <= t /\ (l.gen = a.gen => l = a)
  <2>1. SUFFICES ASSUME a # None PROVE l # None /\ Steps(a.gen, l.gen) <= t
                                       /\ (l.gen = a.gen => l = a)
    OBVIOUS
  <2>2. a.gen \in Ring
    BY <2>1 DEF Meta, Ring
  <2>3. QED
    BY <1>1, <2>1, <2>2, StepsType DEF NamesFit
<1>4. QED
  BY <1>2, <1>3 DEF NamesFit, Ring

(* The slots move on to the next generation, which names nothing yet.      *)
LEMMA FitStored ==
    ASSUME NEW l \in Meta \cup {None}, NEW n \in Names, NEW g \in Generation,
           NEW c \in Configuration, NEW a \in Meta \cup {None}, NEW s \in Nat,
           NamesFit(l, n, g, c, a, s), s < GenMod - 2,
           NEW m \in Meta, l # None => m.gen = NextGeneration(l.gen)
    PROVE  n[m.gen] = None /\ NamesFit(m, n, g, c, a, s + 1)
<1>1. (l # None => l.gen \in Ring) /\ m.gen \in Ring /\ m # None
  BY NoneAssumption DEF Meta, Ring
<1>2. c # None
  BY ExchangeAssumption
<1>3. n[m.gen] = None
  <2>1. SUFFICES ASSUME n[m.gen] # None PROVE FALSE
    OBVIOUS
  <2>2. l # None /\ Steps(m.gen, l.gen) <= s
    BY <1>1, <2>1 DEF NamesFit, Ring
  <2>3. Steps(m.gen, l.gen) = GenMod - 2
    BY <1>1, <2>2, StepsBack
  <2>4. QED
    BY <2>2, <2>3, SlotAssumption
<1>4. ASSUME NEW h \in Ring, n[h] # None
      PROVE  Steps(h, m.gen) <= s + 1 /\ g # 0 /\ Steps(g, m.gen) <= Steps(h, m.gen)
  <2>1. l # None /\ Steps(h, l.gen) <= s /\ g # 0 /\ Steps(g, l.gen) <= Steps(h, l.gen)
    BY <1>4 DEF NamesFit, Ring
  <2>2. g \in Ring /\ Steps(h, l.gen) \in Nat /\ Steps(g, l.gen) \in Nat
    BY <1>1, <2>1, StepsType DEF Ring
  <2>3. Steps(h, l.gen) < GenMod - 2 /\ Steps(g, l.gen) < GenMod - 2
    BY <2>1, <2>2, SlotAssumption
  <2>4. Steps(h, m.gen) = Steps(h, l.gen) + 1 /\ Steps(g, m.gen) = Steps(g, l.gen) + 1
    BY <1>1, <2>1, <2>2, <2>3, StepsOn
  <2>5. QED
    BY <2>1, <2>2, <2>4
<1>5. ASSUME a # None
      PROVE  Steps(a.gen, m.gen) <= s + 1 /\ m.gen # a.gen
  <2>1. a.gen \in Ring /\ l # None /\ Steps(a.gen, l.gen) <= s
    BY <1>5 DEF NamesFit, Meta, Ring
  <2>2. Steps(a.gen, l.gen) \in Nat /\ Steps(a.gen, l.gen) < GenMod - 2
    BY <1>1, <2>1, StepsType, SlotAssumption
  <2>3. Steps(a.gen, m.gen) = Steps(a.gen, l.gen) + 1
    BY <1>1, <2>1, <2>2, StepsOn
  <2>4. Steps(a.gen, m.gen) # 0
    BY <2>2, <2>3
  <2>5. QED
    BY <1>1, <2>1, <2>2, <2>3, <2>4, StepsType
<1>6. n[g] = c /\ n[0] \in {None, Blank}
  BY DEF NamesFit
<1>7. QED
  BY <1>1, <1>3, <1>4, <1>5, <1>6 DEF NamesFit, Ring

(* A start, or an acknowledged commit, names what the slots hold.          *)
LEMMA FitNamed ==
    ASSUME NEW n \in Names, NEW g \in Generation, NEW c \in Configuration,
           NEW a \in Meta \cup {None}, NEW s \in Nat, NEW m \in Meta,
           NamesFit(m, n, g, c, a, s)
    PROVE  \A b \in {a, m} : NamesFit(m, Named(n, m.gen, m.image), m.gen, m.image, b, s)
<1> DEFINE n2 == Named(n, m.gen, m.image)
<1>1. m.gen \in Ring /\ m.gen \in Generation /\ m.image \in Configuration /\ m # None
  BY Images, NoneAssumption DEF Meta, Ring
<1>2. /\ n2[m.gen] = (IF n[m.gen] = None THEN m.image ELSE n[m.gen])
      /\ \A h \in Generation : h # m.gen => n2[h] = n[h]
  BY <1>1, NamedType DEF Names
<1> HIDE DEF n2
<1>3. n2[m.gen] = m.image
  BY <1>1, <1>2 DEF NamesFit
<1>4. Steps(m.gen, m.gen) = 0
  BY <1>1, StepsType
<1>5. n2[0] \in {None, Blank}
  BY <1>1, <1>2, Numbers, SlotAssumption DEF NamesFit, Ring, Generation
<1>6. ASSUME NEW h \in Ring, n2[h] # None
      PROVE  Steps(h, m.gen) <= s /\ m.gen # 0 /\ Steps(m.gen, m.gen) <= Steps(h, m.gen)
  <2>1. Steps(h, m.gen) \in Nat /\ m.gen # 0
    BY <1>1, StepsType DEF Ring
  <2>2. CASE h = m.gen
    BY <1>4, <2>1, <2>2
  <2>3. CASE h # m.gen
    <3>1. n[h] # None
      BY <1>2, <1>6, <2>3 DEF Ring
    <3>2. Steps(h, m.gen) <= s
      BY <3>1 DEF NamesFit, Ring
    <3>3. QED
      BY <1>4, <2>1, <3>2
  <2>4. QED
    BY <2>2, <2>3
<1>7. ASSUME NEW b \in {a, m}, b # None
      PROVE  Steps(b.gen, m.gen) <= s /\ (m.gen = b.gen => m = b)
  BY <1>1, <1>4, <1>7 DEF NamesFit
<1>8. QED
  BY <1>1, <1>3, <1>5, <1>6, <1>7 DEF NamesFit, n2, Ring

LEMMA FitBlank ==
    ASSUME NEW n \in Names, NEW g \in Generation, NEW c \in Configuration,
           NEW a \in Meta \cup {None}, NEW s \in Nat, NamesFit(None, n, g, c, a, s)
    PROVE  NamesFit(None, Named(n, 0, Blank), 0, Blank, a, s)
<1>1. 0 \in Generation /\ Blank \in Configuration /\ Blank # None
  BY Blanks, SlotAssumption, ExchangeAssumption DEF Generation
<1>2. /\ Named(n, 0, Blank)[0] = (IF n[0] = None THEN Blank ELSE n[0])
      /\ \A h \in Generation : h # 0 => Named(n, 0, Blank)[h] = n[h]
  BY <1>1, NamedType DEF Names
<1>3. Named(n, 0, Blank)[0] = Blank
  BY <1>1, <1>2 DEF NamesFit
<1>4. \A h \in Generation \ {0} : Named(n, 0, Blank)[h] = None
  BY <1>2 DEF NamesFit
<1>5. QED
  BY <1>3, <1>4 DEF NamesFit

(* Generations do not come round: those the operations of a behaviour use  *)
(* are less than half of the ring. A generation of the store is a 32-bit   *)
(* number, used up by one commit each; the names a generation got, and a   *)
(* second listing that shows it again, mean nothing once the ring is full. *)
SmallRange == 2 * (Operations + 1) < GenMod

LEMMA NamesInit == Init => NamesOK
<1> SUFFICES ASSUME Init PROVE NamesOK
  OBVIOUS
<1> DEFINE l == Load(slots)
           none == [g \in Generation |-> None]
<1>1. BaseInv
  BY BaseInit
<1>2. Left = Operations /\ Left <= Operations /\ Spent = 0
  <2>1. ~Waiting /\ link.requests = <<>> /\ budget.operations = Operations
    BY DEF Init, Waiting
  <2>2. ~Preparing /\ ~Committing
    BY <2>1 DEF Preparing, Committing
  <2>3. Left = Operations
    BY <1>1, <2>1, <2>2, LeftType
  <2>4. Operations \in Nat
    BY DeviceAssumption
  <2>5. QED
    BY <2>3, <2>4 DEF Spent
<1>3. l \in Meta \cup {None} /\ slots \in [Slot -> [Block -> Content]]
  BY <1>1, LoadType DEF BaseInv, TypeOK, SlotTypeOK
<1>4. /\ device = Loaded(slots) /\ history.acked = l
      /\ history.named = Named(none, device.gen, device.active)
  BY DEF Init
<1>5. none \in Names /\ 0 \in Generation /\ \A g \in Generation : none[g] = None
  BY SlotAssumption DEF Names, Generation
<1> HIDE DEF none
<1>6. CASE l = None
  <2>1. device.gen = 0 /\ device.active = Blank /\ Blank \in Configuration
    BY <1>3, <1>4, <1>6, LoadedDevice, Blanks
  <2>2. /\ Named(none, 0, Blank)[0] = Blank
        /\ \A g \in Generation \ {0} : Named(none, 0, Blank)[g] = None
    BY <1>5, <2>1, NamedType DEF Names
  <2>3. QED
    BY <1>2, <1>4, <1>6, <2>1, <2>2 DEF NamesOK, NamesFit
<1>7. CASE l # None
  <2>1. /\ device.gen = l.gen /\ device.active = l.image /\ l.gen \in Ring
        /\ l.gen \in Generation /\ l.image \in Configuration
    BY <1>3, <1>4, <1>7, LoadedDevice, Images DEF Meta, Ring
  <2>2. /\ Named(none, l.gen, l.image)[l.gen] = l.image
        /\ \A g \in Generation : g # l.gen => Named(none, l.gen, l.image)[g] = None
    BY <1>5, <2>1, NamedType DEF Names
  <2>3. Steps(l.gen, l.gen) = 0 /\ 0 <= 0
    BY <2>1, StepsType
  <2>4. NamesFit(l, Named(none, l.gen, l.image), l.gen, l.image, l, 0)
    BY <1>5, <1>7, <2>1, <2>2, <2>3 DEF NamesFit, Ring
  <2>5. QED
    BY <1>2, <1>4, <2>1, <2>4 DEF NamesOK
<1>8. QED
  BY <1>6, <1>7

(* What a step does to the store: nothing the names depend on, a commit    *)
(* both slots agree on, or a start.                                        *)
SameStore ==
    /\ device'.gen = device.gen /\ device'.active = device.active
    /\ history'.named = history.named /\ history'.acked = history.acked

Agreed ==
    /\ update # None /\ update' = None /\ WriteMarker
    /\ update.gen = device.gen + 1 /\ update.image = device.candidate
    /\ device'.gen = device.gen + 1 /\ device'.active = device.candidate
    /\ history'.acked = [gen |-> device.gen + 1, image |-> device.candidate]
    /\ history'.named = Named(history.named, device.gen + 1, device.candidate)

Started ==
    /\ device' = Loaded(slots') /\ history'.acked = history.acked
    /\ history'.named = Named(history.named, device'.gen, device'.active)

LEMMA StoreSteps ==
    ASSUME BaseInv, [Next]_vars
    PROVE  SameStore \/ Agreed \/ Started
<1>1. BaseInv'
  BY BaseNext
<1>2. CASE Elsewhere
  BY <1>2 DEF Elsewhere, SameStore
<1>3. CASE Performing
  <2>1. PICK after, b : Handling(after, b)
    BY <1>3, Handled
  <2>2. /\ device'.gen = device.gen /\ device'.active = device.active
        /\ history' = [history EXCEPT !.asked = [req |-> Incoming, answer |-> b]]
    BY <2>1, AnswerEffect DEF Handling, Answering, BaseInv
  <2>3. QED
    BY <2>2 DEF BaseInv, TypeOK, HistoryType, SameStore
<1>4. CASE Replay
  <2> DEFINE b == IF Settled.req = Incoming THEN Settled.answer ELSE Refuse(Incoming)
  <2>1. /\ device'.gen = device.gen /\ device'.active = device.active
        /\ history' = [history EXCEPT !.asked = [req |-> Incoming, answer |-> b]]
    BY <1>4, ReplayEffect
  <2> HIDE DEF b
  <2>2. QED
    BY <2>1 DEF BaseInv, TypeOK, HistoryType, SameStore
<1>5. CASE CommitTransaction
  BY <1>5 DEF CommitTransaction, BaseInv, TypeOK, DeviceType, SameStore
<1>6. CASE StoreBlock
  BY <1>6 DEF StoreBlock, SameStore
<1>7. ASSUME Undone, update # None
      PROVE  SameStore
  <2>1. link.requests # <<>>
    BY <1>7 DEF BaseInv, CommitOK
  <2>2. /\ device'.gen = device.gen /\ device'.active = device.active
        /\ history' = [history EXCEPT !.asked = [req |-> Incoming, answer |-> Refuse(Incoming)]]
    BY <1>7, <2>1, UndoneEffect
  <2>3. QED
    BY <2>2 DEF BaseInv, TypeOK, HistoryType, SameStore
<1>8. CASE StoreFailed
  BY <1>7, <1>8 DEF StoreFailed, Interrupted
<1>9. CASE StoreMarker
  <2>1. CASE Undone
    BY <1>7, <1>9, <2>1 DEF StoreMarker, WriteMarker
  <2>2. CASE ~Undone
    BY <1>9, <2>2, StoreMarkerEffect DEF StoreMarker, Agreed, Agrees
  <2>3. QED
    BY <2>1, <2>2
<1>10. CASE Reboot
  BY <1>1, <1>10, RebootEffect DEF BaseInv, Started
<1>11. QED
  BY <1>2, <1>3, <1>4, <1>5, <1>6, <1>8, <1>9, <1>10, Elsewheres DEF DeviceStep, Performing

(* The names fit what a start finds after the step, and a configuration    *)
(* that a start did not find before has an unused generation.              *)
LEMMA NamesFound ==
    ASSUME SmallRange, BaseInv, NamesOK, [Next]_vars
    PROVE  LET k == Load(slots')
           IN  /\ k \in Meta \cup {None}
               /\ history.named \in Names /\ history.acked \in Meta \cup {None}
               /\ device.gen \in Generation /\ device.active \in Configuration
               /\ Spent' \in Nat /\ Left' <= Operations
               /\ NamesFit(k, history.named, device.gen, device.active, history.acked, Spent')
               /\ \/ k = Load(slots) /\ ~WriteMarker
                  \/ /\ k = [gen |-> update.gen, image |-> update.image] /\ k \in Meta
                     /\ history.named[k.gen] = None
<1> DEFINE l == Load(slots)
           k == Load(slots')
           n == history.named
           a == history.acked
           Fit(x, s) == NamesFit(x, n, device.gen, device.active, a, s)
<1>1. BaseInv'
  BY BaseNext
<1>2. /\ l \in Meta \cup {None} /\ k \in Meta \cup {None}
      /\ slots \in [Slot -> [Block -> Content]] /\ slots' \in [Slot -> [Block -> Content]]
  BY <1>1, LoadType DEF BaseInv, TypeOK, SlotTypeOK
<1>3. /\ n \in Names /\ a \in Meta \cup {None} /\ device.gen \in Generation
      /\ device.active \in Configuration
  BY DeviceParts DEF BaseInv, TypeOK, HistoryType, Names
<1>4. /\ Spent \in Nat /\ Spent' \in Nat /\ Spent <= Spent' /\ Left' <= Operations
      /\ Spent <= Operations
      /\ update # None /\ update' = None => Spent + 1 <= Spent'
  BY LeftType, LeftNext, DeviceAssumption DEF NamesOK, Spent
<1>5. Fit(l, Spent) /\ Spent < GenMod - 2
  BY <1>4, DeviceAssumption, SlotAssumption DEF NamesOK, SmallRange
<1>6. \/ k = l /\ ~WriteMarker
      \/ update # None /\ update' = None /\ k = [gen |-> update.gen, image |-> update.image]
  BY SlotSteps, StepLoads DEF BaseInv
<1>7. Fit(l, Spent')
  BY <1>2, <1>3, <1>4, <1>5, FitLater
<1>8. CASE update # None /\ update' = None /\ k = [gen |-> update.gen, image |-> update.image]
  <2>1. k \in Meta /\ (l # None => k.gen = NextGeneration(l.gen))
    BY <1>2, <1>8, UpdateFollows DEF BaseInv
  <2>2. n[k.gen] = None /\ Fit(k, Spent + 1)
    BY <1>2, <1>3, <1>4, <1>5, <2>1, FitStored
  <2>3. Spent + 1 \in Nat /\ Spent + 1 <= Spent'
    BY <1>4, <1>8
  <2>4. Fit(k, Spent')
    BY <1>3, <1>4, <2>1, <2>2, <2>3, FitLater
  <2>5. QED
    BY <1>2, <1>3, <1>4, <1>8, <2>1, <2>2, <2>4
<1>9. CASE k = l /\ ~WriteMarker
  BY <1>2, <1>3, <1>4, <1>7, <1>9
<1>10. QED
  BY <1>6, <1>8, <1>9

LEMMA NamesNext ==
    ASSUME SmallRange, BaseInv, NamesOK, [Next]_vars
    PROVE  NamesOK'
<1> DEFINE k == Load(slots')
           n == history.named
           a == history.acked
<1>1. /\ k \in Meta \cup {None} /\ n \in Names /\ a \in Meta \cup {None}
      /\ device.gen \in Generation /\ device.active \in Configuration
      /\ Spent' \in Nat /\ Left' <= Operations
      /\ NamesFit(k, n, device.gen, device.active, a, Spent')
      /\ (k = [gen |-> update.gen, image |-> update.image] /\ k \in Meta) \/ ~WriteMarker
  BY NamesFound
<1>2. slots' \in [Slot -> [Block -> Content]]
  BY BaseNext DEF BaseInv, TypeOK, SlotTypeOK
<1> HIDE DEF k
<1>3. CASE SameStore
  BY <1>1, <1>3 DEF SameStore, NamesOK, k
<1>4. CASE Agreed
  <2>1. k.gen = device.gen + 1 /\ k.image = device.candidate /\ k = history'.acked /\ k \in Meta
    BY <1>1, <1>4 DEF Agreed
  <2>2. NamesFit(k, Named(n, k.gen, k.image), k.gen, k.image, k, Spent')
    BY <1>1, <2>1, FitNamed
  <2>3. QED
    BY <1>1, <1>4, <2>1, <2>2 DEF Agreed, NamesOK, k
<1>5. CASE Started
  <2>1. CASE k = None
    <3>1. device'.gen = 0 /\ device'.active = Blank
      BY <1>2, <1>5, <2>1, LoadedDevice DEF Started, k
    <3>2. NamesFit(None, Named(n, 0, Blank), 0, Blank, a, Spent')
      BY <1>1, <2>1, FitBlank
    <3>3. QED
      BY <1>1, <1>5, <2>1, <3>1, <3>2 DEF Started, NamesOK, k
  <2>2. CASE k # None
    <3>1. device'.gen = k.gen /\ device'.active = k.image /\ k \in Meta
      BY <1>1, <1>2, <1>5, <2>2, LoadedDevice DEF Started, k
    <3>2. NamesFit(k, Named(n, k.gen, k.image), k.gen, k.image, a, Spent')
      BY <1>1, <3>1, FitNamed
    <3>3. QED
      BY <1>1, <1>5, <3>1, <3>2 DEF Started, NamesOK, k
  <2>3. QED
    BY <2>1, <2>2
<1>6. QED
  BY <1>3, <1>4, <1>5, StoreSteps

-----------------------------------------------------------------------------

(* A commit the device acknowledged survives every failure and restart,    *)
(* while less than half the generations are used up.                       *)
THEOREM AcknowledgedKept == SmallRange => (Spec => []AcknowledgedSurvives)
<1> SUFFICES ASSUME SmallRange PROVE Spec => []AcknowledgedSurvives
  OBVIOUS
<1>1. BaseInv /\ NamesOK => AcknowledgedSurvives
  <2> SUFFICES ASSUME BaseInv, NamesOK, history.acked # None PROVE AcknowledgedSurvives
    BY DEF AcknowledgedSurvives
  <2> DEFINE l == Load(slots)
             a == history.acked
  <2>1. l \in Meta \cup {None} /\ a \in Meta
    BY LoadType DEF BaseInv, TypeOK, SlotTypeOK, HistoryType
  <2>2. /\ l # None /\ Steps(a.gen, l.gen) <= Spent
        /\ l.gen = a.gen => l = a
    BY DEF NamesOK, NamesFit
  <2>3. l.gen \in Ring /\ a.gen \in Ring
    BY <2>1, <2>2 DEF Meta, Ring
  <2>4. Spent <= Operations /\ Spent \in Nat /\ Steps(a.gen, l.gen) \in Nat
    BY <2>3, LeftType, StepsType, DeviceAssumption DEF NamesOK, Spent
  <2>5. Steps(a.gen, l.gen) <= Operations
    BY <2>2, <2>4, DeviceAssumption
  <2>6. l.gen # a.gen => Ahead(l.gen, a.gen)
    BY <2>3, <2>5, StepsAhead, DeviceAssumption DEF SmallRange
  <2>7. QED
    BY <2>2, <2>6 DEF AcknowledgedSurvives
<1>2. BaseInv /\ NamesOK /\ [Next]_vars => NamesOK'
  BY NamesNext
<1>3. QED
  BY <1>1, <1>2, NamesInit, BaseInit, BaseNext, PTL DEF Spec

(* A generation never names two configurations.                            *)
THEOREM GenerationNamesOne == SmallRange => (Spec => []GenerationNames)
<1> SUFFICES ASSUME SmallRange PROVE Spec => []GenerationNames
  OBVIOUS
<1>1. NamesOK => GenerationNames
  BY DEF NamesOK, NamesFit, GenerationNames
<1>2. BaseInv /\ NamesOK /\ [Next]_vars => NamesOK'
  BY NamesNext
<1>3. QED
  BY <1>1, <1>2, NamesInit, BaseInit, BaseNext, PTL DEF Spec

-----------------------------------------------------------------------------
(***************************************************************************)
(* Part 6.  Sequence numbers: within a session each names one request.     *)
(***************************************************************************)

(* Part of a sequence, from a place on.                                    *)
Behind(s, t) ==
    \/ s = t
    \/ t # <<>> /\ s = Tail(t)

LEMMA BehindIs ==
    ASSUME NEW S, NEW t \in Seq(S), NEW s, Behind(s, t)
    PROVE  /\ s \in Seq(S)
           /\ \E d \in {0, 1} : \A i \in DOMAIN s :
                  i \in Nat \ {0} /\ i + d \in DOMAIN t /\ s[i] = t[i + d]
<1>1. DOMAIN t = 1 .. Len(t) /\ Len(t) \in Nat
  OBVIOUS
<1>2. CASE s = t
  <2>1. \A i \in DOMAIN s : i \in Nat \ {0} /\ i + 0 \in DOMAIN t /\ s[i] = t[i + 0]
    BY <1>1, <1>2
  <2>2. QED
    BY <1>2, <2>1
<1>3. CASE t # <<>> /\ s = Tail(t)
  <2>1. s \in Seq(S) /\ DOMAIN s = 1 .. Len(t) - 1 /\ \A i \in 1 .. Len(t) - 1 : s[i] = t[i + 1]
    BY <1>3, FrameOut
  <2>2. \A i \in DOMAIN s : i \in Nat \ {0} /\ i + 1 \in DOMAIN t /\ s[i] = t[i + 1]
    BY <1>1, <2>1
  <2>3. QED
    BY <2>1, <2>2
<1>4. QED
  BY <1>2, <1>3 DEF Behind

LEMMA RequestsBehind ==
    ASSUME TypeOK, Behind(link'.requests, link.requests)
    PROVE  \E d \in {0, 1} : \A i \in DOMAIN link'.requests :
               i \in Nat \ {0} /\ i + d \in DOMAIN link.requests
               /\ link'.requests[i] = link.requests[i + d]
<1>1. link.requests \in Seq(RequestType)
  BY LinkParts DEF TypeOK
<1>2. QED
  BY <1>1, BehindIs

LEMMA AnswersBehind ==
    ASSUME TypeOK, Behind(link'.answers, link.answers)
    PROVE  \E d \in {0, 1} : \A i \in DOMAIN link'.answers :
               i \in Nat \ {0} /\ i + d \in DOMAIN link.answers
               /\ link'.answers[i] = link.answers[i + d]
<1>1. link.answers \in Seq(AnswerType)
  BY LinkParts DEF TypeOK
<1>2. QED
  BY <1>1, BehindIs

LEMMA KnownParts ==
    /\ \A i \in DOMAIN link.requests : link.requests[i] \in Known
    /\ Waiting => host.req \in Known
    /\ device.last # None => device.last.req \in Known
    /\ device.held # None => device.held.req \in Known
BY DEF Known

LEMMA KnownType ==
    ASSUME TypeOK
    PROVE  /\ \A r \in Known : r \in RequestType /\ r.seq \in Nat
           /\ host.seq \in Nat
           /\ \A i \in DOMAIN link.answers : link.answers[i].seq \in Nat
<1>1. \A i \in DOMAIN link.requests : link.requests[i] \in RequestType
  BY LinkParts DEF TypeOK
<1>2. \A i \in DOMAIN link.answers : link.answers[i] \in AnswerType
  BY LinkParts DEF TypeOK
<1>3. /\ Waiting => host.req \in RequestType
      /\ device.last # None => device.last.req \in RequestType
      /\ device.held # None => device.held.req \in RequestType
      /\ host.seq \in Nat
  BY HostParts, DeviceParts DEF TypeOK, Exchange
<1>4. \A r \in Known : r \in RequestType
  BY <1>1, <1>3 DEF Known
<1>5. QED
  BY <1>2, <1>3, <1>4, RequestParts, AnswerParts

(* Frames leave, requests and exchanges are forgotten.                     *)
LEMMA NumberedKept ==
    ASSUME TypeOK, Numbered,
           Behind(link'.requests, link.requests), Behind(link'.answers, link.answers),
           host'.seq = host.seq, host'.req \in {host.req, None},
           device'.last \in {device.last, None}, device'.held \in {device.held, None}
    PROVE  Numbered'
<1>1. PICK d \in {0, 1} : \A i \in DOMAIN link'.requests :
          i \in Nat \ {0} /\ i + d \in DOMAIN link.requests
          /\ link'.requests[i] = link.requests[i + d]
  BY RequestsBehind
<1>2. PICK e \in {0, 1} : \A i \in DOMAIN link'.answers :
          i \in Nat \ {0} /\ i + e \in DOMAIN link.answers
          /\ link'.answers[i] = link.answers[i + e]
  BY AnswersBehind
<1>3. Known' \subseteq Known /\ (Waiting' => Waiting /\ host'.req = host.req)
  BY <1>1 DEF Known, Waiting
<1>4. \A i, j \in DOMAIN link'.requests : i <= j => link'.requests[i].seq <= link'.requests[j].seq
  BY <1>1 DEF Numbered
<1>5. \A i, j \in DOMAIN link'.answers : i <= j => link'.answers[i].seq <= link'.answers[j].seq
  BY <1>2 DEF Numbered
<1>6. \A i \in DOMAIN link'.answers, j \in DOMAIN link'.requests :
          link'.answers[i].seq <= link'.requests[j].seq
  BY <1>1, <1>2 DEF Numbered
<1>7. \A i \in DOMAIN link'.answers : link'.answers[i].seq < host'.seq
  BY <1>2 DEF Numbered
<1>9. /\ \A r \in Known' : r.seq < host'.seq
      /\ \A r, s \in Known' : r.seq = s.seq => r = s
      /\ Waiting' => host'.req.seq = host'.seq - 1
  BY <1>3 DEF Numbered
<1>10. /\ device'.last # None => device'.last.answer.seq = device'.last.req.seq
       /\ device'.held # None => device'.held.answer.seq = device'.held.req.seq
  BY DEF Numbered
<1>11. \A j \in DOMAIN link'.requests :
           /\ device'.last # None => device'.last.req.seq <= link'.requests[j].seq
           /\ device'.held # None => device'.held.req.seq <= link'.requests[j].seq
  BY <1>1 DEF Numbered
<1>12. QED
  BY <1>4, <1>5, <1>6, <1>7, <1>9, <1>10, <1>11 DEF Numbered

(* A request answered.                                                     *)
LEMMA NumberedServed ==
    ASSUME TypeOK, Numbered, link.requests # <<>>,
           link'.requests = Tail(link.requests),
           NEW b \in AnswerType, b.seq = Incoming.seq,
           link'.answers = Append(link.answers, b),
           host' = host, NEW e, e.req = Incoming, e.answer = b,
           device'.last \in {device.last, None, e}, device'.held \in {device.held, None, e}
    PROVE  Numbered'
<1> DEFINE n == Len(link.answers)
<1>1. PICK d \in {0, 1} : \A i \in DOMAIN link'.requests :
          i \in Nat \ {0} /\ i + d \in DOMAIN link.requests
          /\ link'.requests[i] = link.requests[i + d]
  BY BehindIs, LinkParts DEF TypeOK, Behind
<1>2. Incoming = link.requests[1] /\ 1 \in DOMAIN link.requests
  BY ReceivedType, QueueLength DEF TypeOK
<1>3. /\ link.answers \in Seq(AnswerType) /\ n \in Nat /\ DOMAIN link.answers = 1 .. n
      /\ DOMAIN link'.answers = 1 .. n + 1
      /\ \A i \in 1 .. n : link'.answers[i] = link.answers[i]
      /\ link'.answers[n + 1] = b
  <2>1. link.answers \in Seq(AnswerType) /\ n \in Nat /\ DOMAIN link.answers = 1 .. n
    BY LinkParts DEF TypeOK
  <2>2. QED
    BY <2>1, FrameIn
<1>4. Known' \subseteq Known /\ Waiting' = Waiting /\ Incoming \in Known
  BY <1>1, <1>2 DEF Known, Waiting
<1>5. \A i, j \in DOMAIN link'.requests : i <= j => link'.requests[i].seq <= link'.requests[j].seq
  BY <1>1 DEF Numbered
<1>6. \A i \in 1 .. n : link.answers[i].seq <= b.seq
  BY <1>2, <1>3 DEF Numbered
<1>7. b.seq <= b.seq
  BY AnswerParts
<1>8. \A i, j \in DOMAIN link'.answers : i <= j => link'.answers[i].seq <= link'.answers[j].seq
  <2> SUFFICES ASSUME NEW i \in 1 .. n + 1, NEW j \in 1 .. n + 1, i <= j
               PROVE  link'.answers[i].seq <= link'.answers[j].seq
    BY <1>3
  <2>1. CASE j = n + 1 /\ i = n + 1
    BY <1>3, <1>7, <2>1
  <2>2. CASE j = n + 1 /\ i # n + 1
    <3>1. i \in 1 .. n
      BY <1>3, <2>2
    <3>2. QED
      BY <1>3, <1>6, <2>2, <3>1
  <2>3. CASE j # n + 1
    <3>1. i \in 1 .. n /\ j \in 1 .. n
      BY <1>3, <2>3
    <3>2. link.answers[i].seq <= link.answers[j].seq
      BY <1>3, <3>1 DEF Numbered
    <3>3. QED
      BY <1>3, <3>1, <3>2
  <2>4. QED
    BY <2>1, <2>2, <2>3
<1>9. \A i \in DOMAIN link'.answers, j \in DOMAIN link'.requests :
          link'.answers[i].seq <= link'.requests[j].seq
  <2> SUFFICES ASSUME NEW i \in 1 .. n + 1, NEW j \in DOMAIN link'.requests
               PROVE  link'.answers[i].seq <= link'.requests[j].seq
    BY <1>3
  <2>1. CASE i = n + 1
    <3>1. j + d \in DOMAIN link.requests /\ 1 <= j + d
      BY <1>1
    <3>2. link.requests[1].seq <= link.requests[j + d].seq
      BY <1>2, <3>1 DEF Numbered
    <3>3. QED
      BY <1>1, <1>2, <1>3, <2>1, <3>2
  <2>2. CASE i # n + 1
    <3>1. i \in DOMAIN link.answers /\ link'.answers[i] = link.answers[i]
      BY <1>3, <2>2
    <3>2. QED
      BY <1>1, <3>1 DEF Numbered
  <2>3. QED
    BY <2>1, <2>2
<1>10. \A i \in DOMAIN link'.answers : link'.answers[i].seq < host'.seq
  <2> SUFFICES ASSUME NEW i \in 1 .. n + 1 PROVE link'.answers[i].seq < host.seq
    BY <1>3
  <2>1. CASE i = n + 1
    BY <1>3, <1>4, <2>1 DEF Numbered
  <2>2. CASE i # n + 1
    <3>1. i \in DOMAIN link.answers /\ link'.answers[i] = link.answers[i]
      BY <1>3, <2>2
    <3>2. QED
      BY <3>1 DEF Numbered
  <2>3. QED
    BY <2>1, <2>2
<1>12. /\ \A r \in Known' : r.seq < host'.seq
       /\ \A r, s \in Known' : r.seq = s.seq => r = s
       /\ Waiting' => host'.req.seq = host'.seq - 1
  BY <1>4 DEF Numbered
<1>13. /\ device'.last # None => device'.last.answer.seq = device'.last.req.seq
       /\ device'.held # None => device'.held.answer.seq = device'.held.req.seq
  BY DEF Numbered
<1>14. ASSUME NEW j \in DOMAIN link'.requests
       PROVE  /\ device'.last # None => device'.last.req.seq <= link'.requests[j].seq
              /\ device'.held # None => device'.held.req.seq <= link'.requests[j].seq
  <2>1. j + d \in DOMAIN link.requests /\ 1 <= j + d /\ link'.requests[j] = link.requests[j + d]
    BY <1>1
  <2>2. Incoming.seq <= link'.requests[j].seq
    BY <1>2, <2>1 DEF Numbered
  <2>3. QED
    BY <2>1, <2>2 DEF Numbered
<1>15. QED
  BY <1>5, <1>8, <1>9, <1>10, <1>12, <1>13, <1>14 DEF Numbered

(* A request sent: a new one, or the one the host waits for.               *)
LEMMA NumberedSent ==
    ASSUME TypeOK, Numbered,
           NEW r \in RequestType, host'.req = r, r # None,
           link'.requests = Append(link.requests, r),
           Behind(link'.answers, link.answers),
           \/ Waiting /\ r = host.req /\ host'.seq = host.seq
           \/ r.seq = host.seq /\ host'.seq = host.seq + 1,
           device' = device
    PROVE  Numbered'
<1> DEFINE n == Len(link.requests)
<1>1. PICK e \in {0, 1} : \A i \in DOMAIN link'.answers :
          i \in Nat \ {0} /\ i + e \in DOMAIN link.answers
          /\ link'.answers[i] = link.answers[i + e]
  BY AnswersBehind
<1>2. /\ n \in Nat /\ DOMAIN link.requests = 1 .. n
      /\ DOMAIN link'.requests = 1 .. n + 1
      /\ \A i \in 1 .. n : link'.requests[i] = link.requests[i]
      /\ link'.requests[n + 1] = r
  <2>1. link.requests \in Seq(RequestType) /\ n \in Nat /\ DOMAIN link.requests = 1 .. n
    BY QueueLength
  <2>2. QED
    BY <2>1, FrameIn
<1>3. /\ host.seq \in Nat /\ host'.seq \in Nat /\ r.seq \in Nat
      /\ r.seq = host'.seq - 1 /\ host.seq - 1 <= r.seq /\ host.seq <= host'.seq
  <2>1. host.seq \in Nat /\ r.seq \in Nat
    BY KnownType, RequestParts
  <2>2. QED
    BY <2>1 DEF Numbered
<1>4. Known' \subseteq Known \cup {r}
  BY <1>2 DEF Known, Waiting
<1>5. \A s \in Known : s.seq <= r.seq /\ s.seq < host'.seq /\ (s.seq = r.seq => s = r)
  <2> SUFFICES ASSUME NEW s \in Known
               PROVE  s.seq <= r.seq /\ s.seq < host'.seq /\ (s.seq = r.seq => s = r)
    OBVIOUS
  <2>1. s.seq \in Nat /\ s.seq < host.seq
    BY KnownType DEF Numbered
  <2>2. CASE Waiting /\ r = host.req
    <3>1. r \in Known
      BY <2>2, KnownParts
    <3>2. s.seq = r.seq => s = r
      BY <3>1 DEF Numbered
    <3>3. QED
      BY <1>3, <2>1, <3>2
  <2>3. CASE r.seq = host.seq
    BY <1>3, <2>1, <2>3
  <2>4. QED
    BY <2>2, <2>3
<1>6. /\ \A s \in Known' : s.seq < host'.seq
      /\ \A s, t \in Known' : s.seq = t.seq => s = t
  <2>1. r.seq < host'.seq
    BY <1>3
  <2>2. \A s, t \in Known : s.seq = t.seq => s = t
    BY DEF Numbered
  <2>3. QED
    BY <1>4, <1>5, <2>1, <2>2
<1>7. \A i, j \in DOMAIN link'.requests : i <= j => link'.requests[i].seq <= link'.requests[j].seq
  <2> SUFFICES ASSUME NEW i \in 1 .. n + 1, NEW j \in 1 .. n + 1, i <= j
               PROVE  link'.requests[i].seq <= link'.requests[j].seq
    BY <1>2
  <2>1. CASE j = n + 1
    <3>1. i \in 1 .. n \/ i = n + 1
      BY <1>2
    <3>2. i \in 1 .. n => link.requests[i] \in Known
      BY <1>2, KnownParts
    <3>3. r.seq <= r.seq
      BY <1>3
    <3>4. QED
      BY <1>2, <1>5, <2>1, <3>1, <3>2, <3>3
  <2>2. CASE j # n + 1
    <3>1. i \in 1 .. n /\ j \in 1 .. n
      BY <1>2, <2>2
    <3>2. link.requests[i].seq <= link.requests[j].seq
      BY <1>2, <3>1 DEF Numbered
    <3>3. QED
      BY <1>2, <3>1, <3>2
  <2>3. QED
    BY <2>1, <2>2
<1>8. \A i \in DOMAIN link'.answers :
          link'.answers[i].seq <= r.seq /\ link'.answers[i].seq < host'.seq
  <2> SUFFICES ASSUME NEW i \in DOMAIN link'.answers
               PROVE  link'.answers[i].seq <= r.seq /\ link'.answers[i].seq < host'.seq
    OBVIOUS
  <2>1. link'.answers[i].seq \in Nat /\ link'.answers[i].seq < host.seq
    BY <1>1, KnownType DEF Numbered
  <2>2. QED
    BY <1>3, <2>1
<1>9. \A i, j \in DOMAIN link'.answers : i <= j => link'.answers[i].seq <= link'.answers[j].seq
  BY <1>1 DEF Numbered
<1>10. \A i \in DOMAIN link'.answers, j \in DOMAIN link'.requests :
          link'.answers[i].seq <= link'.requests[j].seq
  <2> SUFFICES ASSUME NEW i \in DOMAIN link'.answers, NEW j \in 1 .. n + 1
               PROVE  link'.answers[i].seq <= link'.requests[j].seq
    BY <1>2
  <2>1. CASE j = n + 1
    BY <1>2, <1>8, <2>1
  <2>2. CASE j # n + 1
    <3>1. j \in DOMAIN link.requests /\ link'.requests[j] = link.requests[j]
      BY <1>2, <2>2
    <3>2. QED
      BY <1>1, <3>1 DEF Numbered
  <2>3. QED
    BY <2>1, <2>2
<1>11. Waiting' => host'.req.seq = host'.seq - 1
  BY <1>3
<1>12. /\ device'.last # None => device'.last.answer.seq = device'.last.req.seq
       /\ device'.held # None => device'.held.answer.seq = device'.held.req.seq
  BY DEF Numbered
<1>13. ASSUME NEW j \in DOMAIN link'.requests
       PROVE  /\ device'.last # None => device'.last.req.seq <= link'.requests[j].seq
              /\ device'.held # None => device'.held.req.seq <= link'.requests[j].seq
  <2>1. /\ device.last # None => device.last.req.seq <= r.seq
        /\ device.held # None => device.held.req.seq <= r.seq
    BY <1>5, KnownParts
  <2>2. CASE j = n + 1
    BY <1>2, <2>1, <2>2
  <2>3. CASE j # n + 1
    <3>1. j \in DOMAIN link.requests /\ link'.requests[j] = link.requests[j]
      BY <1>2, <2>3
    <3>2. QED
      BY <3>1 DEF Numbered
  <2>4. QED
    BY <2>2, <2>3
<1>14. QED
  BY <1>6, <1>7, <1>8, <1>9, <1>10, <1>11, <1>12, <1>13 DEF Numbered

(* A second Programmer session counts its requests from one again, while   *)
(* the device still remembers the last request of the first and the link   *)
(* may hold answers to it: a number then names two requests.  It need not  *)
(* trouble a session that begins with nothing unanswered (Tidy).           *)
OneSession == Sessions <= 1

LEMMA NumberedInit ==
    ASSUME OneSession, Init
    PROVE  Numbered /\ FirstSession
<1>1. /\ host = [open |-> FALSE, seq |-> 1, tx |-> 0, req |-> None, at |-> Idle]
      /\ link = [requests |-> <<>>, answers |-> <<>>] /\ device = Loaded(slots)
      /\ budget.sessions = Sessions
  BY DEF Init
<1>2. slots \in [Slot -> [Block -> Content]]
  BY BaseInit DEF BaseInv, TypeOK, SlotTypeOK
<1>3. device.last = None /\ device.held = None /\ device.tx = 0
  BY <1>1, <1>2, LoadedDevice
<1>4. ~Waiting /\ link.requests = <<>> /\ link.answers = <<>> /\ ~host.open
  BY <1>1 DEF Waiting
<1>5. DOMAIN link.requests = {} /\ DOMAIN link.answers = {}
  BY <1>4
<1>6. Known = {}
  BY <1>3, <1>4, <1>5 DEF Known
<1>7. budget.sessions > 0 => budget.sessions = 1
  BY <1>1, DeviceAssumption DEF OneSession
<1>8. QED
  BY <1>3, <1>4, <1>5, <1>6, <1>7 DEF Numbered, FirstSession

LEMMA NumberedNext ==
    ASSUME BaseInv, Numbered, [Next]_vars, ~Connect
    PROVE  Numbered'
<1>1. BaseInv' /\ TypeOK
  BY BaseNext DEF BaseInv
<1>2. \A s : Behind(s, s) /\ (s # <<>> => Behind(Tail(s), s))
  BY DEF Behind
<1>4. CASE Performing
  <2>1. PICK after, a : Handling(after, a)
    BY <1>4, Handled
  <2> DEFINE e == [req |-> Incoming, answer |-> a]
  <2>2. /\ link.requests # <<>> /\ a \in AnswerType /\ a.seq = Incoming.seq
        /\ link'.requests = Tail(link.requests) /\ link'.answers = Append(link.answers, a)
        /\ host' = host /\ device'.held = None /\ device'.last = e
    BY <1>1, <2>1, AnswerEffect DEF Handling, Answering
  <2>3. e.req = Incoming /\ e.answer = a
    OBVIOUS
  <2> HIDE DEF e
  <2>4. QED
    BY <1>1, <2>2, <2>3, NumberedServed
<1>5. CASE Replay
  <2> DEFINE a == IF Settled.req = Incoming THEN Settled.answer ELSE Refuse(Incoming)
             e == [req |-> Incoming, answer |-> a]
  <2>1. /\ link.requests # <<>> /\ a \in AnswerType
        /\ link'.requests = Tail(link.requests) /\ link'.answers = Append(link.answers, a)
        /\ host' = host
        /\ device'.held \in {device.held, None} /\ device'.last = device.last
    BY <1>5, ReplayEffect
  <2>2. a.seq = Incoming.seq
    <3>1. CASE Settled.req = Incoming
      BY <1>5, <3>1 DEF Replay, Repeated, Settled, Numbered
    <3>2. CASE Settled.req # Incoming
      BY <3>2 DEF Refuse
    <3>3. QED
      BY <3>1, <3>2
  <2>3. e.req = Incoming /\ e.answer = a
    OBVIOUS
  <2> HIDE DEF a, e
  <2>4. QED
    BY <1>1, <2>1, <2>2, <2>3, NumberedServed
<1>6. CASE CommitTransaction
  <2>1. /\ link' = link /\ host' = host /\ link.requests # <<>>
        /\ device' = [device EXCEPT !.held = None]
    BY <1>6 DEF CommitTransaction, Asked, Answering
  <2>2. device'.last = device.last /\ device'.held = None
    BY <1>1, <2>1 DEF TypeOK, DeviceType
  <2>3. QED
    BY <1>1, <1>2, <2>1, <2>2, NumberedKept
<1>7. CASE StoreBlock
  <2>1. /\ link' = link /\ host' = host /\ link.requests # <<>>
        /\ device' = device
    BY <1>7 DEF StoreBlock, WriteBlock, BaseInv, CommitOK
  <2>2. QED
    BY <1>1, <1>2, <2>1, NumberedKept
<1>8. ASSUME Undone, update # None, host' = host
      PROVE  Numbered'
  <2> DEFINE a == Refuse(Incoming)
             e == [req |-> Incoming, answer |-> a]
  <2>1. link.requests # <<>>
    BY <1>8 DEF BaseInv, CommitOK
  <2>2. /\ a \in AnswerType
        /\ link'.requests = Tail(link.requests) /\ link'.answers = Append(link.answers, a)
        /\ device'.held = e /\ device'.last = device.last
    BY <1>8, <2>1, UndoneEffect
  <2>3. e.req = Incoming /\ e.answer = a /\ a.seq = Incoming.seq
    BY DEF Refuse
  <2> HIDE DEF a, e
  <2>4. QED
    BY <1>1, <1>8, <2>1, <2>2, <2>3, NumberedServed
<1>9. CASE StoreMarker
  <2>1. CASE Undone
    BY <1>8, <1>9, <2>1 DEF StoreMarker, WriteMarker
  <2>2. CASE ~Undone
    <3> DEFINE a == Accept(Incoming, device.gen + 1)
               e == [req |-> Incoming, answer |-> a]
    <3>1. /\ link.requests # <<>> /\ a \in AnswerType
          /\ link'.requests = Tail(link.requests) /\ link'.answers = Append(link.answers, a)
          /\ device'.last = e /\ device'.held = device.held /\ host' = host
      BY <1>9, <2>2, StoreMarkerEffect
    <3>2. e.req = Incoming /\ e.answer = a /\ a.seq = Incoming.seq
      BY DEF Accept
    <3> HIDE DEF a, e
    <3>3. QED
      BY <1>1, <3>1, <3>2, NumberedServed
  <2>3. QED
    BY <2>1, <2>2
<1>10. CASE StoreFailed
  <2>1. Undone /\ update # None /\ host' = host
    BY <1>10 DEF StoreFailed, Interrupted
  <2>2. QED
    BY <1>8, <2>1
<1>11. CASE Reboot
  <2>1. /\ device' = Loaded(slots') /\ host' = host
        /\ link'.answers = link.answers
        /\ Behind(link'.requests, link.requests)
    BY <1>1, <1>2, <1>11, RebootEffect DEF BaseInv
  <2>2. slots' \in [Slot -> [Block -> Content]]
    BY <1>1 DEF BaseInv, TypeOK, SlotTypeOK
  <2>3. device'.last = None /\ device'.held = None /\ device'.tx = 0
    BY <2>1, <2>2, LoadedDevice
  <2>4. QED
    BY <1>1, <1>2, <2>1, <2>3, NumberedKept
<1>12. CASE Lose
  <2>1. /\ Behind(link'.requests, link.requests) /\ Behind(link'.answers, link.answers)
        /\ link.requests # <<>> \/ link.answers # <<>>
        /\ host' = host /\ device' = device
    BY <1>2, <1>12, LoseEffect
  <2>2. QED
    BY <1>1, <2>1, NumberedKept
<1>13. CASE Resend
  <2>1. /\ Waiting /\ host.req \in RequestType /\ host.req # None /\ host' = host
        /\ link'.requests = Append(link.requests, host.req) /\ link'.answers = link.answers
        /\ device' = device
    BY <1>13, ResendEffect DEF Waiting
  <2>2. QED
    BY <1>1, <1>2, <2>1, NumberedSent
<1>15. CASE WriteConfiguration \/ BackupConfiguration
  <2>1. Operation
    BY <1>15 DEF WriteConfiguration, BackupConfiguration
  <2>2. host.open /\ device' = device
    BY <2>1, OperationEffect
  <2>3. /\ host'.req \in RequestType /\ host'.req # None /\ host'.req.seq = host.seq
        /\ host'.seq = host.seq + 1
        /\ link'.requests = Append(link.requests, host'.req) /\ link'.answers = link.answers
    BY <1>15, WriteConfigurationEffect, BackupEffect DEF Request
  <2>4. QED
    BY <1>1, <1>2, <2>2, <2>3, NumberedSent
<1>16. CASE HostStep
  <2>1. CASE Ignore
    BY <1>1, <1>2, <2>1, IgnoreEffect, NumberedKept
  <2>2. ASSUME NEW at, NEW cmd, NEW arg, NEW l, Asks(at, cmd, arg, l)
        PROVE  Numbered'
    <3>1. /\ Waiting /\ host'.req \in RequestType /\ host'.req # None /\ host'.req.seq = host.seq
          /\ host'.seq = host.seq + 1
          /\ link'.requests = Append(link.requests, host'.req)
          /\ device' = device
      BY <2>2, AsksRequests DEF Asks, HostFrame
    <3>2. Behind(link'.answers, link.answers)
      BY <2>2, <1>2, AsksRequests DEF Expected
    <3>3. QED
      BY <1>1, <3>1, <3>2, NumberedSent
  <2>3. ASSUME NEW l, Rests(l)
        PROVE  Numbered'
    <3>1. /\ Waiting /\ host'.req = None /\ host'.seq = host.seq
          /\ link'.requests = link.requests
          /\ device' = device
      BY <2>3, RestsRequests DEF Rests, HostFrame
    <3>2. Behind(link'.answers, link.answers)
      BY <2>3, <1>2, RestsRequests DEF Expected
    <3>3. QED
      BY <1>1, <1>2, <3>1, <3>2, NumberedKept
  <2>4. QED
    BY <1>16, <2>1, <2>2, <2>3, HostSteps
<1>17. CASE UNCHANGED vars
  <2>1. host' = host /\ link' = link /\ device' = device
    BY <1>17 DEF vars
  <2>2. QED
    BY <1>1, <1>2, <2>1, NumberedKept
<1>18. QED
  BY <1>4, <1>5, <1>6, <1>7, <1>9, <1>10, <1>11, <1>12, <1>13, <1>15, <1>16, <1>17
     DEF Next, DeviceStep, Performing

LEMMA SessionNext ==
    ASSUME BaseInv, Numbered, FirstSession, [Next]_vars
    PROVE  Numbered' /\ FirstSession'
<1>1. BaseInv' /\ TypeOK /\ budget.sessions \in Nat
  BY BaseNext DEF BaseInv, TypeOK, BudgetType
<1>2. CASE Connect
  <2> DEFINE r == Request(1, "hello", 0, None)
  <2>1. /\ host'.seq = 2 /\ host'.req = r /\ r \in RequestType
        /\ link'.requests = Append(link.requests, r) /\ link'.answers \in {<<>>, link.answers}
        /\ device' = device /\ budget.sessions > 0 /\ budget'.sessions = budget.sessions - 1
    BY <1>2, ConnectEffect
  <2>2. /\ budget.sessions = 1 /\ link.requests = <<>> /\ link.answers = <<>>
        /\ device.last = None /\ device.held = None
    BY <2>1 DEF FirstSession
  <2>3. r.seq = 1
    BY DEF Request
  <2> HIDE DEF r
  <2>4. link'.requests = <<r>> /\ DOMAIN link'.requests = {1} /\ link'.requests[1] = r
    BY <2>1, <2>2
  <2>5. DOMAIN link'.answers = {}
    BY <2>1, <2>2
  <2>6. ~(budget'.sessions > 0)
    BY <2>1, <2>2
  <2>7. Known' \subseteq {r}
    BY <2>1, <2>2, <2>4 DEF Known
  <2>8. QED
    BY <2>1, <2>2, <2>3, <2>4, <2>5, <2>6, <2>7 DEF Numbered, FirstSession
<1>3. CASE ~Connect
  <2>1. Numbered'
    BY <1>3, NumberedNext
  <2>2. CASE DeviceStep \/ StoreFailed
    <3>1. link.requests # <<>>
      BY <2>2 DEF BaseInv, CommitOK, DeviceStep, Replay, DeviceInfo, ListObjects, ReadObject,
         BeginTransaction, Strange, WriteObject, ValidateTransaction, AbortTransaction,
         CommitRefused, CommitTransaction, Asked, Answering, StoreBlock, WriteBlock,
         StoreMarker, WriteMarker, StoreFailed, Interrupted
    <3>2. budget'.sessions = budget.sessions
      <4>1. CASE DeviceStep
        BY <4>1 DEF DeviceStep, Replay, DeviceInfo, ListObjects, ReadObject,
           BeginTransaction, Strange, WriteObject, ValidateTransaction, AbortTransaction,
           CommitRefused, CommitTransaction, Answer, StoreBlock, StoreMarker
      <4>2. CASE StoreFailed
        BY <1>1, <4>2, MishapEffect DEF StoreFailed, TypeOK
      <4>3. QED
        BY <2>2, <4>1, <4>2
    <3>3. QED
      BY <2>1, <3>1, <3>2 DEF FirstSession
  <2>3. CASE Reboot
    <3>1. /\ device' = Loaded(slots') /\ host' = host /\ budget'.sessions = budget.sessions
          /\ update = None => link' = link
          /\ update # None => link.requests # <<>>
      BY <1>1, <2>3, RebootEffect DEF BaseInv
    <3>2. slots' \in [Slot -> [Block -> Content]]
      BY <1>1 DEF BaseInv, TypeOK, SlotTypeOK
    <3>3. device'.last = None /\ device'.held = None
      BY <3>1, <3>2, LoadedDevice
    <3>4. QED
      BY <2>1, <3>1, <3>3 DEF FirstSession, Waiting
  <2>4. CASE Lose
    BY <2>1, <2>4, LoseEffect DEF FirstSession
  <2>5. CASE Resend
    BY <2>1, <2>5, ResendEffect DEF FirstSession
  <2>6. CASE WriteConfiguration \/ BackupConfiguration
    <3>1. Operation
      BY <2>6 DEF WriteConfiguration, BackupConfiguration
    <3>2. QED
      BY <2>1, <3>1, OperationEffect DEF FirstSession
  <2>7. CASE HostStep
    <3>1. \/ Ignore
          \/ \E at, cmd, arg, l : Asks(at, cmd, arg, l)
          \/ \E l : Rests(l)
      BY <2>7, HostSteps
    <3>2. Ignore => link.answers # <<>> /\ budget' = budget
      BY IgnoreEffect
    <3>3. (\E at, cmd, arg, l : Asks(at, cmd, arg, l)) \/ (\E l : Rests(l))
              => Waiting /\ budget'.sessions = budget.sessions
      BY DEF Asks, Rests, HostFrame, Afterwards, Expected
    <3>4. QED
      BY <2>1, <3>1, <3>2, <3>3 DEF FirstSession
  <2>8. CASE UNCHANGED vars
    BY <2>1, <2>8 DEF vars, FirstSession, Waiting
  <2>9. QED
    BY <1>3, <2>2, <2>3, <2>4, <2>5, <2>6, <2>7, <2>8 DEF Next
<1>4. QED
  BY <1>2, <1>3

-----------------------------------------------------------------------------
(***************************************************************************)
(* Part 7.  Transactions end.                                              *)
(***************************************************************************)

(* Once there is an answer for the host, only repetitions of its request   *)
(* are left on the way to the device.                                      *)
LEMMA OnlyRepeats ==
    ASSUME TypeOK, Numbered, Waiting, NEW j \in DOMAIN link.requests,
           \/ host.req.seq <= link.requests[j].seq
           \/ \E i \in DOMAIN link.answers : link.answers[i].seq = host.req.seq
           \/ device.last # None /\ device.last.req = host.req
           \/ device.held # None /\ device.held.req = host.req
    PROVE  link.requests[j] = host.req
<1>1. /\ link.requests[j] \in Known /\ host.req \in Known
      /\ link.requests[j].seq \in Nat /\ host.req.seq \in Nat /\ host.seq \in Nat
  BY KnownParts, KnownType
<1>2. host.req.seq <= link.requests[j].seq
  BY DEF Numbered
<1>3. link.requests[j].seq < host.seq /\ host.req.seq = host.seq - 1
  BY <1>1 DEF Numbered
<1>4. link.requests[j].seq = host.req.seq
  BY <1>1, <1>2, <1>3
<1>5. QED
  BY <1>1, <1>4 DEF Numbered

LEMMA RepliesHave ==
    ASSUME Waiting
    PROVE  /\ \A a \in Replies :
                  \/ \E i \in DOMAIN link.answers :
                         link.answers[i] = a /\ link.answers[i].seq = host.req.seq
                  \/ device.last # None /\ device.last.req = host.req
                  \/ device.held # None /\ device.held.req = host.req
           /\ \A i \in DOMAIN link.answers :
                  link.answers[i].seq = host.req.seq => link.answers[i] \in Replies
           /\ device.last # None /\ device.last.req = host.req => device.last.answer \in Replies
           /\ device.held # None /\ device.held.req = host.req => device.held.answer \in Replies
BY DEF Replies

(* No answers for a request the device has not seen.                       *)
LEMMA RepliesNone ==
    ASSUME TypeOK, Numbered, Behind(link'.answers, link.answers), device' = device,
           host'.req.seq = host.seq
    PROVE  Replies' = {}
<1>1. PICK e \in {0, 1} : \A i \in DOMAIN link'.answers :
          i \in Nat \ {0} /\ i + e \in DOMAIN link.answers
          /\ link'.answers[i] = link.answers[i + e]
  BY AnswersBehind
<1>2. \A i \in DOMAIN link.answers : link.answers[i].seq \in Nat /\ link.answers[i].seq < host.seq
  BY KnownType DEF Numbered
<1>3. \A i \in DOMAIN link'.answers : link'.answers[i].seq # host.seq
  BY <1>1, <1>2, KnownType
<1>4. \A r \in Known : r.seq \in Nat /\ r.seq < host.seq
  BY KnownType DEF Numbered
<1>5. \A r \in Known : r.seq # host'.req.seq
  BY <1>4, KnownType
<1>6. /\ device.last # None => device.last.req # host'.req
      /\ device.held # None => device.held.req # host'.req
  BY <1>5, KnownParts
<1>7. QED
  BY <1>3, <1>6 DEF Replies

LEMMA RepliesKept ==
    ASSUME TypeOK, Behind(link'.answers, link.answers),
           device'.last \in {device.last, None}, device'.held \in {device.held, None},
           host'.req = host.req
    PROVE  Replies' \subseteq Replies
<1>1. PICK e \in {0, 1} : \A i \in DOMAIN link'.answers :
          i \in Nat \ {0} /\ i + e \in DOMAIN link.answers
          /\ link'.answers[i] = link.answers[i + e]
  BY AnswersBehind
<1>2. QED
  BY <1>1 DEF Replies

LEMMA RepliesServed ==
    ASSUME TypeOK, Numbered, link.requests # <<>>, Waiting,
           NEW b \in AnswerType, b.seq = Incoming.seq,
           link'.answers = Append(link.answers, b), host' = host,
           NEW e, e.req = Incoming, e.answer = b,
           device'.last \in {device.last, None, e}, device'.held \in {device.held, None, e}
    PROVE  \A a \in Replies' : a \in Replies \/ (a = b /\ Incoming = host.req)
<1> DEFINE n == Len(link.answers)
<1>1. Incoming = link.requests[1] /\ 1 \in DOMAIN link.requests
  BY ReceivedType, QueueLength DEF TypeOK
<1>2. /\ n \in Nat /\ DOMAIN link.answers = 1 .. n
      /\ DOMAIN link'.answers = 1 .. n + 1
      /\ \A i \in 1 .. n : link'.answers[i] = link.answers[i]
      /\ link'.answers[n + 1] = b
  <2>1. link.answers \in Seq(AnswerType) /\ n \in Nat /\ DOMAIN link.answers = 1 .. n
    BY LinkParts DEF TypeOK
  <2>2. QED
    BY <2>1, FrameIn
<1>3. b.seq = host.req.seq => Incoming = host.req
  BY <1>1, KnownParts DEF Numbered
<1>4. ASSUME NEW i \in DOMAIN link'.answers, link'.answers[i].seq = host.req.seq
      PROVE  link'.answers[i] \in Replies \/ (link'.answers[i] = b /\ Incoming = host.req)
  <2>1. CASE i = n + 1
    BY <1>2, <1>3, <1>4, <2>1
  <2>2. CASE i # n + 1
    <3>1. i \in DOMAIN link.answers /\ link'.answers[i] = link.answers[i]
      BY <1>2, <2>2
    <3>2. QED
      BY <1>4, <3>1 DEF Replies
  <2>3. QED
    BY <2>1, <2>2
<1>5. device'.last # None /\ device'.last.req = host.req =>
          device'.last.answer \in Replies \/ (device'.last.answer = b /\ Incoming = host.req)
  BY DEF Replies
<1>6. device'.held # None /\ device'.held.req = host.req =>
          device'.held.answer \in Replies \/ (device'.held.answer = b /\ Incoming = host.req)
  BY DEF Replies
<1>7. \A a \in Replies' :
          \/ \E i \in DOMAIN link'.answers :
                 a = link'.answers[i] /\ link'.answers[i].seq = host.req.seq
          \/ device'.last # None /\ device'.last.req = host.req /\ a = device'.last.answer
          \/ device'.held # None /\ device'.held.req = host.req /\ a = device'.held.answer
  BY DEF Replies
<1>8. QED
  BY <1>4, <1>5, <1>6, <1>7

-----------------------------------------------------------------------------

LEMMA OpenInit == Init => OpenOK
<1> SUFFICES ASSUME Init PROVE Undoubted
  BY DEF OpenOK
<1>1. /\ ~Waiting /\ link.requests = <<>> /\ device = Loaded(slots)
  BY DEF Init, Waiting
<1>2. slots \in [Slot -> [Block -> Content]]
  BY BaseInit DEF BaseInv, TypeOK, SlotTypeOK
<1>3. device.tx = 0
  BY <1>1, <1>2, LoadedDevice
<1>4. QED
  BY <1>1, <1>3 DEF Undoubted

(* The request of an open transaction that the device handles is the one   *)
(* the host waits for or one before it.                                    *)
LEMMA OpenPerforming ==
    ASSUME BaseInv, Numbered, Undoubted, NEW after, NEW a, Handling(after, a)
    PROVE  Undoubted'
<1> DEFINE e == [req |-> Incoming, answer |-> a]
<1>1. /\ TypeOK /\ link.requests # <<>> /\ a \in AnswerType /\ a.seq = Incoming.seq
      /\ link'.requests = Tail(link.requests) /\ link'.answers = Append(link.answers, a)
      /\ host' = host /\ device'.held = None /\ device'.last = e /\ device'.last # None
      /\ device'.tx = after.tx /\ ~Repeated
  BY AnswerEffect DEF Handling, Answering, BaseInv
<1>2. e.req = Incoming /\ e.answer = a
  OBVIOUS
<1> HIDE DEF e
<1>3. PICK d \in {0, 1} : \A i \in DOMAIN link'.requests :
          i \in Nat \ {0} /\ i + d \in DOMAIN link.requests
          /\ link'.requests[i] = link.requests[i + d]
  BY <1>1, RequestsBehind DEF Behind
<1>4. Incoming = link.requests[1] /\ 1 \in DOMAIN link.requests /\ Incoming \in Known
  BY <1>1, ReceivedType, QueueLength, KnownParts DEF TypeOK
<1>5. Waiting' = Waiting
  BY <1>1 DEF Waiting
<1>6. ~(device.last # None /\ device.last.req.seq = Incoming.seq)
  BY <1>1, RepeatedIs DEF Remembered
<1>7. device.last # None => device.last.req # Incoming
  BY <1>6
<1>8. Incoming.cmd = "begin" => device.tx = 0
  BY <1>4, <1>7 DEF Undoubted
<1>9. ASSUME device'.tx # 0
      PROVE  /\ Waiting /\ host.req.cmd \in Parties /\ host.req.tx = device'.tx
             /\ Incoming.cmd # "begin" => device.tx # 0
  <2>1. CASE Incoming.cmd = "begin"
    <3>1. device'.tx = Incoming.tx
      BY <1>1, <1>8, <2>1 DEF Handling
    <3>2. Waiting /\ host.req.cmd \in {"begin", "write", "validate"} /\ Incoming.tx = host.req.tx
      BY <1>4, <2>1 DEF Undoubted
    <3>3. QED
      BY <2>1, <3>1, <3>2 DEF Parties
  <2>2. CASE Incoming.cmd # "begin"
    <3>1. device'.tx = device.tx
      BY <1>1, <1>9, <2>2 DEF Handling
    <3>2. QED
      BY <1>9, <3>1 DEF Undoubted
  <2>3. QED
    BY <2>1, <2>2
<1>10. ASSUME device'.tx # 0, host.req.cmd = "begin"
       PROVE  Incoming = host.req
  <2>1. Waiting
    BY <1>9, <1>10
  <2>2. CASE Incoming.cmd = "begin"
    BY <1>4, <1>10, <2>2 DEF Undoubted
  <2>3. CASE Incoming.cmd # "begin"
    <3>1. device.last # None /\ device.last.req = host.req
      BY <1>9, <1>10, <2>3 DEF Undoubted
    <3>2. link.requests[1] = host.req
      BY <1>1, <1>4, <2>1, <3>1, OnlyRepeats
    <3>3. QED
      BY <1>4, <3>2
  <2>4. QED
    BY <2>2, <2>3
<1>11. ASSUME device'.tx # 0, NEW j \in DOMAIN link.requests, link.requests[j].cmd = "begin"
       PROVE  Incoming = link.requests[j]
  <2>1. Waiting /\ (host.req.cmd = "begin" => link.requests[j] = host.req)
    BY <1>11 DEF Undoubted
  <2>2. CASE device.tx # 0
    <3>1. device.last # None /\ device.last.req = link.requests[j]
      BY <1>11, <2>2 DEF Undoubted
    <3>2. device.last.req.seq <= Incoming.seq /\ Incoming.seq <= link.requests[j].seq
      <4>1. 1 <= j
        BY <1>1, QueueLength
      <4>2. QED
        BY <1>4, <3>1, <4>1 DEF Numbered
    <3>3. Incoming.seq \in Nat /\ link.requests[j].seq \in Nat
      BY <1>1, <1>4, KnownParts, KnownType
    <3>4. Incoming.seq = device.last.req.seq
      BY <3>1, <3>2, <3>3
    <3>5. QED
      BY <1>6, <3>1, <3>4
  <2>3. CASE device.tx = 0
    <3>1. Incoming.cmd = "begin"
      BY <1>9, <1>11, <2>3
    <3>2. CASE host.req.cmd = "begin"
      BY <1>10, <1>11, <2>1, <3>2
    <3>3. CASE host.req.cmd # "begin"
      <4>1. link.requests[Len(link.requests)] = host.req /\ Len(link.requests) \in {1, 2}
            /\ j \in 1 .. Len(link.requests)
        BY <1>1, <2>1, HostIsLast, QueueLength
      <4>2. j # Len(link.requests)
        BY <1>11, <3>3, <4>1
      <4>3. j = 1
        BY <4>1, <4>2
      <4>4. QED
        BY <1>4, <4>3
    <3>4. QED
      BY <3>2, <3>3
  <2>4. device.tx = 0 \/ device.tx # 0
    OBVIOUS
  <2>5. QED
    BY <2>2, <2>3, <2>4
<1>12. ASSUME NEW i \in DOMAIN link'.requests, link'.requests[i].cmd = "begin"
       PROVE  /\ Waiting /\ host.req.cmd \in {"begin", "write", "validate"}
              /\ link'.requests[i].tx = host.req.tx
              /\ host.req.cmd = "begin" => link'.requests[i] = host.req
              /\ device'.tx # 0 => Incoming = link'.requests[i]
  <2>1. i + d \in DOMAIN link.requests /\ link'.requests[i] = link.requests[i + d]
    BY <1>3
  <2>2. QED
    BY <1>11, <1>12, <2>1 DEF Undoubted
<1>13. ASSUME Waiting, NEW s \in Replies'
       PROVE  /\ host.req.cmd = "begin" => s.cmd = "begin"
              /\ host.req.cmd = "commit" /\ s.cmd = "commit" => device'.tx = 0
              /\ host.req.cmd = "abort" => device'.tx = 0
  <2>1. s \in Replies \/ (s = a /\ Incoming = host.req)
    BY <1>1, <1>2, <1>13, RepliesServed
  <2>2. CASE s = a /\ Incoming = host.req
    <3>1. Incoming.cmd = "begin" => a.cmd = "begin"
      BY <1>8 DEF Handling
    <3>2. Incoming.cmd = "commit" => a.cmd = "error"
      BY DEF Handling
    <3>3. Incoming.cmd = "abort" => device'.tx = 0
      BY <1>1, <1>13, <2>2 DEF Handling, Undoubted
    <3>4. QED
      BY <2>2, <3>1, <3>2, <3>3
  <2>3. CASE s \in Replies
    <3>1. link.requests[1] = host.req
      BY <1>1, <1>4, <1>13, <2>3, RepliesHave, OnlyRepeats
    <3>2. /\ host.req.cmd = "begin" => s.cmd = "begin"
          /\ host.req.cmd = "commit" /\ s.cmd = "commit" => device.tx = 0
          /\ host.req.cmd = "abort" => device.tx = 0
      BY <1>13, <2>3 DEF Undoubted
    <3>3. /\ Incoming.cmd = "commit" => device'.tx = device.tx
          /\ Incoming.cmd = "abort" => device'.tx \in {0, device.tx}
      BY <1>1 DEF Handling
    <3>4. QED
      BY <1>4, <3>1, <3>2, <3>3
  <2>4. QED
    BY <2>1, <2>2, <2>3
<1>14. Waiting => host.req.tx = host.tx
  BY DEF Undoubted
<1>15. QED
  BY <1>1, <1>2, <1>5, <1>9, <1>10, <1>12, <1>13, <1>14 DEF Undoubted

LEMMA RequestAppended ==
    ASSUME TypeOK, NEW r \in RequestType, link'.requests = Append(link.requests, r)
    PROVE  \A i \in DOMAIN link'.requests :
               \/ link'.requests[i] = r
               \/ i \in DOMAIN link.requests /\ link'.requests[i] = link.requests[i]
<1> DEFINE n == Len(link.requests)
<1>1. link.requests \in Seq(RequestType) /\ n \in Nat /\ DOMAIN link.requests = 1 .. n
  BY QueueLength
<1>2. /\ DOMAIN link'.requests = 1 .. n + 1
      /\ \A i \in 1 .. n : link'.requests[i] = link.requests[i]
      /\ link'.requests[n + 1] = r
  BY <1>1, FrameIn
<1> HIDE DEF n
<1>3. SUFFICES ASSUME NEW i \in 1 .. n + 1
               PROVE  \/ link'.requests[i] = r
                      \/ i \in DOMAIN link.requests /\ link'.requests[i] = link.requests[i]
  BY <1>2
<1>4. i \in 1 .. n \/ i = n + 1
  BY <1>1
<1>5. CASE i \in 1 .. n
  BY <1>1, <1>2, <1>5
<1>6. CASE i = n + 1
  <2>1. link'.requests[i] = link'.requests[n + 1]
    BY <1>6
  <2>2. QED
    BY <1>2, <2>1
<1>7. QED
  BY <1>4, <1>5, <1>6

(* The transaction stays as it is, and a commit may be refused.            *)
LEMMA UndoubtedKept ==
    ASSUME TypeOK, Undoubted, Behind(link'.requests, link.requests),
           host'.req = host.req, host'.tx = host.tx,
           device'.tx = device.tx, device'.last = device.last,
           Waiting => \A a \in Replies' :
               a \in Replies \/ (host.req.cmd = "commit" /\ a.cmd = "error")
    PROVE  Undoubted'
<1>1. PICK d \in {0, 1} : \A i \in DOMAIN link'.requests :
          i \in Nat \ {0} /\ i + d \in DOMAIN link.requests
          /\ link'.requests[i] = link.requests[i + d]
  BY RequestsBehind
<1>2. Waiting' = Waiting
  BY DEF Waiting
<1>3. Waiting => \A a \in Replies' :
        /\ host.req.cmd = "begin" => a.cmd = "begin"
        /\ host.req.cmd = "commit" /\ a.cmd = "commit" => device.tx = 0
        /\ host.req.cmd = "abort" => device.tx = 0
  BY DEF Undoubted
<1>4. \A i \in DOMAIN link'.requests :
        link'.requests[i].cmd = "begin" =>
           /\ Waiting /\ host.req.cmd \in {"begin", "write", "validate"}
           /\ link'.requests[i].tx = host.req.tx
           /\ host.req.cmd = "begin" => link'.requests[i] = host.req
           /\ device.tx # 0 => device.last # None /\ device.last.req = link'.requests[i]
  BY <1>1 DEF Undoubted
<1>5. QED
  BY <1>2, <1>3, <1>4 DEF Undoubted

(* The transaction ends.                                                   *)
LEMMA UndoubtedClosed ==
    ASSUME TypeOK, Undoubted, Behind(link'.requests, link.requests),
           host'.req = host.req, host'.tx = host.tx, device'.tx = 0,
           Waiting => \A a \in Replies' : a \in Replies \/ host.req.cmd # "begin"
    PROVE  Undoubted'
<1>1. PICK d \in {0, 1} : \A i \in DOMAIN link'.requests :
          i \in Nat \ {0} /\ i + d \in DOMAIN link.requests
          /\ link'.requests[i] = link.requests[i + d]
  BY RequestsBehind
<1>2. Waiting' = Waiting
  BY DEF Waiting
<1>3. Waiting => \A a \in Replies' : host.req.cmd = "begin" => a.cmd = "begin"
  BY DEF Undoubted
<1>4. \A i \in DOMAIN link'.requests :
        link'.requests[i].cmd = "begin" =>
           /\ Waiting /\ host.req.cmd \in {"begin", "write", "validate"}
           /\ link'.requests[i].tx = host.req.tx
           /\ host.req.cmd = "begin" => link'.requests[i] = host.req
  BY <1>1 DEF Undoubted
<1>5. QED
  BY <1>2, <1>3, <1>4 DEF Undoubted

(* A host without a transaction starts an operation or a session.          *)
LEMMA UndoubtedStarts ==
    ASSUME TypeOK, Numbered, Undoubted, ~Waiting, device' = device,
           NEW r \in RequestType, host'.req = r, r.tx = host'.tx,
           link'.requests = Append(link.requests, r),
           \/ r.cmd \notin {"begin", "commit", "abort"}
           \/ r.seq = host.seq /\ Behind(link'.answers, link.answers)
    PROVE  Undoubted'
<1>1. device.tx = 0 /\ \A i \in DOMAIN link.requests : link.requests[i].cmd # "begin"
  BY DEF Undoubted
<1>2. \A i \in DOMAIN link'.requests : link'.requests[i] = r \/ link'.requests[i].cmd # "begin"
  BY <1>1, RequestAppended
<1>3. Waiting' => \A a \in Replies' :
        /\ host'.req.cmd = "begin" => a.cmd = "begin"
        /\ host'.req.cmd = "commit" /\ a.cmd = "commit" => device'.tx = 0
        /\ host'.req.cmd = "abort" => device'.tx = 0
  <2>1. r.cmd \in {"begin", "commit", "abort"} => Replies' = {}
    BY RepliesNone
  <2>2. QED
    BY <2>1
<1>4. Waiting'
  BY RequestParts DEF Waiting
<1>5. QED
  BY <1>1, <1>2, <1>3, <1>4 DEF Undoubted

(* It goes on after an answer, or comes to rest.                           *)
LEMMA AnswerSettles ==
    ASSUME TypeOK, Numbered, Expected
    PROVE  /\ Waiting
           /\ \A j \in DOMAIN link.requests : link.requests[j] = host.req
           /\ Head(link.answers) \in Replies
<1>1. 1 \in DOMAIN link.answers /\ Head(link.answers) = link.answers[1] /\ Waiting
  BY FrameOut, LinkParts DEF TypeOK, Expected
<1>2. link.answers[1].seq = host.req.seq
  BY <1>1 DEF Expected
<1>3. \A j \in DOMAIN link.requests : link.requests[j] = host.req
  BY <1>1, <1>2, OnlyRepeats
<1>4. QED
  BY <1>1, <1>2, <1>3, RepliesHave

LEMMA UndoubtedAsks ==
    ASSUME BaseInv, Numbered, Undoubted, ~history'.lost,
           NEW at, NEW cmd, NEW arg, NEW l, Asks(at, cmd, arg, l)
    PROVE  Undoubted'
<1>1. Expected /\ l = Taken /\ device' = device
  BY DEF Asks, Afterwards, HostFrame
<1>2. /\ Waiting /\ \A j \in DOMAIN link.requests : link.requests[j] = host.req
      /\ Head(link.answers) \in Replies
  BY <1>1, AnswerSettles DEF BaseInv
<1>3. /\ host'.tx = host.tx /\ host'.req # None /\ host'.req.seq = host.seq
      /\ host'.req.cmd = cmd /\ host'.req.tx = host.tx /\ host'.req \in RequestType
      /\ link'.requests = Append(link.requests, host'.req)
      /\ Behind(link'.answers, link.answers)
      /\ Waiting'
  BY AsksRequests DEF Behind, Expected, Waiting
<1>4. Replies' = {}
  BY <1>1, <1>3, RepliesNone DEF BaseInv
<1>5. cmd # "begin"
  BY DEF Asks
<1>6. device.tx # 0 => cmd \in Parties /\ device.tx = host.tx
  <2>1. SUFFICES ASSUME device.tx # 0 PROVE cmd \in Parties /\ device.tx = host.tx
    OBVIOUS
  <2>2. host.req.cmd \in Parties /\ device.tx = host.tx
    BY <2>1 DEF Undoubted
  <2>3. host.req.cmd = "commit" => Head(link.answers).cmd # "commit"
    BY <1>2, <2>1 DEF Undoubted
  <2>4. QED
    BY <2>2, <2>3 DEF Asks, Parties
<1>7. \A i \in DOMAIN link'.requests :
          \/ link'.requests[i] = host'.req
          \/ i \in DOMAIN link.requests /\ link'.requests[i] = link.requests[i]
  BY <1>3, RequestAppended DEF BaseInv
<1>8. ASSUME NEW i \in DOMAIN link'.requests, link'.requests[i].cmd = "begin"
      PROVE  /\ cmd \in {"write", "validate"}
             /\ link'.requests[i].tx = host.tx
             /\ device.tx # 0 => device.last # None /\ device.last.req = link'.requests[i]
  <2>1. i \in DOMAIN link.requests /\ link'.requests[i] = link.requests[i]
    BY <1>3, <1>5, <1>7, <1>8
  <2>2. host.req.cmd = "begin" /\ link.requests[i] = host.req
    BY <1>2, <1>8, <2>1
  <2>3. cmd \in {"write", "validate"}
    BY <2>2 DEF Asks
  <2>4. QED
    BY <1>2, <1>8, <2>1, <2>2, <2>3 DEF Undoubted
<1>9. QED
  BY <1>1, <1>3, <1>4, <1>5, <1>6, <1>8 DEF Undoubted

LEMMA UndoubtedRests ==
    ASSUME BaseInv, Numbered, Undoubted, ~history'.lost, NEW l, Rests(l)
    PROVE  Undoubted'
<1>1. Expected /\ l = Taken /\ device' = device
  BY DEF Rests, Afterwards, HostFrame
<1>2. /\ Waiting /\ \A j \in DOMAIN link.requests : link.requests[j] = host.req
      /\ Head(link.answers) \in Replies
  BY <1>1, AnswerSettles DEF BaseInv
<1>3. l # link
  BY <1>1, TakenDiffers DEF BaseInv
<1>4. link'.requests = link.requests /\ ~Waiting'
  BY RestsRequests
<1>5. host.req.cmd # "begin"
  BY <1>2, <1>3 DEF Rests, Undoubted
<1>6. device.tx = 0
  <2>1. SUFFICES ASSUME device.tx # 0 PROVE FALSE
    OBVIOUS
  <2>2. host.req.cmd \in {"begin", "write", "validate", "commit", "abort"}
    BY <2>1 DEF Undoubted, Parties
  <2>3. host.req.cmd = "commit" => Head(link.answers).cmd = "commit"
    BY <1>3 DEF Rests
  <2>4. host.req.cmd # "commit" /\ host.req.cmd # "abort"
    BY <1>2, <2>1, <2>3 DEF Undoubted
  <2>5. QED
    BY <1>5, <2>2, <2>4 DEF Rests
<1>7. QED
  BY <1>1, <1>2, <1>4, <1>5, <1>6 DEF Undoubted

-----------------------------------------------------------------------------
(* Several sessions, none of which gave an exchange up.  A step keeps the  *)
(* frames it finds, serves a request, or is one of the host.               *)

Keeps ==
    /\ Behind(link'.requests, link.requests) /\ Behind(link'.answers, link.answers)
    /\ host' = host
    /\ device'.last \in {device.last, None} /\ device'.held \in {device.held, None}

Serves(b, e) ==
    /\ link.requests # <<>> /\ link'.requests = Tail(link.requests)
    /\ b \in AnswerType /\ b.seq = Incoming.seq /\ link'.answers = Append(link.answers, b)
    /\ host' = host
    /\ e.req = Incoming /\ e.answer = b
    /\ device'.last \in {device.last, None, e} /\ device'.held \in {device.held, None, e}
    /\ Incoming.cmd = "commit" \/ device'.held \in {device.held, None}
    /\ \/ Incoming.cmd = "commit"
       \/ device'.held = None /\ device'.last # None /\ device'.last.req.seq = Incoming.seq
       \/ device.held # None /\ device.held.req.seq = Incoming.seq

LEMMA StepKinds ==
    ASSUME BaseInv, Matched, [Next]_vars
    PROVE  \/ Keeps
           \/ \E b, e : Serves(b, e)
           \/ Resend \/ Connect \/ WriteConfiguration \/ BackupConfiguration
           \/ \E at, cmd, arg, l : Asks(at, cmd, arg, l)
           \/ \E l : Rests(l)
<1>1. BaseInv' /\ TypeOK
  BY BaseNext DEF BaseInv
<1>2. \A s : Behind(s, s) /\ (s # <<>> => Behind(Tail(s), s))
  BY DEF Behind
<1>3. CASE Performing
  <2>1. PICK after, a : Handling(after, a)
    BY <1>3, Handled
  <2> DEFINE e == [req |-> Incoming, answer |-> a]
  <2>2. /\ link.requests # <<>> /\ a \in AnswerType /\ a.seq = Incoming.seq
        /\ link'.requests = Tail(link.requests) /\ link'.answers = Append(link.answers, a)
        /\ host' = host /\ device'.held = None /\ device'.last = e /\ e # None
    BY <1>1, <2>1, AnswerEffect DEF Handling, Answering
  <2>3. e.req = Incoming /\ e.answer = a
    OBVIOUS
  <2> HIDE DEF e
  <2>4. Serves(a, e)
    BY <2>2, <2>3 DEF Serves
  <2>5. QED
    BY <2>4
<1>4. CASE Replay
  <2> DEFINE a == IF Settled.req = Incoming THEN Settled.answer ELSE Refuse(Incoming)
             e == [req |-> Incoming, answer |-> a]
  <2>1. /\ link.requests # <<>> /\ a \in AnswerType
        /\ link'.requests = Tail(link.requests) /\ link'.answers = Append(link.answers, a)
        /\ host' = host /\ device'.last = device.last
        /\ device'.held = IF Settled = device.held THEN device.held ELSE None
        /\ Settled # None /\ Settled \in {device.last, device.held}
        /\ Settled.req.seq = Incoming.seq
    BY <1>4, ReplayEffect
  <2>2. a.seq = Incoming.seq
    <3>1. CASE Settled.req = Incoming
      BY <2>1, <3>1 DEF Matched
    <3>2. CASE Settled.req # Incoming
      BY <3>2 DEF Refuse
    <3>3. QED
      BY <3>1, <3>2
  <2>3. e.req = Incoming /\ e.answer = a
    OBVIOUS
  <2>4. e # None
    <3>1. Incoming \in RequestType
      BY <1>1, <2>1, ReceivedType DEF TypeOK
    <3>2. QED
      BY <2>1, <3>1, Exchanged
  <2> HIDE DEF a, e
  <2>5. Serves(a, e)
    BY <2>1, <2>2, <2>3, <2>4 DEF Serves
  <2>6. QED
    BY <2>5
<1>5. CASE CommitTransaction
  <2>1. /\ link' = link /\ host' = host
        /\ device' = [device EXCEPT !.held = None]
    BY <1>5 DEF CommitTransaction
  <2>2. device'.last = device.last /\ device'.held = None
    BY <1>1, <2>1 DEF TypeOK, DeviceType
  <2>3. QED
    BY <1>2, <2>1, <2>2 DEF Keeps
<1>6. CASE StoreBlock \/ Ignore \/ Lose \/ UNCHANGED vars
  BY <1>2, <1>6, IgnoreEffect, LoseEffect DEF StoreBlock, vars, Keeps
<1>7. ASSUME Undone, update # None, host' = host
      PROVE  \E b, e : Serves(b, e)
  <2> DEFINE a == Refuse(Incoming)
             e == [req |-> Incoming, answer |-> a]
  <2>1. link.requests # <<>> /\ Incoming.cmd = "commit"
    BY <1>7 DEF BaseInv, CommitOK
  <2>2. /\ a \in AnswerType
        /\ link'.requests = Tail(link.requests) /\ link'.answers = Append(link.answers, a)
        /\ device'.held = e /\ device'.last = device.last
    BY <1>7, <2>1, UndoneEffect
  <2>3. e.req = Incoming /\ e.answer = a /\ a.seq = Incoming.seq
    BY DEF Refuse
  <2> HIDE DEF a, e
  <2>4. Serves(a, e)
    BY <1>7, <2>1, <2>2, <2>3 DEF Serves
  <2>5. QED
    BY <2>4
<1>8. CASE StoreMarker
  <2>1. CASE Undone
    BY <1>7, <1>8, <2>1 DEF StoreMarker, WriteMarker
  <2>2. CASE ~Undone
    <3> DEFINE a == Accept(Incoming, device.gen + 1)
               e == [req |-> Incoming, answer |-> a]
    <3>1. /\ link.requests # <<>> /\ a \in AnswerType /\ Incoming.cmd = "commit"
          /\ link'.requests = Tail(link.requests) /\ link'.answers = Append(link.answers, a)
          /\ device'.last = e /\ device'.held = device.held /\ host' = host
      BY <1>8, <2>2, StoreMarkerEffect
    <3>2. e.req = Incoming /\ e.answer = a /\ a.seq = Incoming.seq
      BY DEF Accept
    <3> HIDE DEF a, e
    <3>3. Serves(a, e)
      BY <3>1, <3>2 DEF Serves
    <3>4. QED
      BY <3>3
  <2>3. QED
    BY <2>1, <2>2
<1>9. CASE StoreFailed
  BY <1>7, <1>9 DEF StoreFailed, Interrupted
<1>10. CASE Reboot
  <2>1. /\ device' = Loaded(slots') /\ host' = host
        /\ link'.answers = link.answers
        /\ Behind(link'.requests, link.requests)
    BY <1>1, <1>2, <1>10, RebootEffect DEF BaseInv
  <2>2. slots' \in [Slot -> [Block -> Content]]
    BY <1>1 DEF BaseInv, TypeOK, SlotTypeOK
  <2>3. device'.last = None /\ device'.held = None
    BY <2>1, <2>2, LoadedDevice
  <2>4. QED
    BY <1>2, <2>1, <2>3 DEF Keeps
<1>11. CASE HostStep
  BY <1>6, <1>11, HostSteps
<1>12. QED
  BY <1>3, <1>4, <1>5, <1>6, <1>8, <1>9, <1>10, <1>11 DEF Next, DeviceStep, Performing

LEMMA GreetingKept ==
    ASSUME TypeOK, Greeting,
           Behind(link'.requests, link.requests), Behind(link'.answers, link.answers),
           host'.seq = host.seq, host'.tx = host.tx, host'.open = host.open,
           host'.req \in {host.req, None},
           device'.last \in {device.last, None}, device'.held \in {device.held, None}
    PROVE  Greeting'
<1>1. PICK d \in {0, 1} : \A i \in DOMAIN link'.requests :
          i \in Nat \ {0} /\ i + d \in DOMAIN link.requests
          /\ link'.requests[i] = link.requests[i + d]
  BY RequestsBehind
<1>2. PICK c \in {0, 1} : \A i \in DOMAIN link'.answers :
          i \in Nat \ {0} /\ i + c \in DOMAIN link.answers
          /\ link'.answers[i] = link.answers[i + c]
  BY AnswersBehind
<1>3. ASSUME NEW i \in DOMAIN link'.requests, NEW j \in DOMAIN link'.requests, i <= j,
             link'.requests[i] = Opening
      PROVE  link'.requests[j] = Opening
  BY <1>1, <1>3 DEF Greeting
<1>4. ASSUME NEW i \in DOMAIN link'.answers, link'.answers[i].seq = 1
      PROVE  /\ \A j \in DOMAIN link'.answers : i <= j => link'.answers[j].seq = 1
             /\ \A j \in DOMAIN link'.requests : link'.requests[j] = Opening
             /\ device'.last # None => device'.last.req = Opening
             /\ device'.held = None
  <2>1. i + c \in DOMAIN link.answers /\ link.answers[i + c].seq = 1
    BY <1>2, <1>4
  <2>2. /\ \A j \in DOMAIN link.answers : i + c <= j => link.answers[j].seq = 1
        /\ \A j \in DOMAIN link.requests : link.requests[j] = Opening
        /\ device.last # None => device.last.req = Opening
        /\ device.held = None
    BY <2>1 DEF Greeting
  <2>3. QED
    BY <1>1, <1>2, <2>2
<1>5. Waiting' => Waiting /\ host'.req = host.req
  BY DEF Waiting
<1>6. QED
  BY <1>3, <1>4, <1>5 DEF Greeting

LEMMA TidyKept ==
    ASSUME TypeOK, Tidy, Keeps
    PROVE  Tidy'
<1>1. PICK d \in {0, 1} : \A i \in DOMAIN link'.requests :
          i \in Nat \ {0} /\ i + d \in DOMAIN link.requests
          /\ link'.requests[i] = link.requests[i + d]
  BY RequestsBehind DEF Keeps
<1>2. PICK c \in {0, 1} : \A i \in DOMAIN link'.answers :
          i \in Nat \ {0} /\ i + c \in DOMAIN link.answers
          /\ link'.answers[i] = link.answers[i + c]
  BY AnswersBehind DEF Keeps
<1>3. /\ Known' \subseteq Known /\ Waiting' = Waiting /\ host' = host
      /\ device'.last \in {device.last, None} /\ device'.held \in {device.held, None}
  BY <1>1 DEF Known, Waiting, Keeps
<1>4. Matched'
  BY <1>3 DEF Matched, Tidy
<1>5. CASE host.seq <= 2
  <2>1. Greeting'
    BY <1>3, <1>5, GreetingKept DEF Tidy, Keeps
  <2>2. QED
    BY <1>3, <1>4, <1>5, <2>1 DEF Tidy
<1>6. CASE ~(host.seq <= 2)
  <2>1. Numbered /\ Recent
    BY <1>6 DEF Tidy
  <2>2. Numbered'
    BY <1>3, <2>1, NumberedKept DEF Keeps
  <2>3. Recent'
    BY <1>1, <1>2, <1>3, <2>1 DEF Recent
  <2>4. QED
    BY <1>3, <1>4, <1>6, <2>2, <2>3 DEF Tidy
<1>7. QED
  BY <1>5, <1>6

LEMMA TidyServed ==
    ASSUME TypeOK, Tidy, NEW b, NEW e, Serves(b, e)
    PROVE  Tidy'
<1> DEFINE n == Len(link.answers)
<1>1. /\ link.requests # <<>> /\ link'.requests = Tail(link.requests)
      /\ b \in AnswerType /\ b.seq = Incoming.seq /\ link'.answers = Append(link.answers, b)
      /\ host' = host /\ e.req = Incoming /\ e.answer = b
      /\ device'.last \in {device.last, None, e} /\ device'.held \in {device.held, None, e}
  BY DEF Serves
<1>2. PICK d \in {0, 1} : \A i \in DOMAIN link'.requests :
          i \in Nat \ {0} /\ i + d \in DOMAIN link.requests
          /\ link'.requests[i] = link.requests[i + d]
  BY <1>1, RequestsBehind DEF Behind
<1>3. /\ n \in Nat /\ DOMAIN link.answers = 1 .. n
      /\ DOMAIN link'.answers = 1 .. n + 1
      /\ \A i \in 1 .. n : link'.answers[i] = link.answers[i]
      /\ link'.answers[n + 1] = b
  <2>1. link.answers \in Seq(AnswerType) /\ n \in Nat /\ DOMAIN link.answers = 1 .. n
    BY LinkParts DEF TypeOK
  <2>2. QED
    BY <1>1, <2>1, FrameIn
<1> HIDE DEF n
<1>4. Incoming = link.requests[1] /\ 1 \in DOMAIN link.requests /\ Incoming \in Known
  BY <1>1, ReceivedType, QueueLength, KnownParts DEF TypeOK
<1>5. Known' \subseteq Known /\ Waiting' = Waiting
  BY <1>1, <1>2, <1>4 DEF Known, Waiting
<1>6. Incoming.seq = 1 => Incoming = Opening /\ Incoming.cmd # "commit"
  BY <1>4 DEF Tidy, Matched, Opening, Request
<1>7. Matched'
  <2>1. device'.held # None => device'.held.req.seq # 1
    BY <1>1, <1>6 DEF Tidy, Matched, Serves
  <2>2. QED
    BY <1>1, <1>5, <2>1 DEF Tidy, Matched
<1>8. CASE host.seq <= 2
  <2>1. Greeting
    BY <1>8 DEF Tidy
  <2>2. ASSUME NEW i \in DOMAIN link'.requests, NEW j \in DOMAIN link'.requests, i <= j,
               link'.requests[i] = Opening
        PROVE  link'.requests[j] = Opening
    BY <1>2, <2>1, <2>2 DEF Greeting
  <2>3. ASSUME NEW i \in DOMAIN link'.answers, link'.answers[i].seq = 1
        PROVE  /\ \A j \in DOMAIN link'.answers : i <= j => link'.answers[j].seq = 1
               /\ \A j \in DOMAIN link'.requests : link'.requests[j] = Opening
               /\ device'.last # None => device'.last.req = Opening
               /\ device'.held = None
    <3>1. Incoming.seq = 1
      <4>1. CASE i = n + 1
        BY <1>1, <1>3, <2>3, <4>1
      <4>2. CASE i # n + 1
        <5>1. i \in DOMAIN link.answers /\ link.answers[i].seq = 1
          BY <1>3, <2>3, <4>2
        <5>2. Incoming = Opening
          BY <1>4, <2>1, <5>1 DEF Greeting
        <5>3. QED
          BY <5>2 DEF Opening, Request
      <4>3. QED
        BY <4>1, <4>2
    <3>2. Incoming = Opening /\ b.seq = 1
      BY <1>1, <1>6, <3>1
    <3>3. ASSUME NEW j \in DOMAIN link'.requests PROVE link'.requests[j] = Opening
      <4>1. j + d \in DOMAIN link.requests /\ 1 <= j + d
        BY <1>2
      <4>2. link.requests[j + d] = Opening
        BY <1>4, <2>1, <3>2, <4>1 DEF Greeting
      <4>3. QED
        BY <1>2, <4>2
    <3>4. ASSUME NEW j \in DOMAIN link'.answers, i <= j PROVE link'.answers[j].seq = 1
      <4>1. CASE j = n + 1
        BY <1>3, <3>2, <4>1
      <4>2. CASE j # n + 1
        <5>1. i \in 1 .. n /\ j \in 1 .. n
          BY <1>3, <3>4, <4>2
        <5>2. link.answers[i].seq = 1 /\ link'.answers[j] = link.answers[j]
          BY <1>3, <2>3, <5>1
        <5>3. QED
          BY <1>3, <2>1, <3>4, <5>1, <5>2 DEF Greeting
      <4>3. QED
        BY <4>1, <4>2
    <3>5. device'.held = None /\ device'.last # None /\ device'.last.req.seq = 1
      BY <1>6, <3>1 DEF Tidy, Matched, Serves
    <3>6. device'.last.req = Opening
      <4>1. device'.last.req \in Known'
        BY <3>5 DEF Known
      <4>2. QED
        BY <1>5, <3>5, <4>1 DEF Tidy, Matched
    <3>7. QED
      BY <3>3, <3>4, <3>5, <3>6
  <2>4. Greeting'
    BY <1>1, <1>5, <2>1, <2>2, <2>3 DEF Greeting
  <2>5. QED
    BY <1>1, <1>7, <1>8, <2>4 DEF Tidy
<1>9. CASE ~(host.seq <= 2)
  <2>1. Numbered /\ Recent
    BY <1>9 DEF Tidy
  <2>2. Numbered'
    BY <1>1, <2>1, NumberedServed
  <2>3. Recent'
    <3> DEFINE from == IF Waiting THEN host.seq - 2 ELSE host.seq - 1
    <3>1. from <= b.seq /\ \A i \in 1 .. n : from <= link.answers[i].seq
      BY <1>1, <1>3, <1>4, <2>1 DEF Recent
    <3>2. \A j \in DOMAIN link'.requests : from <= link'.requests[j].seq
      BY <1>2, <2>1 DEF Recent
    <3>3. from' = from
      BY <1>1, <1>5
    <3> HIDE DEF from
    <3>4. \A i \in DOMAIN link'.answers : from <= link'.answers[i].seq
      <4> SUFFICES ASSUME NEW i \in 1 .. n + 1 PROVE from <= link'.answers[i].seq
        BY <1>3
      <4>1. i \in 1 .. n \/ i = n + 1
        BY <1>3
      <4>2. QED
        BY <1>3, <3>1, <4>1
    <3>5. QED
      BY <3>2, <3>3, <3>4 DEF Recent, from
  <2>4. QED
    BY <1>1, <1>7, <1>9, <2>2, <2>3 DEF Tidy
<1>10. QED
  BY <1>8, <1>9

(* The opening frame joins frames that came before it.                     *)
LEMMA GreetingSent ==
    ASSUME TypeOK, NEW r \in RequestType, r = Opening,
           link'.requests = Append(link.requests, r), link'.answers \in {<<>>, link.answers},
           device' = device,
           ~host'.open, host'.tx = 0, host'.seq = 2, host'.req = r,
           \/ Greeting
           \/ /\ \A i \in DOMAIN link.requests : link.requests[i].seq # 1
              /\ \A i \in DOMAIN link.answers : link.answers[i].seq # 1
    PROVE  Greeting'
<1> DEFINE n == Len(link.requests)
<1>1. /\ n \in Nat /\ DOMAIN link.requests = 1 .. n
      /\ DOMAIN link'.requests = 1 .. n + 1
      /\ \A i \in 1 .. n : link'.requests[i] = link.requests[i]
      /\ link'.requests[n + 1] = r
  <2>1. link.requests \in Seq(RequestType) /\ n \in Nat /\ DOMAIN link.requests = 1 .. n
    BY QueueLength
  <2>2. QED
    BY <2>1, FrameIn
<1> HIDE DEF n
<1>2. Opening.seq = 1
  BY DEF Opening, Request
<1>3. /\ \A i, j \in DOMAIN link.requests :
             i <= j /\ link.requests[i] = Opening => link.requests[j] = Opening
      /\ \A i \in DOMAIN link.answers : link.answers[i].seq = 1 => Greeting
  BY <1>2 DEF Greeting
<1>4. ASSUME NEW i \in DOMAIN link'.requests, NEW j \in DOMAIN link'.requests, i <= j,
             link'.requests[i] = Opening
      PROVE  link'.requests[j] = Opening
  <2>1. CASE j = n + 1
    BY <1>1, <2>1
  <2>2. CASE j # n + 1
    <3>1. i \in 1 .. n /\ j \in 1 .. n
      BY <1>1, <1>4, <2>2
    <3>2. link.requests[i] = Opening /\ link'.requests[j] = link.requests[j]
      BY <1>1, <1>4, <3>1
    <3>3. QED
      BY <1>1, <1>3, <1>4, <3>1, <3>2
  <2>3. QED
    BY <2>1, <2>2
<1>5. ASSUME NEW i \in DOMAIN link'.answers, link'.answers[i].seq = 1
      PROVE  /\ \A j \in DOMAIN link'.answers : i <= j => link'.answers[j].seq = 1
             /\ \A j \in DOMAIN link'.requests : link'.requests[j] = Opening
             /\ device'.last # None => device'.last.req = Opening
             /\ device'.held = None
  <2>1. link'.answers = link.answers
    BY <1>5
  <2>2. Greeting
    BY <1>3, <1>5, <2>1
  <2>3. /\ \A j \in DOMAIN link.answers : i <= j => link.answers[j].seq = 1
        /\ \A j \in DOMAIN link.requests : link.requests[j] = Opening
        /\ device.last # None => device.last.req = Opening
        /\ device.held = None
    BY <1>5, <2>1, <2>2 DEF Greeting
  <2>4. \A j \in DOMAIN link'.requests : link'.requests[j] = Opening
    BY <2>3, RequestAppended
  <2>5. QED
    BY <2>1, <2>3, <2>4
<1>6. QED
  BY <1>4, <1>5 DEF Greeting

(* With the answer to it the frames of the session before are gone.        *)
LEMMA GreetingEnds ==
    ASSUME TypeOK, Matched, Greeting, Expected,
           NEW r \in RequestType, r # None, r.seq = 2,
           link'.requests = Append(link.requests, r),
           link'.answers = Tail(link.answers),
           device' = device, host'.seq = 3, host'.req = r
    PROVE  Numbered' /\ Recent'
<1>1. /\ link.answers \in Seq(AnswerType) /\ link.answers # <<>>
      /\ Head(link.answers) = link.answers[1] /\ 1 \in DOMAIN link.answers
      /\ Behind(link'.answers, link.answers)
  BY FrameOut, LinkParts DEF TypeOK, Expected, Behind
<1>2. Waiting /\ host.req = Opening /\ Opening.seq = 1
  BY DEF Greeting, Expected, Opening, Request
<1>3. link.answers[1].seq = 1
  BY <1>1, <1>2 DEF Expected
<1>4. PICK c \in {0, 1} : \A i \in DOMAIN link'.answers :
          i \in Nat \ {0} /\ i + c \in DOMAIN link.answers
          /\ link'.answers[i] = link.answers[i + c]
  BY <1>1, AnswersBehind
<1>5. /\ \A j \in DOMAIN link.answers : 1 <= j => link.answers[j].seq = 1
      /\ \A j \in DOMAIN link.requests : link.requests[j] = Opening
      /\ device.last # None => device.last.req = Opening
      /\ device.held = None
  BY <1>1, <1>3 DEF Greeting
<1>6. \A i \in DOMAIN link'.answers : link'.answers[i].seq = 1
  BY <1>4, <1>5
<1> DEFINE n == Len(link.requests)
<1>7. /\ n \in Nat /\ DOMAIN link.requests = 1 .. n
      /\ DOMAIN link'.requests = 1 .. n + 1
      /\ \A i \in 1 .. n : link'.requests[i] = Opening
      /\ link'.requests[n + 1] = r
  <2>1. link.requests \in Seq(RequestType) /\ n \in Nat /\ DOMAIN link.requests = 1 .. n
    BY QueueLength
  <2>2. QED
    BY <1>5, <2>1, FrameIn
<1> HIDE DEF n
<1>8. \A i \in 1 .. n + 1 : (i \in 1 .. n /\ link'.requests[i].seq = 1)
                            \/ (i = n + 1 /\ link'.requests[i].seq = 2)
  BY <1>2, <1>7
<1>9. Known' \subseteq {Opening, r} /\ Waiting'
  <2>1. \A i \in DOMAIN link'.requests : link'.requests[i] \in {Opening, r}
    BY <1>7
  <2>2. QED
    BY <1>5, <2>1 DEF Known, Waiting
<1>10. \A i, j \in DOMAIN link'.requests : i <= j => link'.requests[i].seq <= link'.requests[j].seq
  BY <1>7, <1>8
<1>11. \A j \in DOMAIN link'.requests : 1 <= link'.requests[j].seq
  BY <1>7, <1>8
<1>12. Numbered'
  <2>1. /\ \A q \in Known' : q.seq < host'.seq
        /\ \A q, t \in Known' : q.seq = t.seq => q = t
        /\ Waiting' => host'.req.seq = host'.seq - 1
    BY <1>2, <1>9
  <2>2. /\ device'.last # None => device'.last.answer.seq = device'.last.req.seq
        /\ device'.last # None => device'.last.req.seq = 1
        /\ device'.held = None
    BY <1>2, <1>5 DEF Matched
  <2>3. /\ \A i \in DOMAIN link'.answers : link'.answers[i].seq < host'.seq
        /\ \A i, j \in DOMAIN link'.answers : i <= j => link'.answers[i].seq <= link'.answers[j].seq
        /\ \A i \in DOMAIN link'.answers, j \in DOMAIN link'.requests :
               link'.answers[i].seq <= link'.requests[j].seq
    BY <1>6, <1>11
  <2>4. \A j \in DOMAIN link'.requests :
           /\ device'.last # None => device'.last.req.seq <= link'.requests[j].seq
           /\ device'.held # None => device'.held.req.seq <= link'.requests[j].seq
    BY <1>11, <2>2
  <2>5. QED
    BY <1>10, <2>1, <2>2, <2>3, <2>4 DEF Numbered
<1>13. Recent'
  BY <1>6, <1>9, <1>11 DEF Recent
<1>14. QED
  BY <1>12, <1>13

LEMMA TidyInit == Init => Tidy
<1> SUFFICES ASSUME Init PROVE Tidy
  OBVIOUS
<1>1. /\ host = [open |-> FALSE, seq |-> 1, tx |-> 0, req |-> None, at |-> Idle]
      /\ link = [requests |-> <<>>, answers |-> <<>>] /\ device = Loaded(slots)
  BY DEF Init
<1>2. slots \in [Slot -> [Block -> Content]]
  BY BaseInit DEF BaseInv, TypeOK, SlotTypeOK
<1>3. device.last = None /\ device.held = None
  BY <1>1, <1>2, LoadedDevice
<1>4. ~Waiting /\ ~host.open /\ host.tx = 0 /\ host.seq = 1
      /\ DOMAIN link.requests = {} /\ DOMAIN link.answers = {}
  BY <1>1 DEF Waiting
<1>5. Known = {}
  BY <1>3, <1>4 DEF Known
<1>6. Matched
  BY <1>3, <1>5 DEF Matched
<1>7. Greeting
  BY <1>4 DEF Greeting
<1>8. QED
  BY <1>4, <1>6, <1>7 DEF Tidy

LEMMA KnownSent ==
    ASSUME TypeOK, NEW r \in RequestType, link'.requests = Append(link.requests, r),
           host'.req = r, device' = device
    PROVE  Known' \subseteq Known \cup {r}
<1>1. \A i \in DOMAIN link'.requests : link'.requests[i] \in Known \cup {r}
  BY RequestAppended, KnownParts
<1>2. Waiting' => host'.req \in Known \cup {r}
  OBVIOUS
<1>3. QED
  BY <1>1, <1>2 DEF Known

(* What the answer to the host's request leaves behind it.                 *)
LEMMA AnswerClears ==
    ASSUME TypeOK, Numbered, Expected
    PROVE  /\ \A j \in DOMAIN link.requests : link.requests[j].seq = host.seq - 1
           /\ \A i \in DOMAIN link.answers : host.seq - 1 <= link.answers[i].seq
<1>1. Waiting /\ \A j \in DOMAIN link.requests : link.requests[j] = host.req
  BY AnswerSettles
<1>2. host.req.seq = host.seq - 1
  BY <1>1 DEF Numbered
<1>3. /\ link.answers \in Seq(AnswerType) /\ 1 \in DOMAIN link.answers
      /\ Head(link.answers) = link.answers[1]
      /\ \A i \in DOMAIN link.answers : 1 <= i
  BY FrameOut, LinkParts DEF TypeOK, Expected
<1>4. link.answers[1].seq = host.req.seq
  BY <1>3 DEF Expected
<1>5. \A i \in DOMAIN link.answers : link.answers[1].seq <= link.answers[i].seq
  BY <1>3 DEF Numbered
<1>6. QED
  BY <1>1, <1>2, <1>4, <1>5

LEMMA TidyResend ==
    ASSUME BaseInv, Tidy, Resend
    PROVE  Tidy'
<1>1. /\ TypeOK /\ Waiting /\ host.req \in RequestType /\ host.req # None /\ host' = host
      /\ link'.requests = Append(link.requests, host.req) /\ link'.answers = link.answers
      /\ device' = device /\ Waiting'
  BY ResendEffect DEF BaseInv, Waiting
<1>2. Known' \subseteq Known
  BY <1>1, KnownSent, KnownParts
<1>3. Matched'
  BY <1>1, <1>2 DEF Tidy, Matched
<1>4. CASE host.seq <= 2
  <2>1. Greeting /\ ~host.open /\ host.tx = 0 /\ host.req = Opening /\ host.seq = 2
    BY <1>1, <1>4 DEF Tidy, Greeting
  <2>2. Greeting'
    BY <1>1, <2>1, GreetingSent
  <2>3. QED
    BY <1>1, <1>3, <1>4, <2>2 DEF Tidy
<1>5. CASE ~(host.seq <= 2)
  <2>1. Numbered /\ Recent
    BY <1>5 DEF Tidy
  <2>2. Numbered'
    BY <1>1, <2>1, NumberedSent DEF Behind
  <2>3. host.req.seq = host.seq - 1 /\ host.seq \in Nat
    BY <1>1, <2>1, KnownType DEF Numbered
  <2>4. \A i \in DOMAIN link'.requests : host.seq - 2 <= link'.requests[i].seq
    <3>1. \A i \in DOMAIN link.requests : host.seq - 2 <= link.requests[i].seq
      BY <1>1, <2>1 DEF Recent
    <3>2. host.seq - 2 <= host.req.seq
      BY <2>3
    <3>3. QED
      BY <1>1, <3>1, <3>2, RequestAppended
  <2>5. Recent'
    BY <1>1, <2>1, <2>4 DEF Recent
  <2>6. QED
    BY <1>1, <1>3, <1>5, <2>2, <2>5 DEF Tidy
<1>6. QED
  BY <1>4, <1>5

LEMMA TidyConnect ==
    ASSUME BaseInv, Tidy, Connect, ~Waiting
    PROVE  Tidy'
<1>1. /\ TypeOK /\ ~host'.open /\ host'.tx = 0 /\ host'.seq = 2 /\ host'.req = Opening
      /\ Opening \in RequestType
      /\ link'.requests = Append(link.requests, Opening)
      /\ link'.answers \in {<<>>, link.answers} /\ device' = device
  BY ConnectEffect DEF BaseInv, Opening
<1>2. Known' \subseteq Known \cup {Opening}
  BY <1>1, KnownSent
<1>3. Opening.seq = 1
  BY DEF Opening, Request
<1>4. Matched'
  BY <1>1, <1>2 DEF Tidy, Matched
<1>5. CASE host.seq <= 2
  <2>1. Greeting
    BY <1>5 DEF Tidy
  <2>2. Greeting'
    BY <1>1, <2>1, GreetingSent
  <2>3. QED
    BY <1>1, <1>4, <2>2 DEF Tidy
<1>6. CASE ~(host.seq <= 2)
  <2>1. Recent /\ host.seq \in Nat
    BY <1>1, <1>6, KnownType DEF Tidy
  <2>2. /\ \A i \in DOMAIN link.requests : host.seq - 1 <= link.requests[i].seq
        /\ \A i \in DOMAIN link.answers : host.seq - 1 <= link.answers[i].seq
    BY <2>1 DEF Recent
  <2>3. /\ \A i \in DOMAIN link.requests : link.requests[i].seq # 1
        /\ \A i \in DOMAIN link.answers : link.answers[i].seq # 1
    BY <1>6, <2>1, <2>2
  <2>4. Greeting'
    BY <1>1, <2>3, GreetingSent
  <2>5. QED
    BY <1>1, <1>4, <2>4 DEF Tidy
<1>7. QED
  BY <1>5, <1>6

LEMMA TidyOperation ==
    ASSUME BaseInv, Tidy, WriteConfiguration \/ BackupConfiguration
    PROVE  Tidy'
<1>1. Operation
  BY DEF WriteConfiguration, BackupConfiguration
<1>2. TypeOK /\ host.open /\ ~Waiting /\ device' = device
  BY <1>1, OperationEffect DEF BaseInv
<1>3. /\ host'.req \in RequestType /\ host'.req # None /\ host'.req.seq = host.seq
      /\ host'.seq = host.seq + 1
      /\ link'.requests = Append(link.requests, host'.req) /\ link'.answers = link.answers
  BY WriteConfigurationEffect, BackupEffect DEF Request
<1>4. ~(host.seq <= 2) /\ Numbered /\ Recent /\ host.seq \in Nat
  BY <1>2, KnownType DEF Tidy, Greeting
<1>5. Known' \subseteq Known \cup {host'.req} /\ host'.req.seq # 1
  BY <1>2, <1>3, <1>4, KnownSent
<1>6. Matched'
  BY <1>2, <1>5 DEF Tidy, Matched
<1>7. Numbered'
  BY <1>2, <1>3, <1>4, NumberedSent DEF Behind
<1>8. Recent'
  <2>1. /\ \A i \in DOMAIN link.requests : host.seq - 1 <= link.requests[i].seq
        /\ \A i \in DOMAIN link.answers : host.seq - 1 <= link.answers[i].seq
    BY <1>2, <1>4 DEF Recent
  <2>2. \A i \in DOMAIN link'.requests : host.seq - 1 <= link'.requests[i].seq
    BY <1>2, <1>3, <1>4, <2>1, RequestAppended
  <2>3. Waiting' /\ host'.seq - 2 = host.seq - 1
    BY <1>3, <1>4 DEF Waiting
  <2>4. QED
    BY <1>3, <2>1, <2>2, <2>3 DEF Recent
<1>9. ~(host'.seq <= 2)
  BY <1>3, <1>4
<1>10. QED
  BY <1>6, <1>7, <1>8, <1>9 DEF Tidy

LEMMA TidyAsks ==
    ASSUME BaseInv, Tidy, ~history'.lost,
           NEW at, NEW cmd, NEW arg, NEW l, Asks(at, cmd, arg, l)
    PROVE  Tidy'
<1>1. /\ TypeOK /\ Expected /\ l = Taken /\ device' = device /\ Waiting
  BY DEF BaseInv, Asks, Afterwards, HostFrame, Expected
<1>2. l # link
  BY <1>1, TakenDiffers
<1>3. /\ host'.req \in RequestType /\ host'.req # None /\ host'.req.seq = host.seq
      /\ host'.seq = host.seq + 1
      /\ link'.requests = Append(link.requests, host'.req)
      /\ link'.answers = Tail(link.answers) /\ Behind(link'.answers, link.answers)
      /\ Waiting'
  BY <1>1, <1>2, AsksRequests DEF Behind, Expected, Waiting
<1>4. host.seq \in Nat /\ (host.seq <= 2 => host.seq = 2 /\ Greeting)
  BY <1>1, KnownType DEF Tidy, Greeting
<1>5. Known' \subseteq Known \cup {host'.req} /\ host'.req.seq # 1
  BY <1>1, <1>3, <1>4, KnownSent
<1>6. Matched'
  BY <1>1, <1>5 DEF Tidy, Matched
<1>7. CASE host.seq <= 2
  <2>1. Numbered' /\ Recent'
    BY <1>1, <1>3, <1>4, <1>7, GreetingEnds DEF Tidy
  <2>2. QED
    BY <1>3, <1>4, <1>6, <1>7, <2>1 DEF Tidy
<1>8. CASE ~(host.seq <= 2)
  <2>1. Numbered
    BY <1>8 DEF Tidy
  <2>2. Numbered'
    BY <1>1, <1>3, <2>1, NumberedSent
  <2>3. /\ \A j \in DOMAIN link.requests : host.seq - 1 <= link.requests[j].seq
        /\ \A i \in DOMAIN link.answers : host.seq - 1 <= link.answers[i].seq
    BY <1>1, <1>4, <2>1, AnswerClears
  <2>4. PICK c \in {0, 1} : \A i \in DOMAIN link'.answers :
            i \in Nat \ {0} /\ i + c \in DOMAIN link.answers
            /\ link'.answers[i] = link.answers[i + c]
    BY <1>1, <1>3, AnswersBehind
  <2>5. /\ \A j \in DOMAIN link'.requests : host.seq - 1 <= link'.requests[j].seq
        /\ \A i \in DOMAIN link'.answers : host.seq - 1 <= link'.answers[i].seq
    BY <1>1, <1>3, <1>4, <2>3, <2>4, RequestAppended
  <2>6. host'.seq - 2 = host.seq - 1 /\ ~(host'.seq <= 2)
    BY <1>3, <1>4, <1>8
  <2>7. Recent'
    BY <1>3, <2>5, <2>6 DEF Recent
  <2>8. QED
    BY <1>6, <2>2, <2>6, <2>7 DEF Tidy
<1>9. QED
  BY <1>7, <1>8

LEMMA TidyRests ==
    ASSUME BaseInv, Tidy, ~history'.lost, NEW l, Rests(l)
    PROVE  Tidy'
<1>1. /\ TypeOK /\ Expected /\ l = Taken /\ device' = device /\ Waiting
      /\ host'.seq = host.seq /\ host'.tx = host.tx /\ host'.req = None
      /\ host'.open # host.open => host.req.cmd = "capabilities"
  BY DEF BaseInv, Rests, Afterwards, HostFrame, Expected
<1>2. l # link
  BY <1>1, TakenDiffers
<1>3. /\ link'.requests = link.requests
      /\ link'.answers = Tail(link.answers)
      /\ Behind(link'.answers, link.answers) /\ Behind(link'.requests, link.requests)
      /\ ~Waiting'
  BY <1>1, <1>2, RestsRequests DEF Behind, Expected
<1>4. Known' \subseteq Known
  BY <1>1, <1>3 DEF Known
<1>5. Matched'
  BY <1>1, <1>4 DEF Tidy, Matched
<1>6. CASE host.seq <= 2
  <2>1. Greeting /\ host.req = Opening
    BY <1>1, <1>6 DEF Tidy, Greeting
  <2>2. host'.open = host.open
    BY <1>1, <2>1 DEF Opening, Request
  <2>3. Greeting'
    BY <1>1, <1>3, <2>1, <2>2, GreetingKept
  <2>4. QED
    BY <1>1, <1>5, <1>6, <2>3 DEF Tidy
<1>7. CASE ~(host.seq <= 2)
  <2>1. Numbered /\ host.seq \in Nat
    BY <1>1, <1>7, KnownType DEF Tidy
  <2>2. Numbered'
    BY <1>1, <1>3, <2>1, NumberedKept
  <2>3. /\ \A j \in DOMAIN link.requests : host.seq - 1 <= link.requests[j].seq
        /\ \A i \in DOMAIN link.answers : host.seq - 1 <= link.answers[i].seq
    BY <1>1, <2>1, AnswerClears
  <2>4. PICK c \in {0, 1} : \A i \in DOMAIN link'.answers :
            i \in Nat \ {0} /\ i + c \in DOMAIN link.answers
            /\ link'.answers[i] = link.answers[i + c]
    BY <1>1, <1>3, AnswersBehind
  <2>5. Recent'
    BY <1>1, <1>3, <2>3, <2>4 DEF Recent
  <2>6. QED
    BY <1>1, <1>5, <1>7, <2>2, <2>5 DEF Tidy
<1>8. QED
  BY <1>6, <1>7

LEMMA TidyNext ==
    ASSUME BaseInv, Tidy, [Next]_vars, ~history.lost, ~history'.lost
    PROVE  Tidy'
<1>1. TypeOK
  BY DEF BaseInv
<1>2. CASE Connect
  BY <1>2, ConnectEffect, TidyConnect
<1>3. QED
  BY <1>1, <1>2, StepKinds, TidyKept, TidyServed, TidyResend, TidyOperation, TidyAsks,
     TidyRests DEF Tidy

-----------------------------------------------------------------------------

(* What was lost stays lost, and only a second listing keeps a snapshot.   *)
LEMMA HistorySteps ==
    ASSUME BaseInv, [Next]_vars
    PROVE  /\ ~history'.lost => ~history.lost
           /\ SecondListing \/ history'.kept = history.kept
<1>1. TypeOK /\ history \in HistoryType
  BY DEF BaseInv, TypeOK
<1>2. CASE Performing
  <2>1. PICK after, a : Handling(after, a)
    BY <1>2, Handled
  <2>2. history' = [history EXCEPT !.asked = [req |-> Incoming, answer |-> a]]
    BY <1>1, <2>1, AnswerEffect DEF Handling, Answering
  <2>3. QED
    BY <1>1, <2>2 DEF HistoryType
<1>3. CASE Replay
  BY <1>1, <1>3 DEF Replay, HistoryType
<1>4. CASE CommitTransaction \/ StoreBlock \/ UNCHANGED vars
  BY <1>4 DEF CommitTransaction, StoreBlock, vars
<1>5. CASE Undone
  BY <1>1, <1>5 DEF Undone, HistoryType
<1>6. CASE StoreMarker
  BY <1>5, <1>6, StoreMarkerEffect
<1>7. CASE StoreFailed
  BY <1>5, <1>7 DEF StoreFailed
<1>8. CASE Reboot
  BY <1>1, <1>8, BaseNext, RebootEffect DEF BaseInv
<1>9. CASE Lose \/ Resend \/ Connect
  BY <1>9, LoseEffect, ResendEffect, ConnectEffect
<1>10. CASE WriteConfiguration \/ BackupConfiguration
  BY <1>10 DEF WriteConfiguration, BackupConfiguration, Operation
<1>11. CASE HostStep
  <2>1. \/ Ignore
        \/ \E at, cmd, arg, l : Asks(at, cmd, arg, l)
        \/ \E l : Rests(l) /\ (SecondListing \/ history'.kept = history.kept)
    BY <1>11, HostSteps
  <2>2. CASE Ignore
    BY <2>2, IgnoreEffect
  <2>3. CASE \E at, cmd, arg, l : Asks(at, cmd, arg, l)
    BY <2>3 DEF Asks, HostFrame
  <2>4. CASE \E l : Rests(l) /\ (SecondListing \/ history'.kept = history.kept)
    BY <2>4 DEF Rests, HostFrame
  <2>5. QED
    BY <2>1, <2>2, <2>3, <2>4
<1>12. QED
  BY <1>2, <1>3, <1>4, <1>6, <1>7, <1>8, <1>9, <1>10, <1>11 DEF Next, DeviceStep, Performing

(* Only a begin opens a transaction.                                       *)
LEMMA ClosedStays ==
    ASSUME BaseInv, [Next]_vars, device.tx = 0,
           link.requests # <<>> => Incoming.cmd # "begin"
    PROVE  device'.tx = 0
<1>1. TypeOK /\ device \in DeviceType
  BY DEF BaseInv, TypeOK
<1>2. CASE Performing
  <2>1. PICK after, a : Handling(after, a)
    BY <1>2, Handled
  <2>2. device'.tx = after.tx /\ link.requests # <<>>
    BY <1>1, <2>1, AnswerEffect DEF Handling, Answering
  <2>3. QED
    BY <2>1, <2>2 DEF Handling
<1>3. CASE Replay
  BY <1>3, ReplayEffect
<1>4. CASE CommitTransaction
  BY <1>1, <1>4 DEF CommitTransaction, DeviceType
<1>5. CASE Undone
  BY <1>1, <1>5 DEF Undone, DeviceType
<1>6. CASE StoreMarker
  BY <1>5, <1>6, StoreMarkerEffect
<1>7. CASE StoreFailed
  BY <1>5, <1>7 DEF StoreFailed
<1>8. CASE Reboot
  <2>1. device' = Loaded(slots')
    BY <1>1, <1>8, BaseNext, RebootEffect DEF BaseInv
  <2>2. slots' \in [Slot -> [Block -> Content]]
    BY BaseNext DEF BaseInv, TypeOK, SlotTypeOK
  <2>3. QED
    BY <2>1, <2>2, LoadedDevice
<1>9. CASE StoreBlock \/ Lose \/ Resend \/ Connect \/ UNCHANGED vars
  BY <1>9, LoseEffect, ResendEffect, ConnectEffect DEF StoreBlock, vars
<1>10. CASE WriteConfiguration \/ BackupConfiguration
  BY <1>10 DEF WriteConfiguration, BackupConfiguration, Operation
<1>11. CASE HostStep
  <2>1. Ignore \/ (\E at, cmd, arg, l : Asks(at, cmd, arg, l)) \/ (\E l : Rests(l))
    BY <1>11, HostSteps
  <2>2. (\E at, cmd, arg, l : Asks(at, cmd, arg, l)) \/ (\E l : Rests(l)) => HostFrame
    BY DEF Asks, Rests
  <2>3. QED
    BY <2>1, <2>2, IgnoreEffect DEF HostFrame
<1>12. QED
  BY <1>2, <1>3, <1>4, <1>6, <1>7, <1>8, <1>9, <1>10, <1>11 DEF Next, DeviceStep, Performing

(* Until its capabilities are asked for there is no transaction.           *)
LEMMA UndoubtedGreets ==
    ASSUME BaseInv, Tidy, host.seq <= 2, Undoubted, [Next]_vars, ~history'.lost
    PROVE  Undoubted'
<1>1. TypeOK /\ Greeting /\ Tidy'
  BY HistorySteps, TidyNext DEF BaseInv, Tidy
<1>2. Waiting => host.req.cmd = "hello" /\ host.req = Opening
  BY <1>1 DEF Greeting, Opening, Request
<1>3. device.tx = 0 /\ \A i \in DOMAIN link.requests : link.requests[i].cmd # "begin"
  BY <1>2 DEF Undoubted, Parties
<1>4. device'.tx = 0
  <2>1. link.requests # <<>> => Incoming.cmd # "begin"
    BY <1>1, <1>3, ReceivedType, QueueLength DEF TypeOK
  <2>2. QED
    BY <1>3, <2>1, ClosedStays
<1>5. ASSUME \A i \in DOMAIN link'.requests : link'.requests[i].cmd # "begin", host'.seq <= 2
      PROVE  Undoubted'
  <2>1. Waiting' => host'.req = Opening /\ host'.tx = 0
    BY <1>1, <1>5 DEF Tidy, Greeting
  <2>2. Waiting' => host'.req.tx = host'.tx /\ host'.req.cmd = "hello"
    BY <2>1 DEF Opening, Request
  <2>3. QED
    BY <1>4, <1>5, <2>2 DEF Undoubted
<1>6. ASSUME Behind(link'.requests, link.requests), host'.seq = host.seq
      PROVE  Undoubted'
  BY <1>1, <1>3, <1>5, <1>6, RequestsBehind
<1>7. CASE Keeps \/ (\E b, e : Serves(b, e))
  BY <1>6, <1>7 DEF Keeps, Serves, Behind
<1>8. CASE Resend \/ Connect
  <2>1. /\ Opening \in RequestType /\ Opening.cmd = "hello" /\ host'.seq <= 2
        /\ link'.requests = Append(link.requests, Opening)
    BY <1>2, <1>8, ResendEffect, ConnectEffect DEF Opening, Request
  <2>2. QED
    BY <1>1, <1>3, <1>5, <2>1, RequestAppended
<1>9. CASE WriteConfiguration \/ BackupConfiguration
  BY <1>1, <1>9 DEF WriteConfiguration, BackupConfiguration, Operation, Greeting
<1>10. CASE \E at, cmd, arg, l : Asks(at, cmd, arg, l)
  <2>1. PICK at, cmd, arg, l : Asks(at, cmd, arg, l)
    BY <1>10
  <2>2. /\ Waiting /\ host'.req \in RequestType /\ host'.req.cmd = cmd
        /\ host'.req.tx = host.tx /\ host'.tx = host.tx
        /\ link'.requests = Append(link.requests, host'.req)
    BY <2>1, AsksRequests
  <2>3. cmd = "capabilities"
    BY <1>2, <2>1, <2>2 DEF Asks
  <2>4. \A i \in DOMAIN link'.requests : link'.requests[i].cmd # "begin"
    BY <1>1, <1>3, <2>2, <2>3, RequestAppended
  <2>5. QED
    BY <1>4, <2>2, <2>3, <2>4 DEF Undoubted
<1>11. CASE \E l : Rests(l)
  BY <1>6, <1>11, RestsRequests DEF Rests, Behind
<1>12. QED
  BY <1>1, <1>7, <1>8, <1>9, <1>10, <1>11, StepKinds DEF Tidy

LEMMA OpenNext ==
    ASSUME BaseInv, Numbered, OpenOK, [Next]_vars
    PROVE  OpenOK'
<1> SUFFICES ASSUME ~history'.lost PROVE Undoubted'
  BY DEF OpenOK
<1>1. BaseInv' /\ TypeOK
  BY BaseNext DEF BaseInv
<1>2. \A s : Behind(s, s) /\ (s # <<>> => Behind(Tail(s), s))
  BY DEF Behind
<1>3. CASE Performing
  <2>1. PICK after, a : Handling(after, a)
    BY <1>3, Handled
  <2>2. ~history.lost
    <3>1. history' = [history EXCEPT !.asked = [req |-> Incoming, answer |-> a]]
      BY <1>1, <2>1, AnswerEffect DEF Handling, Answering
    <3>2. QED
      BY <1>1, <3>1 DEF TypeOK, HistoryType
  <2>3. QED
    BY <2>1, <2>2, OpenPerforming DEF OpenOK
<1>4. CASE Replay
  <2> DEFINE a == IF Settled.req = Incoming THEN Settled.answer ELSE Refuse(Incoming)
             e == [req |-> Incoming, answer |-> a]
  <2>1. /\ link.requests # <<>> /\ a \in AnswerType
        /\ link'.requests = Tail(link.requests) /\ link'.answers = Append(link.answers, a)
        /\ host' = host /\ device'.tx = device.tx
        /\ device'.held \in {device.held, None} /\ device'.last = device.last
        /\ Settled \in {device.last, device.held} /\ Settled # None
        /\ Settled.req.seq = Incoming.seq
    BY <1>4, ReplayEffect
  <2>2. Undoubted
    BY <1>1, <1>4 DEF Replay, OpenOK, TypeOK, HistoryType
  <2>3. Settled.req = Incoming /\ a = Settled.answer /\ a.seq = Incoming.seq
    <3>1. Incoming \in Known /\ Settled.req \in Known
      BY <1>1, <2>1, ReceivedType, QueueLength, KnownParts DEF TypeOK
    <3>2. QED
      BY <2>1, <3>1 DEF Numbered
  <2>4. Waiting /\ Incoming = host.req => a \in Replies
    BY <2>1, <2>3, RepliesHave
  <2>5. e.req = Incoming /\ e.answer = a
    OBVIOUS
  <2> HIDE DEF a, e
  <2>6. Waiting => \A s \in Replies' : s \in Replies \/ (s = a /\ Incoming = host.req)
    BY <1>1, <2>1, <2>3, <2>5, RepliesServed
  <2>7. QED
    BY <1>1, <1>2, <2>1, <2>2, <2>4, <2>6, UndoubtedKept
<1>5. CASE CommitTransaction
  <2>1. /\ link' = link /\ host' = host /\ history' = history
        /\ device' = [device EXCEPT !.held = None]
    BY <1>5 DEF CommitTransaction
  <2>2. device'.last = device.last /\ device'.held = None /\ device'.tx = device.tx
    BY <1>1, <2>1 DEF TypeOK, DeviceType
  <2>3. Replies' \subseteq Replies
    BY <1>1, <1>2, <2>1, <2>2, RepliesKept
  <2>4. QED
    BY <1>1, <1>2, <2>1, <2>2, <2>3, UndoubtedKept DEF OpenOK
<1>6. CASE StoreBlock \/ Ignore \/ UNCHANGED vars
  <2>1. /\ link'.requests = link.requests /\ Behind(link'.answers, link.answers)
        /\ host' = host /\ history' = history /\ device' = device
    BY <1>2, <1>6, IgnoreEffect DEF StoreBlock, vars
  <2>2. Replies' \subseteq Replies
    BY <1>1, <2>1, RepliesKept
  <2>3. QED
    BY <1>1, <1>2, <2>1, <2>2, UndoubtedKept DEF OpenOK
<1>7. ASSUME Undone, update # None, host' = host
      PROVE  Undoubted'
  <2> DEFINE a == Refuse(Incoming)
             e == [req |-> Incoming, answer |-> a]
  <2>1. link.requests # <<>> /\ Incoming.cmd = "commit"
    BY <1>7 DEF BaseInv, CommitOK
  <2>2. /\ a \in AnswerType
        /\ link'.requests = Tail(link.requests) /\ link'.answers = Append(link.answers, a)
        /\ device'.held = e /\ device'.last = device.last /\ device'.tx = device.tx
        /\ history' = [history EXCEPT !.asked = [req |-> Incoming, answer |-> Refuse(Incoming)]]
    BY <1>7, <2>1, UndoneEffect
  <2>3. Undoubted
    BY <1>1, <2>2 DEF OpenOK, TypeOK, HistoryType
  <2>4. e.req = Incoming /\ e.answer = a /\ a.seq = Incoming.seq /\ a.cmd = "error"
    BY DEF Refuse
  <2> HIDE DEF a, e
  <2>5. Waiting => \A s \in Replies' : s \in Replies \/ (s = a /\ Incoming = host.req)
    BY <1>1, <1>7, <2>1, <2>2, <2>4, RepliesServed
  <2>6. QED
    BY <1>1, <1>2, <1>7, <2>1, <2>2, <2>3, <2>4, <2>5, UndoubtedKept
<1>8. CASE StoreMarker
  <2>1. CASE Undone
    BY <1>7, <1>8, <2>1 DEF StoreMarker, WriteMarker
  <2>2. CASE ~Undone
    <3> DEFINE a == Accept(Incoming, device.gen + 1)
               e == [req |-> Incoming, answer |-> a]
    <3>1. /\ link.requests # <<>> /\ a \in AnswerType /\ Incoming.cmd = "commit"
          /\ link'.requests = Tail(link.requests) /\ link'.answers = Append(link.answers, a)
          /\ device'.last = e /\ device'.held = device.held /\ host' = host /\ device'.tx = 0
          /\ history'.lost = history.lost
      BY <1>8, <2>2, StoreMarkerEffect
    <3>2. e.req = Incoming /\ e.answer = a /\ a.seq = Incoming.seq
      BY DEF Accept
    <3> HIDE DEF a, e
    <3>3. Waiting => \A s \in Replies' : s \in Replies \/ (s = a /\ Incoming = host.req)
      BY <1>1, <3>1, <3>2, RepliesServed
    <3>4. QED
      BY <1>1, <1>2, <3>1, <3>3, UndoubtedClosed DEF OpenOK
  <2>3. QED
    BY <2>1, <2>2
<1>9. CASE StoreFailed
  BY <1>7, <1>9 DEF StoreFailed, Interrupted
<1>10. CASE Reboot
  <2>1. /\ device' = Loaded(slots') /\ host' = host /\ link'.answers = link.answers
        /\ history'.lost = (history.lost \/ update # None)
        /\ Behind(link'.requests, link.requests)
    BY <1>1, <1>2, <1>10, RebootEffect DEF BaseInv
  <2>2. slots' \in [Slot -> [Block -> Content]]
    BY <1>1 DEF BaseInv, TypeOK, SlotTypeOK
  <2>3. device'.last = None /\ device'.held = None /\ device'.tx = 0
    BY <2>1, <2>2, LoadedDevice
  <2>4. Replies' \subseteq Replies
    BY <1>1, <1>2, <2>1, <2>3, RepliesKept
  <2>5. QED
    BY <1>1, <2>1, <2>3, <2>4, UndoubtedClosed DEF OpenOK
<1>11. CASE Lose
  BY <1>11, LoseEffect
<1>12. CASE Resend
  <2>1. /\ Waiting /\ host.req \in RequestType /\ host' = host
        /\ link'.requests = Append(link.requests, host.req) /\ link'.answers = link.answers
        /\ device' = device /\ history' = history
    BY <1>12, ResendEffect
  <2>2. Replies' = Replies
    BY <2>1 DEF Replies
  <2>3. \A i \in DOMAIN link'.requests :
            \/ link'.requests[i] = host.req
            \/ i \in DOMAIN link.requests /\ link'.requests[i] = link.requests[i]
    BY <1>1, <2>1, RequestAppended
  <2>4. Undoubted /\ Waiting'
    BY <2>1 DEF OpenOK, Waiting
  <2>5. \A i \in DOMAIN link'.requests :
        link'.requests[i].cmd = "begin" =>
           /\ host.req.cmd \in {"begin", "write", "validate"}
           /\ link'.requests[i].tx = host.req.tx
           /\ host.req.cmd = "begin" => link'.requests[i] = host.req
           /\ device.tx # 0 => device.last # None /\ device.last.req = link'.requests[i]
    BY <2>3, <2>4 DEF Undoubted
  <2>6. QED
    BY <2>1, <2>2, <2>4, <2>5 DEF Undoubted
<1>13. CASE Connect
  <2> DEFINE r == Request(1, "hello", 0, None)
  <2>1. /\ host'.tx = 0 /\ host'.req = r /\ r \in RequestType
        /\ link'.requests = Append(link.requests, r)
        /\ device' = device /\ history'.lost = (history.lost \/ Waiting)
    BY <1>13, ConnectEffect
  <2>2. r.tx = 0 /\ r.cmd = "hello"
    BY DEF Request
  <2> HIDE DEF r
  <2>3. QED
    BY <1>1, <2>1, <2>2, UndoubtedStarts DEF OpenOK, Waiting
<1>14. CASE WriteConfiguration \/ BackupConfiguration
  <2>1. Operation
    BY <1>14 DEF WriteConfiguration, BackupConfiguration
  <2>2. ~Waiting /\ device' = device /\ history' = history
    BY <2>1, OperationEffect
  <2>3. /\ host'.req \in RequestType /\ host'.req.seq = host.seq /\ host'.req.tx = host'.tx
        /\ link'.requests = Append(link.requests, host'.req) /\ link'.answers = link.answers
    BY <1>14, WriteConfigurationEffect, BackupEffect DEF Request
  <2>4. QED
    BY <1>1, <1>2, <2>2, <2>3, UndoubtedStarts DEF OpenOK
<1>15. CASE HostStep
  <2>1. Ignore \/ (\E at, cmd, arg, l : Asks(at, cmd, arg, l)) \/ (\E l : Rests(l))
    BY <1>15, HostSteps
  <2>2. (\E at, cmd, arg, l : Asks(at, cmd, arg, l)) \/ (\E l : Rests(l)) => HostFrame
    BY DEF Asks, Rests
  <2>3. HostFrame => Undoubted
    BY DEF HostFrame, OpenOK
  <2>4. QED
    BY <1>6, <2>1, <2>2, <2>3, UndoubtedAsks, UndoubtedRests
<1>16. QED
  BY <1>3, <1>4, <1>5, <1>6, <1>8, <1>9, <1>10, <1>11, <1>12, <1>13, <1>14, <1>15
     DEF Next, DeviceStep, Performing

(* As long as nothing was lost, a host between two operations has left no  *)
(* transaction open, for every number of objects, operations and sessions  *)
(* and with any number of failures, repetitions and restarts.              *)
THEOREM TransactionsEnd == Spec => []NoTransactionLeftBehind
<1> DEFINE Inv == BaseInv /\ (~history.lost => Tidy /\ Undoubted)
<1>1. Init => Inv
  BY BaseInit, TidyInit, OpenInit DEF OpenOK
<1>2. Inv /\ [Next]_vars => Inv'
  <2> SUFFICES ASSUME Inv, [Next]_vars, ~history'.lost
               PROVE  Tidy' /\ Undoubted'
    BY BaseNext
  <2>1. BaseInv /\ Tidy /\ Undoubted /\ OpenOK /\ Tidy'
    BY HistorySteps, TidyNext DEF OpenOK
  <2>2. CASE host.seq <= 2
    BY <2>1, <2>2, UndoubtedGreets
  <2>3. CASE ~(host.seq <= 2)
    BY <2>1, <2>3, OpenNext DEF Tidy, OpenOK
  <2>4. QED
    BY <2>1, <2>2, <2>3
<1>3. Inv => NoTransactionLeftBehind
  BY DEF Undoubted, NoTransactionLeftBehind
<1> HIDE DEF Inv
<1>4. QED
  BY <1>1, <1>2, <1>3, PTL DEF Spec

-----------------------------------------------------------------------------
(***************************************************************************)
(* Part 8.  Backups: what was read belongs to one configuration.           *)
(***************************************************************************)

(* A name once given stays.                                                *)
Grows(n, m) == \A h \in Generation : n[h] # None => m[h] = n[h]

LEMMA ListingsGrow ==
    ASSUME NEW n, NEW m, Grows(n, m)
    PROVE  /\ \A d, o : d.gen \in Generation /\ Truthful(n, d, o) => Truthful(m, d, o)
           /\ \A l : l.gen \in Generation /\ InOrder(n, l) => InOrder(m, l)
           /\ \A l, c, s : l.gen \in Generation /\ n[l.gen] # None /\ Copied(n, l, c, s)
                           => Copied(m, l, c, s)
<1>1. ASSUME NEW d, NEW o, d.gen \in Generation, Truthful(n, d, o) PROVE Truthful(m, d, o)
  <2>1. m[d.gen] = n[d.gen]
    BY <1>1 DEF Grows, Truthful
  <2>2. QED
    BY <1>1, <2>1 DEF Truthful
<1>2. ASSUME NEW l, l.gen \in Generation, InOrder(n, l) PROVE InOrder(m, l)
  <2>1. m[l.gen] = n[l.gen]
    BY <1>2 DEF Grows, InOrder
  <2>2. QED
    BY <1>2, <2>1 DEF InOrder
<1>3. ASSUME NEW l, NEW c, NEW s, l.gen \in Generation, n[l.gen] # None, Copied(n, l, c, s)
      PROVE  Copied(m, l, c, s)
  <2>1. m[l.gen] = n[l.gen]
    BY <1>3 DEF Grows
  <2>2. QED
    BY <1>3, <2>1 DEF Copied
<1>4. QED
  BY <1>1, <1>2, <1>3

(* A page that repeats the generation and the total of those before it.    *)
LEMMA PageFollows ==
    ASSUME NEW n, NEW p \in Listed, NEW d, d.gen = p.gen, d.total = p.total,
           d.page \in Seq(Key), InOrder(n, p), Truthful(n, d, Len(p.keys)),
           NEW q \in Listed, q.gen = p.gen, q.total = p.total, q.keys = p.keys \o d.page
    PROVE  InOrder(n, q)
<1> DEFINE c == n[p.gen]
           S == Objects(c)
           e == Len(p.keys)
           f == Len(d.page)
<1>1. /\ c # None /\ p.total = Cardinality(S) /\ e <= p.total
      /\ \A i \in 1 .. e : p.keys[i] \in S /\ Rank(c, p.keys[i]) = i
      /\ d.page = Page(c, e)
  BY DEF InOrder, Truthful
<1>2. p.keys \in Seq(Key) /\ e \in Nat /\ f \in Nat
  BY DEF Listed
<1>3. S \in SUBSET Key /\ Cardinality(S) \in Nat
  BY KeySets DEF Objects
<1> HIDE DEF c
<1>4. /\ f = IF Cardinality(S) - e > PageSize THEN PageSize ELSE Cardinality(S) - e
      /\ \A i \in 1 .. f : d.page[i] \in S /\ Rank(c, d.page[i]) = e + i
  BY <1>1, <1>2, PageIs
<1>5. e + f <= Cardinality(S)
  BY <1>1, <1>2, <1>3, <1>4, DeviceAssumption
<1>6. /\ Len(q.keys) = e + f
      /\ \A i \in 1 .. e : q.keys[i] = p.keys[i]
      /\ \A i \in 1 .. f : q.keys[e + i] = d.page[i]
  <2>1. \A i \in 1 .. e + f : (p.keys \o d.page)[i] = IF i <= e THEN p.keys[i] ELSE d.page[i - e]
    BY <1>2
  <2>2. Len(p.keys \o d.page) = e + f
    BY <1>2
  <2> HIDE DEF e, f
  <2>3. \A i \in 1 .. e : q.keys[i] = p.keys[i]
    <3>1. \A i \in 1 .. e : i \in 1 .. e + f /\ i <= e
      BY <1>2
    <3>2. QED
      BY <2>1, <3>1
  <2>4. \A i \in 1 .. f : q.keys[e + i] = d.page[i]
    <3>1. SUFFICES ASSUME NEW i \in 1 .. f PROVE q.keys[e + i] = d.page[i]
      OBVIOUS
    <3> DEFINE j == e + i
    <3>2. j \in 1 .. e + f /\ ~(j <= e) /\ j - e = i
      BY <1>2
    <3> HIDE DEF j
    <3>3. q.keys[j] = d.page[i]
      BY <2>1, <3>2
    <3>4. QED
      BY <3>3 DEF j
  <2>5. QED
    BY <2>2, <2>3, <2>4
<1> HIDE DEF e, f, S
<1>7. ASSUME NEW i \in 1 .. e + f
      PROVE  q.keys[i] \in S /\ Rank(c, q.keys[i]) = i
  <2>1. CASE i <= e
    <3>1. i \in 1 .. e
      BY <1>2, <2>1
    <3>2. QED
      BY <1>1, <1>6, <3>1
  <2>2. CASE ~(i <= e)
    <3>1. i - e \in 1 .. f /\ e + (i - e) = i
      BY <1>2, <2>2
    <3>2. q.keys[e + (i - e)] = d.page[i - e] /\ d.page[i - e] \in S
          /\ Rank(c, d.page[i - e]) = e + (i - e)
      BY <1>4, <1>6, <3>1
    <3>3. QED
      BY <3>1, <3>2, Zenon
  <2>3. QED
    BY <2>1, <2>2
<1>8. QED
  BY <1>1, <1>5, <1>6, <1>7 DEF InOrder, c, S

(* Read to the end, a listing gives exactly its configuration.             *)
LEMMA WholeCopied ==
    ASSUME NEW n \in Names, NEW l \in Listed, InOrder(n, l), Len(l.keys) = l.total,
           NEW snap \in Configuration, Copied(n, l, Len(l.keys), snap)
    PROVE  snap = n[l.gen]
<1> DEFINE c == n[l.gen]
           S == Objects(c)
           e == Len(l.keys)
<1>1. /\ c # None /\ e = Cardinality(S)
      /\ \A i \in 1 .. e : l.keys[i] \in S /\ Rank(c, l.keys[i]) = i
  BY DEF InOrder
<1>2. c \in Configuration
  BY <1>1 DEF Names, Listed
<1>3. \A k \in Key : snap[k] = IF k \in {l.keys[i] : i \in 1 .. e} THEN c[k] ELSE None
  BY DEF Copied
<1>4. S \in SUBSET Key /\ \A k \in Key : k \notin S => c[k] = None
  BY DEF Objects
<1>5. \A k : Rank(c, k) = Cardinality(UpTo(S, k))
  BY DEF Rank, UpTo
<1> HIDE DEF c, S, e
<1>6. ASSUME NEW k \in S PROVE k \in {l.keys[i] : i \in 1 .. e}
  <2> DEFINE r == Rank(c, k)
  <2>1. r \in 1 .. e
    BY <1>1, <1>4, <1>5, RankGrows
  <2>2. l.keys[r] \in S /\ Rank(c, l.keys[r]) = r
    BY <1>1, <2>1
  <2> HIDE DEF r
  <2>3. l.keys[r] = k
    BY <1>4, <1>5, <2>2, RanksDiffer DEF r
  <2>4. QED
    BY <2>1, <2>3
<1>7. \A k \in Key : snap[k] = c[k]
  <2> SUFFICES ASSUME NEW k \in Key PROVE snap[k] = c[k]
    OBVIOUS
  <2>1. CASE k \in S
    BY <1>3, <1>6, <2>1
  <2>2. CASE k \notin S
    BY <1>3, <1>4, <2>2
  <2>3. QED
    BY <2>1, <2>2
<1>8. snap = c
  BY <1>2, <1>7 DEF Configuration
<1>9. QED
  BY <1>8 DEF c

(* A generation the device comes to was not used before.                   *)
LEMMA GenerationSteps ==
    ASSUME SmallRange, BaseInv, NamesOK, [Next]_vars
    PROVE  /\ Grows(history.named, history'.named)
           /\ device'.gen = device.gen \/ history.named[device'.gen] = None
<1> DEFINE k == Load(slots')
           n == history.named
<1>1. /\ k \in Meta \cup {None} /\ n \in Names /\ device.gen \in Generation
      /\ device.active \in Configuration
      /\ NamesFit(k, n, device.gen, device.active, history.acked, Spent')
      /\ \/ k = Load(slots) /\ ~WriteMarker
         \/ /\ k = [gen |-> update.gen, image |-> update.image] /\ k \in Meta
            /\ n[k.gen] = None
  BY NamesFound
<1>2. slots' \in [Slot -> [Block -> Content]] /\ device' \in DeviceType
  BY BaseNext DEF BaseInv, TypeOK, SlotTypeOK
<1>3. device'.gen \in Generation /\ device'.active \in Configuration
  BY <1>2, Images DEF DeviceType
<1> HIDE DEF k
<1>4. CASE SameStore
  BY <1>4 DEF SameStore, Grows
<1>5. CASE Agreed
  <2>1. k.gen = device.gen + 1 /\ n[k.gen] = None
    BY <1>1, <1>5 DEF Agreed
  <2>2. device'.gen = k.gen /\ history'.named = Named(n, device'.gen, device'.active)
    BY <1>5, <2>1 DEF Agreed
  <2>3. QED
    BY <1>1, <1>3, <2>1, <2>2, NamedType DEF Grows, Names
<1>6. CASE Started
  <2>1. history'.named = Named(n, device'.gen, device'.active)
    BY <1>6 DEF Started
  <2>2. Grows(n, history'.named)
    BY <1>1, <1>3, <2>1, NamedType DEF Grows, Names
  <2>3. n[device.gen] # None
    BY <1>1, ExchangeAssumption DEF NamesFit
  <2>4. CASE k = None
    <3>1. device'.gen = 0
      BY <1>2, <1>6, <2>4, LoadedDevice DEF Started, k
    <3>2. device.gen \notin Generation \ {0}
      BY <1>1, <2>3, <2>4 DEF NamesFit
    <3>3. QED
      BY <1>1, <2>2, <3>1, <3>2
  <2>5. CASE k # None
    <3>1. device'.gen = k.gen /\ k.gen \in Ring /\ k.gen \in Generation \ {0}
      BY <1>1, <1>2, <1>6, <2>5, LoadedDevice DEF Started, k, Meta, Ring
    <3>2. ASSUME n[k.gen] # None
          PROVE  device.gen = k.gen
      <4>1. device.gen # 0 /\ Steps(device.gen, k.gen) <= Steps(k.gen, k.gen)
        BY <1>1, <3>1, <3>2 DEF NamesFit
      <4>2. device.gen \in Ring
        BY <1>1, <4>1 DEF Ring
      <4>3. QED
        BY <3>1, <4>1, <4>2, StepsType
    <3>3. QED
      BY <2>2, <3>1, <3>2
  <2>6. QED
    BY <2>4, <2>5
<1>7. QED
  BY <1>4, <1>5, <1>6, StoreSteps

LEMMA RepliesType ==
    ASSUME TypeOK, Waiting
    PROVE  Replies \subseteq AnswerType
<1>1. \A i \in DOMAIN link.answers : link.answers[i] \in AnswerType
  BY LinkParts DEF TypeOK
<1>2. /\ device.last # None => device.last.answer \in AnswerType
      /\ device.held # None => device.held.answer \in AnswerType
  BY DeviceParts DEF TypeOK, Exchange
<1>3. QED
  BY <1>1, <1>2 DEF Replies

(* An answer the device gives to the host's request, by what it holds.     *)
Honest(a) ==
    /\ a \in AnswerType
    /\ host.req.cmd = "list" /\ a.cmd = "list" =>
           Truthful(history.named, a.data, host.req.arg) /\ a.data.gen = device.gen
    /\ host.req.cmd = "read" /\ a.cmd = "read" =>
           a.data = history.named[device.gen][host.req.arg]

(* The names grow, the host stays where it is.                             *)
LEMMA BackupKept ==
    ASSUME BaseInv, BackupOK, Grows(history.named, history'.named),
           device'.gen = device.gen \/ history.named[device'.gen] = None,
           host'.req = host.req, host'.at = host.at, history'.kept = history.kept,
           Waiting => \A a \in Replies' : a \in Replies \/ Honest(a)
    PROVE  BackupOK'
<1> DEFINE n == history.named
           m == history'.named
           p == host.at.pages
           l == host.at.listing
<1>1. TypeOK /\ history \in HistoryType
  BY DEF BaseInv, TypeOK
<1>2. Kept'
  <2>1. SUFFICES ASSUME history.kept # None PROVE m[history.kept.gen] = history.kept.image
    BY DEF Kept
  <2>2. history.kept.gen \in Generation /\ history.kept.image \in Configuration
    BY <1>1, <2>1 DEF HistoryType
  <2>3. n[history.kept.gen] = history.kept.image /\ history.kept.image # None
    BY <2>1, <2>2, ExchangeAssumption DEF BackupOK, Kept
  <2>4. QED
    BY <2>2, <2>3 DEF Grows
<1>3. Waiting' = Waiting
  BY DEF Waiting
<1>4. SUFFICES ASSUME Waiting PROVE Told' /\ Gathered' /\ (l # None => Truth' \/ Doubt')
  BY <1>2, <1>3 DEF BackupOK
<1>5. Told /\ Gathered /\ (l # None => Truth \/ Doubt)
  BY <1>4 DEF BackupOK
<1>6. Replies' \subseteq AnswerType
  BY <1>1, <1>4, RepliesType DEF Honest
<1>7. Told'
  <2>1. SUFFICES ASSUME host.req.cmd = "list", NEW a \in Replies', a.cmd = "list"
                 PROVE  Truthful(m, a.data, host.req.arg)
    BY DEF Told
  <2>2. a.data.gen \in Generation
    BY <1>6, <2>1, AnswerParts
  <2>3. Truthful(n, a.data, host.req.arg)
    BY <1>4, <1>5, <2>1 DEF Told, Honest
  <2>4. QED
    BY <2>2, <2>3, ListingsGrow
<1>8. /\ p # None => p.gen \in Generation
      /\ l # None => l.gen \in Generation
  BY <1>1, HostParts DEF TypeOK, Listed
<1>9. /\ p # None /\ InOrder(n, p) => InOrder(m, p)
      /\ l # None /\ InOrder(n, l) => InOrder(m, l)
  BY <1>8, ListingsGrow
<1>10. Gathered'
  BY <1>5, <1>9 DEF Gathered
<1>11. ASSUME l # None PROVE Truth' \/ Doubt'
  <2>1. l.gen \in Generation /\ n[l.gen] # None /\ m[l.gen] = n[l.gen]
    BY <1>5, <1>8, <1>11 DEF Gathered, InOrder, Grows
  <2>2. device.gen # l.gen => device'.gen # l.gen
    BY <2>1
  <2>3. CASE Doubt
    <3>1. /\ device.gen # l.gen
          /\ host.req.cmd = "list" =>
                 /\ \A a \in Replies' : a.cmd = "list" => a.data.gen # l.gen
                 /\ p # None => p.gen # l.gen
      BY <1>4, <2>3 DEF Doubt, Honest
    <3>2. QED
      BY <2>2, <3>1 DEF Doubt
  <2>4. CASE Truth /\ host.req.cmd = "read" /\ device.gen # l.gen
    BY <2>2, <2>4 DEF Doubt
  <2>5. CASE Truth /\ (host.req.cmd # "read" \/ device.gen = l.gen)
    <3>1. Copied(m, l, ReadSoFar, host.at.snap)
      BY <2>1, <2>5, ListingsGrow DEF Truth
    <3>2. ReadSoFar' = ReadSoFar
      BY DEF ReadSoFar
    <3>3. host.req.cmd = "read" => \A a \in Replies' :
              a.cmd = "read" => a.data = n[l.gen][host.req.arg]
      BY <1>4, <2>5 DEF Truth, Honest
    <3>4. QED
      BY <2>1, <3>1, <3>2, <3>3 DEF Truth
  <2>6. QED
    BY <1>5, <1>11, <2>3, <2>4, <2>5
<1>12. QED
  BY <1>7, <1>10, <1>11

LEMMA PagesInOrder ==
    ASSUME BaseInv, Numbered, BackupOK, Granted("list"), Acceptable
    PROVE  /\ InOrder(history.named, Pages) /\ Pages.gen = Data.gen /\ Pages \in Listed
           /\ Head(link.answers) \in Replies /\ Waiting
<1> DEFINE n == history.named
<1>1. /\ TypeOK /\ Expected /\ host.req.cmd = "list" /\ Head(link.answers).cmd = "list"
  BY DEF BaseInv, Granted
<1>2. Waiting /\ Head(link.answers) \in Replies
  BY <1>1, AnswerSettles
<1>3. Truthful(n, Data, host.req.arg)
  BY <1>1, <1>2 DEF BackupOK, Told, Data
<1>4. /\ Pages \in Listed /\ Data.gen \in Generation /\ Data.total \in Nat
      /\ Data.page \in Seq(Key)
  BY <1>1, PagesType
<1>5. Pages.gen = Data.gen /\ Pages.total = Data.total
  BY DEF Acceptable
<1>6. CASE host.at.pages = None
  <2> DEFINE p == [gen |-> Data.gen, total |-> Data.total, keys |-> <<>>]
  <2>1. p \in Listed /\ p.gen = Data.gen /\ p.total = Data.total /\ p.keys = <<>>
    BY <1>4 DEF Listed
  <2>2. Len(p.keys) = 0 /\ host.req.arg = 0
    BY <1>1, <1>2, <1>6, <2>1 DEF BackupOK, Gathered
  <2>3. Cardinality(Objects(n[Data.gen])) \in Nat
    BY KeySets DEF Objects
  <2>4. InOrder(n, p)
    BY <1>3, <2>1, <2>2, <2>3 DEF InOrder, Truthful
  <2>5. Pages.keys = Data.page /\ Data.page = p.keys \o Data.page
    BY <1>4, <1>6, <2>1 DEF Pages
  <2> HIDE DEF p
  <2>6. InOrder(n, Pages)
    BY <1>3, <1>4, <1>5, <2>1, <2>2, <2>4, <2>5, PageFollows
  <2>7. QED
    BY <1>2, <1>4, <1>5, <2>6
<1>7. CASE host.at.pages # None
  <2> DEFINE p == host.at.pages
  <2>1. p \in Listed
    BY <1>1, <1>7, HostParts DEF TypeOK
  <2>2. InOrder(n, p) /\ host.req.arg = Len(p.keys)
    BY <1>1, <1>2, <1>7 DEF BackupOK, Gathered
  <2>3. Pages.gen = p.gen /\ Pages.total = p.total /\ Pages.keys = p.keys \o Data.page
    BY <1>7, <2>1 DEF Pages, Listed
  <2> HIDE DEF p
  <2>4. InOrder(n, Pages)
    BY <1>3, <1>4, <1>5, <2>1, <2>2, <2>3, PageFollows
  <2>5. QED
    BY <1>2, <1>4, <1>5, <2>4
<1>8. QED
  BY <1>6, <1>7

(* The host asks for something: no answer to it is on its way.             *)
LEMMA BackupAsked ==
    ASSUME BaseInv, Numbered, BackupOK, NEW at, NEW cmd, NEW arg, NEW l, Asks(at, cmd, arg, l)
    PROVE  /\ Replies' = {} /\ Waiting' /\ Told' /\ Kept'
           /\ host'.at = at /\ host'.req.cmd = cmd /\ host'.req.arg = arg
           /\ device' = device /\ history'.named = history.named
           /\ Gathered' /\ (at.listing # None => Truth' \/ Doubt') => BackupOK'
<1>1. /\ HostFrame /\ history'.kept = history.kept
  BY DEF Asks
<1>2. /\ host'.at = at /\ host'.req # None /\ host'.req.cmd = cmd /\ host'.req.arg = arg
      /\ host'.req.seq = host.seq
      /\ Behind(link'.answers, link.answers)
  BY AsksRequests DEF Behind, Expected
<1>3. Replies' = {}
  BY <1>1, <1>2, RepliesNone DEF BaseInv, HostFrame
<1>4. Waiting' /\ Told' /\ Kept'
  BY <1>1, <1>2, <1>3 DEF Waiting, Told, Kept, BackupOK, HostFrame
<1>5. QED
  BY <1>1, <1>2, <1>3, <1>4 DEF BackupOK, HostFrame

LEMMA BackupPlain ==
    ASSUME BaseInv, Numbered, BackupOK, NEW at, NEW cmd, NEW arg, NEW l, Asks(at, cmd, arg, l),
           cmd \notin {"list", "read"}
    PROVE  BackupOK'
<1>1. Waiting /\ host.req.cmd \notin {"list", "read"} /\ Plain(at)
  BY AsksRequests DEF Asks
<1>2. at.listing = None /\ at.pages = None /\ at.snap = Blank
  BY <1>1 DEF BackupOK, Gathered, Plain
<1>3. Gathered'
  BY <1>2, BackupAsked DEF Gathered
<1>4. QED
  BY <1>2, <1>3, BackupAsked

LEMMA BackupReceipt ==
    ASSUME BaseInv, Numbered, BackupOK, Receipt, Waiting'
    PROVE  BackupOK'
<1> DEFINE at == [host.at EXCEPT !.receipt = Data]
<1>1. Asks(at, "list", 0, Taken)
  BY ReceiptSteps, RestsRequests
<1>2. Waiting /\ host.req.cmd = "commit"
  BY DEF Receipt, Granted, Expected
<1>3. host.at.listing = None /\ host.at.pages = None /\ host.at.snap = Blank
  BY <1>2 DEF BackupOK, Gathered
<1>4. host.at \in AtType
  BY AtTypes DEF BaseInv, TypeOK
<1>5. at.listing = None /\ at.pages = None /\ at.snap = Blank
  BY <1>3, <1>4 DEF AtType
<1> HIDE DEF at
<1>6. host'.at = at /\ host'.req.cmd = "list" /\ host'.req.arg = 0
  BY <1>1, BackupAsked
<1>7. Gathered'
  BY <1>5, <1>6 DEF Gathered
<1>8. QED
  BY <1>1, <1>5, <1>7, BackupAsked

LEMMA BackupNextPage ==
    ASSUME BaseInv, Numbered, BackupOK, NextPage
    PROVE  BackupOK'
<1> DEFINE at == [host.at EXCEPT !.pages = Pages]
<1>1. Asks(at, "list", Len(Pages.keys), Taken)
  BY NextPageAsks
<1>2. Granted("list") /\ Acceptable /\ host.req.cmd = "list" /\ Head(link.answers).cmd = "list"
  BY DEF NextPage, Granted
<1>3. /\ InOrder(history.named, Pages) /\ Pages.gen = Data.gen /\ Pages \in Listed
      /\ Head(link.answers) \in Replies /\ Waiting
  BY <1>2, PagesInOrder
<1>4. host.at \in AtType /\ Pages # None
  BY <1>3, AtTypes, ExchangeAssumption DEF BaseInv, TypeOK
<1>5. /\ at.listing = host.at.listing /\ at.pages = Pages /\ at.snap = host.at.snap
      /\ at.key = host.at.key
  BY <1>4 DEF AtType
<1> HIDE DEF at
<1>6. /\ host'.at = at /\ host'.req.cmd = "list" /\ host'.req.arg = Len(Pages.keys)
      /\ Replies' = {} /\ device' = device /\ history'.named = history.named
  BY <1>1, BackupAsked
<1>7. Told /\ Gathered /\ (host.at.listing # None => Truth \/ Doubt)
  BY <1>3 DEF BackupOK
<1>8. Gathered'
  BY <1>2, <1>3, <1>4, <1>5, <1>6, <1>7 DEF Gathered
<1>9. ASSUME at.listing # None PROVE Truth' \/ Doubt'
  <2>1. CASE Truth
    <3>1. ReadSoFar' = ReadSoFar
      BY <1>2, <1>5, <1>6 DEF ReadSoFar
    <3>2. QED
      BY <1>5, <1>6, <2>1, <3>1 DEF Truth
  <2>2. CASE Doubt
    <3>1. Data.gen # host.at.listing.gen
      BY <1>2, <1>3, <2>2 DEF Doubt, Data
    <3>2. QED
      BY <1>3, <1>5, <1>6, <2>2, <3>1 DEF Doubt
  <2>3. QED
    BY <1>5, <1>7, <1>9, <2>1, <2>2
<1>10. QED
  BY <1>1, <1>8, <1>9, BackupAsked

LEMMA BackupFirst ==
    ASSUME BaseInv, Numbered, BackupOK, FirstListing
    PROVE  BackupOK'
<1>1. /\ FirstAt \in AtType /\ FirstAt.listing = Pages /\ FirstAt.pages = None
      /\ FirstAt.key = 0 /\ FirstAt.snap = host.at.snap /\ Pages \in Listed /\ Pages # None
      /\ \/ /\ Len(Pages.keys) = 0
            /\ Asks(FirstAt, "list", 0, Taken)
         \/ /\ 1 \in 1 .. Len(Pages.keys)
            /\ Asks([FirstAt EXCEPT !.key = @ + 1], "read", Pages.keys[1], Taken)
  BY FirstListingAsks
<1>2. /\ Granted("list") /\ Acceptable /\ host.at.listing = None
      /\ Len(Pages.keys) = Pages.total
  BY DEF FirstListing
<1>3. InOrder(history.named, Pages) /\ Waiting
  BY <1>2, PagesInOrder
<1>4. host.at.snap = Blank
  BY <1>2, <1>3 DEF BackupOK, Gathered
<1>5. Copied(history.named, Pages, 0, Blank)
  <2>1. {Pages.keys[i] : i \in 1 .. 0} = {}
    OBVIOUS
  <2>2. QED
    BY <2>1 DEF Copied, Blank
<1>6. CASE Len(Pages.keys) = 0 /\ Asks(FirstAt, "list", 0, Taken)
  <2>1. /\ host'.at = FirstAt /\ host'.req.cmd = "list" /\ host'.req.arg = 0
        /\ Replies' = {} /\ history'.named = history.named
    BY <1>6, BackupAsked
  <2>2. Gathered'
    BY <1>1, <1>2, <1>3, <1>6, <2>1 DEF Gathered
  <2>3. Truth'
    BY <1>1, <1>4, <1>5, <2>1 DEF Truth, ReadSoFar
  <2>4. QED
    BY <1>6, <2>2, <2>3, BackupAsked
<1>7. CASE /\ 1 \in 1 .. Len(Pages.keys)
           /\ Asks([FirstAt EXCEPT !.key = @ + 1], "read", Pages.keys[1], Taken)
  <2> DEFINE at == [FirstAt EXCEPT !.key = @ + 1]
  <2>1. /\ at.listing = Pages /\ at.pages = None /\ at.key = 1 /\ at.snap = Blank
    BY <1>1, <1>4 DEF AtType
  <2> HIDE DEF at
  <2>2. Asks(at, "read", Pages.keys[1], Taken)
    BY <1>7 DEF at
  <2>3. /\ host'.at = at /\ host'.req.cmd = "read" /\ host'.req.arg = Pages.keys[1]
        /\ Replies' = {} /\ history'.named = history.named
    BY <2>2, BackupAsked
  <2>4. Gathered'
    BY <1>1, <1>2, <1>3, <2>1, <2>3 DEF Gathered
  <2>5. Truth'
    <3>1. ReadSoFar' = 0
      BY <2>1, <2>3 DEF ReadSoFar
    <3>2. QED
      BY <1>5, <2>1, <2>3, <3>1 DEF Truth
  <2>6. QED
    BY <2>2, <2>4, <2>5, BackupAsked
<1>8. QED
  BY <1>1, <1>6, <1>7

LEMMA CopyOne ==
    ASSUME NEW n, NEW l \in Listed, NEW k \in 1 .. Len(l.keys), NEW snap \in Configuration,
           Copied(n, l, k - 1, snap), NEW d, d = n[l.gen][l.keys[k]]
    PROVE  Copied(n, l, k, [snap EXCEPT ![l.keys[k]] = d])
<1> DEFINE now == [snap EXCEPT ![l.keys[k]] = d]
           c == n[l.gen]
           old == {l.keys[i] : i \in 1 .. k - 1}
           new == {l.keys[i] : i \in 1 .. k}
<1>1. k \in Nat /\ l.keys[k] \in Key
  BY DEF Listed
<1>2. \A j : j \in new <=> j \in old \/ j = l.keys[k]
  <2>1. \A i \in 1 .. k : i \in 1 .. k - 1 \/ i = k
    BY <1>1
  <2>2. \A i \in 1 .. k - 1 : i \in 1 .. k
    BY <1>1
  <2>3. k \in 1 .. k
    BY <1>1
  <2>4. QED
    BY <2>1, <2>2, <2>3
<1>3. \A j \in Key : snap[j] = IF j \in old THEN c[j] ELSE None
  BY DEF Copied
<1>4. \A j \in Key : now[j] = IF j = l.keys[k] THEN d ELSE snap[j]
  BY <1>1 DEF Configuration
<1> HIDE DEF now, old, new, c
<1>5. d = c[l.keys[k]]
  BY DEF c
<1>6. \A j \in Key : now[j] = IF j \in new THEN c[j] ELSE None
  BY <1>2, <1>3, <1>4, <1>5
<1>7. QED
  BY <1>6 DEF Copied, now, new, c

LEMMA BackupRead ==
    ASSUME BaseInv, Numbered, BackupOK, ReadBack
    PROVE  BackupOK'
<1> DEFINE l == host.at.listing
           k == host.at.key
           n == history.named
<1>1. /\ ReadAt \in AtType /\ ReadAt.listing = l /\ ReadAt.key = k
      /\ ReadAt.pages = host.at.pages
      /\ l \in Listed /\ k \in 1 .. Len(l.keys) /\ l.keys[k] \in Key
      /\ ReadAt.snap = [host.at.snap EXCEPT ![l.keys[k]] = Data]
      /\ \/ /\ k = Len(l.keys)
            /\ Asks(ReadAt, "list", 0, Taken)
         \/ /\ k + 1 \in 1 .. Len(l.keys)
            /\ Asks([ReadAt EXCEPT !.key = @ + 1], "read", l.keys[k + 1], Taken)
  BY ReadBackAsks
<1>2. Expected /\ host.req.cmd = "read" /\ Head(link.answers).cmd = "read"
  BY DEF ReadBack, Granted
<1>3. Waiting /\ Head(link.answers) \in Replies
  BY <1>2, AnswerSettles DEF BaseInv
<1>4. l # None /\ l.gen \in Generation /\ host.at.snap \in Configuration /\ k \in Nat
  BY <1>1, ExchangeAssumption, HostParts DEF BaseInv, TypeOK, Listed
<1>5. /\ host.at.pages = None /\ host.req.arg = l.keys[k]
      /\ InOrder(n, l) /\ Len(l.keys) = l.total
      /\ Truth \/ Doubt
  BY <1>2, <1>3, <1>4 DEF BackupOK, Gathered
<1>6. Truth => Copied(n, l, k, ReadAt.snap)
  <2>1. SUFFICES ASSUME Truth PROVE Copied(n, l, k, ReadAt.snap)
    OBVIOUS
  <2>2. Data = n[l.gen][l.keys[k]]
    BY <1>2, <1>3, <1>5, <2>1 DEF Truth, Data
  <2>3. Copied(n, l, k - 1, host.at.snap)
    BY <1>2, <2>1 DEF Truth, ReadSoFar
  <2> HIDE DEF l, k, n
  <2>4. Copied(n, l, k, [host.at.snap EXCEPT ![l.keys[k]] = Data])
    BY <1>1, <1>4, <2>2, <2>3, CopyOne
  <2>5. QED
    BY <1>1, <2>4
<1> HIDE DEF l, k, n
<1>7. CASE k = Len(l.keys) /\ Asks(ReadAt, "list", 0, Taken)
  <2>1. /\ host'.at = ReadAt /\ host'.req.cmd = "list" /\ host'.req.arg = 0
        /\ Replies' = {} /\ device' = device /\ history'.named = n
    BY <1>7, BackupAsked DEF n
  <2>2. Gathered'
    BY <1>1, <1>4, <1>5, <1>7, <2>1 DEF Gathered
  <2>3. Truth => Truth'
    <3>1. ReadSoFar' = k
      BY <1>1, <2>1 DEF ReadSoFar
    <3>2. QED
      BY <1>1, <1>6, <2>1, <3>1 DEF Truth
  <2>4. Doubt => Doubt'
    BY <1>1, <1>5, <2>1 DEF Doubt, l
  <2>5. QED
    BY <1>5, <1>7, <2>2, <2>3, <2>4, BackupAsked
<1>8. CASE /\ k + 1 \in 1 .. Len(l.keys)
           /\ Asks([ReadAt EXCEPT !.key = @ + 1], "read", l.keys[k + 1], Taken)
  <2> DEFINE at == [ReadAt EXCEPT !.key = @ + 1]
  <2>1. /\ at.listing = l /\ at.pages = None /\ at.key = k + 1 /\ at.snap = ReadAt.snap
    BY <1>1, <1>5 DEF AtType
  <2> HIDE DEF at
  <2>2. Asks(at, "read", l.keys[k + 1], Taken)
    BY <1>8 DEF at
  <2>3. /\ host'.at = at /\ host'.req.cmd = "read" /\ host'.req.arg = l.keys[k + 1]
        /\ Replies' = {} /\ device' = device /\ history'.named = n
    BY <2>2, BackupAsked DEF n
  <2>4. Gathered'
    BY <1>4, <1>5, <2>1, <2>3 DEF Gathered
  <2>5. Truth => Truth'
    <3>1. ReadSoFar' = k
      BY <1>4, <2>1, <2>3 DEF ReadSoFar
    <3>2. QED
      BY <1>6, <2>1, <2>3, <3>1 DEF Truth
  <2>6. Doubt => Doubt'
    BY <2>1, <2>3 DEF Doubt, l
  <2>7. QED
    BY <1>5, <2>2, <2>4, <2>5, <2>6, BackupAsked
<1>9. QED
  BY <1>1, <1>7, <1>8

(* Only a second listing of the same generation closes the snapshot.       *)
LEMMA SnapshotCloses ==
    ASSUME BaseInv, Numbered, BackupOK, SecondListing
    PROVE  Kept'
<1> DEFINE l == host.at.listing
           n == history.named
<1>1. /\ Granted("list") /\ Acceptable /\ l # None /\ host.req.cmd = "list"
      /\ Head(link.answers).cmd = "list"
      /\ history' = IF Stable /\ Verified
                    THEN [history EXCEPT !.kept = [gen |-> Pages.gen, image |-> host.at.snap]]
                    ELSE history
  BY DEF SecondListing, Granted
<1>2. history \in HistoryType
  BY DEF BaseInv, TypeOK
<1>3. CASE ~(Stable /\ Verified)
  BY <1>1, <1>3 DEF BackupOK, Kept
<1>4. CASE Stable /\ Verified
  <2>1. /\ Pages = l /\ Pages.gen = Data.gen /\ Pages \in Listed
        /\ Head(link.answers) \in Replies /\ Waiting
    BY <1>1, <1>4, PagesInOrder DEF Stable
  <2>2. /\ InOrder(n, l) /\ Len(l.keys) = l.total /\ host.at.key = Len(l.keys)
        /\ Truth \/ Doubt
    BY <1>1, <2>1 DEF BackupOK, Gathered
  <2>3. ~Doubt
    BY <1>1, <2>1 DEF Doubt, Data
  <2>4. Copied(n, l, Len(l.keys), host.at.snap)
    BY <1>1, <2>2, <2>3 DEF Truth, ReadSoFar
  <2>5. n \in Names /\ host.at.snap \in Configuration
    BY <1>2, HostParts DEF BaseInv, TypeOK, HistoryType, Names
  <2>6. host.at.snap = n[l.gen]
    BY <2>1, <2>2, <2>4, <2>5, WholeCopied
  <2>7. history'.named = n /\ history'.kept = [gen |-> Pages.gen, image |-> host.at.snap]
    BY <1>1, <1>2, <1>4 DEF HistoryType
  <2>8. QED
    BY <2>1, <2>6, <2>7 DEF Kept
<1>5. QED
  BY <1>3, <1>4

LEMMA BackupNext ==
    ASSUME SmallRange, BaseInv, NamesOK, Numbered, BackupOK, [Next]_vars
    PROVE  BackupOK'
<1>1. BaseInv' /\ TypeOK
  BY BaseNext DEF BaseInv
<1>2. \A s : Behind(s, s) /\ (s # <<>> => Behind(Tail(s), s))
  BY DEF Behind
<1>3. /\ Grows(history.named, history'.named)
      /\ device'.gen = device.gen \/ history.named[device'.gen] = None
  BY GenerationSteps
<1>4. device.active = history.named[device.gen] /\ device.active # None
  BY DeviceParts, ExchangeAssumption DEF NamesOK, NamesFit, BaseInv, TypeOK
<1>5. CASE Performing
  <2>1. PICK after, a : Handling(after, a)
    BY <1>5, Handled
  <2> DEFINE e == [req |-> Incoming, answer |-> a]
  <2>2. /\ link.requests # <<>> /\ a \in AnswerType /\ a.seq = Incoming.seq
        /\ link'.requests = Tail(link.requests) /\ link'.answers = Append(link.answers, a)
        /\ host' = host /\ device'.held = None /\ device'.last = e
        /\ history' = [history EXCEPT !.asked = [req |-> Incoming, answer |-> a]]
    BY <1>1, <2>1, AnswerEffect DEF Handling, Answering
  <2>3. history'.kept = history.kept
    BY <1>1, <2>2 DEF TypeOK, HistoryType
  <2>4. e.req = Incoming /\ e.answer = a
    OBVIOUS
  <2> HIDE DEF e
  <2>5. Incoming = host.req => Honest(a)
    <3>1. a.cmd = "list" => Truthful(history.named, a.data, Incoming.arg)
                            /\ a.data.gen = device.gen
      BY <1>4, <2>1 DEF Handling, Truthful
    <3>2. a.cmd = "read" => a.data = history.named[device.gen][Incoming.arg]
      BY <1>4, <2>1 DEF Handling
    <3>3. QED
      BY <2>2, <3>1, <3>2 DEF Honest
  <2>6. Waiting => \A s \in Replies' : s \in Replies \/ (s = a /\ Incoming = host.req)
    BY <1>1, <2>2, <2>4, RepliesServed
  <2>7. QED
    BY <1>3, <2>2, <2>3, <2>5, <2>6, BackupKept
<1>6. CASE Replay
  <2> DEFINE a == IF Settled.req = Incoming THEN Settled.answer ELSE Refuse(Incoming)
             e == [req |-> Incoming, answer |-> a]
  <2>1. /\ link.requests # <<>> /\ a \in AnswerType
        /\ link'.requests = Tail(link.requests) /\ link'.answers = Append(link.answers, a)
        /\ host' = host
        /\ device'.held \in {device.held, None} /\ device'.last = device.last
        /\ Settled \in {device.last, device.held} /\ Settled # None
        /\ Settled.req.seq = Incoming.seq
        /\ history' = [history EXCEPT !.asked = [req |-> Incoming, answer |-> a]]
    BY <1>6, ReplayEffect
  <2>2. Settled.req = Incoming /\ a = Settled.answer /\ a.seq = Incoming.seq
    <3>1. Incoming \in Known /\ Settled.req \in Known
      BY <1>1, <2>1, ReceivedType, QueueLength, KnownParts DEF TypeOK
    <3>2. QED
      BY <2>1, <3>1 DEF Numbered
  <2>3. Waiting /\ Incoming = host.req => a \in Replies
    BY <2>1, <2>2, RepliesHave
  <2>4. e.req = Incoming /\ e.answer = a
    OBVIOUS
  <2> HIDE DEF a, e
  <2>5. Waiting => \A s \in Replies' : s \in Replies \/ (s = a /\ Incoming = host.req)
    BY <1>1, <2>1, <2>2, <2>4, RepliesServed
  <2>6. history'.kept = history.kept
    BY <1>1, <2>1 DEF TypeOK, HistoryType
  <2>7. QED
    BY <1>3, <2>1, <2>3, <2>5, <2>6, BackupKept
<1>7. CASE CommitTransaction
  <2>1. /\ link' = link /\ host' = host /\ history' = history
        /\ device' = [device EXCEPT !.held = None]
    BY <1>7 DEF CommitTransaction
  <2>2. device'.last = device.last /\ device'.held = None
    BY <1>1, <2>1 DEF TypeOK, DeviceType
  <2>3. Replies' \subseteq Replies
    BY <1>1, <1>2, <2>1, <2>2, RepliesKept
  <2>4. QED
    BY <1>3, <2>1, <2>3, BackupKept
<1>8. CASE StoreBlock \/ Ignore \/ Lose \/ Resend \/ UNCHANGED vars
  <2>1. /\ Behind(link'.answers, link.answers)
        /\ host' = host /\ history'.kept = history.kept /\ device' = device
    BY <1>2, <1>8, IgnoreEffect, LoseEffect, ResendEffect DEF StoreBlock, vars
  <2>2. Replies' \subseteq Replies
    BY <1>1, <2>1, RepliesKept
  <2>3. QED
    BY <1>3, <2>1, <2>2, BackupKept
<1>9. ASSUME Undone, update # None, host' = host
      PROVE  BackupOK'
  <2> DEFINE a == Refuse(Incoming)
             e == [req |-> Incoming, answer |-> a]
  <2>1. link.requests # <<>> /\ Incoming.cmd = "commit"
    BY <1>9 DEF BaseInv, CommitOK
  <2>2. /\ a \in AnswerType
        /\ link'.requests = Tail(link.requests) /\ link'.answers = Append(link.answers, a)
        /\ device'.held = e /\ device'.last = device.last
        /\ history' = [history EXCEPT !.asked = [req |-> Incoming, answer |-> Refuse(Incoming)]]
    BY <1>9, <2>1, UndoneEffect
  <2>3. history'.kept = history.kept
    BY <1>1, <2>2 DEF TypeOK, HistoryType
  <2>4. e.req = Incoming /\ e.answer = a /\ a.seq = Incoming.seq
    BY DEF Refuse
  <2> HIDE DEF a, e
  <2>5. Waiting => \A s \in Replies' : s \in Replies \/ (s = a /\ Incoming = host.req)
    BY <1>1, <1>9, <2>1, <2>2, <2>4, RepliesServed
  <2>6. Incoming = host.req => Honest(a)
    BY <2>1, <2>2 DEF Honest
  <2>7. QED
    BY <1>3, <1>9, <2>3, <2>5, <2>6, BackupKept
<1>10. CASE StoreMarker
  <2>1. CASE Undone
    BY <1>9, <1>10, <2>1 DEF StoreMarker, WriteMarker
  <2>2. CASE ~Undone
    <3> DEFINE a == Accept(Incoming, device.gen + 1)
               e == [req |-> Incoming, answer |-> a]
    <3>1. /\ link.requests # <<>> /\ a \in AnswerType /\ Incoming.cmd = "commit"
          /\ link'.requests = Tail(link.requests) /\ link'.answers = Append(link.answers, a)
          /\ device'.last = e /\ device'.held = device.held /\ host' = host
          /\ history'.kept = history.kept
      BY <1>10, <2>2, StoreMarkerEffect
    <3>2. e.req = Incoming /\ e.answer = a /\ a.seq = Incoming.seq
      BY DEF Accept
    <3> HIDE DEF a, e
    <3>3. Waiting => \A s \in Replies' : s \in Replies \/ (s = a /\ Incoming = host.req)
      BY <1>1, <3>1, <3>2, RepliesServed
    <3>4. Incoming = host.req => Honest(a)
      BY <3>1 DEF Honest
    <3>5. QED
      BY <1>3, <3>1, <3>3, <3>4, BackupKept
  <2>3. QED
    BY <2>1, <2>2
<1>11. CASE StoreFailed
  BY <1>9, <1>11 DEF StoreFailed, Interrupted
<1>12. CASE Reboot
  <2>1. /\ device' = Loaded(slots') /\ host' = host /\ link'.answers = link.answers
        /\ history'.kept = history.kept
    BY <1>1, <1>12, RebootEffect DEF BaseInv
  <2>2. slots' \in [Slot -> [Block -> Content]]
    BY <1>1 DEF BaseInv, TypeOK, SlotTypeOK
  <2>3. device'.last = None /\ device'.held = None
    BY <2>1, <2>2, LoadedDevice
  <2>4. Replies' \subseteq Replies
    BY <1>1, <1>2, <2>1, <2>3, RepliesKept
  <2>5. QED
    BY <1>3, <2>1, <2>4, BackupKept
<1>13. CASE Connect
  <2>1. /\ host'.at = Idle /\ host'.req = Request(1, "hello", 0, None)
        /\ history'.named = history.named /\ history'.kept = history.kept
    BY <1>13, ConnectEffect
  <2>2. host'.req.cmd = "hello"
    BY <2>1 DEF Request
  <2>3. Told' /\ Gathered' /\ Kept' /\ host'.at.listing = None
    BY <2>1, <2>2 DEF Told, Gathered, Kept, Idle, BackupOK
  <2>4. QED
    BY <2>3 DEF BackupOK
<1>14. CASE WriteConfiguration \/ BackupConfiguration
  <2>1. Operation
    BY <1>14 DEF WriteConfiguration, BackupConfiguration
  <2>2. device' = device /\ history' = history
    BY <2>1, OperationEffect
  <2>3. /\ host'.req.seq = host.seq /\ link'.answers = link.answers
        /\ host'.at.listing = None /\ host'.at.pages = None /\ host'.at.snap = Blank
        /\ host'.req.cmd = "begin" \/ (host'.req.cmd = "list" /\ host'.req.arg = 0)
    <3>1. CASE WriteConfiguration
      BY <3>1, WriteConfigurationEffect DEF Request
    <3>2. CASE BackupConfiguration
      BY <3>2, BackupEffect DEF Request, Idle
    <3>3. QED
      BY <1>14, <3>1, <3>2
  <2>4. Replies' = {}
    BY <1>1, <1>2, <2>2, <2>3, RepliesNone
  <2>5. Told' /\ Gathered' /\ Kept'
    BY <2>2, <2>3, <2>4 DEF Told, Gathered, Kept, BackupOK
  <2>6. QED
    BY <2>3, <2>5 DEF BackupOK
<1>15. CASE HostStep
  <2>1. ASSUME NEW at, NEW cmd, NEW arg, NEW l, Asks(at, cmd, arg, l),
               cmd \in {"list", "read"} => NextPage \/ FirstListing \/ ReadBack \/ Receipt
        PROVE  BackupOK'
    <3>1. Waiting'
      BY <2>1, BackupAsked
    <3>2. QED
      BY <2>1, <3>1, BackupPlain, BackupNextPage, BackupFirst, BackupRead, BackupReceipt
  <2>2. ASSUME NEW l, Rests(l), SecondListing \/ history'.kept = history.kept
        PROVE  BackupOK'
    <3>1. ~Waiting' /\ history'.named = history.named
      BY <2>2, RestsRequests DEF Rests, HostFrame
    <3>2. Kept'
      BY <2>2, <3>1, SnapshotCloses DEF BackupOK, Kept
    <3>3. QED
      BY <3>1, <3>2 DEF BackupOK
  <2>3. QED
    BY <1>8, <1>15, <2>1, <2>2, HostSteps
<1>16. QED
  BY <1>5, <1>6, <1>7, <1>8, <1>10, <1>11, <1>12, <1>13, <1>14, <1>15
     DEF Next, DeviceStep, Performing

(* Until its capabilities are asked for a session has gathered nothing.    *)
LEMMA BackupGreets ==
    ASSUME SmallRange, BaseInv, NamesOK, Tidy, host.seq <= 2, BackupOK, [Next]_vars,
           ~history'.lost
    PROVE  BackupOK'
<1>1. Greeting
  BY DEF Tidy
<1>2. Waiting => host.req.cmd = "hello"
  BY <1>1 DEF Greeting, Opening, Request
<1>3. Kept'
  <2>1. ~SecondListing
    BY <1>2 DEF SecondListing, Granted, Expected
  <2>2. history'.kept = history.kept
    BY <2>1, HistorySteps
  <2>3. Grows(history.named, history'.named)
    BY GenerationSteps
  <2>4. SUFFICES ASSUME history.kept # None
                 PROVE  history'.named[history.kept.gen] = history.kept.image
    BY <2>2 DEF Kept
  <2>5. history.kept.gen \in Generation /\ history.kept.image \in Configuration
    BY <2>4 DEF BaseInv, TypeOK, HistoryType
  <2>6. history.named[history.kept.gen] = history.kept.image /\ history.kept.image # None
    BY <2>4, <2>5, ExchangeAssumption DEF BackupOK, Kept
  <2>7. QED
    BY <2>3, <2>5, <2>6 DEF Grows
<1>4. Waiting => host.at.listing = None /\ host.at.pages = None /\ host.at.snap = Blank
  BY <1>2 DEF BackupOK, Gathered
<1>5. ASSUME host'.req.cmd \in {"hello", "capabilities"},
             host'.at.listing = None, host'.at.pages = None, host'.at.snap = Blank
      PROVE  BackupOK'
  BY <1>3, <1>5 DEF BackupOK, Told, Gathered
<1>6. ASSUME host' = host
      PROVE  BackupOK'
  <2>1. CASE Waiting
    BY <1>2, <1>4, <1>5, <1>6, <2>1
  <2>2. CASE ~Waiting
    BY <1>3, <1>6, <2>2 DEF BackupOK, Waiting
  <2>3. QED
    BY <2>1, <2>2
<1>7. CASE Keeps \/ (\E b, e : Serves(b, e)) \/ Resend
  BY <1>6, <1>7, ResendEffect DEF Keeps, Serves
<1>8. CASE Connect
  BY <1>5, <1>8, ConnectEffect DEF Idle, Request
<1>9. CASE WriteConfiguration \/ BackupConfiguration
  BY <1>1, <1>9 DEF WriteConfiguration, BackupConfiguration, Operation, Greeting
<1>10. CASE \E at, cmd, arg, l : Asks(at, cmd, arg, l)
  <2>1. PICK at, cmd, arg, l : Asks(at, cmd, arg, l)
    BY <1>10
  <2>2. Waiting /\ host'.req.cmd = cmd /\ host'.at = at
    BY <2>1, AsksRequests
  <2>3. cmd = "capabilities" /\ Plain(at)
    BY <1>2, <2>1, <2>2 DEF Asks
  <2>4. QED
    BY <1>4, <1>5, <2>2, <2>3 DEF Plain
<1>11. CASE \E l : Rests(l)
  BY <1>3, <1>11, RestsRequests DEF BackupOK
<1>12. QED
  BY <1>7, <1>8, <1>9, <1>10, <1>11, StepKinds DEF Tidy

(* What a host keeps as a backup, or takes for the verified result of its  *)
(* write, is exactly the configuration of one generation.                  *)
THEOREM SnapshotsAreWhole == OneSession /\ SmallRange => (Spec => []SnapshotIsWhole)
<1> SUFFICES ASSUME OneSession, SmallRange PROVE Spec => []SnapshotIsWhole
  OBVIOUS
<1>1. Init => BackupOK
  BY DEF Init, BackupOK, Kept, Waiting
<1>2. BaseInv /\ NamesOK /\ Numbered /\ FirstSession /\ BackupOK /\ [Next]_vars
      => (BaseInv /\ NamesOK /\ Numbered /\ FirstSession /\ BackupOK)'
  BY BaseNext, NamesNext, SessionNext, BackupNext
<1>3. BackupOK => SnapshotIsWhole
  BY DEF BackupOK, Kept, SnapshotIsWhole
<1>4. QED
  BY <1>1, <1>2, <1>3, BaseInit, NamesInit, NumberedInit, PTL DEF Spec

(* The same for every number of sessions, as long as none of them gave an  *)
(* exchange up: what is left of an exchange given up may answer a request  *)
(* of a later session, whose numbers start again.                          *)
THEOREM SessionSnapshotsAreWhole ==
    SmallRange => (Spec => [](~history.lost => SnapshotIsWhole))
<1> SUFFICES ASSUME SmallRange PROVE Spec => [](~history.lost => SnapshotIsWhole)
  OBVIOUS
<1> DEFINE Inv == BaseInv /\ NamesOK /\ (~history.lost => Tidy /\ BackupOK)
<1>1. Init => Inv
  <2>1. Init => BackupOK
    BY DEF Init, BackupOK, Kept, Waiting
  <2>2. QED
    BY <2>1, BaseInit, NamesInit, TidyInit
<1>2. Inv /\ [Next]_vars => Inv'
  <2> SUFFICES ASSUME Inv, [Next]_vars, ~history'.lost
               PROVE  Tidy' /\ BackupOK'
    BY BaseNext, NamesNext
  <2>1. BaseInv /\ NamesOK /\ Tidy /\ BackupOK /\ Tidy'
    BY HistorySteps, TidyNext
  <2>2. CASE host.seq <= 2
    BY <2>1, <2>2, BackupGreets
  <2>3. CASE ~(host.seq <= 2)
    BY <2>1, <2>3, BackupNext DEF Tidy
  <2>4. QED
    BY <2>1, <2>2, <2>3
<1>3. Inv => (~history.lost => SnapshotIsWhole)
  BY DEF BackupOK, Kept, SnapshotIsWhole
<1> HIDE DEF Inv
<1>4. QED
  BY <1>1, <1>2, <1>3, PTL DEF Spec
=============================================================================
