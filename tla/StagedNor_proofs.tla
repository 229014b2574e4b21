-------------------------- MODULE StagedNor_proofs --------------------------
(***************************************************************************)
(* StagedNor for any region, page and sector size and any contents: the    *)
(* staging region holds the host's whole image whenever the live one may   *)
(* not, reads see the host's blocks, and a commit replaces exactly them.   *)
(*                                                                         *)
(* The argument: a block the host did not send has all its wanted bits in  *)
(* both regions, so programming either one from the other can only bring   *)
(* it closer to what is wanted, and doing it again changes nothing.        *)
(***************************************************************************)
EXTENDS StagedNor, TLAPS

JobOK ==
    /\ job.op \in {"stage", "fill", "erase", "copy"} => open
    /\ job.op = "clear" => ~open /\ ~session.begun
    /\ job.op \in {"clear", "stage"} => job.block \in Block
    /\ job.op \in {"erase", "copy"} => session.begun
    /\ job.op = "fill" => job.left \subseteq Unwritten
    /\ open /\ session.begun /\ job.op \in {"idle", "stage"} => session.tried

ClearedSoFar ==
    job.op = "clear" => \A b \in Block \ job.left : staging[b] = Erased

\* Blocks the host sent.
WrittenStaged ==
    open => \A b \in written : staging[b] = session.wanted[b]

\* Blocks it did not send: both regions have their bits, ...
UnwrittenWithin ==
    open => \A b \in Unwritten :
        /\ session.wanted[b] \subseteq live[b]
        /\ session.wanted[b] \subseteq staging[b]

\* ... the live one only those, until it is erased, ...
UnwrittenLive ==
    open /\ ~session.begun =>
        \A b \in Unwritten : live[b] = session.wanted[b]

\* ... and their place in the staging region is empty until a commit.
UnwrittenErased ==
    open /\ ~session.tried /\ job.op \in {"idle", "stage"} =>
        \A b \in Unwritten : staging[b] = Erased

FilledSoFar ==
    job.op = "fill" =>
        \A b \in Unwritten \ job.left : staging[b] = session.wanted[b]

StagedWhole ==
    session.begun => \A b \in Block : staging[b] = session.wanted[b]

ErasedSoFar ==
    job.op = "erase" => \A b \in Block \ job.left : live[b] = Erased

CopiedSoFar ==
    job.op = "copy" =>
        \A b \in Block : live[b] = IF b \in job.left THEN Erased ELSE session.wanted[b]

StagedInv ==
    /\ TypeOK /\ JobOK /\ ClearedSoFar
    /\ Sound => /\ WrittenStaged /\ UnwrittenWithin /\ UnwrittenLive
                /\ UnwrittenErased /\ FilledSoFar /\ StagedWhole
                /\ ErasedSoFar /\ CopiedSoFar

-----------------------------------------------------------------------------
(* The memory operations, block by block.                                  *)

LEMMA ErasedBlocks ==
  ASSUME NEW region \in Contents, NEW blocks
  PROVE  /\ ErasedAt(region, blocks) \in Contents
         /\ \A b \in Block : ErasedAt(region, blocks)[b] =
              IF b \in blocks THEN Erased ELSE region[b]
  BY DEF ErasedAt, Contents, Cell, Erased

LEMMA StagedBlockIs ==
  ASSUME staging \in Contents, job \in Job, job.block \in Block
  PROVE  /\ StagedBlock \in Contents
         /\ \A b \in Block : StagedBlock[b] =
              IF b = job.block THEN staging[b] \cap job.data ELSE staging[b]
<1> DEFINE data == [staging EXCEPT ![job.block] = job.data]
<1>1. data \in Contents /\ data[job.block] = job.data
  BY DEF Contents, Job
<1> HIDE DEF data
<1>2. StagedBlock = [b \in Block |-> IF b = job.block THEN staging[b] \cap data[b]
                                    ELSE staging[b]]
  BY DEF StagedBlock, Programmed, data
<1>3. \A b \in Block : staging[b] \cap data[b] \in Cell /\ staging[b] \in Cell
  BY <1>1 DEF Contents, Cell
<1> QED
  BY <1>1, <1>2, <1>3 DEF Contents

-----------------------------------------------------------------------------
(* Every action preserves the invariant.                                   *)

LEMMA InitStaged == ASSUME Init PROVE StagedInv
<1>1. live \in Contents
  BY StagedAssumption DEF Init, Contents, Cell, Erased
<1>2. TypeOK
  BY <1>1 DEF Init, TypeOK, Job, Idle, Session, Block, Cell
<1> QED
  BY <1>2 DEF Init, StagedInv, JobOK, ClearedSoFar, WrittenStaged, UnwrittenWithin,
     UnwrittenLive, UnwrittenErased, FilledSoFar, StagedWhole, ErasedSoFar,
     CopiedSoFar, Idle

LEMMA WriteKeeps == ASSUME StagedInv, Write PROVE StagedInv'
<1>1. PICK b \in Block, d \in HostData :
        job' = [op |-> IF open THEN "stage" ELSE "clear",
                left |-> IF open THEN {} ELSE Block, block |-> b, data |-> d]
  BY DEF Write
<1>2. job' \in Job /\ job'.op = (IF open THEN "stage" ELSE "clear")
      /\ job'.left = (IF open THEN {} ELSE Block) /\ job'.block \in Block
  BY <1>1, StagedAssumption DEF Job
<1>3. /\ session' \in Session /\ (Sound' <=> Sound)
      /\ session'.wanted = session.wanted /\ session'.tried = session.tried
      /\ session'.begun = (open /\ session.begun)
  BY DEF Write, Clean, StagedInv, TypeOK, Session, Sound
<1>4. TypeOK'
  BY <1>2, <1>3 DEF StagedInv, TypeOK, Write
<1>5. JobOK' /\ ClearedSoFar'
  BY <1>2, <1>3 DEF StagedInv, JobOK, ClearedSoFar, Write
<1>6. ASSUME Sound
      PROVE  (WrittenStaged /\ UnwrittenWithin /\ UnwrittenLive /\ UnwrittenErased
              /\ FilledSoFar /\ StagedWhole /\ ErasedSoFar /\ CopiedSoFar)'
  BY <1>2, <1>3, <1>6 DEF StagedInv, Write, WrittenStaged, UnwrittenWithin,
     UnwrittenLive, UnwrittenErased, FilledSoFar, StagedWhole, ErasedSoFar,
     CopiedSoFar, Unwritten
<1> QED
  BY <1>3, <1>4, <1>5, <1>6 DEF StagedInv

LEMMA ClearKeeps == ASSUME StagedInv, Clear PROVE StagedInv'
<1>1. CASE job.left = {}
  <2>1. /\ open' /\ written' = {} /\ session' = Opened
        /\ UNCHANGED <<live, staging>> /\ job' = [job EXCEPT !.op = "stage"]
    BY <1>1 DEF Clear
  <2>2. /\ job' \in Job /\ job'.op = "stage" /\ job'.left = {}
        /\ job'.block \in Block
    BY <1>1, <2>1 DEF StagedInv, TypeOK, Job, JobOK, Clear
  <2>3. /\ session' \in Session /\ session'.wanted = live
        /\ session'.begun = FALSE /\ session'.tried = FALSE
    BY <2>1 DEF Opened, Session, StagedInv, TypeOK
  <2>4. TypeOK' /\ JobOK' /\ ClearedSoFar'
    BY <2>1, <2>2, <2>3 DEF StagedInv, TypeOK, JobOK, ClearedSoFar
  <2>5. \A b \in Block : staging[b] = Erased /\ live[b] \subseteq Erased
    BY <1>1 DEF StagedInv, ClearedSoFar, Clear, TypeOK, Contents, Cell, Erased
  <2> QED
    BY <2>1, <2>2, <2>3, <2>4, <2>5 DEF StagedInv, WrittenStaged, UnwrittenWithin,
       UnwrittenLive, UnwrittenErased, FilledSoFar, StagedWhole, ErasedSoFar,
       CopiedSoFar, Unwritten
<1>2. CASE job.left # {}
  <2>1. PICK b \in job.left : /\ staging' = ErasedAt(staging, Sector(b))
                              /\ job' = [job EXCEPT !.left = @ \ Sector(b)]
    BY <1>2 DEF Clear
  <2>2. UNCHANGED <<live, open, written, session>>
    BY <1>2 DEF Clear
  <2>3. /\ job' \in Job /\ job'.op = "clear" /\ job'.block = job.block
        /\ job'.left = job.left \ Sector(b)
    BY <2>1 DEF StagedInv, TypeOK, Job, Clear
  <2>4. /\ staging' \in Contents
        /\ \A c \in Block : staging'[c] = IF c \in Sector(b) THEN Erased ELSE staging[c]
    BY <2>1, ErasedBlocks DEF StagedInv, TypeOK
  <2>5. TypeOK' /\ JobOK'
    BY <2>2, <2>3, <2>4 DEF StagedInv, TypeOK, JobOK, Clear
  <2>6. ClearedSoFar'
    BY <2>3, <2>4 DEF StagedInv, ClearedSoFar, Clear
  <2> QED
    BY <2>2, <2>3, <2>5, <2>6 DEF StagedInv, JobOK, WrittenStaged, UnwrittenWithin,
       UnwrittenLive, UnwrittenErased, FilledSoFar, StagedWhole, ErasedSoFar,
       CopiedSoFar, Clear, Sound
<1> QED
  BY <1>1, <1>2

LEMMA StageKeeps == ASSUME StagedInv, Stage PROVE StagedInv'
<1>1. /\ job' = Idle /\ job' \in Job /\ job'.op = "idle" /\ UNCHANGED <<live, open>>
      /\ open /\ job.op = "stage" /\ job.block \in Block /\ job.data \in Cell
  BY StagedAssumption DEF Stage, StagedInv, JobOK, TypeOK, Job, Idle, Block, Cell
<1>2. CASE Rewritten
  <2>1. UNCHANGED <<staging, written, session>>
    BY <1>2 DEF Stage
  <2> QED
    BY <1>1, <2>1 DEF StagedInv, TypeOK, JobOK, ClearedSoFar, WrittenStaged,
       UnwrittenWithin, UnwrittenLive, UnwrittenErased, FilledSoFar, StagedWhole,
       ErasedSoFar, CopiedSoFar, Unwritten, Sound
<1>3. CASE ~Rewritten
  <2>1. /\ staging' = StagedBlock /\ written' = written \cup {job.block}
        /\ session' = [session EXCEPT !.wanted[job.block] = job.data,
                         !.steady = @ /\ (session.tried => job.block \in written)]
    BY <1>3 DEF Stage
  <2>2. /\ staging' \in Contents
        /\ \A b \in Block : staging'[b] =
             IF b = job.block THEN staging[b] \cap job.data ELSE staging[b]
    BY <1>1, <2>1, StagedBlockIs DEF StagedInv, TypeOK
  <2>3. /\ session' \in Session
        /\ session'.begun = session.begun /\ session'.tried = session.tried
        /\ \A b \in Block : session'.wanted[b] =
             IF b = job.block THEN job.data ELSE session.wanted[b]
    BY <1>1, <2>1 DEF StagedInv, TypeOK, Session, Contents
  <2>4. Sound' => Sound /\ (session.tried => job.block \in written)
    BY <2>1 DEF StagedInv, TypeOK, Session, Sound
  <2>5. TypeOK' /\ JobOK' /\ ClearedSoFar'
    BY <1>1, <2>1, <2>2, <2>3 DEF StagedInv, TypeOK, JobOK, ClearedSoFar
  <2>6. ASSUME Sound'
        PROVE  staging'[job.block] = session'.wanted[job.block]
    <3>1. CASE job.block \in written
      <4>1. job.data \subseteq staging[job.block]
        BY <1>3, <3>1 DEF Rewritten
      <4> QED
        BY <1>1, <2>2, <2>3, <4>1
    <3>2. CASE job.block \notin written
      <4>1. Sound /\ ~session.tried /\ job.block \in Unwritten
        BY <1>1, <2>4, <2>6, <3>2 DEF Unwritten
      <4>2. staging[job.block] = Erased
        BY <1>1, <4>1 DEF StagedInv, UnwrittenErased
      <4> QED
        BY <1>1, <2>2, <2>3, <4>2 DEF Erased, Cell
    <3> QED
      BY <3>1, <3>2
  <2>7. ASSUME Sound'
        PROVE  (WrittenStaged /\ UnwrittenWithin /\ UnwrittenLive /\ UnwrittenErased
                /\ StagedWhole)'
    <3>1. Sound
      BY <2>4, <2>7
    <3>2. WrittenStaged'
      <4>1. \A b \in written : b \in Block /\ staging[b] = session.wanted[b]
        BY <1>1, <3>1 DEF StagedInv, WrittenStaged, TypeOK
      <4>2. \A b \in written' : staging'[b] = session'.wanted[b]
        <5> TAKE b \in written'
        <5>1. CASE b = job.block
          BY <2>6, <2>7, <5>1
        <5>2. CASE b # job.block
          <6>1. b \in written
            BY <2>1, <5>2
          <6>2. b \in Block /\ staging[b] = session.wanted[b]
            BY <4>1, <6>1
          <6> QED
            BY <2>2, <2>3, <5>2, <6>2
        <5> QED
          BY <5>1, <5>2
      <4> QED
        BY <4>2 DEF WrittenStaged
    <3>3. UnwrittenWithin' /\ UnwrittenLive' /\ UnwrittenErased'
      <4>1. \A b \in Unwritten' : /\ b \in Unwritten /\ staging'[b] = staging[b]
                                   /\ live'[b] = live[b]
                                   /\ session'.wanted[b] = session.wanted[b]
        BY <1>1, <2>1, <2>2, <2>3 DEF Unwritten
      <4>2. UnwrittenWithin' /\ UnwrittenLive'
        BY <1>1, <2>3, <3>1, <4>1 DEF StagedInv, UnwrittenWithin, UnwrittenLive
      <4>3. UnwrittenErased'
        BY <1>1, <2>3, <3>1, <4>1 DEF StagedInv, UnwrittenErased
      <4> QED
        BY <4>2, <4>3
    <3>4. StagedWhole'
      BY <2>2, <2>3, <2>6, <2>7, <3>1 DEF StagedInv, StagedWhole
    <3> QED
      BY <3>2, <3>3, <3>4
  <2>8. (FilledSoFar /\ ErasedSoFar /\ CopiedSoFar)'
    BY <1>1 DEF FilledSoFar, ErasedSoFar, CopiedSoFar
  <2> QED
    BY <2>5, <2>7, <2>8 DEF StagedInv
<1> QED
  BY <1>2, <1>3

LEMMA CommitKeeps == ASSUME StagedInv, Commit PROVE StagedInv'
<1>1. /\ job' \in Job /\ job'.op = "fill" /\ job'.left = Unwritten
      /\ open /\ job.op = "idle" /\ UNCHANGED <<live, staging, open, written, session>>
  BY StagedAssumption DEF Commit, Idle, Job, Unwritten, Block, Cell
<1>2. Unwritten' = Unwritten
  BY <1>1 DEF Unwritten
<1>3. TypeOK' /\ JobOK' /\ ClearedSoFar'
  BY <1>1, <1>2 DEF StagedInv, TypeOK, JobOK, ClearedSoFar
<1>4. FilledSoFar'
  BY <1>1, <1>2 DEF FilledSoFar
<1> QED
  BY <1>1, <1>2, <1>3, <1>4 DEF StagedInv, WrittenStaged, UnwrittenWithin,
     UnwrittenLive, UnwrittenErased, StagedWhole, ErasedSoFar, CopiedSoFar, Sound

\* One filled block of a sound write is the block the host wants.
LEMMA FilledBlock ==
  ASSUME StagedInv, Sound, job.op = "fill", NEW b \in Unwritten
  PROVE  staging[b] \cap live[b] = session.wanted[b]
<1>1. open
  BY DEF StagedInv, JobOK
<1>2. /\ session.wanted[b] \subseteq live[b] /\ session.wanted[b] \subseteq staging[b]
  BY <1>1 DEF StagedInv, UnwrittenWithin
<1>3. CASE session.begun
  <2>1. staging[b] = session.wanted[b]
    BY <1>3 DEF StagedInv, StagedWhole, Unwritten
  <2> QED
    BY <1>2, <2>1
<1>4. CASE ~session.begun
  <2>1. live[b] = session.wanted[b]
    BY <1>1, <1>4 DEF StagedInv, UnwrittenLive
  <2> QED
    BY <1>2, <2>1
<1> QED
  BY <1>3, <1>4

LEMMA FilledIs ==
  ASSUME TypeOK, NEW b \in Block
  PROVE  /\ Filled(b) \in Contents
         /\ \A c \in Block : Filled(b)[c] =
              IF c = b THEN staging[c] \cap live[c] ELSE staging[c]
<1>1. Filled(b) = [c \in Block |-> IF c = b THEN staging[c] \cap live[c] ELSE staging[c]]
  BY DEF Filled, Programmed
<1>2. \A c \in Block : staging[c] \cap live[c] \in Cell /\ staging[c] \in Cell
  BY DEF TypeOK, Contents, Cell
<1> QED
  BY <1>1, <1>2 DEF Contents

LEMMA FillKeeps == ASSUME StagedInv, Fill PROVE StagedInv'
<1>1. job.op = "fill" /\ open /\ UNCHANGED <<live, open, written>> /\ Unwritten' = Unwritten
  BY DEF Fill, StagedInv, JobOK, Unwritten
<1>2. CASE job.left = {}
  <2>1. /\ job' = [job EXCEPT !.op = "erase", !.left = Block] /\ staging' = staging
        /\ session' = [session EXCEPT !.begun = TRUE]
    BY <1>2 DEF Fill
  <2>2. job' \in Job /\ job'.op = "erase" /\ job'.left = Block
    BY <2>1 DEF StagedInv, TypeOK, Job
  <2>3. /\ session' \in Session /\ session'.begun /\ session'.wanted = session.wanted
        /\ session'.tried = session.tried /\ (Sound' <=> Sound)
    BY <2>1 DEF StagedInv, TypeOK, Session, Sound
  <2>4. TypeOK' /\ JobOK' /\ ClearedSoFar'
    BY <1>1, <2>1, <2>2, <2>3 DEF StagedInv, TypeOK, JobOK, ClearedSoFar
  <2>5. ASSUME Sound PROVE StagedWhole'
    <3>1. \A b \in Block : b \in written \/ b \in Unwritten \ job.left
      BY <1>2 DEF Unwritten
    <3>2. \A b \in Block : staging[b] = session.wanted[b]
      BY <1>1, <2>5, <3>1 DEF StagedInv, WrittenStaged, FilledSoFar
    <3> QED
      BY <2>1, <2>3, <3>2 DEF StagedWhole
  <2>6. ASSUME Sound
        PROVE  (WrittenStaged /\ UnwrittenWithin /\ UnwrittenLive /\ UnwrittenErased
                /\ FilledSoFar /\ ErasedSoFar /\ CopiedSoFar)'
    BY <1>1, <2>1, <2>2, <2>3, <2>6 DEF StagedInv, WrittenStaged, UnwrittenWithin,
       UnwrittenLive, UnwrittenErased, FilledSoFar, ErasedSoFar, CopiedSoFar
  <2> QED
    BY <2>3, <2>4, <2>5, <2>6 DEF StagedInv
<1>3. CASE job.left # {}
  <2>1. PICK b \in job.left : /\ staging' = Filled(b)
                              /\ job' = [job EXCEPT !.left = @ \ {b}]
    BY <1>3 DEF Fill
  <2>2. session' = session /\ (Sound' <=> Sound)
    BY <1>3 DEF Fill, Sound
  <2>3. b \in Unwritten /\ b \in Block
    BY <1>1 DEF StagedInv, JobOK, Unwritten
  <2>4. job' \in Job /\ job'.op = "fill" /\ job'.left = job.left \ {b}
    BY <1>1, <2>1 DEF StagedInv, TypeOK, Job
  <2>5. /\ staging' \in Contents
        /\ \A c \in Block : staging'[c] =
             IF c = b THEN staging[c] \cap live[c] ELSE staging[c]
    BY <2>1, <2>3, FilledIs DEF StagedInv
  <2>6. TypeOK' /\ JobOK' /\ ClearedSoFar'
    BY <1>1, <2>2, <2>4, <2>5 DEF StagedInv, TypeOK, JobOK, ClearedSoFar
  <2>7. ASSUME Sound
        PROVE  \A c \in Block : staging'[c] = IF c = b THEN session.wanted[c] ELSE staging[c]
    BY <1>1, <2>3, <2>5, <2>7, FilledBlock
  <2>8. ASSUME Sound
        PROVE  WrittenStaged' /\ UnwrittenWithin' /\ FilledSoFar' /\ StagedWhole'
    <3>1. WrittenStaged'
      BY <1>1, <2>2, <2>3, <2>7, <2>8 DEF StagedInv, WrittenStaged, Unwritten, TypeOK
    <3>2. UnwrittenWithin'
      BY <1>1, <2>2, <2>7, <2>8 DEF StagedInv, UnwrittenWithin, Unwritten
    <3>3. FilledSoFar'
      BY <1>1, <2>2, <2>4, <2>7, <2>8 DEF StagedInv, FilledSoFar, Unwritten
    <3>4. StagedWhole'
      BY <2>2, <2>7, <2>8 DEF StagedInv, StagedWhole
    <3> QED
      BY <3>1, <3>2, <3>3, <3>4
  <2>9. ASSUME Sound
        PROVE  UnwrittenLive' /\ UnwrittenErased' /\ ErasedSoFar' /\ CopiedSoFar'
    BY <1>1, <2>2, <2>4, <2>9 DEF StagedInv, UnwrittenLive, UnwrittenErased,
       ErasedSoFar, CopiedSoFar
  <2> QED
    BY <2>2, <2>6, <2>8, <2>9 DEF StagedInv
<1> QED
  BY <1>2, <1>3

LEMMA EraseKeeps == ASSUME StagedInv, Erase PROVE StagedInv'
<1>1. /\ job.op = "erase" /\ open /\ session.begun /\ (Sound' <=> Sound)
      /\ UNCHANGED <<staging, open, written, session>> /\ Unwritten' = Unwritten
  BY DEF Erase, StagedInv, JobOK, Unwritten, Sound
<1>2. CASE job.left = {}
  <2>1. job' = [job EXCEPT !.op = "copy", !.left = Block] /\ live' = live
    BY <1>2 DEF Erase
  <2>2. job' \in Job /\ job'.op = "copy" /\ job'.left = Block
    BY <2>1 DEF StagedInv, TypeOK, Job
  <2>3. TypeOK' /\ JobOK' /\ ClearedSoFar'
    BY <1>1, <2>1, <2>2 DEF StagedInv, TypeOK, JobOK, ClearedSoFar
  <2>4. ASSUME Sound PROVE CopiedSoFar'
    BY <1>1, <1>2, <2>1, <2>2, <2>4 DEF StagedInv, ErasedSoFar, CopiedSoFar
  <2> QED
    BY <1>1, <2>1, <2>2, <2>3, <2>4 DEF StagedInv, WrittenStaged, UnwrittenWithin,
       UnwrittenLive, UnwrittenErased, FilledSoFar, StagedWhole, ErasedSoFar
<1>3. CASE job.left # {}
  <2>1. PICK b \in job.left : /\ live' = ErasedAt(live, Sector(b))
                              /\ job' = [job EXCEPT !.left = @ \ Sector(b)]
    BY <1>3 DEF Erase
  <2>2. job' \in Job /\ job'.op = "erase" /\ job'.left = job.left \ Sector(b)
    BY <1>1, <2>1 DEF StagedInv, TypeOK, Job
  <2>3. /\ live' \in Contents
        /\ \A c \in Block : live'[c] = IF c \in Sector(b) THEN Erased ELSE live[c]
    BY <2>1, ErasedBlocks DEF StagedInv, TypeOK
  <2>4. \A c \in Block : session.wanted[c] \subseteq Erased
    BY DEF StagedInv, TypeOK, Session, Contents, Cell, Erased
  <2>5. TypeOK' /\ JobOK' /\ ClearedSoFar'
    BY <1>1, <2>2, <2>3 DEF StagedInv, TypeOK, JobOK, ClearedSoFar
  <2>6. ASSUME Sound PROVE UnwrittenWithin' /\ ErasedSoFar'
    <3>1. UnwrittenWithin'
      BY <1>1, <2>3, <2>4, <2>6 DEF StagedInv, UnwrittenWithin, Unwritten
    <3>2. ErasedSoFar'
      BY <1>1, <2>2, <2>3, <2>6 DEF StagedInv, ErasedSoFar
    <3> QED
      BY <3>1, <3>2
  <2> QED
    BY <1>1, <2>2, <2>5, <2>6 DEF StagedInv, WrittenStaged, UnwrittenLive,
       UnwrittenErased, FilledSoFar, StagedWhole, CopiedSoFar
<1> QED
  BY <1>2, <1>3

\* What a page of the copy leaves in the live region.
LEMMA CopiedIs ==
  ASSUME StagedInv, NEW b \in Block
  PROVE  /\ Programmed(live, Page(b), staging) \in Contents
         /\ \A c \in Block : Programmed(live, Page(b), staging)[c] =
              IF c \in Page(b) THEN live[c] \cap staging[c] ELSE live[c]
<1>1. \A c \in Block : live[c] \cap staging[c] \in Cell /\ live[c] \in Cell
  BY DEF StagedInv, TypeOK, Contents, Cell
<1> QED
  BY <1>1 DEF Programmed, Contents

LEMMA CopyKeeps == ASSUME StagedInv, Copy PROVE StagedInv'
<1>1. /\ job.op = "copy" /\ open /\ session.begun /\ (Sound' <=> Sound)
      /\ UNCHANGED <<staging, open, written, session>> /\ Unwritten' = Unwritten
  BY DEF Copy, StagedInv, JobOK, Unwritten, Sound
<1>2. PICK b \in job.left : /\ live' = Programmed(live, Page(b), staging)
                            /\ job' = [job EXCEPT !.left = @ \ Page(b)]
  BY DEF Copy
<1>3. /\ b \in Block /\ job' \in Job /\ job'.op = "copy"
      /\ job'.left = job.left \ Page(b)
  BY <1>1, <1>2 DEF StagedInv, TypeOK, Job
<1>4. /\ live' \in Contents
      /\ \A c \in Block : live'[c] = IF c \in Page(b) THEN live[c] \cap staging[c] ELSE live[c]
  BY <1>2, <1>3, CopiedIs
<1>5. TypeOK' /\ JobOK' /\ ClearedSoFar'
  BY <1>1, <1>3, <1>4 DEF StagedInv, TypeOK, JobOK, ClearedSoFar
<1>6. ASSUME Sound PROVE UnwrittenWithin' /\ CopiedSoFar'
  <2>1. \A c \in Block : /\ staging[c] = session.wanted[c]
                         /\ session.wanted[c] \subseteq Erased
    BY <1>1, <1>6 DEF StagedInv, StagedWhole, TypeOK, Session, Contents, Cell, Erased
  <2>2. \A c \in Block : live[c] = IF c \in job.left THEN Erased ELSE session.wanted[c]
    BY <1>1, <1>6 DEF StagedInv, CopiedSoFar
  <2>3. \A c \in Block :
          live'[c] = IF c \in job'.left THEN Erased ELSE session.wanted[c]
    <3> TAKE c \in Block
    <3>1. CASE c \in Page(b)
      <4>1. live'[c] = live[c] \cap session.wanted[c] /\ c \notin job'.left
        BY <1>3, <1>4, <2>1, <3>1
      <4>2. live[c] \cap session.wanted[c] = session.wanted[c]
        BY <2>1, <2>2
      <4> QED
        BY <4>1, <4>2
    <3>2. CASE c \notin Page(b)
      BY <1>3, <1>4, <2>2, <3>2
    <3> QED
      BY <3>1, <3>2
  <2>4. \A c \in Block : session.wanted[c] \subseteq live'[c]
    BY <2>1, <2>3
  <2> QED
    BY <1>1, <1>3, <2>1, <2>3, <2>4 DEF UnwrittenWithin, CopiedSoFar, Unwritten
<1> QED
  BY <1>1, <1>3, <1>5, <1>6 DEF StagedInv, WrittenStaged, UnwrittenLive,
     UnwrittenErased, FilledSoFar, StagedWhole, ErasedSoFar

\* A commit that ends has the wanted contents in the live region.
LEMMA CommittedWanted ==
  ASSUME StagedInv, Committed, Sound
  PROVE  live = session.wanted
<1>1. \A b \in Block : live[b] = session.wanted[b]
  BY DEF StagedInv, CopiedSoFar, Committed
<1> QED
  BY <1>1 DEF StagedInv, TypeOK, Session, Contents

LEMMA CommittedKeeps == ASSUME StagedInv, Committed PROVE StagedInv'
<1>1. /\ ~open' /\ written' = {} /\ job' = Idle /\ UNCHANGED <<live, staging>>
      /\ job' \in Job /\ job'.op = "idle"
  BY StagedAssumption DEF Committed, Idle, Job, Block, Cell
<1>2. session' \in Session /\ ~session'.begun
  BY DEF Committed, Closed, StagedInv, TypeOK, Session
<1>3. TypeOK' /\ JobOK' /\ ClearedSoFar'
  BY <1>1, <1>2 DEF Committed, StagedInv, TypeOK, JobOK, ClearedSoFar
<1> QED
  BY <1>1, <1>2, <1>3 DEF StagedInv, WrittenStaged, UnwrittenWithin, UnwrittenLive,
     UnwrittenErased, FilledSoFar, StagedWhole, ErasedSoFar, CopiedSoFar

-----------------------------------------------------------------------------
(* Failure and power.                                                      *)

\* What a step that fails, or is cut short, may do to the regions of a sound
\* write: what is wanted stays within them, and a staging region that is whole
\* stays whole.
LEMMA FailedStepIs ==
  ASSUME StagedInv, FailedStep
  PROVE  /\ live' \in Contents /\ staging' \in Contents
         /\ Sound /\ (job.op = "stage" => Rewritten) =>
              /\ job.op \notin {"clear", "fill"} => staging' = staging
              /\ job.op \notin {"erase", "copy"} => live' = live
              /\ job.op = "fill" => \A b \in Block :
                   /\ session.wanted[b] \subseteq staging[b] => session.wanted[b] \subseteq staging'[b]
                   /\ staging[b] = session.wanted[b] => staging'[b] = staging[b]
              /\ open /\ job.op \in {"erase", "copy"} =>
                   \A b \in Unwritten : session.wanted[b] \subseteq live'[b]
<1> DEFINE Claim ==
      Sound /\ (job.op = "stage" => Rewritten) =>
        /\ job.op \notin {"clear", "fill"} => staging' = staging
        /\ job.op \notin {"erase", "copy"} => live' = live
        /\ job.op = "fill" => \A b \in Block :
             /\ session.wanted[b] \subseteq staging[b] => session.wanted[b] \subseteq staging'[b]
             /\ staging[b] = session.wanted[b] => staging'[b] = staging[b]
        /\ open /\ job.op \in {"erase", "copy"} =>
             \A b \in Unwritten : session.wanted[b] \subseteq live'[b]
<1>1. TypeOK /\ job.left \subseteq Block
  BY DEF StagedInv, TypeOK, Job
<1>2. CASE UNCHANGED <<live, staging>>
  BY <1>1, <1>2 DEF StagedInv, TypeOK, UnwrittenWithin
<1>3. CASE /\ job.op = "stage" /\ ~Rewritten
           /\ staging' \in Between(staging, StagedBlock) /\ UNCHANGED live
  BY <1>1, <1>3 DEF Between, TypeOK
<1>4. ASSUME NEW b \in job.left, job.op = "clear",
             staging' = ErasedAt(staging, Sector(b)), UNCHANGED live
      PROVE  live' \in Contents /\ staging' \in Contents /\ Claim
  BY <1>1, <1>4, ErasedBlocks DEF TypeOK
<1>5. ASSUME NEW b \in job.left, job.op = "fill",
             staging' \in Between(staging, Filled(b)), UNCHANGED live
      PROVE  live' \in Contents /\ staging' \in Contents /\ Claim
  <2>1. b \in Unwritten /\ b \in Block
    BY <1>5 DEF StagedInv, JobOK, Unwritten
  <2>2. staging' \in Contents /\ live' \in Contents
    BY <1>1, <1>5 DEF Between, TypeOK
  <2>3. \A c \in Block : /\ Filled(b)[c] \subseteq staging'[c]
                         /\ staging'[c] \subseteq staging[c]
    BY <1>5 DEF Between
  <2>4. \A c \in Block : Filled(b)[c] = IF c = b THEN staging[c] \cap live[c] ELSE staging[c]
    BY <1>1, <2>1, FilledIs
  <2>5. ASSUME Sound, NEW c \in Block
        PROVE  /\ session.wanted[c] \subseteq staging[c] => session.wanted[c] \subseteq staging'[c]
               /\ staging[c] = session.wanted[c] => staging'[c] = staging[c]
    <3>1. CASE c = b
      <4>1. Filled(b)[c] = session.wanted[c]
        BY <1>5, <2>1, <2>4, <2>5, <3>1, FilledBlock
      <4> QED
        BY <2>3, <4>1
    <3>2. CASE c # b
      BY <2>3, <2>4, <3>2
    <3> QED
      BY <3>1, <3>2
  <2> QED
    BY <1>5, <2>2, <2>5
<1>6. ASSUME NEW b \in job.left, job.op = "erase",
             live' = ErasedAt(live, Sector(b)), UNCHANGED staging
      PROVE  live' \in Contents /\ staging' \in Contents /\ Claim
  <2>1. /\ live' \in Contents /\ staging' \in Contents
        /\ \A c \in Block : live'[c] = IF c \in Sector(b) THEN Erased ELSE live[c]
    BY <1>1, <1>6, ErasedBlocks DEF TypeOK
  <2>2. ASSUME Sound, open, NEW c \in Unwritten
        PROVE  session.wanted[c] \subseteq live'[c]
    <3>1. session.wanted[c] \subseteq live[c] /\ c \in Block
      BY <2>2 DEF StagedInv, UnwrittenWithin, Unwritten
    <3>2. session.wanted[c] \subseteq Erased
      BY <1>1, <3>1 DEF TypeOK, Session, Contents, Cell, Erased
    <3> QED
      BY <2>1, <3>1, <3>2
  <2> QED
    BY <1>6, <2>1, <2>2
<1>7. ASSUME NEW b \in job.left, job.op = "copy",
             live' \in Between(live, Programmed(live, Page(b), staging)), UNCHANGED staging
      PROVE  live' \in Contents /\ staging' \in Contents /\ Claim
  <2>1. /\ live' \in Contents /\ staging' \in Contents
        /\ \A c \in Block : Programmed(live, Page(b), staging)[c] \subseteq live'[c]
    BY <1>1, <1>7 DEF Between, TypeOK
  <2>2. \A c \in Block : live[c] \cap staging[c] \subseteq live'[c]
    BY <1>1, <2>1, CopiedIs
  <2>3. ASSUME Sound, open, NEW c \in Unwritten
        PROVE  session.wanted[c] \subseteq live'[c]
    <3>1. /\ c \in Block /\ session.wanted[c] \subseteq live[c]
          /\ session.wanted[c] \subseteq staging[c]
      BY <2>3 DEF StagedInv, UnwrittenWithin, Unwritten
    <3> QED
      BY <2>2, <3>1
  <2> QED
    BY <1>7, <2>1, <2>3
<1> QED
  BY <1>2, <1>3, <1>4, <1>5, <1>6, <1>7 DEF FailedStep

LEMMA FailedIs ==
  ASSUME StagedInv
  PROVE  /\ Failed \in Session /\ Failed.wanted = session.wanted
         /\ Failed.begun = session.begun /\ Failed.steady = session.steady
         /\ Failed.tried = (session.tried \/ job.op \in {"fill", "erase", "copy"})
         /\ Failed.acked = (session.acked /\ (job.op = "stage" => Rewritten))
  BY DEF StagedInv, TypeOK, Session, Failed

LEMMA IdleIs == Idle \in Job /\ Idle.op = "idle"
  BY StagedAssumption DEF Idle, Job, Block, Cell

LEMMA FailKeeps == ASSUME StagedInv, Fail PROVE StagedInv'
<1>1. /\ job' \in Job /\ job'.op = "idle" /\ job.op # "idle"
      /\ UNCHANGED <<open, written>> /\ Unwritten' = Unwritten
  BY IdleIs DEF Fail, Unwritten
<1>2. live' \in Contents /\ staging' \in Contents
  BY FailedStepIs DEF Fail
<1>3. /\ session' \in Session /\ session'.wanted = session.wanted
      /\ session'.begun = session.begun
      /\ session'.tried = (session.tried \/ job.op \in {"fill", "erase", "copy"})
      /\ Sound' => Sound /\ (job.op = "stage" => Rewritten)
  BY FailedIs DEF Fail, Sound
<1>4. job.op \in {"clear", "stage", "fill", "erase", "copy"}
  BY <1>1 DEF StagedInv, TypeOK, Job
<1>5. TypeOK' /\ JobOK' /\ ClearedSoFar'
  BY <1>1, <1>2, <1>3, <1>4 DEF StagedInv, TypeOK, JobOK, ClearedSoFar
<1>6. ASSUME Sound', open
      PROVE  (WrittenStaged /\ UnwrittenWithin /\ UnwrittenLive /\ UnwrittenErased)'
  <2>1. Sound /\ (job.op = "stage" => Rewritten) /\ job.op # "clear"
    BY <1>3, <1>6 DEF StagedInv, JobOK
  <2>2. /\ job.op # "fill" => staging' = staging
        /\ job.op \notin {"erase", "copy"} => live' = live
        /\ job.op = "fill" => \A b \in Block :
             /\ session.wanted[b] \subseteq staging[b] => session.wanted[b] \subseteq staging'[b]
             /\ staging[b] = session.wanted[b] => staging'[b] = staging[b]
        /\ job.op \in {"erase", "copy"} =>
             \A b \in Unwritten : session.wanted[b] \subseteq live'[b]
    BY <1>6, <2>1, FailedStepIs DEF Fail
  <2>3. \A b \in written : b \in Block /\ staging[b] = session.wanted[b]
    BY <1>6, <2>1 DEF StagedInv, WrittenStaged, TypeOK
  <2>4. \A b \in Unwritten : /\ b \in Block /\ session.wanted[b] \subseteq live[b]
                             /\ session.wanted[b] \subseteq staging[b]
    BY <1>6, <2>1 DEF StagedInv, UnwrittenWithin, Unwritten
  <2>5. WrittenStaged'
    BY <1>1, <1>3, <2>2, <2>3 DEF WrittenStaged
  <2>6. UnwrittenWithin'
    BY <1>1, <1>3, <1>4, <2>2, <2>4 DEF UnwrittenWithin
  <2>7. UnwrittenLive'
    BY <1>1, <1>3, <1>6, <2>1, <2>2 DEF StagedInv, JobOK, UnwrittenLive
  <2>8. UnwrittenErased'
    BY <1>1, <1>3, <1>4, <1>6, <2>1, <2>2 DEF StagedInv, UnwrittenErased
  <2> QED
    BY <2>5, <2>6, <2>7, <2>8
<1>7. ASSUME Sound' PROVE StagedWhole'
  <2>1. Sound /\ (job.op = "stage" => Rewritten) /\ (session.begun => job.op # "clear")
    BY <1>3, <1>7 DEF StagedInv, JobOK
  <2>2. /\ job.op \notin {"clear", "fill"} => staging' = staging
        /\ job.op = "fill" => \A b \in Block :
             staging[b] = session.wanted[b] => staging'[b] = staging[b]
    BY <2>1, FailedStepIs DEF Fail
  <2> QED
    BY <1>3, <2>1, <2>2 DEF StagedInv, StagedWhole
<1>8. (FilledSoFar /\ ErasedSoFar /\ CopiedSoFar)'
  BY <1>1 DEF FilledSoFar, ErasedSoFar, CopiedSoFar
<1>9. ~open => (WrittenStaged /\ UnwrittenWithin /\ UnwrittenLive /\ UnwrittenErased)'
  BY <1>1 DEF WrittenStaged, UnwrittenWithin, UnwrittenLive, UnwrittenErased
<1> QED
  BY <1>5, <1>6, <1>7, <1>8, <1>9 DEF StagedInv

LEMMA PowerCutKeeps == ASSUME StagedInv, PowerCut PROVE StagedInv'
<1>1. /\ job' \in Job /\ job'.op = "idle" /\ open' = FALSE /\ written' = {}
      /\ session' \in Session /\ session'.wanted = session.wanted
      /\ session'.begun = session.begun
      /\ Sound' => Sound /\ (job.op = "stage" => Rewritten)
  BY IdleIs, FailedIs DEF PowerCut, Sound
<1>2. ASSUME FailedStep
      PROVE  /\ live' \in Contents /\ staging' \in Contents
             /\ Sound' /\ session.begun =>
                  \A b \in Block : staging'[b] = session.wanted[b]
  <2>1. live' \in Contents /\ staging' \in Contents
    BY <1>2, FailedStepIs
  <2>2. ASSUME Sound', session.begun
        PROVE  \A b \in Block : staging'[b] = session.wanted[b]
    <3>1. Sound /\ (job.op = "stage" => Rewritten) /\ job.op # "clear"
      BY <1>1, <2>2 DEF StagedInv, JobOK
    <3>2. \A b \in Block : staging[b] = session.wanted[b]
      BY <2>2, <3>1 DEF StagedInv, StagedWhole
    <3>3. /\ job.op # "fill" => staging' = staging
          /\ job.op = "fill" => \A b \in Block :
               staging[b] = session.wanted[b] => staging'[b] = staging[b]
      BY <1>2, <3>1, FailedStepIs
    <3> QED
      BY <3>2, <3>3
  <2> QED
    BY <2>1, <2>2
<1>3. ASSUME ~FailedStep
      PROVE  /\ live' \in Contents /\ staging' \in Contents
             /\ session.begun => staging' = staging
  BY <1>3 DEF PowerCut, Cut, StagedInv, TypeOK, JobOK
<1>4. /\ live' \in Contents /\ staging' \in Contents
      /\ Sound' /\ session.begun => \A b \in Block : staging'[b] = session.wanted[b]
  <2>1. Sound' /\ session.begun => \A b \in Block : staging[b] = session.wanted[b]
    BY <1>1 DEF StagedInv, StagedWhole
  <2> QED
    BY <1>2, <1>3, <2>1
<1>5. TypeOK' /\ JobOK' /\ ClearedSoFar'
  BY <1>1, <1>4 DEF TypeOK, JobOK, ClearedSoFar
<1>6. Sound' => StagedWhole'
  BY <1>1, <1>4 DEF StagedWhole
<1> QED
  BY <1>1, <1>5, <1>6 DEF StagedInv, WrittenStaged, UnwrittenWithin, UnwrittenLive,
     UnwrittenErased, FilledSoFar, ErasedSoFar, CopiedSoFar

LEMMA NextKeeps == ASSUME StagedInv, [Next]_vars PROVE StagedInv'
<1>1. CASE UNCHANGED vars
  BY <1>1 DEF vars, StagedInv, TypeOK, JobOK, ClearedSoFar, WrittenStaged,
     UnwrittenWithin, UnwrittenLive, UnwrittenErased, FilledSoFar, StagedWhole,
     ErasedSoFar, CopiedSoFar, Unwritten, Sound
<1> QED
  BY <1>1, WriteKeeps, ClearKeeps, StageKeeps, CommitKeeps, FillKeeps, EraseKeeps,
     CopyKeeps, CommittedKeeps, FailKeeps, PowerCutKeeps DEF Next

LEMMA StagedHolds == Spec => []StagedInv
<1>1. Init => StagedInv
  BY InitStaged
<1>2. StagedInv /\ [Next]_vars => StagedInv'
  BY NextKeeps
<1> QED
  BY <1>1, <1>2, PTL DEF Spec

-----------------------------------------------------------------------------

\* The regions, the bitmap and the operation under way have their types.
THEOREM StagedTypeCorrect == Spec => []TypeOK
<1>1. StagedInv => TypeOK
  BY DEF StagedInv
<1> QED
  BY <1>1, StagedHolds, PTL

\* From the first erase of the live region until a new write takes the staging
\* region, the staging region is the image the host means, through failures of
\* any step, repeated commits and power cuts.
THEOREM NothingIsLost == Spec => []StagingHoldsAll
<1>1. StagedInv => StagingHoldsAll
  <2> SUFFICES ASSUME StagedInv, session.begun, Sound PROVE staging = session.wanted
    BY DEF StagingHoldsAll
  <2>1. \A b \in Block : staging[b] = session.wanted[b]
    BY DEF StagedInv, StagedWhole
  <2> QED
    BY <2>1 DEF StagedInv, TypeOK, Session, Contents
<1> QED
  BY <1>1, StagedHolds, PTL

\* A host reading during its write sees its own blocks over the old ones.
THEOREM ReadsSeeTheWrite == Spec => []ReadsAsWritten
<1>1. StagedInv => ReadsAsWritten
  BY DEF StagedInv, ReadsAsWritten, WrittenStaged, UnwrittenLive, Unwritten, Read
<1> QED
  BY <1>1, StagedHolds, PTL

\* A commit that ends has replaced the blocks the host wrote and no other.
THEOREM CommitIsExact == Spec => CommitsExactly
<1>1. StagedInv /\ [Next]_vars => [Committed /\ Sound => live = session.wanted]_vars
  BY CommittedWanted
<1> QED
  BY <1>1, StagedHolds, PTL DEF Spec, CommitsExactly
=============================================================================
