----------------------------- MODULE StagedNor ------------------------------
(***************************************************************************)
(* The K1's configuration region behind host block writes                  *)
(* (radio-eeprom: staged.rs over the driver of lib.rs).                    *)
(*                                                                         *)
(* NOR memory clears bits one program at a time and sets them only by      *)
(* erasing a whole sector.  A host block is therefore staged in a spare    *)
(* region, a bitmap in RAM remembers which blocks were, and commit fills   *)
(* the staging region with the rest, erases the live region and copies     *)
(* the staging region back.  A step of this module is one program or erase *)
(* of the memory: each may fail, and the battery may be pulled in it.      *)
(***************************************************************************)
EXTENDS Naturals

CONSTANTS
    Bit,              \* bits of a block; a block's contents are those set
    Blocks,           \* host blocks in the region
    BlocksPerPage,    \* blocks one program reaches
    BlocksPerSector,  \* blocks one erase reaches
    HostData          \* contents the host writes

Block == 0..(Blocks - 1)
Cell == SUBSET Bit
Contents == [Block -> Cell]
Erased == Bit
ErasedContents == [b \in Block |-> Erased]

ASSUME StagedAssumption ==
    /\ Blocks \in Nat /\ BlocksPerPage \in Nat \ {0}
    /\ BlocksPerSector \in Nat \ {0}
    /\ HostData \subseteq Cell

\* The blocks of the page, and of the sector, a block is in.
Page(b) == {c \in Block : c \div BlocksPerPage = b \div BlocksPerPage}
Sector(b) == {c \in Block : c \div BlocksPerSector = b \div BlocksPerSector}

VARIABLES
    live, staging,  \* the two regions
    open, written,  \* Staged::written: Some or None, and its bitmap
    job,            \* the operation under way
    session         \* what has happened to the host's write (history)

vars == <<live, staging, open, written, job, session>>

\* left: the blocks the operation's loop has still to reach.
Job == [op : {"idle", "clear", "stage", "fill", "erase", "copy"},
        left : SUBSET Block, block : Block \cup {Blocks}, data : Cell]
Idle == [op |-> "idle", left |-> {}, block |-> Blocks, data |-> {}]

\* wanted: the region as the host means it.  begun: the live region has been
\* touched and nothing has replaced the staging region since.  tried: a commit
\* of this write has failed.  acked: no block write of it failed.  steady: no
\* block was staged for the first time after a commit failed.
Session == [wanted : Contents, begun : BOOLEAN, tried : BOOLEAN,
            acked : BOOLEAN, steady : BOOLEAN]
Sound == session.acked /\ session.steady

Init ==
    /\ live \in [Block -> HostData \cup {Erased}]
    /\ staging = live
    /\ open = FALSE /\ written = {}
    /\ job = Idle
    /\ session = [wanted |-> live, begun |-> FALSE, tried |-> FALSE,
                  acked |-> TRUE, steady |-> TRUE]

-----------------------------------------------------------------------------
(* The memory.                                                             *)

\* Programming only clears bits.
Programmed(region, blocks, data) ==
    [b \in Block |-> IF b \in blocks THEN region[b] \cap data[b] ELSE region[b]]

ErasedAt(region, blocks) ==
    [b \in Block |-> IF b \in blocks THEN Erased ELSE region[b]]

\* A program that did not finish has cleared some of the bits.
Between(before, after) ==
    {r \in Contents : \A b \in Block : after[b] \subseteq r[b] /\ r[b] \subseteq before[b]}

\* An erase cut short leaves anything in its sector.
Cut(before, blocks) ==
    {r \in Contents : \A b \in Block \ blocks : r[b] = before[b]}

\* Loops run upwards.
First(b) == b \in job.left /\ \A c \in job.left : b <= c

-----------------------------------------------------------------------------
(* Staged::write.                                                          *)

Clean(s) == [s EXCEPT !.begun = FALSE]

\* The host sends a block; the first one of a write erases the staging region.
Write ==
    /\ job.op = "idle"
    /\ \E b \in Block, d \in HostData :
         job' = [op |-> IF open THEN "stage" ELSE "clear",
                 left |-> IF open THEN {} ELSE Block, block |-> b, data |-> d]
    /\ session' = IF open THEN session ELSE Clean(session)
    /\ UNCHANGED <<live, staging, open, written>>

Opened == [wanted |-> live, begun |-> FALSE, tried |-> FALSE,
           acked |-> TRUE, steady |-> TRUE]

Clear ==
    /\ job.op = "clear"
    /\ IF job.left = {}
         THEN /\ open' = TRUE /\ written' = {}
              /\ job' = [job EXCEPT !.op = "stage"]
              /\ session' = Opened
              /\ UNCHANGED staging
         ELSE /\ \E b \in job.left :
                   /\ First(b)
                   /\ staging' = ErasedAt(staging, Sector(b))
                   /\ job' = [job EXCEPT !.left = @ \ Sector(b)]
              /\ UNCHANGED <<open, written, session>>
    /\ UNCHANGED live

\* A block staged before may only lose bits.
RewrittenNever == FALSE
Rewritten == job.block \in written /\ ~(job.data \subseteq staging[job.block])

StagedBlock ==
    Programmed(staging, {job.block}, [staging EXCEPT ![job.block] = job.data])

Stage ==
    /\ job.op = "stage"
    /\ IF Rewritten
         THEN UNCHANGED <<staging, written, session>>
         ELSE /\ staging' = StagedBlock
              /\ written' = written \cup {job.block}
              /\ session' = [session EXCEPT
                   !.wanted[job.block] = job.data,
                   !.steady = @ /\ (session.tried => job.block \in written)]
    /\ job' = Idle
    /\ UNCHANGED <<live, open>>

\* What the host reads.
ReadLive(b) == live[b]
Read(b) == IF open /\ b \in written THEN staging[b] ELSE live[b]

-----------------------------------------------------------------------------
(* Staged::commit.                                                         *)

UnwrittenNone == {}
Unwritten == Block \ written

Commit ==
    /\ job.op = "idle" /\ open
    /\ job' = [Idle EXCEPT !.op = "fill", !.left = Unwritten]
    /\ UNCHANGED <<live, staging, open, written, session>>

\* Programming an erased block changes nothing, so the code skips it.
Filled(b) == Programmed(staging, {b}, live)

Fill ==
    /\ job.op = "fill"
    /\ IF job.left = {}
         THEN /\ job' = [job EXCEPT !.op = "erase", !.left = Block]
              /\ session' = [session EXCEPT !.begun = TRUE]
              /\ UNCHANGED staging
         ELSE /\ \E b \in job.left :
                   /\ First(b)
                   /\ staging' = Filled(b)
                   /\ job' = [job EXCEPT !.left = @ \ {b}]
              /\ UNCHANGED session
    /\ UNCHANGED <<live, open, written>>

Erase ==
    /\ job.op = "erase"
    /\ IF job.left = {}
         THEN /\ job' = [job EXCEPT !.op = "copy", !.left = Block]
              /\ UNCHANGED live
         ELSE \E b \in job.left :
                /\ First(b)
                /\ live' = ErasedAt(live, Sector(b))
                /\ job' = [job EXCEPT !.left = @ \ Sector(b)]
    /\ UNCHANGED <<staging, open, written, session>>

Copy ==
    /\ job.op = "copy" /\ job.left # {}
    /\ \E b \in job.left :
         /\ First(b)
         /\ live' = Programmed(live, Page(b), staging)
         /\ job' = [job EXCEPT !.left = @ \ Page(b)]
    /\ UNCHANGED <<staging, open, written, session>>

Closed == [session EXCEPT !.begun = FALSE]

Committed ==
    /\ job.op = "copy" /\ job.left = {}
    /\ open' = FALSE /\ written' = {}
    /\ job' = Idle
    /\ session' = Closed
    /\ UNCHANGED <<live, staging>>

-----------------------------------------------------------------------------
(* Failure and power.                                                      *)

\* Where a step of the operation may leave the two regions when the bus fails
\* in it or the memory stays busy: a failed erase was refused or is done.
FailedStep ==
    \/ UNCHANGED <<live, staging>>
    \/ /\ job.op = "stage" /\ ~Rewritten
       /\ staging' \in Between(staging, StagedBlock) /\ UNCHANGED live
    \/ \E b \in job.left :
         /\ First(b)
         /\ \/ job.op = "clear" /\ staging' = ErasedAt(staging, Sector(b)) /\ UNCHANGED live
            \/ job.op = "fill" /\ staging' \in Between(staging, Filled(b)) /\ UNCHANGED live
            \/ job.op = "erase" /\ live' = ErasedAt(live, Sector(b)) /\ UNCHANGED staging
            \/ /\ job.op = "copy"
               /\ live' \in Between(live, Programmed(live, Page(b), staging))
               /\ UNCHANGED staging

\* The error returns; a commit's leaves the write open.
Failed == [session EXCEPT
             !.acked = @ /\ (job.op = "stage" => Rewritten),
             !.tried = @ \/ job.op \in {"fill", "erase", "copy"}]

Fail ==
    /\ job.op # "idle"
    /\ FailedStep
    /\ job' = Idle
    /\ session' = Failed
    /\ UNCHANGED <<open, written>>

\* An interrupted erase can leave anything.
PowerCut ==
    /\ \/ FailedStep
       \/ \E b \in job.left :
            /\ First(b)
            /\ \/ job.op = "clear" /\ staging' \in Cut(staging, Sector(b)) /\ UNCHANGED live
               \/ job.op = "erase" /\ live' \in Cut(live, Sector(b)) /\ UNCHANGED staging
    /\ open' = FALSE /\ written' = {}
    /\ job' = Idle
    /\ session' = Failed

Next == Write \/ Clear \/ Stage \/ Commit \/ Fill \/ Erase \/ Copy
        \/ Committed \/ Fail \/ PowerCut

Spec == Init /\ [][Next]_vars

-----------------------------------------------------------------------------
(* Properties.                                                             *)

TypeOK ==
    /\ live \in Contents /\ staging \in Contents
    /\ open \in BOOLEAN /\ written \in SUBSET Block
    /\ job \in Job /\ session \in Session

\* staged.rs: if power fails between the live erase and the end of the copy,
\* the staging region still holds the whole new contents, and through failed
\* and repeated commits too, until a new host write takes the region.
StagingHoldsAll == session.begun /\ Sound => staging = session.wanted

\* staged.rs: reads during the write see the staged block over the live one.
\* They do until a commit has begun to erase.
ReadsAsWritten ==
    job.op = "idle" /\ open /\ Sound /\ ~session.begun =>
        \A b \in Block : Read(b) = session.wanted[b]

\* A commit that returns has replaced the blocks the host wrote and only
\* those, however many commits failed before it.
CommitsExactly == [][Committed /\ Sound => live = session.wanted]_vars

\* staged.rs: the write stays open after a failed commit, so a later commit
\* tries again; every block of it was acknowledged.
CommitsAcknowledged == [][Committed /\ session.acked => live = session.wanted]_vars
=============================================================================
