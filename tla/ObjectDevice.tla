---------------------------- MODULE ObjectDevice ----------------------------
(***************************************************************************)
(* A host that writes and reads back configurations of objects, and the    *)
(* device that keeps them:                                                 *)
(*                                                                         *)
(*  - the host is crates/radio-programmer: one request at a time, matched  *)
(*    to its answer by a sequence number;                                  *)
(*  - the device is crates/radio-device over the transactional store of    *)
(*    crates/radio-storage, with the dual-slot memory as its durable end   *)
(*    (crates/radio-sim, K5ObjectDevice): it answers the most recent       *)
(*    request again without performing it;                                 *)
(*  - between them a link that may lose a frame, and an outstanding        *)
(*    request that may arrive twice.                                       *)
(*                                                                         *)
(* A storage operation may fail and the device may start again at any      *)
(* time.  Mishaps are counted by a budget.                                 *)
(***************************************************************************)
EXTENDS DualSlot, Sequences, SequencesExt, FiniteSets

CONSTANTS
    Keys,       \* object keys are 1 .. Keys, in canonical order
    Formats,    \* encoded objects, Formats \ Rejected pass validation
    Rejected,   \* objects that validate_object refuses
    Capacity,   \* objects the store has room for
    PageSize,   \* descriptors of one listing
    Wanted,     \* configurations a host writes
    Mishaps,    \* bound on losses, repetitions, failures and restarts
    Sessions,   \* bound on the sessions of the host
    Operations  \* bound on the writes and backups of the host

ASSUME DeviceAssumption ==
    /\ Keys \in Nat /\ Capacity \in Nat /\ Rejected \subseteq Formats
    /\ Sessions \in Nat /\ Mishaps \in Nat /\ Operations \in Nat
    /\ PageSize \in Nat \ {0}
    /\ None \notin Formats /\ "error" \notin Formats
    /\ Image = {c \in [1 .. Keys -> Formats \cup {None}] :
                  /\ Cardinality({k \in 1 .. Keys : c[k] # None}) <= Capacity
                  /\ \A k \in 1 .. Keys : c[k] \notin Rejected}
    /\ Wanted \subseteq [1 .. Keys -> Formats \cup {None}]

VARIABLES
    host,       \* the programmer: its request and what it has read
    link,       \* frames on their way: requests and answers
    device,     \* the service and its store
    budget,     \* mishaps, sessions and operations left
    history     \* for the checks: what was named, acknowledged, asked, kept

vars == <<slots, update, host, link, device, budget, history>>

Key == 1 .. Keys
Blank == [k \in Key |-> None]
Objects(c) == {k \in Key : c[k] # None}

-----------------------------------------------------------------------------
(* Requests and answers.                                                   *)

Request(s, cmd, t, a) == [seq |-> s, cmd |-> cmd, tx |-> t, arg |-> a]
Accept(r, d) == [seq |-> r.seq, cmd |-> r.cmd, data |-> d]
Refuse(r) == [seq |-> r.seq, cmd |-> "error", data |-> None]

Configuration == [Key -> Formats \cup {None}]
Listed == [gen : Generation, total : Nat, keys : Seq(Key)]
RequestType ==
    [seq : Nat, tx : Nat, arg : {None},
     cmd : {"hello", "capabilities", "begin", "validate", "commit", "abort"}]
    \cup [seq : Nat, tx : Nat, cmd : {"list"}, arg : Nat]
    \cup [seq : Nat, tx : Nat, cmd : {"read"}, arg : Key]
    \cup [seq : Nat, tx : Nat, cmd : {"write"}, arg : [key : Key, data : Formats]]
AnswerType ==
    [seq : Nat, data : {None},
     cmd : {"hello", "capabilities", "write", "validate", "abort", "error"}]
    \cup [seq : Nat, cmd : {"begin", "commit"}, data : Generation]
    \cup [seq : Nat, cmd : {"list"},
          data : [gen : Generation, total : Nat, page : Seq(Key)]]
    \cup [seq : Nat, cmd : {"read"}, data : Formats]
Exchange == [req : RequestType, answer : AnswerType]

ASSUME ExchangeAssumption == None \notin RequestType /\ None \notin Exchange
                             /\ None \notin Listed /\ None \notin Configuration

(* The objects of a configuration up to one of them.                       *)
Rank(c, k) == Cardinality({j \in Objects(c) : j <= k})

(* The first objects from an offset on.                                    *)
Page(c, offset) ==
    LET rest == Cardinality(Objects(c)) - offset
    IN  [i \in 1 .. IF rest > PageSize THEN PageSize ELSE rest |->
            CHOOSE k \in Objects(c) : Rank(c, k) = offset + i]

-----------------------------------------------------------------------------
(* The device.                                                             *)

Fresh == [gen |-> 0, active |-> Blank, tx |-> 0, candidate |-> None,
          validated |-> FALSE, last |-> None, held |-> None]

(* Mutant: a start counts its generations anew.                            *)
LoadedAnew(ss) ==
    IF Load(ss) = None THEN Fresh
    ELSE [Fresh EXCEPT !.gen = 1, !.active = Load(ss).image]

(* What a start makes of the slots.                                        *)
Loaded(ss) ==
    IF Load(ss) = None THEN Fresh
    ELSE [Fresh EXCEPT !.gen = Load(ss).gen, !.active = Load(ss).image]

(* The request the link delivers, and the exchange it repeats when it has  *)
(* the number of the most recent one.                                      *)
Incoming == Head(link.requests)
(* Mutant: the answer to an undone commit is not remembered.               *)
SettledLast == device.last

Settled ==
    IF device.held # None /\ device.held.req.seq = Incoming.seq THEN device.held
    ELSE device.last

Repeated == Settled # None /\ Settled.req.seq = Incoming.seq

Taken == [link EXCEPT !.answers = Tail(@)]
Received == [link EXCEPT !.requests = Tail(@)]
Sent(l, answer) == [l EXCEPT !.answers = Append(@, answer)]

(* What a generation was seen to name first.                               *)
Named(named, gen, c) ==
    IF named[gen] = None THEN [named EXCEPT ![gen] = c] ELSE named

Answering == update = None /\ link.requests # <<>>

Replay ==
    /\ Answering
    /\ Repeated
    /\ link' = Sent(Received, IF Settled.req = Incoming THEN Settled.answer ELSE Refuse(Incoming))
    /\ device' = IF Settled = device.held THEN device ELSE [device EXCEPT !.held = None]
    /\ history' = [history EXCEPT !.asked = [req |-> Incoming, answer |-> Last(link'.answers)]]
    /\ UNCHANGED <<slots, update, host, budget>>

(* A request handled: what the service becomes and what it answers.        *)
Answer(after, answer) ==
    /\ link' = Sent(Received, answer)
    /\ device' = [after EXCEPT !.last = [req |-> Incoming, answer |-> answer], !.held = None]
    /\ history' = [history EXCEPT !.asked = [req |-> Incoming, answer |-> answer]]
    /\ UNCHANGED <<slots, update, host, budget>>

Asked(cmds) == Answering /\ ~Repeated /\ Incoming.cmd \in cmds

DeviceInfo ==
    /\ Asked({"hello", "capabilities"})
    /\ Answer(device, Accept(Incoming, None))

ListObjects ==
    /\ Asked({"list"})
    /\ Answer(device,
              IF Incoming.arg > Cardinality(Objects(device.active)) THEN Refuse(Incoming)
              ELSE Accept(Incoming, [gen |-> device.gen,
                                  total |-> Cardinality(Objects(device.active)),
                                  page |-> Page(device.active, Incoming.arg)]))

ReadObject ==
    /\ Asked({"read"})
    /\ Answer(device, IF device.active[Incoming.arg] = None THEN Refuse(Incoming)
                      ELSE Accept(Incoming, device.active[Incoming.arg]))

BeginTransaction ==
    /\ Asked({"begin"})
    /\ IF device.tx # 0
       THEN Answer(device, Refuse(Incoming))
       ELSE Answer([device EXCEPT !.tx = Incoming.tx, !.candidate = device.active,
                                  !.validated = FALSE],
                   Accept(Incoming, device.gen))

(* Requests of the open transaction; any other is refused.                 *)
Matching == device.tx = Incoming.tx

Strange ==
    /\ Asked({"write", "validate", "commit", "abort"})
    /\ ~Matching
    /\ Answer(device, Refuse(Incoming))

Fits(c, k) == c[k] # None \/ Cardinality(Objects(c)) < Capacity

WriteObject ==
    /\ Asked({"write"})
    /\ Matching
    /\ IF Fits(device.candidate, Incoming.arg.key)
       THEN Answer([device EXCEPT !.candidate[Incoming.arg.key] = Incoming.arg.data,
                                  !.validated = FALSE],
                   Accept(Incoming, None))
       ELSE Answer(device, Refuse(Incoming))

Valid(c) == \A k \in Objects(c) : c[k] \notin Rejected

ValidateTransaction ==
    /\ Asked({"validate"})
    /\ Matching
    /\ Answer([device EXCEPT !.validated = Valid(device.candidate)],
              IF Valid(device.candidate) THEN Accept(Incoming, None) ELSE Refuse(Incoming))

AbortTransaction ==
    /\ Asked({"abort"})
    /\ Matching
    /\ Answer([device EXCEPT !.tx = 0, !.candidate = None, !.validated = FALSE],
              Accept(Incoming, None))

(* A commit takes effect in memory, is answered only when both slots agree *)
(* and is undone when they do not.                                         *)
Committed == [device EXCEPT !.gen = @ + 1, !.active = device.candidate,
                            !.tx = 0, !.candidate = None, !.validated = FALSE]

CommitRefused ==
    /\ Asked({"commit"})
    /\ Matching
    /\ ~device.validated \/ device.gen = GenMod - 1
    /\ Answer(device, Refuse(Incoming))

CommitTransaction ==
    /\ Asked({"commit"})
    /\ Matching
    /\ device.validated
    /\ device.gen < GenMod - 1
    /\ BeginUpdate(device.candidate)
    /\ device' = [device EXCEPT !.held = None]
    /\ UNCHANGED <<host, link, budget, history>>

StoreBlock ==
    /\ WriteBlock
    /\ UNCHANGED <<host, link, device, budget, history>>

(* The generation the slots reached must be the one the service reached.   *)
Agrees == update.gen = device.gen + 1

Undone ==
    /\ link' = Sent(Received, Refuse(Incoming))
    /\ device' = [device EXCEPT !.held = [req |-> Incoming, answer |-> Refuse(Incoming)]]
    /\ history' = [history EXCEPT !.asked = [req |-> Incoming, answer |-> Refuse(Incoming)]]

StoreMarker ==
    /\ WriteMarker
    /\ IF Agrees
       THEN LET answer == Accept(Incoming, Committed.gen)
            IN  /\ link' = Sent(Received, answer)
                /\ device' = [Committed EXCEPT !.last = [req |-> Incoming, answer |-> answer]]
                /\ history' = [history EXCEPT
                       !.asked = [req |-> Incoming, answer |-> answer],
                       !.acked = [gen |-> Committed.gen, image |-> Committed.active],
                       !.named = Named(@, Committed.gen, Committed.active)]
       ELSE Undone
    /\ UNCHANGED <<host, budget>>

Mishap ==
    /\ budget.mishaps > 0
    /\ budget' = [budget EXCEPT !.mishaps = @ - 1]

StoreFailed ==
    /\ Mishap
    /\ Interrupted
    /\ Undone
    /\ UNCHANGED host

(* The device starts again from what the slots hold, also in an update.    *)
Reboot ==
    /\ Mishap
    /\ \/ Interrupted
       \/ update = None /\ UNCHANGED <<slots, update>>
    /\ device' = Loaded(slots')
    /\ link' = IF update = None THEN link ELSE Received
    /\ history' = [history EXCEPT !.asked = None, !.lost = @ \/ update # None,
                                  !.named = Named(@, device'.gen, device'.active)]
    /\ UNCHANGED host

-----------------------------------------------------------------------------
(* The link.                                                               *)

Lose ==
    /\ Mishap
    /\ update = None
    /\ \/ /\ link.requests # <<>>
          /\ link' = Received
       \/ /\ link.answers # <<>>
          /\ link' = Taken
    /\ history' = [history EXCEPT !.lost = TRUE]
    /\ UNCHANGED <<slots, update, host, device>>

(* A host that has no answer yet sends the same frame again.               *)
Resend ==
    /\ Mishap
    /\ host.req # None
    /\ Len(link.requests) < 2
    /\ link' = [link EXCEPT !.requests = Append(@, host.req)]
    /\ UNCHANGED <<slots, update, host, device, history>>

-----------------------------------------------------------------------------
(* The host.                                                               *)

Idle == [want |-> None, key |-> 0, receipt |-> None, pages |-> None,
         listing |-> None, snap |-> Blank]

Waiting == host.req # None
Expected == Waiting /\ link.answers # <<>> /\ Head(link.answers).seq = host.req.seq
Data == Head(link.answers).data
Granted(cmd) == Expected /\ host.req.cmd = cmd /\ Head(link.answers).cmd = cmd

(* The next exchange, of a host whose operation has come to at.            *)
Ask(at, cmd, arg, l) ==
    /\ Len(l.requests) < 2
    /\ host' = [host EXCEPT !.at = at, !.seq = @ + 1,
                           !.req = Request(host.seq, cmd, host.tx, arg)]
    /\ link' = [l EXCEPT !.requests = Append(@, host'.req)]

Ends(l) ==
    /\ host' = [host EXCEPT !.at = Idle, !.req = None]
    /\ link' = l

(* A new Programmer over a newly opened port, whose input may be cleared.  *)
Connect ==
    /\ budget.sessions > 0
    /\ Waiting => budget.mishaps > 0
    /\ budget' = [budget EXCEPT !.sessions = @ - 1, !.mishaps = IF Waiting THEN @ - 1 ELSE @]
    /\ host' = [open |-> FALSE, seq |-> 2, tx |-> 0, at |-> Idle,
                req |-> Request(1, "hello", 0, None)]
    /\ Len(link.requests) < 2
    /\ \E kept \in {<<>>, link.answers} :
           link' = [requests |-> Append(link.requests, host'.req), answers |-> kept]
    /\ history' = [history EXCEPT !.lost = @ \/ Waiting]
    /\ UNCHANGED <<slots, update, device>>

Operation ==
    /\ host.open /\ ~Waiting
    /\ budget.operations > 0
    /\ budget' = [budget EXCEPT !.operations = @ - 1]
    /\ UNCHANGED <<slots, update, device, history>>

WriteConfiguration ==
    /\ Operation
    /\ Len(link.requests) < 2
    /\ \E want \in Wanted :
           host' = [host EXCEPT !.at = [Idle EXCEPT !.want = want], !.seq = @ + 1, !.tx = @ + 1,
                                !.req = Request(host.seq, "begin", host.tx + 1, None)]
    /\ link' = [link EXCEPT !.requests = Append(@, host'.req)]

BackupConfiguration ==
    /\ Operation
    /\ Ask(Idle, "list", 0, link)

HostOnly == UNCHANGED <<slots, update, device, budget>>
Unread == HostOnly /\ UNCHANGED history

(* An answer to anything but the outstanding request is dropped.           *)
Ignore ==
    /\ link.answers # <<>>
    /\ ~Expected
    /\ link' = Taken
    /\ Unread /\ UNCHANGED host

Hello ==
    /\ Granted("hello")
    /\ Ask(Idle, "capabilities", None, Taken)
    /\ Unread

Capabilities ==
    /\ Granted("capabilities")
    /\ host' = [host EXCEPT !.open = TRUE, !.req = None]
    /\ link' = Taken
    /\ Unread

(* The objects of the wanted configuration, in key order, then validation. *)
WriteRest(key) ==
    LET rest == {k \in Objects(host.at.want) : k > key}
        next == CHOOSE k \in rest : \A j \in rest : k <= j
    IN  IF rest = {} THEN Ask(host.at, "validate", None, Taken)
        ELSE Ask([host.at EXCEPT !.key = next], "write",
                 [key |-> next, data |-> host.at.want[next]], Taken)

Begun == Granted("begin") /\ WriteRest(0) /\ Unread
Wrote == Granted("write") /\ WriteRest(host.at.key) /\ Unread
Validated == Granted("validate") /\ Ask(host.at, "commit", None, Taken) /\ Unread

(* The write is over, or is verified by a read-back.                       *)
Receipt ==
    /\ Granted("commit")
    /\ \/ Ends(Taken)
       \/ Ask([host.at EXCEPT !.receipt = Data], "list", 0, Taken)
    /\ Unread

(* Aborted, or not: its answer is not looked at.                           *)
Aborted == Expected /\ host.req.cmd = "abort" /\ Ends(Taken) /\ Unread

(* The pages with the one that arrived.  Every page repeats the generation *)
(* and the total of the first, and only the last may be empty.             *)
Pages ==
    IF host.at.pages = None THEN [gen |-> Data.gen, total |-> Data.total, keys |-> Data.page]
    ELSE [host.at.pages EXCEPT !.keys = @ \o Data.page]

Acceptable ==
    /\ Pages.gen = Data.gen /\ Pages.total = Data.total
    /\ Data.page # <<>> \/ Len(Pages.keys) = Data.total

NextPage ==
    /\ Granted("list")
    /\ Acceptable
    /\ Len(Pages.keys) < Pages.total
    /\ Ask([host.at EXCEPT !.pages = Pages], "list", Len(Pages.keys), Taken)
    /\ Unread

(* The objects of the listing in turn, then the listing again.             *)
ReadRest(at) ==
    IF at.key = Len(at.listing.keys) THEN Ask(at, "list", 0, Taken)
    ELSE Ask([at EXCEPT !.key = @ + 1], "read", at.listing.keys[at.key + 1], Taken)

FirstListing ==
    /\ Granted("list")
    /\ Acceptable
    /\ Len(Pages.keys) = Pages.total
    /\ host.at.listing = None
    /\ ReadRest([host.at EXCEPT !.listing = Pages, !.pages = None, !.key = 0])
    /\ Unread

ReadBack ==
    /\ Granted("read")
    /\ ReadRest([host.at EXCEPT !.snap[host.at.listing.keys[host.at.key]] = Data])
    /\ Unread

(* Mutant: only the objects are compared.                                  *)
StableKeys == Pages.keys = host.at.listing.keys
(* The second listing closes the snapshot when it is the first one again.  *)
Stable == Pages = host.at.listing

(* A verified write asks for its own generation and exactly its objects.   *)
Verified == host.at.want # None =>
    host.at.listing.gen = host.at.receipt /\ host.at.snap = host.at.want

SecondListing ==
    /\ Granted("list")
    /\ Acceptable
    /\ Len(Pages.keys) = Pages.total
    /\ host.at.listing # None
    /\ Ends(Taken)
    /\ history' = IF Stable /\ Verified
                  THEN [history EXCEPT !.kept = [gen |-> Pages.gen, image |-> host.at.snap]]
                  ELSE history
    /\ HostOnly

(* A refusal, or a page that does not follow from those before it.         *)
Refused ==
    /\ Expected
    /\ host.req.cmd # "abort"
    /\ \/ Head(link.answers).cmd # host.req.cmd
       \/ Granted("list") /\ ~Acceptable

(* Mutant: a refused commit is taken for the end of the transaction.       *)
FailedOpen(l) ==
    IF host.req.cmd \in {"write", "validate"} THEN Ask(host.at, "abort", None, l)
    ELSE Ends(l)

(* A write that has begun is aborted after any failure.                    *)
Failed(l) ==
    IF host.req.cmd \in {"write", "validate", "commit"} THEN Ask(host.at, "abort", None, l)
    ELSE Ends(l)

Failure ==
    /\ Refused
    /\ Failed(Taken)
    /\ Unread

(* Mutant: a host without a limit to its receive calls.                    *)
SilentNever == FALSE

(* Nothing came for the outstanding request, or it comes too late.         *)
Silent == link = [requests |-> <<>>, answers |-> <<>>] /\ update = None

NoResponse ==
    /\ Waiting
    /\ ~Silent => budget.mishaps > 0
    /\ budget' = IF Silent THEN budget ELSE [budget EXCEPT !.mishaps = @ - 1]
    /\ Failed(link)
    /\ history' = [history EXCEPT !.lost = TRUE]
    /\ UNCHANGED <<slots, update, device>>

-----------------------------------------------------------------------------

Init ==
    /\ InitSlots
    /\ host = [open |-> FALSE, seq |-> 1, tx |-> 0, req |-> None, at |-> Idle]
    /\ link = [requests |-> <<>>, answers |-> <<>>]
    /\ device = Loaded(slots)
    /\ budget = [mishaps |-> Mishaps, sessions |-> Sessions, operations |-> Operations]
    /\ history = [named |-> Named([g \in Generation |-> None], device.gen, device.active),
                  acked |-> Load(slots), asked |-> None, kept |-> None, lost |-> FALSE]

DeviceStep ==
    \/ Replay \/ DeviceInfo \/ ListObjects \/ ReadObject
    \/ BeginTransaction \/ Strange \/ WriteObject \/ ValidateTransaction
    \/ AbortTransaction \/ CommitRefused \/ CommitTransaction
    \/ StoreBlock \/ StoreMarker

HostStep ==
    \/ Ignore \/ Hello \/ Capabilities \/ Begun \/ Wrote \/ Validated \/ Receipt
    \/ Aborted \/ NextPage \/ FirstListing \/ ReadBack \/ SecondListing
    \/ Failure \/ NoResponse

Next ==
    \/ DeviceStep
    \/ HostStep
    \/ StoreFailed \/ Reboot \/ Lose \/ Resend
    \/ Connect \/ WriteConfiguration \/ BackupConfiguration

Spec == Init /\ [][Next]_vars

-----------------------------------------------------------------------------

HostType ==
    [open : BOOLEAN, seq : Nat \ {0}, tx : Nat, req : RequestType \cup {None},
     at : [want : Wanted \cup {None}, key : Nat, receipt : Generation \cup {None},
           pages : Listed \cup {None}, listing : Listed \cup {None}, snap : Configuration]]
LinkType == [requests : Seq(RequestType), answers : Seq(AnswerType)]
DeviceType ==
    [gen : Generation, active : Image \cup {Blank}, tx : Nat,
     candidate : Configuration \cup {None}, validated : BOOLEAN,
     last : Exchange \cup {None}, held : Exchange \cup {None}]
BudgetType == [mishaps : Nat, sessions : Nat, operations : Nat]
HistoryType ==
    [named : [Generation -> Configuration \cup {None}], acked : Meta \cup {None},
     asked : Exchange \cup {None}, lost : BOOLEAN,
     kept : [gen : Generation, image : Configuration] \cup {None}]

TypeOK ==
    /\ SlotTypeOK
    /\ host \in HostType /\ link \in LinkType /\ device \in DeviceType
    /\ budget \in BudgetType /\ history \in HistoryType
    /\ Len(link.requests) <= 2
    /\ device.validated => device.candidate \in Image

(* A commit the device acknowledged is what a start at any moment reads    *)
(* back, or something stored after it: no failed, interrupted or repeated  *)
(* later write, no undone commit and no restart loses it.                  *)
AcknowledgedSurvives ==
    history.acked # None =>
        /\ Load(slots) # None
        /\ \/ Load(slots) = history.acked
           \/ Ahead(Load(slots).gen, history.acked.gen)

(* A generation number a host has been shown names one configuration for   *)
(* good: the service that undoes a commit and the slots that went ahead of *)
(* it never give two configurations the same generation.                   *)
GenerationNames == history.named[device.gen] = device.active

(* What a host keeps as a backup, or takes for the verified result of its  *)
(* write, is exactly the configuration of that generation, whatever was    *)
(* lost, repeated or restarted between the pages and objects it was read   *)
(* from.                                                                   *)
SnapshotIsWhole ==
    history.kept # None => history.named[history.kept.gen] = history.kept.image

(* A request that reaches the device twice in a row is performed once and  *)
(* answered twice alike, also a commit that failed in its storage and was  *)
(* undone; only a restart forgets it.                                      *)
Store(d) == <<d.gen, d.active, d.tx, d.candidate, d.validated>>
ReplayChangesNothing ==
    [][/\ history.asked # None /\ history'.asked # None
       /\ link.requests # <<>> /\ Incoming = history.asked.req
       => /\ Store(device') = Store(device)
          /\ UNCHANGED <<slots, update>>
          /\ Len(link'.answers) > Len(link.answers) =>
                 Last(link'.answers) = history.asked.answer]_vars

(* As long as nothing was lost, a host between two operations has left no  *)
(* transaction open on the device, which would refuse every later one:     *)
(* each failure after the first step of a write ends in an abort that      *)
(* finds the transaction.                                                  *)
NoTransactionLeftBehind ==
    ~history.lost /\ ~Waiting /\ link.requests = <<>> => device.tx = 0

(* An operation of the host comes to its end.                              *)
OperationsEnd == Waiting ~> ~Waiting
LiveSpec == Spec /\ WF_vars(DeviceStep) /\ WF_vars(HostStep)
=============================================================================
