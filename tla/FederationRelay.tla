-------------------------- MODULE FederationRelay --------------------------
(* The relay that carries a federated worker's mail to the home of its run.       *)
(*                                                                                *)
(* The worker runs on another server.  What it sends is queued in that server's   *)
(* database and the home pulls it: every second, and after some operations, one   *)
(* sync of the dispatch asks what the server can do, pulls a page of queued items,*)
(* imports them one by one into the run's mailbox - settling the dispatch by the  *)
(* worker's report - and acknowledges them, with the verdict on each report, so   *)
(* that the server retires them and settles its own attachment.  Every call may be*)
(* lost before or after it ran, both servers may restart, and the worker goes on  *)
(* sending.  One dispatch, one home, the uplink only.                             *)
EXTENDS Integers, Sequences, FiniteSets

CONSTANTS
    Settling,         \* the dispatch speaks protocol 3 or later: verdicts travel back
    SupportingEpochs, \* the runs of the worker server whose software still does
    Quota,            \* unacknowledged items the server holds (256 in the code)
    PageSize,         \* items pulled at once (50)
    MaxPages,         \* pages of one sync (6)
    MaxItems,         \* bound: items the worker sends
    MaxEpoch,         \* bound: runs of the worker server
    MaxFailures       \* bound: calls lost and home restarts

ASSUME RelayAssumption ==
    /\ Settling \in BOOLEAN
    /\ {Quota, PageSize, MaxPages, MaxItems, MaxEpoch, MaxFailures} \subseteq Nat
    /\ Quota > 0 /\ PageSize > 0 /\ MaxPages > 0 /\ MaxEpoch > 0
    /\ SupportingEpochs \subseteq 1..MaxEpoch

VARIABLES
    \* database of the worker server
    items,        \* the queue: item n has sequence number n
    created,      \* how many message ids were made
    ackedThrough, \* items up to here carry acked_at
    attachment,   \* state of the dispatch on that server
    receipts,     \* durable receipts of its federationAck requests
    \* memory of the worker server
    epoch,        \* its runtime id
    \* database of the home
    mailbox,      \* the imported messages, in order
    imported,     \* to_home_imported_sequence
    acknowledged, \* to_home_acknowledged_sequence
    knownEpoch,   \* remote_runtime_epoch
    home,         \* state of the worker attempt at home
    \* memory of the home
    sync,         \* the sync in flight
    checkpoint,   \* how far which run of the server was acknowledged
    capability,   \* the capability cache: latest run seen, whether its answer is cached
    stopCall,     \* a worker-stop request is waiting for the server
    \* network
    wire,         \* acknowledgments sent and neither executed nor lost (the same request
                  \* sent twice is one: its receipt makes the second a replay)
    stop,         \* the federationStop request: on its way, closing the terminal, answered
    failures

serverVars == <<items, created, ackedThrough, attachment, receipts>>
homeVars == <<mailbox, imported, acknowledged, knownEpoch, home>>
memoryVars == <<sync, checkpoint, capability, stopCall>>
vars == <<serverVars, epoch, homeVars, memoryVars, wire, stop, failures>>

------------------------------------------------------------------------------

Reports == {"succeeded", "failed"}          \* worker_done, by its outcome
Kinds == Reports \cup {"heartbeat", "mail"}
AttachmentStates == {"ready", "stopping", "stop_unknown", "stopped"} \cup Reports
HomeStates == {"ready", "stopping", "stop_unknown", "stopped", "abandoned"} \cup Reports
Verdicts == Reports \cup {"rejected"}

AtLeast(a, b) == IF a >= b THEN a ELSE b
AtMost(a, b) == IF a <= b THEN a ELSE b

Items == [id : 1..MaxItems, kind : Kinds]
Pulled == [sequence : 1..MaxItems, id : 1..MaxItems, kind : Kinds]
Settlements == [sequence : 1..MaxItems, verdict : Verdicts]
Requests == [cursor : 0..MaxItems, through : 0..MaxItems, settlements : SUBSET Settlements]
Receipts == [cursor : 0..MaxItems, request : Requests, completed : BOOLEAN]

Ids(seq) == {seq[n].id : n \in DOMAIN seq}
Unacknowledged == {n \in DOMAIN items : n > ackedThrough}
UnackedHeartbeats == {n \in Unacknowledged : items[n].kind = "heartbeat"}

\* The home's own view of what the server can do, for a decision about one of its runs.
Supports(e) == Settling /\ e \in SupportingEpochs

\* isFederatedDispatchRelayEligible: the timer goes on syncing.
EligibleAt(through) ==
    \/ home \in {"ready", "stopping", "stop_unknown"}
    \/ through < imported

Eligible == EligibleAt(acknowledged)

NoCheckpoint == [epoch |-> 0, through |-> 0]

Idle == [pc |-> "idle", remaining |-> 0, knownEpoch |-> 0, decidedFor |-> 0,
         pulledEpoch |-> 0, page |-> <<>>, full |-> FALSE, cursor |-> 0,
         settlements |-> {}, barrier |-> 0]

Init ==
    /\ items = <<>> /\ created = 0 /\ ackedThrough = 0
    /\ attachment = "ready" /\ receipts = {}
    /\ epoch = 1
    /\ mailbox = <<>> /\ imported = 0 /\ acknowledged = 0
    /\ knownEpoch = 1 /\ home = "ready"
    /\ sync = Idle /\ checkpoint = NoCheckpoint
    /\ capability = [latest |-> 0, cached |-> FALSE] /\ stopCall = FALSE
    /\ wire = {} /\ stop = "none" /\ failures = 0

------------------------------------------------------------------------------
(* The worker sends: enqueueFederationRelay *)

\* An ordinary insert.  A heartbeat whose predecessor is still unacknowledged replaces its
\* payload, and a report identical to an unacknowledged one returns that one: neither makes
\* an item.
Inserted(kind) ==
    /\ Cardinality(Unacknowledged) < Quota
    /\ kind = "heartbeat" => UnackedHeartbeats = {}
    /\ items' = Append(items, [id |-> created + 1, kind |-> kind])

\* With no capacity left, a report takes the place of the oldest unacknowledged heartbeat,
\* under an id of its own.
ReplacesHeartbeat(kind) ==
    /\ Cardinality(Unacknowledged) >= Quota
    /\ kind \in Reports
    /\ \E n \in UnackedHeartbeats :
          /\ \A other \in UnackedHeartbeats : n <= other
          /\ items' = [items EXCEPT ![n] = [id |-> created + 1, kind |-> kind]]

\* sendRemoteMessage: only the live process of a ready attachment holds the capability.  A
\* dispatch older than protocol 3 settles the attachment as soon as the report is queued.
Send(kind) ==
    /\ created < MaxItems
    /\ attachment = "ready"
    /\ Inserted(kind) \/ ReplacesHeartbeat(kind)
    /\ created' = created + 1
    /\ attachment' = IF kind \in Reports /\ ~Settling THEN kind ELSE attachment
    /\ UNCHANGED <<ackedThrough, receipts, epoch, homeVars, memoryVars, wire, stop,
                   failures>>

------------------------------------------------------------------------------
(* A sync of the home: federation-sync.ts *)

\* The start of each page, up to its first await: the row is read and, unless the cache
\* answers, the server is asked what it supports.  A cached refusal expires.
PageBegun(remaining, known, cache) ==
    {[Idle EXCEPT !.pc = "pull", !.remaining = remaining, !.knownEpoch = known,
                  !.decidedFor = IF Settling THEN cache.latest ELSE 0] :
        usable \in {c \in {cache} : ~Settling \/ c.cached}}
    \cup
    {[Idle EXCEPT !.pc = "probe", !.remaining = remaining, !.knownEpoch = known] :
        expired \in {c \in {cache} : Settling /\ (c.cached => ~Supports(c.latest))}}

StartSync ==
    /\ sync.pc = "idle"
    /\ Eligible
    /\ sync' \in PageBegun(MaxPages, knownEpoch, capability)
    /\ UNCHANGED <<serverVars, epoch, homeVars, checkpoint, capability, stopCall,
                   wire, stop, failures>>

Probe ==
    /\ sync.pc = "probe"
    /\ sync' = [sync EXCEPT !.pc = "pull", !.decidedFor = epoch]
    /\ capability' = [latest |-> epoch, cached |-> TRUE]
    /\ UNCHANGED <<serverVars, epoch, homeVars, checkpoint, stopCall, wire, stop,
                   failures>>

\* federationPull: what the home has not imported, or, to settle reports again, everything
\* not yet acknowledged.
ReplaysUnacknowledged ==
    \/ Supports(sync.decidedFor)
    \/ Settling /\ acknowledged < imported

PulledAfter(start) ==
    [n \in 1..AtMost(PageSize, Len(items) - start) |->
        [sequence |-> start + n, id |-> items[start + n].id, kind |-> items[start + n].kind]]

Pull ==
    /\ sync.pc = "pull"
    /\ LET start == IF ReplaysUnacknowledged THEN ackedThrough ELSE imported
           page == IF start < Len(items) THEN PulledAfter(start) ELSE <<>>
       IN  sync' = [sync EXCEPT !.pc = "import", !.pulledEpoch = epoch, !.page = page,
                                !.full = Len(page) = PageSize,
                                !.cursor = IF page = <<>> THEN imported ELSE start]
    /\ UNCHANGED <<serverVars, epoch, homeVars, checkpoint, capability, stopCall,
                   wire, stop, failures>>

\* The verdict of settleWorkerReport, as the task lifecycle gives it.
VerdictOfItsOwn(report) == report
VerdictWhileStopping(report) ==
    IF home \in {"ready", "stopping", report} THEN report ELSE "rejected"

Verdict(report) == IF home \in {"ready", report} THEN report ELSE "rejected"

\* This sync may settle reports: the server supports it, and its answer was about the run
\* that sent the page.
MaySettle == Supports(sync.decidedFor) /\ sync.decidedFor = sync.pulledEpoch

DuplicateBelow(item) == item.sequence < imported

Duplicate(item) == item.sequence <= imported

CommittedWithoutItsMessage(item) ==
    Duplicate(item) /\ item.id \notin Ids(mailbox)

NotADuplicate(item) == item.sequence = imported + 1

Importable(item) ==
    /\ item.sequence = sync.cursor + 1
    /\ ~CommittedWithoutItsMessage(item)
    /\ item.sequence <= imported + 1

\* importFederatedRelayItem, and what the sync keeps of it.
ImportItem ==
    /\ sync.pc = "import" /\ sync.page # <<>>
    /\ LET item == Head(sync.page)
           report == item.kind \in Reports
       IN  /\ Importable(item)
           /\ mailbox' = IF Duplicate(item) THEN mailbox
                         ELSE Append(mailbox, [id |-> item.id, kind |-> item.kind,
                                  rejected |-> report /\ Verdict(item.kind) = "rejected"])
           /\ imported' = AtLeast(imported, item.sequence)
           /\ home' = IF report /\ home = "ready" THEN item.kind ELSE home
           /\ sync' = [sync EXCEPT
                 !.page = Tail(@),
                 !.cursor = item.sequence,
                 !.settlements = IF report /\ MaySettle
                                 THEN @ \cup {[sequence |-> item.sequence,
                                               verdict |-> Verdict(item.kind)]}
                                 ELSE @,
                 !.barrier = IF @ = 0 /\ Settling /\ report /\ ~MaySettle
                             THEN item.sequence ELSE @]
    /\ UNCHANGED <<serverVars, epoch, acknowledged, knownEpoch, checkpoint,
                   capability, stopCall, wire, stop, failures>>

\* The sync is over; a dispatch that needs no further sync drops its checkpoint.
SyncEnds ==
    /\ sync' = Idle
    /\ checkpoint' = IF Eligible THEN checkpoint ELSE NoCheckpoint

\* An item the import refuses ends the sync.
ImportThrows ==
    /\ sync.pc = "import" /\ sync.page # <<>>
    /\ ~Importable(Head(sync.page))
    /\ SyncEnds
    /\ UNCHANGED <<serverVars, epoch, homeVars, capability, stopCall, wire, stop,
                   failures>>

NextCursor == sync.cursor + 1

AcknowledgmentCursor == IF sync.barrier # 0 THEN sync.barrier - 1 ELSE sync.cursor

\* What was acknowledged before to the run of the server that sent this page.
AcknowledgedBefore ==
    AtLeast(IF checkpoint.epoch = sync.pulledEpoch THEN checkpoint.through ELSE 0,
            IF sync.knownEpoch = sync.pulledEpoch THEN acknowledged ELSE 0)

Request == [cursor |-> sync.cursor, through |-> AcknowledgmentCursor,
            settlements |-> sync.settlements]

SendAck ==
    /\ sync.pc = "import" /\ sync.page = <<>>
    /\ AcknowledgmentCursor > AcknowledgedBefore
    /\ sync' = [sync EXCEPT !.pc = "acking"]
    /\ wire' = wire \cup {Request}
    /\ UNCHANGED <<serverVars, epoch, homeVars, checkpoint, capability, stopCall,
                   stop, failures>>

\* What follows the acknowledgment: the run is observed and recorded, then comes the next
\* page or the end, with this checkpoint and this much acknowledged.
PageEnds(point, through) ==
    LET cache == IF capability.latest = sync.pulledEpoch THEN capability
                 ELSE [latest |-> sync.pulledEpoch, cached |-> FALSE]
    IN  /\ capability' = cache
        /\ knownEpoch' = sync.pulledEpoch
        /\ IF sync.full /\ sync.remaining > 1 /\ sync.barrier = 0
           THEN /\ sync' \in PageBegun(sync.remaining - 1, sync.pulledEpoch, cache)
                /\ checkpoint' = point
           ELSE /\ sync' = Idle
                /\ checkpoint' = IF EligibleAt(through) THEN point ELSE NoCheckpoint

NothingToAck ==
    /\ sync.pc = "import" /\ sync.page = <<>>
    /\ AcknowledgmentCursor <= AcknowledgedBefore
    /\ PageEnds(checkpoint, acknowledged)
    /\ UNCHANGED <<serverVars, epoch, mailbox, imported, acknowledged, home,
                   stopCall, wire, stop, failures>>

\* The last page of a sync that may have left some behind is recorded one short, so that the
\* dispatch stays eligible.
KeptOneShort(through) == AtLeast(0, through - 1)
KeptOneAhead(through) == through + 1

Kept(through) ==
    IF sync.full /\ sync.remaining = 1 THEN AtLeast(0, through - 1) ELSE through

\* recordFederatedHomeAcknowledgment and the checkpoint.
RecordAck ==
    /\ sync.pc = "acked"
    /\ LET kept == Kept(AcknowledgmentCursor)
           recorded == IF knownEpoch = sync.pulledEpoch
                       THEN AtLeast(acknowledged, kept) ELSE kept
           point == IF /\ checkpoint.epoch = sync.pulledEpoch
                       /\ checkpoint.through >= kept
                    THEN checkpoint ELSE [epoch |-> sync.pulledEpoch, through |-> kept]
       IN  /\ acknowledged' = recorded
           /\ PageEnds(point, recorded)
    /\ UNCHANGED <<serverVars, epoch, mailbox, imported, home, stopCall, wire, stop,
                   failures>>

------------------------------------------------------------------------------
(* The acknowledgment at the worker server: the receipt, then federationAck *)

Reported(request) == {s.sequence : s \in request.settlements}
Outcomes(request) == {s.verdict : s \in request.settlements} \cap Reports

\* acknowledgeFederationRelay refuses a verdict that is not about the queued report, and an
\* acknowledgment that passes over a report without a verdict.
MatchesQueue(request) ==
    \A s \in request.settlements :
        /\ s.sequence <= request.through
        /\ s.sequence \in DOMAIN items
        /\ items[s.sequence].kind \in Reports
        /\ s.verdict \in Reports => items[s.sequence].kind = s.verdict

SettlesWhatItNames(request) == request.through >= 0

SettlesEveryReport(request) ==
    Settling => \A n \in Unacknowledged :
        n <= request.through /\ items[n].kind \in Reports => n \in Reported(request)

Acceptable(request) ==
    /\ MatchesQueue(request)
    /\ SettlesEveryReport(request)
    /\ Cardinality(Outcomes(request)) <= 1
    /\ \A outcome \in Outcomes(request) : attachment \in {"ready", outcome}

Acknowledge(request) ==
    /\ ackedThrough' = AtLeast(ackedThrough, request.through)
    /\ attachment' = IF Outcomes(request) = {} THEN attachment
                     ELSE CHOOSE outcome \in Outcomes(request) : TRUE

ReceiptsOf(request) == {r \in receipts : r.cursor = request.cursor}

Receipt(request, completed) ==
    [cursor |-> request.cursor, request |-> request, completed |-> completed]

\* The home hears the answer if it still waits for this request.
Answered(request, ok) ==
    IF sync.pc = "acking" /\ Request = request
    THEN IF ok THEN sync' = [sync EXCEPT !.pc = "acked"] /\ UNCHANGED checkpoint
               ELSE SyncEnds
    ELSE UNCHANGED <<sync, checkpoint>>

AckExecutes(request) ==
    /\ ReceiptsOf(request) = {}
    /\ Acceptable(request)
    /\ Acknowledge(request)
    /\ receipts' = receipts \cup {Receipt(request, TRUE)}
    /\ Answered(request, TRUE)

\* The same request again is answered from its receipt; the id of another one is refused,
\* and so is a request whose first execution a restart interrupted.
AckReplays(request) ==
    /\ ReceiptsOf(request) # {}
    /\ Answered(request, Receipt(request, TRUE) \in receipts)
    /\ UNCHANGED <<ackedThrough, attachment, receipts>>

AckRefused(request) ==
    /\ ReceiptsOf(request) = {}
    /\ ~Acceptable(request)
    /\ Answered(request, FALSE)
    /\ UNCHANGED <<ackedThrough, attachment, receipts>>

AckArrives ==
    /\ \E request \in wire :
          /\ AckExecutes(request) \/ AckReplays(request) \/ AckRefused(request)
          /\ wire' = wire \ {request}
    /\ UNCHANGED <<items, created, epoch, homeVars, capability, stopCall, stop,
                   failures>>

------------------------------------------------------------------------------
(* Failures *)

Fails == failures < MaxFailures /\ failures' = failures + 1

\* An acknowledgment that was lost, or died with the server, runs into its timeout.
AckTimesOut ==
    /\ sync.pc = "acking" /\ Request \notin wire
    /\ SyncEnds
    /\ UNCHANGED <<serverVars, epoch, homeVars, capability, stopCall, wire, stop,
                   failures>>

\* The home gives up a call; an acknowledgment it sent may still arrive.
SyncTimesOut ==
    /\ Fails
    /\ sync.pc \in {"probe", "pull", "acking"}
    /\ SyncEnds
    /\ UNCHANGED <<serverVars, epoch, homeVars, capability, stopCall, wire, stop>>

AckLost ==
    /\ Fails
    /\ \E request \in wire : wire' = wire \ {request}
    /\ UNCHANGED <<serverVars, epoch, homeVars, memoryVars, stop>>

\* The answer is lost: the request ran, and the home times out.
AnswerLost ==
    /\ Fails
    /\ sync.pc = "acked"
    /\ SyncEnds
    /\ UNCHANGED <<serverVars, epoch, homeVars, capability, stopCall, wire, stop>>

\* What the home knows only in memory is gone.  The import loop is one synchronous stretch
\* of separate transactions, so a crash can stop it between two items.
HomeRestarts ==
    /\ Fails
    /\ sync' = Idle /\ checkpoint' = NoCheckpoint
    /\ capability' = [latest |-> 0, cached |-> FALSE] /\ stopCall' = FALSE
    /\ UNCHANGED <<serverVars, epoch, homeVars, wire, stop>>

\* A restart may cut an acknowledgment off: its receipt stays pending, with or without the
\* effect.
ServerRestarts ==
    /\ epoch < MaxEpoch
    /\ epoch' = epoch + 1
    /\ wire' = {}
    /\ stop' = IF stop \in {"sent", "closing"} THEN "none" ELSE stop
    /\ \/ UNCHANGED <<ackedThrough, attachment, receipts>>
       \/ \E request \in wire :
             /\ ReceiptsOf(request) = {}
             /\ receipts' = receipts \cup {Receipt(request, FALSE)}
             /\ \/ Acceptable(request) /\ Acknowledge(request)
                \/ UNCHANGED <<ackedThrough, attachment>>
    /\ UNCHANGED <<items, created, homeVars, memoryVars, failures>>

------------------------------------------------------------------------------
(* Stopping the worker from home *)

HomeIsFree == sync.pc # "import"   \* the import loop does not yield

\* beginWorkerStop.  A stop a dead home left behind may be issued again (bound: not while
\* the first one is closing the terminal).
BeginStop ==
    /\ HomeIsFree
    /\ home \in {"ready", "stopping"} /\ ~stopCall /\ stop # "closing"
    /\ home' = "stopping" /\ stopCall' = TRUE /\ stop' = "sent"
    /\ UNCHANGED <<serverVars, epoch, mailbox, imported, acknowledged, knownEpoch,
                   sync, checkpoint, capability, wire, failures>>

\* federationStop: a live attachment is fenced before its terminal is closed; any other is
\* answered with its state.
ServerBeginsStop ==
    /\ stop = "sent"
    /\ IF attachment = "ready"
       THEN attachment' = "stopping" /\ stop' = "closing"
       ELSE attachment' = attachment /\ stop' = "answered"
    /\ UNCHANGED <<items, created, ackedThrough, receipts, epoch, homeVars, memoryVars, wire,
                   failures>>

ServerEndsStop(result) ==
    /\ stop = "closing"
    /\ attachment' = result /\ stop' = "answered"
    /\ UNCHANGED <<items, created, ackedThrough, receipts, epoch, homeVars, memoryVars, wire,
                   failures>>

\* The answer to the stop.  An attachment its report already settled sends the attempt back
\* to ready, to be settled by that report.
StopAnswered ==
    /\ HomeIsFree
    /\ stopCall /\ stop = "answered"
    /\ home' = IF home # "stopping" THEN home
               ELSE CASE attachment = "stopped" -> "stopped"
                      [] attachment \in Reports -> "ready"
                      [] OTHER -> "stop_unknown"
    /\ stopCall' = FALSE /\ stop' = "none"
    /\ UNCHANGED <<serverVars, epoch, mailbox, imported, acknowledged, knownEpoch,
                   sync, checkpoint, capability, wire, failures>>

\* The home gives the stop up; the request may still be on its way.
StopCallFails ==
    /\ Fails /\ HomeIsFree
    /\ stopCall
    /\ home' = IF home = "stopping" THEN "stop_unknown" ELSE home
    /\ stopCall' = FALSE
    /\ stop' \in {stop} \cup (IF stop = "closing" THEN {} ELSE {"none"})
    /\ UNCHANGED <<serverVars, epoch, mailbox, imported, acknowledged, knownEpoch,
                   sync, checkpoint, capability, wire>>

\* worker-show: the home reads the attachment, learns of a finished stop and of the run.
ShowWorker ==
    /\ HomeIsFree
    /\ home' = IF attachment = "stopped" /\ home \in {"stopping", "stop_unknown"}
               THEN "stopped" ELSE home
    /\ knownEpoch' = epoch
    /\ UNCHANGED <<serverVars, epoch, mailbox, imported, acknowledged, memoryVars,
                   wire, stop, failures>>

\* abandonWorkerDispatch
AbandonWorker ==
    /\ HomeIsFree
    /\ home \in {"ready", "stop_unknown"}
    /\ home' = "abandoned"
    /\ UNCHANGED <<serverVars, epoch, mailbox, imported, acknowledged, knownEpoch,
                   memoryVars, wire, stop, failures>>

------------------------------------------------------------------------------

SyncStep ==
    StartSync \/ Probe \/ Pull \/ ImportItem \/ ImportThrows \/ SendAck \/ NothingToAck
        \/ RecordAck \/ AckTimesOut

Next ==
    \/ \E kind \in Kinds : Send(kind)
    \/ StartSync \/ Probe \/ Pull
    \/ ImportItem \/ ImportThrows
    \/ SendAck \/ NothingToAck \/ AckArrives \/ RecordAck \/ AckTimesOut
    \/ SyncTimesOut \/ AckLost \/ AnswerLost \/ HomeRestarts \/ ServerRestarts
    \/ BeginStop \/ ServerBeginsStop \/ StopAnswered \/ StopCallFails
    \/ \E result \in {"stopped", "stop_unknown"} : ServerEndsStop(result)
    \/ ShowWorker \/ AbandonWorker

Spec == Init /\ [][Next]_vars

\* The timer runs a sync every second while the dispatch is eligible and a sync goes on by
\* itself; a call that is not lost arrives.  Nothing makes the worker or the user act.
Fairness == WF_vars(SyncStep) /\ WF_vars(AckArrives)

FairSpec == Spec /\ Fairness

------------------------------------------------------------------------------
(* Properties *)

SyncStates == [pc : {"idle", "probe", "pull", "import", "acking", "acked"},
               remaining : 0..MaxPages, knownEpoch : 0..MaxEpoch, decidedFor : 0..MaxEpoch,
               pulledEpoch : 0..MaxEpoch, page : Seq(Pulled), full : BOOLEAN,
               cursor : 0..MaxItems, settlements : SUBSET Settlements,
               barrier : 0..MaxItems]

\* Every variable has its type: states are those the tables' CHECKs list, and each sequence
\* number and runtime id is one that was given out.
RelayTypeOK ==
    /\ items \in Seq(Items) /\ created \in 0..MaxItems
    /\ Len(items) <= created
    /\ ackedThrough \in 0..Len(items)
    /\ attachment \in AttachmentStates
    /\ \A r \in receipts : r \in Receipts
    /\ epoch \in 1..MaxEpoch /\ stop \in {"none", "sent", "closing", "answered"}
    /\ mailbox \in Seq([id : 1..MaxItems, kind : Kinds, rejected : BOOLEAN])
    /\ imported \in 0..Len(items)
    /\ acknowledged \in 0..MaxItems
    /\ knownEpoch \in 1..MaxEpoch /\ home \in HomeStates
    /\ sync \in SyncStates
    /\ checkpoint \in [epoch : 0..MaxEpoch, through : 0..MaxItems]
    /\ capability \in [latest : 0..MaxEpoch, cached : BOOLEAN]
    /\ stopCall \in BOOLEAN
    /\ \A request \in wire : request \in Requests
    /\ failures \in 0..MaxFailures

\* The server retires nothing the home has not committed, however late an acknowledgment
\* runs, and the home never believes retired what the server would still replay
\* (recordFederatedHomeAcknowledgment therefore never refuses).
AckedIsImported ==
    /\ ackedThrough <= imported
    /\ acknowledged <= ackedThrough

\* No report is retired before the home has judged that very report: a report that took a
\* heartbeat's place after the heartbeat was pulled is not acknowledged in its stead
\* (acknowledgeFederationRelay's check that no worker_done is passed over).
AckedReportsHaveVerdict ==
    Settling => \A n \in 1..ackedThrough :
        items[n].kind \in Reports =>
            n <= Len(mailbox) /\ mailbox[n].id = items[n].id

\* The worker server settles its attachment only as the home settled the dispatch: with two
\* reports queued, a stop under way or a restart on either side, both end the same way.
AttachmentAgreesWithHome ==
    Settling /\ attachment \in Reports => home = attachment

\* The run's mailbox shows the report that settled the dispatch, unmarked, and marks every
\* other one as rejected (importFederatedRelayItem).
MailShowsTheOutcome ==
    \A n \in DOMAIN mailbox :
        mailbox[n].kind \in Reports => (mailbox[n].rejected <=> home # mailbox[n].kind)

\* Whatever is lost, repeated or interrupted, the home receives what the worker sent in the
\* order it was sent, each item once, as long as no report has to replace a heartbeat.
Delivery == INSTANCE OrderedDelivery WITH
    sent <- [n \in DOMAIN items |-> items[n].id],
    received <- [n \in DOMAIN mailbox |-> mailbox[n].id],
    Messages <- 1..MaxItems

DeliversInOrder == Delivery!Spec

\* The home never meets a sequence number it has committed under a message it does not have
\* (importFederatedRelayItem throws on one, and no later sync can pass it).
CommittedItemsHaveTheirMessage ==
    sync.pc = "import" /\ sync.page # <<>> =>
        ~CommittedWithoutItsMessage(Head(sync.page))

\* Everything the worker sends reaches the home, unless the dispatch ends first and the home
\* stops asking.
MailArrives ==
    \A n \in 1..MaxItems : n <= Len(items) ~> (n <= imported \/ ~Eligible)

\* What the home has imported it gets acknowledged, and the dispatch can leave the relay.
AcknowledgmentsConverge ==
    \A n \in 1..MaxItems : n <= imported ~> n <= acknowledged

\* As long as no call is lost and neither server restarts, a verdict on the way or not, what
\* the home has imported it gets acknowledged.
UndisturbedAcknowledgmentsConverge ==
    \A n \in 1..MaxItems : n <= imported ~> (n <= acknowledged \/ failures > 0 \/ epoch > 1)

=============================================================================
