------------------------ MODULE FederationRelayProofs ------------------------
(* What the relay of a federated worker guarantees for any quota, any page    *)
(* size and any number of items, losses and restarts: nothing is retired that *)
(* the home has not imported and, where it is a report, judged; and the       *)
(* worker's server settles its attachment as the home settled the dispatch.   *)
EXTENDS FederationRelay, SequenceTheorems, TLAPS

\* Some list holds an entry of this id and kind.
Holds(seq, id, kind) == \E n \in DOMAIN seq : seq[n].id = id /\ seq[n].kind = kind

Known(id, kind) ==
    Holds(items, id, kind) \/ Holds(sync.page, id, kind) \/ Holds(mailbox, id, kind)

\* An id was made for one item, of one kind, at one place of the queue.
IdsAreUnique ==
    /\ \A id \in 1..MaxItems : \A kind, other \in Kinds :
          Known(id, kind) => id <= created /\ (Known(id, other) => kind = other)
    /\ \A m, n \in DOMAIN items : items[m].id = items[n].id => m = n

\* The queue holds this entry at n, unless it was no report.
StillQueued(n, entry) ==
    entry.kind \in Reports => items[n].id = entry.id /\ items[n].kind = entry.kind

\* What was pulled and what was imported stand where they stood in the queue.
ListsFollowTheQueue ==
    /\ \A n \in DOMAIN sync.page :
          /\ sync.page[n].sequence = sync.cursor + n
          /\ sync.page[n].sequence <= Len(items)
          /\ StillQueued(sync.page[n].sequence, sync.page[n])
    /\ Len(mailbox) = imported
    /\ \A n \in DOMAIN mailbox : StillQueued(n, mailbox[n])

\* A verdict is about a queued report the mailbox shows, and is the home's own.
Judged(s) ==
    /\ s.sequence \in DOMAIN mailbox
    /\ items[s.sequence].kind \in Reports
    /\ mailbox[s.sequence].id = items[s.sequence].id
    /\ s.verdict \in Reports => home = s.verdict

\* An acknowledgment is about what the home has imported.
RequestSound(request) ==
    /\ request.through <= request.cursor /\ request.cursor <= imported
    /\ \A s \in request.settlements : Judged(s)

\* What the sync in flight holds is sound, and what was answered did run.
SyncSound ==
    /\ RequestSound(Request)
    /\ sync.barrier <= sync.cursor
    /\ sync.pc \in {"import", "acking", "acked"} => sync.pulledEpoch # 0
    /\ sync.pc \in {"idle", "probe", "pull"} => sync.barrier = 0
    /\ sync.pc = "acked" => AcknowledgmentCursor <= ackedThrough

WireSound == \A request \in wire : RequestSound(request)

\* A completed receipt stands for an acknowledgment that retired its items.
ReceiptsSound == \A r \in receipts : r.completed => r.request.through <= ackedThrough

\* While verdicts travel back, no report was imported before the dispatch ends or is stopped,
\* and the mailbox shows how it ended.
OutcomeShown ==
    Settling => /\ home = "ready" => \A n \in DOMAIN mailbox : mailbox[n].kind \notin Reports
                /\ MailShowsTheOutcome

\* The inductive invariant.
RelayInvariant ==
    /\ RelayTypeOK
    /\ IdsAreUnique
    /\ ListsFollowTheQueue
    /\ SyncSound
    /\ WireSound
    /\ ReceiptsSound
    /\ AckedIsImported
    /\ AckedReportsHaveVerdict
    /\ AttachmentAgreesWithHome
    /\ OutcomeShown

\* The sync holds nothing of a page.
Fresh(s) ==
    /\ s \in SyncStates /\ s.pc \in {"idle", "probe", "pull"}
    /\ s.page = <<>> /\ s.cursor = 0 /\ s.settlements = {} /\ s.barrier = 0

\* The constants, one by one.
LEMMA Bounds ==
    /\ Settling \in BOOLEAN
    /\ Quota \in Nat /\ PageSize \in Nat /\ MaxPages \in Nat
    /\ MaxItems \in Nat /\ MaxEpoch \in Nat /\ MaxFailures \in Nat
    /\ Quota > 0 /\ PageSize > 0 /\ MaxPages > 0 /\ MaxEpoch > 0
BY RelayAssumption

\* A sync at rest holds nothing.
LEMMA IdleIsFresh == Fresh(Idle)
<1>1. <<>> \in Seq(Pulled) OBVIOUS
<1>2. 0 \in 0..MaxPages /\ 0 \in 0..MaxEpoch /\ 0 \in 0..MaxItems BY Bounds
<1> QED BY <1>1, <1>2 DEF Fresh, Idle, SyncStates

\* A page that is begun holds nothing yet.
LEMMA BegunIsFresh ==
    ASSUME NEW remaining \in 0..MaxPages, NEW known \in 0..MaxEpoch,
           NEW cache \in [latest : 0..MaxEpoch, cached : BOOLEAN],
           NEW s \in PageBegun(remaining, known, cache)
    PROVE  Fresh(s)
<1> DEFINE decided == IF Settling THEN cache.latest ELSE 0
<1>1. decided \in 0..MaxEpoch BY Bounds
<1>2. \/ s = [Idle EXCEPT !.pc = "pull", !.remaining = remaining, !.knownEpoch = known,
                       !.decidedFor = decided]
      \/ s = [Idle EXCEPT !.pc = "probe", !.remaining = remaining, !.knownEpoch = known]
  BY DEF PageBegun
<1> HIDE DEF decided
<1>3. CASE s = [Idle EXCEPT !.pc = "pull", !.remaining = remaining, !.knownEpoch = known,
                       !.decidedFor = decided]
  BY <1>1, <1>3, IdleIsFresh DEF Fresh, Idle, SyncStates
<1>4. CASE s = [Idle EXCEPT !.pc = "probe", !.remaining = remaining, !.knownEpoch = known]
  BY <1>4, IdleIsFresh DEF Fresh, Idle, SyncStates
<1> QED BY <1>2, <1>3, <1>4

\* The page that is pulled lists the queue behind the start.
LEMMA PulledPage ==
    ASSUME items \in Seq(Items), NEW start \in Nat, start < Len(items), Len(items) <= MaxItems
    PROVE  /\ PulledAfter(start) \in Seq(Pulled)
           /\ Len(PulledAfter(start)) <= Len(items) - start
           /\ \A n \in DOMAIN PulledAfter(start) :
                 /\ start + n \in DOMAIN items
                 /\ PulledAfter(start)[n] = [sequence |-> start + n, id |-> items[start + n].id,
                                            kind |-> items[start + n].kind]
<1> DEFINE size == AtMost(PageSize, Len(items) - start)
<1>1. size \in Nat /\ size <= Len(items) - start
  BY Bounds DEF AtMost
<1>2. \A n \in 1..size : start + n \in DOMAIN items /\ items[start + n] \in Items
  BY <1>1
<1>3. \A n \in 1..size :
        [sequence |-> start + n, id |-> items[start + n].id, kind |-> items[start + n].kind] \in Pulled
  BY <1>2, Bounds DEF Items, Pulled
<1>4. PulledAfter(start) \in Seq(Pulled) /\ Len(PulledAfter(start)) = size
  <2> HIDE DEF size
  <2>1. PulledAfter(start) = [n \in 1..size |->
          [sequence |-> start + n, id |-> items[start + n].id, kind |-> items[start + n].kind]]
    BY DEF PulledAfter, size
  <2>2. PulledAfter(start) \in [1..size -> Pulled] BY <1>3, <2>1
  <2> QED BY <1>1, <2>2
<1> QED BY <1>1, <1>2, <1>4 DEF PulledAfter

\* The parts of RelayTypeOK, by who changes them.
QueueTyped ==
    /\ items \in Seq(Items) /\ created \in 0..MaxItems /\ Len(items) <= created

AckTyped ==
    /\ ackedThrough \in 0..Len(items) /\ attachment \in AttachmentStates
    /\ \A r \in receipts : r \in Receipts

HomeTyped ==
    /\ mailbox \in Seq([id : 1..MaxItems, kind : Kinds, rejected : BOOLEAN])
    /\ imported \in 0..Len(items)
    /\ acknowledged \in 0..MaxItems
    /\ knownEpoch \in 1..MaxEpoch /\ home \in HomeStates

SyncTyped ==
    /\ sync \in SyncStates
    /\ checkpoint \in [epoch : 0..MaxEpoch, through : 0..MaxItems]

RestTyped ==
    /\ epoch \in 1..MaxEpoch /\ stop \in {"none", "sent", "closing", "answered"}
    /\ capability \in [latest : 0..MaxEpoch, cached : BOOLEAN]
    /\ stopCall \in BOOLEAN
    /\ \A request \in wire : request \in Requests
    /\ failures \in 0..MaxFailures

\* The parts make up the whole.
LEMMA TypeParts ==
    RelayTypeOK <=> QueueTyped /\ AckTyped /\ HomeTyped /\ SyncTyped /\ RestTyped
BY DEF RelayTypeOK, QueueTyped, AckTyped, HomeTyped, SyncTyped, RestTyped

\* The types of the fields of a sync.
LEMMA SyncFields ==
    ASSUME sync \in SyncStates
    PROVE  /\ sync.pc \in {"idle", "probe", "pull", "import", "acking", "acked"}
           /\ sync.remaining \in 0..MaxPages /\ sync.knownEpoch \in 0..MaxEpoch
           /\ sync.decidedFor \in 0..MaxEpoch /\ sync.pulledEpoch \in 0..MaxEpoch
           /\ sync.page \in Seq(Pulled) /\ sync.full \in BOOLEAN
           /\ sync.cursor \in 0..MaxItems /\ sync.settlements \in SUBSET Settlements
           /\ sync.barrier \in 0..MaxItems
BY DEF SyncStates

\* What the home would acknowledge has a type and reaches no further than the cursor.
LEMMA RequestTyped ==
    ASSUME sync \in SyncStates, sync.barrier <= sync.cursor
    PROVE  /\ Request \in Requests
           /\ Request.cursor = sync.cursor /\ Request.through = AcknowledgmentCursor
           /\ Request.settlements = sync.settlements
           /\ AcknowledgmentCursor \in 0..sync.cursor
<1>1. AcknowledgmentCursor \in 0..sync.cursor /\ AcknowledgmentCursor \in 0..MaxItems
  BY SyncFields, Bounds DEF AcknowledgmentCursor
<1> QED BY <1>1, SyncFields DEF Request, Requests

\* The end of a page keeps the types.
LEMMA PageEndsTyped ==
    ASSUME SyncTyped, RestTyped, sync.pulledEpoch # 0, NEW through \in 0..MaxItems,
           NEW point \in [epoch : 0..MaxEpoch, through : 0..MaxItems],
           PageEnds(point, through)
    PROVE  /\ capability' \in [latest : 0..MaxEpoch, cached : BOOLEAN]
           /\ knownEpoch' = sync.pulledEpoch /\ knownEpoch' \in 1..MaxEpoch
           /\ Fresh(sync')
           /\ checkpoint' \in [epoch : 0..MaxEpoch, through : 0..MaxItems]
<1> DEFINE cache == IF capability.latest = sync.pulledEpoch THEN capability
                    ELSE [latest |-> sync.pulledEpoch, cached |-> FALSE]
<1> USE Bounds
<1>0. /\ sync.pulledEpoch \in 1..MaxEpoch /\ sync.pulledEpoch \in 0..MaxEpoch
      /\ sync.remaining \in 0..MaxPages
      /\ capability \in [latest : 0..MaxEpoch, cached : BOOLEAN]
  BY SyncFields DEF SyncTyped, RestTyped
<1>1. cache \in [latest : 0..MaxEpoch, cached : BOOLEAN]
  <2>1. [latest |-> sync.pulledEpoch, cached |-> FALSE] \in [latest : 0..MaxEpoch, cached : BOOLEAN]
    BY <1>0
  <2> QED BY <1>0, <2>1
<1>2. capability' = cache /\ knownEpoch' = sync.pulledEpoch
  BY DEF PageEnds
<1>3. NoCheckpoint \in [epoch : 0..MaxEpoch, through : 0..MaxItems]
  BY Bounds DEF NoCheckpoint
<1>4. checkpoint' \in [epoch : 0..MaxEpoch, through : 0..MaxItems]
  BY <1>3 DEF PageEnds, SyncTyped
<1>5. Fresh(sync')
  <2> HIDE DEF cache
  <2>1. CASE sync.remaining > 1 /\ sync' \in PageBegun(sync.remaining - 1, sync.pulledEpoch, cache)
    <3>1. sync.remaining - 1 \in 0..MaxPages BY <1>0, <2>1, Bounds
    <3>2. sync.pulledEpoch \in 0..MaxEpoch BY <1>0, Bounds
    <3> QED BY <1>1, <2>1, <3>1, <3>2, BegunIsFresh
  <2>2. CASE sync' = Idle BY <2>2, IdleIsFresh
  <2> QED BY <2>1, <2>2 DEF PageEnds, cache
<1> QED BY <1>0, <1>1, <1>2, <1>4, <1>5

\* The end of a sync keeps the types.
LEMMA SyncEndsTyped ==
    ASSUME SyncTyped, SyncEnds
    PROVE  SyncTyped' /\ Fresh(sync')
<1>1. NoCheckpoint \in [epoch : 0..MaxEpoch, through : 0..MaxItems]
  BY Bounds DEF NoCheckpoint
<1> QED BY <1>1, IdleIsFresh DEF SyncEnds, SyncTyped, Fresh

\* The item an import looks at, and what is left of the page.
LEMMA HeadOfPage ==
    ASSUME SyncTyped, ListsFollowTheQueue, sync.page # <<>>
    PROVE  /\ Head(sync.page) \in Pulled /\ Head(sync.page) = sync.page[1]
           /\ 1 \in DOMAIN sync.page
           /\ Head(sync.page).sequence = sync.cursor + 1
           /\ Head(sync.page).sequence <= Len(items)
           /\ StillQueued(Head(sync.page).sequence, Head(sync.page))
           /\ Tail(sync.page) \in Seq(Pulled)
           /\ \A n \in DOMAIN Tail(sync.page) :
                 n + 1 \in DOMAIN sync.page /\ Tail(sync.page)[n] = sync.page[n + 1]
<1>1. sync.page \in Seq(Pulled) BY SyncFields DEF SyncTyped
<1>2. 1 \in DOMAIN sync.page BY <1>1
<1>3. Head(sync.page) = sync.page[1] /\ sync.page[1] \in Pulled BY <1>1, <1>2
<1>4. Tail(sync.page) \in Seq(Pulled) BY <1>1
<1>5. \A n \in DOMAIN Tail(sync.page) :
        n + 1 \in DOMAIN sync.page /\ Tail(sync.page)[n] = sync.page[n + 1]
  BY <1>1
<1>6. /\ sync.page[1].sequence = sync.cursor + 1
      /\ sync.page[1].sequence <= Len(items)
      /\ StillQueued(sync.page[1].sequence, sync.page[1])
  BY <1>2 DEF ListsFollowTheQueue
<1> QED BY <1>2, <1>3, <1>4, <1>5, <1>6

\* A sending worker keeps the types.
LEMMA SendTyped ==
    ASSUME RelayTypeOK, NEW kind \in Kinds, Send(kind)
    PROVE  RelayTypeOK'
<1>0. QueueTyped /\ AckTyped /\ HomeTyped /\ SyncTyped /\ RestTyped BY TypeParts
<1>1. created' \in 0..MaxItems /\ created' = created + 1 /\ created + 1 \in 1..MaxItems
  BY <1>0, Bounds DEF Send, QueueTyped
<1>2. [id |-> created + 1, kind |-> kind] \in Items BY <1>1 DEF Items
<1>3. items' \in Seq(Items) /\ Len(items') \in {Len(items), Len(items) + 1}
  BY <1>0, <1>2 DEF Send, Inserted, ReplacesHeartbeat, QueueTyped, Unacknowledged, UnackedHeartbeats
<1>4. QueueTyped' BY <1>0, <1>1, <1>3 DEF QueueTyped
<1>5. AckTyped'
  BY <1>0, <1>3 DEF AckTyped, QueueTyped, Send, AttachmentStates, Reports
<1>6. HomeTyped' BY <1>0, <1>3 DEF HomeTyped, QueueTyped, Send, homeVars
<1>7. SyncTyped' BY <1>0 DEF SyncTyped, Send, memoryVars
<1>8. RestTyped' BY <1>0 DEF RestTyped, Send, memoryVars
<1> QED BY <1>4, <1>5, <1>6, <1>7, <1>8 DEF RelayTypeOK, QueueTyped, AckTyped, HomeTyped, SyncTyped,
           RestTyped

\* A step that leaves the queue alone keeps its part and the others one by one.
LEMMA PartsTyped ==
    ASSUME QueueTyped, UNCHANGED <<items, created>>, AckTyped', HomeTyped', SyncTyped', RestTyped'
    PROVE  RelayTypeOK'
BY DEF RelayTypeOK, QueueTyped, AckTyped, HomeTyped, SyncTyped, RestTyped

\* The sync's own steps keep the types.
LEMMA SyncTypedStep ==
    ASSUME RelayInvariant,
           StartSync \/ Probe \/ Pull \/ ImportThrows \/ SendAck \/ NothingToAck \/ RecordAck
             \/ AckTimesOut \/ SyncTimesOut \/ AnswerLost \/ HomeRestarts
    PROVE  RelayTypeOK'
<1> USE Bounds
<1>0. QueueTyped /\ AckTyped /\ HomeTyped /\ SyncTyped /\ RestTyped
  BY TypeParts DEF RelayInvariant
<1>1. CASE StartSync
  <2>1. MaxPages \in 0..MaxPages /\ knownEpoch \in 0..MaxEpoch BY <1>0 DEF HomeTyped
  <2>2. Fresh(sync') BY <1>0, <1>1, <2>1, BegunIsFresh DEF StartSync, RestTyped
  <2>3. SyncTyped' BY <1>0, <1>1, <2>2 DEF StartSync, SyncTyped, Fresh
  <2>4. AckTyped' /\ HomeTyped' /\ RestTyped'
    BY <1>0, <1>1 DEF StartSync, AckTyped, HomeTyped, RestTyped, serverVars, homeVars
  <2> QED BY <1>0, <1>1, <2>3, <2>4, PartsTyped DEF StartSync, serverVars
<1>2. CASE Probe
  <2>0. epoch \in 0..MaxEpoch BY <1>0 DEF RestTyped
  <2>1. SyncTyped' BY <1>0, <1>2, <2>0 DEF Probe, SyncTyped, SyncStates
  <2>2. AckTyped' /\ HomeTyped' /\ RestTyped'
    BY <1>0, <1>2, <2>0 DEF Probe, AckTyped, HomeTyped, RestTyped, serverVars, homeVars
  <2> QED BY <1>0, <1>2, <2>1, <2>2, PartsTyped DEF Probe, serverVars
<1>3. CASE Pull
  <2> DEFINE start == IF ReplaysUnacknowledged THEN ackedThrough ELSE imported
             page == IF start < Len(items) THEN PulledAfter(start) ELSE <<>>
             cursor == IF page = <<>> THEN imported ELSE start
  <2>1. start \in Nat /\ imported \in 0..MaxItems /\ ackedThrough \in 0..MaxItems
        /\ Len(items) <= MaxItems
    BY <1>0 DEF AckTyped, HomeTyped, QueueTyped
  <2>2. page \in Seq(Pulled) BY <1>0, <2>1, PulledPage DEF QueueTyped
  <2>3. cursor \in 0..MaxItems BY <2>1
  <2>4. epoch \in 0..MaxEpoch BY <1>0 DEF RestTyped
  <2>5. sync' = [sync EXCEPT !.pc = "import", !.pulledEpoch = epoch, !.page = page,
                             !.full = Len(page) = PageSize, !.cursor = cursor]
    BY <1>3 DEF Pull
  <2> DEFINE full == (Len(page) = PageSize)
  <2>6. full \in BOOLEAN OBVIOUS
  <2> HIDE DEF page, cursor
  <2>7. SyncTyped'
    BY <1>0, <1>3, <2>2, <2>3, <2>4, <2>5, <2>6 DEF Pull, SyncTyped, SyncStates
  <2>8. AckTyped' /\ HomeTyped' /\ RestTyped'
    BY <1>0, <1>3 DEF Pull, AckTyped, HomeTyped, RestTyped, serverVars, homeVars
  <2> QED BY <1>0, <1>3, <2>7, <2>8, PartsTyped DEF Pull, serverVars
<1>4. CASE ImportThrows \/ AckTimesOut \/ SyncTimesOut \/ AnswerLost
  <2>1. SyncTyped'
    BY <1>0, <1>4, SyncEndsTyped DEF ImportThrows, AckTimesOut, SyncTimesOut, AnswerLost
  <2>2. AckTyped' /\ HomeTyped' /\ RestTyped'
    BY <1>0, <1>4 DEF ImportThrows, AckTimesOut, SyncTimesOut, AnswerLost, Fails, AckTyped,
       HomeTyped, RestTyped, serverVars, homeVars
  <2> QED BY <1>0, <1>4, <2>1, <2>2, PartsTyped
          DEF ImportThrows, AckTimesOut, SyncTimesOut, AnswerLost, serverVars
<1>5. CASE SendAck
  <2>1. SyncTyped' BY <1>0, <1>5 DEF SendAck, SyncTyped, SyncStates
  <2>2. Request \in Requests BY <1>0, RequestTyped DEF RelayInvariant, SyncSound, SyncTyped
  <2>3. AckTyped' /\ HomeTyped' /\ RestTyped'
    BY <1>0, <1>5, <2>2 DEF SendAck, AckTyped, HomeTyped, RestTyped, serverVars, homeVars
  <2> QED BY <1>0, <1>5, <2>1, <2>3, PartsTyped DEF SendAck, serverVars
<1>6. CASE NothingToAck
  <2>1. sync.pulledEpoch # 0 BY <1>6 DEF NothingToAck, RelayInvariant, SyncSound
  <2>2. PageEnds(checkpoint, acknowledged) /\ acknowledged \in 0..MaxItems
        /\ checkpoint \in [epoch : 0..MaxEpoch, through : 0..MaxItems]
    BY <1>0, <1>6 DEF NothingToAck, SyncTyped, HomeTyped
  <2>3. /\ capability' \in [latest : 0..MaxEpoch, cached : BOOLEAN]
        /\ knownEpoch' \in 1..MaxEpoch /\ Fresh(sync')
        /\ checkpoint' \in [epoch : 0..MaxEpoch, through : 0..MaxItems]
    BY <1>0, <2>1, <2>2, PageEndsTyped
  <2>4. AckTyped' /\ HomeTyped' /\ RestTyped' /\ SyncTyped'
    BY <1>0, <1>6, <2>3 DEF NothingToAck, AckTyped, HomeTyped, RestTyped, SyncTyped, serverVars, Fresh
  <2> QED BY <1>0, <1>6, <2>4, PartsTyped DEF NothingToAck, serverVars
<1>7. CASE RecordAck
  <2> DEFINE kept == Kept(AcknowledgmentCursor)
             recorded == IF knownEpoch = sync.pulledEpoch THEN AtLeast(acknowledged, kept) ELSE kept
             point == IF /\ checkpoint.epoch = sync.pulledEpoch
                         /\ checkpoint.through >= kept
                      THEN checkpoint ELSE [epoch |-> sync.pulledEpoch, through |-> kept]
  <2>0. SyncTyped' /\ HomeTyped' /\ RestTyped' /\ AckTyped'
    <3>1. sync.pulledEpoch # 0 BY <1>7 DEF RecordAck, RelayInvariant, SyncSound
    <3>2. AcknowledgmentCursor \in 0..sync.cursor /\ sync.cursor \in 0..MaxItems
      BY <1>0, RequestTyped, SyncFields DEF RelayInvariant, SyncSound, SyncTyped
    <3>3. kept \in 0..MaxItems BY <3>2 DEF Kept, AtLeast
    <3>4. recorded \in 0..MaxItems BY <1>0, <3>3 DEF AtLeast, HomeTyped
    <3>5. point \in [epoch : 0..MaxEpoch, through : 0..MaxItems]
      <4>1. [epoch |-> sync.pulledEpoch, through |-> kept] \in [epoch : 0..MaxEpoch, through : 0..MaxItems]
        BY <1>0, <3>3, SyncFields DEF SyncTyped
      <4> QED BY <1>0, <4>1 DEF SyncTyped
    <3>6. acknowledged' = recorded /\ PageEnds(point, recorded)
      BY <1>7 DEF RecordAck
    <3> HIDE DEF point, recorded, kept
    <3>7. /\ capability' \in [latest : 0..MaxEpoch, cached : BOOLEAN]
          /\ knownEpoch' \in 1..MaxEpoch /\ Fresh(sync')
          /\ checkpoint' \in [epoch : 0..MaxEpoch, through : 0..MaxItems]
      BY <1>0, <3>1, <3>4, <3>5, <3>6, PageEndsTyped
    <3> QED BY <1>0, <1>7, <3>4, <3>6, <3>7
            DEF RecordAck, AckTyped, HomeTyped, RestTyped, SyncTyped, serverVars, Fresh
  <2> QED BY <1>0, <1>7, <2>0, PartsTyped DEF RecordAck, serverVars
<1>8. CASE HomeRestarts
  <2>1. NoCheckpoint \in [epoch : 0..MaxEpoch, through : 0..MaxItems] BY DEF NoCheckpoint
  <2>2. SyncTyped' BY <1>8, <2>1, IdleIsFresh DEF HomeRestarts, SyncTyped, Fresh
  <2>3. [latest |-> 0, cached |-> FALSE] \in [latest : 0..MaxEpoch, cached : BOOLEAN]
    OBVIOUS
  <2>4. AckTyped' /\ HomeTyped'
    BY <1>0, <1>8 DEF HomeRestarts, AckTyped, HomeTyped, serverVars, homeVars
  <2>5. RestTyped'
    <3>1. failures' \in 0..MaxFailures BY <1>0, <1>8 DEF HomeRestarts, Fails, RestTyped
    <3>2. capability' \in [latest : 0..MaxEpoch, cached : BOOLEAN] /\ stopCall' \in BOOLEAN
      BY <1>8, <2>3 DEF HomeRestarts
    <3> QED BY <1>0, <1>8, <3>1, <3>2 DEF HomeRestarts, RestTyped
  <2> QED BY <1>0, <1>8, <2>2, <2>4, <2>5, PartsTyped DEF HomeRestarts, serverVars
<1> QED BY <1>1, <1>2, <1>3, <1>4, <1>5, <1>6, <1>7, <1>8

\* An import keeps the types: what is appended was pulled.
LEMMA ImportTyped ==
    ASSUME RelayInvariant, ImportItem
    PROVE  RelayTypeOK'
<1> DEFINE item == Head(sync.page)
           report == item.kind \in Reports
           entry == [id |-> item.id, kind |-> item.kind,
                     rejected |-> report /\ Verdict(item.kind) = "rejected"]
           settlement == [sequence |-> item.sequence, verdict |-> Verdict(item.kind)]
           barrier == IF sync.barrier = 0 /\ Settling /\ report /\ ~MaySettle
                      THEN item.sequence ELSE sync.barrier
           settlements == IF report /\ MaySettle THEN sync.settlements \cup {settlement}
                          ELSE sync.settlements
<1>0. QueueTyped /\ AckTyped /\ HomeTyped /\ SyncTyped /\ RestTyped /\ ListsFollowTheQueue
  BY TypeParts DEF RelayInvariant
<1>1. /\ item \in Pulled /\ Tail(sync.page) \in Seq(Pulled)
      /\ item.sequence \in 1..MaxItems /\ item.id \in 1..MaxItems /\ item.kind \in Kinds
      /\ item.sequence \in 0..MaxItems /\ item.sequence <= Len(items)
  <2>1. item \in Pulled /\ item.sequence <= Len(items) /\ Tail(sync.page) \in Seq(Pulled)
    BY <1>0, HeadOfPage DEF ImportItem
  <2> QED BY <2>1, Bounds DEF Pulled
<1>2. /\ mailbox' = IF Duplicate(item) THEN mailbox ELSE Append(mailbox, entry)
      /\ imported' = AtLeast(imported, item.sequence)
      /\ home' = IF report /\ home = "ready" THEN item.kind ELSE home
      /\ sync' = [sync EXCEPT !.page = Tail(@), !.cursor = item.sequence,
                             !.settlements = settlements, !.barrier = barrier]
  BY DEF ImportItem
<1>3. entry \in [id : 1..MaxItems, kind : Kinds, rejected : BOOLEAN]
  BY <1>1
<1>4. report => Verdict(item.kind) \in Verdicts
  BY DEF Verdict, Verdicts
<1>5. settlements \in SUBSET Settlements /\ barrier \in 0..MaxItems
  BY <1>0, <1>1, <1>4, SyncFields DEF SyncTyped, Settlements
<1> HIDE DEF item, entry, settlements, barrier
<1>6. HomeTyped'
  <2>1. mailbox' \in Seq([id : 1..MaxItems, kind : Kinds, rejected : BOOLEAN])
    <3> DEFINE Messages == [id : 1..MaxItems, kind : Kinds, rejected : BOOLEAN]
    <3>1. mailbox \in Seq(Messages) /\ entry \in Messages BY <1>0, <1>3 DEF HomeTyped
    <3> HIDE DEF Messages
    <3>2. mailbox' \in Seq(Messages) BY <1>2, <3>1
    <3> QED BY <3>2 DEF Messages
  <2>2. imported' \in 0..Len(items) BY <1>0, <1>1, <1>2, Bounds DEF HomeTyped, AtLeast, QueueTyped
  <2>3. home' \in HomeStates BY <1>0, <1>1, <1>2 DEF HomeTyped, HomeStates
  <2> QED BY <1>0, <2>1, <2>2, <2>3 DEF HomeTyped, ImportItem, serverVars
<1>7. SyncTyped'
  BY <1>0, <1>1, <1>2, <1>5 DEF SyncTyped, SyncStates, ImportItem
<1>8. AckTyped' /\ RestTyped'
  BY <1>0 DEF AckTyped, RestTyped, ImportItem, serverVars
<1> QED BY <1>0, <1>6, <1>7, <1>8, PartsTyped DEF ImportItem, serverVars

\* Executing an acknowledgment keeps the types of the server's rows.
LEMMA AcknowledgeTyped ==
    ASSUME RelayInvariant, NEW request \in wire, Acknowledge(request)
    PROVE  /\ ackedThrough' \in 0..Len(items) /\ ackedThrough' <= imported
           /\ ackedThrough' >= ackedThrough /\ ackedThrough' >= request.through
           /\ attachment' \in AttachmentStates
           /\ attachment' = attachment \/ attachment' \in Outcomes(request)
<1>0. QueueTyped /\ AckTyped /\ HomeTyped /\ RestTyped BY TypeParts DEF RelayInvariant
<1>1. request \in Requests /\ request.through <= imported
  <2>1. request \in Requests BY <1>0 DEF RestTyped
  <2>2. request.through \in Int /\ request.cursor \in Int BY <2>1 DEF Requests
  <2>3. request.through <= request.cursor /\ request.cursor <= imported
    BY DEF RelayInvariant, WireSound, RequestSound
  <2> QED BY <1>0, <2>1, <2>2, <2>3 DEF HomeTyped
<1>2. request.through \in 0..MaxItems BY <1>1 DEF Requests
<1>3. ackedThrough' = AtLeast(ackedThrough, request.through) BY DEF Acknowledge
<1>4. /\ ackedThrough' \in 0..Len(items) /\ ackedThrough' <= imported
      /\ ackedThrough' >= ackedThrough /\ ackedThrough' >= request.through
  BY <1>0, <1>1, <1>2, <1>3, Bounds
     DEF AtLeast, QueueTyped, AckTyped, HomeTyped, RelayInvariant, AckedIsImported
<1>5. attachment' = attachment \/ attachment' \in Outcomes(request) BY DEF Acknowledge
<1>6. Outcomes(request) \subseteq AttachmentStates BY DEF Outcomes, AttachmentStates
<1> QED BY <1>0, <1>4, <1>5, <1>6 DEF AckTyped

\* Whatever an acknowledgment meets at the server, the types stay.
LEMMA AckTypedStep ==
    ASSUME RelayInvariant, AckArrives \/ ServerRestarts
    PROVE  RelayTypeOK'
<1> USE Bounds
<1>0. QueueTyped /\ AckTyped /\ HomeTyped /\ SyncTyped /\ RestTyped
  BY TypeParts DEF RelayInvariant
<1>1. \A request \in wire : \A completed \in BOOLEAN : Receipt(request, completed) \in Receipts
  BY <1>0 DEF RestTyped, Receipt, Receipts, Requests
<1>2. ASSUME NEW request, NEW ok, Answered(request, ok) PROVE SyncTyped'
  <2>1. CASE sync' = [sync EXCEPT !.pc = "acked"] /\ UNCHANGED checkpoint
    BY <1>0, <2>1 DEF SyncTyped, SyncStates
  <2>2. CASE UNCHANGED <<sync, checkpoint>> BY <1>0, <2>2 DEF SyncTyped
  <2> QED BY <1>0, <1>2, <2>1, <2>2, SyncEndsTyped DEF Answered
<1>3. CASE AckArrives
  <2>1. PICK request \in wire :
          /\ AckExecutes(request) \/ AckReplays(request) \/ AckRefused(request)
          /\ wire' = wire \ {request}
    BY <1>3 DEF AckArrives
  <2>2. SyncTyped' BY <1>2, <2>1 DEF AckExecutes, AckReplays, AckRefused
  <2>3. AckTyped'
    <3>1. CASE AckExecutes(request)
      BY <1>0, <1>1, <1>3, <3>1, AcknowledgeTyped DEF AckTyped, AckArrives, AckExecutes
    <3>2. CASE AckReplays(request) \/ AckRefused(request)
      BY <1>0, <1>3, <3>2 DEF AckTyped, AckArrives, AckReplays, AckRefused
    <3> QED BY <2>1, <3>1, <3>2
  <2>4. HomeTyped' /\ RestTyped'
    BY <1>0, <1>3, <2>1 DEF AckArrives, HomeTyped, RestTyped, homeVars
  <2> QED BY <1>0, <1>3, <2>2, <2>3, <2>4, PartsTyped DEF AckArrives
<1>4. CASE ServerRestarts
  <2>1. AckTyped'
    <3>1. CASE UNCHANGED <<ackedThrough, attachment, receipts>>
      BY <1>0, <1>4, <3>1 DEF AckTyped, ServerRestarts
    <3>2. ASSUME NEW request \in wire, receipts' = receipts \cup {Receipt(request, FALSE)},
                 Acknowledge(request) \/ UNCHANGED <<ackedThrough, attachment>>
          PROVE  AckTyped'
      BY <1>0, <1>1, <1>4, <3>2, AcknowledgeTyped DEF AckTyped, ServerRestarts
    <3> QED BY <1>4, <3>1, <3>2 DEF ServerRestarts
  <2>2. SyncTyped' /\ HomeTyped' /\ RestTyped'
    BY <1>0, <1>4 DEF ServerRestarts, SyncTyped, HomeTyped, RestTyped, homeVars, memoryVars
  <2> QED BY <1>0, <1>4, <2>1, <2>2, PartsTyped DEF ServerRestarts
<1> QED BY <1>3, <1>4

\* A stop, an abandon, a look at the worker and a lost call keep the types.
LEMMA HomeTypedStep ==
    ASSUME RelayInvariant,
           \/ AckLost \/ BeginStop \/ ServerBeginsStop \/ StopAnswered \/ StopCallFails
           \/ \E result \in {"stopped", "stop_unknown"} : ServerEndsStop(result)
           \/ ShowWorker \/ AbandonWorker \/ UNCHANGED vars
    PROVE  RelayTypeOK'
<1> USE Bounds
<1>0. QueueTyped /\ AckTyped /\ HomeTyped /\ SyncTyped /\ RestTyped
  BY TypeParts DEF RelayInvariant
<1>1. UNCHANGED <<items, created>>
  BY DEF AckLost, BeginStop, ServerBeginsStop, StopAnswered, StopCallFails, ServerEndsStop,
     ShowWorker, AbandonWorker, vars, serverVars
<1>2. AckTyped'
  BY <1>0 DEF AckTyped, AckLost, BeginStop, ServerBeginsStop, StopAnswered, StopCallFails,
     ServerEndsStop, ShowWorker, AbandonWorker, vars, serverVars, AttachmentStates
<1>3. HomeTyped'
  <2>1. UNCHANGED <<mailbox, imported, acknowledged>>
    BY DEF AckLost, BeginStop, ServerBeginsStop, StopAnswered, StopCallFails, ServerEndsStop,
     ShowWorker, AbandonWorker, vars, homeVars
  <2>2. knownEpoch' \in {knownEpoch, epoch}
    BY DEF AckLost, BeginStop, ServerBeginsStop, StopAnswered, StopCallFails, ServerEndsStop,
     ShowWorker, AbandonWorker, vars, homeVars
  <2>3. home' = home \/ home' \in {"ready", "stopping", "stop_unknown", "stopped", "abandoned"}
    BY DEF AckLost, BeginStop, ServerBeginsStop, StopAnswered, StopCallFails, ServerEndsStop,
     ShowWorker, AbandonWorker, vars, homeVars
  <2> QED BY <1>0, <1>1, <2>1, <2>2, <2>3 DEF HomeTyped, HomeStates, RestTyped
<1>4. SyncTyped'
  BY <1>0 DEF SyncTyped, AckLost, BeginStop, ServerBeginsStop, StopAnswered, StopCallFails,
     ServerEndsStop, ShowWorker, AbandonWorker, vars, memoryVars
<1>5. RestTyped'
  <2>1. UNCHANGED <<epoch, capability>> /\ stopCall' \in {stopCall, TRUE, FALSE}
    BY DEF AckLost, BeginStop, ServerBeginsStop, StopAnswered, StopCallFails,
       ServerEndsStop, ShowWorker, AbandonWorker, vars, memoryVars
  <2>2. wire' \subseteq wire
    BY DEF AckLost, BeginStop, ServerBeginsStop, StopAnswered, StopCallFails,
       ServerEndsStop, ShowWorker, AbandonWorker, vars
  <2>3. stop' = stop \/ stop' \in {"none", "sent", "closing", "answered"}
    BY DEF AckLost, BeginStop, ServerBeginsStop, StopAnswered, StopCallFails,
       ServerEndsStop, ShowWorker, AbandonWorker, vars
  <2>4. failures' = failures \/ Fails
    BY DEF AckLost, BeginStop, ServerBeginsStop, StopAnswered, StopCallFails,
       ServerEndsStop, ShowWorker, AbandonWorker, vars
  <2>5. failures' \in 0..MaxFailures BY <1>0, <2>4 DEF RestTyped, Fails
  <2>6. stopCall' \in BOOLEAN BY <1>0, <2>1 DEF RestTyped
  <2> QED BY <1>0, <2>1, <2>2, <2>3, <2>5, <2>6 DEF RestTyped
<1> QED BY <1>0, <1>1, <1>2, <1>3, <1>4, <1>5, PartsTyped

\* Every step keeps the types.
LEMMA TypeStep ==
    ASSUME RelayInvariant, [Next]_vars
    PROVE  RelayTypeOK'
<1>1. RelayTypeOK BY DEF RelayInvariant
<1> QED BY <1>1, SendTyped, SyncTypedStep, ImportTyped, AckTypedStep, HomeTypedStep DEF Next

\* What is queued as a report, imported or settled stays so.
Grows ==
    /\ \A n \in DOMAIN mailbox : n \in DOMAIN mailbox' /\ mailbox'[n] = mailbox[n]
    /\ \A n \in DOMAIN items :
          n \in DOMAIN items' /\ (items[n].kind \in Reports => items'[n] = items[n])
    /\ imported' >= imported
    /\ home \in Reports => home' = home

\* A sound acknowledgment stays sound while the lists grow.
LEMMA RequestKept ==
    ASSUME RelayTypeOK, RelayTypeOK', ListsFollowTheQueue, Grows,
           NEW request \in Requests, RequestSound(request)
    PROVE  RequestSound(request)'
<1>1. imported \in Nat /\ imported' \in Nat /\ imported' >= imported
      /\ request.cursor \in Nat
  <2>1. HomeTyped /\ HomeTyped' /\ QueueTyped /\ QueueTyped'
    BY DEF RelayTypeOK, HomeTyped, QueueTyped
  <2> QED BY <2>1, Bounds DEF HomeTyped, QueueTyped, Grows, Requests
<1>2. ASSUME NEW s \in request.settlements PROVE Judged(s)'
  <2>1. Judged(s) BY <1>2 DEF RequestSound
  <2>2. s.sequence \in DOMAIN mailbox /\ s.sequence \in DOMAIN items
    <3>1. HomeTyped /\ QueueTyped BY DEF RelayTypeOK, HomeTyped, QueueTyped
    <3>2. s.sequence \in 1..Len(mailbox) BY <2>1, <3>1 DEF Judged, HomeTyped
    <3>3. Len(mailbox) = imported /\ imported <= Len(items) /\ items \in Seq(Items)
      BY <3>1 DEF ListsFollowTheQueue, HomeTyped, QueueTyped
    <3> QED BY <2>1, <3>2, <3>3 DEF Judged
  <2> QED BY <2>1, <2>2 DEF Judged, Grows
<1>3. request.through <= request.cursor /\ request.cursor <= imported BY DEF RequestSound
<1>4. request.cursor <= imported' BY <1>1, <1>3
<1> QED BY <1>2, <1>3, <1>4 DEF RequestSound

\* The sync goes on with the same page and the same verdicts.
SameData ==
    /\ sync'.page = sync.page /\ sync'.cursor = sync.cursor
    /\ sync'.settlements = sync.settlements /\ sync'.barrier = sync.barrier

\* A step that neither sends, pulls nor imports keeps the lists and what acknowledgments say.
LEMMA Carried ==
    ASSUME RelayInvariant, RelayTypeOK', UNCHANGED <<items, created, mailbox, imported>>,
           home \in Reports => home' = home,
           Fresh(sync') \/ SameData,
           \A request \in wire' : request \in wire \/ request = Request
    PROVE  /\ IdsAreUnique' /\ ListsFollowTheQueue'
           /\ RequestSound(Request)' /\ sync'.barrier <= sync'.cursor
           /\ WireSound'
<1>0. imported \in Nat /\ QueueTyped
  <2>1. HomeTyped /\ QueueTyped BY TypeParts DEF RelayInvariant
  <2> QED BY <2>1, Bounds DEF HomeTyped, QueueTyped
<1>1. Grows
  <2>1. items' = items /\ mailbox' = mailbox /\ imported' = imported OBVIOUS
  <2>2. imported' >= imported BY <1>0, <2>1
  <2> QED BY <2>1, <2>2 DEF Grows
<1>2. sync'.page = <<>> \/ sync'.page = sync.page BY DEF Fresh, SameData
<1>3. IdsAreUnique'
  <2>1. ASSUME NEW id, NEW kind, Known(id, kind)' PROVE Known(id, kind)
    BY <1>2, <2>1 DEF Known, Holds
  <2> QED BY <2>1 DEF RelayInvariant, IdsAreUnique
<1>4. ListsFollowTheQueue'
  <2>1. items' = items /\ mailbox' = mailbox /\ imported' = imported OBVIOUS
  <2>2. CASE sync'.page = <<>>
    BY <2>1, <2>2 DEF RelayInvariant, ListsFollowTheQueue, StillQueued
  <2>3. CASE SameData
    BY <2>1, <2>3 DEF RelayInvariant, ListsFollowTheQueue, StillQueued, SameData
  <2> QED BY <2>2, <2>3 DEF Fresh
<1>5. ASSUME NEW request \in Requests, RequestSound(request) PROVE RequestSound(request)'
  BY <1>1, <1>5, RequestKept DEF RelayInvariant
<1>6. /\ RequestSound(Request) /\ sync.barrier <= sync.cursor /\ Request \in Requests
  BY RequestTyped DEF RelayInvariant, SyncSound, RelayTypeOK
<1>7. WireSound'
  BY <1>5, <1>6 DEF WireSound, RelayInvariant, RelayTypeOK
<1>8. CASE SameData
  <2>1. Request' = Request BY <1>8 DEF SameData, Request, AcknowledgmentCursor
  <2>2. RequestSound(Request)'
    <3> DEFINE request == Request
    <3>1. RequestSound(request) /\ request \in Requests BY <1>6
    <3>2. request.through <= request.cursor /\ request.cursor <= imported BY <3>1 DEF RequestSound
    <3>3. \A s \in request.settlements : Judged(s)' BY <1>5, <3>1 DEF RequestSound
    <3> QED BY <2>1, <3>2, <3>3 DEF RequestSound
  <2> QED BY <1>3, <1>4, <1>6, <1>7, <1>8, <2>2 DEF SameData
<1>9. CASE Fresh(sync')
  <2>1. sync'.cursor = 0 /\ sync'.barrier = 0 /\ sync'.settlements = {} BY <1>9 DEF Fresh
  <2>2. Request' = [cursor |-> 0, through |-> 0, settlements |-> {}]
    BY <2>1 DEF Request, AcknowledgmentCursor
  <2>3. imported' >= 0 BY <1>0
  <2>4. RequestSound(Request)' BY <2>2, <2>3 DEF RequestSound
  <2> QED BY <1>3, <1>4, <1>7, <2>1, <2>4
<1> QED BY <1>8, <1>9

\* A home that only changes between states that are no report's shows the outcome as before.
LEMMA OutcomeKept ==
    ASSUME OutcomeShown, mailbox' = mailbox,
           \/ home' = home
           \/ home \notin Reports /\ home' \notin Reports /\ (home' = "ready" => ~Settling)
    PROVE  OutcomeShown'
BY DEF OutcomeShown, MailShowsTheOutcome

\* A recorded acknowledgment ends its page, and was answered: the server retired as much.
LEMMA RecordFacts ==
    ASSUME RelayInvariant, RecordAck
    PROVE  Fresh(sync') /\ acknowledged' <= ackedThrough
<1> DEFINE kept == Kept(AcknowledgmentCursor)
           recorded == IF knownEpoch = sync.pulledEpoch THEN AtLeast(acknowledged, kept) ELSE kept
           point == IF /\ checkpoint.epoch = sync.pulledEpoch
                       /\ checkpoint.through >= kept
                    THEN checkpoint ELSE [epoch |-> sync.pulledEpoch, through |-> kept]
<1>0. QueueTyped /\ AckTyped /\ HomeTyped /\ SyncTyped /\ RestTyped
  BY TypeParts DEF RelayInvariant
<1>1. sync.pulledEpoch # 0 /\ AcknowledgmentCursor <= ackedThrough
  BY DEF RecordAck, RelayInvariant, SyncSound
<1>2. AcknowledgmentCursor \in 0..sync.cursor /\ sync.cursor \in 0..MaxItems
  BY <1>0, RequestTyped, SyncFields DEF RelayInvariant, SyncSound, SyncTyped
<1>3. kept \in 0..MaxItems /\ kept <= AcknowledgmentCursor BY <1>2, Bounds DEF Kept, AtLeast
<1>4. ackedThrough \in Nat /\ acknowledged \in 0..MaxItems BY <1>0 DEF AckTyped, HomeTyped
<1>5. acknowledged <= ackedThrough BY DEF RelayInvariant, AckedIsImported
<1>6. kept <= ackedThrough BY <1>1, <1>2, <1>3, <1>4, Bounds
<1>7. recorded \in 0..MaxItems /\ recorded <= ackedThrough
  BY <1>3, <1>4, <1>5, <1>6 DEF AtLeast
<1>8. point \in [epoch : 0..MaxEpoch, through : 0..MaxItems]
  <2>1. [epoch |-> sync.pulledEpoch, through |-> kept] \in [epoch : 0..MaxEpoch, through : 0..MaxItems]
    BY <1>0, <1>3, SyncFields DEF SyncTyped
  <2> QED BY <1>0, <2>1 DEF SyncTyped
<1>9. acknowledged' = recorded /\ PageEnds(point, recorded) BY DEF RecordAck
<1> HIDE DEF point, recorded, kept
<1>10. Fresh(sync') BY <1>0, <1>1, <1>7, <1>8, <1>9, PageEndsTyped
<1> QED BY <1>7, <1>9, <1>10

\* What such a step of the sync leaves of the page and of what was acknowledged.
LEMMA SyncMoves ==
    ASSUME RelayInvariant,
           StartSync \/ Probe \/ ImportThrows \/ SendAck \/ NothingToAck \/ RecordAck
             \/ AckTimesOut \/ SyncTimesOut \/ AnswerLost \/ HomeRestarts \/ AckLost
    PROVE  \/ Fresh(sync') /\ UNCHANGED acknowledged
           \/ Fresh(sync') /\ RecordAck
           \/ SameData /\ UNCHANGED <<sync, acknowledged>>
           \/ SameData /\ sync'.pc = "acking" /\ sync.pc = "import" /\ UNCHANGED acknowledged
                 /\ sync'.pulledEpoch = sync.pulledEpoch
           \/ SameData /\ sync.pc = "probe" /\ sync'.pc = "pull" /\ UNCHANGED acknowledged
<1>0. QueueTyped /\ AckTyped /\ HomeTyped /\ SyncTyped /\ RestTyped
  BY TypeParts DEF RelayInvariant
<1>1. CASE StartSync
  <2>1. MaxPages \in 0..MaxPages /\ knownEpoch \in 0..MaxEpoch BY <1>0, Bounds DEF HomeTyped
  <2> QED BY <1>0, <1>1, <2>1, BegunIsFresh DEF StartSync, RestTyped, homeVars
<1>2. CASE Probe
  BY <1>0, <1>2 DEF Probe, SameData, SyncTyped, SyncStates, homeVars
<1>3. CASE ImportThrows \/ AckTimesOut \/ SyncTimesOut \/ AnswerLost
  BY <1>0, <1>3, SyncEndsTyped DEF ImportThrows, AckTimesOut, SyncTimesOut, AnswerLost, homeVars
<1>4. CASE SendAck
  BY <1>0, <1>4 DEF SendAck, SameData, SyncTyped, SyncStates, homeVars
<1>5. CASE NothingToAck
  <2>1. sync.pulledEpoch # 0 BY <1>5 DEF NothingToAck, RelayInvariant, SyncSound
  <2>2. PageEnds(checkpoint, acknowledged) /\ acknowledged \in 0..MaxItems
        /\ checkpoint \in [epoch : 0..MaxEpoch, through : 0..MaxItems]
    BY <1>0, <1>5 DEF NothingToAck, SyncTyped, HomeTyped
  <2> QED BY <1>0, <1>5, <2>1, <2>2, PageEndsTyped DEF NothingToAck
<1>6. CASE RecordAck BY <1>6, RecordFacts
<1>7. CASE HomeRestarts
  BY <1>7, IdleIsFresh DEF HomeRestarts, homeVars
<1>8. CASE AckLost
  BY <1>8 DEF AckLost, SameData, homeVars, memoryVars
<1> QED BY <1>1, <1>2, <1>3, <1>4, <1>5, <1>6, <1>7, <1>8

\* The sync's own steps, but for pulling and importing, keep the invariant.
LEMMA SyncKeeps ==
    ASSUME RelayInvariant,
           StartSync \/ Probe \/ ImportThrows \/ SendAck \/ NothingToAck \/ RecordAck
             \/ AckTimesOut \/ SyncTimesOut \/ AnswerLost \/ HomeRestarts \/ AckLost
    PROVE  RelayInvariant'
<1>0. /\ RelayTypeOK' /\ QueueTyped /\ AckTyped /\ HomeTyped /\ SyncTyped /\ RestTyped
      /\ sync.barrier <= sync.cursor
  BY SyncTypedStep, HomeTypedStep, TypeParts DEF RelayInvariant, SyncSound
<1>1. UNCHANGED <<serverVars, mailbox, imported, home>>
  BY DEF StartSync, Probe, ImportThrows, SendAck, NothingToAck, RecordAck, AckTimesOut,
     SyncTimesOut, AnswerLost, HomeRestarts, AckLost, homeVars
<1>2. \A request \in wire' : request \in wire \/ request = Request
  BY DEF StartSync, Probe, ImportThrows, SendAck, NothingToAck, RecordAck, AckTimesOut,
     SyncTimesOut, AnswerLost, HomeRestarts, AckLost
<1>3. \/ Fresh(sync') /\ UNCHANGED acknowledged
      \/ Fresh(sync') /\ RecordAck
      \/ SameData /\ UNCHANGED <<sync, acknowledged>>
      \/ SameData /\ sync'.pc = "acking" /\ sync.pc = "import" /\ UNCHANGED acknowledged
            /\ sync'.pulledEpoch = sync.pulledEpoch
      \/ SameData /\ sync.pc = "probe" /\ sync'.pc = "pull" /\ UNCHANGED acknowledged
  BY SyncMoves
<1>4. /\ IdsAreUnique' /\ ListsFollowTheQueue'
      /\ RequestSound(Request)' /\ sync'.barrier <= sync'.cursor
      /\ WireSound'
  <2>1. UNCHANGED <<items, created, mailbox, imported, home>> BY <1>1 DEF serverVars
  <2>2. Fresh(sync') \/ SameData BY <1>3
  <2> QED BY <1>0, <1>2, <2>1, <2>2, Carried
<1>5. AckedIsImported'
  <2>1. acknowledged' <= ackedThrough
    <3>1. CASE UNCHANGED acknowledged
      BY <3>1 DEF RelayInvariant, AckedIsImported
    <3>2. CASE RecordAck BY <1>1, <3>2, RecordFacts
    <3> QED BY <1>3, <3>1, <3>2
  <2> QED BY <1>1, <2>1 DEF RelayInvariant, AckedIsImported, serverVars
<1>6. SyncSound'
  <2>1. /\ sync.pc \in {"import", "acking", "acked"} => sync.pulledEpoch # 0
        /\ sync.pc \in {"idle", "probe", "pull"} => sync.barrier = 0
        /\ sync.pc = "acked" => AcknowledgmentCursor <= ackedThrough
    BY DEF RelayInvariant, SyncSound
  <2>2. (sync.pc \in {"import", "acking", "acked"} => sync.pulledEpoch # 0)'
    BY <1>3, <2>1 DEF Fresh
  <2>3. (sync.pc = "acked" => AcknowledgmentCursor <= ackedThrough)'
    BY <1>1, <1>3, <2>1 DEF Fresh, serverVars, AcknowledgmentCursor
  <2>4. (sync.pc \in {"idle", "probe", "pull"} => sync.barrier = 0)'
    BY <1>3, <2>1 DEF Fresh, SameData
  <2> QED BY <1>4, <2>2, <2>3, <2>4 DEF SyncSound
<1>7. ReceiptsSound' /\ AckedReportsHaveVerdict' /\ AttachmentAgreesWithHome'
  BY <1>1 DEF RelayInvariant, ReceiptsSound, AckedReportsHaveVerdict, AttachmentAgreesWithHome,
     serverVars
<1>8. OutcomeShown' BY <1>1, OutcomeKept DEF RelayInvariant
<1> QED BY <1>0, <1>4, <1>5, <1>6, <1>7, <1>8 DEF RelayInvariant

\* A message that is sent takes one place of the queue, and no report's: a new one behind it,
\* or that of an unacknowledged heartbeat.
LEMMA SentPlace ==
    ASSUME QueueTyped, ackedThrough \in 0..Len(items), NEW kind \in Kinds, Send(kind)
    PROVE  \E n \in DOMAIN items' :
              /\ n > ackedThrough
              /\ items'[n] = [id |-> created + 1, kind |-> kind]
              /\ n \in DOMAIN items => items[n].kind \notin Reports
              /\ \A m \in DOMAIN items : m \in DOMAIN items'
              /\ \A m \in DOMAIN items' : m # n => m \in DOMAIN items /\ items'[m] = items[m]
<1> DEFINE new == [id |-> created + 1, kind |-> kind]
<1> HIDE DEF new
<1>1. CASE items' = Append(items, new)
  <2>1. items \in Seq(Items) BY DEF QueueTyped
  <2>2. /\ Len(items') = Len(items) + 1 /\ items'[Len(items) + 1] = new
        /\ \A m \in 1..Len(items) : items'[m] = items[m]
        /\ DOMAIN items' = 1..(Len(items) + 1) /\ DOMAIN items = 1..Len(items)
        /\ Len(items) \in Nat
    BY <1>1, <2>1
  <2>3. Len(items) + 1 \in DOMAIN items' /\ Len(items) + 1 > ackedThrough
        /\ Len(items) + 1 \notin DOMAIN items
    BY <2>2
  <2>4. \A m \in DOMAIN items' : m # Len(items) + 1 => m \in DOMAIN items /\ items'[m] = items[m]
    BY <2>2
  <2> QED BY <2>2, <2>3, <2>4 DEF new
<1>2. CASE ReplacesHeartbeat(kind)
  <2>1. PICK n \in UnackedHeartbeats : items' = [items EXCEPT ![n] = new]
    BY <1>2 DEF ReplacesHeartbeat, new
  <2>2. n \in DOMAIN items /\ n > ackedThrough /\ items[n].kind = "heartbeat"
    BY DEF UnackedHeartbeats, Unacknowledged
  <2>3. DOMAIN items' = DOMAIN items /\ items'[n] = new
        /\ \A m \in DOMAIN items : m # n => items'[m] = items[m]
    BY <2>1, <2>2
  <2> QED BY <2>2, <2>3 DEF new, Reports
<1> QED BY <1>1, <1>2 DEF Send, Inserted, new

\* A sending worker keeps the invariant.
LEMMA SendKeeps ==
    ASSUME RelayInvariant, NEW kind \in Kinds, Send(kind)
    PROVE  RelayInvariant'
<1>0. /\ RelayTypeOK /\ RelayTypeOK'
      /\ QueueTyped /\ AckTyped /\ HomeTyped /\ SyncTyped /\ RestTyped
  BY SendTyped, TypeParts DEF RelayInvariant
<1>1. /\ ackedThrough' = ackedThrough /\ receipts' = receipts /\ mailbox' = mailbox
      /\ imported' = imported /\ acknowledged' = acknowledged /\ home' = home
      /\ sync' = sync /\ wire' = wire /\ created' = created + 1
  BY DEF Send, homeVars, memoryVars
<1>2. Settling => attachment' = attachment BY DEF Send
<1>3. ackedThrough \in 0..Len(items) /\ created \in Nat /\ imported \in 0..Len(items)
      /\ Len(mailbox) = imported /\ DOMAIN mailbox = 1..imported
      /\ DOMAIN items = 1..Len(items) /\ sync.page \in Seq(Pulled)
  BY <1>0, SyncFields DEF AckTyped, QueueTyped, HomeTyped, RelayInvariant, ListsFollowTheQueue,
     SyncTyped
<1>4. PICK n \in DOMAIN items' :
         /\ n > ackedThrough
         /\ items'[n] = [id |-> created + 1, kind |-> kind]
         /\ n \in DOMAIN items => items[n].kind \notin Reports
         /\ \A m \in DOMAIN items : m \in DOMAIN items'
         /\ \A m \in DOMAIN items' : m # n => m \in DOMAIN items /\ items'[m] = items[m]
  BY <1>0, <1>3, SentPlace
<1>5. Grows BY <1>1, <1>3, <1>4 DEF Grows
<1>6. IdsAreUnique'
  <2>1. ASSUME NEW id \in 1..MaxItems, NEW k \in Kinds, Known(id, k)'
        PROVE  Known(id, k) \/ (id = created + 1 /\ k = kind)
    BY <1>1, <1>4, <2>1 DEF Known, Holds
  <2>2. ASSUME NEW id \in 1..MaxItems, NEW k \in Kinds, Known(id, k)
        PROVE  id <= created
    BY <2>2 DEF RelayInvariant, IdsAreUnique
  <2>3. ASSUME NEW id \in 1..MaxItems, NEW k \in Kinds, NEW other \in Kinds, Known(id, k)'
        PROVE  id <= created' /\ (Known(id, other)' => k = other)
    <3>1. id <= created + 1 BY <1>3, <2>1, <2>2, <2>3
    <3>2. ASSUME Known(id, other)' PROVE k = other
      <4>1. CASE id = created + 1 BY <1>3, <2>1, <2>2, <2>3, <3>2, <4>1
      <4>2. CASE id # created + 1
        BY <2>1, <2>3, <3>2, <4>2 DEF RelayInvariant, IdsAreUnique
      <4> QED BY <4>1, <4>2
    <3> QED BY <1>1, <3>1, <3>2
  <2>4. ASSUME NEW m \in DOMAIN items, NEW k \in DOMAIN items PROVE items[m].id <= created
    <3>0. items[m] \in Items BY <1>0 DEF QueueTyped
    <3>1. items[m].id \in 1..MaxItems /\ items[m].kind \in Kinds BY <3>0 DEF Items
    <3>2. Known(items[m].id, items[m].kind) BY DEF Known, Holds
    <3> QED BY <3>1, <3>2, <2>2
  <2>5. ASSUME NEW m \in DOMAIN items', NEW k \in DOMAIN items', items'[m].id = items'[k].id
        PROVE  m = k
    <3>1. CASE m = n /\ k # n
      <4>1. k \in DOMAIN items /\ items'[k].id <= created BY <1>4, <2>4, <3>1
      <4> QED BY <1>3, <1>4, <2>5, <3>1, <4>1
    <3>2. CASE m # n /\ k = n
      <4>1. m \in DOMAIN items /\ items'[m].id <= created BY <1>4, <2>4, <3>2
      <4> QED BY <1>3, <1>4, <2>5, <3>2, <4>1
    <3>3. CASE m # n /\ k # n
      BY <1>4, <2>5, <3>3 DEF RelayInvariant, IdsAreUnique
    <3> QED BY <3>1, <3>2, <3>3
  <2> QED BY <2>3, <2>5 DEF IdsAreUnique
<1>7. Len(items') >= Len(items)
  <2>1. items' \in Seq(Items) /\ DOMAIN items' = 1..Len(items') /\ Len(items') \in Nat
    <3>1. QueueTyped' BY <1>0 DEF RelayTypeOK, QueueTyped
    <3> QED BY <3>1 DEF QueueTyped
  <2>2. Len(items) = 0 \/ Len(items) \in DOMAIN items'  BY <1>3, <1>4
  <2> QED BY <1>3, <2>1, <2>2
<1>8. ListsFollowTheQueue'
  <2>1. ASSUME NEW m \in DOMAIN sync.page
        PROVE  /\ sync.page[m].sequence = sync.cursor + m
               /\ sync.page[m].sequence <= Len(items')
               /\ StillQueued(sync.page[m].sequence, sync.page[m])'
    <3>1. /\ sync.page[m].sequence = sync.cursor + m
          /\ sync.page[m].sequence <= Len(items)
          /\ StillQueued(sync.page[m].sequence, sync.page[m])
      BY DEF RelayInvariant, ListsFollowTheQueue
    <3>2. sync.page[m].sequence \in DOMAIN items
      <4>0. sync.page[m] \in Pulled BY <1>3
      <4>1. sync.page[m].sequence \in Nat /\ sync.page[m].sequence > 0
        BY <4>0, Bounds DEF Pulled
      <4> QED BY <1>3, <3>1, <4>1
    <3> DEFINE q == sync.page[m].sequence
    <3>3. items[q].kind \in Reports => items'[q] = items[q] BY <1>4, <3>2
    <3>4. StillQueued(q, sync.page[m])' BY <1>1, <3>1, <3>3 DEF StillQueued
    <3> QED BY <1>3, <1>7, <3>1, <3>2, <3>4
  <2>2. ASSUME NEW m \in DOMAIN mailbox PROVE StillQueued(m, mailbox[m])'
    <3>1. StillQueued(m, mailbox[m]) BY DEF RelayInvariant, ListsFollowTheQueue
    <3>2. m \in DOMAIN items BY <1>3
    <3>3. items[m].kind \in Reports => items'[m] = items[m] BY <1>4, <3>2
    <3> QED BY <1>1, <3>1, <3>3 DEF StillQueued
  <2> QED BY <1>1, <1>3, <2>1, <2>2 DEF ListsFollowTheQueue
<1>9. ASSUME NEW request \in Requests, RequestSound(request) PROVE RequestSound(request)'
  BY <1>0, <1>5, <1>9, RequestKept DEF RelayInvariant
<1>10. WireSound'
  BY <1>1, <1>9 DEF WireSound, RelayInvariant, RelayTypeOK
<1>11. SyncSound'
  <2>1. RequestSound(Request) /\ sync.barrier <= sync.cursor /\ Request \in Requests
    BY <1>0, RequestTyped DEF RelayInvariant, SyncSound, SyncTyped
  <2> DEFINE request == Request
  <2>2. \A s \in request.settlements : Judged(s)' BY <1>9, <2>1 DEF RequestSound
  <2>3. request' = request BY <1>1 DEF Request, AcknowledgmentCursor
  <2>4. request.through <= request.cursor /\ request.cursor <= imported
    BY <2>1 DEF RequestSound
  <2>5. RequestSound(Request)' BY <1>1, <2>2, <2>3, <2>4 DEF RequestSound
  <2> QED BY <1>1, <2>5 DEF RelayInvariant, SyncSound, AcknowledgmentCursor
<1>12. AckedIsImported' /\ ReceiptsSound' /\ AttachmentAgreesWithHome'
  BY <1>1, <1>2 DEF RelayInvariant, AckedIsImported, ReceiptsSound, AttachmentAgreesWithHome
<1>13. AckedReportsHaveVerdict'
  <2>1. \A m \in 1..ackedThrough : m \in DOMAIN items /\ items'[m] = items[m]
    BY <1>3, <1>4
  <2> QED BY <1>1, <2>1 DEF RelayInvariant, AckedReportsHaveVerdict
<1>14. OutcomeShown' BY <1>1, OutcomeKept DEF RelayInvariant
<1> QED BY <1>0, <1>6, <1>8, <1>10, <1>11, <1>12, <1>13, <1>14 DEF RelayInvariant

\* Pulling keeps the invariant.
LEMMA PullKeeps ==
    ASSUME RelayInvariant, Pull
    PROVE  RelayInvariant'
<1> DEFINE start == IF ReplaysUnacknowledged THEN ackedThrough ELSE imported
           page == IF start < Len(items) THEN PulledAfter(start) ELSE <<>>
           cursor == IF page = <<>> THEN imported ELSE start
<1>0. /\ RelayTypeOK /\ RelayTypeOK'
      /\ QueueTyped /\ AckTyped /\ HomeTyped /\ SyncTyped /\ RestTyped
  BY SyncTypedStep, TypeParts DEF RelayInvariant
<1>1. /\ items' = items /\ created' = created /\ ackedThrough' = ackedThrough
      /\ attachment' = attachment /\ receipts' = receipts /\ mailbox' = mailbox
      /\ imported' = imported /\ acknowledged' = acknowledged /\ home' = home
      /\ wire' = wire /\ sync.pc = "pull" /\ epoch' = epoch
  BY DEF Pull, serverVars, homeVars
<1>2. /\ sync' = [sync EXCEPT !.pc = "import", !.pulledEpoch = epoch, !.page = page,
                              !.full = Len(page) = PageSize, !.cursor = cursor]
  BY DEF Pull
<1>3. /\ start \in Nat /\ imported \in Nat /\ start <= imported
      /\ items \in Seq(Items) /\ Len(items) <= MaxItems /\ DOMAIN items = 1..Len(items)
  BY <1>0, Bounds DEF AckTyped, HomeTyped, QueueTyped, RelayInvariant, AckedIsImported
<1>4. \A n \in DOMAIN page :
         /\ n \in Nat /\ start + n \in DOMAIN items /\ cursor = start
         /\ page[n] = [sequence |-> start + n, id |-> items[start + n].id,
                       kind |-> items[start + n].kind]
  <2>1. CASE start < Len(items)
    <3>1. /\ PulledAfter(start) \in Seq(Pulled)
          /\ \A n \in DOMAIN PulledAfter(start) :
                 /\ start + n \in DOMAIN items
                 /\ PulledAfter(start)[n] = [sequence |-> start + n, id |-> items[start + n].id,
                                            kind |-> items[start + n].kind]
      BY <1>3, <2>1, PulledPage
    <3>2. page = PulledAfter(start) BY <2>1
    <3>3. \A n \in DOMAIN page : n \in Nat /\ page # <<>> BY <3>1, <3>2
    <3> QED BY <3>1, <3>2, <3>3
  <2>2. CASE ~(start < Len(items))
    <3>1. page = <<>> BY <2>2
    <3>2. DOMAIN page = {} BY <3>1
    <3> QED BY <3>2
  <2> QED BY <2>1, <2>2
<1>5. cursor \in Nat /\ cursor <= imported BY <1>3
<1> HIDE DEF page, cursor, start
<1>6. /\ sync'.pc = "import" /\ sync'.pulledEpoch = epoch /\ sync'.page = page
      /\ sync'.cursor = cursor /\ sync'.settlements = sync.settlements
      /\ sync'.barrier = sync.barrier
  BY <1>0, <1>2 DEF SyncTyped, SyncStates
<1>7. sync.barrier = 0 BY <1>1 DEF RelayInvariant, SyncSound
<1>8. IdsAreUnique'
  <2>1. ASSUME NEW id, NEW kind, Known(id, kind)' PROVE Known(id, kind)
    <3>1. CASE Holds(page, id, kind)
      BY <1>4, <3>1 DEF Known, Holds
    <3>2. CASE Holds(items, id, kind) \/ Holds(mailbox, id, kind)
      BY <3>2 DEF Known
    <3> QED BY <1>1, <1>6, <2>1, <3>1, <3>2 DEF Known, Holds
  <2> QED BY <1>1, <2>1 DEF RelayInvariant, IdsAreUnique
<1>9. ListsFollowTheQueue'
  <2>1. ASSUME NEW n \in DOMAIN page
        PROVE  /\ page[n].sequence = cursor + n
               /\ page[n].sequence <= Len(items)
               /\ StillQueued(page[n].sequence, page[n])
    <3>1. /\ start + n \in DOMAIN items /\ cursor = start
          /\ page[n].sequence = start + n /\ page[n].id = items[start + n].id
          /\ page[n].kind = items[start + n].kind
      BY <1>4
    <3> QED BY <1>3, <3>1 DEF StillQueued
  <2>2. \A n \in DOMAIN sync'.page :
          /\ sync'.page[n].sequence = sync'.cursor + n
          /\ sync'.page[n].sequence <= Len(items')
          /\ StillQueued(sync.page[n].sequence, sync.page[n])'
    BY <1>1, <1>6, <2>1 DEF StillQueued
  <2>3. Len(mailbox) = imported /\ \A n \in DOMAIN mailbox : StillQueued(n, mailbox[n])'
    BY <1>1 DEF RelayInvariant, ListsFollowTheQueue, StillQueued
  <2> QED BY <1>1, <2>2, <2>3 DEF ListsFollowTheQueue
<1>10. \A s : Judged(s) => Judged(s)' BY <1>1 DEF Judged
<1>11. WireSound' BY <1>1, <1>10 DEF RelayInvariant, WireSound, RequestSound
<1>12. SyncSound'
  <2>1. \A s \in sync.settlements : Judged(s)
    BY DEF RelayInvariant, SyncSound, RequestSound, Request
  <2>2. Request' = [cursor |-> cursor, through |-> cursor, settlements |-> sync.settlements]
    BY <1>6, <1>7 DEF Request, AcknowledgmentCursor
  <2>3. RequestSound(Request)' BY <1>1, <1>5, <1>10, <2>1, <2>2 DEF RequestSound
  <2>4. epoch # 0 BY <1>0, Bounds DEF RestTyped
  <2> QED BY <1>5, <1>6, <1>7, <2>3, <2>4 DEF SyncSound
<1>13. ReceiptsSound' /\ AckedIsImported' /\ AckedReportsHaveVerdict' /\ AttachmentAgreesWithHome'
  BY <1>1 DEF RelayInvariant, ReceiptsSound, AckedIsImported, AckedReportsHaveVerdict,
     AttachmentAgreesWithHome
<1>14. OutcomeShown' BY <1>1, OutcomeKept DEF RelayInvariant
<1> QED BY <1>0, <1>8, <1>9, <1>11, <1>12, <1>13, <1>14 DEF RelayInvariant

\* What importing an item changes, in the terms of the invariant.
Imports(item) ==
    /\ item = Head(sync.page) /\ item \in Pulled
    /\ item.sequence = sync.cursor + 1 /\ item.sequence <= imported + 1
    /\ item.sequence \in DOMAIN items
    /\ StillQueued(item.sequence, item)
    /\ \/ /\ item.sequence <= imported /\ mailbox' = mailbox /\ imported' = imported
          /\ \E m \in DOMAIN mailbox : mailbox[m].id = item.id
       \/ /\ item.sequence = imported + 1 /\ imported' = imported + 1
          /\ mailbox' = Append(mailbox, [id |-> item.id, kind |-> item.kind,
                 rejected |-> item.kind \in Reports /\ Verdict(item.kind) = "rejected"])
    /\ home' = IF item.kind \in Reports /\ home = "ready" THEN item.kind ELSE home
    /\ sync'.pc = "import" /\ sync'.page = Tail(sync.page) /\ sync'.cursor = item.sequence
    /\ sync'.pulledEpoch = sync.pulledEpoch
    /\ \A s \in sync'.settlements :
          \/ s \in sync.settlements
          \/ /\ item.kind \in Reports
             /\ s.sequence = item.sequence /\ s.verdict = Verdict(item.kind)
    /\ sync'.barrier \in {sync.barrier, item.sequence}

\* An import is such a change for the item at the head of the page.
LEMMA ImportFacts ==
    ASSUME RelayInvariant, ImportItem
    PROVE  \E item \in Pulled : Imports(item)
<1> DEFINE item == Head(sync.page)
<1>0. /\ QueueTyped /\ AckTyped /\ HomeTyped /\ SyncTyped /\ RestTyped
  BY TypeParts DEF RelayInvariant
<1>1. /\ item \in Pulled /\ item.sequence = sync.cursor + 1 /\ item.sequence <= Len(items)
      /\ StillQueued(item.sequence, item)
  BY <1>0, HeadOfPage DEF RelayInvariant, ImportItem
<1>2. item.sequence \in DOMAIN items /\ item.sequence \in Nat /\ imported \in Nat
  <2>1. item.sequence \in 1..MaxItems BY <1>1 DEF Pulled
  <2>2. items \in Seq(Items) /\ imported \in 0..Len(items) BY <1>0 DEF QueueTyped, HomeTyped
  <2> QED BY <1>1, <2>1, <2>2, Bounds
<1>3. item.sequence <= imported + 1 /\ ~CommittedWithoutItsMessage(item)
  BY DEF ImportItem, Importable
<1>4. \/ /\ item.sequence <= imported /\ mailbox' = mailbox /\ imported' = imported
         /\ \E m \in DOMAIN mailbox : mailbox[m].id = item.id
      \/ /\ item.sequence = imported + 1 /\ imported' = imported + 1
         /\ mailbox' = Append(mailbox, [id |-> item.id, kind |-> item.kind,
                rejected |-> item.kind \in Reports /\ Verdict(item.kind) = "rejected"])
  <2>1. imported' = AtLeast(imported, item.sequence) BY DEF ImportItem
  <2>2. CASE item.sequence <= imported
    <3>1. mailbox' = mailbox BY <2>2 DEF ImportItem, Duplicate
    <3>2. item.id \in Ids(mailbox) BY <1>3, <2>2 DEF CommittedWithoutItsMessage, Duplicate
    <3>3. \E m \in DOMAIN mailbox : mailbox[m].id = item.id BY <3>2 DEF Ids
    <3> QED BY <1>2, <2>1, <2>2, <3>1, <3>3 DEF AtLeast
  <2>3. CASE ~(item.sequence <= imported)
    <3>1. mailbox' = Append(mailbox, [id |-> item.id, kind |-> item.kind,
                rejected |-> item.kind \in Reports /\ Verdict(item.kind) = "rejected"])
      BY <2>3 DEF ImportItem, Duplicate
    <3> QED BY <1>2, <1>3, <2>1, <2>3, <3>1 DEF AtLeast
  <2> QED BY <2>2, <2>3
<1>5. home' = IF item.kind \in Reports /\ home = "ready" THEN item.kind ELSE home
  BY DEF ImportItem
<1> DEFINE judgement == [sequence |-> item.sequence, verdict |-> Verdict(item.kind)]
           verdicts == IF item.kind \in Reports /\ MaySettle
                       THEN sync.settlements \cup {judgement} ELSE sync.settlements
           barrier == IF /\ sync.barrier = 0 /\ Settling
                         /\ item.kind \in Reports /\ ~MaySettle
                      THEN item.sequence ELSE sync.barrier
<1>8. sync' = [sync EXCEPT !.page = Tail(sync.page), !.cursor = item.sequence,
                           !.settlements = verdicts, !.barrier = barrier]
  BY DEF ImportItem
<1>9. \A s \in verdicts :
        \/ s \in sync.settlements
        \/ /\ item.kind \in Reports
           /\ s.sequence = item.sequence /\ s.verdict = Verdict(item.kind)
  OBVIOUS
<1>10. barrier \in {sync.barrier, item.sequence} OBVIOUS
<1>11. sync.pc = "import" BY DEF ImportItem
<1> HIDE DEF verdicts, barrier
<1>12. /\ sync'.pc = "import" /\ sync'.page = Tail(sync.page) /\ sync'.cursor = item.sequence
       /\ sync'.pulledEpoch = sync.pulledEpoch
       /\ sync'.settlements = verdicts /\ sync'.barrier = barrier
  BY <1>0, <1>8, <1>11 DEF SyncTyped, SyncStates
<1>6. /\ sync'.pc = "import" /\ sync'.page = Tail(sync.page) /\ sync'.cursor = item.sequence
      /\ sync'.pulledEpoch = sync.pulledEpoch
      /\ \A s \in sync'.settlements :
            \/ s \in sync.settlements
            \/ /\ item.kind \in Reports
               /\ s.sequence = item.sequence /\ s.verdict = Verdict(item.kind)
      /\ sync'.barrier \in {sync.barrier, item.sequence}
  BY <1>9, <1>10, <1>12
<1>7. Imports(item) BY <1>1, <1>2, <1>3, <1>4, <1>5, <1>6 DEF Imports
<1> QED BY <1>1, <1>7

\* A report that is pulled again was imported from where it still stands.
LEMMA DuplicateReport ==
    ASSUME RelayInvariant, NEW item \in Pulled, Imports(item), item.kind \in Reports,
           item.sequence <= imported
    PROVE  /\ item.sequence \in DOMAIN mailbox
           /\ mailbox[item.sequence].id = item.id
           /\ mailbox[item.sequence].kind = item.kind
<1>0. /\ QueueTyped /\ HomeTyped /\ SyncTyped
  BY TypeParts DEF RelayInvariant
<1>1. /\ Len(mailbox) = imported /\ DOMAIN mailbox = 1..imported
      /\ \A n \in DOMAIN mailbox : StillQueued(n, mailbox[n])
      /\ imported <= Len(items) /\ DOMAIN items = 1..Len(items)
      /\ item.sequence \in DOMAIN items /\ item.sequence \in Nat
      /\ item.id \in 1..MaxItems /\ item.kind \in Kinds
  <2>1. item.sequence \in 1..MaxItems /\ item.id \in 1..MaxItems /\ item.kind \in Kinds
    BY DEF Pulled
  <2>2. mailbox \in Seq([id : 1..MaxItems, kind : Kinds, rejected : BOOLEAN])
        /\ items \in Seq(Items) /\ imported \in 0..Len(items)
    BY <1>0 DEF HomeTyped, QueueTyped
  <2> QED BY <2>1, <2>2, Bounds DEF RelayInvariant, ListsFollowTheQueue, Imports
<1>2. PICK m \in DOMAIN mailbox : mailbox[m].id = item.id
  <2>1. CASE \E k \in DOMAIN mailbox : mailbox[k].id = item.id BY <2>1
  <2>2. item.sequence # imported + 1
    <3>1. imported \in Nat BY <1>0 DEF HomeTyped, QueueTyped
    <3> QED BY <1>1, <3>1
  <2> QED BY <2>1, <2>2 DEF Imports
<1>3. items[item.sequence].id = item.id /\ items[item.sequence].kind = item.kind
  BY DEF Imports, StillQueued
<1>4. mailbox[m].kind = item.kind
  <2>1. Known(item.id, item.kind) BY <1>1, <1>3 DEF Known, Holds
  <2>2. Known(item.id, mailbox[m].kind) BY <1>2 DEF Known, Holds
  <2>3. mailbox[m].kind \in Kinds
    <3> DEFINE Messages == [id : 1..MaxItems, kind : Kinds, rejected : BOOLEAN]
    <3>1. \A message \in Messages : message.kind \in Kinds OBVIOUS
    <3>2. mailbox \in Seq(Messages) BY <1>0 DEF HomeTyped
    <3> HIDE DEF Messages
    <3>3. mailbox[m] \in Messages BY <3>2
    <3> QED BY <3>1, <3>3
  <2> QED BY <1>1, <2>1, <2>2, <2>3 DEF RelayInvariant, IdsAreUnique
<1>5. items[m].id = item.id BY <1>1, <1>2, <1>4 DEF StillQueued
<1>6. m \in DOMAIN items BY <1>0, <1>1 DEF HomeTyped
<1>7. m = item.sequence
  BY <1>1, <1>3, <1>5, <1>6 DEF RelayInvariant, IdsAreUnique
<1> QED BY <1>2, <1>4, <1>7

\* The mailbox goes on showing how the dispatch ended.
LEMMA ImportShows ==
    ASSUME RelayInvariant, NEW item \in Pulled, Imports(item), Settling
    PROVE  OutcomeShown'
<1>0. HomeTyped BY TypeParts DEF RelayInvariant
<1>1. /\ home = "ready" => \A n \in DOMAIN mailbox : mailbox[n].kind \notin Reports
      /\ \A n \in DOMAIN mailbox :
            mailbox[n].kind \in Reports => (mailbox[n].rejected <=> home # mailbox[n].kind)
  BY DEF RelayInvariant, OutcomeShown, MailShowsTheOutcome
<1>2. home' = IF item.kind \in Reports /\ home = "ready" THEN item.kind ELSE home
  BY DEF Imports
<1>3. CASE item.sequence <= imported
  <2>1. mailbox' = mailbox
    <3>1. imported \in Nat BY <1>0, TypeParts, Bounds DEF HomeTyped, QueueTyped, RelayInvariant
    <3> QED BY <1>3, <3>1 DEF Imports
  <2>2. home' = home
    <3>1. CASE item.kind \in Reports
      <4>1. home # "ready" BY <1>1, <1>3, <3>1, DuplicateReport
      <4> QED BY <1>2, <4>1
    <3>2. CASE item.kind \notin Reports BY <1>2, <3>2
    <3> QED BY <3>1, <3>2
  <2> QED BY <2>1, <2>2, OutcomeKept DEF RelayInvariant
<1>4. CASE ~(item.sequence <= imported)
  <2> DEFINE new == [id |-> item.id, kind |-> item.kind,
                     rejected |-> item.kind \in Reports /\ Verdict(item.kind) = "rejected"]
  <2>1. mailbox' = Append(mailbox, new) BY <1>4 DEF Imports
  <2>2. mailbox \in Seq([id : 1..MaxItems, kind : Kinds, rejected : BOOLEAN])
    BY <1>0 DEF HomeTyped
  <2>3. new.kind = item.kind
        /\ (new.rejected <=> item.kind \in Reports /\ Verdict(item.kind) = "rejected")
    OBVIOUS
  <2> HIDE DEF new
  <2>4. \A n \in DOMAIN mailbox' :
          \/ n \in DOMAIN mailbox /\ mailbox'[n] = mailbox[n]
          \/ mailbox'[n] = new
    BY <2>1, <2>2
  <2>5. CASE item.kind \in Reports
    <3>1. home' # "ready" BY <1>2, <2>5 DEF Reports
    <3>2. new.rejected <=> home' # new.kind
      <4>1. CASE home = "ready"
        BY <1>2, <2>3, <2>5, <4>1 DEF Verdict, Reports
      <4>2. CASE home = item.kind
        BY <1>2, <2>3, <2>5, <4>2 DEF Verdict, Reports
      <4>3. CASE home # "ready" /\ home # item.kind
        BY <1>2, <2>3, <2>5, <4>3 DEF Verdict
      <4> QED BY <4>1, <4>2, <4>3
    <3>3. \A n \in DOMAIN mailbox :
            mailbox[n].kind \in Reports => (mailbox[n].rejected <=> home' # mailbox[n].kind)
      BY <1>1, <1>2
    <3> QED BY <2>4, <3>1, <3>2, <3>3 DEF OutcomeShown, MailShowsTheOutcome
  <2>6. CASE item.kind \notin Reports
    <3>1. home' = home BY <1>2, <2>6
    <3> QED BY <1>1, <2>3, <2>4, <2>6, <3>1 DEF OutcomeShown, MailShowsTheOutcome
  <2> QED BY <2>5, <2>6
<1> QED BY <1>3, <1>4

\* Importing an item keeps the invariant.
LEMMA ImportKeeps ==
    ASSUME RelayInvariant, ImportItem
    PROVE  RelayInvariant'
<1>0. /\ RelayTypeOK /\ RelayTypeOK'
      /\ QueueTyped /\ AckTyped /\ HomeTyped /\ SyncTyped /\ RestTyped
  BY ImportTyped, TypeParts DEF RelayInvariant
<1>1. /\ items' = items /\ created' = created /\ ackedThrough' = ackedThrough
      /\ attachment' = attachment /\ receipts' = receipts
      /\ acknowledged' = acknowledged /\ wire' = wire /\ sync.page # <<>>
      /\ sync.pc = "import"
  BY DEF ImportItem, serverVars
<1>2. PICK item \in Pulled : Imports(item) BY ImportFacts
<1>3. /\ mailbox \in Seq([id : 1..MaxItems, kind : Kinds, rejected : BOOLEAN])
      /\ imported \in 0..Len(items) /\ imported \in Nat
      /\ Len(mailbox) = imported /\ DOMAIN mailbox = 1..imported
      /\ item.sequence \in Nat /\ item.sequence \in DOMAIN items
      /\ DOMAIN items = 1..Len(items) /\ sync.cursor \in Nat
      /\ item.id \in 1..MaxItems /\ item.kind \in Kinds
  <2>1. item.sequence \in 1..MaxItems /\ item.id \in 1..MaxItems /\ item.kind \in Kinds
    BY DEF Pulled
  <2>2. mailbox \in Seq([id : 1..MaxItems, kind : Kinds, rejected : BOOLEAN])
        /\ items \in Seq(Items) /\ imported \in 0..Len(items)
    BY <1>0 DEF HomeTyped, QueueTyped
  <2>3. sync.cursor \in 0..MaxItems BY <1>0, SyncFields DEF SyncTyped
  <2> QED BY <1>2, <2>1, <2>2, <2>3, Bounds DEF RelayInvariant, ListsFollowTheQueue, Imports
<1> DEFINE new == [id |-> item.id, kind |-> item.kind,
                   rejected |-> item.kind \in Reports /\ Verdict(item.kind) = "rejected"]
<1>4. new.id = item.id /\ new.kind = item.kind OBVIOUS
<1> HIDE DEF new
<1>5. \/ /\ item.sequence <= imported /\ mailbox' = mailbox /\ imported' = imported
      \/ /\ item.sequence = imported + 1 /\ imported' = imported + 1
         /\ mailbox' = Append(mailbox, new)
  BY <1>2 DEF Imports, new
<1>6. /\ imported' >= imported /\ item.sequence <= imported'
      /\ Len(mailbox') = imported' /\ DOMAIN mailbox' = 1..imported'
      /\ \A n \in DOMAIN mailbox : n \in DOMAIN mailbox' /\ mailbox'[n] = mailbox[n]
      /\ \A n \in DOMAIN mailbox' :
            \/ n \in DOMAIN mailbox
            \/ n = item.sequence /\ mailbox'[n] = new
  <2>1. CASE item.sequence <= imported /\ mailbox' = mailbox /\ imported' = imported
    BY <1>3, <2>1
  <2>2. CASE /\ item.sequence = imported + 1 /\ imported' = imported + 1
             /\ mailbox' = Append(mailbox, new)
    <3>1. /\ Len(mailbox') = imported + 1 /\ mailbox'[imported + 1] = new
          /\ \A n \in 1..imported : mailbox'[n] = mailbox[n]
          /\ DOMAIN mailbox' = 1..(imported + 1)
      BY <1>3, <2>2
    <3> QED BY <1>3, <2>2, <3>1
  <2> QED BY <1>5, <2>1, <2>2
<1>7. Grows
  <2>1. home \in Reports => home' = home BY <1>2 DEF Imports, Reports
  <2> QED BY <1>1, <1>6, <2>1 DEF Grows
<1>8. IdsAreUnique'
  <2>1. ASSUME NEW id \in 1..MaxItems, NEW kind \in Kinds, Known(id, kind)'
        PROVE  Known(id, kind)
    <3>1. CASE \E n \in DOMAIN sync'.page : sync'.page[n].id = id /\ sync'.page[n].kind = kind
      <4>1. sync'.page = Tail(sync.page) BY <1>2 DEF Imports
      <4>2. \A n \in DOMAIN Tail(sync.page) :
              n + 1 \in DOMAIN sync.page /\ Tail(sync.page)[n] = sync.page[n + 1]
        BY <1>0, <1>1, HeadOfPage DEF RelayInvariant
      <4>3. PICK n \in DOMAIN sync'.page : sync'.page[n].id = id /\ sync'.page[n].kind = kind
        BY <3>1
      <4>4. n + 1 \in DOMAIN sync.page /\ sync.page[n + 1].id = id /\ sync.page[n + 1].kind = kind
        BY <4>1, <4>2, <4>3
      <4> QED BY <4>4 DEF Known, Holds
    <3>2. CASE \E n \in DOMAIN mailbox' : mailbox'[n].id = id /\ mailbox'[n].kind = kind
      <4>1. PICK n \in DOMAIN mailbox' : mailbox'[n].id = id /\ mailbox'[n].kind = kind
        BY <3>2
      <4>2. CASE n \in DOMAIN mailbox
        BY <1>6, <4>1, <4>2 DEF Known, Holds
      <4>3. CASE mailbox'[n] = new
        <5>1. item = sync.page[1] /\ 1 \in DOMAIN sync.page
          BY <1>0, <1>1, <1>2, HeadOfPage DEF RelayInvariant, Imports
        <5>2. sync.page[1].id = id /\ sync.page[1].kind = kind BY <1>4, <4>1, <4>3, <5>1
        <5> QED BY <5>1, <5>2 DEF Known, Holds
      <4> QED BY <1>6, <4>2, <4>3
    <3>3. CASE Holds(items, id, kind) BY <3>3 DEF Known
    <3> QED BY <1>1, <2>1, <3>1, <3>2, <3>3 DEF Known, Holds
  <2> QED BY <1>1, <2>1 DEF RelayInvariant, IdsAreUnique
<1>9. ListsFollowTheQueue'
  <2>1. sync'.page = Tail(sync.page) /\ sync'.cursor = sync.cursor + 1
    BY <1>2 DEF Imports
  <2>2. /\ \A n \in DOMAIN Tail(sync.page) :
              n + 1 \in DOMAIN sync.page /\ Tail(sync.page)[n] = sync.page[n + 1]
        /\ Tail(sync.page) \in Seq(Pulled)
    BY <1>0, <1>1, HeadOfPage DEF RelayInvariant
  <2>3. ASSUME NEW n \in DOMAIN sync'.page
        PROVE  /\ sync'.page[n].sequence = sync'.cursor + n
               /\ sync'.page[n].sequence <= Len(items')
               /\ StillQueued(sync.page[n].sequence, sync.page[n])'
    <3>1. n + 1 \in DOMAIN sync.page /\ sync'.page[n] = sync.page[n + 1] /\ n \in Nat
      BY <2>1, <2>2
    <3>2. /\ sync.page[n + 1].sequence = sync.cursor + (n + 1)
          /\ sync.page[n + 1].sequence <= Len(items)
          /\ StillQueued(sync.page[n + 1].sequence, sync.page[n + 1])
      BY <3>1 DEF RelayInvariant, ListsFollowTheQueue
    <3>3. sync.cursor + (n + 1) = (sync.cursor + 1) + n BY <1>3, <3>1
    <3> QED BY <1>1, <2>1, <3>1, <3>2, <3>3 DEF StillQueued
  <2>4. ASSUME NEW n \in DOMAIN mailbox' PROVE StillQueued(n, mailbox[n])'
    <3>1. CASE n \in DOMAIN mailbox
      BY <1>1, <1>6, <3>1 DEF RelayInvariant, ListsFollowTheQueue, StillQueued
    <3>2. CASE n = item.sequence /\ mailbox'[n] = new
      BY <1>1, <1>2, <1>4, <3>2 DEF Imports, StillQueued
    <3> QED BY <1>6, <3>1, <3>2
  <2> QED BY <1>6, <2>3, <2>4 DEF ListsFollowTheQueue
<1>10. ASSUME NEW request \in Requests, RequestSound(request) PROVE RequestSound(request)'
  BY <1>0, <1>7, <1>10, RequestKept DEF RelayInvariant
<1>11. WireSound'
  BY <1>1, <1>10 DEF WireSound, RelayInvariant, RelayTypeOK
<1>12. SyncSound'
  <2>1. RequestSound(Request) /\ sync.barrier <= sync.cursor /\ Request \in Requests
    BY <1>0, RequestTyped DEF RelayInvariant, SyncSound, SyncTyped
  <2> DEFINE request == Request
  <2>2. \A s \in sync.settlements : Judged(s)'
    <3>1. \A s \in request.settlements : Judged(s)' BY <1>10, <2>1 DEF RequestSound
    <3> QED BY <3>1 DEF Request
  <2>3. ASSUME NEW s \in sync'.settlements PROVE Judged(s)'
    <3>1. CASE s \in sync.settlements BY <2>2, <3>1
    <3>2. CASE item.kind \in Reports /\ s.sequence = item.sequence /\ s.verdict = Verdict(item.kind)
      <4>1. /\ items[item.sequence].id = item.id
            /\ items[item.sequence].kind = item.kind
        BY <1>2, <3>2 DEF Imports, StillQueued
      <4>2. item.sequence \in DOMAIN mailbox' /\ mailbox'[item.sequence].id = item.id
        <5>1. CASE item.sequence <= imported
          BY <1>2, <1>6, <3>2, <5>1, DuplicateReport
        <5>2. CASE ~(item.sequence <= imported)
          <6>1. item.sequence \in DOMAIN mailbox' BY <1>3, <1>5, <1>6, <5>2
          <6>2. item.sequence \notin DOMAIN mailbox BY <1>3, <5>2
          <6> QED BY <1>4, <1>6, <6>1, <6>2
        <5> QED BY <5>1, <5>2
      <4>3. s.verdict \in Reports => home' = s.verdict
        <5>1. home' = IF item.kind \in Reports /\ home = "ready" THEN item.kind ELSE home
          BY <1>2 DEF Imports
        <5> QED BY <3>2, <5>1 DEF Verdict, Reports
      <4> QED BY <1>1, <3>2, <4>1, <4>2, <4>3 DEF Judged
    <3> QED BY <1>2, <3>1, <3>2 DEF Imports
  <2>4. /\ sync'.pc = "import" /\ sync'.cursor = item.sequence
        /\ sync'.pulledEpoch = sync.pulledEpoch
        /\ sync'.barrier \in {sync.barrier, item.sequence}
        /\ item.sequence = sync.cursor + 1
    BY <1>2 DEF Imports
  <2>5. sync.barrier \in Nat BY <1>0, SyncFields, Bounds DEF SyncTyped
  <2>6. sync'.barrier <= sync'.cursor /\ sync'.barrier \in Nat
    BY <1>3, <2>1, <2>4, <2>5
  <2>7. AcknowledgmentCursor' <= sync'.cursor
    BY <1>3, <2>4, <2>6 DEF AcknowledgmentCursor
  <2>8. RequestSound(Request)'
    BY <1>6, <2>3, <2>4, <2>7 DEF RequestSound, Request
  <2>9. sync.pulledEpoch # 0 BY <1>1 DEF RelayInvariant, SyncSound
  <2> QED BY <2>4, <2>6, <2>8, <2>9 DEF SyncSound
<1>13. ReceiptsSound' BY <1>1 DEF RelayInvariant, ReceiptsSound
<1>14. AckedIsImported'
  BY <1>0, <1>1, <1>3, <1>6 DEF RelayInvariant, AckedIsImported, AckTyped
<1>15. AckedReportsHaveVerdict'
  <2> SUFFICES ASSUME Settling, NEW n \in 1..ackedThrough, items[n].kind \in Reports
               PROVE  n <= Len(mailbox') /\ mailbox'[n].id = items[n].id
    BY <1>1 DEF AckedReportsHaveVerdict
  <2>1. n <= Len(mailbox) /\ mailbox[n].id = items[n].id
    BY DEF RelayInvariant, AckedReportsHaveVerdict
  <2>2. n \in DOMAIN mailbox BY <1>3, <2>1
  <2>3. n <= Len(mailbox') BY <1>3, <1>6, <2>1, <2>2
  <2> QED BY <1>6, <2>1, <2>2, <2>3
<1>16. AttachmentAgreesWithHome'
  BY <1>1, <1>7 DEF RelayInvariant, AttachmentAgreesWithHome, Grows
<1>17. OutcomeShown'
  <2>1. CASE Settling BY <1>2, <2>1, ImportShows
  <2>2. CASE ~Settling BY <2>2 DEF OutcomeShown
  <2> QED BY <2>1, <2>2
<1> QED BY <1>0, <1>8, <1>9, <1>11, <1>12, <1>13, <1>14, <1>15, <1>16, <1>17 DEF RelayInvariant

\* An acknowledgment that is accepted retires what the home imported and judged, and settles
\* the attachment as the home settled the dispatch.
LEMMA AcknowledgeKeeps ==
    ASSUME RelayInvariant, NEW request \in wire, Acceptable(request), Acknowledge(request),
           UNCHANGED <<items, mailbox, imported, acknowledged, home>>
    PROVE  /\ ackedThrough' >= ackedThrough /\ request.through <= ackedThrough'
           /\ AckedIsImported' /\ AckedReportsHaveVerdict' /\ AttachmentAgreesWithHome'
<1>0. QueueTyped /\ AckTyped /\ HomeTyped /\ RestTyped
  BY TypeParts DEF RelayInvariant
<1>1. items' = items /\ mailbox' = mailbox /\ imported' = imported
      /\ acknowledged' = acknowledged /\ home' = home
  OBVIOUS
<1>2. /\ request.through \in Nat /\ request.cursor \in Nat
      /\ ackedThrough \in Nat /\ imported \in Nat /\ acknowledged \in Nat
      /\ imported <= Len(items) /\ DOMAIN items = 1..Len(items)
      /\ Len(mailbox) = imported /\ DOMAIN mailbox = 1..imported
  <2>1. request \in Requests BY <1>0 DEF RestTyped
  <2>2. request.through \in 0..MaxItems /\ request.cursor \in 0..MaxItems
    BY <2>1 DEF Requests
  <2>3. ackedThrough \in 0..Len(items) /\ items \in Seq(Items) /\ imported \in 0..Len(items)
        /\ acknowledged \in 0..MaxItems
    BY <1>0 DEF AckTyped, QueueTyped, HomeTyped
  <2>4. Len(mailbox) = imported /\ DOMAIN mailbox = 1..Len(mailbox)
    BY <1>0 DEF RelayInvariant, ListsFollowTheQueue, HomeTyped
  <2> QED BY <2>2, <2>3, <2>4, Bounds
<1>3. /\ request.through <= request.cursor /\ request.cursor <= imported
      /\ \A s \in request.settlements : Judged(s)
  BY DEF RelayInvariant, WireSound, RequestSound
<1>4. ackedThrough <= imported /\ acknowledged <= ackedThrough
  BY DEF RelayInvariant, AckedIsImported
<1>5. /\ ackedThrough' = AtLeast(ackedThrough, request.through)
      /\ attachment' = IF Outcomes(request) = {} THEN attachment
                       ELSE CHOOSE outcome \in Outcomes(request) : TRUE
  BY DEF Acknowledge
<1>6. ackedThrough' >= ackedThrough /\ request.through <= ackedThrough'
      /\ ackedThrough' \in {ackedThrough, request.through}
  BY <1>2, <1>5 DEF AtLeast
<1>7. AckedIsImported' BY <1>1, <1>2, <1>3, <1>4, <1>6 DEF AckedIsImported
<1>8. AckedReportsHaveVerdict'
  <2> SUFFICES ASSUME Settling, NEW n \in 1..ackedThrough', items[n].kind \in Reports
               PROVE  n <= Len(mailbox) /\ mailbox[n].id = items[n].id
    BY <1>1 DEF AckedReportsHaveVerdict
  <2>1. CASE n <= ackedThrough
    <3>1. n \in 1..ackedThrough BY <1>2, <1>6, <2>1
    <3> QED BY <3>1 DEF RelayInvariant, AckedReportsHaveVerdict
  <2>2. CASE ~(n <= ackedThrough)
    <3>1. n \in Unacknowledged /\ n <= request.through
      BY <1>2, <1>3, <1>4, <1>6, <2>2 DEF Unacknowledged
    <3>2. n \in Reported(request) BY <3>1 DEF Acceptable, SettlesEveryReport
    <3>3. PICK s \in request.settlements : s.sequence = n BY <3>2 DEF Reported
    <3>4. n \in DOMAIN mailbox /\ mailbox[n].id = items[n].id BY <1>3, <3>3 DEF Judged
    <3> QED BY <1>2, <3>4
  <2> QED BY <2>1, <2>2
<1>9. AttachmentAgreesWithHome'
  <2>1. CASE Outcomes(request) = {}
    BY <1>1, <1>5, <2>1 DEF RelayInvariant, AttachmentAgreesWithHome
  <2>2. CASE Outcomes(request) # {}
    <3>1. attachment' \in Outcomes(request) BY <1>5, <2>2
    <3>2. PICK s \in request.settlements : s.verdict = attachment' BY <3>1 DEF Outcomes
    <3>3. attachment' \in Reports BY <3>1 DEF Outcomes
    <3>4. home = attachment' BY <1>3, <3>2, <3>3 DEF Judged
    <3> QED BY <1>1, <3>4 DEF AttachmentAgreesWithHome
  <2> QED BY <2>1, <2>2
<1> QED BY <1>6, <1>7, <1>8, <1>9

\* An arriving acknowledgment keeps the invariant, run, replayed or refused.
LEMMA AckKeeps ==
    ASSUME RelayInvariant, AckArrives
    PROVE  RelayInvariant'
<1>0. /\ RelayTypeOK' /\ QueueTyped /\ AckTyped /\ HomeTyped /\ SyncTyped /\ RestTyped
      /\ sync.barrier <= sync.cursor
  BY AckTypedStep, TypeParts DEF RelayInvariant, SyncSound
<1>1. /\ items' = items /\ created' = created /\ mailbox' = mailbox /\ imported' = imported
      /\ acknowledged' = acknowledged /\ home' = home
  BY DEF AckArrives, homeVars
<1>2. PICK request \in wire :
         /\ AckExecutes(request) \/ AckReplays(request) \/ AckRefused(request)
         /\ wire' = wire \ {request}
  BY DEF AckArrives
<1>3. /\ ackedThrough' >= ackedThrough
      /\ ReceiptsSound' /\ AckedIsImported' /\ AckedReportsHaveVerdict'
      /\ AttachmentAgreesWithHome'
  <2>1. CASE AckExecutes(request)
    <3>1. Acceptable(request) /\ Acknowledge(request) BY <2>1 DEF AckExecutes
    <3>2. /\ ackedThrough' >= ackedThrough /\ request.through <= ackedThrough'
          /\ AckedIsImported' /\ AckedReportsHaveVerdict' /\ AttachmentAgreesWithHome'
      BY <1>1, <3>1, AcknowledgeKeeps
    <3>3. /\ Receipt(request, TRUE).completed = TRUE
          /\ Receipt(request, TRUE).request = request
      BY DEF Receipt
    <3>4. receipts' = receipts \cup {Receipt(request, TRUE)} BY <2>1 DEF AckExecutes
    <3>5. ASSUME NEW r \in receipts', r.completed PROVE r.request.through <= ackedThrough'
      <4>1. CASE r \in receipts
        <5>1. r.request.through <= ackedThrough
          BY <3>5, <4>1 DEF RelayInvariant, ReceiptsSound
        <5>2. r.request.through \in Int /\ ackedThrough \in Int /\ ackedThrough' \in Int
          <6>1. r \in Receipts /\ ackedThrough \in 0..Len(items)
            BY <1>0, <4>1 DEF AckTyped
          <6>2. r.request \in Requests BY <6>1 DEF Receipts
          <6>3. r.request.through \in 0..MaxItems BY <6>2 DEF Requests
          <6>4. AckTyped' BY <1>0 DEF RelayTypeOK, AckTyped
          <6>5. ackedThrough' \in Int BY <6>4 DEF AckTyped
          <6> QED BY <6>1, <6>3, <6>5
        <5> QED BY <3>2, <5>1, <5>2
      <4>2. CASE r = Receipt(request, TRUE)
        <5>1. request.through \in Int /\ ackedThrough' \in Int
          <6>1. request \in Requests BY <1>0 DEF RestTyped
          <6>2. request.through \in 0..MaxItems BY <6>1 DEF Requests
          <6>3. AckTyped' BY <1>0 DEF RelayTypeOK, AckTyped
          <6>4. ackedThrough' \in Int BY <6>3 DEF AckTyped
          <6> QED BY <6>2, <6>4
        <5> QED BY <3>2, <3>3, <4>2, <5>1
      <4> QED BY <3>4, <4>1, <4>2
    <3>6. ReceiptsSound' BY <3>5 DEF ReceiptsSound
    <3> QED BY <3>2, <3>6
  <2>2. CASE AckReplays(request) \/ AckRefused(request)
    <3>1. ackedThrough' = ackedThrough /\ attachment' = attachment /\ receipts' = receipts
      BY <2>2 DEF AckReplays, AckRefused
    <3>2. ackedThrough' >= ackedThrough
      <4>1. ackedThrough \in 0..Len(items) BY <1>0 DEF AckTyped
      <4> QED BY <3>1, <4>1
    <3> QED BY <1>1, <3>1, <3>2 DEF RelayInvariant, ReceiptsSound, AckedIsImported,
               AckedReportsHaveVerdict, AttachmentAgreesWithHome
  <2> QED BY <1>2, <2>1, <2>2
<1>4. \/ Fresh(sync')
      \/ sync' = sync
      \/ /\ SameData /\ sync.pc = "acking" /\ sync'.pc = "acked"
         /\ sync'.pulledEpoch = sync.pulledEpoch /\ AcknowledgmentCursor <= ackedThrough'
  <2>1. ASSUME NEW ok, Answered(request, ok), ok => request.through <= ackedThrough'
        PROVE  \/ Fresh(sync')
               \/ sync' = sync
               \/ /\ SameData /\ sync.pc = "acking" /\ sync'.pc = "acked"
                  /\ sync'.pulledEpoch = sync.pulledEpoch /\ AcknowledgmentCursor <= ackedThrough'
    <3>1. CASE sync.pc = "acking" /\ Request = request /\ ok
      <4>1. sync' = [sync EXCEPT !.pc = "acked"] BY <2>1, <3>1 DEF Answered
      <4>2. AcknowledgmentCursor <= ackedThrough' BY <2>1, <3>1 DEF Request
      <4>3. SameData /\ sync'.pc = "acked" /\ sync'.pulledEpoch = sync.pulledEpoch
        BY <1>0, <4>1 DEF SameData, SyncTyped, SyncStates
      <4> QED BY <3>1, <4>2, <4>3
    <3>2. CASE sync.pc = "acking" /\ Request = request /\ ~ok
      BY <2>1, <3>2, IdleIsFresh DEF Answered, SyncEnds
    <3>3. CASE ~(sync.pc = "acking" /\ Request = request)
      BY <2>1, <3>3 DEF Answered
    <3> QED BY <2>1, <3>1, <3>2, <3>3
  <2>2. CASE AckExecutes(request)
    <3>1. request.through <= ackedThrough'
      <4>1. Acceptable(request) /\ Acknowledge(request) BY <2>2 DEF AckExecutes
      <4>2. request.through <= ackedThrough' BY <1>1, <4>1, AcknowledgeKeeps
      <4> QED BY <4>2
    <3>2. Answered(request, TRUE) BY <2>2 DEF AckExecutes
    <3> QED BY <2>1, <3>1, <3>2
  <2>3. CASE AckReplays(request)
    <3> DEFINE ok == Receipt(request, TRUE) \in receipts
    <3>1. Answered(request, ok) BY <2>3, Zenon DEF AckReplays
    <3>2. ok => request.through <= ackedThrough'
      BY <2>3 DEF AckReplays, RelayInvariant, ReceiptsSound, Receipt
    <3> HIDE DEF ok
    <3> QED BY <2>1, <3>1, <3>2
  <2>4. CASE AckRefused(request)
    <3>1. Answered(request, FALSE) BY <2>4 DEF AckRefused
    <3> QED BY <2>1, <3>1
  <2> QED BY <1>2, <2>2, <2>3, <2>4
<1>5. /\ IdsAreUnique' /\ ListsFollowTheQueue'
      /\ RequestSound(Request)' /\ sync'.barrier <= sync'.cursor
      /\ WireSound'
  <2>1. Fresh(sync') \/ SameData BY <1>4 DEF SameData
  <2> QED BY <1>0, <1>1, <1>2, <2>1, Carried
<1>6. SyncSound'
  <2>1. /\ sync.pc \in {"import", "acking", "acked"} => sync.pulledEpoch # 0
        /\ sync.pc \in {"idle", "probe", "pull"} => sync.barrier = 0
        /\ sync.pc = "acked" => AcknowledgmentCursor <= ackedThrough
    BY DEF RelayInvariant, SyncSound
  <2>2. CASE Fresh(sync') BY <1>5, <2>2 DEF Fresh, SyncSound
  <2>3. CASE sync' = sync
    <3>1. AcknowledgmentCursor \in Int /\ ackedThrough \in Int /\ ackedThrough' \in Int
      <4>1. AcknowledgmentCursor \in 0..sync.cursor BY <1>0, RequestTyped DEF SyncTyped
      <4>2. AckTyped' BY <1>0 DEF RelayTypeOK, AckTyped
      <4>3. ackedThrough' \in Int BY <4>2 DEF AckTyped
      <4>4. ackedThrough \in Int BY <1>0 DEF AckTyped
      <4> QED BY <4>1, <4>3, <4>4
    <3>2. AcknowledgmentCursor' = AcknowledgmentCursor BY <2>3 DEF AcknowledgmentCursor
    <3>3. sync.pc = "acked" => AcknowledgmentCursor' <= ackedThrough'
      BY <1>3, <2>1, <3>1, <3>2
    <3> QED BY <1>5, <2>1, <2>3, <3>3 DEF SyncSound
  <2>4. CASE /\ SameData /\ sync.pc = "acking" /\ sync'.pc = "acked"
             /\ sync'.pulledEpoch = sync.pulledEpoch /\ AcknowledgmentCursor <= ackedThrough'
    <3>1. AcknowledgmentCursor' = AcknowledgmentCursor
      BY <2>4 DEF AcknowledgmentCursor, SameData
    <3> QED BY <1>5, <2>1, <2>4, <3>1 DEF SyncSound
  <2> QED BY <1>4, <2>2, <2>3, <2>4
<1>7. OutcomeShown' BY <1>1, OutcomeKept DEF RelayInvariant
<1> QED BY <1>0, <1>3, <1>5, <1>6, <1>7 DEF RelayInvariant

\* A restart of the server keeps the invariant, wherever it cuts an acknowledgment off.
LEMMA RestartKeeps ==
    ASSUME RelayInvariant, ServerRestarts
    PROVE  RelayInvariant'
<1>0. /\ RelayTypeOK' /\ QueueTyped /\ AckTyped /\ HomeTyped /\ SyncTyped
      /\ sync.barrier <= sync.cursor
  BY AckTypedStep, TypeParts DEF RelayInvariant, SyncSound
<1>1. /\ items' = items /\ created' = created /\ mailbox' = mailbox /\ imported' = imported
      /\ acknowledged' = acknowledged /\ home' = home /\ sync' = sync /\ wire' = {}
  BY DEF ServerRestarts, homeVars, memoryVars
<1>2. /\ ackedThrough' >= ackedThrough
      /\ AckedIsImported' /\ AckedReportsHaveVerdict' /\ AttachmentAgreesWithHome'
  <2>1. CASE UNCHANGED <<ackedThrough, attachment>>
    <3>1. ackedThrough' = ackedThrough /\ attachment' = attachment BY <2>1
    <3>2. ackedThrough' >= ackedThrough
      <4>1. ackedThrough \in 0..Len(items) BY <1>0 DEF AckTyped
      <4> QED BY <3>1, <4>1
    <3> QED BY <1>1, <3>1, <3>2 DEF RelayInvariant, AckedIsImported, AckedReportsHaveVerdict,
               AttachmentAgreesWithHome
  <2>2. ASSUME NEW request \in wire, Acceptable(request), Acknowledge(request)
        PROVE  /\ ackedThrough' >= ackedThrough
               /\ AckedIsImported' /\ AckedReportsHaveVerdict' /\ AttachmentAgreesWithHome'
    BY <1>1, <2>2, AcknowledgeKeeps
  <2> QED BY <2>1, <2>2 DEF ServerRestarts
<1>3. ackedThrough \in Int /\ ackedThrough' \in Int
  <2>1. AckTyped' BY <1>0 DEF RelayTypeOK, AckTyped
  <2>2. ackedThrough' \in Int BY <2>1 DEF AckTyped
  <2>3. ackedThrough \in Int BY <1>0 DEF AckTyped
  <2> QED BY <2>2, <2>3
<1>4. ReceiptsSound'
  <2>1. \A r \in receipts' : r.completed => r \in receipts
    BY DEF ServerRestarts, Receipt
  <2>2. ASSUME NEW r \in receipts, r.completed PROVE r.request.through <= ackedThrough'
    <3>1. r.request.through <= ackedThrough BY <2>2 DEF RelayInvariant, ReceiptsSound
    <3>2. r.request.through \in Int
      <4>1. r \in Receipts BY <1>0 DEF AckTyped
      <4>2. r.request \in Requests BY <4>1 DEF Receipts
      <4>3. r.request.through \in 0..MaxItems BY <4>2 DEF Requests
      <4> QED BY <4>3
    <3> QED BY <1>2, <1>3, <3>1, <3>2
  <2> QED BY <2>1, <2>2 DEF ReceiptsSound
<1>5. /\ IdsAreUnique' /\ ListsFollowTheQueue'
      /\ RequestSound(Request)' /\ sync'.barrier <= sync'.cursor
      /\ WireSound'
  <2>1. SameData BY <1>1 DEF SameData
  <2> QED BY <1>0, <1>1, <2>1, Carried
<1>6. SyncSound'
  <2>1. AcknowledgmentCursor \in Int BY <1>0, RequestTyped DEF SyncTyped
  <2>2. AcknowledgmentCursor' = AcknowledgmentCursor BY <1>1 DEF AcknowledgmentCursor
  <2>3. sync.pc = "acked" => AcknowledgmentCursor <= ackedThrough
    BY DEF RelayInvariant, SyncSound
  <2>4. sync.pc = "acked" => AcknowledgmentCursor' <= ackedThrough'
    BY <1>2, <1>3, <2>1, <2>2, <2>3
  <2> QED BY <1>1, <1>5, <2>4 DEF RelayInvariant, SyncSound
<1>7. OutcomeShown' BY <1>1, OutcomeKept DEF RelayInvariant
<1> QED BY <1>0, <1>2, <1>4, <1>5, <1>6, <1>7 DEF RelayInvariant

\* Stopping, abandoning and looking at the worker keep the invariant: what a report settled
\* at home stays settled.
LEMMA HomeKeeps ==
    ASSUME RelayInvariant,
           \/ BeginStop \/ ServerBeginsStop \/ StopAnswered \/ StopCallFails
           \/ \E result \in {"stopped", "stop_unknown"} : ServerEndsStop(result)
           \/ ShowWorker \/ AbandonWorker \/ UNCHANGED vars
    PROVE  RelayInvariant'
<1>0. RelayTypeOK' BY HomeTypedStep
<1>1. /\ items' = items /\ created' = created /\ mailbox' = mailbox /\ imported' = imported
      /\ acknowledged' = acknowledged /\ sync' = sync /\ wire' = wire
      /\ ackedThrough' = ackedThrough /\ receipts' = receipts
  BY DEF BeginStop, ServerBeginsStop, StopAnswered, StopCallFails, ServerEndsStop, ShowWorker,
     AbandonWorker, vars, serverVars, homeVars, memoryVars
<1>2. attachment' = attachment \/ attachment' \notin Reports
  BY DEF BeginStop, ServerBeginsStop, StopAnswered, StopCallFails, ServerEndsStop, ShowWorker,
     AbandonWorker, vars, serverVars, Reports
<1>3. Settling /\ attachment \in Reports => home = attachment
  BY DEF RelayInvariant, AttachmentAgreesWithHome
<1>4. \/ home' = home
      \/ home \notin Reports /\ home' \notin Reports /\ (home' = "ready" => ~Settling)
  <2>1. CASE StopAnswered
    <3>1. home' = IF home # "stopping" THEN home
                  ELSE CASE attachment = "stopped" -> "stopped"
                         [] attachment \in Reports -> "ready"
                         [] OTHER -> "stop_unknown"
      BY <2>1 DEF StopAnswered
    <3>2. CASE home # "stopping" BY <3>1, <3>2
    <3>3. CASE home = "stopping" /\ attachment \in Reports
      BY <1>3, <3>1, <3>3 DEF Reports
    <3>4. CASE home = "stopping" /\ attachment \notin Reports
      BY <3>1, <3>4 DEF Reports
    <3> QED BY <3>2, <3>3, <3>4
  <2>2. CASE \/ BeginStop \/ StopCallFails \/ ShowWorker \/ AbandonWorker
    BY <2>2 DEF BeginStop, StopCallFails, ShowWorker, AbandonWorker, Reports
  <2>3. CASE \/ ServerBeginsStop \/ UNCHANGED vars
             \/ \E result \in {"stopped", "stop_unknown"} : ServerEndsStop(result)
    BY <2>3 DEF ServerBeginsStop, ServerEndsStop, vars, homeVars
  <2> QED BY <2>1, <2>2, <2>3
<1>5. /\ IdsAreUnique' /\ ListsFollowTheQueue'
      /\ RequestSound(Request)' /\ sync'.barrier <= sync'.cursor
      /\ WireSound'
  <2>1. SameData BY <1>1 DEF SameData
  <2> QED BY <1>0, <1>1, <1>4, <2>1, Carried
<1>6. SyncSound'
  BY <1>1, <1>5 DEF RelayInvariant, SyncSound, AcknowledgmentCursor
<1>7. ReceiptsSound' /\ AckedIsImported' /\ AckedReportsHaveVerdict'
  BY <1>1 DEF RelayInvariant, ReceiptsSound, AckedIsImported, AckedReportsHaveVerdict
<1>8. AttachmentAgreesWithHome'
  BY <1>2, <1>3, <1>4 DEF AttachmentAgreesWithHome
<1>9. OutcomeShown' BY <1>1, <1>4, OutcomeKept DEF RelayInvariant
<1> QED BY <1>0, <1>5, <1>6, <1>7, <1>8, <1>9 DEF RelayInvariant

------------------------------------------------------------------------------

\* Nothing is queued, pulled or imported at the start.
LEMMA RelayStarts == Init => RelayInvariant
<1> SUFFICES ASSUME Init PROVE RelayInvariant OBVIOUS
<1> USE Bounds
<1>1. /\ items = <<>> /\ created = 0 /\ ackedThrough = 0 /\ attachment = "ready"
      /\ receipts = {} /\ epoch = 1 /\ mailbox = <<>> /\ imported = 0 /\ acknowledged = 0
      /\ knownEpoch = 1 /\ home = "ready" /\ sync = Idle /\ checkpoint = NoCheckpoint
      /\ capability = [latest |-> 0, cached |-> FALSE] /\ stopCall = FALSE
      /\ wire = {} /\ stop = "none" /\ failures = 0
  BY DEF Init
<1>2. Fresh(sync) /\ sync.pc = "idle" /\ DOMAIN sync.page = {} BY <1>1, IdleIsFresh DEF Fresh, Idle
<1>3. RelayTypeOK
  <2>1. QueueTyped BY <1>1 DEF QueueTyped
  <2>2. AckTyped BY <1>1 DEF AckTyped, AttachmentStates
  <2>3. HomeTyped BY <1>1 DEF HomeTyped, HomeStates
  <2>4. SyncTyped BY <1>1, <1>2 DEF SyncTyped, Fresh, NoCheckpoint
  <2>5. RestTyped
    <3>1. capability \in [latest : 0..MaxEpoch, cached : BOOLEAN] BY <1>1
    <3>2. epoch \in 1..MaxEpoch /\ failures \in 0..MaxFailures BY <1>1
    <3> QED BY <1>1, <3>1, <3>2 DEF RestTyped
  <2> QED BY <2>1, <2>2, <2>3, <2>4, <2>5, TypeParts
<1>4. IdsAreUnique BY <1>1, <1>2 DEF IdsAreUnique, Known, Holds
<1>5. ListsFollowTheQueue BY <1>1, <1>2 DEF ListsFollowTheQueue
<1>6. SyncSound
  <2>1. Request = [cursor |-> 0, through |-> 0, settlements |-> {}]
    BY <1>2 DEF Fresh, Request, AcknowledgmentCursor
  <2>2. RequestSound(Request) BY <1>1, <2>1 DEF RequestSound
  <2> QED BY <1>2, <2>2 DEF SyncSound, Fresh
<1>7. WireSound /\ ReceiptsSound BY <1>1 DEF WireSound, ReceiptsSound
<1>8. AckedIsImported /\ AckedReportsHaveVerdict /\ AttachmentAgreesWithHome
  BY <1>1 DEF AckedIsImported, AckedReportsHaveVerdict, AttachmentAgreesWithHome, Reports
<1>9. OutcomeShown BY <1>1 DEF OutcomeShown, MailShowsTheOutcome
<1> QED BY <1>3, <1>4, <1>5, <1>6, <1>7, <1>8, <1>9 DEF RelayInvariant

\* Every step keeps the invariant.
LEMMA RelayStep ==
    ASSUME RelayInvariant, [Next]_vars
    PROVE  RelayInvariant'
BY SendKeeps, SyncKeeps, PullKeeps, ImportKeeps, AckKeeps, RestartKeeps, HomeKeeps DEF Next

\* And so the invariant holds always.
LEMMA RelayAlways == Spec => []RelayInvariant
<1>1. Init => RelayInvariant BY RelayStarts
<1>2. RelayInvariant /\ [Next]_vars => RelayInvariant' BY RelayStep
<1> QED BY <1>1, <1>2, PTL DEF Spec

\* Every sequence number, cursor and runtime id the relay keeps is one that was given out,
\* whatever is lost and whoever restarts.
THEOREM RelayTypeCorrect == Spec => []RelayTypeOK
<1>1. RelayInvariant => RelayTypeOK BY DEF RelayInvariant
<1> QED BY <1>1, RelayAlways, PTL

\* The server retires nothing the home has not imported, and the home believes nothing retired
\* that is not (recordFederatedHomeAcknowledgment never refuses).
THEOREM RetiredIsImported == Spec => []AckedIsImported
<1>1. RelayInvariant => AckedIsImported BY DEF RelayInvariant
<1> QED BY <1>1, RelayAlways, PTL

\* No report is retired that the home has not judged (acknowledgeFederationRelay).
THEOREM ReportsAreJudged == Spec => []AckedReportsHaveVerdict
<1>1. RelayInvariant => AckedReportsHaveVerdict BY DEF RelayInvariant
<1> QED BY <1>1, RelayAlways, PTL

\* The worker's server and the home agree on how a dispatch ended.
THEOREM AttachmentEndsAsHome == Spec => []AttachmentAgreesWithHome
<1>1. RelayInvariant => AttachmentAgreesWithHome BY DEF RelayInvariant
<1> QED BY <1>1, RelayAlways, PTL

\* While verdicts travel back, the run's mailbox tells by which report the dispatch ended and
\* marks every other (importFederatedRelayItem).
THEOREM MailboxTellsTheOutcome ==
    ASSUME Settling
    PROVE  Spec => []MailShowsTheOutcome
<1>1. RelayInvariant => MailShowsTheOutcome BY DEF RelayInvariant, OutcomeShown
<1> QED BY <1>1, RelayAlways, PTL

------------------------------------------------------------------------------
(* The relay implements OrderedDelivery while no report has to replace a heartbeat. *)

NothingIsReplaced == \A kind \in Kinds : ~ReplacesHeartbeat(kind)

\* What was pulled and imported is what the queue holds there, a report or not.
InOrder ==
    /\ \A n \in DOMAIN sync.page : sync.page[n].id = items[sync.page[n].sequence].id
    /\ \A n \in DOMAIN mailbox : mailbox[n].id = items[n].id

Sent == [n \in DOMAIN items |-> items[n].id]
Received == [n \in DOMAIN mailbox |-> mailbox[n].id]

\* The lengths and domains of the queue, the page and the mailbox.
LEMMA ListBounds ==
    ASSUME RelayInvariant
    PROVE  /\ items \in Seq(Items) /\ Len(items) \in Nat /\ DOMAIN items = 1..Len(items)
           /\ Len(mailbox) = imported /\ DOMAIN mailbox = 1..imported
           /\ imported \in Nat /\ imported <= Len(items)
           /\ \A n \in DOMAIN sync.page : sync.page[n].sequence \in DOMAIN items
           /\ created \in Nat /\ \A n \in DOMAIN items : items[n].id <= created
<1>0. QueueTyped /\ HomeTyped /\ SyncTyped BY TypeParts DEF RelayInvariant
<1>1. items \in Seq(Items) /\ imported \in 0..Len(items) /\ created \in 0..MaxItems
      /\ sync.page \in Seq(Pulled) /\ Len(mailbox) = imported /\ DOMAIN mailbox = 1..Len(mailbox)
  BY <1>0, SyncFields DEF QueueTyped, HomeTyped, SyncTyped, RelayInvariant, ListsFollowTheQueue
<1>2. ASSUME NEW n \in DOMAIN sync.page PROVE sync.page[n].sequence \in DOMAIN items
  <2>1. sync.page[n] \in Pulled BY <1>1
  <2>2. sync.page[n].sequence \in 1..MaxItems BY <2>1 DEF Pulled
  <2>3. sync.page[n].sequence <= Len(items) BY DEF RelayInvariant, ListsFollowTheQueue
  <2> QED BY <1>1, <2>2, <2>3, Bounds
<1>3. ASSUME NEW n \in DOMAIN items PROVE items[n].id <= created
  <2>1. items[n] \in Items BY <1>1
  <2>2. items[n].id \in 1..MaxItems /\ items[n].kind \in Kinds BY <2>1 DEF Items
  <2>3. Known(items[n].id, items[n].kind) BY DEF Known, Holds
  <2> QED BY <2>2, <2>3 DEF RelayInvariant, IdsAreUnique
<1> QED BY <1>1, <1>2, <1>3, Bounds

\* Sending appends one message that was never sent before.
LEMMA SendDelivers ==
    ASSUME RelayInvariant, InOrder, NothingIsReplaced, NEW kind \in Kinds, Send(kind)
    PROVE  InOrder' /\ Delivery!Send
<1>1. items' = Append(items, [id |-> created + 1, kind |-> kind])
  BY DEF Send, Inserted, NothingIsReplaced
<1>2. mailbox' = mailbox /\ sync' = sync BY DEF Send, homeVars, memoryVars
<1> DEFINE new == [id |-> created + 1, kind |-> kind]
<1>3. new.id = created + 1 OBVIOUS
<1> HIDE DEF new
<1>4. /\ Len(items') = Len(items) + 1 /\ items'[Len(items) + 1] = new
      /\ \A n \in 1..Len(items) : items'[n] = items[n]
      /\ DOMAIN items' = 1..(Len(items) + 1) /\ items' = Append(items, new)
  BY <1>1, ListBounds DEF new
<1>5. InOrder'
  <2>1. \A n \in DOMAIN sync.page : items'[sync.page[n].sequence] = items[sync.page[n].sequence]
    BY <1>4, ListBounds
  <2>2. \A n \in DOMAIN mailbox : items'[n] = items[n] BY <1>4, ListBounds
  <2> QED BY <1>2, <2>1, <2>2 DEF InOrder
<1>6. created + 1 \in 1..MaxItems BY ListBounds, Bounds DEF Send
<1>7. \A n \in DOMAIN Sent : Sent[n] # created + 1 BY ListBounds DEF Sent
<1>8. Sent' = Append(Sent, created + 1)
  <2>1. Len(items) \in Nat /\ Sent = [n \in 1..Len(items) |-> items[n].id]
    BY ListBounds DEF Sent
  <2>2. Len(Sent) = Len(items) /\ Sent \in Seq(Nat \cup {Sent[n] : n \in DOMAIN Sent})
    BY <2>1
  <2>3. Append(Sent, created + 1) = [n \in 1..(Len(items) + 1) |->
                                       IF n = Len(items) + 1 THEN created + 1 ELSE Sent[n]]
    BY <2>1, <2>2
  <2>4. Sent' = [n \in 1..(Len(items) + 1) |-> items'[n].id] BY <1>4 DEF Sent
  <2>5. \A n \in 1..(Len(items) + 1) :
          items'[n].id = IF n = Len(items) + 1 THEN created + 1 ELSE Sent[n]
    BY <1>3, <1>4, <2>1
  <2> QED BY <2>3, <2>4, <2>5
<1>9. Received' = Received BY <1>2 DEF Received
<1> QED BY <1>5, <1>6, <1>7, <1>8, <1>9 DEF Delivery!Send, Sent, Received

\* Importing takes the next message, or none.
LEMMA ImportDelivers ==
    ASSUME RelayInvariant, InOrder, ImportItem
    PROVE  InOrder' /\ (Delivery!Receive \/ UNCHANGED <<Sent, Received>>)
<1>1. PICK item \in Pulled : Imports(item) BY ImportFacts
<1>2. items' = items /\ sync.page # <<>> BY DEF ImportItem, serverVars
<1>3. SyncTyped BY TypeParts DEF RelayInvariant
<1>4. /\ item = sync.page[1] /\ 1 \in DOMAIN sync.page
      /\ \A n \in DOMAIN Tail(sync.page) :
            n + 1 \in DOMAIN sync.page /\ Tail(sync.page)[n] = sync.page[n + 1]
  BY <1>1, <1>2, <1>3, HeadOfPage DEF RelayInvariant, Imports
<1>5. item.id = items[item.sequence].id BY <1>4 DEF InOrder
<1>6. \A n \in DOMAIN sync'.page : sync'.page[n].id = items'[sync'.page[n].sequence].id
  BY <1>1, <1>2, <1>4 DEF InOrder, Imports
<1>7. Sent' = Sent BY <1>2 DEF Sent
<1>8. CASE mailbox' = mailbox
  <2>1. Received' = Received BY <1>8 DEF Received
  <2>2. InOrder' BY <1>2, <1>6, <1>8 DEF InOrder
  <2> QED BY <1>7, <2>1, <2>2
<1>9. CASE /\ item.sequence = imported + 1
           /\ mailbox' = Append(mailbox, [id |-> item.id, kind |-> item.kind,
                 rejected |-> item.kind \in Reports /\ Verdict(item.kind) = "rejected"])
  <2> DEFINE new == [id |-> item.id, kind |-> item.kind,
                     rejected |-> item.kind \in Reports /\ Verdict(item.kind) = "rejected"]
  <2>1. mailbox' = Append(mailbox, new) /\ new.id = item.id BY <1>9
  <2>2. mailbox \in Seq([id : 1..MaxItems, kind : Kinds, rejected : BOOLEAN])
    BY TypeParts DEF RelayInvariant, HomeTyped
  <2> HIDE DEF new
  <2>3. /\ DOMAIN mailbox' = 1..(imported + 1) /\ mailbox'[imported + 1] = new
        /\ \A n \in 1..imported : mailbox'[n] = mailbox[n]
    BY <2>1, <2>2, ListBounds
  <2>4. \A n \in DOMAIN mailbox' : mailbox'[n].id = items[n].id
    BY <1>5, <1>9, <2>1, <2>3, ListBounds DEF InOrder
  <2>5. InOrder' BY <1>2, <1>6, <2>4 DEF InOrder
  <2>6. imported + 1 \in DOMAIN items BY <1>1, <1>9 DEF Imports
  <2>7. Received = [n \in 1..imported |-> mailbox[n].id] /\ imported \in Nat
    BY ListBounds DEF Received
  <2>8. Len(Received) = imported /\ Received \in Seq({Received[n] : n \in DOMAIN Received})
    BY <2>7
  <2>9. Sent = [n \in 1..Len(items) |-> items[n].id] /\ Len(Sent) = Len(items)
    BY ListBounds DEF Sent
  <2>10. Sent[imported + 1] = item.id BY <1>5, <1>9, <2>6, <2>9, ListBounds
  <2>11. Append(Received, item.id) = [n \in 1..(imported + 1) |->
                                        IF n = imported + 1 THEN item.id ELSE Received[n]]
    BY <2>7, <2>8
  <2>12. Received' = [n \in 1..(imported + 1) |-> mailbox'[n].id] BY <2>3 DEF Received
  <2>13. \A n \in 1..(imported + 1) :
           mailbox'[n].id = IF n = imported + 1 THEN item.id ELSE Received[n]
    BY <2>1, <2>3, <2>7
  <2>14. Received' = Append(Received, Sent[Len(Received) + 1])
    BY <2>8, <2>10, <2>11, <2>12, <2>13
  <2>15. Len(Received) < Len(Sent) BY <2>6, <2>8, <2>9, ListBounds
  <2> QED BY <1>7, <2>5, <2>14, <2>15 DEF Delivery!Receive, Sent, Received
<1> QED BY <1>1, <1>8, <1>9 DEF Imports

\* Every other step neither sends nor delivers.
LEMMA OthersDeliver ==
    ASSUME RelayInvariant, InOrder, [Next]_vars,
           \A kind \in Kinds : ~Send(kind), ~ImportItem
    PROVE  InOrder' /\ UNCHANGED <<Sent, Received>>
<1>1. items' = items /\ mailbox' = mailbox
  BY DEF Next, StartSync, Probe, Pull, ImportThrows, SendAck, NothingToAck, AckArrives, RecordAck,
     AckTimesOut, SyncTimesOut, AckLost, AnswerLost, HomeRestarts, ServerRestarts, BeginStop,
     ServerBeginsStop, StopAnswered, StopCallFails, ServerEndsStop, ShowWorker, AbandonWorker,
     vars, serverVars, homeVars
<1> SUFFICES InOrder' BY <1>1 DEF Sent, Received
<1>2. ASSUME sync'.page = sync.page \/ sync'.page = <<>>
      PROVE  InOrder'
  BY <1>1, <1>2 DEF InOrder
<1>3. CASE Pull
  <2> DEFINE start == IF ReplaysUnacknowledged THEN ackedThrough ELSE imported
             page == IF start < Len(items) THEN PulledAfter(start) ELSE <<>>
  <2>1. SyncTyped /\ AckTyped /\ HomeTyped /\ QueueTyped BY TypeParts DEF RelayInvariant
  <2>2. sync'.page = page BY <1>3, <2>1 DEF Pull, SyncTyped, SyncStates
  <2>3. start \in Nat /\ Len(items) <= MaxItems /\ items \in Seq(Items)
    BY <2>1, ListBounds, Bounds DEF AckTyped, QueueTyped
  <2>4. CASE start < Len(items)
    <3>1. \A n \in DOMAIN PulledAfter(start) :
             PulledAfter(start)[n] = [sequence |-> start + n, id |-> items[start + n].id,
                                      kind |-> items[start + n].kind]
      BY <2>3, <2>4, PulledPage
    <3>2. sync'.page = PulledAfter(start) BY <2>2, <2>4
    <3> HIDE DEF start
    <3>3. \A n \in DOMAIN sync'.page : sync'.page[n].id = items[sync'.page[n].sequence].id
      BY <3>1, <3>2
    <3> QED BY <1>1, <3>3 DEF InOrder
  <2>5. CASE ~(start < Len(items)) BY <1>2, <2>2, <2>5
  <2> QED BY <2>4, <2>5
<1>4. CASE StartSync \/ Probe \/ ImportThrows \/ SendAck \/ NothingToAck \/ RecordAck
             \/ AckTimesOut \/ SyncTimesOut \/ AnswerLost \/ HomeRestarts \/ AckLost
  <2>1. sync'.page = sync.page \/ sync'.page = <<>> BY <1>4, SyncMoves DEF Fresh, SameData
  <2> QED BY <1>2, <2>1
<1>5. CASE AckArrives
  <2>1. sync' \in {sync, [sync EXCEPT !.pc = "acked"], Idle}
    BY <1>5 DEF AckArrives, AckExecutes, AckReplays, AckRefused, Answered, SyncEnds
  <2>2. sync \in SyncStates BY DEF RelayInvariant, RelayTypeOK
  <2>3. sync'.page = sync.page \/ sync'.page = <<>> BY <2>1, <2>2 DEF SyncStates, Idle
  <2> QED BY <1>2, <2>3
<1>6. CASE \/ ServerRestarts \/ BeginStop \/ ServerBeginsStop \/ StopAnswered \/ StopCallFails
           \/ \E result \in {"stopped", "stop_unknown"} : ServerEndsStop(result)
           \/ ShowWorker \/ AbandonWorker \/ UNCHANGED vars
  <2>1. sync' = sync
    BY <1>6 DEF ServerRestarts, BeginStop, ServerBeginsStop, StopAnswered, StopCallFails,
       ServerEndsStop, ShowWorker, AbandonWorker, vars, memoryVars
  <2> QED BY <1>2, <2>1
<1> QED BY <1>3, <1>4, <1>5, <1>6 DEF Next

\* Whatever is lost, repeated or interrupted, the mailbox receives what the worker sent in the
\* order it was sent, each item once, as long as the queue never has to give a heartbeat's
\* place to a report (enqueueFederationRelay, importFederatedRelayItem).
THEOREM RelayDelivers == Spec /\ [][NothingIsReplaced]_vars => DeliversInOrder
<1>1. Init => InOrder /\ Delivery!Init
  <2> SUFFICES ASSUME Init PROVE InOrder /\ Delivery!Init OBVIOUS
  <2>1. items = <<>> /\ mailbox = <<>> /\ sync.page = <<>> BY DEF Init, Idle
  <2> QED BY <2>1 DEF InOrder, Delivery!Init
<1>2. RelayInvariant /\ InOrder /\ [Next]_vars /\ [NothingIsReplaced]_vars
        => InOrder' /\ [Delivery!Next]_<<Sent, Received>>
  <2> SUFFICES ASSUME RelayInvariant, InOrder, [Next]_vars, [NothingIsReplaced]_vars
               PROVE  InOrder' /\ [Delivery!Next]_<<Sent, Received>>
    OBVIOUS
  <2>1. ASSUME NEW kind \in Kinds, Send(kind) PROVE InOrder' /\ [Delivery!Next]_<<Sent, Received>>
    <3>1. created' # created BY <2>1, ListBounds DEF Send
    <3>2. NothingIsReplaced BY <3>1 DEF vars, serverVars
    <3> QED BY <2>1, <3>2, SendDelivers DEF Delivery!Next
  <2>2. CASE ImportItem BY <2>2, ImportDelivers DEF Delivery!Next
  <2>3. CASE ~ImportItem /\ \A kind \in Kinds : ~Send(kind) BY <2>3, OthersDeliver
  <2> QED BY <2>1, <2>2, <2>3
<1>3. DeliversInOrder <=> Delivery!Init /\ [][Delivery!Next]_<<Sent, Received>>
  BY DEF DeliversInOrder, Delivery!Spec, Sent, Received
<1> QED BY <1>1, <1>2, <1>3, RelayAlways, PTL DEF Spec

=============================================================================
