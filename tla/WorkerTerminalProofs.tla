------------------------ MODULE WorkerTerminalProofs ------------------------
EXTENDS WorkerTerminal, TLAPS
LEMMA ProcessFacts ==
    /\ Null \notin Processes /\ Null \notin Dispatches /\ Null \notin Panes
    /\ MaxProcesses \in Nat /\ MaxProcesses >= 1 /\ MaxMishaps \in Nat
    /\ \A q \in Processes : /\ q[1] \in Panes /\ q[2] \in 1 .. MaxProcesses
                            /\ q = <<q[1], q[2]>>
    /\ \A p \in Panes, n \in 1 .. MaxProcesses : <<p, n>> \in Processes
BY TerminalAssumption DEF Processes

\* Row r gets another ownership and release state; whom it belongs to and its process stay.
Relabelled(r, ownership, state) ==
    /\ row' \in [Resources -> Rows]
    /\ \A s \in Resources \ {r} : row'[s] = row[s]
    /\ row'[r].owner = row[r].owner /\ row'[r].prior = row[r].prior
    /\ row'[r].process = row[r].process
    /\ row'[r].ownership = ownership /\ row'[r].release = state

LEMMA SetReleaseRelabels ==
    ASSUME row \in [Resources -> Rows], NEW r \in Resources, NEW state \in ReleaseStates,
           row' = SetRelease(r, state)
    PROVE  Relabelled(r, row[r].ownership, state)
BY DEF SetRelease, Relabelled, Rows

LEMMA ReleasedRelabels ==
    ASSUME row \in [Resources -> Rows], NEW r \in Resources, row' = Released(r)
    PROVE  Relabelled(r, "released", "released")
BY DEF Released, Relabelled, Rows, Ownerships, ReleaseStates

LEMMA SettledDeadRelabels ==
    ASSUME row \in [Resources -> Rows], NEW r \in Resources, row' = SettledDead(r)
    PROVE  Relabelled(r, "released", "released")
<1> DEFINE new == [row[r] EXCEPT !.release = "released", !.ownership = "released",
                             !.unavailable = row[r].owner \notin archived]
<1>1. row' = [row EXCEPT ![r] = new]
  BY DEF SettledDead, Rows
<1>2. row[r] \in Rows
  OBVIOUS
<1>3. new \in Rows
  BY <1>2 DEF Rows, Ownerships, ReleaseStates
<1>4. /\ new.owner = row[r].owner /\ new.prior = row[r].prior /\ new.process = row[r].process
      /\ new.ownership = "released" /\ new.release = "released"
  BY <1>2 DEF Rows
<1> QED BY <1>1, <1>3, <1>4 DEF Relabelled

\* What the types say of one row and one dispatch.
LEMMA Types ==
    ASSUME TerminalInvariant
    PROVE  /\ \A r \in Resources :
                /\ row[r] \in Rows
                /\ row[r].owner \in Dispatches \cup {Null} /\ row[r].prior \subseteq Dispatches
                /\ row[r].process \in Processes \cup {Null}
                /\ row[r].ownership \in Ownerships /\ row[r].release \in ReleaseStates
                /\ row[r].ownership = "none" => /\ row[r].owner = Null /\ row[r].prior = {}
                                                /\ row[r].process = Null
                                                /\ row[r].release = "not_requested"
                /\ row[r].ownership # "none" => /\ row[r].owner \in Dispatches
                                                /\ row[r].process \in Processes
                /\ release[r].by \in Dispatches \cup {Null} /\ release[r].exited \in BOOLEAN
           /\ \A d \in Dispatches : /\ worker[d] \in WorkerStates
                                    /\ attached[d] \in Processes \cup {Null}
           /\ \A p \in Panes : current[p] \in 0 .. MaxProcesses
           /\ alive \subseteq Processes
<1>1. ASSUME NEW r \in Resources PROVE row[r] \in Rows /\ release[r] \in Calls
  BY DEF TerminalInvariant, TerminalTypeOK
<1>2. ASSUME NEW r \in Resources, row[r].ownership = "none"
      PROVE  /\ row[r].owner = Null /\ row[r].prior = {} /\ row[r].process = Null
             /\ row[r].release = "not_requested"
  <2>1. row[r] = NoRow
    BY <1>2 DEF TerminalInvariant, RowIsSound
  <2> QED BY <2>1 DEF NoRow
<1>3. ASSUME NEW r \in Resources, row[r].ownership # "none"
      PROVE  row[r].owner # Null /\ row[r].process # Null
  BY <1>3 DEF TerminalInvariant, TerminalTypeOK
<1>4. \A r \in Resources : row[r].owner \in Dispatches \cup {Null} /\ row[r].prior \subseteq Dispatches
                /\ row[r].process \in Processes \cup {Null}
                /\ row[r].ownership \in Ownerships /\ row[r].release \in ReleaseStates
                /\ release[r].by \in Dispatches \cup {Null} /\ release[r].exited \in BOOLEAN
  BY <1>1 DEF Rows, Calls
<1> QED BY <1>1, <1>2, <1>3, <1>4 DEF TerminalInvariant, TerminalTypeOK

\* A row stays sound that a step does not write, if its workers settle at most, its process is not
\* revived and its output stays archived.
LEMMA RowKept ==
    ASSUME TerminalInvariant, NEW r \in Resources, row'[r] = row[r],
           row[r].ownership # "none" =>
             /\ \A d \in Parties(r) :
                  /\ attached'[d] \in {attached[d], row[r].process}
                  /\ worker[d] # "none" => worker'[d] # "none"
                  /\ worker[d] \in SettledStates => worker'[d] = worker[d]
             /\ row[r].process[2] <= current'[row[r].process[1]]
             /\ row[r].process \in alive' => row[r].process \in alive
             /\ row[r].release = "releasing" => row[r].owner \in archived'
    PROVE  RowIsSound(r)'
<1> USE DEF TerminalInvariant, Parties
<1>1. CASE row[r].ownership = "none"
  BY <1>1 DEF RowIsSound
<1>2. CASE row[r].ownership # "none"
  <2>1. Parties(r)' = Parties(r)
    OBVIOUS
  <2>2. InProgress(r)' = InProgress(r)
    BY DEF InProgress
  <2> QED BY <1>2, <2>1, <2>2 DEF RowIsSound, SettledStates
<1> QED BY <1>1, <1>2

\* A process that a row or a dispatch names has been started.
LEMMA NamedIsStarted ==
    ASSUME TerminalInvariant, NEW p \in Panes, NEW n \in 1 .. MaxProcesses, n > current[p]
    PROVE  /\ \A r \in Resources : row[r].process # <<p, n>>
           /\ \A d \in Dispatches : attached[d] # <<p, n>>
           /\ <<p, n>> \notin alive
<1> DEFINE q == <<p, n>>
<1>1. q \in Processes /\ q # Null /\ q[1] = p /\ q[2] = n /\ ~(q[2] <= current[q[1]])
  BY ProcessFacts, Types
<1> HIDE DEF q
<1>2. ASSUME NEW r \in Resources, row[r].process = q PROVE FALSE
  <2>1. row[r].ownership # "none"
    BY <1>1, <1>2, Types
  <2>2. q[2] <= current[q[1]]
    BY <1>2, <2>1 DEF TerminalInvariant, RowIsSound
  <2> QED BY <1>1, <2>2
<1>3. ASSUME NEW d \in Dispatches, attached[d] = q PROVE FALSE
  BY <1>1, <1>3 DEF TerminalInvariant, WorkerIsSound
<1>4. q \notin alive
  BY <1>1 DEF TerminalInvariant
<1> QED BY <1>2, <1>3, <1>4 DEF q

\* Nothing knows a dispatch whose worker has not begun.
LEMMA NewWorker ==
    ASSUME TerminalInvariant, NEW d \in Dispatches, worker[d] = "none"
    PROVE  /\ row[d] = NoRow /\ attached[d] = Null /\ stop[d] = "idle" /\ d \notin starts
           /\ \A r \in Resources : row[r].ownership # "none" => d \notin Parties(r)
BY DEF TerminalInvariant, TerminalTypeOK, WorkerIsSound, RowIsSound, StopIsSound, Parties,
       SettledStates, Resources

\* A release stays sound that a step leaves alone, if its row keeps its parties and its process is
\* not claimed by another.
LEMMA ReleaseKept ==
    ASSUME TerminalInvariant, NEW r \in Resources, release'[r] = release[r],
           release[r].pc # "idle" /\ row[r].ownership # "none" =>
             /\ row'[r].ownership # "none" /\ row'[r].process = row[r].process
             /\ Parties(r) \subseteq Parties(r)'
             /\ \A d \in Parties(r) :
                  worker[d] \in SettledStates =>
                    /\ worker'[d] = worker[d] /\ attached'[d] = attached[d]
                    /\ attached[d] \in alive' => attached[d] \in alive,
           release[r].pc = "closing" =>
             /\ row'[r].release = row[r].release
             /\ row[r].release = "releasing" =>
                  \A s \in Resources : s \in Claims(row[r].process)' <=> s \in Claims(row[r].process)
    PROVE  ReleaseIsSound(r)'
<1>1. release[r].pc = "closing" /\ row[r].release = "releasing" =>
        Claims(row[r].process)' = Claims(row[r].process)
  <2>1. release[r].pc = "closing" => row'[r].process = row[r].process
    BY DEF TerminalInvariant, ReleaseIsSound
  <2> QED BY <2>1 DEF Claims
<1> QED BY <1>1 DEF TerminalInvariant, ReleaseIsSound

\* Time goes on: the processes that run ran before or were started by the step.
Elapses ==
    /\ \A p \in Panes : current[p] <= current'[p] /\ current'[p] \in Nat
    /\ alive' \subseteq Processes
    /\ \A q \in alive' : q[2] <= current'[q[1]] /\ (q \in alive \/ q[2] > current[q[1]])

\* What OutputIsPreserved asks of a step.
OutputKept(r) == row'[r].release = "released" /\ InProgress(r) => row[r].owner \in archived'

\* A row keeps its parties and its process, and its new labels are allowed.
KeepsParties(r) ==
    /\ row'[r].owner = row[r].owner /\ row'[r].prior = row[r].prior
    /\ row'[r].process = row[r].process
    /\ row'[r].ownership = row[r].ownership \/ (/\ row[r].ownership = "owned"
                                                /\ row'[r].ownership \in {"user_owned", "released"}
                                                /\ worker[row[r].owner] # "stopping")
    /\ row'[r].ownership = "none" => row'[r] = row[r]
    /\ row'[r].release = "released" <=> row'[r].ownership = "released"
    /\ row'[r].release = "released" =>
         worker[row[r].owner] \in SettledStates /\ row[r].process \notin alive'
    /\ InProgress(r)' => row'[r].ownership = "owned" /\ worker[row[r].owner] = "reported"
    /\ row'[r].release = "releasing" => row[r].owner \in archived'
    /\ OutputKept(r)

\* A process that ended does not run again.
LEMMA NotRevived ==
    ASSUME TerminalInvariant, Elapses
    PROVE  /\ \A r \in Resources : row[r].process \in alive' => row[r].process \in alive
           /\ \A d \in Dispatches : attached[d] \in alive' => attached[d] \in alive
<1>1. ASSUME NEW r \in Resources, row[r].process \in alive' PROVE row[r].process \in alive
  <2>1. row[r].process \in Processes /\ row[r].ownership # "none"
    BY <1>1, ProcessFacts, Types DEF Elapses
  <2>2. row[r].process[2] <= current[row[r].process[1]]
    BY <2>1 DEF TerminalInvariant, RowIsSound
  <2>3. row[r].process[2] \in Nat /\ current[row[r].process[1]] \in Nat
    BY <2>1, ProcessFacts, Types
  <2> QED BY <1>1, <2>2, <2>3 DEF Elapses
<1>2. ASSUME NEW d \in Dispatches, attached[d] \in alive' PROVE attached[d] \in alive
  <2>1. attached[d] \in Processes /\ attached[d] # Null
    BY <1>2, ProcessFacts DEF Elapses
  <2>2. attached[d][2] <= current[attached[d][1]]
    BY <2>1 DEF TerminalInvariant, WorkerIsSound
  <2>3. attached[d][2] \in Nat /\ current[attached[d][1]] \in Nat
    BY <2>1, ProcessFacts, Types
  <2> QED BY <1>2, <2>2, <2>3 DEF Elapses
<1> QED BY <1>1, <1>2

\* Relabelling rows keeps what the rows, the workers and the stops promise.
LEMMA RelabelKeeps ==
    ASSUME TerminalInvariant, \A r \in Resources : KeepsParties(r),
           UNCHANGED <<worker, attached, starts, stop>>, Elapses
    PROVE  /\ \A r \in Resources : RowIsSound(r)'
           /\ OwnersAreUnique'
           /\ \A d \in Dispatches : WorkerIsSound(d)'
           /\ PanesAreUnique'
           /\ \A d \in Dispatches : StopIsSound(d)'
<1> USE DEF TerminalInvariant
<1>1. ASSUME NEW r \in Resources PROVE RowIsSound(r)'
  <2>1. CASE row'[r].ownership = "none"
    BY <2>1 DEF KeepsParties, RowIsSound
  <2>2. CASE row'[r].ownership # "none"
    <3>1. row[r].ownership # "none" /\ row[r].process \in Processes
      BY <2>2, Types DEF KeepsParties
    <3>2. row[r].process[2] <= current'[row[r].process[1]]
      <4>1. row[r].process[2] <= current[row[r].process[1]]
        BY <3>1 DEF RowIsSound
      <4>2. /\ row[r].process[1] \in Panes /\ row[r].process[2] \in Nat
            /\ current[row[r].process[1]] \in Nat
        BY <3>1, ProcessFacts, Types
      <4> QED BY <4>1, <4>2 DEF Elapses
    <3>3. Parties(r)' = Parties(r)
      BY DEF KeepsParties, Parties
    <3> QED BY <2>2, <3>1, <3>2, <3>3 DEF KeepsParties, RowIsSound
  <2> QED BY <2>1, <2>2
<1>2. OwnersAreUnique'
  BY DEF OwnersAreUnique, KeepsParties
<1>3. ASSUME NEW d \in Dispatches PROVE WorkerIsSound(d)'
  <2>1. row[d] = NoRow => row'[d] = NoRow
    BY DEF NoRow, KeepsParties, Resources
  <2>2. row'[d].owner = row[d].owner
    BY DEF KeepsParties, Resources
  <2>3. Active(d) => \E r \in OwnedBy(d)' : row'[r].ownership # "released"
    BY DEF WorkerIsSound, Active, OwnedBy, SettledStates, ActiveStates, KeepsParties
  <2>4. attached[d] # Null => attached[d][2] <= current'[attached[d][1]]
    <3>1. ASSUME attached[d] # Null
          PROVE  /\ attached[d][1] \in Panes /\ attached[d][2] \in Nat
                 /\ current[attached[d][1]] \in Nat
      BY <3>1, ProcessFacts, Types
    <3> QED BY <3>1 DEF WorkerIsSound, Elapses
  <2> QED BY <2>1, <2>2, <2>3, <2>4 DEF WorkerIsSound, Active
<1>4. PanesAreUnique'
  BY DEF PanesAreUnique, Active
<1>5. ASSUME NEW d \in Dispatches PROVE StopIsSound(d)'
  BY NotRevived DEF StopIsSound, OwnedBy, KeepsParties
<1> QED BY <1>1, <1>2, <1>3, <1>4, <1>5

\* The releases stay sound that go on as they were, end, or begin for the owner of their row.
LEMMA RelabelKeepsReleases ==
    ASSUME TerminalInvariant, \A r \in Resources : KeepsParties(r),
           UNCHANGED <<worker, attached>>, Elapses,
           NEW r \in Resources,
           \/ release'[r] = release[r]
           \/ release'[r].pc = "idle"
           \/ /\ release'[r].pc = "observing" /\ row[r].ownership # "none"
              /\ release'[r].by \in Parties(r) /\ worker[release'[r].by] \in SettledStates,
           release[r].pc = "closing" => row'[r].release = row[r].release
                                        \/ row'[r].release \in {"releasing", "released"}
                                        \/ release'[r].pc = "idle"
    PROVE  ReleaseIsSound(r)'
<1> USE DEF TerminalInvariant
<1>1. Parties(r)' = Parties(r) /\ row'[r].process = row[r].process
      /\ (row[r].ownership # "none" => row'[r].ownership # "none")
  BY DEF KeepsParties, Parties
<1>2. CASE release'[r] # release[r]
  BY <1>1, <1>2 DEF ReleaseIsSound
<1>3. CASE release'[r] = release[r]
  <2>1. ASSUME release[r].pc = "closing", row'[r].release = "releasing"
        PROVE  Claims(row[r].process)' = {r}
    <3>1. row[r].release = "releasing" /\ Claims(row[r].process) = {r}
      BY <1>3, <2>1 DEF ReleaseIsSound, RowIsSound, KeepsParties, InProgress
    <3>2. \A s \in Resources \ {r} : s \notin Claims(row[r].process)'
      BY <1>1, <3>1 DEF Claims, KeepsParties
    <3>3. r \in Claims(row[r].process)'
      BY <1>1, <2>1, <3>1 DEF Claims, KeepsParties
    <3> QED BY <3>2, <3>3 DEF Claims
  <2>2. row[r].ownership # "none" /\ release[r].by \in Parties(r) => release[r].by \in Dispatches
    BY Types DEF Parties
  <2> QED BY <1>1, <1>3, <2>1, <2>2, NotRevived DEF ReleaseIsSound
<1> QED BY <1>2, <1>3

LEMMA RelabelKeepsBacklog ==
    ASSUME TerminalInvariant, \A r \in Resources : KeepsParties(r), UNCHANGED worker,
           recovery'.todo \subseteq recovery.todo
    PROVE  BacklogIsSound'
BY DEF TerminalInvariant, BacklogIsSound, KeepsParties, Parties


-----------------------------------------------------------------------------
(* Steps that write no row *)

\* Without a new process, time has gone on.
LEMMA NothingStarts ==
    ASSUME TerminalInvariant, current' = current, alive' \subseteq alive
    PROVE  Elapses
BY Types, ProcessFacts DEF TerminalInvariant, Elapses

\* No row is written, no worker is revived, and a created terminal is attached at most.
MovesOn ==
    /\ UNCHANGED <<row, archived>> /\ starts' \subseteq starts
    /\ \A d \in Dispatches :
         /\ worker[d] # "none" => worker'[d] # "none"
         /\ worker[d] \in SettledStates => worker'[d] = worker[d] /\ attached'[d] = attached[d]
         /\ Active(d)' => Active(d)
         /\ worker'[d] = "starting" => worker[d] = "starting" /\ attached'[d] = attached[d]
         /\ attached'[d] = attached[d] \/ (worker[d] = "starting" /\ attached'[d] = row[d].process)

LEMMA MovesOnKeeps ==
    ASSUME TerminalInvariant, MovesOn, Elapses
    PROVE  /\ \A r \in Resources : RowIsSound(r)' /\ OutputKept(r)
           /\ OwnersAreUnique'
           /\ \A d \in Dispatches : WorkerIsSound(d)'
<1> USE DEF Resources
<1>1. ASSUME NEW r \in Resources PROVE RowIsSound(r)'
  <2>1. ASSUME row[r].ownership # "none", NEW d \in Parties(r)
        PROVE  /\ attached'[d] \in {attached[d], row[r].process}
               /\ worker[d] # "none" => worker'[d] # "none"
               /\ worker[d] \in SettledStates => worker'[d] = worker[d]
    <3>1. d \in Dispatches
      BY <2>1, Types DEF Parties
    <3>2. worker[d] = "starting" => d = r
      <4> SUFFICES ASSUME worker[d] = "starting" PROVE d = r
        OBVIOUS
      <4>1. row[d].owner = d /\ row[d].ownership # "none"
        BY <3>1, ProcessFacts, Types DEF TerminalInvariant, WorkerIsSound
      <4>2. d \notin row[r].prior
        BY <2>1 DEF TerminalInvariant, RowIsSound, SettledStates
      <4>3. row[r].owner = d
        BY <4>2 DEF Parties
      <4> QED BY <2>1, <3>1, <4>1, <4>3 DEF TerminalInvariant, OwnersAreUnique
    <3> QED BY <3>1, <3>2 DEF MovesOn
  <2>2. ASSUME row[r].ownership # "none"
        PROVE  row[r].process[2] <= current'[row[r].process[1]]
    <3>1. row[r].process[2] <= current[row[r].process[1]]
      BY <2>2 DEF TerminalInvariant, RowIsSound
    <3>2. /\ row[r].process[1] \in Panes /\ row[r].process[2] \in Nat
          /\ current[row[r].process[1]] \in Nat
      BY <2>2, ProcessFacts, Types
    <3> QED BY <3>1, <3>2 DEF Elapses
  <2>3. row[r].ownership # "none" /\ row[r].release = "releasing" => row[r].owner \in archived
    BY DEF TerminalInvariant, RowIsSound
  <2> QED BY <2>1, <2>2, <2>3, NotRevived, RowKept DEF MovesOn
<1>2. ASSUME NEW r \in Resources PROVE OutputKept(r)
  BY DEF OutputKept, InProgress, MovesOn
<1>3. OwnersAreUnique'
  BY DEF TerminalInvariant, OwnersAreUnique, MovesOn
<1>4. ASSUME NEW d \in Dispatches PROVE WorkerIsSound(d)'
  <2>1. attached'[d] # Null => attached'[d][2] <= current'[attached'[d][1]]
    <3>1. ASSUME attached'[d] # Null
          PROVE  /\ attached'[d] \in Processes
                 /\ attached'[d][2] <= current[attached'[d][1]]
      <4>1. CASE attached'[d] = attached[d]
        BY <3>1, <4>1, Types DEF TerminalInvariant, WorkerIsSound
      <4>2. CASE worker[d] = "starting" /\ attached'[d] = row[d].process
        <5>1. row[d].ownership # "none"
          BY <3>1, <4>2, Types
        <5> QED BY <4>2, <5>1, Types DEF TerminalInvariant, RowIsSound
      <4> QED BY <4>1, <4>2 DEF MovesOn
    <3>2. ASSUME NEW q \in Processes, q[2] <= current[q[1]] PROVE q[2] <= current'[q[1]]
      <4>1. q[1] \in Panes /\ q[2] \in Nat /\ current[q[1]] \in Nat
        BY ProcessFacts, Types
      <4> QED BY <3>2, <4>1 DEF Elapses
    <3> QED BY <3>1, <3>2
  <2>2. Active(d)' => \E r \in OwnedBy(d)' : row'[r].ownership # "released"
    BY DEF TerminalInvariant, WorkerIsSound, MovesOn, OwnedBy
  <2>3. worker'[d] = "none" => worker[d] = "none" /\ attached'[d] = attached[d]
    BY DEF MovesOn
  <2> QED BY <2>1, <2>2, <2>3 DEF TerminalInvariant, WorkerIsSound, MovesOn
<1> QED BY <1>1, <1>2, <1>3, <1>4

LEMMA MovesOnKeepsPanes ==
    ASSUME TerminalInvariant, MovesOn, attached' = attached
    PROVE  PanesAreUnique'
BY DEF TerminalInvariant, MovesOn, PanesAreUnique

\* Releases go on, end, or begin for a settled party of the terminal.
LEMMA MovesOnKeepsReleases ==
    ASSUME TerminalInvariant, MovesOn, Elapses, NEW r \in Resources,
           \/ release'[r] = release[r]
           \/ release'[r].pc = "idle"
           \/ /\ release'[r].pc = "observing" /\ row[r].ownership # "none"
              /\ release'[r].by \in Parties(r) /\ worker[release'[r].by] \in SettledStates
    PROVE  ReleaseIsSound(r)'
<1>1. Parties(r)' = Parties(r)
  BY DEF MovesOn, Parties
<1>2. row[r].ownership # "none" => Parties(r) \subseteq Dispatches
  BY Types DEF Parties
<1>3. CASE release'[r] = release[r]
  <2>1. \A s \in Resources : s \in Claims(row[r].process)' <=> s \in Claims(row[r].process)
    BY DEF Claims, MovesOn
  <2> QED BY <1>1, <1>2, <1>3, <2>1, NotRevived, ReleaseKept DEF MovesOn
<1>4. CASE release'[r].pc = "idle"
  BY <1>4 DEF ReleaseIsSound
<1>5. CASE /\ release'[r].pc = "observing" /\ row[r].ownership # "none"
           /\ release'[r].by \in Parties(r) /\ worker[release'[r].by] \in SettledStates
  BY <1>1, <1>2, <1>5 DEF ReleaseIsSound, MovesOn
<1> QED BY <1>3, <1>4, <1>5

\* The backlog lists requested releases with their owners.
LEMMA MovesOnKeepsBacklog ==
    ASSUME TerminalInvariant, MovesOn, recovery'.todo \subseteq recovery.todo \cup Backlog
    PROVE  BacklogIsSound'
<1> SUFFICES ASSUME NEW r \in Resources, NEW d \in Dispatches, <<r, d>> \in recovery'.todo
             PROVE  /\ row[r].ownership # "none" /\ d \in Parties(r)
                    /\ worker[d] \in SettledStates
  BY DEF BacklogIsSound, MovesOn, Parties
<1>1. CASE <<r, d>> \in recovery.todo
  BY <1>1 DEF TerminalInvariant, BacklogIsSound
<1>2. CASE <<r, d>> \in Backlog
  <2>1. row[r].owner = d /\ row[r].release \in {"requested", "releasing"}
    BY <1>2 DEF Backlog
  <2>2. row[r].ownership # "none" /\ InProgress(r)
    BY <2>1, Types DEF InProgress
  <2>3. worker[d] = "reported"
    BY <2>1, <2>2 DEF TerminalInvariant, RowIsSound
  <2> QED BY <2>1, <2>2, <2>3 DEF Parties, SettledStates
<1> QED BY <1>1, <1>2
-----------------------------------------------------------------------------
(* The starts *)

LEMMA StartCreatedKeeps ==
    ASSUME TerminalInvariant, NEW d \in Dispatches, NEW p \in Panes, StartCreated(d, p)
    PROVE  TerminalInvariant' /\ \A s \in Resources : OutputKept(s)
<1> DEFINE q == <<p, 1>>
<1> USE ProcessFacts DEF StartCreated, Resources
<1>1. q \in Processes /\ q[1] = p /\ q[2] = 1
  OBVIOUS
<1>2. current[p] = 0 /\ current'[p] = 1
  BY DEF TerminalInvariant, TerminalTypeOK
<1>3. /\ \A r \in Resources : row[r].process # q
      /\ \A e \in Dispatches : attached[e] # q
      /\ q \notin alive
  BY <1>2, NamedIsStarted
<1>4. /\ row[d] = NoRow /\ attached[d] = Null /\ worker[d] = "none" /\ stop[d] = "idle"
      /\ \A r \in Resources : row[r].ownership # "none" => d \notin Parties(r)
  BY DEF TerminalInvariant, TerminalTypeOK, WorkerIsSound, RowIsSound, StopIsSound, Parties, SettledStates
<1>5. /\ Custody(d, q) \in Rows
      /\ Custody(d, q).owner = d /\ Custody(d, q).prior = {} /\ Custody(d, q).process = q
      /\ Custody(d, q).ownership = "owned" /\ Custody(d, q).release = "not_requested"
  BY <1>1 DEF Custody, NoRow, Rows, Ownerships, ReleaseStates
<1>6. /\ row' \in [Resources -> Rows]
      /\ row'[d].owner = d /\ row'[d].prior = {} /\ row'[d].process = q
      /\ row'[d].ownership = "owned" /\ row'[d].release = "not_requested"
      /\ \A r \in Resources \ {d} : row'[r] = row[r]
  BY <1>5 DEF TerminalInvariant, TerminalTypeOK
<1> HIDE DEF q
<1>7. TerminalTypeOK'
  BY <1>1, <1>2, <1>6 DEF TerminalInvariant, TerminalTypeOK, WorkerStates
<1>8. RowIsSound(d)'
  <2>1. worker'[d] = "starting" /\ attached'[d] = Null
    BY <1>4 DEF TerminalInvariant, TerminalTypeOK
  <2>2. Parties(d)' = {d}
    BY <1>6 DEF Parties
  <2>3. ~InProgress(d)'
    BY <1>6 DEF InProgress
  <2>4. row'[d].process[2] <= current'[row'[d].process[1]]
    BY <1>1, <1>2, <1>6
  <2> QED BY <2>1, <2>2, <2>3, <2>4, <1>6 DEF RowIsSound
<1>9. ASSUME NEW r \in Resources \ {d} PROVE RowIsSound(r)'
  <2>1. ASSUME row[r].ownership # "none"
        PROVE  row[r].process[2] <= current'[row[r].process[1]]
    BY <1>2, <2>1, Types DEF TerminalInvariant, RowIsSound
  <2>2. \A e \in Parties(r) : row[r].ownership # "none" => worker'[e] = worker[e]
    BY <1>4, Types DEF Parties
  <2> QED BY <1>3, <1>6, <2>1, <2>2, RowKept DEF TerminalInvariant, RowIsSound
<1>10. OwnersAreUnique'
  BY <1>4, <1>6 DEF TerminalInvariant, OwnersAreUnique, Parties
<1>11. ASSUME NEW e \in Dispatches PROVE WorkerIsSound(e)'
  BY <1>2, <1>4, <1>6 DEF TerminalInvariant, TerminalTypeOK, WorkerIsSound, Active, ActiveStates, OwnedBy, NoRow
<1>12. PanesAreUnique'
  BY <1>4 DEF TerminalInvariant, TerminalTypeOK, PanesAreUnique, Active, ActiveStates
<1>13. \A x \in alive' : x[2] <= current'[x[1]]
  BY <1>1, <1>2 DEF TerminalInvariant, TerminalTypeOK, q
<1>14. ASSUME NEW r \in Resources PROVE ReleaseIsSound(r)'
  <2>1. CASE row[r].ownership = "none"
    BY <1>4, <2>1, Types DEF TerminalInvariant, ReleaseIsSound
  <2>2. CASE row[r].ownership # "none"
    <3>1. r # d /\ row[d].process = Null /\ row[r].process # Null /\ row'[r] = row[r]
      BY <1>4, <1>6, <2>2, Types DEF NoRow
    <3>2. \A s \in Resources : s \in Claims(row[r].process)' <=> s \in Claims(row[r].process)
      BY <1>3, <1>6, <3>1 DEF Claims
    <3>3. Claims(row[r].process)' = Claims(row[r].process)
      BY <3>2 DEF Claims
    <3>4. \A e \in Parties(r) : e # d
      BY <1>4, <2>2
    <3>5. attached' = attached /\ release' = release /\ Parties(r)' = Parties(r)
      BY <3>1 DEF Parties
    <3>6. release[r].by \in Parties(r) => /\ worker'[release[r].by] = worker[release[r].by]
                                          /\ attached[release[r].by] # q
      BY <1>3, <2>2, <3>4, Types DEF TerminalInvariant, TerminalTypeOK, Parties
    <3> QED BY <2>2, <3>1, <3>3, <3>5, <3>6 DEF TerminalInvariant, ReleaseIsSound, q
  <2> QED BY <2>1, <2>2
<1>15. BacklogIsSound'
  BY <1>4, <1>6 DEF TerminalInvariant, TerminalTypeOK, BacklogIsSound, Parties, SettledStates, NoRow
<1>16. ASSUME NEW e \in Dispatches PROVE StopIsSound(e)'
  BY <1>1, <1>3, <1>4, <1>6 DEF TerminalInvariant, TerminalTypeOK, StopIsSound, OwnedBy, NoRow
<1>17. ASSUME NEW s \in Resources PROVE OutputKept(s)
  BY <1>6 DEF OutputKept, InProgress
<1> QED BY <1>17, <1>7, <1>8, <1>9, <1>10, <1>11, <1>12, <1>13, <1>14, <1>15, <1>16 DEF TerminalInvariant

LEMMA StartReusingKeeps ==
    ASSUME TerminalInvariant, NEW d \in Dispatches, NEW p \in Panes, StartReusing(d, p)
    PROVE  TerminalInvariant' /\ \A s \in Resources : OutputKept(s)
<1> DEFINE q == <<p, current[p]>>
<1> USE ProcessFacts DEF Resources
<1>1. /\ worker[d] = "none" /\ current[p] > 0
      /\ TerminalFree(p, d) /\ MayReuse(q)
      /\ worker' = [worker EXCEPT ![d] = "running"] /\ attached' = [attached EXCEPT ![d] = q]
      /\ UNCHANGED <<archived, memVars, envVars>>
  BY DEF StartReusing
<1>row. \/ \E r \in Transferable(q) :
                 row' = [row EXCEPT ![r] = [row[r] EXCEPT !.owner = d,
                            !.prior = row[r].prior \cup {row[r].owner},
                            !.release = "not_requested", !.byUser = FALSE]]
        \/ row' = [row EXCEPT ![d] = [NoRow EXCEPT !.owner = d, !.process = q,
                                                    !.ownership = "external"]]
  BY DEF StartReusing
<1>2. q \in Processes /\ q # Null /\ q[1] = p /\ q[2] = current[p]
  <2>1. current[p] \in 1 .. MaxProcesses
    BY <1>1, Types
  <2> QED BY <2>1
<1>3. /\ row[d] = NoRow /\ attached[d] = Null /\ stop[d] = "idle" /\ d \notin starts
      /\ row[d].ownership = "none" /\ row[d].owner = Null /\ row[d].process = Null
      /\ \A r \in Resources : row[r].ownership # "none" => d \notin Parties(r)
  <2>1. /\ row[d] = NoRow /\ attached[d] = Null /\ stop[d] = "idle" /\ d \notin starts
        /\ \A r \in Resources : row[r].ownership # "none" => d \notin Parties(r)
    BY <1>1, NewWorker
  <2> QED BY <2>1 DEF NoRow
<1>4. /\ worker'[d] = "running" /\ attached'[d] = q
      /\ \A e \in Dispatches \ {d} : worker'[e] = worker[e] /\ attached'[e] = attached[e]
  BY <1>1 DEF TerminalInvariant, TerminalTypeOK
<1> HIDE DEF q
\* In both cases the row of the terminal has d as its owner and q as its process.
<1>5. PICK x \in Resources :
        /\ row' \in [Resources -> Rows]
        /\ \A r \in Resources \ {x} : row'[r] = row[r]
        /\ row'[x].owner = d /\ row'[x].process = q /\ row'[x].release = "not_requested"
        /\ \/ /\ x \in Transferable(q) /\ row'[x].ownership = "owned"
              /\ row'[x].prior = row[x].prior \cup {row[x].owner}
           \/ x = d /\ row'[x].ownership = "external" /\ row'[x].prior = {}
  <2>1. ASSUME NEW r \in Transferable(q),
               row' = [row EXCEPT ![r] = [row[r] EXCEPT !.owner = d,
                            !.prior = row[r].prior \cup {row[r].owner},
                            !.release = "not_requested", !.byUser = FALSE]]
        PROVE  /\ row' \in [Resources -> Rows]
               /\ \A s \in Resources \ {r} : row'[s] = row[s]
               /\ row'[r].owner = d /\ row'[r].process = q /\ row'[r].release = "not_requested"
               /\ row'[r].ownership = "owned"
               /\ row'[r].prior = row[r].prior \cup {row[r].owner}
    <3> DEFINE new == [row[r] EXCEPT !.owner = d, !.prior = row[r].prior \cup {row[r].owner},
                                     !.release = "not_requested", !.byUser = FALSE]
    <3>1. /\ r \in Resources /\ row[r] \in Rows /\ row[r].owner \in Dispatches
          /\ row[r].prior \subseteq Dispatches
          /\ row[r].process = q /\ row[r].ownership = "owned"
      BY Types DEF Transferable, Claims
    <3>2. new \in Rows
      BY <3>1 DEF Rows, ReleaseStates
    <3>3. /\ new.owner = d /\ new.process = q /\ new.release = "not_requested"
          /\ new.ownership = "owned" /\ new.prior = row[r].prior \cup {row[r].owner}
      BY <3>1 DEF Rows
    <3>4. row' = [row EXCEPT ![r] = new]
      BY <2>1
    <3> HIDE DEF new
    <3> QED BY <3>1, <3>2, <3>3, <3>4 DEF TerminalInvariant, TerminalTypeOK
  <2>2. ASSUME row' = [row EXCEPT ![d] = [NoRow EXCEPT !.owner = d, !.process = q,
                                                       !.ownership = "external"]]
        PROVE  /\ row' \in [Resources -> Rows]
               /\ \A s \in Resources \ {d} : row'[s] = row[s]
               /\ row'[d].owner = d /\ row'[d].process = q /\ row'[d].release = "not_requested"
               /\ row'[d].ownership = "external" /\ row'[d].prior = {}
    <3> DEFINE new == [NoRow EXCEPT !.owner = d, !.process = q, !.ownership = "external"]
    <3>1. new \in Rows
      BY <1>2 DEF NoRow, Rows, Ownerships, ReleaseStates
    <3>2. /\ new.owner = d /\ new.process = q /\ new.release = "not_requested"
          /\ new.ownership = "external" /\ new.prior = {}
      BY DEF NoRow
    <3> HIDE DEF new
    <3> QED BY <2>2, <3>1, <3>2 DEF TerminalInvariant, TerminalTypeOK, new
  <2>3. Transferable(q) \subseteq Resources
    BY DEF Transferable, Claims
  <2> QED BY <1>row, <2>1, <2>2, <2>3 DEF q
<1>6. /\ row[x].release \in {"not_requested", "retained"}
      /\ row[x].ownership # "none" => /\ row[x].process = q /\ row[x].ownership = "owned"
                                      /\ worker[row[x].owner] \in SettledStates
                                      /\ row'[x].prior = row[x].prior \cup {row[x].owner}
      /\ row[x].ownership = "none" => x = d /\ row'[x].prior = {}
      /\ row'[x].ownership \in {"owned", "external"}
  BY <1>3, <1>5, Types DEF Transferable, Claims
<1>7. TerminalTypeOK'
  <2>1. \A r \in Resources : row'[r].ownership # "none" => row'[r].owner # Null /\ row'[r].process # Null
    BY <1>2, <1>5, Types
  <2>2. attached' \in [Dispatches -> Processes \cup {Null}] /\ worker' \in [Dispatches -> WorkerStates]
    BY <1>1, <1>2 DEF TerminalInvariant, TerminalTypeOK, WorkerStates
  <2> QED BY <1>1, <1>5, <2>1, <2>2 DEF TerminalInvariant, TerminalTypeOK, memVars, envVars
<1>8. ASSUME NEW r \in Resources PROVE RowIsSound(r)'
  <2>1. CASE r # x
    <3>1. \A e \in Parties(r) : row[r].ownership # "none" => e \in Dispatches \ {d}
      BY <1>3, Types DEF Parties
    <3>2. row[r].ownership # "none" => row[r].process[2] <= current[row[r].process[1]]
      BY DEF TerminalInvariant, RowIsSound
    <3>3. row[r].ownership # "none" /\ row[r].release = "releasing" => row[r].owner \in archived
      BY DEF TerminalInvariant, RowIsSound
    <3>4. current' = current /\ alive' = alive /\ archived' = archived
      BY <1>1 DEF envVars
    <3> QED BY <1>4, <1>5, <2>1, <3>1, <3>2, <3>3, <3>4, RowKept
  <2>2. CASE r = x
    <3>1. \A e \in row'[x].prior : e \in Dispatches \ {d} /\ worker'[e] \in SettledStates
                                   /\ attached'[e] \in {Null, q}
      BY <1>3, <1>4, <1>6, Types DEF TerminalInvariant, RowIsSound, Parties
    <3>2. ~InProgress(x)'
      BY <1>5 DEF InProgress
    <3>3. q[2] <= current'[q[1]]
      <4>1. current' = current /\ current[p] \in Nat
        BY <1>1, Types DEF envVars
      <4> QED BY <1>2, <4>1
    <3> QED BY <1>4, <1>5, <1>6, <2>2, <3>1, <3>2, <3>3 DEF RowIsSound, Parties
  <2> QED BY <2>1, <2>2
<1>9. OwnersAreUnique'
  BY <1>3, <1>5 DEF TerminalInvariant, OwnersAreUnique, Parties
<1>10. ASSUME NEW e \in Dispatches PROVE WorkerIsSound(e)'
  <2>1. CASE e = d
    <3>1. x \in OwnedBy(d)' /\ row'[x].ownership # "released"
      BY <1>5, <1>6 DEF OwnedBy
    <3>2. current' = current /\ current[p] \in Nat
      BY <1>1, Types DEF envVars
    <3> QED BY <1>2, <1>4, <2>1, <3>1, <3>2 DEF WorkerIsSound
  <2>2. CASE e # d
    <3>1. row[e] = NoRow => row'[e] = NoRow
      BY <1>5, <1>6, <2>2, Types DEF NoRow
    <3>2. worker[e] = "starting" => row'[e].owner = e
      BY <1>5, <1>6, <2>2, Types DEF TerminalInvariant, WorkerIsSound, SettledStates
    <3>3. Active(e) => \E r \in OwnedBy(e)' : row'[r].ownership # "released"
      BY <1>5, <1>6 DEF TerminalInvariant, WorkerIsSound, Active, ActiveStates, OwnedBy, SettledStates
    <3> QED BY <1>1, <1>4, <2>2, <3>1, <3>2, <3>3 DEF TerminalInvariant, WorkerIsSound, Active, memVars, envVars
  <2> QED BY <2>1, <2>2
<1>11. PanesAreUnique'
  <2>1. ASSUME NEW e \in Dispatches \ {d}, Active(e)', attached'[e] # Null
        PROVE  attached'[e][1] # p
    BY <1>1, <1>4, <2>1 DEF Active, TerminalFree
  <2>2. ASSUME NEW e \in Dispatches \ {d}, NEW f \in Dispatches \ {d},
               Active(e)', attached'[e] # Null, Active(f)', attached'[f] # Null,
               attached'[e][1] = attached'[f][1]
        PROVE  e = f
    BY <1>4, <2>2 DEF TerminalInvariant, PanesAreUnique, Active
  <2> QED BY <1>2, <1>4, <2>1, <2>2 DEF PanesAreUnique
<1>12. \A y \in alive' : y[2] <= current'[y[1]]
  BY <1>1 DEF TerminalInvariant, envVars
<1>13. ASSUME NEW r \in Resources PROVE ReleaseIsSound(r)'
  <2>1. \A e \in Parties(r) : row[r].ownership # "none" => e \in Dispatches \ {d}
    BY <1>3, Types DEF Parties
  <2>2. row[r].ownership # "none" =>
          row'[r].ownership # "none" /\ row'[r].process = row[r].process /\ Parties(r) \subseteq Parties(r)'
    BY <1>5, <1>6 DEF Parties
  <2>3. ASSUME release[r].pc = "closing" PROVE row'[r].release = row[r].release
    BY <1>5, <1>6, <2>3 DEF TerminalInvariant, ReleaseIsSound
  <2>4. ASSUME release[r].pc = "closing", row[r].release = "releasing", NEW s \in Resources
        PROVE  s \in Claims(row[r].process)' <=> s \in Claims(row[r].process)
    <3>1. Claims(row[r].process) = {r} /\ r # x /\ row'[r] = row[r]
      BY <1>5, <1>6, <2>4 DEF TerminalInvariant, ReleaseIsSound
    <3>2. row[r].process # q
      BY <1>1, <2>4, <3>1 DEF MayReuse, InProgress, q
    <3> QED BY <1>5, <1>6, <3>1, <3>2 DEF Claims
  <2> QED BY <1>1, <1>4, <2>1, <2>2, <2>3, <2>4, ReleaseKept DEF memVars, envVars
<1>14. BacklogIsSound'
  <2> SUFFICES ASSUME NEW r \in Resources, NEW e \in Dispatches, <<r, e>> \in recovery'.todo
               PROVE  row'[r].ownership # "none" /\ e \in Parties(r)' /\ worker'[e] \in SettledStates
    BY DEF BacklogIsSound
  <2>1. row[r].ownership # "none" /\ e \in Parties(r) /\ worker[e] \in SettledStates
    BY <1>1 DEF TerminalInvariant, BacklogIsSound, memVars
  <2>2. e # d
    BY <1>3, <2>1
  <2> QED BY <1>4, <1>5, <1>6, <2>1, <2>2 DEF Parties
<1>15. ASSUME NEW e \in Dispatches PROVE StopIsSound(e)'
  <2>1. CASE e = d
    BY <1>1, <1>3, <2>1 DEF StopIsSound, memVars
  <2>2. CASE e # d
    <3>1. stop' = stop /\ alive' = alive /\ worker'[e] = worker[e] /\ attached'[e] = attached[e]
      BY <1>1, <1>4, <2>2 DEF memVars, envVars
    <3>2. \A r \in OwnedBy(e) : worker[e] = "stopping" => r # x
      BY <1>6 DEF OwnedBy, SettledStates
    <3> QED BY <1>5, <3>1, <3>2 DEF TerminalInvariant, StopIsSound, OwnedBy
  <2> QED BY <2>1, <2>2
<1>16. ASSUME NEW s \in Resources PROVE OutputKept(s)
  BY <1>5 DEF OutputKept, InProgress
<1> QED BY <1>16, <1>7, <1>8, <1>9, <1>10, <1>11, <1>12, <1>13, <1>14, <1>15 DEF TerminalInvariant

LEMMA BacklogType ==
    ASSUME TerminalInvariant
    PROVE  Backlog \subseteq Resources \X Dispatches
BY ProcessFacts, Types DEF Backlog

-----------------------------------------------------------------------------
(* The steps of workers, of stops, of recovery and of processes *)

LEMMA AttachCreatedKeeps ==
    ASSUME TerminalInvariant, NEW d \in Dispatches, AttachCreated(d)
    PROVE  TerminalInvariant' /\ \A s \in Resources : OutputKept(s)
<1>1. TerminalTypeOK'
  <2>1. row[d].process \in Processes \cup {Null}
    BY Types DEF Resources
  <2> QED BY <2>1 DEF TerminalInvariant, TerminalTypeOK, AttachCreated, WorkerStates, envVars
<1>2. Elapses
  BY NothingStarts DEF AttachCreated, envVars
<1>3. MovesOn
  BY DEF TerminalInvariant, TerminalTypeOK, AttachCreated, MovesOn, Active, ActiveStates, SettledStates, envVars
<1>4. ASSUME NEW s \in Resources PROVE ReleaseIsSound(s)'
  BY <1>2, <1>3, MovesOnKeepsReleases DEF AttachCreated, envVars
<1>5. PanesAreUnique'
  <2>1. TerminalFree(row[d].process[1], d) /\ attached'[d] = row[d].process
    BY DEF TerminalInvariant, TerminalTypeOK, AttachCreated
  <2>2. \A e \in Dispatches \ {d} : attached'[e] = attached[e]
    BY DEF TerminalInvariant, TerminalTypeOK, AttachCreated
  <2>3. \A e \in Dispatches : Active(e)' => Active(e)
    BY <1>3 DEF MovesOn
  <2> QED BY <2>1, <2>2, <2>3 DEF TerminalInvariant, PanesAreUnique, TerminalFree
<1>6. BacklogIsSound'
  BY <1>3, MovesOnKeepsBacklog DEF AttachCreated, envVars
<1>7. ASSUME NEW e \in Dispatches PROVE StopIsSound(e)'
  BY DEF TerminalInvariant, TerminalTypeOK, StopIsSound, OwnedBy, AttachCreated, envVars
<1> QED BY <1>1, <1>2, <1>3, <1>4, <1>5, <1>6, <1>7, MovesOnKeeps DEF TerminalInvariant, Elapses

LEMMA FailStartKeeps ==
    ASSUME TerminalInvariant, NEW d \in Dispatches, FailStart(d)
    PROVE  TerminalInvariant' /\ \A s \in Resources : OutputKept(s)
<1>1. TerminalTypeOK'
  <2>1. row[d].process \in Processes \cup {Null}
    BY Types DEF Resources
  <2> QED BY <2>1 DEF TerminalInvariant, TerminalTypeOK, FailStart, WorkerStates, envVars
<1>2. Elapses
  BY NothingStarts DEF FailStart, envVars
<1>3. MovesOn
  BY DEF TerminalInvariant, TerminalTypeOK, FailStart, MovesOn, Active, ActiveStates, SettledStates, envVars
<1>4. ASSUME NEW s \in Resources PROVE ReleaseIsSound(s)'
  BY <1>2, <1>3, MovesOnKeepsReleases DEF FailStart, envVars
<1>5. PanesAreUnique'
  <2>1. \A e \in Dispatches : Active(e)' => Active(e) /\ attached'[e] = attached[e]
    BY DEF TerminalInvariant, TerminalTypeOK, FailStart, Active, ActiveStates
  <2> QED BY <2>1 DEF TerminalInvariant, PanesAreUnique
<1>6. BacklogIsSound'
  BY <1>3, MovesOnKeepsBacklog DEF FailStart, envVars
<1>7. ASSUME NEW e \in Dispatches PROVE StopIsSound(e)'
  BY DEF TerminalInvariant, TerminalTypeOK, StopIsSound, OwnedBy, FailStart, envVars
<1> QED BY <1>1, <1>2, <1>3, <1>4, <1>5, <1>6, <1>7, MovesOnKeeps DEF TerminalInvariant, Elapses

LEMMA StartUnknownKeeps ==
    ASSUME TerminalInvariant, NEW d \in Dispatches, StartUnknown(d)
    PROVE  TerminalInvariant' /\ \A s \in Resources : OutputKept(s)
<1>1. TerminalTypeOK'
  BY DEF TerminalInvariant, TerminalTypeOK, StartUnknown, WorkerStates, dbVars, envVars
<1>2. Elapses
  BY NothingStarts DEF StartUnknown, dbVars, envVars
<1>3. MovesOn
  BY DEF TerminalInvariant, TerminalTypeOK, StartUnknown, MovesOn, Active, ActiveStates, SettledStates, dbVars, envVars
<1>4. ASSUME NEW s \in Resources PROVE ReleaseIsSound(s)'
  BY <1>2, <1>3, MovesOnKeepsReleases DEF StartUnknown, dbVars, envVars
<1>5. PanesAreUnique'
  BY <1>3, MovesOnKeepsPanes DEF StartUnknown, dbVars, envVars
<1>6. BacklogIsSound'
  BY <1>3, MovesOnKeepsBacklog DEF StartUnknown, dbVars, envVars
<1>7. ASSUME NEW e \in Dispatches PROVE StopIsSound(e)'
  BY DEF TerminalInvariant, TerminalTypeOK, StopIsSound, OwnedBy, StartUnknown, dbVars, envVars
<1> QED BY <1>1, <1>2, <1>3, <1>4, <1>5, <1>6, <1>7, MovesOnKeeps DEF TerminalInvariant, Elapses

LEMMA ReportKeeps ==
    ASSUME TerminalInvariant, NEW d \in Dispatches, Report(d)
    PROVE  TerminalInvariant' /\ \A s \in Resources : OutputKept(s)
<1>1. TerminalTypeOK'
  BY DEF TerminalInvariant, TerminalTypeOK, Report, WorkerStates, memVars, envVars
<1>2. Elapses
  BY NothingStarts DEF Report, memVars, envVars
<1>3. MovesOn
  BY DEF TerminalInvariant, TerminalTypeOK, Report, MovesOn, Active, ActiveStates, SettledStates, memVars, envVars
<1>4. ASSUME NEW s \in Resources PROVE ReleaseIsSound(s)'
  BY <1>2, <1>3, MovesOnKeepsReleases DEF Report, memVars, envVars
<1>5. PanesAreUnique'
  BY <1>3, MovesOnKeepsPanes DEF Report, memVars, envVars
<1>6. BacklogIsSound'
  BY <1>3, MovesOnKeepsBacklog DEF Report, memVars, envVars
<1>7. ASSUME NEW e \in Dispatches PROVE StopIsSound(e)'
  BY DEF TerminalInvariant, TerminalTypeOK, StopIsSound, OwnedBy, Report, memVars, envVars
<1> QED BY <1>1, <1>2, <1>3, <1>4, <1>5, <1>6, <1>7, MovesOnKeeps DEF TerminalInvariant, Elapses

LEMMA AbandonKeeps ==
    ASSUME TerminalInvariant, NEW d \in Dispatches, Abandon(d)
    PROVE  TerminalInvariant' /\ \A s \in Resources : OutputKept(s)
<1>1. TerminalTypeOK'
  BY DEF TerminalInvariant, TerminalTypeOK, Abandon, WorkerStates, memVars, envVars
<1>2. Elapses
  BY NothingStarts DEF Abandon, memVars, envVars
<1>3. MovesOn
  BY DEF TerminalInvariant, TerminalTypeOK, Abandon, MovesOn, Active, ActiveStates, SettledStates, memVars, envVars
<1>4. ASSUME NEW s \in Resources PROVE ReleaseIsSound(s)'
  BY <1>2, <1>3, MovesOnKeepsReleases DEF Abandon, memVars, envVars
<1>5. PanesAreUnique'
  BY <1>3, MovesOnKeepsPanes DEF Abandon, memVars, envVars
<1>6. BacklogIsSound'
  BY <1>3, MovesOnKeepsBacklog DEF Abandon, memVars, envVars
<1>7. ASSUME NEW e \in Dispatches PROVE StopIsSound(e)'
  BY DEF TerminalInvariant, TerminalTypeOK, StopIsSound, OwnedBy, Abandon, memVars, envVars
<1> QED BY <1>1, <1>2, <1>3, <1>4, <1>5, <1>6, <1>7, MovesOnKeeps DEF TerminalInvariant, Elapses

LEMMA ReconcileMissingKeeps ==
    ASSUME TerminalInvariant, NEW d \in Dispatches, ReconcileMissing(d)
    PROVE  TerminalInvariant' /\ \A s \in Resources : OutputKept(s)
<1>1. TerminalTypeOK'
  BY DEF TerminalInvariant, TerminalTypeOK, ReconcileMissing, WorkerStates, memVars, envVars
<1>2. Elapses
  BY NothingStarts DEF ReconcileMissing, memVars, envVars
<1>3. MovesOn
  BY DEF TerminalInvariant, TerminalTypeOK, ReconcileMissing, MovesOn, Active, ActiveStates, SettledStates, memVars, envVars
<1>4. ASSUME NEW s \in Resources PROVE ReleaseIsSound(s)'
  BY <1>2, <1>3, MovesOnKeepsReleases DEF ReconcileMissing, memVars, envVars
<1>5. PanesAreUnique'
  BY <1>3, MovesOnKeepsPanes DEF ReconcileMissing, memVars, envVars
<1>6. BacklogIsSound'
  BY <1>3, MovesOnKeepsBacklog DEF ReconcileMissing, memVars, envVars
<1>7. ASSUME NEW e \in Dispatches PROVE StopIsSound(e)'
  BY DEF TerminalInvariant, TerminalTypeOK, StopIsSound, OwnedBy, ReconcileMissing, memVars, envVars
<1> QED BY <1>1, <1>2, <1>3, <1>4, <1>5, <1>6, <1>7, MovesOnKeeps DEF TerminalInvariant, Elapses

LEMMA ProcessExitKeeps ==
    ASSUME TerminalInvariant, NEW q \in Processes, ProcessExit(q)
    PROVE  TerminalInvariant' /\ \A s \in Resources : OutputKept(s)
<1>1. TerminalTypeOK'
  <2>1. Exited(q) \in [Dispatches -> WorkerStates]
    BY DEF TerminalInvariant, TerminalTypeOK, Exited, WorkerStates
  <2> QED BY <2>1 DEF TerminalInvariant, TerminalTypeOK, ProcessExit, memVars
<1>2. Elapses
  BY NothingStarts DEF ProcessExit, memVars
<1>3. MovesOn
  BY DEF ProcessExit, Exited, MovesOn, Active, ActiveStates, SettledStates, memVars
<1>4. ASSUME NEW s \in Resources PROVE ReleaseIsSound(s)'
  BY <1>2, <1>3, MovesOnKeepsReleases DEF ProcessExit, memVars
<1>5. PanesAreUnique'
  BY <1>3, MovesOnKeepsPanes DEF ProcessExit, memVars
<1>6. BacklogIsSound'
  BY <1>3, MovesOnKeepsBacklog DEF ProcessExit, memVars
<1>7. ASSUME NEW e \in Dispatches PROVE StopIsSound(e)'
  <2>1. worker'[e] \in {worker[e], "ended", "reported"}
    BY DEF ProcessExit, Exited
  <2>2. attached[e] \in alive' => worker'[e] = worker[e] /\ attached[e] \in alive
    BY DEF ProcessExit, Exited
  <2> QED BY <2>1, <2>2 DEF TerminalInvariant, StopIsSound, OwnedBy, ProcessExit, memVars
<1> QED BY <1>1, <1>2, <1>3, <1>4, <1>5, <1>6, <1>7, MovesOnKeeps DEF TerminalInvariant, Elapses

LEMMA BeginStopKeeps ==
    ASSUME TerminalInvariant, NEW d \in Dispatches, BeginStop(d)
    PROVE  TerminalInvariant' /\ \A s \in Resources : OutputKept(s)
<1>1. TerminalTypeOK'
  BY DEF TerminalInvariant, TerminalTypeOK, BeginStop, WorkerStates, envVars
<1>2. Elapses
  BY NothingStarts DEF BeginStop, envVars
<1>3. MovesOn
  BY DEF TerminalInvariant, TerminalTypeOK, BeginStop, MovesOn, Active, ActiveStates, SettledStates, envVars
<1>4. ASSUME NEW s \in Resources PROVE ReleaseIsSound(s)'
  BY <1>2, <1>3, MovesOnKeepsReleases DEF BeginStop, envVars
<1>5. PanesAreUnique'
  BY <1>3, MovesOnKeepsPanes DEF BeginStop, envVars
<1>6. BacklogIsSound'
  BY <1>3, MovesOnKeepsBacklog DEF BeginStop, envVars
<1>7. ASSUME NEW e \in Dispatches PROVE StopIsSound(e)'
  BY DEF TerminalInvariant, TerminalTypeOK, StopIsSound, OwnedBy, BeginStop, envVars
<1> QED BY <1>1, <1>2, <1>3, <1>4, <1>5, <1>6, <1>7, MovesOnKeeps DEF TerminalInvariant, Elapses

LEMMA StopObservesKeeps ==
    ASSUME TerminalInvariant, NEW d \in Dispatches, StopObserves(d)
    PROVE  TerminalInvariant' /\ \A s \in Resources : OutputKept(s)
<1>1. TerminalTypeOK'
  BY DEF TerminalInvariant, TerminalTypeOK, StopObserves, WorkerStates, envVars
<1>2. Elapses
  BY NothingStarts DEF StopObserves, envVars
<1>3. MovesOn
  BY DEF TerminalInvariant, TerminalTypeOK, StopObserves, MovesOn, Active, ActiveStates, SettledStates, envVars
<1>4. ASSUME NEW s \in Resources PROVE ReleaseIsSound(s)'
  BY <1>2, <1>3, MovesOnKeepsReleases DEF StopObserves, envVars
<1>5. PanesAreUnique'
  BY <1>3, MovesOnKeepsPanes DEF StopObserves, envVars
<1>6. BacklogIsSound'
  BY <1>3, MovesOnKeepsBacklog DEF StopObserves, envVars
<1>7. ASSUME NEW e \in Dispatches PROVE StopIsSound(e)'
  BY DEF TerminalInvariant, TerminalTypeOK, StopIsSound, MayClose, OwnedBy, StopObserves, envVars
<1> QED BY <1>1, <1>2, <1>3, <1>4, <1>5, <1>6, <1>7, MovesOnKeeps DEF TerminalInvariant, Elapses

LEMMA StopClosesKeeps ==
    ASSUME TerminalInvariant, NEW d \in Dispatches, NEW killed \in BOOLEAN, StopCloses(d, killed)
    PROVE  TerminalInvariant' /\ \A s \in Resources : OutputKept(s)
<1>1. TerminalTypeOK'
  BY DEF TerminalInvariant, TerminalTypeOK, StopCloses, WorkerStates
<1>2. Elapses
  BY NothingStarts DEF StopCloses
<1>3. MovesOn
  BY DEF TerminalInvariant, TerminalTypeOK, StopCloses, MovesOn, Active, ActiveStates, SettledStates
<1>4. ASSUME NEW s \in Resources PROVE ReleaseIsSound(s)'
  BY <1>2, <1>3, MovesOnKeepsReleases DEF StopCloses
<1>5. PanesAreUnique'
  BY <1>3, MovesOnKeepsPanes DEF StopCloses
<1>6. BacklogIsSound'
  BY <1>3, MovesOnKeepsBacklog DEF StopCloses
<1>7. ASSUME NEW e \in Dispatches PROVE StopIsSound(e)'
  BY DEF TerminalInvariant, TerminalTypeOK, StopIsSound, OwnedBy, StopCloses
<1> QED BY <1>1, <1>2, <1>3, <1>4, <1>5, <1>6, <1>7, MovesOnKeeps DEF TerminalInvariant, Elapses

LEMMA RecoverItemKeeps ==
    ASSUME TerminalInvariant, NEW r \in Resources, NEW d \in Dispatches, RecoverItem(r, d)
    PROVE  TerminalInvariant' /\ \A s \in Resources : OutputKept(s)
<1>1. TerminalTypeOK'
  <2>1. Begun(r, d, TRUE) \in [Resources -> Calls]
    BY DEF TerminalInvariant, TerminalTypeOK, Begun, Idle, Calls
  <2>2. recovery' \in Passes
    BY DEF TerminalInvariant, TerminalTypeOK, RecoverItem, Passes
  <2> QED BY <2>1, <2>2 DEF TerminalInvariant, TerminalTypeOK, RecoverItem, dbVars, envVars
<1>2. Elapses
  BY NothingStarts DEF RecoverItem, dbVars, envVars
<1>3. MovesOn
  BY DEF TerminalInvariant, TerminalTypeOK, RecoverItem, MovesOn, Active, ActiveStates, SettledStates, dbVars, envVars
<1>4. ASSUME NEW s \in Resources PROVE ReleaseIsSound(s)'
  <2>1. row[r].ownership # "none" /\ d \in Parties(r) /\ worker[d] \in SettledStates
    BY DEF TerminalInvariant, BacklogIsSound, RecoverItem
  <2>2. \/ release'[s] = release[s]
        \/ s = r /\ release'[s].pc = "observing" /\ release'[s].by = d
    BY DEF TerminalInvariant, TerminalTypeOK, Calls, RecoverItem, Begun, Idle
  <2> QED BY <1>2, <1>3, <2>1, <2>2, MovesOnKeepsReleases
<1>5. PanesAreUnique'
  BY <1>3, MovesOnKeepsPanes DEF RecoverItem, dbVars, envVars
<1>6. BacklogIsSound'
  <2>1. recovery'.todo \subseteq recovery.todo
    BY DEF TerminalInvariant, TerminalTypeOK, Passes, RecoverItem
  <2> QED BY <1>3, <2>1, MovesOnKeepsBacklog
<1>7. ASSUME NEW e \in Dispatches PROVE StopIsSound(e)'
  BY DEF TerminalInvariant, TerminalTypeOK, StopIsSound, OwnedBy, RecoverItem, dbVars, envVars
<1> QED BY <1>1, <1>2, <1>3, <1>4, <1>5, <1>6, <1>7, MovesOnKeeps DEF TerminalInvariant, Elapses

LEMMA EndPassKeeps ==
    ASSUME TerminalInvariant, EndPass
    PROVE  TerminalInvariant' /\ \A s \in Resources : OutputKept(s)
<1>1. TerminalTypeOK'
  <2>1. Backlog \subseteq Resources \X Dispatches
    BY BacklogType
  <2>2. recovery' \in Passes
    BY <2>1 DEF TerminalInvariant, TerminalTypeOK, EndPass, NoRecovery, Passes
  <2> QED BY <2>2 DEF TerminalInvariant, TerminalTypeOK, EndPass, dbVars, envVars
<1>2. Elapses
  BY NothingStarts DEF EndPass, dbVars, envVars
<1>3. MovesOn
  BY DEF TerminalInvariant, TerminalTypeOK, EndPass, MovesOn, Active, ActiveStates, SettledStates, dbVars, envVars
<1>4. ASSUME NEW s \in Resources PROVE ReleaseIsSound(s)'
  BY <1>2, <1>3, MovesOnKeepsReleases DEF EndPass, dbVars, envVars
<1>5. PanesAreUnique'
  BY <1>3, MovesOnKeepsPanes DEF EndPass, dbVars, envVars
<1>6. BacklogIsSound'
  BY <1>3, MovesOnKeepsBacklog DEF EndPass, NoRecovery
<1>7. ASSUME NEW e \in Dispatches PROVE StopIsSound(e)'
  BY DEF TerminalInvariant, TerminalTypeOK, StopIsSound, OwnedBy, EndPass, dbVars, envVars
<1> QED BY <1>1, <1>2, <1>3, <1>4, <1>5, <1>6, <1>7, MovesOnKeeps DEF TerminalInvariant, Elapses

LEMMA OpenTerminalKeeps ==
    ASSUME TerminalInvariant, NEW p \in Panes, OpenTerminal(p)
    PROVE  TerminalInvariant' /\ \A s \in Resources : OutputKept(s)
<1>1. TerminalTypeOK'
  <2>1. <<p, 1>> \in Processes /\ current[p] = 0
    BY ProcessFacts DEF OpenTerminal
  <2>2. current' \in [Panes -> 0 .. MaxProcesses]
    BY ProcessFacts DEF TerminalInvariant, TerminalTypeOK, OpenTerminal
  <2> QED BY <2>1, <2>2 DEF TerminalInvariant, TerminalTypeOK, OpenTerminal, dbVars, memVars
<1>2. Elapses
  <2>1. <<p, 1>> \in Processes /\ current[p] = 0
    BY ProcessFacts DEF OpenTerminal
  <2>2. current' \in [Panes -> 0 .. MaxProcesses]
    BY ProcessFacts DEF TerminalInvariant, TerminalTypeOK, OpenTerminal
  <2>3. \A x \in Panes : current[x] <= current'[x]
    BY ProcessFacts, Types DEF TerminalInvariant, TerminalTypeOK, OpenTerminal
  <2>4. ASSUME NEW q \in alive PROVE q[2] <= current'[q[1]]
    <3>1. q[1] \in Panes /\ q[2] \in Nat /\ current[q[1]] \in Nat /\ current'[q[1]] \in Nat
      BY <2>2, ProcessFacts, Types
    <3> QED BY <2>3, <3>1 DEF TerminalInvariant
  <2> QED BY <2>1, <2>2, <2>3, <2>4, ProcessFacts, Types DEF TerminalInvariant, TerminalTypeOK, OpenTerminal, Elapses
<1>3. MovesOn
  BY DEF TerminalInvariant, TerminalTypeOK, OpenTerminal, MovesOn, Active, ActiveStates, SettledStates, dbVars, memVars
<1>4. ASSUME NEW s \in Resources PROVE ReleaseIsSound(s)'
  BY <1>2, <1>3, MovesOnKeepsReleases DEF OpenTerminal, dbVars, memVars
<1>5. PanesAreUnique'
  BY <1>3, MovesOnKeepsPanes DEF OpenTerminal, dbVars, memVars
<1>6. BacklogIsSound'
  BY <1>3, MovesOnKeepsBacklog DEF OpenTerminal, dbVars, memVars
<1>7. ASSUME NEW e \in Dispatches PROVE StopIsSound(e)'
  <2>1. attached[e] # <<p, 1>>
    <3>1. 1 \in 1 .. MaxProcesses /\ 1 > current[p]
      BY ProcessFacts DEF OpenTerminal
    <3> QED BY <3>1, NamedIsStarted
  <2> QED BY <2>1 DEF TerminalInvariant, StopIsSound, OwnedBy, OpenTerminal, dbVars, memVars
<1> QED BY <1>1, <1>2, <1>3, <1>4, <1>5, <1>6, <1>7, MovesOnKeeps DEF TerminalInvariant, Elapses

LEMMA LoseContactKeeps ==
    ASSUME TerminalInvariant, NEW p \in Panes, LoseContact(p)
    PROVE  TerminalInvariant' /\ \A s \in Resources : OutputKept(s)
<1>1. TerminalTypeOK'
  BY TerminalAssumption DEF TerminalInvariant, TerminalTypeOK, LoseContact, Mishap, dbVars, memVars
<1>2. Elapses
  BY NothingStarts DEF LoseContact, dbVars, memVars
<1>3. MovesOn
  BY DEF TerminalInvariant, TerminalTypeOK, LoseContact, MovesOn, Active, ActiveStates, SettledStates, dbVars, memVars
<1>4. ASSUME NEW s \in Resources PROVE ReleaseIsSound(s)'
  BY <1>2, <1>3, MovesOnKeepsReleases DEF LoseContact, dbVars, memVars
<1>5. PanesAreUnique'
  BY <1>3, MovesOnKeepsPanes DEF LoseContact, dbVars, memVars
<1>6. BacklogIsSound'
  BY <1>3, MovesOnKeepsBacklog DEF LoseContact, dbVars, memVars
<1>7. ASSUME NEW e \in Dispatches PROVE StopIsSound(e)'
  BY DEF TerminalInvariant, TerminalTypeOK, StopIsSound, OwnedBy, LoseContact, dbVars, memVars
<1> QED BY <1>1, <1>2, <1>3, <1>4, <1>5, <1>6, <1>7, MovesOnKeeps DEF TerminalInvariant, Elapses

LEMMA DiscoverKeeps ==
    ASSUME TerminalInvariant, NEW p \in Panes, Discover(p)
    PROVE  TerminalInvariant' /\ \A s \in Resources : OutputKept(s)
<1>1. TerminalTypeOK'
  <2>1. Backlog \subseteq Resources \X Dispatches
    BY BacklogType
  <2>2. recovery' \in Passes
    BY <2>1 DEF TerminalInvariant, TerminalTypeOK, Discover, Reconciled, Passes
  <2> QED BY <2>2 DEF TerminalInvariant, TerminalTypeOK, Discover, dbVars
<1>2. Elapses
  BY NothingStarts DEF Discover, dbVars
<1>3. MovesOn
  BY DEF TerminalInvariant, TerminalTypeOK, Discover, MovesOn, Active, ActiveStates, SettledStates, dbVars
<1>4. ASSUME NEW s \in Resources PROVE ReleaseIsSound(s)'
  BY <1>2, <1>3, MovesOnKeepsReleases DEF Discover, dbVars
<1>5. PanesAreUnique'
  BY <1>3, MovesOnKeepsPanes DEF Discover, dbVars
<1>6. BacklogIsSound'
  <2>1. recovery'.todo \subseteq recovery.todo \cup Backlog
    BY DEF TerminalInvariant, TerminalTypeOK, Passes, Discover, Reconciled
  <2> QED BY <1>3, <2>1, MovesOnKeepsBacklog
<1>7. ASSUME NEW e \in Dispatches PROVE StopIsSound(e)'
  BY DEF TerminalInvariant, TerminalTypeOK, StopIsSound, OwnedBy, Discover, dbVars
<1> QED BY <1>1, <1>2, <1>3, <1>4, <1>5, <1>6, <1>7, MovesOnKeeps DEF TerminalInvariant, Elapses

LEMMA RestartKeeps ==
    ASSUME TerminalInvariant, Restart
    PROVE  TerminalInvariant' /\ \A s \in Resources : OutputKept(s)
<1>1. TerminalTypeOK'
  <2>1. Idle \in Calls /\ NoRecovery \in Passes
    BY DEF Idle, Calls, NoRecovery, Passes
  <2> QED BY <2>1, TerminalAssumption DEF TerminalInvariant, TerminalTypeOK, Restart, Mishap, dbVars
<1>2. Elapses
  BY NothingStarts DEF Restart, dbVars
<1>3. MovesOn
  BY DEF TerminalInvariant, TerminalTypeOK, Restart, MovesOn, Active, ActiveStates, SettledStates, dbVars
<1>4. ASSUME NEW s \in Resources PROVE ReleaseIsSound(s)'
  BY <1>2, <1>3, MovesOnKeepsReleases DEF Restart, Idle
<1>5. PanesAreUnique'
  BY <1>3, MovesOnKeepsPanes DEF Restart, dbVars
<1>6. BacklogIsSound'
  BY <1>3, MovesOnKeepsBacklog DEF Restart, NoRecovery
<1>7. ASSUME NEW e \in Dispatches PROVE StopIsSound(e)'
  BY DEF TerminalInvariant, TerminalTypeOK, StopIsSound, OwnedBy, Restart, dbVars
<1> QED BY <1>1, <1>2, <1>3, <1>4, <1>5, <1>6, <1>7, MovesOnKeeps DEF TerminalInvariant, Elapses

-----------------------------------------------------------------------------
(* Steps that relabel rows: requests, takeovers and the releases themselves *)

LEMMA ReleasingIsArchived ==
    ASSUME TerminalInvariant, NEW r \in Resources, row[r].release = "releasing"
    PROVE  row[r].owner \in archived
<1>1. row[r].ownership # "none"
  BY Types
<1> QED BY <1>1 DEF TerminalInvariant, RowIsSound

\* A row that a step does not write.
LEMMA UnwrittenKeepsParties ==
    ASSUME TerminalInvariant, Elapses, NEW r \in Resources, row'[r] = row[r],
           row[r].release = "releasing" => row[r].owner \in archived'
    PROVE  KeepsParties(r)
<1>1. row[r].ownership = "none" => row[r].release = "not_requested"
  BY Types
<1>2. ~(row[r].release = "released" /\ InProgress(r))
  BY DEF InProgress
<1>3. InProgress(r)' = InProgress(r)
  BY DEF InProgress
<1> QED BY <1>1, <1>2, <1>3, NotRevived DEF TerminalInvariant, RowIsSound, KeepsParties, OutputKept, InProgress

\* Parts of the invariant that follow for a step which relabels rows.
LEMMA RelabelKeepsInvariant ==
    ASSUME TerminalInvariant, \A r \in Resources : KeepsParties(r),
           UNCHANGED <<worker, attached, starts, stop>>, Elapses,
           TerminalTypeOK', recovery'.todo \subseteq recovery.todo,
           \A r \in Resources : ReleaseIsSound(r)'
    PROVE  TerminalInvariant' /\ \A r \in Resources : OutputKept(r)
BY RelabelKeeps, RelabelKeepsBacklog DEF TerminalInvariant, Elapses, KeepsParties

\* The owner of an owned terminal is the only one who may own it.
LEMMA OwnerIsParty ==
    ASSUME TerminalInvariant, NEW d \in Dispatches, NEW r \in OwnedBy(d)
    PROVE  /\ r \in Resources /\ row[r].ownership # "none" /\ row[r].owner = d
           /\ d \in Parties(r)
           /\ \A s \in Resources \ {r} : row[s].owner # d
BY ProcessFacts, Types DEF OwnedBy, Parties, TerminalInvariant, OwnersAreUnique

LEMMA RequestReleaseKeeps ==
    ASSUME TerminalInvariant, NEW d \in Dispatches, RequestRelease(d)
    PROVE  TerminalInvariant' /\ \A s \in Resources : OutputKept(s)
<1> PICK r \in OwnedBy(d) :
        /\ worker[d] = "reported" /\ Releasable(r)
        /\ archived' = IF row[r].release = "retained" /\ row[r].byUser THEN archived \ {d}
                       ELSE archived
        /\ row' = IF row[r].release = "releasing" THEN row ELSE SetRelease(r, "requested")
        /\ release' = Begun(r, d, FALSE)
        /\ UNCHANGED <<worker, attached, starts, stop, recovery, envVars>>
  BY DEF RequestRelease
<1>1. /\ r \in Resources /\ row[r].ownership = "owned" /\ row[r].owner = d /\ d \in Parties(r)
      /\ \A s \in Resources \ {r} : row[s].owner # d
  BY OwnerIsParty DEF Releasable
<1>2. \/ row' = row /\ archived' = archived
      \/ Relabelled(r, "owned", "requested") /\ row[r].release # "releasing"
  BY <1>1, SetReleaseRelabels DEF TerminalInvariant, TerminalTypeOK, ReleaseStates
<1>3. Elapses
  BY NothingStarts DEF envVars
<1>4. ASSUME NEW s \in Resources PROVE KeepsParties(s)
  <2>1. CASE row'[s] = row[s]
    <3>1. row[s].release = "releasing" => row[s].owner \in archived'
      <4>1. row[s].release = "releasing" => row[s].owner \in archived
        BY ReleasingIsArchived
      <4> QED BY <1>1, <4>1
    <3> QED BY <1>3, <2>1, <3>1, UnwrittenKeepsParties
  <2>2. CASE row'[s] # row[s]
    <3>1. s = r /\ Relabelled(r, "owned", "requested")
      BY <1>2, <2>2 DEF Relabelled
    <3> QED BY <1>1, <3>1 DEF Relabelled, KeepsParties, InProgress, OutputKept
  <2> QED BY <2>1, <2>2
<1>5. TerminalTypeOK'
  <2>1. row' \in [Resources -> Rows]
    BY <1>2 DEF TerminalInvariant, TerminalTypeOK, Relabelled
  <2>2. \A s \in Resources : row'[s].ownership # "none" => row'[s].owner # Null /\ row'[s].process # Null
    BY <1>4 DEF TerminalInvariant, TerminalTypeOK, KeepsParties
  <2>3. release' \in [Resources -> Calls]
    BY <1>1 DEF TerminalInvariant, TerminalTypeOK, Begun, Idle, Calls
  <2> QED BY <2>1, <2>2, <2>3 DEF TerminalInvariant, TerminalTypeOK, envVars
<1>6. ASSUME NEW s \in Resources PROVE ReleaseIsSound(s)'
  <2>1. \/ release'[s] = release[s]
        \/ s = r /\ release'[s].pc = "observing" /\ release'[s].by = d
    BY <1>1 DEF TerminalInvariant, TerminalTypeOK, Calls, Begun, Idle
  <2>2. release[s].pc = "closing" => row'[s].release = row[s].release
    <3>1. row[s].release = "released" => s # r
      BY DEF Releasable
    <3> QED BY <1>2, <3>1 DEF Relabelled, TerminalInvariant, ReleaseIsSound
  <2> QED BY <1>1, <1>3, <1>4, <2>1, <2>2, RelabelKeepsReleases DEF SettledStates
<1> QED BY <1>3, <1>4, <1>5, <1>6, RelabelKeepsInvariant

\* A row may be released whose process is gone and whose output is kept or was never to be.
LEMMA DeadMayBeReleased ==
    ASSUME TerminalInvariant, NEW d \in Dispatches, NEW r \in Resources, MaySettleDead(d, r),
           Relabelled(r, "released", "released"), row[r].process \notin alive',
           archived' = archived
    PROVE  KeepsParties(r)
<1>1. /\ row[r].ownership = "owned" /\ worker[row[r].owner] \in SettledStates
      /\ InProgress(r) => row[r].owner \in archived
  BY DEF MaySettleDead, Releasable, OutputSettled, InProgress
<1> QED BY <1>1 DEF Relabelled, KeepsParties, InProgress, OutputKept, SettledStates

LEMMA ReleaseRetainedKeeps ==
    ASSUME TerminalInvariant, NEW d \in Dispatches, ReleaseRetained(d)
    PROVE  TerminalInvariant' /\ \A s \in Resources : OutputKept(s)
<1> PICK r \in Resources :
        /\ row[r].ownership # "none" /\ row[r].process \notin alive
        /\ MaySettleDead(d, r)
        /\ row' = SettledDead(r)
        /\ UNCHANGED <<worker, attached, archived, memVars, envVars>>
  BY DEF ReleaseRetained
<1>1. Relabelled(r, "released", "released")
  BY SettledDeadRelabels DEF TerminalInvariant, TerminalTypeOK
<1>2. Elapses
  BY NothingStarts DEF envVars
<1>3. ASSUME NEW s \in Resources PROVE KeepsParties(s)
  <2>1. CASE s # r
    BY <1>1, <1>2, <2>1, UnwrittenKeepsParties, ReleasingIsArchived DEF Relabelled
  <2>2. CASE s = r
    BY <1>1, <2>2, DeadMayBeReleased DEF envVars
  <2> QED BY <2>1, <2>2
<1>4. TerminalTypeOK'
  <2>1. \A s \in Resources : row'[s].ownership # "none" => row'[s].owner # Null /\ row'[s].process # Null
    BY <1>3 DEF TerminalInvariant, TerminalTypeOK, KeepsParties
  <2> QED BY <1>1, <2>1 DEF Relabelled, TerminalInvariant, TerminalTypeOK, memVars, envVars
<1>5. ASSUME NEW s \in Resources PROVE ReleaseIsSound(s)'
  BY <1>1, <1>2, <1>3, RelabelKeepsReleases DEF Relabelled, memVars
<1> QED BY <1>2, <1>3, <1>4, <1>5, RelabelKeepsInvariant DEF memVars

LEMMA RetainKeeps ==
    ASSUME TerminalInvariant, NEW d \in Dispatches, Retain(d)
    PROVE  TerminalInvariant' /\ \A s \in Resources : OutputKept(s)
<1> PICK r \in OwnedBy(d) :
        /\ row[r].release \in {"not_requested", "retained", "requested"}
        /\ row' = [row EXCEPT ![r].release = "retained", ![r].byUser = TRUE]
        /\ archived' = archived \ {d}
        /\ UNCHANGED <<worker, attached, memVars, envVars>>
  BY DEF Retain
<1>1. /\ r \in Resources /\ row[r].ownership # "none" /\ row[r].owner = d
      /\ \A s \in Resources \ {r} : row[s].owner # d
  BY OwnerIsParty
<1>2. Relabelled(r, row[r].ownership, "retained")
  <2>1. row \in [Resources -> Rows] /\ row[r] \in Rows
    BY <1>1 DEF TerminalInvariant, TerminalTypeOK
  <2> DEFINE new == [row[r] EXCEPT !.release = "retained", !.byUser = TRUE]
  <2>2. /\ new \in Rows /\ new.owner = row[r].owner /\ new.prior = row[r].prior
        /\ new.process = row[r].process /\ new.ownership = row[r].ownership
        /\ new.release = "retained"
    BY <2>1 DEF Rows, ReleaseStates
  <2>3. row' = [row EXCEPT ![r] = new]
    BY <1>1, <2>1
  <2> HIDE DEF new
  <2> QED BY <1>1, <2>1, <2>2, <2>3 DEF Relabelled
<1>3. Elapses
  BY NothingStarts DEF envVars
<1>4. ASSUME NEW s \in Resources PROVE KeepsParties(s)
  <2>1. CASE s # r
    BY <1>1, <1>2, <1>3, <2>1, UnwrittenKeepsParties, ReleasingIsArchived DEF Relabelled
  <2>2. CASE s = r
    BY <1>1, <1>2, <2>2 DEF Relabelled, KeepsParties, InProgress, OutputKept,
                            TerminalInvariant, RowIsSound
  <2> QED BY <2>1, <2>2
<1>5. TerminalTypeOK'
  <2>1. \A s \in Resources : row'[s].ownership # "none" => row'[s].owner # Null /\ row'[s].process # Null
    BY <1>4 DEF TerminalInvariant, TerminalTypeOK, KeepsParties
  <2> QED BY <1>2, <2>1 DEF Relabelled, TerminalInvariant, TerminalTypeOK, memVars, envVars
<1>6. ASSUME NEW s \in Resources PROVE ReleaseIsSound(s)'
  <2>1. release[s].pc = "closing" => row'[s].release = row[s].release
    BY <1>2 DEF Relabelled, TerminalInvariant, ReleaseIsSound
  <2> QED BY <1>3, <1>4, <2>1, RelabelKeepsReleases DEF memVars
<1> QED BY <1>3, <1>4, <1>5, <1>6, RelabelKeepsInvariant DEF memVars

LEMMA UserInputKeeps ==
    ASSUME TerminalInvariant, NEW p \in Panes, UserInput(p)
    PROVE  TerminalInvariant' /\ \A s \in Resources : OutputKept(s)
<1> DEFINE taken == {r \in Resources :
                       row[r].process # Null /\ row[r].process[1] = p /\ MayTakeOver(r)}
           new(r) == [row[r] EXCEPT !.ownership = "user_owned", !.release = "retained",
                                    !.byUser = FALSE]
<1>1. /\ row' = [r \in Resources |-> IF r \in taken THEN new(r) ELSE row[r]]
      /\ archived' = archived \ {row[r].owner : r \in taken}
      /\ typed' \in {typed, typed \cup {<<p, current[p]>>}}
      /\ <<p, current[p]>> \in alive
      /\ UNCHANGED <<worker, attached, memVars, found, unlisted, current, alive, mishaps>>
  BY DEF UserInput
<1>2. ASSUME NEW r \in taken
      PROVE  /\ row[r].ownership = "owned" /\ worker[row[r].owner] # "stopping"
             /\ row[r].release \in {"not_requested", "retained", "requested"}
             /\ new(r) \in Rows
             /\ new(r).owner = row[r].owner /\ new(r).prior = row[r].prior
             /\ new(r).process = row[r].process
             /\ new(r).ownership = "user_owned" /\ new(r).release = "retained"
  <2>1. row[r] \in Rows
    BY Types
  <2> QED BY <2>1 DEF MayTakeOver, Rows, Ownerships, ReleaseStates
<1>3. \A r \in Resources : row'[r] = IF r \in taken THEN new(r) ELSE row[r]
  BY <1>1
<1>4. row' \in [Resources -> Rows]
  BY <1>1, <1>2, Types
<1>5. taken \subseteq Resources
  OBVIOUS
<1> HIDE DEF taken, new
<1>6. Elapses
  BY <1>1, NothingStarts
<1>7. ASSUME NEW s \in Resources PROVE KeepsParties(s)
  <2>1. CASE s \in taken
    BY <1>2, <1>3, <2>1 DEF KeepsParties, InProgress, OutputKept
  <2>2. CASE s \notin taken
    <3>1. ASSUME row[s].release = "releasing" PROVE row[s].owner \in archived'
      <4>1. row[s].owner \in archived /\ row[s].ownership # "none"
        BY <3>1, ReleasingIsArchived, Types
      <4>2. ASSUME NEW r \in taken PROVE row[r].owner # row[s].owner
        BY <1>2, <1>5, <2>2, <4>1, <4>2 DEF TerminalInvariant, OwnersAreUnique
      <4> QED BY <1>1, <4>1, <4>2
    <3> QED BY <1>3, <1>6, <2>2, <3>1, UnwrittenKeepsParties
  <2> QED BY <2>1, <2>2
<1>8. TerminalTypeOK'
  <2>1. \A s \in Resources : row'[s].ownership # "none" => row'[s].owner # Null /\ row'[s].process # Null
    BY <1>7 DEF TerminalInvariant, TerminalTypeOK, KeepsParties
  <2> QED BY <1>1, <1>4, <2>1 DEF TerminalInvariant, TerminalTypeOK, memVars
<1>9. ASSUME NEW s \in Resources PROVE ReleaseIsSound(s)'
  <2>1. release[s].pc = "closing" => row'[s].release = row[s].release
    BY <1>2, <1>3 DEF TerminalInvariant, ReleaseIsSound
  <2> QED BY <1>1, <1>6, <1>7, <2>1, RelabelKeepsReleases DEF memVars
<1> QED BY <1>1, <1>6, <1>7, <1>8, <1>9, RelabelKeepsInvariant DEF memVars

LEMMA SpawnKeeps ==
    ASSUME TerminalInvariant, NEW p \in Panes, Spawn(p)
    PROVE  TerminalInvariant' /\ \A s \in Resources : OutputKept(s)
<1> DEFINE q == <<p, current[p] + 1>>
           replaced(r) == /\ row[r].process # Null /\ row[r].process[1] = p
                          /\ row[r].ownership = "owned" /\ row[r].release = "not_requested"
                          /\ worker[row[r].owner] \in SettledStates
           new(r) == [row[r] EXCEPT !.release = "retained", !.byUser = FALSE]
<1>0. /\ current[p] \in 1 .. (MaxProcesses - 1)
      /\ current' = [current EXCEPT ![p] = current[p] + 1]
  BY DEF Spawn
<1>1. /\ alive' = alive \cup {q} /\ found' = found \cup {p}
      /\ row' = [r \in Resources |-> IF replaced(r) THEN new(r) ELSE row[r]]
      /\ UNCHANGED <<worker, attached, archived, memVars, unlisted, typed, mishaps>>
  BY DEF Spawn
<1>2. /\ q \in Processes /\ q[1] = p /\ q[2] = current[p] + 1
      /\ current' \in [Panes -> 0 .. MaxProcesses]
      /\ current'[p] = current[p] + 1
      /\ \A x \in Panes : current[x] <= current'[x]
  <2>1. /\ current \in [Panes -> 0 .. MaxProcesses]
        /\ MaxProcesses \in Nat /\ current[p] \in Nat
    BY TerminalAssumption DEF TerminalInvariant, TerminalTypeOK
  <2>2. current[p] + 1 \in 1 .. MaxProcesses
    BY <1>0, <2>1
  <2>3. current' \in [Panes -> 0 .. MaxProcesses] /\ current'[p] = current[p] + 1
    BY <1>0, <2>1, <2>2
  <2>4. \A x \in Panes : current[x] <= current'[x]
    BY <1>0, <2>1, <2>3
  <2> QED BY <2>2, <2>3, <2>4, ProcessFacts
<1>3. ASSUME NEW r \in Resources, replaced(r)
      PROVE  /\ row[r].ownership = "owned" /\ row[r].release = "not_requested"
             /\ new(r) \in Rows
             /\ new(r).owner = row[r].owner /\ new(r).prior = row[r].prior
             /\ new(r).process = row[r].process
             /\ new(r).ownership = "owned" /\ new(r).release = "retained"
  <2>1. row[r] \in Rows
    BY Types
  <2> QED BY <1>3, <2>1 DEF Rows, ReleaseStates
<1>4. \A r \in Resources : row'[r] = IF replaced(r) THEN new(r) ELSE row[r]
  BY <1>1
<1>5. row' \in [Resources -> Rows]
  BY <1>1, <1>3, Types
<1> HIDE DEF q, replaced, new
<1>6. Elapses
  <2>1. ASSUME NEW x \in alive PROVE x[2] <= current'[x[1]]
    <3>1. x[1] \in Panes /\ x[2] \in Nat /\ current[x[1]] \in Nat /\ current'[x[1]] \in Nat
      BY <1>2, ProcessFacts, Types
    <3> QED BY <1>2, <3>1 DEF TerminalInvariant
  <2>2. q[2] > current[q[1]] /\ q[2] <= current'[q[1]]
    BY <1>0, <1>2
  <2> QED BY <1>1, <1>2, <2>1, <2>2, Types DEF Elapses
<1>7. ASSUME NEW s \in Resources PROVE KeepsParties(s)
  <2>1. CASE replaced(s)
    BY <1>3, <1>4, <2>1 DEF KeepsParties, InProgress, OutputKept
  <2>2. CASE ~replaced(s)
    BY <1>1, <1>4, <1>6, <2>2, UnwrittenKeepsParties, ReleasingIsArchived
  <2> QED BY <2>1, <2>2
<1>8. TerminalTypeOK'
  <2>1. \A s \in Resources : row'[s].ownership # "none" => row'[s].owner # Null /\ row'[s].process # Null
    BY <1>7 DEF TerminalInvariant, TerminalTypeOK, KeepsParties
  <2> QED BY <1>1, <1>2, <1>5, <2>1 DEF TerminalInvariant, TerminalTypeOK, memVars
<1>9. ASSUME NEW s \in Resources PROVE ReleaseIsSound(s)'
  <2>1. release[s].pc = "closing" => row'[s].release = row[s].release
    BY <1>3, <1>4 DEF TerminalInvariant, ReleaseIsSound
  <2> QED BY <1>1, <1>6, <1>7, <2>1, RelabelKeepsReleases DEF memVars
<1> QED BY <1>1, <1>6, <1>7, <1>8, <1>9, RelabelKeepsInvariant DEF memVars

-----------------------------------------------------------------------------
(* A release between its awaits *)

LEMMA DoneEnds ==
    ASSUME TerminalInvariant, NEW r \in Resources, Done(r)
    PROVE  /\ release' \in [Resources -> Calls] /\ release'[r].pc = "idle"
           /\ \A s \in Resources \ {r} : release'[s] = release[s]
           /\ recovery' \in Passes /\ recovery'.todo = recovery.todo
<1>1. Idle \in Calls /\ Idle.pc = "idle"
  BY DEF Idle, Calls
<1>2. recovery' \in Passes /\ recovery'.todo = recovery.todo
  BY DEF TerminalInvariant, TerminalTypeOK, Done, Passes
<1> QED BY <1>1, <1>2 DEF TerminalInvariant, TerminalTypeOK, Done

\* A release ends that relabelled its row at most.
LEMMA ReleaseEndsKeeps ==
    ASSUME TerminalInvariant, NEW r \in Resources, Done(r),
           UNCHANGED <<worker, attached, starts, stop, found, unlisted, current, typed>>,
           Elapses, mishaps' \in 0 .. MaxMishaps, archived' \subseteq Dispatches,
           row' \in [Resources -> Rows], \A s \in Resources : KeepsParties(s),
           \A s \in Resources \ {r} : row'[s] = row[s]
    PROVE  TerminalInvariant' /\ \A s \in Resources : OutputKept(s)
<1>1. TerminalTypeOK'
  <2>1. \A s \in Resources : row'[s].ownership # "none" => row'[s].owner # Null /\ row'[s].process # Null
    BY DEF TerminalInvariant, TerminalTypeOK, KeepsParties
  <2> QED BY <2>1, DoneEnds DEF TerminalInvariant, TerminalTypeOK, Elapses
<1>2. ASSUME NEW s \in Resources PROVE ReleaseIsSound(s)'
  <2>1. \/ release'[s] = release[s] /\ row'[s] = row[s]
        \/ release'[s].pc = "idle"
    BY DoneEnds
  <2> QED BY <2>1, RelabelKeepsReleases
<1> QED BY <1>1, <1>2, DoneEnds, RelabelKeepsInvariant

\* Giving up: the request is taken back, or its end is not known.
LEMMA GivingUpKeepsParties ==
    ASSUME TerminalInvariant, Elapses, archived \subseteq archived', NEW r \in Resources,
           row' \in {row, Reverted(r), Uncertain(r)}
    PROVE  /\ row' \in [Resources -> Rows]
           /\ \A s \in Resources : KeepsParties(s)
           /\ \A s \in Resources \ {r} : row'[s] = row[s]
<1>1. \/ row' = row
      \/ /\ row[r].release \in {"requested", "releasing"}
         /\ \E state \in {"retained", "unknown"} : Relabelled(r, row[r].ownership, state)
  BY SetReleaseRelabels DEF Reverted, Uncertain, TerminalInvariant, TerminalTypeOK, ReleaseStates
<1>2. row' \in [Resources -> Rows] /\ \A s \in Resources \ {r} : row'[s] = row[s]
  BY <1>1 DEF Relabelled, TerminalInvariant, TerminalTypeOK
<1>3. ASSUME NEW s \in Resources PROVE KeepsParties(s)
  <2>1. CASE row'[s] = row[s]
    BY <2>1, UnwrittenKeepsParties, ReleasingIsArchived
  <2>2. CASE row'[s] # row[s]
    <3>1. /\ s = r /\ row[r].release \in {"requested", "releasing"}
          /\ \E state \in {"retained", "unknown"} : Relabelled(r, row[r].ownership, state)
      BY <1>1, <1>2, <2>2
    <3>2. row[r].ownership = "owned" /\ worker[row[r].owner] = "reported"
      <4>1. row[r].ownership # "none" /\ InProgress(r)
        BY <3>1, Types DEF InProgress
      <4> QED BY <4>1 DEF TerminalInvariant, RowIsSound
    <3> QED BY <3>1, <3>2 DEF Relabelled, KeepsParties, InProgress, OutputKept
  <2> QED BY <2>1, <2>2
<1> QED BY <1>2, <1>3

\* A release goes on to its next await without a look at its row.
LEMMA ReleaseGoesOnKeeps ==
    ASSUME TerminalInvariant, NEW r \in Resources,
           release' \in [Resources -> Calls], ReleaseIsSound(r)',
           \A s \in Resources \ {r} : release'[s] = release[s],
           UNCHANGED <<row, archived, recovery, worker, attached, starts, stop, envVars>>
    PROVE  TerminalInvariant' /\ \A s \in Resources : OutputKept(s)
<1>1. Elapses
  BY NothingStarts DEF envVars
<1>2. \A s \in Resources : KeepsParties(s)
  BY <1>1, UnwrittenKeepsParties, ReleasingIsArchived
<1>3. TerminalTypeOK'
  BY DEF TerminalInvariant, TerminalTypeOK, envVars
<1>4. \A s \in Resources \ {r} : ReleaseIsSound(s)'
  BY <1>1, <1>2, RelabelKeepsReleases
<1> QED BY <1>1, <1>2, <1>3, <1>4, RelabelKeepsInvariant

\* What a release in flight knows of the dispatch it acts for.
LEMMA ActsForParty ==
    ASSUME TerminalInvariant, NEW r \in Resources, release[r].pc # "idle"
    PROVE  LET d == release[r].by
           IN  /\ d \in Dispatches /\ d \in Parties(r) /\ worker[d] \in SettledStates
               /\ row[r].ownership # "none"
               /\ attached[d] # Null => attached[d] = row[r].process
<1>1. /\ row[r].ownership # "none" /\ release[r].by \in Parties(r)
      /\ worker[release[r].by] \in SettledStates
  BY DEF TerminalInvariant, ReleaseIsSound
<1> QED BY <1>1, Types DEF TerminalInvariant, RowIsSound, Parties

\* The commit of the archive and the second look at the lease.
LEMMA CommitKeeps ==
    ASSUME TerminalInvariant, NEW r \in Resources, NEW exited \in BOOLEAN,
           release[r].pc # "idle", Commit(r, release[r].by, exited),
           attached[release[r].by] = row[r].process,
           exited => attached[release[r].by] \notin alive,
           UNCHANGED <<worker, attached, starts, stop, envVars>>
    PROVE  TerminalInvariant' /\ \A s \in Resources : OutputKept(s)
<1> DEFINE d == release[r].by
           commits == MayCommit(d, r)
<1>1. /\ d \in Dispatches /\ d \in Parties(r) /\ worker[d] \in SettledStates
      /\ row[r].ownership # "none"
  BY ActsForParty
<1>2. Elapses
  BY NothingStarts DEF envVars
<1>3. archived' = IF commits THEN archived \cup {d} ELSE archived
  BY DEF Commit
<1>4. archived \subseteq archived' /\ archived' \subseteq Dispatches
  BY <1>1, <1>3 DEF TerminalInvariant, TerminalTypeOK
<1>5. \/ /\ commits \/ row[r].release = "releasing"
         /\ LeaseIsCurrent(d, r)
         /\ row' = IF commits THEN [row EXCEPT ![r].release = "releasing"] ELSE row
         /\ release' = [release EXCEPT ![r].pc = "closing", ![r].exited = exited]
         /\ UNCHANGED recovery
      \/ row' \in {row, Reverted(r)} /\ Done(r)
  BY DEF Commit
<1> HIDE DEF d, commits
<1>6. CASE row' \in {row, Reverted(r)} /\ Done(r)
  <2>1. mishaps' \in 0 .. MaxMishaps
    BY DEF TerminalInvariant, TerminalTypeOK, envVars
  <2> QED BY <1>2, <1>4, <1>6, <2>1, GivingUpKeepsParties, ReleaseEndsKeeps DEF envVars
<1>7. CASE /\ commits \/ row[r].release = "releasing"
           /\ LeaseIsCurrent(d, r)
           /\ row' = IF commits THEN [row EXCEPT ![r].release = "releasing"] ELSE row
           /\ release' = [release EXCEPT ![r].pc = "closing", ![r].exited = exited]
           /\ UNCHANGED recovery
  <2>1. /\ row[r].ownership = "owned" /\ worker[row[r].owner] = "reported"
        /\ row[r].owner \in archived'
        /\ row[r].release \in {"requested", "releasing"}
    <3>1. row[r].release \in {"requested", "releasing"} /\ row[r].owner \in archived'
      BY <1>3, <1>4, <1>7, ReleasingIsArchived DEF MayCommit, commits
    <3>2. InProgress(r)
      BY <3>1 DEF InProgress
    <3> QED BY <1>1, <3>1, <3>2 DEF TerminalInvariant, RowIsSound
  <2>2. Relabelled(r, "owned", "releasing")
    <3>1. row \in [Resources -> Rows] /\ row[r] \in Rows
      BY DEF TerminalInvariant, TerminalTypeOK
    <3>2. CASE commits
      BY <1>7, <2>1, <3>1, <3>2 DEF Relabelled, Rows, ReleaseStates
    <3>3. CASE ~commits
      BY <1>7, <2>1, <3>1, <3>3 DEF Relabelled
    <3> QED BY <3>2, <3>3
  <2>3. ASSUME NEW s \in Resources PROVE KeepsParties(s)
    <3>1. CASE s # r
      BY <1>2, <1>4, <2>2, <3>1, UnwrittenKeepsParties, ReleasingIsArchived DEF Relabelled
    <3>2. CASE s = r
      BY <2>1, <2>2, <3>2 DEF Relabelled, KeepsParties, InProgress, OutputKept
    <3> QED BY <3>1, <3>2
  <2>4. /\ release' \in [Resources -> Calls]
        /\ release'[r].pc = "closing" /\ release'[r].by = d /\ release'[r].exited = exited
        /\ \A s \in Resources \ {r} : release'[s] = release[s]
    BY <1>7 DEF TerminalInvariant, TerminalTypeOK, Calls, d
  <2>5. TerminalTypeOK'
    <3>1. \A s \in Resources : row'[s].ownership # "none" => row'[s].owner # Null /\ row'[s].process # Null
      BY <2>3 DEF TerminalInvariant, TerminalTypeOK, KeepsParties
    <3>2. row' \in [Resources -> Rows]
      BY <2>2 DEF Relabelled
    <3> QED BY <1>4, <1>7, <2>4, <3>1, <3>2 DEF TerminalInvariant, TerminalTypeOK, envVars
  <2>6. ReleaseIsSound(r)'
    <3>1. Parties(r)' = Parties(r) /\ row'[r].process = row[r].process
          /\ row'[r].ownership = "owned" /\ row'[r].release = "releasing"
      BY <2>2 DEF Relabelled, Parties
    <3>2. Claims(row[r].process)' = {r}
      <4>1. Claims(row[r].process) = {r}
        BY <1>7 DEF LeaseIsCurrent, Conflict
      <4>2. \A s \in Resources : s \in Claims(row[r].process)' <=> s \in Claims(row[r].process)
        BY <2>1, <2>2 DEF Claims, Relabelled
      <4>3. Claims(row[r].process)' \subseteq Resources /\ Claims(row[r].process) \subseteq Resources
        BY DEF Claims
      <4> QED BY <4>1, <4>2, <4>3
    <3> QED BY <1>1, <2>4, <3>1, <3>2 DEF ReleaseIsSound, envVars, d
  <2>7. \A s \in Resources \ {r} : ReleaseIsSound(s)'
    BY <1>2, <2>2, <2>3, <2>4, RelabelKeepsReleases DEF Relabelled
  <2> QED BY <1>2, <1>7, <2>3, <2>5, <2>6, <2>7, RelabelKeepsInvariant
<1> QED BY <1>5, <1>6, <1>7

LEMMA ObserveKeeps ==
    ASSUME TerminalInvariant, NEW r \in Resources, Observe(r)
    PROVE  TerminalInvariant' /\ \A s \in Resources : OutputKept(s)
<1> DEFINE d == release[r].by
           q == attached[d]
<1>1. release[r].pc = "observing" /\ UNCHANGED <<worker, attached, starts, stop, envVars>>
  BY DEF Observe
<1>2. \/ row' = Reverted(r) /\ Done(r) /\ UNCHANGED archived
      \/ /\ Resolves(q)
         /\ release' = [release EXCEPT ![r].pc = "capturing", ![r].exited = q \notin alive]
         /\ UNCHANGED <<row, archived, recovery>>
      \/ Resolves(q) /\ Commit(r, d, q \notin alive)
      \/ To(r, "checking") /\ UNCHANGED <<row, archived>>
  BY DEF Observe
<1>3. /\ d \in Parties(r) /\ worker[d] \in SettledStates /\ row[r].ownership # "none"
      /\ Resolves(q) => q = row[r].process
  BY <1>1, ActsForParty DEF Resolves
<1> HIDE DEF d, q
<1>4. CASE row' = Reverted(r) /\ Done(r) /\ UNCHANGED archived
  <2>1. Elapses /\ mishaps' \in 0 .. MaxMishaps /\ archived' \subseteq Dispatches
    BY <1>1, <1>4, NothingStarts DEF TerminalInvariant, TerminalTypeOK, envVars
  <2> QED BY <1>1, <1>4, <2>1, GivingUpKeepsParties, ReleaseEndsKeeps DEF envVars
<1>5. CASE /\ Resolves(q)
           /\ release' = [release EXCEPT ![r].pc = "capturing", ![r].exited = q \notin alive]
           /\ UNCHANGED <<row, archived, recovery>>
  <2>1. /\ release' \in [Resources -> Calls]
        /\ release'[r].pc = "capturing" /\ release'[r].by = d
        /\ release'[r].exited => q \notin alive
        /\ \A s \in Resources \ {r} : release'[s] = release[s]
    BY <1>5 DEF TerminalInvariant, TerminalTypeOK, Calls, d
  <2>2. /\ attached'[d] = q /\ q = row'[r].process /\ alive' = alive
        /\ Parties(r)' = Parties(r) /\ worker'[d] = worker[d]
    BY <1>1, <1>3, <1>5 DEF Parties, envVars, q
  <2>3. ReleaseIsSound(r)'
    BY <1>3, <1>5, <2>1, <2>2 DEF ReleaseIsSound
  <2> QED BY <1>1, <1>5, <2>1, <2>3, ReleaseGoesOnKeeps
<1>6. CASE Resolves(q) /\ Commit(r, d, q \notin alive)
  BY <1>1, <1>3, <1>6, CommitKeeps DEF d, q
<1>7. CASE To(r, "checking") /\ UNCHANGED <<row, archived>>
  <2>1. /\ release' \in [Resources -> Calls]
        /\ release'[r].pc = "checking" /\ release'[r].by = d
        /\ \A s \in Resources \ {r} : release'[s] = release[s]
    BY <1>7 DEF TerminalInvariant, TerminalTypeOK, To, Calls, d
  <2>2. ReleaseIsSound(r)'
    BY <1>1, <1>3, <1>7, <2>1 DEF ReleaseIsSound, Parties
  <2> QED BY <1>1, <1>7, <2>1, <2>2, ReleaseGoesOnKeeps DEF To
<1> QED BY <1>2, <1>4, <1>5, <1>6, <1>7

LEMMA CheckAnswersKeeps ==
    ASSUME TerminalInvariant, NEW r \in Resources, NEW exited \in BOOLEAN, CheckAnswers(r, exited)
    PROVE  TerminalInvariant' /\ \A s \in Resources : OutputKept(s)
<1> DEFINE d == release[r].by
<1>1. /\ release[r].pc = "checking" /\ Done(r)
      /\ exited => row[r].process \notin alive
      /\ UNCHANGED <<worker, attached, archived, starts, stop, found, unlisted, current, alive, typed>>
      /\ \/ exited /\ MaySettleDead(d, r) /\ row' = SettledDead(r)
         \/ row' \in {row, Uncertain(r)}
  BY DEF CheckAnswers
<1>2. mishaps' \in 0 .. MaxMishaps
  BY TerminalAssumption DEF TerminalInvariant, TerminalTypeOK, CheckAnswers, Mishap
<1>3. Elapses /\ archived' \subseteq Dispatches /\ d \in Dispatches
  BY <1>1, NothingStarts, ActsForParty DEF TerminalInvariant, TerminalTypeOK
<1> HIDE DEF d
<1>4. CASE exited /\ MaySettleDead(d, r) /\ row' = SettledDead(r)
  <2>1. Relabelled(r, "released", "released")
    BY <1>4, SettledDeadRelabels DEF TerminalInvariant, TerminalTypeOK
  <2>2. KeepsParties(r)
    BY <1>1, <1>3, <1>4, <2>1, DeadMayBeReleased
  <2>3. \A s \in Resources \ {r} : KeepsParties(s)
    BY <1>1, <1>3, <2>1, UnwrittenKeepsParties, ReleasingIsArchived DEF Relabelled
  <2> QED BY <1>1, <1>2, <1>3, <2>1, <2>2, <2>3, ReleaseEndsKeeps DEF Relabelled
<1>5. CASE row' \in {row, Uncertain(r)}
  BY <1>1, <1>2, <1>3, <1>5, GivingUpKeepsParties, ReleaseEndsKeeps
<1> QED BY <1>1, <1>4, <1>5

LEMMA CaptureSettlesKeeps ==
    ASSUME TerminalInvariant, NEW r \in Resources, CaptureSettles(r)
    PROVE  TerminalInvariant' /\ \A s \in Resources : OutputKept(s)
<1>1. /\ release[r].pc = "capturing"
      /\ UNCHANGED <<worker, attached, starts, stop, found, unlisted, current, alive, typed>>
      /\ \/ Commit(r, release[r].by, release[r].exited) /\ UNCHANGED mishaps
         \/ Mishap /\ Done(r) /\ UNCHANGED <<row, archived>>
  BY DEF CaptureSettles
<1>2. CASE Commit(r, release[r].by, release[r].exited) /\ UNCHANGED mishaps
  <2>1. /\ attached[release[r].by] = row[r].process /\ release[r].exited \in BOOLEAN
        /\ release[r].exited => attached[release[r].by] \notin alive
    BY <1>1, Types DEF TerminalInvariant, ReleaseIsSound
  <2> QED BY <1>1, <1>2, <2>1, CommitKeeps DEF envVars
<1>3. CASE Mishap /\ Done(r) /\ UNCHANGED <<row, archived>>
  <2>1. mishaps' \in 0 .. MaxMishaps
    BY <1>3, TerminalAssumption DEF TerminalInvariant, TerminalTypeOK, Mishap
  <2>2. Elapses /\ archived' \subseteq Dispatches
    BY <1>1, <1>3, NothingStarts DEF TerminalInvariant, TerminalTypeOK
  <2> QED BY <1>1, <1>3, <2>1, <2>2, GivingUpKeepsParties, ReleaseEndsKeeps
<1> QED BY <1>1, <1>2, <1>3

LEMMA CloseAnswersKeeps ==
    ASSUME TerminalInvariant, NEW r \in Resources, CloseAnswers(r)
    PROVE  TerminalInvariant' /\ \A s \in Resources : OutputKept(s)
<1> DEFINE q == attached[release[r].by]
<1>1. /\ release[r].pc = "closing" /\ Done(r)
      /\ UNCHANGED <<worker, attached, archived, starts, stop, found, unlisted, current, typed>>
      /\ \/ row' = Settled(r) /\ alive' \subseteq alive /\ q \notin alive'
         \/ row' \in {row, Uncertain(r)} /\ alive' = alive
  <2>1. GoneAsObserved(r) /\ release[r].pc = "closing" => q \notin alive
    BY DEF TerminalInvariant, ReleaseIsSound, GoneAsObserved
  <2> QED BY <2>1 DEF CloseAnswers
<1>2. mishaps' \in 0 .. MaxMishaps
  BY TerminalAssumption DEF TerminalInvariant, TerminalTypeOK, CloseAnswers, Mishap
<1>3. Elapses /\ archived' \subseteq Dispatches
  BY <1>1, NothingStarts DEF TerminalInvariant, TerminalTypeOK
<1>4. q = row[r].process /\ row[r].ownership # "none"
  BY <1>1 DEF TerminalInvariant, ReleaseIsSound
<1> HIDE DEF q
<1>5. CASE row' \in {row, Uncertain(r)} /\ alive' = alive
  BY <1>1, <1>2, <1>3, <1>5, GivingUpKeepsParties, ReleaseEndsKeeps
<1>6. CASE row' = Settled(r) /\ ~InProgress(r)
  BY <1>1, <1>2, <1>3, <1>6, GivingUpKeepsParties, ReleaseEndsKeeps DEF Settled
<1>7. CASE row' = Settled(r) /\ InProgress(r) /\ q \notin alive'
  <2>1. Relabelled(r, "released", "released")
    BY <1>7, ReleasedRelabels DEF Settled, TerminalInvariant, TerminalTypeOK
  <2>2. row[r].ownership = "owned" /\ worker[row[r].owner] = "reported"
    BY <1>4, <1>7 DEF TerminalInvariant, RowIsSound
  <2>3. row[r].owner \in archived
    BY <1>1, <1>7, ReleasingIsArchived DEF TerminalInvariant, ReleaseIsSound, InProgress
  <2>4. KeepsParties(r)
    BY <1>1, <1>4, <1>7, <2>1, <2>2, <2>3 DEF Relabelled, KeepsParties, InProgress, OutputKept, SettledStates
  <2>5. \A s \in Resources \ {r} : KeepsParties(s)
    BY <1>1, <1>3, <2>1, UnwrittenKeepsParties, ReleasingIsArchived DEF Relabelled
  <2> QED BY <1>1, <1>2, <1>3, <2>1, <2>4, <2>5, ReleaseEndsKeeps DEF Relabelled
<1> QED BY <1>1, <1>5, <1>6, <1>7

-----------------------------------------------------------------------------
(* The theorems *)

LEMMA InitIsSound ==
    ASSUME Init
    PROVE  TerminalInvariant
<1> USE DEF Init
<1>1. NoRow \in Rows /\ Idle \in Calls /\ NoRecovery \in Passes
  BY DEF NoRow, Rows, Ownerships, ReleaseStates, Idle, Calls, NoRecovery, Passes
<1>2. \A r \in Resources : row[r] = NoRow /\ row[r].ownership = "none" /\ release[r].pc = "idle"
  BY DEF NoRow, Idle
<1>3. TerminalTypeOK
  BY <1>1, <1>2, TerminalAssumption DEF TerminalTypeOK, WorkerStates
<1>4. (\A r \in Resources : RowIsSound(r)) /\ OwnersAreUnique
  BY <1>2 DEF RowIsSound, OwnersAreUnique
<1>5. \A d \in Dispatches : WorkerIsSound(d) /\ StopIsSound(d)
  BY <1>2 DEF WorkerIsSound, StopIsSound, Active, ActiveStates, Resources
<1>6. PanesAreUnique
  BY DEF PanesAreUnique
<1>7. (\A r \in Resources : ReleaseIsSound(r)) /\ BacklogIsSound
  BY <1>2 DEF ReleaseIsSound, BacklogIsSound, NoRecovery
<1> QED BY <1>3, <1>4, <1>5, <1>6, <1>7 DEF TerminalInvariant

\* Every step keeps the inductive invariant, and none releases a terminal before its output.
LEMMA StepKeeps ==
    ASSUME TerminalInvariant, [Next]_vars
    PROVE  TerminalInvariant' /\ \A s \in Resources : OutputKept(s)
<1>1. CASE UNCHANGED vars
  <2>1. TerminalInvariant'
    BY <1>1 DEF vars, dbVars, memVars, envVars, TerminalInvariant, TerminalTypeOK, RowIsSound,
                OwnersAreUnique, WorkerIsSound, PanesAreUnique, ReleaseIsSound, BacklogIsSound,
                StopIsSound, Parties, InProgress, Active, OwnedBy, Claims
  <2>2. \A s \in Resources : OutputKept(s)
    BY <1>1 DEF vars, dbVars, OutputKept, InProgress
  <2> QED BY <2>1, <2>2
<1>2. CASE \E d \in Dispatches, p \in Panes : StartCreated(d, p) \/ StartReusing(d, p)
  BY <1>2, StartCreatedKeeps, StartReusingKeeps
<1>3. CASE \E d \in Dispatches :
             \/ AttachCreated(d) \/ FailStart(d) \/ StartUnknown(d) \/ Report(d)
             \/ Abandon(d) \/ ReconcileMissing(d)
  BY <1>3, AttachCreatedKeeps, FailStartKeeps, StartUnknownKeeps, ReportKeeps, AbandonKeeps,
     ReconcileMissingKeeps
<1>4. CASE \E d \in Dispatches :
             BeginStop(d) \/ StopObserves(d) \/ \E killed \in BOOLEAN : StopCloses(d, killed)
  BY <1>4, BeginStopKeeps, StopObservesKeeps, StopClosesKeeps
<1>5. CASE \E d \in Dispatches : RequestRelease(d) \/ ReleaseRetained(d) \/ Retain(d)
  BY <1>5, RequestReleaseKeeps, ReleaseRetainedKeeps, RetainKeeps
<1>6. CASE \E r \in Resources :
             \/ Observe(r) \/ \E exited \in BOOLEAN : CheckAnswers(r, exited)
             \/ CaptureSettles(r) \/ CloseAnswers(r)
  BY <1>6, ObserveKeeps, CheckAnswersKeeps, CaptureSettlesKeeps, CloseAnswersKeeps
<1>7. CASE (\E r \in Resources, d \in Dispatches : RecoverItem(r, d)) \/ EndPass \/ Restart
  BY <1>7, RecoverItemKeeps, EndPassKeeps, RestartKeeps
<1>8. CASE \E p \in Panes : UserInput(p) \/ OpenTerminal(p) \/ Spawn(p) \/ LoseContact(p) \/ Discover(p)
  BY <1>8, UserInputKeeps, OpenTerminalKeeps, SpawnKeeps, LoseContactKeeps, DiscoverKeeps
<1>9. CASE \E q \in Processes : ProcessExit(q)
  BY <1>9, ProcessExitKeeps
<1> QED BY <1>1, <1>2, <1>3, <1>4, <1>5, <1>6, <1>7, <1>8, <1>9 DEF Next

\* The invariant holds in every state: rows, workers, releases in flight, the backlog of recovery
\* and stops agree, whatever users, processes and restarts do in between.
THEOREM TerminalInvariantHolds == Spec => []TerminalInvariant
<1>1. Init => TerminalInvariant
  BY InitIsSound
<1>2. TerminalInvariant /\ [Next]_vars => TerminalInvariant'
  BY StepKeeps
<1> QED BY <1>1, <1>2, PTL DEF Spec

LEMMA InvariantClosesOnlyItsOwn ==
    ASSUME TerminalInvariant
    PROVE  ClosesOnlyItsOwn
<1>1. ASSUME NEW r \in Resources, release[r].pc = "closing", attached[release[r].by] \in alive
      PROVE  LET q == attached[release[r].by]
             IN  /\ row[r].ownership = "owned" /\ row[r].release = "releasing"
                 /\ row[r].process = q
                 /\ worker[row[r].owner] = "reported" /\ row[r].owner \in archived
                 /\ \A e \in Dispatches : attached[e] = q => ~Active(e)
  <2> DEFINE q == attached[release[r].by]
  <2>1. /\ row[r].ownership # "none" /\ q = row[r].process
        /\ row[r].release \in {"releasing", "released"}
        /\ row[r].release = "releasing" => Claims(row[r].process) = {r}
    BY <1>1 DEF TerminalInvariant, ReleaseIsSound
  <2>2. row[r].release = "releasing"
    BY <1>1, <2>1 DEF TerminalInvariant, RowIsSound
  <2>3. /\ row[r].ownership = "owned" /\ worker[row[r].owner] = "reported"
        /\ row[r].owner \in archived
    BY <2>1, <2>2 DEF TerminalInvariant, RowIsSound, InProgress
  \* An active worker of the process owns a row that claims it, which is this one.
  <2>4. ASSUME NEW e \in Dispatches, attached[e] = q, Active(e) PROVE FALSE
    <3>1. PICK s \in OwnedBy(e) : row[s].ownership # "released"
      BY <2>4 DEF TerminalInvariant, WorkerIsSound
    <3>2. s \in Resources /\ row[s].ownership # "none" /\ row[s].owner = e
      BY DEF OwnedBy
    <3>3. attached[e] \in {Null, row[s].process}
      BY <3>2 DEF TerminalInvariant, RowIsSound, Parties
    <3>4. q # Null
      BY <1>1, ProcessFacts, Types
    <3>5. s \in Claims(row[r].process)
      BY <2>1, <2>4, <3>1, <3>2, <3>3, <3>4 DEF Claims
    <3>6. worker[e] = "reported"
      BY <2>1, <2>2, <2>3, <3>2, <3>5
    <3> QED BY <2>4, <3>6 DEF Active, ActiveStates
  <2> QED BY <2>1, <2>2, <2>3, <2>4
<1>2. ASSUME NEW d \in Dispatches, stop[d] = "closing", attached[d] \in alive
      PROVE  /\ \E r \in OwnedBy(d) : row[r].ownership = "owned" /\ row[r].process = attached[d]
             /\ \A e \in Dispatches \ {d} : attached[e] = attached[d] => ~Active(e)
  <2>1. attached[d] # Null
    BY <1>2, ProcessFacts, Types
  <2>2. PICK r \in OwnedBy(d) : row[r].ownership = "owned" /\ worker[d] = "stopping"
    BY <1>2 DEF TerminalInvariant, StopIsSound
  <2>3. row[r].process = attached[d]
    BY <2>1, <2>2 DEF OwnedBy, TerminalInvariant, RowIsSound, Parties
  <2>4. ASSUME NEW e \in Dispatches \ {d}, attached[e] = attached[d], Active(e) PROVE FALSE
    BY <2>1, <2>2, <2>4 DEF TerminalInvariant, PanesAreUnique, Active, ActiveStates
  <2> QED BY <2>2, <2>3, <2>4
<1> QED BY <1>1, <1>2 DEF ClosesOnlyItsOwn

\* A close that is on its way to a running process closes what orchestration owns and no other
\* worker uses (worker-release-completion.ts:226, worker-stop.ts:170), for any number of workers,
\* panes, processes and restarts.
THEOREM TerminalClosesOnlyItsOwn == Spec => []ClosesOnlyItsOwn
BY TerminalInvariantHolds, InvariantClosesOnlyItsOwn, PTL

LEMMA InvariantReleasedIsGone ==
    ASSUME TerminalInvariant
    PROVE  ReleasedIsGone
<1> SUFFICES ASSUME NEW r \in Resources, row[r].release = "released"
             PROVE  row[r].process \notin alive
  BY DEF ReleasedIsGone
<1>1. row[r].ownership # "none"
  BY Types
<1> QED BY <1>1 DEF TerminalInvariant, RowIsSound

\* What is recorded as released has no process left.
THEOREM TerminalReleasedIsGone == Spec => []ReleasedIsGone
BY TerminalInvariantHolds, InvariantReleasedIsGone, PTL

\* A requested release ends as released only with the output of its owner kept
\* (worker-terminal-release.ts:129).
THEOREM TerminalOutputIsPreserved == Spec => OutputIsPreserved
<1>1. TerminalInvariant /\ [Next]_vars =>
        [\A r \in Resources :
           row'[r].release = "released" /\ InProgress(r) => row[r].owner \in archived']_vars
  BY StepKeeps DEF OutputKept
<1> QED BY <1>1, TerminalInvariantHolds, PTL DEF Spec, OutputIsPreserved

=============================================================================
