---------------------------- MODULE NamespaceProofs ---------------------------
(***************************************************************************)
(* Type correctness of Namespace, for every finite set of networks and all *)
(* bounds.                                                                 *)
(***************************************************************************)
EXTENDS NamespaceProperties, FiniteSetTheorems, SequenceTheorems, TLAPS

\* What the types rest on: the worker has a key in its hand while it is busy.
Busy == pc # "idle" => name \in Networks
Messages == [name : Networks, resource : Resources]
HistoryOK ==
    /\ created \in Uids /\ edits \in 0..MaxEdits /\ alone \in BOOLEAN /\ unforced \in BOOLEAN
UsersOK == nets \in [Networks -> Resources] /\ HistoryOK /\ restarted \subseteq Networks
InformerOK == watch \in Seq(Messages) /\ cache \in [Networks -> Resources]
QueueOK == queue \in Seq(Networks) /\ delayed \subseteq Networks
WorkerOK ==
    /\ pc \in {"idle", "handle", "clear", "prepare", "install", "submit", "save", "gone"}
    /\ name \in Networks \union {None} /\ copy \in Resources /\ draft \in States
SharedOK == dir \in [Networks -> Dirs] /\ secret \in Uids /\ release \in Releases
FailuresOK == workflows \subseteq Networks /\ crashes \in 0..MaxCrashes /\ faults \in 0..MaxFaults
Inv == UsersOK /\ InformerOK /\ QueueOK /\ WorkerOK /\ Busy /\ SharedOK /\ FailuresOK

LEMMA InvIsTyped == Inv => NamespaceOK
  BY DEF Inv, UsersOK, InformerOK, QueueOK, WorkerOK, SharedOK, FailuresOK, Messages, HistoryOK,
         NamespaceOK

LEMMA BoundTypes ==
    MaxCreations \in Nat /\ MaxEdits \in Nat /\ MaxCrashes \in Nat /\ MaxFaults \in Nat
  BY NamespaceAssumption

LEMMA AbsentType == Absent \in Resources /\ NoRelease \in Releases /\ 0 \in Uids
  BY NamespaceAssumption DEF Absent, Resources, States, Uids, NoRelease, Releases

LEMMA InitTyped == Init => Inv
  <1> SUFFICES ASSUME Init PROVE Inv
    OBVIOUS
  <1>0. <<>> \in Seq(Messages) /\ <<>> \in Seq(Networks)
    OBVIOUS
  <1>1. UsersOK /\ InformerOK
    <2>1. HistoryOK
      <3>1. created = 0 /\ edits = 0 /\ alone = TRUE /\ unforced = TRUE
        BY DEF Init
      <3>2. 0 \in 0..MaxEdits
        BY BoundTypes
      <3> QED
        BY <3>1, <3>2, AbsentType DEF HistoryOK
    <2>2. nets \in [Networks -> Resources] /\ cache \in [Networks -> Resources] /\ restarted = {}
      BY AbsentType DEF Init
    <2>3. watch = <<>>
      BY DEF Init
    <2> QED
      BY <1>0, <2>1, <2>2, <2>3 DEF InformerOK, UsersOK
  <1>2. QueueOK /\ WorkerOK /\ Busy
    <2>1. queue = <<>> /\ delayed = {}
      BY DEF Init
    <2>2. WorkerOK /\ Busy
      BY AbsentType DEF Init, WorkerOK, Busy, States
    <2> QED
      BY <1>0, <2>1, <2>2 DEF QueueOK
  <1>3. SharedOK /\ FailuresOK
    <2>1. SharedOK /\ workflows \subseteq Networks
      BY AbsentType DEF Init, SharedOK, Dirs
    <2>2. crashes = MaxCrashes /\ faults = MaxFaults
      BY DEF Init
    <2> QED
      BY <2>1, <2>2, NamespaceAssumption DEF FailuresOK
  <1> QED
    BY <1>1, <1>2, <1>3 DEF Inv

-----------------------------------------------------------------------------
\* The pieces the actions are made of.
LEMMA WrittenType ==
    ASSUME UsersOK, InformerOK, NEW n \in Networks, NEW r \in Resources, Written(n, r)
    PROVE  nets' \in [Networks -> Resources] /\ InformerOK'
  <1>1. [name |-> n, resource |-> r] \in Messages
    BY DEF Messages
  <1> QED
    BY <1>1, AppendProperties DEF Written, UsersOK, InformerOK

LEMMA QueuedType ==
    ASSUME NEW q \in Seq(Networks), NEW n \in Networks PROVE Queued(q, n) \in Seq(Networks)
  BY AppendProperties DEF Queued

LEMMA ReturnType ==
    ASSUME QueueOK, WorkerOK, Busy, pc # "idle", NEW retry, Return(retry), UNCHANGED queue
    PROVE  QueueOK' /\ WorkerOK' /\ Busy'
  BY AbsentType DEF Return, QueueOK, WorkerOK, Busy, States

LEMMA GotoType ==
    ASSUME QueueOK, WorkerOK, Busy, pc # "idle",
           NEW step \in {"handle", "clear", "prepare", "install", "submit", "gone"},
           Goto(step), UNCHANGED queue
    PROVE  QueueOK' /\ WorkerOK' /\ Busy'
  BY DEF Goto, QueueOK, WorkerOK, Busy

LEMMA SaveType ==
    ASSUME QueueOK, WorkerOK, Busy, pc # "idle", NEW state \in States, Save(state),
           UNCHANGED queue
    PROVE  QueueOK' /\ WorkerOK' /\ Busy'
  BY DEF Save, QueueOK, WorkerOK, Busy

LEMMA FaultType == FailuresOK /\ Fault => faults' \in 0..MaxFaults
  BY NamespaceAssumption DEF FailuresOK, Fault

LEMMA LosingType == \A d \in Dirs : LosingStored(d) \in Dirs
  BY DEF LosingStored, Dirs

LEMMA CertificatesType ==
    ASSUME SharedOK, WorkerOK, NEW complete \in Dirs, NewCertificates(complete)
    PROVE  SharedOK'
  <1>1. copy.uid \in Uids
    BY DEF WorkerOK, Resources
  <1>2. dir' \in [Networks -> Dirs]
    BY LosingType DEF SharedOK, NewCertificates
  <1>3. release' \in Releases
    BY DEF SharedOK, NewCertificates, Releases
  <1> QED
    BY <1>1, <1>2, <1>3 DEF SharedOK, NewCertificates

LEMMA WriteAndGotoType ==
    ASSUME Inv, pc # "idle", NEW r \in Resources, NEW step \in {"clear", "submit"},
           WriteAndGoto(r, step), UNCHANGED queue
    PROVE  /\ nets' \in [Networks -> Resources] /\ InformerOK'
           /\ QueueOK' /\ WorkerOK' /\ Busy' /\ faults' \in 0..MaxFaults
  <1> USE DEF Inv
  <1>1. name \in Networks
    BY DEF Busy
  <1>2. nets' \in [Networks -> Resources] /\ InformerOK'
    BY <1>1, WrittenType DEF WriteAndGoto, informer, UsersOK, InformerOK
  <1>3. CASE pc' = step /\ copy' = r /\ UNCHANGED <<name, draft, delayed, faults>>
    BY <1>1, <1>2, <1>3 DEF QueueOK, WorkerOK, Busy, FailuresOK
  <1>4. CASE Return(TRUE) /\ (UNCHANGED faults \/ Fault)
    BY <1>2, <1>4, ReturnType, FaultType DEF FailuresOK
  <1> QED
    BY <1>3, <1>4 DEF WriteAndGoto

LEMMA MoreType ==
    ASSUME SharedOK, WorkerOK, name \in Networks, MoreCertificates PROVE SharedOK'
  <1>1. CASE secret' = copy.uid /\ UNCHANGED <<dir, release>>
    BY <1>1 DEF SharedOK, WorkerOK, Resources
  <1>2. CASE NewCertificates("stored")
    BY <1>2, CertificatesType DEF Dirs
  <1> QED
    BY <1>1, <1>2 DEF MoreCertificates

LEMMA MadeType ==
    ASSUME SharedOK, name \in Networks
    PROVE  [owner |-> name, current |-> dir[name] = "stored"] \in Releases
  BY DEF Releases

-----------------------------------------------------------------------------
\* The steps.
LEMMA CreatedType ==
    ASSUME Inv, created < MaxCreations
    PROVE  /\ created + 1 \in Uids /\ created + 1 # 0
           /\ [Absent EXCEPT !.uid = created + 1, !.edited = TRUE] \in Resources
           /\ [Absent EXCEPT !.uid = created + 1, !.edited = TRUE].uid = created + 1
           /\ [Absent EXCEPT !.uid = created + 1, !.edited = TRUE].state = ""
           /\ [Absent EXCEPT !.uid = created + 1, !.edited = TRUE].force = ""
  <1>1. created \in 0..MaxCreations
    BY DEF Inv, UsersOK, HistoryOK, Uids
  <1>2. created + 1 \in 0..MaxCreations /\ created + 1 # 0
    BY <1>1, BoundTypes
  <1>3. Absent \in Resources /\ Absent.state = "" /\ Absent.force = ""
    BY AbsentType DEF Absent
  <1> QED
    BY <1>2, <1>3 DEF Uids, Resources

\* The version a user writes.
UpdatedBy(n, r) ==
    /\ r \in Resources /\ r.uid = nets[n].uid /\ r.state = nets[n].state
    /\ unforced' \in BOOLEAN /\ (unforced' => unforced /\ r.force = "")
    /\ Written(n, r)

LEMMA UpdateIs ==
    ASSUME Inv, NEW n \in Networks, Update(n)
    PROVE  \E r \in Resources : UpdatedBy(n, r)
  <1>1. edits' = edits + 1 /\ edits + 1 \in 0..MaxEdits
    <2>1. edits' = edits + 1 /\ edits < MaxEdits /\ edits \in 0..MaxEdits
      BY DEF Update, Inv, UsersOK, HistoryOK
    <2> QED
      BY <2>1, BoundTypes
  <1>2. PICK edited \in BOOLEAN, force \in ForcedStates \union {""} :
          /\ Written(n, [nets[n] EXCEPT !.spec = edits + 1, !.edited = edited, !.force = force])
          /\ unforced' = (unforced /\ force = "")
    BY DEF Update
  <1>3. force \in States
    BY NamespaceAssumption DEF States
  <1>4. PICK r : r = [nets[n] EXCEPT !.spec = edits + 1, !.edited = edited, !.force = force]
    OBVIOUS
  <1>5. nets[n] \in Resources
    BY DEF Inv, UsersOK
  <1>6. r \in Resources /\ r.uid = nets[n].uid /\ r.state = nets[n].state /\ r.force = force
    BY <1>1, <1>3, <1>4, <1>5 DEF Resources
  <1>7. unforced' \in BOOLEAN /\ (unforced' => unforced /\ force = "")
    BY <1>2, Zenon
  <1> QED
    BY <1>2, <1>4, <1>6, <1>7, Zenon DEF UpdatedBy

LEMMA UserType ==
    ASSUME Inv, NEW n \in Networks, Create(n) \/ Update(n) \/ Delete(n) PROVE Inv'
  <1> USE DEF Inv
  <1>1. UNCHANGED <<queue, delayed, worker, shared, workflows, crashes, faults>>
    BY DEF Create, Update, Delete
  <1>2. QueueOK' /\ WorkerOK' /\ Busy' /\ SharedOK' /\ FailuresOK'
    BY <1>1 DEF worker, shared, QueueOK, WorkerOK, Busy, SharedOK, FailuresOK
  <1>3. CASE Create(n)
    <2>1. created' = created + 1 /\ created < MaxCreations /\ UNCHANGED <<edits, unforced, restarted>>
      BY <1>3 DEF Create
    <2>2. alone' \in BOOLEAN
      <3>1. alone' = (alone /\ \A m \in Networks : ~Exists(m))
        BY <1>3 DEF Create
      <3> QED
        BY <3>1, Zenon
    <2>3. HistoryOK'
      BY <2>1, <2>2, CreatedType DEF HistoryOK, UsersOK
    <2> QED
      BY <1>2, <1>3, <2>1, <2>3, CreatedType, WrittenType DEF Create, UsersOK
  <1>4. CASE Update(n)
    <2>1. edits' \in 0..MaxEdits /\ UNCHANGED <<created, alone, restarted>>
      <3>1. edits' = edits + 1 /\ edits < MaxEdits /\ edits \in 0..MaxEdits
        BY <1>4 DEF Update, UsersOK, HistoryOK
      <3>2. edits' \in 0..MaxEdits
        BY <3>1, BoundTypes
      <3> QED
        BY <1>4, <3>2 DEF Update
    <2>2. PICK r \in Resources : UpdatedBy(n, r)
      BY <1>4, UpdateIs
    <2> QED
      BY <1>2, <2>1, <2>2, WrittenType DEF UpdatedBy, UsersOK, HistoryOK
  <1>5. CASE Delete(n)
    BY <1>2, <1>5, AbsentType, WrittenType DEF Delete, history, UsersOK, HistoryOK
  <1> QED
    BY <1>3, <1>4, <1>5

LEMMA DeliverType == Inv /\ (Deliver \/ Timers \/ CollectGarbage) => Inv'
  <1> SUFFICES ASSUME Inv, Deliver \/ Timers \/ CollectGarbage PROVE Inv'
    OBVIOUS
  <1> USE DEF Inv
  <1>1. UNCHANGED <<nets, history, restarted>>
    BY DEF Deliver, Timers, TimerFires, CollectGarbage, users
  <1>2. UsersOK'
    BY <1>1 DEF history, UsersOK, HistoryOK
  <1>3. CASE Deliver
    <2>1. Head(watch) \in Messages /\ Tail(watch) \in Seq(Messages)
      BY <1>3, HeadTailProperties DEF Deliver, InformerOK
    <2>2. Head(watch).name \in Networks /\ Head(watch).resource \in Resources
      BY <2>1 DEF Messages
    <2>3. InformerOK'
      BY <1>3, <2>1, <2>2 DEF Deliver, InformerOK
    <2>4. QueueOK'
      BY <1>3, <2>2, QueuedType DEF Deliver, QueueOK
    <2> QED
      BY <1>2, <1>3, <2>3, <2>4 DEF Deliver, worker, shared, WorkerOK, Busy, SharedOK, FailuresOK
  <1>4. CASE Timers
    <2>1. QueueOK'
      BY <1>4, QueuedType DEF Timers, TimerFires, QueueOK
    <2> QED
      BY <1>2, <1>4, <2>1 DEF Timers, TimerFires, informer, worker, shared, InformerOK,
                              WorkerOK, Busy, SharedOK, FailuresOK
  <1>5. CASE CollectGarbage
    <2>1. dir' \in [Networks -> Dirs]
      BY <1>5, LosingType DEF CollectGarbage, SharedOK
    <2>2. release' \in Releases
      BY <1>5 DEF CollectGarbage, SharedOK, Releases
    <2>3. SharedOK'
      BY <1>5, <2>1, <2>2, AbsentType DEF CollectGarbage, SharedOK
    <2> QED
      BY <1>2, <1>5, <2>3 DEF CollectGarbage, informer, worker, InformerOK, QueueOK,
                              WorkerOK, Busy, FailuresOK
  <1> QED
    BY <1>3, <1>4, <1>5

LEMMA BeginType == Inv /\ Begin => Inv'
  <1> SUFFICES ASSUME Inv, Begin PROVE Inv'
    OBVIOUS
  <1> USE DEF Inv
  <1>1. Head(queue) \in Networks /\ Tail(queue) \in Seq(Networks)
    BY HeadTailProperties DEF Begin, QueueOK
  <1>2. QueueOK' /\ WorkerOK' /\ Busy'
    BY <1>1 DEF Begin, QueueOK, WorkerOK, Busy, InformerOK
  <1> QED
    BY <1>2 DEF Begin, users, history, informer, shared, UsersOK, HistoryOK, InformerOK,
                SharedOK, FailuresOK

\* What the steps of the worker have in common that write no status.
Reads == HandleNone \/ HandleRejected \/ HandleInstalled \/ DeleteWorkflows \/ CallFails
Handles ==
    \/ Reads \/ Reconstruct \/ HandleRunning \/ Submit \/ ApplyEdit \/ Upgrade
    \/ Teardown \/ Prepare \/ Install \/ HandleGone

LEMMA HandlesFrame ==
    ASSUME Inv, Handles
    PROVE  /\ pc # "idle" /\ name \in Networks
           /\ UNCHANGED <<users, informer, queue, crashes>>
           /\ UNCHANGED faults \/ Fault
           /\ workflows' \subseteq workflows \union {name}
           /\ \/ \E retry \in BOOLEAN : Return(retry)
              \/ \E step \in {"handle", "prepare", "install", "gone"} : Goto(step)
              \/ \E state \in States : Save(state)
  <1>1. pc # "idle"
    BY DEF Handles, Reads, Reconstruct, Reconstructing, Unforced, HandleNone, HandleRejected,
           HandleInstalled, HandleRunning, Submit, ApplyEdit, Upgrade, Teardown, Prepare, Install,
           HandleGone, DeleteWorkflows, CallFails, Handling
  <1>2. UNCHANGED <<users, informer, queue, crashes>> /\ (UNCHANGED faults \/ Fault)
    BY Zenon DEF Handles, Reads, Reconstruct, HandleNone, HandleRejected, HandleInstalled,
           HandleRunning, Submit, ApplyEdit, Upgrade, Teardown, Prepare, Install, HandleGone,
           DeleteWorkflows, CallFails
  <1>3. workflows' \subseteq workflows \union {name}
    BY DEF Handles, Reads, Reconstruct, HandleNone, HandleRejected, HandleInstalled,
           HandleRunning, Submit, Submits, ApplyEdit, Upgrade, Teardown, Prepare, Install,
           HandleGone, DeleteWorkflows, CallFails
  <1>4. \/ \E retry \in BOOLEAN : Return(retry)
        \/ \E step \in {"handle", "prepare", "install", "gone"} : Goto(step)
        \/ \E state \in States : Save(state)
    BY DEF Handles, Reads, Reconstruct, HandleNone, HandleRejected, HandleInstalled,
           HandleRunning, Submit, ApplyEdit, Upgrade, Teardown, Prepare, Install, HandleGone,
           DeleteWorkflows, CallFails, States
  <1> QED
    BY <1>1, <1>2, <1>3, <1>4 DEF Inv, Busy

LEMMA HandleShared == Inv /\ Handles => SharedOK'
  <1> SUFFICES ASSUME Inv, Handles PROVE SharedOK'
    OBVIOUS
  <1>1. SharedOK /\ WorkerOK /\ name \in Networks
    BY HandlesFrame DEF Inv
  <1>2. CASE UNCHANGED shared
    BY <1>1, <1>2 DEF shared, SharedOK
  <1>3. CASE Reconstruct
    BY <1>1, <1>3 DEF Reconstruct, SharedOK, Dirs
  <1>4. CASE Teardown \/ HandleGone
    BY <1>1, <1>4, AbsentType DEF Teardown, HandleGone, Uninstalled, SharedOK
  <1>5. ASSUME NEW d \in Dirs, dir' = [dir EXCEPT ![name] = d], UNCHANGED <<secret, release>>
        PROVE  SharedOK'
    BY <1>1, <1>5 DEF SharedOK
  <1>6. "partial" \in Dirs /\ "other" \in Dirs /\ "stored" \in Dirs
    BY DEF Dirs
  <1>7. CASE Prepare
    BY <1>1, <1>5, <1>6, <1>7, CertificatesType DEF Prepare
  <1>8. CASE ApplyEdit
    BY <1>1, <1>2, <1>5, <1>6, <1>8, MoreType DEF ApplyEdit
  <1>9. CASE Install \/ Upgrade
    <2>1. \/ release' = [owner |-> name, current |-> dir[name] = "stored"]
          \/ UNCHANGED release
      BY <1>9 DEF Install, Upgrade
    <2>2. UNCHANGED <<secret, dir>>
      BY <1>9 DEF Install, Upgrade
    <2> QED
      BY <1>1, <2>1, <2>2, MadeType DEF SharedOK
  <1> QED
    BY <1>2, <1>3, <1>4, <1>7, <1>8, <1>9 DEF Handles, Reads, HandleNone, HandleRejected,
       HandleInstalled, HandleRunning, Submit, DeleteWorkflows, CallFails

LEMMA HandleType == Inv /\ Handles => Inv'
  <1> SUFFICES ASSUME Inv, Handles PROVE Inv'
    OBVIOUS
  <1> USE DEF Inv
  <1>1. /\ pc # "idle" /\ name \in Networks /\ UNCHANGED <<users, informer, queue, crashes>>
        /\ UNCHANGED faults \/ Fault
        /\ workflows' \subseteq workflows \union {name}
    BY HandlesFrame
  <1>2. UsersOK' /\ InformerOK'
    BY <1>1 DEF users, history, informer, UsersOK, HistoryOK, InformerOK
  <1>3. QueueOK' /\ WorkerOK' /\ Busy'
    BY <1>1, HandlesFrame, ReturnType, GotoType, SaveType
  <1>4. FailuresOK'
    BY <1>1, FaultType DEF FailuresOK
  <1> QED
    BY <1>2, <1>3, <1>4, HandleShared

\* The steps that write.
LEMMA RecordedIs ==
    ASSUME Inv
    PROVE  /\ Recorded \in Resources /\ Recorded.uid = copy.uid /\ Recorded.state = draft
           /\ Recorded.force = copy.force
  <1>1. copy \in Resources /\ draft \in States
    BY DEF Inv, WorkerOK
  <1>2. copy.edited \in BOOLEAN
    BY <1>1 DEF Resources
  <1> DEFINE edited == IF draft = "New" \/ copy.state = "Running" THEN FALSE ELSE copy.edited
  <1>3. edited \in BOOLEAN
    BY <1>2, Zenon
  <1>4. Recorded = [copy EXCEPT !.state = draft, !.edited = edited]
    BY DEF Recorded
  <1> HIDE DEF edited
  <1> QED
    BY <1>1, <1>3, <1>4 DEF Resources

\* The other versions the worker writes.
LEMMA WritesAre ==
    ASSUME Inv
    PROVE  /\ [copy EXCEPT !.state = copy.force] \in Resources
           /\ [copy EXCEPT !.force = ""] \in Resources
           /\ [copy EXCEPT !.state = "New", !.edited = FALSE] \in Resources
  BY DEF Inv, WorkerOK, Resources, States

LEMMA WriteType ==
    Inv /\ (HandleForced \/ ClearForce \/ HandleChartReady \/ SaveStatus) => Inv'
  <1> SUFFICES ASSUME Inv, HandleForced \/ ClearForce \/ HandleChartReady \/ SaveStatus PROVE Inv'
    OBVIOUS
  <1> USE DEF Inv
  <1>1. pc # "idle" /\ name \in Networks
    BY DEF HandleForced, ClearForce, HandleChartReady, SaveStatus, Handling, Unforced, Busy
  <1>2. UNCHANGED <<history, queue, shared, workflows, crashes>>
    BY DEF HandleForced, ClearForce, HandleChartReady, SaveStatus
  <1>3. restarted' \subseteq Networks
    BY <1>1 DEF HandleForced, ClearForce, HandleChartReady, SaveStatus, UsersOK
  <1>4. ASSUME nets' \in [Networks -> Resources], InformerOK',
               QueueOK', WorkerOK', Busy', faults' \in 0..MaxFaults
        PROVE  Inv'
    BY <1>2, <1>3, <1>4 DEF history, shared, UsersOK, HistoryOK, SharedOK, FailuresOK
  <1>5. CASE HandleForced
    BY <1>1, <1>2, <1>4, <1>5, WritesAre, WriteAndGotoType DEF HandleForced
  <1>6. CASE HandleChartReady
    BY <1>1, <1>2, <1>4, <1>6, WritesAre, WriteAndGotoType DEF HandleChartReady
  <1>7. ASSUME NEW r \in Resources, Written(name, r) \/ UNCHANGED <<nets, informer>>,
               NEW retry, Return(retry), UNCHANGED faults \/ Fault
        PROVE  Inv'
    <2>1. nets' \in [Networks -> Resources] /\ InformerOK'
      BY <1>1, <1>7, WrittenType DEF informer, UsersOK, InformerOK
    <2>2. QueueOK' /\ WorkerOK' /\ Busy'
      BY <1>1, <1>2, <1>7, ReturnType
    <2> QED
      BY <1>4, <1>7, <2>1, <2>2, FaultType DEF FailuresOK
  <1>8. CASE ClearForce
    BY <1>7, <1>8, WritesAre DEF ClearForce
  <1>9. CASE SaveStatus
    BY <1>7, <1>9, RecordedIs DEF SaveStatus
  <1> QED
    BY <1>5, <1>6, <1>8, <1>9

LEMMA CrashType == Inv /\ Crash => Inv'
  <1> SUFFICES ASSUME Inv, Crash PROVE Inv'
    OBVIOUS
  <1> USE DEF Inv
  <1> DEFINE Existing == { n \in Networks : Exists(n) }
  <1>1. Cardinality(Existing) \in Nat
    BY NamespaceAssumption, FS_Subset, FS_CardinalityType
  <1>2. queue' \in [1..Cardinality(Existing) -> Networks]
    BY DEF Crash
  <1>3. QueueOK'
    <2>1. queue' \in Seq(Networks)
      <3> HIDE DEF Existing
      <3> QED
        BY <1>1, <1>2, SeqDef
    <2>2. delayed' = {}
      BY DEF Crash
    <2> QED
      BY <2>1, <2>2 DEF QueueOK
  <1>4. WorkerOK' /\ Busy'
    BY AbsentType DEF Crash, WorkerOK, Busy, States
  <1>5. UsersOK' /\ InformerOK'
    <2>1. <<>> \in Seq(Messages)
      OBVIOUS
    <2> QED
      BY <2>1 DEF Crash, users, history, UsersOK, HistoryOK, InformerOK
  <1>6. SharedOK'
    BY DEF Crash, SharedOK, Dirs
  <1>7. FailuresOK'
    <2>1. /\ crashes > 0 /\ crashes' = crashes - 1 /\ UNCHANGED <<workflows, faults>>
          /\ crashes \in 0..MaxCrashes
      BY DEF Crash, FailuresOK
    <2>2. crashes' \in 0..MaxCrashes
      BY <2>1, BoundTypes
    <2> QED
      BY <2>1, <2>2 DEF FailuresOK
  <1> QED
    BY <1>3, <1>4, <1>5, <1>6, <1>7

LEMMA NextType == Inv /\ [Next]_vars => Inv'
  <1> SUFFICES ASSUME Inv, [Next]_vars PROVE Inv'
    OBVIOUS
  <1>1. CASE UNCHANGED vars
    BY <1>1 DEF vars, users, history, informer, worker, shared, Inv, UsersOK, HistoryOK,
                InformerOK, QueueOK, WorkerOK, Busy, SharedOK, FailuresOK
  <1> QED
    BY <1>1, UserType, DeliverType, BeginType, HandleType, WriteType, CrashType
       DEF Next, Worker, Handles, Reads

\* Networks in every version, the worker, the queue and what the networks share have
\* their types in every reachable state.
THEOREM NamespaceTypeCorrect == Spec => []NamespaceOK
  <1> QED
    BY InitTyped, NextType, InvIsTyped, PTL DEF Spec
=============================================================================
