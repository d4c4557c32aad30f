-------------------------- MODULE ReconcilerSafety --------------------------
(***************************************************************************)
(* The inductive invariant of the reconciler and the safety properties     *)
(* that follow from it, whatever the specs, the edits, the forced states   *)
(* and the number of crashes and faults; at the end, one workflow at a     *)
(* time, for a user who waits.                                             *)
(***************************************************************************)
EXTENDS ReconcilerTypes

-----------------------------------------------------------------------------
\* Tables: the edges the handlers take, and the states that track a workflow.

\* No forced state and no target of the Helm path tracks a workflow.
LEMMA Untracked ==
    ASSUME NEW state \in ForceStates \union {"", "Rejected", "Failed"}, NEW flow \in Flows
    PROVE  state # Submitted[flow]
  <1>1. flow = "channel" \/ flow = "chaincode" \/ flow = "peerOrg"
    BY DEF Flows
  <1>2. CASE flow = "channel"
    BY <1>2 DEF ForceStates, Submitted
  <1>3. CASE flow = "chaincode"
    BY <1>3 DEF ForceStates, Submitted
  <1>4. CASE flow = "peerOrg"
    BY <1>4 DEF ForceStates, Submitted
  <1> QED
    BY <1>1, <1>2, <1>3, <1>4

\* Each flow has a Submitted and a Completed state of its own.
LEMMA FlowTable ==
    /\ Submitted["channel"] = "ChannelFlowSubmitted"
    /\ Submitted["chaincode"] = "ChaincodeFlowSubmitted"
    /\ Submitted["peerOrg"] = "PeerOrgFlowSubmitted"
    /\ Completed["channel"] = "ChannelFlowCompleted"
    /\ Completed["chaincode"] = "ChaincodeFlowCompleted"
    /\ Completed["peerOrg"] = "PeerOrgFlowCompleted"
    /\ \A flow \in Flows : flow = "channel" \/ flow = "chaincode" \/ flow = "peerOrg"
  BY DEF Submitted, Completed, Flows

LEMMA DistinctFlows ==
    ASSUME NEW flow \in Flows, NEW other \in Flows
    PROVE  /\ Submitted[flow] = Submitted[other] => flow = other
           /\ Completed[flow] = Completed[other] => flow = other
           /\ Submitted[flow] # Completed[other]
  BY FlowTable

LEMMA FlowEdges ==
    ASSUME NEW flow \in Flows
    PROVE  /\ <<Submitted[flow], Completed[flow]>> \in Edges
           /\ <<Submitted[flow], "Failed">> \in Edges
  BY FlowTable DEF Edges

LEMMA SubmissionEdges ==
    /\ \A from \in {"HelmChartReady", "New"} :
        /\ <<from, Submitted["channel"]>> \in Edges
        /\ <<from, Submitted["peerOrg"]>> \in Edges
        /\ <<from, "Ready">> \in Edges
    /\ <<Completed["channel"], Submitted["chaincode"]>> \in Edges
    /\ <<Completed["peerOrg"], Submitted["channel"]>> \in Edges
    /\ <<"Ready", Submitted["channel"]>> \in Edges
    /\ <<"Ready", Submitted["chaincode"]>> \in Edges
  BY DEF Edges, Submitted, Completed

LEMMA PlainEdges ==
    { <<"", "New">>, <<"", "Rejected">>,
      <<"New", "HelmChartInstalled">>, <<"New", "HelmChartNeedsUpdate">>,
      <<"HelmChartNeedsUpdate", "HelmChartInstalled">>,
      <<"HelmChartNeedsDoubleUpdate", "HelmChartInstalled">>,
      <<"HelmChartInstalled", "HelmChartReady">>, <<"HelmChartReady", "New">>,
      <<"ChaincodeFlowCompleted", "Ready">>,
      <<"Ready", "HelmChartNeedsUpdate">>, <<"Ready", "HelmChartNeedsDoubleUpdate">> }
        \subseteq Edges
  BY DEF Edges

-----------------------------------------------------------------------------
\* What the building blocks of the handlers do to the invariant.

LEMMA BlankNormal == Normal(Blank.status)
  BY StoredUnset DEF Blank, FirstStatus, Normal

\* The worker stays with its copy or gives it up; nothing is written.
LEMMA CopiesKept ==
    ASSUME Copies, UNCHANGED <<resource, informer>>,
           \/ pc # "idle" /\ UNCHANGED <<net, fresh>>
           \/ net' = Blank /\ fresh' = FALSE
    PROVE  Copies'
  <1>1. /\ spec' = spec /\ status' = status /\ watch' = watch /\ cache' = cache
    BY DEF resource, informer
  <1>2. Normal(net'.status)
    BY BlankNormal DEF Copies, ObservedNormal
  <1> QED
    BY <1>1, <1>2 DEF Copies, CacheCatchesUp, CopyIsCurrent, ObservedNormal, Current, Normal

\* Appending adds one element, the last.
LEMMA Appended ==
    ASSUME NEW S, NEW seq \in Seq(S), NEW elt \in S
    PROVE  /\ Append(seq, elt) # <<>>
           /\ Append(seq, elt)[Len(Append(seq, elt))] = elt
           /\ \A i \in DOMAIN Append(seq, elt) :
                Append(seq, elt)[i] = elt \/ (i \in DOMAIN seq /\ Append(seq, elt)[i] = seq[i])
  <1> DEFINE longer == Append(seq, elt)
  <1>1. /\ longer \in Seq(S) /\ longer # <<>> /\ Len(longer) = Len(seq) + 1
        /\ \A i \in 1..Len(seq) : longer[i] = seq[i]
        /\ longer[Len(seq) + 1] = elt
    BY AppendProperties
  <1>2. /\ Len(seq) \in Nat /\ DOMAIN seq = 1..Len(seq)
        /\ DOMAIN longer = 1..Len(longer)
    BY <1>1, LenProperties
  <1> HIDE DEF longer
  <1>3. \A i \in 1..(Len(seq) + 1) : i \in 1..Len(seq) \/ i = Len(seq) + 1
    BY <1>2
  <1> QED
    BY <1>1, <1>2, <1>3 DEF longer

\* Taking the first element leaves the others, among them the last.
LEMMA Delivered ==
    ASSUME NEW S, NEW seq \in Seq(S), seq # <<>>
    PROVE  /\ IF Tail(seq) = <<>> THEN Head(seq) = seq[Len(seq)]
              ELSE Tail(seq)[Len(Tail(seq))] = seq[Len(seq)]
           /\ \E i \in DOMAIN seq : Head(seq) = seq[i]
           /\ \A i \in DOMAIN Tail(seq) : \E j \in DOMAIN seq : Tail(seq)[i] = seq[j]
  <1>1. /\ Head(seq) = seq[1] /\ Tail(seq) \in Seq(S) /\ Len(Tail(seq)) = Len(seq) - 1
        /\ \A i \in 1..Len(Tail(seq)) : Tail(seq)[i] = seq[i + 1]
    BY HeadTailProperties
  <1>2. /\ Len(seq) \in Nat /\ DOMAIN seq = 1..Len(seq)
        /\ DOMAIN Tail(seq) = 1..Len(Tail(seq))
    BY <1>1, LenProperties
  <1>3. Len(seq) # 0 /\ (Tail(seq) = <<>> <=> Len(Tail(seq)) = 0)
    BY <1>1, EmptySeq
  <1>4. CASE Len(seq) = 1
    BY <1>1, <1>2, <1>3, <1>4
  <1>5. CASE Len(seq) > 1
    BY <1>1, <1>2, <1>3, <1>5
  <1> QED
    BY <1>2, <1>3, <1>4, <1>5

LEMMA WatchGrows ==
    ASSUME watch \in Seq(Resources), NEW new \in Resources, watch' = Append(watch, new)
    PROVE  /\ watch' # <<>> /\ watch'[Len(watch')] = new
           /\ \A i \in DOMAIN watch' : watch'[i] = new \/ (i \in DOMAIN watch /\ watch'[i] = watch[i])
  <1>1. /\ Append(watch, new) # <<>> /\ Append(watch, new)[Len(Append(watch, new))] = new
        /\ \A i \in DOMAIN Append(watch, new) :
              Append(watch, new)[i] = new \/ (i \in DOMAIN watch /\ Append(watch, new)[i] = watch[i])
    BY Appended
  <1> QED
    BY <1>1

\* A write leaves only the writer's copy current, if any.
LEMMA CopiesWritten ==
    ASSUME ResourceOK, Copies,
           NEW s \in [desired : SpecsOrUnset, force : Forceable \union {""}],
           NEW t \in Statuses, Write(s, t), Normal(t), Normal(net'.status),
           fresh' => net' = [spec |-> s, status |-> t]
    PROVE  Copies'
  <1> DEFINE new == [spec |-> s, status |-> t]
  <1>1. new \in Resources
    BY DEF Resources
  <1>2. watch \in Seq(Resources)
    BY DEF ResourceOK
  <1>3. /\ spec' = s /\ status' = t /\ watch' = Append(watch, new) /\ cache' = cache
    BY DEF Write
  <1> HIDE DEF new
  <1>4. /\ watch' # <<>> /\ watch'[Len(watch')] = new
        /\ \A i \in DOMAIN watch' : watch'[i] = new \/ (i \in DOMAIN watch /\ watch'[i] = watch[i])
    BY <1>1, <1>2, <1>3, WatchGrows
  <1>5. CacheCatchesUp'
    BY <1>3, <1>4 DEF CacheCatchesUp, Current, new
  <1>6. CopyIsCurrent'
    BY <1>3 DEF CopyIsCurrent, Current, new
  <1>7. \A i \in DOMAIN watch' : Normal(watch'[i].status)
    <2>1. new.status = t
      BY DEF new
    <2>2. \A i \in DOMAIN watch : Normal(watch[i].status)
      BY DEF Copies, ObservedNormal
    <2> QED
      BY <1>4, <2>1, <2>2
  <1>8. ObservedNormal'
    BY <1>3, <1>7 DEF Copies, ObservedNormal, Normal
  <1> QED
    BY <1>5, <1>6, <1>8 DEF Copies

\* A worker that has returned intends nothing.
LEMMA ReturnIntends == ASSUME NEW requeue, Return(requeue) PROVE Intentions'
  BY DEF Return, Intentions, Whereabouts

\* A draft that leaves the switch must follow an edge, with its workflow.
LEMMA SaveIntends ==
    ASSUME NEW draft, NEW checked, NEW then \in {"idle", "nextFlow"},
           Save(draft, checked, then), net.spec.force = "",
           draft.observed \in {net.status.observed, net.spec.desired},
           <<net.status.state, draft.state>> \in Edges,
           then = "nextFlow" => draft.state = "New",
           Tracks(draft)',
           \A flow \in Flows :
              net.status.state = Submitted[flow] /\ draft.state = Completed[flow] =>
                  /\ net.status.workflow \in Names
                  /\ workflows'[net.status.workflow].phase = "Succeeded"
    PROVE  Intentions'
  <1>1. pc' = "save" /\ net' = net /\ pending' = [status |-> draft, checked |-> checked, then |-> then]
    BY DEF Save
  <1>2. DraftLegal'
    BY <1>1 DEF DraftLegal, Tracks
  <1> QED
    BY <1>1, <1>2 DEF Intentions, Whereabouts

\* Most drafts track no workflow and complete none.
LEMMA PlainSaveIntends ==
    ASSUME WorkerOK, NEW state \in States, NEW draft, NEW checked,
           NEW then \in {"idle", "nextFlow"},
           Save(draft, checked, then), net.spec.force = "", draft.state = state,
           draft.observed \in {net.status.observed, net.spec.desired},
           <<net.status.state, state>> \in Edges,
           then = "nextFlow" => state = "New",
           \A flow \in Flows : state # Submitted[flow] /\ state # Completed[flow]
    PROVE  Intentions'
  <1>1. Tracks(draft)'
    BY DEF Tracks
  <1> QED
    BY <1>1, SaveIntends

LEMMA Untouched ==
    \A state \in { "", "New", "Ready", "Rejected", "Failed", "HelmChartInstalled",
                   "HelmChartNeedsUpdate", "HelmChartNeedsDoubleUpdate", "HelmChartReady" } :
        /\ state \in States
        /\ \A flow \in Flows : state # Submitted[flow] /\ state # Completed[flow]
  <1>1. ASSUME NEW flow \in Flows
        PROVE  /\ Submitted[flow] \in { "ChannelFlowSubmitted", "ChaincodeFlowSubmitted",
                                       "PeerOrgFlowSubmitted" }
               /\ Completed[flow] \in { "ChannelFlowCompleted", "ChaincodeFlowCompleted",
                                       "PeerOrgFlowCompleted" }
    BY FlowTable
  <1> QED
    BY <1>1 DEF States

\* A submitted workflow is tracked under a name no version of the resource uses.
LEMMA StartFlowConsistent ==
    ASSUME TypeOK, Consistent, pc # "idle", net.spec.force = "",
           NEW flow \in Flows, NEW values, NEW include, NEW draft \in Statuses,
           StartFlow(flow, values, include, draft), UNCHANGED <<resource, informer>>,
           draft.observed \in {net.status.observed, net.spec.desired},
           <<net.status.state, Submitted[flow]>> \in Edges
    PROVE  Consistent'
  <1>0. status' = status /\ workflows \in [Names -> Workflows]
    BY DEF resource, TypeOK, ClusterOK
  <1>1. CASE Return(TRUE) /\ workflows' = workflows
    <2>1. Copies'
      BY <1>1, CopiesKept DEF Consistent, Return
    <2> QED
      BY <1>0, <1>1, <2>1, ReturnIntends DEF Consistent, Tracks
  <1>2. ASSUME NEW n \in Names, NewName(n),
               workflows' = [workflows EXCEPT ![n] =
                    [flow |-> flow, values |-> values.values,
                     chaincode |-> net.spec.desired.chaincode, include |-> include,
                     phase |-> "Running"]],
               Save(Tracking(draft, flow, n), FALSE, "idle") \/ Return(TRUE)
        PROVE  Consistent'
    <2>1. n # status.workflow
      BY <1>2 DEF NewName, Unused
    <2>2. Tracks(status)'
      BY <1>0, <1>2, <2>1 DEF Consistent, Tracks
    <2>3. Copies'
      BY <1>2, CopiesKept DEF Consistent, Return, Save
    <2>4. CASE Return(TRUE)
      BY <2>2, <2>3, <2>4, ReturnIntends DEF Consistent
    <2>5. CASE Save(Tracking(draft, flow, n), FALSE, "idle")
      <3> DEFINE to == Tracking(draft, flow, n)
      <3>1. to.state = Submitted[flow] /\ to.workflow = n /\ to.observed = draft.observed
        BY DEF Tracking, Statuses
      <3>2. workflows'[n].flow = flow
        BY <1>0, <1>2
      <3> HIDE DEF to
      <3>3. Tracks(to)'
        BY <3>1, <3>2, DistinctFlows DEF Tracks
      <3>4. \A other \in Flows : to.state # Completed[other]
        BY <3>1, DistinctFlows
      <3>5. Intentions'
        BY <2>5, <3>1, <3>3, <3>4, SaveIntends DEF to
      <3> QED
        BY <2>2, <2>3, <3>5 DEF Consistent
    <2> QED
      BY <1>2, <2>4, <2>5
  <1> QED
    BY <1>1, <1>2 DEF StartFlow

\* A step of the worker that writes nothing to the server or to Argo.
LEMMA WorkerMoves ==
    ASSUME Consistent, pc # "idle", UNCHANGED <<resource, informer, workflows>>, Intentions',
           \/ UNCHANGED <<net, fresh>>
           \/ net' = Blank /\ fresh' = FALSE
    PROVE  Consistent'
  <1>1. Copies'
    BY CopiesKept DEF Consistent
  <1>2. Tracks(status)'
    BY DEF Consistent, Tracks, resource
  <1> QED
    BY <1>1, <1>2 DEF Consistent

LEMMA WorkerReturns ==
    ASSUME Consistent, pc # "idle", UNCHANGED <<resource, informer, workflows>>,
           NEW requeue, Return(requeue)
    PROVE  Consistent'
  BY WorkerMoves, ReturnIntends DEF Return

LEMMA WorkerGoes ==
    ASSUME Consistent, pc # "idle", UNCHANGED <<resource, informer, workflows>>,
           NEW label, Goto(label), label # "save", Whereabouts'
    PROVE  Consistent'
  <1>1. Intentions'
    BY DEF Goto, Intentions
  <1> QED
    BY <1>1, WorkerMoves DEF Goto

\* The worker is about to save one of the states that track no workflow.
LEMMA WorkerSaves ==
    ASSUME TypeOK, Consistent, pc # "idle", UNCHANGED <<resource, informer, workflows>>,
           NEW state \in { "New", "Ready", "Rejected", "Failed", "HelmChartInstalled",
                           "HelmChartNeedsUpdate", "HelmChartNeedsDoubleUpdate",
                           "HelmChartReady" },
           NEW draft, NEW checked, NEW then \in {"idle", "nextFlow"},
           Save(draft, checked, then), net.spec.force = "", draft.state = state,
           draft.observed \in {net.status.observed, net.spec.desired},
           <<net.status.state, state>> \in Edges,
           then = "nextFlow" => state = "New"
    PROVE  Consistent'
  <1>1. /\ state \in States
        /\ \A flow \in Flows : state # Submitted[flow] /\ state # Completed[flow]
    BY Untouched
  <1>2. Intentions'
    BY <1>1, PlainSaveIntends DEF TypeOK
  <1> QED
    BY <1>2, WorkerMoves DEF Save

LEMMA WithFields ==
    ASSUME TypeOK, NEW state, NEW workflow
    PROVE  /\ With(state, workflow).state = state
           /\ With(state, workflow).observed = net.status.observed
           /\ Observing(With(state, workflow)).state = state
           /\ Observing(With(state, workflow)).observed = net.spec.desired
  BY DEF TypeOK, WorkerOK, Resources, Statuses, With, Observing

-----------------------------------------------------------------------------
\* The invariant is inductive.

LEMMA ConsistentInit == Init => Consistent
  <1> SUFFICES ASSUME Init PROVE Consistent
    OBVIOUS
  <1>1. /\ watch = <<>> /\ cache = Current /\ pc = "idle" /\ net = Blank
        /\ status = FirstStatus
    BY DEF Init, Current
  <1>2. Normal(FirstStatus)
    BY BlankNormal DEF Blank
  <1>3. Copies
    BY <1>1, <1>2, BlankNormal
       DEF Copies, CacheCatchesUp, CopyIsCurrent, ObservedNormal, Current
  <1>4. Tracks(status)
    <2>1. \A flow \in Flows : "" # Submitted[flow]
      BY Untracked
    <2> QED
      BY <1>1, <2>1 DEF Tracks, FirstStatus
  <1> QED
    BY <1>1, <1>3, <1>4 DEF Consistent, Intentions, Whereabouts

LEMMA ConsistentPlatform ==
    ASSUME TypeOK, Consistent, Deliver \/ TimerFires \/ Resync \/ Crash \/ Begin
    PROVE  Consistent'
  <1>1. CASE Deliver
    <2>1. /\ watch # <<>> /\ cache' = Head(watch) /\ watch' = Tail(watch)
          /\ UNCHANGED <<spec, status, pc, net, fresh, pending, workflows>>
      BY <1>1 DEF Deliver, resource, worker, cluster
    <2>2. CacheCatchesUp' /\ Normal(cache'.status)
            /\ \A i \in DOMAIN watch' : Normal(watch'[i].status)
      <3>1. watch \in Seq(Resources)
        BY DEF TypeOK, ResourceOK
      <3>2. /\ IF Tail(watch) = <<>> THEN Head(watch) = watch[Len(watch)]
               ELSE Tail(watch)[Len(Tail(watch))] = watch[Len(watch)]
            /\ \E i \in DOMAIN watch : Head(watch) = watch[i]
            /\ \A i \in DOMAIN Tail(watch) : \E j \in DOMAIN watch : Tail(watch)[i] = watch[j]
        BY <2>1, <3>1, Delivered
      <3>3. \A i \in DOMAIN watch : Normal(watch[i].status)
        BY DEF Consistent, Copies, ObservedNormal
      <3>4. watch[Len(watch)] = Current /\ Current' = Current
        BY <2>1 DEF Consistent, Copies, CacheCatchesUp, Current
      <3> QED
        BY <2>1, <3>2, <3>3, <3>4 DEF CacheCatchesUp
    <2>3. Copies'
      BY <2>1, <2>2 DEF Consistent, Copies, CopyIsCurrent, ObservedNormal, Current, Normal
    <2> QED
      BY <2>1, <2>3 DEF Consistent, Intentions, Whereabouts, DraftLegal, Tracks
  <1>2. CASE TimerFires \/ Resync
    <2>1. UNCHANGED <<spec, status, watch, cache, pc, net, fresh, pending, workflows>>
      BY <1>2 DEF TimerFires, Resync, resource, informer, worker, cluster
    <2> QED
      BY <2>1 DEF Consistent, Copies, CacheCatchesUp, CopyIsCurrent, ObservedNormal, Normal,
                  Current, Intentions, Whereabouts, DraftLegal, Tracks
  <1>3. CASE Crash
    <2>1. /\ watch' = <<>> /\ cache' = Current /\ pc' = "idle" /\ net' = Blank
          /\ UNCHANGED <<spec, status, workflows>>
      BY <1>3 DEF Crash, Current, resource, cluster
    <2>2. Normal(status) /\ Normal(Blank.status) /\ Current.status = status
      BY BlankNormal DEF Consistent, Copies, ObservedNormal, Current
    <2>3. Copies'
      BY <2>1, <2>2
         DEF Copies, CacheCatchesUp, CopyIsCurrent, ObservedNormal, Current, Normal
    <2> QED
      BY <2>1, <2>3 DEF Consistent, Intentions, Whereabouts, Tracks
  <1>4. CASE Begin
    <2>1. /\ pc' = "handle" /\ net' = cache /\ fresh' = (watch = <<>>)
          /\ UNCHANGED <<spec, status, watch, cache, workflows>>
      BY <1>4 DEF Begin, resource, informer, cluster
    <2>2. Copies'
      BY <2>1 DEF Consistent, Copies, CacheCatchesUp, CopyIsCurrent, ObservedNormal, Current,
                  Normal
    <2> QED
      BY <2>1, <2>2 DEF Consistent, Intentions, Whereabouts, Tracks
  <1> QED
    BY <1>1, <1>2, <1>3, <1>4

LEMMA ConsistentEnvironment ==
    ASSUME TypeOK, Consistent, Environment PROVE Consistent'
  <1>1. CASE PodsRestarting \/ PodsReady \/ ServicesListed
    <2>1. UNCHANGED <<spec, status, watch, cache, pc, net, fresh, pending, workflows>>
      BY <1>1 DEF PodsRestarting, PodsReady, ServicesListed, resource, informer, worker
    <2> QED
      BY <2>1 DEF Consistent, Copies, CacheCatchesUp, CopyIsCurrent, ObservedNormal, Normal,
                  Current, Intentions, Whereabouts, DraftLegal, Tracks
  <1>2. ASSUME NEW n \in Names, WorkflowEnds(n) PROVE Consistent'
    <2>1. UNCHANGED <<spec, status, watch, cache, pc, net, fresh, pending>>
      BY <1>2 DEF WorkflowEnds, resource, informer, worker
    <2>2. PICK phase \in Outcomes : workflows' = [workflows EXCEPT ![n].phase = phase]
      BY <1>2 DEF WorkflowEnds
    <2>3. workflows \in [Names -> Workflows] /\ workflows[n].phase = "Running"
      BY <1>2 DEF TypeOK, ClusterOK, WorkflowEnds
    <2>4. \A m \in Names :
            /\ workflows'[m].flow = workflows[m].flow
            /\ workflows[m].phase = "Absent" => workflows'[m].phase = "Absent"
            /\ workflows[m].phase = "Succeeded" => workflows'[m].phase = "Succeeded"
      BY <2>2, <2>3 DEF Workflows
    <2>5. \A st : Tracks(st) => Tracks(st)'
      <3>1. \A m \in Names : workflows'[m].phase # "Absent" => workflows[m].phase # "Absent"
        BY <2>4
      <3> QED
        BY <2>4, <3>1 DEF Tracks
    <2>6. Tracks(status)' /\ (Tracks(pending.status) => Tracks(pending.status)')
      BY <2>1, <2>5 DEF Consistent, Tracks
    <2>7. Copies'
      BY <2>1 DEF Consistent, Copies, CacheCatchesUp, CopyIsCurrent, ObservedNormal, Normal,
                  Current
    <2>8. Whereabouts'
      BY <2>1 DEF Consistent, Intentions, Whereabouts
    <2>9. ASSUME DraftLegal PROVE DraftLegal'
      <3>1. \A m : workflows[m].phase = "Succeeded" /\ m \in Names =>
                        workflows'[m].phase = "Succeeded"
        BY <2>4
      <3> QED
        BY <2>1, <2>6, <2>9, <3>1 DEF DraftLegal
    <2> QED
      BY <2>1, <2>6, <2>7, <2>8, <2>9 DEF Consistent, Intentions
  <1>3. ASSUME NEW s \in [desired : SpecsOrUnset, force : Forceable \union {""}], UserWrites(s)
        PROVE  Consistent'
    <2>1. /\ Write(s, status) /\ ~fresh'
          /\ UNCHANGED <<pc, net, pending, workflows>>
      BY <1>3 DEF UserWrites, cluster
    <2>2. Copies'
      BY <2>1, CopiesWritten DEF TypeOK, ResourceOK, Consistent, Copies, ObservedNormal
    <2> QED
      BY <2>1, <2>2 DEF Write, Consistent, Intentions, Whereabouts, DraftLegal, Tracks
  <1>4. CASE UserEdits
    BY <1>3, <1>4 DEF UserEdits, TypeOK, ResourceOK, SpecsOrUnset
  <1>5. CASE UserForces
    BY <1>3, <1>5 DEF UserForces, TypeOK, ResourceOK
  <1> QED
    BY <1>1, <1>2, <1>4, <1>5 DEF Environment

\* The writes of the worker: a save, and the clearing of a forced state.
LEMMA ConsistentSave == ASSUME TypeOK, Consistent, SaveStatus PROVE Consistent'
  <1> DEFINE saved == [pending.status EXCEPT !.observed = Stored(pending.status.observed)]
  <1>1. pc = "save" /\ DraftLegal /\ UNCHANGED workflows
    BY DEF SaveStatus, Consistent, Intentions, cluster
  <1>2. saved \in Statuses /\ saved.state = pending.status.state
            /\ saved.workflow = pending.status.workflow
            /\ saved.observed = Stored(pending.status.observed)
    BY StoredSpecs DEF TypeOK, WorkerOK, Statuses
  <1>3. Normal(saved)
    BY <1>2, StoredTwice DEF Normal
  <1> HIDE DEF saved
  <1>4. Tracks(saved)
    <2>1. CASE net.spec.force = ""
      BY <1>1, <1>2, <2>1 DEF DraftLegal, Tracks
    <2>2. CASE net.spec.force # ""
      <3>1. saved.state \in ForceStates
        BY <1>1, <1>2, <2>2, ReconcilerAssumption DEF DraftLegal, TypeOK, WorkerOK, Resources
      <3> QED
        BY <3>1, Untracked DEF Tracks
    <2> QED
      BY <2>1, <2>2
  <1>5. CASE Return(pending.checked) /\ UNCHANGED <<resource, informer>>
    BY <1>1, <1>5, WorkerReturns
  <1>6. CASE fresh /\ Write(spec, saved) /\ (Continue(saved) \/ Return(pending.checked))
    <2>1. net = Current
      BY <1>1, <1>6 DEF Consistent, Copies, CopyIsCurrent
    <2>2. spec' = spec /\ status' = saved /\ spec = net.spec /\ net \in Resources
      BY <1>6, <2>1 DEF Write, Current, TypeOK, WorkerOK
    <2>3. Tracks(status)'
      BY <1>1, <1>4, <2>2 DEF Tracks
    <2>4. CASE Return(pending.checked)
      <3>1. net' = Blank /\ ~fresh'
        BY <2>4 DEF Return
      <3>2. Copies'
        BY <1>2, <1>3, <1>6, <3>1, BlankNormal, CopiesWritten DEF TypeOK, ResourceOK, Consistent
      <3> QED
        BY <2>3, <2>4, <3>2, ReturnIntends DEF Consistent
    <2>5. CASE pending.then # "idle" /\ Continue(saved)
      <3>1. /\ pc' = pending.then /\ net' = [net EXCEPT !.status = saved] /\ fresh' = fresh
        BY <2>5 DEF Continue
      <3>2. net' = [spec |-> spec, status |-> saved]
        BY <2>2, <3>1 DEF Resources
      <3>3. Copies'
        BY <1>2, <1>3, <1>6, <3>2, CopiesWritten DEF TypeOK, ResourceOK, Consistent
      <3>4. Intentions'
        <4>1. pending.then \in {"nextFlow", "clearForce"}
          BY <2>5 DEF TypeOK, WorkerOK
        <4>2. net'.spec.force = net.spec.force /\ net'.status.state = pending.status.state
          BY <1>2, <2>2, <3>2
        <4> QED
          BY <1>1, <3>1, <4>1, <4>2 DEF DraftLegal, Intentions, Whereabouts
      <3> QED
        BY <2>3, <3>3, <3>4 DEF Consistent
    <2>6. CASE pending.then = "idle" /\ Continue(saved)
      <3>1. net' = Blank /\ ~fresh' /\ Return(FALSE)
        BY <2>6 DEF Continue, Return
      <3>2. Copies'
        BY <1>2, <1>3, <1>6, <3>1, BlankNormal, CopiesWritten DEF TypeOK, ResourceOK, Consistent
      <3> QED
        BY <2>3, <3>1, <3>2, ReturnIntends DEF Consistent
    <2> QED
      BY <1>6, <2>4, <2>5, <2>6
  <1> QED
    BY <1>5, <1>6 DEF SaveStatus, Accepted, saved

LEMMA ConsistentClear == ASSUME TypeOK, Consistent, ClearForce PROVE Consistent'
  <1> DEFINE s == [desired |-> Stored(net.spec.desired), force |-> ""]
  <1>1. pc = "clearForce" /\ Return(TRUE) /\ UNCHANGED workflows
    BY DEF ClearForce, cluster
  <1>2. CASE UNCHANGED <<resource, informer>>
    BY <1>1, <1>2, WorkerReturns
  <1>3. CASE Write(s, status)
    <2>1. net' = Blank /\ ~fresh'
      BY <1>1 DEF Return
    <2>2. s \in [desired : SpecsOrUnset, force : Forceable \union {""}]
      BY StoredSpecs DEF TypeOK, WorkerOK, Resources
    <2>3. status \in Statuses /\ Normal(status)
      BY DEF TypeOK, ResourceOK, Consistent, Copies, ObservedNormal
    <2>4. Copies'
      BY <1>3, <2>1, <2>2, <2>3, BlankNormal, CopiesWritten DEF TypeOK, Consistent
    <2>5. Tracks(status)'
      BY <1>1, <1>3 DEF Write, Consistent, Tracks
    <2> QED
      BY <1>1, <2>4, <2>5, ReturnIntends DEF Consistent
  <1> QED
    BY <1>2, <1>3 DEF ClearForce

\* The steps of the handlers that neither write to the server nor submit a workflow.
LEMMA ConsistentHandlers ==
    ASSUME TypeOK, Consistent,
           \/ HandleForce \/ HandleNone \/ HandleTerminal \/ Reconstruct \/ CallFails
           \/ HandleHelmChartNeedsUpdate \/ HandleHelmChartNeedsDoubleUpdate \/ SecondUpdate
           \/ HandleHelmChartInstalled \/ HandleHelmChartReady \/ HandleChaincodeFlowCompleted
           \/ Prepare \/ Install
    PROVE  Consistent'
  <1>0. /\ UNCHANGED <<resource, informer, workflows>>
        /\ pc # "idle" /\ pc # "save" /\ pc # "clearForce"
    BY DEF HandleForce, HandleNone, HandleTerminal, Reconstruct, CallFails, Handling,
           HandleHelmChartNeedsUpdate, HandleHelmChartNeedsDoubleUpdate, SecondUpdate,
           HandleHelmChartInstalled, HandleHelmChartReady, HandleChaincodeFlowCompleted,
           Prepare, Install, cluster
  <1>r. ASSUME NEW requeue, Return(requeue) PROVE Consistent'
    BY <1>0, <1>r, WorkerReturns
  <1>w. \A state : /\ With(state, 0).state = state
                   /\ With(state, 0).observed = net.status.observed
                   /\ Observing(With(state, 0)).state = state
                   /\ Observing(With(state, 0)).observed = net.spec.desired
    BY WithFields
  <1>s. ASSUME NEW state \in { "New", "Ready", "Rejected", "Failed", "HelmChartInstalled",
                               "HelmChartNeedsUpdate", "HelmChartNeedsDoubleUpdate",
                               "HelmChartReady" },
               NEW draft, draft = With(state, 0) \/ draft = Observing(With(state, 0)),
               NEW checked, NEW then \in {"idle", "nextFlow"},
               Save(draft, checked, then), net.spec.force = "",
               <<net.status.state, state>> \in Edges, then = "nextFlow" => state = "New"
        PROVE  Consistent'
    <2>1. /\ draft.state = state
          /\ draft.observed \in {net.status.observed, net.spec.desired}
      BY <1>s, <1>w
    <2> QED
      BY <1>0, <1>s, <2>1, WorkerSaves
  <1>1. CASE HandleForce
    <2>1. Save(With(net.spec.force, 0), TRUE, "clearForce") /\ net.spec.force # ""
      BY <1>1 DEF HandleForce
    <2>2. /\ pc' = "save" /\ net' = net /\ fresh' = fresh /\ pending'.status = With(net.spec.force, 0)
          /\ pending'.then = "clearForce"
      BY <2>1 DEF Save
    <2>3. DraftLegal'
      BY <1>w, <2>1, <2>2 DEF DraftLegal
    <2>4. Intentions'
      BY <2>2, <2>3 DEF Intentions, Whereabouts
    <2> QED
      BY <1>0, <2>2, <2>4, WorkerMoves
  <1>2. CASE HandleNone
    <2>1. net.spec.force = "" /\ net.status.state = ""
      BY <1>2 DEF HandleNone, Handling
    <2>2. <<"", "New">> \in Edges /\ <<"", "Rejected">> \in Edges
      BY PlainEdges
    <2> QED
      BY <1>2, <1>s, <2>1, <2>2 DEF HandleNone
  <1>3. CASE HandleTerminal \/ CallFails
    BY <1>3, <1>r DEF HandleTerminal, CallFails
  <1>4. CASE Reconstruct
    <2>1. CASE Goto("handle")
      <3>1. Whereabouts'
        BY <2>1 DEF Goto, Whereabouts
      <3> QED
        BY <1>0, <2>1, <3>1, WorkerGoes
    <2> QED
      BY <1>4, <1>r, <2>1 DEF Reconstruct
  <1>5. CASE HandleHelmChartNeedsUpdate
    <2>1. net.spec.force = "" /\ net.status.state = "HelmChartNeedsUpdate"
      BY <1>5 DEF HandleHelmChartNeedsUpdate, Handling
    <2>2. <<"HelmChartNeedsUpdate", "HelmChartInstalled">> \in Edges
      BY PlainEdges
    <2> QED
      BY <1>5, <1>r, <1>s, <2>1, <2>2 DEF HandleHelmChartNeedsUpdate
  <1>6. CASE HandleHelmChartNeedsDoubleUpdate \/ SecondUpdate
    <2>1. net.spec.force = "" /\ net.status.state = "HelmChartNeedsDoubleUpdate"
      BY <1>6 DEF HandleHelmChartNeedsDoubleUpdate, Handling, SecondUpdate,
                  Consistent, Intentions, Whereabouts
    <2>2. <<"HelmChartNeedsDoubleUpdate", "HelmChartInstalled">> \in Edges
      BY PlainEdges
    <2>3. CASE Goto("secondUpdate")
      <3>1. Whereabouts'
        BY <2>1, <2>3 DEF Goto, Whereabouts
      <3> QED
        BY <1>0, <2>3, <3>1, WorkerGoes
    <2> QED
      BY <1>6, <1>r, <1>s, <2>1, <2>2, <2>3 DEF HandleHelmChartNeedsDoubleUpdate, SecondUpdate
  <1>7. CASE HandleHelmChartInstalled
    <2>1. net.spec.force = "" /\ net.status.state = "HelmChartInstalled"
      BY <1>7 DEF HandleHelmChartInstalled, Handling
    <2>2. <<"HelmChartInstalled", "HelmChartReady">> \in Edges
      BY PlainEdges
    <2> QED
      BY <1>7, <1>r, <1>s, <2>1, <2>2 DEF HandleHelmChartInstalled
  <1>8. CASE HandleHelmChartReady
    <2>1. net.spec.force = "" /\ net.status.state = "HelmChartReady"
      BY <1>8 DEF HandleHelmChartReady, Handling
    <2>2. <<"HelmChartReady", "New">> \in Edges
      BY PlainEdges
    <2>3. CASE Goto("nextFlow")
      <3>1. Whereabouts'
        BY <2>1, <2>3 DEF Goto, Whereabouts
      <3> QED
        BY <1>0, <2>3, <3>1, WorkerGoes
    <2> QED
      BY <1>8, <1>s, <2>1, <2>2, <2>3 DEF HandleHelmChartReady
  <1>9. CASE HandleChaincodeFlowCompleted
    <2>1. net.spec.force = "" /\ net.status.state = "ChaincodeFlowCompleted"
      BY <1>9 DEF HandleChaincodeFlowCompleted, Handling
    <2>2. <<"ChaincodeFlowCompleted", "Ready">> \in Edges
      BY PlainEdges
    <2> QED
      BY <1>9, <1>s, <2>1, <2>2 DEF HandleChaincodeFlowCompleted
  <1>10. CASE Prepare
    <2>1. CASE Goto("install")
      <3>1. Whereabouts'
        BY <1>10, <2>1 DEF Prepare, Goto, Consistent, Intentions, Whereabouts
      <3> QED
        BY <1>0, <2>1, <3>1, WorkerGoes
    <2> QED
      BY <1>10, <1>r, <2>1 DEF Prepare
  <1>11. CASE Install
    <2>1. net.spec.force = "" /\ net.status.state = "New"
      BY <1>11 DEF Install, Consistent, Intentions, Whereabouts
    <2>2. <<"New", "HelmChartInstalled">> \in Edges /\ <<"New", "HelmChartNeedsUpdate">> \in Edges
      BY PlainEdges
    <2> QED
      BY <1>11, <1>r, <1>s, <2>1, <2>2 DEF Install
  <1> QED
    BY <1>1, <1>2, <1>3, <1>4, <1>5, <1>6, <1>7, <1>8, <1>9, <1>10, <1>11

\* Deleting the workflows leaves the tracked one unknown, not someone else's.
LEMMA ConsistentTeardown == ASSUME TypeOK, Consistent, Teardown PROVE Consistent'
  <1>1. /\ pc = "handle" /\ net.spec.force = "" /\ net.status.state = "New"
        /\ Goto("prepare") /\ UNCHANGED <<resource, informer>>
        /\ \A n \in Names : workflows'[n] \in {workflows[n], NoWorkflow}
    BY DEF Teardown, Handling
  <1>2. Copies'
    BY <1>1, CopiesKept DEF Consistent, Goto
  <1>3. Intentions'
    BY <1>1 DEF Goto, Intentions, Whereabouts
  <1>4. Tracks(status)'
    <2>1. status' = status
      BY <1>1 DEF resource
    <2>2. \A n \in Names : workflows'[n].phase # "Absent" =>
            workflows[n].phase # "Absent" /\ workflows'[n].flow = workflows[n].flow
      <3>1. NoWorkflow.phase = "Absent"
        BY DEF NoWorkflow
      <3>2. TAKE n \in Names
      <3>3. CASE workflows'[n] = NoWorkflow
        BY <3>1, <3>3
      <3>4. CASE workflows'[n] = workflows[n]
        BY <3>4
      <3> QED
        BY <1>1, <3>3, <3>4
    <2> QED
      BY <2>1, <2>2 DEF Consistent, Tracks
  <1> QED
    BY <1>2, <1>3, <1>4 DEF Consistent

\* Polling a workflow: only one that has succeeded completes its flow.
LEMMA ConsistentPolling ==
    ASSUME TypeOK, Consistent, NEW flow \in Flows, HandleFlowSubmitted(flow) PROVE Consistent'
  <1>1. /\ pc = "handle" /\ net.spec.force = "" /\ net.status.state = Submitted[flow]
        /\ UNCHANGED <<resource, informer, workflows>>
    BY DEF HandleFlowSubmitted, Handling, cluster
  <1>2. /\ <<Submitted[flow], Completed[flow]>> \in Edges
        /\ <<Submitted[flow], "Failed">> \in Edges
    BY FlowEdges
  <1>3. \A state : /\ With(state, 0).state = state
                   /\ With(state, 0).observed = net.status.observed
    BY WithFields
  <1>4. CASE Return(TRUE)
    BY <1>1, <1>4, WorkerReturns
  <1>5. CASE Save(With("Failed", 0), FALSE, "idle")
    BY <1>1, <1>2, <1>3, <1>5, WorkerSaves
  <1>6. ASSUME net.status.workflow # 0,
               WorkflowStatus(workflows[net.status.workflow].phase) = "Completed",
               Save(With(Completed[flow], 0), FALSE, "idle")
        PROVE  Consistent'
    <2>1. workflows[net.status.workflow].phase = "Succeeded"
      BY <1>6 DEF WorkflowStatus
    <2>2. net.status.workflow \in Names
      BY <1>6 DEF TypeOK, WorkerOK, Resources, Statuses
    <2>3. PICK draft : draft = With(Completed[flow], 0)
      OBVIOUS
    <2>4. /\ Save(draft, FALSE, "idle") /\ draft.state = Completed[flow]
          /\ draft.observed = net.status.observed
      BY <1>3, <1>6, <2>3
    <2>5. Tracks(draft)'
      BY <2>4, DistinctFlows DEF Tracks
    <2>6. Intentions'
      BY <1>1, <1>2, <1>6, <2>1, <2>2, <2>4, <2>5, SaveIntends
    <2> QED
      BY <1>1, <1>6, <2>6, WorkerMoves DEF Save
  <1> QED
    BY <1>4, <1>5, <1>6 DEF HandleFlowSubmitted

\* Submitting the next flow, from HelmChartReady or after another flow.
LEMMA ConsistentFlows ==
    ASSUME TypeOK, Consistent,
           \/ NextFlow \/ HandleFlowCompleted("channel", "chaincode")
           \/ HandleFlowCompleted("peerOrg", "channel")
    PROVE  Consistent'
  <1>1. /\ UNCHANGED <<resource, informer>> /\ pc # "idle" /\ net.spec.force = ""
    BY DEF NextFlow, HandleFlowCompleted, Handling, Consistent, Intentions, Whereabouts
  <1>2. net.status \in Statuses
    BY DEF TypeOK, WorkerOK, Resources
  <1>3. ASSUME NEW flow \in Flows, StartFlow(flow, dir, {}, net.status),
               <<net.status.state, Submitted[flow]>> \in Edges
        PROVE  Consistent'
    BY <1>1, <1>2, <1>3, StartFlowConsistent
  <1>4. CASE NextFlow
    <2>1. net.status.state \in {"New", "HelmChartReady"}
      BY <1>4 DEF NextFlow, Consistent, Intentions, Whereabouts
    <2>2. CASE StartFlow("channel", dir, {}, net.status) \/ StartFlow("peerOrg", dir, {}, net.status)
      BY <1>3, <2>1, <2>2, SubmissionEdges DEF Flows
    <2>3. CASE /\ Save([With("Ready", 0) EXCEPT !.nextFlow = ""], FALSE, "idle")
               /\ UNCHANGED workflows
      <3> DEFINE draft == [With("Ready", 0) EXCEPT !.nextFlow = ""]
      <3>1. With("Ready", 0) \in Statuses
        BY WithType DEF TypeOK, States
      <3>2. draft.state = "Ready" /\ draft.observed = net.status.observed
        BY <3>1, WithFields DEF Statuses
      <3>3. <<net.status.state, "Ready">> \in Edges
        BY <2>1, SubmissionEdges
      <3> HIDE DEF draft
      <3>4. Save(draft, FALSE, "idle") /\ UNCHANGED workflows
        BY <2>3 DEF draft
      <3> QED
        BY <1>1, <3>2, <3>3, <3>4, WorkerSaves
    <2> QED
      BY <1>4, <2>2, <2>3 DEF NextFlow
  <1>5. CASE HandleFlowCompleted("channel", "chaincode")
    <2>1. /\ net.status.state = Completed["channel"]
          /\ StartFlow("chaincode", dir, {}, net.status)
      BY <1>5 DEF HandleFlowCompleted, Handling
    <2> QED
      BY <1>3, <2>1, SubmissionEdges DEF Flows
  <1>6. CASE HandleFlowCompleted("peerOrg", "channel")
    <2>1. /\ net.status.state = Completed["peerOrg"]
          /\ StartFlow("channel", dir, {}, net.status)
      BY <1>6 DEF HandleFlowCompleted, Handling
    <2> QED
      BY <1>3, <2>1, SubmissionEdges DEF Flows
  <1> QED
    BY <1>4, <1>5, <1>6

LEMMA ConsistentReady == ASSUME TypeOK, Consistent, HandleReady PROVE Consistent'
  <1> DEFINE c == Changes
  <1>1. /\ pc = "handle" /\ net.spec.force = "" /\ net.status.state = "Ready"
        /\ UNCHANGED <<resource, informer>>
    BY DEF HandleReady, Handling
  <1>2. Observing(net.status) \in Statuses /\ Observing(net.status).observed = net.spec.desired
    <2>1. net.status \in Statuses
      BY DEF TypeOK, WorkerOK, Resources
    <2> QED
      BY <2>1, ObservingType DEF TypeOK, Observing, Statuses
  <1>3. CASE \E requeue \in BOOLEAN : Return(requeue) /\ UNCHANGED workflows
    BY <1>1, <1>3, WorkerReturns
  <1>4. ASSUME NEW flow \in {"channel", "chaincode"}, NEW values, NEW include,
               StartFlow(flow, values, include, Observing(net.status))
        PROVE  Consistent'
    <2>1. <<"Ready", Submitted[flow]>> \in Edges /\ flow \in Flows
      BY SubmissionEdges DEF Flows
    <2> QED
      BY <1>1, <1>2, <1>4, <2>1, StartFlowConsistent
  <1>5. ASSUME NEW p \in HelmPath(c), UNCHANGED workflows,
               Save([Observing(With(p[1], 0)) EXCEPT !.nextFlow = p[2]], TRUE, "idle")
        PROVE  Consistent'
    <2> DEFINE draft == [Observing(With(p[1], 0)) EXCEPT !.nextFlow = p[2]]
    <2>1. p[1] \in {"HelmChartNeedsUpdate", "HelmChartNeedsDoubleUpdate"}
      <3>1. c.peerOrgs \in BOOLEAN /\ c.ordererOrgs \in BOOLEAN
        BY DEF Changes, GetChanges
      <3> HIDE DEF c
      <3> QED
        BY <3>1, HelmPathStates
    <2>2. <<net.status.state, p[1]>> \in Edges
      BY <1>1, <2>1, PlainEdges
    <2>3. draft.state = p[1] /\ draft.observed = net.spec.desired
      <3>1. Observing(With(p[1], 0)) \in Statuses
        BY <2>1, WithType, ObservingType DEF TypeOK, States
      <3> QED
        BY <3>1, WithFields DEF Statuses
    <2> HIDE DEF draft
    <2>4. Save(draft, TRUE, "idle")
      BY <1>5 DEF draft
    <2> QED
      BY <1>1, <1>5, <2>1, <2>2, <2>3, <2>4, WorkerSaves
  <1> QED
    BY <1>3, <1>4, <1>5 DEF HandleReady

\* The inductive invariant, for every network, edit, fault and crash.
THEOREM ConsistentAlways == Spec => []Consistent
  <1>1. TypeOK /\ Consistent /\ [Next]_vars => Consistent'
    <2> SUFFICES ASSUME TypeOK, Consistent, [Next]_vars PROVE Consistent'
      OBVIOUS
    <2>1. CASE Worker
      BY <2>1, ConsistentPlatform, ConsistentHandlers, ConsistentTeardown, ConsistentPolling,
         ConsistentFlows, ConsistentReady, ConsistentSave, ConsistentClear DEF Worker, Handle
    <2>2. CASE Environment
      BY <2>2, ConsistentEnvironment
    <2>3. CASE Deliver \/ TimerFires \/ Resync \/ Crash
      BY <2>3, ConsistentPlatform
    <2>4. CASE UNCHANGED vars
      BY <2>4 DEF vars, resource, informer, worker, cluster, Consistent, Copies, CacheCatchesUp,
                  CopyIsCurrent, ObservedNormal, Normal, Current, Intentions, Whereabouts,
                  DraftLegal, Tracks
    <2> QED
      BY <2>1, <2>2, <2>3, <2>4 DEF Next
  <1> QED
    BY <1>1, ConsistentInit, TypeCorrect, PTL DEF Spec

-----------------------------------------------------------------------------
\* What follows from the invariant.

\* Whatever the worker or the cluster does, only four steps write the resource.
LEMMA Writers ==
    ASSUME Next PROVE SaveStatus \/ ClearForce \/ UserEdits \/ UserForces \/ UNCHANGED resource
  <1>1. CASE Worker
    BY <1>1 DEF Worker, Begin, Reconstruct, CallFails, Teardown, Prepare, Install, SecondUpdate,
                NextFlow, Handle, HandleForce, HandleNone, HandleTerminal,
                HandleHelmChartNeedsUpdate, HandleHelmChartNeedsDoubleUpdate,
                HandleHelmChartInstalled, HandleHelmChartReady, HandleFlowSubmitted,
                HandleFlowCompleted, HandleChaincodeFlowCompleted, HandleReady
  <1>2. CASE Environment
    BY <1>2 DEF Environment, PodsRestarting, PodsReady, ServicesListed, WorkflowEnds
  <1>3. CASE Deliver \/ TimerFires \/ Resync \/ Crash
    BY <1>3 DEF Deliver, TimerFires, Resync, Crash
  <1> QED
    BY <1>1, <1>2, <1>3 DEF Next

\* A save that reaches the server is made of a draft of the current resource.
LEMMA SavedDraft ==
    ASSUME TypeOK, Consistent, SaveStatus, ~UNCHANGED resource
    PROVE  /\ DraftLegal /\ net.spec = spec /\ net.status = status /\ spec' = spec
           /\ status'.state = pending.status.state
           /\ status'.observed = Stored(pending.status.observed)
  <1>1. pc = "save" /\ fresh
        /\ Write(spec, [pending.status EXCEPT !.observed = Stored(pending.status.observed)])
    BY DEF SaveStatus, Accepted
  <1>2. net = Current
    BY <1>1 DEF Consistent, Copies, CopyIsCurrent
  <1>3. pending.status \in Statuses
    BY DEF TypeOK, WorkerOK
  <1> QED
    BY <1>1, <1>2, <1>3 DEF Consistent, Intentions, Write, Current, Statuses

\* So is the clearing of a forced state.
LEMMA ClearedForce ==
    ASSUME Consistent, ClearForce, ~UNCHANGED resource
    PROVE  /\ net.spec = spec /\ net.status = status /\ status' = status
           /\ spec'.desired = Stored(spec.desired) /\ spec'.force = ""
           /\ spec.force # "" /\ status.state = spec.force
  <1>1. pc = "clearForce" /\ fresh
        /\ Write([desired |-> Stored(net.spec.desired), force |-> ""], status)
    BY DEF ClearForce, Accepted, resource
  <1>2. net = Current
    BY <1>1 DEF Consistent, Copies, CopyIsCurrent
  <1> QED
    BY <1>1, <1>2 DEF Consistent, Intentions, Whereabouts, Write, Current

\* A user's write leaves the worker with its copy, at a version no longer current.
LEMMA UserWriteIs ==
    ASSUME UserEdits \/ UserForces, ResourceOK
    PROVE  \E s \in [desired : SpecsOrUnset, force : Forceable \union {""}] :
            /\ Write(s, status) /\ fresh' = FALSE /\ UNCHANGED <<pc, net, pending>>
            /\ UserEdits \/ (s.force # spec.force /\ s.desired = spec.desired)
  <1>1. CASE UserEdits
    <2>1. PICK d \in Specs, state \in Forceable \union {""} :
            UserWrites([desired |-> d, force |-> state])
      BY <1>1 DEF UserEdits
    <2>2. [desired |-> d, force |-> state]
            \in [desired : SpecsOrUnset, force : Forceable \union {""}]
      BY DEF SpecsOrUnset
    <2> QED
      BY <1>1, <2>1, <2>2 DEF UserWrites
  <1>2. CASE UserForces
    <2>1. PICK state \in Forceable \union {""} :
            state # spec.force /\ UserWrites([spec EXCEPT !.force = state])
      BY <1>2 DEF UserForces
    <2>2. /\ [spec EXCEPT !.force = state] \in [desired : SpecsOrUnset, force : Forceable \union {""}]
          /\ [spec EXCEPT !.force = state].force = state
          /\ [spec EXCEPT !.force = state].desired = spec.desired
      BY DEF ResourceOK
    <2> QED
      BY <2>1, <2>2 DEF UserWrites
  <1> QED
    BY <1>1, <1>2

\* A user's write spends one of the edits left.
LEMMA SpendsEdit == ASSUME BudgetsOK, edits' = edits PROVE \A s : ~UserWrites(s)
  <1>1. edits \in Int
    BY BoundsAreNaturals DEF BudgetsOK
  <1> QED
    BY <1>1 DEF UserWrites

\* A Submitted state always names a workflow of its own flow, or a deleted one,
\* whatever is resubmitted after crashes, conflicts and lost replies.
THEOREM TrackedWorkflowAlways == Spec => []TrackedWorkflow
  <1>1. Consistent => TrackedWorkflow
    BY DEF Consistent, TrackedWorkflow
  <1> QED
    BY <1>1, ConsistentAlways, PTL

\* No flow is declared completed on the result of another workflow, nor on a
\* stale reading of the tracked one.
THEOREM CompletedFlowRanAlways == Spec => CompletedFlowRan
  <1> DEFINE A == \A flow \in Flows :
                    status.state = Submitted[flow] /\ status'.state = Completed[flow]
                        /\ spec.force = ""
                    => workflows[status.workflow].phase = "Succeeded"
  <1>1. TypeOK /\ Consistent /\ [Next]_vars => [A]_vars
    <2> SUFFICES ASSUME TypeOK, Consistent, Next,
                        NEW flow \in Flows, status.state = Submitted[flow],
                        status'.state = Completed[flow], spec.force = ""
                 PROVE  workflows[status.workflow].phase = "Succeeded"
      BY DEF A
    <2>1. ~UNCHANGED resource
      BY DistinctFlows DEF resource
    <2>2. SaveStatus
      <3>1. ~ClearForce /\ ~UserEdits /\ ~UserForces
        BY <2>1, ClearedForce, DistinctFlows DEF UserEdits, UserForces, UserWrites, Write
      <3> QED
        BY <2>1, <3>1, Writers
    <2> QED
      BY <2>1, <2>2, SavedDraft DEF DraftLegal
  <1> QED
    BY <1>1, TypeCorrect, ConsistentAlways, PTL DEF Spec, CompletedFlowRan, A

\* An edit made while an older spec is being applied is never recorded as applied.
THEOREM AppliedIsDesiredAlways == Spec => AppliedIsDesired
  <1> DEFINE A == status'.observed # status.observed => status'.observed = Stored(spec.desired)
  <1>1. TypeOK /\ Consistent /\ [Next]_vars => [A]_vars
    <2> SUFFICES ASSUME TypeOK, Consistent, Next, status'.observed # status.observed
                 PROVE  status'.observed = Stored(spec.desired)
      BY DEF A
    <2>1. ~UNCHANGED resource
      BY DEF resource
    <2>2. SaveStatus
      <3>1. ~ClearForce /\ ~UserEdits /\ ~UserForces
        BY <2>1, ClearedForce DEF UserEdits, UserForces, UserWrites, Write
      <3> QED
        BY <2>1, <3>1, Writers
    <2>3. Normal(status)
      BY DEF Consistent, Copies, ObservedNormal
    <2> QED
      BY <2>1, <2>2, <2>3, SavedDraft DEF DraftLegal, Normal
  <1> QED
    BY <1>1, TypeCorrect, ConsistentAlways, PTL DEF Spec, AppliedIsDesired, A

\* The operator rewrites the spec to clear a forced state, and loses no edit by it.
THEOREM OperatorKeepsEditsAlways == Spec => OperatorKeepsEdits
  <1> DEFINE A == edits' = edits => Stored(spec'.desired) = Stored(spec.desired)
  <1>1. TypeOK /\ Consistent /\ [Next]_vars => [A]_vars
    <2> SUFFICES ASSUME TypeOK, Consistent, Next, edits' = edits
                 PROVE  Stored(spec'.desired) = Stored(spec.desired)
      BY DEF A
    <2>1. ~UserEdits /\ ~UserForces
      BY SpendsEdit DEF UserEdits, UserForces, TypeOK
    <2>2. CASE UNCHANGED resource
      BY <2>2 DEF resource
    <2>3. CASE ~UNCHANGED resource
      <3>1. CASE SaveStatus
        BY <2>3, <3>1, SavedDraft
      <3>2. CASE ClearForce
        <4>1. spec'.desired = Stored(spec.desired)
          BY <2>3, <3>2, ClearedForce
        <4>2. Stored(Stored(spec.desired)) = Stored(spec.desired)
          BY StoredTwice
        <4> QED
          BY <4>1, <4>2
      <3> QED
        BY <2>1, <2>3, <3>1, <3>2, Writers
    <2> QED
      BY <2>2, <2>3
  <1> QED
    BY <1>1, TypeCorrect, ConsistentAlways, PTL DEF Spec, OperatorKeepsEdits, A

\* Only the user spends edits.
LEMMA WhoWrites ==
    ASSUME Next PROVE UserEdits \/ UserForces \/ UNCHANGED edits
  <1>1. Worker => UNCHANGED edits
    BY DEF Worker, Begin, Reconstruct, CallFails, Teardown, Prepare, Install, SecondUpdate,
           NextFlow, Handle, HandleForce, HandleNone, HandleTerminal,
           HandleHelmChartNeedsUpdate, HandleHelmChartNeedsDoubleUpdate,
           HandleHelmChartInstalled, HandleHelmChartReady, HandleFlowSubmitted,
           HandleFlowCompleted, HandleChaincodeFlowCompleted, HandleReady, SaveStatus,
           ClearForce, budgets
  <1>2. Environment => UserEdits \/ UserForces \/ UNCHANGED edits
    BY DEF Environment, PodsRestarting, PodsReady, ServicesListed, WorkflowEnds, budgets
  <1>3. Deliver \/ TimerFires \/ Resync \/ Crash => UNCHANGED edits
    BY DEF Deliver, TimerFires, Resync, Crash, budgets
  <1> QED
    BY <1>1, <1>2, <1>3 DEF Next

\* The reconciler, with all it runs between, implements the life cycle it
\* promises: the operator enters a requested state before it forgets the request,
\* whatever the user does with it meanwhile, and otherwise the state moves along
\* the edges, one at a time.
THEOREM LifecycleImplemented == Spec => LifecyclePromise
  <1>1. Init => Promise!Init
    <2> SUFFICES ASSUME Init PROVE Promise!Init
      OBVIOUS
    <2>1. PICK d \in Initial : status = FirstStatus /\ spec = [desired |-> d, force |-> ""]
      BY DEF Init
    <2>2. status.state = ""
      BY <2>1 DEF FirstStatus
    <2>3. spec.force = ""
      BY <2>1
    <2> QED
      BY <2>2, <2>3 DEF Promise!Init
  <1>2. TypeOK /\ Consistent /\ [Next]_vars => [Promise!Next]_Promise!vars
    <2> SUFFICES ASSUME TypeOK, Consistent, Next
                 PROVE  Promise!Next \/ UNCHANGED Promise!vars
      BY DEF vars, resource, budgets, Promise!vars
    <2>1. CASE UserEdits \/ UserForces
      <3>1. edits' # edits
        BY <2>1, SpendsEdit DEF TypeOK, UserEdits, UserForces
      <3>2. spec'.force \in Forceable \union {""} /\ status' = status
        BY <2>1, UserWriteIs DEF TypeOK, Write
      <3> QED
        BY <3>1, <3>2, ReconcilerAssumption DEF Promise!Next, Promise!Ask
    <2>2. ASSUME ~UserEdits, ~UserForces PROVE edits' = edits
      BY <2>2, WhoWrites
    <2>3. CASE UNCHANGED resource
      BY <2>1, <2>2, <2>3 DEF resource, Promise!vars
    <2>4. CASE SaveStatus /\ ~UNCHANGED resource /\ ~UserEdits /\ ~UserForces
      <3>1. /\ DraftLegal /\ net.spec = spec /\ net.status = status /\ spec' = spec
            /\ status'.state = pending.status.state
        BY <2>4, SavedDraft
      <3>2. CASE spec.force = ""
        BY <2>2, <2>4, <3>1, <3>2 DEF DraftLegal, Promise!Next, Promise!Advance
      <3>3. CASE spec.force # ""
        BY <2>2, <2>4, <3>1, <3>3 DEF DraftLegal, Promise!Next, Promise!Jump
      <3> QED
        BY <3>2, <3>3
    <2>5. CASE ClearForce /\ ~UNCHANGED resource /\ ~UserEdits /\ ~UserForces
      <3>1. /\ spec.force # "" /\ status.state = spec.force
            /\ spec'.force = "" /\ status'.state = status.state
        BY <2>5, ClearedForce
      <3> QED
        BY <2>2, <2>5, <3>1 DEF Promise!Next, Promise!Clear
    <2> QED
      BY <2>1, <2>3, <2>4, <2>5, Writers
  <1> QED
    BY <1>1, <1>2, TypeCorrect, ConsistentAlways, PTL DEF Spec, LifecyclePromise, Promise!Spec

-----------------------------------------------------------------------------
\* A chart without certificates is never deployed.

\* As long as no call has failed, a release and its directory are complete, or
\* the directory is lost; and between two steps of a deployment nothing is missing.
ChartsComplete ==
    NeverFailed =>
        /\ release.installed =>
            release.certificates /\ secret /\ dir.stage \in {"absent", "complete"}
        /\ pc = "prepare" => ~release.installed
        /\ pc = "install" => ~release.installed /\ secret /\ dir.stage = "complete"
        /\ pc = "secondUpdate" => release.installed /\ dir.stage = "complete"

\* A failing call spends one of the faults left, and they never come back.
LEMMA SpendsFault == ASSUME BudgetsOK, Fault PROVE ~NeverFailed'
  <1>1. faults \in Int /\ MaxFaults \in Int /\ faults <= MaxFaults
    BY BoundsAreNaturals DEF BudgetsOK
  <1> QED
    BY <1>1 DEF Fault, NeverFailed

LEMMA StillNeverFailed ==
    ASSUME BudgetsOK, faults' = faults \/ Fault, NeverFailed' PROVE NeverFailed /\ ~Fault
  BY SpendsFault DEF NeverFailed

\* The steps that leave release and directory alone.
LEMMA ChartsElsewhere ==
    ASSUME BudgetsOK, ChartsComplete, faults' = faults \/ Fault, UNCHANGED <<secret, dir>>,
           release'.installed = release.installed,
           release'.certificates = release.certificates,
           pc' = pc \/ pc' \notin {"prepare", "install", "secondUpdate"}
    PROVE  ChartsComplete'
  BY StillNeverFailed DEF ChartsComplete

\* The steps after which the worker is in the midst of no deployment.
LEMMA ChartsAfter ==
    ASSUME BudgetsOK, ChartsComplete, faults' = faults \/ Fault,
           NeverFailed /\ NeverFailed' /\ release'.installed =>
                release'.certificates /\ secret' /\ dir'.stage \in {"absent", "complete"},
           pc' \notin {"prepare", "install", "secondUpdate"}
    PROVE  ChartsComplete'
  BY StillNeverFailed DEF ChartsComplete

LEMMA ChartsStart == Init => ChartsComplete
  <1>1. NoRelease.installed = FALSE
    BY DEF NoRelease
  <1> QED
    BY <1>1 DEF Init, ChartsComplete

LEMMA ChartsPlatform ==
    ASSUME TypeOK, ChartsComplete,
           Deliver \/ TimerFires \/ Resync \/ Crash \/ Begin \/ Environment
    PROVE  ChartsComplete'
  <1>0. BudgetsOK
    BY DEF TypeOK
  <1>1. CASE Deliver \/ TimerFires \/ Resync \/ Begin
    <2>1. UNCHANGED <<faults, secret, dir, release>> /\ (pc' = pc \/ pc' = "handle")
      BY <1>1 DEF Deliver, TimerFires, Resync, Begin, worker, cluster, budgets
    <2> QED
      BY <1>0, <2>1, ChartsElsewhere
  <1>2. CASE Crash
    <2>1. UNCHANGED <<faults, secret, release>> /\ pc' = "idle" /\ dir' = NoDir
      BY <1>2 DEF Crash, cluster
    <2>2. dir'.stage = "absent"
      BY <2>1 DEF NoDir
    <2> QED
      BY <2>1, <2>2 DEF ChartsComplete, NeverFailed
  <1>3. CASE PodsRestarting \/ PodsReady \/ ServicesListed
    <2>1. UNCHANGED <<faults, secret, dir, pc>>
      BY <1>3 DEF PodsRestarting, PodsReady, ServicesListed, worker, budgets
    <2>2. release \in Releases
      BY DEF TypeOK, ClusterOK
    <2>3. release'.installed = release.installed /\ release'.certificates = release.certificates
      BY <1>3, <2>2 DEF PodsRestarting, PodsReady, ServicesListed, Releases
    <2> QED
      BY <1>0, <2>1, <2>3, ChartsElsewhere
  <1>4. CASE (\E n \in Names : WorkflowEnds(n)) \/ UserEdits \/ UserForces
    <2>1. UNCHANGED <<faults, secret, dir, release, pc>>
      BY <1>4 DEF WorkflowEnds, UserEdits, UserForces, UserWrites, worker, budgets, cluster
    <2> QED
      BY <1>0, <2>1, ChartsElsewhere
  <1> QED
    BY <1>1, <1>2, <1>3, <1>4 DEF Environment

LEMMA ChartsKept ==
    ASSUME TypeOK, ChartsComplete,
           \/ HandleForce \/ HandleNone \/ HandleTerminal \/ HandleHelmChartInstalled
           \/ HandleHelmChartReady \/ HandleChaincodeFlowCompleted \/ CallFails \/ NextFlow
           \/ \E flow \in Flows : HandleFlowSubmitted(flow)
           \/ HandleFlowCompleted("channel", "chaincode")
           \/ HandleFlowCompleted("peerOrg", "channel")
           \/ SaveStatus \/ ClearForce
    PROVE  ChartsComplete'
  <1>1. UNCHANGED <<secret, dir, release>> /\ (faults' = faults \/ Fault)
    BY DEF HandleForce, HandleNone, HandleTerminal, HandleHelmChartInstalled,
           HandleHelmChartReady, HandleChaincodeFlowCompleted, CallFails, NextFlow,
           HandleFlowSubmitted, HandleFlowCompleted, StartFlow, SaveStatus, ClearForce,
           cluster, budgets
  <1>2. pending.then \in {"idle", "nextFlow", "clearForce"}
    BY DEF TypeOK, WorkerOK
  <1>3. pc' \in {"idle", "save", "nextFlow", "clearForce"}
    BY <1>2 DEF HandleForce, HandleNone, HandleTerminal, HandleHelmChartInstalled,
           HandleHelmChartReady, HandleChaincodeFlowCompleted, CallFails, NextFlow,
           HandleFlowSubmitted, HandleFlowCompleted, StartFlow, SaveStatus, ClearForce,
           Return, Save, Goto, Continue
  <1> QED
    BY <1>1, <1>3, ChartsElsewhere DEF TypeOK

\* The directory is rebuilt, and the release uninstalled and installed.
LEMMA ChartsRebuilt ==
    ASSUME TypeOK, ChartsComplete, Reconstruct \/ Teardown \/ Prepare \/ Install \/ HandleReady
    PROVE  ChartsComplete'
  <1>0. BudgetsOK /\ secret \in BOOLEAN /\ release.installed \in BOOLEAN
    BY DEF TypeOK, ClusterOK, Releases
  <1>1. CASE Reconstruct
    <2>1. UNCHANGED <<secret, release>> /\ (faults' = faults \/ Fault) /\ pc' \in {"handle", "idle"}
      BY <1>1 DEF Reconstruct, cluster, Goto, Return
    <2>2. Fault \/ dir'.stage = "complete" \/ ~(secret /\ release.installed)
      <3>1. \/ dir' = [stage |-> "complete", values |-> net.spec.desired]
            \/ ~(secret /\ release.installed)
            \/ Fault
        BY <1>1, Zenon DEF Reconstruct
      <3> QED
        BY <3>1
    <2>3. NeverFailed /\ NeverFailed' /\ release'.installed =>
            release'.certificates /\ secret' /\ dir'.stage \in {"absent", "complete"}
      BY <1>0, <2>1, <2>2, SpendsFault DEF ChartsComplete
    <2> QED
      BY <1>0, <2>1, <2>3, ChartsAfter
  <1>2. CASE Teardown
    <2>1. release' = NoRelease /\ pc' = "prepare"
      BY <1>2 DEF Teardown, Goto
    <2>2. ~release'.installed
      BY <2>1 DEF NoRelease
    <2> QED
      BY <2>1, <2>2 DEF ChartsComplete
  <1>3. CASE Prepare
    <2>0. \/ /\ secret' = TRUE /\ Goto("install") /\ UNCHANGED faults
             /\ dir' = [stage |-> "complete", values |-> net.spec.desired]
          \/ Fault /\ Return(TRUE)
      BY <1>3, Zenon DEF Prepare
    <2>1. ASSUME secret' = TRUE, Goto("install"), UNCHANGED faults,
                 dir' = [stage |-> "complete", values |-> net.spec.desired]
          PROVE  ChartsComplete'
      <3>1. NeverFailed' => ~release.installed
        BY <1>3, <2>1 DEF Prepare, ChartsComplete, NeverFailed
      <3> QED
        BY <1>3, <2>1, <3>1 DEF Prepare, ChartsComplete, Goto
    <2>2. CASE Fault /\ Return(TRUE)
      <3>1. pc' = "idle" /\ ~NeverFailed'
        BY <1>0, <2>2, SpendsFault DEF Return
      <3> QED
        BY <3>1 DEF ChartsComplete
    <2> QED
      BY <2>0, <2>1, <2>2
  <1>4. CASE Install
    <2>1. /\ UNCHANGED <<secret, dir>> /\ (faults' = faults \/ Fault)
          /\ pc' \in {"save", "idle"} /\ pc = "install"
          /\ release'.certificates = (dir.stage = "complete")
      BY <1>4 DEF Install, Save, Return
    <2>2. NeverFailed => secret /\ dir.stage = "complete"
      BY <2>1 DEF ChartsComplete
    <2> QED
      BY <1>0, <2>1, <2>2, ChartsAfter
  <1>5. CASE HandleReady
    <2>1. UNCHANGED release /\ pc' \in {"save", "idle"}
      BY <1>5 DEF HandleReady, StartFlow, Save, Return
    <2>2. faults' = faults \/ Fault
      BY <1>5, Zenon DEF HandleReady, StartFlow
    <2>3. dir' = dir \/ dir' = Rewritten
      BY <1>5, Zenon DEF HandleReady
    <2>4. secret' = secret \/ \E needed : secret' = (secret \/ needed)
      BY <1>5, Zenon DEF HandleReady
    <2>5. secret => secret'
      BY <1>0, <2>4
    <2>6. dir.stage \in {"absent", "complete"} => dir'.stage = dir.stage
      BY <2>3 DEF Rewritten
    <2> QED
      BY <1>0, <2>1, <2>2, <2>5, <2>6, ChartsAfter DEF ChartsComplete
  <1> QED
    BY <1>1, <1>2, <1>3, <1>4, <1>5

\* An upgrade takes the certificates from the directory, which is complete: a
\* lost one is reconstructed before the switch, and a partial one there is only
\* where a call has failed.
LEMMA ChartsUpgraded ==
    ASSUME TypeOK, ChartsComplete,
           HandleHelmChartNeedsUpdate \/ HandleHelmChartNeedsDoubleUpdate \/ SecondUpdate
    PROVE  ChartsComplete'
  <1>1. UNCHANGED <<secret, dir, faults>>
    BY DEF HandleHelmChartNeedsUpdate, HandleHelmChartNeedsDoubleUpdate, SecondUpdate, budgets
  <1>2. BudgetsOK /\ release \in Releases
    BY DEF TypeOK, ClusterOK
  <1>3. Upgraded.installed = release.installed /\ Upgraded.certificates = (dir.stage = "complete")
    BY <1>2 DEF Upgraded, Releases
  <1>4. CASE Return(TRUE) /\ UNCHANGED release
    <2>1. pc' = "idle"
      BY <1>4 DEF Return
    <2> QED
      BY <1>1, <1>2, <1>4, <2>1, ChartsElsewhere
  <1>5. ASSUME release' = Upgraded,
               NeverFailed => release.installed /\ dir.stage = "complete",
               pc' \in {"save", "secondUpdate"}
        PROVE  ChartsComplete'
    <2>1. NeverFailed' => NeverFailed
      BY <1>1 DEF NeverFailed
    <2>2. release'.installed = release.installed
      BY <1>3, <1>5
    <2>3. release'.certificates = (dir.stage = "complete")
      BY <1>3, <1>5
    <2> QED
      BY <1>1, <1>5, <2>1, <2>2, <2>3 DEF ChartsComplete
  <1>6. CASE CanUpgrade /\ release' = Upgraded /\ pc = "handle" /\ dir.stage # "absent"
                /\ pc' \in {"save", "secondUpdate"}
    <2>1. NeverFailed => release.installed /\ dir.stage = "complete"
      BY <1>6 DEF CanUpgrade, ChartsComplete
    <2> QED
      BY <1>5, <1>6, <2>1
  <1>7. CASE HandleHelmChartNeedsUpdate
    <2>1. pc = "handle" /\ dir.stage # "absent"
      BY <1>7 DEF HandleHelmChartNeedsUpdate, Handling, NothingToReconstruct
    <2> QED
      BY <1>4, <1>6, <1>7, <2>1 DEF HandleHelmChartNeedsUpdate, Save
  <1>8. CASE HandleHelmChartNeedsDoubleUpdate
    <2>1. pc = "handle" /\ dir.stage # "absent"
      BY <1>8 DEF HandleHelmChartNeedsDoubleUpdate, Handling, NothingToReconstruct
    <2> QED
      BY <1>4, <1>6, <1>8, <2>1 DEF HandleHelmChartNeedsDoubleUpdate, Save, Goto
  <1>9. CASE SecondUpdate
    <2>1. release' = Upgraded /\ pc = "secondUpdate" /\ pc' = "save"
      BY <1>9 DEF SecondUpdate, Save
    <2>2. NeverFailed => release.installed /\ dir.stage = "complete"
      BY <2>1 DEF ChartsComplete
    <2> QED
      BY <1>5, <2>1, <2>2
  <1> QED
    BY <1>7, <1>8, <1>9

LEMMA ChartsAlways == Spec => []ChartsComplete
  <1>1. TypeOK /\ ChartsComplete /\ [Next]_vars => ChartsComplete'
    <2> SUFFICES ASSUME TypeOK, ChartsComplete, [Next]_vars PROVE ChartsComplete'
      OBVIOUS
    <2>1. CASE Worker
      BY <2>1, ChartsPlatform, ChartsKept, ChartsRebuilt, ChartsUpgraded DEF Worker, Handle
    <2>2. CASE Environment \/ Deliver \/ TimerFires \/ Resync \/ Crash
      BY <2>2, ChartsPlatform
    <2>3. CASE UNCHANGED vars
      BY <2>3 DEF vars, worker, cluster, budgets, ChartsComplete, NeverFailed
    <2> QED
      BY <2>1, <2>2, <2>3 DEF Next
  <1> QED
    BY <1>1, ChartsStart, TypeCorrect, PTL DEF Spec

\* However often the operator restarts and rebuilds the directory of the network
\* (maybeReconstructHelmChart, prepareChartDirForFabric), and whichever of
\* installHelmChart and updateHelmChart deploys from it next, as long as no call
\* fails the release has its certificates and its genesis block.
THEOREM DeployedWithCertificatesAlways == Spec => []DeployedWithCertificates
  <1>1. ChartsComplete => DeployedWithCertificates
    BY DEF ChartsComplete, DeployedWithCertificates
  <1> QED
    BY <1>1, ChartsAlways, PTL

-----------------------------------------------------------------------------
\* Stale sessions: what the worker may still read when the resource has moved on.

Busy == pc # "idle"

\* The versions of the resource a later step of the worker may be based on.
Seen == {Current, cache} \union { watch[i] : i \in DOMAIN watch } \union { x \in {net} : Busy }

\* The worker has saved a status and goes on with the copy it has saved.
Renewed ==
    \/ pc = "clearForce"
    \/ /\ net.spec.force = "" /\ net.status.state = "New"
       /\ \/ pc = "nextFlow"
          \/ /\ pc = "save"
             /\ pending.status.state \notin {"HelmChartInstalled", "HelmChartNeedsUpdate"}

\* A worker at the server's version that has written nothing yet began with an
\* informer that had caught up: no other version is left anywhere.
OneVersion == Busy /\ fresh /\ ~Renewed => \A x \in Seen : x = Current

\* After a failure whoever reads an older version finds the workflow still to be
\* polled, or a forced state to be saved.
FailedLast ==
    status.state = "Failed" =>
        \A x \in Seen : x.spec.force # "" \/ x.status.state \in { Submitted[flow] : flow \in Flows }
                        \/ x.status.state = "Failed"

\* The steps of the worker between reading the resource and writing it.
Walks ==
    \/ Reconstruct \/ Handle \/ CallFails \/ Teardown \/ Prepare \/ Install \/ SecondUpdate
    \/ NextFlow

LEMMA WalkEnds ==
    ASSUME Walks
    PROVE  /\ UNCHANGED <<resource, informer>>
           /\ pc \in {"handle", "prepare", "install", "secondUpdate", "nextFlow"}
           /\ pc' = "idle" \/ UNCHANGED <<net, fresh>>
  <1>1. ASSUME NEW flow, NEW values, NEW include, NEW draft,
               StartFlow(flow, values, include, draft)
        PROVE  pc' = "idle" \/ UNCHANGED <<net, fresh>>
    BY <1>1 DEF StartFlow, Save, Return
  <1>2. CASE HandleReady
    <2>1. UNCHANGED <<resource, informer>> /\ pc = "handle"
      BY <1>2 DEF HandleReady, Handling
    <2>2. CASE \E flow, values, include, draft : StartFlow(flow, values, include, draft)
      BY <1>1, <2>1, <2>2
    <2>3. CASE \E draft : Save(draft, TRUE, "idle")
      BY <2>1, <2>3 DEF Save
    <2>4. CASE \E requeue : Return(requeue)
      BY <2>1, <2>4 DEF Return
    <2> QED
      BY <1>2, <2>2, <2>3, <2>4, Zenon DEF HandleReady
  <1>3. CASE NextFlow \/ HandleFlowCompleted("channel", "chaincode")
                      \/ HandleFlowCompleted("peerOrg", "channel")
    BY <1>1, <1>3 DEF NextFlow, HandleFlowCompleted, Handling, Save
  <1>4. CASE HandleForce \/ HandleNone \/ HandleTerminal \/ HandleHelmChartInstalled
                \/ HandleHelmChartReady \/ HandleChaincodeFlowCompleted
                \/ (\E flow \in Flows : HandleFlowSubmitted(flow))
    BY <1>4 DEF HandleForce, HandleNone, HandleTerminal, HandleHelmChartInstalled,
                HandleHelmChartReady, HandleChaincodeFlowCompleted, HandleFlowSubmitted,
                Handling, Save, Return, Goto
  <1>5. CASE HandleHelmChartNeedsUpdate \/ HandleHelmChartNeedsDoubleUpdate \/ SecondUpdate
    BY <1>5 DEF HandleHelmChartNeedsUpdate, HandleHelmChartNeedsDoubleUpdate, SecondUpdate,
                Handling, Save, Return, Goto
  <1>6. CASE Reconstruct \/ CallFails \/ Teardown \/ Prepare \/ Install
    BY <1>6 DEF Reconstruct, CallFails, Teardown, Prepare, Install, Handling, Save, Return, Goto
  <1> QED
    BY <1>2, <1>3, <1>4, <1>5, <1>6 DEF Walks, Handle

\* The next flow is submitted, or the network declared Ready.
LEMMA NextFlowSaves ==
    ASSUME TypeOK, NextFlow, pc' # "idle"
    PROVE  /\ pc' = "save" /\ UNCHANGED <<net, fresh>>
           /\ pending'.status.state \in {"ChannelFlowSubmitted", "PeerOrgFlowSubmitted", "Ready"}
  <1>1. net.status \in Statuses /\ With("Ready", 0) \in Statuses
    BY WithType DEF TypeOK, WorkerOK, Resources, States
  <1>2. ASSUME NEW flow \in {"channel", "peerOrg"}, StartFlow(flow, dir, {}, net.status)
        PROVE  /\ pc' = "save" /\ UNCHANGED <<net, fresh>>
               /\ pending'.status.state = Submitted[flow]
    <2>1. PICK n \in Names : Save(Tracking(net.status, flow, n), FALSE, "idle")
      BY <1>2 DEF StartFlow, Return
    <2>2. Tracking(net.status, flow, n).state = Submitted[flow]
      BY <1>1 DEF Tracking, Statuses
    <2> QED
      BY <2>1, <2>2 DEF Save
  <1>3. ASSUME Save([With("Ready", 0) EXCEPT !.nextFlow = ""], FALSE, "idle")
        PROVE  /\ pc' = "save" /\ UNCHANGED <<net, fresh>>
               /\ pending'.status.state = "Ready"
    <2>1. [With("Ready", 0) EXCEPT !.nextFlow = ""].state = "Ready"
      BY <1>1, WithFields DEF Statuses
    <2> QED
      BY <1>3, <2>1 DEF Save
  <1> QED
    BY <1>2, <1>3, FlowTable DEF NextFlow

LEMMA SeenNow ==
    ASSUME NEW x
    PROVE  x \in Seen <=> \/ x = Current \/ x = cache \/ (Busy /\ x = net)
                          \/ \E i \in DOMAIN watch : x = watch[i]
  BY DEF Seen

LEMMA SeenThen ==
    ASSUME NEW x
    PROVE  x \in Seen' <=> \/ x = Current' \/ x = cache' \/ (Busy' /\ x = net')
                           \/ \E i \in DOMAIN watch' : x = watch'[i]
  BY DEF Seen

\* Nothing is written: the worker keeps its copy, gives it up, or takes the
\* informer's.
LEMMA SeenKept ==
    ASSUME UNCHANGED <<resource, informer>>,
           Busy' => (Busy /\ net' = net) \/ net' = cache
    PROVE  Current' = Current /\ \A x \in Seen' : x \in Seen
  <1>1. Current' = Current /\ watch' = watch /\ cache' = cache
    BY DEF resource, informer, Current
  <1>2. ASSUME NEW x, x \in Seen' PROVE x \in Seen
    <2>1. \/ x = Current' \/ x = cache' \/ (Busy' /\ x = net')
          \/ \E i \in DOMAIN watch' : x = watch'[i]
      BY <1>2, SeenThen
    <2>2. \/ x = Current \/ x = cache \/ (Busy /\ x = net)
          \/ \E i \in DOMAIN watch : x = watch[i]
      BY <1>1, <2>1
    <2> QED
      BY <2>2, SeenNow
  <1> QED
    BY <1>1, <1>2

\* A write adds the new version, which the writer may keep.
LEMMA SeenWritten ==
    ASSUME ResourceOK, NEW s, NEW t, [spec |-> s, status |-> t] \in Resources, Write(s, t),
           Busy' => (Busy /\ net' = net) \/ net' = [spec |-> s, status |-> t]
    PROVE  /\ Current' = [spec |-> s, status |-> t]
           /\ \A x \in Seen' : x \in Seen \/ x = Current'
  <1>1. PICK new \in Resources : new = [spec |-> s, status |-> t]
    OBVIOUS
  <1>2. Current' = new /\ watch' = Append(watch, new) /\ cache' = cache
    BY <1>1 DEF Write, Current
  <1>3. \A i \in DOMAIN watch' : watch'[i] = new \/ (i \in DOMAIN watch /\ watch'[i] = watch[i])
    BY <1>2, WatchGrows DEF ResourceOK
  <1>4. ASSUME NEW x, x \in Seen' PROVE x \in Seen \/ x = Current'
    <2>1. \/ x = Current' \/ x = cache' \/ (Busy' /\ x = net')
          \/ \E i \in DOMAIN watch' : x = watch'[i]
      BY <1>4, SeenThen
    <2>2. \/ x = Current' \/ x = cache \/ (Busy /\ x = net)
          \/ \E i \in DOMAIN watch : x = watch[i]
      BY <1>1, <1>2, <1>3, <2>1
    <2> QED
      BY <2>2, SeenNow
  <1> QED
    BY <1>1, <1>2, <1>4

\* Delivery moves a version from the queue into the cache; after a crash there
\* is only the server's.
LEMMA SeenDelivered ==
    ASSUME ResourceOK, Deliver
    PROVE  Current' = Current /\ \A x \in Seen' : x \in Seen
  <1>1. /\ watch # <<>> /\ cache' = Head(watch) /\ watch' = Tail(watch)
        /\ Current' = Current /\ net' = net /\ (Busy' <=> Busy)
    BY DEF Deliver, resource, worker, Current, Busy
  <1>2. /\ \E i \in DOMAIN watch : cache' = watch[i]
        /\ \A i \in DOMAIN watch' : \E j \in DOMAIN watch : watch'[i] = watch[j]
    <2>1. watch \in Seq(Resources)
      BY DEF ResourceOK
    <2>2. /\ \E i \in DOMAIN watch : Head(watch) = watch[i]
          /\ \A i \in DOMAIN Tail(watch) : \E j \in DOMAIN watch : Tail(watch)[i] = watch[j]
      BY <1>1, <2>1, Delivered
    <2> QED
      BY <1>1, <2>2
  <1>3. ASSUME NEW x, x \in Seen' PROVE x \in Seen
    <2>1. \/ x = Current' \/ x = cache' \/ (Busy' /\ x = net')
          \/ \E i \in DOMAIN watch' : x = watch'[i]
      BY <1>3, SeenThen
    <2>2. \/ x = Current \/ (Busy /\ x = net) \/ \E i \in DOMAIN watch : x = watch[i]
      BY <1>1, <1>2, <2>1
    <2> QED
      BY <2>2, SeenNow
  <1> QED
    BY <1>1, <1>3

LEMMA SeenAfterCrash == ASSUME Crash PROVE Current' = Current /\ \A x \in Seen' : x = Current
  <1>1. /\ watch' = <<>> /\ cache' = Current /\ ~Busy' /\ Current' = Current
    BY DEF Crash, Current, resource, Busy
  <1>2. DOMAIN watch' = {}
    <2>1. watch' \in Seq({}) /\ Len(watch') = 0
      BY <1>1, EmptySeq
    <2> QED
      BY <2>1, LenProperties
  <1>3. ASSUME NEW x, x \in Seen' PROVE x = Current
    <2>1. \/ x = Current' \/ x = cache' \/ (Busy' /\ x = net')
          \/ \E i \in DOMAIN watch' : x = watch'[i]
      BY <1>3, SeenThen
    <2> QED
      BY <1>1, <1>2, <2>1
  <1> QED
    BY <1>1, <1>3

\* Steps that are not the worker's write nothing, but for the user's; begin and
\* the walks write nothing either.
Idles == TimerFires \/ Resync \/ PodsRestarting \/ PodsReady \/ ServicesListed
            \/ (\E n \in Names : WorkflowEnds(n)) \/ UNCHANGED vars

LEMMA IdleIs == ASSUME Idles PROVE UNCHANGED <<resource, informer, worker>>
  BY DEF Idles, TimerFires, Resync, PodsRestarting, PodsReady, ServicesListed, WorkflowEnds, vars

\* A save either writes its draft at the version it has read, and goes on or
\* returns, or writes nothing and returns.
LEMMA SaveIs ==
    ASSUME TypeOK, Consistent, SaveStatus
    PROVE  /\ pc = "save" /\ UNCHANGED workflows
           /\ \/ UNCHANGED <<resource, informer>> /\ pc' = "idle"
              \/ /\ fresh /\ net = Current
                 /\ \E saved \in Statuses :
                    /\ saved = [pending.status EXCEPT !.observed = Stored(pending.status.observed)]
                    /\ saved.state = pending.status.state
                    /\ saved.workflow = pending.status.workflow
                    /\ saved.nextFlow = pending.status.nextFlow
                    /\ saved.observed = Stored(pending.status.observed)
                    /\ Write(spec, saved)
                    /\ \/ pc' = "idle"
                       \/ /\ pending.then # "idle" /\ pc' = pending.then /\ fresh' = fresh
                          /\ net' = [spec |-> spec, status |-> saved]
  <1> DEFINE saved == [pending.status EXCEPT !.observed = Stored(pending.status.observed)]
  <1>1. pc = "save" /\ UNCHANGED workflows
    BY DEF SaveStatus, cluster
  <1>2. /\ saved \in Statuses /\ saved.state = pending.status.state
        /\ saved.workflow = pending.status.workflow /\ saved.nextFlow = pending.status.nextFlow
        /\ saved.observed = Stored(pending.status.observed)
    BY StoredSpecs DEF TypeOK, WorkerOK, Statuses
  <1> HIDE DEF saved
  <1>3. CASE Return(pending.checked) /\ UNCHANGED <<resource, informer>>
    BY <1>1, <1>3 DEF Return
  <1>4. CASE fresh /\ Write(spec, saved) /\ (Continue(saved) \/ Return(pending.checked))
    <2>1. net = Current /\ net \in Resources
      BY <1>1, <1>4 DEF Consistent, Copies, CopyIsCurrent, TypeOK, WorkerOK
    <2>2. [net EXCEPT !.status = saved] = [spec |-> spec, status |-> saved]
      <3>1. net.spec = spec
        BY <2>1 DEF Current
      <3>2. net \in [spec : [desired : SpecsOrUnset, force : Forceable \union {""}],
                      status : Statuses]
        BY <2>1 DEF Resources
      <3>3. PICK copy : copy = [net EXCEPT !.status = saved]
        OBVIOUS
      <3>4. copy = [spec |-> spec, status |-> saved]
        BY <3>1, <3>2, <3>3
      <3> QED
        BY <3>3, <3>4
    <2>3. \/ pc' = "idle"
          \/ /\ pending.then # "idle" /\ pc' = pending.then /\ fresh' = fresh
             /\ net' = [spec |-> spec, status |-> saved]
      BY <1>4, <2>2 DEF Continue, Return
    <2> QED
      BY <1>1, <1>2, <1>4, <2>1, <2>3 DEF saved
  <1> QED
    BY <1>3, <1>4 DEF SaveStatus, Accepted, saved

\* A worker that goes on after a save has renewed its copy.
LEMMA OneVersionSaved ==
    ASSUME TypeOK, Consistent, OneVersion, SaveStatus PROVE OneVersion'
  <1>1. CASE pc' = "idle"
    BY <1>1 DEF OneVersion, Busy
  <1>2. CASE pc' # "idle"
    <2>1. PICK saved \in Statuses :
            /\ saved.state = pending.status.state /\ net = Current
            /\ pc' = pending.then /\ pending.then # "idle"
            /\ net' = [spec |-> spec, status |-> saved]
      BY <1>2, SaveIs
    <2>2. pc' \in {"nextFlow", "clearForce"} /\ DraftLegal
      BY <2>1, SaveIs DEF TypeOK, WorkerOK, Consistent, Intentions
    <2>3. pc' = "nextFlow" => net'.spec.force = "" /\ net'.status.state = "New"
      BY <2>1, <2>2 DEF DraftLegal, Current
    <2> QED
      BY <2>2, <2>3 DEF OneVersion, Renewed
  <1> QED
    BY <1>1, <1>2

LEMMA OneVersionKept ==
    ASSUME TypeOK, Consistent, OneVersion, [Next]_vars PROVE OneVersion'
  <1>0. ResourceOK
    BY DEF TypeOK
  <1>1. CASE Idles
    <2>1. UNCHANGED <<resource, informer, worker>>
      BY <1>1, IdleIs
    <2>2. Current' = Current /\ \A x \in Seen' : x \in Seen
      BY <2>1, SeenKept DEF worker, Busy
    <2> QED
      BY <2>1, <2>2 DEF OneVersion, Busy, Renewed, worker
  <1>2. CASE Deliver
    <2>1. Current' = Current /\ \A x \in Seen' : x \in Seen
      BY <1>0, <1>2, SeenDelivered
    <2>2. UNCHANGED worker
      BY <1>2 DEF Deliver
    <2> QED
      BY <2>1, <2>2 DEF OneVersion, Busy, Renewed, worker
  <1>3. CASE Crash
    BY <1>3 DEF Crash, OneVersion, Busy
  <1>4. CASE Begin
    <2>1. /\ UNCHANGED <<resource, informer>> /\ net' = cache /\ fresh' = (watch = <<>>)
          /\ Current' = Current
      BY <1>4 DEF Begin, resource, Current
    <2>2. ASSUME fresh', NEW x, x \in Seen' PROVE x = Current'
      <3>1. watch = <<>> /\ watch' = <<>> /\ cache = Current
        BY <2>1, <2>2 DEF Consistent, Copies, CacheCatchesUp, informer
      <3>2. \/ x = Current' \/ x = cache' \/ (Busy' /\ x = net')
            \/ \E i \in DOMAIN watch' : x = watch'[i]
        BY <2>2, SeenThen
      <3>3. DOMAIN watch = {}
        <4>1. Len(watch) = 0 /\ watch \in Seq({})
          BY <3>1, EmptySeq
        <4> QED
          BY <4>1, LenProperties
      <3> QED
        BY <2>1, <3>1, <3>2, <3>3 DEF informer
    <2> QED
      BY <2>2 DEF OneVersion
  <1>5. CASE UserEdits \/ UserForces
    BY <1>0, <1>5, UserWriteIs DEF OneVersion
  <1>6. CASE ClearForce
    BY <1>6 DEF ClearForce, Return, OneVersion, Busy
  <1>7. CASE Walks
    <2>1. CASE pc' = "idle"
      BY <2>1 DEF OneVersion, Busy
    <2>2. CASE pc' # "idle"
      <3>1. /\ UNCHANGED <<resource, informer, net, fresh>> /\ Busy
            /\ pc \notin {"save", "clearForce"}
        BY <1>7, <2>2, WalkEnds DEF Busy
      <3>2. Current' = Current /\ \A x \in Seen' : x \in Seen
        BY <3>1, SeenKept
      <3>3. Renewed => Renewed'
        <4>1. SUFFICES ASSUME Renewed PROVE Renewed'
          OBVIOUS
        <4>2. pc = "nextFlow" /\ net.spec.force = "" /\ net.status.state = "New"
          BY <3>1, <4>1 DEF Renewed
        <4>3. NextFlow
          BY <1>7, <2>2, <4>2
             DEF Walks, Handle, HandleForce, HandleNone, HandleTerminal, HandleHelmChartNeedsUpdate,
                 HandleHelmChartNeedsDoubleUpdate, HandleHelmChartInstalled,
                 HandleHelmChartReady, HandleFlowSubmitted, HandleFlowCompleted,
                 HandleChaincodeFlowCompleted, HandleReady, Handling, Reconstruct, CallFails,
                 Return, Teardown, Prepare, Install, SecondUpdate
        <4> QED
          BY <2>2, <3>1, <4>2, <4>3, NextFlowSaves DEF Renewed
      <3> QED
        BY <3>1, <3>2, <3>3 DEF OneVersion
    <2> QED
      BY <2>1, <2>2
  <1>8. CASE SaveStatus
    BY <1>8, OneVersionSaved
  <1> QED
    BY <1>1, <1>2, <1>3, <1>4, <1>5, <1>6, <1>7, <1>8
       DEF Next, Worker, Environment, Idles, Walks

LEMMA OneVersionAlways == Spec => []OneVersion
  <1>1. Init => OneVersion
    BY DEF Init, OneVersion, Busy
  <1> QED
    BY <1>1, OneVersionKept, TypeCorrect, ConsistentAlways, PTL DEF Spec

-----------------------------------------------------------------------------
\* A failed network stays failed.

\* The versions of the resource other than the new one were there before: what
\* the worker may read never comes from nowhere.
LEMMA SeenGrows ==
    ASSUME TypeOK, Consistent, [Next]_vars
    PROVE  \/ Current' = Current /\ \A x \in Seen' : x \in Seen
           \/ /\ SaveStatus \/ ClearForce \/ UserEdits \/ UserForces
              /\ ~UNCHANGED resource
              /\ \A x \in Seen' : x \in Seen \/ x = Current'
  <1>0. ResourceOK
    BY DEF TypeOK
  <1>1. CASE Idles
    <2>1. UNCHANGED <<resource, informer, worker>>
      BY <1>1, IdleIs
    <2> QED
      BY <2>1, SeenKept DEF worker, Busy
  <1>2. CASE Deliver
    BY <1>0, <1>2, SeenDelivered
  <1>3. CASE Crash
    <2>1. Current \in Seen
      BY SeenNow
    <2> QED
      BY <1>3, <2>1, SeenAfterCrash
  <1>4. CASE Begin
    <2>1. UNCHANGED <<resource, informer>> /\ net' = cache
      BY <1>4 DEF Begin
    <2> QED
      BY <2>1, SeenKept
  <1>5. CASE Walks
    <2>1. UNCHANGED <<resource, informer>> /\ (Busy' => Busy /\ net' = net)
      BY <1>5, WalkEnds DEF Busy
    <2> QED
      BY <2>1, SeenKept
  <1>6. CASE UserEdits \/ UserForces
    <2>1. PICK s \in [desired : SpecsOrUnset, force : Forceable \union {""}] :
            Write(s, status) /\ UNCHANGED <<pc, net>>
      BY <1>0, <1>6, UserWriteIs
    <2>2. [spec |-> s, status |-> status] \in Resources
      BY <1>0 DEF ResourceOK, Resources
    <2>3. \A x \in Seen' : x \in Seen \/ x = Current'
      BY <1>0, <2>1, <2>2, SeenWritten DEF Busy
    <2>4. UNCHANGED resource => Current' = Current /\ Current \in Seen
      BY SeenNow DEF resource, Current
    <2> QED
      BY <1>6, <2>3, <2>4
  <1>7. CASE SaveStatus
    <2>1. CASE UNCHANGED <<resource, informer>> /\ pc' = "idle"
      BY <2>1, SeenKept DEF Busy
    <2>2. ASSUME NEW saved \in Statuses, Write(spec, saved),
                 pc' = "idle" \/ net' = [spec |-> spec, status |-> saved]
          PROVE  /\ \A x \in Seen' : x \in Seen \/ x = Current'
                 /\ UNCHANGED resource => Current' = Current /\ Current \in Seen
      <3>1. [spec |-> spec, status |-> saved] \in Resources
        BY <1>0 DEF ResourceOK, Resources
      <3>2. UNCHANGED resource => Current' = Current /\ Current \in Seen
        BY SeenNow DEF resource, Current
      <3> QED
        BY <1>0, <2>2, <3>1, <3>2, SeenWritten DEF Busy
    <2> QED
      BY <1>7, <2>1, <2>2, SaveIs
  <1>8. CASE ClearForce
    <2>1. pc' = "idle"
      BY <1>8 DEF ClearForce, Return
    <2>2. CASE UNCHANGED <<resource, informer>>
      BY <2>1, <2>2, SeenKept DEF Busy
    <2>3. CASE Write([desired |-> Stored(net.spec.desired), force |-> ""], status)
      <3>1. [desired |-> Stored(net.spec.desired), force |-> ""]
                \in [desired : SpecsOrUnset, force : Forceable \union {""}]
        BY StoredSpecs DEF TypeOK, WorkerOK, Resources
      <3>2. PICK s \in [desired : SpecsOrUnset, force : Forceable \union {""}] :
                s = [desired |-> Stored(net.spec.desired), force |-> ""]
        BY <3>1
      <3>3. [spec |-> s, status |-> status] \in Resources /\ Write(s, status)
        BY <1>0, <2>3, <3>2 DEF ResourceOK, Resources
      <3>4. \A x \in Seen' : x \in Seen \/ x = Current'
        BY <1>0, <2>1, <3>3, SeenWritten DEF Busy
      <3>5. UNCHANGED resource => Current' = Current /\ Current \in Seen
        BY SeenNow DEF resource, Current
      <3> QED
        BY <1>8, <3>4, <3>5
    <2> QED
      BY <1>8, <2>2, <2>3 DEF ClearForce
  <1> QED
    BY <1>1, <1>2, <1>3, <1>4, <1>5, <1>6, <1>7, <1>8
       DEF Next, Worker, Environment, Idles, Walks

\* Only a worker at the server's version fails the network, and it began when
\* every version showed the workflow it has polled.
LEMMA FailedLastKept ==
    ASSUME TypeOK, Consistent, OneVersion, FailedLast, [Next]_vars PROVE FailedLast'
  <1> SUFFICES ASSUME status'.state = "Failed", NEW x \in Seen'
               PROVE  \/ x.spec.force # "" \/ x.status.state \in { Submitted[flow] : flow \in Flows }
                      \/ x.status.state = "Failed"
    BY DEF FailedLast
  <1>0. /\ Current.spec = spec /\ Current.status = status
        /\ Current'.spec = spec' /\ Current'.status = status'
    BY DEF Current
  <1>1. CASE Current' = Current /\ \A y \in Seen' : y \in Seen
    <2>1. status.state = "Failed" /\ x \in Seen
      BY <1>0, <1>1
    <2> QED
      BY <2>1 DEF FailedLast
  <1>2. ASSUME ~UNCHANGED resource, \A y \in Seen' : y \in Seen \/ y = Current',
               UserEdits \/ UserForces
        PROVE  \/ x.spec.force # "" \/ x.status.state \in { Submitted[flow] : flow \in Flows }
               \/ x.status.state = "Failed"
    <2>1. status.state = "Failed"
      BY <1>2, UserWriteIs DEF TypeOK, Write
    <2> QED
      BY <1>0, <1>2, <2>1 DEF FailedLast
  <1>3. ASSUME ~UNCHANGED resource, ClearForce PROVE FALSE
    <2>1. status' = status /\ spec.force # "" /\ status.state = spec.force
      BY <1>3, ClearedForce
    <2>2. "Failed" \notin Forceable /\ spec.force \in Forceable \union {""}
      BY ReconcilerAssumption DEF ForceStates, TypeOK, ResourceOK
    <2> QED
      BY <2>1, <2>2
  <1>4. ASSUME ~UNCHANGED resource, \A y \in Seen' : y \in Seen \/ y = Current', SaveStatus
        PROVE  \/ x.spec.force # "" \/ x.status.state \in { Submitted[flow] : flow \in Flows }
               \/ x.status.state = "Failed"
    <2>1. /\ DraftLegal /\ net.spec = spec /\ net.status = status /\ spec' = spec
          /\ pending.status.state = "Failed"
      BY <1>4, SavedDraft
    <2>2. <<status.state, "Failed">> \in Edges
      <3>1. "Failed" \notin Forceable /\ spec.force \in Forceable \union {""}
        BY ReconcilerAssumption DEF ForceStates, TypeOK, ResourceOK
      <3> QED
        BY <2>1, <3>1 DEF DraftLegal
    <2>3. \E flow \in Flows : status.state = Submitted[flow]
      BY <2>2, FlowTable DEF Edges, Flows
    <2>4. pc = "save" /\ fresh
      BY <1>4, SaveIs DEF resource
    <2>5. ~Renewed
      BY <2>1, <2>3, <2>4, FlowTable DEF Renewed
    <2>6. x = Current \/ x = Current'
      BY <1>4, <2>4, <2>5 DEF OneVersion, Busy
    <2> QED
      BY <1>0, <2>3, <2>6
  <1> QED
    BY <1>1, <1>2, <1>3, <1>4, SeenGrows

LEMMA FailedLastAlways == Spec => []FailedLast
  <1>1. Init => FailedLast
    <2>1. FirstStatus.state = ""
      BY DEF FirstStatus
    <2> QED
      BY <2>1 DEF Init, FailedLast
  <1> QED
    BY <1>1, FailedLastKept, OneVersionAlways, TypeCorrect, ConsistentAlways, PTL DEF Spec

\* The steps that leave the workflows alone, or end or delete them.
LEMMA NoneStarts ==
    ASSUME TypeOK, [Next]_vars,
           ~HandleReady, ~NextFlow, ~HandleFlowCompleted("channel", "chaincode"),
           ~HandleFlowCompleted("peerOrg", "channel")
    PROVE  \A n \in Names : workflows'[n].phase = "Running" => workflows'[n] = workflows[n]
  <1>0. workflows \in [Names -> Workflows]
    BY DEF TypeOK, ClusterOK
  <1>1. ASSUME NEW m \in Names, WorkflowEnds(m)
        PROVE  \A n \in Names : workflows'[n].phase = "Running" => workflows'[n] = workflows[n]
    <2>1. PICK phase \in Outcomes : workflows' = [workflows EXCEPT ![m].phase = phase]
      BY <1>1 DEF WorkflowEnds
    <2>2. phase # "Running"
      BY ReconcilerAssumption
    <2>3. workflows'[m].phase = phase
      BY <1>0, <2>1 DEF Workflows
    <2> QED
      BY <1>0, <2>1, <2>2, <2>3
  <1>2. ASSUME Teardown
        PROVE  \A n \in Names : workflows'[n].phase = "Running" => workflows'[n] = workflows[n]
    <2>1. \A n \in Names : workflows'[n] \in {workflows[n], NoWorkflow}
      BY <1>2 DEF Teardown
    <2>2. NoWorkflow.phase = "Absent"
      BY DEF NoWorkflow
    <2>3. TAKE n \in Names
    <2>4. CASE workflows'[n] = NoWorkflow
      BY <2>2, <2>4
    <2>5. CASE workflows'[n] = workflows[n]
      BY <2>5
    <2> QED
      BY <2>1, <2>4, <2>5
  <1>3. CASE Deliver \/ TimerFires \/ Resync \/ Crash \/ PodsRestarting \/ PodsReady
                \/ ServicesListed \/ UserEdits \/ UserForces \/ Begin \/ UNCHANGED vars
    BY <1>3 DEF Deliver, TimerFires, Resync, Crash, PodsRestarting, PodsReady, ServicesListed,
                UserEdits, UserForces, UserWrites, Begin, vars, cluster
  <1>4. CASE Reconstruct \/ CallFails \/ Prepare \/ Install \/ SecondUpdate \/ SaveStatus
                \/ ClearForce \/ HandleForce \/ HandleNone \/ HandleTerminal
    BY <1>4 DEF Reconstruct, CallFails, Prepare, Install, SecondUpdate, SaveStatus, ClearForce,
                HandleForce, HandleNone, HandleTerminal, cluster
  <1>5. CASE HandleHelmChartNeedsUpdate \/ HandleHelmChartNeedsDoubleUpdate
                \/ HandleHelmChartInstalled \/ HandleHelmChartReady
                \/ HandleChaincodeFlowCompleted \/ (\E flow \in Flows : HandleFlowSubmitted(flow))
    BY <1>5 DEF HandleHelmChartNeedsUpdate, HandleHelmChartNeedsDoubleUpdate,
                HandleHelmChartInstalled, HandleHelmChartReady, HandleChaincodeFlowCompleted,
                HandleFlowSubmitted, cluster
  <1> QED
    BY <1>1, <1>2, <1>3, <1>4, <1>5 DEF Next, Worker, Handle, Environment

\* A workflow is submitted only by a worker that has read a state it follows.
LEMMA WhoStarts ==
    ASSUME TypeOK, Consistent, [Next]_vars,
           NEW n \in Names, workflows'[n].phase = "Running", workflows[n].phase # "Running"
    PROVE  /\ Walks /\ Busy /\ net.spec.force = ""
           /\ net.status.state \in { "New", "HelmChartReady", "ChannelFlowCompleted",
                                     "PeerOrgFlowCompleted", "Ready" }
  <1>1. HandleReady \/ NextFlow \/ HandleFlowCompleted("channel", "chaincode")
            \/ HandleFlowCompleted("peerOrg", "channel")
    BY NoneStarts
  <1>2. CASE HandleReady
    BY <1>2 DEF HandleReady, Handling, Walks, Handle, Busy
  <1>3. CASE NextFlow
    BY <1>3 DEF NextFlow, Walks, Busy, Consistent, Intentions, Whereabouts
  <1>4. CASE HandleFlowCompleted("channel", "chaincode")
    BY <1>4, FlowTable DEF HandleFlowCompleted, Handling, Walks, Handle, Busy
  <1>5. CASE HandleFlowCompleted("peerOrg", "channel")
    BY <1>5, FlowTable DEF HandleFlowCompleted, Handling, Walks, Handle, Busy
  <1> QED
    BY <1>1, <1>2, <1>3, <1>4, <1>5

\* However far the cache lags behind and whatever fails, crashes or is repeated,
\* once the status says Failed no handler of Reconcile submits a workflow
\* (startChannelFlow, startChaincodeFlow, startPeerOrgFlow) before the user
\* forces a state: every version still to be read is the failed one, or one
\* whose workflow is only polled.
THEOREM FailedIsFinalAlways == Spec => FailedIsFinal
  <1> DEFINE A == status.state = "Failed" /\ spec.force = "" =>
                    \A n \in Names :
                        workflows'[n].phase = "Running" => workflows[n].phase = "Running"
  <1>1. TypeOK /\ Consistent /\ FailedLast /\ [Next]_vars => [A]_vars
    <2> SUFFICES ASSUME TypeOK, Consistent, FailedLast, Next,
                        status.state = "Failed", spec.force = "",
                        NEW n \in Names, workflows'[n].phase = "Running",
                        workflows[n].phase # "Running"
                 PROVE  FALSE
      BY DEF A
    <2>1. /\ Busy /\ net.spec.force = ""
          /\ net.status.state \in { "New", "HelmChartReady", "ChannelFlowCompleted",
                                    "PeerOrgFlowCompleted", "Ready" }
      BY WhoStarts
    <2>2. net \in Seen
      BY <2>1, SeenNow
    <2>3. \A flow \in Flows : net.status.state # Submitted[flow]
      BY <2>1, FlowTable
    <2> QED
      BY <2>1, <2>2, <2>3 DEF FailedLast
  <1> QED
    BY <1>1, TypeCorrect, ConsistentAlways, FailedLastAlways, PTL DEF Spec, FailedIsFinal, A

-----------------------------------------------------------------------------
\* A patient user's network is worked on in turns, as long as nothing goes wrong.

Undisturbed == NeverCrashed /\ NeverFailed

\* A version of the resource the operator has nothing to do for.
Done(x) ==
    x.spec.force = "" /\ x.status.state = "Ready" /\ x.status.observed = Stored(x.spec.desired)

\* One thing at a time is under way: a requeue, a call of Reconcile at the
\* server's version, or a version on its way to the informer; what comes before
\* it are calls for versions there is nothing to do for.
Turns ==
    /\ delayed => pc = "idle" /\ ~queued /\ watch = <<>> /\ ~Settled
    /\ Busy /\ fresh => ~queued /\ watch = <<>>
    /\ Busy => fresh \/ Done(net)
    /\ Busy /\ Done(net) => pc = "handle"
    /\ queued /\ watch # <<>> => Done(cache)
    /\ \A i \in DOMAIN watch : i < Len(watch) => Done(watch[i])

\* The chart directory is missing only before the network is first handled.
NotLost ==
    dir.stage = "absent" => pc \in {"idle", "handle"} /\ \A x \in Seen : x.status.state = ""

\* Between two settled states what is being applied is what the user wants.
Applying ==
    /\ status.state \notin {"", "Ready", "Rejected"} => status.observed = spec.desired
    /\ pc = "save" =>
        /\ pending.then = "idle"
        /\ pending.status.state \notin {"Ready", "Rejected"} =>
                pending.status.observed = net.spec.desired
    /\ pc = "nextFlow" => net.status.state = "HelmChartReady"

\* A running workflow is the one the status names, or is about to name.
RunsTracked ==
    \A n \in Names : workflows[n].phase = "Running" =>
        LET st == IF pc = "save" THEN pending.status ELSE status
        IN  st.workflow = n /\ \E flow \in Flows : st.state = Submitted[flow]

InTurns == Undisturbed => Turns /\ NotLost /\ Applying /\ RunsTracked

\* The budgets of crashes and faults are spent by crashes and faults.
LEMMA Spending ==
    ASSUME [Next]_vars
    PROVE  (faults' = faults \/ Fault) /\ (crashes' = crashes \/ Crash)
  <1>1. CASE Deliver \/ TimerFires \/ Resync \/ PodsRestarting \/ PodsReady \/ ServicesListed
                \/ UserEdits \/ UserForces \/ (\E n \in Names : WorkflowEnds(n)) \/ Begin
                \/ UNCHANGED vars
    BY <1>1 DEF Deliver, TimerFires, Resync, PodsRestarting, PodsReady, ServicesListed,
                UserEdits, UserForces, UserWrites, WorkflowEnds, Begin, vars, budgets
  <1>2. CASE Reconstruct \/ CallFails \/ Teardown \/ Prepare \/ Install \/ SecondUpdate
                \/ SaveStatus \/ ClearForce \/ NextFlow
    BY <1>2 DEF Reconstruct, CallFails, Teardown, Prepare, Install, SecondUpdate, SaveStatus,
                ClearForce, NextFlow, StartFlow, budgets
  <1>3. CASE Handle
    BY <1>3 DEF Handle, HandleForce, HandleNone, HandleTerminal, HandleHelmChartNeedsUpdate,
                HandleHelmChartNeedsDoubleUpdate, HandleHelmChartInstalled,
                HandleHelmChartReady, HandleFlowSubmitted, HandleFlowCompleted,
                HandleChaincodeFlowCompleted, HandleReady, StartFlow, budgets
  <1>4. CASE Crash
    BY <1>4 DEF Crash
  <1> QED
    BY <1>1, <1>2, <1>3, <1>4 DEF Next, Worker, Environment

LEMMA Undisturbing ==
    ASSUME BudgetsOK, [Next]_vars, Undisturbed' PROVE Undisturbed /\ ~Fault /\ ~Crash
  <1>1. ~Fault
    BY SpendsFault DEF Undisturbed
  <1>2. ASSUME Crash PROVE FALSE
    <2>1. crashes \in Int /\ MaxCrashes \in Int /\ crashes <= MaxCrashes /\ crashes' = crashes - 1
      BY <1>2, BoundsAreNaturals DEF BudgetsOK, Crash
    <2> QED
      BY <2>1 DEF Undisturbed, NeverCrashed
  <1>3. faults' = faults /\ crashes' = crashes
    BY <1>1, <1>2, Spending
  <1> QED
    BY <1>1, <1>2, <1>3 DEF Undisturbed, NeverCrashed, NeverFailed

\* What a walk does to the work queue.
LEMMA WalkTokens ==
    ASSUME Walks
    PROVE  \/ \E requeue \in BOOLEAN : Return(requeue)
           \/ UNCHANGED <<queued, delayed, net, fresh>> /\ pc' # "idle"
  <1>1. ASSUME NEW flow, NEW values, NEW include, NEW draft,
               StartFlow(flow, values, include, draft)
        PROVE  \/ \E requeue \in BOOLEAN : Return(requeue)
               \/ UNCHANGED <<queued, delayed, net, fresh>> /\ pc' # "idle"
    BY <1>1 DEF StartFlow, Save
  <1>2. CASE HandleReady
    <2>1. CASE \E flow, values, include, draft : StartFlow(flow, values, include, draft)
      BY <1>1, <2>1
    <2>2. CASE \E draft : Save(draft, TRUE, "idle")
      BY <2>2 DEF Save
    <2>3. CASE Return(TRUE) \/ Return(FALSE)
      BY <2>3
    <2> QED
      BY <1>2, <2>1, <2>2, <2>3, Zenon DEF HandleReady
  <1>3. CASE NextFlow \/ HandleFlowCompleted("channel", "chaincode")
                      \/ HandleFlowCompleted("peerOrg", "channel")
    BY <1>1, <1>3 DEF NextFlow, HandleFlowCompleted, Save
  <1>4. CASE HandleForce \/ HandleNone \/ HandleTerminal \/ HandleHelmChartInstalled
                \/ HandleHelmChartReady \/ HandleChaincodeFlowCompleted
                \/ (\E flow \in Flows : HandleFlowSubmitted(flow))
    BY <1>4 DEF HandleForce, HandleNone, HandleTerminal, HandleHelmChartInstalled,
                HandleHelmChartReady, HandleChaincodeFlowCompleted, HandleFlowSubmitted,
                Save, Goto
  <1>5. CASE HandleHelmChartNeedsUpdate \/ HandleHelmChartNeedsDoubleUpdate \/ SecondUpdate
    BY <1>5 DEF HandleHelmChartNeedsUpdate, HandleHelmChartNeedsDoubleUpdate, SecondUpdate,
                Save, Goto
  <1>6. CASE Reconstruct \/ CallFails \/ Teardown \/ Prepare \/ Install
    BY <1>6 DEF Reconstruct, CallFails, Teardown, Prepare, Install, Save, Goto
  <1> QED
    BY <1>2, <1>3, <1>4, <1>5, <1>6 DEF Walks, Handle

\* What the invariant says of the worker: it has the server's version, and its
\* call is all there is under way, or it has nothing to do.
Serving == TypeOK /\ Consistent /\ Patience /\ Turns /\ NotLost /\ Applying /\ RunsTracked

LEMMA StoredIsKept == ASSUME Patience, NEW d \in SpecsOrUnset PROVE Stored(d) = d
  BY StoredUnset DEF Patience, Waiting, SpecsOrUnset

LEMMA NeverForced ==
    ASSUME Serving PROVE spec.force = "" /\ net.spec.force = "" /\ pc # "clearForce"
  <1>1. spec.force = "" /\ net.spec.force = ""
    BY DEF Serving, Patience, Waiting, TypeOK, ResourceOK, WorkerOK, Resources
  <1> QED
    BY <1>1 DEF Serving, Consistent, Intentions, Whereabouts

LEMMA SettledIsDone == Settled <=> Done(Current)
  BY DEF Settled, Done, Current

LEMMA ActiveWorker ==
    ASSUME Serving, Busy, ~Done(net) \/ pc # "handle"
    PROVE  /\ fresh /\ net = Current /\ watch = <<>> /\ ~queued /\ ~delayed /\ ~Done(net)
           /\ net.spec = spec /\ net.status = status /\ cache = Current
  <1>1. fresh /\ watch = <<>> /\ ~queued /\ ~delayed /\ ~Done(net)
    BY DEF Serving, Turns, Busy
  <1>2. net = Current
    BY <1>1 DEF Serving, Consistent, Copies, CopyIsCurrent, Busy
  <1>3. cache = Current
    BY <1>1 DEF Serving, Consistent, Copies, CacheCatchesUp
  <1> QED
    BY <1>1, <1>2, <1>3 DEF Current

\* The directory is there whenever the switch is reached, and a walk leaves one.
LEMMA DirectoryStays ==
    ASSUME Serving, Walks, ~Fault
    PROVE  /\ dir'.stage # "absent"
           /\ dir.stage = "absent" => Reconstruct /\ ~Done(net)
  <1>0. net.spec.force = "" /\ ~CallFails /\ ~HandleForce /\ dir \in Dirs
    BY NeverForced DEF CallFails, HandleForce, Serving, TypeOK, WorkerOK
  <1>1. ASSUME dir.stage = "absent" PROVE Reconstruct /\ ~Done(net)
    <2>1. pc = "handle" /\ net.status.state = ""
      <3>1. pc = "handle"
        BY <1>1, WalkEnds DEF Serving, NotLost
      <3>2. net \in Seen
        BY <3>1, SeenNow DEF Busy
      <3> QED
        BY <1>1, <3>1, <3>2 DEF Serving, NotLost
    <2>2. ~NothingToReconstruct
      BY <1>1, <2>1 DEF NothingToReconstruct
    <2>3. Reconstruct
      BY <1>0, <2>1, <2>2
         DEF Walks, Handle, HandleNone, HandleTerminal, HandleHelmChartNeedsUpdate,
             HandleHelmChartNeedsDoubleUpdate, HandleHelmChartInstalled, HandleHelmChartReady,
             HandleFlowSubmitted, HandleFlowCompleted, HandleChaincodeFlowCompleted,
             HandleReady, Handling, Teardown, Prepare, Install, SecondUpdate, NextFlow
    <2> QED
      BY <2>1, <2>3 DEF Done
  <1>2. CASE Reconstruct
    <2>1. \/ dir' = [stage |-> "complete", values |-> net.spec.desired]
          \/ dir' = [stage |-> "values", values |-> net.spec.desired]
      BY <1>2, Zenon DEF Reconstruct
    <2> QED
      BY <1>1, <2>1
  <1>3. CASE Prepare
    <2>1. dir' = [stage |-> "complete", values |-> net.spec.desired]
      BY <1>3, Zenon DEF Prepare
    <2> QED
      BY <1>1, <2>1
  <1>4. CASE HandleReady
    <2>1. dir' = dir \/ dir' = Rewritten
      BY <1>4, Zenon DEF HandleReady
    <2>2. dir.stage # "absent"
      BY <1>4 DEF HandleReady, Handling, NothingToReconstruct
    <2> QED
      BY <2>1, <2>2 DEF Rewritten
  <1>5. CASE ~Reconstruct /\ ~Prepare /\ ~HandleReady
    <2>1. dir' = dir
      BY <1>0, <1>5
         DEF Walks, Handle, HandleNone, HandleTerminal, HandleHelmChartNeedsUpdate,
             HandleHelmChartNeedsDoubleUpdate, HandleHelmChartInstalled, HandleHelmChartReady,
             HandleFlowSubmitted, HandleFlowCompleted, HandleChaincodeFlowCompleted,
             Teardown, Install, SecondUpdate, NextFlow
    <2> QED
      BY <1>1, <1>5, <2>1
  <1> QED
    BY <1>2, <1>3, <1>4, <1>5

\* A call for a version there is nothing to do for does nothing.
LEMMA DoneRests ==
    ASSUME Serving, Walks, ~Fault, Done(net)
    PROVE  pc' = "idle" /\ UNCHANGED <<queued, delayed, workflows>>
  <1>1. pc = "handle" /\ net.spec.force = "" /\ net.status.state = "Ready"
        /\ ~CallFails /\ ~HandleForce
    BY NeverForced, WalkEnds DEF Serving, Turns, Busy, Done, CallFails, HandleForce
  <1>2. HandleReady
    <2>1. \A flow \in Flows : "Ready" # Submitted[flow] /\ "Ready" # Completed[flow]
      BY Untouched
    <2>2. ~Reconstruct
      BY DirectoryStays DEF Reconstruct, NothingToReconstruct
    <2> QED
      BY <1>1, <2>1, <2>2
         DEF Walks, Handle, HandleNone, HandleTerminal, HandleHelmChartNeedsUpdate,
             HandleHelmChartNeedsDoubleUpdate, HandleHelmChartInstalled, HandleHelmChartReady,
             HandleFlowSubmitted, HandleFlowCompleted, HandleChaincodeFlowCompleted, Handling,
             Teardown, Prepare, Install, SecondUpdate, NextFlow, Flows
  <1>3. ~AreThereAnyChanges(Changes)
    <2>1. net.status.observed = net.spec.desired
      BY StoredIsKept DEF Done, Serving, TypeOK, WorkerOK, Resources
    <2>2. ASSUME NEW d PROVE ~AreThereAnyChanges(GetChanges(d, d))
      BY DEF GetChanges, AreThereAnyChanges
    <2> QED
      BY <2>1, <2>2 DEF Changes
  <1>4. Return(FALSE) /\ UNCHANGED workflows
    BY <1>2, <1>3 DEF HandleReady
  <1>5. delayed \in BOOLEAN
    BY DEF Serving, TypeOK, WorkerOK
  <1> QED
    BY <1>4, <1>5 DEF Return

\* All elements but the last: appending, and taking the first.
LEMMA AllButLastAppended ==
    ASSUME NEW S, NEW seq \in Seq(S), NEW elt \in S, NEW D,
           \A i \in DOMAIN seq : i < Len(seq) => seq[i] \in D,
           seq # <<>> => seq[Len(seq)] \in D
    PROVE  \A i \in DOMAIN Append(seq, elt) :
                i < Len(Append(seq, elt)) => Append(seq, elt)[i] \in D
  <1>1. PICK n \in Nat : n = Len(seq)
    BY LenProperties
  <1>2. DOMAIN seq = 1..n /\ (n # 0 => seq # <<>>)
    BY <1>1, LenProperties, EmptySeq
  <1>3. /\ Append(seq, elt) \in Seq(S) /\ Len(Append(seq, elt)) = n + 1
        /\ \A i \in 1..n : Append(seq, elt)[i] = seq[i]
    BY <1>1, AppendProperties
  <1>4. DOMAIN Append(seq, elt) = 1..(n + 1)
    BY <1>3, LenProperties
  <1>5. ASSUME NEW i \in 1..(n + 1), i < n + 1 PROVE Append(seq, elt)[i] \in D
    <2>1. i \in 1..n /\ n # 0 /\ (i < n \/ i = n)
      BY <1>5
    <2> QED
      BY <1>1, <1>2, <1>3, <2>1
  <1> QED
    BY <1>3, <1>4, <1>5

LEMMA AllButLastTaken ==
    ASSUME NEW S, NEW seq \in Seq(S), seq # <<>>, NEW D,
           \A i \in DOMAIN seq : i < Len(seq) => seq[i] \in D
    PROVE  /\ Tail(seq) # <<>> => Head(seq) \in D
           /\ \A i \in DOMAIN Tail(seq) : i < Len(Tail(seq)) => Tail(seq)[i] \in D
  <1>1. PICK n \in Nat : n = Len(seq)
    BY LenProperties
  <1>2. DOMAIN seq = 1..n /\ n # 0
    BY <1>1, LenProperties, EmptySeq
  <1>3. /\ Head(seq) = seq[1] /\ Tail(seq) \in Seq(S) /\ Len(Tail(seq)) = n - 1
        /\ \A i \in 1..Len(Tail(seq)) : Tail(seq)[i] = seq[i + 1]
    BY <1>1, HeadTailProperties
  <1>4. DOMAIN Tail(seq) = 1..(n - 1) /\ (Tail(seq) # <<>> => n - 1 # 0)
    BY <1>3, LenProperties, EmptySeq
  <1>5. ASSUME NEW i \in 1..(n - 1), i < n - 1 PROVE Tail(seq)[i] \in D
    <2>1. i + 1 \in 1..n /\ i + 1 < n
      BY <1>5
    <2>2. seq[i + 1] \in D
      BY <1>1, <1>2, <2>1
    <2> QED
      BY <1>3, <1>5, <2>2
  <1>6. ASSUME n - 1 # 0 PROVE seq[1] \in D
    <2>1. 1 \in 1..n /\ 1 < n
      BY <1>2, <1>6
    <2> QED
      BY <1>1, <1>2, <2>1
  <1> QED
    BY <1>3, <1>4, <1>5, <1>6

\* The user, if at all, writes behind a version there is nothing to do for.
LEMMA TurnsUser ==
    ASSUME Serving, UserEdits \/ UserForces
    PROVE  /\ Turns' /\ NotLost' /\ Applying' /\ RunsTracked'
           /\ status.state = "Ready"
  <1>1. PICK s \in [desired : SpecsOrUnset, force : Forceable \union {""}] :
            Write(s, status) /\ fresh' = FALSE /\ UNCHANGED <<pc, net, pending>>
    BY UserWriteIs DEF Serving, TypeOK
  <1>2. /\ Settled /\ UNCHANGED <<queued, delayed, dir, workflows>>
    BY DEF UserEdits, UserForces, UserWrites, cluster, Serving, Patience, Waiting
  <1>3. Done(Current) /\ status.state = "Ready" /\ Current \in Seen
    BY <1>2, SettledIsDone, SeenNow DEF Settled
  <1>4. [spec |-> s, status |-> status] \in Resources /\ watch \in Seq(Resources)
    BY DEF Serving, TypeOK, ResourceOK, Resources
  <1>5. /\ watch' = Append(watch, [spec |-> s, status |-> status])
        /\ status' = status /\ cache' = cache
    BY <1>1 DEF Write
  <1>6. ~delayed
    BY <1>2 DEF Serving, Turns
  <1>7. Busy => Done(net) /\ pc = "handle"
    <2>1. Busy /\ fresh => net = Current
      BY DEF Serving, Consistent, Copies, CopyIsCurrent, Busy
    <2> QED
      BY <1>3, <2>1 DEF Serving, Turns
  <1>8. queued => Done(cache)
    <2>1. watch = <<>> => cache = Current
      BY DEF Serving, Consistent, Copies, CacheCatchesUp
    <2> QED
      BY <1>3, <2>1 DEF Serving, Turns
  <1>9. \A i \in DOMAIN watch' : i < Len(watch') => Done(watch'[i])
    <2> DEFINE D == { x \in Resources : Done(x) }
    <2>1. \A i \in DOMAIN watch : watch[i] \in Resources
      <3>1. watch \in Seq(Resources)
        BY <1>4
      <3>2. DOMAIN watch = 1..Len(watch)
        BY <3>1, LenProperties
      <3>3. \A i \in 1..Len(watch) : watch[i] \in Resources
        BY <3>1, ElementOfSeq
      <3> QED
        BY <3>2, <3>3
    <2>2. \A i \in DOMAIN watch : i < Len(watch) => watch[i] \in D
      BY <2>1 DEF Serving, Turns
    <2>3. watch # <<>> => watch[Len(watch)] \in D
      <3>1. Current \in D
        BY <1>3 DEF Current, Serving, TypeOK, ResourceOK, Resources
      <3> QED
        BY <3>1 DEF Serving, Consistent, Copies, CacheCatchesUp
    <2>4. PICK new \in Resources : new = [spec |-> s, status |-> status]
      BY <1>4
    <2> HIDE DEF D
    <2>5. \A i \in DOMAIN Append(watch, new) :
                i < Len(Append(watch, new)) => Append(watch, new)[i] \in D
      BY <1>4, <2>2, <2>3, AllButLastAppended
    <2>6. PICK longer : longer = Append(watch, new)
      OBVIOUS
    <2>7. watch' = longer
      BY <1>5, <2>4, <2>6
    <2>8. \A i \in DOMAIN watch' : i < Len(watch') => watch'[i] \in D
      BY <2>5, <2>6, <2>7
    <2> QED
      BY <2>8 DEF D
  <1>10. Turns'
    BY <1>1, <1>2, <1>5, <1>6, <1>7, <1>8, <1>9 DEF Turns, Busy, Done
  <1>11. dir'.stage # "absent"
    BY <1>2, <1>3 DEF Serving, NotLost, Current
  <1>12. Applying' /\ RunsTracked'
    <2>1. pc' = pc /\ pending' = pending /\ net' = net /\ status' = status
          /\ workflows' = workflows
      BY <1>1, <1>2, <1>5
    <2>2. pc # "save" /\ pc # "nextFlow"
      BY <1>7 DEF Busy
    <2> QED
      BY <1>3, <2>1, <2>2 DEF Applying, RunsTracked, Serving
  <1> QED
    BY <1>3, <1>10, <1>11, <1>12 DEF NotLost

LEMMA TurnsIdle ==
    ASSUME Serving, Idles PROVE Turns' /\ NotLost' /\ Applying' /\ RunsTracked'
  <1>1. UNCHANGED <<resource, informer, worker>>
    BY IdleIs
  <1>2. /\ \/ UNCHANGED <<queued, delayed>>
           \/ delayed /\ ~delayed' /\ queued'
           \/ Quiet /\ UNCHANGED delayed /\ queued'
        /\ dir' = dir
    BY DEF Idles, TimerFires, Resync, PodsRestarting, PodsReady, ServicesListed, WorkflowEnds,
           vars, Serving, Patience
  <1>3. UNCHANGED <<spec, status, watch, cache, pc, net, fresh, pending>>
    BY <1>1 DEF resource, informer, worker
  <1>4. Turns'
    <2>1. CASE UNCHANGED <<queued, delayed>>
      BY <1>3, <2>1 DEF Serving, Turns, Busy, Done, Settled
    <2>2. CASE delayed /\ ~delayed' /\ queued'
      BY <1>3, <2>2 DEF Serving, Turns, Busy, Done
    <2>3. CASE Quiet /\ UNCHANGED delayed /\ queued'
      BY <1>3, <2>3 DEF Serving, Turns, Quiet, Busy, Done
    <2> QED
      BY <1>2, <2>1, <2>2, <2>3
  <1>5. NotLost'
    <2>1. \A x \in Seen' : x \in Seen
      BY <1>1, <1>3, SeenKept DEF Busy
    <2> QED
      BY <1>2, <1>3, <2>1 DEF Serving, NotLost
  <1>6. Applying'
    BY <1>3 DEF Serving, Applying
  <1>7. RunsTracked'
    <2>1. \A n \in Names : workflows'[n].phase = "Running" => workflows[n].phase = "Running"
      <3>1. ASSUME NEW m \in Names, WorkflowEnds(m), NEW n \in Names,
                   workflows'[n].phase = "Running"
            PROVE  workflows[n].phase = "Running"
        <4>1. PICK phase \in Outcomes : workflows' = [workflows EXCEPT ![m].phase = phase]
          BY <3>1 DEF WorkflowEnds
        <4>2. workflows \in [Names -> Workflows] /\ workflows[m].phase = "Running"
          BY <3>1 DEF Serving, TypeOK, ClusterOK, WorkflowEnds
        <4> QED
          BY <3>1, <4>1, <4>2
      <3> QED
        BY <3>1 DEF Idles, TimerFires, Resync, PodsRestarting, PodsReady, ServicesListed, vars,
                    cluster
    <2> QED
      BY <1>3, <2>1 DEF Serving, RunsTracked
  <1> QED
    BY <1>4, <1>5, <1>6, <1>7

LEMMA TurnsDeliver ==
    ASSUME Serving, Deliver PROVE Turns' /\ NotLost' /\ Applying' /\ RunsTracked'
  <1>1. /\ watch # <<>> /\ cache' = Head(watch) /\ watch' = Tail(watch) /\ queued' = TRUE
        /\ UNCHANGED <<spec, status, delayed, pc, net, fresh, pending, dir, workflows>>
    BY DEF Deliver, resource, worker, cluster
  <1>2. watch \in Seq(Resources)
    BY DEF Serving, TypeOK, ResourceOK
  <1>3. /\ watch' # <<>> => Done(cache')
        /\ \A i \in DOMAIN watch' : i < Len(watch') => Done(watch'[i])
    <2> DEFINE D == { x \in Resources : Done(x) }
    <2>1. \A i \in DOMAIN watch : watch[i] \in Resources
      <3>1. DOMAIN watch = 1..Len(watch)
        BY <1>2, LenProperties
      <3>2. \A i \in 1..Len(watch) : watch[i] \in Resources
        BY <1>2, ElementOfSeq
      <3> QED
        BY <3>1, <3>2
    <2>2. \A i \in DOMAIN watch : i < Len(watch) => watch[i] \in D
      BY <2>1 DEF Serving, Turns
    <2> HIDE DEF D
    <2>3. /\ Tail(watch) # <<>> => Head(watch) \in D
          /\ \A i \in DOMAIN Tail(watch) : i < Len(Tail(watch)) => Tail(watch)[i] \in D
      BY <1>1, <1>2, <2>2, AllButLastTaken
    <2>4. PICK rest : rest = Tail(watch)
      OBVIOUS
    <2>5. watch' = rest
      BY <1>1, <2>4
    <2>6. \A i \in DOMAIN watch' : i < Len(watch') => watch'[i] \in D
      BY <2>3, <2>4, <2>5
    <2>7. watch' # <<>> => cache' \in D
      BY <1>1, <2>3, <2>4, <2>5
    <2> QED
      BY <2>6, <2>7 DEF D
  <1>4. ~delayed /\ (Busy => ~fresh)
    BY <1>1 DEF Serving, Turns
  <1>5. Turns'
    BY <1>1, <1>3, <1>4 DEF Serving, Turns, Busy, Done
  <1>6. NotLost'
    <2>1. \A x \in Seen' : x \in Seen
      BY SeenDelivered DEF Serving, TypeOK
    <2> QED
      BY <1>1, <2>1 DEF Serving, NotLost
  <1> QED
    BY <1>1, <1>5, <1>6 DEF Serving, Applying, RunsTracked

LEMMA TurnsBegin ==
    ASSUME Serving, Begin PROVE Turns' /\ NotLost' /\ Applying' /\ RunsTracked'
  <1>1. /\ pc = "idle" /\ queued /\ ~queued' /\ pc' = "handle" /\ net' = cache
        /\ fresh' = (watch = <<>>)
        /\ UNCHANGED <<spec, status, watch, cache, delayed, dir, workflows>>
    BY DEF Begin, resource, informer, cluster
  <1>2. ~delayed /\ (watch # <<>> => Done(cache))
    BY <1>1 DEF Serving, Turns
  <1>3. Turns'
    BY <1>1, <1>2 DEF Serving, Turns, Busy, Done
  <1>4. NotLost'
    <2>1. \A x \in Seen' : x \in Seen
      BY <1>1, SeenKept DEF resource, informer
    <2> QED
      BY <1>1, <2>1 DEF Serving, NotLost
  <1> QED
    BY <1>1, <1>3, <1>4 DEF Serving, Applying, RunsTracked

\* A save is accepted, and ends the call: what it has written is the next thing
\* under way.
LEMMA TurnsSave ==
    ASSUME Serving, SaveStatus, ~Fault
    PROVE  /\ Turns' /\ NotLost' /\ Applying' /\ RunsTracked'
           /\ net = Current
  <1>1. pc = "save" /\ Busy
    BY DEF SaveStatus, Busy
  <1>2. /\ fresh /\ net = Current /\ watch = <<>> /\ ~queued /\ ~delayed
        /\ net.spec = spec /\ net.status = status
    BY <1>1, ActiveWorker
  <1>3. pending.then = "idle"
    BY <1>1 DEF Serving, Applying
  <1>4. UNCHANGED <<dir, workflows>>
    BY DEF SaveStatus, cluster
  <1>5. PICK saved \in Statuses :
            /\ saved.state = pending.status.state
            /\ saved.workflow = pending.status.workflow
            /\ saved.observed = Stored(pending.status.observed)
            /\ Write(spec, saved) /\ pc' = "idle"
    <2> DEFINE s == [pending.status EXCEPT !.observed = Stored(pending.status.observed)]
    <2>1. Write(spec, s) /\ Continue(s)
      BY <1>2, Zenon DEF SaveStatus, Accepted
    <2>2. s \in Statuses /\ s.state = pending.status.state /\ s.workflow = pending.status.workflow
            /\ s.observed = Stored(pending.status.observed)
      BY StoredSpecs DEF Serving, TypeOK, WorkerOK, Statuses
    <2> HIDE DEF s
    <2>3. pc' = "idle"
      BY <1>3, <2>1 DEF Continue, Return
    <2> QED
      BY <2>1, <2>2, <2>3
  <1>6. ~queued' /\ ~delayed'
    <2>1. Return(FALSE)
      BY <1>2, <1>3, Zenon DEF SaveStatus, Accepted, Continue
    <2> QED
      BY <1>2, <2>1 DEF Return
  <1>7. \A i \in DOMAIN watch' : ~(i < Len(watch'))
    <2>1. PICK new \in Resources : new = [spec |-> spec, status |-> saved]
      BY DEF Serving, TypeOK, ResourceOK, Resources
    <2>2. watch' = Append(<<>>, new)
      BY <1>2, <1>5, <2>1 DEF Write
    <2>3. watch' \in Seq(Resources) /\ Len(watch') = 1
      BY <2>1, <2>2, EmptySeq, AppendProperties
    <2>4. DOMAIN watch' = 1..1
      BY <2>3, LenProperties
    <2> QED
      BY <2>3, <2>4
  <1>8. Turns'
    BY <1>5, <1>6, <1>7 DEF Turns, Busy
  <1>9. NotLost'
    BY <1>1, <1>4 DEF Serving, NotLost
  <1>10. status' = saved /\ spec' = spec
    BY <1>5 DEF Write
  <1>11. Applying'
    <2>1. net.spec.desired \in SpecsOrUnset
      BY DEF Serving, TypeOK, WorkerOK, Resources
    <2>2. Stored(net.spec.desired) = spec.desired
      BY <1>2, <2>1, StoredIsKept DEF Serving
    <2> QED
      BY <1>1, <1>5, <1>10, <2>2 DEF Serving, Applying
  <1>12. RunsTracked'
    BY <1>1, <1>4, <1>5, <1>10 DEF Serving, RunsTracked
  <1> QED
    BY <1>2, <1>8, <1>9, <1>11, <1>12

LEMMA TurnsWalk == ASSUME Serving, Walks, ~Fault PROVE Turns' /\ NotLost'
  <1>1. UNCHANGED <<spec, status, watch, cache>> /\ Busy
    BY WalkEnds DEF resource, informer, Busy
  <1>2. NotLost'
    BY DirectoryStays DEF NotLost
  <1>3. CASE Done(net)
    <2>1. pc' = "idle" /\ UNCHANGED <<queued, delayed>>
      BY <1>3, DoneRests
    <2>2. Turns /\ ~delayed
      BY <1>1 DEF Serving, Turns, Busy
    <2>3. Turns'
      BY <1>1, <2>1, <2>2 DEF Turns, Busy, Done
    <2> QED
      BY <1>2, <2>3
  <1>4. CASE ~Done(net)
    <2>1. fresh /\ net = Current /\ watch = <<>> /\ ~queued /\ ~delayed
      BY <1>1, <1>4, ActiveWorker
    <2>2. ~Settled /\ ~Settled'
      BY <1>1, <1>4, <2>1, SettledIsDone DEF Settled
    <2>3. \A i \in DOMAIN watch' : i < Len(watch') => Done(watch'[i])
      BY <1>1 DEF Serving, Turns
    <2>4. CASE \E requeue \in BOOLEAN : Return(requeue)
      <3>1. pc' = "idle" /\ queued' = queued
        BY <2>4 DEF Return
      <3> QED
        BY <1>1, <1>2, <2>1, <2>2, <2>3, <3>1 DEF Turns, Busy, Done
    <2>5. CASE UNCHANGED <<queued, delayed, net, fresh>> /\ pc' # "idle"
      BY <1>1, <1>2, <1>4, <2>1, <2>3, <2>5 DEF Turns, Busy, Done
    <2> QED
      BY <2>4, <2>5, WalkTokens
  <1> QED
    BY <1>2, <1>3, <1>4

\* Which walks save, what, and where they go otherwise.
LEMMA WalkDrafts ==
    ASSUME Serving, Walks, ~Fault, ~Done(net), Consistent'
    PROVE  Applying'
  <1>1. /\ net = Current /\ net.spec = spec /\ net.status = status
        /\ UNCHANGED <<spec, status>> /\ Busy
    BY ActiveWorker, WalkEnds DEF resource, Busy
  <1>2. net.spec.desired \in SpecsOrUnset /\ ~CallFails /\ ~HandleForce
            /\ pending.then \in {"idle", "nextFlow", "clearForce"}
    BY NeverForced DEF Serving, TypeOK, WorkerOK, Resources, CallFails, HandleForce
  <1>3. CASE pc' = "idle"
    BY <1>1, <1>3 DEF Serving, Applying
  <1>4. ASSUME pc' # "idle" PROVE net' = net
    BY <1>4, WalkEnds
  <1>5. ASSUME NEW draft, NEW checked, Save(draft, checked, "idle"),
               \/ draft.state \in {"Ready", "Rejected"}
               \/ draft.observed = net.spec.desired
               \/ net.status.state \notin {"", "Ready", "Rejected"}
        PROVE  Applying'
    <2>1. /\ pc' = "save" /\ net' = net /\ pending'.status = draft
          /\ pending'.then = "idle"
      BY <1>5 DEF Save
    <2>2. draft.observed \in {net.status.observed, net.spec.desired}
      BY <2>1 DEF Consistent, Intentions, DraftLegal
    <2>3. net.status.state \notin {"", "Ready", "Rejected"} =>
                net.status.observed = net.spec.desired
      BY <1>1 DEF Serving, Applying
    <2> QED
      BY <1>1, <1>5, <2>1, <2>2, <2>3 DEF Serving, Applying
  <1>6. ASSUME NEW label \in {"handle", "prepare", "install", "secondUpdate"}, Goto(label)
        PROVE  Applying'
    BY <1>1, <1>6 DEF Goto, Serving, Applying
  <1>7. ASSUME NEW flow, NEW values, NEW include, NEW draft,
               StartFlow(flow, values, include, draft)
        PROVE  \/ pc' = "idle"
               \/ \E d : Save(d, FALSE, "idle") /\ \E n \in Names : d = Tracking(draft, flow, n)
    BY <1>7 DEF StartFlow, Return
  <1>w. \A state : /\ With(state, 0).state = state
                   /\ Observing(With(state, 0)).observed = net.spec.desired
    BY WithFields DEF Serving
  <1>8. CASE HandleNone
    <2>1. Save(Observing(With("New", 0)), FALSE, "idle") \/ Save(With("Rejected", 0), TRUE, "idle")
      BY <1>8 DEF HandleNone
    <2> QED
      BY <1>5, <1>w, <2>1
  <1>9. CASE HandleTerminal
    BY <1>3, <1>9 DEF HandleTerminal, Return
  <1>10. CASE HandleHelmChartNeedsUpdate \/ HandleHelmChartNeedsDoubleUpdate \/ SecondUpdate
    <2>1. net.status.state \in {"HelmChartNeedsUpdate", "HelmChartNeedsDoubleUpdate"}
      BY <1>10 DEF HandleHelmChartNeedsUpdate, HandleHelmChartNeedsDoubleUpdate, Handling,
                   SecondUpdate, Serving, Consistent, Intentions, Whereabouts
    <2>2. pc' = "idle" \/ Save(With("HelmChartInstalled", 0), FALSE, "idle") \/ Goto("secondUpdate")
      BY <1>10 DEF HandleHelmChartNeedsUpdate, HandleHelmChartNeedsDoubleUpdate, SecondUpdate,
                   Return
    <2> QED
      BY <1>3, <1>5, <1>6, <2>1, <2>2
  <1>11. CASE HandleHelmChartInstalled
    <2>1. net.status.state = "HelmChartInstalled"
      BY <1>11 DEF HandleHelmChartInstalled, Handling
    <2>2. pc' = "idle" \/ Save(With("HelmChartReady", 0), FALSE, "idle")
      BY <1>11 DEF HandleHelmChartInstalled, Return
    <2> QED
      BY <1>3, <1>5, <2>1, <2>2
  <1>12. CASE HandleHelmChartReady
    <2>1. net.status.state = "HelmChartReady"
      BY <1>12 DEF HandleHelmChartReady, Handling
    <2>2. net.status.observed = net.spec.desired
      BY <1>1, <2>1 DEF Serving, Applying
    <2>3. ~Changes.topology
      BY <2>2 DEF Changes, GetChanges
    <2>4. Goto("nextFlow")
      BY <1>12, <2>3 DEF HandleHelmChartReady
    <2> QED
      BY <1>1, <2>1, <2>4 DEF Goto, Serving, Applying
  <1>13. ASSUME NEW flow \in Flows, HandleFlowSubmitted(flow) PROVE Applying'
    <2>1. net.status.state = Submitted[flow]
      BY <1>13 DEF HandleFlowSubmitted, Handling
    <2>2. pc' = "idle" \/ \E draft : Save(draft, FALSE, "idle")
      BY <1>13 DEF HandleFlowSubmitted, Return
    <2>3. Submitted[flow] \notin {"", "Ready", "Rejected"}
      BY FlowTable
    <2> QED
      BY <1>3, <1>5, <2>1, <2>2, <2>3
  <1>14. CASE HandleFlowCompleted("channel", "chaincode") \/ HandleFlowCompleted("peerOrg", "channel")
                \/ NextFlow
    <2>1. net.status.state \in { "ChannelFlowCompleted", "PeerOrgFlowCompleted", "HelmChartReady" }
      BY <1>14, FlowTable DEF HandleFlowCompleted, Handling, NextFlow, Serving, Applying
    <2>2. pc' = "idle" \/ \E draft : Save(draft, FALSE, "idle")
      BY <1>7, <1>14 DEF HandleFlowCompleted, NextFlow
    <2> QED
      BY <1>3, <1>5, <2>1, <2>2
  <1>15. CASE HandleChaincodeFlowCompleted
    <2>1. Save(With("Ready", 0), FALSE, "idle")
      BY <1>15 DEF HandleChaincodeFlowCompleted
    <2> QED
      BY <1>5, <1>w, <2>1
  <1>16. CASE HandleReady
    <2>1. ASSUME NEW flow \in Flows, NEW values, NEW include,
                 StartFlow(flow, values, include, Observing(net.status))
          PROVE  Applying'
      <3>1. net.status \in Statuses
        BY DEF Serving, TypeOK, WorkerOK, Resources
      <3>2. \A n \in Names : Tracking(Observing(net.status), flow, n).observed = net.spec.desired
        BY <3>1 DEF Tracking, Observing, Statuses
      <3> QED
        BY <1>3, <1>5, <1>7, <2>1, <3>2
    <2>2. ASSUME NEW p, Save([Observing(With(p[1], 0)) EXCEPT !.nextFlow = p[2]], TRUE, "idle"),
                 p[1] \in States
          PROVE  Applying'
      <3>1. Observing(With(p[1], 0)) \in Statuses
        BY <2>2, WithType, ObservingType DEF Serving, TypeOK
      <3>2. PICK draft : draft = [Observing(With(p[1], 0)) EXCEPT !.nextFlow = p[2]]
        OBVIOUS
      <3>3. draft.observed = net.spec.desired
        BY <1>w, <3>1, <3>2 DEF Statuses
      <3> QED
        BY <1>5, <2>2, <3>2, <3>3
    <2>3. ASSUME NEW p \in HelmPath(Changes) PROVE p[1] \in States
      <3>1. Changes.peerOrgs \in BOOLEAN /\ Changes.ordererOrgs \in BOOLEAN
        BY DEF Changes, GetChanges
      <3>2. p[1] \in {"HelmChartNeedsUpdate", "HelmChartNeedsDoubleUpdate"}
        BY <3>1, HelmPathStates
      <3> QED
        BY <3>2 DEF States
    <2>4. \/ \E requeue : Return(requeue)
          \/ \E p \in HelmPath(Changes) :
                Save([Observing(With(p[1], 0)) EXCEPT !.nextFlow = p[2]], TRUE, "idle")
          \/ StartFlow("channel", dir', {}, Observing(net.status))
          \/ StartFlow("chaincode", dir', Changes.chaincodes, Observing(net.status))
      BY <1>16, Zenon DEF HandleReady
    <2>5. (\E requeue : Return(requeue)) => pc' = "idle"
      BY DEF Return
    <2> QED
      BY <1>3, <2>1, <2>2, <2>3, <2>4, <2>5 DEF Flows
  <1>17. CASE Reconstruct \/ Teardown
    <2>1. pc' = "idle" \/ Goto("handle") \/ Goto("prepare")
      BY <1>17 DEF Reconstruct, Teardown, Return
    <2> QED
      BY <1>3, <1>6, <2>1
  <1>18. CASE Prepare
    <2>1. pc' = "idle" \/ Goto("install")
      BY <1>18 DEF Prepare, Return
    <2> QED
      BY <1>3, <1>6, <2>1
  <1>19. CASE Install
    <2>1. net.status.state = "New"
      BY <1>19 DEF Install, Serving, Consistent, Intentions, Whereabouts
    <2>2. pc' = "idle" \/ \E draft : Save(draft, FALSE, "idle")
      BY <1>19 DEF Install, Return
    <2> QED
      BY <1>3, <1>5, <2>1, <2>2
  <1> QED
    BY <1>2, <1>8, <1>9, <1>10, <1>11, <1>12, <1>13, <1>14, <1>15, <1>16, <1>17, <1>18, <1>19
       DEF Walks, Handle

\* When the worker submits a workflow none runs; when it gives up the tracked
\* one, that one has ended.
LEMMA WalkTracks ==
    ASSUME Serving, Walks, ~Fault, ~Done(net)
    PROVE  RunsTracked'
  <1>1. /\ net.status = status /\ status' = status /\ Busy
        /\ pc \in {"handle", "prepare", "install", "secondUpdate", "nextFlow"}
        /\ workflows \in [Names -> Workflows] /\ net.status \in Statuses
    BY ActiveWorker, WalkEnds DEF resource, Busy, Serving, TypeOK, ClusterOK, WorkerOK, Resources
  <1>2. \A n \in Names : workflows[n].phase = "Running" =>
            status.workflow = n /\ \E flow \in Flows : status.state = Submitted[flow]
    BY <1>1 DEF Serving, RunsTracked
  <1>3. ASSUME \A flow \in Flows : net.status.state # Submitted[flow],
               NEW flow \in Flows, NEW values, NEW include, NEW draft \in Statuses,
               StartFlow(flow, values, include, draft)
        PROVE  RunsTracked'
    <2>1. \A n \in Names : workflows[n].phase # "Running"
      BY <1>1, <1>2, <1>3
    <2>2. CASE workflows' = workflows
      BY <2>1, <2>2 DEF RunsTracked
    <2>3. ASSUME NEW n \in Names,
                 workflows' = [workflows EXCEPT ![n] =
                    [flow |-> flow, values |-> values.values,
                     chaincode |-> net.spec.desired.chaincode, include |-> include,
                     phase |-> "Running"]],
                 Save(Tracking(draft, flow, n), FALSE, "idle")
          PROVE  RunsTracked'
      <3>1. PICK to : to = Tracking(draft, flow, n)
        OBVIOUS
      <3>2. to.state = Submitted[flow] /\ to.workflow = n
        BY <3>1 DEF Tracking, Statuses
      <3>3. pc' = "save" /\ pending'.status = to
        BY <2>3, <3>1 DEF Save
      <3>4. \A m \in Names : m # n => workflows'[m] = workflows[m]
        BY <1>1, <2>3
      <3> QED
        BY <2>1, <3>2, <3>3, <3>4 DEF RunsTracked
    <2> QED
      BY <1>3, <2>2, <2>3, Zenon DEF StartFlow
  <1>4. ASSUME \A n \in Names : workflows'[n].phase = "Running" => workflows'[n] = workflows[n],
               \/ pc' # "save"
               \/ \A flow \in Flows : net.status.state # Submitted[flow]
               \/ \A n \in Names : workflows[n].phase # "Running"
        PROVE  RunsTracked'
    BY <1>1, <1>2, <1>4 DEF RunsTracked
  <1>5. CASE NextFlow \/ HandleFlowCompleted("channel", "chaincode")
                      \/ HandleFlowCompleted("peerOrg", "channel") \/ HandleReady
    <2>1. net.status.state \in { "HelmChartReady", "New", "ChannelFlowCompleted",
                                 "PeerOrgFlowCompleted", "Ready" }
      BY <1>5, FlowTable DEF NextFlow, HandleFlowCompleted, HandleReady, Handling,
                             Serving, Consistent, Intentions, Whereabouts
    <2>2. \A flow \in Flows : net.status.state # Submitted[flow]
      BY <2>1, FlowTable
    <2>3. CASE UNCHANGED workflows
      BY <1>4, <2>2, <2>3
    <2>4. Observing(net.status) \in Statuses
      BY <1>1, ObservingType DEF Serving, TypeOK
    <2>5. CASE HandleReady
      <3>1. \/ UNCHANGED workflows
            \/ StartFlow("channel", dir', {}, Observing(net.status))
            \/ StartFlow("chaincode", dir', Changes.chaincodes, Observing(net.status))
        BY <2>5, Zenon DEF HandleReady
      <3> QED
        BY <1>3, <2>2, <2>3, <2>4, <3>1 DEF Flows
    <2>6. CASE ~HandleReady
      <3>1. \/ UNCHANGED workflows
            \/ \E flow \in Flows : StartFlow(flow, dir, {}, net.status)
        BY <1>5, <2>6 DEF NextFlow, HandleFlowCompleted, Flows
      <3> QED
        BY <1>1, <1>3, <2>2, <2>3, <3>1
    <2> QED
      BY <2>5, <2>6
  <1>6. CASE ~(NextFlow \/ HandleFlowCompleted("channel", "chaincode")
                        \/ HandleFlowCompleted("peerOrg", "channel") \/ HandleReady)
    <2>1. \A n \in Names : workflows'[n].phase = "Running" => workflows'[n] = workflows[n]
      BY <1>6, NoneStarts DEF Walks, Next, Worker, Serving
    <2>2. CASE \A flow \in Flows : net.status.state # Submitted[flow]
      BY <1>4, <2>1, <2>2
    <2>3. ASSUME NEW flow \in Flows, net.status.state = Submitted[flow] PROVE RunsTracked'
      <3>1. pc = "handle"
        <4>1. net.status.state \notin {"New", "HelmChartNeedsDoubleUpdate", "HelmChartReady"}
          BY <2>3, FlowTable
        <4> QED
          BY <1>1, <4>1 DEF Serving, Consistent, Intentions, Whereabouts
      <3>2. CASE Reconstruct
        <4>1. pc' # "save"
          BY <3>2 DEF Reconstruct, Goto, Return
        <4> QED
          BY <1>4, <2>1, <4>1
      <3>3. ASSUME NEW other \in Flows, HandleFlowSubmitted(other) PROVE RunsTracked'
        <4>1. CASE pc' # "save"
          BY <1>4, <2>1, <4>1
        <4>2. CASE pc' = "save"
          <5>1. WorkflowStatus(workflows[net.status.workflow].phase) \in {"Completed", "Failed"}
            BY <3>3, <4>2 DEF HandleFlowSubmitted, Return
          <5>2. workflows[net.status.workflow].phase # "Running"
            BY <5>1 DEF WorkflowStatus
          <5>3. \A n \in Names : workflows[n].phase # "Running"
            BY <1>1, <1>2, <5>2
          <5> QED
            BY <1>4, <2>1, <5>3
        <4> QED
          BY <4>1, <4>2
      <3>4. Reconstruct \/ \E other \in Flows : HandleFlowSubmitted(other)
        <4>1. /\ ~CallFails /\ ~HandleForce
              /\ net.status.state \notin { "", "New", "Ready", "Rejected", "Failed",
                    "HelmChartInstalled", "HelmChartNeedsUpdate", "HelmChartNeedsDoubleUpdate",
                    "HelmChartReady", "ChaincodeFlowCompleted" }
          BY <2>3, FlowTable, NeverForced DEF CallFails, HandleForce
        <4> QED
          BY <1>6, <3>1, <4>1
             DEF Walks, Handle, HandleNone, HandleTerminal, HandleHelmChartNeedsUpdate,
                 HandleHelmChartNeedsDoubleUpdate, HandleHelmChartInstalled,
                 HandleHelmChartReady, HandleChaincodeFlowCompleted, Handling,
                 Teardown, Prepare, Install, SecondUpdate
      <3> QED
        BY <3>2, <3>3, <3>4
    <2> QED
      BY <2>2, <2>3
  <1> QED
    BY <1>5, <1>6

LEMMA InTurnsKept ==
    ASSUME TypeOK, Consistent, Consistent', InTurns, Patience, [Next]_vars PROVE InTurns'
  <1> SUFFICES ASSUME Undisturbed' PROVE Turns' /\ NotLost' /\ Applying' /\ RunsTracked'
    BY DEF InTurns
  <1>1. Undisturbed /\ ~Fault /\ ~Crash
    BY Undisturbing DEF TypeOK
  <1>2. Serving
    BY <1>1 DEF Serving, InTurns
  <1>3. CASE Idles
    BY <1>2, <1>3, TurnsIdle
  <1>4. CASE UserEdits \/ UserForces
    BY <1>2, <1>4, TurnsUser
  <1>5. CASE Deliver
    BY <1>2, <1>5, TurnsDeliver
  <1>6. CASE Begin
    BY <1>2, <1>6, TurnsBegin
  <1>7. CASE SaveStatus
    BY <1>1, <1>2, <1>7, TurnsSave
  <1>8. CASE Walks /\ ~Done(net)
    BY <1>1, <1>2, <1>8, TurnsWalk, WalkDrafts, WalkTracks
  <1>9. CASE Walks /\ Done(net)
    <2>1. pc' = "idle" /\ UNCHANGED <<status, spec, workflows>> /\ pc = "handle"
      BY <1>1, <1>2, <1>9, DoneRests, WalkEnds DEF resource, Serving, Turns, Busy
    <2>2. Applying' /\ RunsTracked'
      BY <1>2, <2>1 DEF Serving, Applying, RunsTracked
    <2> QED
      BY <1>1, <1>2, <1>9, <2>2, TurnsWalk
  <1>10. CASE ClearForce
    BY <1>2, <1>10, NeverForced DEF ClearForce
  <1> QED
    BY <1>1, <1>3, <1>4, <1>5, <1>6, <1>7, <1>8, <1>9, <1>10
       DEF Next, Worker, Environment, Idles, Walks

LEMMA InTurnsStart == Init => InTurns
  <1> SUFFICES ASSUME Init PROVE Turns /\ NotLost /\ Applying /\ RunsTracked
    BY DEF InTurns
  <1>1. /\ ~delayed /\ pc = "idle" /\ watch = <<>> /\ status = FirstStatus
        /\ cache = Current /\ workflows = [n \in Names |-> NoWorkflow]
    BY DEF Init, Current
  <1>2. FirstStatus.state = "" /\ NoWorkflow.phase = "Absent"
    BY DEF FirstStatus, NoWorkflow
  <1>3. DOMAIN watch = {}
    <2>1. watch \in Seq({}) /\ Len(watch) = 0
      BY <1>1, EmptySeq
    <2> QED
      BY <2>1, LenProperties
  <1>4. Turns
    BY <1>1, <1>3 DEF Turns, Busy
  <1>5. NotLost
    <2>1. ASSUME NEW x \in Seen PROVE x = Current
      <3>1. \/ x = Current \/ x = cache \/ (Busy /\ x = net)
            \/ \E i \in DOMAIN watch : x = watch[i]
        BY <2>1, SeenNow
      <3> QED
        BY <1>1, <1>3, <3>1 DEF Busy
    <2>2. Current.status.state = ""
      BY <1>1, <1>2 DEF Current
    <2>3. \A x \in Seen : x.status.state = ""
      BY <2>1, <2>2
    <2> QED
      BY <1>1, <2>3 DEF NotLost
  <1> QED
    BY <1>1, <1>2, <1>4, <1>5 DEF Applying, RunsTracked

LEMMA InTurnsAlways == ASSUME Patience PROVE Spec => []InTurns
  <1>1. TypeOK /\ Consistent /\ Consistent' /\ InTurns /\ [Next]_vars => InTurns'
    BY InTurnsKept
  <1> QED
    BY <1>1, InTurnsStart, TypeCorrect, ConsistentAlways, PTL DEF Spec

\* For a user who waits for the network to settle, and as long as the operator
\* neither restarts nor sees a call fail, Reconcile never submits a workflow
\* while another of the network runs: at most one requeue, one call or one
\* undelivered version is under way, and it alone leads to startChannelFlow,
\* startChaincodeFlow or startPeerOrgFlow.
THEOREM OneWorkflowAtATimeAlways == ASSUME Patience PROVE Spec => []OneWorkflowAtATime
  <1>1. InTurns => OneWorkflowAtATime
    <2> SUFFICES ASSUME InTurns, NeverCrashed, NeverFailed, NEW m \in Names, NEW n \in Names,
                        workflows[m].phase = "Running", workflows[n].phase = "Running"
                 PROVE  m = n
      BY DEF OneWorkflowAtATime
    <2>1. RunsTracked
      BY DEF InTurns, Undisturbed
    <2> QED
      BY <2>1 DEF RunsTracked
  <1> QED
    BY <1>1, InTurnsAlways, PTL
=============================================================================
