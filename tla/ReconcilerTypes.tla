--------------------------- MODULE ReconcilerTypes ---------------------------
(***************************************************************************)
(* Type correctness of the reconciler, for every set of specs and edits    *)
(* and every number of edits, crashes, faults and workflows.               *)
(***************************************************************************)
EXTENDS ReconcilerProperties, SequenceTheorems, TLAPS

-----------------------------------------------------------------------------
\* Lemmas about the operators the handlers are made of.

\* Reading back a stored spec changes nothing more.
LEMMA StoredTwice == ASSUME NEW d PROVE Stored(Stored(d)) = Stored(d)
  BY DEF Stored

LEMMA StoredUnset == Stored(Unset) = Unset
  BY DEF Stored, Unset

LEMMA StoredSpecs == ASSUME NEW d \in SpecsOrUnset PROVE Stored(d) \in SpecsOrUnset
  BY StoredUnset, ReconcilerAssumption DEF SpecsOrUnset

LEMMA DomainsType ==
    ASSUME NEW d \in SpecsOrUnset PROVE d.topology.useActualDomains \in BOOLEAN
  <1>1. Unset.topology.useActualDomains = FALSE
    BY DEF Unset
  <1>2. \A e \in Specs : e.topology.useActualDomains \in BOOLEAN
    BY ReconcilerAssumption
  <1> QED
    BY <1>1, <1>2 DEF SpecsOrUnset

\* The version a write sends to the informer is a resource.
LEMMA WriteType ==
    ASSUME ResourceOK,
           NEW s \in [desired : SpecsOrUnset, force : Forceable \union {""}],
           NEW t \in Statuses,
           Write(s, t)
    PROVE  ResourceOK'
  <1>1. [spec |-> s, status |-> t] \in Resources
    BY DEF Resources
  <1>2. watch' \in Seq(Resources)
    BY <1>1, AppendProperties DEF ResourceOK, Write
  <1> QED
    BY <1>2 DEF ResourceOK, Write

LEMMA BlankType == Blank \in Resources
  BY DEF Blank, Resources, FirstStatus, Statuses, States, NextFlows, SpecsOrUnset

LEMMA NoDraftType ==
    NoDraft \in [status : Statuses, checked : BOOLEAN,
                 then : {"idle", "nextFlow", "clearForce"}]
  BY DEF NoDraft, FirstStatus, Statuses, States, NextFlows, SpecsOrUnset

LEMMA ReturnType ==
    ASSUME WorkerOK, NEW requeue \in BOOLEAN, Return(requeue), dir' \in Dirs
    PROVE  WorkerOK'
  BY BlankType, NoDraftType DEF WorkerOK, Return

LEMMA SaveType ==
    ASSUME WorkerOK, NEW draft \in Statuses, NEW checked \in BOOLEAN,
           NEW then \in {"idle", "nextFlow", "clearForce"},
           Save(draft, checked, then), dir' \in Dirs
    PROVE  WorkerOK'
  BY DEF WorkerOK, Save

LEMMA GotoType ==
    ASSUME WorkerOK,
           NEW label \in {"handle", "prepare", "install", "secondUpdate", "nextFlow"},
           Goto(label), dir' \in Dirs
    PROVE  WorkerOK'
  BY DEF WorkerOK, Goto

LEMMA WithType ==
    ASSUME WorkerOK, NEW state \in States, NEW workflow \in Names \union {0}
    PROVE  With(state, workflow) \in Statuses
  BY DEF WorkerOK, With, Statuses, Resources

LEMMA ObservingType ==
    ASSUME WorkerOK, NEW draft \in Statuses
    PROVE  Observing(draft) \in Statuses
  BY DEF WorkerOK, Observing, Statuses, Resources

LEMMA BoundsAreNaturals ==
    MaxWorkflows \in Nat /\ MaxEdits \in Nat /\ MaxCrashes \in Nat /\ MaxFaults \in Nat
  BY ReconcilerAssumption

LEMMA FaultType == ASSUME faults \in 0..MaxFaults, Fault PROVE faults' \in 0..MaxFaults
  BY BoundsAreNaturals DEF Fault

LEMMA EditType ==
    ASSUME BudgetsOK, edits > 0, edits' = edits - 1, UNCHANGED <<crashes, faults>>
    PROVE  BudgetsOK'
  <1>1. edits' \in 0..MaxEdits
    BY BoundsAreNaturals DEF BudgetsOK
  <1> QED
    BY <1>1 DEF BudgetsOK

LEMMA FlowStates ==
    ASSUME NEW flow \in Flows PROVE Submitted[flow] \in States /\ Completed[flow] \in States
  <1>1. CASE flow = "channel"
    BY <1>1 DEF Submitted, Completed, States
  <1>2. CASE flow = "chaincode"
    BY <1>2 DEF Submitted, Completed, States
  <1>3. CASE flow = "peerOrg"
    BY <1>3 DEF Submitted, Completed, States
  <1> QED
    BY <1>1, <1>2, <1>3 DEF Flows

LEMMA TrackingType ==
    ASSUME NEW draft \in Statuses, NEW flow \in Flows, NEW n \in Names
    PROVE  Tracking(draft, flow, n) \in Statuses
  BY FlowStates DEF Tracking, Statuses

LEMMA StartFlowType ==
    ASSUME TypeOK, NEW flow \in Flows, NEW values \in Dirs,
           NEW include \in SUBSET ChaincodeNames, NEW draft \in Statuses,
           StartFlow(flow, values, include, draft), dir' \in Dirs
    PROVE  /\ WorkerOK'
           /\ workflows' \in [Names -> Workflows]
           /\ faults' \in 0..MaxFaults
  <1> USE DEF TypeOK
  <1>1. CASE values.stage = "chart" /\ Return(TRUE) /\ UNCHANGED <<workflows, faults>>
    BY <1>1, ReturnType DEF ClusterOK, BudgetsOK
  <1>2. ASSUME NEW n \in Names,
               workflows' = [workflows EXCEPT ![n] =
                    [flow |-> flow, values |-> values.values,
                     chaincode |-> net.spec.desired.chaincode, include |-> include,
                     phase |-> "Running"]],
               \/ Save(Tracking(draft, flow, n), FALSE, "idle") /\ UNCHANGED faults
               \/ Fault /\ Return(TRUE)
        PROVE  /\ WorkerOK'
               /\ workflows' \in [Names -> Workflows]
               /\ faults' \in 0..MaxFaults
    <2>1. WorkerOK'
      BY <1>2, ReturnType, SaveType, TrackingType
    <2>2. faults' \in 0..MaxFaults
      BY <1>2, FaultType DEF BudgetsOK
    <2>3. [flow |-> flow, values |-> values.values, chaincode |-> net.spec.desired.chaincode,
           include |-> include, phase |-> "Running"] \in Workflows
      BY DEF WorkerOK, Resources, Dirs, Workflows, ChaincodeConfigs
    <2> QED
      BY <1>2, <2>1, <2>2, <2>3 DEF ClusterOK
  <1> QED
    BY <1>1, <1>2 DEF StartFlow

\* Nothing of a group of variables changes.
LEMMA SameResource == ASSUME ResourceOK, UNCHANGED <<resource, informer>> PROVE ResourceOK'
  BY DEF ResourceOK, resource, informer
LEMMA SameCluster == ASSUME ClusterOK, UNCHANGED cluster PROVE ClusterOK'
  BY DEF ClusterOK, cluster
LEMMA SameBudgets == ASSUME BudgetsOK, UNCHANGED budgets PROVE BudgetsOK'
  BY DEF BudgetsOK, budgets
LEMMA SameWorker ==
    ASSUME WorkerOK, UNCHANGED <<queued, delayed, worker, dir>> PROVE WorkerOK'
  BY DEF WorkerOK, worker

\* What the worker and the cluster compute.
LEMMA TopologiesOfSpecs == \A d \in SpecsOrUnset : d.topology \in Topologies
  BY DEF Topologies

LEMMA ChartedType == ASSUME WorkerOK PROVE Charted \in Topologies
  <1>1. dir.values \in SpecsOrUnset /\ net.spec.desired \in SpecsOrUnset
    BY DEF WorkerOK, Dirs, Resources
  <1> QED
    BY <1>1 DEF Charted, Topologies

LEMMA UpgradedType ==
    ASSUME WorkerOK, ClusterOK PROVE Upgraded \in Releases
  <1>1. release.listed \in SUBSET AllPeers /\ Peers(Charted) \in SUBSET AllPeers
    BY ChartedType DEF ClusterOK, Releases, AllPeers
  <1>2. Listed \in SUBSET AllPeers
    BY <1>1 DEF Listed
  <1> QED
    BY <1>1, <1>2, ChartedType DEF Upgraded, ClusterOK, Releases

LEMMA NoReleaseType == NoRelease \in Releases
  <1>1. Unset.topology \in Topologies
    BY TopologiesOfSpecs DEF SpecsOrUnset
  <1> QED
    BY <1>1 DEF NoRelease, Releases

LEMMA NothingYetType == NothingYet \in Fabrics
  BY DEF NothingYet, Fabrics

LEMMA NoWorkflowType == NoWorkflow \in Workflows
  BY DEF NoWorkflow, Workflows, SpecsOrUnset, ChaincodeConfigs

LEMMA ChangedChaincodesType ==
    ASSUME NEW new \in SpecsOrUnset, NEW old \in SpecsOrUnset
    PROVE  ChangedChaincodes(new, old) \in SUBSET ChaincodeNames
  <1>1. ChangedChaincodes(new, old) \subseteq OrgNames(Items(new.chaincodes))
    BY DEF ChangedChaincodes, OrgNames
  <1> QED
    BY <1>1 DEF ChaincodeNames

LEMMA EstablishedType ==
    ASSUME ClusterOK, NEW w \in Workflows PROVE Established(w) \in Fabrics
  <1> DEFINE channels == Elements(w.values.channels)
             orgs     == OrgNames(w.values.topology.peerOrgs)
             peers    == Peers(w.values.topology)
             existing == { m[1] : m \in fabric.members }
             members  == fabric.members \union
                    (IF w.flow = "peerOrg" THEN existing ELSE channels \ existing) \X orgs
             included == { c \in Effective(w.values, w.chaincode) :
                            w.include = {} \/ c.name \in w.include }
  <1>1. w.values \in SpecsOrUnset /\ w.values.topology \in Topologies
    BY TopologiesOfSpecs DEF Workflows
  <1>c. w.chaincode \in ChaincodeConfigs
    BY DEF Workflows
  <1>2. /\ channels \subseteq AllChannels /\ orgs \subseteq AllOrgs
        /\ peers \subseteq AllPeers /\ included \subseteq AllChaincodes
    BY <1>1, <1>c DEF AllChannels, AllOrgs, AllPeers, AllChaincodes
  <1>3. fabric \in Fabrics
    BY DEF ClusterOK
  <1>4. existing \subseteq AllChannels
    BY <1>3 DEF Fabrics
  <1>5. members \in SUBSET (AllChannels \X AllOrgs)
    BY <1>2, <1>3, <1>4 DEF Fabrics
  <1>6. { j \in channels \X peers : <<j[1], j[2][1]>> \in members } \subseteq AllChannels \X AllPeers
    BY <1>2
  <1>7. included \X peers \subseteq AllChaincodes \X AllPeers
    BY <1>2
  <1> QED
    BY <1>3, <1>5, <1>6, <1>7 DEF Fabrics, Established

-----------------------------------------------------------------------------
\* Type correctness.

LEMMA TypeInit == Init => TypeOK
  <1> SUFFICES ASSUME Init PROVE TypeOK
    OBVIOUS
  <1>1. FirstStatus \in Statuses
    BY DEF FirstStatus, Statuses, States, NextFlows, SpecsOrUnset
  <1>2. PICK d \in Initial : spec = [desired |-> d, force |-> ""]
    BY DEF Init
  <1>3. spec \in [desired : SpecsOrUnset, force : Forceable \union {""}]
    BY <1>2, ReconcilerAssumption DEF SpecsOrUnset
  <1>4. [spec |-> spec, status |-> status] \in Resources
    BY <1>1, <1>3 DEF Resources, Init
  <1>5. ResourceOK
    BY <1>1, <1>3, <1>4, EmptySeq DEF ResourceOK, Init
  <1>6. WorkerOK
    BY BlankType, NoDraftType DEF WorkerOK, Init, Dirs, NoDir, Stages, SpecsOrUnset
  <1>7. ClusterOK
    BY NoReleaseType, NoWorkflowType, NothingYetType DEF ClusterOK, Init
  <1>8. BudgetsOK
    <2>1. edits = MaxEdits /\ crashes = MaxCrashes /\ faults = MaxFaults
      BY DEF Init
    <2> QED
      BY <2>1, BoundsAreNaturals DEF BudgetsOK
  <1> QED
    BY <1>5, <1>6, <1>7, <1>8 DEF TypeOK

\* Steps of the informer and of the queue, and a crash.
LEMMA TypePlatform ==
    ASSUME TypeOK, Deliver \/ TimerFires \/ Resync \/ Crash PROVE TypeOK'
  <1> USE DEF TypeOK
  <1>1. CASE Deliver
    <2>1. Head(watch) \in Resources /\ Tail(watch) \in Seq(Resources)
      BY <1>1, HeadTailProperties DEF Deliver, ResourceOK
    <2>2. ResourceOK'
      BY <1>1, <2>1 DEF Deliver, ResourceOK, resource
    <2>3. WorkerOK'
      BY <1>1 DEF Deliver, WorkerOK, worker
    <2> QED
      BY <1>1, <2>2, <2>3, SameCluster, SameBudgets DEF Deliver
  <1>2. CASE TimerFires
    <2>1. WorkerOK'
      BY <1>2 DEF TimerFires, WorkerOK, worker
    <2> QED
      BY <1>2, <2>1, SameResource, SameCluster, SameBudgets DEF TimerFires
  <1>3. CASE Resync
    <2>1. WorkerOK'
      BY <1>3 DEF Resync, WorkerOK, worker
    <2> QED
      BY <1>3, <2>1, SameResource, SameCluster, SameBudgets DEF Resync
  <1>4. CASE Crash
    <2>1. [spec |-> spec, status |-> status] \in Resources
      BY DEF ResourceOK, Resources
    <2>2. ResourceOK'
      BY <1>4, <2>1, EmptySeq DEF Crash, ResourceOK, resource
    <2>3. WorkerOK'
      BY <1>4, BlankType, NoDraftType DEF Crash, WorkerOK, Dirs, NoDir, Stages, SpecsOrUnset
    <2>4. BudgetsOK'
      BY <1>4, BoundsAreNaturals DEF Crash, BudgetsOK
    <2> QED
      BY <1>4, <2>2, <2>3, <2>4, SameCluster DEF Crash
  <1> QED
    BY <1>1, <1>2, <1>3, <1>4

\* Steps of the cluster and of the user.
LEMMA TypeEnvironment == ASSUME TypeOK, Environment PROVE TypeOK'
  <1> USE DEF TypeOK
  <1>1. CASE PodsRestarting \/ PodsReady \/ ServicesListed
    <2>1. Peers(release.topology) \in SUBSET AllPeers
      BY DEF ClusterOK, Releases, AllPeers
    <2>2. release' \in Releases
      BY <1>1, <2>1 DEF PodsRestarting, PodsReady, ServicesListed, ClusterOK, Releases
    <2>3. ClusterOK'
      BY <1>1, <2>2 DEF PodsRestarting, PodsReady, ServicesListed, ClusterOK
    <2> QED
      BY <1>1, <2>3, SameResource, SameWorker, SameBudgets
         DEF PodsRestarting, PodsReady, ServicesListed
  <1>2. ASSUME NEW n \in Names, WorkflowEnds(n) PROVE TypeOK'
    <2>1. PICK phase \in Outcomes :
            /\ workflows' = [workflows EXCEPT ![n].phase = phase]
            /\ fabric' = IF phase = "Succeeded" THEN Established(workflows[n]) ELSE fabric
      BY <1>2 DEF WorkflowEnds
    <2>2. workflows' \in [Names -> Workflows]
      BY <2>1 DEF ClusterOK, Workflows
    <2>3. fabric' \in Fabrics
      BY <2>1, EstablishedType DEF ClusterOK
    <2>4. ClusterOK'
      BY <1>2, <2>2, <2>3 DEF WorkflowEnds, ClusterOK
    <2> QED
      BY <1>2, <2>4, SameResource, SameWorker, SameBudgets DEF WorkflowEnds
  <1>3. ASSUME NEW s \in [desired : SpecsOrUnset, force : Forceable \union {""}], UserWrites(s)
        PROVE  TypeOK'
    <2>1. ResourceOK'
      BY <1>3, WriteType DEF UserWrites, ResourceOK
    <2>2. WorkerOK'
      BY <1>3 DEF UserWrites, WorkerOK
    <2>3. BudgetsOK'
      BY <1>3, EditType DEF UserWrites
    <2> QED
      BY <1>3, <2>1, <2>2, <2>3, SameCluster DEF UserWrites
  <1>4. CASE UserEdits
    BY <1>3, <1>4 DEF UserEdits, ResourceOK, SpecsOrUnset
  <1>5. CASE UserForces
    BY <1>3, <1>5 DEF UserForces, ResourceOK
  <1> QED
    BY <1>1, <1>2, <1>4, <1>5 DEF Environment

\* Steps of the worker that leave resource, cluster and directory alone.
LEMMA TypeControl ==
    ASSUME TypeOK,
           \/ Begin \/ HandleForce \/ HandleNone \/ HandleTerminal \/ HandleHelmChartInstalled
           \/ HandleHelmChartReady \/ HandleChaincodeFlowCompleted
           \/ \E flow \in Flows : HandleFlowSubmitted(flow)
    PROVE  TypeOK'
  <1> USE DEF TypeOK
  <1> SUFFICES WorkerOK'
    BY SameResource, SameCluster, SameBudgets
       DEF Begin, HandleForce, HandleNone, HandleTerminal, HandleHelmChartInstalled,
           HandleHelmChartReady, HandleChaincodeFlowCompleted, HandleFlowSubmitted
  <1>0. \A state \in States : With(state, 0) \in Statuses
    BY WithType
  <1>1. CASE Begin
    BY <1>1 DEF Begin, WorkerOK, ResourceOK
  <1>2. CASE HandleForce
    <2>1. net.spec.force \in States
      BY <1>2, ReconcilerAssumption DEF HandleForce, WorkerOK, Resources, ForceStates, States
    <2> QED
      BY <1>0, <1>2, <2>1, SaveType DEF HandleForce, WorkerOK
  <1>3. CASE HandleNone
    <2>1. With("New", 0) \in Statuses /\ With("Rejected", 0) \in Statuses
      BY <1>0 DEF States
    <2> QED
      BY <1>3, <2>1, ObservingType, SaveType DEF HandleNone, WorkerOK
  <1>4. CASE HandleTerminal
    BY <1>4, ReturnType DEF HandleTerminal, WorkerOK
  <1>5. CASE HandleHelmChartInstalled
    <2>1. With("HelmChartReady", 0) \in Statuses
      BY <1>0 DEF States
    <2> QED
      BY <1>5, <2>1, SaveType, ReturnType DEF HandleHelmChartInstalled, WorkerOK
  <1>6. CASE HandleHelmChartReady
    <2>1. With("New", 0) \in Statuses
      BY <1>0 DEF States
    <2> QED
      BY <1>6, <2>1, ObservingType, SaveType, GotoType DEF HandleHelmChartReady, WorkerOK
  <1>7. CASE HandleChaincodeFlowCompleted
    <2>1. With("Ready", 0) \in Statuses
      BY <1>0 DEF States
    <2> QED
      BY <1>7, <2>1, SaveType DEF HandleChaincodeFlowCompleted, WorkerOK
  <1>8. ASSUME NEW flow \in Flows, HandleFlowSubmitted(flow) PROVE WorkerOK'
    <2>1. With(Completed[flow], 0) \in Statuses /\ With("Failed", 0) \in Statuses
      BY <1>0, FlowStates DEF States
    <2> QED
      BY <1>8, <2>1, SaveType, ReturnType DEF HandleFlowSubmitted, WorkerOK
  <1> QED
    BY <1>1, <1>2, <1>3, <1>4, <1>5, <1>6, <1>7, <1>8

\* Steps that write the resource, or fail.
LEMMA TypeWrites ==
    ASSUME TypeOK, SaveStatus \/ ClearForce \/ CallFails PROVE TypeOK'
  <1> USE DEF TypeOK
  <1>0. ASSUME Fault, UNCHANGED <<edits, crashes>> PROVE BudgetsOK'
    BY <1>0, FaultType DEF BudgetsOK
  <1>1. CASE SaveStatus
    <2> DEFINE saved == [pending.status EXCEPT !.observed = Stored(pending.status.observed)]
    <2>1. saved \in Statuses
      BY StoredSpecs DEF WorkerOK, Statuses
    <2>2. UNCHANGED <<dir, cluster, edits, crashes>>
      BY <1>1 DEF SaveStatus
    <2>3. pending.checked \in BOOLEAN /\ dir' \in Dirs
      BY <2>2 DEF WorkerOK
    <2>4. ASSUME Return(pending.checked) PROVE WorkerOK'
      BY <2>3, <2>4, ReturnType
    <2>5. ASSUME Continue(saved) PROVE WorkerOK'
      <3>1. CASE pending.then = "idle"
        BY <2>3, <2>5, <3>1, ReturnType DEF Continue
      <3>2. CASE pending.then # "idle"
        <4>1. [net EXCEPT !.status = saved] \in Resources
          BY <2>1 DEF WorkerOK, Resources
        <4> HIDE DEF saved
        <4> QED
          BY <2>3, <2>5, <3>2, <4>1, NoDraftType DEF Continue, WorkerOK
      <3> QED
        BY <3>1, <3>2
    <2>6. CASE Accepted /\ Write(spec, saved) /\ Continue(saved) /\ UNCHANGED faults
      <3>1. ResourceOK'
        BY <2>1, <2>6, WriteType DEF ResourceOK
      <3> QED
        BY <2>2, <2>5, <2>6, <3>1, SameCluster, SameBudgets DEF budgets
    <2>7. CASE Accepted /\ Write(spec, saved) /\ Fault /\ Return(pending.checked)
      <3>1. ResourceOK'
        BY <2>1, <2>7, WriteType DEF ResourceOK
      <3> QED
        BY <1>0, <2>2, <2>4, <2>7, <3>1, SameCluster
    <2>8. CASE ~Accepted /\ Return(pending.checked) /\ UNCHANGED <<resource, informer, faults>>
      BY <2>2, <2>4, <2>8, SameResource, SameCluster, SameBudgets DEF budgets
    <2>9. CASE Fault /\ Return(pending.checked) /\ UNCHANGED <<resource, informer>>
      BY <1>0, <2>2, <2>4, <2>9, SameResource, SameCluster
    <2> QED
      BY <1>1, <2>6, <2>7, <2>8, <2>9 DEF SaveStatus
  <1>2. CASE ClearForce
    <2>1. WorkerOK'
      BY <1>2, ReturnType DEF ClearForce, WorkerOK
    <2>2. ClusterOK'
      BY <1>2, SameCluster DEF ClearForce
    <2>3. [desired |-> Stored(net.spec.desired), force |-> ""]
            \in [desired : SpecsOrUnset, force : Forceable \union {""}]
      BY StoredSpecs DEF WorkerOK, Resources
    <2>4. ResourceOK'
      <3>1. CASE Write([desired |-> Stored(net.spec.desired), force |-> ""], status)
        BY <2>3, <3>1, WriteType DEF ResourceOK
      <3> QED
        BY <1>2, <3>1, SameResource DEF ClearForce
    <2>5. BudgetsOK'
      BY <1>0, <1>2, SameBudgets DEF ClearForce, budgets
    <2> QED
      BY <2>1, <2>2, <2>4, <2>5
  <1>3. CASE CallFails
    <2>1. WorkerOK'
      BY <1>3, ReturnType DEF CallFails, WorkerOK
    <2> QED
      BY <1>0, <1>3, <2>1, SameResource, SameCluster DEF CallFails
  <1> QED
    BY <1>1, <1>2, <1>3

\* Steps that rebuild the chart directory, the release or the workflows.
LEMMA TypeDirectory ==
    ASSUME TypeOK, Reconstruct \/ Teardown \/ Prepare \/ Install PROVE TypeOK'
  <1> USE DEF TypeOK
  <1>0. ASSUME faults' = faults \/ Fault, UNCHANGED <<edits, crashes>> PROVE BudgetsOK'
    BY <1>0, FaultType DEF BudgetsOK
  <1>d. /\ NoDir \in Dirs /\ [stage |-> "chart", values |-> Unset] \in Dirs
        /\ [stage |-> "values", values |-> net.spec.desired] \in Dirs
        /\ [stage |-> "complete", values |-> net.spec.desired] \in Dirs
    BY DEF WorkerOK, Resources, NoDir, Dirs, Stages, SpecsOrUnset
  <1>1. CASE Reconstruct
    <2>1. dir' \in Dirs
      BY <1>1, <1>d DEF Reconstruct
    <2>2. WorkerOK'
      BY <1>1, <2>1, GotoType, ReturnType DEF Reconstruct
    <2>3. BudgetsOK'
      BY <1>0, <1>1 DEF Reconstruct
    <2> QED
      BY <1>1, <2>2, <2>3, SameResource, SameCluster DEF Reconstruct
  <1>2. CASE Teardown
    <2>1. WorkerOK'
      BY <1>2, GotoType DEF Teardown, WorkerOK
    <2>2. BudgetsOK'
      BY <1>0, <1>2 DEF Teardown
    <2>3. workflows' \in [Names -> Workflows]
      BY <1>2, NoWorkflowType DEF Teardown, ClusterOK
    <2>4. ClusterOK'
      BY <1>2, <2>3, NoReleaseType, NothingYetType DEF Teardown, ClusterOK
    <2> QED
      BY <1>2, <2>1, <2>2, <2>4, SameResource DEF Teardown
  <1>3. CASE Prepare
    <2>1. dir' \in Dirs
      BY <1>3, <1>d DEF Prepare
    <2>2. WorkerOK'
      BY <1>3, <2>1, GotoType, ReturnType DEF Prepare
    <2>3. BudgetsOK'
      BY <1>0, <1>3 DEF Prepare
    <2>4. ClusterOK'
      BY <1>3 DEF Prepare, ClusterOK
    <2> QED
      BY <1>3, <2>2, <2>3, <2>4, SameResource DEF Prepare
  <1>4. CASE Install
    <2>1. /\ With("HelmChartNeedsUpdate", 0) \in Statuses
          /\ With("HelmChartInstalled", 0) \in Statuses
      BY WithType DEF States
    <2>2. WorkerOK'
      BY <1>4, <2>1, SaveType, ReturnType DEF Install, WorkerOK
    <2>3. BudgetsOK'
      BY <1>0, <1>4 DEF Install
    <2>4. ClusterOK'
      <3>1. net.spec.desired.topology.useActualDomains \in BOOLEAN
        BY DomainsType DEF WorkerOK, Resources
      <3>2. (IF ServicesLag THEN {} ELSE Peers(Charted)) \in SUBSET AllPeers
        BY ChartedType DEF AllPeers
      <3> QED
        BY <1>4, <3>1, <3>2, ChartedType DEF Install, ClusterOK, Releases
    <2> QED
      BY <1>4, <2>2, <2>3, <2>4, SameResource DEF Install
  <1> QED
    BY <1>1, <1>2, <1>3, <1>4

LEMMA TypeUpgrades ==
    ASSUME TypeOK,
           HandleHelmChartNeedsUpdate \/ HandleHelmChartNeedsDoubleUpdate \/ SecondUpdate
    PROVE  TypeOK'
  <1> USE DEF TypeOK
  <1>1. With("HelmChartInstalled", 0) \in Statuses
    BY WithType DEF States
  <1>2. WorkerOK'
    BY <1>1, SaveType, ReturnType, GotoType
       DEF HandleHelmChartNeedsUpdate, HandleHelmChartNeedsDoubleUpdate, SecondUpdate, WorkerOK
  <1>3. ClusterOK'
    BY UpgradedType
       DEF HandleHelmChartNeedsUpdate, HandleHelmChartNeedsDoubleUpdate, SecondUpdate, ClusterOK
  <1> QED
    BY <1>2, <1>3, SameResource, SameBudgets
       DEF HandleHelmChartNeedsUpdate, HandleHelmChartNeedsDoubleUpdate, SecondUpdate

\* Steps that submit workflows.
LEMMA TypeFlows ==
    ASSUME TypeOK,
           \/ NextFlow \/ HandleFlowCompleted("channel", "chaincode")
           \/ HandleFlowCompleted("peerOrg", "channel")
    PROVE  TypeOK'
  <1> USE DEF TypeOK
  <1>1. UNCHANGED <<resource, informer, dir, secret, release, fabric, edits, crashes>>
    BY DEF NextFlow, HandleFlowCompleted
  <1>2. dir \in Dirs /\ dir' \in Dirs /\ net.status \in Statuses /\ {} \in SUBSET ChaincodeNames
    BY <1>1 DEF WorkerOK, Resources
  <1>3. ASSUME NEW flow \in Flows, StartFlow(flow, dir, {}, net.status)
        PROVE  WorkerOK' /\ workflows' \in [Names -> Workflows] /\ faults' \in 0..MaxFaults
    BY <1>2, <1>3, StartFlowType
  <1>4. ASSUME Save([With("Ready", 0) EXCEPT !.nextFlow = ""], FALSE, "idle"),
               UNCHANGED <<workflows, faults>>
        PROVE  WorkerOK' /\ workflows' \in [Names -> Workflows] /\ faults' \in 0..MaxFaults
    <2>1. With("Ready", 0) \in Statuses
      BY WithType DEF States
    <2>2. [With("Ready", 0) EXCEPT !.nextFlow = ""] \in Statuses
      BY <2>1 DEF Statuses, NextFlows
    <2>3. WorkerOK'
      BY <1>2, <1>4, <2>2, SaveType
    <2> QED
      BY <1>4, <2>3 DEF ClusterOK, BudgetsOK
  <1>5. WorkerOK' /\ workflows' \in [Names -> Workflows] /\ faults' \in 0..MaxFaults
    BY <1>3, <1>4 DEF NextFlow, HandleFlowCompleted, Flows
  <1>6. ClusterOK'
    BY <1>1, <1>5 DEF ClusterOK
  <1>7. BudgetsOK'
    BY <1>1, <1>5 DEF BudgetsOK
  <1> QED
    BY <1>1, <1>5, <1>6, <1>7, SameResource

\* A topology change leads to an update or a double update of the chart.
LEMMA HelmPathStates ==
    ASSUME NEW c, c.peerOrgs \in BOOLEAN, c.ordererOrgs \in BOOLEAN, NEW p \in HelmPath(c)
    PROVE  /\ p[1] \in {"HelmChartNeedsUpdate", "HelmChartNeedsDoubleUpdate"}
           /\ p[2] \in {"PeerOrgFlow", "None", net.status.nextFlow}
  <1>1. \/ p = <<"HelmChartNeedsDoubleUpdate", "PeerOrgFlow">>
        \/ p = <<"HelmChartNeedsDoubleUpdate", "None">>
        \/ p = <<"HelmChartNeedsUpdate", net.status.nextFlow>>
        \/ p = <<"HelmChartNeedsUpdate", "None">>
    BY DEF HelmPath
  <1> QED
    BY <1>1

LEMMA HelmPathType ==
    ASSUME NEW c, c.peerOrgs \in BOOLEAN, c.ordererOrgs \in BOOLEAN, net.status \in Statuses,
           NEW p \in HelmPath(c)
    PROVE  p[1] \in States /\ p[2] \in NextFlows
  <1>1. net.status.nextFlow \in NextFlows
    BY DEF Statuses
  <1>2. /\ {"HelmChartNeedsDoubleUpdate", "HelmChartNeedsUpdate"} \subseteq States
        /\ {"PeerOrgFlow", "None"} \subseteq NextFlows
    BY DEF States, NextFlows
  <1> QED
    BY <1>1, <1>2, HelmPathStates

LEMMA TypeReady == ASSUME TypeOK, HandleReady PROVE TypeOK'
  <1> USE DEF TypeOK
  <1> DEFINE c == Changes
             path == HelmPath(c)
  <1>1. net.status \in Statuses /\ net.spec.desired \in SpecsOrUnset /\ dir \in Dirs
    BY DEF WorkerOK, Resources
  <1>2. UNCHANGED <<resource, informer, release, fabric, edits, crashes>>
    BY DEF HandleReady
  <1>3. Rewritten \in Dirs
    BY <1>1 DEF Rewritten, Dirs, Stages
  <1>4. c.chaincodes \in SUBSET ChaincodeNames
    BY <1>1, ChangedChaincodesType DEF Changes, GetChanges, Statuses
  <1>5. ASSUME NEW p \in path
        PROVE  [Observing(With(p[1], 0)) EXCEPT !.nextFlow = p[2]] \in Statuses
    <2>1. p[1] \in States /\ p[2] \in NextFlows
      <3>1. c.peerOrgs \in BOOLEAN /\ c.ordererOrgs \in BOOLEAN
        BY DEF Changes, GetChanges
      <3> HIDE DEF c
      <3> QED
        BY <1>1, <3>1, HelmPathType
    <2>2. Observing(With(p[1], 0)) \in Statuses
      BY <2>1, WithType, ObservingType
    <2> QED
      BY <2>1, <2>2 DEF Statuses
  <1>6. Observing(net.status) \in Statuses
    BY <1>1, ObservingType
  <1> DEFINE Goal == /\ WorkerOK' /\ secret' \in BOOLEAN
                     /\ workflows' \in [Names -> Workflows] /\ faults' \in 0..MaxFaults
  <1> HIDE DEF c, path
  <1>7. secret \in BOOLEAN /\ workflows \in [Names -> Workflows] /\ faults \in 0..MaxFaults
    BY DEF ClusterOK, BudgetsOK
  <1>8. ASSUME Return(FALSE), UNCHANGED <<dir, secret, workflows, faults>> PROVE Goal
    BY <1>1, <1>7, <1>8, ReturnType
  <1>9. ASSUME dir' = Rewritten, secret' \in BOOLEAN,
               \/ \E p \in path :
                    /\ Save([Observing(With(p[1], 0)) EXCEPT !.nextFlow = p[2]], TRUE, "idle")
                    /\ UNCHANGED <<workflows, faults>>
               \/ StartFlow("channel", dir', {}, Observing(net.status))
               \/ StartFlow("chaincode", dir', c.chaincodes, Observing(net.status))
               \/ Return(FALSE) /\ UNCHANGED <<workflows, faults>>
        PROVE  Goal
    <2>1. dir' \in Dirs
      BY <1>3, <1>9
    <2>2. CASE \E p \in path :
                    /\ Save([Observing(With(p[1], 0)) EXCEPT !.nextFlow = p[2]], TRUE, "idle")
                    /\ UNCHANGED <<workflows, faults>>
      BY <1>5, <1>7, <1>9, <2>1, <2>2, SaveType
    <2>3. CASE StartFlow("channel", dir', {}, Observing(net.status))
      BY <1>6, <1>9, <2>1, <2>3, StartFlowType DEF Flows
    <2>4. CASE StartFlow("chaincode", dir', c.chaincodes, Observing(net.status))
      BY <1>4, <1>6, <1>9, <2>1, <2>4, StartFlowType DEF Flows
    <2>5. CASE Return(FALSE) /\ UNCHANGED <<workflows, faults>>
      BY <1>7, <1>9, <2>1, <2>5, ReturnType
    <2> QED
      BY <1>9, <2>2, <2>3, <2>4, <2>5
  <1>10. ASSUME Fault, Return(TRUE), UNCHANGED <<secret, workflows>>,
                dir' = Rewritten
         PROVE  Goal
    BY <1>3, <1>7, <1>10, ReturnType, FaultType
  <1>11. Goal
    <2>1. (secret \/ NeedsCertificateUpdate(c)) \in BOOLEAN
      OBVIOUS
    <2> QED
      BY <1>8, <1>9, <1>10, <2>1 DEF HandleReady, c, path
  <1>12. ClusterOK'
    BY <1>2, <1>11 DEF ClusterOK
  <1>13. BudgetsOK'
    BY <1>2, <1>11 DEF BudgetsOK
  <1> QED
    BY <1>2, <1>11, <1>12, <1>13, SameResource

\* Every value of the model is what its declaration says: in particular a status
\* only holds states of the API, and a stale or failing worker leaves no other.
THEOREM TypeCorrect == Spec => []TypeOK
  <1>1. TypeOK /\ [Next]_vars => TypeOK'
    <2> SUFFICES ASSUME TypeOK, [Next]_vars PROVE TypeOK'
      OBVIOUS
    <2>1. CASE Worker
      BY <2>1, TypePlatform, TypeControl, TypeWrites, TypeDirectory, TypeUpgrades, TypeFlows,
         TypeReady DEF Worker, Handle
    <2>2. CASE Environment
      BY <2>2, TypeEnvironment
    <2>3. CASE Deliver \/ TimerFires \/ Resync \/ Crash
      BY <2>3, TypePlatform
    <2>4. CASE UNCHANGED vars
      BY <2>4, SameResource, SameWorker, SameCluster, SameBudgets DEF vars, TypeOK
    <2> QED
      BY <2>1, <2>2, <2>3, <2>4 DEF Next
  <1> QED
    BY <1>1, TypeInit, PTL DEF Spec
=============================================================================
