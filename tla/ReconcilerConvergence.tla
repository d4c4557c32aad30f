----------------------- MODULE ReconcilerConvergence ------------------------
(***************************************************************************)
(* What the reconciler guarantees a user who waits for each change: that   *)
(* the release is not torn down again, and that a network reported Ready   *)
(* with nothing left to apply is the network asked for, whatever crashes   *)
(* and whichever calls fail on the way.                                    *)
(***************************************************************************)
EXTENDS ReconcilerSafety, WellFoundedInduction

-----------------------------------------------------------------------------
\* What a call of Reconcile saves, when the user waits for each change.

Early == {"", "New"}
Upkeep == {"HelmChartNeedsUpdate", "HelmChartNeedsDoubleUpdate"}
Upgrades == HandleHelmChartNeedsUpdate \/ HandleHelmChartNeedsDoubleUpdate \/ SecondUpdate

\* The edges that are left when HelmChartReady never finds the topology changed.
Onward ==
    Edges \ ( {<<"HelmChartReady", "New">>} \union
              ({"New"} \X {"ChannelFlowSubmitted", "PeerOrgFlowSubmitted", "Ready"}) )

\* What is being applied is what this version of the resource asks for.
Applied(x) == x.status.state \notin {"", "Ready", "Rejected"} => x.status.observed = x.spec.desired

\* So is what the worker is about to save.
Drafted ==
    /\ pc = "save" =>
        LET from == net.status
            to   == pending.status
        IN  /\ pending.then = "idle" /\ <<from.state, to.state>> \in Onward
            /\ to.state # "Rejected" => to.observed = net.spec.desired
            /\ from.state = "HelmChartReady" /\ to.state = "Ready" => from.nextFlow = "None"
            /\ from.state \in Early /\ to.state # "Rejected" => ~pending.checked
    /\ pc = "nextFlow" => net.status.state = "HelmChartReady"

Level == (\A x \in Seen : Applied(x)) /\ Drafted

LEMMA StoredAsIs == ASSUME Waiting, NEW d \in SpecsOrUnset PROVE Stored(d) = d
  BY StoredUnset DEF Waiting, SpecsOrUnset

LEMMA Unforced ==
    ASSUME TypeOK, Consistent, Waiting
    PROVE  spec.force = "" /\ net.spec.force = "" /\ pc # "clearForce"
  <1>1. spec.force = "" /\ net.spec.force = ""
    BY DEF Waiting, TypeOK, ResourceOK, WorkerOK, Resources
  <1> QED
    BY <1>1 DEF Consistent, Intentions, Whereabouts

\* The call of StartFlow submits a workflow under an unused name, or does not.
LEMMA Starts ==
    ASSUME NEW flow, NEW values, NEW include, NEW draft \in Statuses,
           StartFlow(flow, values, include, draft)
    PROVE  \/ pc' = "idle" /\ workflows' = workflows
           \/ \E n \in Names :
                /\ values.stage # "chart" /\ NewName(n)
                /\ workflows' = [workflows EXCEPT ![n] =
                        [flow |-> flow, values |-> values.values,
                         chaincode |-> net.spec.desired.chaincode, include |-> include,
                         phase |-> "Running"]]
                /\ \/ pc' = "idle"
                   \/ /\ pc' = "save" /\ UNCHANGED <<net, fresh>>
                      /\ ~pending'.checked /\ pending'.then = "idle"
                      /\ pending'.status.state = Submitted[flow] /\ pending'.status.workflow = n
                      /\ pending'.status.observed = draft.observed
                      /\ pending'.status.nextFlow = draft.nextFlow
  <1>1. CASE Return(TRUE) /\ workflows' = workflows
    BY <1>1 DEF Return
  <1>2. ASSUME NEW n \in Names, Save(Tracking(draft, flow, n), FALSE, "idle")
        PROVE  /\ pc' = "save" /\ UNCHANGED <<net, fresh>>
               /\ ~pending'.checked /\ pending'.then = "idle"
               /\ pending'.status.state = Submitted[flow] /\ pending'.status.workflow = n
               /\ pending'.status.observed = draft.observed
               /\ pending'.status.nextFlow = draft.nextFlow
    <2>1. PICK to : to = Tracking(draft, flow, n)
      OBVIOUS
    <2>2. /\ to.state = Submitted[flow] /\ to.workflow = n
          /\ to.observed = draft.observed /\ to.nextFlow = draft.nextFlow
      BY <2>1 DEF Tracking, Statuses
    <2> QED
      BY <1>2, <2>1, <2>2 DEF Save
  <1>3. Return(TRUE) => pc' = "idle"
    BY DEF Return
  <1> QED
    BY <1>1, <1>2, <1>3, Zenon DEF StartFlow

LEMMA WithKeeps ==
    ASSUME TypeOK, NEW state
    PROVE  /\ With(state, 0).state = state /\ With(state, 0).nextFlow = net.status.nextFlow
           /\ With(state, 0).observed = net.status.observed
           /\ Observing(With(state, 0)).state = state
           /\ Observing(With(state, 0)).nextFlow = net.status.nextFlow
           /\ Observing(With(state, 0)).observed = net.spec.desired
  BY DEF TypeOK, WorkerOK, Resources, Statuses, With, Observing

\* A draft that keeps what the status says besides state and workflow.
Keeps(state) ==
    /\ pending'.status.state = state
    /\ pending'.status.nextFlow = net.status.nextFlow
    /\ pending'.status.observed = net.status.observed

LEMMA SavesWith ==
    ASSUME TypeOK, NEW state, NEW checked \in BOOLEAN, Save(With(state, 0), checked, "idle")
    PROVE  Keeps(state) /\ pending'.checked = checked /\ pending'.then = "idle"
  <1>1. pending'.status = With(state, 0)
    BY DEF Save
  <1> QED
    BY <1>1, WithKeeps DEF Save, Keeps

LEMMA SavesFlow ==
    ASSUME TypeOK, NEW flow, NEW values, NEW include,
           StartFlow(flow, values, include, net.status), pc' = "save"
    PROVE  Keeps(Submitted[flow]) /\ ~pending'.checked /\ pending'.then = "idle"
  <1>1. net.status \in Statuses
    BY DEF TypeOK, WorkerOK, Resources
  <1> QED
    BY <1>1, Starts DEF Keeps

\* What each handler that goes on to a save is about to save.
LEMMA NoneSaves ==
    ASSUME TypeOK, HandleNone
    PROVE  /\ net.status.state = "" /\ pending'.then = "idle"
           /\ \/ /\ pending'.status.state = "New" /\ ~pending'.checked
                 /\ pending'.status.nextFlow = net.status.nextFlow
                 /\ pending'.status.observed = net.spec.desired
              \/ Keeps("Rejected")
  <1>1. net.status.state = ""
    BY DEF HandleNone, Handling
  <1>2. CASE Save(With("Rejected", 0), TRUE, "idle")
    BY <1>1, <1>2, SavesWith
  <1>3. CASE Save(Observing(With("New", 0)), FALSE, "idle")
    <2>1. pending'.status = Observing(With("New", 0))
      BY <1>3 DEF Save
    <2> QED
      BY <1>1, <1>3, <2>1, WithKeeps DEF Save
  <1> QED
    BY <1>2, <1>3 DEF HandleNone

LEMMA InstallSaves ==
    ASSUME TypeOK, Consistent, Install, pc' = "save"
    PROVE  /\ net.status.state = "New" /\ pending'.then = "idle" /\ ~pending'.checked
           /\ \/ Keeps("HelmChartNeedsUpdate") /\ net.spec.desired.topology.useActualDomains
              \/ Keeps("HelmChartInstalled") /\ ~net.spec.desired.topology.useActualDomains
  <1> DEFINE domains == net.spec.desired.topology.useActualDomains
             next == IF domains THEN "HelmChartNeedsUpdate" ELSE "HelmChartInstalled"
  <1>1. net.status.state = "New"
    BY DEF Install, Consistent, Intentions, Whereabouts
  <1>2. Save(With(next, 0), FALSE, "idle")
    BY DEF Install, Return
  <1>3. domains \in BOOLEAN
    BY DomainsType DEF TypeOK, WorkerOK, Resources
  <1> HIDE DEF next
  <1>4. Keeps(next) /\ ~pending'.checked /\ pending'.then = "idle"
    BY <1>2, SavesWith
  <1> QED
    BY <1>1, <1>3, <1>4 DEF next

LEMMA UpgradeSaves ==
    ASSUME TypeOK, Consistent, Upgrades, pc' = "save"
    PROVE  /\ net.status.state \in Upkeep /\ Keeps("HelmChartInstalled")
           /\ pending'.then = "idle" /\ release' = Upgraded
  <1>1. net.status.state \in Upkeep
    BY DEF Upgrades, HandleHelmChartNeedsUpdate, HandleHelmChartNeedsDoubleUpdate, Handling,
           SecondUpdate, Consistent, Intentions, Whereabouts, Upkeep
  <1>2. Save(With("HelmChartInstalled", 0), FALSE, "idle") /\ release' = Upgraded
    BY DEF Upgrades, HandleHelmChartNeedsUpdate, HandleHelmChartNeedsDoubleUpdate,
           SecondUpdate, Return, Goto
  <1> QED
    BY <1>1, <1>2, SavesWith

LEMMA StatefulSaves ==
    ASSUME TypeOK, HandleHelmChartInstalled, pc' = "save"
    PROVE  /\ net.status.state = "HelmChartInstalled" /\ Keeps("HelmChartReady")
           /\ pending'.then = "idle" /\ IsHelmChartReady
  <1>1. net.status.state = "HelmChartInstalled" /\ IsHelmChartReady
        /\ Save(With("HelmChartReady", 0), FALSE, "idle")
    BY DEF HandleHelmChartInstalled, Handling, Return
  <1> QED
    BY <1>1, SavesWith

LEMMA CompletionSaves ==
    ASSUME TypeOK, HandleChaincodeFlowCompleted
    PROVE  /\ net.status.state = "ChaincodeFlowCompleted" /\ Keeps("Ready")
           /\ pending'.then = "idle"
  BY SavesWith DEF HandleChaincodeFlowCompleted, Handling

LEMMA PollSaves ==
    ASSUME TypeOK, NEW flow \in Flows, HandleFlowSubmitted(flow), pc' = "save"
    PROVE  /\ net.status.state = Submitted[flow] /\ pending'.then = "idle"
           /\ \/ /\ Keeps(Completed[flow]) /\ net.status.workflow \in Names
                 /\ workflows[net.status.workflow].phase = "Succeeded"
              \/ Keeps("Failed")
  <1>1. net.status.state = Submitted[flow] /\ net.status \in Statuses
    BY DEF HandleFlowSubmitted, Handling, TypeOK, WorkerOK, Resources
  <1>2. CASE Save(With("Failed", 0), FALSE, "idle")
    BY <1>1, <1>2, SavesWith
  <1>3. ASSUME Save(With(Completed[flow], 0), FALSE, "idle")
        PROVE  Keeps(Completed[flow]) /\ pending'.then = "idle"
    BY <1>3, SavesWith
  <1>4. ASSUME ~Save(With("Failed", 0), FALSE, "idle")
        PROVE  /\ net.status.workflow \in Names
               /\ workflows[net.status.workflow].phase = "Succeeded"
    <2>1. net.status.workflow # 0 /\ workflows[net.status.workflow].phase # "Absent"
          /\ WorkflowStatus(workflows[net.status.workflow].phase) = "Completed"
      BY <1>4 DEF HandleFlowSubmitted, Return
    <2>2. net.status.workflow \in Names \union {0}
      BY <1>1 DEF Statuses
    <2>3. workflows[net.status.workflow].phase = "Succeeded"
      BY <2>1 DEF WorkflowStatus
    <2> QED
      BY <2>1, <2>2, <2>3
  <1>5. Save(With("Failed", 0), FALSE, "idle") \/ Save(With(Completed[flow], 0), FALSE, "idle")
    BY DEF HandleFlowSubmitted, Return
  <1> QED
    BY <1>1, <1>2, <1>3, <1>4, <1>5

LEMMA SequelSaves ==
    ASSUME TypeOK, NEW flow \in Flows, NEW next, HandleFlowCompleted(flow, next), pc' = "save"
    PROVE  /\ net.status.state = Completed[flow] /\ Keeps(Submitted[next])
           /\ pending'.then = "idle"
  BY SavesFlow DEF HandleFlowCompleted, Handling

LEMMA NextSaves ==
    ASSUME TypeOK, Level, NextFlow, pc' = "save"
    PROVE  /\ net.status.state = "HelmChartReady" /\ pending'.then = "idle"
           /\ \/ net.status.nextFlow = "" /\ Keeps("ChannelFlowSubmitted")
              \/ net.status.nextFlow = "PeerOrgFlow" /\ Keeps("PeerOrgFlowSubmitted")
              \/ /\ net.status.nextFlow = "None" /\ pending'.status.state = "Ready"
                 /\ pending'.status.nextFlow = ""
                 /\ pending'.status.observed = net.status.observed
  <1>1. net.status.state = "HelmChartReady"
    BY DEF NextFlow, Level, Drafted
  <1>2. CASE net.status.nextFlow = "" /\ StartFlow("channel", dir, {}, net.status)
    BY <1>1, <1>2, SavesFlow, FlowTable
  <1>3. CASE net.status.nextFlow = "PeerOrgFlow" /\ StartFlow("peerOrg", dir, {}, net.status)
    BY <1>1, <1>3, SavesFlow, FlowTable
  <1>4. CASE /\ net.status.nextFlow = "None"
             /\ Save([With("Ready", 0) EXCEPT !.nextFlow = ""], FALSE, "idle")
    <2>1. With("Ready", 0) \in Statuses
      BY WithType DEF TypeOK, States
    <2>2. PICK to : to = [With("Ready", 0) EXCEPT !.nextFlow = ""]
      OBVIOUS
    <2>3. to.state = "Ready" /\ to.nextFlow = "" /\ to.observed = net.status.observed
      BY <2>1, <2>2, WithKeeps DEF Statuses
    <2> QED
      BY <1>1, <1>4, <2>2, <2>3 DEF Save
  <1> QED
    BY <1>2, <1>3, <1>4 DEF NextFlow

\* HelmChartReady finds what is being applied to be what is desired, and goes on.
LEMMA ChartReadyGoesOn ==
    ASSUME TypeOK, Level, HandleHelmChartReady
    PROVE  net.status.state = "HelmChartReady" /\ pc = "handle" /\ Goto("nextFlow")
  <1>1. net.status.state = "HelmChartReady" /\ pc = "handle"
    BY DEF HandleHelmChartReady, Handling
  <1>2. net.status.observed = net.spec.desired
    BY <1>1, SeenNow DEF Level, Applied, Busy
  <1>3. ~Changes.topology
    BY <1>2 DEF Changes, GetChanges
  <1> QED
    BY <1>1, <1>3 DEF HandleHelmChartReady

LEMMA ReadySaves ==
    ASSUME TypeOK, HandleReady, pc' = "save"
    PROVE  /\ net.status.state = "Ready" /\ pending'.then = "idle"
           /\ AreThereAnyChanges(Changes) /\ dir' = Rewritten
           /\ pending'.status.observed = net.spec.desired
           /\ \/ \E p \in HelmPath(Changes) :
                    pending'.status.state = p[1] /\ pending'.status.nextFlow = p[2]
              \/ /\ HelmPath(Changes) = {} /\ Changes.channel
                 /\ pending'.status.state = "ChannelFlowSubmitted"
                 /\ pending'.status.nextFlow = net.status.nextFlow
                 /\ StartFlow("channel", dir', {}, Observing(net.status))
              \/ /\ HelmPath(Changes) = {} /\ ~Changes.channel /\ Changes.chaincode
                 /\ pending'.status.state = "ChaincodeFlowSubmitted"
                 /\ pending'.status.nextFlow = net.status.nextFlow
                 /\ StartFlow("chaincode", dir', Changes.chaincodes, Observing(net.status))
  <1>0. net.status.state = "Ready" /\ net.status \in Statuses
    BY DEF HandleReady, Handling, TypeOK, WorkerOK, Resources
  <1>1. /\ AreThereAnyChanges(Changes) /\ dir' = Rewritten
        /\ \/ \E p \in HelmPath(Changes) :
                Save([Observing(With(p[1], 0)) EXCEPT !.nextFlow = p[2]], TRUE, "idle")
           \/ /\ HelmPath(Changes) = {} /\ Changes.channel
              /\ StartFlow("channel", dir', {}, Observing(net.status))
           \/ /\ HelmPath(Changes) = {} /\ ~Changes.channel /\ Changes.chaincode
              /\ StartFlow("chaincode", dir', Changes.chaincodes, Observing(net.status))
    <2>1. ~(\E requeue : Return(requeue))
      BY DEF Return
    <2> QED
      BY <2>1, Zenon DEF HandleReady
  <1>2. ASSUME NEW p \in HelmPath(Changes),
               Save([Observing(With(p[1], 0)) EXCEPT !.nextFlow = p[2]], TRUE, "idle")
        PROVE  /\ pending'.status.state = p[1] /\ pending'.status.nextFlow = p[2]
               /\ pending'.status.observed = net.spec.desired /\ pending'.then = "idle"
    <2>1. Changes.peerOrgs \in BOOLEAN /\ Changes.ordererOrgs \in BOOLEAN
      BY DEF Changes, GetChanges
    <2>2. p[1] \in States
      BY <1>0, <2>1, HelmPathType
    <2>3. Observing(With(p[1], 0)) \in Statuses
      BY <2>2, WithType, ObservingType DEF TypeOK
    <2>4. PICK to : to = [Observing(With(p[1], 0)) EXCEPT !.nextFlow = p[2]]
      OBVIOUS
    <2>5. to.state = p[1] /\ to.nextFlow = p[2] /\ to.observed = net.spec.desired
      BY <2>3, <2>4, WithKeeps DEF Statuses
    <2> QED
      BY <1>2, <2>4, <2>5 DEF Save
  <1>3. ASSUME NEW flow \in Flows, NEW values, NEW include,
               StartFlow(flow, values, include, Observing(net.status))
        PROVE  /\ pending'.status.state = Submitted[flow]
               /\ pending'.status.nextFlow = net.status.nextFlow
               /\ pending'.status.observed = net.spec.desired /\ pending'.then = "idle"
    <2>1. Observing(net.status) \in Statuses
      BY <1>0, ObservingType DEF TypeOK
    <2>2. /\ Observing(net.status).observed = net.spec.desired
          /\ Observing(net.status).nextFlow = net.status.nextFlow
      BY <1>0 DEF Observing, Statuses
    <2> QED
      BY <1>3, <2>1, <2>2, Starts
  <1>4. CASE \E p \in HelmPath(Changes) :
                Save([Observing(With(p[1], 0)) EXCEPT !.nextFlow = p[2]], TRUE, "idle")
    BY <1>0, <1>1, <1>2, <1>4
  <1>5. CASE /\ HelmPath(Changes) = {} /\ Changes.channel
             /\ StartFlow("channel", dir', {}, Observing(net.status))
    BY <1>0, <1>1, <1>3, <1>5, FlowTable DEF Flows
  <1>6. CASE /\ HelmPath(Changes) = {} /\ ~Changes.channel /\ Changes.chaincode
             /\ StartFlow("chaincode", dir', Changes.chaincodes, Observing(net.status))
    BY <1>0, <1>1, <1>3, <1>6, FlowTable DEF Flows
  <1> QED
    BY <1>1, <1>4, <1>5, <1>6

\* Who goes on to a save, and who goes on to a step of its own.
LEMMA WhoSaves ==
    ASSUME TypeOK, Consistent, Waiting, Level, Walks, pc' = "save"
    PROVE  \/ HandleNone \/ Install \/ Upgrades \/ HandleHelmChartInstalled \/ NextFlow
           \/ (\E flow \in Flows : HandleFlowSubmitted(flow))
           \/ HandleFlowCompleted("channel", "chaincode")
           \/ HandleFlowCompleted("peerOrg", "channel")
           \/ HandleChaincodeFlowCompleted \/ HandleReady
  <1>1. ~HandleForce
    BY Unforced DEF HandleForce
  <1>2. ~HandleTerminal /\ ~Reconstruct /\ ~CallFails /\ ~Teardown /\ ~Prepare
    BY DEF HandleTerminal, Reconstruct, CallFails, Teardown, Prepare, Return, Goto
  <1>3. ~HandleHelmChartReady
    BY ChartReadyGoesOn DEF Goto
  <1> QED
    BY <1>1, <1>2, <1>3 DEF Walks, Handle, Upgrades

LEMMA WhoSavesWhen ==
    ASSUME TypeOK, Consistent, Waiting, Level, Walks, pc' = "save",
           net.status.state \in Upkeep \union {"New", "Ready"}
    PROVE  \/ net.status.state = "New" /\ Install
           \/ net.status.state \in Upkeep /\ Upgrades
           \/ net.status.state = "Ready" /\ HandleReady
  <1>1. ~HandleNone /\ ~HandleHelmChartInstalled /\ ~HandleChaincodeFlowCompleted
    BY DEF HandleNone, HandleHelmChartInstalled, HandleChaincodeFlowCompleted, Handling, Upkeep
  <1>2. ~NextFlow
    BY NextSaves DEF Upkeep
  <1>3. ~(\E flow \in Flows : HandleFlowSubmitted(flow))
        /\ ~HandleFlowCompleted("channel", "chaincode")
        /\ ~HandleFlowCompleted("peerOrg", "channel")
    BY Untouched DEF HandleFlowSubmitted, HandleFlowCompleted, Handling, Flows, Upkeep
  <1>4. Install => net.status.state = "New"
    BY DEF Install, Consistent, Intentions, Whereabouts
  <1>5. HandleReady => net.status.state = "Ready"
    BY DEF HandleReady, Handling
  <1>6. Upgrades => net.status.state \in Upkeep
    BY UpgradeSaves
  <1> QED
    BY <1>1, <1>2, <1>3, <1>4, <1>5, <1>6, WhoSaves

LEMMA WhoGoes ==
    ASSUME Walks, pc' \notin {"idle", "save"}
    PROVE  \/ Reconstruct /\ Goto("handle")
           \/ Teardown /\ Goto("prepare")
           \/ Prepare /\ Goto("install")
           \/ HandleHelmChartNeedsDoubleUpdate /\ Goto("secondUpdate")
           \/ HandleHelmChartReady /\ Goto("nextFlow")
  <1>1. ASSUME NEW flow, NEW values, NEW include, NEW draft,
               StartFlow(flow, values, include, draft)
        PROVE  FALSE
    BY <1>1 DEF StartFlow, Save, Return
  <1>2. ~HandleReady
    <2>1. (\E requeue : Return(requeue)) => pc' = "idle"
      BY DEF Return
    <2>2. (\E draft : Save(draft, TRUE, "idle")) => pc' = "save"
      BY DEF Save
    <2> QED
      BY <1>1, <2>1, <2>2, Zenon DEF HandleReady
  <1>3. ~NextFlow /\ ~HandleFlowCompleted("channel", "chaincode")
        /\ ~HandleFlowCompleted("peerOrg", "channel")
    BY <1>1 DEF NextFlow, HandleFlowCompleted, Save
  <1>4. ~HandleForce /\ ~HandleNone /\ ~HandleTerminal /\ ~HandleHelmChartInstalled
        /\ ~HandleChaincodeFlowCompleted /\ ~(\E flow \in Flows : HandleFlowSubmitted(flow))
    BY DEF HandleForce, HandleNone, HandleTerminal, HandleHelmChartInstalled,
           HandleChaincodeFlowCompleted, HandleFlowSubmitted, Save, Return
  <1>5. ~HandleHelmChartNeedsUpdate /\ ~SecondUpdate /\ ~Install /\ ~CallFails
    BY DEF HandleHelmChartNeedsUpdate, SecondUpdate, Install, CallFails, Save, Return
  <1>6. HandleHelmChartNeedsDoubleUpdate => Goto("secondUpdate")
    BY DEF HandleHelmChartNeedsDoubleUpdate, Save, Return
  <1>7. /\ (Reconstruct => Goto("handle")) /\ (Teardown => Goto("prepare"))
        /\ (Prepare => Goto("install")) /\ (HandleHelmChartReady => Goto("nextFlow"))
    BY DEF HandleHelmChartReady, Reconstruct, Teardown, Prepare, Save, Return
  <1> QED
    BY <1>2, <1>3, <1>4, <1>5, <1>6, <1>7 DEF Walks, Handle

LEMMA DraftedByWalks ==
    ASSUME TypeOK, Consistent, Waiting, Level, Walks PROVE Drafted'
  <1>1. Busy /\ net \in Seen /\ Applied(net)
    BY WalkEnds, SeenNow DEF Busy, Level
  <1>2. CASE pc' = "save"
    <2>0. net' = net
      BY <1>2, WalkEnds
    <2> SUFFICES
            /\ pending'.then = "idle" /\ <<net.status.state, pending'.status.state>> \in Onward
            /\ pending'.status.state # "Rejected" => pending'.status.observed = net.spec.desired
            /\ net.status.state = "HelmChartReady" /\ pending'.status.state = "Ready" =>
                    net.status.nextFlow = "None"
            /\ net.status.state \in Early /\ pending'.status.state # "Rejected" => ~pending'.checked
      BY <1>2, <2>0 DEF Drafted
    <2>1. CASE HandleNone
      BY <2>1, NoneSaves DEF Keeps, Onward, Edges, Early
    <2>2. CASE Install
      BY <1>1, <1>2, <2>2, InstallSaves DEF Keeps, Applied, Onward, Edges, Early
    <2>3. CASE Upgrades
      BY <1>1, <1>2, <2>3, UpgradeSaves DEF Keeps, Applied, Onward, Edges, Early, Upkeep
    <2>4. CASE HandleHelmChartInstalled
      BY <1>1, <1>2, <2>4, StatefulSaves DEF Keeps, Applied, Onward, Edges, Early
    <2>5. CASE NextFlow
      BY <1>1, <1>2, <2>5, NextSaves DEF Keeps, Applied, Onward, Edges, Early
    <2>6. ASSUME NEW flow \in Flows, HandleFlowSubmitted(flow)
          PROVE  /\ pending'.then = "idle"
                 /\ <<net.status.state, pending'.status.state>> \in Onward
                 /\ pending'.status.observed = net.spec.desired
                 /\ net.status.state \notin Early \union {"HelmChartReady"}
      <3>1. flow = "channel" \/ flow = "chaincode" \/ flow = "peerOrg"
        BY FlowTable
      <3> QED
        BY <1>1, <1>2, <2>6, <3>1, PollSaves, FlowTable DEF Keeps, Applied, Onward, Edges, Early
    <2>7. CASE HandleFlowCompleted("channel", "chaincode") \/ HandleFlowCompleted("peerOrg", "channel")
      BY <1>1, <1>2, <2>7, SequelSaves, FlowTable
         DEF Keeps, Applied, Onward, Edges, Early, Flows
    <2>8. CASE HandleChaincodeFlowCompleted
      BY <1>1, <2>8, CompletionSaves DEF Keeps, Applied, Onward, Edges, Early
    <2>9. CASE HandleReady
      <3>1. Changes.peerOrgs \in BOOLEAN /\ Changes.ordererOrgs \in BOOLEAN
        BY DEF Changes, GetChanges
      <3>2. \A p \in HelmPath(Changes) : p[1] \in {"HelmChartNeedsUpdate", "HelmChartNeedsDoubleUpdate"}
        BY <3>1, HelmPathStates
      <3>3. /\ net.status.state = "Ready" /\ pending'.then = "idle"
            /\ pending'.status.observed = net.spec.desired
            /\ pending'.status.state \in { "HelmChartNeedsUpdate", "HelmChartNeedsDoubleUpdate",
                                           "ChannelFlowSubmitted", "ChaincodeFlowSubmitted" }
        BY <1>2, <2>9, <3>2, ReadySaves
      <3> QED
        BY <3>3 DEF Onward, Edges, Early
    <2> QED
      BY <1>2, <2>1, <2>2, <2>3, <2>4, <2>5, <2>6, <2>7, <2>8, <2>9, WhoSaves
  <1>3. CASE pc' = "nextFlow"
    <2>1. HandleHelmChartReady
      BY <1>3, WhoGoes DEF Goto
    <2> QED
      BY <1>3, <2>1, ChartReadyGoesOn DEF Goto, Drafted
  <1> QED
    BY <1>2, <1>3 DEF Drafted

LEMMA SaveReturns ==
    ASSUME TypeOK, Consistent, Level, SaveStatus PROVE pc = "save" /\ pc' = "idle"
  BY SaveIs DEF Level, Drafted

LEMMA LevelKept ==
    ASSUME TypeOK, Consistent, Waiting, Level, [Next]_vars PROVE Level'
  <1>1. Drafted'
    <2>1. CASE Idles
      BY <2>1, IdleIs DEF worker, Level, Drafted
    <2>2. CASE Deliver \/ Crash \/ Begin
      BY <2>2 DEF Deliver, Crash, Begin, worker, Level, Drafted
    <2>3. CASE UserEdits \/ UserForces
      BY <2>3, UserWriteIs DEF TypeOK, Level, Drafted
    <2>4. CASE Walks
      BY <2>4, DraftedByWalks
    <2>5. CASE SaveStatus
      BY <2>5, SaveReturns DEF Drafted
    <2>6. ~ClearForce
      BY Unforced DEF ClearForce
    <2> QED
      BY <2>1, <2>2, <2>3, <2>4, <2>5, <2>6 DEF Next, Worker, Environment, Idles, Walks
  <1>2. ASSUME ~UNCHANGED resource PROVE Applied(Current')
    <2>0. Current'.spec = spec' /\ Current'.status = status'
      BY DEF Current
    <2>1. CASE UserEdits \/ UserForces
      <3>1. status' = status /\ status.state = "Ready"
        BY <2>1 DEF UserEdits, UserForces, UserWrites, Write, Waiting, Settled
      <3> QED
        BY <2>0, <3>1 DEF Applied
    <2>2. CASE SaveStatus
      <3>1. /\ net.spec = spec /\ spec' = spec /\ status'.state = pending.status.state
            /\ status'.observed = Stored(pending.status.observed)
        BY <1>2, <2>2, SavedDraft
      <3>2. pending.status.observed \in SpecsOrUnset
        BY DEF TypeOK, WorkerOK, Statuses
      <3>3. pending.status.state # "Rejected" => pending.status.observed = net.spec.desired
        BY <2>2, SaveReturns DEF Level, Drafted
      <3> QED
        BY <2>0, <3>1, <3>2, <3>3, StoredAsIs DEF Applied
    <2>3. ~ClearForce
      BY Unforced DEF ClearForce
    <2> QED
      BY <1>2, <2>1, <2>2, <2>3, Writers DEF vars
  <1>3. \A x \in Seen' : x \in Seen \/ (~UNCHANGED resource /\ x = Current')
    BY SeenGrows
  <1>4. \A x \in Seen' : Applied(x)
    BY <1>2, <1>3 DEF Level
  <1>5. (\A x \in Seen : Applied(x))'
    BY <1>4 DEF Applied
  <1> QED
    BY <1>1, <1>5 DEF Level

\* At the start there is one version, which nobody has read yet.
LEMMA FirstVersion ==
    ASSUME Init
    PROVE  /\ pc = "idle" /\ ~Busy /\ watch = <<>> /\ DOMAIN watch = {}
           /\ Current.spec = spec /\ Current.status = FirstStatus
           /\ FirstStatus.state = "" /\ FirstStatus.nextFlow = ""
           /\ \A x \in Seen : x = Current
  <1>1. /\ pc = "idle" /\ ~Busy /\ watch = <<>> /\ cache = Current
        /\ Current.spec = spec /\ Current.status = FirstStatus
        /\ FirstStatus.state = "" /\ FirstStatus.nextFlow = ""
    BY DEF Init, Current, FirstStatus, Busy
  <1>2. DOMAIN watch = {}
    <2>1. watch \in Seq({}) /\ Len(watch) = 0
      BY <1>1, EmptySeq
    <2> QED
      BY <2>1, LenProperties
  <1>3. \A x \in Seen : x = Current
    BY <1>1, <1>2, SeenNow
  <1> QED
    BY <1>1, <1>2, <1>3

LEMMA LevelStart == Init => Level
  BY FirstVersion DEF Level, Applied, Drafted

LEMMA LevelAlways == ASSUME Waiting PROVE Spec => []Level
  <1>1. TypeOK /\ Consistent /\ Level /\ [Next]_vars => Level'
    BY LevelKept
  <1> QED
    BY <1>1, LevelStart, TypeCorrect, ConsistentAlways, PTL DEF Spec

-----------------------------------------------------------------------------
\* The release is not torn down again.

\* The network does not go back to New from HelmChartReady, where the operator
\* looks once more for a change of the topology.
StaysUp == ~(spec.force = "" /\ status.state = "HelmChartReady" /\ status'.state = "New")

\* A worker that has read New goes on to the installation, and no further.
GoesOn ==
    /\ pc = "nextFlow" => net.status.state = "HelmChartReady"
    /\ pc = "save" =>
        /\ net.spec.force = "" /\ net.status.state = "New" =>
                pending.status.state \in {"HelmChartInstalled", "HelmChartNeedsUpdate"}
        /\ pending.then = "nextFlow" => net.status.state = "HelmChartReady"

\* Whoever still reads New reads it while the network is being installed.
NewLast ==
    /\ GoesOn
    /\ \A x \in Seen : x.spec.force = "" /\ x.status.state = "New" =>
            status.state \in {"New", "HelmChartInstalled", "HelmChartNeedsUpdate"}

LEMMA WalkGoesOn ==
    ASSUME TypeOK, Consistent, GoesOn, Walks PROVE GoesOn'
  <1>1. CASE pc' = "nextFlow"
    BY <1>1, WhoGoes DEF Goto, HandleHelmChartReady, Handling, GoesOn
  <1>2. CASE pc' = "save"
    <2>0. net' = net
      BY <1>2, WalkEnds
    <2>1. CASE HandleHelmChartReady
      BY <1>2, <2>0, <2>1 DEF HandleHelmChartReady, Handling, GoesOn
    <2>2. ASSUME ~HandleHelmChartReady PROVE pending'.then # "nextFlow"
      <3>1. /\ \A draft, checked : Save(draft, checked, "idle") => pending'.then # "nextFlow"
            /\ \A draft : Save(draft, TRUE, "clearForce") => pending'.then # "nextFlow"
            /\ \A requeue : ~Return(requeue)
            /\ \A label : Goto(label) => label = "save"
        BY <1>2 DEF Save, Return, Goto
      <3>2. ASSUME NEW flow, NEW values, NEW include, NEW draft,
                   StartFlow(flow, values, include, draft)
            PROVE  pending'.then # "nextFlow"
        BY <3>1, <3>2 DEF StartFlow
      <3>3. CASE HandleReady
        BY <3>1, <3>2, <3>3, Zenon DEF HandleReady
      <3>4. CASE NextFlow \/ HandleFlowCompleted("channel", "chaincode")
                          \/ HandleFlowCompleted("peerOrg", "channel")
        BY <3>1, <3>2, <3>4 DEF NextFlow, HandleFlowCompleted
      <3>5. CASE HandleForce \/ HandleNone \/ HandleTerminal \/ HandleHelmChartInstalled
                  \/ HandleChaincodeFlowCompleted \/ (\E flow \in Flows : HandleFlowSubmitted(flow))
        BY <3>1, <3>5 DEF HandleForce, HandleNone, HandleTerminal, HandleHelmChartInstalled,
               HandleChaincodeFlowCompleted, HandleFlowSubmitted
      <3>6. CASE HandleHelmChartNeedsUpdate \/ HandleHelmChartNeedsDoubleUpdate \/ SecondUpdate
        BY <3>1, <3>6 DEF HandleHelmChartNeedsUpdate, HandleHelmChartNeedsDoubleUpdate,
                SecondUpdate
      <3>7. CASE Reconstruct \/ CallFails \/ Teardown \/ Prepare \/ Install
        BY <3>1, <3>7 DEF Reconstruct, CallFails, Teardown, Prepare, Install
      <3> QED
        BY <1>2, <2>2, <3>3, <3>4, <3>5, <3>6, <3>7 DEF Walks, Handle
    <2>3. ASSUME net.spec.force = "", net.status.state = "New"
          PROVE  pending'.status.state \in {"HelmChartInstalled", "HelmChartNeedsUpdate"}
      <3>1. ~NextFlow /\ ~SecondUpdate
        BY <2>3 DEF NextFlow, SecondUpdate, GoesOn, Consistent, Intentions, Whereabouts
      <3>2. ~Reconstruct /\ ~CallFails /\ ~Teardown /\ ~Prepare
        BY <1>2 DEF Reconstruct, CallFails, Teardown, Prepare, Return, Goto
      <3>3. ~Handle
        <4>1. \A flow \in Flows : "New" # Submitted[flow] /\ "New" # Completed[flow]
          BY Untouched
        <4> QED
          BY <2>3, <4>1
             DEF Handle, HandleForce, HandleNone, HandleTerminal, HandleHelmChartNeedsUpdate,
                 HandleHelmChartNeedsDoubleUpdate, HandleHelmChartInstalled,
                 HandleHelmChartReady, HandleFlowSubmitted, HandleFlowCompleted,
                 HandleChaincodeFlowCompleted, HandleReady, Handling, Flows
      <3> QED
        BY <1>2, <3>1, <3>2, <3>3, InstallSaves DEF Walks, Keeps
    <2> QED
      BY <1>2, <2>0, <2>1, <2>2, <2>3 DEF GoesOn, HandleHelmChartReady, Handling
  <1> QED
    BY <1>1, <1>2 DEF GoesOn

LEMMA NewLastKept ==
    ASSUME TypeOK, Consistent, OneVersion, NewLast, [Next]_vars, [StaysUp]_vars PROVE NewLast'
  <1>0. GoesOn
    BY DEF NewLast
  <1>1. GoesOn'
    <2>1. CASE Idles
      BY <1>0, <2>1, IdleIs DEF worker, GoesOn
    <2>2. CASE Deliver \/ Crash \/ Begin
      BY <1>0, <2>2 DEF Deliver, Crash, Begin, worker, GoesOn
    <2>3. CASE UserEdits \/ UserForces
      BY <1>0, <2>3, UserWriteIs DEF TypeOK, GoesOn
    <2>4. CASE Walks
      BY <1>0, <2>4, WalkGoesOn
    <2>5. CASE SaveStatus
      <3>1. pc' # "save" /\ (pc' = "nextFlow" => pending.then = "nextFlow" /\ ~UNCHANGED status)
        <4>1. CASE pc' = "idle"
          BY <4>1
        <4>2. CASE pc' # "idle"
          <5>1. /\ pc = "save" /\ net = Current /\ pc' = pending.then
                /\ pending.then # "idle" /\ status'.state = pending.status.state
            BY <2>5, <4>2, SaveIs DEF Write
          <5>2. pending.then \in {"nextFlow", "clearForce"}
            BY <5>1 DEF TypeOK, WorkerOK
          <5>3. pc' = "nextFlow" => status.state = "HelmChartReady" /\ status'.state = "New"
            BY <1>0, <5>1 DEF GoesOn, Consistent, Intentions, DraftLegal, Current
          <5> QED
            BY <5>1, <5>2, <5>3
        <4> QED
          BY <4>1, <4>2
      <3>2. pc' # "nextFlow"
        <4>1. SUFFICES ASSUME pc' = "nextFlow" PROVE FALSE
          OBVIOUS
        <4>2. /\ ~UNCHANGED status /\ pc = "save" /\ pending.then = "nextFlow"
              /\ net.status.state = "HelmChartReady"
          BY <1>0, <2>5, <3>1, <4>1, SaveIs DEF GoesOn
        <4>3. /\ DraftLegal /\ net.spec = spec /\ net.status = status
              /\ status'.state = pending.status.state
          BY <2>5, <4>2, SavedDraft DEF resource
        <4>4. spec.force = "" /\ status'.state = "New"
          BY <4>2, <4>3 DEF DraftLegal
        <4> QED
          BY <4>2, <4>3, <4>4 DEF StaysUp, vars, resource
      <3> QED
        BY <3>1, <3>2 DEF GoesOn
    <2>6. CASE ClearForce
      BY <2>6 DEF ClearForce, Return, GoesOn
    <2> QED
      BY <2>1, <2>2, <2>3, <2>4, <2>5, <2>6 DEF Next, Worker, Environment, Idles, Walks
  <1>2. ASSUME NEW x \in Seen', x.spec.force = "", x.status.state = "New"
        PROVE  status'.state \in {"New", "HelmChartInstalled", "HelmChartNeedsUpdate"}
    <2>0. /\ Current.spec = spec /\ Current.status = status
          /\ Current'.spec = spec' /\ Current'.status = status'
      BY DEF Current
    <2>1. CASE x \in Seen /\ status' = status
      BY <1>2, <2>1 DEF NewLast
    <2>2. CASE x = Current'
      BY <1>2, <2>0, <2>2
    <2>3. CASE UserEdits \/ UserForces \/ ClearForce
      <3>1. status' = status
        BY <2>3 DEF UserEdits, UserForces, UserWrites, ClearForce, Write, resource
      <3> QED
        BY <2>1, <2>2, <2>3, <3>1, SeenGrows, <1>2
    <2>4. CASE SaveStatus /\ ~UNCHANGED resource /\ x \in Seen
      <3>1. /\ net.spec = spec /\ net.status = status /\ status'.state = pending.status.state
            /\ pc = "save" /\ fresh
        BY <2>4, SavedDraft, SaveIs DEF resource
      <3>2. ~Renewed
        BY <1>0, <3>1 DEF Renewed, GoesOn
      <3>3. x = Current
        BY <2>4, <3>1, <3>2 DEF OneVersion, Busy
      <3> QED
        BY <1>0, <1>2, <2>0, <3>1, <3>3 DEF GoesOn
    <2>5. CASE Current' = Current /\ x \in Seen
      BY <2>0, <2>1, <2>5
    <2> QED
      BY <1>2, <2>2, <2>3, <2>4, <2>5, SeenGrows
  <1> QED
    BY <1>1, <1>2 DEF NewLast

\* Only maybeUninstallHelmChart, installHelmChart and updateHelmChart give the
\* release another topology, or launch its pods.
LEMMA ReleaseStays ==
    ASSUME TypeOK, [Next]_vars, ~Teardown, ~Install, ~Upgrades
    PROVE  /\ release'.installed = release.installed /\ release'.topology = release.topology
           /\ release'.launched = release.launched /\ release'.aliases = release.aliases
           /\ release'.misled = release.misled
  <1>0. release \in Releases
    BY DEF TypeOK, ClusterOK
  <1>1. CASE PodsRestarting \/ PodsReady \/ ServicesListed
    BY <1>0, <1>1 DEF PodsRestarting, PodsReady, ServicesListed, Releases
  <1>2. \/ Deliver \/ TimerFires \/ Resync \/ Crash \/ UserEdits \/ UserForces \/ Begin
        \/ (\E n \in Names : WorkflowEnds(n)) \/ UNCHANGED vars
        => release' = release
    BY DEF Deliver, TimerFires, Resync, Crash, UserEdits, UserForces, UserWrites, Begin,
           WorkflowEnds, vars, cluster
  <1>3. Reconstruct \/ CallFails \/ Prepare \/ SaveStatus \/ ClearForce \/ NextFlow \/ HandleReady
        => release' = release
    BY DEF Reconstruct, CallFails, Prepare, SaveStatus, ClearForce, NextFlow, HandleReady, cluster
  <1>4. \/ HandleForce \/ HandleNone \/ HandleTerminal \/ HandleHelmChartInstalled
        \/ HandleHelmChartReady \/ HandleChaincodeFlowCompleted
        \/ (\E flow \in Flows : HandleFlowSubmitted(flow))
        \/ HandleFlowCompleted("channel", "chaincode")
        \/ HandleFlowCompleted("peerOrg", "channel")
        => release' = release
    BY DEF HandleForce, HandleNone, HandleTerminal, HandleHelmChartInstalled,
           HandleHelmChartReady, HandleChaincodeFlowCompleted, HandleFlowSubmitted,
           HandleFlowCompleted, cluster
  <1> QED
    BY <1>1, <1>2, <1>3, <1>4 DEF Next, Worker, Handle, Environment, Upgrades

LEMMA Installs ==
    ASSUME Install
    PROVE  /\ release'.installed /\ release'.topology = Charted
           /\ release'.launched = ~net.spec.desired.topology.useActualDomains
           /\ ~release'.misled
  <1>1. release' = [installed |-> TRUE, topology |-> Charted,
                    launched |-> ~net.spec.desired.topology.useActualDomains,
                    listed |-> IF ServicesLag THEN {} ELSE Peers(Charted), aliases |-> {},
                    misled |-> FALSE, certificates |-> dir.stage = "complete",
                    ready |-> FALSE, reported |-> FALSE]
    BY Zenon DEF Install
  <1> QED
    BY <1>1

LEMMA Upgraders ==
    ASSUME TypeOK, Upgrades
    PROVE  \/ release' = release
           \/ /\ release'.installed = release.installed /\ release'.topology = Charted
              /\ release'.launched
              /\ ~release'.misled => release.listed = Peers(release.topology)
              /\ net.spec.desired.topology.useActualDomains => release'.aliases = release.listed
  <1>1. release \in Releases
    BY DEF TypeOK, ClusterOK
  <1>2. /\ Upgraded.installed = release.installed /\ Upgraded.topology = Charted
        /\ Upgraded.launched
        /\ ~Upgraded.misled => release.listed = Peers(release.topology)
        /\ net.spec.desired.topology.useActualDomains => Upgraded.aliases = release.listed
    BY <1>1 DEF Upgraded, Releases
  <1>3. release' = Upgraded \/ release' = release
    BY DEF Upgrades, HandleHelmChartNeedsUpdate, HandleHelmChartNeedsDoubleUpdate, SecondUpdate
  <1> QED
    BY <1>2, <1>3

LEMMA WhoUninstalls ==
    ASSUME TypeOK, [Next]_vars, release.installed, ~release'.installed PROVE Teardown
  BY ReleaseStays, Installs, Upgraders

\* As long as the operator does not send the network back to New itself, no call
\* of Reconcile, however stale its copy of the resource, uninstalls a release
\* (maybeUninstallHelmChart) that has once been seen ready: whoever still reads
\* New reads it while the network is being installed.
THEOREM TeardownOnlyFreshAlways == Spec /\ [][StaysUp]_vars => TeardownOnlyFresh
  <1> DEFINE A == release.installed /\ ~release'.installed =>
                    status.state \in {"New", "HelmChartInstalled", "HelmChartNeedsUpdate"}
  <1>1. Init => NewLast
    BY FirstVersion DEF NewLast, GoesOn
  <1>2. TypeOK /\ Consistent /\ OneVersion /\ NewLast /\ [Next]_vars /\ [StaysUp]_vars => NewLast'
    BY NewLastKept
  <1>3. TypeOK /\ NewLast /\ [Next]_vars => [A]_vars
    <2> SUFFICES ASSUME TypeOK, NewLast, [Next]_vars, release.installed, ~release'.installed
                 PROVE  status.state \in {"New", "HelmChartInstalled", "HelmChartNeedsUpdate"}
      BY DEF A
    <2>1. Busy /\ net.spec.force = "" /\ net.status.state = "New"
      BY WhoUninstalls DEF Teardown, Handling, Busy
    <2> QED
      BY <2>1, SeenNow DEF NewLast
  <1> QED
    BY <1>1, <1>2, <1>3, TypeCorrect, ConsistentAlways, OneVersionAlways, PTL
       DEF Spec, TeardownOnlyFresh, A

\* With a user who waits for each change it never does: HelmChartReady finds the
\* topology it has applied to be the one desired.
THEOREM WaitingStaysUp == ASSUME Waiting PROVE Spec => TeardownOnlyFresh
  <1>1. TypeOK /\ Consistent /\ Level /\ [Next]_vars => [StaysUp]_vars
    <2> SUFFICES ASSUME TypeOK, Consistent, Waiting, Level, Next, status.state = "HelmChartReady",
                        status'.state = "New"
                 PROVE  FALSE
      BY DEF StaysUp
    <2>1. status' # status
      OBVIOUS
    <2>2. SaveStatus
      <3>1. ~ClearForce
        BY Unforced DEF ClearForce
      <3>2. ~UserEdits /\ ~UserForces
        BY <2>1 DEF UserEdits, UserForces, UserWrites, Write
      <3> QED
        BY <2>1, <3>1, <3>2, Writers DEF resource
    <2>3. net.status = status /\ status'.state = pending.status.state /\ pc = "save"
      BY <2>1, <2>2, SavedDraft, SaveReturns DEF resource
    <2> QED
      BY <2>3 DEF Level, Drafted, Onward
  <1> QED
    BY <1>1, LevelAlways, TypeCorrect, ConsistentAlways, TeardownOnlyFreshAlways, PTL DEF Spec

-----------------------------------------------------------------------------
\* How far behind the worker's copy may be.

\* Whatever is still to be read has the server's status, or that of one step
\* before.
Behind ==
    \A x \in Seen :
        \/ x.status = status
        \/ /\ <<x.status.state, status.state>> \in Onward
           /\ x.status.state = "HelmChartReady" /\ status.state = "Ready" => x.status.nextFlow = "None"

\* It asks for what the server's version asks for, or nothing is left to do for it
\* but to report Ready.
InSync ==
    \A x \in Seen :
        \/ x.spec.desired = spec.desired
        \/ /\ status.state = "Ready"
           /\ \/ Done(x) \/ x.status.state = "ChaincodeFlowCompleted"
              \/ x.status.state = "HelmChartReady" /\ x.status.nextFlow = "None"

\* A save that reaches the server is the only one under way, and saves the draft.
LEMMA SavedAlone ==
    ASSUME TypeOK, Consistent, OneVersion, Waiting, Level, SaveStatus, ~UNCHANGED resource
    PROVE  /\ pc = "save" /\ pc' = "idle" /\ fresh /\ net.spec = spec /\ net.status = status
           /\ spec' = spec /\ status' = pending.status
           /\ watch' = Append(watch, [spec |-> spec', status |-> status']) /\ cache' = cache
           /\ \A x \in Seen : x = Current
  <1>1. PICK saved \in Statuses :
            /\ saved = [pending.status EXCEPT !.observed = Stored(pending.status.observed)]
            /\ fresh /\ net = Current /\ Write(spec, saved)
    BY SaveIs DEF resource
  <1>2. pc = "save" /\ pc' = "idle"
    BY SaveReturns
  <1>3. pending.status \in Statuses
    BY DEF TypeOK, WorkerOK
  <1>4. Stored(pending.status.observed) = pending.status.observed
    BY <1>3, StoredAsIs DEF Statuses
  <1>5. saved = pending.status
    BY <1>1, <1>3, <1>4 DEF Statuses
  <1>6. ~Renewed
    BY <1>1, <1>2 DEF Renewed, Level, Drafted, Onward, Edges
  <1>7. \A x \in Seen : x = Current
    BY <1>1, <1>2, <1>6 DEF OneVersion, Busy
  <1> QED
    BY <1>1, <1>2, <1>5, <1>7 DEF Write, Current

\* With a user who waits, only a save and the user write the resource.
LEMMA WaitingGrows ==
    ASSUME TypeOK, Consistent, Waiting, [Next]_vars
    PROVE  \/ UNCHANGED resource /\ \A x \in Seen' : x \in Seen
           \/ SaveStatus /\ ~UNCHANGED resource /\ \A x \in Seen' : x \in Seen \/ x = Current'
           \/ /\ UserEdits /\ Settled /\ UNCHANGED <<status, pc, net, pending, dir, cluster>>
              /\ \A x \in Seen' : x \in Seen \/ x = Current'
  <1>1. ~ClearForce /\ ~UserForces
    BY Unforced DEF ClearForce, UserForces, Waiting
  <1>2. Current' = Current => UNCHANGED resource
    BY DEF Current, resource
  <1>3. UserEdits => Settled /\ UNCHANGED <<status, pc, net, pending, dir, cluster>>
    BY DEF UserEdits, UserWrites, Write, Waiting
  <1> QED
    BY <1>1, <1>2, <1>3, SeenGrows

LEMMA BehindKept ==
    ASSUME TypeOK, Consistent, OneVersion, Waiting, Level, Behind, [Next]_vars PROVE Behind'
  <1> SUFFICES ASSUME NEW x \in Seen'
               PROVE  \/ x.status = status'
                      \/ /\ <<x.status.state, status'.state>> \in Onward
                         /\ x.status.state = "HelmChartReady" /\ status'.state = "Ready" =>
                                x.status.nextFlow = "None"
    BY DEF Behind
  <1>1. Current'.status = status' /\ Current.status = status
    BY DEF Current
  <1>2. CASE x \in Seen /\ status' = status
    BY <1>2 DEF Behind
  <1>3. CASE x = Current'
    BY <1>1, <1>3
  <1>4. CASE SaveStatus /\ ~UNCHANGED resource /\ x \in Seen
    <2>1. x = Current /\ pc = "save" /\ net.status = status /\ status' = pending.status
      BY <1>4, SavedAlone
    <2> QED
      BY <1>1, <2>1 DEF Level, Drafted
  <1> QED
    BY <1>2, <1>3, <1>4, WaitingGrows DEF resource

LEMMA InSyncKept ==
    ASSUME TypeOK, Consistent, OneVersion, Waiting, Level, Behind, InSync, [Next]_vars
    PROVE  InSync'
  <1> SUFFICES ASSUME NEW x \in Seen'
               PROVE  \/ x.spec.desired = spec'.desired
                      \/ /\ status'.state = "Ready"
                         /\ \/ Done(x) \/ x.status.state = "ChaincodeFlowCompleted"
                            \/ x.status.state = "HelmChartReady" /\ x.status.nextFlow = "None"
    BY DEF InSync, Done
  <1>1. Current'.spec = spec' /\ Current.spec = spec
    BY DEF Current
  <1>2. CASE x \in Seen /\ UNCHANGED resource
    BY <1>2 DEF InSync, resource
  <1>3. CASE x = Current'
    BY <1>1, <1>3
  <1>4. CASE SaveStatus /\ ~UNCHANGED resource /\ x \in Seen
    <2>1. x = Current /\ spec' = spec
      BY <1>4, SavedAlone
    <2> QED
      BY <1>1, <2>1
  <1>5. CASE UserEdits /\ Settled /\ status' = status /\ x \in Seen
    <2>1. status'.state = "Ready" /\ status.state = "Ready" /\ status.observed = spec.desired
      <3>1. spec.desired \in SpecsOrUnset
        BY DEF TypeOK, ResourceOK
      <3> QED
        BY <1>5, <3>1, StoredAsIs DEF Settled
    <2>2. CASE x.spec.desired # spec.desired
      BY <1>5, <2>1, <2>2 DEF InSync
    <2>3. CASE x.spec.desired = spec.desired /\ x.status = status
      <3>1. x.spec.force = ""
        <4>1. x \in Resources
          <5>1. \/ x = Current \/ x = cache \/ x = net
                \/ \E i \in DOMAIN watch : x = watch[i]
            BY <1>5, SeenNow
          <5>2. Current \in Resources /\ cache \in Resources /\ net \in Resources
            BY DEF Current, TypeOK, ResourceOK, WorkerOK, Resources
          <5>3. \A i \in DOMAIN watch : watch[i] \in Resources
            <6>1. watch \in Seq(Resources)
              BY DEF TypeOK, ResourceOK
            <6>2. DOMAIN watch = 1..Len(watch)
              BY <6>1, LenProperties
            <6> QED
              BY <6>1, <6>2, ElementOfSeq
          <5> QED
            BY <5>1, <5>2, <5>3
        <4> QED
          BY <4>1 DEF Resources, Waiting
      <3> QED
        BY <1>5, <2>1, <2>3, <3>1 DEF Done, Settled
    <2>4. CASE <<x.status.state, "Ready">> \in Onward
                /\ (x.status.state = "HelmChartReady" => x.status.nextFlow = "None")
      <3>1. x.status.state \in {"ChaincodeFlowCompleted", "HelmChartReady"}
        BY <2>4 DEF Onward, Edges
      <3> QED
        BY <2>1, <2>4, <3>1
    <2> QED
      BY <1>5, <2>1, <2>2, <2>3, <2>4 DEF Behind
  <1> QED
    BY <1>2, <1>3, <1>4, <1>5, WaitingGrows

-----------------------------------------------------------------------------
\* A network is set up once.

\* While the network is set up, one thing at a time is under way: a version on its
\* way to the informer, a call of Reconcile, or a requeue.  Afterwards nobody reads
\* what was before.
SetUpOnce ==
    /\ status.state \in Early =>
        /\ delayed => ~Busy /\ ~queued
        /\ Busy => fresh /\ ~queued
        /\ Busy \/ queued \/ delayed => watch = <<>>
        /\ watch # <<>> => Tail(watch) = <<>>
    /\ status.state \notin Early \union {"Rejected"} =>
        /\ cache.status.state \in Early => ~Busy /\ ~queued /\ ~delayed /\ watch # <<>>
        /\ \A i \in DOMAIN watch : watch[i].status.state \notin Early
        /\ Busy => net.status.state \notin Early

LEMMA SetUpSaved ==
    ASSUME TypeOK, Consistent, OneVersion, Waiting, Level, SetUpOnce, SaveStatus,
           ~UNCHANGED resource
    PROVE  SetUpOnce'
  <1>1. /\ pc = "save" /\ pc' = "idle" /\ fresh /\ net.status = status
        /\ status' = pending.status /\ watch' = Append(watch, Current') /\ cache' = cache
        /\ \A x \in Seen : x = Current
    BY SavedAlone DEF Current
  <1>2. /\ Busy /\ ~Busy' /\ <<status.state, status'.state>> \in Onward
        /\ status.state \in Early /\ status'.state # "Rejected" => ~pending.checked
    BY <1>1 DEF Busy, Level, Drafted
  <1>3. Current' \in Resources /\ Current'.status = status' /\ Current.status = status
    <2>1. pending.status \in Statuses /\ UNCHANGED spec
      BY SavedAlone DEF TypeOK, WorkerOK
    <2> QED
      BY <1>1, <2>1 DEF Current, TypeOK, ResourceOK, Resources
  <1>4. /\ watch' # <<>>
        /\ \A i \in DOMAIN watch' : watch'[i] = Current' \/ (i \in DOMAIN watch /\ watch'[i] = watch[i])
    BY <1>1, <1>3, WatchGrows DEF TypeOK, ResourceOK
  <1>5. cache.status = status
    BY <1>1, <1>3, SeenNow
  <1>6. ASSUME status.state \in Early, status'.state # "Rejected"
        PROVE  ~queued' /\ ~delayed' /\ watch = <<>>
    <2>1. UNCHANGED queued /\ (delayed' => delayed \/ pending.checked)
      BY <1>1 DEF SaveStatus, Return, Continue
    <2> QED
      BY <1>2, <1>6, <2>1 DEF SetUpOnce, TypeOK, WorkerOK
  <1>7. CASE status'.state \in Early
    <2>1. status.state \in Early /\ status'.state # "Rejected"
      BY <1>2, <1>7 DEF Early, Onward, Edges
    <2>2. Tail(watch') = <<>>
      <3>1. Tail(Append(watch, Current')) = <<>>
        BY <1>6, <2>1
      <3> QED
        BY <1>1, <3>1
    <2> QED
      BY <1>2, <1>6, <1>7, <2>1, <2>2 DEF SetUpOnce
  <1>8. CASE status'.state \notin Early \union {"Rejected"}
    <2>1. ASSUME NEW i \in DOMAIN watch' PROVE watch'[i].status.state \notin Early
      <3>1. CASE watch'[i] = Current'
        BY <1>3, <1>8, <3>1
      <3>2. CASE i \in DOMAIN watch /\ watch'[i] = watch[i]
        <4>1. watch[i].status = status
          BY <1>1, <1>3, <3>2, SeenNow
        <4>2. status.state \notin Early
          <5>1. status.state \in Early => DOMAIN watch = {}
            <6>1. <<>> \in Seq({}) /\ Len(<<>>) = 0
              BY EmptySeq
            <6> QED
              BY <1>6, <1>8, <6>1, LenProperties
          <5> QED
            BY <3>2, <5>1
        <4> QED
          BY <3>2, <4>1, <4>2
      <3> QED
        BY <1>4, <3>1, <3>2
    <2>2. cache'.status.state \in Early => ~queued' /\ ~delayed'
      BY <1>1, <1>5, <1>6, <1>8
    <2> QED
      BY <1>2, <1>4, <1>8, <2>1, <2>2 DEF SetUpOnce
  <1>9. CASE status'.state = "Rejected"
    BY <1>9 DEF SetUpOnce, Early
  <1> QED
    BY <1>7, <1>8, <1>9

LEMMA SetUpKept ==
    ASSUME TypeOK, Consistent, OneVersion, Waiting, ~ResyncAnytime, Level, SetUpOnce, [Next]_vars
    PROVE  SetUpOnce'
  <1>1. CASE Idles
    <2>1. UNCHANGED <<resource, informer, worker>>
      BY <1>1, IdleIs
    <2>2. \/ UNCHANGED <<queued, delayed>>
          \/ delayed /\ ~delayed'
          \/ Quiet /\ UNCHANGED delayed
      BY <1>1 DEF Idles, TimerFires, Resync, PodsRestarting, PodsReady, ServicesListed,
             WorkflowEnds, vars
    <2> QED
      BY <2>1, <2>2 DEF SetUpOnce, Quiet, Busy, resource, informer, worker
  <1>2. CASE Deliver
    <2>1. /\ watch # <<>> /\ cache' = Head(watch) /\ watch' = Tail(watch)
          /\ UNCHANGED <<spec, status, delayed, pc, net, fresh>>
      BY <1>2 DEF Deliver, resource, worker
    <2>2. /\ \E i \in DOMAIN watch : cache' = watch[i]
          /\ \A i \in DOMAIN watch' : \E j \in DOMAIN watch : watch'[i] = watch[j]
      <3>1. watch \in Seq(Resources)
        BY DEF TypeOK, ResourceOK
      <3> QED
        BY <2>1, <3>1, Delivered
    <2>3. CASE status.state \in Early
      BY <2>1, <2>3 DEF SetUpOnce, Busy, Early
    <2>4. CASE status.state \notin Early \union {"Rejected"}
      BY <2>1, <2>2, <2>4 DEF SetUpOnce, Busy
    <2>5. CASE status.state = "Rejected"
      BY <2>1, <2>5 DEF SetUpOnce, Early
    <2> QED
      BY <2>3, <2>4, <2>5
  <1>3. CASE Begin
    BY <1>3 DEF Begin, resource, informer, SetUpOnce, Busy
  <1>4. CASE UserEdits \/ UserForces
    <2>1. status.state = "Ready" /\ UNCHANGED <<status, cache, queued, delayed, pc, net>>
      BY <1>4 DEF UserEdits, UserForces, UserWrites, Write, Waiting, Settled
    <2>2. PICK s \in [desired : SpecsOrUnset, force : Forceable \union {""}] : Write(s, status)
      BY <1>4, UserWriteIs DEF TypeOK
    <2>3. PICK new \in Resources : new = [spec |-> s, status |-> status]
      BY DEF TypeOK, ResourceOK, Resources
    <2>4. new.status = status /\ watch' = Append(watch, new)
      BY <2>2, <2>3 DEF Write
    <2>5. /\ watch' # <<>>
          /\ \A i \in DOMAIN watch' : watch'[i] = new \/ (i \in DOMAIN watch /\ watch'[i] = watch[i])
      BY <2>4, WatchGrows DEF TypeOK, ResourceOK
    <2> QED
      BY <2>1, <2>4, <2>5 DEF SetUpOnce, Busy, Early
  <1>5. CASE Walks
    <2>1. UNCHANGED <<resource, informer>> /\ Busy
      BY <1>5, WalkEnds DEF Busy
    <2>2. CASE \E requeue \in BOOLEAN : Return(requeue)
      <3>1. ~Busy' /\ UNCHANGED <<queued, status, watch, cache>>
        BY <2>1, <2>2 DEF Return, Busy, resource, informer
      <3> QED
        BY <2>1, <3>1 DEF SetUpOnce
    <2>3. CASE UNCHANGED <<queued, delayed, net, fresh>> /\ pc' # "idle"
      BY <2>1, <2>3 DEF SetUpOnce, Busy, resource, informer
    <2> QED
      BY <1>5, <2>2, <2>3, WalkTokens
  <1>6. CASE SaveStatus
    <2>1. CASE UNCHANGED resource
      <3>1. Busy /\ ~Busy' /\ UNCHANGED <<resource, informer>>
        <4>1. pc = "save" /\ pc' = "idle"
          BY <1>6, SaveReturns
        <4>2. UNCHANGED informer
          <5>1. ASSUME NEW saved \in Statuses, net = Current, Write(spec, saved),
                       saved.state = pending.status.state
                PROVE  FALSE
            <6>1. status' = saved /\ net.status = status /\ status' = status
              BY <2>1, <5>1 DEF Write, Current, resource
            <6>2. <<net.status.state, pending.status.state>> \in Onward
              BY <4>1 DEF Level, Drafted
            <6>3. \A state : <<state, state>> \notin Onward
              BY DEF Onward, Edges
            <6> QED
              BY <5>1, <6>1, <6>2, <6>3
          <5>2. \/ UNCHANGED <<resource, informer>>
                \/ net = Current /\ \E saved \in Statuses :
                        saved.state = pending.status.state /\ Write(spec, saved)
            BY <1>6, SaveIs, Zenon
          <5> QED
            BY <5>1, <5>2
        <4> QED
          BY <2>1, <4>1, <4>2 DEF Busy
      <3>2. UNCHANGED queued
        BY <1>6, <3>1 DEF SaveStatus, Return, Continue, Busy
      <3> QED
        BY <3>1, <3>2 DEF SetUpOnce, resource, informer
    <2>2. CASE ~UNCHANGED resource
      BY <1>6, <2>2, SetUpSaved
    <2> QED
      BY <2>1, <2>2
  <1>7. ~ClearForce
    BY Unforced DEF ClearForce
  <1>8. CASE Crash
    <2>1. /\ pc' = "idle" /\ watch' = <<>> /\ cache'.status = status /\ delayed' = FALSE
          /\ status' = status
      BY <1>8 DEF Crash, resource
    <2>2. DOMAIN watch' = {}
      <3>1. watch' \in Seq({}) /\ Len(watch') = 0
        BY <2>1, EmptySeq
      <3> QED
        BY <3>1, LenProperties
    <2> QED
      BY <2>1, <2>2 DEF SetUpOnce, Busy, Early
  <1> QED
    BY <1>1, <1>2, <1>3, <1>4, <1>5, <1>6, <1>7, <1>8
       DEF Next, Worker, Environment, Idles, Walks

\* So whoever reads New reads the server's status.
LEMMA NewIsNow ==
    ASSUME Behind, SetUpOnce, Busy, net.status.state = "New"
    PROVE  net.status = status
  <1>1. status.state \in Early \union {"Rejected"}
    BY DEF SetUpOnce, Early
  <1>2. <<net.status.state, status.state>> \notin Onward
    BY <1>1 DEF Early, Onward, Edges
  <1> QED
    BY <1>2, SeenNow DEF Behind

-----------------------------------------------------------------------------
\* The chart directory has the values of what is being applied.

Underway(st) == st.state \notin {"", "New", "Ready", "Rejected"}
Written(d) == dir.stage \in {"values", "complete"} => dir.values = d

DirRight ==
    /\ Underway(status) => Written(status.observed)
    /\ pc = "save" /\ net.status.state \in {"New", "Ready"} => Written(net.spec.desired)
    /\ pc = "install" => dir.stage = "complete" /\ dir.values = net.spec.desired
    /\ pc \in {"secondUpdate", "nextFlow", "save"} => dir.stage # "absent"
    /\ pc = "secondUpdate" => dir.stage # "chart"

\* While a change is being applied every worker, however stale, works towards it.
LEMMA SameGoal ==
    ASSUME Level, InSync, Busy, Underway(status)
    PROVE  net.spec.desired = status.observed
  <1>1. Current \in Seen /\ Current.spec = spec /\ Current.status = status
    BY SeenNow DEF Current
  <1>2. status.observed = spec.desired
    BY <1>1 DEF Level, Applied, Underway
  <1>3. net.spec.desired = spec.desired
    BY SeenNow DEF InSync, Underway
  <1> QED
    BY <1>2, <1>3

LEMMA WalkDirs ==
    ASSUME Walks
    PROVE  \/ dir' = dir
           \/ /\ Reconstruct /\ dir'.stage \in {"chart", "values", "complete"}
              /\ dir'.stage # "chart" => dir'.values = net.spec.desired
           \/ Prepare /\ (pc' # "idle" => dir'.stage = "complete" /\ dir'.values = net.spec.desired)
           \/ HandleReady /\ dir' = Rewritten
  <1>1. Reconstruct => /\ dir'.stage \in {"chart", "values", "complete"}
                       /\ dir'.stage # "chart" => dir'.values = net.spec.desired
    <2>1. Reconstruct => dir' \in { [stage |-> "complete", values |-> net.spec.desired],
                                    [stage |-> "values", values |-> net.spec.desired],
                                    [stage |-> "chart", values |-> Unset] }
      BY Zenon DEF Reconstruct
    <2> QED
      BY <2>1
  <1>2. Prepare => (pc' # "idle" => dir'.stage = "complete" /\ dir'.values = net.spec.desired)
    BY DEF Prepare, Return
  <1>3. HandleReady => UNCHANGED <<dir, secret, workflows, faults>> \/ dir' = Rewritten
    BY Zenon DEF HandleReady
  <1>4. Teardown \/ CallFails \/ Install \/ SecondUpdate => dir' = dir
    BY DEF Teardown, CallFails, Install, SecondUpdate
  <1>5. Handle => dir' = dir \/ HandleReady
    BY DEF Handle, HandleForce, HandleNone, HandleTerminal, HandleHelmChartNeedsUpdate,
           HandleHelmChartNeedsDoubleUpdate, HandleHelmChartInstalled, HandleHelmChartReady,
           HandleFlowSubmitted, HandleFlowCompleted, HandleChaincodeFlowCompleted
  <1>6. NextFlow => UNCHANGED <<resource, informer, dir, secret, release, fabric, edits, crashes>>
    BY Zenon DEF NextFlow
  <1> QED
    BY <1>1, <1>2, <1>3, <1>4, <1>5, <1>6 DEF Walks

LEMMA DirRightWalks ==
    ASSUME TypeOK, Consistent, Waiting, Level, Behind, InSync, SetUpOnce, DirRight, Walks
    PROVE  DirRight'
  <1>0. /\ Busy /\ UNCHANGED <<spec, status>> /\ (pc' = "idle" \/ net' = net)
        /\ dir \in Dirs /\ pc \in {"handle", "prepare", "install", "secondUpdate", "nextFlow"}
    BY WalkEnds DEF Busy, resource, TypeOK, WorkerOK
  <1>1. ASSUME Underway(status) PROVE Written(status.observed)'
    <2>1. net.spec.desired = status.observed
      BY <1>0, <1>1, SameGoal
    <2>2. ~Prepare
      <3>1. Prepare => net.status.state = "New"
        BY DEF Prepare, Consistent, Intentions, Whereabouts
      <3> QED
        BY <1>0, <1>1, <3>1, NewIsNow DEF Underway
    <2>3. Rewritten.values = net.spec.desired
      BY DEF Rewritten
    <2> QED
      BY <1>0, <1>1, <2>1, <2>2, <2>3, WalkDirs DEF DirRight, Written
  <1>2. ASSUME pc' = "save", net.status.state \in {"New", "Ready"}
        PROVE  Written(net.spec.desired)'
    <2>1. net' = net
      BY <1>0, <1>2
    <2>2. Install \/ HandleReady
      BY <1>2, WhoSavesWhen DEF Upkeep
    <2>3. CASE Install
      BY <2>1, <2>3 DEF Install, DirRight, Written
    <2>4. CASE HandleReady
      BY <1>2, <2>1, <2>4, ReadySaves DEF Rewritten, Written
    <2> QED
      BY <2>2, <2>3, <2>4
  <1>3. ASSUME pc' = "install" PROVE dir'.stage = "complete" /\ dir'.values = net'.spec.desired
    <2>1. Prepare /\ net' = net
      BY <1>0, <1>3, WhoGoes DEF Goto
    <2> QED
      BY <1>3, <2>1 DEF Prepare, Return
  <1>4. ASSUME pc' \in {"secondUpdate", "nextFlow", "save"} PROVE dir'.stage # "absent"
    <2>1. CASE dir.stage # "absent"
      BY <1>4, <2>1, WalkDirs DEF Rewritten
    <2>2. CASE dir.stage = "absent"
      <3>1. pc \in {"handle", "prepare"}
        BY <1>0, <2>2 DEF DirRight
      <3>2. ~Teardown /\ ~Prepare /\ ~CallFails /\ ~Reconstruct
        BY <1>4 DEF Teardown, Prepare, CallFails, Reconstruct, Goto, Return
      <3>3. Handle /\ ~HandleForce
        BY <3>1, <3>2, Unforced
           DEF Walks, Install, SecondUpdate, NextFlow, HandleForce
      <3>4. Handling(net.status.state) /\ net.status.state = "Failed"
        BY <2>2, <3>3 DEF Handle, HandleNone, HandleTerminal, HandleHelmChartNeedsUpdate,
           HandleHelmChartNeedsDoubleUpdate, HandleHelmChartInstalled, HandleHelmChartReady,
           HandleFlowSubmitted, HandleFlowCompleted, HandleChaincodeFlowCompleted, HandleReady,
           Handling, NothingToReconstruct
      <3>5. HandleTerminal
        BY <3>3, <3>4, Untouched DEF Handle, HandleNone, HandleHelmChartNeedsUpdate,
           HandleHelmChartNeedsDoubleUpdate, HandleHelmChartInstalled, HandleHelmChartReady,
           HandleFlowSubmitted, HandleFlowCompleted, HandleChaincodeFlowCompleted, HandleReady,
           Handling, Flows
      <3> QED
        BY <1>4, <3>5 DEF HandleTerminal, Return
    <2> QED
      BY <2>1, <2>2
  <1>5. ASSUME pc' = "secondUpdate" PROVE dir'.stage # "chart"
    <2>1. HandleHelmChartNeedsDoubleUpdate
      BY <1>5, WhoGoes DEF Goto
    <2> QED
      BY <1>5, <2>1 DEF HandleHelmChartNeedsDoubleUpdate, CanUpgrade, Return
  <1>6. Underway(status)' => Written(status.observed)'
    BY <1>0, <1>1 DEF Underway, Written
  <1>7. pc' = "save" /\ net'.status.state \in {"New", "Ready"} => Written(net.spec.desired)'
    BY <1>0, <1>2 DEF Written
  <1> QED
    BY <1>3, <1>4, <1>5, <1>6, <1>7 DEF DirRight

LEMMA DirRightKept ==
    ASSUME TypeOK, Consistent, OneVersion, Waiting, Level, Behind, InSync, SetUpOnce, DirRight,
           [Next]_vars
    PROVE  DirRight'
  <1>1. CASE Idles
    <2>1. UNCHANGED <<resource, worker>> /\ dir' = dir
      <3>1. dir' = dir
        BY <1>1 DEF Idles, TimerFires, Resync, PodsRestarting, PodsReady, ServicesListed,
               WorkflowEnds, vars
      <3> QED
        BY <1>1, <3>1, IdleIs
    <2> QED
      BY <2>1 DEF DirRight, Underway, Written, resource, worker
  <1>2. CASE Deliver \/ Begin
    BY <1>2 DEF Deliver, Begin, DirRight, Underway, Written, resource, worker
  <1>3. CASE UserEdits
    BY <1>3 DEF UserEdits, UserWrites, Write, DirRight, Underway, Written
  <1>4. CASE Walks
    BY <1>4, DirRightWalks
  <1>5. CASE SaveStatus
    <2>1. pc = "save" /\ pc' = "idle" /\ dir' = dir
      BY <1>5, SaveReturns DEF SaveStatus
    <2>2. ASSUME ~UNCHANGED resource, Underway(status') PROVE Written(status'.observed)
      <3>1. /\ net.spec = spec /\ net.status = status /\ status' = pending.status
        BY <1>5, <2>2, SavedAlone
      <3>2. status'.observed = net.spec.desired
        BY <2>1, <2>2, <3>1 DEF Level, Drafted, Underway
      <3>3. CASE status.state \in {"New", "Ready"}
        BY <2>1, <3>1, <3>2, <3>3 DEF DirRight
      <3>4. CASE Underway(status)
        <4>1. net.spec.desired = status.observed
          BY <2>1, <3>4, SameGoal DEF Busy
        <4> QED
          BY <3>2, <3>4, <4>1 DEF DirRight
      <3>5. status.state \notin {"", "Rejected"}
        <4>1. <<status.state, status'.state>> \in Onward
          BY <2>1, <3>1 DEF Level, Drafted
        <4> QED
          BY <2>2, <4>1 DEF Underway, Onward, Edges
      <3> QED
        BY <3>3, <3>4, <3>5 DEF Underway
    <2>3. UNCHANGED resource => status' = status
      BY DEF resource
    <2> QED
      BY <2>1, <2>2, <2>3 DEF DirRight, Underway, Written
  <1>6. ~ClearForce /\ ~UserForces
    BY Unforced DEF ClearForce, UserForces, Waiting
  <1>7. CASE Crash
    BY <1>7 DEF Crash, NoDir, DirRight, Underway, Written
  <1> QED
    BY <1>1, <1>2, <1>3, <1>4, <1>5, <1>6, <1>7
       DEF Next, Worker, Environment, Idles, Walks

-----------------------------------------------------------------------------
\* Why the worker is about to save what it is about to save.

Explained ==
    pc = "save" =>
        LET from == net.status
            to   == pending.status
        IN  /\ from.state = "Ready" =>
                /\ AreThereAnyChanges(Changes)
                /\ \/ \E p \in HelmPath(Changes) : to.state = p[1] /\ to.nextFlow = p[2]
                   \/ /\ HelmPath(Changes) = {} /\ to.nextFlow = from.nextFlow
                      /\ \/ to.state = "ChannelFlowSubmitted" /\ Changes.channel
                         \/ /\ to.state = "ChaincodeFlowSubmitted"
                            /\ ~Changes.channel /\ Changes.chaincode
            /\ from.state = "HelmChartReady" =>
                \/ to.state = "Ready" /\ from.nextFlow = "None" /\ to.nextFlow = ""
                \/ to.state = "ChannelFlowSubmitted" /\ from.nextFlow = "" /\ to.nextFlow = ""
                \/ /\ to.state = "PeerOrgFlowSubmitted"
                   /\ from.nextFlow = "PeerOrgFlow" /\ to.nextFlow = "PeerOrgFlow"
            /\ from.state \notin {"Ready", "HelmChartReady"} => to.nextFlow = from.nextFlow

LEMMA SameChanges ==
    ASSUME net' = net PROVE Changes' = Changes /\ HelmPath(Changes)' = HelmPath(Changes)
  <1>1. Changes' = Changes
    BY DEF Changes
  <1> QED
    BY <1>1 DEF HelmPath

LEMMA ExplainedKept ==
    ASSUME TypeOK, Consistent, Waiting, Level, Explained, [Next]_vars PROVE Explained'
  <1>1. CASE pc = "save" /\ UNCHANGED <<pc, net, pending>>
    BY <1>1, SameChanges DEF Explained
  <1>2. CASE pc' # "save"
    BY <1>2 DEF Explained
  <1>3. CASE Walks /\ pc' = "save"
    <2>0. net' = net
      BY <1>3, WalkEnds
    <2>1. CASE HandleReady
      BY <1>3, <2>0, <2>1, ReadySaves, SameChanges DEF Explained
    <2>2. CASE NextFlow
      BY <1>3, <2>0, <2>2, NextSaves DEF Explained, Keeps
    <2>3. ASSUME ~HandleReady, ~NextFlow
          PROVE  /\ pending'.status.nextFlow = net.status.nextFlow
                 /\ net.status.state \notin {"Ready", "HelmChartReady"}
      <3>1. CASE HandleNone
        BY <3>1, NoneSaves DEF Keeps
      <3>2. CASE Install
        BY <1>3, <3>2, InstallSaves DEF Keeps
      <3>3. CASE Upgrades
        BY <1>3, <3>3, UpgradeSaves DEF Keeps, Upkeep
      <3>4. CASE HandleHelmChartInstalled
        BY <1>3, <3>4, StatefulSaves DEF Keeps
      <3>5. CASE \E flow \in Flows : HandleFlowSubmitted(flow)
        BY <1>3, <3>5, PollSaves, Untouched DEF Keeps
      <3>6. CASE HandleFlowCompleted("channel", "chaincode") \/ HandleFlowCompleted("peerOrg", "channel")
        BY <1>3, <3>6, SequelSaves, Untouched DEF Keeps, Flows
      <3>7. CASE HandleChaincodeFlowCompleted
        BY <3>7, CompletionSaves DEF Keeps
      <3> QED
        BY <1>3, <2>3, <3>1, <3>2, <3>3, <3>4, <3>5, <3>6, <3>7, WhoSaves
    <2> QED
      BY <2>0, <2>1, <2>2, <2>3 DEF Explained
  <1>4. ASSUME pc' = "save", ~Walks PROVE pc = "save" /\ UNCHANGED <<pc, net, pending>>
    <2>1. CASE Idles
      BY <1>4, <2>1, IdleIs DEF worker
    <2>2. CASE Deliver
      BY <1>4, <2>2 DEF Deliver, worker
    <2>3. CASE UserEdits \/ UserForces
      BY <1>4, <2>3, UserWriteIs DEF TypeOK
    <2>4. ~Begin /\ ~Crash /\ ~ClearForce
      BY <1>4 DEF Begin, Crash, ClearForce, Return
    <2>5. ~SaveStatus
      BY <1>4, SaveReturns
    <2> QED
      BY <1>4, <2>1, <2>2, <2>3, <2>4, <2>5 DEF Next, Worker, Environment, Idles, Walks
  <1> QED
    BY <1>1, <1>2, <1>3, <1>4

\* A ready network is at most one edit away from what is asked for.
OneEdit ==
    status.state = "Ready" =>
        status.observed = spec.desired \/ <<status.observed, spec.desired>> \in Edits

LEMMA OneEditKept ==
    ASSUME TypeOK, Consistent, OneVersion, Waiting, Level, OneEdit, [Next]_vars PROVE OneEdit'
  <1>1. CASE UNCHANGED resource
    BY <1>1 DEF resource, OneEdit
  <1>2. CASE SaveStatus /\ ~UNCHANGED resource
    <2>1. /\ pc = "save" /\ net.spec = spec /\ spec' = spec /\ status' = pending.status
      BY <1>2, SavedAlone
    <2> QED
      BY <2>1 DEF Level, Drafted, OneEdit
  <1>3. CASE UserEdits /\ Settled /\ status' = status
    <2>1. spec \in [desired : SpecsOrUnset, force : Forceable \union {""}]
      BY DEF TypeOK, ResourceOK
    <2>2. status.observed = spec.desired
      BY <1>3, <2>1, StoredAsIs DEF Settled
    <2>3. PICK d \in Specs : <<spec.desired, d>> \in Edits /\ spec'.desired = d
      <3>1. PICK d \in Specs, state \in Forceable \union {""} :
                /\ <<spec.desired, d>> \in Edits
                /\ UserWrites([desired |-> d, force |-> state])
        BY <1>3 DEF UserEdits
      <3> QED
        BY <3>1 DEF UserWrites, Write
    <2> QED
      BY <1>3, <2>1, <2>2, <2>3 DEF OneEdit
  <1> QED
    BY <1>1, <1>2, <1>3, WaitingGrows

LEMMA EditAtOnce ==
    ASSUME Careful, OneEdit, status.state = "Ready", status.observed # spec.desired
    PROVE  AtOnce(spec.desired, status.observed)
  <1>1. PICK e : e = <<status.observed, spec.desired>>
    OBVIOUS
  <1>2. e[1] = status.observed /\ e[2] = spec.desired /\ e \in Edits
    BY <1>1 DEF OneEdit
  <1> QED
    BY <1>2 DEF Careful

\* What the worker saves for a ready network is a change made in one go.
LEMMA SavedEdit ==
    ASSUME TypeOK, Consistent, Careful, Explained, OneEdit, pc = "save", fresh,
           net.status.state = "Ready"
    PROVE  /\ net.spec = spec /\ net.status = status
           /\ AtOnce(net.spec.desired, net.status.observed)
  <1>1. net.spec = spec /\ net.status = status
    BY DEF Consistent, Copies, CopyIsCurrent, Current
  <1>2. net.status.observed # net.spec.desired
    <2>1. AreThereAnyChanges(Changes)
      BY DEF Explained
    <2>2. net.status.observed = net.spec.desired => ~AreThereAnyChanges(Changes)
      BY DEF Changes, GetChanges, AreThereAnyChanges
    <2> QED
      BY <2>1, <2>2
  <1> QED
    BY <1>1, <1>2, EditAtOnce

LEMMA NoPath ==
    ASSUME HelmPath(Changes) = {}
    PROVE  ~Changes.peerOrgs /\ ~Changes.ordererOrgs /\ ~Changes.peerCountIncrease
  <1>1. PICK c : c = Changes
    OBVIOUS
  <1>2. c.ordererOrgs \in BOOLEAN /\ c.peerOrgs \in BOOLEAN /\ c.peerCountIncrease \in BOOLEAN
    BY <1>1 DEF Changes, GetChanges, SomePeerCountAbove
  <1> QED
    BY <1>1, <1>2 DEF HelmPath

\* The paths a ready network may take: Helm alone, without a workflow that
\* follows; Helm first, to admit organizations or peers; the workflows alone.
LEMMA SavedPath ==
    ASSUME TypeOK, Consistent, Careful, Explained, OneEdit, pc = "save", fresh,
           net.status.state = "Ready"
    PROVE  LET new == net.spec.desired
               old == net.status.observed
               to  == pending.status
           IN  \/ /\ to.state \in Upkeep /\ to.nextFlow = "None"
                  /\ ~Changes.peerOrgs /\ ~Changes.channel /\ ~Changes.chaincode
                  /\ ~Changes.peerCountIncrease
               \/ to.state \in Upkeep /\ to.nextFlow = "PeerOrgFlow"
               \/ to.state \in Upkeep /\ to.nextFlow = net.status.nextFlow /\ ~Changes.peerOrgs
               \/ /\ to.nextFlow = net.status.nextFlow /\ ~Changes.topology
                  /\ \/ to.state = "ChannelFlowSubmitted"
                     \/ to.state = "ChaincodeFlowSubmitted" /\ ~Changes.channel
  <1>1. PICK c : c = Changes
    OBVIOUS
  <1>2. /\ c.topology \in BOOLEAN /\ c.channel \in BOOLEAN /\ c.chaincode \in BOOLEAN
        /\ c.version \in BOOLEAN /\ c.ordererOrgs \in BOOLEAN /\ c.peerOrgs \in BOOLEAN
        /\ c.peerCountIncrease \in BOOLEAN /\ c.peerCountDecrease \in BOOLEAN
    BY <1>1 DEF Changes, GetChanges, SomePeerCountAbove, SomePeerCountBelow
  <1>3. (c.version => c.topology) /\ (c.ordererOrgs => c.topology) /\ (c.peerOrgs => c.topology)
    BY <1>1 DEF Changes, GetChanges
  <1>4. \/ c.peerOrgs \/ (c.peerCountIncrease /\ ~c.ordererOrgs)
        \/ ~c.topology /\ ~c.peerCountDecrease
        \/ ~c.channel /\ ~c.chaincode /\ ~c.peerCountIncrease
    BY <1>1, SavedEdit DEF AtOnce, Changes
  <1>5. CASE \E p \in HelmPath(c) : pending.status.state = p[1] /\ pending.status.nextFlow = p[2]
    <2>1. CASE c.peerOrgs
      BY <1>1, <1>5, <2>1 DEF HelmPath, Upkeep
    <2>2. CASE c.ordererOrgs /\ ~c.peerOrgs
      BY <1>1, <1>2, <1>3, <1>4, <1>5, <2>2 DEF HelmPath, Upkeep
    <2>3. CASE ~c.ordererOrgs /\ ~c.peerOrgs /\ c.peerCountIncrease
      BY <1>1, <1>2, <1>5, <2>3 DEF HelmPath, Upkeep
    <2>4. CASE ~c.ordererOrgs /\ ~c.peerOrgs /\ ~c.peerCountIncrease
      BY <1>1, <1>2, <1>3, <1>4, <1>5, <2>4 DEF HelmPath, Upkeep
    <2> QED
      BY <1>2, <2>1, <2>2, <2>3, <2>4
  <1>6. CASE /\ HelmPath(c) = {} /\ pending.status.nextFlow = net.status.nextFlow
             /\ \/ pending.status.state = "ChannelFlowSubmitted" /\ c.channel
                \/ /\ pending.status.state = "ChaincodeFlowSubmitted"
                   /\ ~c.channel /\ c.chaincode
    <2>1. /\ ~c.peerOrgs /\ ~c.ordererOrgs /\ ~c.peerCountIncrease
      BY <1>1, <1>6, NoPath
    <2> QED
      BY <1>1, <1>2, <1>4, <1>6, <2>1
  <1> QED
    BY <1>1, <1>5, <1>6 DEF Explained

-----------------------------------------------------------------------------
\* The release is the one asked for.

\* Helm sees a spec's own topology when the values files are the spec's.
LEMMA ChartedRight ==
    ASSUME TypeOK, Careful, dir.values = net.spec.desired
    PROVE  Charted = net.spec.desired.topology
  <1>1. PICK t : t = net.spec.desired.topology
    OBVIOUS
  <1>2. t = [version |-> t.version, useActualDomains |-> t.useActualDomains,
             ordererOrgs |-> t.ordererOrgs, peerOrgs |-> t.peerOrgs]
    <2>1. net.spec.desired \in Specs \union {Unset}
      BY DEF TypeOK, WorkerOK, Resources, SpecsOrUnset
    <2>2. CASE net.spec.desired \in Specs
      BY <1>1, <2>2 DEF Careful, WellFormed
    <2>3. CASE net.spec.desired = Unset
      <3>1. Unset.topology = [version |-> "", useActualDomains |-> FALSE, ordererOrgs |-> <<>>,
                              peerOrgs |-> <<>>]
        BY DEF Unset
      <3> QED
        BY <1>1, <2>3, <3>1
    <2> QED
      BY <2>1, <2>2, <2>3
  <1>3. ChartOf(t, t) = t
    BY <1>2 DEF ChartOf
  <1> QED
    BY <1>1, <1>3 DEF Charted

Deployed(st) == st.state \notin Early \union Upkeep \union {"Rejected", "Failed"}
Serves(d) == release.topology = d.topology /\ release.launched

ReleaseRight ==
    /\ Deployed(status) => Serves(status.observed)
    /\ pc = "save" /\ net.status.state \in Upkeep \union {"New"}
            /\ pending.status.state = "HelmChartInstalled" => Serves(net.spec.desired)

\* What an upgrade deploys while a change is being applied.
LEMMA UpgradesRight ==
    ASSUME TypeOK, Consistent, Careful, Level, Behind, InSync, DirRight, Upgrades, pc' # "idle"
    PROVE  /\ release'.topology = net.spec.desired.topology /\ release'.launched
           /\ Underway(status)
  <1>1. net.status.state \in Upkeep /\ Busy
    BY DEF Upgrades, HandleHelmChartNeedsUpdate, HandleHelmChartNeedsDoubleUpdate, Handling,
           SecondUpdate, Consistent, Intentions, Whereabouts, Upkeep, Busy
  <1>2. Underway(status)
    <2>1. net.status = status \/ <<net.status.state, status.state>> \in Onward
      BY <1>1, SeenNow DEF Behind
    <2> QED
      BY <1>1, <2>1 DEF Upkeep, Underway, Onward, Edges
  <1>3. /\ dir.stage # "chart" /\ dir.stage # "absent" /\ release' = Upgraded
    BY <1>1 DEF Upgrades, HandleHelmChartNeedsUpdate, HandleHelmChartNeedsDoubleUpdate,
                SecondUpdate, Handling, NothingToReconstruct, CanUpgrade, Upkeep, DirRight, Return
  <1>4. dir.values = net.spec.desired
    <2>1. dir.stage \in {"values", "complete"}
      BY <1>3 DEF TypeOK, WorkerOK, Dirs, Stages
    <2> QED
      BY <1>1, <1>2, <2>1, SameGoal DEF DirRight, Written
  <1>5. Upgraded.topology = Charted /\ Upgraded.launched
    BY DEF Upgraded, TypeOK, ClusterOK, Releases
  <1> QED
    BY <1>2, <1>3, <1>4, <1>5, ChartedRight

LEMMA ReleaseRightWalks ==
    ASSUME TypeOK, Consistent, Careful, Level, Behind, InSync, SetUpOnce, DirRight,
           ReleaseRight, Walks
    PROVE  ReleaseRight'
  <1>0. /\ Busy /\ UNCHANGED <<spec, status>> /\ (pc' = "idle" \/ net' = net)
        /\ Waiting
    BY WalkEnds DEF Busy, resource, Careful, Patience
  <1>1. CASE Teardown \/ Install
    <2>1. net.status.state = "New" /\ ~Deployed(status)
      <3>1. net.status.state = "New"
        BY <1>1 DEF Teardown, Handling, Install, Consistent, Intentions, Whereabouts
      <3> QED
        BY <1>0, <3>1, NewIsNow DEF Deployed, Early
    <2>2. ASSUME pc' = "save", pending'.status.state = "HelmChartInstalled"
          PROVE  Serves(net.spec.desired)'
      <3>1. Install
        BY <1>1, <2>2 DEF Teardown, Goto
      <3>2. ~net.spec.desired.topology.useActualDomains
        BY <2>2, <3>1, InstallSaves DEF Keeps
      <3>3. Charted = net.spec.desired.topology
        BY <3>1, ChartedRight DEF Install, DirRight
      <3> QED
        BY <1>0, <2>2, <3>1, <3>2, <3>3, Installs DEF Serves
    <2> QED
      BY <1>0, <2>1, <2>2 DEF ReleaseRight, Deployed, Serves
  <1>2. CASE Upgrades
    <2>1. CASE pc' = "idle"
      <3>1. release' = release
        BY <1>2, <2>1 DEF Upgrades, HandleHelmChartNeedsUpdate, HandleHelmChartNeedsDoubleUpdate,
              SecondUpdate, Save, Goto
      <3> QED
        BY <1>0, <2>1, <3>1 DEF ReleaseRight, Deployed, Serves
    <2>2. CASE pc' # "idle"
      <3>1. Serves(net.spec.desired)'
        <4>1. release'.topology = net.spec.desired.topology /\ release'.launched
          BY <1>2, <2>2, UpgradesRight
        <4>2. net' = net
          BY <1>0, <2>2
        <4> QED
          BY <4>1, <4>2 DEF Serves
      <3>2. Deployed(status) => net.spec.desired = status.observed
        BY <1>0, <1>2, <2>2, SameGoal, UpgradesRight
      <3> QED
        BY <1>0, <2>2, <3>1, <3>2 DEF ReleaseRight, Deployed, Serves
    <2> QED
      BY <2>1, <2>2
  <1>3. CASE ~Teardown /\ ~Install /\ ~Upgrades
    <2>1. release'.topology = release.topology /\ release'.launched = release.launched
      <3>1. [Next]_vars
        BY DEF Walks, Next, Worker
      <3> QED
        BY <1>3, <3>1, ReleaseStays
    <2>2. pc' = "save" => net.status.state \notin Upkeep \union {"New"}
      BY <1>0, <1>3, WhoSavesWhen DEF Upkeep
    <2> QED
      BY <1>0, <2>1, <2>2 DEF ReleaseRight, Deployed, Serves
  <1> QED
    BY <1>1, <1>2, <1>3

LEMMA ReleaseRightKept ==
    ASSUME TypeOK, Consistent, OneVersion, Careful, Level, Behind, InSync, SetUpOnce, DirRight,
           Explained, OneEdit, ReleaseRight, [Next]_vars
    PROVE  ReleaseRight'
  <1>0. Waiting
    BY DEF Careful, Patience
  <1>1. CASE Walks
    BY <1>1, ReleaseRightWalks
  <1>2. ASSUME ~Walks
        PROVE  release'.topology = release.topology /\ release'.launched = release.launched
    BY <1>2, ReleaseStays DEF Walks, Upgrades, Handle
  <1>3. CASE Idles
    <2>1. ~Walks => UNCHANGED <<status, pc, net, pending>>
      BY <1>3, IdleIs DEF resource, worker
    <2> QED
      BY <1>1, <1>2, <2>1 DEF ReleaseRight, Deployed, Serves
  <1>4. CASE Deliver \/ Begin \/ Crash
    <2>1. status' = status /\ (pc' = "save" => pc = "save" /\ UNCHANGED <<net, pending>>)
      BY <1>4 DEF Deliver, Begin, Crash, resource, worker
    <2> QED
      BY <1>1, <1>2, <2>1 DEF ReleaseRight, Deployed, Serves
  <1>5. CASE UserEdits
    <2>1. UNCHANGED <<status, pc, net, pending>>
      BY <1>5 DEF UserEdits, UserWrites, Write
    <2> QED
      BY <1>1, <1>2, <2>1 DEF ReleaseRight, Deployed, Serves
  <1>6. CASE SaveStatus
    <2>1. pc = "save" /\ pc' = "idle"
      BY <1>6, SaveReturns
    <2>2. ASSUME ~UNCHANGED resource, Deployed(status') PROVE Serves(status'.observed)
      <3>1. /\ net.spec = spec /\ net.status = status /\ status' = pending.status /\ fresh
        BY <1>0, <1>6, <2>2, SavedAlone
      <3>2. status'.observed = net.spec.desired /\ <<status.state, status'.state>> \in Onward
        BY <2>1, <2>2, <3>1 DEF Level, Drafted, Deployed
      <3>3. CASE status.state \in Upkeep \union {"New"}
        <4>1. status'.state = "HelmChartInstalled"
          BY <2>2, <3>2, <3>3 DEF Onward, Edges, Deployed, Upkeep
        <4> QED
          BY <2>1, <3>1, <3>2, <3>3, <4>1 DEF ReleaseRight
      <3>4. CASE status.state = "Ready"
        <4>1. ~Changes.topology
          BY <2>1, <2>2, <3>1, <3>4, SavedPath DEF Deployed
        <4>2. net.spec.desired.topology = status.observed.topology
          BY <3>1, <4>1 DEF Changes, GetChanges
        <4> QED
          BY <3>2, <3>4, <4>2 DEF ReleaseRight, Deployed, Serves, Early, Upkeep
      <3>5. CASE Deployed(status) /\ status.state # "Ready"
        <4>1. net.spec.desired = status.observed
          BY <2>1, <3>5, SameGoal DEF Busy, Deployed, Underway, Early
        <4> QED
          BY <3>2, <3>5, <4>1 DEF ReleaseRight
      <3>6. status.state \notin {"", "Rejected", "Failed"}
        BY <2>2, <3>2 DEF Onward, Edges, Deployed, Early
      <3> QED
        BY <3>3, <3>4, <3>5, <3>6 DEF Deployed, Early
    <2>3. ~Walks
      BY <2>1, WalkEnds
    <2>4. UNCHANGED resource => status' = status
      BY DEF resource
    <2> QED
      BY <1>2, <2>1, <2>2, <2>3, <2>4 DEF ReleaseRight, Deployed, Serves
  <1>7. ~ClearForce /\ ~UserForces
    BY <1>0, Unforced DEF ClearForce, UserForces, Waiting
  <1> QED
    BY <1>1, <1>3, <1>4, <1>5, <1>6, <1>7 DEF Next, Worker, Environment, Idles, Walks

-----------------------------------------------------------------------------
\* What workflows establish.

LEMMA PeersHaveOrgs ==
    ASSUME NEW t, NEW p \in Peers(t) PROVE p[1] \in OrgNames(t.peerOrgs)
  BY DEF Peers, OrgNames

LEMMA LeastNatural ==
    ASSUME NEW S, S \subseteq Nat, S # {} PROVE \E i \in S : \A j \in S : ~(j < i)
  <1>1. IsWellFoundedOn(OpToRel(<, Nat), Nat)
    BY NatLessThanWellFounded
  <1>2. PICK i \in S : \A j \in S : <<j, i>> \notin OpToRel(<, Nat)
    BY <1>1, WFMin
  <1> QED
    BY <1>2 DEF OpToRel

\* PeerOrgByName finds an organization the topology has.
LEMMA PeerOrgFound ==
    ASSUME NEW t, Sequential(t.peerOrgs), NEW name \in OrgNames(t.peerOrgs)
    PROVE  \E i \in DOMAIN t.peerOrgs :
                t.peerOrgs[i].name = name /\ PeerOrgByName(t, name) = t.peerOrgs[i]
  <1> DEFINE first(i) == /\ t.peerOrgs[i].name = name
                         /\ \A j \in 1..(i - 1) : t.peerOrgs[j].name # name
             S == { i \in DOMAIN t.peerOrgs : t.peerOrgs[i].name = name }
  <1>1. PICK n \in Nat : n = Len(t.peerOrgs)
    BY DEF Sequential
  <1>2. DOMAIN t.peerOrgs = 1..n
    BY <1>1 DEF Sequential
  <1>3. S \subseteq Nat /\ S # {}
    BY <1>2 DEF OrgNames
  <1>4. PICK i \in S : \A j \in S : ~(j < i)
    BY <1>3, LeastNatural
  <1>5. \A j \in 1..(i - 1) : j \in DOMAIN t.peerOrgs /\ j < i
    BY <1>2, <1>4
  <1>6. \E k \in DOMAIN t.peerOrgs : first(k)
    BY <1>4, <1>5
  <1>7. PICK k : k = CHOOSE org \in DOMAIN t.peerOrgs : first(org)
    OBVIOUS
  <1>8. k \in DOMAIN t.peerOrgs /\ first(k)
    BY <1>6, <1>7
  <1> QED
    BY <1>7, <1>8 DEF PeerOrgByName

\* With the same organizations, none of them larger, there are no new peers.
LEMMA PeersShrink ==
    ASSUME NEW t, NEW u, Sequential(u.peerOrgs),
           \A i \in DOMAIN t.peerOrgs : t.peerOrgs[i].peerCount \in Int,
           \A i \in DOMAIN u.peerOrgs : u.peerOrgs[i].peerCount \in Int,
           OrgNames(t.peerOrgs) = OrgNames(u.peerOrgs), ~SomePeerCountAbove(t, u)
    PROVE  Peers(t) \subseteq Peers(u)
  <1> SUFFICES ASSUME NEW i \in DOMAIN t.peerOrgs, NEW k \in 1..t.peerOrgs[i].peerCount
               PROVE  <<t.peerOrgs[i].name, k>> \in Peers(u)
    BY DEF Peers
  <1>1. PICK name : name = t.peerOrgs[i].name
    OBVIOUS
  <1>2. name \in OrgNames(u.peerOrgs)
    BY <1>1 DEF OrgNames
  <1>3. PICK j \in DOMAIN u.peerOrgs :
            u.peerOrgs[j].name = name /\ PeerOrgByName(u, name) = u.peerOrgs[j]
    BY <1>2, PeerOrgFound
  <1>4. ~(t.peerOrgs[i].peerCount > u.peerOrgs[j].peerCount)
    BY <1>1, <1>2, <1>3 DEF SomePeerCountAbove
  <1>5. k \in 1..u.peerOrgs[j].peerCount
    BY <1>4
  <1> QED
    BY <1>1, <1>3, <1>5 DEF Peers

\* A chaincode not listed as changed is installed in the version of before.
LEMMA UnchangedChaincodes ==
    ASSUME NEW new, NEW old, Sequential(Items(new.chaincodes)), Sequential(Items(old.chaincodes)),
           ChangedChaincodes(new, old) # {},
           NEW c \in Effective(new, new.chaincode), c.name \notin ChangedChaincodes(new, old)
    PROVE  c \in Effective(old, old.chaincode)
  <1>1. PICK a : a = Items(new.chaincodes)
    OBVIOUS
  <1>2. PICK b : b = Items(old.chaincodes)
    OBVIOUS
  <1>3. /\ new.chaincode = old.chaincode /\ Len(a) = Len(b)
        /\ ChangedChaincodes(new, old) = { a[i].name : i \in { j \in DOMAIN a : a[j] # b[j] } }
    BY <1>1, <1>2 DEF ChangedChaincodes
  <1>4. DOMAIN a = DOMAIN b
    BY <1>1, <1>2, <1>3 DEF Sequential
  <1>5. PICK x \in Elements(new.chaincodes) :
            c = [name |-> x.name, version |-> IF x.version = "" THEN new.chaincode ELSE x.version]
    BY DEF Effective
  <1>6. PICK i \in DOMAIN a : x = a[i]
    BY <1>1 DEF Elements
  <1>7. c.name = x.name
    BY <1>5
  <1>8. a[i] = b[i]
    BY <1>3, <1>6, <1>7
  <1>9. x \in Elements(old.chaincodes)
    BY <1>2, <1>4, <1>6, <1>8 DEF Elements
  <1> QED
    BY <1>3, <1>5, <1>9 DEF Effective

-----------------------------------------------------------------------------
\* What the network has been brought to, and what is left to be done.

\* Every organization is a member of every channel there is.
Admitted(t) == \A m \in fabric.members, o \in OrgNames(t.peerOrgs) : <<m[1], o>> \in fabric.members
Connected(d) ==
    /\ Elements(d.channels) \X OrgNames(d.topology.peerOrgs) \subseteq fabric.members
    /\ Elements(d.channels) \X Peers(d.topology) \subseteq fabric.joined
Equipped(d) == Effective(d, d.chaincode) \X Peers(d.topology) \subseteq fabric.installed

\* A status on its way through Helm promises what the flows it skips would do.
Charting == Upkeep \union {"HelmChartInstalled", "HelmChartReady"}
Skips(st) == st.state \in Charting /\ st.nextFlow = "None"

NeedsAdmitted(st) ==
    \/ Skips(st) \/ (st.state \in Charting /\ st.nextFlow = "")
    \/ st.state \in { "New", "PeerOrgFlowCompleted", "ChannelFlowSubmitted", "ChannelFlowCompleted",
                      "ChaincodeFlowSubmitted", "ChaincodeFlowCompleted", "Ready" }
NeedsConnected(st) ==
    \/ Skips(st)
    \/ st.state \in { "ChannelFlowCompleted", "ChaincodeFlowSubmitted",
                      "ChaincodeFlowCompleted", "Ready" }
NeedsEquipped(st) == Skips(st) \/ st.state \in {"ChaincodeFlowCompleted", "Ready"}

Reached(st) ==
    /\ NeedsAdmitted(st) => Admitted(st.observed.topology)
    /\ NeedsConnected(st) => Connected(st.observed)
    /\ NeedsEquipped(st) => Equipped(st.observed)
    /\ st.nextFlow = "None" => st.state \in Charting

\* The workflow a status tracks is given what the status is applying; what it
\* leaves out was there before; once it has succeeded its work is done.
Does(w, flow, d) ==
    /\ w.values = d /\ w.chaincode = d.chaincode
    /\ w.phase = "Succeeded" =>
        /\ flow = "peerOrg" => Admitted(d.topology)
        /\ flow = "channel" => Connected(d)
        /\ flow = "chaincode" => Equipped(d)
    /\ flow = "chaincode" =>
        \A c \in Effective(d, d.chaincode) :
            w.include # {} /\ c.name \notin w.include =>
                {c} \X Peers(d.topology) \subseteq fabric.installed
Task(st) ==
    \A flow \in Flows :
        st.state = Submitted[flow] /\ workflows[st.workflow].phase # "Absent"
            => Does(workflows[st.workflow], flow, st.observed)

\* A workflow that still has channels to create, tracked or not, will have the
\* organizations of what is being applied join them.
Creates(d) == ~(Elements(d.channels) \X OrgNames(d.topology.peerOrgs) \subseteq fabric.members)
SameOrgs(d, e) == OrgNames(d.topology.peerOrgs) = OrgNames(e.topology.peerOrgs)
Runs ==
    \A n \in Names :
        LET w == workflows[n]
        IN  w.phase = "Running" =>
                /\ w.flow \in Flows
                /\ w.flow = "channel" /\ Creates(w.values) =>
                    \/ w.values = status.observed
                    \/ w.values = spec.desired /\ SameOrgs(spec.desired, status.observed)

\* Before it is set up the network has nothing.
NothingEarly ==
    status.state \in Early =>
        fabric.members = {} /\ \A n \in Names : workflows[n].phase # "Running"

Flowing ==
    /\ Reached(status) /\ Task(status) /\ Runs /\ NothingEarly
    /\ pc = "save" /\ fresh => Task(pending.status)

FabricGrows ==
    /\ fabric.members \subseteq fabric'.members
    /\ fabric.joined \subseteq fabric'.joined
    /\ fabric.installed \subseteq fabric'.installed

LEMMA GrowsKeep ==
    ASSUME FabricGrows, NEW d
    PROVE  /\ Connected(d) => Connected(d)'
           /\ Equipped(d) => Equipped(d)'
           /\ Creates(d)' => Creates(d)
  BY DEF FabricGrows, Connected, Equipped, Creates

\* Whatever runs, an organization of what is being applied stays a member of
\* every channel.
LEMMA AdmittedStays ==
    ASSUME TypeOK, Runs, NEW n \in Names, WorkflowEnds(n),
           NEW d, SameOrgs(d, status.observed), Admitted(d.topology)
    PROVE  Admitted(d.topology)'
  <1> DEFINE w == workflows[n]
             channels == Elements(w.values.channels)
             orgs     == OrgNames(w.values.topology.peerOrgs)
             existing == { m[1] : m \in fabric.members }
             members  == fabric.members \union
                    (IF w.flow = "peerOrg" THEN existing ELSE channels \ existing) \X orgs
  <1>0. fabric \in Fabrics
    BY DEF TypeOK, ClusterOK
  <1>1. fabric' = fabric \/ fabric' = Established(w)
    BY DEF WorkflowEnds
  <1>2. Established(w).members = fabric.members \/ (Established(w).members = members /\ w.flow # "chaincode")
    BY <1>0 DEF Established, Fabrics
  <1>3. CASE fabric'.members = fabric.members
    BY <1>3 DEF Admitted
  <1>4. CASE fabric'.members = members /\ w.flow # "chaincode"
    <2> SUFFICES ASSUME NEW m \in members, NEW o \in OrgNames(d.topology.peerOrgs)
                 PROVE  <<m[1], o>> \in members
      BY <1>4 DEF Admitted
    <2>1. CASE m[1] \in existing
      <3>1. PICK old \in fabric.members : old[1] = m[1]
        BY <2>1
      <3>2. <<old[1], o>> \in fabric.members
        BY DEF Admitted
      <3> QED
        BY <3>1, <3>2
    <2>2. CASE m[1] \notin existing
      <3>1. m \notin fabric.members
        BY <2>2
      <3>2. w.flow # "peerOrg" /\ m \in (channels \ existing) \X orgs
        BY <2>2, <3>1
      <3>3. w.flow = "channel"
        <4>1. w.flow \in Flows
          BY DEF Runs, WorkflowEnds
        <4> QED
          BY <1>4, <3>2, <4>1, FlowTable
      <3>4. Creates(w.values)
        BY <3>1, <3>2 DEF Creates
      <3>5. orgs = OrgNames(d.topology.peerOrgs)
        BY <3>3, <3>4 DEF Runs, SameOrgs, WorkflowEnds
      <3> QED
        BY <3>2, <3>5
    <2> QED
      BY <2>1, <2>2
  <1> QED
    BY <1>1, <1>2, <1>3, <1>4

\* A workflow takes nothing away.
LEMMA EstablishedGrows == ASSUME TypeOK, NEW w, fabric' = Established(w) PROVE FabricGrows
  <1>0. fabric \in Fabrics
    BY DEF TypeOK, ClusterOK
  <1>1. \E more :
            \/ fabric' = [fabric EXCEPT !.installed = @ \union more]
            \/ fabric' = [fabric EXCEPT !.members = fabric.members \union more]
            \/ \E joined : fabric' = [fabric EXCEPT !.members = fabric.members \union more,
                                                  !.joined = @ \union joined]
    BY Zenon DEF Established
  <1>2. PICK more, joined :
            \/ fabric' = [fabric EXCEPT !.installed = @ \union more]
            \/ fabric' = [fabric EXCEPT !.members = fabric.members \union more]
            \/ fabric' = [fabric EXCEPT !.members = fabric.members \union more,
                                       !.joined = @ \union joined]
    BY <1>1
  <1> QED
    BY <1>0, <1>2 DEF Fabrics, FabricGrows

\* What a workflow that succeeds establishes of the spec it was given.
LEMMA FlowEstablishes ==
    ASSUME TypeOK, NEW w, NEW d, w.values = d, w.chaincode = d.chaincode,
           fabric' = Established(w)
    PROVE  /\ w.flow = "peerOrg" => Admitted(d.topology)'
           /\ w.flow = "channel" /\ Admitted(d.topology) => Connected(d)'
           /\ w.flow = "chaincode" /\ Does(w, "chaincode", d) => Equipped(d)'
  <1> DEFINE channels == Elements(d.channels)
             orgs     == OrgNames(d.topology.peerOrgs)
             peers    == Peers(d.topology)
             existing == { m[1] : m \in fabric.members }
             members  == fabric.members \union
                    (IF w.flow = "peerOrg" THEN existing ELSE channels \ existing) \X orgs
             included == { c \in Effective(d, d.chaincode) :
                            w.include = {} \/ c.name \in w.include }
  <1>0. fabric \in Fabrics
    BY DEF TypeOK, ClusterOK
  <1>1. CASE w.flow = "peerOrg"
    <2>1. fabric' = [fabric EXCEPT !.members = members]
      BY <1>1 DEF Established
    <2>2. /\ fabric'.members = members /\ fabric'.joined = fabric.joined
          /\ fabric'.installed = fabric.installed
      BY <1>0, <2>1 DEF Fabrics
    <2>3. \A m \in members, o \in orgs : <<m[1], o>> \in members
      BY <1>1
    <2> QED
      BY <1>1, <2>2, <2>3 DEF Admitted
  <1>2. CASE w.flow = "chaincode"
    <2>1. fabric' = [fabric EXCEPT !.installed = @ \union (included \X peers)]
      BY <1>2 DEF Established
    <2>2. /\ fabric'.members = fabric.members /\ fabric'.joined = fabric.joined
          /\ fabric'.installed = fabric.installed \union (included \X peers)
      BY <1>0, <2>1 DEF Fabrics
    <2>3. ASSUME Does(w, "chaincode", d)
          PROVE  Effective(d, d.chaincode) \X peers \subseteq fabric'.installed
      <3> SUFFICES ASSUME NEW c \in Effective(d, d.chaincode), NEW p \in peers
                   PROVE  <<c, p>> \in fabric'.installed
        OBVIOUS
      <3>1. CASE c \in included
        BY <2>2, <3>1
      <3>2. CASE c \notin included
        BY <2>2, <2>3, <3>2 DEF Does
      <3> QED
        BY <3>1, <3>2
    <2> QED
      BY <1>2, <2>2, <2>3 DEF Equipped
  <1>3. CASE w.flow \notin {"peerOrg", "chaincode"}
    <2>1. fabric' = [fabric EXCEPT !.members = members, !.joined = @ \union
                        { j \in channels \X peers : <<j[1], j[2][1]>> \in members }]
      BY <1>3 DEF Established
    <2>2. /\ fabric'.members = members /\ fabric'.installed = fabric.installed
          /\ fabric'.joined = fabric.joined \union
                        { j \in channels \X peers : <<j[1], j[2][1]>> \in members }
      BY <1>0, <2>1 DEF Fabrics
    <2>3. ASSUME Admitted(d.topology), NEW ch \in channels, NEW o \in orgs
          PROVE  <<ch, o>> \in members
      <3>1. CASE ch \in existing
        BY <2>3, <3>1 DEF Admitted
      <3>2. CASE ch \notin existing
        BY <1>3, <3>2
      <3> QED
        BY <3>1, <3>2
    <2>4. \A p \in peers : p[1] \in orgs
      BY PeersHaveOrgs
    <2>5. ASSUME Admitted(d.topology) PROVE channels \X peers \subseteq fabric'.joined
      BY <2>2, <2>3, <2>4, <2>5
    <2> QED
      <3> HIDE DEF members, channels, orgs, peers
      <3>2. Admitted(d.topology) => channels \X orgs \subseteq fabric'.members
        BY <2>2, <2>3
      <3> QED
        BY <1>3, <2>5, <3>2 DEF Connected, channels, orgs, peers
  <1> QED
    BY <1>1, <1>2, <1>3

\* A flow about to be recorded works for the organizations there are; that of the
\* channels follows the admission of every organization.
LEMMA SubmittedDraft ==
    ASSUME TypeOK, Consistent, Careful, Level, InSync, Explained, OneEdit, Reached(status),
           pc = "save", fresh, NEW flow \in Flows, pending.status.state = Submitted[flow]
    PROVE  /\ SameOrgs(pending.status.observed, status.observed)
           /\ flow = "channel" => Admitted(pending.status.observed.topology)
  <1>0. net.spec = spec /\ net.status = status
    BY DEF Consistent, Copies, CopyIsCurrent, Current
  <1>1. pending.status.state \in {"ChannelFlowSubmitted", "ChaincodeFlowSubmitted", "PeerOrgFlowSubmitted"}
        /\ (flow = "channel" => pending.status.state = "ChannelFlowSubmitted")
    BY FlowTable
  <1>2. /\ <<status.state, pending.status.state>> \in Onward
        /\ pending.status.observed = net.spec.desired
    BY <1>0, <1>1 DEF Level, Drafted
  <1>3. status.state \in {"HelmChartReady", "PeerOrgFlowCompleted", "ChannelFlowCompleted", "Ready"}
    BY <1>1, <1>2 DEF Onward, Edges
  <1>4. CASE status.state = "Ready"
    <2>1. ~Changes.topology
      BY <1>0, <1>1, <1>4, SavedPath DEF Upkeep
    <2>2. pending.status.observed.topology = status.observed.topology
      BY <1>0, <1>2, <2>1 DEF Changes, GetChanges
    <2>3. NeedsAdmitted(status)
      BY <1>4 DEF NeedsAdmitted
    <2> QED
      BY <2>2, <2>3 DEF Reached, SameOrgs
  <1>5. CASE status.state # "Ready"
    <2>1. pending.status.observed = status.observed
      BY <1>2, <1>3, <1>5, SameGoal DEF Busy, Underway
    <2>2. flow = "channel" => status.state # "ChannelFlowCompleted"
                /\ (status.state = "HelmChartReady" => status.nextFlow = "")
      BY <1>0, <1>1, <1>2, <1>5 DEF Onward, Edges, Explained
    <2>3. flow = "channel" => NeedsAdmitted(status)
      BY <1>3, <1>5, <2>2 DEF NeedsAdmitted, Charting
    <2> QED
      BY <2>1, <2>3 DEF Reached, SameOrgs
  <1> QED
    BY <1>4, <1>5

\* A workflow that ends has done its task.
LEMMA TaskEnds ==
    ASSUME TypeOK, Runs, NEW n \in Names, WorkflowEnds(n),
           NEW st, Tracks(st), Task(st), SameOrgs(st.observed, status.observed),
           st.state = "ChannelFlowSubmitted" => Admitted(st.observed.topology)
    PROVE  Task(st)'
  <1> SUFFICES ASSUME NEW flow \in Flows, st.state = Submitted[flow],
                      workflows'[st.workflow].phase # "Absent"
               PROVE  Does(workflows[st.workflow], flow, st.observed)'
    BY DEF Task
  <1>0. workflows \in [Names -> Workflows] /\ st.workflow \in Names
    BY DEF TypeOK, ClusterOK, Tracks
  <1>1. PICK phase \in Outcomes :
            /\ workflows' = [workflows EXCEPT ![n].phase = phase]
            /\ fabric' = IF phase = "Succeeded" THEN Established(workflows[n]) ELSE fabric
    BY DEF WorkflowEnds
  <1>2. PICK old : old = workflows[st.workflow]
    OBVIOUS
  <1>3. PICK new : new = workflows'[st.workflow]
    OBVIOUS
  <1>4. /\ new.values = old.values /\ new.chaincode = old.chaincode /\ new.include = old.include
        /\ st.workflow # n => new.phase = old.phase
        /\ st.workflow = n => new.phase = phase /\ old.phase = "Running"
    <2>1. CASE st.workflow = n
      <3>1. old \in Workflows /\ new = [old EXCEPT !.phase = phase] /\ old.phase = "Running"
        BY <1>0, <1>1, <1>2, <1>3, <2>1 DEF WorkflowEnds
      <3> QED
        BY <2>1, <3>1 DEF Workflows
    <2>2. CASE st.workflow # n
      <3>1. new = old
        BY <1>0, <1>1, <1>2, <1>3, <2>2
      <3> QED
        BY <2>2, <3>1
    <2> QED
      BY <2>1, <2>2
  <1>5. old.phase # "Absent" /\ old.flow = flow
    <2>1. old.phase # "Absent"
      BY <1>2, <1>3, <1>4
    <2> QED
      BY <1>2, <2>1 DEF Tracks
  <1>6. Does(old, flow, st.observed)
    BY <1>2, <1>5 DEF Task
  <1>7. FabricGrows
    <2>1. CASE fabric' = fabric
      BY <2>1 DEF FabricGrows
    <2>2. CASE fabric' = Established(workflows[n])
      BY <2>2, EstablishedGrows
    <2> QED
      BY <1>1, <2>1, <2>2
  <1>8. ASSUME new.phase = "Succeeded"
        PROVE  /\ flow = "peerOrg" => Admitted(st.observed.topology)'
               /\ flow = "channel" => Connected(st.observed)'
               /\ flow = "chaincode" => Equipped(st.observed)'
    <2>1. CASE old.phase = "Succeeded"
      BY <1>6, <1>7, <2>1, GrowsKeep, AdmittedStays DEF Does
    <2>2. CASE old.phase # "Succeeded"
      <3>1. st.workflow = n /\ fabric' = Established(old)
        BY <1>1, <1>2, <1>4, <1>8, <2>2
      <3>2. old.values = st.observed /\ old.chaincode = st.observed.chaincode
        BY <1>6 DEF Does
      <3>3. flow = "channel" => Admitted(st.observed.topology)
        BY FlowTable
      <3> QED
        BY <1>5, <1>6, <3>1, <3>2, <3>3, FlowEstablishes
    <2> QED
      BY <2>1, <2>2
  <1>9. Does(new, flow, st.observed)'
    BY <1>4, <1>6, <1>7, <1>8 DEF Does, FabricGrows
  <1> QED
    BY <1>3, <1>9

\* No workflow is started, and nothing taken away.
LEMMA RunsStay ==
    ASSUME Runs, FabricGrows, UNCHANGED <<spec, status>>,
           \A n \in Names : workflows'[n].phase = "Running" => workflows'[n] = workflows[n]
    PROVE  Runs'
  <1> SUFFICES ASSUME NEW n \in Names, NEW w, w = workflows'[n], w.phase = "Running"
               PROVE  /\ w.flow \in Flows
                      /\ w.flow = "channel" /\ Creates(w.values)' =>
                            \/ w.values = status'.observed
                            \/ w.values = spec'.desired /\ SameOrgs(spec'.desired, status'.observed)
    BY DEF Runs, Creates, SameOrgs
  <1>1. w = workflows[n]
    OBVIOUS
  <1>2. Creates(w.values)' => Creates(w.values)
    BY GrowsKeep
  <1> QED
    BY <1>1, <1>2 DEF Runs

LEMMA FlowingEnds ==
    ASSUME TypeOK, Consistent, Careful, Level, InSync, Explained, OneEdit, Flowing,
           NEW n \in Names, WorkflowEnds(n)
    PROVE  Flowing'
  <1>0. UNCHANGED <<spec, status, pc, fresh, pending>> /\ Tracks(status)
    BY DEF WorkflowEnds, resource, worker, Consistent
  <1>1. PICK phase \in Outcomes :
            /\ workflows' = [workflows EXCEPT ![n].phase = phase]
            /\ fabric' = IF phase = "Succeeded" THEN Established(workflows[n]) ELSE fabric
    BY DEF WorkflowEnds
  <1>2. FabricGrows
    <2>1. CASE fabric' = fabric
      BY <2>1 DEF FabricGrows
    <2>2. CASE fabric' = Established(workflows[n])
      BY <2>2, EstablishedGrows
    <2> QED
      BY <1>1, <2>1, <2>2
  <1>3. PICK st : st = status
    OBVIOUS
  <1>4. Reached(st)'
    <2>1. Reached(st) /\ SameOrgs(st.observed, status.observed)
      BY <1>3 DEF Flowing, SameOrgs
    <2>2. Admitted(st.observed.topology) => Admitted(st.observed.topology)'
      BY <2>1, AdmittedStays DEF Flowing
    <2> QED
      BY <1>2, <2>1, <2>2, GrowsKeep DEF Reached
  <1>5. Task(st)'
    <2>1. st.state = "ChannelFlowSubmitted" => Admitted(st.observed.topology)
      BY <1>3 DEF Flowing, Reached, NeedsAdmitted
    <2> QED
      BY <1>0, <1>3, <2>1, TaskEnds DEF Flowing, SameOrgs
  <1>6. PICK to : to = pending.status
    OBVIOUS
  <1>7. ASSUME pc = "save", fresh PROVE Task(to)'
    <2>1. CASE \E flow \in Flows : to.state = Submitted[flow]
      <3>1. Tracks(to)
        BY <1>6, <1>7, Unforced DEF Consistent, Intentions, DraftLegal, Careful, Patience
      <3>2. SameOrgs(to.observed, status.observed)
            /\ (to.state = "ChannelFlowSubmitted" => Admitted(to.observed.topology))
        BY <1>6, <1>7, <2>1, SubmittedDraft, FlowTable DEF Flowing, Flows
      <3> QED
        BY <1>6, <1>7, <3>1, <3>2, TaskEnds DEF Flowing
    <2>2. CASE ~ \E flow \in Flows : to.state = Submitted[flow]
      BY <2>2 DEF Task
    <2> QED
      BY <2>1, <2>2
  <1>8. Runs'
    <2> SUFFICES ASSUME NEW m \in Names, workflows'[m].phase = "Running"
                 PROVE  workflows'[m] = workflows[m]
      BY <1>0, <1>2, RunsStay DEF Flowing
    <2>1. workflows \in [Names -> Workflows] /\ phase # "Running"
      BY ReconcilerAssumption DEF TypeOK, ClusterOK
    <2>2. m # n
      <3>1. workflows'[n] = [workflows[n] EXCEPT !.phase = phase] /\ workflows[n] \in Workflows
        BY <1>1, <2>1
      <3>2. workflows'[n].phase = phase
        BY <3>1 DEF Workflows
      <3> QED
        BY <2>1, <3>2
    <2> QED
      BY <1>1, <2>1, <2>2
  <1>9. NothingEarly'
    BY <1>0 DEF Flowing, NothingEarly, WorkflowEnds
  <1> QED
    BY <1>0, <1>3, <1>4, <1>5, <1>6, <1>7, <1>8, <1>9 DEF Flowing

-----------------------------------------------------------------------------
\* A workflow is given what is being applied.

\* A workflow of that flow is submitted for what the worker's copy desires.
Launch(n, flow, include) ==
    /\ NewName(n)
    /\ workflows' = [workflows EXCEPT ![n] =
            [flow |-> flow, values |-> net.spec.desired, chaincode |-> net.spec.desired.chaincode,
             include |-> include, phase |-> "Running"]]
    /\ \/ pc' = "idle"
       \/ /\ pc' = "save" /\ UNCHANGED <<net, fresh>>
          /\ pending'.status.state = Submitted[flow] /\ pending'.status.workflow = n
          /\ pending'.status.observed = net.spec.desired

LEMMA StartLaunches ==
    ASSUME NEW flow, NEW values, NEW include, NEW draft \in Statuses,
           StartFlow(flow, values, include, draft), workflows' # workflows,
           draft.observed = net.spec.desired,
           values.stage # "chart" => values.values = net.spec.desired
    PROVE  \E n \in Names : Launch(n, flow, include)
  BY Starts DEF Launch

LEMMA PlainLaunch ==
    ASSUME TypeOK, Level, InSync, DirRight, Busy, Underway(status),
           net.status.state \notin {"", "Ready", "Rejected"}, dir.stage # "absent",
           NEW flow, StartFlow(flow, dir, {}, net.status), workflows' # workflows
    PROVE  \E n \in Names : Launch(n, flow, {})
  <1>1. net.status \in Statuses
    BY DEF TypeOK, WorkerOK, Resources
  <1>2. net.status.observed = net.spec.desired
    BY SeenNow DEF Level, Applied
  <1>3. ASSUME dir.stage # "chart" PROVE dir.values = net.spec.desired
    <2>1. dir.stage \in {"values", "complete"}
      BY <1>3 DEF TypeOK, WorkerOK, Dirs, Stages
    <2> QED
      BY <2>1, SameGoal DEF DirRight, Written
  <1> QED
    BY <1>1, <1>2, <1>3, StartLaunches

LEMMA ReadyLaunch ==
    ASSUME TypeOK, HandleReady, workflows' # workflows
    PROVE  /\ net.status.state = "Ready" /\ AreThereAnyChanges(Changes) /\ HelmPath(Changes) = {}
           /\ \E n \in Names :
                \/ Changes.channel /\ Launch(n, "channel", {})
                \/ Changes.chaincode /\ ~Changes.channel /\ Launch(n, "chaincode", Changes.chaincodes)
  <1>0. net.status.state = "Ready" /\ net.status \in Statuses
    BY DEF HandleReady, Handling, TypeOK, WorkerOK, Resources
  <1>1. /\ AreThereAnyChanges(Changes) /\ dir' = Rewritten /\ HelmPath(Changes) = {}
        /\ \/ Changes.channel /\ StartFlow("channel", dir', {}, Observing(net.status))
           \/ /\ ~Changes.channel /\ Changes.chaincode
              /\ StartFlow("chaincode", dir', Changes.chaincodes, Observing(net.status))
    BY Zenon DEF HandleReady
  <1>2. Observing(net.status) \in Statuses /\ Observing(net.status).observed = net.spec.desired
    BY <1>0, ObservingType DEF TypeOK, Observing, Statuses
  <1>3. dir'.values = net.spec.desired
    BY <1>1 DEF Rewritten
  <1>4. ASSUME NEW flow, NEW include, StartFlow(flow, dir', include, Observing(net.status))
        PROVE  \E n \in Names : Launch(n, flow, include)
    BY <1>2, <1>3, <1>4, StartLaunches
  <1> QED
    BY <1>0, <1>1, <1>4

\* The workflows of a worker that has read Ready are for a change of channels or
\* chaincodes; all others are for what the server's status is applying.
LEMMA Launches ==
    ASSUME TypeOK, Consistent, Careful, Level, Behind, InSync, DirRight, Walks, ~Teardown,
           workflows' # workflows
    PROVE  \/ Underway(status) /\ \E n \in Names, flow \in Flows : Launch(n, flow, {})
           \/ HandleReady
  <1>0. Busy /\ net \in Seen
    BY WalkEnds, SeenNow DEF Busy
  <1>1. ASSUME net.status.state \in {"HelmChartReady", "ChannelFlowCompleted", "PeerOrgFlowCompleted"},
               net.status.state = "HelmChartReady" => net.status.nextFlow # "None"
        PROVE  Underway(status)
    BY <1>0, <1>1 DEF Behind, Underway, Onward, Edges
  <1>2. CASE NextFlow
    <2>1. net.status.state = "HelmChartReady" /\ dir.stage # "absent"
      BY <1>2 DEF NextFlow, Level, Drafted, DirRight
    <2>2. net.status.nextFlow # "None" /\ \E flow \in Flows : StartFlow(flow, dir, {}, net.status)
      BY <1>2, FlowTable DEF NextFlow, Flows
    <2> QED
      BY <1>0, <1>1, <2>1, <2>2, PlainLaunch
  <1>3. CASE HandleFlowCompleted("channel", "chaincode") \/ HandleFlowCompleted("peerOrg", "channel")
    <2>1. /\ net.status.state \in {"ChannelFlowCompleted", "PeerOrgFlowCompleted"}
          /\ dir.stage # "absent" /\ \E flow \in Flows : StartFlow(flow, dir, {}, net.status)
      BY <1>3, FlowTable DEF HandleFlowCompleted, Handling, NothingToReconstruct, Flows
    <2> QED
      BY <1>0, <1>1, <2>1, PlainLaunch
  <1>4. Reconstruct \/ CallFails \/ Prepare \/ Install \/ SecondUpdate \/ HandleForce
            \/ HandleNone \/ HandleTerminal => workflows' = workflows
    BY DEF Reconstruct, CallFails, Prepare, Install, SecondUpdate, HandleForce, HandleNone,
           HandleTerminal, cluster
  <1>5. HandleHelmChartNeedsUpdate \/ HandleHelmChartNeedsDoubleUpdate
            \/ HandleHelmChartInstalled \/ HandleHelmChartReady \/ HandleChaincodeFlowCompleted
            \/ (\E flow \in Flows : HandleFlowSubmitted(flow)) => workflows' = workflows
    BY DEF HandleHelmChartNeedsUpdate, HandleHelmChartNeedsDoubleUpdate,
           HandleHelmChartInstalled, HandleHelmChartReady, HandleChaincodeFlowCompleted,
           HandleFlowSubmitted, cluster
  <1> QED
    BY <1>2, <1>3, <1>4, <1>5 DEF Walks, Handle

LEMMA LaunchKept ==
    ASSUME TypeOK, Consistent, Flowing, status.state \notin Early,
           NEW n \in Names, NEW flow \in Flows, NEW include, Launch(n, flow, include),
           UNCHANGED <<spec, status, fabric>>,
           \/ net.spec.desired = status.observed
           \/ net.spec.desired = spec.desired /\ SameOrgs(spec.desired, status.observed),
           flow = "chaincode" /\ fresh =>
                \A c \in Effective(net.spec.desired, net.spec.desired.chaincode) :
                    include # {} /\ c.name \notin include =>
                        {c} \X Peers(net.spec.desired.topology) \subseteq fabric.installed
    PROVE  Flowing'
  <1>0. workflows \in [Names -> Workflows] /\ Tracks(status)
    BY DEF TypeOK, ClusterOK, Consistent
  <1>1. PICK d : d = net.spec.desired
    OBVIOUS
  <1>2. PICK w : w = [flow |-> flow, values |-> d, chaincode |-> d.chaincode,
                      include |-> include, phase |-> "Running"]
    OBVIOUS
  <1>3. /\ w.flow = flow /\ w.values = d /\ w.chaincode = d.chaincode
        /\ w.include = include /\ w.phase = "Running"
    BY <1>2
  <1>4. NewName(n) /\ workflows' = [workflows EXCEPT ![n] = w]
    BY <1>1, <1>2 DEF Launch
  <1>5. workflows'[n] = w /\ \A m \in Names \ {n} : workflows'[m] = workflows[m]
    BY <1>0, <1>4
  <1>6. (Reached(status))'
    BY DEF Flowing, Reached, Admitted, Connected, Equipped
  <1>7. PICK st : st = status
    OBVIOUS
  <1>8. Task(st)'
    <2> SUFFICES ASSUME NEW other \in Flows, st.state = Submitted[other],
                        workflows'[st.workflow].phase # "Absent"
                 PROVE  Does(workflows[st.workflow], other, st.observed)'
      BY DEF Task
    <2>1. st.workflow \in Names \ {n}
      BY <1>0, <1>4, <1>7 DEF Tracks, NewName, Unused
    <2>2. PICK v : v = workflows'[st.workflow]
      OBVIOUS
    <2>3. v = workflows[st.workflow]
      BY <1>5, <2>1, <2>2
    <2>4. Does(v, other, st.observed)
      BY <1>7, <2>2, <2>3 DEF Flowing, Task
    <2>5. Does(v, other, st.observed)'
      BY <2>4 DEF Does, Admitted, Connected, Equipped
    <2> QED
      BY <2>2, <2>5
  <1>9. Runs'
    <2> SUFFICES ASSUME NEW m \in Names, NEW v, v = workflows'[m], v.phase = "Running"
                 PROVE  /\ v.flow \in Flows
                        /\ v.flow = "channel" /\ Creates(v.values) =>
                            \/ v.values = status.observed
                            \/ v.values = spec.desired /\ SameOrgs(spec.desired, status.observed)
      BY DEF Runs, Creates, SameOrgs
    <2>1. CASE m = n
      BY <1>1, <1>3, <1>5, <2>1
    <2>2. CASE m # n
      BY <1>5, <2>2 DEF Flowing, Runs
    <2> QED
      BY <2>1, <2>2
  <1>10. NothingEarly'
    BY DEF NothingEarly
  <1>11. ASSUME pc' = "save", fresh' PROVE (Task(pending.status))'
    <2>1. PICK to : to = pending'.status
      OBVIOUS
    <2>2. to.state = Submitted[flow] /\ to.workflow = n /\ to.observed = d /\ fresh
      BY <1>1, <1>11, <2>1 DEF Launch
    <2> SUFFICES ASSUME NEW other \in Flows, to.state = Submitted[other]
                 PROVE  Does(w, other, d)'
      BY <1>5, <2>1, <2>2 DEF Task
    <2>3. other = flow
      BY <2>2, DistinctFlows
    <2> QED
      BY <1>1, <1>3, <2>2, <2>3 DEF Does
  <1> QED
    BY <1>6, <1>7, <1>8, <1>9, <1>10, <1>11 DEF Flowing

LEMMA SpecsWellFormed == ASSUME Careful, NEW d \in SpecsOrUnset PROVE WellFormed(d)
  <1>1. CASE d \in Specs
    BY <1>1 DEF Careful
  <1>2. CASE d = Unset
    <2>1. PICK t : t = d.topology
      OBVIOUS
    <2>2. /\ t = [version |-> "", useActualDomains |-> FALSE, ordererOrgs |-> <<>>, peerOrgs |-> <<>>]
          /\ d.chaincodes = Nil
      BY <1>2, <2>1 DEF Unset
    <2>3. Len(<<>>) = 0 /\ DOMAIN <<>> = 1..0
      OBVIOUS
    <2>4. Sequential(<<>>) /\ DOMAIN <<>> = {}
      BY <2>3 DEF Sequential
    <2>5. PICK empty : empty = <<>>
      OBVIOUS
    <2>6. Items(d.chaincodes) = empty /\ Sequential(empty) /\ DOMAIN empty = {}
      BY <2>2, <2>4, <2>5 DEF Items
    <2>7. t = [version |-> "", useActualDomains |-> FALSE, ordererOrgs |-> empty, peerOrgs |-> empty]
      BY <2>2, <2>5
    <2>8. /\ t = [version |-> t.version, useActualDomains |-> t.useActualDomains,
                  ordererOrgs |-> t.ordererOrgs, peerOrgs |-> t.peerOrgs]
          /\ t.peerOrgs = empty
      BY <2>7
    <2> QED
      BY <2>1, <2>6, <2>8 DEF WellFormed
  <1> QED
    BY <1>1, <1>2 DEF SpecsOrUnset

\* Whoever saves that a workflow is submitted has submitted one.
LEMMA SubmitsLaunch ==
    ASSUME TypeOK, Consistent, Waiting, Level, Walks, pc' = "save",
           NEW flow \in Flows, pending'.status.state = Submitted[flow]
    PROVE  workflows' # workflows
  <1>0. workflows \in [Names -> Workflows] /\ net.status \in Statuses
    BY DEF TypeOK, ClusterOK, WorkerOK, Resources
  <1>1. ASSUME NEW other, NEW values, NEW include, NEW draft \in Statuses,
               StartFlow(other, values, include, draft)
        PROVE  workflows' # workflows
    <2>1. PICK n \in Names :
            /\ NewName(n)
            /\ workflows' = [workflows EXCEPT ![n] =
                    [flow |-> other, values |-> values.values,
                     chaincode |-> net.spec.desired.chaincode, include |-> include,
                     phase |-> "Running"]]
      BY <1>1, Zenon DEF StartFlow, Return
    <2>2. workflows'[n].phase = "Running"
      BY <1>0, <2>1
    <2> QED
      BY <2>1, <2>2 DEF NewName, Unused
  <1>2. CASE HandleReady
    <2>1. Observing(net.status) \in Statuses
      BY <1>0, ObservingType DEF TypeOK
    <2>2. Changes.peerOrgs \in BOOLEAN /\ Changes.ordererOrgs \in BOOLEAN
      BY DEF Changes, GetChanges
    <2>3. ASSUME NEW p \in HelmPath(Changes) PROVE p[1] # Submitted[flow]
      <3>1. p[1] \in {"HelmChartNeedsUpdate", "HelmChartNeedsDoubleUpdate"}
        BY <2>2, HelmPathStates
      <3> QED
        BY <3>1, Untouched
    <2> QED
      BY <1>1, <1>2, <2>1, <2>3, ReadySaves
  <1>3. CASE NextFlow \/ HandleFlowCompleted("channel", "chaincode")
                      \/ HandleFlowCompleted("peerOrg", "channel")
    <2>1. CASE \E other, values, include : StartFlow(other, values, include, net.status)
      BY <1>0, <1>1, <2>1
    <2>2. CASE NextFlow /\ net.status.nextFlow = "None"
      BY <2>2, NextSaves, Untouched DEF Keeps
    <2> QED
      BY <1>3, <2>1, <2>2, Zenon DEF NextFlow, HandleFlowCompleted
  <1>4. CASE HandleNone \/ Install \/ Upgrades \/ HandleHelmChartInstalled
                \/ HandleChaincodeFlowCompleted
    BY <1>4, NoneSaves, InstallSaves, UpgradeSaves, StatefulSaves, CompletionSaves, Untouched
       DEF Keeps
  <1>5. CASE \E other \in Flows : HandleFlowSubmitted(other)
    <2>1. PICK other \in Flows : HandleFlowSubmitted(other)
      BY <1>5
    <2>2. pending'.status.state \in {Completed[other], "Failed"}
      BY <2>1, PollSaves DEF Keeps
    <2>3. Completed[other] # Submitted[flow] /\ "Failed" # Submitted[flow]
      BY Untouched, DistinctFlows
    <2> QED
      BY <2>2, <2>3
  <1> QED
    BY <1>2, <1>3, <1>4, <1>5, WhoSaves

\* What a worker that has read Ready submits is for one change of channels or
\* chaincodes, of a network in which the rest is as it should be.
LEMMA ReadyFlowing ==
    ASSUME TypeOK, Consistent, Careful, Level, Behind, InSync, OneEdit, Flowing,
           Walks, HandleReady, workflows' # workflows, UNCHANGED <<spec, status, fabric>>
    PROVE  Flowing'
  <1>0. Busy /\ net \in Seen /\ net.spec \in [desired : SpecsOrUnset, force : Forceable \union {""}]
    BY WalkEnds, SeenNow DEF Busy, TypeOK, WorkerOK, Resources
  <1>1. /\ net.status.state = "Ready" /\ AreThereAnyChanges(Changes) /\ HelmPath(Changes) = {}
        /\ \E n \in Names :
                \/ Changes.channel /\ Launch(n, "channel", {})
                \/ Changes.chaincode /\ ~Changes.channel /\ Launch(n, "chaincode", Changes.chaincodes)
    BY ReadyLaunch
  <1>2. net.spec.desired = spec.desired
    <2>1. net.status.observed # net.spec.desired
      <3>1. net.status.observed = net.spec.desired => ~AreThereAnyChanges(Changes)
        BY DEF Changes, GetChanges, AreThereAnyChanges
      <3> QED
        BY <1>1, <3>1
    <2>2. ~Done(net)
      BY <1>0, <2>1, StoredAsIs DEF Done, Careful, Patience
    <2> QED
      BY <1>0, <1>1, <2>2 DEF InSync
  <1>3. net.status = status \/ Underway(status)
    BY <1>0, <1>1 DEF Behind, Onward, Edges, Underway
  <1>4. status.state \notin Early
    BY <1>1, <1>3 DEF Underway, Early
  <1>5. \/ net.spec.desired = status.observed
        \/ net.spec.desired = spec.desired /\ SameOrgs(spec.desired, status.observed)
    <2>1. CASE Underway(status)
      BY <1>0, <2>1, SameGoal
    <2>2. CASE net.status = status
      <3>1. ~Changes.peerOrgs
        BY <1>1, NoPath
      <3> QED
        BY <1>2, <2>2, <3>1 DEF Changes, GetChanges, SameOrgs
    <2> QED
      BY <1>3, <2>1, <2>2
  <1>6. ASSUME fresh, Changes.chaincode,
               NEW c \in Effective(net.spec.desired, net.spec.desired.chaincode),
               Changes.chaincodes # {}, c.name \notin Changes.chaincodes
        PROVE  {c} \X Peers(net.spec.desired.topology) \subseteq fabric.installed
    <2>1. net.spec = spec /\ net.status = status
      <3>1. Busy /\ fresh
        BY <1>0, <1>6
      <3>2. net = Current
        BY <3>1 DEF Consistent, Copies, CopyIsCurrent, Busy
      <3> QED
        BY <3>2 DEF Current
    <2>2. PICK new : new = net.spec.desired
      OBVIOUS
    <2>3. PICK old : old = net.status.observed
      OBVIOUS
    <2>4. Changes = GetChanges(new, old)
      BY <2>2, <2>3 DEF Changes
    <2>5. new.topology = old.topology
      <3>1. AtOnce(new, old)
        <4>1. new # old
          BY <1>6, <2>4 DEF GetChanges
        <4> QED
          BY <1>1, <2>1, <2>2, <2>3, <4>1, EditAtOnce
      <3>2. ~Changes.topology
        BY <1>1, <1>6, <2>4, <3>1, NoPath DEF AtOnce
      <3> QED
        BY <2>4, <3>2 DEF GetChanges
    <2>6. c \in Effective(old, old.chaincode)
      <3>1. new \in SpecsOrUnset /\ old \in SpecsOrUnset
        BY <2>2, <2>3 DEF TypeOK, WorkerOK, Resources, Statuses
      <3>2. Sequential(Items(new.chaincodes)) /\ Sequential(Items(old.chaincodes))
        BY <3>1, SpecsWellFormed DEF WellFormed
      <3>3. Changes.chaincodes = ChangedChaincodes(new, old)
        BY <2>4 DEF GetChanges
      <3> QED
        BY <1>6, <2>2, <3>2, <3>3, UnchangedChaincodes
    <2>7. Equipped(old)
      BY <1>1, <2>1, <2>3 DEF Flowing, Reached, NeedsEquipped
    <2> QED
      BY <2>2, <2>5, <2>6, <2>7 DEF Equipped
  <1>7. PICK n \in Names :
            \/ Changes.channel /\ Launch(n, "channel", {})
            \/ Changes.chaincode /\ ~Changes.channel /\ Launch(n, "chaincode", Changes.chaincodes)
    BY <1>1
  <1>8. CASE Launch(n, "channel", {})
    BY <1>4, <1>5, <1>8, LaunchKept DEF Flows
  <1>9. CASE Changes.chaincode /\ Launch(n, "chaincode", Changes.chaincodes)
    BY <1>4, <1>5, <1>6, <1>9, LaunchKept DEF Flows
  <1> QED
    BY <1>7, <1>8, <1>9

LEMMA FlowingWalks ==
    ASSUME TypeOK, Consistent, Careful, Level, Behind, InSync, SetUpOnce, DirRight, OneEdit,
           Flowing, Walks
    PROVE  Flowing'
  <1>0. Busy /\ UNCHANGED <<spec, status>> /\ Waiting
    BY WalkEnds DEF Busy, resource, Careful, Patience
  <1>1. CASE Teardown
    <2>1. /\ status.state = "New" /\ pc' = "prepare"
          /\ fabric' = NothingYet
          /\ \A n \in Names : workflows'[n] \in {workflows[n], NoWorkflow}
      BY <1>0, <1>1, NewIsNow DEF Teardown, Handling, Goto
    <2>2. fabric'.members = {} /\ NoWorkflow.phase = "Absent"
      BY <2>1 DEF NothingYet, NoWorkflow
    <2>3. \A n \in Names : workflows'[n].phase # "Running"
      <3> TAKE n \in Names
      <3>1. workflows[n].phase # "Running"
        BY <2>1 DEF Flowing, NothingEarly, Early
      <3> QED
        BY <2>1, <2>2, <3>1
    <2>4. (Reached(status))'
      <3>1. ~NeedsConnected(status) /\ ~NeedsEquipped(status) /\ status.nextFlow # "None"
        BY <2>1 DEF NeedsConnected, NeedsEquipped, Skips, Flowing, Reached, Charting, Upkeep
      <3>2. Admitted(status.observed.topology)'
        BY <2>2 DEF Admitted
      <3> QED
        BY <1>0, <3>1, <3>2 DEF Reached, NeedsConnected, NeedsEquipped, Skips
    <2>5. (Task(status))'
      BY <1>0, <2>1, Untouched DEF Task
    <2> QED
      BY <1>0, <2>1, <2>2, <2>3, <2>4, <2>5 DEF Flowing, Runs, NothingEarly
  <1>2. ASSUME ~Teardown PROVE fabric' = fabric
    <2>1. HandleReady \/ NextFlow => fabric' = fabric
      BY Zenon DEF HandleReady, NextFlow
    <2>2. Reconstruct \/ CallFails \/ Prepare \/ Install \/ SecondUpdate \/ HandleForce
            \/ HandleNone \/ HandleTerminal => fabric' = fabric
      BY DEF Reconstruct, CallFails, Prepare, Install, SecondUpdate, HandleForce, HandleNone,
             HandleTerminal, cluster
    <2>3. HandleHelmChartNeedsUpdate \/ HandleHelmChartNeedsDoubleUpdate
            \/ HandleHelmChartInstalled \/ HandleHelmChartReady \/ HandleChaincodeFlowCompleted
            \/ (\E flow \in Flows : HandleFlowSubmitted(flow))
            \/ HandleFlowCompleted("channel", "chaincode")
            \/ HandleFlowCompleted("peerOrg", "channel") => fabric' = fabric
      BY DEF HandleHelmChartNeedsUpdate, HandleHelmChartNeedsDoubleUpdate,
             HandleHelmChartInstalled, HandleHelmChartReady, HandleChaincodeFlowCompleted,
             HandleFlowSubmitted, HandleFlowCompleted, cluster
    <2> QED
      BY <1>2, <2>1, <2>2, <2>3 DEF Walks, Handle
  <1>3. CASE ~Teardown /\ workflows' = workflows
    <2>1. fabric' = fabric
      BY <1>2, <1>3
    <2>2. pc' = "save" => \A flow \in Flows : pending'.status.state # Submitted[flow]
      BY <1>0, <1>3, SubmitsLaunch
    <2>3. pc' = "save" => (Task(pending.status))'
      BY <2>2 DEF Task
    <2> QED
      BY <1>0, <1>3, <2>1, <2>3 DEF Flowing, Reached, Task, Does, Runs, NothingEarly, Admitted,
            Connected, Equipped, Creates, SameOrgs
  <1>4. CASE ~Teardown /\ workflows' # workflows
    <2>1. CASE HandleReady
      BY <1>0, <1>2, <1>4, <2>1, ReadyFlowing
    <2>2. CASE Underway(status) /\ \E n \in Names, flow \in Flows : Launch(n, flow, {})
      BY <1>0, <1>2, <1>4, <2>2, SameGoal, LaunchKept DEF Underway, Early
    <2> QED
      BY <1>4, <2>1, <2>2, Launches
  <1> QED
    BY <1>1, <1>3, <1>4

\* What an edit leaves alone stays as it was established.
LEMMA LeftAlone ==
    ASSUME Careful, NEW new \in SpecsOrUnset, NEW old \in SpecsOrUnset, NEW c,
           c = GetChanges(new, old), ~c.peerOrgs
    PROVE  /\ Admitted(old.topology) => Admitted(new.topology)
           /\ ~c.channel /\ ~c.peerCountIncrease /\ Connected(old) => Connected(new)
           /\ ~c.chaincode /\ ~c.peerCountIncrease /\ Equipped(old) => Equipped(new)
           /\ ~c.channel /\ ~c.topology /\ Connected(old) => Connected(new)
  <1>1. SameOrgs(new, old)
    BY DEF GetChanges, SameOrgs
  <1>2. Admitted(old.topology) => Admitted(new.topology)
    BY <1>1 DEF Admitted, SameOrgs
  <1>3. ~c.peerCountIncrease \/ ~c.topology => Peers(new.topology) \subseteq Peers(old.topology)
    <2>1. CASE ~c.topology
      <3>1. new.topology = old.topology
        BY <2>1 DEF GetChanges
      <3> QED
        BY <3>1
    <2>2. CASE ~c.peerCountIncrease
      <3>1. ~SomePeerCountAbove(new.topology, old.topology)
        BY <2>2 DEF GetChanges
      <3>2. WellFormed(new) /\ WellFormed(old)
        BY SpecsWellFormed
      <3> QED
        BY <1>1, <3>1, <3>2, PeersShrink DEF WellFormed, SameOrgs
    <2> QED
      BY <2>1, <2>2
  <1>4. ~c.channel => Elements(new.channels) = Elements(old.channels)
    BY DEF GetChanges
  <1>5. ~c.chaincode => Effective(new, new.chaincode) = Effective(old, old.chaincode)
    <2>1. ~c.chaincode => new.chaincode = old.chaincode /\ new.chaincodes = old.chaincodes
      BY DEF GetChanges
    <2> QED
      BY <2>1 DEF Effective
  <1>6. ~c.channel /\ (~c.peerCountIncrease \/ ~c.topology) /\ Connected(old) => Connected(new)
    BY <1>1, <1>3, <1>4 DEF Connected, SameOrgs
  <1>7. ~c.chaincode /\ ~c.peerCountIncrease /\ Equipped(old) => Equipped(new)
    BY <1>3, <1>5 DEF Equipped
  <1> QED
    BY <1>2, <1>6, <1>7

\* The flow that is declared completed has been.
LEMMA FlowDone ==
    ASSUME TypeOK, Consistent, Waiting, Flowing, pc = "save", net.status = status,
           NEW flow \in Flows, status.state = Submitted[flow],
           pending.status.state = Completed[flow]
    PROVE  /\ flow = "peerOrg" => Admitted(status.observed.topology)
           /\ flow = "channel" => Connected(status.observed)
           /\ flow = "chaincode" => Equipped(status.observed)
  <1>1. workflows[status.workflow].phase = "Succeeded"
    BY Unforced DEF Consistent, Intentions, DraftLegal
  <1>2. Does(workflows[status.workflow], flow, status.observed)
    BY <1>1 DEF Flowing, Task
  <1> QED
    BY <1>1, <1>2 DEF Does

LEMMA ReachedSaved ==
    ASSUME TypeOK, Consistent, OneVersion, Careful, Level, InSync, Explained, OneEdit, Flowing,
           SaveStatus, ~UNCHANGED resource
    PROVE  Reached(pending.status)
  <1>0. Waiting
    BY DEF Careful, Patience
  <1>1. pc = "save" /\ fresh /\ net.spec = spec /\ net.status = status
    BY <1>0, SavedAlone
  <1>2. PICK to : to = pending.status
    OBVIOUS
  <1>3. /\ <<status.state, to.state>> \in Onward
        /\ to.state # "Rejected" => to.observed = spec.desired
    BY <1>1, <1>2 DEF Level, Drafted
  <1>4. Reached(status)
    BY DEF Flowing
  <1>5. status.state \notin {"Ready", "HelmChartReady"} => to.nextFlow = status.nextFlow
    BY <1>1, <1>2 DEF Explained
  <1>6. CASE status.state = "Ready"
    <2>1. PICK new : new = spec.desired
      OBVIOUS
    <2>2. PICK old : old = status.observed
      OBVIOUS
    <2>3. PICK c : c = GetChanges(new, old)
      OBVIOUS
    <2>4. c = Changes /\ new \in SpecsOrUnset /\ old \in SpecsOrUnset
      BY <1>1, <2>1, <2>2, <2>3 DEF Changes, TypeOK, ResourceOK, Statuses
    <2>5. \/ /\ to.state \in Upkeep /\ to.nextFlow = "None"
             /\ ~c.peerOrgs /\ ~c.channel /\ ~c.chaincode /\ ~c.peerCountIncrease
          \/ to.state \in Upkeep /\ to.nextFlow = "PeerOrgFlow"
          \/ to.state \in Upkeep /\ to.nextFlow = status.nextFlow /\ ~c.peerOrgs
          \/ /\ to.nextFlow = status.nextFlow /\ ~c.topology
             /\ \/ to.state = "ChannelFlowSubmitted"
                \/ to.state = "ChaincodeFlowSubmitted" /\ ~c.channel
      BY <1>1, <1>2, <1>6, <2>4, SavedPath
    <2>6. ~c.topology => ~c.peerOrgs
      BY <2>3 DEF GetChanges
    <2>7. Admitted(old.topology) /\ Connected(old) /\ Equipped(old) /\ status.nextFlow # "None"
      BY <1>4, <1>6, <2>2 DEF Reached, NeedsAdmitted, NeedsConnected, NeedsEquipped, Charting, Upkeep
    <2>8. to.observed = new
      BY <1>3, <2>1, <2>5 DEF Upkeep
    <2>9. ~c.peerOrgs =>
            /\ Admitted(new.topology)
            /\ ~c.channel /\ ~c.peerCountIncrease => Connected(new)
            /\ ~c.chaincode /\ ~c.peerCountIncrease => Equipped(new)
            /\ ~c.channel /\ ~c.topology => Connected(new)
      BY <2>3, <2>4, <2>7, LeftAlone
    <2> QED
      BY <1>2, <2>5, <2>6, <2>7, <2>8, <2>9
         DEF Reached, NeedsAdmitted, NeedsConnected, NeedsEquipped, Skips, Charting, Upkeep
  <1>7. CASE status.state \in Early
    <2>1. Admitted(to.observed.topology) /\ to.nextFlow = status.nextFlow /\ status.nextFlow # "None"
      BY <1>4, <1>5, <1>7
         DEF Early, Flowing, NothingEarly, Admitted, Reached, Charting, Upkeep
    <2>2. to.state \in {"New", "Rejected", "HelmChartInstalled", "HelmChartNeedsUpdate"}
      BY <1>3, <1>7 DEF Onward, Edges, Early
    <2> QED
      BY <1>2, <2>1, <2>2
         DEF Reached, NeedsAdmitted, NeedsConnected, NeedsEquipped, Skips
  <1>8. CASE Underway(status)
    <2>1. to.observed = status.observed
      <3>1. to.state # "Rejected"
        BY <1>3, <1>8 DEF Onward, Edges, Underway
      <3> QED
        BY <1>1, <1>3, <1>8, <3>1, SameGoal DEF Busy
    <2>2. PICK d : d = status.observed
      OBVIOUS
    <2>3. CASE status.state \in Upkeep \union {"HelmChartInstalled"}
      <3>1. to.state \in {"HelmChartInstalled", "HelmChartReady"} /\ to.nextFlow = status.nextFlow
        BY <1>3, <1>5, <2>3 DEF Onward, Edges, Upkeep
      <3> QED
        BY <1>2, <1>4, <2>1, <2>3, <3>1
           DEF Reached, NeedsAdmitted, NeedsConnected, NeedsEquipped, Skips, Charting, Upkeep
    <2>4. CASE status.state = "HelmChartReady"
      <3>1. \/ to.state = "Ready" /\ status.nextFlow = "None" /\ to.nextFlow = ""
            \/ to.state = "ChannelFlowSubmitted" /\ status.nextFlow = "" /\ to.nextFlow = ""
            \/ to.state = "PeerOrgFlowSubmitted" /\ to.nextFlow = "PeerOrgFlow"
        BY <1>1, <1>2, <2>4 DEF Explained
      <3> QED
        BY <1>2, <1>4, <2>1, <2>4, <3>1
           DEF Reached, NeedsAdmitted, NeedsConnected, NeedsEquipped, Skips, Charting, Upkeep
    <2>5. CASE status.state \in {"PeerOrgFlowCompleted", "ChannelFlowCompleted", "ChaincodeFlowCompleted"}
      <3>1. /\ \/ status.state = "PeerOrgFlowCompleted" /\ to.state = "ChannelFlowSubmitted"
               \/ status.state = "ChannelFlowCompleted" /\ to.state = "ChaincodeFlowSubmitted"
               \/ status.state = "ChaincodeFlowCompleted" /\ to.state = "Ready"
            /\ to.nextFlow = status.nextFlow
        BY <1>3, <1>5, <2>5 DEF Onward, Edges
      <3> QED
        BY <1>2, <1>4, <2>1, <2>5, <3>1
           DEF Reached, NeedsAdmitted, NeedsConnected, NeedsEquipped, Skips, Charting, Upkeep
    <2>6. CASE status.state \in {"PeerOrgFlowSubmitted", "ChannelFlowSubmitted", "ChaincodeFlowSubmitted"}
      <3>1. to.nextFlow = status.nextFlow /\ status.nextFlow # "None"
        BY <1>4, <1>5, <2>6 DEF Reached, Charting, Upkeep
      <3>2. \/ to.state = "Failed"
            \/ status.state = "PeerOrgFlowSubmitted" /\ to.state = "PeerOrgFlowCompleted"
            \/ status.state = "ChannelFlowSubmitted" /\ to.state = "ChannelFlowCompleted"
            \/ status.state = "ChaincodeFlowSubmitted" /\ to.state = "ChaincodeFlowCompleted"
        BY <1>3, <2>6 DEF Onward, Edges
      <3>3. /\ to.state = "PeerOrgFlowCompleted" => Admitted(status.observed.topology)
            /\ to.state = "ChannelFlowCompleted" => Connected(status.observed)
            /\ to.state = "ChaincodeFlowCompleted" => Equipped(status.observed)
        BY <1>0, <1>1, <1>2, <3>2, FlowDone, FlowTable DEF Flows
      <3> QED
        BY <1>2, <1>4, <2>1, <2>6, <3>1, <3>2, <3>3
           DEF Reached, NeedsAdmitted, NeedsConnected, NeedsEquipped, Skips, Charting, Upkeep
    <2>7. status.state # "Failed"
      BY <1>3 DEF Onward, Edges
    <2>8. status.state \in States
      BY DEF TypeOK, ResourceOK, Statuses
    <2> QED
      BY <1>8, <2>3, <2>4, <2>5, <2>6, <2>7, <2>8 DEF States, Underway, Upkeep
  <1>9. status.state # "Rejected"
    BY <1>3 DEF Onward, Edges
  <1> QED
    BY <1>6, <1>7, <1>8, <1>9 DEF Underway, Early

LEMMA FlowingSaves ==
    ASSUME TypeOK, Consistent, OneVersion, Careful, Level, InSync, Explained, OneEdit, Flowing,
           SaveStatus
    PROVE  Flowing'
  <1>0. pc' = "idle" /\ UNCHANGED <<fabric, workflows>> /\ Waiting
    BY SaveReturns DEF SaveStatus, cluster, Careful, Patience
  <1>1. CASE UNCHANGED resource
    BY <1>0, <1>1 DEF resource, Flowing, Reached, Task, Does, Runs, NothingEarly, Admitted,
          Connected, Equipped, Creates, SameOrgs
  <1>2. CASE ~UNCHANGED resource
    <2>1. /\ pc = "save" /\ fresh /\ net.spec = spec /\ net.status = status
          /\ spec' = spec /\ status' = pending.status
      BY <1>0, <1>2, SavedAlone
    <2>2. PICK to : to = pending.status
      OBVIOUS
    <2>3. Reached(to) /\ Task(to)
      BY <1>2, <2>1, <2>2, ReachedSaved DEF Flowing
    <2>4. Reached(to)' /\ Task(to)'
      BY <1>0, <2>3 DEF Reached, Task, Does, Admitted, Connected, Equipped
    <2>5. /\ <<status.state, to.state>> \in Onward
          /\ to.state # "Rejected" => to.observed = spec.desired
      BY <2>1, <2>2 DEF Level, Drafted
    <2>6. NothingEarly'
      <3>1. to.state \in Early => status.state \in Early
        BY <2>5 DEF Onward, Edges, Early
      <3> QED
        BY <1>0, <2>1, <2>2, <3>1 DEF Flowing, NothingEarly
    <2>7. Runs'
      <3> SUFFICES ASSUME NEW n \in Names, NEW w, w = workflows[n], w.phase = "Running"
                   PROVE  /\ w.flow \in Flows
                          /\ w.flow = "channel" /\ Creates(w.values) =>
                              \/ w.values = to.observed
                              \/ w.values = spec.desired /\ SameOrgs(spec.desired, to.observed)
        BY <1>0, <2>1, <2>2 DEF Runs, Creates, SameOrgs
      <3>1. /\ w.flow \in Flows
            /\ w.flow = "channel" /\ Creates(w.values) =>
                \/ w.values = status.observed
                \/ w.values = spec.desired /\ SameOrgs(spec.desired, status.observed)
        BY DEF Flowing, Runs
      <3>2. status.state \notin Early
        BY DEF Flowing, NothingEarly
      <3>3. to.observed = spec.desired
        BY <2>5, <3>2 DEF Onward, Edges, Early
      <3>4. CASE Underway(status)
        <4>1. spec.desired = status.observed
          BY <2>1, <3>4, SameGoal DEF Busy
        <4> QED
          BY <3>1, <3>3, <4>1
      <3>5. CASE status.state = "Ready"
        <4>1. ~Creates(status.observed)
          BY <3>5 DEF Flowing, Reached, NeedsConnected, Connected, Creates
        <4> QED
          BY <3>1, <3>3, <4>1
      <3>6. status.state # "Rejected"
        BY <2>5 DEF Onward, Edges
      <3> QED
        BY <3>2, <3>4, <3>5, <3>6 DEF Underway, Early
    <2> QED
      BY <1>0, <2>1, <2>2, <2>4, <2>6, <2>7 DEF Flowing
  <1> QED
    BY <1>1, <1>2

LEMMA FlowingKept ==
    ASSUME TypeOK, Consistent, OneVersion, Careful, Level, Behind, InSync, SetUpOnce, DirRight,
           Explained, OneEdit, Flowing, [Next]_vars
    PROVE  Flowing'
  <1>0. Waiting
    BY DEF Careful, Patience
  <1>1. CASE \E n \in Names : WorkflowEnds(n)
    BY <1>1, FlowingEnds
  <1>2. CASE Walks
    BY <1>2, FlowingWalks
  <1>3. CASE SaveStatus
    BY <1>3, FlowingSaves
  <1>4. CASE UserEdits
    <2>1. /\ Settled /\ UNCHANGED <<status, fabric, workflows>> /\ ~fresh'
      BY <1>0, <1>4 DEF UserEdits, UserWrites, Write, Waiting, cluster
    <2>2. spec.desired = status.observed
      BY <1>0, <2>1, StoredAsIs DEF Settled, TypeOK, ResourceOK
    <2>3. Runs'
      <3> SUFFICES ASSUME NEW n \in Names, NEW w, w = workflows[n], w.phase = "Running"
                   PROVE  /\ w.flow \in Flows
                          /\ w.flow = "channel" /\ Creates(w.values) => w.values = status.observed
        BY <2>1 DEF Runs, Creates
      <3> QED
        BY <2>2 DEF Flowing, Runs
    <2> QED
      BY <2>1, <2>3 DEF Flowing, Reached, Task, Does, NothingEarly, Admitted, Connected, Equipped
  <1>5. CASE \/ Deliver \/ TimerFires \/ Resync \/ Begin \/ Crash \/ PodsRestarting \/ PodsReady
             \/ ServicesListed \/ UNCHANGED vars
    <2>1. /\ UNCHANGED <<spec, status, fabric, workflows>>
          /\ pc' = "save" /\ fresh' => pc = "save" /\ fresh /\ UNCHANGED pending
      BY <1>5 DEF Deliver, TimerFires, Resync, Begin, Crash, PodsRestarting, PodsReady,
             ServicesListed, vars, resource, worker, cluster
    <2> QED
      BY <2>1 DEF Flowing, Reached, Task, Does, Runs, NothingEarly, Admitted, Connected, Equipped,
             Creates, SameOrgs
  <1>6. ~ClearForce /\ ~UserForces
    BY <1>0, Unforced DEF ClearForce, UserForces, Waiting
  <1> QED
    BY <1>1, <1>2, <1>3, <1>4, <1>5, <1>6 DEF Next, Worker, Environment, Walks

-----------------------------------------------------------------------------
\* Ready means done.

\* The inductive invariant of a careful user's network.
Convergent ==
    /\ Level /\ Behind /\ InSync /\ SetUpOnce /\ DirRight /\ Explained /\ OneEdit
    /\ ReleaseRight /\ Flowing

LEMMA ConvergentStart == Init => Convergent
  <1> SUFFICES ASSUME Init PROVE Convergent
    OBVIOUS
  <1>1. /\ pc = "idle" /\ ~Busy /\ watch = <<>> /\ DOMAIN watch = {}
        /\ \A x \in Seen : x = Current
        /\ status.state = "" /\ status.nextFlow = ""
    BY FirstVersion DEF Current
  <1>2. fabric.members = {} /\ \A n \in Names : workflows[n].phase # "Running"
    BY DEF Init, NothingYet, NoWorkflow
  <1>3. Flowing
    <2>1. Reached(status)
      BY <1>1 DEF Reached, NeedsAdmitted, NeedsConnected, NeedsEquipped, Skips, Charting, Upkeep
    <2>2. Task(status)
      BY <1>1, Untouched DEF Task
    <2> QED
      BY <1>1, <1>2, <2>1, <2>2 DEF Flowing, Runs, NothingEarly
  <1>4. SetUpOnce
    <2>1. delayed = FALSE
      BY DEF Init
    <2> QED
      BY <1>1, <2>1 DEF SetUpOnce, Early
  <1>5. Level /\ Behind /\ InSync
    BY LevelStart, FirstVersion DEF Behind, InSync, Current
  <1> QED
    BY <1>1, <1>3, <1>4, <1>5
       DEF Convergent, DirRight, Explained, OneEdit, ReleaseRight, Underway, Deployed, Early

LEMMA ConvergentKept ==
    ASSUME TypeOK, Consistent, OneVersion, Careful, Convergent, [Next]_vars PROVE Convergent'
  <1>0. Waiting /\ ~ResyncAnytime
    BY DEF Careful, Patience
  <1>1. Level' /\ Behind' /\ InSync'
    BY <1>0, LevelKept, BehindKept, InSyncKept DEF Convergent
  <1>2. SetUpOnce' /\ DirRight'
    BY <1>0, SetUpKept, DirRightKept DEF Convergent
  <1>3. Explained' /\ OneEdit'
    BY <1>0, ExplainedKept, OneEditKept DEF Convergent
  <1>4. ReleaseRight' /\ Flowing'
    BY ReleaseRightKept, FlowingKept DEF Convergent
  <1> QED
    BY <1>1, <1>2, <1>3, <1>4 DEF Convergent

LEMMA ConvergentAlways == ASSUME Careful PROVE Spec => []Convergent
  <1>1. TypeOK /\ Consistent /\ OneVersion /\ Convergent /\ [Next]_vars => Convergent'
    BY ConvergentKept
  <1> QED
    BY <1>1, ConvergentStart, TypeCorrect, ConsistentAlways, OneVersionAlways, PTL DEF Spec

\* When Reconcile has reported Ready and the spec is the one the status says is
\* applied, the network is the one asked for: the chart was last deployed with
\* the spec's topology (installHelmChart, updateHelmChart), and the workflows the
\* operator has waited for (handleFlowSubmitted) have joined every peer to every
\* channel and installed every chaincode on it.  This holds whatever crashes and
\* whichever calls fail on the way, and however the workflows the operator has
\* lost sight of run on, for a user who changes a settled network, one step of
\* the change at a time.
THEOREM ConvergedAlways == ASSUME Careful PROVE Spec => []Converged
  <1>1. TypeOK /\ Convergent => Converged
    <2> SUFFICES ASSUME TypeOK, Convergent, Settled
                 PROVE  LET d == spec.desired
                            peers == Peers(d.topology)
                        IN  /\ release.topology = d.topology /\ release.launched
                            /\ Elements(d.channels) \X peers \subseteq fabric.joined
                            /\ Effective(d, d.chaincode) \X peers \subseteq fabric.installed
      BY DEF Converged
    <2>1. status.state = "Ready" /\ status.observed = spec.desired
      BY StoredAsIs DEF Settled, Careful, Patience, TypeOK, ResourceOK
    <2>2. Serves(spec.desired)
      BY <2>1 DEF Convergent, ReleaseRight, Deployed, Early, Upkeep
    <2>3. Connected(spec.desired) /\ Equipped(spec.desired)
      BY <2>1 DEF Convergent, Flowing, Reached, NeedsConnected, NeedsEquipped
    <2> QED
      BY <2>2, <2>3 DEF Serves, Connected, Equipped
  <1> QED
    BY <1>1, ConvergentAlways, TypeCorrect, PTL DEF Converged

-----------------------------------------------------------------------------
\* The pods know each other's names.

Named(d) ==
    d.topology.useActualDomains /\ ~release.misled => Peers(d.topology) \subseteq release.aliases
Offering(d) ==
    d.topology.useActualDomains => Peers(d.topology) \subseteq Peers(release.topology)

\* Before the last upgrade the release has the services of all peers the pods are
\* to know; after it the pods know them, if the operator has seen the services.
AliasesRight ==
    /\ Deployed(status) => Named(status.observed)
    /\ status.state = "HelmChartNeedsUpdate" => Offering(status.observed)
    /\ pc = "save" =>
        /\ net.status.state \in Upkeep \union {"New"} /\ pending.status.state = "HelmChartInstalled"
                => Named(net.spec.desired)
        /\ net.status.state = "New" /\ pending.status.state = "HelmChartNeedsUpdate"
                => Offering(net.spec.desired)
    /\ pc = "secondUpdate" => Offering(net.spec.desired)

LEMMA UpgradesAlias ==
    ASSUME TypeOK, Consistent, Careful, Convergent, AliasesRight, Upgrades,
           pc' # "idle"
    PROVE  AliasesRight'
  <1>0. /\ Busy /\ UNCHANGED <<spec, status>> /\ net' = net /\ Underway(status)
        /\ net.spec.desired = status.observed
    <2>1. Walks
      BY DEF Upgrades, Walks, Handle
    <2>2. Underway(status) /\ Busy
      BY <2>1, UpgradesRight, WalkEnds DEF Convergent, Busy
    <2> QED
      BY <2>1, <2>2, SameGoal, WalkEnds DEF Convergent, resource
  <1>1. /\ release'.topology = net.spec.desired.topology
        /\ ~release'.misled => release.listed = Peers(release.topology)
        /\ net.spec.desired.topology.useActualDomains => release'.aliases = release.listed
    <2>1. release'.topology = net.spec.desired.topology
      BY UpgradesRight DEF Convergent
    <2>2. release' = Upgraded
      BY DEF Upgrades, HandleHelmChartNeedsUpdate, HandleHelmChartNeedsDoubleUpdate,
             SecondUpdate, Return
    <2>3. release \in Releases
      BY DEF TypeOK, ClusterOK
    <2>4. /\ ~Upgraded.misled => release.listed = Peers(release.topology)
          /\ net.spec.desired.topology.useActualDomains => Upgraded.aliases = release.listed
      BY <2>3 DEF Upgraded, Releases
    <2> QED
      BY <2>1, <2>2, <2>4
  <1>2. ASSUME Deployed(status) PROVE Offering(net.spec.desired)
    BY <1>0, <1>2 DEF Convergent, ReleaseRight, Serves, AliasesRight, Offering
  <1>3. Offering(net.spec.desired) => Named(net.spec.desired)'
    BY <1>0, <1>1 DEF Offering, Named
  <1>4. pc' = "save" => Named(net.spec.desired)'
    <2>1. CASE HandleHelmChartNeedsUpdate
      <3>1. net.status = status \/ <<net.status.state, status.state>> \in Onward
        BY <1>0, SeenNow DEF Convergent, Behind
      <3>2. net.status.state = "HelmChartNeedsUpdate"
        BY <2>1 DEF HandleHelmChartNeedsUpdate, Handling
      <3>3. Deployed(status) \/ status.state = "HelmChartNeedsUpdate"
        BY <3>1, <3>2 DEF Onward, Edges, Deployed, Early, Upkeep
      <3> QED
        BY <1>0, <1>2, <1>3, <3>3 DEF AliasesRight, Offering
    <2>2. CASE HandleHelmChartNeedsDoubleUpdate
      <3>1. pc' = "save" => ~net.spec.desired.topology.useActualDomains
        BY <2>2 DEF HandleHelmChartNeedsDoubleUpdate, Goto, Return, NeedsSecondUpdate
      <3> QED
        BY <1>0, <3>1 DEF Named
    <2>3. CASE SecondUpdate
      BY <1>3, <2>3 DEF SecondUpdate, AliasesRight
    <2> QED
      BY <2>1, <2>2, <2>3 DEF Upgrades
  <1>5. Offering(net.spec.desired)'
    BY <1>0, <1>1 DEF Offering
  <1>6. Deployed(status)' => Named(status.observed)'
    BY <1>0, <1>2, <1>3 DEF Deployed, Named
  <1>7. (status.state = "HelmChartNeedsUpdate")' => Offering(status.observed)'
    BY <1>0, <1>5 DEF Offering
  <1> QED
    BY <1>1, <1>4, <1>5, <1>6, <1>7 DEF AliasesRight

LEMMA AliasesWalk ==
    ASSUME TypeOK, Consistent, Careful, Convergent, AliasesRight, Walks
    PROVE  AliasesRight'
  <1>0. /\ Busy /\ UNCHANGED <<spec, status>> /\ (pc' = "idle" \/ net' = net)
        /\ Waiting
    BY WalkEnds DEF Busy, resource, Careful, Patience
  <1>1. CASE Teardown
    <2>1. net.status.state = "New" /\ status.state = "New"
      BY <1>0, <1>1, NewIsNow DEF Teardown, Handling, Convergent
    <2>2. pc' = "prepare"
      BY <1>1 DEF Teardown, Goto
    <2> QED
      BY <1>0, <2>1, <2>2 DEF AliasesRight, Deployed, Early
  <1>2. CASE Install
    <2>1. net.status.state = "New" /\ status.state = "New"
      BY <1>0, <1>2, NewIsNow DEF Install, Consistent, Intentions, Whereabouts, Convergent
    <2>2. Charted = net.spec.desired.topology
      BY <1>2, ChartedRight DEF Install, Convergent, DirRight
    <2>3. release'.topology = Charted
      BY <1>2, Installs
    <2>4. pc' \in {"idle", "save"}
      BY <1>2 DEF Install, Save, Return
    <2>5. ASSUME pc' = "save"
          PROVE  /\ net' = net
                 /\ pending'.status.state = "HelmChartInstalled" =>
                        ~net.spec.desired.topology.useActualDomains
      BY <1>0, <1>2, <2>5, InstallSaves DEF Keeps
    <2>6. pc' = "save" => Offering(net.spec.desired)'
      BY <2>2, <2>3, <2>5 DEF Offering
    <2>7. pc' = "save" /\ pending'.status.state = "HelmChartInstalled" => Named(net.spec.desired)'
      BY <2>5 DEF Named
    <2> QED
      BY <1>0, <2>1, <2>3, <2>4, <2>6, <2>7 DEF AliasesRight, Deployed, Early
  <1>3. CASE Upgrades /\ pc' # "idle"
    BY <1>3, UpgradesAlias
  <1>4. CASE Upgrades /\ pc' = "idle"
    <2>1. release' = release
      BY <1>4 DEF Upgrades, HandleHelmChartNeedsUpdate, HandleHelmChartNeedsDoubleUpdate,
            SecondUpdate, Save, Goto
    <2> QED
      BY <1>0, <1>4, <2>1 DEF AliasesRight, Deployed, Named, Offering
  <1>5. CASE ~Teardown /\ ~Install /\ ~Upgrades
    <2>1. [Next]_vars
      BY DEF Walks, Next, Worker
    <2>2. /\ release'.topology = release.topology /\ release'.aliases = release.aliases
          /\ release'.misled = release.misled
      BY <1>5, <2>1, ReleaseStays
    <2>3. pc' = "save" => net.status.state \notin Upkeep \union {"New"}
      BY <1>0, <1>5, WhoSavesWhen DEF Upkeep, Convergent
    <2>4. pc' # "secondUpdate"
      BY <1>5, WhoGoes DEF Goto, Upgrades
    <2> QED
      BY <1>0, <2>2, <2>3, <2>4 DEF AliasesRight, Deployed, Named, Offering
  <1> QED
    BY <1>1, <1>2, <1>3, <1>4, <1>5

\* A single upgrade is for a change that brings no new peers.
LEMMA SavedUpdate ==
    ASSUME TypeOK, Consistent, Careful, Announcing, Convergent, pc = "save", fresh,
           net.status.state = "Ready", pending.status.state = "HelmChartNeedsUpdate",
           net.spec.desired.topology.useActualDomains
    PROVE  Peers(net.spec.desired.topology) \subseteq Peers(net.status.observed.topology)
  <1>1. PICK c : c = Changes
    OBVIOUS
  <1>2. c.peerOrgs \in BOOLEAN /\ c.ordererOrgs \in BOOLEAN /\ c.peerCountIncrease \in BOOLEAN
    BY <1>1 DEF Changes, GetChanges, SomePeerCountAbove
  <1>3. \E p \in HelmPath(c) : p[1] = "HelmChartNeedsUpdate"
    BY <1>1 DEF Convergent, Explained
  <1>4. ~c.peerOrgs /\ ~c.ordererOrgs
    BY <1>2, <1>3 DEF HelmPath
  <1>5. <<net.status.observed, net.spec.desired>> \in Edits
    <2>1. net.spec = spec /\ net.status = status
      BY SavedEdit DEF Convergent
    <2>2. net.status.observed # net.spec.desired
      <3>1. c.topology \/ c.channel \/ c.chaincode
        BY <1>1 DEF Convergent, Explained, AreThereAnyChanges
      <3> QED
        BY <1>1, <3>1 DEF Changes, GetChanges
    <2> QED
      BY <2>1, <2>2 DEF Convergent, OneEdit
  <1>6. Announced(net.spec.desired, net.status.observed)
    <2>1. PICK e : e = <<net.status.observed, net.spec.desired>>
      OBVIOUS
    <2>2. e[1] = net.status.observed /\ e[2] = net.spec.desired /\ e \in Edits
      BY <1>5, <2>1
    <2> QED
      BY <2>2 DEF Announcing
  <1>7. ~c.peerCountIncrease
    BY <1>1, <1>4, <1>6 DEF Announced, Changes
  <1>8. net.spec.desired \in SpecsOrUnset /\ net.status.observed \in SpecsOrUnset
    BY DEF TypeOK, WorkerOK, Resources, Statuses
  <1>9. WellFormed(net.spec.desired) /\ WellFormed(net.status.observed)
    BY <1>8, SpecsWellFormed
  <1>10. /\ OrgNames(net.spec.desired.topology.peerOrgs)
                = OrgNames(net.status.observed.topology.peerOrgs)
         /\ ~SomePeerCountAbove(net.spec.desired.topology, net.status.observed.topology)
    BY <1>1, <1>4, <1>7 DEF Changes, GetChanges
  <1> QED
    BY <1>9, <1>10, PeersShrink DEF WellFormed

LEMMA AliasesKept ==
    ASSUME TypeOK, Consistent, OneVersion, Careful, Announcing, Convergent, AliasesRight,
           [Next]_vars
    PROVE  AliasesRight'
  <1>0. Waiting
    BY DEF Careful, Patience
  <1>1. CASE Walks
    BY <1>0, <1>1, AliasesWalk
  <1>2. ASSUME ~Walks
        PROVE  /\ release'.topology = release.topology /\ release'.aliases = release.aliases
               /\ release'.misled = release.misled
    BY <1>2, ReleaseStays DEF Walks, Upgrades, Handle
  <1>3. CASE ~Walks /\ status' = status /\ pc' # "secondUpdate"
             /\ (pc' = "save" => pc = "save" /\ UNCHANGED <<net, pending>>)
    BY <1>2, <1>3 DEF AliasesRight, Deployed, Named, Offering
  <1>4. CASE ~Walks /\ UNCHANGED <<status, pc, net, pending>>
    BY <1>2, <1>4 DEF AliasesRight, Deployed, Named, Offering
  <1>5. CASE Idles
    BY <1>1, <1>4, <1>5, IdleIs DEF resource, worker
  <1>6. CASE Deliver \/ Begin \/ Crash
    <2>1. status' = status /\ (pc' # "idle" /\ pc' # "handle" => UNCHANGED <<pc, net, pending>>)
      BY <1>6 DEF Deliver, Begin, Crash, resource, worker
    <2>2. CASE pc' \in {"idle", "handle"}
      BY <1>1, <1>3, <2>1, <2>2
    <2> QED
      BY <1>1, <1>4, <2>1, <2>2
  <1>7. CASE UserEdits
    BY <1>1, <1>4, <1>7 DEF UserEdits, UserWrites, Write
  <1>8. CASE SaveStatus
    <2>0. pc = "save" /\ pc' = "idle"
      BY <1>8, SaveReturns DEF Convergent
    <2>1. pc = "save" /\ pc' = "idle" /\ ~Walks
      BY <2>0, WalkEnds
    <2>2. CASE UNCHANGED resource
      BY <1>3, <2>1, <2>2 DEF resource
    <2>3. CASE ~UNCHANGED resource
      <3>1. /\ net.spec = spec /\ net.status = status /\ status' = pending.status /\ fresh
        BY <1>0, <1>8, <2>3, SavedAlone DEF Convergent
      <3>2. /\ <<status.state, status'.state>> \in Onward
            /\ status'.state # "Rejected" => status'.observed = net.spec.desired
        BY <2>1, <3>1 DEF Convergent, Level, Drafted
      <3>3. ASSUME Deployed(status') PROVE Named(status'.observed)
        <4>0. status'.observed = net.spec.desired
          BY <3>2, <3>3 DEF Deployed
        <4>1. CASE status.state \in Upkeep \union {"New"}
          <5>1. status'.state = "HelmChartInstalled"
            BY <3>2, <3>3, <4>1 DEF Onward, Edges, Deployed, Upkeep
          <5> QED
            BY <2>1, <3>1, <4>0, <4>1, <5>1 DEF AliasesRight
        <4>2. CASE status.state = "Ready"
          <5>1. ~Changes.topology
            BY <2>1, <3>1, <3>3, <4>2, SavedPath DEF Deployed, Convergent
          <5>2. net.spec.desired.topology = status.observed.topology
            BY <3>1, <5>1 DEF Changes, GetChanges
          <5> QED
            BY <4>0, <4>2, <5>2 DEF AliasesRight, Deployed, Named, Early, Upkeep
        <4>3. CASE Deployed(status) /\ status.state # "Ready"
          <5>1. net.spec.desired = status.observed
            BY <2>1, <4>3, SameGoal DEF Busy, Deployed, Underway, Early, Convergent
          <5> QED
            BY <4>0, <4>3, <5>1 DEF AliasesRight
        <4>4. status.state \notin {"", "Rejected", "Failed"}
          BY <3>2, <3>3 DEF Onward, Edges, Deployed, Early
        <4> QED
          BY <4>1, <4>2, <4>3, <4>4 DEF Deployed, Early
      <3>4. ASSUME status'.state = "HelmChartNeedsUpdate" PROVE Offering(status'.observed)
        <4>0. status'.observed = net.spec.desired
          BY <3>2, <3>4
        <4>1. CASE status.state = "New"
          BY <2>1, <3>1, <3>4, <4>0, <4>1 DEF AliasesRight
        <4>2. CASE status.state = "Ready"
          <5>1. Serves(status.observed)
            BY <4>2 DEF Convergent, ReleaseRight, Deployed, Early, Upkeep
          <5>2. net.spec.desired.topology.useActualDomains =>
                    Peers(net.spec.desired.topology) \subseteq Peers(status.observed.topology)
            BY <2>1, <3>1, <3>4, <4>2, SavedUpdate
          <5> QED
            BY <4>0, <5>1, <5>2 DEF AliasesRight, Serves, Offering
        <4> QED
          BY <3>2, <3>4, <4>1, <4>2 DEF Onward, Edges
      <3>5. Deployed(status)' => Named(status.observed)'
        BY <1>2, <2>1, <3>3 DEF Deployed, Named
      <3>6. (status.state = "HelmChartNeedsUpdate")' => Offering(status.observed)'
        BY <1>2, <2>1, <3>4 DEF Offering
      <3> QED
        BY <1>2, <2>1, <3>5, <3>6 DEF AliasesRight
    <2> QED
      BY <2>2, <2>3
  <1>9. ~ClearForce /\ ~UserForces
    BY <1>0, Unforced DEF ClearForce, UserForces, Waiting
  <1> QED
    BY <1>1, <1>5, <1>6, <1>7, <1>8, <1>9 DEF Next, Worker, Environment, Idles, Walks

\* A network with actual domains reported Ready with nothing left to apply has
\* told every pod the names of all peers (hostAliases of updateHelmChart), if the
\* cached list of services was up to date when the last upgrade read it: the
\* second upgrade after new organizations is made in time, also when the operator
\* is restarted between the two, or the first is repeated from a stale reading.
\* The user raises no peer count alone (Announcing).
THEOREM PeerAliasesAlways == ASSUME Careful, Announcing PROVE Spec => []PeerAliases
  <1>1. Init => AliasesRight
    <2> SUFFICES ASSUME Init PROVE AliasesRight
      OBVIOUS
    <2>1. pc = "idle" /\ status.state = ""
      BY FirstVersion DEF Init
    <2> QED
      BY <2>1 DEF AliasesRight, Deployed, Early
  <1>2. TypeOK /\ Consistent /\ OneVersion /\ Convergent /\ AliasesRight /\ [Next]_vars
        => AliasesRight'
    BY AliasesKept
  <1>3. TypeOK /\ Convergent /\ AliasesRight => PeerAliases
    <2> SUFFICES ASSUME TypeOK, AliasesRight, Settled, spec.desired.topology.useActualDomains,
                        ~release.misled
                 PROVE  Peers(spec.desired.topology) \subseteq release.aliases
      BY DEF PeerAliases
    <2>1. status.state = "Ready" /\ status.observed = spec.desired
      BY StoredAsIs DEF Settled, Careful, Patience, TypeOK, ResourceOK
    <2> QED
      BY <2>1 DEF AliasesRight, Deployed, Named, Early, Upkeep
  <1> QED
    BY <1>1, <1>2, <1>3, ConvergentAlways, TypeCorrect, ConsistentAlways, OneVersionAlways, PTL
       DEF Spec
=============================================================================
