--------------------------- MODULE FabricNetwork ---------------------------
(***************************************************************************)
(* The FabricNetwork custom resource (api/v1alpha1) and the pure functions *)
(* the reconciler computes on it.                                          *)
(*                                                                         *)
(* A resource is [spec |-> [desired, force], status |-> [state, workflow,  *)
(* nextFlow, observed]].  `desired' groups the four parts of the spec the  *)
(* operator compares with the status (topology, channels, the global       *)
(* chaincode configuration and the chaincodes), `observed' the four status *)
(* fields of the same names, which the code always writes together.  The   *)
(* status message, which nothing reads, is left out.                       *)
(***************************************************************************)
EXTENDS Integers, Sequences

\* The nil slice.  A list of the spec is Nil when the user leaves it out.
CONSTANT Nil

\* The values of Status.State; "" is the state of a resource never reconciled.
States == { "", "New", "Ready", "Rejected", "Failed",
            "HelmChartInstalled", "HelmChartNeedsUpdate",
            "HelmChartNeedsDoubleUpdate", "HelmChartReady",
            "ChannelFlowSubmitted", "ChannelFlowCompleted",
            "ChaincodeFlowSubmitted", "ChaincodeFlowCompleted",
            "PeerOrgFlowSubmitted", "PeerOrgFlowCompleted" }

\* The values the CRD admits for Spec.ForceState.
ForceStates == { "New", "Ready", "HelmChartInstalled", "HelmChartNeedsUpdate",
                 "HelmChartNeedsDoubleUpdate", "HelmChartReady",
                 "ChannelFlowCompleted", "ChaincodeFlowCompleted",
                 "PeerOrgFlowCompleted" }

NextFlows == { "", "None", "PeerOrgFlow" }

\* The three Argo workflows, with the state entered when each is submitted
\* and the state entered when it has succeeded.
Flows == { "channel", "chaincode", "peerOrg" }
Submitted == [channel   |-> "ChannelFlowSubmitted",
              chaincode |-> "ChaincodeFlowSubmitted",
              peerOrg   |-> "PeerOrgFlowSubmitted"]
MisspeltCompleted == [channel   |-> "ChannelFlowComplete",
                      chaincode |-> "ChaincodeFlowComplete",
                      peerOrg   |-> "PeerOrgFlowComplete"]
Completed == [channel   |-> "ChannelFlowCompleted",
              chaincode |-> "ChaincodeFlowCompleted",
              peerOrg   |-> "PeerOrgFlowCompleted"]

\* The zero value of the compared fields, which a new resource's status holds.
Unset == [topology   |-> [version |-> "", useActualDomains |-> FALSE,
                          ordererOrgs |-> <<>>, peerOrgs |-> <<>>],
          channels   |-> Nil,
          chaincode  |-> "",
          chaincodes |-> Nil]

-----------------------------------------------------------------------------
Items(list) == IF list = Nil THEN <<>> ELSE list
Elements(list) == { Items(list)[i] : i \in DOMAIN Items(list) }

\* What a spec reads as once copied to the status and stored: the list fields
\* of the status are `omitempty', so an empty list comes back as nil.
Stored(d) ==
    LET kept(list) == IF list = <<>> THEN Nil ELSE list
    IN  [topology |-> d.topology, channels |-> kept(d.channels),
         chaincode |-> d.chaincode, chaincodes |-> kept(d.chaincodes)]

OrgNames(orgs) == { orgs[i].name : i \in DOMAIN orgs }

\* Topology.PeerOrgByName: the first organization of that name.
PeerOrgByName(t, name) ==
    LET first == CHOOSE i \in DOMAIN t.peerOrgs :
                    /\ t.peerOrgs[i].name = name
                    /\ \A j \in 1..(i - 1) : t.peerOrgs[j].name # name
    IN  t.peerOrgs[first]

\* The peers a topology calls for.
Peers(t) == UNION { {<<t.peerOrgs[i].name, k>> : k \in 1..t.peerOrgs[i].peerCount}
                    : i \in DOMAIN t.peerOrgs }

\* The chaincodes whose workflow run may be limited to the changed ones: the
\* code's loop gives up (all of them, the empty list) on the first name that
\* differs, and considers no subset when the global configuration or the
\* number of chaincodes changed.
ChangedChaincodes(new, old) ==
    LET a == Items(new.chaincodes)
        b == Items(old.chaincodes)
    IN  IF /\ new.chaincode = old.chaincode
           /\ Len(a) = Len(b)
           /\ \A i \in DOMAIN a : a[i].name = b[i].name
        THEN { a[i].name : i \in { j \in DOMAIN a : a[j] # b[j] } }
        ELSE {}

\* Some organization of both topologies has more peers in `t' than in `u'.
SomePeerCountAbove(t, u) ==
    \E i \in DOMAIN t.peerOrgs :
        /\ t.peerOrgs[i].name \in OrgNames(u.peerOrgs)
        /\ t.peerOrgs[i].peerCount > PeerOrgByName(u, t.peerOrgs[i].name).peerCount

SomePeerCountBelow(t, u) ==
    \E i \in DOMAIN t.peerOrgs :
        /\ t.peerOrgs[i].name \in OrgNames(u.peerOrgs)
        /\ t.peerOrgs[i].peerCount < PeerOrgByName(u, t.peerOrgs[i].name).peerCount

\* getChanges: what differs between the spec and what the status says is applied.
GetChanges(new, old) ==
    LET t == new.topology
        u == old.topology
    IN  [topology          |-> t # u,
         channel           |-> new.channels # old.channels,
         chaincode         |-> new.chaincode # old.chaincode \/ new.chaincodes # old.chaincodes,
         chaincodes        |-> ChangedChaincodes(new, old),
         version           |-> t.version # u.version,
         ordererOrgs       |-> OrgNames(t.ordererOrgs) # OrgNames(u.ordererOrgs),
         peerOrgs          |-> OrgNames(t.peerOrgs) # OrgNames(u.peerOrgs),
         peerCountIncrease |-> SomePeerCountAbove(t, u),
         peerCountDecrease |-> SomePeerCountBelow(t, u)]

AreThereAnyChanges(c) == c.topology \/ c.channel \/ c.chaincode
NeedsCertificateUpdate(c) == c.ordererOrgs \/ c.peerOrgs \/ c.peerCountIncrease
=============================================================================
