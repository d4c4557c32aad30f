---------------------------- MODULE MCReconciler ----------------------------
(***************************************************************************)
(* Small instances of Reconciler for TLC: a network of two organizations   *)
(* that a user grows, upgrades and reconfigures.                           *)
(***************************************************************************)
EXTENDS ReconcilerProperties

Peer(name, count) == [name |-> name, peerCount |-> count]
Orderer(name, hosts) == [name |-> name, hosts |-> hosts]
Chaincode(name, version) == [name |-> name, version |-> version]

\* One organization with one peer, one channel, one chaincode.
Plain ==
    [topology   |-> [version |-> "1.4", useActualDomains |-> FALSE,
                     ordererOrgs |-> <<Orderer("oo", 1)>>, peerOrgs |-> <<Peer("pa", 1)>>],
     channels   |-> <<"common">>,
     chaincode  |-> "1.0",
     chaincodes |-> <<Chaincode("cc", "")>>]

MorePeers(d)    == [d EXCEPT !.topology.peerOrgs[1].peerCount = 2]
OtherVersion(d) == [d EXCEPT !.topology.version = "1.4.9"]
OtherOrg(d)     == [d EXCEPT !.topology.peerOrgs = Append(@, Peer("pb", 1))]
MoreOrderers(d) == [d EXCEPT !.topology.ordererOrgs[1].hosts = 2]
OtherOrderer(d) == [d EXCEPT !.topology.ordererOrgs = Append(@, Orderer("op", 1))]
Domains(d)      == [d EXCEPT !.topology.useActualDomains = TRUE]
OtherChannel(d) == [d EXCEPT !.channels = Append(@, "private")]
OtherChaincode(d) == [d EXCEPT !.chaincodes = <<Chaincode("cc", "2.0")>>]
MoreChaincodes(d) == [d EXCEPT !.chaincodes = Append(@, Chaincode("ccb", ""))]

\* Every edit changes one aspect of the network; the operator does not react to the
\* hosts of an orderer.
OneAspect == { <<Plain, MorePeers(Plain)>>, <<MorePeers(Plain), Plain>>,
               <<Plain, OtherVersion(Plain)>>, <<Plain, OtherOrderer(Plain)>>,
               <<Plain, MoreOrderers(Plain)>>,
               <<Plain, OtherChannel(Plain)>>, <<Plain, OtherChaincode(Plain)>>,
               <<Plain, MoreChaincodes(Plain)>> }

\* A network with actual domains, a new organization, and an upgrade after that.
TwoOrgs == Domains(OtherOrg(Plain))
Domained == { <<Domains(Plain), TwoOrgs>>, <<TwoOrgs, OtherVersion(TwoOrgs)>> }

Mentioned(e) == { p[1] : p \in e } \union { p[2] : p \in e }
Patient == OneAspect \union Domained
PatientSpecs == Mentioned(Patient)
PlainOrDomains == { Plain, Domains(Plain) }

JustPlain == { Plain }
NoOne == {}
Alone == {"alone"}
AnyAnswer == {"alone", "others"}
Decided == {"Succeeded", "Failed"}
AnyOutcome == {"Succeeded", "Failed", "Error"}

\* Edits made at any moment, also while an earlier one is being applied.
Anytime == { <<Plain, OtherChannel(Plain)>>, <<Plain, OtherVersion(Plain)>> }
AnytimeSpecs == Mentioned(Anytime)
ForcedReady == { "HelmChartReady" }

\* A channel comes and goes, while the user also forces states of the workflows.
OneChannel == { <<Plain, OtherChannel(Plain)>>, <<OtherChannel(Plain), Plain>> }
OneChannelSpecs == Mentioned(OneChannel)
LateStates == { "ChannelFlowCompleted", "ChaincodeFlowCompleted" }

-----------------------------------------------------------------------------
\* Scenarios in which the code departs from its documentation.
VersionAndChannel == { <<Plain, OtherVersion(OtherChannel(Plain))>> }
VersionAndChannelSpecs == Mentioned(VersionAndChannel)
Upgrade == { <<Plain, OtherVersion(Plain)>> }
UpgradeSpecs == Mentioned(Upgrade)
NoChaincodes(d) == [d EXCEPT !.chaincodes = <<>>]
Emptied == { <<Plain, NoChaincodes(Plain)>> }
EmptiedSpecs == Mentioned(Emptied) \union { Stored(NoChaincodes(Plain)) }
=============================================================================
