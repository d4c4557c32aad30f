-------------------------- MODULE CertificatesProofs --------------------------
(***************************************************************************)
(* Type correctness of Certificates and the integrity of a provider's      *)
(* certificates, for every set of organizations and all bounds.            *)
(***************************************************************************)
EXTENDS CertificatesProperties, SequenceTheorems, TLAPS

-----------------------------------------------------------------------------
\* Lemmas about the operators the actions are made of.

LEMMA BoundsAreNaturals ==
    /\ MaxGenerations \in Nat /\ MaxEdits \in Nat /\ MaxSupplies \in Nat
    /\ MaxCrashes \in Nat /\ MaxFaults \in Nat
  BY CertificatesAssumption

LEMMA NothingType ==
    NoCertificates \in Certificates /\ NoDir \in Dirs /\ Bare \in Dirs /\ NoRelease \in Releases
  BY DEF NoCertificates, Certificates, Files, NoDir, Bare, Dirs, NoRelease, Releases

LEMMA BlankType == Blank \in Networks /\ NoDraft \in Drafts
  BY DEF Blank, Networks, States, NoDraft, Drafts

LEMMA OnlyType ==
    ASSUME NEW members, NEW certs \in Certificates PROVE Only(members, certs) \in Certificates
  BY DEF Only, Certificates, Files

LEMMA GeneratedType ==
    ASSUME NEW g \in Generations, NEW certs \in Certificates
    PROVE  Generated(g) \in Certificates /\ Extended(certs, g) \in Certificates
  BY DEF Generated, Extended, Certificates, Files

LEMMA UnpackedType ==
    ASSUME NEW certs \in Certificates, NEW archive \in Certificates, NEW longer
    PROVE  Unpacked(certs, archive, longer) \in Certificates
  BY DEF Unpacked, Certificates, Files

LEMMA PartlyType ==
    ASSUME NEW certs \in Certificates, NEW archive \in Certificates,
           NEW some \in PartlyUnpacked(certs, archive)
    PROVE  some \in Certificates
  BY OnlyType, UnpackedType DEF PartlyUnpacked

LEMMA BuiltType ==
    ASSUME WorkerOK, NEW certs \in Certificates, NEW genesis \in Certificates
    PROVE  Built(certs, genesis) \in Dirs
  BY DEF WorkerOK, Networks, Built, Dirs

LEMMA RebuiltType ==
    ASSUME WorkerOK, PlacesOK, NEW certs \in Certificates PROVE Rebuilt(certs) \in Dirs
  BY DEF WorkerOK, PlacesOK, Networks, Rebuilt, Dirs

LEMMA DeployedType == ASSUME PlacesOK PROVE Deployed \in Releases
  BY OnlyType DEF PlacesOK, Deployed, Releases, Dirs

LEMMA WrittenType ==
    ASSUME NetworksOK, NEW network \in Networks, Written(network) PROVE NetworksOK'
  <1>1. watch' \in Seq(Networks)
    BY AppendProperties DEF NetworksOK, Written
  <1> QED
    BY <1>1 DEF NetworksOK, Written

LEMMA StoredType ==
    ASSUME PlacesOK, NEW certs \in Certificates, Stored(certs),
           dir' \in Dirs, release' \in Releases
    PROVE  PlacesOK'
  <1>1. secretWatch' \in Seq(Certificates)
    BY AppendProperties DEF PlacesOK, Stored
  <1> QED
    BY <1>1 DEF PlacesOK, Stored

LEMMA PlacesType ==
    ASSUME PlacesOK, UNCHANGED secrets, dir' \in Dirs, release' \in Releases
    PROVE  PlacesOK'
  BY DEF PlacesOK, secrets

LEMMA ReturnType ==
    ASSUME WorkerOK, NEW retry \in BOOLEAN, Return(retry), UNCHANGED queued PROVE WorkerOK'
  BY BlankType DEF WorkerOK, Return

LEMMA GotoType ==
    ASSUME WorkerOK, NEW step \in {"handle", "prepare", "install", "next"}, Goto(step),
           UNCHANGED queued
    PROVE  WorkerOK'
  BY DEF WorkerOK, Goto

LEMMA SaveType ==
    ASSUME WorkerOK, NEW state \in States, NEW observed \in SUBSET Members,
           NEW checked \in BOOLEAN, NEW then \in {"idle", "next"},
           Save(state, observed, checked, then), UNCHANGED queued
    PROVE  WorkerOK'
  BY DEF WorkerOK, Save, Drafts

LEMMA FaultType == ASSUME FailuresOK, Fault, UNCHANGED crashes PROVE FailuresOK'
  BY BoundsAreNaturals DEF FailuresOK, Fault

\* A step that is no fault, or a fault.
LEMMA FailuresType ==
    ASSUME FailuresOK, UNCHANGED faults \/ Fault, UNCHANGED crashes PROVE FailuresOK'
  BY FaultType DEF FailuresOK

LEMMA CopyType ==
    ASSUME WorkerOK PROVE copy.wanted \in SUBSET Members /\ copy.observed \in SUBSET Members
  BY DEF WorkerOK, Networks

-----------------------------------------------------------------------------
\* The steps that build or extend the chart directory keep the types of the
\* places of certificates, of the worker and of the budgets.
DirectoryKeeps == PlacesOK' /\ WorkerOK' /\ FailuresOK'

LEMMA ReconstructType ==
    ASSUME CertificatesOK, Reconstruct PROVE DirectoryKeeps
  <1> USE DEF CertificatesOK, Reconstruct
  <1>1. NoCertificates \in Certificates /\ Bare \in Dirs
    BY NothingType
  <1>2. release.genesis \in Certificates /\ secretCache \in Certificates
    BY DEF PlacesOK, Releases
  <1>3. \A certs \in Certificates : Built(certs, NoCertificates) \in Dirs
    BY <1>1, BuiltType
  <1>4. Built(secretCache, release.genesis) \in Dirs
    BY <1>2, BuiltType
  <1>5. dir' \in Dirs
    BY <1>1, <1>2, <1>3, <1>4, PartlyType DEF Downloaded
  <1>6. WorkerOK'
    BY GotoType, ReturnType
  <1>7. FailuresOK'
    BY FailuresType
  <1> QED
    BY <1>5, <1>6, <1>7, PlacesType DEF DirectoryKeeps, PlacesOK

LEMMA PrepareOwnType ==
    ASSUME CertificatesOK, PrepareOwn, UNCHANGED <<queued, release, crashes>>
    PROVE  DirectoryKeeps
  <1> USE DEF CertificatesOK
  <1> PICK g \in Generations :
        \/ /\ Stored(Generated(g))
           /\ dir' = Built(Generated(g), Generated(g))
           /\ Goto("install")
           /\ UNCHANGED faults
        \/ /\ dir' = Built(Generated(g), NoCertificates)
           /\ Return(TRUE)
           /\ UNCHANGED secrets /\ UNCHANGED faults
        \/ /\ Fault
           /\ dir' = Built(Generated(g), NoCertificates)
           /\ Stored(Generated(g)) \/ UNCHANGED secrets
           /\ Return(TRUE)
    BY DEF PrepareOwn
  <1>1. Generated(g) \in Certificates /\ NoCertificates \in Certificates
    BY GeneratedType, NothingType
  <1>2. dir' \in Dirs /\ release' \in Releases
    BY <1>1, BuiltType DEF PlacesOK
  <1>3. PlacesOK'
    BY <1>1, <1>2, StoredType, PlacesType
  <1>4. WorkerOK'
    BY GotoType, ReturnType
  <1>5. FailuresOK'
    BY FailuresType
  <1> QED
    BY <1>3, <1>4, <1>5 DEF DirectoryKeeps

LEMMA PrepareType ==
    ASSUME CertificatesOK, Prepare PROVE DirectoryKeeps
  <1> USE DEF CertificatesOK, Prepare
  <1>1. NoCertificates \in Certificates /\ Bare \in Dirs /\ NoDir \in Dirs
    BY NothingType
  <1>2. secretCache \in Certificates /\ release' \in Releases
    BY DEF PlacesOK
  <1>3. CASE PrepareOwn
    BY <1>3, PrepareOwnType
  <1>4. CASE PrepareProvided
    <2>1. Only(copy.wanted, secretCache) \in Certificates
      BY <1>2, OnlyType
    <2>2. \A certs \in Certificates : Built(certs, NoCertificates) \in Dirs
      BY <1>1, BuiltType
    <2>3. Built(secretCache, Only(copy.wanted, secretCache)) \in Dirs
      BY <1>2, <2>1, BuiltType
    <2>4. dir' \in Dirs
      BY <1>1, <1>2, <1>4, <2>2, <2>3, PartlyType DEF PrepareProvided
    <2>5. WorkerOK'
      BY <1>4, GotoType, ReturnType DEF PrepareProvided
    <2>6. FailuresOK'
      BY <1>4, FailuresType DEF PrepareProvided
    <2> QED
      BY <1>2, <1>4, <2>4, <2>5, <2>6, PlacesType DEF PrepareProvided, DirectoryKeeps
  <1>5. CASE Fault /\ dir' \in {NoDir, Bare} /\ Return(TRUE) /\ UNCHANGED secrets
    BY <1>1, <1>2, <1>5, PlacesType, ReturnType, FailuresType DEF DirectoryKeeps
  <1> QED
    BY <1>3, <1>4, <1>5

LEMMA ExtendOwnType ==
    ASSUME CertificatesOK, ExtendOwn, UNCHANGED <<queued, release, crashes>>
    PROVE  DirectoryKeeps
  <1> USE DEF CertificatesOK
  <1> PICK g \in Generations :
        /\ dir' = Rebuilt(Extended(dir.certs, g))
        /\ \/ /\ Stored(Extended(dir.certs, g))
              /\ Save("NeedsUpdate", copy.wanted, TRUE, "idle")
              /\ UNCHANGED faults
           \/ Return(TRUE) /\ UNCHANGED secrets /\ UNCHANGED faults
           \/ /\ Fault /\ Return(TRUE)
              /\ Stored(Extended(dir.certs, g)) \/ UNCHANGED secrets
    BY DEF ExtendOwn
  <1>1. dir.certs \in Certificates /\ release' \in Releases
    BY DEF PlacesOK, Dirs
  <1>2. Extended(dir.certs, g) \in Certificates
    BY <1>1, GeneratedType
  <1>3. dir' \in Dirs
    BY <1>2, RebuiltType
  <1>4. PlacesOK'
    BY <1>1, <1>2, <1>3, StoredType, PlacesType
  <1>5. WorkerOK'
    BY CopyType, SaveType, ReturnType DEF States
  <1>6. FailuresOK'
    BY FailuresType
  <1> QED
    BY <1>4, <1>5, <1>6 DEF DirectoryKeeps

LEMMA HandleReadyType ==
    ASSUME CertificatesOK, HandleReady PROVE DirectoryKeeps
  <1> USE DEF CertificatesOK, HandleReady
  <1>1. dir \in Dirs /\ dir.certs \in Certificates /\ release' \in Releases
    BY DEF PlacesOK, Dirs
  <1>2. CASE Return(FALSE) /\ UNCHANGED <<secrets, dir, faults>>
    BY <1>1, <1>2, PlacesType, ReturnType, FailuresType DEF DirectoryKeeps
  <1>3. CASE ExtendOwn
    BY <1>3, ExtendOwnType
  <1>4. CASE DownloadProvided
    <2>1. secretCache \in Certificates
      BY DEF PlacesOK
    <2>2. \A longer : Rebuilt(Unpacked(dir.certs, secretCache, longer)) \in Dirs
      BY <1>1, <2>1, UnpackedType, RebuiltType
    <2>3. dir' \in Dirs
      BY <1>1, <1>4, <2>1, <2>2, PartlyType, RebuiltType DEF DownloadProvided
    <2>4. WorkerOK'
      BY <1>4, CopyType, SaveType, ReturnType DEF DownloadProvided, States
    <2>5. FailuresOK'
      BY <1>4, FailuresType DEF DownloadProvided
    <2> QED
      BY <1>1, <1>4, <2>3, <2>4, <2>5, PlacesType DEF DownloadProvided, DirectoryKeeps
  <1>5. CASE Fault /\ Return(TRUE) /\ dir' = Rebuilt(dir.certs) /\ UNCHANGED secrets
    BY <1>1, <1>5, RebuiltType, PlacesType, ReturnType, FailuresType DEF DirectoryKeeps
  <1> QED
    BY <1>2, <1>3, <1>4, <1>5
-----------------------------------------------------------------------------
LEMMA InitType == Init => CertificatesOK
  <1> SUFFICES ASSUME Init PROVE CertificatesOK
    OBVIOUS
  <1> USE DEF Init
  <1>1. 1 \in Generations /\ NoCertificates \in Certificates
    BY CertificatesAssumption, NothingType DEF Generations
  <1>2. secret \in Certificates
    BY <1>1 DEF Certificates, Files
  <1>3. PlacesOK
    BY <1>2, NothingType DEF PlacesOK
  <1>4. net \in Networks
    BY CertificatesAssumption DEF Networks, States
  <1>5. NetworksOK
    BY <1>4 DEF NetworksOK
  <1>6. WorkerOK
    BY BlankType DEF WorkerOK
  <1>7. UserOK /\ FailuresOK
    BY BoundsAreNaturals DEF UserOK, FailuresOK
  <1> QED
    BY <1>3, <1>5, <1>6, <1>7 DEF CertificatesOK

\* Every step keeps the types.
LEMMA StepType == CertificatesOK /\ [Next]_vars => CertificatesOK'
  <1> SUFFICES ASSUME CertificatesOK, [Next]_vars PROVE CertificatesOK'
    OBVIOUS
  <1> USE DEF CertificatesOK
  <1>1. ASSUME UNCHANGED vars PROVE CertificatesOK'
    BY <1>1 DEF vars, user, resource, secrets, worker, PlacesOK, NetworksOK, WorkerOK, UserOK,
                FailuresOK
  <1>2. ASSUME UNCHANGED user PROVE UserOK'
    BY <1>2 DEF user, UserOK
  <1>3. ASSUME UNCHANGED resource PROVE NetworksOK'
    BY <1>3 DEF resource, NetworksOK
  <1>4. ASSUME UNCHANGED <<secrets, dir, release>> PROVE PlacesOK'
    BY <1>4, PlacesType DEF PlacesOK
  <1>5. ASSUME UNCHANGED <<crashes, faults>> PROVE FailuresOK'
    BY <1>5 DEF FailuresOK
  <1>6. ASSUME Begin PROVE CertificatesOK'
    <2>1. WorkerOK'
      BY <1>6 DEF Begin, WorkerOK, NetworksOK
    <2> QED
      BY <1>2, <1>3, <1>4, <1>5, <1>6, <2>1 DEF Begin
  <1>7. ASSUME Reconstruct PROVE CertificatesOK'
    BY <1>2, <1>3, <1>7, ReconstructType DEF Reconstruct, DirectoryKeeps
  <1>8. ASSUME Teardown PROVE CertificatesOK'
    <2>1. PlacesOK'
      BY <1>8, NothingType, PlacesType DEF Teardown, PlacesOK
    <2> QED
      BY <1>2, <1>3, <1>5, <1>8, <2>1, GotoType DEF Teardown
  <1>9. ASSUME Prepare PROVE CertificatesOK'
    BY <1>2, <1>3, <1>9, PrepareType DEF Prepare, DirectoryKeeps
  <1>10. ASSUME Install PROVE CertificatesOK'
    <2>1. PlacesOK'
      BY <1>10, DeployedType, PlacesType DEF Install, PlacesOK
    <2>2. WorkerOK'
      BY <1>10, CopyType, SaveType, ReturnType DEF Install, States
    <2>3. FailuresOK'
      BY <1>10, FailuresType DEF Install
    <2> QED
      BY <1>2, <1>3, <1>10, <2>1, <2>2, <2>3 DEF Install
  <1>11. ASSUME HandleNeedsUpdate PROVE CertificatesOK'
    <2>1. PlacesOK'
      BY <1>11, DeployedType, PlacesType DEF HandleNeedsUpdate, PlacesOK
    <2>2. WorkerOK'
      BY <1>11, CopyType, SaveType, ReturnType DEF HandleNeedsUpdate, States
    <2>3. FailuresOK'
      BY <1>11, FailuresType DEF HandleNeedsUpdate
    <2> QED
      BY <1>2, <1>3, <1>11, <2>1, <2>2, <2>3 DEF HandleNeedsUpdate
  <1>12. ASSUME HandleInstalled PROVE CertificatesOK'
    <2>1. WorkerOK'
      BY <1>12, CopyType, SaveType, GotoType DEF HandleInstalled, States
    <2> QED
      BY <1>2, <1>3, <1>4, <1>5, <1>12, <2>1 DEF HandleInstalled
  <1>13. ASSUME NextFlow PROVE CertificatesOK'
    <2>1. WorkerOK'
      BY <1>13, CopyType, SaveType DEF NextFlow, States
    <2> QED
      BY <1>2, <1>3, <1>4, <1>5, <1>13, <2>1 DEF NextFlow
  <1>14. ASSUME HandleReady PROVE CertificatesOK'
    BY <1>2, <1>3, <1>14, HandleReadyType DEF HandleReady, DirectoryKeeps
  <1>15. ASSUME SaveStatus PROVE CertificatesOK'
    <2> DEFINE saved == [net EXCEPT !.state = draft.state, !.observed = draft.observed]
    <2>1. saved \in Networks
      BY DEF NetworksOK, WorkerOK, Networks, Drafts
    <2>2. NetworksOK'
      BY <1>3, <1>15, <2>1, WrittenType DEF SaveStatus
    <2>3. ASSUME pc' = "next" /\ copy' = saved /\ draft' = NoDraft, UNCHANGED <<fresh, delayed>>,
                 UNCHANGED queued
          PROVE  WorkerOK'
      BY <2>1, <2>3, BlankType DEF WorkerOK
    <2>4. draft.checked \in BOOLEAN
      BY DEF WorkerOK, Drafts
    <2>5. WorkerOK'
      BY <1>15, <2>3, <2>4, ReturnType DEF SaveStatus
    <2>6. FailuresOK'
      BY <1>15, FailuresType DEF SaveStatus
    <2> QED
      BY <1>2, <1>4, <1>15, <2>2, <2>5, <2>6 DEF SaveStatus
  <1>16. ASSUME CallFails PROVE CertificatesOK'
    BY <1>2, <1>3, <1>4, <1>16, ReturnType, FailuresType DEF CallFails
  <1>17. ASSUME Deliver PROVE CertificatesOK'
    <2>1. NetworksOK'
      BY <1>17, HeadTailProperties DEF Deliver, NetworksOK
    <2>2. WorkerOK'
      BY <1>17 DEF Deliver, WorkerOK, worker
    <2> QED
      BY <1>2, <1>4, <1>5, <1>17, <2>1, <2>2 DEF Deliver
  <1>18. ASSUME DeliverSecret PROVE CertificatesOK'
    <2>1. PlacesOK'
      BY <1>18, HeadTailProperties DEF DeliverSecret, PlacesOK
    <2>2. WorkerOK'
      BY <1>18 DEF DeliverSecret, WorkerOK, worker
    <2> QED
      BY <1>2, <1>3, <1>5, <1>18, <2>1, <2>2 DEF DeliverSecret
  <1>19. ASSUME TimerFires PROVE CertificatesOK'
    <2>1. WorkerOK'
      BY <1>19 DEF TimerFires, WorkerOK, worker
    <2> QED
      BY <1>2, <1>3, <1>4, <1>5, <1>19, <2>1 DEF TimerFires
  <1>20. ASSUME Crash PROVE CertificatesOK'
    <2>1. PlacesOK'
      BY <1>20, NothingType DEF Crash, PlacesOK
    <2>2. NetworksOK'
      BY <1>20 DEF Crash, NetworksOK
    <2>3. WorkerOK'
      BY <1>20, BlankType DEF Crash, WorkerOK
    <2>4. FailuresOK'
      BY <1>20, BoundsAreNaturals DEF Crash, FailuresOK
    <2> QED
      BY <1>2, <1>20, <2>1, <2>2, <2>3, <2>4 DEF Crash
  <1>21. ASSUME Edit PROVE CertificatesOK'
    <2>1. NetworksOK'
      <3>1. PICK members \in SUBSET Members : Written([net EXCEPT !.wanted = members])
        BY <1>21 DEF Edit
      <3>2. [net EXCEPT !.wanted = members] \in Networks
        BY DEF NetworksOK, Networks
      <3> QED
        BY <3>1, <3>2, WrittenType
    <2>2. UserOK'
      BY <1>21, BoundsAreNaturals DEF Edit, UserOK, Settled
    <2>3. WorkerOK'
      BY <1>21 DEF Edit, WorkerOK
    <2> QED
      BY <1>4, <1>5, <1>21, <2>1, <2>2, <2>3 DEF Edit
  <1>22. ASSUME NEW m \in Members, Supply(m) PROVE CertificatesOK'
    <2>1. PlacesOK'
      <3>1. PICK g \in Generations : Stored([secret EXCEPT ![m] = {g}])
        BY <1>22 DEF Supply
      <3>2. [secret EXCEPT ![m] = {g}] \in Certificates
        BY DEF PlacesOK, Certificates, Files
      <3> QED
        BY <1>22, <3>1, <3>2, StoredType DEF Supply, PlacesOK
    <2>2. UserOK'
      BY <1>22, BoundsAreNaturals DEF Supply, UserOK
    <2>3. WorkerOK'
      BY <1>22 DEF Supply, WorkerOK, worker
    <2> QED
      BY <1>3, <1>5, <1>22, <2>1, <2>2, <2>3 DEF Supply
  <1> QED
    BY <1>1, <1>6, <1>7, <1>8, <1>9, <1>10, <1>11, <1>12, <1>13, <1>14, <1>15, <1>16, <1>17,
       <1>18, <1>19, <1>20, <1>21, <1>22 DEF Next, Worker

\* The places of certificates, the network's versions, the worker and the budgets have
\* their types in every reachable state.
THEOREM TypeCorrect == Spec => []CertificatesOK
  <1> QED
    BY InitType, StepType, PTL DEF Spec
-----------------------------------------------------------------------------
\* Integrity of a provider's certificates.  The places are handled one by one:
\* what is copied from one place to another stays the provider's.
OwnSecrets == FromProvider(secretCache) /\ \A i \in DOMAIN secretWatch : FromProvider(secretWatch[i])
OwnDir == FromProvider(dir.certs) /\ FromProvider(dir.genesis)
OwnRelease == FromProvider(release.certs) /\ FromProvider(release.genesis)

LEMMA OwnPlaces == ProvidersOwn <=> (provided /\ careful => OwnSecrets /\ OwnDir /\ OwnRelease)
  BY DEF ProvidersOwn, OwnSecrets, OwnDir, OwnRelease

LEMMA NothingOwn ==
    /\ FromProvider(NoCertificates)
    /\ FromProvider(NoDir.certs) /\ FromProvider(NoDir.genesis)
    /\ FromProvider(Bare.certs) /\ FromProvider(Bare.genesis)
    /\ FromProvider(NoRelease.certs) /\ FromProvider(NoRelease.genesis)
  BY DEF FromProvider, Having, NoCertificates, NoDir, Bare, NoRelease

LEMMA OnlyOwn ==
    ASSUME NEW members, NEW certs \in Certificates, FromProvider(certs)
    PROVE  FromProvider(Only(members, certs))
  BY DEF FromProvider, Having, Only

LEMMA UnpackedOwn ==
    ASSUME NEW certs \in Certificates, NEW archive \in Certificates, NEW longer,
           FromProvider(certs), FromProvider(archive)
    PROVE  FromProvider(Unpacked(certs, archive, longer))
  <1> SUFFICES ASSUME NEW m \in Members, Unpacked(certs, archive, longer)[m] # {}
               PROVE  Unpacked(certs, archive, longer)[m] = secret[m]
    BY DEF FromProvider, Having
  <1>1. certs[m] = {} \/ certs[m] = secret[m]
    BY DEF FromProvider, Having
  <1>2. archive[m] = {} \/ archive[m] = secret[m]
    BY DEF FromProvider, Having
  <1>3. Unpacked(certs, archive, longer)[m] =
            CASE archive[m] = {} -> certs[m]
              [] archive[m] # {} /\ m \in longer -> certs[m] \union archive[m]
              [] OTHER -> archive[m]
    BY DEF Unpacked
  <1>4. Unpacked(certs, archive, longer)[m] \in {certs[m], archive[m], certs[m] \union archive[m]}
    BY <1>3
  <1> QED
    BY <1>1, <1>2, <1>4

LEMMA PartlyOwn ==
    ASSUME NEW certs \in Certificates, NEW archive \in Certificates,
           FromProvider(certs), FromProvider(archive),
           NEW some \in PartlyUnpacked(certs, archive)
    PROVE  FromProvider(some)
  <1> PICK done \in SUBSET Members, longer \in SUBSET Having(certs) :
        some = Unpacked(certs, Only(done, archive), longer)
    BY DEF PartlyUnpacked
  <1> QED
    BY OnlyType, OnlyOwn, UnpackedOwn

LEMMA BuiltOwn ==
    ASSUME NEW certs, NEW genesis, FromProvider(certs), FromProvider(genesis),
           dir' = Built(certs, genesis), secret' = secret
    PROVE  OwnDir'
  BY DEF Built, OwnDir, FromProvider, Having

LEMMA RebuiltOwn ==
    ASSUME PlacesOK, NEW certs, FromProvider(certs), FromProvider(dir.genesis),
           dir' = Rebuilt(certs), secret' = secret
    PROVE  OwnDir'
  <1>1. dir'.certs = certs /\ dir'.genesis = dir.genesis
    BY DEF Rebuilt, PlacesOK, Dirs
  <1> QED
    BY <1>1 DEF OwnDir, FromProvider, Having

LEMMA DeployedOwn ==
    ASSUME PlacesOK, OwnDir, release' = Deployed, secret' = secret PROVE OwnRelease'
  <1>1. FromProvider(Only(dir.members, dir.certs)) /\ FromProvider(dir.genesis)
    BY OnlyOwn DEF OwnDir, PlacesOK, Dirs
  <1> QED
    BY <1>1 DEF Deployed, OwnRelease, FromProvider, Having

\* Only the provider writes the secret, and only where there was nothing.
LEMMA SupplyOwn ==
    ASSUME CertificatesOK, NEW m \in Members, Supply(m), careful',
           OwnSecrets, OwnDir, OwnRelease
    PROVE  OwnSecrets' /\ OwnDir' /\ OwnRelease'
  <1> USE DEF CertificatesOK
  <1>1. PICK g \in Generations : Stored([secret EXCEPT ![m] = {g}])
    BY DEF Supply
  <1>2. secret[m] = {} /\ secret' = [secret EXCEPT ![m] = {g}]
    BY <1>1 DEF Supply, Stored
  <1>3. \A n \in Members : secret[n] # {} => secret'[n] = secret[n]
    BY <1>2 DEF PlacesOK, Certificates
  <1>4. ASSUME NEW certs, FromProvider(certs)
        PROVE  \A n \in Members : certs[n] # {} => certs[n] = secret'[n]
    BY <1>3, <1>4 DEF FromProvider, Having
  <1>5. OwnSecrets'
    <2>1. secretCache' = secretCache
      BY <1>1 DEF Stored
    <2>2. ASSUME NEW i \in DOMAIN secretWatch'
          PROVE  \A n \in Members : secretWatch'[i][n] # {} => secretWatch'[i][n] = secret'[n]
      <3>1. CASE i \in DOMAIN secretWatch /\ secretWatch'[i] = secretWatch[i]
        BY <1>4, <3>1 DEF OwnSecrets
      <3>2. CASE secretWatch'[i] = secret'
        BY <3>2
      <3>3. secretWatch' \in {secretWatch, Append(secretWatch, secret')}
        BY <1>1 DEF Stored
      <3>4. secretWatch \in Seq(Certificates)
        BY DEF PlacesOK
      <3> QED
        BY <2>2, <3>1, <3>2, <3>3, <3>4, AppendProperties
    <2> QED
      BY <1>4, <2>1, <2>2 DEF OwnSecrets, FromProvider, Having
  <1>6. dir' = dir /\ release' = release
    BY DEF Supply
  <1> QED
    BY <1>4, <1>5, <1>6 DEF OwnDir, OwnRelease, FromProvider, Having
\* Every step keeps a careful provider's certificates as they are.
LEMMA OwnStep == CertificatesOK /\ ProvidersOwn /\ [Next]_vars => ProvidersOwn'
  <1> SUFFICES ASSUME CertificatesOK, ProvidersOwn, [Next]_vars, provided', careful'
               PROVE  OwnSecrets' /\ OwnDir' /\ OwnRelease'
    BY OwnPlaces DEF ProvidersOwn, OwnSecrets, OwnDir, OwnRelease
  <1> USE DEF CertificatesOK
  <1>1. ASSUME UNCHANGED <<provided, careful>> PROVE OwnSecrets /\ OwnDir /\ OwnRelease
    BY <1>1, OwnPlaces
  <1>2. ASSUME UNCHANGED secrets, OwnSecrets PROVE OwnSecrets'
    BY <1>2 DEF secrets, OwnSecrets, FromProvider, Having
  <1>3. ASSUME UNCHANGED dir, secret' = secret, OwnDir PROVE OwnDir'
    BY <1>3 DEF OwnDir, FromProvider, Having
  <1>4. ASSUME UNCHANGED release, secret' = secret, OwnRelease PROVE OwnRelease'
    BY <1>4 DEF OwnRelease, FromProvider, Having
  <1>5. ASSUME UNCHANGED <<provided, careful, secrets, dir, release>>
        PROVE  OwnSecrets' /\ OwnDir' /\ OwnRelease'
    BY <1>1, <1>2, <1>3, <1>4, <1>5 DEF secrets
  <1>6. CASE UNCHANGED vars
    BY <1>5, <1>6 DEF vars, user
  <1>7. CASE Begin \/ HandleInstalled \/ NextFlow \/ SaveStatus \/ CallFails \/ Deliver
             \/ TimerFires \/ Edit
    BY <1>5, <1>7 DEF Begin, HandleInstalled, NextFlow, SaveStatus, CallFails, Deliver, TimerFires,
                      Edit, user
  <1>8. CASE Reconstruct
    <2>1. UNCHANGED <<provided, careful, secrets, release>> /\ secret' = secret
      BY <1>8 DEF Reconstruct, user, secrets
    <2>2. OwnSecrets /\ OwnDir /\ OwnRelease
      BY <1>1, <2>1
    <2>3. secretCache \in Certificates /\ NoCertificates \in Certificates
      BY NothingType DEF PlacesOK
    <2>4. FromProvider(secretCache) /\ FromProvider(release.genesis) /\ FromProvider(NoCertificates)
      BY <2>2, NothingOwn DEF OwnSecrets, OwnRelease
    <2>5. ASSUME dir' = Built(secretCache, release.genesis) PROVE OwnDir'
      BY <2>1, <2>4, <2>5, BuiltOwn
    <2>6. ASSUME dir' = Built(secretCache, NoCertificates) PROVE OwnDir'
      BY <2>1, <2>4, <2>6, BuiltOwn
    <2>7. ASSUME dir' = Bare PROVE OwnDir'
      BY <2>1, <2>7, NothingOwn DEF OwnDir, FromProvider, Having
    <2>8. ASSUME NEW some \in PartlyUnpacked(NoCertificates, secretCache),
                 dir' = Built(some, NoCertificates)
          PROVE  OwnDir'
      BY <2>1, <2>3, <2>4, <2>8, PartlyOwn, BuiltOwn
    <2>9. OwnDir'
      BY <1>8, <2>5, <2>6, <2>7, <2>8 DEF Reconstruct, Downloaded
    <2> QED
      BY <1>2, <1>4, <2>1, <2>2, <2>9
  <1>9. CASE Teardown
    <2>1. UNCHANGED <<provided, careful, secrets, dir>> /\ secret' = secret /\ release' = NoRelease
      BY <1>9 DEF Teardown, user, secrets
    <2>2. OwnSecrets /\ OwnDir
      BY <1>1, <2>1
    <2>3. OwnRelease'
      BY <2>1, NothingOwn DEF OwnRelease, FromProvider, Having
    <2> QED
      BY <1>2, <1>3, <2>1, <2>2, <2>3
  <1>10. CASE Prepare
    <2>1. UNCHANGED <<provided, careful, release>>
      BY <1>10 DEF Prepare, user
    <2>2. UNCHANGED secrets /\ secret' = secret
      BY <1>10, <2>1 DEF Prepare, PrepareOwn, PrepareProvided, secrets
    <2>3. OwnSecrets /\ OwnRelease
      BY <1>1, <2>1
    <2>4. secretCache \in Certificates /\ NoCertificates \in Certificates
      BY NothingType DEF PlacesOK
    <2>5. FromProvider(secretCache) /\ FromProvider(NoCertificates)
      BY <2>3, NothingOwn DEF OwnSecrets
    <2>6. ASSUME dir' = Built(secretCache, Only(copy.wanted, secretCache)) PROVE OwnDir'
      BY <2>2, <2>4, <2>5, <2>6, OnlyOwn, BuiltOwn
    <2>7. ASSUME dir' = Built(secretCache, NoCertificates) PROVE OwnDir'
      BY <2>2, <2>5, <2>7, BuiltOwn
    <2>8. ASSUME NEW some \in PartlyUnpacked(NoCertificates, secretCache),
                 dir' = Built(some, NoCertificates)
          PROVE  OwnDir'
      BY <2>2, <2>4, <2>5, <2>8, PartlyOwn, BuiltOwn
    <2>9. ASSUME dir' \in {NoDir, Bare} PROVE OwnDir'
      BY <2>2, <2>9, NothingOwn DEF OwnDir, FromProvider, Having
    <2>10. OwnDir'
      BY <1>10, <2>1, <2>6, <2>7, <2>8, <2>9 DEF Prepare, PrepareOwn, PrepareProvided
    <2> QED
      BY <1>2, <1>4, <2>1, <2>2, <2>3, <2>10
  <1>11. CASE Install \/ HandleNeedsUpdate
    <2>1. UNCHANGED <<provided, careful, secrets, dir>> /\ secret' = secret
      BY <1>11 DEF Install, HandleNeedsUpdate, user, secrets
    <2>2. OwnSecrets /\ OwnDir /\ OwnRelease
      BY <1>1, <2>1
    <2>3. release' = Deployed \/ release' = release
      BY <1>11 DEF Install, HandleNeedsUpdate
    <2> QED
      BY <1>2, <1>3, <1>4, <2>1, <2>2, <2>3, DeployedOwn
  <1>12. CASE HandleReady
    <2>1. UNCHANGED <<provided, careful, release>>
      BY <1>12 DEF HandleReady, user
    <2>2. UNCHANGED secrets /\ secret' = secret
      BY <1>12, <2>1 DEF HandleReady, ExtendOwn, DownloadProvided, secrets
    <2>3. OwnSecrets /\ OwnDir /\ OwnRelease
      BY <1>1, <2>1
    <2>4. dir.certs \in Certificates /\ secretCache \in Certificates
      BY DEF PlacesOK, Dirs
    <2>5. FromProvider(dir.certs) /\ FromProvider(dir.genesis) /\ FromProvider(secretCache)
      BY <2>3 DEF OwnDir, OwnSecrets
    <2>6. ASSUME UNCHANGED dir PROVE OwnDir'
      BY <1>3, <2>2, <2>3, <2>6
    <2>7. ASSUME NEW longer, dir' = Rebuilt(Unpacked(dir.certs, secretCache, longer)) PROVE OwnDir'
      BY <2>2, <2>4, <2>5, <2>7, UnpackedOwn, RebuiltOwn
    <2>8. ASSUME NEW some \in PartlyUnpacked(dir.certs, secretCache), dir' = Rebuilt(some)
          PROVE  OwnDir'
      BY <2>2, <2>4, <2>5, <2>8, PartlyOwn, RebuiltOwn
    <2>9. ASSUME dir' = Rebuilt(dir.certs) PROVE OwnDir'
      BY <2>2, <2>5, <2>9, RebuiltOwn
    <2>10. OwnDir'
      BY <1>12, <2>1, <2>6, <2>7, <2>8, <2>9 DEF HandleReady, ExtendOwn, DownloadProvided
    <2> QED
      BY <1>2, <1>4, <2>1, <2>2, <2>3, <2>10
  <1>13. CASE DeliverSecret
    <2>1. UNCHANGED <<provided, careful, dir, release>> /\ secret' = secret
      BY <1>13 DEF DeliverSecret, user
    <2>2. OwnSecrets /\ OwnDir /\ OwnRelease
      BY <1>1, <2>1
    <2>3. secretWatch \in Seq(Certificates) /\ secretWatch # <<>>
      BY <1>13 DEF DeliverSecret, PlacesOK
    <2>4. FromProvider(Head(secretWatch))
      BY <2>2, <2>3 DEF OwnSecrets
    <2>5. \A i \in DOMAIN Tail(secretWatch) : FromProvider(Tail(secretWatch)[i])
      BY <2>2, <2>3, HeadTailProperties DEF OwnSecrets
    <2>6. OwnSecrets'
      BY <1>13, <2>1, <2>4, <2>5 DEF DeliverSecret, OwnSecrets, FromProvider, Having
    <2> QED
      BY <1>3, <1>4, <2>1, <2>2, <2>6
  <1>14. CASE Crash
    <2>1. UNCHANGED <<provided, careful, release>> /\ secret' = secret
      BY <1>14 DEF Crash, user
    <2>2. OwnRelease
      BY <1>1, <2>1
    <2>3. OwnSecrets'
      BY <1>14 DEF Crash, OwnSecrets, FromProvider
    <2>4. OwnDir'
      BY <1>14, NothingOwn DEF Crash, OwnDir, FromProvider, Having
    <2> QED
      BY <1>4, <2>1, <2>2, <2>3, <2>4
  <1>15. ASSUME NEW m \in Members, Supply(m) PROVE OwnSecrets' /\ OwnDir' /\ OwnRelease'
    <2>1. provided /\ careful
      BY <1>15 DEF Supply
    <2> QED
      BY <1>15, <2>1, OwnPlaces, SupplyOwn
  <1> QED
    BY <1>6, <1>7, <1>8, <1>9, <1>10, <1>11, <1>12, <1>13, <1>14, <1>15 DEF Next, Worker

LEMMA OwnInit == Init => ProvidersOwn
  BY NothingOwn DEF Init, ProvidersOwn, FromProvider, Having

\* The certificates of a provider who only adds files are never made up, mixed or
\* altered, for every number of organizations, crashes, faults and edits.
THEOREM ProvidersOwnAlways == Spec => []ProvidersOwn
  <1>1. Init => CertificatesOK /\ ProvidersOwn
    BY InitType, OwnInit
  <1>2. (CertificatesOK /\ ProvidersOwn) /\ [Next]_vars => (CertificatesOK /\ ProvidersOwn)'
    BY StepType, OwnStep
  <1> QED
    BY <1>1, <1>2, PTL DEF Spec
=============================================================================
