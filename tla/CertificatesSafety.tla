-------------------------- MODULE CertificatesSafety --------------------------
(***************************************************************************)
(* Proofs about the certificates of a network: that what is deployed fits  *)
(* its genesis block and has been stored, that it is only ever extended,   *)
(* and that a network reported Ready has certificates for all its members. *)
(***************************************************************************)
EXTENDS CertificatesProofs

\* The versions of the network that the operator has still to see, or sees.
Busy == pc # "idle"
Seen == {net, cache} \union { watch[i] : i \in DOMAIN watch } \union { x \in {copy} : Busy }
Around(state) == \E x \in Seen : x.state = state

\* The informer is late, but loses nothing.
Informed == IF watch = <<>> THEN cache = net ELSE watch[Len(watch)] = net

\* What the worker holds in its steps, and what it saves.
Saves == {<<"New", "Installed">>, <<"NeedsUpdate", "Installed">>, <<"Installed", "New">>,
          <<"Installed", "Ready">>, <<"New", "Ready">>, <<"Ready", "NeedsUpdate">>}
Holding ==
    /\ pc \in {"prepare", "install"} => copy.state = "New"
    /\ pc = "next" => copy.state \in {"Installed", "New"}
    /\ pc = "save" => <<copy.state, draft.state>> \in Saves
    /\ pc = "save" /\ draft.then = "next" => draft.state = "New"

\* Who has read the present version has read the only one around, until it has written
\* that an installed network is new and goes on.
Renewed == copy.state = "New" /\ (pc = "next" \/ (pc = "save" /\ draft.state = "Ready"))
Fresh ==
    Busy /\ fresh =>
        /\ copy = net
        /\ Renewed => \A x \in Seen : x.state \in {"Installed", "New"}
        /\ ~Renewed => \A x \in Seen : x = net

\* The states of the versions around at one time are near to each other.
Window ==
    /\ \A x \in Seen : x.wanted # {}
    /\ Around("NeedsUpdate") =>
          /\ ~Around("New") /\ ~(Around("Ready") /\ Around("Installed"))
          /\ net.state # "Ready"

Shown == CertificatesOK /\ Informed /\ Holding /\ Fresh /\ Window

LEMMA SeenIs ==
    \A x : x \in Seen <=> \/ x = net \/ x = cache \/ \E i \in DOMAIN watch : x = watch[i]
                          \/ Busy /\ x = copy
  BY DEF Seen

\* Fewer versions.
LEMMA Shrinks ==
    ASSUME Shown, Seen' \subseteq Seen, net' = net PROVE Window'
  BY DEF Shown, Window, Around

LEMMA FreshShrinks ==
    ASSUME Shown, Seen' \subseteq Seen, net' = net, copy' = copy, Busy, fresh, Renewed' <=> Renewed
    PROVE  Fresh'
  BY DEF Shown, Fresh

\* Steps of the worker that write no status.
Works == Reconstruct \/ Teardown \/ Prepare \/ Install \/ HandleNeedsUpdate
         \/ HandleInstalled \/ NextFlow \/ HandleReady \/ CallFails

LEMMA WorkIs ==
    ASSUME Holding, Works
    PROVE  /\ UNCHANGED resource /\ Busy /\ Holding'
           /\ Busy' => UNCHANGED <<copy, fresh>> /\ (Renewed' <=> Renewed)
  <1>1. UNCHANGED resource
    BY DEF Works, Reconstruct, Teardown, Prepare, Install, HandleNeedsUpdate, HandleInstalled,
           NextFlow, HandleReady, CallFails
  <1>2. Busy
    BY DEF Works, Reconstruct, Teardown, Prepare, Install, HandleNeedsUpdate, HandleInstalled,
           NextFlow, HandleReady, CallFails, Handling, Busy
  <1>3. CASE \E retry : Return(retry)
    BY <1>1, <1>2, <1>3 DEF Return, Busy, Holding
  <1>4. CASE Reconstruct /\ Goto("handle")
    BY <1>1, <1>2, <1>4 DEF Reconstruct, Goto, Busy, Holding, Renewed
  <1>5. CASE Teardown /\ Goto("prepare")
    BY <1>1, <1>2, <1>5 DEF Teardown, Handling, Goto, Busy, Holding, Renewed
  <1>6. CASE Prepare /\ Goto("install")
    BY <1>1, <1>2, <1>6 DEF Prepare, Goto, Busy, Holding, Renewed
  <1>7. CASE Install /\ Save("Installed", copy.observed, FALSE, "idle")
    BY <1>1, <1>2, <1>7 DEF Install, Save, Busy, Holding, Renewed, Saves
  <1>8. CASE HandleNeedsUpdate /\ Save("Installed", copy.observed, FALSE, "idle")
    BY <1>1, <1>2, <1>8 DEF HandleNeedsUpdate, Handling, Save, Busy, Holding, Renewed, Saves
  <1>9. CASE HandleInstalled /\ (Save("New", copy.wanted, TRUE, "next") \/ Goto("next"))
    BY <1>1, <1>2, <1>9 DEF HandleInstalled, Handling, Save, Goto, Busy, Holding, Renewed, Saves
  <1>10. CASE NextFlow /\ Save("Ready", copy.observed, FALSE, "idle")
    BY <1>1, <1>2, <1>10 DEF NextFlow, Save, Busy, Holding, Renewed, Saves
  <1>11. CASE HandleReady /\ Save("NeedsUpdate", copy.wanted, TRUE, "idle")
    BY <1>1, <1>2, <1>11 DEF HandleReady, Handling, Save, Busy, Holding, Renewed, Saves
  <1>12. HandleReady => (\E retry : Return(retry)) \/ Save("NeedsUpdate", copy.wanted, TRUE, "idle")
    BY DEF HandleReady, ExtendOwn, DownloadProvided
  <1>13. Prepare => (\E retry : Return(retry)) \/ Goto("install")
    BY DEF Prepare, PrepareOwn, PrepareProvided
  <1> QED
    BY <1>3, <1>4, <1>5, <1>6, <1>7, <1>8, <1>9, <1>10, <1>11, <1>12, <1>13
       DEF Works, Reconstruct, Teardown, Install, HandleNeedsUpdate, HandleInstalled, NextFlow,
           CallFails

\* Steps that leave the versions alone; the worker stays with its own or is done.
LEMMA QuietShown ==
    ASSUME Shown, CertificatesOK', Holding', UNCHANGED <<net, watch, cache>>,
           Busy' => Busy /\ UNCHANGED <<copy, fresh>> /\ (Renewed' <=> Renewed)
    PROVE  Shown' /\ Seen' \subseteq Seen
  <1>1. Seen' \subseteq Seen
    BY DEF Seen
  <1>2. Informed'
    BY DEF Shown, Informed
  <1>3. Window'
    BY <1>1, Shrinks
  <1>4. Fresh'
    BY <1>1 DEF Shown, Fresh
  <1> QED
    BY <1>1, <1>2, <1>3, <1>4 DEF Shown

LEMMA BeginShown == ASSUME Shown, CertificatesOK', Begin PROVE Shown' /\ Seen' \subseteq Seen
  <1>1. /\ pc = "idle" /\ pc' = "handle" /\ copy' = cache /\ fresh' = (watch = <<>>)
        /\ UNCHANGED <<net, watch, cache>>
    BY DEF Begin, resource
  <1>2. Seen' \subseteq Seen
    BY <1>1 DEF Seen
  <1>3. Informed' /\ Holding'
    BY <1>1 DEF Shown, Informed, Holding
  <1>4. ASSUME watch = <<>> PROVE \A x \in Seen' : x = net
    <2>1. cache = net
      BY <1>4 DEF Shown, Informed
    <2>2. DOMAIN watch' = {}
      BY <1>1, <1>4
    <2> QED
      BY <1>1, <2>1, <2>2 DEF Seen
  <1>5. Fresh'
    <2>1. ~Renewed'
      BY <1>1 DEF Renewed
    <2>2. watch = <<>> => copy' = net
      BY <1>1 DEF Shown, Informed
    <2> QED
      BY <1>1, <1>4, <2>1, <2>2 DEF Fresh
  <1> QED
    BY <1>1, <1>2, <1>3, <1>5, Shrinks DEF Shown

LEMMA DeliverShown == ASSUME Shown, CertificatesOK', Deliver PROVE Shown' /\ Seen' \subseteq Seen
  <1>1. /\ watch # <<>> /\ watch \in Seq(Networks) /\ cache' = Head(watch) /\ watch' = Tail(watch)
        /\ UNCHANGED <<net, pc, copy, fresh, draft>>
    BY DEF Deliver, worker, Shown, CertificatesOK, NetworksOK
  <1>2. /\ cache' = watch[1] /\ Len(watch) \in Nat \ {0} /\ Len(watch') = Len(watch) - 1
        /\ DOMAIN watch = 1..Len(watch) /\ DOMAIN watch' = 1..(Len(watch) - 1)
        /\ \A i \in 1..(Len(watch) - 1) : watch'[i] = watch[i + 1]
    BY <1>1
  <1>3. Seen' \subseteq Seen
    <2>1. ASSUME NEW i \in DOMAIN watch' PROVE watch'[i] \in Seen
      <3>1. i + 1 \in DOMAIN watch /\ watch'[i] = watch[i + 1]
        BY <1>2
      <3> QED
        BY <3>1 DEF Seen
    <2>2. cache' \in Seen /\ (Busy' => copy' \in Seen) /\ net' \in Seen
      <3>1. 1 \in DOMAIN watch
        BY <1>2
      <3> QED
        BY <1>1, <1>2, <3>1 DEF Seen, Busy
    <2> QED
      BY <2>1, <2>2 DEF Seen
  <1>4. Informed'
    <2>1. CASE Len(watch) = 1
      <3>1. watch' = <<>>
        BY <1>1, <2>1
      <3> QED
        BY <1>1, <1>2, <2>1, <3>1 DEF Shown, Informed
    <2>2. CASE Len(watch) # 1
      <3>1. watch' # <<>> /\ watch'[Len(watch')] = watch[Len(watch)]
        BY <1>2, <2>2
      <3> QED
        BY <1>1, <3>1 DEF Shown, Informed
    <2> QED
      BY <2>1, <2>2
  <1>5. Holding'
    BY <1>1 DEF Shown, Holding
  <1>6. Fresh'
    BY <1>1, <1>3 DEF Shown, Fresh, Busy, Renewed
  <1> QED
    BY <1>1, <1>3, <1>4, <1>5, <1>6, Shrinks DEF Shown

\* A version more.
LEMMA WrittenSeen ==
    ASSUME CertificatesOK, NEW network \in Networks, Written(network),
           Busy' => copy' = network \/ (Busy /\ UNCHANGED copy)
    PROVE  /\ Informed' /\ net' = network /\ cache' = cache
           /\ Seen' \subseteq Seen \union {network}
           /\ watch \in Seq(Networks) /\ watch' = Append(watch, network)
  <1>1. /\ watch \in Seq(Networks) /\ watch' = Append(watch, network) /\ net' = network
        /\ cache' = cache
    BY DEF Written, CertificatesOK, NetworksOK
  <1>2. /\ watch' # <<>> /\ Len(watch') = Len(watch) + 1 /\ watch'[Len(watch')] = network
        /\ DOMAIN watch = 1..Len(watch) /\ DOMAIN watch' = 1..(Len(watch) + 1)
        /\ Len(watch) \in Nat /\ \A i \in 1..Len(watch) : watch'[i] = watch[i]
    BY <1>1
  <1>3. Informed'
    BY <1>1, <1>2 DEF Informed
  <1>4. ASSUME NEW i \in DOMAIN watch' PROVE watch'[i] \in Seen \union {network}
    <2>1. CASE i = Len(watch) + 1
      BY <1>2, <2>1
    <2>2. CASE i \in DOMAIN watch
      BY <1>2, <2>2 DEF Seen
    <2> QED
      BY <1>2, <1>4, <2>1, <2>2
  <1>5. cache' \in Seen /\ (Busy' => copy' \in Seen \union {network})
    BY <1>1 DEF Seen
  <1> QED
    BY <1>1, <1>3, <1>4, <1>5 DEF Seen

LEMMA EditShown == ASSUME Shown, CertificatesOK', Edit PROVE Shown'
  <1>1. /\ ~fresh' /\ UNCHANGED <<pc, copy, draft>>
        /\ \E members \in (SUBSET Members) \ {{}, net.wanted} :
               Written([net EXCEPT !.wanted = members])
    BY DEF Edit
  <1>2. PICK members \in (SUBSET Members) \ {{}, net.wanted} :
               Written([net EXCEPT !.wanted = members])
    BY <1>1
  <1> DEFINE edited == [net EXCEPT !.wanted = members]
  <1>3. edited \in Networks /\ edited.state = net.state /\ edited.wanted # {}
    BY DEF Shown, CertificatesOK, NetworksOK, Networks
  <1>4. Written(edited)
    BY <1>2
  <1> HIDE DEF edited
  <1>5. Informed' /\ net' = edited /\ Seen' \subseteq Seen \union {edited}
    BY <1>1, <1>3, <1>4, WrittenSeen DEF Shown, Busy
  <1>6. net \in Seen
    BY DEF Seen
  <1>7. Window'
    BY <1>3, <1>5, <1>6 DEF Shown, Window, Around
  <1>8. Holding' /\ Fresh'
    BY <1>1 DEF Shown, Holding, Fresh
  <1> QED
    BY <1>5, <1>7, <1>8 DEF Shown

\* The write of a status: what is around is near to the state that is written.
SavedNet == [net EXCEPT !.state = draft.state, !.observed = draft.observed]

LEMMA SavedIs ==
    ASSUME Shown, pc = "save", fresh
    PROVE  /\ copy = net /\ <<net.state, draft.state>> \in Saves
           /\ draft.state \in {"New", "Installed", "NeedsUpdate"} => \A x \in Seen : x = net
           /\ draft.state = "Ready" => \A x \in Seen : x.state \in {"Installed", "New"}
           /\ SavedNet \in Networks /\ SavedNet.state = draft.state
           /\ SavedNet.wanted = net.wanted /\ SavedNet.observed = draft.observed
           /\ net \in Seen
  <1>1. copy = net /\ <<net.state, draft.state>> \in Saves
    BY DEF Shown, Fresh, Holding, Busy
  <1>2. SavedNet \in Networks /\ SavedNet.state = draft.state /\ SavedNet.wanted = net.wanted
        /\ SavedNet.observed = draft.observed
    BY DEF Shown, CertificatesOK, NetworksOK, WorkerOK, Networks, Drafts, SavedNet
  <1>3. draft.state \in {"New", "Installed", "NeedsUpdate"} => \A x \in Seen : x = net
    BY DEF Shown, Fresh, Busy, Renewed
  <1>4. draft.state = "Ready" => \A x \in Seen : x.state \in {"Installed", "New"}
    BY <1>1 DEF Shown, Fresh, Busy, Renewed, Saves
  <1> QED
    BY <1>1, <1>2, <1>3, <1>4 DEF Seen

LEMMA SaveShown ==
    ASSUME Shown, CertificatesOK', SaveStatus
    PROVE  /\ Shown'
           /\ \/ fresh /\ Written(SavedNet) /\ Seen' \subseteq Seen \union {SavedNet}
                 /\ net' = SavedNet
              \/ UNCHANGED resource /\ ~Busy' /\ Seen' \subseteq Seen
  <1>1. pc = "save" /\ Busy
    BY DEF SaveStatus, Busy
  <1>2. CASE UNCHANGED resource /\ \E retry : Return(retry)
    <2>1. ~Busy' /\ Holding' /\ UNCHANGED <<net, watch, cache>>
      BY <1>2 DEF Return, Busy, Holding, resource
    <2> QED
      BY <1>2, <2>1, QuietShown
  <1>3. CASE /\ fresh /\ Written(SavedNet)
             /\ \/ \E retry : Return(retry)
                \/ /\ draft.then = "next" /\ pc' = "next" /\ copy' = SavedNet /\ UNCHANGED fresh
    <2>1. /\ copy = net /\ <<net.state, draft.state>> \in Saves
          /\ draft.state \in {"New", "Installed", "NeedsUpdate"} => \A x \in Seen : x = net
          /\ draft.state = "Ready" => \A x \in Seen : x.state \in {"Installed", "New"}
          /\ SavedNet \in Networks /\ SavedNet.state = draft.state
          /\ SavedNet.wanted = net.wanted /\ net \in Seen
      BY <1>1, <1>3, SavedIs
    <2>2. /\ Informed' /\ net' = SavedNet /\ Seen' \subseteq Seen \union {SavedNet}
      BY <1>3, <2>1, WrittenSeen DEF Return, Busy, Shown
    <2>3. Window'
      <3>1. \A x \in Seen' : x.wanted # {}
        BY <2>1, <2>2 DEF Shown, Window
      <3>2. CASE draft.state = "Ready"
        <4>1. \A x \in Seen' : x.state # "NeedsUpdate"
          BY <2>1, <2>2, <3>2
        <4> QED
          BY <3>1, <4>1 DEF Window, Around
      <3>3. CASE draft.state # "Ready"
        <4>1. \A x \in Seen' : x.state \in {net.state, draft.state}
          BY <2>1, <2>2, <3>3 DEF Saves
        <4> QED
          BY <2>1, <2>2, <3>1, <3>3, <4>1 DEF Window, Around, Saves
      <3> QED
        BY <3>2, <3>3
    <2>4. CASE \E retry : Return(retry)
      BY <1>3, <2>2, <2>3, <2>4 DEF Return, Shown, Holding, Fresh, Busy
    <2>5. CASE draft.then = "next" /\ pc' = "next" /\ copy' = SavedNet /\ UNCHANGED fresh
      <3>1. draft.state = "New" /\ net.state = "Installed"
        BY <1>1, <2>1, <2>5 DEF Shown, Holding, Saves
      <3>2. \A x \in Seen' : x.state \in {"Installed", "New"}
        BY <2>1, <2>2, <3>1
      <3>3. Fresh' /\ Holding'
        BY <2>1, <2>2, <2>5, <3>1, <3>2 DEF Fresh, Renewed, Holding
      <3> QED
        BY <1>3, <2>2, <2>3, <3>3 DEF Shown
    <2> QED
      BY <1>3, <2>4, <2>5
  <1> QED
    BY <1>2, <1>3 DEF SaveStatus, SavedNet

LEMMA CrashShown ==
    ASSUME Shown, CertificatesOK', Crash
    PROVE  Shown' /\ \A x \in Seen' : x = net
  <1>1. /\ pc' = "idle" /\ watch' = <<>> /\ cache' = net /\ net' = net
    BY DEF Crash
  <1>2. DOMAIN watch' = {}
    BY <1>1
  <1>3. \A x \in Seen' : x = net
    BY <1>1, <1>2 DEF Seen, Busy
  <1>4. Seen' \subseteq Seen
    BY <1>3 DEF Seen
  <1>5. Informed' /\ Holding' /\ Fresh'
    BY <1>1 DEF Informed, Holding, Fresh, Busy
  <1> QED
    BY <1>1, <1>3, <1>4, <1>5, Shrinks DEF Shown

LEMMA OtherShown ==
    ASSUME Shown, CertificatesOK', DeliverSecret \/ TimerFires \/ UNCHANGED vars
                                   \/ \E m \in Members : Supply(m)
    PROVE  Shown' /\ Seen' \subseteq Seen /\ net' = net
  <1>1. UNCHANGED <<net, watch, cache, pc, copy, fresh, draft>>
    BY DEF DeliverSecret, TimerFires, Supply, vars, resource, worker
  <1>2. Holding' /\ (Renewed' <=> Renewed) /\ (Busy' <=> Busy)
    BY <1>1 DEF Shown, Holding, Renewed, Busy
  <1> QED
    BY <1>1, <1>2, QuietShown

\* A step of the worker that writes no status.
LEMMA WorkShown ==
    ASSUME Shown, CertificatesOK', Works
    PROVE  /\ Shown' /\ Seen' \subseteq Seen /\ net' = net /\ Busy
           /\ Busy' => UNCHANGED <<copy, fresh>>
  <1>1. /\ UNCHANGED <<net, watch, cache>> /\ Busy /\ Holding'
        /\ Busy' => UNCHANGED <<copy, fresh>> /\ (Renewed' <=> Renewed)
    BY WorkIs DEF Shown, resource
  <1> QED
    BY <1>1, QuietShown

LEMMA ShownStep == Shown /\ [Next]_vars => Shown'
  <1> SUFFICES ASSUME Shown, [Next]_vars PROVE Shown'
    OBVIOUS
  <1>1. CertificatesOK'
    BY StepType DEF Shown
  <1> QED
    BY <1>1, BeginShown, DeliverShown, EditShown, SaveShown, CrashShown, OtherShown, WorkShown
       DEF Next, Worker, Works

LEMMA ShownInit == Init => Shown
  <1> SUFFICES ASSUME Init PROVE Shown
    OBVIOUS
  <1>1. CertificatesOK
    BY InitType
  <1>2. /\ net.state = "New" /\ net.wanted = Founders /\ watch = <<>> /\ cache = net /\ pc = "idle"
    BY DEF Init
  <1>3. DOMAIN watch = {}
    BY <1>2
  <1>4. \A x \in Seen : x = net
    BY <1>2, <1>3 DEF Seen, Busy
  <1>5. Window
    BY <1>2, <1>4, CertificatesAssumption DEF Window, Around
  <1> QED
    BY <1>1, <1>2, <1>5 DEF Shown, Informed, Holding, Fresh, Busy

-----------------------------------------------------------------------------
\* The places of certificates agree, as long as no restart and failing call have come
\* together and no provider has replaced a file.
Agrees(certs, part) == \A m \in Having(part) : certs[m] = part[m]

\* What is deployed is stored, and has a genesis block.
Kept ==
    release.installed =>
        /\ release.genesis # NoCertificates
        /\ FromProvider(release.genesis) /\ FromProvider(release.certs)

\* The directory has all that is deployed.
Suits ==
    release.installed /\ dir.present =>
        /\ dir.genesis = release.genesis
        /\ Agrees(dir.certs, release.genesis) /\ Agrees(dir.certs, release.certs)

\* A directory of an installed release is only lost in a restart; the cached secret has
\* what is needed for a new one.
Holds(certs) == Agrees(certs, release.genesis) /\ Agrees(certs, release.certs)
Lost ==
    ~dir.present =>
        /\ pc \in {"idle", "handle"}
        /\ ~(Around("Ready") /\ Around("NeedsUpdate"))
        /\ release.installed =>
              /\ ~NeverCrashed
              /\ Holds(secretCache) /\ \A i \in DOMAIN secretWatch : Holds(secretWatch[i])
              /\ ~provided => secretCache = secret /\ secretWatch = <<>>

\* While a network is made there is no release; what is installed has been stored.
Making ==
    /\ pc \in {"prepare", "install"} => ~release.installed /\ dir.present
    /\ pc = "install" => /\ FromProvider(dir.certs) /\ dir.genesis # NoCertificates
                         /\ Agrees(dir.certs, dir.genesis)

\* When a network is to be updated its directory has been stored, and whoever reads it
\* late, as Ready, finds nothing to extend.
Saved ==
    /\ release.installed /\ Around("NeedsUpdate") =>
          /\ FromProvider(dir.certs)
          /\ ~provided => \A x \in Seen : x.state = "Ready" => x.wanted \subseteq Having(dir.certs)
    /\ ~provided /\ pc = "save" /\ draft.state = "NeedsUpdate" =>
          FromProvider(dir.certs) /\ copy.wanted \subseteq Having(dir.certs)

Consistent == Kept /\ Suits /\ Lost /\ Making /\ Saved
Sound == Shown /\ ProvidersOwn /\ (Steady /\ careful => Consistent)

LEMMA FromIs == \A certs : FromProvider(certs) <=> Agrees(secret, certs)
  BY DEF FromProvider, Agrees

LEMMA ExtendedAgrees ==
    ASSUME NEW certs \in Certificates, NEW part \in Certificates, NEW g \in Generations,
           Agrees(certs, part)
    PROVE  Agrees(Extended(certs, g), part)
  BY DEF Agrees, Having, Extended

LEMMA UnpackedAgrees ==
    ASSUME NEW certs \in Certificates, NEW part \in Certificates, NEW archive \in Certificates,
           NEW longer, Agrees(certs, part), FromProvider(part), FromProvider(archive)
    PROVE  Agrees(Unpacked(certs, archive, longer), part)
  <1> SUFFICES ASSUME NEW m \in Members, part[m] # {}
               PROVE  Unpacked(certs, archive, longer)[m] = part[m]
    BY DEF Agrees, Having
  <1>1. certs[m] = part[m] /\ (archive[m] = {} \/ archive[m] = part[m])
    BY DEF Agrees, FromProvider, Having
  <1>2. Unpacked(certs, archive, longer)[m] =
            CASE archive[m] = {} -> certs[m]
              [] archive[m] # {} /\ m \in longer -> certs[m] \union archive[m]
              [] OTHER -> archive[m]
    BY DEF Unpacked
  <1>3. Unpacked(certs, archive, longer)[m] \in {certs[m], archive[m], certs[m] \union archive[m]}
    BY <1>2
  <1>4. archive[m] = {} => Unpacked(certs, archive, longer)[m] = certs[m]
    BY <1>2
  <1> QED
    BY <1>1, <1>3, <1>4

LEMMA PartlyAgrees ==
    ASSUME NEW certs \in Certificates, NEW part \in Certificates, NEW archive \in Certificates,
           Agrees(certs, part), FromProvider(part), FromProvider(archive),
           NEW some \in PartlyUnpacked(certs, archive)
    PROVE  Agrees(some, part)
  <1> PICK done \in SUBSET Members, longer \in SUBSET Having(certs) :
        some = Unpacked(certs, Only(done, archive), longer)
    BY DEF PartlyUnpacked
  <1> QED
    BY OnlyType, OnlyOwn, UnpackedAgrees

\* Steadiness does not come back, and in what has been steady failing calls and restarts
\* exclude each other.
LEMMA StillSteady ==
    ASSUME CertificatesOK, [Next]_vars, Steady', careful'
    PROVE  /\ Steady /\ careful /\ provided' = provided
           /\ Fault => NeverCrashed
           /\ ~Crash => (NeverCrashed' <=> NeverCrashed)
  <1>1. crashes \in 0..MaxCrashes /\ faults \in 0..MaxFaults
    BY DEF CertificatesOK, FailuresOK
  <1>2. crashes - 1 # MaxCrashes /\ faults - 1 # MaxFaults /\ faults - 1 # faults
    BY <1>1, BoundsAreNaturals
  <1>3. Crash => NeverFailed' /\ UNCHANGED faults /\ UNCHANGED <<provided, careful>>
    BY <1>2 DEF Crash, Steady, NeverCrashed, NeverFailed, user
  <1>4. Fault => ~NeverFailed'
    BY <1>2 DEF Fault, NeverFailed
  <1>5. ~Crash => UNCHANGED crashes /\ (UNCHANGED faults \/ Fault)
    BY DEF Next, Worker, Begin, Reconstruct, Teardown, Prepare, PrepareOwn, PrepareProvided,
       Install, HandleNeedsUpdate, HandleInstalled, NextFlow, HandleReady, ExtendOwn,
       DownloadProvided, SaveStatus, CallFails, Deliver, DeliverSecret, TimerFires, Edit, Supply, vars
  <1>6. provided' = provided /\ careful
    BY <1>3 DEF Next, Worker, Begin, Reconstruct, Teardown, Prepare, Install, HandleNeedsUpdate,
       HandleInstalled, NextFlow, HandleReady, SaveStatus, CallFails, Deliver, DeliverSecret,
       TimerFires, Edit, Supply, vars, user
  <1>7. Crash => ~Fault
    BY <1>2, <1>3 DEF Fault
  <1> QED
    BY <1>3, <1>4, <1>5, <1>6, <1>7 DEF Steady, NeverCrashed, NeverFailed

\* Steps that leave the certificates where they are, and begin nothing.
LEMMA LikeConsistent ==
    ASSUME Shown, Consistent, UNCHANGED <<provided, dir, release>>, secret' = secret,
           secretCache' = secretCache, secretWatch' = secretWatch, NeverCrashed' <=> NeverCrashed,
           net'.state = net.state, \A x \in Seen' : x \in Seen \/ x.state = net.state,
           ~dir.present => pc' \in {"idle", "handle"},
           pc' \in {"prepare", "install"} => pc = pc',
           pc' = "save" /\ draft'.state = "NeedsUpdate" =>
               pc = "save" /\ draft.state = "NeedsUpdate" /\ copy' = copy
    PROVE  Consistent'
  <1>1. net \in Seen
    BY DEF Seen
  <1>2. \A state : Around(state)' => Around(state)
    BY <1>1 DEF Around
  <1>3. Kept' /\ Suits'
    BY DEF Consistent, Kept, Suits, FromProvider, Agrees
  <1>4. Lost'
    BY <1>2 DEF Consistent, Lost, Holds, Agrees
  <1>5. Making'
    BY DEF Consistent, Making, FromProvider, Agrees
  <1>6. Around("NeedsUpdate") => net.state # "Ready"
    BY DEF Shown, Window
  <1>7. Saved'
    BY <1>2, <1>6 DEF Consistent, Saved, FromProvider, Having
  <1> QED
    BY <1>3, <1>4, <1>5, <1>7 DEF Consistent

\* A write of the status: of the states that are written NeedsUpdate matters.
LEMMA SaveConsistent ==
    ASSUME Sound, careful, Consistent, CertificatesOK', SaveStatus, NeverCrashed' <=> NeverCrashed
    PROVE  Consistent'
  <1>1. /\ pc = "save" /\ pc' \in {"idle", "next"}
        /\ UNCHANGED <<provided, dir, release, secret, secretCache, secretWatch>>
    BY DEF SaveStatus, Return, user, secrets
  <1>2. Shown /\ Shown' /\ ProvidersOwn
    BY SaveShown DEF Sound
  <1>3. CASE UNCHANGED resource /\ ~Busy' /\ Seen' \subseteq Seen
    BY <1>1, <1>2, <1>3, LikeConsistent DEF resource, Busy
  <1>4. CASE fresh /\ Written(SavedNet) /\ Seen' \subseteq Seen \union {SavedNet} /\ net' = SavedNet
    <2>1. /\ copy = net /\ <<net.state, draft.state>> \in Saves
          /\ draft.state \in {"New", "Installed", "NeedsUpdate"} => \A x \in Seen : x = net
          /\ draft.state = "Ready" => \A x \in Seen : x.state \in {"Installed", "New"}
          /\ SavedNet.state = draft.state
      BY <1>1, <1>2, <1>4, SavedIs
    <2>2. dir.present
      BY <1>1 DEF Consistent, Lost
    <2>3. Kept' /\ Suits'
      BY <1>1 DEF Consistent, Kept, Suits, FromProvider, Agrees
    <2>4. Lost' /\ Making'
      BY <1>1, <2>2 DEF Lost, Making
    <2>5. CASE draft.state = "NeedsUpdate"
      <3>1. FromProvider(dir.certs)
        BY <1>1, <1>2, <2>5 DEF Consistent, Saved, ProvidersOwn
      <3>2. ~provided => net.wanted \subseteq Having(dir.certs)
        BY <1>1, <2>1, <2>5 DEF Consistent, Saved
      <3>3. \A x \in Seen' : x.state = "Ready" => x = net
        BY <1>4, <2>1, <2>5
      <3> QED
        BY <1>1, <2>3, <2>4, <3>1, <3>2, <3>3 DEF Consistent, Saved, FromProvider, Having
    <2>6. CASE draft.state # "NeedsUpdate"
      <3>1. Around("NeedsUpdate")' => Around("NeedsUpdate")
        BY <1>4, <2>1, <2>6 DEF Around
      <3>2. ASSUME NEW x \in Seen', x.state = "Ready", Around("NeedsUpdate")' PROVE x \in Seen
        <4>1. PICK y \in Seen : y.state = "NeedsUpdate"
          BY <3>1, <3>2 DEF Around
        <4> QED
          BY <1>4, <2>1, <2>6, <3>2, <4>1
      <3>3. Saved'
        BY <1>1, <3>1, <3>2 DEF Consistent, Saved, FromProvider, Having
      <3> QED
        BY <2>3, <2>4, <3>3 DEF Consistent
    <2> QED
      BY <2>5, <2>6
  <1> QED
    BY <1>2, <1>3, <1>4, SaveShown

\* The directory is made anew: of an installed release the cached secret has all.
LEMMA ReconstructConsistent ==
    ASSUME Sound, careful, Consistent, CertificatesOK', Reconstruct, Fault => NeverCrashed,
           NeverCrashed' <=> NeverCrashed
    PROVE  Consistent'
  <1>1. /\ ~dir.present /\ pc = "handle" /\ dir'.present /\ pc' \in {"idle", "handle"}
        /\ UNCHANGED <<provided, release, secret, secretCache, secretWatch>>
    BY DEF Reconstruct, Return, Goto, user, secrets, Downloaded, Built, Bare, NoDir
  <1>2. Shown /\ Seen' \subseteq Seen
    BY WorkShown DEF Works, Sound
  <1>3. Kept' /\ Lost' /\ Making'
    BY <1>1 DEF Consistent, Kept, FromProvider, Lost, Making
  <1>4. CASE ~release.installed
    BY <1>1, <1>3, <1>4 DEF Consistent, Suits, Saved
  <1>5. CASE release.installed
    <2>1. Holds(secretCache) /\ ~NeverCrashed /\ release.genesis # NoCertificates
      BY <1>1, <1>5 DEF Consistent, Lost, Kept
    <2>2. secretCache # NoCertificates
      <3>1. release.genesis \in Certificates
        BY DEF Shown, Sound, CertificatesOK, PlacesOK, Releases
      <3>2. \E m \in Members : release.genesis[m] # {}
        BY <2>1, <3>1 DEF NoCertificates, Certificates
      <3> QED
        BY <2>1, <3>2 DEF Holds, Agrees, Having, NoCertificates
    <2>3. dir' = Downloaded
      BY <1>5, <2>1, <2>2 DEF Reconstruct
    <2>4. dir'.certs = secretCache /\ dir'.genesis = release.genesis
      BY <2>3 DEF Downloaded, Built
    <2>5. Suits'
      BY <1>1, <2>1, <2>4 DEF Suits, Holds, Agrees
    <2>6. FromProvider(dir'.certs)
      <3>1. CASE provided
        BY <2>4, <3>1 DEF Sound, ProvidersOwn
      <3>2. CASE ~provided
        BY <1>1, <1>5, <2>4, <3>2 DEF Consistent, Lost, FromProvider
      <3> QED
        BY <3>1, <3>2
    <2>7. ~(Around("Ready")' /\ Around("NeedsUpdate")')
      BY <1>1, <1>2 DEF Consistent, Lost, Around
    <2>8. Saved'
      BY <1>1, <2>6, <2>7 DEF Saved, FromProvider, Around
    <2> QED
      BY <1>3, <2>5, <2>8 DEF Consistent
  <1> QED
    BY <1>4, <1>5

\* Without a release only what is being made and stored matters.
LEMMA UninstalledConsistent ==
    ASSUME ~release'.installed, pc' \in {"idle", "prepare", "install"},
           ~(Around("Ready") /\ Around("NeedsUpdate"))', dir'.present \/ pc' = "idle",
           pc' = "install" => /\ FromProvider(dir.certs)' /\ dir'.genesis # NoCertificates
                              /\ Agrees(dir'.certs, dir'.genesis)
    PROVE  Consistent'
  BY DEF Consistent, Kept, Suits, Lost, Making, Saved, Agrees

\* No version that is to be updated is around while the worker holds a New one.
LEMMA NewAlone ==
    ASSUME Shown, Busy, copy.state = "New" PROVE ~Around("NeedsUpdate")
  BY DEF Shown, Window, Around, Seen

LEMMA TeardownConsistent ==
    ASSUME Sound, CertificatesOK', Teardown PROVE Consistent'
  <1>1. ~release'.installed /\ pc' = "prepare" /\ dir'.present /\ pc = "handle" /\ copy.state = "New"
    BY DEF Teardown, Handling, Goto, NoRelease
  <1>2. Seen' \subseteq Seen
    BY WorkShown DEF Works, Sound
  <1>3. ~(Around("Ready") /\ Around("NeedsUpdate"))'
    BY <1>1, <1>2, NewAlone DEF Sound, Busy, Around
  <1> QED
    BY <1>1, <1>3, UninstalledConsistent

\* What is made has certificates of all members, all of them in the genesis block.
LEMMA GeneratedHas ==
    ASSUME NEW g \in Generations, copy.wanted # {}, copy.wanted \subseteq Members
    PROVE  /\ Generated(g) # NoCertificates /\ Agrees(Generated(g), Generated(g))
           /\ copy.wanted \subseteq Having(Generated(g))
  <1>1. \A m \in copy.wanted : Generated(g)[m] # {}
    BY DEF Generated
  <1>2. Generated(g) # NoCertificates
    BY <1>1 DEF NoCertificates
  <1> QED
    BY <1>1, <1>2 DEF Agrees, Having

LEMMA OnlyHas ==
    ASSUME NEW certs \in Certificates, NEW members, members # {}, members \subseteq Having(certs)
    PROVE  Only(members, certs) # NoCertificates /\ Agrees(certs, Only(members, certs))
  <1>1. \A m \in members : Only(members, certs)[m] # {}
    BY DEF Only, Having
  <1>2. Only(members, certs) # NoCertificates
    BY <1>1 DEF NoCertificates, Having
  <1>3. Agrees(certs, Only(members, certs))
    BY DEF Agrees, Having, Only
  <1> QED
    BY <1>2, <1>3

LEMMA PrepareConsistent ==
    ASSUME Sound, careful, Consistent, CertificatesOK', Prepare PROVE Consistent'
  <1>1. /\ pc = "prepare" /\ copy.state = "New" /\ Busy /\ ~release.installed
        /\ UNCHANGED <<provided, release>>
    BY DEF Prepare, Sound, Shown, Holding, Busy, Consistent, Making, user
  <1>2. Seen' \subseteq Seen /\ copy.wanted # {} /\ copy.wanted \subseteq Members
    BY <1>1, WorkShown, SeenIs, CopyType DEF Works, Sound, Shown, Window, CertificatesOK
  <1>3. ~(Around("Ready") /\ Around("NeedsUpdate"))'
    BY <1>1, <1>2, NewAlone DEF Sound, Around
  <1>4. CASE \E retry : Return(retry)
    BY <1>1, <1>3, <1>4, UninstalledConsistent DEF Return
  <1>5. ASSUME NEW g \in Generations, ~provided, Stored(Generated(g)), Goto("install"),
               dir' = Built(Generated(g), Generated(g))
        PROVE  Consistent'
    <2>1. secret' = Generated(g) /\ pc' = "install" /\ dir'.present
          /\ dir'.certs = Generated(g) /\ dir'.genesis = Generated(g)
      BY <1>5 DEF Stored, Goto, Built
    <2>2. FromProvider(dir.certs)'
      BY <2>1 DEF FromProvider
    <2> QED
      BY <1>1, <1>2, <1>3, <2>1, <2>2, GeneratedHas, UninstalledConsistent
  <1>6. ASSUME provided, UNCHANGED secrets, copy.wanted \subseteq Having(secretCache),
               dir' = Built(secretCache, Only(copy.wanted, secretCache)), Goto("install")
        PROVE  Consistent'
    <2>1. secret' = secret /\ pc' = "install" /\ dir'.present
          /\ dir'.certs = secretCache /\ dir'.genesis = Only(copy.wanted, secretCache)
      BY <1>6 DEF secrets, Goto, Built
    <2>2. FromProvider(secretCache) /\ secretCache \in Certificates
      BY <1>6 DEF Sound, ProvidersOwn, Shown, CertificatesOK, PlacesOK
    <2>3. FromProvider(dir.certs)'
      BY <2>1, <2>2 DEF FromProvider, Having
    <2> QED
      BY <1>1, <1>2, <1>3, <1>6, <2>1, <2>2, <2>3, OnlyHas, UninstalledConsistent
  <1> QED
    BY <1>4, <1>5, <1>6 DEF Prepare, PrepareOwn, PrepareProvided

\* What Helm deploys of a directory whose certificates are stored is stored.
LEMMA DeployedConsistent ==
    ASSUME Shown, Consistent, UNCHANGED <<provided, dir>>, secret' = secret, release' = Deployed,
           dir.present, FromProvider(dir.certs), dir.genesis # NoCertificates,
           Agrees(dir.certs, dir.genesis)
    PROVE  Kept' /\ Suits'
  <1>1. dir.certs \in Certificates /\ dir.genesis \in Certificates
    BY DEF Shown, CertificatesOK, PlacesOK, Dirs
  <1>2. release'.certs = Only(dir.members, dir.certs) /\ release'.genesis = dir.genesis
    BY DEF Deployed
  <1>3. FromProvider(Only(dir.members, dir.certs))
    BY <1>1, OnlyOwn
  <1>4. FromProvider(dir.genesis)
    BY DEF FromProvider, Agrees, Having
  <1>5. Kept'
    BY <1>2, <1>3, <1>4 DEF Kept, FromProvider, Having
  <1>6. Agrees(dir.certs, Only(dir.members, dir.certs))
    BY <1>1 DEF Agrees, Having, Only
  <1>7. Suits'
    BY <1>2, <1>6 DEF Suits, Agrees
  <1> QED
    BY <1>5, <1>7

LEMMA InstallConsistent ==
    ASSUME Sound, Consistent, CertificatesOK', Install PROVE Consistent'
  <1>1. /\ pc = "install" /\ copy.state = "New" /\ Busy /\ release' = Deployed
        /\ UNCHANGED <<provided, dir, secret>> /\ dir.present
        /\ pc' = "idle" \/ (pc' = "save" /\ draft'.state = "Installed")
    BY DEF Install, Sound, Shown, Holding, Busy, Consistent, Making, user, secrets, Save, Return
  <1>2. /\ FromProvider(dir.certs) /\ dir.genesis # NoCertificates
        /\ Agrees(dir.certs, dir.genesis)
    BY <1>1 DEF Consistent, Making
  <1>3. Kept' /\ Suits'
    BY <1>1, <1>2, DeployedConsistent DEF Sound
  <1>4. ~Around("NeedsUpdate")'
    BY <1>1, NewAlone, WorkShown DEF Works, Sound, Around
  <1> QED
    BY <1>1, <1>3, <1>4 DEF Consistent, Lost, Making, Saved

LEMMA NeedsUpdateConsistent ==
    ASSUME Sound, Consistent, CertificatesOK', HandleNeedsUpdate PROVE Consistent'
  <1>1. /\ pc = "handle" /\ copy.state = "NeedsUpdate" /\ Busy /\ dir.present
        /\ UNCHANGED <<provided, dir, secret, secretCache, secretWatch>>
        /\ pc' = "idle" \/ (pc' = "save" /\ draft'.state = "Installed")
    BY DEF HandleNeedsUpdate, Handling, Busy, user, secrets, Save, Return
  <1>2. Around("NeedsUpdate") /\ Seen' \subseteq Seen
    BY <1>1, SeenIs, WorkShown DEF Works, Sound, Around
  <1>3. CASE release.installed /\ release' = Deployed
    <2>1. FromProvider(dir.certs) /\ dir.genesis # NoCertificates /\ Agrees(dir.certs, dir.genesis)
      BY <1>1, <1>2, <1>3 DEF Consistent, Saved, Kept, Suits
    <2>2. Kept' /\ Suits'
      BY <1>1, <1>3, <2>1, DeployedConsistent DEF Sound
    <2>3. Saved'
      BY <1>1, <1>2, <1>3, <2>1 DEF Consistent, Saved, FromProvider, Around, Having
    <2> QED
      BY <1>1, <2>2, <2>3 DEF Consistent, Lost, Making
  <1>4. CASE release' = release
    <2>1. Kept' /\ Suits' /\ Lost' /\ Making'
      BY <1>1, <1>4 DEF Consistent, Kept, Suits, Lost, Making, FromProvider, Agrees
    <2>2. Saved'
      BY <1>1, <1>2, <1>4 DEF Consistent, Saved, FromProvider, Around, Having
    <2> QED
      BY <2>1, <2>2 DEF Consistent
  <1> QED
    BY <1>3, <1>4 DEF HandleNeedsUpdate

\* The directory of a Ready network is extended, or unpacked once more.
LEMMA RebuiltConsistent ==
    ASSUME Sound, Consistent, CertificatesOK', Handling("Ready"), Seen' \subseteq Seen,
           provided' = provided, release' = release,
           NEW certs, dir' = Rebuilt(certs), secret' = secret \/ secret' = certs,
           release.installed => Holds(certs),
           release.installed /\ Around("NeedsUpdate") =>
               /\ \A m \in Having(certs) : certs[m] = secret'[m]
               /\ ~provided => Having(dir.certs) \subseteq Having(certs),
           \/ pc' = "idle"
           \/ /\ pc' = "save" /\ copy' = copy
              /\ ~provided => secret' = certs /\ copy.wanted \subseteq Having(certs)
    PROVE  Consistent'
  <1>1. dir.present /\ dir \in Dirs
    BY DEF Handling, Sound, Shown, CertificatesOK, PlacesOK
  <1>2. dir'.present /\ dir'.certs = certs /\ dir'.genesis = dir.genesis
    BY <1>1 DEF Rebuilt, Dirs
  <1>3. Kept'
    <2>1. ASSUME release.installed
          PROVE  /\ \A m \in Having(release.genesis) : release.genesis[m] = secret'[m]
                 /\ \A m \in Having(release.certs) : release.certs[m] = secret'[m]
      BY <2>1 DEF Consistent, Kept, FromProvider, Holds, Agrees
    <2> QED
      BY <2>1 DEF Consistent, Kept, FromProvider, Having
  <1>4. Suits'
    BY <1>1, <1>2 DEF Consistent, Suits, Holds, Agrees
  <1>5. Lost' /\ Making'
    BY <1>2 DEF Lost, Making
  <1>6. Around("NeedsUpdate")' => Around("NeedsUpdate")
    BY DEF Around
  <1>7. ASSUME release'.installed, Around("NeedsUpdate")'
        PROVE  /\ FromProvider(dir.certs)'
               /\ ~provided' => \A x \in Seen' : x.state = "Ready" => x.wanted \subseteq Having(dir'.certs)
    <2>1. \A m \in Having(certs) : certs[m] = secret'[m]
      BY <1>6, <1>7
    <2>2. ASSUME ~provided, NEW x \in Seen, x.state = "Ready" PROVE x.wanted \subseteq Having(certs)
      BY <1>6, <1>7, <2>2 DEF Consistent, Saved
    <2> QED
      BY <1>2, <2>1, <2>2 DEF FromProvider, Having
  <1>8. ASSUME ~provided', pc' = "save"
        PROVE  FromProvider(dir.certs)' /\ copy'.wanted \subseteq Having(dir'.certs)
    BY <1>2, <1>8 DEF FromProvider
  <1>9. Saved'
    BY <1>7, <1>8 DEF Saved, Having
  <1> QED
    BY <1>3, <1>4, <1>5, <1>9 DEF Consistent

LEMMA ExtendedHas ==
    ASSUME NEW certs \in Certificates, NEW g \in Generations, copy.wanted \subseteq Members
    PROVE  /\ Having(certs) \subseteq Having(Extended(certs, g))
           /\ copy.wanted \subseteq Having(Extended(certs, g))
           /\ copy.wanted \subseteq Having(certs) => Extended(certs, g) = certs
  BY DEF Having, Extended, Certificates

LEMMA ExtendOwnConsistent ==
    ASSUME Sound, Consistent, CertificatesOK', HandleReady, ExtendOwn PROVE Consistent'
  <1>1. /\ Handling("Ready") /\ provided' = provided /\ release' = release /\ ~provided
        /\ Busy /\ copy.state = "Ready"
    BY DEF HandleReady, ExtendOwn, user, Handling, Busy
  <1>2. Seen' \subseteq Seen /\ copy \in Seen
    BY <1>1, SeenIs, WorkShown DEF Works, Sound
  <1>3. /\ dir.certs \in Certificates /\ release.certs \in Certificates
        /\ release.genesis \in Certificates /\ copy.wanted \subseteq Members
    BY CopyType DEF Sound, Shown, CertificatesOK, PlacesOK, Dirs, Releases
  <1>4. PICK g \in Generations :
        /\ dir' = Rebuilt(Extended(dir.certs, g))
        /\ secret' = Extended(dir.certs, g) \/ (secret' = secret /\ pc' = "idle")
        /\ pc' = "idle" \/ (pc' = "save" /\ copy' = copy)
    BY DEF ExtendOwn, Stored, secrets, Save, Return
  <1>5. PICK certs : certs = Extended(dir.certs, g)
    OBVIOUS
  <1>6. /\ Having(dir.certs) \subseteq Having(certs) /\ copy.wanted \subseteq Having(certs)
        /\ copy.wanted \subseteq Having(dir.certs) => certs = dir.certs
    BY <1>3, <1>5, ExtendedHas
  <1>7. release.installed => Holds(certs)
    BY <1>1, <1>3, <1>5, ExtendedAgrees DEF Consistent, Suits, Holds, Handling
  <1>8. ASSUME release.installed, Around("NeedsUpdate")
        PROVE  \A m \in Having(certs) : certs[m] = secret'[m]
    <2>1. FromProvider(dir.certs) /\ copy.wanted \subseteq Having(dir.certs)
      BY <1>1, <1>2, <1>8 DEF Consistent, Saved
    <2> QED
      BY <1>4, <1>5, <1>6, <2>1 DEF FromProvider
  <1>9. secret' = certs \/ (secret' = secret /\ pc' = "idle")
    BY <1>4, <1>5
  <1>10. dir' = Rebuilt(certs)
    BY <1>4, <1>5
  <1> QED
    BY <1>1, <1>2, <1>4, <1>6, <1>7, <1>8, <1>9, <1>10, RebuiltConsistent

LEMMA ReadyConsistent ==
    ASSUME Sound, careful, careful', Consistent, CertificatesOK', ProvidersOwn', HandleReady,
           NeverCrashed' <=> NeverCrashed
    PROVE  Consistent'
  <1>1. /\ Handling("Ready") /\ provided' = provided /\ release' = release /\ dir.present
        /\ Busy /\ copy.state = "Ready" /\ net' = net
    BY DEF HandleReady, user, resource, Handling, Busy
  <1>2. Seen' \subseteq Seen /\ copy \in Seen
    BY <1>1, SeenIs, WorkShown DEF Works, Sound
  <1>3. /\ dir \in Dirs /\ dir.certs \in Certificates /\ release.certs \in Certificates
        /\ release.genesis \in Certificates /\ secretCache \in Certificates
    BY DEF Sound, Shown, CertificatesOK, PlacesOK, Dirs, Releases
  <1>4. CASE ExtendOwn
    BY <1>4, ExtendOwnConsistent
  <1>5. CASE Return(FALSE) /\ UNCHANGED <<secrets, dir, faults>>
    <2>1. pc' = "idle" /\ UNCHANGED <<provided, dir, release>> /\ secret' = secret
          /\ secretCache' = secretCache /\ secretWatch' = secretWatch
      BY <1>1, <1>5 DEF Return, secrets
    <2> QED
      BY <1>1, <1>2, <2>1, LikeConsistent DEF Sound
  <1>6. CASE DownloadProvided
    <2>1. provided /\ secret' = secret /\ (pc' = "idle" \/ (pc' = "save" /\ copy' = copy))
      BY <1>6 DEF DownloadProvided, secrets, Save, Return
    <2>2. PICK certs :
            /\ dir' = Rebuilt(certs)
            /\ \/ \E longer \in SUBSET Having(dir.certs) :
                      certs = Unpacked(dir.certs, secretCache, longer)
               \/ certs \in PartlyUnpacked(dir.certs, secretCache)
      BY <1>6 DEF DownloadProvided
    <2>3. release.installed => Holds(certs)
      <3>1. FromProvider(secretCache)
        BY <2>1 DEF Sound, ProvidersOwn
      <3>2. release.installed => /\ FromProvider(release.genesis) /\ FromProvider(release.certs)
                                 /\ Agrees(dir.certs, release.genesis)
                                 /\ Agrees(dir.certs, release.certs)
        BY <1>1 DEF Consistent, Kept, Suits
      <3> QED
        BY <1>3, <2>2, <3>1, <3>2, UnpackedAgrees, PartlyAgrees DEF Holds
    <2>4. \A m \in Having(certs) : certs[m] = secret'[m]
      <3>1. FromProvider(dir.certs)'
        BY <1>1, <2>1 DEF ProvidersOwn
      <3>2. dir'.certs = certs
        BY <1>3, <2>2 DEF Rebuilt, Dirs
      <3> QED
        BY <3>1, <3>2 DEF FromProvider, Having
    <2> QED
      BY <1>1, <1>2, <2>1, <2>2, <2>3, <2>4, RebuiltConsistent
  <1>7. CASE Fault /\ Return(TRUE) /\ dir' = Rebuilt(dir.certs) /\ UNCHANGED secrets
    <2>1. PICK certs : certs = dir.certs
      OBVIOUS
    <2>2. dir' = Rebuilt(certs) /\ secret' = secret /\ pc' = "idle"
      BY <1>7, <2>1 DEF Return, secrets
    <2>3. release.installed => Holds(certs)
      BY <1>1, <2>1 DEF Consistent, Suits, Holds
    <2>4. release.installed /\ Around("NeedsUpdate") => \A m \in Having(certs) : certs[m] = secret'[m]
      BY <2>1, <2>2 DEF Consistent, Saved, FromProvider
    <2> QED
      BY <1>1, <1>2, <2>1, <2>2, <2>3, <2>4, RebuiltConsistent
  <1> QED
    BY <1>4, <1>5, <1>6, <1>7 DEF HandleReady

\* Steps that leave every certificate where it is.
LEMMA EditConsistent ==
    ASSUME Sound, Consistent, CertificatesOK', Edit, NeverCrashed' <=> NeverCrashed
    PROVE  Consistent'
  <1>1. /\ UNCHANGED <<provided, dir, release, pc, copy, draft>> /\ secret' = secret
        /\ secretCache' = secretCache /\ secretWatch' = secretWatch
        /\ \E members \in (SUBSET Members) \ {{}, net.wanted} :
               Written([net EXCEPT !.wanted = members])
    BY DEF Edit, secrets
  <1>2. PICK members \in (SUBSET Members) \ {{}, net.wanted} :
               Written([net EXCEPT !.wanted = members])
    BY <1>1
  <1> DEFINE edited == [net EXCEPT !.wanted = members]
  <1>3. edited \in Networks /\ edited.state = net.state
    BY DEF Sound, Shown, CertificatesOK, NetworksOK, Networks
  <1>4. Written(edited)
    BY <1>2
  <1> HIDE DEF edited
  <1>5. net' = edited /\ Seen' \subseteq Seen \union {edited}
    BY <1>1, <1>3, <1>4, WrittenSeen DEF Sound, Shown, Busy
  <1>6. \A x \in Seen' : x \in Seen \/ x.state = net.state
    BY <1>3, <1>5
  <1>7. ~dir.present => pc' \in {"idle", "handle"}
    BY <1>1 DEF Consistent, Lost
  <1> QED
    BY <1>1, <1>3, <1>5, <1>6, <1>7, LikeConsistent DEF Sound

LEMMA QuietConsistent ==
    ASSUME Sound, Consistent, CertificatesOK', NeverCrashed' <=> NeverCrashed,
           Begin \/ Deliver \/ TimerFires \/ UNCHANGED vars
           \/ HandleInstalled \/ NextFlow \/ CallFails
    PROVE  Consistent'
  <1>1. /\ UNCHANGED <<provided, dir, release>> /\ secret' = secret
        /\ secretCache' = secretCache /\ secretWatch' = secretWatch /\ net' = net
    BY DEF Begin, Deliver, TimerFires, vars, HandleInstalled, NextFlow, CallFails, user, secrets,
           resource
  <1>2. Seen' \subseteq Seen
    BY BeginShown, DeliverShown, OtherShown, WorkShown DEF Sound, Works
  <1>3. ~dir.present => pc \in {"idle", "handle"}
    BY DEF Consistent, Lost
  <1>4. CASE Begin
    <2>1. pc' = "handle"
      BY <1>4 DEF Begin
    <2> QED
      BY <1>1, <1>2, <2>1, LikeConsistent DEF Sound
  <1>5. CASE Deliver \/ TimerFires \/ UNCHANGED vars
    <2>1. UNCHANGED <<pc, copy, draft>>
      BY <1>5 DEF Deliver, TimerFires, vars, worker
    <2> QED
      BY <1>1, <1>2, <1>3, <2>1, LikeConsistent DEF Sound
  <1>6. CASE HandleInstalled
    <2>1. /\ dir.present
          /\ pc' = "next" \/ (pc' = "save" /\ draft'.state = "New")
      BY <1>6 DEF HandleInstalled, Handling, Save, Goto
    <2> QED
      BY <1>1, <1>2, <2>1, LikeConsistent DEF Sound
  <1>7. CASE NextFlow
    <2>1. pc = "next" /\ pc' = "save" /\ draft'.state = "Ready"
      BY <1>7 DEF NextFlow, Save
    <2> QED
      BY <1>1, <1>2, <1>3, <2>1, LikeConsistent DEF Sound
  <1>8. CASE CallFails
    <2>1. pc' = "idle"
      BY <1>8 DEF CallFails, Return
    <2> QED
      BY <1>1, <1>2, <2>1, LikeConsistent DEF Sound
  <1> QED
    BY <1>4, <1>5, <1>6, <1>7, <1>8

\* A careful provider only adds files.
LEMMA SupplyConsistent ==
    ASSUME Sound, Consistent, CertificatesOK', careful', ProvidersOwn', NEW m \in Members, Supply(m)
    PROVE  Consistent'
  <1>1. /\ provided /\ provided' /\ UNCHANGED <<dir, release, pc, copy, draft, crashes>> /\ net' = net
        /\ \E g \in Generations : Stored([secret EXCEPT ![m] = {g}])
    BY DEF Supply, resource, worker
  <1>2. /\ secretCache' = secretCache /\ secretWatch' \in {secretWatch, Append(secretWatch, secret')}
    BY <1>1 DEF Stored
  <1>3. /\ FromProvider(dir.certs)' /\ FromProvider(release.certs)' /\ FromProvider(release.genesis)'
    BY <1>1 DEF ProvidersOwn
  <1>4. Seen' \subseteq Seen
    BY OtherShown DEF Sound
  <1>5. Kept' /\ Suits'
    BY <1>1, <1>3 DEF Consistent, Kept, Suits, Agrees
  <1>6. Holds(secret)'
    BY <1>3 DEF Holds, FromProvider, Agrees, Having
  <1>7. secretWatch \in Seq(Certificates)
    BY DEF Sound, Shown, CertificatesOK, PlacesOK
  <1>8. ASSUME release.installed, ~dir.present, NEW i \in DOMAIN secretWatch'
        PROVE  secretWatch'[i] = secret' \/ Holds(secretWatch'[i])
    <2>1. \A j \in DOMAIN secretWatch : Holds(secretWatch[j])
      BY <1>8 DEF Consistent, Lost
    <2>2. secretWatch' = secretWatch \/ secretWatch' = Append(secretWatch, secret')
      BY <1>2
    <2>3. CASE secretWatch' = secretWatch
      BY <1>8, <2>1, <2>3
    <2>4. CASE secretWatch' = Append(secretWatch, secret')
      <3>1. /\ DOMAIN secretWatch = 1..Len(secretWatch) /\ Len(secretWatch) \in Nat
            /\ DOMAIN secretWatch' = 1..(Len(secretWatch) + 1)
            /\ secretWatch'[Len(secretWatch) + 1] = secret'
            /\ \A j \in 1..Len(secretWatch) : secretWatch'[j] = secretWatch[j]
        BY <1>7, <2>4
      <3>2. i = Len(secretWatch) + 1 \/ i \in DOMAIN secretWatch
        BY <1>8, <3>1
      <3> QED
        BY <2>1, <3>1, <3>2
    <2> QED
      BY <2>2, <2>3, <2>4
  <1>9. Lost'
    <2>1. ASSUME ~dir'.present, release'.installed, NEW i \in DOMAIN secretWatch'
          PROVE  /\ Agrees(secretWatch'[i], release'.genesis) /\ Agrees(secretWatch'[i], release'.certs)
                 /\ Agrees(secretCache', release'.genesis) /\ Agrees(secretCache', release'.certs)
      <3>1. Holds(secretWatch'[i]) \/ secretWatch'[i] = secret'
        BY <1>1, <1>8, <2>1
      <3>2. Holds(secretCache)
        BY <1>1, <2>1 DEF Consistent, Lost
      <3> QED
        BY <1>1, <1>2, <1>6, <3>1, <3>2 DEF Holds, Agrees
    <2>2. ASSUME ~dir'.present, release'.installed PROVE Holds(secretCache)'
      BY <1>1, <1>2, <2>2 DEF Consistent, Lost, Holds, Agrees
    <2>3. \A state : Around(state)' => Around(state)
      BY <1>4 DEF Around
    <2> QED
      BY <1>1, <2>1, <2>2, <2>3 DEF Consistent, Lost, Holds, NeverCrashed
  <1>10. Making' /\ Saved'
    BY <1>1, <1>3 DEF Consistent, Making, Saved, Agrees
  <1> QED
    BY <1>5, <1>9, <1>10 DEF Consistent

LEMMA DeliverSecretConsistent ==
    ASSUME Sound, Consistent, CertificatesOK', DeliverSecret PROVE Consistent'
  <1>1. /\ UNCHANGED <<provided, dir, release, pc, copy, draft, crashes>> /\ secret' = secret
        /\ secretWatch # <<>> /\ secretCache' = Head(secretWatch) /\ secretWatch' = Tail(secretWatch)
        /\ secretWatch \in Seq(Certificates)
    BY DEF DeliverSecret, user, worker, Sound, Shown, CertificatesOK, PlacesOK
  <1>2. Seen' \subseteq Seen
    BY OtherShown DEF Sound
  <1>3. \A state : Around(state)' => Around(state)
    BY <1>2 DEF Around
  <1>4. Kept' /\ Suits' /\ Making'
    BY <1>1 DEF Consistent, Kept, Suits, Making, FromProvider, Agrees
  <1>5. Saved'
    BY <1>1, <1>2, <1>3 DEF Consistent, Saved, FromProvider, Having
  <1>6. ASSUME release.installed, ~dir.present
        PROVE  /\ Holds(secretCache') /\ \A i \in DOMAIN secretWatch' : Holds(secretWatch'[i])
               /\ provided
    <2>1. \A i \in DOMAIN secretWatch : Holds(secretWatch[i])
      BY <1>6 DEF Consistent, Lost
    <2>2. /\ Len(secretWatch) \in Nat \ {0} /\ DOMAIN secretWatch = 1..Len(secretWatch)
          /\ Head(secretWatch) = secretWatch[1] /\ DOMAIN Tail(secretWatch) = 1..(Len(secretWatch) - 1)
          /\ \A i \in 1..(Len(secretWatch) - 1) : Tail(secretWatch)[i] = secretWatch[i + 1]
      BY <1>1
    <2>3. 1 \in DOMAIN secretWatch /\ \A i \in DOMAIN secretWatch' : i + 1 \in DOMAIN secretWatch
      BY <1>1, <2>2
    <2>4. Holds(secretCache')
      BY <1>1, <2>1, <2>2, <2>3
    <2>5. \A i \in DOMAIN secretWatch' : Holds(secretWatch'[i])
      BY <1>1, <2>1, <2>2, <2>3
    <2>6. provided
      BY <1>1, <1>6 DEF Consistent, Lost
    <2> QED
      BY <2>4, <2>5, <2>6
  <1>7. Lost'
    BY <1>1, <1>3, <1>6 DEF Consistent, Lost, Holds, Agrees, NeverCrashed
  <1> QED
    BY <1>4, <1>5, <1>7 DEF Consistent

\* A restarted operator lists what has been stored.
LEMMA CrashConsistent ==
    ASSUME Sound, Consistent, CertificatesOK', Crash PROVE Consistent'
  <1>1. /\ UNCHANGED <<provided, release>> /\ secret' = secret /\ pc' = "idle" /\ dir' = NoDir
        /\ secretWatch' = <<>> /\ secretCache' = secret
    BY DEF Crash, user
  <1>2. \A x \in Seen' : x = net
    BY CrashShown DEF Sound
  <1>3. ~NeverCrashed'
    <2>1. crashes \in 0..MaxCrashes /\ crashes' = crashes - 1
      BY DEF Crash, Sound, Shown, CertificatesOK, FailuresOK
    <2> QED
      BY <2>1, BoundsAreNaturals DEF NeverCrashed
  <1>4. ~dir'.present /\ DOMAIN secretWatch' = {}
    BY <1>1 DEF NoDir
  <1>5. Kept' /\ Suits' /\ Making'
    BY <1>1, <1>4 DEF Consistent, Kept, Suits, Making, FromProvider
  <1>6. ~(Around("Ready")' /\ Around("NeedsUpdate")')
    BY <1>2 DEF Around
  <1>7. release'.installed => Holds(secretCache)'
    BY <1>1 DEF Consistent, Kept, FromProvider, Holds, Agrees, Having
  <1>8. Lost'
    BY <1>1, <1>3, <1>4, <1>6, <1>7 DEF Lost
  <1>9. FromProvider(dir.certs)'
    BY <1>1, NothingOwn DEF FromProvider, Having
  <1>10. Saved'
    BY <1>1, <1>6, <1>9 DEF Saved, Around
  <1> QED
    BY <1>5, <1>8, <1>10 DEF Consistent

LEMMA SoundInit == Init => Sound
  <1> SUFFICES ASSUME Init PROVE Sound
    OBVIOUS
  <1>1. ~release.installed /\ pc = "idle" /\ net.state = "New" /\ watch = <<>> /\ cache = net
    BY DEF Init, NoRelease
  <1>2. DOMAIN watch = {}
    BY <1>1
  <1>3. ~Around("NeedsUpdate")
    BY <1>1, <1>2 DEF Around, Seen, Busy
  <1>4. Consistent
    BY <1>1, <1>3 DEF Consistent, Kept, Suits, Lost, Making, Saved
  <1> QED
    BY <1>4, ShownInit, OwnInit DEF Sound

LEMMA SoundStep == Sound /\ [Next]_vars => Sound'
  <1> SUFFICES ASSUME Sound, [Next]_vars PROVE Sound'
    OBVIOUS
  <1>1. Shown' /\ CertificatesOK' /\ ProvidersOwn'
    BY ShownStep, OwnStep DEF Sound, Shown
  <1> SUFFICES ASSUME Steady', careful' PROVE Consistent'
    BY <1>1 DEF Sound
  <1>2. /\ Steady /\ careful /\ (Fault => NeverCrashed) /\ Consistent
        /\ ~Crash => (NeverCrashed' <=> NeverCrashed)
    BY StillSteady DEF Sound, Shown
  <1> QED
    BY <1>1, <1>2, SaveConsistent, ReconstructConsistent, TeardownConsistent, PrepareConsistent,
       InstallConsistent, NeedsUpdateConsistent, ReadyConsistent, EditConsistent, QuietConsistent,
       SupplyConsistent, DeliverSecretConsistent, CrashConsistent DEF Next, Worker

-----------------------------------------------------------------------------
LEMMA SoundImplies == Sound => GenesisMatches /\ Restorable
  <1> SUFFICES ASSUME Sound, release.installed, Steady, careful
               PROVE  /\ release.genesis # NoCertificates
                      /\ \A m \in Having(release.genesis) \intersect Having(release.certs) :
                              release.genesis[m] = release.certs[m]
                      /\ \A m \in Having(release.certs) : secret[m] = release.certs[m]
    BY DEF GenesisMatches, Restorable
  <1>1. /\ release.genesis # NoCertificates
        /\ FromProvider(release.genesis) /\ FromProvider(release.certs)
    BY DEF Sound, Consistent, Kept
  <1> QED
    BY <1>1 DEF FromProvider

LEMMA SoundAlways == Spec => []Sound
  <1> QED
    BY SoundInit, SoundStep, PTL DEF Spec

\* A chart is installed and updated (installHelmChart, updateHelmChart in
\* src/controllers/helm_util.go) with certificates that its genesis block was made of,
\* whether prepareChartDirForFabric made it or maybeReconstructHelmChart downloaded it, in
\* whatever order the operator reads the network and the secret, and with restarts or
\* failing calls.
THEOREM GenesisMatchesAlways == Spec => []GenesisMatches
  <1> QED
    BY SoundAlways, SoundImplies, PTL

\* Certificates are in the secret hlf-crypto-config, where storeCryptoConfig puts them,
\* before Helm deploys them and as long as they are deployed.
THEOREM RestorableAlways == Spec => []Restorable
  <1> QED
    BY SoundAlways, SoundImplies, PTL

LEMMA SoundKeeps == Sound /\ [Next]_vars => [Steady' /\ careful => Keeping]_vars
  <1> SUFFICES ASSUME Sound, Next, Steady', careful PROVE Keeping
    BY DEF Keeping, vars
  <1>1. CASE release' = release
    BY <1>1 DEF Keeping
  <1>2. CASE Teardown
    BY <1>2 DEF Keeping, Teardown, NoRelease
  <1>3. CASE Install \/ HandleNeedsUpdate
    <2>1. careful' = careful
      BY <1>3 DEF Install, HandleNeedsUpdate, user
    <2>2. Consistent
      BY <2>1, StillSteady DEF Sound, Shown
    <2>3. CASE Install
      BY <2>2, <2>3 DEF Install, Consistent, Making, Keeping
    <2>4. CASE HandleNeedsUpdate /\ release' = Deployed
      <3>1. dir.present
        BY <2>4 DEF HandleNeedsUpdate, Handling
      <3>2. release.installed => Agrees(dir.certs, release.certs)
        BY <2>2, <3>1 DEF Consistent, Suits
      <3>3. release'.certs = Only(dir.members, dir.certs)
        BY <2>4 DEF Deployed
      <3>4. \A m \in Having(release.certs) \intersect dir.members : release'.certs[m] = dir.certs[m]
        BY <3>3 DEF Only, Having
      <3> QED
        BY <3>2, <3>4 DEF Keeping, Agrees
    <2> QED
      BY <1>1, <1>3, <2>3, <2>4 DEF HandleNeedsUpdate
  <1> QED
    BY <1>1, <1>2, <1>3
       DEF Next, Worker, Begin, Reconstruct, Prepare, HandleInstalled, NextFlow, HandleReady,
           SaveStatus, CallFails, Deliver, DeliverSecret, TimerFires, Crash, Edit, Supply

\* While a network is installed the certificates of its members are only ever extended by
\* those of new ones: neither extendOrDownloadCertificates nor a directory that
\* maybeReconstructHelmChart makes anew replaces or drops any.
THEOREM OnlyExtendedAlways == Spec => OnlyExtended
  <1> QED
    BY SoundAlways, SoundKeeps, PTL DEF Spec, OnlyExtended

-----------------------------------------------------------------------------
\* While the user waits for each change to be applied before the next, a network is New
\* only until it is first installed, and in that time nobody else holds a version of it.
Token == (queued => ~delayed /\ ~Busy) /\ (delayed => ~Busy)
Once ==
    /\ net.state = "New" => watch = <<>> /\ cache = net /\ Token
    /\ net.state # "New" =>
          /\ \A i \in DOMAIN watch : watch[i].state # "New"
          /\ cache.state = "New" => ~queued /\ ~delayed /\ ~Busy
          /\ Busy => copy.state # "New"
    /\ pc = "next" => copy.state = "Installed"
    /\ pc = "save" => draft.state # "New" /\ (draft.state = "Ready" => copy.state = "Installed")

\* Of an unsettled network all versions want the same.
Same ==
    /\ net.state # "Ready" => \A x \in Seen : x.wanted = net.wanted
    /\ \A x \in Seen : x.state # "Ready" => x.observed = x.wanted

\* What an update needs is stored, and is in the directory.
Stocked ==
    release.installed /\ Around("NeedsUpdate") =>
        /\ net.wanted \subseteq Having(secret)
        /\ dir.present => net.wanted \subseteq dir.members /\ net.wanted \subseteq Having(dir.certs)

\* What the worker is about to deploy or to save is what the directory or the release has.
Carried ==
    /\ pc = "install" => dir.members = copy.wanted /\ copy.wanted \subseteq Having(dir.certs)
    /\ pc = "save" /\ draft.state = "NeedsUpdate" =>
          dir.members = copy.wanted /\ draft.observed = copy.wanted
    /\ pc = "save" /\ draft.state = "Installed" => copy.wanted \subseteq Having(release.certs)
    /\ pc = "save" /\ draft.state \in {"Installed", "Ready"} =>
          draft.observed = copy.observed /\ ~draft.checked

\* What is reported installed, or settled, is deployed.
Covered == net.state = "Installed" \/ Settled => net.wanted \subseteq Having(release.certs)

Ordered == Once /\ Same /\ Stocked /\ Carried /\ Covered
Waited == ~provided /\ patient /\ Steady
Fitted == Sound /\ (~provided => careful) /\ (Waited => Ordered)

\* A user who has waited so far had waited before.
LEMMA StillWaited ==
    ASSUME CertificatesOK, [Next]_vars
    PROVE  /\ provided' = provided /\ (patient' => patient)
           /\ (~provided => careful) => (~provided' => careful')
  <1>1. CASE UNCHANGED user
    BY <1>1 DEF user
  <1>2. CASE Edit
    BY <1>2 DEF Edit
  <1>3. CASE \E m \in Members : Supply(m)
    BY <1>3 DEF Supply
  <1>4. Next \/ UNCHANGED vars
    OBVIOUS
  <1> QED
    BY <1>1, <1>2, <1>3, <1>4
       DEF Next, Worker, Begin, Reconstruct, Teardown, Prepare, Install, HandleNeedsUpdate,
           HandleInstalled, NextFlow, HandleReady, SaveStatus, CallFails, Deliver, DeliverSecret,
           TimerFires, Crash, vars

LEMMA SameShrinks ==
    ASSUME Same, Seen' \subseteq Seen, net' = net PROVE Same'
  BY DEF Same

LEMMA SeenTypes ==
    ASSUME CertificatesOK, NEW x \in Seen PROVE x \in Networks
  <1>1. watch \in Seq(Networks) /\ net \in Networks /\ cache \in Networks /\ copy \in Networks
    BY DEF CertificatesOK, NetworksOK, WorkerOK
  <1>2. \A i \in DOMAIN watch : watch[i] \in Networks
    BY <1>1
  <1> QED
    BY <1>1, <1>2 DEF Seen

\* The worker's steps that write no status leave a New network to itself.
LEMMA WorkOnce ==
    ASSUME Shown, Once, Same, Works PROVE Once'
  <1>1. /\ UNCHANGED <<net, watch, cache>> /\ queued' = queued /\ Busy
        /\ Busy' => UNCHANGED copy
    BY WorkIs DEF Shown, resource, Works, Reconstruct, Teardown, Prepare, Install,
       HandleNeedsUpdate, HandleInstalled, NextFlow, HandleReady, CallFails
  <1>2. CASE \E retry : Return(retry)
    BY <1>1, <1>2 DEF Return, Busy, Once, Token
  <1>3. ASSUME Busy', delayed' = delayed,
               pc' = "next" => copy.state = "Installed",
               pc' = "save" => draft'.state # "New" /\ (draft'.state = "Ready" => copy.state = "Installed")
        PROVE  Once'
    BY <1>1, <1>3 DEF Once, Token
  <1>4. CASE (Reconstruct /\ Goto("handle")) \/ Teardown \/ (Prepare /\ Goto("install"))
    BY <1>3, <1>4 DEF Teardown, Goto, Busy
  <1>5. CASE Save("Installed", copy.observed, FALSE, "idle")
             \/ Save("NeedsUpdate", copy.wanted, TRUE, "idle")
    BY <1>3, <1>5 DEF Save, Busy
  <1>6. CASE HandleInstalled
    <2>1. copy.state = "Installed" /\ copy \in Seen
      BY <1>1, <1>6, SeenIs DEF HandleInstalled, Handling
    <2>2. copy.wanted = copy.observed
      BY <2>1 DEF Same
    <2>3. Goto("next")
      BY <1>6, <2>2 DEF HandleInstalled
    <2> QED
      BY <1>3, <2>1, <2>3 DEF Goto, Busy
  <1>7. CASE NextFlow
    BY <1>3, <1>7 DEF NextFlow, Save, Busy, Once
  <1>8. HandleReady => (\E retry : Return(retry)) \/ Save("NeedsUpdate", copy.wanted, TRUE, "idle")
    BY DEF HandleReady, ExtendOwn, DownloadProvided
  <1>9. Prepare => (\E retry : Return(retry)) \/ Goto("install")
    BY DEF Prepare, PrepareOwn, PrepareProvided
  <1>10. Install \/ HandleNeedsUpdate =>
            (\E retry : Return(retry)) \/ Save("Installed", copy.observed, FALSE, "idle")
    BY DEF Install, HandleNeedsUpdate
  <1>11. Reconstruct => (\E retry : Return(retry)) \/ Goto("handle")
    BY DEF Reconstruct
  <1>12. CallFails => \E retry : Return(retry)
    BY DEF CallFails
  <1> QED
    BY <1>2, <1>4, <1>5, <1>6, <1>7, <1>8, <1>9, <1>10, <1>11, <1>12 DEF Works

\* Steps that leave certificates and the network alone; the worker drops what it carries
\* or keeps it.
LEMMA QuietFitted ==
    ASSUME Stocked, Carried, Covered, Seen' \subseteq Seen,
           net' = net, dir' = dir, secret' = secret, release' = release,
           pc' \in {"idle", "handle", "prepare", "next"} \/ UNCHANGED <<pc, copy, draft>>
    PROVE  Stocked' /\ Carried' /\ Covered'
  <1>1. Around("NeedsUpdate")' => Around("NeedsUpdate")
    BY DEF Around
  <1>2. Stocked'
    BY <1>1 DEF Stocked, Having
  <1>3. Carried'
    BY DEF Carried, Having
  <1>4. Covered'
    BY DEF Covered, Settled, Having
  <1> QED
    BY <1>2, <1>3, <1>4

LEMMA AroundShrinks ==
    ASSUME Seen' \subseteq Seen, NEW state PROVE Around(state)' => Around(state)
  BY DEF Around

\* A new directory is downloaded from what has been stored for all members.
LEMMA ReconstructFitted ==
    ASSUME Sound, Consistent, Ordered, ~provided, CertificatesOK', Reconstruct, Fault => NeverCrashed
    PROVE  Stocked' /\ Carried' /\ Covered'
  <1>1. /\ ~dir.present /\ pc = "handle" /\ Busy /\ pc' \in {"idle", "handle"}
        /\ net' = net /\ release' = release /\ secret' = secret
    BY DEF Reconstruct, Return, Goto, resource, secrets, Busy
  <1>2. Seen' \subseteq Seen /\ copy \in Seen
    BY <1>1, SeenIs, WorkShown DEF Works, Sound
  <1>3. Carried' /\ Covered'
    BY <1>1 DEF Ordered, Carried, Covered, Settled, Having
  <1>4. ASSUME release.installed, Around("NeedsUpdate")
        PROVE  /\ net.wanted \subseteq Having(secret)
               /\ net.wanted \subseteq dir'.members /\ net.wanted \subseteq Having(dir'.certs)
    <2>1. net.wanted \subseteq Having(secret) /\ net.wanted = copy.wanted
      BY <1>2, <1>4 DEF Ordered, Stocked, Same, Sound, Shown, Window
    <2>2. secretCache = secret /\ ~NeverCrashed
      BY <1>1, <1>4 DEF Consistent, Lost
    <2>3. net.wanted # {}
      BY DEF Sound, Shown, Window, Seen
    <2>4. secretCache # NoCertificates
      BY <2>1, <2>2, <2>3 DEF Having, NoCertificates
    <2>5. dir' = Downloaded
      BY <1>4, <2>2, <2>4 DEF Reconstruct
    <2>6. dir'.members = copy.wanted /\ dir'.certs = secretCache
      BY <2>5 DEF Downloaded, Built
    <2> QED
      BY <2>1, <2>2, <2>6
  <1>5. Stocked'
    BY <1>1, <1>2, <1>4, AroundShrinks DEF Stocked, Having
  <1> QED
    BY <1>3, <1>5

\* A New network is not settled, and no update of it is around.
LEMMA NewFitted ==
    ASSUME Sound, Ordered, CertificatesOK', Works, copy.state = "New",
           pc' \in {"idle", "prepare", "install", "save"},
           pc' = "install" => dir'.members = copy.wanted /\ copy.wanted \subseteq Having(dir'.certs),
           pc' = "save" => /\ draft'.state = "Installed" /\ draft'.observed = copy.observed
                           /\ ~draft'.checked /\ copy.wanted \subseteq Having(release'.certs)
    PROVE  Stocked' /\ Carried' /\ Covered'
  <1>1. Seen' \subseteq Seen /\ net' = net /\ Busy /\ (Busy' => copy' = copy)
    BY WorkShown DEF Sound
  <1>2. net.state = "New"
    BY <1>1 DEF Ordered, Once
  <1>3. ~Around("NeedsUpdate")'
    BY <1>1, NewAlone, AroundShrinks DEF Sound
  <1>4. Stocked'
    BY <1>3 DEF Stocked
  <1>5. Covered'
    BY <1>1, <1>2 DEF Covered, Settled
  <1>6. Carried'
    BY <1>1 DEF Carried, Having, Busy
  <1> QED
    BY <1>4, <1>5, <1>6

LEMMA MakingFitted ==
    ASSUME Sound, Ordered, ~provided, CertificatesOK', Teardown \/ Prepare \/ Install
    PROVE  Stocked' /\ Carried' /\ Covered'
  <1>1. copy.state = "New" /\ copy \in Seen
    BY SeenIs DEF Teardown, Handling, Prepare, Install, Sound, Shown, Holding, Busy
  <1>2. copy.wanted # {} /\ copy.wanted \subseteq Members
    BY <1>1, CopyType DEF Sound, Shown, Window, CertificatesOK
  <1>3. CASE Teardown
    BY <1>1, <1>3, NewFitted DEF Works, Teardown, Goto
  <1>4. CASE Prepare
    <2>1. CASE \E retry : Return(retry)
      BY <1>1, <1>4, <2>1, NewFitted DEF Works, Return
    <2>2. ASSUME NEW g \in Generations, dir' = Built(Generated(g), Generated(g)), Goto("install")
          PROVE  Stocked' /\ Carried' /\ Covered'
      <3>1. dir'.members = copy.wanted /\ dir'.certs = Generated(g) /\ pc' = "install"
        BY <2>2 DEF Built, Goto
      <3>2. copy.wanted \subseteq Having(Generated(g))
        BY <1>2, GeneratedHas
      <3> QED
        BY <1>1, <1>4, <3>1, <3>2, NewFitted DEF Works
    <2> QED
      BY <1>4, <2>1, <2>2 DEF Prepare, PrepareOwn, PrepareProvided
  <1>5. CASE Install
    <2>1. /\ dir.members = copy.wanted /\ copy.wanted \subseteq Having(dir.certs)
      BY <1>5 DEF Install, Ordered, Carried
    <2>2. release'.certs = Only(dir.members, dir.certs)
      BY <1>5 DEF Install, Deployed
    <2>3. copy.wanted \subseteq Having(release'.certs)
      BY <2>1, <2>2 DEF Only, Having
    <2>4. CASE Return(TRUE)
      BY <1>1, <1>5, <2>4, NewFitted DEF Works, Return
    <2>5. CASE Save("Installed", copy.observed, FALSE, "idle")
      BY <1>1, <1>5, <2>3, <2>5, NewFitted DEF Works, Save
    <2> QED
      BY <1>5, <2>4, <2>5 DEF Install
  <1> QED
    BY <1>3, <1>4, <1>5

\* An update deploys the certificates of all members.
LEMMA NeedsUpdateFitted ==
    ASSUME Sound, Ordered, CertificatesOK', HandleNeedsUpdate
    PROVE  Stocked' /\ Carried' /\ Covered'
  <1>1. /\ pc = "handle" /\ copy.state = "NeedsUpdate" /\ Busy /\ dir.present
        /\ net' = net /\ dir' = dir /\ secret' = secret
    BY DEF HandleNeedsUpdate, Handling, Busy, resource, secrets
  <1>2. Seen' \subseteq Seen /\ copy \in Seen /\ Around("NeedsUpdate") /\ net.wanted \subseteq Members
    BY <1>1, SeenIs, WorkShown DEF Works, Sound, Around, Shown, CertificatesOK, NetworksOK, Networks
  <1>3. CASE release' = release /\ Return(TRUE)
    BY <1>1, <1>2, <1>3, QuietFitted DEF Return, Ordered
  <1>4. CASE release.installed /\ release' = Deployed
    <2>1. copy.wanted = net.wanted
      BY <1>2 DEF Ordered, Same, Sound, Shown, Window
    <2>2. net.wanted \subseteq dir.members /\ net.wanted \subseteq Having(dir.certs)
      BY <1>1, <1>2, <1>4 DEF Ordered, Stocked
    <2>3. release'.certs = Only(dir.members, dir.certs)
      BY <1>4 DEF Deployed
    <2>4. net.wanted \subseteq Having(release'.certs)
      BY <2>2, <2>3 DEF Only, Having
    <2>5. Stocked'
      BY <1>1, <1>2, <1>4 DEF Ordered, Stocked, Having
    <2>6. Covered'
      BY <1>1, <2>4 DEF Covered, Having
    <2>7. CASE Return(TRUE)
      BY <2>5, <2>6, <2>7 DEF Carried, Return
    <2>8. CASE Save("Installed", copy.observed, FALSE, "idle")
      BY <2>1, <2>4, <2>5, <2>6, <2>8 DEF Carried, Save, Having
    <2> QED
      BY <1>4, <2>7, <2>8 DEF HandleNeedsUpdate
  <1> QED
    BY <1>3, <1>4 DEF HandleNeedsUpdate

\* The directory is extended for the members the network wants, and stored.
LEMMA ReadyFitted ==
    ASSUME Sound, Ordered, ~provided, CertificatesOK', HandleReady
    PROVE  Stocked' /\ Carried' /\ Covered'
  <1>1. /\ pc = "handle" /\ copy.state = "Ready" /\ Busy /\ dir.present
        /\ net' = net /\ release' = release
    BY DEF HandleReady, Handling, Busy, resource
  <1>2. Seen' \subseteq Seen /\ copy \in Seen /\ copy.wanted \subseteq Members
    BY <1>1, SeenIs, WorkShown, CopyType DEF Works, Sound, Shown, CertificatesOK
  <1>3. dir \in Dirs /\ dir.certs \in Certificates
    BY DEF Sound, Shown, CertificatesOK, PlacesOK, Dirs
  <1>4. Covered'
    BY <1>1 DEF Ordered, Covered, Settled, Having
  <1>5. Around("NeedsUpdate") => net.wanted = copy.wanted
    BY <1>2 DEF Ordered, Same, Sound, Shown, Window
  <1>6. CASE Return(FALSE) /\ UNCHANGED <<secrets, dir, faults>>
    BY <1>1, <1>2, <1>6, QuietFitted DEF Return, Ordered, secrets
  <1>7. CASE ExtendOwn
    <2>1. PICK g \in Generations :
            /\ dir' = Rebuilt(Extended(dir.certs, g))
            /\ secret' = Extended(dir.certs, g) \/ secret' = secret
            /\ Save("NeedsUpdate", copy.wanted, TRUE, "idle") \/ Return(TRUE)
      BY <1>7 DEF ExtendOwn, Stored, secrets
    <2>2. dir'.members = copy.wanted /\ dir'.certs = Extended(dir.certs, g)
      BY <1>3, <2>1 DEF Rebuilt, Dirs
    <2>3. copy.wanted \subseteq Having(Extended(dir.certs, g))
      BY <1>2, <1>3, ExtendedHas
    <2>4. Stocked'
      <3>1. ASSUME release.installed, Around("NeedsUpdate") PROVE net.wanted \subseteq Having(secret')
        BY <1>5, <2>1, <2>3, <3>1 DEF Ordered, Stocked
      <3> QED
        BY <1>1, <1>2, <1>5, <2>2, <2>3, <3>1, AroundShrinks DEF Stocked, Having
    <2>5. Carried'
      <3>1. CASE Return(TRUE)
        BY <3>1 DEF Carried, Return
      <3>2. CASE Save("NeedsUpdate", copy.wanted, TRUE, "idle")
        BY <2>2, <3>2 DEF Carried, Save
      <3> QED
        BY <2>1, <3>1, <3>2
    <2> QED
      BY <1>4, <2>4, <2>5
  <1>8. CASE Fault /\ Return(TRUE) /\ dir' = Rebuilt(dir.certs) /\ UNCHANGED secrets
    <2>1. dir'.members = copy.wanted /\ dir'.certs = dir.certs /\ secret' = secret /\ pc' = "idle"
      BY <1>3, <1>8 DEF Rebuilt, Dirs, Return, secrets
    <2>2. Stocked'
      BY <1>1, <1>2, <1>5, <2>1, AroundShrinks DEF Ordered, Stocked, Having
    <2>3. Carried'
      BY <2>1 DEF Carried
    <2> QED
      BY <1>4, <2>2, <2>3
  <1> QED
    BY <1>6, <1>7, <1>8 DEF HandleReady, DownloadProvided

\* A status is saved: with NeedsUpdate what has been stored, with Installed what has been
\* deployed, with Ready what was Installed.
LEMMA SaveFitted ==
    ASSUME Sound, Consistent, Ordered, ~provided, CertificatesOK', SaveStatus
    PROVE  Ordered'
  <1>1. /\ pc = "save" /\ Busy /\ dir' = dir /\ secret' = secret /\ release' = release
        /\ queued' = queued /\ Shown
    BY DEF SaveStatus, secrets, Busy, Sound
  <1>2. draft.state # "New" /\ draft.then # "next"
    BY <1>1 DEF Ordered, Once, Shown, Holding
  <1>3. \/ UNCHANGED resource /\ Return(draft.checked)
        \/ fresh /\ Written(SavedNet) /\ (Return(FALSE) \/ Return(draft.checked))
    BY <1>2 DEF SaveStatus, SavedNet
  <1>4. ~Busy' /\ pc' = "idle"
    BY <1>3 DEF Return, Busy
  <1>5. Carried'
    BY <1>4 DEF Carried
  <1>6. CASE UNCHANGED resource /\ Return(draft.checked)
    <2>1. UNCHANGED <<net, watch, cache>>
      BY <1>6 DEF resource
    <2>2. Seen' \subseteq Seen
      BY <1>4, <2>1 DEF Seen
    <2>3. Once'
      BY <1>1, <1>4, <2>1 DEF Ordered, Once, Token
    <2> QED
      BY <1>1, <1>4, <1>5, <2>1, <2>2, <2>3, SameShrinks, QuietFitted DEF Ordered
  <1>7. CASE fresh /\ Written(SavedNet) /\ (Return(FALSE) \/ Return(draft.checked))
    <2>1. /\ copy = net /\ <<net.state, draft.state>> \in Saves
          /\ SavedNet \in Networks /\ SavedNet.state = draft.state
          /\ SavedNet.wanted = net.wanted /\ SavedNet.observed = draft.observed /\ net \in Seen
      BY <1>1, <1>7, SavedIs
    <2>2. \A x \in Seen : x = net
      BY <1>1, <1>2, <1>7, <2>1, SavedIs DEF Ordered, Once, Shown, Fresh, Renewed
    <2>3. /\ net' = SavedNet /\ cache' = cache /\ Seen' \subseteq {net, SavedNet}
          /\ watch \in Seq(Networks) /\ watch' = Append(watch, SavedNet)
      BY <1>1, <1>4, <1>7, <2>1, <2>2, WrittenSeen DEF Shown
    <2>4. draft.state = "NeedsUpdate" => draft.observed = copy.wanted
      BY <1>1 DEF Ordered, Carried
    <2>5. draft.state \in {"Installed", "Ready"} => draft.observed = copy.observed /\ ~draft.checked
      BY <1>1 DEF Ordered, Carried
    <2>6. draft.state = "Ready" => net.state = "Installed"
      BY <1>1, <2>1 DEF Ordered, Once
    <2>7. net.state # "Ready" => net.observed = net.wanted
      BY <2>1 DEF Ordered, Same
    <2>8. Same'
      <3>1. SavedNet.state # "Ready" => SavedNet.observed = SavedNet.wanted
        BY <1>2, <2>1, <2>4, <2>5, <2>7 DEF Saves
      <3> QED
        BY <2>1, <2>3, <2>7, <3>1 DEF Same
    <2>9. Once'
      <3>1. ASSUME NEW i \in DOMAIN watch' PROVE watch'[i].state # "New"
        <4>1. /\ DOMAIN watch = 1..Len(watch) /\ Len(watch) \in Nat
              /\ DOMAIN watch' = 1..(Len(watch) + 1) /\ watch'[Len(watch) + 1] = SavedNet
              /\ \A j \in 1..Len(watch) : watch'[j] = watch[j]
          BY <2>3
        <4>2. i = Len(watch) + 1 \/ (i \in DOMAIN watch /\ watch'[i] = watch[i])
          BY <3>1, <4>1
        <4>3. ASSUME i \in DOMAIN watch PROVE watch[i].state # "New"
          <5>1. net.state # "New"
            <6>1. net.state = "New" => watch = <<>>
              BY DEF Ordered, Once
            <6>2. watch = <<>> => DOMAIN watch = {}
              OBVIOUS
            <6> QED
              BY <4>3, <6>1, <6>2
          <5> QED
            BY <4>3, <5>1 DEF Ordered, Once
        <4> QED
          BY <1>2, <2>1, <4>1, <4>2, <4>3
      <3>2. cache'.state = "New" => ~queued' /\ ~delayed'
        <4>1. ASSUME cache.state = "New" PROVE net.state = "New"
          BY <1>1, <4>1 DEF Ordered, Once
        <4>2. ASSUME net.state = "New" PROVE ~queued /\ ~delayed /\ draft.state = "Installed"
          BY <1>1, <2>1, <4>2 DEF Ordered, Once, Token, Saves
        <4>3. ASSUME net.state = "New" PROVE ~delayed'
          BY <1>7, <2>5, <4>2, <4>3 DEF Return
        <4> QED
          BY <1>1, <2>3, <4>1, <4>2, <4>3
      <3> QED
        BY <1>2, <1>4, <2>1, <2>3, <3>1, <3>2 DEF Once
    <2>10. Stocked'
      <3>1. ASSUME Around("NeedsUpdate")' PROVE draft.state = "NeedsUpdate" \/ Around("NeedsUpdate")
        BY <2>1, <2>3, <3>1 DEF Around
      <3>2. ASSUME draft.state = "NeedsUpdate"
            PROVE  /\ net.wanted \subseteq dir.members /\ net.wanted \subseteq Having(dir.certs)
                   /\ net.wanted \subseteq Having(secret)
        <4>1. /\ FromProvider(dir.certs) /\ net.wanted \subseteq Having(dir.certs)
              /\ dir.members = net.wanted
          BY <1>1, <2>1, <3>2 DEF Consistent, Saved, Ordered, Carried
        <4> QED
          BY <4>1 DEF FromProvider, Having
      <3> QED
        BY <1>1, <2>1, <2>3, <3>1, <3>2 DEF Ordered, Stocked, Having
    <2>11. Covered'
      <3>1. CASE draft.state = "NeedsUpdate"
        BY <2>1, <2>3, <3>1 DEF Covered, Settled
      <3>2. CASE draft.state = "Installed"
        BY <1>1, <2>1, <2>3, <3>2 DEF Covered, Ordered, Carried, Having
      <3>3. CASE draft.state = "Ready"
        BY <1>1, <2>1, <2>3, <2>6, <3>3 DEF Covered, Ordered, Having
      <3> QED
        BY <2>1, <1>2, <3>1, <3>2, <3>3 DEF Saves
    <2> QED
      BY <1>5, <2>8, <2>9, <2>10, <2>11 DEF Ordered
  <1> QED
    BY <1>3, <1>6, <1>7

\* The steps of the worker that write no status.
LEMMA WorkFitted ==
    ASSUME Sound, Consistent, Ordered, ~provided, CertificatesOK', Works, Fault => NeverCrashed
    PROVE  Ordered'
  <1>1. Once' /\ Same'
    BY WorkOnce, WorkShown, SameShrinks DEF Sound, Ordered
  <1>2. /\ Seen' \subseteq Seen /\ net' = net
    BY WorkShown DEF Sound
  <1>3. CASE HandleInstalled \/ NextFlow \/ CallFails
    <2>1. dir' = dir /\ secret' = secret /\ release' = release
      BY <1>3 DEF HandleInstalled, NextFlow, CallFails, secrets
    <2>2. CASE pc' \in {"idle", "next"}
      BY <1>1, <1>2, <2>1, <2>2, QuietFitted DEF Ordered
    <2>3. CASE NextFlow
      <3>1. /\ pc' = "save" /\ draft'.state = "Ready" /\ draft'.observed = copy'.observed
            /\ ~draft'.checked
        BY <2>3 DEF NextFlow, Save
      <3>2. Carried'
        BY <3>1 DEF Carried
      <3>3. Stocked' /\ Covered'
        BY <1>2, <2>1, AroundShrinks DEF Ordered, Stocked, Covered, Settled, Having
      <3> QED
        BY <1>1, <3>2, <3>3 DEF Ordered
    <2>4. HandleInstalled => pc' = "next" \/ (pc' = "save" /\ draft'.state = "New")
      BY DEF HandleInstalled, Goto, Save
    <2>5. ~(pc' = "save" /\ draft'.state = "New")
      BY <1>1 DEF Once
    <2>6. CallFails => pc' = "idle"
      BY DEF CallFails, Return
    <2> QED
      BY <1>3, <2>2, <2>3, <2>4, <2>5, <2>6
  <1>4. CASE Reconstruct \/ Teardown \/ Prepare \/ Install \/ HandleNeedsUpdate \/ HandleReady
    BY <1>1, <1>4, ReconstructFitted, MakingFitted, NeedsUpdateFitted, ReadyFitted DEF Ordered
  <1> QED
    BY <1>3, <1>4 DEF Works

\* The other steps: a version is delivered or read, a requeue is due.
LEMMA QueueFitted ==
    ASSUME Sound, Ordered, CertificatesOK',
           Begin \/ Deliver \/ TimerFires \/ DeliverSecret \/ UNCHANGED vars
    PROVE  Ordered'
  <1>1. /\ net' = net /\ dir' = dir /\ secret' = secret /\ release' = release
        /\ pc' = "handle" \/ UNCHANGED <<pc, copy, draft>>
    BY DEF Begin, Deliver, TimerFires, DeliverSecret, vars, resource, secrets, worker
  <1>2. Seen' \subseteq Seen
    BY BeginShown, DeliverShown, OtherShown DEF Sound
  <1>3. CASE Begin
    <2>1. /\ pc = "idle" /\ queued /\ ~queued' /\ pc' = "handle" /\ copy' = cache
          /\ UNCHANGED <<watch, cache, delayed>>
      BY <1>3 DEF Begin, resource
    <2>2. Once'
      BY <1>1, <2>1 DEF Ordered, Once, Token, Busy
    <2> QED
      BY <1>1, <1>2, <2>1, <2>2, SameShrinks, QuietFitted DEF Ordered
  <1>4. CASE Deliver
    <2>1. /\ watch # <<>> /\ cache' = Head(watch) /\ watch' = Tail(watch) /\ watch \in Seq(Networks)
          /\ UNCHANGED <<pc, copy, draft>>
      BY <1>4 DEF Deliver, worker, Sound, Shown, CertificatesOK, NetworksOK
    <2>2. /\ cache' = watch[1] /\ Len(watch) \in Nat \ {0}
          /\ DOMAIN watch = 1..Len(watch) /\ DOMAIN watch' = 1..(Len(watch) - 1)
          /\ \A i \in 1..(Len(watch) - 1) : watch'[i] = watch[i + 1]
      BY <2>1
    <2>3. /\ 1 \in DOMAIN watch /\ \A i \in DOMAIN watch' : i + 1 \in DOMAIN watch
      BY <2>2
    <2>4. net.state # "New"
      BY <2>1 DEF Ordered, Once
    <2>5. cache'.state # "New" /\ \A i \in DOMAIN watch' : watch'[i].state # "New"
      BY <2>2, <2>3, <2>4 DEF Ordered, Once
    <2>6. Once'
      BY <1>1, <2>1, <2>4, <2>5 DEF Ordered, Once, Busy
    <2> QED
      BY <1>1, <1>2, <2>1, <2>6, SameShrinks, QuietFitted DEF Ordered
  <1>5. CASE TimerFires
    <2>1. /\ delayed /\ ~delayed' /\ UNCHANGED <<watch, cache, pc, copy, draft>>
      BY <1>5 DEF TimerFires, resource, worker
    <2>2. Once'
      BY <1>1, <2>1 DEF Ordered, Once, Token, Busy
    <2> QED
      BY <1>1, <1>2, <2>1, <2>2, SameShrinks, QuietFitted DEF Ordered
  <1>6. CASE DeliverSecret \/ UNCHANGED vars
    <2>1. UNCHANGED <<watch, cache, pc, copy, draft, queued, delayed>>
      BY <1>6 DEF DeliverSecret, vars, resource, worker
    <2>2. Once'
      BY <1>1, <2>1 DEF Ordered, Once, Token, Busy
    <2> QED
      BY <1>1, <1>2, <2>1, <2>2, SameShrinks, QuietFitted DEF Ordered
  <1> QED
    BY <1>3, <1>4, <1>5, <1>6

\* A restarted operator reads the network as it is.
LEMMA CrashFitted ==
    ASSUME Sound, Ordered, CertificatesOK', Crash PROVE Ordered'
  <1>1. /\ net' = net /\ secret' = secret /\ release' = release /\ dir' = NoDir
        /\ pc' = "idle" /\ watch' = <<>> /\ cache' = net /\ ~delayed'
    BY DEF Crash
  <1>2. \A x \in Seen' : x = net
    BY CrashShown DEF Sound
  <1>3. DOMAIN watch' = {} /\ ~dir'.present
    BY <1>1 DEF NoDir
  <1>4. Once'
    BY <1>1, <1>3 DEF Once, Token, Busy
  <1>5. net \in Seen /\ Seen' \subseteq Seen
    BY <1>2 DEF Seen
  <1>6. Same'
    BY <1>1, <1>5, SameShrinks DEF Ordered
  <1>7. Stocked'
    BY <1>1, <1>3, <1>5, AroundShrinks DEF Ordered, Stocked, Having
  <1>8. Carried' /\ Covered'
    BY <1>1 DEF Ordered, Carried, Covered, Settled, Having
  <1> QED
    BY <1>4, <1>6, <1>7, <1>8 DEF Ordered

\* A user who waits edits a settled network.
LEMMA EditFitted ==
    ASSUME Sound, Ordered, CertificatesOK', Edit, patient' PROVE Ordered'
  <1>1. /\ net.state = "Ready" /\ net.observed = net.wanted
        /\ UNCHANGED <<queued, delayed, pc, copy, draft, dir, release>> /\ secret' = secret
        /\ \E members \in (SUBSET Members) \ {{}, net.wanted} :
               Written([net EXCEPT !.wanted = members])
    BY DEF Edit, Settled, secrets
  <1>2. PICK members \in (SUBSET Members) \ {{}, net.wanted} :
               Written([net EXCEPT !.wanted = members])
    BY <1>1
  <1> DEFINE edited == [net EXCEPT !.wanted = members]
  <1>3. /\ edited \in Networks /\ edited.state = "Ready" /\ edited.wanted # edited.observed
    BY <1>1 DEF Sound, Shown, CertificatesOK, NetworksOK, Networks
  <1>4. Written(edited)
    BY <1>2
  <1> HIDE DEF edited
  <1>5. /\ net' = edited /\ cache' = cache /\ Seen' \subseteq Seen \union {edited}
        /\ watch \in Seq(Networks) /\ watch' = Append(watch, edited)
    BY <1>1, <1>3, <1>4, WrittenSeen DEF Sound, Shown, Busy
  <1>6. ASSUME NEW i \in DOMAIN watch' PROVE watch'[i].state # "New"
    <2>1. /\ DOMAIN watch = 1..Len(watch) /\ Len(watch) \in Nat
          /\ DOMAIN watch' = 1..(Len(watch) + 1) /\ watch'[Len(watch) + 1] = edited
          /\ \A j \in 1..Len(watch) : watch'[j] = watch[j]
      BY <1>5
    <2>2. i = Len(watch) + 1 \/ (i \in DOMAIN watch /\ watch'[i] = watch[i])
      BY <1>6, <2>1
    <2>3. \A j \in DOMAIN watch : watch[j].state # "New"
      BY <1>1 DEF Ordered, Once
    <2> QED
      BY <1>3, <2>1, <2>2, <2>3
  <1>7. Once'
    BY <1>1, <1>3, <1>5, <1>6 DEF Ordered, Once, Busy
  <1>8. Same'
    BY <1>3, <1>5 DEF Ordered, Same
  <1>9. ~Around("NeedsUpdate")'
    BY <1>1, <1>3, <1>5 DEF Sound, Shown, Window, Around
  <1>10. Stocked' /\ Covered'
    BY <1>3, <1>5, <1>9 DEF Stocked, Covered, Settled
  <1>11. Carried'
    BY <1>1 DEF Ordered, Carried, Having
  <1> QED
    BY <1>7, <1>8, <1>10, <1>11 DEF Ordered

LEMMA FittedInit == Init => Fitted
  <1> SUFFICES ASSUME Init PROVE Fitted
    OBVIOUS
  <1>1. /\ net.state = "New" /\ net.observed = net.wanted /\ watch = <<>> /\ cache = net
        /\ pc = "idle" /\ queued = TRUE /\ delayed = FALSE /\ ~release.installed /\ careful = TRUE
    BY DEF Init, NoRelease
  <1>2. DOMAIN watch = {}
    BY <1>1
  <1>3. \A x \in Seen : x = net
    BY <1>1, <1>2 DEF Seen, Busy
  <1>4. Once /\ Same
    BY <1>1, <1>3 DEF Once, Token, Busy, Same
  <1>5. Stocked /\ Carried /\ Covered
    BY <1>1 DEF Stocked, Carried, Covered, Settled
  <1> QED
    BY <1>1, <1>4, <1>5, SoundInit DEF Fitted, Ordered

LEMMA FittedStep == Fitted /\ [Next]_vars => Fitted'
  <1> SUFFICES ASSUME Fitted, [Next]_vars PROVE Fitted'
    OBVIOUS
  <1>1. Sound /\ Sound' /\ CertificatesOK /\ CertificatesOK' /\ (~provided' => careful')
    BY SoundStep, StillWaited DEF Fitted, Sound, Shown
  <1> SUFFICES ASSUME Waited' PROVE Ordered'
    BY <1>1 DEF Fitted
  <1>2. /\ Waited /\ ~provided /\ Ordered /\ Consistent /\ patient' /\ (Fault => NeverCrashed)
    BY <1>1, StillWaited, StillSteady DEF Waited, Fitted, Sound
  <1>3. ~(\E m \in Members : Supply(m))
    BY <1>2 DEF Supply
  <1> QED
    BY <1>1, <1>2, <1>3, WorkFitted, SaveFitted, QueueFitted, CrashFitted, EditFitted
       DEF Next, Worker, Works

\* A network that is reported Ready with nothing left to apply (getChanges finds no
\* difference) has certificates of all its organizations deployed
\* (extendOrDownloadCertificates, updateHelmChart), if the user waits for each change
\* before the next and no restart comes together with a failing call.
THEOREM EquippedAlways == Spec => []Equipped
  <1>1. Fitted => Equipped
    BY DEF Fitted, Waited, Ordered, Covered, Equipped
  <1> QED
    BY <1>1, FittedInit, FittedStep, PTL DEF Spec
=============================================================================
