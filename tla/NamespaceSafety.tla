---------------------------- MODULE NamespaceSafety ---------------------------
(***************************************************************************)
(* Proofs about the networks of a namespace: that the one that is set up   *)
(* keeps its release and its certificates, that it implements the promise  *)
(* of Tenancy, and that deleted networks are cleaned up after.             *)
(***************************************************************************)
EXTENDS NamespaceProofs

\* Undelivered versions of a network, and the last one of them.
InWatch(n) == \E i \in DOMAIN watch : watch[i].name = n
LastOf(i) == \A j \in DOMAIN watch : j > i => watch[j].name # watch[i].name

\* The informer is late but loses nothing, and no uid is from the future.
Informed ==
    /\ \A n \in Networks : ~InWatch(n) => cache[n] = nets[n]
    /\ \A i \in DOMAIN watch : LastOf(i) => watch[i].resource = nets[watch[i].name]
Numbered ==
    /\ \A n \in Networks : nets[n].uid <= created /\ cache[n].uid <= created
    /\ \A i \in DOMAIN watch : watch[i].resource.uid <= created
    /\ copy.uid <= created

\* The versions of a network come in an order: the worker's, the informer's, the
\* undelivered ones, the server's.  After one of those in first only those in then come.
Leads(n, first, then) ==
    /\ name = n /\ copy \in first =>
          /\ nets[n] \in then /\ cache[n] \in then
          /\ \A i \in DOMAIN watch : watch[i].name = n => watch[i].resource \in then
    /\ cache[n] \in first =>
          /\ nets[n] \in then
          /\ \A i \in DOMAIN watch : watch[i].name = n => watch[i].resource \in then
    /\ \A i \in DOMAIN watch : watch[i].name = n /\ watch[i].resource \in first =>
          /\ nets[n] \in then
          /\ \A j \in DOMAIN watch : j > i /\ watch[j].name = n => watch[j].resource \in then

\* Those of a uid stay with it; once set up a network stays so, if it is not restarted
\* and no state is forced; after the deletion of a network nothing is set up of the next
\* one that the worker has not seen.
LateStates == {"NeedsUpdate", "Installed", "ChartReady", "Running"}
OfUid(u) == { r \in Resources : r.uid = u }
Late(u) == { r \in Resources : r.uid = u /\ r.state \in LateStates }
Deleted == { r \in Resources : r.uid = 0 }
Early == { r \in Resources : r.uid = 0 \/ r.state \notin LateStates }

OrderedAt(n) ==
    /\ Leads(n, Deleted, Early)
    /\ Exists(n) =>
          /\ Leads(n, OfUid(nets[n].uid), OfUid(nets[n].uid))
          /\ unforced /\ n \notin restarted => Leads(n, Late(nets[n].uid), Late(nets[n].uid))
Ordered == \A n \in Networks : OrderedAt(n)

\* The worker has seen the network that is set up, and, of one that has never gone back,
\* nothing but that it is set up once its chart is ready.
Known ==
    /\ \A n \in Networks : Tenant(n) =>
          cache[n].uid = nets[n].uid /\ (name = n => copy.uid = nets[n].uid)
    /\ unforced => \A n \in Networks : Running(n) /\ n \notin restarted =>
          cache[n] \in Late(nets[n].uid) /\ (name = n => copy \in Late(nets[n].uid))

\* Nothing is forced, and what has gone back is a tenant still.
Free ==
    /\ \A n \in Networks : nets[n].force = "" /\ cache[n].force = ""
    /\ \A i \in DOMAIN watch : watch[i].resource.force = ""
    /\ copy.force = ""
    /\ \A n \in restarted : Tenant(n)

\* What the worker holds in its steps, and what it saves.
Submitting == pc = "submit" \/ (pc = "save" /\ copy.state = "New" /\ draft = "Running")
Saves == {<<"", "New">>, <<"", "Rejected">>, <<"New", "NeedsUpdate">>, <<"New", "Installed">>,
          <<"New", "Running">>, <<"NeedsUpdate", "Installed">>, <<"Installed", "ChartReady">>,
          <<"ChartReady", "Running">>, <<"Running", "NeedsUpdate">>}
Holding ==
    /\ pc \in {"prepare", "install", "submit"} => copy.uid # 0 /\ copy.state = "New"
    /\ pc = "save" => copy.uid # 0 /\ <<copy.state, draft>> \in Saves
    /\ pc = "clear" => copy.uid # 0 /\ copy.force # ""
    /\ pc = "gone" => copy.uid = 0
    /\ Submitting => \A n \in Networks : name = n /\ copy.uid = nets[n].uid => n \in restarted

Pipe == Informed /\ Numbered /\ Ordered
PipeInv == Inv /\ Pipe /\ Known /\ (unforced => Free) /\ Holding

LEMMA NoName == None \notin Networks /\ Absent.uid = 0 /\ Absent.force = "" /\ Absent.state = ""
  BY NamespaceAssumption DEF Absent

LEMMA Reflexive == \A k \in Int : k <= k
  OBVIOUS

LEMMA Bounded ==
    ASSUME Inv
    PROVE  /\ created \in Int /\ 0 <= created /\ copy.uid \in Int
           /\ \A n \in Networks : nets[n].uid \in Int /\ cache[n].uid \in Int
           /\ \A i \in DOMAIN watch : /\ watch[i].name \in Networks
                                      /\ watch[i].resource \in Resources
                                      /\ watch[i].resource.uid \in Int
  <1>1. Uids \subseteq Int
    BY BoundTypes DEF Uids
  <1>2. \A r \in Resources : r.uid \in Int
    BY <1>1 DEF Resources
  <1>3. \A i \in DOMAIN watch : watch[i] \in Messages
    BY DEF Inv, InformerOK
  <1>4. created \in 0..MaxCreations
    BY DEF Inv, UsersOK, HistoryOK, Uids
  <1>5. created \in Int /\ 0 <= created
    BY <1>4, BoundTypes
  <1> QED
    BY <1>1, <1>2, <1>3, <1>5 DEF Inv, UsersOK, InformerOK, WorkerOK, Messages

LEMMA Versions ==
    /\ Deleted \subseteq Early
    /\ \A u : Late(u) \subseteq OfUid(u) /\ (u # 0 => Late(u) \cap Early = {})
    /\ \A r \in Resources : /\ r.uid = 0 <=> r \in Deleted
                            /\ r \in OfUid(r.uid)
                            /\ r \notin Early <=> r \in Late(r.uid) /\ r.uid # 0
  BY DEF Deleted, Early, OfUid, Late

-----------------------------------------------------------------------------
\* The steps of the pipeline: a version is appended, the first one is delivered.
Appended(n, r) ==
    /\ DOMAIN watch = 1..Len(watch) /\ DOMAIN watch' = 1..(Len(watch) + 1)
    /\ Len(watch) \in Nat
    /\ \A i \in 1..Len(watch) : watch'[i] = watch[i]
    /\ watch'[Len(watch) + 1].name = n /\ watch'[Len(watch) + 1].resource = r
    /\ nets'[n] = r /\ \A m \in Networks \ {n} : nets'[m] = nets[m]
    /\ cache' = cache

LEMMA AppendIs ==
    ASSUME Inv, NEW n \in Networks, NEW r \in Resources, Written(n, r)
    PROVE  Appended(n, r)
  <1>1. [name |-> n, resource |-> r] \in Messages /\ watch \in Seq(Messages)
    BY DEF Messages, Inv, InformerOK
  <1>2. watch' = Append(watch, [name |-> n, resource |-> r])
    BY DEF Written
  <1> DEFINE x == [name |-> n, resource |-> r]
  <1> HIDE DEF x
  <1>3. /\ DOMAIN watch = 1..Len(watch) /\ DOMAIN watch' = 1..(Len(watch) + 1)
        /\ Len(watch) \in Nat
        /\ \A i \in 1..Len(watch) : watch'[i] = watch[i]
        /\ watch'[Len(watch) + 1] = x
    BY <1>1, <1>2 DEF x
  <1> QED
    BY <1>3 DEF x, Written, Inv, UsersOK, Appended

Delivered(n, r) ==
    /\ DOMAIN watch = 1..Len(watch) /\ DOMAIN watch' = 1..(Len(watch) - 1)
    /\ Len(watch) \in Nat \ {0}
    /\ \A i \in 1..(Len(watch) - 1) : watch'[i] = watch[i + 1]
    /\ watch[1].name = n /\ watch[1].resource = r
    /\ cache'[n] = r /\ \A m \in Networks \ {n} : cache'[m] = cache[m]
    /\ UNCHANGED <<nets, created, unforced, restarted, name, copy>>

LEMMA DeliverIs ==
    ASSUME Inv, Deliver
    PROVE  \E n \in Networks, r \in Resources : Delivered(n, r) /\ queue' = Queued(queue, n)
  <1>1. watch \in Seq(Messages) /\ watch # <<>> /\ watch' = Tail(watch)
    BY DEF Deliver, Inv, InformerOK
  <1>2. Head(watch) \in Messages /\ Head(watch) = watch[1]
    BY <1>1
  <1>3. Head(watch).name \in Networks /\ Head(watch).resource \in Resources
    BY <1>2 DEF Messages
  <1>4. /\ DOMAIN watch = 1..Len(watch) /\ DOMAIN watch' = 1..(Len(watch) - 1)
        /\ Len(watch) \in Nat \ {0}
        /\ \A i \in 1..(Len(watch) - 1) : watch'[i] = watch[i + 1]
    BY <1>1
  <1>5. Delivered(Head(watch).name, Head(watch).resource)
    BY <1>2, <1>3, <1>4 DEF Deliver, Delivered, users, history, worker, Inv, InformerOK
  <1> QED
    BY <1>3, <1>5 DEF Deliver

\* The worker goes on with what it holds, with what has been written, or ends.
Keeps == UNCHANGED <<name, copy>>
Ends == name' = None /\ copy' = Absent
GoesOn(n, r) == name = n /\ name' = n /\ copy' = r

-----------------------------------------------------------------------------
\* The order of the versions.
Clear(n, first) ==
    /\ ~(name = n /\ copy \in first) /\ cache[n] \notin first
    /\ \A i \in DOMAIN watch : watch[i].name = n => watch[i].resource \notin first

LEMMA LeadsClear ==
    ASSUME NEW n \in Networks, NEW first, NEW then, Leads(n, first, then), nets[n] \notin then
    PROVE  Clear(n, first)
  BY DEF Leads, Clear

LEMMA LeadsSame ==
    ASSUME NEW n \in Networks, NEW first, NEW then, Leads(n, first, then),
           UNCHANGED <<nets, watch, cache>>, Keeps \/ Ends
    PROVE  Leads(n, first, then)'
  BY NoName DEF Leads, Keeps, Ends

LEMMA LeadsBegin ==
    ASSUME NEW n \in Networks, NEW first, NEW then, Leads(n, first, then), first \subseteq then,
           UNCHANGED <<nets, watch, cache>>, copy' = cache[name']
    PROVE  Leads(n, first, then)'
  BY DEF Leads

LEMMA LeadsAppended ==
    ASSUME NEW n \in Networks, NEW first, NEW then, Leads(n, first, then), first \subseteq then,
           NEW r, Appended(n, r), r \in then \/ Clear(n, first),
           Keeps \/ Ends \/ (GoesOn(n, r) /\ (r \in first => copy \in first))
    PROVE  Leads(n, first, then)'
  <1> USE DEF Appended
  <1>1. ASSUME NEW i \in DOMAIN watch', watch'[i].name = n, watch'[i].resource \in first
        PROVE  /\ nets'[n] \in then
               /\ \A j \in DOMAIN watch' : j > i /\ watch'[j].name = n => watch'[j].resource \in then
    <2>1. CASE i = Len(watch) + 1
      BY <1>1, <2>1
    <2>2. CASE i \in 1..Len(watch)
      BY <1>1, <2>2 DEF Leads, Clear
    <2> QED
      BY <1>1, <2>1, <2>2
  <1>2. ASSUME cache'[n] \in first
        PROVE  /\ nets'[n] \in then
               /\ \A j \in DOMAIN watch' : watch'[j].name = n => watch'[j].resource \in then
    BY <1>2 DEF Leads, Clear
  <1>3. ASSUME name' = n, copy' \in first
        PROVE  /\ nets'[n] \in then /\ cache'[n] \in then
               /\ \A j \in DOMAIN watch' : watch'[j].name = n => watch'[j].resource \in then
    <2>1. name = n /\ copy \in first /\ r \in then
      BY <1>3, NoName DEF Clear, Keeps, Ends, GoesOn
    <2>2. cache[n] \in then /\ \A j \in 1..Len(watch) : watch[j].name = n => watch[j].resource \in then
      BY <2>1 DEF Leads
    <2> QED
      BY <2>1, <2>2
  <1> QED
    BY <1>1, <1>2, <1>3 DEF Leads

LEMMA LeadsOther ==
    ASSUME NEW n \in Networks, NEW first, NEW then, Leads(n, first, then),
           NEW m \in Networks \ {n}, NEW r, Appended(m, r), Keeps \/ Ends \/ GoesOn(m, r)
    PROVE  Leads(n, first, then)'
  <1> USE DEF Appended
  <1>1. \A i \in DOMAIN watch' : watch'[i].name = n => i \in 1..Len(watch)
    OBVIOUS
  <1>2. name' = n => name = n /\ copy' = copy
    BY NoName DEF Keeps, Ends, GoesOn
  <1> QED
    BY <1>1, <1>2 DEF Leads

LEMMA LeadsDelivered ==
    ASSUME NEW n \in Networks, NEW first, NEW then, Leads(n, first, then),
           NEW m \in Networks, NEW r, Delivered(m, r)
    PROVE  Leads(n, first, then)'
  <1> USE DEF Delivered
  <1>1. ASSUME NEW i \in DOMAIN watch'
        PROVE  i + 1 \in DOMAIN watch /\ watch'[i] = watch[i + 1] /\ i + 1 > 1
    OBVIOUS
  <1>2. 1 \in DOMAIN watch
    OBVIOUS
  <1>3. ASSUME NEW i \in DOMAIN watch', watch'[i].name = n, watch'[i].resource \in first
        PROVE  /\ nets'[n] \in then
               /\ \A j \in DOMAIN watch' : j > i /\ watch'[j].name = n => watch'[j].resource \in then
    BY <1>1, <1>3 DEF Leads
  <1>4. ASSUME cache'[n] \in first
        PROVE  /\ nets'[n] \in then
               /\ \A j \in DOMAIN watch' : watch'[j].name = n => watch'[j].resource \in then
    <2>1. CASE m = n
      BY <1>1, <1>2, <1>4, <2>1 DEF Leads
    <2>2. CASE m # n
      BY <1>1, <1>4, <2>2 DEF Leads
    <2> QED
      BY <2>1, <2>2
  <1>5. ASSUME name' = n, copy' \in first
        PROVE  /\ nets'[n] \in then /\ cache'[n] \in then
               /\ \A j \in DOMAIN watch' : watch'[j].name = n => watch'[j].resource \in then
    BY <1>1, <1>2, <1>5 DEF Leads
  <1> QED
    BY <1>3, <1>4, <1>5 DEF Leads

-----------------------------------------------------------------------------
\* A version is written.
Writes(n, r) ==
    /\ r \in Resources /\ Appended(n, r)
    /\ created' \in Int /\ created <= created' /\ r.uid <= created'
    /\ unforced' => unforced /\ r.force = ""
    /\ \A m \in Networks \ {n} : m \in restarted' <=> m \in restarted
    /\ Keeps \/ Ends \/ GoesOn(n, r)

LEMMA WritesInformed ==
    ASSUME Inv, Informed, NEW n \in Networks, NEW r, Appended(n, r) PROVE Informed'
  <1>1. \A m \in Networks : ~InWatch(m)' => m # n /\ ~InWatch(m)
    BY DEF InWatch, Appended
  <1>2. ASSUME NEW i \in DOMAIN watch', LastOf(i)'
        PROVE  watch'[i].resource = nets'[watch'[i].name]
    <2>1. CASE i = Len(watch) + 1
      BY <2>1 DEF Appended
    <2>2. CASE i \in 1..Len(watch)
      <3>1. watch'[i].name # n
        BY <1>2, <2>2 DEF LastOf, Appended
      <3>2. LastOf(i)
        BY <1>2, <2>2 DEF LastOf, Appended
      <3> QED
        BY <2>2, <3>1, <3>2, Bounded DEF Informed, Appended
    <2> QED
      BY <1>2, <2>1, <2>2 DEF Appended
  <1> QED
    BY <1>1, <1>2 DEF Informed, Appended

LEMMA WritesNumbered ==
    ASSUME Inv, Numbered, NEW n \in Networks, NEW r, Writes(n, r) PROVE Numbered'
  <1>a. Appended(n, r) /\ created' \in Int /\ created <= created' /\ r.uid <= created'
    BY DEF Writes
  <1>b. created \in Int /\ 0 <= created /\ copy.uid \in Int /\ copy.uid <= created
    BY Bounded DEF Numbered
  <1>c. 0 <= created' /\ copy.uid <= created'
    BY <1>a, <1>b
  <1>1. copy'.uid <= created'
    BY <1>a, <1>c, NoName DEF Writes, Keeps, Ends, GoesOn
  <1>2. \A m \in Networks : nets'[m].uid <= created' /\ cache'[m].uid <= created'
    BY <1>a, Bounded DEF Numbered, Appended
  <1>3. ASSUME NEW i \in DOMAIN watch' PROVE watch'[i].resource.uid <= created'
    <2>1. CASE i = Len(watch) + 1
      BY <1>a, <2>1 DEF Appended
    <2>2. CASE i \in 1..Len(watch)
      BY <1>a, <2>2, Bounded DEF Numbered, Appended
    <2> QED
      BY <1>a, <2>1, <2>2 DEF Appended
  <1> QED
    BY <1>1, <1>2, <1>3 DEF Numbered

\* The other networks.
LEMMA WritesOrdered ==
    ASSUME Ordered, NEW n \in Networks, NEW r, Writes(n, r), OrderedAt(n)' PROVE Ordered'
  <1> SUFFICES ASSUME NEW m \in Networks \ {n} PROVE OrderedAt(m)'
    BY DEF Ordered
  <1>1. OrderedAt(m) /\ nets'[m] = nets[m] /\ (unforced' => unforced)
        /\ (m \in restarted' <=> m \in restarted)
    BY DEF Ordered, Writes, Appended
  <1>2. PICK u : u = nets[m].uid
    OBVIOUS
  <1>3. \A first, then : Leads(m, first, then) => Leads(m, first, then)'
    BY LeadsOther DEF Writes
  <1> QED
    BY <1>1, <1>2, <1>3 DEF OrderedAt, Exists

LEMMA WritesKnown ==
    ASSUME Inv, Known, NEW n \in Networks, NEW r, Writes(n, r),
           Tenant(n)' => cache[n].uid = r.uid /\ (name' = n => copy'.uid = r.uid),
           unforced' /\ Running(n)' /\ n \notin restarted' =>
               cache[n] \in Late(r.uid) /\ (name' = n => copy' \in Late(r.uid))
    PROVE  Known'
  <1>1. /\ nets'[n] = r /\ cache' = cache /\ (unforced' => unforced)
        /\ \A m \in Networks \ {n} : nets'[m] = nets[m] /\ (m \in restarted' <=> m \in restarted)
    BY DEF Writes, Appended
  <1>2. ASSUME NEW m \in Networks \ {n}
        PROVE  /\ Tenant(m)' <=> Tenant(m)
               /\ Running(m)' <=> Running(m)
               /\ name' = m => name = m /\ copy' = copy
    <2>1. name' = m => name = m /\ copy' = copy
      BY NoName DEF Writes, Keeps, Ends, GoesOn
    <2> QED
      BY <1>1, <2>1 DEF Tenant, Running, Exists
  <1> QED
    BY <1>1, <1>2 DEF Known

LEMMA AppendedDomain ==
    ASSUME NEW n \in Networks, NEW r, Appended(n, r)
    PROVE  \A i \in DOMAIN watch' : i = Len(watch) + 1 \/ i \in 1..Len(watch)
  BY DEF Appended

LEMMA AppendedFree ==
    ASSUME NEW n \in Networks, NEW r, Appended(n, r), r.force = "",
           \A i \in DOMAIN watch : watch[i].resource.force = ""
    PROVE  \A i \in DOMAIN watch' : watch'[i].resource.force = ""
  <1> SUFFICES ASSUME NEW i \in DOMAIN watch' PROVE watch'[i].resource.force = ""
    OBVIOUS
  <1>1. CASE i = Len(watch) + 1
    BY <1>1 DEF Appended
  <1>2. CASE i \in 1..Len(watch)
    BY <1>2 DEF Appended
  <1>3. i = Len(watch) + 1 \/ i \in 1..Len(watch)
    BY AppendedDomain
  <1> QED
    BY <1>1, <1>2, <1>3

LEMMA WritesFree ==
    ASSUME Inv, unforced => Free, NEW n \in Networks, NEW r, Writes(n, r), unforced',
           restarted' \subseteq Networks, n \in restarted' => Tenant(n)'
    PROVE  Free'
  <1>1. unforced /\ r.force = "" /\ Appended(n, r)
    BY DEF Writes
  <1>2. \A i \in DOMAIN watch' : watch'[i].resource.force = ""
    <2>1. Free
      BY <1>1
    <2> QED
      BY <1>1, <2>1, AppendedFree DEF Free
  <1>3. copy'.force = ""
    BY <1>1, NoName DEF Free, Writes, Keeps, Ends, GoesOn
  <1>4. ASSUME NEW m \in restarted', m # n PROVE Tenant(m)'
    <2>1. m \in restarted /\ nets'[m] = nets[m]
      BY <1>1, <1>4 DEF Writes, Appended
    <2> QED
      BY <1>1, <1>4, <2>1 DEF Free, Tenant, Exists
  <1> QED
    BY <1>1, <1>2, <1>3, <1>4 DEF Free, Appended

Flow == Pipe /\ Known /\ (unforced => Free)

LEMMA CreateFlow == Inv /\ Flow /\ (\E n \in Networks : Create(n)) => Flow'
  <1> SUFFICES ASSUME Inv, Flow, NEW n \in Networks, Create(n) PROVE Flow'
    OBVIOUS
  <1> USE DEF Flow, Pipe
  <1>1. created < MaxCreations /\ created' = created + 1 /\ UNCHANGED <<unforced, restarted>> /\ Keeps
    BY DEF Create, worker, Keeps
  <1>2. PICK r \in Resources : /\ r.uid = created + 1 /\ r.uid # 0 /\ r.state = "" /\ r.force = ""
                               /\ Written(n, r)
    BY <1>1, CreatedType DEF Create
  <1>3. created \in Int
    BY Bounded
  <1>4. created' \in Int /\ created <= created' /\ r.uid <= created'
    <2>1. created' = created + 1 /\ r.uid = created'
      BY <1>1, <1>2
    <2>2. created + 1 \in Int /\ created <= created + 1 /\ created + 1 <= created + 1
      BY <1>3
    <2> QED
      BY <2>1, <2>2
  <1>5. Writes(n, r)
    BY <1>1, <1>2, <1>4, AppendIs DEF Writes
  <1>6. \A k \in Int : k <= created => k # r.uid
    <2>1. \A k \in Int : k <= created => k # created + 1
      BY <1>3
    <2> QED
      BY <1>2, <2>1
  <1>7. Clear(n, OfUid(r.uid)) /\ Clear(n, Late(r.uid))
    BY <1>6, Bounded DEF Numbered, Clear, OfUid, Late
  <1>8. r \in Early /\ r \notin Late(r.uid) /\ r \in OfUid(r.uid)
    BY <1>2 DEF Early, Late, OfUid, LateStates
  <1>9. Appended(n, r) /\ nets'[n] = r
    BY <1>5 DEF Writes, Appended
  <1>10. Leads(n, OfUid(r.uid), OfUid(r.uid))' /\ Leads(n, Late(r.uid), Late(r.uid))'
    <2>1. \A first : Clear(n, first) => Leads(n, first, first)
      BY DEF Clear, Leads
    <2> QED
      BY <1>1, <1>7, <1>9, <2>1, LeadsAppended
  <1>11. Leads(n, Deleted, Early)'
    BY <1>1, <1>8, <1>9, Versions, LeadsAppended DEF Ordered, OrderedAt
  <1>12. Ordered'
    BY <1>5, <1>9, <1>10, <1>11, WritesOrdered DEF OrderedAt
  <1>13. ~Running(n)' /\ ~Tenant(n)'
    BY <1>2, <1>9 DEF Running, Tenant
  <1>14. Known'
    BY <1>5, <1>13, WritesKnown
  <1>15. unforced => n \notin restarted
    <2>1. ~Exists(n)
      BY DEF Create
    <2> QED
      BY <2>1 DEF Free, Tenant
  <1>16. unforced' => Free'
    BY <1>1, <1>5, <1>15, WritesFree DEF Inv, UsersOK
  <1> QED
    BY <1>5, <1>9, <1>12, <1>14, <1>16, WritesInformed, WritesNumbered

LEMMA DeleteFlow == Inv /\ Flow /\ (\E n \in Networks : Delete(n)) => Flow'
  <1> SUFFICES ASSUME Inv, Flow, NEW n \in Networks, Delete(n) PROVE Flow'
    OBVIOUS
  <1> USE DEF Flow, Pipe
  <1>1. /\ UNCHANGED <<created, unforced>> /\ restarted' = restarted \ {n} /\ Keeps
        /\ Written(n, Absent) /\ Absent \in Resources /\ Absent \in Early
    BY AbsentType, NoName DEF Delete, history, worker, Keeps, Early
  <1>2. created' \in Int /\ created <= created' /\ Absent.uid <= created'
    <2>1. created \in Int /\ 0 <= created /\ created <= created
      BY Bounded
    <2> QED
      BY <1>1, <2>1, NoName
  <1>3. Writes(n, Absent)
    BY <1>1, <1>2, AppendIs, NoName DEF Writes
  <1>4. nets'[n] = Absent /\ Appended(n, Absent)
    BY <1>3 DEF Writes, Appended
  <1>5. ~Exists(n)'
    BY <1>4, NoName DEF Exists
  <1>6. Leads(n, Deleted, Early)'
    BY <1>1, <1>4, Versions, LeadsAppended DEF Ordered, OrderedAt
  <1>7. Ordered'
    BY <1>3, <1>5, <1>6, WritesOrdered DEF OrderedAt
  <1>8. Known'
    BY <1>3, <1>5, WritesKnown DEF Running, Tenant
  <1>9. unforced' => Free'
    BY <1>1, <1>3, WritesFree DEF Inv, UsersOK
  <1> QED
    BY <1>3, <1>4, <1>7, <1>8, <1>9, WritesInformed, WritesNumbered

\* A user's update, and a write of the worker with what it has read.
Amends(n, r) == Keeps /\ r.state = nets[n].state /\ UNCHANGED restarted
Advances(n, r) ==
    /\ name = n /\ copy = nets[n] /\ (Ends \/ GoesOn(n, r))
    /\ restarted' \subseteq Networks /\ restarted \subseteq restarted'
    /\ unforced' /\ n \in restarted' => r.state = "New" \/ r.state \in LateStates
    /\ unforced' /\ n \notin restarted' =>
          /\ Ends
          /\ copy.state \in LateStates => r.state \in LateStates
          /\ r.state \in {"ChartReady", "Running"} => copy.state \in LateStates

LEMMA ChangeOrdered ==
    ASSUME Inv, Flow, NEW n \in Networks, NEW r, Writes(n, r),
           r.uid = nets[n].uid, r.uid # 0, Amends(n, r) \/ Advances(n, r)
    PROVE  OrderedAt(n)'
  <1>1. PICK u : u = r.uid
    OBVIOUS
  <1>2. /\ Appended(n, r) /\ nets'[n] = r /\ r \in Resources /\ nets[n] \in Resources
        /\ (unforced' => unforced)
    BY DEF Writes, Appended, Inv, UsersOK
  <1>3. OrderedAt(n) /\ Leads(n, OfUid(u), OfUid(u)) /\ nets[n] \in OfUid(u) /\ r \in OfUid(u)
    BY <1>1, <1>2 DEF Flow, Pipe, Ordered, OrderedAt, Exists, OfUid
  <1>4. Keeps \/ Ends \/ (GoesOn(n, r) /\ copy = nets[n])
    BY DEF Amends, Advances
  <1>5. Leads(n, OfUid(u), OfUid(u))'
    BY <1>2, <1>3, <1>4, LeadsAppended
  <1>6. r \in Early \/ Clear(n, Deleted)
    <2>1. ASSUME Amends(n, r), r \notin Early PROVE Clear(n, Deleted)
      <3>1. nets[n] \notin Early
        BY <1>2, <2>1 DEF Amends, Early
      <3> QED
        BY <1>3, <3>1, LeadsClear DEF OrderedAt
    <2>2. ASSUME Advances(n, r) PROVE Clear(n, Deleted)
      <3>1. name = n /\ copy \in OfUid(u)
        BY <1>3, <2>2 DEF Advances
      <3> QED
        BY <1>1, <1>3, <3>1 DEF Leads, Clear, OfUid, Deleted
    <2> QED
      BY <2>1, <2>2
  <1>7. r \notin Deleted
    BY DEF Deleted
  <1>8. Leads(n, Deleted, Early)'
    BY <1>2, <1>3, <1>4, <1>6, <1>7, Versions, LeadsAppended DEF OrderedAt
  <1>9. ASSUME unforced', n \notin restarted' PROVE Leads(n, Late(u), Late(u))'
    <2>1. n \notin restarted
      BY <1>9 DEF Amends, Advances
    <2>2. Leads(n, Late(u), Late(u))
      BY <1>1, <1>2, <1>3, <1>9, <2>1 DEF OrderedAt, Exists
    <2>3. nets[n] \in Late(u) => r \in Late(u)
      BY <1>1, <1>2, <1>9 DEF Late, Amends, Advances
    <2>4. r \in Late(u) \/ Clear(n, Late(u))
      BY <2>2, <2>3, LeadsClear
    <2>5. Keeps \/ Ends
      BY <1>9 DEF Amends, Advances
    <2> QED
      BY <1>2, <2>2, <2>4, <2>5, LeadsAppended
  <1> QED
    BY <1>1, <1>2, <1>5, <1>8, <1>9 DEF OrderedAt

LEMMA ChangeKnown ==
    ASSUME Inv, Flow, NEW n \in Networks, NEW r, Writes(n, r),
           r.uid = nets[n].uid, r.uid # 0, Amends(n, r) \/ Advances(n, r)
    PROVE  Known'
  <1>1. /\ Known /\ nets'[n] = r /\ r \in Resources /\ nets[n] \in Resources
        /\ (unforced' => unforced)
    BY DEF Flow, Writes, Appended, Inv, UsersOK
  <1>2. CASE Amends(n, r)
    <2>1. /\ r.state = nets[n].state /\ UNCHANGED <<name, copy, restarted>>
      BY <1>2 DEF Amends, Keeps
    <2>2. (Tenant(n)' <=> Tenant(n)) /\ (Running(n)' <=> Running(n))
      BY <1>1, <2>1 DEF Tenant, Running, Exists
    <2> QED
      BY <1>1, <2>1, <2>2, WritesKnown DEF Known
  <1>3. CASE Advances(n, r)
    <2>1. PICK u : u = r.uid
      OBVIOUS
    <2>2. name = n /\ copy = nets[n] /\ (Ends \/ GoesOn(n, r))
      BY <1>3 DEF Advances
    <2>3. OrderedAt(n) /\ Exists(n) /\ copy \in OfUid(u)
      BY <1>1, <2>1, <2>2 DEF Flow, Pipe, Ordered, Exists, OfUid
    <2>4. cache[n].uid = u
      BY <2>1, <2>2, <2>3 DEF OrderedAt, Leads, OfUid
    <2>5. name' = n => copy'.uid = u
      BY <2>1, <2>2, NoName DEF Ends, GoesOn
    <2>6. ASSUME unforced', Running(n)', n \notin restarted'
          PROVE  cache[n] \in Late(u) /\ name' # n
      <3>1. Ends /\ copy.state \in LateStates /\ n \notin restarted
        BY <1>1, <1>3, <2>6 DEF Advances, Running
      <3>2. copy \in Late(u)
        BY <1>1, <2>1, <2>2, <3>1 DEF Late
      <3>3. Leads(n, Late(u), Late(u))
        BY <1>1, <2>1, <2>3, <2>6, <3>1 DEF OrderedAt
      <3> QED
        BY <2>2, <3>1, <3>2, <3>3, NoName DEF Leads, Ends
    <2> QED
      BY <1>1, <2>1, <2>4, <2>5, <2>6, WritesKnown
  <1> QED
    BY <1>2, <1>3

LEMMA ChangeFlow ==
    ASSUME Inv, Flow, NEW n \in Networks, NEW r, Writes(n, r),
           r.uid = nets[n].uid, r.uid # 0, Amends(n, r) \/ Advances(n, r)
    PROVE  Flow'
  <1>1. Informed' /\ Numbered' /\ Ordered'
    BY WritesInformed, WritesNumbered, WritesOrdered, ChangeOrdered DEF Flow, Pipe, Writes
  <1>2. ASSUME unforced', n \in restarted' PROVE Tenant(n)'
    <2>1. nets'[n] = r
      BY DEF Writes, Appended
    <2>2. CASE Advances(n, r)
      BY <1>2, <2>1, <2>2 DEF Advances, LateStates, Tenant, Exists
    <2>3. CASE Amends(n, r)
      <3>1. Free /\ r.state = nets[n].state /\ n \in restarted
        BY <1>2, <2>3 DEF Amends, Writes, Flow
      <3> QED
        BY <1>2, <2>1, <3>1 DEF Free, Tenant, Exists
    <2> QED
      BY <2>2, <2>3
  <1>3. restarted' \subseteq Networks
    BY DEF Amends, Advances, Inv, UsersOK
  <1>4. unforced' => Free'
    BY <1>2, <1>3, WritesFree DEF Flow
  <1> QED
    BY <1>1, <1>4, ChangeKnown DEF Flow, Pipe

LEMMA UpdateFlow == Inv /\ Flow /\ (\E n \in Networks : Update(n)) => Flow'
  <1> SUFFICES ASSUME Inv, Flow, NEW n \in Networks, Update(n) PROVE Flow'
    OBVIOUS
  <1>1. PICK r \in Resources : UpdatedBy(n, r)
    BY UpdateIs
  <1>2. r.uid = nets[n].uid /\ r.uid # 0 /\ r.state = nets[n].state /\ Written(n, r)
        /\ (unforced' => unforced /\ r.force = "") /\ UNCHANGED <<created, restarted>> /\ Keeps
    BY <1>1 DEF UpdatedBy, Update, Exists, worker, Keeps
  <1>3. created' \in Int /\ created <= created' /\ r.uid <= created'
    <2>1. created \in Int /\ created <= created
      BY Bounded
    <2> QED
      BY <1>2, <2>1 DEF Flow, Pipe, Numbered
  <1>4. Writes(n, r) /\ Amends(n, r)
    BY <1>2, <1>3, AppendIs DEF Writes, Amends
  <1> QED
    BY <1>2, <1>4, ChangeFlow

\* The worker writes what it has read with another state.
LEMMA AdvanceFlow ==
    ASSUME Inv, Flow, name \in Networks, NEW r \in Resources, Written(name, r),
           nets[name] = copy, copy.uid # 0, r.uid = copy.uid,
           UNCHANGED <<created, unforced>>, unforced => r.force = "",
           Advances(name, r), \A m \in Networks \ {name} : m \in restarted' <=> m \in restarted
    PROVE  Flow'
  <1>1. created' \in Int /\ created <= created' /\ r.uid <= created'
    <2>1. created \in Int
      BY Bounded
    <2>2. r.uid <= created
      BY DEF Flow, Pipe, Numbered
    <2>3. created' = created /\ created <= created
      BY <2>1, Reflexive
    <2> QED
      BY <2>1, <2>2, <2>3, Zenon
  <1>2. Writes(name, r)
    BY <1>1, AppendIs DEF Writes, Advances
  <1> QED
    BY <1>2, ChangeFlow

\* What leaves the server and the informer as they are.
LEMMA QuietFlow ==
    ASSUME Inv, Flow, UNCHANGED <<nets, created, unforced, restarted, watch, cache>>, Keeps \/ Ends
    PROVE  Flow'
  <1>1. Informed'
    BY DEF Flow, Pipe, Informed, InWatch, LastOf
  <1>2. Numbered'
    <2>1. Absent.uid <= created
      BY NoName, Bounded
    <2> QED
      BY <2>1 DEF Flow, Pipe, Numbered, Keeps, Ends
  <1>3. Ordered'
    <2> SUFFICES ASSUME NEW n \in Networks PROVE OrderedAt(n)'
      BY DEF Ordered
    <2>1. \A first, then : Leads(n, first, then) => Leads(n, first, then)'
      BY LeadsSame
    <2>2. PICK u : u = nets[n].uid
      OBVIOUS
    <2>3. u = nets'[n].uid /\ OrderedAt(n)
      BY <2>2 DEF Flow, Pipe, Ordered
    <2> QED
      BY <2>1, <2>2, <2>3 DEF OrderedAt, Exists
  <1>4. Known'
    BY NoName DEF Flow, Known, Tenant, Running, Exists, Keeps, Ends
  <1>5. (unforced => Free)'
    BY NoName DEF Flow, Free, Tenant, Exists, Keeps, Ends
  <1> QED
    BY <1>1, <1>2, <1>3, <1>4, <1>5 DEF Flow, Pipe

LEMMA BeginFlow == Inv /\ Flow /\ Begin => Flow'
  <1> SUFFICES ASSUME Inv, Flow, Begin PROVE Flow'
    OBVIOUS
  <1>1. /\ name' \in Networks /\ copy' = cache[name']
        /\ UNCHANGED <<nets, created, unforced, restarted, watch, cache>>
    BY HeadTailProperties DEF Begin, users, history, informer, Inv, QueueOK
  <1>2. Informed'
    BY <1>1 DEF Flow, Pipe, Informed, InWatch, LastOf
  <1>3. Numbered'
    BY <1>1 DEF Flow, Pipe, Numbered
  <1>4. Ordered'
    <2> SUFFICES ASSUME NEW n \in Networks PROVE OrderedAt(n)'
      BY DEF Ordered
    <2>1. \A first, then : first \subseteq then /\ Leads(n, first, then) => Leads(n, first, then)'
      BY <1>1, LeadsBegin
    <2>2. PICK u : u = nets[n].uid
      OBVIOUS
    <2>3. u = nets'[n].uid /\ OrderedAt(n)
      BY <1>1, <2>2 DEF Flow, Pipe, Ordered
    <2> QED
      BY <1>1, <2>1, <2>2, <2>3, Versions DEF OrderedAt, Exists
  <1>5. Known'
    <2>1. \A n \in Networks : (Tenant(n)' <=> Tenant(n)) /\ (Running(n)' <=> Running(n))
      BY <1>1 DEF Tenant, Running, Exists
    <2> QED
      BY <1>1, <2>1 DEF Flow, Known
  <1>6. (unforced => Free)'
    BY <1>1 DEF Flow, Free, Tenant, Exists
  <1> QED
    BY <1>2, <1>3, <1>4, <1>5, <1>6 DEF Flow, Pipe

LEMMA DeliveredInformed ==
    ASSUME Inv, Informed, NEW n \in Networks, NEW r, Delivered(n, r) PROVE Informed'
  <1> USE DEF Delivered
  <1>1. \A m \in Networks \ {n} : InWatch(m) => InWatch(m)'
    <2>1. ASSUME NEW m \in Networks \ {n}, NEW i \in DOMAIN watch, watch[i].name = m
          PROVE  InWatch(m)'
      <3>1. i # 1
        BY <2>1
      <3>2. i - 1 \in DOMAIN watch' /\ watch'[i - 1] = watch[i]
        BY <2>1, <3>1
      <3> QED
        BY <2>1, <3>2 DEF InWatch
    <2> QED
      BY <2>1 DEF InWatch
  <1>2. \A i \in DOMAIN watch' : LastOf(i)' => LastOf(i + 1)
    <2>1. ASSUME NEW i \in DOMAIN watch', LastOf(i)', NEW j \in DOMAIN watch, j > i + 1
          PROVE  watch[j].name # watch[i + 1].name
      <3>1. j - 1 \in DOMAIN watch' /\ watch'[j - 1] = watch[j] /\ j - 1 > i
        BY <2>1
      <3> QED
        BY <2>1, <3>1 DEF LastOf
    <2> QED
      BY <2>1 DEF LastOf
  <1>3. ~InWatch(n)' => LastOf(1)
    <2>1. ASSUME ~InWatch(n)', NEW j \in DOMAIN watch, j > 1 PROVE watch[j].name # n
      <3>1. j - 1 \in DOMAIN watch' /\ watch'[j - 1] = watch[j]
        BY <2>1
      <3> QED
        BY <2>1, <3>1 DEF InWatch
    <2> QED
      BY <2>1 DEF LastOf
  <1>4. ~InWatch(n)' => cache'[n] = nets'[n]
    BY <1>3 DEF Informed
  <1>5. \A m \in Networks \ {n} : ~InWatch(m)' => cache'[m] = nets'[m]
    BY <1>1 DEF Informed
  <1>6. \A i \in DOMAIN watch' : LastOf(i)' => watch'[i].resource = nets'[watch'[i].name]
    BY <1>2 DEF Informed
  <1> QED
    BY <1>4, <1>5, <1>6 DEF Informed

LEMMA DeliveredDomain ==
    ASSUME NEW n \in Networks, NEW r, Delivered(n, r)
    PROVE  \A i \in DOMAIN watch' : i + 1 \in DOMAIN watch /\ watch'[i] = watch[i + 1]
  BY DEF Delivered

LEMMA DeliveredFree ==
    ASSUME NEW n \in Networks, NEW r, Delivered(n, r),
           \A i \in DOMAIN watch : watch[i].resource.force = ""
    PROVE  \A i \in DOMAIN watch' : watch'[i].resource.force = ""
  <1> SUFFICES ASSUME NEW i \in DOMAIN watch' PROVE watch'[i].resource.force = ""
    OBVIOUS
  <1>1. i + 1 \in DOMAIN watch /\ watch'[i] = watch[i + 1]
    BY DeliveredDomain
  <1>2. watch[i + 1].resource.force = ""
    BY <1>1
  <1> QED
    BY <1>1, <1>2

LEMMA DeliverFlow == Inv /\ Flow /\ Deliver => Flow'
  <1> SUFFICES ASSUME Inv, Flow, Deliver PROVE Flow'
    OBVIOUS
  <1>1. PICK n \in Networks, r \in Resources : Delivered(n, r)
    BY DeliverIs
  <1>2. 1 \in DOMAIN watch /\ watch[1].name = n /\ watch[1].resource = r
        /\ UNCHANGED <<nets, created, unforced, restarted, name, copy>>
    BY <1>1 DEF Delivered
  <1>3. \A i \in DOMAIN watch' : i + 1 \in DOMAIN watch /\ watch'[i] = watch[i + 1]
    BY <1>1, DeliveredDomain
  <1>4. cache'[n] = r /\ \A m \in Networks \ {n} : cache'[m] = cache[m]
    BY <1>1 DEF Delivered
  <1>5. Numbered'
    BY <1>2, <1>3, <1>4 DEF Flow, Pipe, Numbered
  <1>6. Ordered'
    <2> SUFFICES ASSUME NEW m \in Networks PROVE OrderedAt(m)'
      BY DEF Ordered
    <2>1. \A first, then : Leads(m, first, then) => Leads(m, first, then)'
      BY <1>1, LeadsDelivered
    <2>2. PICK u : u = nets[m].uid
      OBVIOUS
    <2>3. u = nets'[m].uid /\ OrderedAt(m)
      BY <1>2, <2>2 DEF Flow, Pipe, Ordered
    <2> QED
      BY <1>2, <2>1, <2>2, <2>3 DEF OrderedAt, Exists
  <1>7. Known'
    <2>1. \A m \in Networks : (Tenant(m)' <=> Tenant(m)) /\ (Running(m)' <=> Running(m))
      BY <1>2 DEF Tenant, Running, Exists
    <2>2. ASSUME Tenant(n) PROVE r.uid = nets[n].uid
      <3>1. PICK u : u = nets[n].uid
        OBVIOUS
      <3>2. Leads(n, OfUid(u), OfUid(u)) /\ cache[n] \in OfUid(u)
        BY <2>2, <3>1 DEF Flow, Pipe, Ordered, OrderedAt, Known, Tenant, OfUid, Inv, InformerOK
      <3>3. r \in OfUid(u)
        BY <1>2, <3>2 DEF Leads
      <3> QED
        BY <3>1, <3>3 DEF OfUid
    <2>3. ASSUME unforced, Running(n), n \notin restarted PROVE r \in Late(nets[n].uid)
      <3>1. PICK u : u = nets[n].uid
        OBVIOUS
      <3>2. Leads(n, Late(u), Late(u)) /\ cache[n] \in Late(u)
        BY <2>3, <3>1 DEF Flow, Pipe, Ordered, OrderedAt, Known, Running
      <3> QED
        BY <1>2, <3>1, <3>2 DEF Leads
    <2> QED
      BY <1>2, <1>4, <2>1, <2>2, <2>3 DEF Flow, Known
  <1>8. ASSUME unforced' PROVE Free'
    <2>1. Free
      BY <1>2, <1>8 DEF Flow
    <2>2. \A m \in restarted' : Tenant(m)'
      BY <1>2, <2>1 DEF Free, Tenant, Exists
    <2>3. \A i \in DOMAIN watch' : watch'[i].resource.force = ""
      BY <1>1, <2>1, DeliveredFree DEF Free
    <2>4. r.force = "" /\ copy'.force = ""
      BY <1>2, <2>1, Zenon DEF Free
    <2>5. \A m \in Networks : nets'[m].force = "" /\ cache'[m].force = ""
      BY <1>2, <1>4, <2>1, <2>4, Zenon DEF Free
    <2> QED
      BY <2>2, <2>3, <2>4, <2>5 DEF Free
  <1> QED
    BY <1>1, <1>5, <1>6, <1>7, <1>8, DeliveredInformed DEF Flow, Pipe

LEMMA CrashFlow == Inv /\ Flow /\ Crash => Flow'
  <1> SUFFICES ASSUME Inv, Flow, Crash PROVE Flow'
    OBVIOUS
  <1>1. /\ UNCHANGED <<nets, created, unforced, restarted>> /\ watch' = <<>> /\ cache' = nets
        /\ name' = None /\ copy' = Absent
    BY DEF Crash, users, history
  <1>2. DOMAIN watch' = {}
    BY <1>1
  <1>3. 0 <= created
    BY Bounded
  <1>4. Informed' /\ Numbered'
    BY <1>1, <1>2, <1>3, NoName DEF Flow, Pipe, Informed, Numbered, InWatch
  <1>5. Ordered'
    <2>1. \A n \in Networks : \A first, then : first \subseteq then => Leads(n, first, then)'
      BY <1>1, <1>2, NoName DEF Leads
    <2> QED
      BY <2>1, Versions DEF Ordered, OrderedAt
  <1>6. Known'
    BY <1>1, NoName DEF Known, Tenant, Running, Exists, Late, LateStates, Inv, UsersOK
  <1>7. (unforced => Free)'
    BY <1>1, <1>2, NoName DEF Flow, Free, Tenant, Exists
  <1> QED
    BY <1>4, <1>5, <1>6, <1>7 DEF Flow, Pipe

\* What the worker writes, or tries to.
LEMMA ForceFlow == PipeInv /\ (HandleForced \/ ClearForce) => Flow'
  <1> SUFFICES ASSUME PipeInv, HandleForced \/ ClearForce PROVE Flow'
    OBVIOUS
  <1>1. Inv /\ Flow /\ name \in Networks /\ copy.uid # 0 /\ copy.force # ""
    BY DEF PipeInv, Flow, HandleForced, ClearForce, Holding, Inv, Busy
  <1>2. ~unforced
    BY <1>1 DEF Flow, Free
  <1>3. UNCHANGED <<created, unforced, restarted>>
    BY DEF HandleForced, ClearForce, history
  <1>4. ASSUME NEW r \in Resources, Written(name, r), nets[name] = copy, r.uid = copy.uid,
               Ends \/ GoesOn(name, r)
        PROVE  Flow'
    <2>1. Advances(name, r)
      BY <1>1, <1>2, <1>3, <1>4 DEF Advances, Inv, UsersOK
    <2> QED
      BY <1>1, <1>2, <1>3, <1>4, <2>1, AdvanceFlow
  <1>5. ASSUME UNCHANGED <<nets, informer>>, Ends PROVE Flow'
    BY <1>1, <1>3, <1>5, QuietFlow DEF informer
  <1>6. copy \in Resources
    BY <1>1 DEF Inv, WorkerOK
  <1>7. CASE HandleForced
    <2>1. PICK r : r = [copy EXCEPT !.state = copy.force]
      OBVIOUS
    <2>2. r \in Resources /\ r.uid = copy.uid
      BY <1>1, <1>6, <2>1, WritesAre DEF Resources
    <2> QED
      BY <1>4, <1>5, <1>7, <2>1, <2>2 DEF HandleForced, WriteAndGoto, Return, Ends, GoesOn
  <1>8. CASE ClearForce
    <2>1. PICK r : r = [copy EXCEPT !.force = ""]
      OBVIOUS
    <2>2. r \in Resources /\ r.uid = copy.uid
      BY <1>1, <1>6, <2>1, WritesAre DEF Resources
    <2> QED
      BY <1>4, <1>5, <1>8, <2>1, <2>2 DEF ClearForce, Return, Ends
  <1> QED
    BY <1>7, <1>8

\* The version with which a network goes back to New.
Renewed == [copy EXCEPT !.state = "New", !.edited = FALSE]

LEMMA RenewedIs ==
    ASSUME Inv
    PROVE  Renewed \in Resources /\ Renewed.uid = copy.uid /\ Renewed.state = "New"
           /\ Renewed.force = copy.force
  <1>1. copy \in Resources
    BY DEF Inv, WorkerOK
  <1> QED
    BY <1>1, WritesAre DEF Renewed, Resources

LEMMA HandleChartReadyIs ==
    ASSUME Inv, HandleChartReady
    PROVE  /\ name \in Networks /\ copy.uid # 0 /\ copy.state = "ChartReady" /\ pc = "handle"
           /\ copy.force = "" /\ UNCHANGED <<history, queue, shared, workflows, crashes>>
           /\ \/ /\ nets[name] = copy /\ Written(name, Renewed)
                 /\ restarted' = restarted \union {name}
                 /\ \/ pc' = "submit" /\ GoesOn(name, Renewed) /\ UNCHANGED faults
                    \/ Fault /\ Ends /\ pc' = "idle"
              \/ /\ nets[name] # copy /\ UNCHANGED <<nets, informer, faults, restarted>>
                 /\ Ends /\ pc' = "idle"
  <1>1. pc = "handle" /\ copy.uid # 0 /\ copy.force = "" /\ copy.state = "ChartReady"
    BY DEF HandleChartReady, Handling, Unforced
  <1>2. WriteAndGoto(Renewed, "submit")
    BY DEF HandleChartReady, Renewed
  <1>3. restarted' = IF nets[name] = copy THEN restarted \union {name} ELSE restarted
    BY DEF HandleChartReady
  <1> QED
    BY <1>1, <1>2, <1>3 DEF HandleChartReady, WriteAndGoto, Return, Ends, GoesOn, Inv, Busy

LEMMA ChartReadyFlow == PipeInv /\ HandleChartReady => Flow'
  <1> SUFFICES ASSUME PipeInv, HandleChartReady PROVE Flow'
    OBVIOUS
  <1>1. Inv /\ Flow
    BY DEF PipeInv, Flow
  <1>2. UNCHANGED <<created, unforced>> /\ name \in Networks
    BY <1>1, HandleChartReadyIs DEF history
  <1>3. CASE nets[name] = copy /\ Written(name, Renewed) /\ restarted' = restarted \union {name}
             /\ (Ends \/ GoesOn(name, Renewed))
    <2>1. Advances(name, Renewed)
      BY <1>1, <1>2, <1>3, RenewedIs DEF Advances, Inv, UsersOK
    <2> QED
      BY <1>1, <1>2, <1>3, <2>1, RenewedIs, HandleChartReadyIs, AdvanceFlow
  <1>4. CASE UNCHANGED <<nets, informer, restarted>> /\ Ends
    BY <1>1, <1>2, <1>4, QuietFlow DEF informer
  <1> QED
    BY <1>1, <1>3, <1>4, HandleChartReadyIs

LEMMA SaveFlow == PipeInv /\ SaveStatus => Flow'
  <1> SUFFICES ASSUME PipeInv, SaveStatus PROVE Flow'
    OBVIOUS
  <1>1. Inv /\ Flow /\ Holding /\ pc = "save" /\ name \in Networks
    BY DEF PipeInv, Flow, SaveStatus, Inv, Busy
  <1>2. UNCHANGED <<created, unforced, restarted>> /\ Ends
    BY DEF SaveStatus, history, Return, Ends
  <1>3. copy.uid # 0 /\ <<copy.state, draft>> \in Saves
    BY <1>1 DEF Holding
  <1>4. Recorded \in Resources /\ Recorded.uid = copy.uid /\ Recorded.state = draft
        /\ Recorded.force = copy.force
    BY <1>1, RecordedIs
  <1>5. CASE nets[name] = copy /\ Written(name, Recorded)
    <2>1. ASSUME unforced', name \in restarted' PROVE draft = "New" \/ draft \in LateStates
      <3>1. Free /\ name \in restarted
        BY <1>1, <1>2, <2>1 DEF Flow
      <3>2. copy.state = "New" \/ copy.state \in LateStates
        BY <1>5, <3>1 DEF Free, Tenant, LateStates
      <3> QED
        BY <1>3, <3>2 DEF Saves, LateStates
    <2>2. copy.state \in LateStates => draft \in LateStates
      BY <1>3 DEF Saves, LateStates
    <2>3. ASSUME name \notin restarted', draft \in {"ChartReady", "Running"}
          PROVE  copy.state \in LateStates
      <3>1. ~Submitting
        BY <1>1, <1>2, <1>5, <2>3 DEF Holding
      <3> QED
        BY <1>1, <1>3, <2>3, <3>1 DEF Saves, LateStates, Submitting
    <2>4. Advances(name, Recorded)
      BY <1>1, <1>2, <1>4, <1>5, <2>1, <2>2, <2>3 DEF Advances, Inv, UsersOK
    <2>5. unforced => copy.force = ""
      BY <1>1 DEF Flow, Free
    <2> QED
      BY <1>1, <1>2, <1>3, <1>4, <1>5, <2>4, <2>5, AdvanceFlow
  <1>6. CASE UNCHANGED <<nets, informer>>
    BY <1>1, <1>2, <1>6, QuietFlow DEF informer
  <1> QED
    BY <1>5, <1>6 DEF SaveStatus
-----------------------------------------------------------------------------
\* What the worker holds.
LEMMA UserHolding ==
    ASSUME PipeInv, NEW n \in Networks, Create(n) \/ Update(n) \/ Delete(n) PROVE Holding'
  <1>1. Inv /\ Holding /\ Numbered /\ UNCHANGED <<pc, name, copy, draft>>
    BY DEF PipeInv, Pipe, Create, Update, Delete, worker
  <1> SUFFICES ASSUME Submitting', NEW m \in Networks, name' = m, copy'.uid = nets'[m].uid
               PROVE  m \in restarted'
    BY <1>1 DEF Holding
  <1>2. Submitting /\ copy.uid # 0
    BY <1>1 DEF Submitting, Holding
  <1>3. m \in restarted \/ copy.uid # nets[m].uid
    BY <1>1, <1>2 DEF Holding
  <1>4. CASE Create(n)
    <2>1. PICK r \in Resources : r.uid = created + 1 /\ Written(n, r)
      BY <1>1, <1>4, CreatedType DEF Create
    <2>2. copy.uid # created + 1
      <3>1. \A k, c \in Int : k <= c => k # c + 1
        OBVIOUS
      <3> QED
        BY <1>1, <3>1, Bounded DEF Numbered
    <2>3. nets'[m] = IF m = n THEN r ELSE nets[m]
      BY <1>1, <2>1 DEF Written, Inv, UsersOK
    <2> QED
      BY <1>1, <1>3, <1>4, <2>1, <2>2, <2>3 DEF Create
  <1>5. CASE Update(n)
    <2>1. PICK r \in Resources : UpdatedBy(n, r)
      BY <1>1, <1>5, UpdateIs
    <2>2. nets'[m].uid = nets[m].uid
      BY <1>1, <2>1 DEF UpdatedBy, Written, Inv, UsersOK
    <2> QED
      BY <1>1, <1>3, <1>5, <2>2 DEF Update
  <1>6. CASE Delete(n)
    <2>1. nets'[m] = IF m = n THEN Absent ELSE nets[m]
      BY <1>1, <1>6 DEF Delete, Written, Inv, UsersOK
    <2> QED
      BY <1>1, <1>2, <1>3, <1>6, <2>1, NoName DEF Delete
  <1> QED
    BY <1>4, <1>5, <1>6

\* The worker comes to an end, goes on to the next step, or saves a state.
LEMMA HandlesIs ==
    ASSUME Inv, Holding, Handles
    PROVE  /\ UNCHANGED <<users, informer, queue, crashes>> /\ pc # "idle" /\ name \in Networks
           /\ Keeps \/ Ends
           /\ Holding'
  <1>1. pc # "idle" /\ name \in Networks /\ UNCHANGED <<users, informer, queue, crashes>>
    BY HandlesFrame
  <1>2. UNCHANGED <<nets, restarted>>
    BY <1>1 DEF users
  <1>3. ASSUME NEW retry, Return(retry) PROVE Ends /\ Holding'
    BY <1>3 DEF Return, Holding, Submitting, Ends
  <1>4. CASE Goto("handle")
    BY <1>1, <1>4 DEF Goto, Holding, Submitting, Keeps
  <1>5. CASE Goto("prepare") /\ Teardown
    BY <1>1, <1>5 DEF Goto, Holding, Submitting, Teardown, Handling, Unforced, Keeps
  <1>6. CASE Goto("install") /\ Prepare
    BY <1>1, <1>6 DEF Goto, Holding, Submitting, Prepare, Keeps
  <1>7. CASE Goto("gone") /\ HandleGone
    BY <1>1, <1>7 DEF Goto, Holding, Submitting, HandleGone, Keeps
  <1>8. ASSUME NEW state, Save(state), copy.uid # 0, <<copy.state, state>> \in Saves,
               copy.state = "New" /\ state = "Running" => pc = "submit"
        PROVE  Keeps /\ Holding'
    BY <1>2, <1>8 DEF Save, Holding, Submitting, Keeps
  <1>9. CASE HandleNone
    BY <1>1, <1>8, <1>9 DEF HandleNone, Handling, Unforced, Saves
  <1>10. CASE Install /\ ~Return(TRUE)
    <2>1. \E state \in {"NeedsUpdate", "Installed"} : Save(state)
      BY <1>10, Zenon DEF Install
    <2>2. copy.uid # 0 /\ copy.state = "New"
      BY <1>10 DEF Install, Holding
    <2> QED
      BY <1>1, <1>8, <2>1, <2>2 DEF Saves
  <1>11. CASE Save("Installed") /\ Upgrade
    BY <1>1, <1>8, <1>11 DEF Upgrade, Handling, Unforced, Saves
  <1>12. CASE Save("ChartReady") /\ HandleInstalled
    BY <1>1, <1>8, <1>12 DEF HandleInstalled, Handling, Unforced, Saves
  <1>13. CASE Save("Running") /\ Submit
    BY <1>1, <1>8, <1>13 DEF Submit, Handling, Unforced, Saves, Holding
  <1>14. CASE Save("NeedsUpdate") /\ ApplyEdit
    BY <1>1, <1>8, <1>14 DEF ApplyEdit, Handling, Unforced, Saves
  <1>15. CASE \E retry : Return(retry)
    BY <1>1, <1>3, <1>15
  <1>16. (Keeps \/ Ends) /\ Holding'
    <2>1. CASE Teardown \/ Prepare \/ HandleGone
      BY <1>5, <1>6, <1>7, <1>15, <2>1, Zenon DEF Teardown, Prepare, HandleGone
    <2>2. CASE Install \/ HandleNone
      BY <1>9, <1>10, <1>15, <2>2, Zenon
    <2>3. CASE Upgrade \/ HandleInstalled \/ Submit \/ ApplyEdit
      BY <1>11, <1>12, <1>13, <1>14, <1>15, <2>3, Zenon
         DEF Upgrade, HandleInstalled, Submit, ApplyEdit
    <2>4. CASE Reconstruct \/ HandleRejected \/ HandleRunning \/ DeleteWorkflows \/ CallFails
      BY <1>4, <1>15, <2>4, Zenon
         DEF Reconstruct, HandleRejected, HandleRunning, DeleteWorkflows, CallFails
    <2> QED
      BY <2>1, <2>2, <2>3, <2>4 DEF Handles, Reads
  <1> QED
    BY <1>1, <1>16

LEMMA WriteHolding ==
    PipeInv /\ (HandleForced \/ ClearForce \/ HandleChartReady \/ SaveStatus) => Holding'
  <1> SUFFICES ASSUME PipeInv, HandleForced \/ ClearForce \/ HandleChartReady \/ SaveStatus
               PROVE  Holding'
    OBVIOUS
  <1>1. CASE \E retry : Return(retry)
    BY <1>1 DEF Return, Holding, Submitting
  <1>2. CASE HandleForced /\ ~Return(TRUE)
    <2>1. copy' = [copy EXCEPT !.state = copy.force] /\ pc' = "clear"
          /\ copy.uid # 0 /\ copy.force # "" /\ copy \in Resources
      BY <1>2 DEF HandleForced, WriteAndGoto, PipeInv, Inv, WorkerOK
    <2> QED
      BY <2>1 DEF Holding, Submitting, Resources
  <1>3. CASE HandleChartReady /\ pc' # "idle"
    <2>1. pc' = "submit" /\ GoesOn(name, Renewed) /\ restarted' = restarted \union {name}
          /\ copy.uid # 0
      BY <1>3, HandleChartReadyIs DEF PipeInv
    <2> QED
      BY <2>1, RenewedIs DEF Holding, Submitting, GoesOn, PipeInv
  <1>4. CASE pc' = "idle"
    BY <1>4 DEF Holding, Submitting
  <1> QED
    BY <1>1, <1>2, <1>3, <1>4 DEF ClearForce, SaveStatus

LEMMA PipeStep == PipeInv /\ [Next]_vars => PipeInv'
  <1> SUFFICES ASSUME PipeInv, [Next]_vars PROVE PipeInv'
    OBVIOUS
  <1>1. Inv' /\ Inv /\ Flow /\ Holding
    BY NextType DEF PipeInv, Flow
  <1> SUFFICES Flow' /\ Holding'
    BY <1>1 DEF PipeInv, Flow
  <1>2. ASSUME UNCHANGED <<nets, created, unforced, restarted, watch, cache, pc, name, copy, draft>>
        PROVE  Flow' /\ Holding'
    BY <1>1, <1>2, QuietFlow DEF Keeps, Holding, Submitting
  <1>3. CASE UNCHANGED vars \/ Timers \/ CollectGarbage
    BY <1>2, <1>3 DEF vars, users, history, informer, worker, Timers, TimerFires, CollectGarbage
  <1>4. ASSUME NEW n \in Networks, Create(n) \/ Update(n) \/ Delete(n) PROVE Flow' /\ Holding'
    BY <1>1, <1>4, CreateFlow, UpdateFlow, DeleteFlow, UserHolding
  <1>5. CASE Deliver
    BY <1>1, <1>5, DeliverFlow DEF Deliver, users, worker, Holding, Submitting
  <1>6. CASE Begin
    BY <1>1, <1>6, BeginFlow DEF Begin, Holding, Submitting
  <1>7. CASE Handles
    BY <1>1, <1>7, HandlesIs, QuietFlow DEF users, history, informer
  <1>8. CASE HandleForced \/ ClearForce \/ HandleChartReady \/ SaveStatus
    BY <1>8, ForceFlow, ChartReadyFlow, SaveFlow, WriteHolding
  <1>9. CASE Crash
    BY <1>1, <1>9, CrashFlow DEF Crash, Holding, Submitting
  <1> QED
    BY <1>3, <1>4, <1>5, <1>6, <1>7, <1>8, <1>9 DEF Next, Worker, Handles, Reads

LEMMA PipeInit == Init => PipeInv
  <1> SUFFICES ASSUME Init PROVE PipeInv
    OBVIOUS
  <1>1. Inv
    BY InitTyped
  <1>2. /\ \A n \in Networks : nets[n] = Absent /\ cache[n] = Absent
        /\ created = 0 /\ copy = Absent /\ pc = "idle" /\ name = None /\ restarted = {}
    BY DEF Init
  <1>3. watch = <<>>
    BY DEF Init
  <1>4. DOMAIN watch = {}
    BY <1>3
  <1>5. Informed /\ Numbered
    <2>1. 0 <= 0
      OBVIOUS
    <2> QED
      BY <1>2, <1>4, <2>1, NoName DEF Informed, Numbered, InWatch
  <1>7. Ordered
    <2>1. Absent \in Early /\ \A n \in Networks : ~Exists(n)
      BY <1>2, NoName, AbsentType DEF Early, Exists
    <2> QED
      BY <1>2, <1>4, <2>1, NoName DEF Ordered, OrderedAt, Leads
  <1>6. Known /\ Free
    BY <1>2, <1>4, NoName DEF Known, Free, Tenant, Running, Exists
  <1> QED
    BY <1>1, <1>2, <1>5, <1>6, <1>7 DEF PipeInv, Pipe, Holding, Submitting

-----------------------------------------------------------------------------
\* No step has failed, the operator has not been restarted and no state was forced.
Undisturbed == Calm /\ unforced

LEMMA StillCalm ==
    ASSUME Inv, [Next]_vars, Calm'
    PROVE  Calm /\ ~Crash /\ ~Fault /\ ~CallFails
  <1>0. crashes \in 0..MaxCrashes /\ faults \in 0..MaxFaults
    BY DEF Inv, FailuresOK
  <1>1. crashes - 1 # MaxCrashes /\ faults - 1 # MaxFaults
    BY <1>0, BoundTypes
  <1>2. ~Crash
    BY <1>1 DEF Crash, Calm
  <1>3. ~Fault
    BY <1>1 DEF Fault, Calm
  <1>4. ~CallFails
    BY <1>3 DEF CallFails
  <1>5. UNCHANGED <<crashes, faults>>
    <2>1. CASE UNCHANGED vars
      BY <2>1 DEF vars
    <2>2. CASE \E n \in Networks : Create(n) \/ Update(n) \/ Delete(n)
      BY <2>2 DEF Create, Update, Delete
    <2>3. CASE Deliver \/ Timers \/ CollectGarbage \/ Begin
      BY <2>3 DEF Deliver, Timers, TimerFires, CollectGarbage, Begin
    <2>4. CASE Handles
      BY <1>3, <2>4, HandlesFrame
    <2>5. CASE HandleForced \/ ClearForce \/ HandleChartReady \/ SaveStatus
      BY <1>3, <2>5 DEF HandleForced, ClearForce, HandleChartReady, SaveStatus, WriteAndGoto
    <2> QED
      BY <1>2, <2>1, <2>2, <2>3, <2>4, <2>5 DEF Next, Worker, Handles, Reads
  <1> QED
    BY <1>2, <1>3, <1>4, <1>5 DEF Calm

LEMMA StillUndisturbed == Inv /\ [Next]_vars /\ Undisturbed' => Undisturbed
  <1> SUFFICES ASSUME Inv, [Next]_vars, Undisturbed' PROVE Undisturbed
    OBVIOUS
  <1>1. Calm
    BY StillCalm DEF Undisturbed
  <1>2. unforced' => unforced
    <2>1. CASE UNCHANGED <<users, history>> \/ UNCHANGED history
      BY <2>1 DEF users, history
    <2>2. CASE \E n \in Networks : Create(n) \/ Update(n) \/ Delete(n)
      BY <2>2, UpdateIs DEF Create, Delete, history, UpdatedBy
    <2>3. CASE Handles
      BY <2>1, <2>3, HandlesFrame DEF users
    <2> QED
      BY <2>1, <2>2, <2>3 DEF Next, Worker, Handles, Reads, Deliver, Timers, TimerFires,
         CollectGarbage, Begin, HandleForced, ClearForce, HandleChartReady, SaveStatus, Crash,
         vars, users
  <1> QED
    BY <1>1, <1>2 DEF Undisturbed

LEMMA UndisturbedFree ==
    ASSUME PipeInv, Undisturbed
    PROVE  /\ Free
           /\ \A n \in Networks : Running(n) /\ n \notin restarted =>
                 cache[n] \in Late(nets[n].uid) /\ (name = n => copy \in Late(nets[n].uid))
           /\ ~HandleForced /\ ~ClearForce
  <1>1. Free
    BY DEF PipeInv, Undisturbed
  <1>2. copy.force = ""
    BY <1>1 DEF Free
  <1>3. ~HandleForced
    BY <1>2 DEF HandleForced
  <1>4. ~ClearForce
    BY <1>2 DEF ClearForce, PipeInv, Holding
  <1> QED
    BY <1>1, <1>3, <1>4 DEF PipeInv, Undisturbed, Known

\* In calm: who is set up, in whatever version, has the release, but for the moment in
\* which the worker does once more, for a network read late, what New demands.
Placed(n) ==
    \/ n \in restarted
    \/ nets[n] \notin Early \/ cache[n] \notin Early
    \/ \E i \in DOMAIN watch : watch[i].name = n /\ watch[i].resource \notin Early
    \/ name = n /\ copy \notin Early
Redone(n) == name = n /\ pc \in {"prepare", "install"} /\ release.owner = None
Held ==
    /\ pc \in {"prepare", "install", "gone"} => release.owner # name
    /\ Submitting \/ (pc = "save" /\ draft \in LateStates) => release.owner = name
    /\ \A n \in Networks : Placed(n) => release.owner = n \/ Redone(n)


LEMMA PlacedSame ==
    ASSUME UNCHANGED <<nets, watch, cache, restarted>>, Keeps \/ Ends \/ copy' = cache[name']
    PROVE  \A n \in Networks : Placed(n)' => Placed(n)
  BY NoName DEF Placed, Keeps, Ends

LEMMA PlacedWritten ==
    ASSUME NEW n \in Networks, NEW r, Appended(n, r), r \in Early \/ Placed(n),
           \A m \in Networks : m \in restarted' => Placed(m),
           Keeps \/ Ends \/ GoesOn(n, r)
    PROVE  \A m \in Networks : Placed(m)' => Placed(m)
  <1> SUFFICES ASSUME NEW m \in Networks, Placed(m)', ~Placed(m) PROVE FALSE
    OBVIOUS
  <1>1. /\ m \notin restarted' /\ nets[m] \in Early /\ cache[m] \in Early
        /\ m = n => r \in Early
        /\ \A i \in DOMAIN watch : watch[i].name = m => watch[i].resource \in Early
        /\ name = m => copy \in Early
    BY DEF Placed
  <1>2. nets'[m] \in Early /\ cache'[m] \in Early
    BY <1>1 DEF Appended
  <1>3. name' = m => copy' \in Early
    BY <1>1, NoName DEF Keeps, Ends, GoesOn
  <1>4. \A i \in DOMAIN watch' : watch'[i].name = m => watch'[i].resource \in Early
    BY <1>1, AppendedDomain DEF Appended
  <1> QED
    BY <1>1, <1>2, <1>3, <1>4 DEF Placed

LEMMA PlacedDelivered ==
    ASSUME NEW n \in Networks, NEW r, Delivered(n, r)
    PROVE  \A m \in Networks : Placed(m)' => Placed(m)
  <1> SUFFICES ASSUME NEW m \in Networks, Placed(m)', ~Placed(m) PROVE FALSE
    OBVIOUS
  <1>1. 1 \in DOMAIN watch /\ watch[1].name = n /\ watch[1].resource = r
        /\ UNCHANGED <<nets, restarted, name, copy>>
    BY DEF Delivered
  <1>2. cache'[n] = r /\ \A k \in Networks \ {n} : cache'[k] = cache[k]
    BY DEF Delivered
  <1> QED
    BY <1>1, <1>2, DeliveredDomain DEF Placed

\* What changes nothing of the worker's steps and the owner of the release.
LEMMA HeldFrame ==
    ASSUME Held, \A n \in Networks : Placed(n)' => Placed(n), UNCHANGED <<name, pc, draft>>,
           Submitting' => Submitting, release'.owner = release.owner
    PROVE  Held'
  BY DEF Held, Redone

\* Steps of the worker that leave the release, and neither build nor submit.
LEMMA LightHeld ==
    ASSUME Held, \A n \in Networks : Placed(n)' => Placed(n), release' = release,
           ~(pc \in {"prepare", "install"}),
           \/ pc' = "idle"
           \/ pc' = "handle"
           \/ pc' = "save" /\ draft' \notin LateStates
    PROVE  Held'
  BY DEF Held, Redone, Submitting, LateStates

\* Steps of the worker for the network that has the release.
LEMMA OwnHeld ==
    ASSUME Held, \A n \in Networks : Placed(n)' => Placed(n),
           release.owner = name, release'.owner = name, name' = name,
           pc' \in {"save", "submit"}, name \in Networks
    PROVE  Held'
  <1>1. \A n \in Networks : Placed(n) => n = name
    BY NoName DEF Held, Redone
  <1> QED
    BY <1>1 DEF Held

LEMMA LatePlaced ==
    ASSUME PipeInv, Held, name \in Networks, copy.uid # 0, copy.state \in LateStates, pc = "handle"
    PROVE  Placed(name) /\ release.owner = name
  <1>1. copy \notin Early
    BY DEF Early
  <1> QED
    BY <1>1 DEF Held, Placed, Redone

LEMMA UserHeld ==
    ASSUME PipeInv, Held, Undisturbed, NEW n \in Networks, Create(n) \/ Update(n) \/ Delete(n)
    PROVE  Held'
  <1>1. UNCHANGED <<name, pc, draft, copy, release>> /\ Inv
    BY DEF Create, Update, Delete, worker, shared, PipeInv
  <1>2. restarted' \subseteq restarted
    BY DEF Create, Update, Delete
  <1>3. \E r \in Resources : Written(n, r) /\ (r \in Early \/ Placed(n))
    <2>1. CASE Create(n)
      BY <1>1, <2>1, CreatedType DEF Create, Early, LateStates
    <2>2. CASE Update(n)
      <3>1. PICK r \in Resources : UpdatedBy(n, r)
        BY <1>1, <2>2, UpdateIs
      <3>2. r \notin Early => nets[n] \notin Early
        BY <1>1, <3>1 DEF UpdatedBy, Early, Inv, UsersOK
      <3> QED
        BY <3>1, <3>2 DEF UpdatedBy, Placed
    <2>3. CASE Delete(n)
      BY <2>3, AbsentType, NoName DEF Delete, Early
    <2> QED
      BY <2>1, <2>2, <2>3
  <1>4. \A m \in Networks : Placed(m)' => Placed(m)
    <2>1. \A m \in Networks : m \in restarted' => Placed(m)
      BY <1>2 DEF Placed
    <2> QED
      BY <1>1, <1>3, <2>1, AppendIs, PlacedWritten DEF Keeps
  <1> QED
    BY <1>1, <1>4, HeldFrame DEF Submitting

LEMMA TeardownHeld == PipeInv /\ Held /\ Teardown => Held'
  <1> SUFFICES ASSUME PipeInv, Held, Teardown PROVE Held'
    OBVIOUS
  <1>1. /\ pc = "handle" /\ pc' = "prepare" /\ UNCHANGED <<name, copy>> /\ release' = Uninstalled
        /\ name \in Networks /\ UNCHANGED <<users, informer>>
    BY DEF Teardown, Handling, Unforced, Goto, PipeInv, Inv, Busy
  <1>2. release'.owner # name /\ (release.owner # name => release' = release)
        /\ (release.owner = name => release'.owner = None)
    BY <1>1, NoName DEF Uninstalled, Owned, NoRelease
  <1>3. \A n \in Networks : Placed(n)' => release.owner = n
    BY <1>1, PlacedSame DEF Held, Redone, Keeps, users, informer
  <1> QED
    BY <1>1, <1>2, <1>3 DEF Held, Redone, Submitting

LEMMA PrepareHeld == PipeInv /\ Held /\ Prepare /\ ~Fault => Held'
  <1> SUFFICES ASSUME PipeInv, Held, Prepare, ~Fault PROVE Held'
    OBVIOUS
  <1>1. /\ pc = "prepare" /\ pc' = "install" /\ UNCHANGED <<name, copy>>
        /\ UNCHANGED <<users, informer>> /\ release'.owner = release.owner
    BY DEF Prepare, NewCertificates, Goto, PipeInv, Inv, SharedOK, Releases
  <1>2. \A n \in Networks : Placed(n)' => Placed(n)
    BY <1>1, PlacedSame DEF Keeps, users, informer
  <1> QED
    BY <1>1, <1>2 DEF Held, Redone, Submitting

LEMMA InstallHeld == PipeInv /\ Held /\ Install /\ ~Fault => Held'
  <1> SUFFICES ASSUME PipeInv, Held, Install, ~Fault PROVE Held'
    OBVIOUS
  <1>1. pc = "install" /\ UNCHANGED <<users, informer>> /\ name \in Networks
    BY DEF Install, PipeInv, Inv, Busy
  <1>2. CASE /\ release.owner = None /\ release'.owner = name
             /\ pc' = "save" /\ UNCHANGED <<name, copy>>
    <2>1. \A n \in Networks : Placed(n)' => n = name
      BY <1>1, <1>2, NoName, PlacedSame DEF Held, Redone, Keeps, users, informer
    <2> QED
      BY <1>2, <2>1 DEF Held
  <1>3. CASE release.owner # None /\ release' = release /\ pc' = "idle" /\ Ends
    <2>1. \A n \in Networks : Placed(n)' => Placed(n)
      BY <1>1, <1>3, PlacedSame DEF users, informer
    <2> QED
      BY <1>1, <1>3, <2>1 DEF Held, Redone, Submitting
  <1>4. CASE /\ release.owner = None /\ \E state \in States : Save(state)
             /\ release' = [owner |-> name, current |-> dir[name] = "stored"]
    BY <1>2, <1>4 DEF Save
  <1>5. CASE release.owner # None /\ UNCHANGED release /\ Return(TRUE)
    BY <1>3, <1>5 DEF Return, Ends
  <1>6. "NeedsUpdate" \in States /\ "Installed" \in States
    BY DEF States
  <1> QED
    BY <1>4, <1>5, <1>6, Zenon DEF Install

\* The worker finds the pods ready, or will look again.
PodsAreReady == HandleInstalled /\ Save("ChartReady")
PodsAreNot == HandleInstalled /\ Return(TRUE)

\* Steps for a network read as set up.
LEMMA LateHeld ==
    PipeInv /\ Held /\ (Upgrade \/ PodsAreReady \/ Submit \/ ApplyEdit) /\ ~Fault => Held'
  <1> USE DEF PodsAreReady
  <1> SUFFICES ASSUME PipeInv, Held, Upgrade \/ PodsAreReady \/ Submit \/ ApplyEdit, ~Fault
               PROVE  Held'
    OBVIOUS
  <1>1. UNCHANGED <<users, informer>> /\ name \in Networks /\ Inv /\ Holding
    BY DEF Upgrade, HandleInstalled, Submit, ApplyEdit, PipeInv, Inv, Busy, Handling, Unforced
  <1>2. release.owner = name
    <2>1. CASE pc = "submit"
      BY <2>1 DEF Held, Submitting
    <2>2. CASE pc # "submit"
      <3>1. pc = "handle" /\ copy.uid # 0 /\ copy.state \in LateStates
        BY <2>2 DEF Upgrade, HandleInstalled, Submit, ApplyEdit, Handling, Unforced, LateStates
      <3> QED
        BY <1>1, <3>1, LatePlaced
    <2> QED
      BY <2>1, <2>2
  <1>3. \E state \in States : Save(state)
    BY <1>1, <1>2, NoName DEF Upgrade, HandleInstalled, Submit, ApplyEdit, States
  <1>4. pc' = "save" /\ UNCHANGED <<name, copy>>
    BY <1>3 DEF Save
  <1>5. release'.owner = name
    <2>1. UNCHANGED release \/ release' = [release EXCEPT !.current = FALSE]
          \/ release' = [owner |-> name, current |-> dir[name] = "stored"]
      BY Zenon DEF Upgrade, HandleInstalled, Submit, ApplyEdit, MoreCertificates,
         NewCertificates, shared
    <2>2. release \in Releases
      BY <1>1 DEF Inv, SharedOK
    <2> QED
      BY <1>2, <2>1, <2>2 DEF Releases
  <1>6. \A n \in Networks : Placed(n)' => Placed(n)
    BY <1>1, <1>4, PlacedSame DEF Keeps, users, informer
  <1> QED
    BY <1>1, <1>2, <1>4, <1>5, <1>6, OwnHeld

LEMMA ChartReadyHeld == PipeInv /\ Held /\ HandleChartReady /\ ~Fault => Held'
  <1> SUFFICES ASSUME PipeInv, Held, HandleChartReady, ~Fault PROVE Held'
    OBVIOUS
  <1>1. Inv /\ name \in Networks /\ UNCHANGED release /\ pc = "handle"
        /\ Placed(name) /\ release.owner = name
    BY HandleChartReadyIs, LatePlaced DEF PipeInv, shared, LateStates
  <1>2. CASE /\ Written(name, Renewed) /\ restarted' = restarted \union {name}
             /\ pc' = "submit" /\ GoesOn(name, Renewed)
    <2>1. \A m \in Networks : Placed(m)' => Placed(m)
      <3>1. \A m \in Networks : m \in restarted' => Placed(m)
        BY <1>1, <1>2 DEF Placed
      <3> QED
        BY <1>1, <1>2, <3>1, RenewedIs, AppendIs, PlacedWritten
    <2> QED
      BY <1>1, <1>2, <2>1, OwnHeld DEF GoesOn
  <1>3. CASE UNCHANGED <<nets, informer, restarted>> /\ Ends /\ pc' = "idle"
    <2>1. \A m \in Networks : Placed(m)' => Placed(m)
      BY <1>3, PlacedSame DEF informer
    <2> QED
      BY <1>1, <1>3, <2>1, LightHeld
  <1> QED
    BY <1>1, <1>2, <1>3, HandleChartReadyIs

LEMMA SaveHeld == PipeInv /\ Held /\ SaveStatus => Held'
  <1> SUFFICES ASSUME PipeInv, Held, SaveStatus PROVE Held'
    OBVIOUS
  <1>1. pc = "save" /\ pc' = "idle" /\ Ends /\ UNCHANGED <<release, restarted>> /\ Inv
        /\ name \in Networks
    BY DEF SaveStatus, Return, Ends, shared, PipeInv, Inv, Busy
  <1>2. CASE UNCHANGED <<nets, informer>>
    BY <1>1, <1>2, LightHeld, PlacedSame DEF informer
  <1>3. CASE Written(name, Recorded)
    <2>1. Recorded \in Resources /\ Recorded.state = draft
      BY <1>1, RecordedIs
    <2>2. CASE draft \notin LateStates
      <3>1. Recorded \in Early
        BY <2>1, <2>2 DEF Early
      <3>2. \A m \in Networks : m \in restarted' => Placed(m)
        BY <1>1 DEF Placed
      <3> QED
        BY <1>1, <1>3, <2>1, <3>1, <3>2, AppendIs, PlacedWritten, LightHeld
    <2>3. CASE draft \in LateStates
      <3>1. release.owner = name
        BY <1>1, <2>3 DEF Held
      <3>2. Appended(name, Recorded)
        BY <1>1, <1>3, <2>1, AppendIs
      <3>3. ASSUME NEW m \in Networks, Placed(m)', m # name PROVE Placed(m)
        <4>1. nets'[m] = nets[m] /\ cache' = cache /\ name' # m
          BY <1>1, <3>2, <3>3, NoName DEF Appended, Ends
        <4>2. \A i \in DOMAIN watch' : watch'[i].name = m => i \in DOMAIN watch /\ watch'[i] = watch[i]
          BY <3>2, <3>3, AppendedDomain DEF Appended
        <4> QED
          BY <1>1, <3>3, <4>1, <4>2 DEF Placed
      <3> QED
        BY <1>1, <3>1, <3>3 DEF Held, Redone, Submitting
    <2> QED
      BY <2>2, <2>3
  <1> QED
    BY <1>2, <1>3 DEF SaveStatus

LEMMA GoneHeld == PipeInv /\ Held /\ Undisturbed /\ HandleGone /\ ~Fault => Held'
  <1> SUFFICES ASSUME PipeInv, Held, Undisturbed, HandleGone, ~Fault PROVE Held'
    OBVIOUS
  <1>1. /\ pc = "handle" /\ pc' = "gone" /\ UNCHANGED <<name, copy>> /\ release' = Uninstalled
        /\ copy.uid = 0 /\ name \in Networks /\ UNCHANGED <<users, informer>> /\ copy \in Resources
    BY DEF HandleGone, Goto, PipeInv, Inv, Busy, WorkerOK
  <1>2. ~Placed(name)
    <2>1. copy \in Deleted /\ copy \in Early
      BY <1>1 DEF Deleted, Early
    <2>2. Leads(name, Deleted, Early)
      BY <1>1 DEF PipeInv, Pipe, Ordered, OrderedAt
    <2>3. name \notin restarted
      BY <1>1, UndisturbedFree DEF Free, Tenant, Exists, PipeInv, Known
    <2> QED
      BY <2>1, <2>2, <2>3 DEF Leads, Placed
  <1>3. \A n \in Networks : Placed(n)' => release.owner = n /\ n # name
    BY <1>1, <1>2, PlacedSame DEF Held, Redone, Keeps, users, informer
  <1>4. release'.owner # name /\ (release.owner # name => release' = release)
    BY <1>1, NoName DEF Uninstalled, Owned, NoRelease
  <1> QED
    BY <1>1, <1>3, <1>4 DEF Held, Redone, Submitting

LEMMA HeldStep ==
    PipeInv /\ (Undisturbed => Held) /\ [Next]_vars => (Undisturbed' => Held')
  <1> SUFFICES ASSUME PipeInv, Undisturbed => Held, [Next]_vars, Undisturbed' PROVE Held'
    OBVIOUS
  <1>1. Undisturbed /\ Held /\ Inv /\ Holding
    BY StillUndisturbed DEF PipeInv
  <1>2. ~Crash /\ ~Fault /\ ~CallFails
    BY <1>1, StillCalm DEF Undisturbed
  <1>3. ~HandleForced /\ ~ClearForce
    BY <1>1, UndisturbedFree
  <1>4. CASE UNCHANGED vars \/ Timers \/ CollectGarbage
    <2>1. UNCHANGED <<users, informer, worker>> /\ release'.owner = release.owner
      BY <1>1, <1>4 DEF vars, Timers, TimerFires, CollectGarbage, shared, Inv, SharedOK, Releases
    <2>2. UNCHANGED <<name, pc, draft, copy>> /\ \A n \in Networks : Placed(n)' => Placed(n)
      BY <2>1, PlacedSame DEF users, informer, worker, Keeps
    <2> QED
      BY <1>1, <2>1, <2>2, HeldFrame DEF Submitting
  <1>5. CASE Deliver
    <2>1. UNCHANGED <<name, pc, draft, copy, release>>
      BY <1>5 DEF Deliver, worker, shared
    <2>2. \A n \in Networks : Placed(n)' => Placed(n)
      BY <1>1, <1>5, DeliverIs, PlacedDelivered
    <2> QED
      BY <1>1, <2>1, <2>2, HeldFrame DEF Submitting
  <1>6. CASE Begin
    <2>1. /\ ~(pc \in {"prepare", "install"}) /\ pc' = "handle" /\ release' = release
          /\ UNCHANGED <<users, informer>> /\ copy' = cache[name']
      BY <1>6 DEF Begin, shared
    <2> QED
      BY <1>1, <2>1, LightHeld, PlacedSame DEF users, informer
  <1>7. CASE HandleNone \/ HandleRejected \/ PodsAreNot \/ HandleRunning \/ Reconstruct
             \/ DeleteWorkflows
    <2> USE DEF PodsAreNot, HandleInstalled
    <2>1. /\ ~(pc \in {"prepare", "install"}) /\ release' = release
          /\ UNCHANGED <<users, informer>>
      BY <1>7 DEF HandleNone, HandleRejected, HandleRunning, Reconstruct, DeleteWorkflows,
         Reconstructing, Handling, Unforced, shared
    <2>2. pc' = "idle" \/ pc' = "handle" \/ (pc' = "save" /\ draft' \notin LateStates)
      BY <1>7 DEF HandleNone, HandleRejected, HandleRunning, Reconstruct, DeleteWorkflows,
         Return, Goto, Save, LateStates
    <2>3. Keeps \/ Ends
      BY <1>1, <1>7, HandlesIs DEF Handles, Reads
    <2> QED
      BY <1>1, <2>1, <2>2, <2>3, LightHeld, PlacedSame DEF users, informer
  <1>8. CASE Next
    BY <1>1, <1>2, <1>3, <1>4, <1>5, <1>6, <1>7, <1>8, UserHeld, TeardownHeld, PrepareHeld,
       InstallHeld, LateHeld, ChartReadyHeld, SaveHeld, GoneHeld
       DEF Next, Worker, PodsAreReady, PodsAreNot, HandleInstalled
  <1> QED
    BY <1>4, <1>8

LEMMA HeldInit == Init => Held
  <1> SUFFICES ASSUME Init PROVE Held
    OBVIOUS
  <1>1. pc = "idle" /\ \A n \in Networks : nets[n] = Absent /\ cache[n] = Absent
        /\ copy = Absent /\ restarted = {}
    BY DEF Init
  <1>2. watch = <<>>
    BY DEF Init
  <1>3. DOMAIN watch = {}
    BY <1>2
  <1>4. Absent \in Early
    BY AbsentType, NoName DEF Early
  <1> QED
    BY <1>1, <1>3, <1>4 DEF Held, Placed, Submitting

LEMMA HeldRuns == PipeInv /\ (Undisturbed => Held) => RunningHasRelease
  <1> SUFFICES ASSUME PipeInv, Undisturbed, Held, NEW n \in Networks, Running(n)
               PROVE  release.owner = n \/ Redoing(n)
    BY DEF RunningHasRelease, Undisturbed
  <1>1. nets[n] \notin Early
    BY DEF Running, Early, LateStates, Exists
  <1>2. CASE Redone(n) /\ n \notin restarted
    <2>1. copy \in Late(nets[n].uid)
      BY <1>2, UndisturbedFree DEF Redone
    <2> QED
      BY <1>2, <2>1 DEF Redone, PipeInv, Holding, Late, LateStates
  <1>3. CASE Redone(n) /\ n \in restarted
    BY <1>3 DEF Redone, Redoing
  <1> QED
    BY <1>1, <1>2, <1>3 DEF Held, Placed

\* In calm, and as long as no state is forced, the network whose chart is ready has the
\* release in every reachable state, but for a restarted one that the worker is giving
\* a new one: neither what is cleaned up late, nor another admission, nor a New read late
\* takes it away (Reconcile, maybeUninstallHelmChart, installHelmChart).
THEOREM RunningHasReleaseAlways == Spec => []RunningHasRelease
  <1>1. Init => PipeInv /\ (Undisturbed => Held)
    BY PipeInit, HeldInit
  <1>2. PipeInv /\ (Undisturbed => Held) /\ [Next]_vars => PipeInv' /\ (Undisturbed => Held)'
    BY PipeStep, HeldStep
  <1>3. PipeInv /\ (Undisturbed => Held) => RunningHasRelease
    BY HeldRuns
  <1> QED
    BY <1>1, <1>2, <1>3, PTL DEF Spec

-----------------------------------------------------------------------------
\* The refinement: what the users of the namespace see of a step.
Present == { n \in Networks : Exists(n) }
Set == { n \in Networks : Tenant(n) }

LEMMA TenantsInit == Init => Tenants!Init
  <1> SUFFICES ASSUME Init PROVE Tenants!Init
    OBVIOUS
  <1>1. (Calm /\ unforced) = TRUE
    BY DEF Init, Calm
  <1>2. \A n \in Networks : nets[n] = Absent
    BY DEF Init
  <1> QED
    BY <1>1, <1>2, NoName DEF Tenants!Init, Exists, Tenant

LEMMA TenantsStep ==
    ASSUME Undisturbed, Undisturbed',
           \/ UNCHANGED <<Present, Set>>
           \/ \E n \in Networks \ Present : Present' = Present \union {n} /\ UNCHANGED Set
           \/ \E n \in Present : Present' = Present \ {n} /\ Set' = Set \ {n}
           \/ Set = {} /\ \E n \in Present : Set' = {n} /\ UNCHANGED Present
    PROVE  [Tenants!Next]_(Tenants!vars)
  <1>1. (Calm /\ unforced)' /\ (Calm /\ unforced) /\ ((Calm /\ unforced)' = (Calm /\ unforced))
    BY DEF Undisturbed
  <1> QED
    BY <1>1 DEF Tenants!Next, Tenants!Arrive, Tenants!Leave, Tenants!Settle, Tenants!vars,
       Present, Set

\* A version is written that is the same to the users.
LEMMA SameTenants ==
    ASSUME Undisturbed, Undisturbed', NEW n \in Networks, NEW r, Appended(n, r),
           r.uid = 0 <=> nets[n].uid = 0, Tenant(n)' <=> Tenant(n),
           \A m \in Networks \ {n} : m \in restarted' <=> m \in restarted
    PROVE  [Tenants!Next]_(Tenants!vars)
  <1>1. \A m \in Networks : (Exists(m)' <=> Exists(m)) /\ (Tenant(m)' <=> Tenant(m))
    BY DEF Appended, Exists, Tenant
  <1> QED
    BY <1>1, TenantsStep DEF Present, Set

LEMMA UserTenants ==
    ASSUME PipeInv, NEW n \in Networks, Create(n) \/ Update(n) \/ Delete(n),
           Undisturbed, Undisturbed'
    PROVE  [Tenants!Next]_(Tenants!vars)
  <1>0. Inv /\ Free
    BY UndisturbedFree DEF PipeInv
  <1>1. CASE Create(n)
    <2>1. PICK r \in Resources : r.uid # 0 /\ r.state = "" /\ Written(n, r)
      BY <1>0, <1>1, CreatedType DEF Create
    <2>2. n \notin Present /\ n \notin restarted /\ UNCHANGED restarted
      BY <1>0, <1>1 DEF Create, Present, Free, Tenant
    <2>3. nets'[n] = r /\ \A m \in Networks \ {n} : nets'[m] = nets[m]
      BY <1>0, <2>1, AppendIs DEF Appended
    <2>4. \A m \in Networks : /\ Exists(m)' <=> Exists(m) \/ m = n
                              /\ Tenant(m)' <=> Tenant(m)
      BY <2>1, <2>2, <2>3 DEF Exists, Tenant, Present
    <2>5. Present' = Present \union {n} /\ Set' = Set
      BY <2>4 DEF Present, Set
    <2> QED
      BY <2>2, <2>5, TenantsStep
  <1>2. CASE Update(n)
    <2>1. PICK r \in Resources : UpdatedBy(n, r)
      BY <1>0, <1>2, UpdateIs
    <2>2. Appended(n, r) /\ r.uid = nets[n].uid /\ r.state = nets[n].state /\ UNCHANGED restarted
      BY <1>0, <1>2, <2>1, AppendIs DEF UpdatedBy, Update
    <2>3. Tenant(n)' <=> Tenant(n)
      BY <2>2 DEF Appended, Tenant, Exists
    <2> QED
      BY <2>2, <2>3, SameTenants
  <1>3. CASE Delete(n)
    <2>1. Written(n, Absent) /\ n \in Present /\ restarted' = restarted \ {n}
      BY <1>3 DEF Delete, Present
    <2>2. nets'[n].uid = 0 /\ \A m \in Networks \ {n} : nets'[m] = nets[m]
      BY <1>0, <2>1, NoName, AbsentType, AppendIs DEF Appended
    <2>3. \A m \in Networks : /\ Exists(m)' <=> Exists(m) /\ m # n
                              /\ Tenant(m)' <=> Tenant(m) /\ m # n
      BY <2>1, <2>2 DEF Exists, Tenant
    <2>4. Present' = Present \ {n} /\ Set' = Set \ {n}
      BY <2>3 DEF Present, Set
    <2> QED
      BY <2>1, <2>4, TenantsStep
  <1> QED
    BY <1>1, <1>2, <1>3

LEMMA RestartTenants ==
    ASSUME PipeInv, HandleChartReady, Undisturbed, Undisturbed'
    PROVE  [Tenants!Next]_(Tenants!vars)
  <1>1. Inv /\ name \in Networks /\ copy.uid # 0 /\ copy.state = "ChartReady"
    BY HandleChartReadyIs DEF PipeInv
  <1>n. PICK n \in Networks : n = name
    BY <1>1
  <1>2. CASE nets[n] = copy /\ Written(n, Renewed) /\ restarted' = restarted \union {n}
    <2>1. Appended(n, Renewed) /\ Renewed.uid = copy.uid /\ Renewed.state = "New"
      BY <1>1, <1>2, RenewedIs, AppendIs
    <2>2. Tenant(n) /\ Tenant(n)'
      BY <1>1, <1>2, <2>1 DEF Tenant, Exists, Appended
    <2> QED
      BY <1>1, <1>2, <2>1, <2>2, SameTenants
  <1>3. CASE UNCHANGED <<nets, restarted>>
    BY <1>3, TenantsStep DEF Present, Set, Exists, Tenant
  <1> QED
    BY <1>1, <1>n, <1>2, <1>3, HandleChartReadyIs

\* A network is set up by the step that writes so; by Held no other one is then.
LEMMA SaveTenants ==
    ASSUME PipeInv, Held, SaveStatus, Undisturbed, Undisturbed'
    PROVE  [Tenants!Next]_(Tenants!vars)
  <1>1. Inv /\ Free /\ pc = "save" /\ UNCHANGED restarted /\ name \in Networks
        /\ copy.uid # 0 /\ <<copy.state, draft>> \in Saves
    BY UndisturbedFree DEF PipeInv, Holding, SaveStatus, Inv, Busy
  <1>n. PICK n \in Networks : n = name
    BY <1>1
  <1>2. CASE UNCHANGED nets
    BY <1>1, <1>2, TenantsStep DEF Present, Set, Exists, Tenant
  <1>3. CASE nets[n] = copy /\ Written(n, Recorded)
    <2>1. Appended(n, Recorded) /\ Recorded.uid = copy.uid /\ Recorded.state = draft
      BY <1>1, <1>3, RecordedIs, AppendIs
    <2>2. nets'[n] = Recorded /\ \A m \in Networks \ {n} : nets'[m] = nets[m]
      BY <2>1 DEF Appended
    <2>3. CASE draft \notin LateStates
      <3>1. copy.state = ""
        BY <1>1, <2>3 DEF Saves, LateStates
      <3>2. ~Tenant(n) /\ n \notin restarted
        BY <1>1, <1>3, <3>1 DEF Tenant, Free
      <3>3. ~Tenant(n)'
        BY <1>1, <2>1, <2>2, <2>3, <3>2 DEF Tenant, LateStates
      <3> QED
        BY <1>1, <1>3, <2>1, <3>2, <3>3, SameTenants
    <2>4. CASE draft \in LateStates /\ Tenant(n)
      <3>1. Tenant(n)'
        BY <1>1, <2>1, <2>2, <2>4 DEF Tenant, Exists, LateStates
      <3> QED
        BY <1>1, <1>3, <2>1, <2>4, <3>1, SameTenants
    <2>5. CASE draft \in LateStates /\ ~Tenant(n)
      <3>1. release.owner = n
        BY <1>1, <1>n, <2>5 DEF Held
      <3>2. ASSUME NEW m \in Networks, Tenant(m) PROVE m = n
        <4>1. nets[m] \notin Early \/ m \in restarted
          BY <3>2 DEF Tenant, Early, Exists, LateStates
        <4> QED
          BY <1>1, <3>1, <4>1 DEF Held, Placed, Redone
      <3>3. Set = {} /\ n \in Present
        BY <1>1, <1>3, <2>5, <3>2 DEF Set, Present, Exists
      <3>4. Tenant(n)'
        BY <1>1, <2>1, <2>2, <2>5 DEF Tenant, Exists, LateStates
      <3>5. \A m \in Networks : (Exists(m)' <=> Exists(m)) /\ (m # n => ~Tenant(m)')
        BY <1>1, <1>3, <2>1, <2>2, <3>2 DEF Tenant, Exists
      <3>6. Set' = {n} /\ Present' = Present
        BY <1>1, <3>4, <3>5 DEF Set, Present
      <3> QED
        BY <3>3, <3>6, TenantsStep
    <2> QED
      BY <2>3, <2>4, <2>5
  <1> QED
    BY <1>n, <1>2, <1>3 DEF SaveStatus

LEMMA NextTenants ==
    PipeInv /\ (Undisturbed => Held) /\ [Next]_vars => [Tenants!Next]_(Tenants!vars)
  <1> SUFFICES ASSUME PipeInv, Undisturbed => Held, [Next]_vars PROVE [Tenants!Next]_(Tenants!vars)
    OBVIOUS
  <1>1. CASE ~Undisturbed'
    <2>1. ~(Calm /\ unforced)'
      BY <1>1 DEF Undisturbed
    <2> QED
      BY <2>1 DEF Tenants!Next
  <1>2. CASE Undisturbed'
    <2>1. Undisturbed /\ Held
      BY <1>2, StillUndisturbed DEF PipeInv
    <2>2. ~Crash /\ ~HandleForced /\ ~ClearForce
      BY <1>2, <2>1, StillCalm, UndisturbedFree DEF PipeInv, Undisturbed
    <2>3. CASE UNCHANGED <<nets, restarted>>
      BY <1>2, <2>1, <2>3, TenantsStep DEF Present, Set, Exists, Tenant
    <2>4. Handles => UNCHANGED <<nets, restarted>>
      BY HandlesIs DEF PipeInv, users
    <2>5. Deliver \/ Timers \/ CollectGarbage \/ Begin => UNCHANGED <<nets, restarted>>
      BY DEF Deliver, Timers, TimerFires, CollectGarbage, Begin, users
    <2>6. UNCHANGED vars => UNCHANGED <<nets, restarted>>
      BY DEF vars, users
    <2> QED
      BY <1>2, <2>1, <2>2, <2>3, <2>4, <2>5, <2>6, UserTenants, RestartTenants, SaveTenants
         DEF Next, Worker, Handles, Reads
  <1> QED
    BY <1>1, <1>2

\* The operator of a namespace implements the promise of Tenancy, whatever the number of
\* networks, creations, edits, restarts and faults: until something fails or a state is
\* forced, one network at most is set up, and it keeps its place until it is deleted,
\* also when it goes back to New from HelmChartReady (checkOthersInNamespace, called by
\* Reconcile; installHelmChart).
THEOREM TenancyPromised == Spec => TenancyPromise
  <1>1. Init => PipeInv /\ (Undisturbed => Held)
    BY PipeInit, HeldInit
  <1>2. PipeInv /\ (Undisturbed => Held) /\ [Next]_vars => PipeInv' /\ (Undisturbed => Held)'
    BY PipeStep, HeldStep
  <1>3. PipeInv /\ (Undisturbed => Held) /\ [Next]_vars => [Tenants!Next]_(Tenants!vars)
    BY NextTenants
  <1> QED
    BY <1>1, <1>2, <1>3, TenantsInit, PTL DEF Spec, TenancyPromise, Tenants!Spec

-----------------------------------------------------------------------------
\* Cleanup: the worker has still to see a network.
InQueue(n) == \E i \in DOMAIN queue : queue[i] = n
Noticed(n) == InWatch(n) \/ InQueue(n)

\* Nothing is forgotten in calm: of a network that is gone and has left something, the
\* worker has still to hear, or it is cleaning up.  Who holds a version that is not the
\* present one will hear of that.
Remembered ==
    /\ \A n \in Networks : name = n /\ copy # nets[n] => Noticed(n)
    /\ \A n \in Networks : ~Exists(n) =>
          /\ release.owner = n => Noticed(n) \/ (name = n /\ copy.uid = 0 /\ pc = "handle")
          /\ n \in workflows => Noticed(n) \/ (name = n /\ copy.uid = 0 /\ pc \in {"handle", "gone"})
    /\ release.owner = None => release = NoRelease

LEMMA QueuedHolds ==
    ASSUME Inv, NEW n \in Networks, queue' = Queued(queue, n)
    PROVE  InQueue(n)' /\ \A m \in Networks : InQueue(m) => InQueue(m)'
  <1>0. queue \in Seq(Networks)
    BY DEF Inv, QueueOK
  <1>1. CASE InQueue(n)
    <2>1. queue' = queue
      BY <1>1 DEF InQueue, Queued
    <2> QED
      BY <1>1, <2>1 DEF InQueue
  <1>2. CASE ~InQueue(n)
    <2>1. queue' = Append(queue, n)
      BY <1>2 DEF InQueue, Queued
    <2>2. /\ DOMAIN queue = 1..Len(queue) /\ DOMAIN queue' = 1..(Len(queue) + 1)
          /\ Len(queue) \in Nat /\ queue'[Len(queue) + 1] = n
          /\ \A i \in 1..Len(queue) : queue'[i] = queue[i]
      BY <1>0, <2>1
    <2> QED
      BY <2>2 DEF InQueue
  <1> QED
    BY <1>1, <1>2

\* Taking a key from the queue, and a version from the watch.
LEMMA BeginHolds ==
    ASSUME Inv, Begin, NEW m \in Networks, m # name', InQueue(m) PROVE InQueue(m)'
  <1>1. queue \in Seq(Networks) /\ queue # <<>> /\ queue' = Tail(queue) /\ name' = Head(queue)
    BY DEF Inv, QueueOK, Begin
  <1>2. PICK i \in DOMAIN queue : queue[i] = m
    BY DEF InQueue
  <1>3. i # 1 /\ DOMAIN queue = 1..Len(queue) /\ DOMAIN queue' = 1..(Len(queue) - 1)
        /\ Len(queue) \in Nat /\ \A j \in 1..(Len(queue) - 1) : queue'[j] = queue[j + 1]
    BY <1>1, <1>2
  <1>4. i - 1 \in DOMAIN queue' /\ queue'[i - 1] = m
    BY <1>2, <1>3
  <1> QED
    BY <1>4 DEF InQueue

LEMMA DeliverHolds ==
    ASSUME Inv, NEW n \in Networks, NEW r \in Resources, Delivered(n, r), queue' = Queued(queue, n)
    PROVE  \A m \in Networks : Noticed(m) => Noticed(m)'
  <1>1. InQueue(n)' /\ \A m \in Networks : InQueue(m) => InQueue(m)'
    BY QueuedHolds
  <1>2. ASSUME NEW m \in Networks, m # n, NEW i \in DOMAIN watch, watch[i].name = m
        PROVE  InWatch(m)'
    <2>1. i - 1 \in DOMAIN watch' /\ watch'[i - 1] = watch[i]
      BY <1>2 DEF Delivered
    <2> QED
      BY <1>2, <2>1 DEF InWatch
  <1> QED
    BY <1>1, <1>2 DEF Noticed, InWatch

LEMMA WrittenHolds ==
    ASSUME Inv, NEW n \in Networks, NEW r \in Resources, Written(n, r), UNCHANGED queue
    PROVE  Noticed(n)' /\ \A m \in Networks : Noticed(m) => Noticed(m)'
  <1>1. Appended(n, r)
    BY AppendIs
  <1>2. InWatch(n)' /\ \A m \in Networks : InWatch(m) => InWatch(m)'
    BY <1>1 DEF InWatch, Appended
  <1> QED
    BY <1>2 DEF Noticed, InQueue

\* A version is written, for a network the worker has nothing to clean up after.
\* A version is written, by a user or for the network the worker has in its hand.
LEMMA WrittenRemembered ==
    ASSUME Inv, Remembered, NEW n \in Networks, NEW r \in Resources, Written(n, r),
           UNCHANGED <<queue, release, workflows>>,
           UNCHANGED <<name, copy, pc>> \/ (name = n /\ name' \in {name, None})
    PROVE  Remembered'
  <1>1. Noticed(n)' /\ \A m \in Networks : Noticed(m) => Noticed(m)'
    BY WrittenHolds
  <1>2. \A m \in Networks \ {n} : nets'[m] = nets[m]
    BY AppendIs DEF Appended
  <1>3. name \in Networks \union {None}
    BY DEF Inv, WorkerOK
  <1>4. ASSUME NEW m \in Networks, name' = m, copy' # nets'[m] PROVE Noticed(m)'
    BY <1>1, <1>2, <1>3, <1>4, NoName DEF Remembered
  <1>5. ASSUME NEW m \in Networks, ~Exists(m)'
        PROVE  /\ release'.owner = m => Noticed(m)' \/ (name' = m /\ copy'.uid = 0 /\ pc' = "handle")
               /\ m \in workflows' =>
                     Noticed(m)' \/ (name' = m /\ copy'.uid = 0 /\ pc' \in {"handle", "gone"})
    <2>1. CASE m = n
      BY <1>1, <2>1
    <2>2. CASE m # n
      <3>1. ~Exists(m)
        BY <1>2, <1>5, <2>2 DEF Exists
      <3> QED
        BY <1>1, <2>2, <3>1 DEF Remembered
    <2> QED
      BY <2>1, <2>2
  <1> QED
    BY <1>4, <1>5 DEF Remembered

\* What the worker leaves behind is noticed, in the steps that write no status.
LEMMA WorkRemembered ==
    ASSUME Inv, Remembered, UNCHANGED <<nets, watch, queue>>, name \in Networks,
           UNCHANGED <<name, copy>> \/ name' = None,
           release'.owner \in {release.owner, None, name},
           release'.owner = None => release' = NoRelease,
           workflows' \subseteq workflows \union {name},
           /\ release'.owner = name => copy.uid # 0 \/ (pc' = "handle" /\ UNCHANGED <<name, copy>>)
           /\ name \in workflows' =>
                 copy.uid # 0 \/ (pc' \in {"handle", "gone"} /\ UNCHANGED <<name, copy>>)
    PROVE  Remembered'
  <1>1. \A m \in Networks : Noticed(m) => Noticed(m)'
    BY DEF Noticed, InWatch, InQueue
  <1>2. ASSUME NEW m \in Networks, name' = m, copy' # nets'[m] PROVE Noticed(m)'
    BY <1>1, <1>2, NoName DEF Remembered
  <1>3. copy.uid # 0 /\ ~Exists(name) => Noticed(name)
    BY NoName DEF Remembered, Exists
  <1>4. ASSUME NEW m \in Networks, ~Exists(m)'
        PROVE  /\ release'.owner = m => Noticed(m)' \/ (name' = m /\ copy'.uid = 0 /\ pc' = "handle")
               /\ m \in workflows' =>
                     Noticed(m)' \/ (name' = m /\ copy'.uid = 0 /\ pc' \in {"handle", "gone"})
    <2>0. ~Exists(m)
      BY <1>4 DEF Exists
    <2>1. CASE m # name
      BY <1>1, <2>0, <2>1, NoName DEF Remembered
    <2>2. CASE m = name
      BY <1>1, <1>3, <2>0, <2>2
    <2> QED
      BY <2>1, <2>2
  <1> QED
    BY <1>2, <1>4 DEF Remembered

LEMMA WriteRemembered ==
    ASSUME PipeInv, Remembered, HandleForced \/ ClearForce \/ HandleChartReady \/ SaveStatus
    PROVE  Remembered'
  <1> USE DEF PipeInv
  <1>1. /\ UNCHANGED <<queue, release, workflows>> /\ name \in Networks /\ copy.uid # 0
        /\ name' \in {name, None}
    <2>1. pc # "idle" /\ UNCHANGED <<queue, shared, workflows>>
      BY DEF HandleForced, ClearForce, HandleChartReady, SaveStatus, Handling, Unforced
    <2>2. copy.uid # 0
      BY DEF HandleForced, ClearForce, HandleChartReady, SaveStatus, Handling, Unforced, Holding
    <2>3. name' \in {name, None}
      BY DEF HandleForced, ClearForce, HandleChartReady, SaveStatus, WriteAndGoto, Return
    <2> QED
      BY <2>1, <2>2, <2>3 DEF shared, Inv, Busy
  <1>2. CASE UNCHANGED <<nets, informer>> /\ Ends
    <2>1. UNCHANGED <<nets, watch, queue>> /\ name' = None
      BY <1>1, <1>2 DEF informer, Ends
    <2> QED
      BY <1>1, <2>1, WorkRemembered DEF Remembered
  <1>3. CASE \E r \in Resources : Written(name, r)
    BY <1>1, <1>3, WrittenRemembered
  <1>4. CASE HandleForced
    BY <1>2, <1>3, <1>4, WritesAre DEF HandleForced, WriteAndGoto, Return, Ends
  <1>5. CASE HandleChartReady
    BY <1>2, <1>3, <1>5, RenewedIs, HandleChartReadyIs
  <1>6. CASE ClearForce
    BY <1>2, <1>3, <1>6, WritesAre DEF ClearForce, Return, Ends
  <1>7. CASE SaveStatus
    BY <1>2, <1>3, <1>7, RecordedIs DEF SaveStatus, Return, Ends
  <1> QED
    BY <1>4, <1>5, <1>6, <1>7

\* The owner of the release after a cleanup, an installation or an upgrade.
LEMMA HandlesRelease ==
    ASSUME Inv, Remembered, Handles
    PROVE  /\ release'.owner \in {release.owner, None, name}
           /\ release'.owner = None => release' = NoRelease
  <1>1. release \in Releases /\ name \in Networks
    BY HandlesFrame DEF Inv, SharedOK
  <1>2. CASE UNCHANGED release
    BY <1>2 DEF Remembered
  <1>3. CASE release' = Uninstalled
    BY <1>3 DEF Remembered, Uninstalled, NoRelease
  <1>4. CASE release' = [release EXCEPT !.current = FALSE]
    <2>1. release'.owner = release.owner
      BY <1>1, <1>4 DEF Releases
    <2>2. release' \in Releases /\ release'.current = FALSE
      BY <1>1, <1>4 DEF Releases
    <2>3. release'.owner = None => release' = NoRelease
      BY <2>2 DEF NoRelease, Releases
    <2> QED
      BY <2>1, <2>3
  <1>5. CASE release' = [owner |-> name, current |-> dir[name] = "stored"]
    <2>1. release'.owner = name
      BY <1>5
    <2> QED
      BY <1>1, <2>1, NoName
  <1>6. CASE Reads \/ Reconstruct \/ HandleRunning \/ Submit
    BY <1>2, <1>6 DEF Reads, HandleNone, HandleRejected, HandleInstalled, DeleteWorkflows,
       CallFails, Reconstruct, HandleRunning, Submit, shared
  <1>7. CASE Teardown \/ HandleGone \/ Install \/ Upgrade
    BY <1>2, <1>3, <1>5, <1>7, Zenon DEF Teardown, HandleGone, Install, Upgrade
  <1>8. CASE Prepare \/ ApplyEdit
    BY <1>2, <1>4, <1>8 DEF Prepare, ApplyEdit, MoreCertificates, NewCertificates, shared
  <1> QED
    BY <1>6, <1>7, <1>8 DEF Handles

LEMMA HandlesRemembered ==
    ASSUME PipeInv, Remembered, Handles, ~Fault, ~CallFails PROVE Remembered'
  <1> USE DEF PipeInv
  <1>1. /\ UNCHANGED <<nets, watch, queue>> /\ name \in Networks
        /\ UNCHANGED <<name, copy>> \/ name' = None
    BY HandlesIs DEF users, informer, Keeps, Ends
  <1>2. /\ release'.owner \in {release.owner, None, name}
        /\ release'.owner = None => release' = NoRelease
        /\ workflows' \subseteq workflows \union {name}
    BY HandlesRelease, HandlesFrame
  <1>3. ASSUME release'.owner = name => copy.uid # 0,
               name \in workflows' =>
                   copy.uid # 0 \/ (pc' \in {"handle", "gone"} /\ UNCHANGED <<name, copy>>)
        PROVE  Remembered'
    BY <1>1, <1>2, <1>3, WorkRemembered
  <1>4. CASE copy.uid # 0
    BY <1>3, <1>4
  <1>5. CASE HandleGone
    <2>1. /\ release' = Uninstalled /\ pc' = "gone" /\ UNCHANGED <<name, copy, workflows>>
      BY <1>5 DEF HandleGone, Goto
    <2>2. release'.owner # name
      BY <1>1, <2>1, NoName DEF Uninstalled, Owned, NoRelease
    <2> QED
      BY <1>3, <2>1, <2>2
  <1>6. CASE DeleteWorkflows
    <2>1. pc = "gone" /\ workflows' = workflows \ {name} /\ UNCHANGED release /\ name' = None
      BY <1>6 DEF DeleteWorkflows, Return, shared
    <2>2. \A m \in Networks : Noticed(m) => Noticed(m)'
      BY <1>1 DEF Noticed, InWatch, InQueue
    <2>3. \A m \in Networks : Exists(m)' <=> Exists(m)
      BY <1>1 DEF Exists
    <2> QED
      BY <2>1, <2>2, <2>3, NoName DEF Remembered
  <1>7. copy.uid # 0 \/ HandleGone \/ DeleteWorkflows
    BY DEF Handles, Reads, Reconstruct, Reconstructing, HandleNone, HandleRejected,
           HandleInstalled, HandleRunning, Submit, ApplyEdit, Upgrade, Teardown, Handling, Unforced,
           Prepare, Install, Holding
  <1> QED
    BY <1>4, <1>5, <1>6, <1>7

LEMMA BeginRemembered == PipeInv /\ Remembered /\ Begin => Remembered'
  <1> SUFFICES ASSUME PipeInv, Remembered, Begin PROVE Remembered'
    OBVIOUS
  <1> USE DEF PipeInv
  <1>1. /\ name' \in Networks /\ copy' = cache[name'] /\ pc = "idle" /\ pc' = "handle"
        /\ UNCHANGED <<nets, watch, release, workflows>>
    BY HeadTailProperties DEF Begin, users, informer, shared, Inv, QueueOK
  <1>2. \A m \in Networks : m # name' /\ Noticed(m) => Noticed(m)'
    BY <1>1, BeginHolds DEF Noticed, InWatch
  <1>3. ASSUME NEW m \in Networks, m = name', ~InWatch(m)' PROVE copy' = nets'[m]
    BY <1>1, <1>3 DEF Pipe, Informed, InWatch
  <1>4. ASSUME NEW m \in Networks, ~Exists(m)'
        PROVE  /\ release'.owner = m => Noticed(m)' \/ (name' = m /\ copy'.uid = 0 /\ pc' = "handle")
               /\ m \in workflows' =>
                     Noticed(m)' \/ (name' = m /\ copy'.uid = 0 /\ pc' \in {"handle", "gone"})
    <2>1. CASE m = name'
      BY <1>1, <1>3, <1>4, <2>1 DEF Noticed, Exists
    <2>2. CASE m # name'
      <3>1. ~Exists(m)
        BY <1>1, <1>4 DEF Exists
      <3> QED
        BY <1>1, <1>2, <2>2, <3>1 DEF Remembered
    <2> QED
      BY <2>1, <2>2
  <1> QED
    BY <1>1, <1>3, <1>4 DEF Remembered, Noticed

LEMMA RememberedStep ==
    PipeInv /\ (Calm => Remembered) /\ [Next]_vars => (Calm' => Remembered')
  <1> SUFFICES ASSUME PipeInv, Calm => Remembered, [Next]_vars, Calm' PROVE Remembered'
    OBVIOUS
  <1> USE DEF PipeInv
  <1>1. Remembered /\ ~Crash /\ ~Fault /\ ~CallFails
    BY StillCalm
  <1>2. ASSUME \A m \in Networks : Noticed(m) => Noticed(m)',
               UNCHANGED <<nets, pc, name, copy, workflows>>,
               release' = release \/ release' = [release EXCEPT !.current = FALSE]
        PROVE  Remembered'
    <2>1. release'.owner = release.owner /\ (release = NoRelease => release' = NoRelease)
      BY <1>2 DEF Inv, SharedOK, Releases, NoRelease
    <2>2. \A m \in Networks : Exists(m)' <=> Exists(m)
      BY <1>2 DEF Exists
    <2> QED
      BY <1>1, <1>2, <2>1, <2>2 DEF Remembered
  <1>3. CASE UNCHANGED vars \/ CollectGarbage
    <2>1. \A m \in Networks : Noticed(m) => Noticed(m)'
      BY <1>3 DEF vars, informer, CollectGarbage, Noticed, InWatch, InQueue
    <2> QED
      BY <1>2, <1>3, <2>1 DEF vars, users, worker, shared, CollectGarbage
  <1>4. CASE Timers
    <2>1. \A m \in Networks : Noticed(m) => Noticed(m)'
      <3>1. PICK n \in Networks : queue' = Queued(queue, n)
        BY <1>4 DEF Timers, TimerFires
      <3> QED
        BY <1>4, <3>1, QueuedHolds DEF Timers, TimerFires, informer, Noticed, InWatch
    <2> QED
      BY <1>2, <1>4, <2>1 DEF Timers, TimerFires, users, worker, shared
  <1>5. CASE Deliver
    <2>1. \A m \in Networks : Noticed(m) => Noticed(m)'
      BY <1>5, DeliverIs, DeliverHolds
    <2> QED
      BY <1>2, <1>5, <2>1 DEF Deliver, users, worker, shared
  <1>6. ASSUME NEW n \in Networks, Create(n) \/ Update(n) \/ Delete(n) PROVE Remembered'
    <2>1. UNCHANGED <<queue, release, workflows, name, copy, pc>>
      BY <1>6 DEF Create, Update, Delete, worker, shared
    <2>2. \E r \in Resources : Written(n, r)
      BY <1>6, CreatedType, UpdateIs, AbsentType DEF Create, Delete, UpdatedBy
    <2> QED
      BY <1>1, <2>1, <2>2, WrittenRemembered
  <1> QED
    BY <1>1, <1>3, <1>4, <1>5, <1>6, BeginRemembered, HandlesRemembered, WriteRemembered
       DEF Next, Worker, Handles, Reads

LEMMA RememberedCleans == PipeInv /\ (Calm => Remembered) => CleansUp
  <1> SUFFICES ASSUME Inv, Remembered, AtRest
               PROVE  release = NoRelease /\ workflows = {}
    BY DEF CleansUp, CleanedUp, PipeInv
  <1>1. queue = <<>> /\ watch = <<>>
    BY DEF AtRest
  <1>2. DOMAIN queue = {} /\ DOMAIN watch = {}
    BY <1>1
  <1>3. \A n \in Networks : ~Noticed(n) /\ ~Exists(n) /\ pc = "idle"
    BY <1>2 DEF Noticed, InWatch, InQueue, AtRest
  <1>4. release.owner \notin Networks /\ \A n \in Networks : n \notin workflows
    BY <1>3 DEF Remembered
  <1> QED
    BY <1>4 DEF Remembered, Inv, SharedOK, FailuresOK, Releases

\* In calm, what deleted networks have left is gone in every reachable state in which
\* nothing is left to do, whenever they were deleted (maybeUninstallHelmChart and
\* deleteWorkflows, called by Reconcile).
THEOREM CleansUpAlways == Spec => []CleansUp
  <1>1. Init => PipeInv /\ (Calm => Remembered)
    <2> SUFFICES ASSUME Init PROVE Remembered
      BY PipeInit
    <2>1. name = None /\ release = NoRelease /\ workflows = {}
      BY DEF Init
    <2> QED
      BY <2>1, NoName DEF Remembered, NoRelease
  <1>2. PipeInv /\ (Calm => Remembered) /\ [Next]_vars => PipeInv' /\ (Calm => Remembered)'
    BY PipeStep, RememberedStep
  <1>3. PipeInv /\ (Calm => Remembered) => CleansUp
    BY RememberedCleans
  <1> QED
    BY <1>1, <1>2, <1>3, PTL DEF Spec

-----------------------------------------------------------------------------
\* The certificates, in calm and as long as users never have two networks at once.

-----------------------------------------------------------------------------
\* The certificates, in calm and as long as users never have two networks at once.
Single == \A m, n \in Networks : Exists(m) /\ Exists(n) => m = n

\* The informer hears of a network when it has heard of the end of the former ones.
InOrder ==
    \A n \in Networks : Exists(n) =>
        /\ \A i \in DOMAIN watch : watch[i].resource.uid = nets[n].uid =>
              \A j \in DOMAIN watch : j >= i => watch[j].name = n
        /\ cache[n].uid = nets[n].uid => \A i \in DOMAIN watch : watch[i].name = n

\* While a network is set up the worker holds no resource of another one.
Others == \A n \in Networks : Tenant(n) /\ name # n => copy.uid = 0

\* The network that is set up has stored its certificates; so has the one the worker
\* installs, if it is still the one that was read.
Stored(n) == secret = nets[n].uid /\ dir[n] = "stored"
Certified ==
    /\ \A n \in Networks : Tenant(n) /\ release.owner = n => Stored(n) /\ release.current
    /\ \A n \in Networks : name = n /\ nets[n].uid = copy.uid =>
          /\ pc = "install" => Stored(n)
          /\ Submitting \/ (pc = "save" /\ draft \in LateStates) => Stored(n) /\ release.current

OneAtATime == Single /\ InOrder /\ Others /\ Certified

\* Steps that change nothing of this.
LEMMA OneFrame ==
    ASSUME OneAtATime, Submitting' => Submitting,
           UNCHANGED <<nets, restarted, watch, cache, name, copy, pc, draft, secret, release, dir>>
    PROVE  OneAtATime'
  BY DEF OneAtATime, Single, InOrder, Others, Certified, Stored, Tenant, Exists

LEMMA CreateOne ==
    ASSUME PipeInv, Undisturbed, OneAtATime, NEW n \in Networks, Create(n), alone'
    PROVE  OneAtATime'
  <1>0. Inv /\ Pipe /\ Holding /\ Free
    BY UndisturbedFree DEF PipeInv
  <1>1. /\ \A m \in Networks : ~Exists(m)
        /\ UNCHANGED <<restarted, name, copy, pc, draft, secret, release, dir>>
    BY Zenon DEF Create, worker, shared
  <1>2. PICK r \in Resources : /\ r.uid = created + 1 /\ r.state = "" /\ Written(n, r)
    BY <1>0, CreatedType DEF Create
  <1>4. Appended(n, r)
    BY <1>0, <1>2, AppendIs
  <1>5. \A k \in Int : k <= created => k # r.uid
    <2>1. created \in Int
      BY <1>0, Bounded
    <2>2. \A k \in Int : k <= created => k # created + 1
      BY <2>1
    <2> QED
      BY <1>2, <2>2
  <1>6. \A m \in Networks : Exists(m)' => m = n
    BY <1>1, <1>4 DEF Exists, Appended
  <1>7. \A m \in Networks : ~Tenant(m)'
    <2>1. restarted' = {}
      BY <1>0, <1>1 DEF Free, Tenant, Inv, UsersOK
    <2> QED
      BY <1>2, <1>4, <1>6, <2>1 DEF Tenant, Appended
  <1>8. Single' /\ Others'
    BY <1>6, <1>7 DEF Single, Others
  <1>9. InOrder'
    <2>1. ASSUME NEW i \in DOMAIN watch', watch'[i].resource.uid = r.uid PROVE i = Len(watch) + 1
      <3>1. ASSUME i \in 1..Len(watch) PROVE FALSE
        <4>1. watch[i].resource.uid = r.uid /\ watch[i].resource.uid <= created
              /\ watch[i].resource.uid \in Int
          BY <1>0, <2>1, <3>1, <1>4, Bounded DEF Appended, Pipe, Numbered
        <4> QED
          BY <4>1, <1>5
      <3> QED
        BY <2>1, <3>1, <1>4, AppendedDomain
    <2>2. ASSUME NEW i \in DOMAIN watch', watch'[i].resource.uid = r.uid, NEW j \in DOMAIN watch', j >= i
          PROVE  watch'[j].name = n
      <3>1. i = Len(watch) + 1
        BY <2>1, <2>2
      <3>2. j = Len(watch) + 1
        BY <2>2, <3>1, <1>4 DEF Appended
      <3> QED
        BY <3>2, <1>4 DEF Appended
    <2>3. cache'[n].uid # r.uid
      <3>1. cache[n].uid <= created /\ cache[n].uid \in Int
        BY <1>0, Bounded DEF Pipe, Numbered
      <3> QED
        BY <3>1, <1>4, <1>5 DEF Appended
    <2>4. nets'[n] = r
      BY <1>4 DEF Appended
    <2> QED
      BY <1>6, <2>2, <2>3, <2>4 DEF InOrder
  <1>10. Certified'
    <2>1. copy.uid # r.uid
      <3>1. copy.uid <= created /\ copy.uid \in Int
        BY <1>0, Bounded DEF Pipe, Numbered
      <3> QED
        BY <3>1, <1>5
    <2>2. ASSUME NEW m \in Networks, name' = m, nets'[m].uid = copy'.uid PROVE copy.uid = 0
      <3>1. m # n
        BY <1>1, <1>4, <2>1, <2>2 DEF Appended
      <3> QED
        BY <1>1, <1>4, <2>2, <3>1 DEF Appended, Exists
    <2>3. copy.uid = 0 => pc \notin {"install", "submit", "save"}
      BY <1>0 DEF Holding
    <2> QED
      BY <1>1, <1>7, <2>2, <2>3 DEF Certified, Submitting
  <1> QED
    BY <1>8, <1>9, <1>10 DEF OneAtATime

LEMMA DeleteOne ==
    ASSUME PipeInv, OneAtATime, NEW n \in Networks, Delete(n)
    PROVE  OneAtATime'
  <1> USE DEF PipeInv
  <1>1. Exists(n) /\ UNCHANGED <<name, copy, pc, draft, secret, release, dir>>
    BY DEF Delete, worker, shared
  <1>2. Appended(n, Absent)
    BY AbsentType, AppendIs DEF Delete
  <1>3. \A m \in Networks : ~Exists(m)'
    BY <1>1, <1>2, NoName DEF OneAtATime, Single, Exists, Appended
  <1>4. Single' /\ Others' /\ InOrder'
    BY <1>3 DEF Single, Others, InOrder, Tenant
  <1>5. Certified'
    <2>1. \A m \in Networks : nets'[m].uid = 0
      BY <1>3 DEF Exists
    <2>2. copy.uid = 0 => pc \notin {"install", "submit", "save"}
      BY DEF Holding
    <2> QED
      BY <1>1, <1>3, <2>1, <2>2 DEF Certified, Tenant, Submitting
  <1> QED
    BY <1>4, <1>5 DEF OneAtATime

\* A further version of the one network there is.
LEMMA WrittenOne ==
    ASSUME Inv, OneAtATime, NEW n \in Networks, NEW r, Appended(n, r), Exists(n),
           r.uid = nets[n].uid
    PROVE  Single' /\ InOrder'
  <1>1. /\ nets'[n].uid = nets[n].uid /\ cache' = cache
        /\ \A m \in Networks \ {n} : nets'[m] = nets[m]
    BY DEF Appended
  <1>2. Single' /\ \A m \in Networks : (Exists(m)' <=> Exists(m)) /\ (Exists(m) => m = n)
    BY <1>1 DEF OneAtATime, Single, Exists
  <1>3. ASSUME NEW i \in DOMAIN watch', watch'[i].resource.uid = nets[n].uid,
               NEW j \in DOMAIN watch', j >= i
        PROVE  watch'[j].name = n
    <2>1. CASE j = Len(watch) + 1
      BY <2>1 DEF Appended
    <2>2. CASE j \in 1..Len(watch)
      <3>1. i \in 1..Len(watch)
        BY <1>3, <2>2 DEF Appended
      <3>2. watch'[i] = watch[i] /\ watch'[j] = watch[j] /\ i \in DOMAIN watch /\ j \in DOMAIN watch
        BY <2>2, <3>1 DEF Appended
      <3> QED
        BY <1>3, <3>2 DEF OneAtATime, InOrder
    <2> QED
      BY <2>1, <2>2, AppendedDomain
  <1>4. ASSUME cache[n].uid = nets[n].uid, NEW i \in DOMAIN watch' PROVE watch'[i].name = n
    <2>1. CASE i = Len(watch) + 1
      BY <2>1 DEF Appended
    <2>2. CASE i \in 1..Len(watch)
      BY <1>4, <2>2 DEF OneAtATime, InOrder, Appended
    <2> QED
      BY <2>1, <2>2, AppendedDomain
  <1> QED
    BY <1>1, <1>2, <1>3, <1>4 DEF InOrder

LEMMA UpdateOne ==
    ASSUME PipeInv, OneAtATime, NEW n \in Networks, Update(n)
    PROVE  OneAtATime'
  <1> USE DEF PipeInv
  <1>1. Exists(n) /\ UNCHANGED <<restarted, name, copy, pc, draft, secret, release, dir>>
    BY DEF Update, worker, shared
  <1>2. PICK r \in Resources : UpdatedBy(n, r)
    BY UpdateIs
  <1>3. Appended(n, r) /\ r.uid = nets[n].uid /\ r.state = nets[n].state
    BY <1>2, AppendIs DEF UpdatedBy
  <1>4. \A m \in Networks : nets'[m].uid = nets[m].uid /\ (Tenant(m)' <=> Tenant(m))
    BY <1>1, <1>3 DEF Appended, Tenant, Exists
  <1>5. Others' /\ Certified'
    BY <1>1, <1>4 DEF OneAtATime, Others, Certified, Stored, Submitting
  <1> QED
    BY <1>1, <1>3, <1>5, WrittenOne DEF OneAtATime

LEMMA DeliverOne ==
    ASSUME PipeInv, OneAtATime, Deliver
    PROVE  OneAtATime'
  <1> USE DEF PipeInv
  <1>1. UNCHANGED <<nets, restarted, name, copy, pc, draft, secret, release, dir>>
    BY DEF Deliver, users, worker, shared
  <1>2. PICK n \in Networks, r \in Resources : Delivered(n, r)
    BY DeliverIs
  <1>3. Single' /\ Others' /\ Certified'
    BY <1>1 DEF OneAtATime, Single, Others, Certified, Stored, Submitting, Tenant, Exists
  <1>4. ASSUME NEW m \in Networks, Exists(m)',
               NEW i \in DOMAIN watch', watch'[i].resource.uid = nets'[m].uid,
               NEW j \in DOMAIN watch', j >= i
        PROVE  watch'[j].name = m
    <2>1. /\ i + 1 \in DOMAIN watch /\ j + 1 \in DOMAIN watch /\ j + 1 >= i + 1
          /\ watch'[i] = watch[i + 1] /\ watch'[j] = watch[j + 1]
      BY <1>2, <1>4 DEF Delivered
    <2> QED
      BY <1>1, <1>4, <2>1 DEF OneAtATime, InOrder, Exists
  <1>5. ASSUME NEW m \in Networks, Exists(m)', cache'[m].uid = nets'[m].uid,
               NEW i \in DOMAIN watch'
        PROVE  watch'[i].name = m
    <2>1. /\ 1 \in DOMAIN watch /\ watch[1].name = n /\ watch[1].resource = r
          /\ i + 1 \in DOMAIN watch /\ watch'[i] = watch[i + 1] /\ i + 1 >= 1
      BY <1>2, <1>5 DEF Delivered
    <2>2. Exists(m)
      BY <1>1, <1>5 DEF Exists
    <2>3. CASE m = n
      <3>1. watch[1].resource.uid = nets[m].uid
        BY <1>1, <1>2, <1>5, <2>1, <2>3 DEF Delivered
      <3> QED
        BY <2>1, <2>2, <3>1 DEF OneAtATime, InOrder
    <2>4. CASE m # n
      <3>1. cache[m].uid = nets[m].uid
        BY <1>1, <1>2, <1>5, <2>4 DEF Delivered
      <3> QED
        BY <2>1, <2>2, <2>4, <3>1 DEF OneAtATime, InOrder
    <2> QED
      BY <2>3, <2>4
  <1> QED
    BY <1>3, <1>4, <1>5 DEF OneAtATime, InOrder

\* With the present network's last version in the cache the others are not there.
\* With the present network's last version in the cache the others are not there.
LEMMA BeginOne ==
    ASSUME PipeInv, OneAtATime, Begin
    PROVE  OneAtATime'
  <1> USE DEF PipeInv
  <1>1. /\ name' \in Networks /\ copy' = cache[name'] /\ pc' = "handle"
        /\ UNCHANGED <<nets, restarted, watch, cache, secret, release, dir>>
    BY HeadTailProperties DEF Begin, users, informer, shared, Inv, QueueOK
  <1>2. Single' /\ InOrder' /\ Certified'
    BY <1>1 DEF OneAtATime, Single, InOrder, Certified, Stored, Submitting, Tenant, Exists
  <1>3. ASSUME NEW n \in Networks, Tenant(n), name' # n PROVE copy'.uid = 0
    <2>1. Exists(n) /\ cache[n].uid = nets[n].uid
      BY <1>3 DEF Known, Tenant
    <2>2. \A i \in DOMAIN watch : watch[i].name = n
      BY <2>1 DEF OneAtATime, InOrder
    <2>3. \A m \in Networks : m # n => ~InWatch(m) /\ ~Exists(m)
      BY <2>1, <2>2 DEF InWatch, OneAtATime, Single
    <2> QED
      BY <1>1, <1>3, <2>3 DEF Pipe, Informed, Exists
  <1>4. \A n \in Networks : Tenant(n)' <=> Tenant(n)
    BY <1>1 DEF Tenant, Exists
  <1> QED
    BY <1>2, <1>3, <1>4 DEF OneAtATime, Others

LEMMA CollectOne ==
    ASSUME PipeInv, OneAtATime, CollectGarbage
    PROVE  OneAtATime'
  <1>1. /\ UNCHANGED <<nets, restarted, watch, cache, name, copy, pc, draft>>
        /\ \A n \in Networks : nets[n].uid # secret
    BY DEF CollectGarbage, users, informer, worker
  <1>2. Single' /\ InOrder' /\ Others'
    BY <1>1 DEF OneAtATime, Single, InOrder, Others, Tenant, Exists
  <1>3. release'.owner = release.owner
    BY DEF CollectGarbage, PipeInv, Inv, SharedOK, Releases
  <1>4. Certified'
    BY <1>1, <1>3 DEF OneAtATime, Certified, Stored, Submitting, Tenant, Exists
  <1> QED
    BY <1>2, <1>4 DEF OneAtATime

\* The worker writes nothing: what the resources say stays.
LEMMA WorkOne ==
    ASSUME Inv, OneAtATime, UNCHANGED <<nets, restarted, watch, cache>>, Keeps \/ Ends, Certified'
    PROVE  OneAtATime'
  <1>1. Single' /\ InOrder'
    BY DEF OneAtATime, Single, InOrder, Exists
  <1>2. Others'
    BY NoName DEF OneAtATime, Others, Tenant, Exists, Keeps, Ends
  <1> QED
    BY <1>1, <1>2 DEF OneAtATime

\* Steps that store nothing and install nothing, but may uninstall.
LEMMA IdleOne ==
    ASSUME Inv, OneAtATime, UNCHANGED <<nets, restarted, secret, dir>>,
           release' = release \/ release'.owner = None,
           pc' \in {"idle", "handle", "prepare", "gone"} \/ (pc' = "save" /\ draft' \notin LateStates)
    PROVE  Certified'
  BY NoName DEF OneAtATime, Certified, Stored, Submitting, LateStates, Tenant, Exists

LEMMA ReconstructOne ==
    ASSUME PipeInv, OneAtATime, Reconstruct PROVE Certified'
  <1>1. /\ dir[name] = "absent" /\ UNCHANGED <<nets, restarted, secret, release>> /\ name \in Networks
        /\ pc' \in {"idle", "handle"}
    BY DEF Reconstruct, Reconstructing, Unforced, Return, Goto, users, PipeInv, Inv, Busy
  <1>2. \A n \in Networks : n # name => dir'[n] = dir[n]
    BY DEF Reconstruct, PipeInv, Inv, SharedOK
  <1> QED
    BY <1>1, <1>2 DEF OneAtATime, Certified, Stored, Submitting, Tenant, Exists

LEMMA PrepareOne ==
    ASSUME PipeInv, Held, OneAtATime, Prepare, ~Fault
    PROVE  Certified'
  <1> USE DEF PipeInv
  <1>1. /\ pc = "prepare" /\ pc' = "install" /\ UNCHANGED <<nets, restarted, name, copy>>
        /\ secret' = copy.uid /\ name \in Networks /\ copy.uid # 0
        /\ dir' = [n \in Networks |-> IF n = name THEN "stored" ELSE LosingStored(dir[n])]
        /\ release' = [release EXCEPT !.current = FALSE]
    BY DEF Prepare, NewCertificates, Goto, users, Inv, Busy, Holding
  <1>2. release'.owner = release.owner
    BY <1>1 DEF Inv, SharedOK, Releases
  <1>3. ASSUME NEW n \in Networks, Tenant(n) PROVE release.owner # n
    BY <1>1, <1>3 DEF Held, OneAtATime, Others
  <1>4. \A n \in Networks : Tenant(n)' <=> Tenant(n)
    BY <1>1 DEF Tenant, Exists
  <1>5. \A n \in Networks : name = n => dir'[n] = "stored"
    BY <1>1
  <1> QED
    BY <1>1, <1>2, <1>3, <1>4, <1>5 DEF Certified, Stored, Submitting

LEMMA InstallOne ==
    ASSUME PipeInv, Held, OneAtATime, Install, ~Fault
    PROVE  Certified'
  <1> USE DEF PipeInv
  <1>1. /\ pc = "install" /\ name \in Networks /\ copy.uid # 0
        /\ UNCHANGED <<nets, restarted, secret, dir>>
    BY DEF Install, users, Inv, Busy, Holding
  <1>2. CASE /\ release.owner = None /\ \E state : Save(state)
             /\ release' = [owner |-> name, current |-> dir[name] = "stored"]
    <2>1. UNCHANGED <<name, copy>> /\ release'.owner = name
      BY <1>2 DEF Save
    <2>2. dir[name] = "stored" => release'.current
      BY <1>2
    <2>3. nets[name].uid = copy.uid => Stored(name) /\ release'.current
      BY <1>1, <2>2 DEF OneAtATime, Certified, Stored
    <2>4. Tenant(name) => nets[name].uid = copy.uid
      BY <1>1 DEF Known
    <2>5. \A n \in Networks : (Tenant(n)' <=> Tenant(n)) /\ (Stored(n)' <=> Stored(n))
      BY <1>1 DEF Tenant, Exists, Stored
    <2>6. pc' = "save"
      BY <1>2 DEF Save
    <2> QED
      BY <1>1, <2>1, <2>3, <2>4, <2>5, <2>6 DEF Certified
  <1>3. CASE release.owner # None /\ UNCHANGED release /\ Return(TRUE)
    BY <1>1, <1>3, IdleOne DEF Return
  <1> QED
    BY <1>2, <1>3, Zenon DEF Install

\* What is read as set up is the network that is set up, or a former one, after which
\* none is yet.
LEMMA LateTenant ==
    ASSUME PipeInv, Undisturbed, Held, name \in Networks, copy.uid # 0,
           copy.state \in LateStates, pc = "handle"
    PROVE  /\ release.owner = name
           /\ nets[name].uid = copy.uid => Tenant(name)
           /\ \A n \in Networks : Tenant(n) => n = name /\ nets[name].uid = copy.uid
  <1>1. release.owner = name
    BY LatePlaced
  <1>2. ASSUME nets[name].uid = copy.uid, name \notin restarted PROVE Tenant(name)
    <2>1. PICK u : u = nets[name].uid
      OBVIOUS
    <2>2. copy \in Late(u) /\ unforced
      BY <1>2, <2>1 DEF Late, PipeInv, Inv, WorkerOK, Undisturbed
    <2>3. Leads(name, Late(u), Late(u))
      BY <1>2, <2>1, <2>2 DEF PipeInv, Pipe, Ordered, OrderedAt, Exists
    <2>4. nets[name] \in Late(u)
      BY <2>2, <2>3 DEF Leads
    <2> QED
      BY <1>2, <2>4 DEF Late, LateStates, Tenant, Exists
  <1>3. name \in restarted => Tenant(name)
    BY UndisturbedFree DEF Free
  <1>4. ASSUME NEW n \in Networks, Tenant(n) PROVE n = name /\ nets[name].uid = copy.uid
    <2>1. nets[n] \notin Early \/ n \in restarted
      BY <1>4 DEF Tenant, Early, Exists, LateStates
    <2>2. n = name
      BY <1>1, <2>1 DEF Held, Placed, Redone
    <2> QED
      BY <1>4, <2>2 DEF PipeInv, Known
  <1> QED
    BY <1>1, <1>2, <1>3, <1>4

LEMMA MadeCurrent ==
    ASSUME release' = [owner |-> name, current |-> dir[name] = "stored"], dir[name] = "stored"
    PROVE  release'.current
  OBVIOUS

\* Steps for a network read as set up: the certificates are kept, or renewed with it.
LEMMA LateOne ==
    ASSUME PipeInv, Undisturbed, Held, OneAtATime,
           Upgrade \/ PodsAreReady \/ Submit \/ ApplyEdit, ~Fault
    PROVE  Certified'
  <1> USE DEF PodsAreReady
  <1>0. Inv /\ Holding
    BY DEF PipeInv
  <1>1. UNCHANGED <<users, informer>> /\ name \in Networks
    BY <1>0 DEF Upgrade, HandleInstalled, Submit, ApplyEdit, Inv, Busy, Handling, Unforced
  <1>n. PICK n \in Networks : n = name
    BY <1>1
  <1>2. UNCHANGED <<nets, restarted>> /\ \A m \in Networks : Tenant(m)' <=> Tenant(m)
    BY <1>1 DEF users, Tenant, Exists
  <1>3. /\ \A m \in Networks : Tenant(m) => m = n /\ nets[n].uid = copy.uid
        /\ nets[n].uid = copy.uid => Stored(n) /\ release.current
        /\ release.owner = n
    <2>1. CASE pc = "submit"
      <3>1. Submitting /\ release.owner = n
        BY <1>n, <2>1 DEF Held, Submitting
      <3>2. \A m \in Networks : Tenant(m) => m = n
        <4>1. \A m \in Networks : Tenant(m) => nets[m] \notin Early \/ m \in restarted
          BY DEF Tenant, Early, Exists, LateStates
        <4> QED
          BY <2>1, <3>1, <4>1 DEF Held, Placed, Redone
      <3>3. Tenant(n) => nets[n].uid = copy.uid
        BY <1>n DEF PipeInv, Known
      <3> QED
        BY <1>n, <3>1, <3>2, <3>3 DEF OneAtATime, Certified
    <2>2. CASE pc # "submit"
      <3>1. pc = "handle" /\ copy.uid # 0 /\ copy.state \in LateStates
        BY <2>2 DEF Upgrade, HandleInstalled, Submit, ApplyEdit, Handling, Unforced, LateStates
      <3>2. /\ release.owner = n /\ (nets[n].uid = copy.uid => Tenant(n))
            /\ \A m \in Networks : Tenant(m) => m = n /\ nets[n].uid = copy.uid
        BY <1>1, <1>n, <3>1, LateTenant
      <3> QED
        BY <3>2 DEF OneAtATime, Certified
    <2> QED
      BY <2>1, <2>2
  <1>4. \E state \in States : Save(state)
    BY <1>n, <1>3, NoName DEF Upgrade, HandleInstalled, Submit, ApplyEdit, States
  <1>5. pc' = "save" /\ UNCHANGED <<name, copy>>
    BY <1>4 DEF Save
  <1>6. ASSUME nets[n].uid = copy.uid
        PROVE  secret' = copy.uid /\ dir'[n] = "stored" /\ release'.current
    <2>1. secret = copy.uid /\ dir[n] = "stored" /\ release.current
      BY <1>3, <1>6 DEF Stored
    <2>2. CASE Upgrade
      <3>1. UNCHANGED <<secret, dir>>
        BY <2>2 DEF Upgrade
      <3>2. UNCHANGED release \/ release' = [owner |-> name, current |-> dir[name] = "stored"]
        BY <2>2 DEF Upgrade
      <3>3. dir[name] = "stored"
        BY <1>n, <2>1
      <3> QED
        BY <1>n, <2>1, <3>1, <3>2, <3>3, MadeCurrent, Zenon
    <2>3. CASE PodsAreReady \/ Submit
      BY <2>1, <2>3 DEF HandleInstalled, Submit, shared
    <2>4. CASE ApplyEdit
      <3>1. UNCHANGED shared \/ MoreCertificates
        BY <2>4 DEF ApplyEdit
      <3>2. CASE UNCHANGED shared
        BY <2>1, <3>2 DEF shared
      <3>3. CASE MoreCertificates
        BY <1>n, <2>1, <3>3 DEF MoreCertificates
      <3> QED
        BY <3>1, <3>2, <3>3
    <2> QED
      BY <2>2, <2>3, <2>4
  <1> QED
    BY <1>n, <1>2, <1>3, <1>5, <1>6 DEF Certified, Stored

LEMMA ChartReadyOne ==
    ASSUME PipeInv, Undisturbed, Held, OneAtATime, HandleChartReady
    PROVE  OneAtATime'
  <1>1. Inv /\ name \in Networks /\ UNCHANGED <<secret, release, dir>> /\ pc = "handle"
        /\ copy.uid # 0 /\ copy.state = "ChartReady"
    BY HandleChartReadyIs DEF PipeInv, shared
  <1>n. PICK n \in Networks : n = name
    BY <1>1
  <1>2. CASE /\ nets[n] = copy /\ Written(n, Renewed) /\ restarted' = restarted \union {n}
             /\ pc' \in {"submit", "idle"} /\ (GoesOn(n, Renewed) \/ Ends)
    <2>1. Appended(n, Renewed) /\ Renewed.uid = copy.uid /\ Renewed.state = "New"
      BY <1>1, <1>2, RenewedIs, AppendIs
    <2>2. Tenant(n) /\ Exists(n)
      BY <1>1, <1>2 DEF Tenant, Exists
    <2>3. Stored(n) /\ release.current /\ release.owner = n
      BY <1>1, <1>n, <2>2, LatePlaced DEF LateStates, OneAtATime, Certified
    <2>4. Single' /\ InOrder'
      BY <1>1, <1>2, <2>1, <2>2, WrittenOne
    <2>5. \A m \in Networks : m # n => ~Exists(m) /\ ~Exists(m)'
      BY <2>1, <2>2 DEF OneAtATime, Single, Appended, Exists
    <2>6. nets'[n].uid = nets[n].uid
      BY <1>2, <2>1 DEF Appended
    <2>7. Stored(n)' /\ release'.current
      BY <1>1, <2>3, <2>6 DEF Stored
    <2>8. Others'
      BY <1>2, <2>5, NoName DEF Others, Tenant, GoesOn, Ends, Absent
    <2>9. Certified'
      BY <1>1, <1>2, <2>5, <2>7, NoName DEF Certified, Tenant, Submitting, GoesOn, Ends
    <2> QED
      BY <2>4, <2>8, <2>9 DEF OneAtATime
  <1>3. CASE UNCHANGED <<nets, informer, restarted>> /\ Ends /\ pc' = "idle"
    BY <1>1, <1>3, IdleOne, WorkOne DEF informer
  <1> QED
    BY <1>1, <1>n, <1>2, <1>3, HandleChartReadyIs

LEMMA SaveOne ==
    ASSUME PipeInv, Undisturbed, OneAtATime, SaveStatus
    PROVE  OneAtATime'
  <1>1. /\ Inv /\ Free /\ pc = "save" /\ pc' = "idle" /\ Ends /\ name \in Networks /\ copy.uid # 0
        /\ UNCHANGED <<restarted, secret, release, dir>>
    BY UndisturbedFree DEF PipeInv, Inv, Busy, Holding, SaveStatus, Return, Ends, shared
  <1>n. PICK n \in Networks : n = name
    BY <1>1
  <1>2. CASE UNCHANGED <<nets, informer>>
    BY <1>1, <1>2, IdleOne, WorkOne DEF informer
  <1>3. CASE nets[n] = copy /\ Written(n, Recorded)
    <2>1. Appended(n, Recorded) /\ Recorded.uid = copy.uid /\ Recorded.state = draft /\ Exists(n)
      BY <1>1, <1>3, RecordedIs, AppendIs DEF Exists
    <2>2. Single' /\ InOrder'
      BY <1>1, <1>3, <2>1, WrittenOne
    <2>3. Others'
      BY <1>1, NoName DEF Others, Ends
    <2>4. \A m \in Networks : m # n => ~Exists(m)'
      BY <2>1 DEF OneAtATime, Single, Appended, Exists
    <2>5. ASSUME Tenant(n)', release.owner = n PROVE Stored(n) /\ release.current
      <3>1. CASE draft \in LateStates
        BY <1>1, <1>n, <1>3, <3>1 DEF OneAtATime, Certified
      <3>2. CASE draft \notin LateStates
        <4>1. n \in restarted
          BY <1>1, <2>1, <2>5, <3>2 DEF Tenant, Appended, LateStates
        <4>2. Tenant(n)
          BY <1>1, <4>1 DEF Free
        <4> QED
          BY <2>5, <4>2 DEF OneAtATime, Certified
      <3> QED
        BY <3>1, <3>2
    <2>6. nets'[n].uid = nets[n].uid
      BY <1>3, <2>1 DEF Appended
    <2>7. Certified'
      BY <1>1, <2>4, <2>5, <2>6, NoName DEF Certified, Stored, Ends, Tenant, Exists
    <2> QED
      BY <2>2, <2>3, <2>7 DEF OneAtATime
  <1> QED
    BY <1>n, <1>2, <1>3 DEF SaveStatus

LEMMA HandlesOne ==
    ASSUME PipeInv, Undisturbed, Held, OneAtATime, Handles, ~Fault, ~CallFails
    PROVE  OneAtATime'
  <1> USE DEF PipeInv
  <1>1. UNCHANGED <<nets, restarted, watch, cache>> /\ (Keeps \/ Ends)
    BY HandlesIs DEF users, informer
  <1>2. CASE HandleNone \/ HandleRejected \/ PodsAreNot \/ HandleRunning \/ DeleteWorkflows
    <2> USE DEF PodsAreNot, HandleInstalled
    <2>1. UNCHANGED <<release, secret, dir>>
      BY <1>2 DEF HandleNone, HandleRejected, HandleRunning, DeleteWorkflows, shared
    <2>2. pc' = "idle" \/ (pc' = "save" /\ draft' \notin LateStates)
      BY <1>2 DEF HandleNone, HandleRejected, HandleRunning, DeleteWorkflows, Return, Save, LateStates
    <2> QED
      BY <1>1, <2>1, <2>2, IdleOne, WorkOne
  <1>3. CASE Teardown \/ HandleGone
    <2>1. UNCHANGED <<secret, dir>> /\ pc' \in {"prepare", "gone"}
          /\ (release' = Uninstalled \/ UNCHANGED release)
      BY <1>3 DEF Teardown, HandleGone, Goto
    <2>2. release' = release \/ release'.owner = None
      BY <2>1 DEF Uninstalled, NoRelease
    <2> QED
      BY <1>1, <2>1, <2>2, IdleOne, WorkOne
  <1> QED
    BY <1>1, <1>2, <1>3, ReconstructOne, PrepareOne, InstallOne, LateOne, WorkOne
       DEF Handles, Reads, PodsAreReady, PodsAreNot, HandleInstalled

LEMMA OneStep ==
    ASSUME PipeInv, Undisturbed => Held, Undisturbed /\ alone => OneAtATime, [Next]_vars,
           Undisturbed', alone'
    PROVE  OneAtATime'
  <1>1. Inv /\ Undisturbed /\ Held /\ ~Crash /\ ~Fault /\ ~CallFails /\ ~HandleForced /\ ~ClearForce
    BY StillUndisturbed, StillCalm, UndisturbedFree DEF PipeInv, Undisturbed
  <1>2. alone
    <2>1. CASE UNCHANGED alone
      BY <2>1
    <2>2. CASE \E n \in Networks : Create(n)
      BY <2>2, Zenon DEF Create
    <2>3. Handles => UNCHANGED alone
      BY HandlesFrame DEF PipeInv, users, history
    <2>4. (\E n \in Networks : Update(n) \/ Delete(n)) => UNCHANGED alone
      BY DEF Update, Delete, history
    <2>5. UNCHANGED vars \/ Timers \/ Deliver \/ CollectGarbage \/ Begin \/ HandleChartReady
          \/ SaveStatus => UNCHANGED alone
      BY DEF vars, Timers, TimerFires, Deliver, CollectGarbage, Begin, HandleChartReady,
             SaveStatus, users, history
    <2> QED
      BY <1>1, <2>1, <2>2, <2>3, <2>4, <2>5 DEF Next, Worker, Handles, Reads
  <1>3. OneAtATime
    BY <1>1, <1>2
  <1>4. CASE UNCHANGED vars \/ Timers
    BY <1>3, <1>4, OneFrame DEF vars, Timers, TimerFires, users, informer, worker, shared, Submitting
  <1> QED
    BY <1>1, <1>3, <1>4, CreateOne, UpdateOne, DeleteOne, DeliverOne, CollectOne, BeginOne,
       HandlesOne, ChartReadyOne, SaveOne DEF Next, Worker, Handles, Reads

LEMMA OneInit == Init => OneAtATime
  <1> SUFFICES ASSUME Init PROVE OneAtATime
    OBVIOUS
  <1>1. pc = "idle" /\ \A n \in Networks : nets[n] = Absent
    BY DEF Init
  <1> QED
    BY <1>1, NoName DEF OneAtATime, Single, InOrder, Others, Certified, Submitting, Tenant, Exists

LEMMA OneMatches ==
    PipeInv /\ (Undisturbed => Held) /\ (Undisturbed /\ alone => OneAtATime) => CertificatesMatch
  <1> SUFFICES ASSUME PipeInv, Undisturbed, Held, OneAtATime, NEW n \in Networks, Running(n)
               PROVE  (secret = nets[n].uid /\ release.current) \/ Redoing(n)
    BY DEF CertificatesMatch, Undisturbed
  <1>1. release.owner = n \/ Redoing(n)
    BY HeldRuns DEF RunningHasRelease, Undisturbed
  <1>2. Tenant(n)
    BY DEF Running, Tenant, Exists
  <1> QED
    BY <1>1, <1>2 DEF OneAtATime, Certified, Stored

\* In calm, as long as users never have two networks at once and force no state, the
\* secret and the release hold the certificates of the network whose chart is ready in
\* every reachable state, but for a restarted one that is having new ones made
\* (storeCryptoConfig, prepareChartDirForFabric, extendOrDownload, installHelmChart,
\* updateHelmChart).
THEOREM CertificatesMatchAlways == Spec => []CertificatesMatch
  <1> DEFINE IInv == PipeInv /\ (Undisturbed => Held) /\ (Undisturbed /\ alone => OneAtATime)
  <1>1. Init => IInv
    BY PipeInit, HeldInit, OneInit
  <1>2. IInv /\ [Next]_vars => IInv'
    BY PipeStep, HeldStep, OneStep
  <1>3. IInv => CertificatesMatch
    BY OneMatches
  <1> QED
    BY <1>1, <1>2, <1>3, PTL DEF Spec
=============================================================================
