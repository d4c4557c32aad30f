---------------------------------- MODULE Cli -------------------------------
(***************************************************************************)
(* The command line tool, in one namespace: create, update and delete as   *)
(* the sequences of calls they are.  A network file is accompanied by      *)
(* local files, which the tool uploads as secrets and config maps before   *)
(* it submits the network; a file may also refer to some that are there    *)
(* already.  Calls fail, answers are lost, users interrupt each other, and *)
(* the operator stores certificates of its own among theirs.               *)
(***************************************************************************)
EXTENDS Integers, Sequences

CONSTANTS Users,          \* each runs one command at a time
          Names,          \* names of networks
          ChaincodeNames, \* names of chaincodes as written in files
          LowerCase,      \* strings.ToLower of each
          Files,          \* network files
          None, Gone,     \* no label or owner, an owner that was deleted
          MaxCommands,    \* bound: commands, besides retries
          MaxFaults       \* bound: failing calls and lost answers

\* Where a network's parts come from: `folder' is chaincode.folder, `genesis' says
\* that genesis.secret is given, which the tool never uploads, and an empty name
\* stands for a source that is not given.  Each file has an edition, which
\* tells its local files from those of others.
FileType == [edition : Nat \ {0}, name : Names, configtx : {"file", "secret"},
             crypto : {"", "folder", "secret"}, genesis : BOOLEAN,
             folder : BOOLEAN, chaincodes : Seq(ChaincodeNames)]

\* Secrets and config maps by key.  No name of a chaincode is that of a secret.
Secrets == {"configtx", "genesis", "crypto"}
Maps == { LowerCase[c] : c \in ChaincodeNames }
Keys == Secrets \union Maps
Parts == Secrets \union ChaincodeNames
Key(part) == IF part \in Secrets THEN part ELSE LowerCase[part]

ASSUME CliAssumption ==
    /\ Files \subseteq FileType
    /\ DOMAIN LowerCase = ChaincodeNames
    /\ ChaincodeNames \intersect Secrets = {} /\ Maps \intersect Secrets = {}
    /\ Names # {} /\ None \notin Names /\ Gone \notin Names /\ None # Gone
    /\ MaxCommands \in Nat /\ MaxFaults \in Nat

VARIABLES
    networks,  \* the file of each network in the API server, or NoFile
    res,       \* secrets and config maps
    cmd,       \* the command each user runs
    current,   \* users who hold the server's version of the network they update
    last,      \* how the last command ended
    hand,      \* the network the operator is about to store certificates of
    calm,      \* no command has met another one, or a deletion not yet over
    commands, faults  \* budgets left

vars == <<networks, res, cmd, current, last, hand, calm, commands, faults>>

-----------------------------------------------------------------------------
NoFile == [edition |-> 0]
Absent == [edition |-> -1, label |-> None, owner |-> None]
Handmade(by) == [edition |-> 0, label |-> "", owner |-> by]
Made(by) == [edition |-> 0, label |-> None, owner |-> by]   \* not from a user's file
Editions == { f.edition : f \in Files } \union {-1, 0}
Resources == [edition : Editions, label : Names \union {None},
              owner : Names \union {None, Gone}]

\* `flag' is --overwrite of create, --keep-resources of delete.
Commands == [pc : {"idle", "list", "read", "validate", "look", "write", "submit",
                   "delete", "secrets", "removeSecrets", "removeMaps"},
             kind : {"create", "update", "delete"}, name : Names, file : Files \union {NoFile},
             flag : BOOLEAN, todo : Seq(Parts), exists : BOOLEAN, left : SUBSET Keys]
NoCommand == [pc |-> "idle", kind |-> "create", name |-> CHOOSE n \in Names : TRUE,
              file |-> NoFile, flag |-> FALSE, todo |-> <<>>, exists |-> FALSE, left |-> {}]

Init ==
    /\ networks = [n \in Names |-> NoFile]
    /\ \E before \in {Absent, Made(None)} : res = [k \in Keys |-> before]
    /\ cmd = [u \in Users |-> NoCommand]
    /\ current = {} /\ last = "none" /\ hand = None /\ calm = TRUE
    /\ commands = MaxCommands /\ faults = MaxFaults

Present(k) == res[k] # Absent
Idle(u) == cmd[u].pc = "idle"
NobodyBusy == \A u \in Users : Idle(u)
NoNetwork == \A n \in Names : networks[n] = NoFile
Garbage == { k \in Keys : res[k].owner = Gone }

Fault == faults > 0 /\ faults' = faults - 1

Ends(u, outcome) == cmd' = [cmd EXCEPT ![u] = NoCommand] /\ last' = outcome
Goto(u, pc) == cmd' = [cmd EXCEPT ![u].pc = pc] /\ UNCHANGED last

\* An effect the tool learns of, or does not because the answer is lost.
Then(u, goesOn) == (goesOn /\ UNCHANGED faults) \/ (Fault /\ Ends(u, "failed"))

\* Whoever has read network n no longer holds the server's version of it.
Outdated(n) == { u \in current : cmd[u].name = n }

-----------------------------------------------------------------------------
\* A file none of whose parts has to be there already.
SelfContained(file) ==
    /\ file.configtx = "file" /\ file.crypto # "secret" /\ ~file.genesis
    /\ file.folder \/ file.chaincodes = <<>>

Disturbs(file) ==
    ~NobodyBusy \/ hand # None \/ (Garbage # {} /\ ~SelfContained(file))

Starts(u, kind, pc, name, file, flag) ==
    /\ Idle(u)
    /\ cmd' = [cmd EXCEPT ![u] = [NoCommand EXCEPT !.kind = kind, !.pc = pc, !.name = name,
                                                   !.file = file, !.flag = flag]]

Enter(u) ==
    /\ commands > 0 /\ commands' = commands - 1
    /\ \/ \E f \in Files :
            /\ \/ \E overwrite \in BOOLEAN : Starts(u, "create", "list", f.name, f, overwrite)
               \/ Starts(u, "update", "read", f.name, f, TRUE)
            /\ calm' = (calm /\ ~Disturbs(f))
       \/ /\ \E n \in Names, keep \in BOOLEAN : Starts(u, "delete", "delete", n, NoFile, keep)
          /\ calm' = (calm /\ NobodyBusy /\ hand = None)
    /\ UNCHANGED <<networks, res, current, last, hand, faults>>

\* A user who wants a network tries again with --overwrite, from local files.
Retry(u) ==
    /\ NobodyBusy /\ NoNetwork
    /\ \E f \in Files :
        /\ SelfContained(f) /\ f.crypto = "folder"
        /\ Starts(u, "create", "list", f.name, f, TRUE)
        /\ calm' = (calm /\ ~Disturbs(f))
    /\ UNCHANGED <<networks, res, current, last, hand, commands, faults>>

-----------------------------------------------------------------------------
\* create
List(u) ==
    /\ cmd[u].pc = "list"
    /\ IF NoNetwork THEN Goto(u, "validate") ELSE Ends(u, "failed")
    /\ UNCHANGED <<networks, res, current, hand, calm, commands, faults>>

\* The existing secrets and config maps are asked for one after the other; they
\* are taken together here.  Config maps are looked up by the name as written.
Found(c) == LowerCase[c] = c /\ Present(c)
ValidParts(file) ==
    /\ file.crypto = "secret" => Present("crypto")
    /\ file.genesis => Present("genesis")
    /\ ~file.folder => \A i \in DOMAIN file.chaincodes : Found(file.chaincodes[i])
ValidNew(file, overwrite) ==
    /\ file.configtx = "file" /\ ~overwrite => ~Present("configtx")
    /\ file.crypto = "folder" /\ ~overwrite => ~Present("crypto")
TrustsConfigtx(file, overwrite) == ValidParts(file) /\ ValidNew(file, overwrite)
Valid(file, overwrite) ==
    /\ ValidParts(file) /\ ValidNew(file, overwrite)
    /\ file.configtx = "secret" => Present("configtx")

\* What is uploaded, in this order.
Uploads(file) ==
    (IF file.configtx = "file" THEN <<"configtx">> ELSE <<>>)
    \o (IF file.crypto = "folder" THEN <<"crypto">> ELSE <<>>)
    \o (IF file.folder THEN file.chaincodes ELSE <<>>)

Validate(u) ==
    /\ cmd[u].pc = "validate"
    /\ IF Valid(cmd[u].file, cmd[u].flag)
       THEN /\ cmd' = [cmd EXCEPT ![u].pc = "look", ![u].todo = Uploads(cmd[u].file)]
            /\ UNCHANGED last
       ELSE Ends(u, "failed")
    /\ UNCHANGED <<networks, res, current, hand, calm, commands, faults>>

NeverRefuses(u, part) == FALSE

\* Only for config maps is the flag asked for again.
Refuses(u, part) == part \notin Secrets /\ Present(Key(part)) /\ ~cmd[u].flag

SeesNothing(part) == FALSE
Exists(part) == Present(Key(part))

Look(u) ==
    /\ cmd[u].pc = "look"
    /\ IF cmd[u].todo = <<>> THEN Goto(u, "submit")
       ELSE LET part == Head(cmd[u].todo) IN
            IF Refuses(u, part) THEN Ends(u, "failed")
            ELSE /\ cmd' = [cmd EXCEPT ![u].pc = "write", ![u].exists = Exists(part)]
                 /\ UNCHANGED last
    /\ UNCHANGED <<networks, res, current, hand, calm, commands, faults>>

\* Whatever was there is replaced, its owner included.
Unlabelled(file) == [edition |-> file.edition, label |-> None, owner |-> None]
Uploaded(file) == [edition |-> file.edition, label |-> file.name, owner |-> None]

KeepsOld(file, k) == IF Present(k) THEN res ELSE [res EXCEPT ![k] = Uploaded(file)]
Replaced(file, k) == [res EXCEPT ![k] = Uploaded(file)]

\* Update or Create, which the server refuses if that has changed since.
Write(u) ==
    /\ cmd[u].pc = "write"
    /\ LET part == Head(cmd[u].todo) IN
       IF Present(Key(part)) = cmd[u].exists
       THEN /\ res' = Replaced(cmd[u].file, Key(part))
            /\ Then(u, /\ cmd' = [cmd EXCEPT ![u].pc = "look", ![u].todo = Tail(@)]
                       /\ UNCHANGED last)
       ELSE Ends(u, "failed") /\ UNCHANGED <<res, faults>>
    /\ UNCHANGED <<networks, current, hand, calm, commands>>

\* Create of a network that exists is refused, Update of another version too.
Accepts(u) ==
    IF cmd[u].kind = "create" THEN networks[cmd[u].name] = NoFile ELSE u \in current

Submit(u) ==
    /\ cmd[u].pc = "submit"
    /\ IF Accepts(u)
       THEN /\ networks' = [networks EXCEPT ![cmd[u].name] = cmd[u].file]
            /\ current' = current \ Outdated(cmd[u].name)
            /\ Then(u, Ends(u, "ok"))
       ELSE Ends(u, "failed") /\ UNCHANGED <<networks, current, faults>>
    /\ UNCHANGED <<res, hand, calm, commands>>

-----------------------------------------------------------------------------
\* update
Read(u) ==
    /\ cmd[u].pc = "read"
    /\ IF networks[cmd[u].name] # NoFile
       THEN Goto(u, "validate") /\ current' = current \union {u}
       ELSE Ends(u, "failed") /\ UNCHANGED current
    /\ UNCHANGED <<networks, res, hand, calm, commands, faults>>

-----------------------------------------------------------------------------
\* delete
Orphaned(n) == [k \in Keys |-> IF res[k].owner = n THEN [res[k] EXCEPT !.owner = Gone]
                                                   ELSE res[k]]

DeleteNetwork(u) ==
    /\ cmd[u].pc = "delete"
    /\ LET n == cmd[u].name IN
       IF networks[n] = NoFile
       THEN Ends(u, "failed") /\ UNCHANGED <<networks, res, current, hand, faults>>
       ELSE /\ networks' = [networks EXCEPT ![n] = NoFile]
            /\ res' = Orphaned(n)
            /\ current' = current \ Outdated(n)
            /\ hand' = IF hand = n THEN Gone ELSE hand
            /\ Then(u, IF cmd[u].flag THEN Ends(u, "ok") ELSE Goto(u, "secrets"))
    /\ UNCHANGED <<calm, commands>>

Labelled(n, keys) == { k \in keys : res[k].label = n }

Lists(u, pc, keys) ==
    /\ cmd' = [cmd EXCEPT ![u].pc = pc, ![u].left = Labelled(cmd[u].name, keys)]
    /\ UNCHANGED last

\* The labelled secrets are listed and deleted, then the config maps.
ListSecrets(u) ==
    /\ cmd[u].pc = "secrets"
    /\ Lists(u, "removeSecrets", Secrets)
    /\ UNCHANGED <<networks, res, current, hand, calm, commands, faults>>

ListMaps(u) ==
    /\ cmd[u].pc = "removeSecrets" /\ cmd[u].left = {}
    /\ Lists(u, "removeMaps", Maps)
    /\ UNCHANGED <<networks, res, current, hand, calm, commands, faults>>

Remove(u) ==
    /\ cmd[u].pc \in {"removeSecrets", "removeMaps"}
    /\ \E k \in cmd[u].left :
        IF Present(k)
        THEN /\ res' = [res EXCEPT ![k] = Absent]
             /\ Then(u, cmd' = [cmd EXCEPT ![u].left = @ \ {k}] /\ UNCHANGED last)
        ELSE Ends(u, "failed") /\ UNCHANGED <<res, faults>>
    /\ UNCHANGED <<networks, current, hand, calm, commands>>

Deleted(u) ==
    /\ cmd[u].pc = "removeMaps" /\ cmd[u].left = {}
    /\ Ends(u, "ok")
    /\ UNCHANGED <<networks, res, current, hand, calm, commands, faults>>

\* A call that fails without effect.
CallFails(u) ==
    /\ ~Idle(u)
    /\ Fault /\ Ends(u, "failed")
    /\ UNCHANGED <<networks, res, current, hand, calm, commands>>

-----------------------------------------------------------------------------
\* The operator saves the status of networks, and it makes and stores certificates
\* for those without, which may take longer than the network exists.
OperatorSaves(n) ==
    /\ networks[n] # NoFile /\ Outdated(n) # {}
    /\ current' = current \ Outdated(n)
    /\ UNCHANGED <<networks, res, cmd, last, hand, calm, commands, faults>>

OperatorTakes(n) ==
    /\ hand = None
    /\ networks[n] # NoFile /\ networks[n].crypto = ""
    /\ hand' = n
    /\ calm' = (calm /\ NobodyBusy)
    /\ UNCHANGED <<networks, res, cmd, current, last, commands, faults>>

OperatorStores ==
    /\ hand # None
    /\ res' = [res EXCEPT !["crypto"] = Made(hand)]
    /\ hand' = None
    /\ UNCHANGED <<networks, cmd, current, last, calm, commands, faults>>

\* The garbage collector of Kubernetes.
Collect(k) ==
    /\ res[k].owner = Gone
    /\ res' = [res EXCEPT ![k] = Absent]
    /\ UNCHANGED <<networks, cmd, current, last, hand, calm, commands, faults>>

-----------------------------------------------------------------------------
Step(u) ==
    \/ List(u) \/ Read(u) \/ Validate(u) \/ Look(u) \/ Write(u) \/ Submit(u)
    \/ DeleteNetwork(u) \/ ListSecrets(u) \/ ListMaps(u) \/ Remove(u) \/ Deleted(u)
    \/ CallFails(u)

Operator == OperatorStores \/ \E n \in Names : OperatorSaves(n) \/ OperatorTakes(n)

Next ==
    \/ \E u \in Users : Enter(u) \/ Retry(u) \/ Step(u)
    \/ Operator
    \/ \E k \in Keys : Collect(k)

Spec == Init /\ [][Next]_vars

\* A command that has been entered runs, the operator stores what it has made, the
\* garbage collector collects, and some user goes on trying.
Fairness ==
    /\ \A u \in Users : WF_vars(Step(u))
    /\ WF_vars(OperatorStores)
    /\ WF_vars(\E u \in Users : Retry(u))
    /\ \A k \in Keys : WF_vars(Collect(k))

FairSpec == Spec /\ Fairness
=============================================================================
