------------------------------- MODULE CliProofs ------------------------------
(***************************************************************************)
(* Proofs about the command line tool: type correctness; and, while        *)
(* commands do not overlap, that create without --overwrite replaces       *)
(* nothing, that what a network refers to is there, that what its file     *)
(* uploads is what is there after a success, and that delete leaves        *)
(* nothing of a network behind.                                            *)
(***************************************************************************)
EXTENDS CliProperties, SequenceTheorems, TLAPS

\* What the types rest on: a command that works from a file has one, and writes
\* only while something is left to upload.
FromFile == {"list", "read", "validate", "look", "write", "submit"}
Supplied(c) ==
    /\ c.pc \in FromFile => c.file \in Files
    /\ c.pc = "write" => c.todo # <<>>
CommandsOK == cmd \in [Users -> Commands] /\ \A u \in Users : Supplied(cmd[u])
ServerOK ==
    /\ networks \in [Names -> Files \union {NoFile}] /\ res \in [Keys -> Resources]
    /\ current \in SUBSET Users /\ hand \in Names \union {None, Gone}
OthersOK == calm \in BOOLEAN /\ commands \in 0..MaxCommands
BudgetOK == last \in {"none", "ok", "failed"} /\ faults \in 0..MaxFaults
Inv == CommandsOK /\ ServerOK /\ OthersOK /\ BudgetOK

LEMMA InvIsTyped == Inv => CliOK
  BY DEF Inv, CommandsOK, ServerOK, OthersOK, BudgetOK, CliOK

LEMMA NoCommandType == NoCommand \in Commands /\ NoCommand.pc = "idle"
  BY CliAssumption DEF NoCommand, Commands

LEMMA KeyType == \A part \in Parts : Key(part) \in Keys
  BY CliAssumption DEF Parts, Key, Keys, Maps

LEMMA ResourceType ==
    /\ Absent \in Resources
    /\ \A n \in Names \union {None, Gone} : Made(n) \in Resources
    /\ \A f \in Files : Uploaded(f) \in Resources
    /\ \A r \in Resources : [r EXCEPT !.owner = Gone] \in Resources
  <1>1. \A f \in Files : f.name \in Names /\ f.edition \in Editions
    BY CliAssumption DEF FileType, Editions
  <1>2. -1 \in Editions /\ 0 \in Editions
    BY DEF Editions
  <1> QED
    BY <1>1, <1>2 DEF Absent, Made, Uploaded, Resources

LEMMA UploadsType == \A f \in Files : Uploads(f) \in Seq(Parts)
  <1> SUFFICES ASSUME NEW f \in Files PROVE Uploads(f) \in Seq(Parts)
    OBVIOUS
  <1>1. f.chaincodes \in Seq(ChaincodeNames)
    BY CliAssumption DEF FileType
  <1>2. f.chaincodes \in Seq(Parts)
    BY <1>1 DEF Parts
  <1>3. "configtx" \in Parts /\ "crypto" \in Parts
    BY DEF Parts, Secrets
  <1>4. <<>> \in Seq(Parts) /\ <<"configtx">> \in Seq(Parts) /\ <<"crypto">> \in Seq(Parts)
    BY <1>3
  <1> QED
    BY <1>2, <1>4 DEF Uploads

\* The two ways a command proceeds.
LEMMA CommandType ==
    ASSUME CommandsOK, NEW u \in Users, NEW c \in Commands, Supplied(c),
           cmd' = [cmd EXCEPT ![u] = c]
    PROVE  CommandsOK'
  BY DEF CommandsOK, Supplied

LEMMA EndsType ==
    ASSUME CommandsOK, NEW u \in Users, NEW outcome \in {"none", "ok", "failed"},
           Ends(u, outcome)
    PROVE  CommandsOK' /\ last' \in {"none", "ok", "failed"}
  <1>1. Supplied(NoCommand)
    BY NoCommandType DEF Supplied, FromFile
  <1> QED
    BY <1>1, NoCommandType, CommandType DEF Ends

LEMMA GotoType ==
    ASSUME CommandsOK, BudgetOK, NEW u \in Users, NEW pc, Goto(u, pc),
           \/ pc \in {"secrets"}
           \/ pc \in {"validate", "submit"} /\ cmd[u].pc \in FromFile
    PROVE  CommandsOK' /\ last' \in {"none", "ok", "failed"}
  <1> DEFINE c == [cmd[u] EXCEPT !.pc = pc]
  <1>1. cmd[u] \in Commands /\ Supplied(cmd[u]) /\ cmd' = [cmd EXCEPT ![u] = c]
    BY DEF CommandsOK, Goto
  <1>2. c \in Commands
    BY <1>1 DEF Commands
  <1>3. Supplied(c)
    BY <1>1 DEF Supplied, FromFile, Commands
  <1> HIDE DEF c
  <1> QED
    BY <1>1, <1>2, <1>3, CommandType DEF Goto, BudgetOK

LEMMA FaultType == BudgetOK /\ Fault => faults' \in 0..MaxFaults
  BY CliAssumption DEF BudgetOK, Fault

LEMMA InitTyped == Init => Inv
  <1> SUFFICES ASSUME Init PROVE Inv
    OBVIOUS
  <1>1. CommandsOK
    BY NoCommandType DEF Init, CommandsOK, Supplied, FromFile
  <1>2. ServerOK
    BY ResourceType DEF Init, ServerOK
  <1>3. OthersOK /\ BudgetOK
    BY CliAssumption DEF Init, OthersOK, BudgetOK
  <1> QED
    BY <1>1, <1>2, <1>3 DEF Inv

-----------------------------------------------------------------------------
\* The steps of a command.
LEMMA StartsType ==
    ASSUME CommandsOK, NEW u \in Users, NEW name \in Names, NEW flag \in BOOLEAN,
           NEW kind \in {"create", "update", "delete"},
           NEW file \in Files \union {NoFile}, NEW pc \in {"list", "read", "delete"},
           pc # "delete" => file \in Files,
           Starts(u, kind, pc, name, file, flag)
    PROVE  CommandsOK'
  <1> DEFINE c == [NoCommand EXCEPT !.kind = kind, !.pc = pc, !.name = name,
                                    !.file = file, !.flag = flag]
  <1>1. c \in Commands
    BY NoCommandType DEF Commands
  <1>2. c.pc = pc /\ c.file = file
    BY NoCommandType DEF Commands
  <1>3. Supplied(c)
    BY <1>2 DEF Supplied, FromFile
  <1>4. cmd' = [cmd EXCEPT ![u] = c]
    BY DEF Starts
  <1> HIDE DEF c
  <1> QED
    BY <1>1, <1>3, <1>4, CommandType

LEMMA FileTyped == \A f \in Files : f.name \in Names
  BY CliAssumption DEF FileType

LEMMA EnterType ==
    ASSUME Inv, NEW u \in Users, Enter(u) \/ Retry(u)
    PROVE  CommandsOK' /\ OthersOK'
  <1> USE DEF Inv
  <1>1. CASE Enter(u)
    <2>1. ASSUME NEW f \in Files, NEW overwrite \in BOOLEAN,
                 Starts(u, "create", "list", f.name, f, overwrite)
          PROVE  CommandsOK'
      BY <2>1, StartsType, FileTyped
    <2>2. ASSUME NEW f \in Files, Starts(u, "update", "read", f.name, f, TRUE)
          PROVE  CommandsOK'
      BY <2>2, StartsType, FileTyped
    <2>3. ASSUME NEW n \in Names, NEW keep \in BOOLEAN,
                 Starts(u, "delete", "delete", n, NoFile, keep)
          PROVE  CommandsOK'
      BY <2>3, StartsType
    <2>4. CommandsOK'
      BY <1>1, <2>1, <2>2, <2>3 DEF Enter
    <2>5. commands' \in 0..MaxCommands
      BY <1>1, CliAssumption DEF Enter, OthersOK
    <2>6. calm' \in BOOLEAN
      BY <1>1 DEF Enter
    <2> QED
      BY <2>4, <2>5, <2>6 DEF OthersOK
  <1>2. CASE Retry(u)
    <2>1. CommandsOK'
      BY <1>2, StartsType, FileTyped DEF Retry
    <2>2. OthersOK'
      BY <1>2 DEF Retry, OthersOK, Disturbs, NobodyBusy, Idle
    <2> QED
      BY <2>1, <2>2
  <1> QED
    BY <1>1, <1>2

LEMMA ListType ==
    ASSUME Inv, NEW u \in Users, List(u) \/ Read(u) \/ Validate(u)
    PROVE  CommandsOK' /\ BudgetOK' /\ current' \in SUBSET Users
  <1> USE DEF Inv
  <1>1. faults' = faults /\ current' \in SUBSET Users
    BY DEF List, Read, Validate, ServerOK
  <1>2. CommandsOK' /\ last' \in {"none", "ok", "failed"}
    <2>1. CASE Ends(u, "failed")
      BY <2>1, EndsType
    <2>2. CASE cmd[u].pc \in FromFile /\ Goto(u, "validate")
      BY <2>2, GotoType
    <2>3. CASE /\ cmd[u].pc = "validate" /\ UNCHANGED last
               /\ cmd' = [cmd EXCEPT ![u].pc = "look", ![u].todo = Uploads(cmd[u].file)]
      <3> DEFINE c == [cmd[u] EXCEPT !.pc = "look", !.todo = Uploads(cmd[u].file)]
      <3>1. cmd[u] \in Commands /\ cmd[u].file \in Files
        BY <2>3 DEF CommandsOK, Supplied, FromFile
      <3>2. c \in Commands
        BY <3>1, UploadsType DEF Commands
      <3>3. Supplied(c)
        BY <3>1 DEF Supplied, Commands
      <3>4. cmd' = [cmd EXCEPT ![u] = c]
        BY <2>3 DEF CommandsOK
      <3> HIDE DEF c
      <3> QED
        BY <2>3, <3>2, <3>3, <3>4, CommandType DEF BudgetOK
    <2> QED
      BY <2>1, <2>2, <2>3 DEF List, Read, Validate, FromFile
  <1> QED
    BY <1>1, <1>2 DEF BudgetOK

LEMMA LookType ==
    ASSUME Inv, NEW u \in Users, Look(u) PROVE CommandsOK' /\ BudgetOK'
  <1> USE DEF Inv
  <1> DEFINE c == [cmd[u] EXCEPT !.pc = "write", !.exists = Exists(Head(cmd[u].todo))]
  <1>1. cmd[u] \in Commands /\ Supplied(cmd[u]) /\ cmd[u].pc = "look"
    BY DEF CommandsOK, Look
  <1>2. CASE Ends(u, "failed")
    BY <1>2, EndsType DEF Look, BudgetOK
  <1>3. CASE Goto(u, "submit")
    BY <1>1, <1>3, GotoType DEF Look, BudgetOK, FromFile
  <1>4. CASE cmd[u].todo # <<>> /\ cmd' = [cmd EXCEPT ![u] = c] /\ UNCHANGED last
    <2>1. c \in Commands
      BY <1>1 DEF Commands, Exists, Present
    <2>2. Supplied(c)
      BY <1>1, <1>4 DEF Supplied, FromFile, Commands
    <2> HIDE DEF c
    <2> QED
      BY <1>4, <2>1, <2>2, CommandType DEF Look, BudgetOK
  <1> QED
    BY <1>2, <1>3, <1>4 DEF Look, CommandsOK

LEMMA WriteType ==
    ASSUME Inv, NEW u \in Users, Write(u)
    PROVE  CommandsOK' /\ BudgetOK' /\ res' \in [Keys -> Resources]
  <1> USE DEF Inv
  <1> DEFINE c == [cmd[u] EXCEPT !.pc = "look", !.todo = Tail(@)]
  <1>1. cmd[u] \in Commands /\ Supplied(cmd[u]) /\ cmd[u].pc = "write"
    BY DEF CommandsOK, Write
  <1>2. cmd[u].todo \in Seq(Parts) /\ cmd[u].todo # <<>> /\ cmd[u].file \in Files
    BY <1>1 DEF Supplied, FromFile, Commands
  <1>3. Key(Head(cmd[u].todo)) \in Keys
    BY <1>2, KeyType
  <1>4. res' \in [Keys -> Resources]
    BY <1>2, <1>3, ResourceType DEF Write, Replaced, ServerOK
  <1>5. CASE Ends(u, "failed") /\ (UNCHANGED faults \/ Fault)
    BY <1>5, EndsType, FaultType, <1>4 DEF BudgetOK
  <1>6. CASE cmd' = [cmd EXCEPT ![u] = c] /\ UNCHANGED <<last, faults>>
    <2>1. Tail(cmd[u].todo) \in Seq(Parts)
      BY <1>2, HeadTailProperties
    <2>2. c \in Commands
      BY <1>1, <2>1 DEF Commands
    <2>3. Supplied(c)
      BY <1>1, <1>2 DEF Supplied, FromFile, Commands
    <2> HIDE DEF c
    <2> QED
      BY <1>4, <1>6, <2>2, <2>3, CommandType DEF BudgetOK
  <1> QED
    BY <1>5, <1>6 DEF Write, Then, CommandsOK

LEMMA SubmitType ==
    ASSUME Inv, NEW u \in Users, Submit(u) PROVE CommandsOK' /\ BudgetOK' /\ ServerOK'
  <1> USE DEF Inv
  <1>1. cmd[u].file \in Files /\ cmd[u].name \in Names
    BY DEF CommandsOK, Supplied, FromFile, Commands, Submit
  <1>2. ServerOK'
    BY <1>1 DEF Submit, ServerOK
  <1>3. PICK outcome \in {"ok", "failed"} : Ends(u, outcome) /\ (UNCHANGED faults \/ Fault)
    BY DEF Submit, Then
  <1> QED
    BY <1>2, <1>3, EndsType, FaultType DEF BudgetOK

LEMMA DeleteType ==
    ASSUME Inv, NEW u \in Users, DeleteNetwork(u)
    PROVE  CommandsOK' /\ BudgetOK' /\ ServerOK'
  <1> USE DEF Inv
  <1>1. cmd[u].name \in Names
    BY DEF CommandsOK, Commands
  <1>2. Orphaned(cmd[u].name) \in [Keys -> Resources]
    BY ResourceType DEF Orphaned, ServerOK
  <1>3. ServerOK'
    BY <1>1, <1>2 DEF DeleteNetwork, ServerOK
  <1>4. \/ \E outcome \in {"ok", "failed"} : Ends(u, outcome) /\ (UNCHANGED faults \/ Fault)
        \/ Goto(u, "secrets") /\ UNCHANGED faults
    BY DEF DeleteNetwork, Then
  <1> QED
    BY <1>3, <1>4, EndsType, GotoType, FaultType DEF BudgetOK

LEMMA ListsType ==
    ASSUME Inv, NEW u \in Users, ListSecrets(u) \/ ListMaps(u)
    PROVE  CommandsOK' /\ BudgetOK'
  <1> USE DEF Inv
  <1>1. ASSUME NEW pc \in {"removeSecrets", "removeMaps"}, NEW keys \in SUBSET Keys,
               Lists(u, pc, keys)
        PROVE  CommandsOK' /\ UNCHANGED last
    <2> DEFINE c == [cmd[u] EXCEPT !.pc = pc, !.left = Labelled(cmd[u].name, keys)]
    <2>1. cmd[u] \in Commands /\ Labelled(cmd[u].name, keys) \in SUBSET Keys
      BY DEF CommandsOK, Labelled
    <2>2. c \in Commands
      BY <2>1 DEF Commands
    <2>3. Supplied(c)
      BY <2>1 DEF Supplied, FromFile, Commands
    <2>4. cmd' = [cmd EXCEPT ![u] = c] /\ UNCHANGED last
      BY <1>1 DEF Lists
    <2> HIDE DEF c
    <2> QED
      BY <2>2, <2>3, <2>4, CommandType
  <1> QED
    BY <1>1 DEF ListSecrets, ListMaps, Keys, BudgetOK

LEMMA RemoveType ==
    ASSUME Inv, NEW u \in Users, Remove(u)
    PROVE  CommandsOK' /\ BudgetOK' /\ ServerOK'
  <1> USE DEF Inv
  <1>1. cmd[u] \in Commands /\ cmd[u].left \in SUBSET Keys
    BY DEF CommandsOK, Commands
  <1>2. PICK k \in cmd[u].left :
           \/ /\ res' = [res EXCEPT ![k] = Absent]
              /\ Then(u, cmd' = [cmd EXCEPT ![u].left = @ \ {k}] /\ UNCHANGED last)
           \/ Ends(u, "failed") /\ UNCHANGED <<res, faults>>
    BY DEF Remove
  <1>3. ServerOK'
    BY <1>1, <1>2, ResourceType DEF Remove, ServerOK
  <1>4. CASE Ends(u, "failed") /\ (UNCHANGED faults \/ Fault)
    BY <1>3, <1>4, EndsType, FaultType DEF BudgetOK
  <1>5. CASE cmd' = [cmd EXCEPT ![u].left = @ \ {k}] /\ UNCHANGED <<last, faults>>
    <2> DEFINE c == [cmd[u] EXCEPT !.left = @ \ {k}]
    <2>1. c \in Commands
      BY <1>1 DEF Commands
    <2>2. Supplied(c)
      BY <1>1 DEF Supplied, FromFile, Commands, Remove, CommandsOK
    <2>3. cmd' = [cmd EXCEPT ![u] = c]
      BY <1>5
    <2> HIDE DEF c
    <2> QED
      BY <1>3, <1>5, <2>1, <2>2, <2>3, CommandType DEF BudgetOK
  <1> QED
    BY <1>2, <1>4, <1>5 DEF Then

\* The operator and the garbage collector leave commands alone.
LEMMA OperatorType == Inv /\ (Operator \/ \E k \in Keys : Collect(k)) => Inv'
  <1> SUFFICES ASSUME Inv, Operator \/ \E k \in Keys : Collect(k) PROVE Inv'
    OBVIOUS
  <1> USE DEF Inv
  <1>1. UNCHANGED <<cmd, last, commands, faults>>
    BY DEF Operator, OperatorStores, OperatorSaves, OperatorTakes, Collect
  <1>2. CommandsOK' /\ BudgetOK'
    BY <1>1 DEF CommandsOK, BudgetOK
  <1>3. calm' = calm \/ calm' = (calm /\ NobodyBusy)
    BY DEF Operator, OperatorStores, OperatorSaves, OperatorTakes, Collect
  <1>4. OthersOK'
    BY <1>1, <1>3 DEF OthersOK
  <1>5. UNCHANGED networks /\ current' \in SUBSET Users /\ hand' \in Names \union {None, Gone}
    BY DEF Operator, OperatorStores, OperatorSaves, OperatorTakes, Collect, ServerOK
  <1>6. res' \in [Keys -> Resources]
    BY ResourceType DEF Operator, OperatorStores, OperatorSaves, OperatorTakes, Collect, ServerOK
  <1> QED
    BY <1>2, <1>4, <1>5, <1>6 DEF ServerOK

LEMMA NextType == Inv /\ [Next]_vars => Inv'
  <1> SUFFICES ASSUME Inv, [Next]_vars PROVE Inv'
    OBVIOUS
  <1> USE DEF Inv
  <1>1. CASE UNCHANGED vars
    BY <1>1 DEF vars, CommandsOK, ServerOK, OthersOK, BudgetOK
  <1>2. ASSUME NEW u \in Users, Enter(u) \/ Retry(u) PROVE Inv'
    <2>1. CommandsOK' /\ OthersOK'
      BY <1>2, EnterType
    <2>2. ServerOK' /\ BudgetOK'
      BY <1>2 DEF Enter, Retry, ServerOK, BudgetOK
    <2> QED
      BY <2>1, <2>2
  <1>3. ASSUME NEW u \in Users, Step(u) PROVE Inv'
    <2>1. OthersOK'
      BY <1>3 DEF Step, List, Read, Validate, Look, Write, Submit, DeleteNetwork, ListSecrets,
                  ListMaps, Remove, Deleted, CallFails, OthersOK
    <2>2. CASE List(u) \/ Read(u) \/ Validate(u)
      <3>1. UNCHANGED <<networks, res, hand>>
        BY <2>2 DEF List, Read, Validate
      <3> QED
        BY <2>1, <2>2, <3>1, ListType DEF ServerOK
    <2>3. CASE Look(u)
      BY <2>1, <2>3, LookType DEF Look, ServerOK
    <2>4. CASE Write(u)
      BY <2>1, <2>4, WriteType DEF Write, ServerOK
    <2>5. CASE Submit(u)
      BY <2>1, <2>5, SubmitType
    <2>6. CASE DeleteNetwork(u)
      BY <2>1, <2>6, DeleteType
    <2>7. CASE ListSecrets(u) \/ ListMaps(u)
      BY <2>1, <2>7, ListsType DEF ListSecrets, ListMaps, ServerOK
    <2>8. CASE Remove(u)
      BY <2>1, <2>8, RemoveType
    <2>9. CASE Deleted(u) \/ CallFails(u)
      <3>1. PICK outcome \in {"ok", "failed"} : Ends(u, outcome)
        BY <2>9 DEF Deleted, CallFails
      <3>2. CommandsOK' /\ last' \in {"none", "ok", "failed"}
        BY <3>1, EndsType
      <3>3. faults' \in 0..MaxFaults
        BY <2>9, FaultType DEF Deleted, CallFails, BudgetOK
      <3>4. ServerOK'
        BY <2>9 DEF Deleted, CallFails, ServerOK
      <3> QED
        BY <2>1, <3>2, <3>3, <3>4 DEF BudgetOK
    <2> QED
      BY <1>3, <2>2, <2>3, <2>4, <2>5, <2>6, <2>7, <2>8, <2>9 DEF Step
  <1> QED
    BY <1>1, <1>2, <1>3, OperatorType DEF Next

\* The server's resources, commands and budgets have their types in every reachable
\* state, for every set of users, names, chaincodes and files.
THEOREM CliTypeCorrect == Spec => []CliOK
  <1> QED
    BY InitTyped, NextType, InvIsTyped, PTL DEF Spec

-----------------------------------------------------------------------------
\* Why create without --overwrite replaces nothing.  Its validation has seen that
\* the secrets are not there, which stays so as long as commands do not overlap;
\* of config maps it looks again, and the server refuses what was made since.
Alone == calm => \A u, v \in Users : ~Idle(u) /\ ~Idle(v) => u = v
HandEmpty == calm /\ ~NobodyBusy => hand = None

\* A create without the flag, on its way through its uploads.
Cautious(u) == cmd[u].kind = "create" /\ ~cmd[u].flag /\ cmd[u].pc \in {"look", "write"}
Once(todo) ==
    \A i, j \in DOMAIN todo : todo[i] \in Secrets /\ todo[i] = todo[j] => i = j
SecretsNew(u) ==
    /\ Once(cmd[u].todo)
    /\ calm => \A i \in DOMAIN cmd[u].todo : cmd[u].todo[i] \in Secrets => ~Present(cmd[u].todo[i])
    /\ calm /\ cmd[u].pc = "write" /\ Head(cmd[u].todo) \in Secrets => ~cmd[u].exists
MapsNew(u) == cmd[u].pc = "write" /\ Head(cmd[u].todo) \notin Secrets => ~cmd[u].exists
Keeps == \A u \in Users : Cautious(u) => SecretsNew(u) /\ MapsNew(u)
KeepInv == Inv /\ Alone /\ HandEmpty /\ Keeps

LEMMA OnceUploads == \A f \in Files : Once(Uploads(f))
  <1> SUFFICES ASSUME NEW f \in Files PROVE Once(Uploads(f))
    OBVIOUS
  <1>1. f.chaincodes \in Seq(ChaincodeNames)
    BY CliAssumption DEF FileType
  <1>2. \A i \in DOMAIN f.chaincodes : f.chaincodes[i] \notin Secrets
    BY <1>1, CliAssumption
  <1> DEFINE tail == IF f.folder THEN f.chaincodes ELSE <<>>
  <1>3. tail \in Seq(ChaincodeNames) /\ \A i \in DOMAIN tail : tail[i] \notin Secrets
    BY <1>1, <1>2
  <1>4. Uploads(f) = (IF f.configtx = "file" THEN <<"configtx">> ELSE <<>>)
                     \o (IF f.crypto = "folder" THEN <<"crypto">> ELSE <<>>) \o tail
    BY DEF Uploads
  <1> HIDE DEF tail
  <1>5. tail \in Seq(Parts)
    BY <1>3 DEF Parts
  <1>6. CASE f.configtx = "file" /\ f.crypto = "folder"
    <2>1. Uploads(f) = <<"configtx", "crypto">> \o tail
      BY <1>4, <1>6
    <2> QED
      BY <1>3, <2>1 DEF Once, Secrets
  <1>7. CASE f.configtx = "file" /\ f.crypto # "folder"
    <2>1. Uploads(f) = <<"configtx">> \o tail
      BY <1>4, <1>7, <1>3
    <2> QED
      BY <1>3, <2>1 DEF Once, Secrets
  <1>8. CASE f.configtx # "file" /\ f.crypto = "folder"
    <2>1. Uploads(f) = <<"crypto">> \o tail
      BY <1>4, <1>8, <1>3
    <2> QED
      BY <1>3, <2>1 DEF Once, Secrets
  <1>9. CASE f.configtx # "file" /\ f.crypto # "folder"
    <2>1. Uploads(f) = tail
      BY <1>4, <1>9, <1>3
    <2> QED
      BY <1>3, <2>1 DEF Once, Secrets
  <1> QED
    BY <1>6, <1>7, <1>8, <1>9

LEMMA SecretsOfUploads ==
    ASSUME NEW f \in Files, NEW i \in DOMAIN Uploads(f), Uploads(f)[i] \in Secrets
    PROVE  \/ Uploads(f)[i] = "configtx" /\ f.configtx = "file"
           \/ Uploads(f)[i] = "crypto" /\ f.crypto = "folder"
  <1>1. f.chaincodes \in Seq(ChaincodeNames)
    BY CliAssumption DEF FileType
  <1>2. \A j \in DOMAIN f.chaincodes : f.chaincodes[j] \notin Secrets
    BY <1>1, CliAssumption
  <1> DEFINE tail == IF f.folder THEN f.chaincodes ELSE <<>>
             a == IF f.configtx = "file" THEN <<"configtx">> ELSE <<>>
             b == IF f.crypto = "folder" THEN <<"crypto">> ELSE <<>>
  <1>3. tail \in Seq(ChaincodeNames) /\ \A j \in DOMAIN tail : tail[j] \notin Secrets
    BY <1>1, <1>2
  <1>4. tail \in Seq(Parts)
    BY <1>3 DEF Parts
  <1>5. a \in Seq(Parts) /\ b \in Seq(Parts)
    <2>1. "configtx" \in Parts /\ "crypto" \in Parts
      BY DEF Parts, Secrets
    <2>2. <<>> \in Seq(Parts) /\ <<"configtx">> \in Seq(Parts) /\ <<"crypto">> \in Seq(Parts)
      BY <2>1
    <2> QED
      BY <2>2
  <1>6. Uploads(f) = a \o b \o tail
    BY DEF Uploads
  <1>7. \/ \E j \in DOMAIN a : Uploads(f)[i] = a[j]
        \/ \E j \in DOMAIN b : Uploads(f)[i] = b[j]
        \/ \E j \in DOMAIN tail : Uploads(f)[i] = tail[j]
    <2> HIDE DEF a, b, tail
    <2> QED
      BY <1>4, <1>5, <1>6
  <1>8. ASSUME NEW j \in DOMAIN a, Uploads(f)[i] = a[j]
        PROVE  Uploads(f)[i] = "configtx" /\ f.configtx = "file"
    BY <1>8
  <1>9. ASSUME NEW j \in DOMAIN b, Uploads(f)[i] = b[j]
        PROVE  Uploads(f)[i] = "crypto" /\ f.crypto = "folder"
    BY <1>9
  <1> QED
    BY <1>3, <1>7, <1>8, <1>9

\* A step of one command leaves the others alone.
LEMMA StepFrame ==
    ASSUME Inv, NEW u \in Users, Step(u)
    PROVE  /\ ~Idle(u) /\ calm' = calm
           /\ \A v \in Users \ {u} : cmd'[v] = cmd[v]
           /\ hand = None => hand' = None
  <1>1. cmd \in [Users -> Commands]
    BY DEF Inv, CommandsOK
  <1>2. ~Idle(u) /\ calm' = calm
    BY DEF Step, List, Read, Validate, Look, Write, Submit, DeleteNetwork, ListSecrets,
           ListMaps, Remove, Deleted, CallFails, Idle
  <1>3. cmd[u].name # None
    <2>1. cmd[u].name \in Names
      BY <1>1 DEF Commands
    <2> QED
      BY <2>1, CliAssumption
  <1>4. hand = None => hand' = None
    BY <1>3 DEF Step, List, Read, Validate, Look, Write, Submit, DeleteNetwork, ListSecrets,
           ListMaps, Remove, Deleted, CallFails
  <1>5. ASSUME NEW v \in Users \ {u} PROVE cmd'[v] = cmd[v]
    BY <1>1 DEF Step, List, Read, Validate, Look, Write, Submit, DeleteNetwork, ListSecrets,
           ListMaps, Remove, Deleted, CallFails, Ends, Goto, Lists, Then
  <1> QED
    BY <1>2, <1>4, <1>5

LEMMA EnterFrame ==
    ASSUME Inv, NEW u \in Users, Enter(u) \/ Retry(u)
    PROVE  /\ calm' => calm /\ NobodyBusy /\ hand = None
           /\ \A v \in Users \ {u} : cmd'[v] = cmd[v]
           /\ Idle(u) /\ cmd'[u].pc \in {"list", "read", "delete"}
           /\ UNCHANGED <<res, hand>>
  <1>1. cmd \in [Users -> Commands]
    BY DEF Inv, CommandsOK
  <1>2. UNCHANGED <<res, hand>>
    BY DEF Enter, Retry
  <1>3. calm' => calm /\ NobodyBusy /\ hand = None
    BY DEF Enter, Retry, Disturbs
  <1>4. ASSUME NEW kind, NEW pc, NEW name, NEW file, NEW flag, Starts(u, kind, pc, name, file, flag)
        PROVE  /\ \A v \in Users \ {u} : cmd'[v] = cmd[v]
               /\ Idle(u) /\ cmd'[u].pc = pc
    BY <1>1, <1>4, NoCommandType DEF Starts, NoCommand
  <1>5. (\A v \in Users \ {u} : cmd'[v] = cmd[v]) /\ Idle(u)
        /\ cmd'[u].pc \in {"list", "read", "delete"}
    BY <1>4 DEF Enter, Retry
  <1> QED
    BY <1>2, <1>3, <1>5

LEMMA OperatorFrame ==
    ASSUME KeepInv, Operator \/ \E k \in Keys : Collect(k)
    PROVE  /\ UNCHANGED cmd
           /\ calm' => calm
           /\ calm' /\ ~NobodyBusy => hand' = None
           /\ calm' /\ ~NobodyBusy => \A k \in Keys : Present(k)' => Present(k)
  <1> USE DEF KeepInv, Inv
  <1>0. UNCHANGED cmd /\ (calm' = calm \/ calm' = (calm /\ NobodyBusy))
    BY DEF Operator, OperatorStores, OperatorSaves, OperatorTakes, Collect
  <1>1. UNCHANGED cmd /\ (calm' => calm)
    BY <1>0 DEF OthersOK
  <1>2. ASSUME calm', ~NobodyBusy PROVE hand' = None /\ \A k \in Keys : Present(k)' => Present(k)
    <2>1. hand = None
      BY <1>1, <1>2 DEF HandEmpty
    <2>2. CASE Operator
      BY <1>2, <2>1, <2>2 DEF Operator, OperatorStores, OperatorSaves, OperatorTakes, Present
    <2>3. ASSUME NEW k \in Keys, Collect(k)
          PROVE  hand' = None /\ \A l \in Keys : Present(l)' => Present(l)
      BY <2>1, <2>3 DEF Collect, Present, ServerOK
    <2> QED
      BY <2>2, <2>3
  <1> QED
    BY <1>1, <1>2

LEMMA AloneStep == KeepInv /\ [Next]_vars => Alone' /\ HandEmpty'
  <1> SUFFICES ASSUME KeepInv, [Next]_vars PROVE Alone' /\ HandEmpty'
    OBVIOUS
  <1> USE DEF KeepInv
  <1>1. CASE UNCHANGED vars
    BY <1>1 DEF vars, Alone, HandEmpty, Idle, NobodyBusy
  <1>2. ASSUME NEW u \in Users, Enter(u) \/ Retry(u) PROVE Alone' /\ HandEmpty'
    BY <1>2, EnterFrame DEF Alone, HandEmpty, Idle, NobodyBusy
  <1>3. ASSUME NEW u \in Users, Step(u) PROVE Alone' /\ HandEmpty'
    BY <1>3, StepFrame DEF Alone, HandEmpty, Idle, NobodyBusy
  <1>4. CASE Operator \/ \E k \in Keys : Collect(k)
    BY <1>4, OperatorFrame DEF Alone, HandEmpty, Idle, NobodyBusy
  <1> QED
    BY <1>1, <1>2, <1>3, <1>4 DEF Next

\* An upload that is not its turn any more leaves the secrets still to come as they are.
LEMMA WriteKeeps ==
    ASSUME KeepInv, NEW u \in Users, Write(u), Cautious(u)'
    PROVE  SecretsNew(u)' /\ MapsNew(u)'
  <1> USE DEF KeepInv, Inv
  <1> DEFINE todo == cmd[u].todo
  <1>1. cmd[u] \in Commands /\ cmd[u].pc = "write" /\ todo \in Seq(Parts) /\ todo # <<>>
    BY DEF CommandsOK, Commands, Supplied, Write
  <1>2. cmd' = [cmd EXCEPT ![u].pc = "look", ![u].todo = Tail(@)]
    BY DEF Write, Then, Ends, Cautious, CommandsOK, NoCommand
  <1>3. cmd'[u].pc = "look" /\ cmd'[u].todo = Tail(todo) /\ calm' = calm
    BY <1>1, <1>2 DEF CommandsOK, Commands, Write
  <1>4. Cautious(u)
    BY <1>1, <1>2 DEF Cautious, CommandsOK, Commands
  <1>5. SecretsNew(u)
    BY <1>4 DEF Keeps
  <1> HIDE DEF todo
  <1>6. /\ DOMAIN Tail(todo) = 1 .. (Len(todo) - 1)
        /\ \A i \in DOMAIN Tail(todo) : i + 1 \in DOMAIN todo /\ Tail(todo)[i] = todo[i + 1]
    BY <1>1
  <1>7. Once(todo)
    BY <1>5 DEF SecretsNew, todo
  <1>8. Once(Tail(todo))
    BY <1>6, <1>7 DEF Once
  <1>9. ASSUME calm, NEW i \in DOMAIN Tail(todo), Tail(todo)[i] \in Secrets
        PROVE  res'[Tail(todo)[i]] = Absent
    <2>1. i + 1 \in DOMAIN todo /\ Tail(todo)[i] = todo[i + 1] /\ i + 1 # 1
      BY <1>6
    <2>2. ~Present(todo[i + 1])
      BY <1>5, <1>9, <2>1 DEF SecretsNew, todo
    <2>3. Head(todo) = todo[1] /\ 1 \in DOMAIN todo
      BY <1>1
    <2>4. Head(todo) # todo[i + 1]
      BY <1>7, <1>9, <2>1, <2>3 DEF Once
    <2>5. Key(Head(todo)) # todo[i + 1]
      <3>1. Head(todo) \in Parts
        BY <1>1
      <3>2. CASE Head(todo) \in Secrets
        BY <2>4, <3>2 DEF Key
      <3>3. CASE Head(todo) \notin Secrets
        BY <1>9, <2>1, <3>1, <3>3, CliAssumption DEF Key, Maps, Parts
      <3> QED
        BY <3>2, <3>3
    <2>6. todo[i + 1] \in Keys
      BY <1>9, <2>1 DEF Keys
    <2>7. res'[todo[i + 1]] = res[todo[i + 1]]
      BY <2>5, <2>6 DEF Write, Replaced, ServerOK, todo
    <2> QED
      BY <2>1, <2>2, <2>7 DEF Present
  <1> QED
    BY <1>3, <1>8, <1>9 DEF SecretsNew, MapsNew, Present

LEMMA LookKeeps ==
    ASSUME KeepInv, NEW u \in Users, Look(u), Cautious(u)'
    PROVE  SecretsNew(u)' /\ MapsNew(u)'
  <1> USE DEF KeepInv, Inv
  <1> DEFINE part == Head(cmd[u].todo)
  <1>1. cmd[u] \in Commands /\ cmd[u].pc = "look"
    BY DEF CommandsOK, Look
  <1>2. /\ cmd[u].todo # <<>> /\ ~Refuses(u, part)
        /\ cmd' = [cmd EXCEPT ![u].pc = "write", ![u].exists = Exists(part)]
    <2>1. ~Ends(u, "failed")
      BY NoCommandType DEF Ends, Cautious, CommandsOK
    <2>2. ~Goto(u, "submit")
      BY DEF Goto, Cautious, CommandsOK, Commands
    <2> QED
      BY <2>1, <2>2 DEF Look
  <1>3. /\ cmd'[u].pc = "write" /\ cmd'[u].todo = cmd[u].todo /\ cmd'[u].exists = Exists(part)
        /\ UNCHANGED <<calm, res>>
    BY <1>1, <1>2 DEF CommandsOK, Commands, Look
  <1>4. Cautious(u)
    BY <1>1, <1>2 DEF Cautious, CommandsOK, Commands
  <1>5. SecretsNew(u)
    BY <1>4 DEF Keeps
  <1>6. part \in Parts /\ part = cmd[u].todo[1] /\ 1 \in DOMAIN cmd[u].todo
    BY <1>1, <1>2 DEF Commands
  <1> HIDE DEF part
  <1>7. ASSUME calm, part \in Secrets PROVE ~Exists(part)
    BY <1>5, <1>6, <1>7 DEF SecretsNew, Exists, Key
  <1>8. ASSUME part \notin Secrets PROVE ~Exists(part)
    BY <1>2, <1>4, <1>8 DEF Refuses, Exists, Cautious
  <1>9. SecretsNew(u)'
    BY <1>3, <1>5, <1>7 DEF SecretsNew, Present, part
  <1>10. MapsNew(u)'
    BY <1>3, <1>8 DEF MapsNew, part
  <1> QED
    BY <1>9, <1>10

LEMMA ValidateKeeps ==
    ASSUME KeepInv, NEW u \in Users, Validate(u), Cautious(u)'
    PROVE  SecretsNew(u)' /\ MapsNew(u)'
  <1> USE DEF KeepInv, Inv
  <1> DEFINE file == cmd[u].file
  <1>1. cmd[u] \in Commands /\ cmd[u].pc = "validate" /\ file \in Files
    BY DEF CommandsOK, Supplied, FromFile, Validate
  <1>2. /\ Valid(file, cmd[u].flag)
        /\ cmd' = [cmd EXCEPT ![u].pc = "look", ![u].todo = Uploads(file)]
    BY DEF Validate, Ends, Cautious, CommandsOK, NoCommand
  <1>3. cmd'[u].pc = "look" /\ cmd'[u].todo = Uploads(file) /\ UNCHANGED res /\ ~cmd[u].flag
    BY <1>1, <1>2 DEF CommandsOK, Commands, Validate, Cautious
  <1> HIDE DEF file
  <1>4. ASSUME NEW i \in DOMAIN Uploads(file), Uploads(file)[i] \in Secrets
        PROVE  ~Present(Uploads(file)[i])
    BY <1>1, <1>2, <1>3, <1>4, SecretsOfUploads DEF Valid, ValidNew
  <1> QED
    BY <1>1, <1>3, <1>4, OnceUploads DEF SecretsNew, MapsNew, Present

\* A cautious create whose user does nothing meanwhile.
LEMMA OthersKeep ==
    ASSUME Keeps, NEW v \in Users, Cautious(v)', cmd'[v] = cmd[v], calm' => calm,
           calm' => \A k \in Keys : Present(k)' => Present(k)
    PROVE  SecretsNew(v)' /\ MapsNew(v)'
  <1>1. SecretsNew(v) /\ MapsNew(v)
    BY DEF Keeps, Cautious
  <1>2. Secrets \subseteq Keys
    BY DEF Keys
  <1> QED
    BY <1>1, <1>2 DEF SecretsNew, MapsNew

LEMMA KeepsStep == KeepInv /\ [Next]_vars => Keeps'
  <1> SUFFICES ASSUME KeepInv, [Next]_vars, NEW v \in Users, Cautious(v)'
               PROVE  SecretsNew(v)' /\ MapsNew(v)'
    BY DEF Keeps
  <1> USE DEF KeepInv
  <1>1. cmd'[v] = cmd[v] => ~Idle(v) /\ ~NobodyBusy
    BY DEF Cautious, Idle, NobodyBusy
  <1>2. CASE UNCHANGED vars
    BY <1>2, OthersKeep DEF vars, Present
  <1>3. ASSUME NEW u \in Users, Enter(u) \/ Retry(u) PROVE SecretsNew(v)' /\ MapsNew(v)'
    <2>1. v # u
      BY <1>3, EnterFrame DEF Cautious
    <2>2. cmd'[v] = cmd[v] /\ (calm' => NobodyBusy)
      BY <1>3, <2>1, EnterFrame
    <2> QED
      BY <1>1, <2>2, OthersKeep
  <1>4. ASSUME NEW u \in Users, Step(u), u # v PROVE SecretsNew(v)' /\ MapsNew(v)'
    <2>1. cmd'[v] = cmd[v] /\ ~Idle(u) /\ calm' = calm
      BY <1>4, StepFrame
    <2>2. ~calm'
      BY <1>1, <1>4, <2>1 DEF Alone
    <2> QED
      BY <2>1, <2>2, OthersKeep
  <1>5. CASE Step(v)
    <2>1. cmd \in [Users -> Commands]
      BY DEF Inv, CommandsOK
    <2>2. ASSUME List(v) \/ Read(v) \/ Submit(v) \/ DeleteNetwork(v) \/ ListSecrets(v)
                 \/ ListMaps(v) \/ Remove(v) \/ Deleted(v) \/ CallFails(v)
          PROVE  FALSE
      <3>1. NoCommand.pc = "idle"
        BY NoCommandType
      <3>2. CASE List(v) \/ Read(v) \/ Submit(v)
        BY <2>1, <3>1, <3>2 DEF List, Read, Submit, Then, Ends, Goto, Cautious, Commands
      <3>3. CASE DeleteNetwork(v) \/ ListSecrets(v) \/ ListMaps(v)
        BY <2>1, <3>1, <3>3 DEF DeleteNetwork, ListSecrets, ListMaps, Lists, Then, Ends, Goto,
                                Cautious, Commands
      <3>4. CASE Remove(v) \/ Deleted(v) \/ CallFails(v)
        BY <2>1, <3>1, <3>4 DEF Remove, Deleted, CallFails, Then, Ends, Cautious, Commands
      <3> QED
        BY <2>2, <3>2, <3>3, <3>4
    <2> QED
      BY <1>5, <2>2, ValidateKeeps, LookKeeps, WriteKeeps DEF Step
  <1>6. CASE Operator \/ \E k \in Keys : Collect(k)
    <2>1. cmd'[v] = cmd[v] /\ (calm' => calm)
      BY <1>6, OperatorFrame
    <2>2. calm' => \A k \in Keys : Present(k)' => Present(k)
      BY <1>1, <1>6, <2>1, OperatorFrame
    <2> QED
      BY <2>1, <2>2, OthersKeep
  <1> QED
    BY <1>2, <1>3, <1>4, <1>5, <1>6 DEF Next

LEMMA KeepInit == Init => KeepInv
  <1>1. Init => \A u \in Users : cmd[u].pc = "idle"
    BY NoCommandType DEF Init
  <1> QED
    BY <1>1, InitTyped DEF KeepInv, Alone, HandEmpty, Keeps, Cautious, Idle, NobodyBusy

\* What a step may replace.
LEMMA KeepAction ==
    ASSUME KeepInv, [Next]_vars, NEW u \in Users, NEW k \in Keys, Replaces(u, k),
           cmd[u].kind = "create", ~cmd[u].flag
    PROVE  k \in Secrets /\ ~calm
  <1> USE DEF KeepInv, Inv
  <1>1. cmd[u].pc = "write" /\ cmd'[u] # cmd[u] /\ Present(k) /\ res'[k] # res[k]
    BY DEF Replaces
  <1>2. Step(u)
    <2>1. ASSUME NEW w \in Users, Enter(w) \/ Retry(w) PROVE FALSE
      <3>1. w # u
        BY <1>1, <2>1, EnterFrame DEF Idle
      <3> QED
        BY <1>1, <2>1, <3>1, EnterFrame
    <2>2. ASSUME NEW w \in Users, Step(w), w # u PROVE FALSE
      BY <1>1, <2>2, StepFrame
    <2>3. ~(Operator \/ \E l \in Keys : Collect(l))
      BY <1>1, OperatorFrame
    <2>4. ~UNCHANGED vars
      BY <1>1 DEF vars
    <2> QED
      BY <2>1, <2>2, <2>3, <2>4 DEF Next
  <1>3. Write(u)
    BY <1>1, <1>2 DEF Step, List, Read, Validate, Look, Submit, DeleteNetwork, ListSecrets,
                      ListMaps, Remove, Deleted, CallFails
  <1> DEFINE part == Head(cmd[u].todo)
  <1>4. cmd[u] \in Commands /\ cmd[u].todo \in Seq(Parts) /\ cmd[u].todo # <<>>
    BY <1>1 DEF CommandsOK, Supplied, Commands
  <1>5. part \in Parts
    BY <1>4
  <1>6. k = Key(part) /\ Present(Key(part)) = cmd[u].exists
    BY <1>1, <1>3 DEF Write, Replaced, ServerOK
  <1>7. SecretsNew(u) /\ MapsNew(u)
    BY <1>1 DEF Keeps, Cautious
  <1> HIDE DEF part
  <1>8. part \in Secrets
    BY <1>1, <1>6, <1>7 DEF MapsNew, part
  <1>9. ~calm
    BY <1>1, <1>6, <1>7, <1>8 DEF SecretsNew, part
  <1> QED
    BY <1>6, <1>8, <1>9 DEF Key

\* Without --overwrite, create replaces no config map and, while commands do not
\* overlap, no secret: for every set of users and files, faults and lost answers.
THEOREM KeepsExistingAlways == Spec => KeepsExisting
  <1>1. KeepInv /\ [Next]_vars => KeepInv'
    BY NextType, AloneStep, KeepsStep DEF KeepInv
  <1>2. KeepInv /\ [Next]_vars =>
          [\A u \in Users, k \in Keys :
            Replaces(u, k) /\ cmd[u].kind = "create" /\ ~cmd[u].flag => k \in Secrets /\ ~calm]_vars
    BY KeepAction
  <1> QED
    BY <1>1, <1>2, KeepInit, PTL DEF Spec, KeepsExisting

-----------------------------------------------------------------------------
\* What a command leaves in the cluster, while commands do not overlap.

\* What nobody is about to collect, and what a command has still to upload.
Safe(k) == Present(k) /\ res[k].owner # Gone
Pending(u, k) == \E i \in DOMAIN cmd[u].todo : Key(cmd[u].todo[i]) = k

\* The server: one network at most, and it has what it refers to.  Certificates in
\* the operator's hand are for it, and it has no others.
AtMostOne == \A m, n \in Names : networks[m] # NoFile /\ networks[n] # NoFile => m = n
Supported == \A n \in Names : networks[n] # NoFile => \A k \in Needs(networks[n]) : Safe(k)
HandLive == hand # None => hand \in Names /\ networks[hand] # NoFile /\ networks[hand].crypto = ""
Server == AtMostOne /\ Supported /\ HandLive

\* A command: until it has validated, what it finds is not garbage, or it relies on
\* nothing it finds.  Then whatever its network refers to is there or comes.
Starting(u) == Garbage = {} \/ SelfContained(cmd[u].file)
OnlyOwn(u) == \A n \in Names : networks[n] # NoFile => n = cmd[u].name
Fresh(u, k) == res[k].edition = cmd[u].file.edition \/ Pending(u, k)
Supplies(u) ==
    /\ \A k \in Needs(cmd[u].file) : Safe(k) \/ Pending(u, k)
    /\ \A i \in DOMAIN Uploads(cmd[u].file) : Fresh(u, Key(Uploads(cmd[u].file)[i]))

\* delete: once the network is gone nothing is owned by it, and what is labelled with
\* its name is on the list of what to remove.
Removes(u, keys) == \A k \in keys : res[k].label = cmd[u].name => k \in cmd[u].left
Disowned(u) == NoNetwork /\ \A k \in Keys : res[k].owner # cmd[u].name

OnItsWay(u) ==
    /\ cmd[u].pc \in {"list", "read", "validate"} => Starting(u)
    /\ cmd[u].pc \in {"validate", "look", "write", "submit"} => OnlyOwn(u)
    /\ cmd[u].pc \in {"look", "write", "submit"} => Supplies(u)
    /\ cmd[u].pc = "submit" => cmd[u].todo = <<>>
    /\ cmd[u].pc \in {"secrets", "removeSecrets", "removeMaps"} => Disowned(u)
    /\ cmd[u].pc = "removeSecrets" => Removes(u, Secrets)
    /\ cmd[u].pc = "removeMaps" =>
          Removes(u, Maps) /\ \A k \in Secrets : res[k].label # cmd[u].name

\* What users upload is labelled, whoever disturbs whom.
Marked == \A k \in Keys : Present(k) /\ res[k].edition # 0 => res[k].label # None
Undisturbed == calm => Server /\ \A u \in Users : OnItsWay(u)
SafeInv == KeepInv /\ Marked /\ Undisturbed /\ Coherent

-----------------------------------------------------------------------------
\* What a file uploads and needs.
LEMMA ChaincodesOf ==
    ASSUME NEW f \in Files
    PROVE  /\ f.chaincodes \in Seq(Parts)
           /\ \A j \in DOMAIN f.chaincodes : f.chaincodes[j] \in ChaincodeNames
  <1>1. f.chaincodes \in Seq(ChaincodeNames)
    BY CliAssumption DEF FileType
  <1>2. \A j \in DOMAIN f.chaincodes : f.chaincodes[j] \in ChaincodeNames
    BY <1>1
  <1>3. f.chaincodes \in Seq(Parts)
    BY <1>1 DEF Parts
  <1> QED
    BY <1>2, <1>3

LEMMA UploadsAre ==
    ASSUME NEW f \in Files
    PROVE  /\ \A i \in DOMAIN Uploads(f) :
                \/ Uploads(f)[i] = "configtx" /\ f.configtx = "file"
                \/ Uploads(f)[i] = "crypto" /\ f.crypto = "folder"
                \/ f.folder /\ \E j \in DOMAIN f.chaincodes : Uploads(f)[i] = f.chaincodes[j]
           /\ f.configtx = "file" => \E i \in DOMAIN Uploads(f) : Uploads(f)[i] = "configtx"
           /\ f.crypto = "folder" => \E i \in DOMAIN Uploads(f) : Uploads(f)[i] = "crypto"
           /\ f.folder => \A j \in DOMAIN f.chaincodes :
                             \E i \in DOMAIN Uploads(f) : Uploads(f)[i] = f.chaincodes[j]
  <1> DEFINE tail == IF f.folder THEN f.chaincodes ELSE <<>>
             a == IF f.configtx = "file" THEN <<"configtx">> ELSE <<>>
             b == IF f.crypto = "folder" THEN <<"crypto">> ELSE <<>>
  <1>1. f.chaincodes \in Seq(Parts)
    BY ChaincodesOf
  <1>2. a \in Seq(Parts) /\ b \in Seq(Parts) /\ tail \in Seq(Parts)
    <2>1. "configtx" \in Parts /\ "crypto" \in Parts
      BY DEF Parts, Secrets
    <2>2. <<>> \in Seq(Parts) /\ <<"configtx">> \in Seq(Parts) /\ <<"crypto">> \in Seq(Parts)
      BY <2>1
    <2> QED
      BY <1>1, <2>2
  <1>3. Uploads(f) = a \o b \o tail
    BY DEF Uploads
  <1>4. /\ \A i \in DOMAIN Uploads(f) :
             \/ \E j \in DOMAIN a : Uploads(f)[i] = a[j]
             \/ \E j \in DOMAIN b : Uploads(f)[i] = b[j]
             \/ \E j \in DOMAIN tail : Uploads(f)[i] = tail[j]
        /\ \A j \in DOMAIN a : \E i \in DOMAIN Uploads(f) : Uploads(f)[i] = a[j]
        /\ \A j \in DOMAIN b : \E i \in DOMAIN Uploads(f) : Uploads(f)[i] = b[j]
        /\ \A j \in DOMAIN tail : \E i \in DOMAIN Uploads(f) : Uploads(f)[i] = tail[j]
    <2> HIDE DEF a, b, tail
    <2> DEFINE s == a \o b \o tail
    <2>1. /\ \A i \in DOMAIN s :
               \/ \E j \in DOMAIN a : s[i] = a[j]
               \/ \E j \in DOMAIN b : s[i] = b[j]
               \/ \E j \in DOMAIN tail : s[i] = tail[j]
      BY <1>2
    <2>2. \A j \in DOMAIN a : j \in DOMAIN s /\ s[j] = a[j]
      BY <1>2
    <2>3. \A j \in DOMAIN b : Len(a) + j \in DOMAIN s /\ s[Len(a) + j] = b[j]
      BY <1>2
    <2>4. \A j \in DOMAIN tail :
             Len(a) + Len(b) + j \in DOMAIN s /\ s[Len(a) + Len(b) + j] = tail[j]
      BY <1>2
    <2> HIDE DEF s
    <2>5. Uploads(f) = s
      BY <1>3 DEF s
    <2> QED
      BY <2>1, <2>2, <2>3, <2>4, <2>5
  <1>5. \A j \in DOMAIN a : a[j] = "configtx" /\ f.configtx = "file"
    OBVIOUS
  <1>6. \A j \in DOMAIN b : b[j] = "crypto" /\ f.crypto = "folder"
    OBVIOUS
  <1>7. \A j \in DOMAIN tail : f.folder /\ j \in DOMAIN f.chaincodes /\ tail[j] = f.chaincodes[j]
    OBVIOUS
  <1>8. f.configtx = "file" => 1 \in DOMAIN a /\ a[1] = "configtx"
    OBVIOUS
  <1>9. f.crypto = "folder" => 1 \in DOMAIN b /\ b[1] = "crypto"
    OBVIOUS
  <1>10. f.folder => DOMAIN tail = DOMAIN f.chaincodes
                     /\ \A j \in DOMAIN f.chaincodes : tail[j] = f.chaincodes[j]
    OBVIOUS
  <1> HIDE DEF a, b, tail
  <1>11. \A i \in DOMAIN Uploads(f) :
            \/ Uploads(f)[i] = "configtx" /\ f.configtx = "file"
            \/ Uploads(f)[i] = "crypto" /\ f.crypto = "folder"
            \/ f.folder /\ \E j \in DOMAIN f.chaincodes : Uploads(f)[i] = f.chaincodes[j]
    BY <1>4, <1>5, <1>6, <1>7
  <1>12. f.configtx = "file" => \E i \in DOMAIN Uploads(f) : Uploads(f)[i] = "configtx"
    BY <1>4, <1>8
  <1>13. f.crypto = "folder" => \E i \in DOMAIN Uploads(f) : Uploads(f)[i] = "crypto"
    BY <1>4, <1>9
  <1>14. f.folder => \A j \in DOMAIN f.chaincodes :
                        \E i \in DOMAIN Uploads(f) : Uploads(f)[i] = f.chaincodes[j]
    BY <1>4, <1>10
  <1> QED
    BY <1>11, <1>12, <1>13, <1>14

LEMMA KeysOf ==
    /\ Key("configtx") = "configtx" /\ Key("crypto") = "crypto"
    /\ \A c \in ChaincodeNames : Key(c) = LowerCase[c] /\ Key(c) \in Maps
    /\ "configtx" \in Secrets /\ "crypto" \in Secrets /\ "genesis" \in Secrets
    /\ Secrets \subseteq Keys /\ Maps \subseteq Keys
    /\ Maps \intersect Secrets = {}
  BY CliAssumption DEF Key, Maps, Secrets, Keys

LEMMA NeedsAre ==
    ASSUME NEW f \in Files
    PROVE  /\ Needs(f) \subseteq Keys
           /\ \A i \in DOMAIN Uploads(f) : Key(Uploads(f)[i]) \in Needs(f)
           /\ f.crypto = "" => \A i \in DOMAIN Uploads(f) : Key(Uploads(f)[i]) # "crypto"
  <1>1. \A j \in DOMAIN f.chaincodes : f.chaincodes[j] \in ChaincodeNames
    BY ChaincodesOf
  <1>2. Needs(f) \subseteq Keys
    BY <1>1, KeysOf DEF Needs
  <1>3. ASSUME NEW i \in DOMAIN Uploads(f)
        PROVE  /\ Key(Uploads(f)[i]) \in Needs(f)
               /\ f.crypto = "" => Key(Uploads(f)[i]) # "crypto"
    <2>1. CASE Uploads(f)[i] = "configtx"
      BY <2>1, KeysOf DEF Needs
    <2>2. CASE Uploads(f)[i] = "crypto" /\ f.crypto = "folder"
      BY <2>2, KeysOf DEF Needs
    <2>3. ASSUME NEW j \in DOMAIN f.chaincodes, Uploads(f)[i] = f.chaincodes[j]
          PROVE  /\ Key(Uploads(f)[i]) \in Needs(f)
                 /\ f.crypto = "" => Key(Uploads(f)[i]) # "crypto"
      <3>1. Key(Uploads(f)[i]) = LowerCase[f.chaincodes[j]] /\ Key(Uploads(f)[i]) \in Maps
        BY <1>1, <2>3, KeysOf
      <3> QED
        BY <3>1, KeysOf DEF Needs
    <2> QED
      BY <2>1, <2>2, <2>3, UploadsAre
  <1> QED
    BY <1>2, <1>3

\* What validation ascertains of a network: all it needs is there, or is uploaded.
LEMMA Validated ==
    ASSUME NEW f \in Files, NEW flag \in BOOLEAN, Valid(f, flag), NEW k \in Needs(f)
    PROVE  \/ \E i \in DOMAIN Uploads(f) : Key(Uploads(f)[i]) = k
           \/ Present(k) /\ ~SelfContained(f)
  <1>1. \A j \in DOMAIN f.chaincodes : f.chaincodes[j] \in ChaincodeNames
    BY ChaincodesOf
  <1>2. f.configtx \in {"file", "secret"} /\ f.crypto \in {"", "folder", "secret"}
        /\ f.folder \in BOOLEAN
    BY CliAssumption DEF FileType
  <1>3. CASE k = "configtx"
    BY <1>2, <1>3, UploadsAre, KeysOf DEF Valid, SelfContained
  <1>4. CASE k = "crypto" /\ f.crypto # ""
    BY <1>2, <1>4, UploadsAre, KeysOf DEF Valid, ValidParts, SelfContained
  <1>5. ASSUME NEW j \in DOMAIN f.chaincodes, k = LowerCase[f.chaincodes[j]]
        PROVE  \/ \E i \in DOMAIN Uploads(f) : Key(Uploads(f)[i]) = k
               \/ Present(k) /\ ~SelfContained(f)
    <2>1. CASE f.folder
      BY <1>1, <1>5, <2>1, UploadsAre, KeysOf
    <2>2. CASE ~f.folder
      <3>1. Present(k)
        BY <1>5, <2>2 DEF Valid, ValidParts, Found
      <3>2. f.chaincodes # <<>>
        BY <1>5
      <3> QED
        BY <2>2, <3>1, <3>2 DEF SelfContained
    <2> QED
      BY <2>1, <2>2
  <1>6. CASE k = "genesis" /\ f.genesis
    BY <1>6 DEF Valid, ValidParts, SelfContained
  <1> QED
    BY <1>3, <1>4, <1>5, <1>6 DEF Needs

-----------------------------------------------------------------------------
\* How the parts of the invariant survive a step.
LEMMA SupportedKept ==
    ASSUME Inv, Supported, UNCHANGED networks, \A k \in Keys : Safe(k) => Safe(k)'
    PROVE  Supported'
  <1>1. \A n \in Names : networks[n] # NoFile => Needs(networks[n]) \subseteq Keys
    BY NeedsAre DEF Inv, ServerOK
  <1> QED
    BY <1>1 DEF Supported

\* While nobody disturbs anybody, a step of a command finds the others idle.
LEMMA OnlyOne ==
    ASSUME SafeInv, calm, NEW u \in Users, Step(u), NEW v \in Users \ {u}
    PROVE  Idle(v)'
  BY StepFrame DEF SafeInv, KeepInv, Alone, Idle

LEMMA IdleOnItsWay == ASSUME NEW u \in Users, Idle(u)' PROVE OnItsWay(u)'
  BY DEF Idle, OnItsWay

LEMMA EndsIdle ==
    ASSUME Inv, NEW u \in Users, NEW outcome, Ends(u, outcome) PROVE Idle(u)' /\ last' = outcome
  BY NoCommandType DEF Inv, CommandsOK, Ends, Idle

\* A command that goes on in the same server, which stays as it is.
LEMMA QuietServer ==
    ASSUME SafeInv, UNCHANGED <<networks, res, hand>>, calm' => calm
    PROVE  Marked' /\ (calm' => Server')
  BY DEF SafeInv, Undisturbed, Marked, Server, AtMostOne, Supported, HandLive, Safe, Present

-----------------------------------------------------------------------------
\* Commands up to their validation.
LEMMA StartsOnItsWay ==
    ASSUME SafeInv, NEW u \in Users, Enter(u) \/ Retry(u), calm'
    PROVE  OnItsWay(u)'
  <1>1. cmd \in [Users -> Commands] /\ UNCHANGED res
    BY DEF SafeInv, KeepInv, Inv, CommandsOK, Enter, Retry
  <1>2. ASSUME NEW f \in Files, NEW kind, NEW pc \in {"list", "read"}, NEW flag,
               Starts(u, kind, pc, f.name, f, flag), calm' = (calm /\ ~Disturbs(f))
        PROVE  OnItsWay(u)'
    <2>1. cmd'[u].pc = pc /\ cmd'[u].file = f
      BY <1>1, <1>2 DEF Starts, NoCommand
    <2>2. Garbage = {} \/ SelfContained(f)
      BY <1>2 DEF Disturbs
    <2>3. Starting(u)'
      BY <1>1, <2>1, <2>2 DEF Starting, Garbage
    <2> QED
      BY <2>1, <2>3 DEF OnItsWay
  <1>3. ASSUME NEW n \in Names, NEW flag, Starts(u, "delete", "delete", n, NoFile, flag)
        PROVE  OnItsWay(u)'
    <2>1. cmd'[u].pc = "delete"
      BY <1>1, <1>3 DEF Starts, NoCommand
    <2> QED
      BY <2>1 DEF OnItsWay
  <1> QED
    BY <1>2, <1>3 DEF Enter, Retry

\* The step of a command as a whole, but for the command itself.
LEMMA GotoIs ==
    ASSUME Inv, NEW u \in Users, NEW pc, Goto(u, pc)
    PROVE  /\ cmd'[u].pc = pc /\ cmd'[u].file = cmd[u].file /\ cmd'[u].name = cmd[u].name
           /\ cmd'[u].todo = cmd[u].todo
  BY DEF Inv, CommandsOK, Commands, Goto

LEMMA ListOnItsWay ==
    ASSUME SafeInv, NEW u \in Users, List(u) \/ Read(u), calm'
    PROVE  OnItsWay(u)'
  <1> USE DEF SafeInv, KeepInv
  <1>1. UNCHANGED <<networks, res>> /\ calm /\ cmd[u].pc \in {"list", "read"}
    BY DEF List, Read
  <1>2. CASE Ends(u, "failed")
    BY <1>2, EndsIdle, IdleOnItsWay
  <1>3. CASE Goto(u, "validate") /\ (NoNetwork \/ networks[cmd[u].name] # NoFile)
    <2>1. cmd'[u].pc = "validate" /\ cmd'[u].file = cmd[u].file /\ cmd'[u].name = cmd[u].name
      BY <1>3, GotoIs
    <2>2. Starting(u)'
      BY <1>1, <2>1 DEF Undisturbed, OnItsWay, Starting, Garbage
    <2>3. cmd[u].name \in Names
      BY DEF Inv, CommandsOK, Commands
    <2>4. OnlyOwn(u)'
      BY <1>1, <1>3, <2>1, <2>3 DEF Undisturbed, Server, AtMostOne, NoNetwork, OnlyOwn
    <2> QED
      BY <2>1, <2>2, <2>4 DEF OnItsWay
  <1> QED
    BY <1>2, <1>3 DEF List, Read

LEMMA ValidateOnItsWay ==
    ASSUME SafeInv, NEW u \in Users, Validate(u), calm'
    PROVE  OnItsWay(u)'
  <1> USE DEF SafeInv, KeepInv
  <1>1. UNCHANGED <<networks, res>> /\ calm /\ cmd[u].pc = "validate"
    BY DEF Validate
  <1>2. CASE Ends(u, "failed")
    BY <1>2, EndsIdle, IdleOnItsWay
  <1>3. CASE /\ Valid(cmd[u].file, cmd[u].flag)
             /\ cmd' = [cmd EXCEPT ![u].pc = "look", ![u].todo = Uploads(cmd[u].file)]
    <2> DEFINE f == cmd[u].file
    <2>1. f \in Files /\ cmd[u].flag \in BOOLEAN
      BY <1>1 DEF Inv, CommandsOK, Commands, Supplied, FromFile
    <2>2. /\ cmd'[u].pc = "look" /\ cmd'[u].file = f /\ cmd'[u].name = cmd[u].name
          /\ cmd'[u].todo = Uploads(f)
      BY <1>3 DEF Inv, CommandsOK, Commands
    <2>3. Starting(u) /\ OnlyOwn(u)
      BY <1>1 DEF Undisturbed, OnItsWay
    <2> HIDE DEF f
    <2>4. ASSUME NEW k \in Needs(f), Present(k), ~SelfContained(f) PROVE Safe(k)
      <3>1. k \in Keys
        BY <2>1, <2>4, NeedsAre
      <3> QED
        BY <2>3, <2>4, <3>1 DEF Starting, Garbage, Safe, f
    <2>5. \A k \in Needs(f) : Safe(k) \/ \E i \in DOMAIN Uploads(f) : Key(Uploads(f)[i]) = k
      BY <1>3, <2>1, <2>4, Validated DEF f
    <2>6. Supplies(u)'
      BY <1>1, <2>2, <2>5 DEF Supplies, Safe, Present, Pending, Fresh
    <2>7. OnlyOwn(u)'
      BY <1>1, <2>2, <2>3 DEF OnlyOwn
    <2> QED
      BY <2>2, <2>6, <2>7 DEF OnItsWay
  <1> QED
    BY <1>2, <1>3 DEF Validate

LEMMA LookOnItsWay ==
    ASSUME SafeInv, NEW u \in Users, Look(u), calm'
    PROVE  OnItsWay(u)'
  <1> USE DEF SafeInv, KeepInv
  <1>1. UNCHANGED <<networks, res>> /\ calm /\ cmd[u].pc = "look"
    BY DEF Look
  <1>2. OnlyOwn(u) /\ Supplies(u)
    BY <1>1 DEF Undisturbed, OnItsWay
  <1>3. CASE Ends(u, "failed")
    BY <1>3, EndsIdle, IdleOnItsWay
  <1>4. ASSUME /\ cmd'[u].pc \in {"write", "submit"} /\ cmd'[u].file = cmd[u].file
               /\ cmd'[u].name = cmd[u].name /\ cmd'[u].todo = cmd[u].todo
               /\ cmd'[u].pc = "submit" => cmd[u].todo = <<>>
        PROVE  OnItsWay(u)'
    <2>1. Supplies(u)'
      BY <1>1, <1>2, <1>4 DEF Supplies, Safe, Present, Pending, Fresh
    <2>2. OnlyOwn(u)'
      BY <1>1, <1>2, <1>4 DEF OnlyOwn
    <2> QED
      BY <1>4, <2>1, <2>2 DEF OnItsWay
  <1>5. CASE cmd[u].todo = <<>> /\ Goto(u, "submit")
    BY <1>4, <1>5, GotoIs
  <1>6. CASE cmd' = [cmd EXCEPT ![u].pc = "write", ![u].exists = Exists(Head(cmd[u].todo))]
    <2>1. /\ cmd'[u].pc = "write" /\ cmd'[u].file = cmd[u].file
          /\ cmd'[u].name = cmd[u].name /\ cmd'[u].todo = cmd[u].todo
      BY <1>6 DEF Inv, CommandsOK, Commands
    <2> QED
      BY <1>4, <2>1
  <1> QED
    BY <1>3, <1>5, <1>6 DEF Look

-----------------------------------------------------------------------------
\* Uploads and submission.
LEMMA UploadedSafe ==
    ASSUME NEW f \in Files
    PROVE  /\ Uploaded(f) # Absent /\ Uploaded(f).owner # Gone /\ Uploaded(f).label # None
           /\ Uploaded(f).edition = f.edition
  BY CliAssumption, FileTyped DEF Uploaded, Absent

LEMMA WriteIs ==
    ASSUME Inv, NEW u \in Users, Write(u)
    PROVE  /\ cmd[u].file \in Files /\ cmd[u].todo \in Seq(Parts) /\ cmd[u].todo # <<>>
           /\ UNCHANGED <<networks, hand, calm>>
           /\ \/ UNCHANGED res /\ Ends(u, "failed")
              \/ /\ Key(Head(cmd[u].todo)) \in Keys
                 /\ res'[Key(Head(cmd[u].todo))] = Uploaded(cmd[u].file)
                 /\ \A k \in Keys \ {Key(Head(cmd[u].todo))} : res'[k] = res[k]
                 /\ \/ Ends(u, "failed")
                    \/ /\ cmd'[u].pc = "look" /\ cmd'[u].todo = Tail(cmd[u].todo)
                       /\ cmd'[u].file = cmd[u].file /\ cmd'[u].name = cmd[u].name
  <1>1. cmd[u] \in Commands /\ cmd[u].pc = "write"
    BY DEF Inv, CommandsOK, Write
  <1>2. cmd[u].file \in Files /\ cmd[u].todo \in Seq(Parts) /\ cmd[u].todo # <<>>
    BY <1>1 DEF Inv, CommandsOK, Supplied, FromFile, Commands
  <1>3. Key(Head(cmd[u].todo)) \in Keys
    BY <1>2, KeyType
  <1>4. UNCHANGED <<networks, hand, calm>>
    BY DEF Write
  <1>5. CASE Ends(u, "failed") /\ UNCHANGED res
    BY <1>2, <1>4, <1>5
  <1>6. CASE /\ res' = Replaced(cmd[u].file, Key(Head(cmd[u].todo)))
             /\ \/ Ends(u, "failed")
                \/ cmd' = [cmd EXCEPT ![u].pc = "look", ![u].todo = Tail(@)]
    <2>1. /\ res'[Key(Head(cmd[u].todo))] = Uploaded(cmd[u].file)
          /\ \A k \in Keys \ {Key(Head(cmd[u].todo))} : res'[k] = res[k]
      BY <1>3, <1>6 DEF Replaced, Inv, ServerOK
    <2>2. ASSUME cmd' = [cmd EXCEPT ![u].pc = "look", ![u].todo = Tail(@)]
          PROVE  /\ cmd'[u].pc = "look" /\ cmd'[u].todo = Tail(cmd[u].todo)
                 /\ cmd'[u].file = cmd[u].file /\ cmd'[u].name = cmd[u].name
      BY <1>1, <2>2 DEF Inv, CommandsOK, Commands
    <2> QED
      BY <1>2, <1>3, <1>4, <1>6, <2>1, <2>2
  <1> QED
    BY <1>5, <1>6 DEF Write, Then

\* What is uploaded is no longer pending, and all the rest is as it was.
LEMMA UploadProceeds ==
    ASSUME NEW u \in Users, NEW f \in Files, NEW todo \in Seq(Parts), todo # <<>>,
           cmd[u].file = f, cmd[u].todo = todo, Supplies(u),
           cmd'[u].file = f, cmd'[u].todo = Tail(todo),
           NEW key \in Keys, key = Key(Head(todo)), res'[key] = Uploaded(f),
           \A k \in Keys \ {key} : res'[k] = res[k],
           \A k \in Keys : Safe(k) => Safe(k)'
    PROVE  Supplies(u)'
  <1>1. \A i \in DOMAIN todo : i = 1 \/ (i - 1 \in DOMAIN Tail(todo) /\ Tail(todo)[i - 1] = todo[i])
    OBVIOUS
  <1>2. ASSUME NEW k, Pending(u, k) PROVE k = key \/ Pending(u, k)'
    <2>1. PICK i \in DOMAIN todo : Key(todo[i]) = k
      BY <1>2 DEF Pending
    <2>2. CASE i = 1
      BY <2>1, <2>2
    <2>3. CASE i # 1
      BY <1>1, <2>1, <2>3 DEF Pending
    <2> QED
      BY <2>2, <2>3
  <1>3. Safe(key)' /\ res'[key].edition = f.edition
    BY UploadedSafe DEF Safe, Present
  <1>4. \A k \in Needs(f) : Safe(k)' \/ Pending(u, k)'
    BY <1>2, <1>3, NeedsAre DEF Supplies
  <1>5. ASSUME NEW i \in DOMAIN Uploads(f)
        PROVE  res'[Key(Uploads(f)[i])].edition = f.edition \/ Pending(u, Key(Uploads(f)[i]))'
    <2>1. Fresh(u, Key(Uploads(f)[i])) /\ Key(Uploads(f)[i]) \in Keys
      BY NeedsAre DEF Supplies
    <2>2. CASE Key(Uploads(f)[i]) = key
      BY <1>3, <2>2
    <2>3. CASE Key(Uploads(f)[i]) # key
      BY <1>2, <2>1, <2>3 DEF Fresh
    <2> QED
      BY <2>2, <2>3
  <1> QED
    BY <1>4, <1>5 DEF Supplies, Fresh

LEMMA WriteOnItsWay ==
    ASSUME SafeInv, NEW u \in Users, Write(u)
    PROVE  Marked' /\ (calm' => Server' /\ OnItsWay(u)')
  <1> USE DEF SafeInv, KeepInv
  <1> DEFINE f == cmd[u].file
             todo == cmd[u].todo
             key == Key(Head(todo))
  <1>1. f \in Files /\ todo \in Seq(Parts) /\ todo # <<>> /\ UNCHANGED <<networks, hand, calm>>
    BY WriteIs
  <1>2. CASE UNCHANGED res /\ Ends(u, "failed")
    BY <1>1, <1>2, QuietServer, EndsIdle, IdleOnItsWay
  <1>3. CASE /\ key \in Keys /\ res'[key] = Uploaded(f)
             /\ \A k \in Keys \ {key} : res'[k] = res[k]
    <2>1. Marked'
      BY <1>1, <1>3, UploadedSafe DEF Marked, Present
    <2>2. \A k \in Keys : Safe(k) => Safe(k)'
      BY <1>1, <1>3, UploadedSafe DEF Safe, Present
    <2>3. ASSUME calm' PROVE Server'
      <3>1. Server
        BY <1>1, <2>3 DEF Undisturbed
      <3>2. Supported'
        BY <1>1, <2>2, <3>1, SupportedKept DEF Server
      <3> QED
        BY <1>1, <3>1, <3>2 DEF Server, AtMostOne, HandLive
    <2>4. CASE Ends(u, "failed")
      BY <2>1, <2>3, <2>4, EndsIdle, IdleOnItsWay
    <2>5. ASSUME calm', /\ cmd'[u].pc = "look" /\ cmd'[u].todo = Tail(todo)
                        /\ cmd'[u].file = f /\ cmd'[u].name = cmd[u].name
          PROVE  OnItsWay(u)'
      <3>1. Supplies(u) /\ OnlyOwn(u)
        BY <1>1, <2>5 DEF Undisturbed, OnItsWay, Write
      <3>2. OnlyOwn(u)'
        BY <1>1, <2>5, <3>1 DEF OnlyOwn
      <3>3. Supplies(u)'
        BY <1>1, <1>3, <2>2, <2>5, <3>1, UploadProceeds
      <3> QED
        BY <2>5, <3>2, <3>3 DEF OnItsWay
    <2> QED
      BY <2>1, <2>3, <2>4, <2>5, WriteIs, <1>2
  <1> QED
    BY <1>2, <1>3, WriteIs

LEMMA SubmitOnItsWay ==
    ASSUME SafeInv, NEW u \in Users, Submit(u)
    PROVE  Marked' /\ (calm' => Server' /\ OnItsWay(u)' /\ Coherent')
  <1> USE DEF SafeInv, KeepInv
  <1> DEFINE f == cmd[u].file
             name == cmd[u].name
  <1>1. f \in Files /\ name \in Names /\ UNCHANGED <<res, hand, calm>> /\ cmd[u].pc = "submit"
    BY DEF Submit, Inv, CommandsOK, Supplied, FromFile, Commands
  <1>2. Idle(u)'
    BY EndsIdle DEF Submit, Then
  <1>3. CASE networks' = [networks EXCEPT ![name] = f]
    <2>1. Marked'
      BY <1>1 DEF Marked, Present
    <2>2. ASSUME calm' PROVE Server' /\ Coherent'
      <3>1. Server /\ OnlyOwn(u) /\ Supplies(u) /\ cmd[u].todo = <<>>
        BY <1>1, <2>2 DEF Undisturbed, OnItsWay
      <3>2. ~\E k : Pending(u, k)
        BY <3>1 DEF Pending
      <3>3. \A n \in Names : networks'[n] = IF n = name THEN f ELSE NoFile
        BY <1>1, <1>3, <3>1 DEF OnlyOwn, Inv, ServerOK
      <3>4. \A n \in Names : networks'[n] # NoFile => n = name /\ networks'[n] = f
        BY <3>3
      <3>5. AtMostOne'
        BY <3>4 DEF AtMostOne
      <3>6. \A k \in Needs(f) : Safe(k)'
        BY <1>1, <3>1, <3>2 DEF Supplies, Safe, Present
      <3>7. Supported'
        BY <3>4, <3>6 DEF Supported
      <3>8. hand = None
        BY <1>1, <2>2 DEF HandEmpty, NobodyBusy, Idle
      <3>9. \A i \in DOMAIN Uploads(f) : res'[Key(Uploads(f)[i])].edition = f.edition
        BY <1>1, <3>1, <3>2 DEF Supplies, Fresh
      <3>10. Coherent'
        BY <3>4, <3>9 DEF Coherent
      <3> QED
        BY <1>1, <3>5, <3>7, <3>8, <3>10 DEF Server, HandLive
    <2> QED
      BY <1>2, <2>1, <2>2, IdleOnItsWay
  <1>4. CASE UNCHANGED networks /\ Ends(u, "failed")
    <2>1. Coherent'
      BY <1>4 DEF Ends, Coherent
    <2> QED
      BY <1>1, <1>2, <1>4, <2>1, QuietServer, IdleOnItsWay
  <1> QED
    BY <1>3, <1>4 DEF Submit

-----------------------------------------------------------------------------
\* delete
LEMMA DeleteOnItsWay ==
    ASSUME SafeInv, NEW u \in Users, DeleteNetwork(u)
    PROVE  Marked' /\ (calm' => Server' /\ OnItsWay(u)')
  <1> USE DEF SafeInv, KeepInv
  <1> DEFINE name == cmd[u].name
  <1>1. name \in Names /\ UNCHANGED calm /\ cmd[u].pc = "delete"
    BY DEF DeleteNetwork, Inv, CommandsOK, Commands
  <1>2. CASE Ends(u, "failed") /\ UNCHANGED <<networks, res, hand>>
    BY <1>1, <1>2, EndsIdle, IdleOnItsWay, QuietServer
  <1>3. CASE /\ networks' = [networks EXCEPT ![name] = NoFile] /\ res' = Orphaned(name)
             /\ hand' = (IF hand = name THEN Gone ELSE hand)
             /\ networks[name] # NoFile
    <2>1. \A k \in Keys :
            /\ res'[k] \in {res[k], [res[k] EXCEPT !.owner = Gone]}
            /\ res'[k].owner # name
      BY <1>1, <1>3, CliAssumption DEF Orphaned, Inv, ServerOK, Resources
    <2>2. \A k \in Keys : /\ res'[k].label = res[k].label /\ res'[k].edition = res[k].edition
                          /\ Present(k)' => Present(k)
      <3>1. ASSUME NEW k \in Keys, res[k] = Absent PROVE res'[k] = Absent
        BY <1>1, <1>3, <3>1, CliAssumption DEF Orphaned, Absent
      <3>2. ASSUME NEW k \in Keys
            PROVE  res'[k].label = res[k].label /\ res'[k].edition = res[k].edition
        BY <2>1 DEF Inv, ServerOK, Resources
      <3> QED
        BY <3>1, <3>2 DEF Present
    <2>3. Marked'
      BY <2>2 DEF Marked
    <2>4. ASSUME calm' PROVE NoNetwork' /\ hand' = None
      <3>1. AtMostOne /\ hand = None
        BY <1>1, <2>4 DEF Undisturbed, Server, HandEmpty, NobodyBusy, Idle
      <3> QED
        BY <1>1, <1>3, <3>1, CliAssumption DEF AtMostOne, NoNetwork, Inv, ServerOK
    <2>5. ASSUME calm' PROVE Server'
      BY <2>4, <2>5 DEF Server, AtMostOne, Supported, HandLive, NoNetwork
    <2>6. CASE \E outcome : Ends(u, outcome)
      BY <2>3, <2>5, <2>6, EndsIdle, IdleOnItsWay
    <2>7. CASE Goto(u, "secrets")
      <3>1. cmd'[u].pc = "secrets" /\ cmd'[u].name = name
        BY <2>7, GotoIs
      <3>2. \A k \in Keys : res'[k].owner # cmd'[u].name
        BY <2>1, <3>1
      <3>3. calm' => Disowned(u)'
        BY <2>4, <3>2 DEF Disowned
      <3> QED
        BY <2>3, <2>5, <3>1, <3>3 DEF OnItsWay
    <2> QED
      BY <1>3, <2>6, <2>7 DEF DeleteNetwork, Then
  <1> QED
    BY <1>2, <1>3 DEF DeleteNetwork

LEMMA ListsIs ==
    ASSUME Inv, NEW u \in Users, NEW pc, NEW keys, Lists(u, pc, keys)
    PROVE  /\ cmd'[u].pc = pc /\ cmd'[u].name = cmd[u].name
           /\ cmd'[u].left = Labelled(cmd[u].name, keys)
  BY DEF Inv, CommandsOK, Commands, Lists

LEMMA ListsOnItsWay ==
    ASSUME SafeInv, NEW u \in Users, ListSecrets(u) \/ ListMaps(u), calm'
    PROVE  OnItsWay(u)'
  <1> USE DEF SafeInv, KeepInv
  <1>1. UNCHANGED <<networks, res>> /\ calm /\ cmd[u].pc \in {"secrets", "removeSecrets"}
    BY DEF ListSecrets, ListMaps
  <1>2. Disowned(u)
    BY <1>1 DEF Undisturbed, OnItsWay
  <1>3. ASSUME NEW pc, NEW keys, Lists(u, pc, keys) PROVE Disowned(u)' /\ Removes(u, keys)'
    BY <1>1, <1>2, <1>3, ListsIs DEF Disowned, NoNetwork, Removes, Labelled
  <1>4. CASE ListSecrets(u)
    <2>1. cmd'[u].pc = "removeSecrets"
      BY <1>4, ListsIs DEF ListSecrets
    <2> QED
      BY <1>3, <1>4, <2>1 DEF ListSecrets, OnItsWay
  <1>5. CASE ListMaps(u)
    <2>1. cmd'[u].pc = "removeMaps" /\ cmd'[u].name = cmd[u].name
      BY <1>5, ListsIs DEF ListMaps
    <2>2. \A k \in Secrets : res'[k].label # cmd'[u].name
      BY <1>1, <1>5, <2>1 DEF ListMaps, Undisturbed, OnItsWay, Removes
    <2> QED
      BY <1>3, <1>5, <2>1, <2>2 DEF ListMaps, OnItsWay
  <1> QED
    BY <1>4, <1>5

LEMMA RemoveOnItsWay ==
    ASSUME SafeInv, NEW u \in Users, Remove(u)
    PROVE  Marked' /\ (calm' => Server' /\ OnItsWay(u)')
  <1> USE DEF SafeInv, KeepInv
  <1>1. /\ UNCHANGED <<networks, hand, calm>> /\ cmd[u].pc \in {"removeSecrets", "removeMaps"}
        /\ cmd[u].name \in Names /\ cmd[u].left \in SUBSET Keys
    BY DEF Remove, Inv, CommandsOK, Commands
  <1>2. CASE Ends(u, "failed") /\ UNCHANGED res
    BY <1>1, <1>2, EndsIdle, IdleOnItsWay, QuietServer
  <1>3. ASSUME NEW k \in cmd[u].left, res' = [res EXCEPT ![k] = Absent],
               Ends(u, "failed") \/ cmd' = [cmd EXCEPT ![u].left = @ \ {k}]
        PROVE  Marked' /\ (calm' => Server' /\ OnItsWay(u)')
    <2>1. res'[k] = Absent /\ \A l \in Keys \ {k} : res'[l] = res[l]
      BY <1>1, <1>3 DEF Inv, ServerOK
    <2>2. Marked'
      BY <2>1 DEF Marked, Present
    <2>3. ASSUME calm' PROVE NoNetwork /\ Server' /\ Disowned(u)
      <3>1. Disowned(u) /\ Server
        BY <1>1, <2>3 DEF Undisturbed, OnItsWay
      <3> QED
        BY <1>1, <3>1 DEF Disowned, NoNetwork, Server, AtMostOne, Supported, HandLive
    <2>4. CASE Ends(u, "failed")
      BY <2>2, <2>3, <2>4, EndsIdle, IdleOnItsWay
    <2>5. CASE cmd' = [cmd EXCEPT ![u].left = @ \ {k}]
      <3>1. /\ cmd'[u].pc = cmd[u].pc /\ cmd'[u].name = cmd[u].name
            /\ cmd'[u].left = cmd[u].left \ {k}
        BY <2>5 DEF Inv, CommandsOK, Commands
      <3>2. ASSUME calm' PROVE OnItsWay(u)'
        <4>1. OnItsWay(u) /\ Disowned(u)
          BY <1>1, <2>3, <3>2 DEF Undisturbed
        <4>2. Absent.label # cmd[u].name /\ Absent.owner # cmd[u].name
          BY <1>1, CliAssumption DEF Absent
        <4>3. \A l \in Keys : res'[l].label = cmd[u].name => l # k /\ res'[l] = res[l]
          BY <2>1, <4>2
        <4>4. Disowned(u)'
          BY <1>1, <2>1, <3>1, <4>1, <4>2 DEF Disowned, NoNetwork
        <4>5. \A keys \in SUBSET Keys : Removes(u, keys) => Removes(u, keys)'
          BY <3>1, <4>3 DEF Removes
        <4>6. cmd[u].pc = "removeMaps" => \A l \in Secrets : res'[l].label # cmd[u].name
          BY <4>1, <4>3, KeysOf DEF OnItsWay
        <4> QED
          BY <1>1, <3>1, <4>1, <4>4, <4>5, <4>6, KeysOf DEF OnItsWay
      <3> QED
        BY <2>2, <2>3, <3>2
    <2> QED
      BY <1>3, <2>4, <2>5
  <1> QED
    BY <1>2, <1>3 DEF Remove, Then

-----------------------------------------------------------------------------
\* The invariant as a whole.
LEMMA StepSafe ==
    ASSUME SafeInv, NEW u \in Users, Step(u)
    PROVE  Marked' /\ Undisturbed' /\ Coherent'
  <1> USE DEF SafeInv, KeepInv
  <1>1. calm' = calm
    BY StepFrame
  <1>2. CASE Submit(u)
    BY <1>1, <1>2, SubmitOnItsWay, OnlyOne, IdleOnItsWay DEF Undisturbed, Coherent
  <1>3. CASE Write(u) \/ DeleteNetwork(u) \/ Remove(u)
    <2>1. Marked' /\ Undisturbed'
      BY <1>1, <1>3, WriteOnItsWay, DeleteOnItsWay, RemoveOnItsWay, OnlyOne, IdleOnItsWay
         DEF Undisturbed
    <2>2. last' = "ok" /\ Idle(u)' => DeleteNetwork(u) /\ cmd[u].name \in Names
                                      /\ networks' = [networks EXCEPT ![cmd[u].name] = NoFile]
      <3>1. CASE Write(u)
        <4>1. Idle(u)' => Ends(u, "failed")
          BY <1>3, <3>1, WriteIs DEF Idle
        <4> QED
          BY <4>1 DEF Ends
      <3>2. CASE Remove(u)
        <4>1. ASSUME NEW left, cmd' = [cmd EXCEPT ![u].left = left] PROVE ~Idle(u)'
          BY <3>2, <4>1 DEF Remove, Idle, Inv, CommandsOK, Commands
        <4> QED
          BY <3>2, <4>1 DEF Remove, Then, Ends
      <3>3. CASE DeleteNetwork(u)
        BY <3>3 DEF DeleteNetwork, Ends, Inv, CommandsOK, Commands
      <3> QED
        BY <1>3, <3>1, <3>2, <3>3
    <2>3. ASSUME calm, DeleteNetwork(u), cmd[u].name \in Names,
                 networks' = [networks EXCEPT ![cmd[u].name] = NoFile],
                 networks[cmd[u].name] # NoFile
          PROVE  NoNetwork'
      BY <2>3 DEF Undisturbed, Server, AtMostOne, NoNetwork, Inv, ServerOK
    <2>4. DeleteNetwork(u) /\ networks[cmd[u].name] = NoFile => last' = "failed"
      BY DEF DeleteNetwork, Ends
    <2>5. Coherent'
      BY <1>1, <2>2, <2>3, <2>4 DEF Coherent, NobodyBusy, NoNetwork
    <2> QED
      BY <2>1, <2>5
  <1>4. CASE List(u) \/ Read(u) \/ Validate(u) \/ Look(u) \/ ListSecrets(u) \/ ListMaps(u)
             \/ Deleted(u) \/ CallFails(u)
    <2>1. UNCHANGED <<networks, res, hand>>
      BY <1>4 DEF List, Read, Validate, Look, ListSecrets, ListMaps, Deleted, CallFails
    <2>2. Marked' /\ (calm' => Server')
      BY <1>1, <2>1, QuietServer
    <2>3. ASSUME calm' PROVE OnItsWay(u)'
      <3>1. CASE Deleted(u) \/ CallFails(u)
        BY <3>1, EndsIdle, IdleOnItsWay DEF Deleted, CallFails
      <3> QED
        BY <1>4, <2>3, <3>1, ListOnItsWay, ValidateOnItsWay, LookOnItsWay, ListsOnItsWay
    <2>4. Undisturbed'
      BY <1>1, <2>2, <2>3, OnlyOne, IdleOnItsWay DEF Undisturbed
    <2>5. CASE Deleted(u)
      <3>1. calm => NoNetwork
        BY <2>5 DEF Deleted, Undisturbed, OnItsWay, Disowned
      <3> QED
        BY <1>1, <2>1, <2>2, <2>4, <3>1 DEF Coherent, NoNetwork
    <2>6. CASE ~Deleted(u)
      <3>1. last' = "ok" => ~Idle(u)'
        <4>1. ASSUME NEW pc, Goto(u, pc) PROVE cmd'[u].pc = pc
          BY <4>1, GotoIs
        <4>2. CASE List(u) \/ Read(u)
          BY <4>1, <4>2 DEF List, Read, Ends, Idle
        <4>3. CASE Validate(u)
          BY <4>3 DEF Validate, Ends, Idle, Inv, CommandsOK, Commands
        <4>4. CASE Look(u)
          BY <4>1, <4>4 DEF Look, Ends, Idle, Inv, CommandsOK, Commands
        <4>5. CASE ListSecrets(u) \/ ListMaps(u)
          BY <4>5, ListsIs DEF ListSecrets, ListMaps, Idle
        <4>6. CASE CallFails(u)
          BY <4>6 DEF CallFails, Ends
        <4> QED
          BY <1>4, <2>6, <4>2, <4>3, <4>4, <4>5, <4>6
      <3> QED
        BY <2>2, <2>4, <3>1 DEF Coherent, NobodyBusy
    <2> QED
      BY <2>5, <2>6
  <1> QED
    BY <1>2, <1>3, <1>4 DEF Step

LEMMA EnterSafe ==
    ASSUME SafeInv, NEW u \in Users, Enter(u) \/ Retry(u)
    PROVE  Marked' /\ Undisturbed' /\ Coherent'
  <1>1. UNCHANGED <<networks, res, hand>> /\ (calm' => calm /\ NobodyBusy)
    BY EnterFrame DEF SafeInv, KeepInv, Enter, Retry
  <1>2. Marked' /\ (calm' => Server')
    BY <1>1, QuietServer
  <1>3. \A v \in Users \ {u} : calm' => Idle(v)'
    BY <1>1, EnterFrame DEF SafeInv, KeepInv, NobodyBusy, Idle
  <1>4. ~Idle(u)'
    BY EnterFrame DEF SafeInv, KeepInv, Idle
  <1> QED
    BY <1>2, <1>3, <1>4, StartsOnItsWay, IdleOnItsWay DEF Undisturbed, Coherent, NobodyBusy

LEMMA CollectSafe ==
    ASSUME SafeInv, NEW k \in Keys, Collect(k)
    PROVE  Marked' /\ Undisturbed' /\ Coherent'
  <1> USE DEF SafeInv, KeepInv
  <1>1. /\ UNCHANGED <<networks, cmd, last, hand, calm>> /\ res[k].owner = Gone
        /\ res'[k] = Absent /\ \A l \in Keys \ {k} : res'[l] = res[l]
    BY DEF Collect, Inv, ServerOK
  <1>2. \A l \in Keys : Safe(l) => res'[l] = res[l]
    BY <1>1 DEF Safe
  <1>3. Marked'
    BY <1>1 DEF Marked, Present
  <1>4. \A l \in Keys : Safe(l) => Safe(l)'
    BY <1>2 DEF Safe, Present
  <1>5. ASSUME calm PROVE Server'
    <2>1. Server
      BY <1>5 DEF Undisturbed
    <2>2. Supported'
      BY <1>1, <1>4, <2>1, SupportedKept DEF Server
    <2> QED
      BY <1>1, <2>1, <2>2 DEF Server, AtMostOne, HandLive
  <1>6. ASSUME calm, NEW u \in Users PROVE OnItsWay(u)'
    <2>1. OnItsWay(u)
      BY <1>6 DEF Undisturbed
    <2>2. cmd[u].pc \in FromFile => cmd[u].file \in Files
      BY DEF Inv, CommandsOK, Supplied
    <2>3. cmd[u].name # None
      <3>1. cmd[u].name \in Names
        BY DEF Inv, CommandsOK, Commands
      <3> QED
        BY <3>1, CliAssumption
    <2>4. Starting(u) => Starting(u)'
      BY <1>1, CliAssumption DEF Starting, Garbage, Absent
    <2>5. OnlyOwn(u) => OnlyOwn(u)'
      BY <1>1 DEF OnlyOwn
    <2>6. ASSUME Supplies(u), cmd[u].file \in Files PROVE Supplies(u)'
      <3>1. \A l \in Needs(cmd[u].file) : Safe(l)' \/ Pending(u, l)
        BY <1>4, <2>6, NeedsAre DEF Supplies
      <3>2. ASSUME NEW i \in DOMAIN Uploads(cmd[u].file)
            PROVE  \/ res'[Key(Uploads(cmd[u].file)[i])].edition = cmd[u].file.edition
                   \/ Pending(u, Key(Uploads(cmd[u].file)[i]))
        <4>1. Key(Uploads(cmd[u].file)[i]) \in Needs(cmd[u].file)
              /\ Key(Uploads(cmd[u].file)[i]) \in Keys
          BY <2>6, NeedsAre
        <4> QED
          BY <1>2, <2>6, <4>1 DEF Supplies, Fresh
      <3> QED
        BY <1>1, <3>1, <3>2 DEF Supplies, Fresh, Pending
    <2>7. Disowned(u) => Disowned(u)'
      BY <1>1, <2>3 DEF Disowned, NoNetwork, Absent
    <2>8. \A l \in Keys : res'[l].label = cmd[u].name => res[l].label = cmd[u].name
      BY <1>1, <2>3 DEF Absent
    <2>9. /\ Removes(u, Secrets) => Removes(u, Secrets)'
          /\ Removes(u, Maps) => Removes(u, Maps)'
      BY <1>1, <2>8, KeysOf DEF Removes
    <2> QED
      BY <1>1, <2>1, <2>2, <2>4, <2>5, <2>6, <2>7, <2>8, <2>9, KeysOf DEF OnItsWay, FromFile
  <1>7. ASSUME calm, last = "ok", NobodyBusy PROVE Coherent'
    <2>1. Supported
      BY <1>7 DEF Undisturbed, Server
    <2>2. ASSUME NEW n \in Names, networks[n] # NoFile, NEW i \in DOMAIN Uploads(networks[n])
          PROVE  res'[Key(Uploads(networks[n])[i])] = res[Key(Uploads(networks[n])[i])]
      <3>1. networks[n] \in Files
        BY <2>2 DEF Inv, ServerOK
      <3>2. Key(Uploads(networks[n])[i]) \in Needs(networks[n])
            /\ Key(Uploads(networks[n])[i]) \in Keys
        BY <2>2, <3>1, NeedsAre
      <3> QED
        BY <1>2, <2>1, <2>2, <3>2 DEF Supported
    <2> QED
      BY <1>1, <1>7, <2>2 DEF Coherent
  <1>8. Coherent'
    BY <1>1, <1>7 DEF Coherent, NobodyBusy, Idle
  <1> QED
    BY <1>1, <1>3, <1>5, <1>6, <1>8 DEF Undisturbed

LEMMA OperatorSafe ==
    ASSUME SafeInv, Operator
    PROVE  Marked' /\ Undisturbed' /\ Coherent'
  <1> USE DEF SafeInv, KeepInv
  <1>1. UNCHANGED <<networks, cmd, last>>
    BY DEF Operator, OperatorStores, OperatorSaves, OperatorTakes
  <1>2. ASSUME NEW n \in Names, OperatorSaves(n) PROVE Marked' /\ Undisturbed' /\ Coherent'
    <2>1. UNCHANGED <<networks, res, cmd, last, hand, calm>>
      BY <1>2 DEF OperatorSaves
    <2> QED
      BY <2>1, QuietServer DEF Undisturbed, OnItsWay, Starting, Garbage, OnlyOwn, Supplies, Safe,
         Present, Pending, Fresh, Removes, Disowned, NoNetwork, Coherent, NobodyBusy, Idle
  <1>3. ASSUME NEW n \in Names, OperatorTakes(n) PROVE Marked' /\ Undisturbed' /\ Coherent'
    <2>1. /\ UNCHANGED <<networks, res, cmd, last>> /\ hand' = n /\ calm' = (calm /\ NobodyBusy)
          /\ networks[n] # NoFile /\ networks[n].crypto = ""
      BY <1>3 DEF OperatorTakes
    <2>2. Marked'
      BY <2>1 DEF Marked, Present
    <2>3. calm' => calm /\ NobodyBusy
      BY <2>1 DEF Inv, OthersOK
    <2>4. calm' => Server'
      BY <2>1, <2>3 DEF Undisturbed, Server, AtMostOne, Supported, HandLive, Safe, Present
    <2>5. calm' => \A u \in Users : OnItsWay(u)'
      BY <2>1, <2>3, IdleOnItsWay DEF NobodyBusy, Idle
    <2>6. Coherent'
      BY <2>1, <2>3 DEF Coherent, NobodyBusy, Idle
    <2> QED
      BY <2>2, <2>4, <2>5, <2>6 DEF Undisturbed
  <1>4. CASE OperatorStores
    <2>1. /\ UNCHANGED <<networks, cmd, last, calm>> /\ hand # None /\ hand' = None
          /\ "crypto" \in Keys /\ res'["crypto"] = Made(hand)
          /\ \A k \in Keys \ {"crypto"} : res'[k] = res[k]
      BY <1>4, KeysOf DEF OperatorStores, Inv, ServerOK
    <2>2. Made(hand) # Absent /\ Made(hand).edition = 0
      BY DEF Made, Absent
    <2>3. Marked'
      BY <2>1, <2>2 DEF Marked, Present
    <2>4. ASSUME calm
          PROVE  /\ NobodyBusy /\ Server /\ hand \in Names
                 /\ \A n \in Names : networks[n] # NoFile => networks[n].crypto = ""
      BY <2>1, <2>4 DEF HandEmpty, Undisturbed, Server, HandLive, AtMostOne
    <2>5. ASSUME calm, NEW k \in Keys, Safe(k) PROVE Safe(k)'
      <3>1. Made(hand).owner # Gone
        BY <2>4, <2>5, CliAssumption DEF Made
      <3> QED
        BY <2>1, <2>2, <2>5, <3>1 DEF Safe, Present
    <2>6. ASSUME calm PROVE Server'
      <3>1. Supported'
        BY <2>1, <2>4, <2>5, <2>6, SupportedKept DEF Server
      <3> QED
        BY <2>1, <2>4, <2>6, <3>1 DEF Server, AtMostOne, HandLive
    <2>7. calm => \A u \in Users : OnItsWay(u)'
      BY <2>1, <2>4, IdleOnItsWay DEF NobodyBusy, Idle
    <2>8. ASSUME calm, last = "ok" PROVE Coherent'
      <3>1. ASSUME NEW n \in Names, networks[n] # NoFile, NEW i \in DOMAIN Uploads(networks[n])
            PROVE  res'[Key(Uploads(networks[n])[i])].edition = networks[n].edition
        <4>1. networks[n] \in Files /\ networks[n].crypto = ""
          BY <2>4, <2>8, <3>1 DEF Inv, ServerOK
        <4>2. Key(Uploads(networks[n])[i]) \in Keys \ {"crypto"}
          BY <4>1, NeedsAre
        <4>3. res[Key(Uploads(networks[n])[i])].edition = networks[n].edition
          BY <2>4, <2>8, <3>1 DEF Coherent
        <4> QED
          BY <2>1, <4>2, <4>3
      <3> QED
        BY <2>1, <3>1 DEF Coherent
    <2>9. Coherent'
      BY <2>1, <2>8 DEF Coherent
    <2> QED
      BY <2>1, <2>3, <2>6, <2>7, <2>9 DEF Undisturbed
  <1> QED
    BY <1>2, <1>3, <1>4 DEF Operator

LEMMA SafeStep == SafeInv /\ [Next]_vars => SafeInv'
  <1> SUFFICES ASSUME SafeInv, [Next]_vars PROVE SafeInv'
    OBVIOUS
  <1>1. KeepInv'
    BY NextType, AloneStep, KeepsStep DEF SafeInv, KeepInv
  <1>2. CASE UNCHANGED vars
    <2>1. Marked' /\ Undisturbed' /\ Coherent'
      BY <1>2 DEF vars, SafeInv, Marked, Undisturbed, Server, AtMostOne, Supported, HandLive,
         OnItsWay, Starting, Garbage, OnlyOwn, Supplies, Safe, Present, Pending, Fresh,
         Removes, Disowned, NoNetwork, Coherent, NobodyBusy, Idle
    <2> QED
      BY <1>1, <2>1 DEF SafeInv
  <1>3. CASE Next
    <2>1. Marked' /\ Undisturbed' /\ Coherent'
      BY <1>3, StepSafe, EnterSafe, OperatorSafe, CollectSafe DEF Next
    <2> QED
      BY <1>1, <2>1 DEF SafeInv
  <1> QED
    BY <1>2, <1>3

LEMMA SafeInit == Init => SafeInv
  <1> SUFFICES ASSUME Init PROVE SafeInv
    OBVIOUS
  <1>1. KeepInv
    BY KeepInit
  <1>2. \A u \in Users : cmd[u].pc = "idle"
    BY NoCommandType DEF Init
  <1>3. \A n \in Names : networks[n] = NoFile
    BY DEF Init
  <1>4. Marked
    BY DEF Init, Marked, Present, Made, Absent
  <1>5. Undisturbed
    BY <1>2, <1>3 DEF Init, Undisturbed, Server, AtMostOne, Supported, HandLive, OnItsWay
  <1>6. Coherent
    BY <1>3 DEF Coherent
  <1> QED
    BY <1>1, <1>4, <1>5, <1>6 DEF SafeInv

LEMMA SafeAlways == Spec => []SafeInv
  <1> QED
    BY SafeInit, SafeStep, PTL DEF Spec

-----------------------------------------------------------------------------
\* A network in the API server has all it refers to, whichever call of whichever
\* command failed or seemed to, as long as commands do not overlap: for every set of
\* network files, names and users (submitNewNetwork, updateNetwork, deleteNetwork).
THEOREM CompleteAlways == Spec => []Complete
  <1>1. SafeInv => Complete
    BY DEF SafeInv, Undisturbed, Server, Supported, Complete, HasAll, Safe
  <1> QED
    BY <1>1, SafeAlways, PTL

\* After a command has succeeded, what the network's file uploads is what is there
\* (createOrUpdateConfigtxSecret and its like, called by submitNewNetwork, updateNetwork).
THEOREM CoherentAlways == Spec => []Coherent
  <1>1. SafeInv => Coherent
    BY DEF SafeInv
  <1> QED
    BY <1>1, SafeAlways, PTL

\* The commands that work from a file are not deletes.
Kinds == \A u \in Users : cmd[u].pc \in FromFile => cmd[u].kind # "delete"

LEMMA KindsStep == Inv /\ Kinds /\ [Next]_vars => Kinds'
  <1> SUFFICES ASSUME Inv, Kinds, [Next]_vars, NEW v \in Users, cmd'[v].pc \in FromFile
               PROVE  cmd'[v].kind # "delete"
    BY DEF Kinds
  <1>1. cmd \in [Users -> Commands] /\ NoCommand.pc = "idle"
    BY NoCommandType DEF Inv, CommandsOK
  <1>2. cmd[v].pc \in FromFile => cmd[v].kind # "delete"
    BY DEF Kinds
  <1>3. CASE cmd'[v] = cmd[v]
    BY <1>2, <1>3
  <1>4. CASE Enter(v) \/ Retry(v)
    <2>1. ASSUME NEW kind, NEW pc, NEW name, NEW file, NEW flag,
                 Starts(v, kind, pc, name, file, flag)
          PROVE  cmd'[v].kind = kind /\ cmd'[v].pc = pc
      BY <1>1, <2>1 DEF Starts, NoCommand
    <2> QED
      BY <1>4, <2>1 DEF Enter, Retry, FromFile
  <1>5. CASE Step(v)
    <2>1. CASE List(v) \/ Read(v) \/ Validate(v)
      BY <1>1, <1>2, <2>1 DEF List, Read, Validate, Ends, Goto, FromFile, Commands
    <2>2. CASE Look(v) \/ Write(v) \/ Submit(v)
      BY <1>1, <1>2, <2>2 DEF Look, Write, Submit, Then, Ends, Goto, FromFile, Commands
    <2>3. CASE DeleteNetwork(v) \/ ListSecrets(v) \/ ListMaps(v)
      BY <1>1, <2>3 DEF DeleteNetwork, ListSecrets, ListMaps, Lists, Then, Ends, Goto, FromFile,
                        Commands
    <2>4. CASE Remove(v) \/ Deleted(v) \/ CallFails(v)
      BY <1>1, <1>2, <2>4 DEF Remove, Deleted, CallFails, Then, Ends, FromFile, Commands
    <2> QED
      BY <1>5, <2>1, <2>2, <2>3, <2>4 DEF Step
  <1>6. ASSUME cmd'[v] # cmd[v] PROVE Enter(v) \/ Retry(v) \/ Step(v)
    <2>1. ASSUME NEW w \in Users, Enter(w) \/ Retry(w), w # v PROVE FALSE
      BY <1>6, <2>1, EnterFrame
    <2>2. ASSUME NEW w \in Users, Step(w), w # v PROVE FALSE
      BY <1>6, <2>2, StepFrame
    <2>3. ~(Operator \/ \E l \in Keys : Collect(l)) /\ ~UNCHANGED vars
      BY <1>6 DEF Operator, OperatorStores, OperatorSaves, OperatorTakes, Collect, vars
    <2> QED
      BY <2>1, <2>2, <2>3 DEF Next
  <1> QED
    BY <1>3, <1>4, <1>5, <1>6

\* A delete without --keep-resources that succeeds leaves nothing of the network.
LEMMA DeletedCleans ==
    ASSUME SafeInv, Kinds, [Next]_vars, NEW u \in Users, calm, cmd[u].kind = "delete", ~cmd[u].flag,
           ~Idle(u), cmd'[u].pc = "idle", last' = "ok", NEW k \in Keys, Present(k)'
    PROVE  /\ res'[k].label # cmd[u].name /\ res'[k].owner # cmd[u].name
           /\ res'[k].edition # 0 => res'[k].label # None
  <1> USE DEF SafeInv, KeepInv
  <1>1. Step(u)
    <2>1. ASSUME NEW w \in Users, Enter(w) \/ Retry(w) PROVE FALSE
      <3>1. w # u
        BY <2>1, EnterFrame
      <3> QED
        BY <2>1, <3>1, EnterFrame DEF Idle
    <2>2. ASSUME NEW w \in Users, Step(w), w # u PROVE FALSE
      BY <2>2, StepFrame DEF Idle
    <2>3. ~(Operator \/ \E l \in Keys : Collect(l))
      BY OperatorFrame DEF Idle
    <2>4. ~UNCHANGED vars
      BY DEF vars, Idle
    <2> QED
      BY <2>1, <2>2, <2>3, <2>4 DEF Next
  <1>2. NoCommand.pc = "idle" /\ cmd[u] \in Commands /\ cmd[u].pc \notin FromFile
    BY NoCommandType DEF Inv, CommandsOK, Kinds
  <1>3. Deleted(u)
    <2>1. ~(List(u) \/ Read(u) \/ Validate(u) \/ Look(u) \/ Write(u) \/ Submit(u))
      BY <1>2 DEF List, Read, Validate, Look, Write, Submit, FromFile
    <2>2. ~DeleteNetwork(u)
      <3>1. ASSUME Goto(u, "secrets") PROVE FALSE
        BY <3>1, GotoIs
      <3> QED
        BY <3>1 DEF DeleteNetwork, Then, Ends
    <2>3. ~(ListSecrets(u) \/ ListMaps(u))
      <3>1. ASSUME NEW pc, NEW keys, Lists(u, pc, keys), pc # "idle" PROVE FALSE
        BY <3>1, ListsIs
      <3> QED
        BY <3>1 DEF ListSecrets, ListMaps
    <2>4. ~Remove(u)
      <3>1. ASSUME NEW left, cmd' = [cmd EXCEPT ![u].left = left] PROVE cmd'[u].pc = cmd[u].pc
        BY <3>1 DEF Inv, CommandsOK, Commands
      <3> QED
        BY <3>1 DEF Remove, Then, Ends, Idle
    <2>5. ~CallFails(u)
      BY DEF CallFails, Ends
    <2> QED
      BY <1>1, <2>1, <2>2, <2>3, <2>4, <2>5 DEF Step
  <1>4. cmd[u].pc = "removeMaps" /\ cmd[u].left = {} /\ UNCHANGED res
    BY <1>3 DEF Deleted
  <1>5. OnItsWay(u)
    BY DEF Undisturbed
  <1>6. \A l \in Keys : res[l].label # cmd[u].name /\ res[l].owner # cmd[u].name
    BY <1>4, <1>5 DEF OnItsWay, Disowned, Removes, Keys
  <1> QED
    BY <1>4, <1>6 DEF Marked, Present

\* When delete without --keep-resources succeeds, nothing of the network is left but
\* what the garbage collector takes, as long as commands do not overlap (deleteNetwork).
THEOREM DeleteCleansAlways == Spec => DeleteCleans
  <1>1. SafeInv /\ Kinds /\ [Next]_vars =>
          [\A u \in Users :
            calm /\ cmd[u].kind = "delete" /\ ~cmd[u].flag /\ ~Idle(u) /\ cmd'[u].pc = "idle"
                 /\ last' = "ok" =>
              \A k \in Keys :
                Present(k)' => res'[k].label # cmd[u].name /\ res'[k].owner # cmd[u].name
                               /\ (res'[k].edition # 0 => res'[k].label # None)]_vars
    BY DeletedCleans
  <1>2. Init => Kinds
    BY NoCommandType DEF Init, Kinds, FromFile
  <1>3. SafeInv /\ Kinds /\ [Next]_vars => Kinds'
    BY KindsStep DEF SafeInv, KeepInv
  <1> QED
    BY <1>1, <1>2, <1>3, SafeAlways, PTL DEF Spec, DeleteCleans
=============================================================================
