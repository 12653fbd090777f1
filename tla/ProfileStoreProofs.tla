------------------------- MODULE ProfileStoreProofs -------------------------
(***************************************************************************)
(* Proofs about ProfileStore for any number of processes, names,           *)
(* workspaces, tokens, commands and faults; and, last, that the processes  *)
(* that share config.json implement the register of ProfileRegister        *)
(* (FromSomeVersion, of MCProfileHistory).                                 *)
(***************************************************************************)
EXTENDS MCProfileHistory, TLAPS

-----------------------------------------------------------------------------
(* Lemmas about the documents.                                             *)

\* The blank config and the one a first login leaves are configs.
LEMMA InitialConfigs ==
  /\ ZeroProfile \in Profile
  /\ EmptyConfig \in Config
  /\ SavedConfig \in Config
<1>1. ZeroProfile \in Profile
  BY TokensAssumption DEF ZeroProfile, Profile, Tokens
<1>2. EmptyConfig \in Config
  BY DEF EmptyConfig, Config
<1>3. SavedConfig \in Config
  <2>1. \A n \in Names : [key |-> FALSE, ws |-> None, access |-> Holds[n],
                           refresh |-> Holds[n]] \in Profile
    BY HoldsAssumption DEF Profile
  <2> QED BY <2>1, NamesAssumption DEF SavedConfig, Config
<1> QED BY <1>1, <1>2, <1>3

LEMMA LookupType ==
  ASSUME NEW cfg \in Config, NEW n
  PROVE  Lookup(cfg, n) \in Profile
BY InitialConfigs DEF Lookup, Has, Config

\* A profile name that a login or set-workspace resolves is never empty.
LEMMA LoginNameType ==
  ASSUME NEW cfg \in Config, NEW flag \in Names \cup {None}
  PROVE  LoginProfileName(cfg, flag) \in Names
BY NamesAssumption DEF LoginProfileName, Config

LEMMA ApplyTokenType ==
  ASSUME NEW profile \in Profile, NEW t \in Token
  PROVE  ApplyTokenResponse(profile, t) \in Profile
BY DEF ApplyTokenResponse, Profile, Token

\* A login saves a config whose current profile is the one logged in to.
LEMMA LoginProfileType ==
  ASSUME NEW c \in Command, NEW cfg \in Config, NEW t \in Token
  PROVE  LoginProfile(c, cfg, t) \in Config /\ Consistent(LoginProfile(c, cfg, t))
<1> DEFINE n == LoginProfileName(cfg, c.name)
           ws == IF c.ws # None THEN c.ws ELSE Lookup(cfg, n).ws
<1>1. n \in Names
  BY LoginNameType DEF Command
<1>2. [Lookup(cfg, n) EXCEPT !.ws = ws] \in Profile
  BY LookupType DEF Profile, Command
<1>3. ApplyTokenResponse([Lookup(cfg, n) EXCEPT !.ws = ws], t) \in Profile
  BY <1>2, ApplyTokenType
<1>4. LoginProfile(c, cfg, t) \in Config
  BY <1>1, <1>3 DEF LoginProfile, Config
<1>5. Consistent(LoginProfile(c, cfg, t))
  BY <1>1, <1>3, NoProfileAssumption DEF LoginProfile, Consistent, Has, Config
<1> QED BY <1>4, <1>5

\* What a command saves is a config, whatever config it loaded.
LEMMA ApplyType ==
  ASSUME NEW c \in Command, c.op \in Writers, WellFormed(c),
         NEW cfg \in Config, NEW t \in Token
  PROVE  Apply(c, cfg, t) \in Config
<1>1. CASE c.op = "create"
  <2>1. c.name \in Names
    BY <1>1 DEF WellFormed, Command
  <2>2. [ZeroProfile EXCEPT !.key = TRUE, !.ws = c.ws] \in Profile
    BY InitialConfigs DEF Profile, Command
  <2>3. CreateProfile(c, cfg) \in Config
    BY <2>1, <2>2 DEF CreateProfile, Config
  <2> QED BY <1>1, <2>3 DEF Apply
<1>2. CASE c.op = "delete"
  <2>1. DeleteProfile(c, cfg) \in Config
    BY DEF DeleteProfile, Config
  <2> QED BY <1>2, <2>1 DEF Apply
<1>3. CASE c.op = "use"
  <2>1. UseProfile(c, cfg) \in Config
    BY DEF UseProfile, Config, Command
  <2> QED BY <1>3, <2>1 DEF Apply
<1>4. CASE c.op = "workspace"
  <2> DEFINE n == LoginProfileName(cfg, c.name)
  <2>1. n \in Names
    BY LoginNameType DEF Command
  <2>2. [Lookup(cfg, n) EXCEPT !.ws = c.ws] \in Profile
    BY LookupType DEF Profile, Command
  <2>3. SetWorkspace(c, cfg) \in Config
    BY <2>1, <2>2 DEF SetWorkspace, Config
  <2> QED BY <1>4, <2>3 DEF Apply
<1>5. CASE c.op = "login"
  BY <1>5, LoginProfileType DEF Apply
<1> QED BY <1>1, <1>2, <1>3, <1>4, <1>5 DEF Writers

\* No command leaves current_profile naming a profile that is not there.
LEMMA ApplyConsistent ==
  ASSUME NEW c \in Command, c.op \in Writers, WellFormed(c),
         NEW cfg \in Config, NEW t \in Token, Accepts(c, cfg), Consistent(cfg)
  PROVE  Consistent(Apply(c, cfg, t))
<1>1. CASE c.op = "create"
  <2>1. c.name \in Names
    BY <1>1 DEF WellFormed, Command
  <2>2. [ZeroProfile EXCEPT !.key = TRUE, !.ws = c.ws] \in Profile
    BY InitialConfigs DEF Profile, Command
  <2>3. Consistent(CreateProfile(c, cfg))
    BY <2>1, <2>2, NoProfileAssumption DEF CreateProfile, Consistent, Has, Config
  <2> QED BY <1>1, <2>3 DEF Apply
<1>2. CASE c.op = "delete"
  <2>1. Consistent(DeleteProfile(c, cfg))
    BY DEF DeleteProfile, Consistent, Has, Config
  <2> QED BY <1>2, <2>1 DEF Apply
<1>3. CASE c.op = "use"
  <2>1. Consistent(UseProfile(c, cfg))
    BY <1>3 DEF UseProfile, Accepts, Consistent, Has, Config
  <2> QED BY <1>3, <2>1 DEF Apply
<1>4. CASE c.op = "workspace"
  <2> DEFINE n == LoginProfileName(cfg, c.name)
  <2>1. n \in Names
    BY LoginNameType DEF Command
  <2>2. [Lookup(cfg, n) EXCEPT !.ws = c.ws] \in Profile
    BY LookupType DEF Profile, Command
  <2>3. Consistent(SetWorkspace(c, cfg))
    BY <2>1, <2>2, NoProfileAssumption DEF SetWorkspace, Consistent, Has, Config
  <2> QED BY <1>4, <2>3 DEF Apply
<1>5. CASE c.op = "login"
  BY <1>5, LoginProfileType DEF Apply
<1> QED BY <1>1, <1>2, <1>3, <1>4, <1>5 DEF Writers

-----------------------------------------------------------------------------
(* Lemmas about a process's own variables and about the server.            *)

\* A process that ends its command is left in its initial state.
LEMMA EndType ==
  ASSUME ProcsOK, NEW p \in Procs, NEW r \in {"none", "ok", "failed", "killed"},
         End(p, r)
  PROVE  ProcsOK'
<1>1. NoCommand \in Command /\ NoToken \in Token
  BY TokensAssumption DEF NoCommand, NoToken, Command, Token, Tokens
<1> QED BY <1>1, InitialConfigs DEF ProcsOK, End, Steps

\* Every answer of the server keeps its books in order.
LEMMA ServerStepType ==
  ASSUME ServerTypeOK,
         \/ \E b \in BOOLEAN : IssueToken(b)
         \/ \E r \in Tokens : Rotate(r) \/ Replay(r) \/ Reject(r)
         \/ \E t \in live : Expire(t)
         \/ UNCHANGED serverVars
  PROVE  ServerTypeOK'
<1> USE TokensAssumption DEF ServerTypeOK
<1>1. ASSUME NEW b \in BOOLEAN, IssueToken(b) PROVE ServerTypeOK'
  BY <1>1 DEF IssueToken
<1>2. ASSUME NEW r \in Tokens, Rotate(r) PROVE ServerTypeOK'
  BY <1>2 DEF Rotate
<1>3. ASSUME NEW r \in Tokens, Replay(r) PROVE ServerTypeOK'
  BY <1>3 DEF Replay
<1>4. ASSUME NEW t \in live, Expire(t) PROVE ServerTypeOK'
  BY <1>4 DEF Expire
<1>5. ASSUME UNCHANGED serverVars PROVE ServerTypeOK'
  BY <1>5 DEF serverVars
<1> QED BY <1>1, <1>2, <1>3, <1>4, <1>5 DEF Reject

LEMMA StoredTokenType ==
  ASSUME FilesOK, disk.doc # Torn, NEW p \in Procs
  PROVE  StoredToken(p) \in Token
BY LookupType DEF StoredToken, FilesOK, File, Profile, Token

-----------------------------------------------------------------------------
(* Type correctness, with the shape of the copies being saved.             *)

LEMMA InitSaveInv == Init => SaveInv
<1> SUFFICES ASSUME Init PROVE SaveInv
  OBVIOUS
<1>0. PICK held \in SUBSET Nat :
        /\ \/ disk = [doc |-> EmptyConfig, synced |-> TRUE]
           \/ disk = [doc |-> SavedConfig, synced |-> TRUE]
        /\ ServerInit(held)
  BY HoldsAssumption, TokensAssumption DEF Init, Tokens
<1>1. disk \in File /\ disk.synced /\ disk.doc \in Config /\ disk.doc # Torn
  <2>1. PICK d \in Config : disk = [doc |-> d, synced |-> TRUE]
    BY <1>0, InitialConfigs
  <2>2. disk \in File
    BY <2>1 DEF File
  <2>3. disk.doc = d
    BY <2>1
  <2>4. disk.synced
    BY <2>1
  <2> QED BY <2>2, <2>3, <2>4, TornAssumption
<1>2. Consistent(EmptyConfig) /\ Consistent(disk.doc)
  <2>1. Consistent(EmptyConfig)
    BY DEF EmptyConfig, Consistent
  <2>2. Consistent(SavedConfig)
    <3>1. [key |-> FALSE, ws |-> None, access |-> Holds[Default],
           refresh |-> Holds[Default]] \in Profile
      BY HoldsAssumption, NamesAssumption DEF Profile
    <3> QED BY <3>1, NamesAssumption, NoProfileAssumption
            DEF SavedConfig, Consistent, Has
  <2> QED BY <1>0, <2>1, <2>2
<1>3. NoCommand \in Command /\ NoToken \in Token
  BY TokensAssumption DEF NoCommand, NoToken, Command, Token, Tokens
<1>4. ServerTypeOK
  <2>1. /\ issued \in Tokens /\ live \subseteq 1 .. issued
        /\ valid \subseteq 1 .. issued /\ rotated = {}
    BY <1>0 DEF ServerInit
  <2>2. replays \in BOOLEAN
    BY <1>0 DEF ServerInit
  <2> QED BY <2>1, <2>2 DEF ServerTypeOK, Tokens
<1>5. TypeOK
  BY <1>1, <1>3, <1>4, InitialConfigs, BoundsAssumption
     DEF Init, TypeOK, FilesOK, ProcsOK, Steps
<1>6. SaveShape
  BY DEF Init, SaveShape
<1>7. DiskIsWhole /\ CopiesConsistent
  BY <1>1, <1>2 DEF Init, DiskIsWhole, CopiesConsistent
<1> QED BY <1>5, <1>6, <1>7 DEF SaveInv

\* Beginning a command.
LEMMA BeginSaveInv ==
  ASSUME SaveInv, NEW p \in Procs, NEW c \in Command, Begin(p, c)
  PROVE  SaveInv'
<1> USE DEF SaveInv
<1>0. disk.doc \in Config /\ NoToken \in Token
  BY TokensAssumption DEF TypeOK, FilesOK, File, DiskIsWhole, NoToken, Token, Tokens
<1>1. CASE StartRefused(p, c) \/ StartKeyRequest(p, c)
  <2>1. PICK r \in {"ok", "failed"} : End(p, r)
    BY <1>1 DEF StartRefused, StartKeyRequest
  <2>2. /\ UNCHANGED <<fileVars, lock, faults, serverVars>>
        /\ started' = started + 1 /\ started < MaxCommands
    BY <1>1 DEF StartRefused, StartKeyRequest, Start
  <2>3. ProcsOK'
    BY <2>1, EndType DEF TypeOK
  <2>4. TypeOK'
    BY <2>2, <2>3, BoundsAssumption
       DEF TypeOK, FilesOK, ServerTypeOK, fileVars, serverVars
  <2>5. SaveShape'
    BY <2>1, <2>2 DEF SaveShape, End, fileVars, TypeOK, ProcsOK
  <2>6. DiskIsWhole' /\ CopiesConsistent'
    BY <2>1, <2>2, NamesAssumption
       DEF DiskIsWhole, CopiesConsistent, End, fileVars, TypeOK, ProcsOK,
           Consistent, EmptyConfig
  <2> QED BY <2>4, <2>5, <2>6
<1>2. CASE StartEdit(p, c)
  <2>1. c.op \in Writers /\ WellFormed(c) /\ Accepts(c, disk.doc)
    BY <1>2 DEF StartEdit, Start
  <2>2. Apply(c, disk.doc, NoToken) \in Config
    BY <1>0, <2>1, ApplyType
  <2>3. Consistent(Apply(c, disk.doc, NoToken))
    BY <1>0, <2>1, ApplyConsistent DEF CopiesConsistent
  <2>4. ProcsOK'
    BY <1>2, <2>2 DEF StartEdit, Goto, TypeOK, ProcsOK, Steps
  <2>5. TypeOK'
    BY <1>2, <2>4, BoundsAssumption
       DEF StartEdit, Start, TypeOK, FilesOK, ServerTypeOK, fileVars, serverVars
  <2>6. SaveShape'
    BY <1>2 DEF StartEdit, Goto, SaveShape, fileVars, TypeOK, ProcsOK
  <2>7. DiskIsWhole' /\ CopiesConsistent'
    BY <1>2, <2>3
       DEF StartEdit, DiskIsWhole, CopiesConsistent, fileVars, TypeOK, ProcsOK
  <2> QED BY <2>5, <2>6, <2>7
<1>3. CASE StartLogin(p, c)
  <2>1. ProcsOK'
    BY <1>3, <1>0 DEF StartLogin, Goto, TypeOK, ProcsOK, Steps
  <2>2. TypeOK'
    BY <1>3, <2>1, BoundsAssumption
       DEF StartLogin, Start, TypeOK, FilesOK, ServerTypeOK, fileVars, serverVars
  <2>3. SaveShape'
    BY <1>3 DEF StartLogin, Goto, SaveShape, fileVars, TypeOK, ProcsOK
  <2>4. DiskIsWhole' /\ CopiesConsistent'
    BY <1>3 DEF StartLogin, DiskIsWhole, CopiesConsistent, fileVars, TypeOK, ProcsOK
  <2> QED BY <2>2, <2>3, <2>4
<1>4. CASE StartRequest(p, c)
  <2> DEFINE n == ResolveProfileName(disk.doc, c.name)
  <2>1. HasOAuth(Lookup(disk.doc, n)) /\ cmd' = [cmd EXCEPT ![p] = [c EXCEPT !.name = n]]
    BY <1>4 DEF StartRequest
  <2>2. n \in Names
    BY <2>1 DEF HasOAuth, Lookup, Has, ZeroProfile
  <2>3. [c EXCEPT !.name = n] \in Command /\ [c EXCEPT !.name = n].name = n
    BY <2>2 DEF Command
  <2> HIDE DEF n
  <2>4. ProcsOK'
    BY <1>4, <2>1, <2>2, <2>3 DEF StartRequest, Goto, TypeOK, ProcsOK, Steps
  <2>5. TypeOK'
    BY <1>4, <2>4, BoundsAssumption
       DEF StartRequest, Start, TypeOK, FilesOK, ServerTypeOK, fileVars, serverVars
  <2>6. SaveShape'
    BY <1>4, <2>1 DEF StartRequest, Goto, SaveShape, fileVars, TypeOK, ProcsOK
  <2>7. DiskIsWhole' /\ CopiesConsistent'
    BY <1>4 DEF StartRequest, DiskIsWhole, CopiesConsistent, fileVars, TypeOK, ProcsOK
  <2> QED BY <2>5, <2>6, <2>7
<1> QED BY <1>1, <1>2, <1>3, <1>4 DEF Begin

\* A step that only ends a command and may give the lock back.
LEMMA EndSaveInv ==
  ASSUME SaveInv, NEW p \in Procs, NEW r \in {"ok", "failed", "killed"}, End(p, r),
         lock' \in {lock, None}, faults' \in 0 .. MaxFaults,
         UNCHANGED <<disk, stable, started>>, ServerTypeOK',
         temp' = temp \/ (temp' = [temp EXCEPT ![p] = NoFile])
  PROVE  SaveInv'
<1> USE DEF SaveInv
<1>1. ProcsOK'
  BY EndType DEF TypeOK
<1>2. TypeOK'
  BY <1>1 DEF TypeOK, FilesOK
<1>3. SaveShape'
  BY DEF SaveShape, End, TypeOK, ProcsOK, FilesOK
<1>4. DiskIsWhole' /\ CopiesConsistent'
  BY DEF DiskIsWhole, CopiesConsistent, End, TypeOK, ProcsOK, Consistent, EmptyConfig
<1> QED BY <1>2, <1>3, <1>4

\* The steps of SaveTo.
LEMMA SaveSaveInv ==
  ASSUME SaveInv, NEW p \in Procs, Save(p)
  PROVE  SaveInv'
<1> USE DEF SaveInv
<1>0. /\ snap[p] \in Config /\ EmptyConfig \in Config
      /\ pc[p] \in Steps
  BY InitialConfigs DEF TypeOK, ProcsOK
<1>1. CASE CreateTemp(p)
  <2>1. temp' \in [Procs -> File \cup {NoFile}]
    BY <1>0, <1>1 DEF CreateTemp, TypeOK, FilesOK, File
  <2>2. ProcsOK'
    BY <1>1 DEF CreateTemp, Goto, TypeOK, ProcsOK, Steps
  <2>3. TypeOK'
    BY <1>1, <2>1, <2>2 DEF CreateTemp, TypeOK, FilesOK, ServerTypeOK, serverVars
  <2>4. SaveShape'
    BY <1>1 DEF CreateTemp, Goto, SaveShape, TypeOK, ProcsOK, FilesOK
  <2>5. DiskIsWhole' /\ CopiesConsistent'
    BY <1>1 DEF CreateTemp, DiskIsWhole, CopiesConsistent
  <2> QED BY <2>3, <2>4, <2>5
<1>2. CASE WriteTemp(p)
  <2>1. temp' \in [Procs -> File \cup {NoFile}]
    BY <1>0, <1>2 DEF WriteTemp, TypeOK, FilesOK, File
  <2>2. ProcsOK'
    BY <1>2 DEF WriteTemp, Goto, TypeOK, ProcsOK, Steps
  <2>3. TypeOK'
    BY <1>2, <2>1, <2>2 DEF WriteTemp, TypeOK, FilesOK, ServerTypeOK, serverVars
  <2>4. SaveShape'
    BY <1>2 DEF WriteTemp, Goto, SaveShape, TypeOK, ProcsOK, FilesOK
  <2>5. DiskIsWhole' /\ CopiesConsistent'
    BY <1>2 DEF WriteTemp, DiskIsWhole, CopiesConsistent
  <2> QED BY <2>3, <2>4, <2>5
<1>3. CASE SyncTemp(p)
  <2>0. temp[p] = [doc |-> snap[p], synced |-> FALSE]
    BY <1>3 DEF SyncTemp, SaveShape
  <2>1. temp' = [temp EXCEPT ![p] = [doc |-> snap[p], synced |-> TRUE]]
    BY <1>3, <2>0 DEF SyncTemp
  <2>2. temp' \in [Procs -> File \cup {NoFile}]
    BY <1>0, <2>1 DEF TypeOK, FilesOK, File
  <2>3. ProcsOK'
    BY <1>3 DEF SyncTemp, Goto, TypeOK, ProcsOK, Steps
  <2>4. TypeOK'
    BY <1>3, <2>2, <2>3 DEF SyncTemp, TypeOK, FilesOK, ServerTypeOK, serverVars
  <2>5. SaveShape'
    BY <1>3, <2>1 DEF SyncTemp, Goto, SaveShape, TypeOK, ProcsOK, FilesOK
  <2>6. DiskIsWhole' /\ CopiesConsistent'
    BY <1>3 DEF SyncTemp, DiskIsWhole, CopiesConsistent
  <2> QED BY <2>4, <2>5, <2>6
<1>4. CASE RenameTemp(p)
  <2>1. disk' = [doc |-> snap[p], synced |-> TRUE]
    BY <1>4 DEF RenameTemp, SaveShape
  <2>2. disk' \in File /\ disk'.doc = snap[p]
    BY <1>0, <2>1 DEF File
  <2>3. ProcsOK'
    BY <1>4, EndType DEF RenameTemp, TypeOK
  <2>4. temp' \in [Procs -> File \cup {NoFile}]
    BY <1>4 DEF RenameTemp, TypeOK, FilesOK
  <2>5. TypeOK'
    BY <1>4, <2>2, <2>3, <2>4
       DEF RenameTemp, TypeOK, FilesOK, ServerTypeOK, serverVars
  <2>6. SaveShape'
    BY <1>4 DEF RenameTemp, End, SaveShape, TypeOK, ProcsOK, FilesOK
  <2>7. disk'.synced
    BY <2>1
  <2>8. DiskIsWhole'
    BY <1>0, <2>2, <2>7, TornAssumption DEF DiskIsWhole
  <2>9. CopiesConsistent'
    BY <1>4, <2>2
       DEF RenameTemp, End, CopiesConsistent, TypeOK, ProcsOK, Consistent, EmptyConfig
  <2> QED BY <2>5, <2>6, <2>8, <2>9
<1>5. CASE SaveFails(p)
  <2>1. temp' = temp \/ temp' = [temp EXCEPT ![p] = NoFile]
    <3>1. CASE pc[p] = "create"
      <4>1. temp' = [temp EXCEPT ![p] = temp[p]]
        BY <1>5, <3>1 DEF SaveFails
      <4> QED BY <4>1 DEF TypeOK, FilesOK
    <3>2. CASE pc[p] # "create"
      BY <1>5, <3>2 DEF SaveFails
    <3> QED BY <3>1, <3>2
  <2>2. ServerTypeOK' /\ faults' \in 0 .. MaxFaults /\ lock' = lock
    BY <1>5 DEF SaveFails, TypeOK, ServerTypeOK, serverVars
  <2>3. End(p, "failed") /\ UNCHANGED <<disk, stable, started>>
    BY <1>5 DEF SaveFails
  <2> QED BY <2>1, <2>2, <2>3, EndSaveInv
<1> QED BY <1>1, <1>2, <1>3, <1>4, <1>5 DEF Save

\* The device flow.
LEMMA LoginSaveInv ==
  ASSUME SaveInv, NEW p \in Procs, Login(p)
  PROVE  SaveInv'
<1> USE DEF SaveInv
<1>1. CASE Authorize(p)
  <2>1. PICK b \in BOOLEAN :
          /\ IssueToken(b)
          /\ tok' = [tok EXCEPT ![p] = [access  |-> issued + 1,
                                        refresh |-> IF b THEN issued + 1 ELSE 0]]
    BY <1>1 DEF Authorize
  <2>2. ServerTypeOK'
    BY <2>1, ServerStepType DEF TypeOK
  <2>3. issued + 1 \in Tokens /\ 0 \in Tokens
    BY <2>1, TokensAssumption DEF IssueToken, TypeOK, ServerTypeOK, Tokens
  <2>4. tok' \in [Procs -> Token]
    BY <2>1, <2>3 DEF Token, TypeOK, ProcsOK
  <2>5. ProcsOK'
    BY <1>1, <2>4 DEF Authorize, Goto, TypeOK, ProcsOK, Steps
  <2>6. TypeOK'
    BY <1>1, <2>2, <2>5 DEF Authorize, TypeOK, FilesOK, fileVars
  <2>7. SaveShape'
    BY <1>1 DEF Authorize, Goto, SaveShape, fileVars, TypeOK, ProcsOK
  <2>8. DiskIsWhole' /\ CopiesConsistent'
    BY <1>1 DEF Authorize, DiskIsWhole, CopiesConsistent, fileVars
  <2> QED BY <2>6, <2>7, <2>8
<1>2. CASE FinishLogin(p)
  <2>1. PICK w \in Workspaces \cup {None} :
          /\ cmd' = [cmd EXCEPT ![p].ws = w]
          /\ snap' = [snap EXCEPT ![p] =
                        Apply([cmd[p] EXCEPT !.ws = w], snap[p], tok[p])]
    BY <1>2 DEF FinishLogin
  <2> DEFINE c == [cmd[p] EXCEPT !.ws = w]
  <2>2. cmd[p] \in Command /\ cmd[p].op = "login"
    BY <1>2 DEF FinishLogin, SaveShape, TypeOK, ProcsOK
  <2>3. c \in Command /\ c.op = "login"
    BY <2>2 DEF Command
  <2>4. snap[p] \in Config /\ tok[p] \in Token /\ Consistent(snap[p])
    BY DEF TypeOK, ProcsOK, CopiesConsistent
  <2>5. Apply(c, snap[p], tok[p]) = LoginProfile(c, snap[p], tok[p])
    BY <2>3 DEF Apply
  <2>6. LoginProfile(c, snap[p], tok[p]) \in Config
    BY <2>3, <2>4, LoginProfileType
  <2>7. Consistent(LoginProfile(c, snap[p], tok[p]))
    BY <2>3, <2>4, LoginProfileType
  <2>8. /\ cmd' \in [Procs -> Command] /\ snap' \in [Procs -> Config]
        /\ \A q \in Procs : cmd'[q].name = cmd[q].name
    <3>1. cmd' = [cmd EXCEPT ![p] = c]
      BY <2>1
    <3>2. c.name = cmd[p].name
      BY <2>2 DEF Command
    <3> HIDE DEF c
    <3> QED BY <2>1, <2>3, <2>5, <2>6, <3>1, <3>2 DEF TypeOK, ProcsOK
  <2>9. ProcsOK'
    BY <1>2, <2>8 DEF FinishLogin, Goto, TypeOK, ProcsOK, Steps
  <2>10. TypeOK'
    BY <1>2, <2>9 DEF FinishLogin, TypeOK, FilesOK, ServerTypeOK, fileVars, serverVars
  <2>11. SaveShape'
    BY <1>2, <2>1 DEF FinishLogin, Goto, SaveShape, fileVars, TypeOK, ProcsOK
  <2>12. DiskIsWhole' /\ CopiesConsistent'
    BY <1>2, <2>1, <2>5, <2>7
       DEF FinishLogin, DiskIsWhole, CopiesConsistent, fileVars, TypeOK, ProcsOK
  <2> QED BY <2>10, <2>11, <2>12
<1>3. CASE LoginFails(p)
  <2>1. /\ End(p, "failed") /\ UNCHANGED <<disk, stable, started, lock>> /\ temp' = temp
        /\ faults' \in 0 .. MaxFaults /\ ServerTypeOK'
    BY <1>3 DEF LoginFails, TypeOK, ServerTypeOK, fileVars, serverVars
  <2> QED BY <2>1, EndSaveInv
<1> QED BY <1>1, <1>2, <1>3 DEF Login

\* Storing a refreshed token changes no profile's existence.
LEMMA StoreTokenConfig ==
  ASSUME disk \in File, disk.synced, disk.doc \in Config, Consistent(disk.doc),
         NEW p \in Procs, tok[p] \in Token, StoreToken(p)
  PROVE  /\ disk' \in File /\ disk'.synced /\ disk'.doc \in Config
         /\ Consistent(disk'.doc)
<1> DEFINE n == cmd[p].name
           old == disk.doc.profiles[n]
           new == [old EXCEPT !.access = tok[p].access, !.refresh = tok[p].refresh]
           d == SetTokens(disk.doc, n, tok[p])
<1>1. CASE Has(disk.doc, n)
  <2>1. n \in Names /\ old \in Profile
    BY <1>1 DEF Has, Config
  <2>2. new \in Profile
    BY <2>1 DEF Profile, Token
  <2>3. d = [disk.doc EXCEPT !.profiles = [disk.doc.profiles EXCEPT ![n] = new]]
    BY DEF SetTokens
  <2>4. /\ d \in Config /\ d.profiles[n] = new /\ d.current = disk.doc.current
        /\ \A m \in Names : m # n => d.profiles[m] = disk.doc.profiles[m]
    <3> HIDE DEF d, new
    <3> QED BY <2>1, <2>2, <2>3 DEF Config
  <2>5. disk' = [disk EXCEPT !.doc = d]
    BY <1>1 DEF StoreToken
  <2> HIDE DEF d, new
  <2>6. disk' \in File /\ disk'.doc = d
    BY <2>4, <2>5 DEF File
  <2>7. disk'.synced
    BY <2>5 DEF File
  <2>8. Consistent(d)
    BY <2>1, <2>2, <2>4, NoProfileAssumption DEF Consistent, Has
  <2> QED BY <2>4, <2>6, <2>7, <2>8
<1>2. CASE ~Has(disk.doc, n)
  BY <1>2 DEF StoreToken
<1> QED BY <1>1, <1>2

\* Requests, with the SDK's refresh.
LEMMA RequestSaveInv ==
  ASSUME SaveInv, NEW p \in Procs, Request(p)
  PROVE  SaveInv'
<1> USE DEF SaveInv
<1>0. /\ tok[p] \in Token /\ disk.doc \in Config
      /\ pc[p] \in {"auth", "lock", "refresh", "store"} => cmd[p].name \in Names
  BY DEF TypeOK, ProcsOK, FilesOK, File, DiskIsWhole
<1>1. CASE SendRequest(p) \/ ShareRefresh(p) \/ RequestFails(p)
  <2>1. PICK r \in {"ok", "failed"} : End(p, r)
    BY <1>1 DEF SendRequest, ShareRefresh, RequestFails
  <2>2. /\ UNCHANGED <<disk, stable, started>> /\ temp' = temp
        /\ lock' \in {lock, None}
        /\ faults' \in 0 .. MaxFaults /\ ServerTypeOK'
    BY <1>1 DEF SendRequest, ShareRefresh, RequestFails, TypeOK, ServerTypeOK,
                fileVars, serverVars
  <2> QED BY <2>1, <2>2, EndSaveInv
<1>2. CASE RefreshRefused(p)
  <2>1. tok[p].refresh \in Tokens
    BY <1>0 DEF Token
  <2>2. ServerTypeOK'
    BY <1>2, <2>1, ServerStepType DEF RefreshRefused, TypeOK
  <2>3. /\ End(p, "failed") /\ UNCHANGED <<disk, stable, started>> /\ temp' = temp
        /\ lock' \in {lock, None} /\ faults' \in 0 .. MaxFaults
    BY <1>2 DEF RefreshRefused, TypeOK, fileVars
  <2> QED BY <2>2, <2>3, EndSaveInv
<1>3. CASE NeedRefresh(p) \/ AcquireLock(p)
  <2>1. tok' = [tok EXCEPT ![p] = StoredToken(p)] /\ StoredToken(p) \in Token
    BY <1>3, StoredTokenType DEF NeedRefresh, AcquireLock, TypeOK
  <2>2. /\ pc' \in {[pc EXCEPT ![p] = "lock"], [pc EXCEPT ![p] = "refresh"]}
        /\ cmd[p].name \in Names
        /\ UNCHANGED <<fileVars, cmd, snap, out, started, faults, serverVars>>
        /\ lock' \in {lock, p}
    BY <1>0, <1>3 DEF NeedRefresh, AcquireLock, Goto
  <2>3. ProcsOK'
    BY <2>1, <2>2 DEF TypeOK, ProcsOK, Steps
  <2>4. TypeOK'
    BY <2>2, <2>3 DEF TypeOK, FilesOK, ServerTypeOK, fileVars, serverVars
  <2>5. SaveShape'
    BY <2>2 DEF SaveShape, fileVars, TypeOK, ProcsOK
  <2>6. DiskIsWhole' /\ CopiesConsistent'
    BY <2>2 DEF DiskIsWhole, CopiesConsistent, fileVars
  <2> QED BY <2>4, <2>5, <2>6
<1>4. CASE RefreshToken(p)
  <2>1. tok[p].refresh \in Tokens
    BY <1>0 DEF Token
  <2>2. ServerTypeOK'
    BY <1>4, <2>1, ServerStepType DEF RefreshToken, TypeOK
  <2>3. issued + 1 \in Tokens
    BY <1>4, TokensAssumption DEF RefreshToken, Rotate, TypeOK, ServerTypeOK, Tokens
  <2>4. tok' \in [Procs -> Token]
    BY <1>4, <2>3 DEF RefreshToken, Token, TypeOK, ProcsOK
  <2>5. ProcsOK'
    BY <1>0, <1>4, <2>4 DEF RefreshToken, Goto, TypeOK, ProcsOK, Steps
  <2>6. TypeOK'
    BY <1>4, <2>2, <2>5 DEF RefreshToken, TypeOK, FilesOK, fileVars
  <2>7. SaveShape'
    BY <1>4 DEF RefreshToken, Goto, SaveShape, fileVars, TypeOK, ProcsOK
  <2>8. DiskIsWhole' /\ CopiesConsistent'
    BY <1>4 DEF RefreshToken, DiskIsWhole, CopiesConsistent, fileVars
  <2> QED BY <2>6, <2>7, <2>8
<1>5. CASE StoreToken(p)
  <2>1. /\ disk' \in File /\ disk'.synced /\ disk'.doc \in Config
        /\ Consistent(disk'.doc)
    BY <1>0, <1>5, StoreTokenConfig DEF TypeOK, FilesOK, DiskIsWhole, CopiesConsistent
  <2>2. /\ End(p, "ok") /\ UNCHANGED <<stable, temp, started, faults, serverVars>>
        /\ lock' = None
    BY <1>5 DEF StoreToken
  <2>3. ProcsOK'
    BY <2>2, EndType DEF TypeOK
  <2>4. TypeOK'
    BY <2>1, <2>2, <2>3 DEF TypeOK, FilesOK, ServerTypeOK, serverVars
  <2>5. SaveShape'
    BY <2>2 DEF End, SaveShape, TypeOK, ProcsOK
  <2>6. DiskIsWhole' /\ CopiesConsistent'
    BY <2>1, <2>2, TornAssumption
       DEF DiskIsWhole, CopiesConsistent, End, TypeOK, ProcsOK, Consistent, EmptyConfig
  <2> QED BY <2>4, <2>5, <2>6
<1> QED BY <1>1, <1>2, <1>3, <1>4, <1>5 DEF Request

\* Faults of the machine, tokens expiring, and the end of the run.
LEMMA MachineSaveInv ==
  ASSUME SaveInv,
         \/ \E p \in Procs : Crash(p)
         \/ PowerLoss \/ WriteBack \/ ExpireToken \/ UNCHANGED vars
  PROVE  SaveInv'
<1> USE DEF SaveInv
<1>1. ASSUME NEW p \in Procs, Crash(p) PROVE SaveInv'
  <2>1. /\ End(p, "killed") /\ UNCHANGED <<disk, stable, started>> /\ temp' = temp
        /\ lock' \in {lock, None}
        /\ faults' \in 0 .. MaxFaults /\ ServerTypeOK'
    BY <1>1, BoundsAssumption
       DEF Crash, TypeOK, ServerTypeOK, fileVars, serverVars
  <2> QED BY <2>1, EndSaveInv
<1>2. CASE PowerLoss
  <2>1. PICK d \in {disk.doc, stable} :
          disk' = [doc |-> d, synced |-> TRUE] /\ stable' = d
    BY <1>2 DEF PowerLoss, AfterPowerLoss, DiskIsWhole
  <2>2. d \in Config /\ d # Torn /\ Consistent(d)
    BY DEF TypeOK, FilesOK, File, DiskIsWhole, CopiesConsistent
  <2>3. disk' \in File /\ disk'.doc = d
    BY <2>1, <2>2 DEF File
  <2>4. disk'.synced
    BY <2>1
  <2>5. NoCommand \in Command /\ NoToken \in Token
    BY TokensAssumption DEF NoCommand, NoToken, Command, Token, Tokens
  <2>6. FilesOK'
    BY <1>2, <2>1, <2>2, <2>3 DEF PowerLoss, FilesOK
  <2>7. ProcsOK'
    BY <1>2, <2>5, InitialConfigs DEF PowerLoss, TypeOK, ProcsOK, Steps
  <2>8. TypeOK'
    BY <1>2, <2>6, <2>7, BoundsAssumption
       DEF PowerLoss, TypeOK, ServerTypeOK, serverVars
  <2>9. SaveShape'
    BY <1>2 DEF PowerLoss, SaveShape
  <2>10. DiskIsWhole' /\ CopiesConsistent'
    BY <1>2, <2>1, <2>2, <2>3, <2>4
       DEF PowerLoss, DiskIsWhole, CopiesConsistent, Consistent, EmptyConfig
  <2> QED BY <2>8, <2>9, <2>10
<1>3. CASE WriteBack
  <2>1. ProcsOK' /\ SaveShape'
    BY <1>3 DEF WriteBack, TypeOK, ProcsOK, SaveShape, procVars
  <2>2. TypeOK'
    BY <1>3, <2>1
       DEF WriteBack, TypeOK, FilesOK, File, ServerTypeOK, serverVars
  <2>3. DiskIsWhole' /\ CopiesConsistent'
    BY <1>3 DEF WriteBack, DiskIsWhole, CopiesConsistent, procVars
  <2> QED BY <2>1, <2>2, <2>3
<1>4. CASE ExpireToken
  <2>1. ServerTypeOK'
    BY <1>4, ServerStepType DEF ExpireToken, TypeOK
  <2>2. TypeOK' /\ SaveShape' /\ DiskIsWhole' /\ CopiesConsistent'
    BY <1>4, <2>1
       DEF ExpireToken, TypeOK, FilesOK, ProcsOK, SaveShape, DiskIsWhole,
           CopiesConsistent, fileVars, procVars
  <2> QED BY <2>2
<1>5. CASE UNCHANGED vars
  BY <1>5 DEF vars, TypeOK, FilesOK, ProcsOK, ServerTypeOK, SaveShape, DiskIsWhole,
              CopiesConsistent, fileVars, procVars, serverVars
<1> QED BY <1>1, <1>2, <1>3, <1>4, <1>5

\* SaveInv is an invariant of the specification.
THEOREM SaveInvariant == Spec => []SaveInv
<1>1. SaveInv /\ [Next]_vars => SaveInv'
  <2> SUFFICES ASSUME SaveInv, [Next]_vars PROVE SaveInv'
    OBVIOUS
  <2>1. ASSUME NEW p \in Procs, NEW c \in Command, Begin(p, c) PROVE SaveInv'
    BY <2>1, BeginSaveInv
  <2>2. ASSUME NEW p \in Procs, Step(p) PROVE SaveInv'
    BY <2>2, SaveSaveInv, LoginSaveInv, RequestSaveInv DEF Step
  <2>3. ASSUME NEW p \in Procs, Crash(p) PROVE SaveInv'
    BY <2>3, MachineSaveInv
  <2>4. CASE PowerLoss \/ WriteBack \/ ExpireToken \/ Finished \/ UNCHANGED vars
    BY <2>4, MachineSaveInv DEF Finished
  <2> QED BY <2>1, <2>2, <2>3, <2>4 DEF Next
<1> QED BY <1>1, InitSaveInv, PTL DEF Spec

\* Every variable keeps its type.
THEOREM TypeCorrect == Spec => []TypeOK
BY SaveInvariant, PTL DEF SaveInv

\* A step of p that is none of SaveTo's leaves p's temporary file alone: p has
\* none then, unless a process was killed before.
LEMMA OtherStepKeepsTemp ==
  ASSUME TypeOK, TempShape, NEW p \in Procs, pc[p] \notin {"write", "sync", "rename"},
         NEW step, pc' = [pc EXCEPT ![p] = step], UNCHANGED <<temp, faults>>
  PROVE  TempShape'
BY DEF TypeOK, ProcsOK, FilesOK, TempShape

\* A step after which p has no temporary file.
LEMMA RemovalKeepsTemp ==
  ASSUME TypeOK, TempShape, NEW p \in Procs, NEW step, pc' = [pc EXCEPT ![p] = step],
         temp' = [temp EXCEPT ![p] = NoFile], UNCHANGED faults
  PROVE  TempShape'
BY DEF TypeOK, ProcsOK, FilesOK, TempShape

\* SaveTo's own steps.
LEMMA SaveTempShape ==
  ASSUME TypeOK, TempShape, NEW p \in Procs, Save(p)
  PROVE  TempShape'
<1>1. CASE CreateTemp(p) \/ WriteTemp(p) \/ SyncTemp(p)
  BY <1>1 DEF CreateTemp, WriteTemp, SyncTemp, Goto, TypeOK, ProcsOK, FilesOK, TempShape
<1>2. CASE RenameTemp(p)
  BY <1>2, RemovalKeepsTemp DEF RenameTemp, End
<1>3. CASE SaveFails(p)
  <2>1. CASE pc[p] = "create"
    <3>1. temp' = temp
      BY <1>3, <2>1 DEF SaveFails, TypeOK, FilesOK
    <3> QED BY <1>3, <2>1, <3>1, OtherStepKeepsTemp DEF SaveFails, End
  <2>2. CASE pc[p] # "create"
    BY <1>3, <2>2, RemovalKeepsTemp DEF SaveFails, End
  <2> QED BY <2>1, <2>2
<1> QED BY <1>1, <1>2, <1>3 DEF Save

\* Steps of a command that is not saving.
LEMMA CommandTempShape ==
  ASSUME TypeOK, TempShape, NEW p \in Procs,
         (\E c \in Command : Begin(p, c)) \/ Login(p) \/ Request(p)
  PROVE  TempShape'
<1>1. /\ pc[p] \notin {"write", "sync", "rename"}
      /\ UNCHANGED <<temp, faults>>
      /\ \E step \in Steps : pc' = [pc EXCEPT ![p] = step]
  <2>1. CASE \E c \in Command : Begin(p, c)
    <3> PICK c \in Command : Begin(p, c)
      BY <2>1
    <3> QED BY DEF Begin, StartRefused, StartEdit, StartLogin, StartRequest, StartKeyRequest, Start, Goto, End,
                   Steps, fileVars
  <2>2. CASE Login(p)
    BY <2>2 DEF Login, Authorize, FinishLogin, LoginFails, Goto, End, Steps, fileVars
  <2>3. CASE Request(p)
    BY <2>3 DEF Request, SendRequest, NeedRefresh, AcquireLock, ShareRefresh, RefreshToken, RefreshRefused,
                StoreToken, RequestFails, Goto, End, Steps, fileVars
  <2> QED BY <2>1, <2>2, <2>3
<1> QED BY <1>1, OtherStepKeepsTemp

\* A save that failed leaves no temporary file with tokens in it, at whatever call
\* it failed; only a killed process or a power loss does (SaveTo).
THEOREM TempsAreRemoved == Spec => []TempRemoved
<1>1. Init => TempShape
  BY DEF Init, TempShape
<1>2. SaveInv /\ TempShape /\ [Next]_vars => TempShape'
  <2> SUFFICES ASSUME SaveInv, TempShape, [Next]_vars PROVE TempShape'
    OBVIOUS
  <2>0. TypeOK /\ faults \in Nat
    BY BoundsAssumption DEF SaveInv, TypeOK
  <2>1. ASSUME NEW p \in Procs, (\E c \in Command : Begin(p, c)) \/ Step(p) PROVE TempShape'
    BY <2>0, <2>1, SaveTempShape, CommandTempShape DEF Step
  <2>2. ASSUME NEW p \in Procs, Crash(p) PROVE TempShape'
    BY <2>0, <2>2 DEF Crash, TempShape
  <2>3. CASE PowerLoss
    BY <2>0, <2>3 DEF PowerLoss, TempShape
  <2>4. CASE WriteBack \/ ExpireToken \/ Finished \/ UNCHANGED vars
    BY <2>4 DEF WriteBack, ExpireToken, Finished, vars, fileVars, procVars, TempShape
  <2> QED BY <2>1, <2>2, <2>3, <2>4 DEF Next
<1>3. TempShape => TempRemoved
  BY DEF TempShape, TempRemoved
<1> QED BY <1>1, <1>2, <1>3, SaveInvariant, PTL DEF Spec

\* The config's current profile exists, however commands, crashes and power
\* losses interleave.
THEOREM CurrentAlwaysExists == Spec => []CurrentExists
<1>1. SaveInv => CurrentExists
  BY DEF SaveInv, CopiesConsistent, CurrentExists
<1> QED BY <1>1, SaveInvariant, PTL

\* The config is at every moment a whole document whose bytes are on disk.
THEOREM DiskAlwaysWhole == Spec => []DiskIsWhole
BY SaveInvariant, PTL DEF SaveInv

\* Whatever is edited, interleaved, failing, killed or cut off: the config is whole
\* and consistent, and nothing is left of the saves that failed.
THEOREM ConfigStaysSound == Spec => []ConfigIsSound
BY CurrentAlwaysExists, DiskAlwaysWhole, TempsAreRemoved, PTL DEF ConfigIsSound

-----------------------------------------------------------------------------
(***************************************************************************)
(* Concurrent requests and nothing else: however many processes share the  *)
(* config and however their steps interleave, no refresh token is spent    *)
(* twice and no profile loses its session.                                 *)
(***************************************************************************)

LEMMA InitSessionInv == Init => SessionInv
<1> SUFFICES ASSUME Init PROVE SessionInv
  OBVIOUS
<1> DEFINE tokens == {Holds[n] : n \in Names} \ {0}
<1>1. \/ disk.doc = EmptyConfig /\ valid = {}
      \/ disk.doc = SavedConfig /\ valid = tokens
  BY DEF Init, ServerInit
<1>2. ~replays /\ rotated = {} /\ \A p \in Procs : pc[p] = "idle"
  BY DEF Init, ServerInit
<1>3. lock = None
  BY DEF Init
<1>4. \A n \in Names : Has(disk.doc, n) =>
        /\ disk.doc = SavedConfig /\ valid = tokens
        /\ RefreshOf(n) = Holds[n] /\ Holds[n] # 0
  BY <1>1 DEF Has, EmptyConfig, SavedConfig, RefreshOf
<1>5. SessionKept
  BY <1>4 DEF SessionKept, RefreshOf
<1>6. DistinctTokens
  BY <1>4, HoldsAssumption DEF DistinctTokens
<1>7. LockShape /\ FreshShape
  BY <1>2, <1>3, ProcsAssumption DEF LockShape, FreshShape
<1> QED BY <1>2, <1>5, <1>6, <1>7 DEF SessionInv, NoReplay

\* Ending a command that changed neither the config nor the server's books.
LEMMA EndSession ==
  ASSUME SaveInv, SessionInv, NEW p \in Procs, NEW r \in {"ok", "failed"}, End(p, r),
         pc[p] # "store",
         lock' = IF lock = p THEN None ELSE lock,
         UNCHANGED <<disk, serverVars>>
  PROVE  SessionInv'
<1> USE DEF SaveInv, SessionInv
<1>1. \A q \in Procs : q # p => /\ pc'[q] = pc[q] /\ cmd'[q] = cmd[q] /\ tok'[q] = tok[q]
  BY DEF End, TypeOK, ProcsOK
<1>2. pc'[p] = "idle"
  BY DEF End, TypeOK, ProcsOK
<1>3. NoReplay' /\ (valid \cap rotated = {})' /\ DistinctTokens'
  BY DEF NoReplay, serverVars, DistinctTokens, RefreshOf
<1>4. SessionKept'
  BY <1>1, <1>2 DEF SessionKept, serverVars
<1>5. LockShape'
  BY <1>1, <1>2, ProcsAssumption DEF LockShape, Requesting, StoredToken
<1>6. FreshShape'
  BY <1>1, <1>2 DEF FreshShape, serverVars, RefreshOf
<1> QED BY <1>3, <1>4, <1>5, <1>6

\* A process that moves on in its request without touching the config or the
\* server.
LEMMA MoveSession ==
  ASSUME SaveInv, SessionInv, NEW p \in Procs,
         NEW step \in {"auth", "lock", "refresh"}, Goto(p, step),
         pc[p] # "store",
         \A q \in Procs : q # p => cmd'[q] = cmd[q] /\ tok'[q] = tok[q],
         Has(disk.doc, cmd'[p].name),
         step = "refresh" => lock = None /\ lock' = p /\ tok'[p] = StoredToken(p)'
                             /\ pc[p] # "refresh",
         step # "refresh" => lock' = lock /\ pc[p] # "refresh",
         UNCHANGED <<disk, serverVars>>
  PROVE  SessionInv'
<1> USE DEF SaveInv, SessionInv
<1>1. \A q \in Procs : q # p => pc'[q] = pc[q]
  BY DEF Goto, TypeOK, ProcsOK
<1>2. pc'[p] = step
  BY DEF Goto, TypeOK, ProcsOK
<1>3. NoReplay' /\ (valid \cap rotated = {})' /\ DistinctTokens'
  BY DEF NoReplay, serverVars, DistinctTokens, RefreshOf
<1>4. SessionKept'
  BY <1>1, <1>2 DEF SessionKept, serverVars
<1>5. LockShape'
  <2>1. SUFFICES ASSUME NEW q \in Procs
                 PROVE  /\ (pc[q] = "idle" \/ (Requesting(q) /\ Has(disk.doc, cmd[q].name)))'
                        /\ (pc[q] \in {"refresh", "store"} <=> lock = q)'
                        /\ (pc[q] = "refresh" => tok[q] = StoredToken(q))'
    BY DEF LockShape
  <2>2. CASE q = p
    BY <1>2, <2>2, ProcsAssumption DEF LockShape, Requesting
  <2>3. CASE q # p
    <3>1. pc'[q] = pc[q] /\ cmd'[q] = cmd[q] /\ tok'[q] = tok[q] /\ StoredToken(q)' = StoredToken(q)
      BY <1>1, <2>3 DEF StoredToken
    <3>2. lock' = q <=> lock = q
      BY <2>3, ProcsAssumption DEF LockShape
    <3> QED BY <3>1, <3>2 DEF LockShape, Requesting
  <2> QED BY <2>2, <2>3
<1>6. FreshShape'
  BY <1>1, <1>2 DEF FreshShape, serverVars, RefreshOf
<1> QED BY <1>3, <1>4, <1>5, <1>6

\* The refresh itself: the server exchanges the token the profile holds.
LEMMA RefreshSession ==
  ASSUME SaveInv, SessionInv, NEW p \in Procs, RefreshToken(p)
  PROVE  SessionInv'
<1> USE DEF SaveInv, SessionInv
<1>0. PICK r \in Nat, n \in Names : r = tok[p].refresh /\ n = cmd[p].name
  BY DEF RefreshToken, TypeOK, ProcsOK, Token, Tokens
<1>1. /\ pc[p] = "refresh" /\ Rotate(r)
      /\ tok' = [tok EXCEPT ![p] = [access |-> issued + 1, refresh |-> issued + 1]]
      /\ UNCHANGED <<disk, cmd, lock>>
      /\ pc' = [pc EXCEPT ![p] = "store"]
  BY <1>0 DEF RefreshToken, Goto, fileVars
<1>2. Has(disk.doc, n) /\ r = RefreshOf(n)
  <2>1. Has(disk.doc, n) /\ tok[p] = StoredToken(p)
    BY <1>0, <1>1 DEF LockShape
  <2>2. StoredToken(p).refresh = RefreshOf(n)
    BY <1>0, <2>1 DEF StoredToken, RefreshOf, Lookup
  <2> QED BY <1>0, <2>1, <2>2
<1>3. /\ r \in valid /\ issued \in Nat /\ issued' = issued + 1
      /\ valid' = (valid \ {r}) \cup {issued + 1}
      /\ rotated' = rotated \cup {r} /\ replays' = replays
      /\ valid \subseteq 1 .. issued /\ rotated \subseteq 1 .. issued
  BY <1>1 DEF Rotate, TypeOK, ServerTypeOK
<1>4. \A q \in Procs : q # p => pc[q] # "store" /\ pc'[q] = pc[q] /\ tok'[q] = tok[q]
  BY <1>1 DEF LockShape, TypeOK, ProcsOK
<1>5. pc'[p] = "store" /\ tok'[p].refresh = issued + 1
  BY <1>1 DEF TypeOK, ProcsOK
<1>6. \A m \in Names : Has(disk.doc, m) /\ RefreshOf(m) # 0 => RefreshOf(m) \in valid
  BY <1>1, <1>4 DEF SessionKept, RefreshOf
<1>7. NoReplay' /\ (valid \cap rotated = {})'
  <2>1. NoReplay'
    BY <1>3 DEF NoReplay
  <2>2. issued + 1 \notin rotated /\ r # issued + 1
    BY <1>0, <1>3
  <2>3. valid' \cap rotated' = {}
    BY <1>3, <2>2
  <2> QED BY <2>1, <2>3
<1>8. DistinctTokens'
  BY <1>1 DEF DistinctTokens, RefreshOf
<1>9. SessionKept'
  <2>1. \A m \in Names : Has(disk.doc, m) /\ m # n /\ RefreshOf(m) # 0
          => RefreshOf(m) \in valid \ {r}
    BY <1>2, <1>3, <1>6 DEF DistinctTokens
  <2> QED BY <1>0, <1>1, <1>3, <1>5, <2>1 DEF SessionKept, RefreshOf
<1>10. LockShape'
  BY <1>1, <1>4, <1>5 DEF LockShape, Requesting, StoredToken, TypeOK, ProcsOK
<1>11. FreshShape'
  <2>1. \A m \in Names : Has(disk.doc, m) => RefreshOf(m) # issued + 1
    <3> SUFFICES ASSUME NEW m \in Names, Has(disk.doc, m), RefreshOf(m) = issued + 1
                 PROVE  FALSE
      OBVIOUS
    <3>1. issued + 1 \in valid
      BY <1>3, <1>6
    <3> QED BY <1>3, <3>1
  <2> QED BY <1>0, <1>1, <1>3, <1>4, <1>5, <2>1 DEF FreshShape, RefreshOf
<1> QED BY <1>7, <1>8, <1>9, <1>10, <1>11

\* Writing the new token back gives the profile a valid token again.
LEMMA StoreSession ==
  ASSUME SaveInv, SessionInv, NEW p \in Procs, StoreToken(p)
  PROVE  SessionInv'
<1> USE DEF SaveInv, SessionInv
<1>1. pc[p] = "store" /\ End(p, "ok") /\ lock' = None /\ UNCHANGED serverVars
  BY DEF StoreToken
<1>2. PICK n \in Names : n = cmd[p].name /\ Has(disk.doc, n)
  BY <1>1 DEF LockShape, Has
<1> DEFINE old == disk.doc.profiles[n]
           new == [old EXCEPT !.access = tok[p].access, !.refresh = tok[p].refresh]
<1>3. disk.doc \in Config /\ tok[p] \in Token /\ disk \in File
  BY DEF TypeOK, ProcsOK, FilesOK, File, DiskIsWhole
<1>4. old \in Profile /\ new \in Profile /\ new.refresh = tok[p].refresh
  BY <1>2, <1>3 DEF Has, Config, Profile, Token
<1>5. disk' = [disk EXCEPT !.doc = SetTokens(disk.doc, n, tok[p])]
  BY <1>2 DEF StoreToken
<1>6. disk'.doc = [disk.doc EXCEPT !.profiles = [disk.doc.profiles EXCEPT ![n] = new]]
  BY <1>3, <1>5 DEF SetTokens, File
<1> HIDE DEF new
<1>7. /\ disk'.doc.profiles[n] = new
      /\ \A m \in Names : m # n => disk'.doc.profiles[m] = disk.doc.profiles[m]
  BY <1>2, <1>3, <1>6 DEF Config
<1>8. \A m \in Names : Has(disk'.doc, m) <=> Has(disk.doc, m)
  BY <1>2, <1>4, <1>7, NoProfileAssumption DEF Has
<1>9. /\ RefreshOf(n)' = tok[p].refresh /\ tok[p].refresh \in valid
      /\ \A m \in Names : m # n => RefreshOf(m)' = RefreshOf(m)
  BY <1>1, <1>4, <1>7 DEF RefreshOf, FreshShape
<1>10. \A q \in Procs : q # p => /\ pc[q] \notin {"refresh", "store"} /\ lock # q
                                 /\ pc'[q] = pc[q] /\ cmd'[q] = cmd[q]
  BY <1>1 DEF LockShape, End, TypeOK, ProcsOK
<1>11. pc'[p] = "idle"
  BY <1>1 DEF End, TypeOK, ProcsOK
<1>12. NoReplay' /\ (valid \cap rotated = {})'
  BY <1>1 DEF NoReplay, serverVars
<1>13. SessionKept'
  <2>1. \A m \in Names : m # n /\ Has(disk.doc, m) /\ RefreshOf(m) # 0 => RefreshOf(m) \in valid
    BY <1>2, <1>10 DEF SessionKept, RefreshOf
  <2>2. \A m \in Names : Has(disk'.doc, m) /\ RefreshOf(m)' # 0 => RefreshOf(m)' \in valid'
    BY <1>1, <1>8, <1>9, <2>1 DEF serverVars
  <2> QED BY <2>2 DEF SessionKept, RefreshOf
<1>14. DistinctTokens'
  <2>1. \A m \in Names : m # n /\ Has(disk.doc, m) => RefreshOf(m) # tok[p].refresh
    BY <1>1, <1>2 DEF FreshShape
  <2>2. SUFFICES ASSUME NEW m \in Names, NEW k \in Names, m # k,
                        Has(disk.doc, m), Has(disk.doc, k), RefreshOf(m)' # 0
                 PROVE  RefreshOf(m)' # RefreshOf(k)'
    BY <1>8 DEF DistinctTokens
  <2>3. CASE m = n
    BY <1>9, <2>1, <2>2, <2>3
  <2>4. CASE k = n
    BY <1>9, <2>1, <2>2, <2>4
  <2>5. CASE m # n /\ k # n
    BY <1>9, <2>2, <2>5 DEF DistinctTokens
  <2> QED BY <2>3, <2>4, <2>5
<1>15. LockShape'
  <2>1. \A q \in Procs : q # p /\ pc[q] # "idle" => Requesting(q) /\ Has(disk'.doc, cmd[q].name)
    BY <1>8 DEF LockShape, Has
  <2> QED BY <1>1, <1>10, <1>11, <2>1, ProcsAssumption DEF LockShape, Requesting
<1>16. FreshShape'
  BY <1>10, <1>11 DEF FreshShape
<1> QED BY <1>12, <1>13, <1>14, <1>15, <1>16

\* The token read under the lock was never exchanged before.
LEMMA NeverReplayed ==
  ASSUME SaveInv, SessionInv, NEW p \in Procs, pc[p] = "refresh"
  PROVE  tok[p].refresh \notin rotated
<1> USE DEF SaveInv, SessionInv
<1>1. PICK n \in Names : n = cmd[p].name /\ Has(disk.doc, n)
  BY DEF LockShape, Has
<1>2. tok[p].refresh = RefreshOf(n)
  <2>1. tok[p] = StoredToken(p)
    BY DEF LockShape
  <2>2. StoredToken(p).refresh = RefreshOf(n)
    BY <1>1 DEF StoredToken, RefreshOf, Lookup
  <2> QED BY <2>1, <2>2
<1>3. \A q \in Procs : pc[q] # "store"
  BY DEF LockShape
<1>4. CASE RefreshOf(n) = 0
  BY <1>2, <1>4 DEF TypeOK, ServerTypeOK
<1>5. CASE RefreshOf(n) # 0
  BY <1>1, <1>2, <1>3, <1>5 DEF SessionKept, RefreshOf
<1> QED BY <1>4, <1>5

LEMMA RequestSession ==
  ASSUME SaveInv, SessionInv, NEW p \in Procs, Request(p)
  PROVE  SessionInv'
<1>1. CASE SendRequest(p) \/ ShareRefresh(p) \/ RequestFails(p)
  <2>1. PICK r \in {"ok", "failed"} : End(p, r)
    BY <1>1 DEF SendRequest, ShareRefresh, RequestFails
  <2>2. /\ UNCHANGED <<disk, serverVars>> /\ pc[p] # "store"
        /\ lock' = IF lock = p THEN None ELSE lock
    BY <1>1 DEF SendRequest, ShareRefresh, RequestFails, fileVars, SessionInv, LockShape
  <2> QED BY <2>1, <2>2, EndSession
<1>2. CASE RefreshRefused(p)
  <2>1. pc[p] = "refresh" /\ ~Replay(tok[p].refresh)
    BY <1>2, NeverReplayed DEF RefreshRefused, Replay
  <2>2. /\ End(p, "failed") /\ UNCHANGED <<disk, serverVars>>
        /\ lock' = IF lock = p THEN None ELSE lock
    BY <1>2, <2>1 DEF RefreshRefused, Reject, fileVars, SessionInv, LockShape
  <2> QED BY <2>1, <2>2, EndSession
<1>3. CASE NeedRefresh(p) \/ AcquireLock(p)
  <2>1. PICK step \in {"lock", "refresh"} : Goto(p, step)
    BY <1>3 DEF NeedRefresh, AcquireLock
  <2>2. /\ pc[p] \in {"auth", "lock"} /\ UNCHANGED <<disk, cmd, serverVars>>
        /\ tok' = [tok EXCEPT ![p] = StoredToken(p)]
    BY <1>3 DEF NeedRefresh, AcquireLock, fileVars
  <2>3. \A q \in Procs : q # p => cmd'[q] = cmd[q] /\ tok'[q] = tok[q]
    BY <2>2 DEF SaveInv, TypeOK, ProcsOK
  <2>4. Has(disk.doc, cmd'[p].name)
    BY <2>2 DEF SessionInv, LockShape
  <2>5. tok'[p] = StoredToken(p)'
    BY <2>2 DEF StoredToken, SaveInv, TypeOK, ProcsOK
  <2>6. /\ step = "refresh" => lock = None /\ lock' = p
        /\ step # "refresh" => lock' = lock
    BY <1>3, <2>1 DEF NeedRefresh, AcquireLock, Goto, SaveInv, TypeOK, ProcsOK
  <2> QED BY <2>1, <2>2, <2>3, <2>4, <2>5, <2>6, MoveSession
<1>4. CASE RefreshToken(p)
  BY <1>4, RefreshSession
<1>5. CASE StoreToken(p)
  BY <1>5, StoreSession
<1> QED BY <1>1, <1>2, <1>3, <1>4, <1>5 DEF Request

LEMMA BeginSession ==
  ASSUME OnlyRequests, SaveInv, SessionInv,
         NEW p \in Procs, NEW c \in Command, Begin(p, c)
  PROVE  SessionInv'
<1>1. pc[p] = "idle" /\ c.op = "request" /\ lock # p /\ lock' = lock
      /\ UNCHANGED <<disk, serverVars>>
  BY DEF Begin, StartRefused, StartEdit, StartLogin, StartRequest, StartKeyRequest,
         Start, OnlyRequests, fileVars, SessionInv, LockShape
<1>2. CASE StartRefused(p, c) \/ StartKeyRequest(p, c)
  <2>1. PICK r \in {"ok", "failed"} : End(p, r)
    BY <1>2 DEF StartRefused, StartKeyRequest
  <2> QED BY <1>1, <2>1, EndSession
<1>3. CASE StartRequest(p, c)
  <2>1. PICK n : /\ HasOAuth(Lookup(disk.doc, n))
                 /\ cmd' = [cmd EXCEPT ![p] = [c EXCEPT !.name = n]]
    BY <1>3 DEF StartRequest
  <2>2. Has(disk.doc, n)
    BY <2>1 DEF HasOAuth, Lookup, ZeroProfile
  <2>3. cmd'[p].name = n
    BY <2>1 DEF Command, SaveInv, TypeOK, ProcsOK
  <2>4. \A q \in Procs : q # p => cmd'[q] = cmd[q] /\ tok'[q] = tok[q]
    BY <1>3, <2>1 DEF StartRequest, SaveInv, TypeOK, ProcsOK
  <2>5. Goto(p, "auth")
    BY <1>3 DEF StartRequest
  <2> QED BY <1>1, <2>2, <2>3, <2>4, <2>5, MoveSession
<1> QED BY <1>1, <1>2, <1>3 DEF Begin, StartEdit, StartLogin, Writers

LEMMA SessionInvariant ==
  ASSUME OnlyRequests
  PROVE  Spec => []SessionInv
<1>1. SaveInv /\ SessionInv /\ [Next]_vars => SessionInv'
  <2> SUFFICES ASSUME SaveInv, SessionInv, [Next]_vars PROVE SessionInv'
    OBVIOUS
  <2>1. ASSUME NEW p \in Procs, NEW c \in Command, Begin(p, c) PROVE SessionInv'
    BY <2>1, BeginSession
  <2>2. ASSUME NEW p \in Procs, Step(p) PROVE SessionInv'
    <3>1. ~Save(p) /\ ~Login(p)
      BY DEF SessionInv, LockShape, Requesting, Save, CreateTemp, WriteTemp, SyncTemp,
             RenameTemp, SaveFails, Login, Authorize, FinishLogin, LoginFails
    <3> QED BY <2>2, <3>1, RequestSession DEF Step
  <2>3. ASSUME NEW p \in Procs, Crash(p) PROVE SessionInv'
    BY <2>3 DEF Crash, OnlyRequests, SaveInv, TypeOK
  <2>4. CASE PowerLoss \/ WriteBack
    BY <2>4 DEF PowerLoss, WriteBack, OnlyRequests, SaveInv, TypeOK
  <2>5. CASE ExpireToken
    <3>1. /\ UNCHANGED <<valid, rotated, replays, disk, pc, cmd, tok, lock>>
      BY <2>5 DEF ExpireToken, Expire, fileVars, procVars
    <3> QED BY <3>1 DEF SessionInv, NoReplay, SessionKept, LockShape, FreshShape,
                        DistinctTokens, Requesting, StoredToken, RefreshOf
  <2>6. CASE Finished \/ UNCHANGED vars
    <3>1. /\ UNCHANGED <<valid, rotated, replays, disk, pc, cmd, tok, lock>>
      BY <2>6 DEF Finished, vars, fileVars, procVars, serverVars
    <3> QED BY <3>1 DEF SessionInv, NoReplay, SessionKept, LockShape, FreshShape,
                        DistinctTokens, Requesting, StoredToken, RefreshOf
  <2> QED BY <2>1, <2>2, <2>3, <2>4, <2>5, <2>6 DEF Next
<1> QED BY <1>1, InitSessionInv, SaveInvariant, PTL DEF Spec

\* When every command is a request and none is killed, a refresh token is never
\* presented twice: the lock, and reading the config again under it, are enough.
THEOREM RequestsKeepSession ==
  ASSUME OnlyRequests
  PROVE  Spec => []NoReplay
<1>1. SessionInv => NoReplay
  BY DEF SessionInv
<1> QED BY <1>1, SessionInvariant, PTL

\* Under the same conditions no profile loses its session: the refresh token the
\* config stores for it is one the server accepts, but for the moment between a
\* refresh (client.go) and the save of what it returned.
THEOREM SessionsAreKept ==
  ASSUME OnlyRequests
  PROVE  Spec => []SessionKept
<1>1. SessionInv => SessionKept
  BY DEF SessionInv
<1> QED BY <1>1, SessionInvariant, PTL

-----------------------------------------------------------------------------
(* The register. With the documents the file has held as a history         *)
(* variable, every step is one edit of one of them, a refresh of the       *)
(* current one, a return to one of them, or changes nothing.               *)
(*                                                                         *)
(* The history of a copy is what makes it inductive: from the moment a     *)
(* process has loaded the file until it renames its own over it, the copy  *)
(* is what its command makes of a version, and that is lost on no step.    *)


\* The copy is what p's command makes of a version the file has held.
Planned(p) ==
  \E base \in versions, t \in Token :
    /\ cmd[p].op \in Writers /\ WellFormed(cmd[p]) /\ Accepts(cmd[p], base)
    /\ cmd[p].op # "login" => t = NoToken
    /\ snap[p] = Apply(cmd[p], base, t)

Loaded(p) == snap[p] \in versions /\ WellFormed(cmd[p])

VersionInv ==
  /\ disk.doc \in versions /\ stable \in versions
  /\ \A p \in Procs :
       /\ pc[p] \in {"poll", "prompt"} => Loaded(p)
       /\ pc[p] \in {"create", "write", "sync", "rename"} => Planned(p)
       /\ pc[p] = "store" => tok[p].access = tok[p].refresh

-----------------------------------------------------------------------------
(* The register's operators are the store's.                               *)

LEMMA SameCommands ==
  /\ Register!Command = Command /\ Register!Writers = Writers
  /\ Register!Token = Token /\ Register!NoToken = NoToken /\ Register!Tokens = Tokens
  /\ Register!EmptyConfig = EmptyConfig /\ Register!SavedConfig = SavedConfig
  BY DEF Register!Command, Command, Register!Writers, Writers, Register!Token, Token,
     Register!NoToken, NoToken, Register!Tokens, Tokens, Register!EmptyConfig, EmptyConfig,
     Register!SavedConfig, SavedConfig

LEMMA SameChecks ==
  ASSUME NEW c, NEW cfg
  PROVE  /\ Register!WellFormed(c) <=> WellFormed(c)
         /\ Register!Accepts(c, cfg) <=> Accepts(c, cfg)
  BY DEF Register!WellFormed, WellFormed, Register!Accepts, Accepts, Register!Has, Has

LEMMA SameEdits ==
  ASSUME NEW c, NEW cfg, NEW t
  PROVE  Register!Apply(c, cfg, t) = Apply(c, cfg, t)
<1>1. Register!ZeroProfile = ZeroProfile
  BY DEF Register!ZeroProfile, ZeroProfile
<1>2. \A n : Register!Lookup(cfg, n) = Lookup(cfg, n)
  BY <1>1 DEF Register!Lookup, Lookup, Register!Has, Has
<1>3. \A flag : Register!LoginProfileName(cfg, flag) = LoginProfileName(cfg, flag)
  BY DEF Register!LoginProfileName, LoginProfileName
<1>4. \A profile : Register!ApplyTokenResponse(profile, t) = ApplyTokenResponse(profile, t)
  BY DEF Register!ApplyTokenResponse, ApplyTokenResponse
<1>5. Register!CreateProfile(c, cfg) = CreateProfile(c, cfg)
  BY <1>1 DEF Register!CreateProfile, CreateProfile
<1>6. Register!DeleteProfile(c, cfg) = DeleteProfile(c, cfg)
  BY DEF Register!DeleteProfile, DeleteProfile
<1>7. Register!UseProfile(c, cfg) = UseProfile(c, cfg)
  BY DEF Register!UseProfile, UseProfile
<1>8. Register!SetWorkspace(c, cfg) = SetWorkspace(c, cfg)
  BY <1>2, <1>3 DEF Register!SetWorkspace, SetWorkspace
<1>9. Register!LoginProfile(c, cfg, t) = LoginProfile(c, cfg, t)
  BY <1>2, <1>3, <1>4 DEF Register!LoginProfile, LoginProfile
<1> QED
  BY <1>5, <1>6, <1>7, <1>8, <1>9 DEF Register!Apply, Apply

LEMMA SameTokens ==
  ASSUME NEW cfg, NEW n, NEW t
  PROVE  /\ Register!SetTokens(cfg, n, t) = SetTokens(cfg, n, t)
         /\ Register!Has(cfg, n) <=> Has(cfg, n)
  BY DEF Register!SetTokens, SetTokens, Register!Has, Has

-----------------------------------------------------------------------------
(* What the steps of the register look like.                               *)

Grows == versions' = versions \cup {disk.doc'}

\* The register is replaced by an edit of a version.
LEMMA EditStep ==
  ASSUME Grows, NEW base \in versions, NEW c \in Command, NEW t \in Token,
         c.op \in Writers, WellFormed(c), Accepts(c, base),
         c.op # "login" => t = NoToken,
         disk.doc' = Apply(c, base, t)
  PROVE  Register!SnapshotNext
<1>1. t \in IF c.op = "login" THEN Token ELSE {NoToken}
  OBVIOUS
<1>2. Register!Put(Register!Apply(c, base, t))
  BY SameEdits DEF Register!Put, Grows
<1>3. Register!Edit(base)
  BY <1>1, <1>2, SameCommands, SameChecks DEF Register!Edit
<1> QED
  BY <1>3 DEF Register!SnapshotNext

\* A refresh of a profile of the config.
LEMMA RefreshStep ==
  ASSUME Grows, NEW n \in Names, NEW t \in Tokens, Has(disk.doc, n),
         disk.doc' = SetTokens(disk.doc, n, [access |-> t, refresh |-> t])
  PROVE  Register!SnapshotNext
<1>1. Register!Put(Register!SetTokens(disk.doc, n, [access |-> t, refresh |-> t]))
  BY SameTokens DEF Register!Put, Grows
<1>2. Register!RefreshProfile
  BY <1>1, SameCommands, SameTokens DEF Register!RefreshProfile
<1> QED
  BY <1>2 DEF Register!SnapshotNext

\* A version comes back.
LEMMA RevertStep ==
  ASSUME Grows, disk.doc' \in versions
  PROVE  Register!SnapshotNext
  BY DEF Grows, Register!SnapshotNext, Register!Revert, Register!Put

\* Nothing changes.
LEMMA StutterStep ==
  ASSUME Grows, disk.doc \in versions, disk' = disk
  PROVE  UNCHANGED Register!registerVars
  BY DEF Grows, Register!registerVars

-----------------------------------------------------------------------------
(* Copies and versions.                                                    *)

\* A step of p keeps what is known of the other processes.
LEMMA StepOfOne ==
  ASSUME VersionInv, TypeOK, Grows, stable' \in {stable, disk.doc}, NEW p \in Procs,
         \A q \in Procs \ {p} :
           pc'[q] = pc[q] /\ cmd'[q] = cmd[q] /\ snap'[q] = snap[q] /\ tok'[q] = tok[q],
         pc'[p] \in {"poll", "prompt"} => Loaded(p)',
         pc'[p] \in {"create", "write", "sync", "rename"} => Planned(p)',
         pc'[p] = "store" => tok'[p].access = tok'[p].refresh
  PROVE  VersionInv'
<1>1. versions \subseteq versions' /\ disk.doc' \in versions'
  BY DEF Grows
<1>2. stable' \in versions'
  BY <1>1 DEF VersionInv
<1>3. ASSUME NEW q \in Procs \ {p}
      PROVE  /\ pc'[q] \in {"poll", "prompt"} => Loaded(q)'
             /\ pc'[q] \in {"create", "write", "sync", "rename"} => Planned(q)'
             /\ pc'[q] = "store" => tok'[q].access = tok'[q].refresh
  <2>1. /\ pc[q] \in {"poll", "prompt"} => Loaded(q)
        /\ pc[q] \in {"create", "write", "sync", "rename"} => Planned(q)
        /\ pc[q] = "store" => tok[q].access = tok[q].refresh
    BY DEF VersionInv
  <2>2. Loaded(q) => Loaded(q)'
    BY <1>1, <1>3 DEF Loaded
  <2>3. Planned(q) => Planned(q)'
    BY <1>1, <1>3 DEF Planned
  <2> QED
    BY <1>3, <2>1, <2>2, <2>3
<1> QED
  BY <1>1, <1>2, <1>3 DEF VersionInv

\* A command that ends has no copy any more.
LEMMA EndOfOne ==
  ASSUME VersionInv, TypeOK, Grows, stable' = stable, NEW p \in Procs, NEW result, End(p, result)
  PROVE  VersionInv'
<1>1. pc'[p] = "idle"
  BY DEF End, TypeOK, ProcsOK
<1>2. \A q \in Procs \ {p} :
        pc'[q] = pc[q] /\ cmd'[q] = cmd[q] /\ snap'[q] = snap[q] /\ tok'[q] = tok[q]
  BY DEF End, TypeOK, ProcsOK
<1> QED
  BY <1>1, <1>2, StepOfOne

Maps == Register!SnapshotNext \/ UNCHANGED Register!registerVars

LEMMA StutterMaps ==
  ASSUME VersionInv, Grows, disk' = disk
  PROVE  Maps
  BY StutterStep DEF VersionInv, Maps

-----------------------------------------------------------------------------
(* The steps.                                                              *)

\* A command that starts loads the current version.
LEMMA BeginMaps ==
  ASSUME SaveInv, VersionInv, Grows, NEW p \in Procs, NEW c \in Command, Begin(p, c)
  PROVE  VersionInv' /\ Maps
<1>1. TypeOK /\ disk.doc \in versions /\ disk' = disk /\ stable' = stable
  BY DEF SaveInv, VersionInv, Begin, StartRefused, StartKeyRequest, StartEdit, StartLogin,
     StartRequest, fileVars
<1>2. versions \subseteq versions' /\ Maps
  BY <1>1, StutterMaps DEF Grows
<1>3. CASE StartRefused(p, c) \/ StartKeyRequest(p, c)
  <2>1. PICK result \in {"ok", "failed"} : End(p, result)
    BY <1>3 DEF StartRefused, StartKeyRequest
  <2> QED
    BY <1>1, <1>2, <2>1, EndOfOne
<1>4. CASE StartEdit(p, c)
  <2>1. /\ pc' = [pc EXCEPT ![p] = "create"] /\ cmd' = [cmd EXCEPT ![p] = c]
        /\ snap' = [snap EXCEPT ![p] = Apply(c, disk.doc, NoToken)] /\ tok' = tok
        /\ c.op \in Writers \ {"login"} /\ WellFormed(c) /\ Accepts(c, disk.doc)
    BY <1>4 DEF StartEdit, Start, Goto
  <2>2. /\ pc'[p] = "create" /\ cmd'[p] = c /\ snap'[p] = Apply(c, disk.doc, NoToken)
        /\ \A q \in Procs \ {p} :
             pc'[q] = pc[q] /\ cmd'[q] = cmd[q] /\ snap'[q] = snap[q] /\ tok'[q] = tok[q]
    BY <1>1, <2>1 DEF TypeOK, ProcsOK
  <2>3. NoToken \in Token
    BY TokensAssumption DEF NoToken, Token, Tokens
  <2>4. Planned(p)'
    BY <1>1, <1>2, <2>1, <2>2, <2>3 DEF Planned
  <2> QED
    BY <1>1, <1>2, <2>2, <2>4, StepOfOne
<1>5. CASE StartLogin(p, c)
  <2>1. /\ pc' = [pc EXCEPT ![p] = "poll"] /\ cmd' = [cmd EXCEPT ![p] = c]
        /\ snap' = [snap EXCEPT ![p] = disk.doc] /\ tok' = tok /\ WellFormed(c)
    BY <1>5 DEF StartLogin, Start, Goto
  <2>2. /\ pc'[p] = "poll" /\ cmd'[p] = c /\ snap'[p] = disk.doc
        /\ \A q \in Procs \ {p} :
             pc'[q] = pc[q] /\ cmd'[q] = cmd[q] /\ snap'[q] = snap[q] /\ tok'[q] = tok[q]
    BY <1>1, <2>1 DEF TypeOK, ProcsOK
  <2>3. Loaded(p)'
    BY <1>1, <1>2, <2>1, <2>2 DEF Loaded
  <2> QED
    BY <1>1, <1>2, <2>2, <2>3, StepOfOne
<1>6. CASE StartRequest(p, c)
  <2>1. /\ pc' = [pc EXCEPT ![p] = "auth"] /\ snap' = snap /\ tok' = tok
        /\ \E d : cmd' = [cmd EXCEPT ![p] = d]
    BY <1>6 DEF StartRequest, Goto
  <2>2. /\ pc'[p] = "auth"
        /\ \A q \in Procs \ {p} :
             pc'[q] = pc[q] /\ cmd'[q] = cmd[q] /\ snap'[q] = snap[q] /\ tok'[q] = tok[q]
    BY <1>1, <2>1 DEF TypeOK, ProcsOK
  <2> QED
    BY <1>1, <1>2, <2>2, StepOfOne
<1> QED
  BY <1>3, <1>4, <1>5, <1>6 DEF Begin

\* The copy a login loaded at its start is edited once the device flow is over.
LEMMA LoginMaps ==
  ASSUME SaveInv, VersionInv, Grows, NEW p \in Procs, Login(p)
  PROVE  VersionInv' /\ Maps
<1>1. TypeOK /\ disk' = disk /\ stable' = stable
  BY DEF SaveInv, Login, Authorize, FinishLogin, LoginFails, fileVars
<1>2. versions \subseteq versions' /\ Maps
  BY <1>1, StutterMaps DEF Grows
<1>3. CASE Authorize(p)
  <2>1. /\ pc[p] = "poll" /\ pc' = [pc EXCEPT ![p] = "prompt"] /\ cmd' = cmd /\ snap' = snap
        /\ \E t : tok' = [tok EXCEPT ![p] = t]
    BY <1>3 DEF Authorize, Goto
  <2>2. /\ pc'[p] = "prompt"
        /\ \A q \in Procs \ {p} :
             pc'[q] = pc[q] /\ cmd'[q] = cmd[q] /\ snap'[q] = snap[q] /\ tok'[q] = tok[q]
    BY <1>1, <2>1 DEF TypeOK, ProcsOK
  <2>3. Loaded(p)'
    BY <1>2, <2>1 DEF VersionInv, Loaded
  <2> QED
    BY <1>1, <1>2, <2>2, <2>3, StepOfOne
<1>4. CASE FinishLogin(p)
  <2>1. PICK w \in Workspaces \cup {None} :
          /\ cmd' = [cmd EXCEPT ![p].ws = w]
          /\ snap' = [snap EXCEPT ![p] = Apply([cmd[p] EXCEPT !.ws = w], snap[p], tok[p])]
    BY <1>4 DEF FinishLogin
  <2> DEFINE c == [cmd[p] EXCEPT !.ws = w]
  <2>2. /\ pc[p] = "prompt" /\ pc' = [pc EXCEPT ![p] = "create"] /\ tok' = tok
        /\ cmd[p] \in Command /\ cmd[p].op = "login" /\ tok[p] \in Token /\ Loaded(p)
    BY <1>4 DEF FinishLogin, Goto, SaveInv, TypeOK, ProcsOK, SaveShape, VersionInv
  <2>3. /\ pc'[p] = "create" /\ cmd'[p] = c /\ snap'[p] = Apply(c, snap[p], tok[p])
        /\ \A q \in Procs \ {p} :
             pc'[q] = pc[q] /\ cmd'[q] = cmd[q] /\ snap'[q] = snap[q] /\ tok'[q] = tok[q]
    BY <1>1, <2>1, <2>2 DEF TypeOK, ProcsOK
  <2>4. c.op = "login" /\ WellFormed(c)
    BY <2>2 DEF Loaded, WellFormed, Command
  <2>5. c.op \in Writers /\ Accepts(c, snap[p])
    BY <2>4 DEF Writers, Accepts
  <2> HIDE DEF c
  <2>6. Planned(p)'
    BY <1>2, <2>2, <2>3, <2>4, <2>5 DEF Planned, Loaded
  <2> QED
    BY <1>1, <1>2, <2>3, <2>6, StepOfOne
<1>5. CASE LoginFails(p)
  BY <1>1, <1>2, <1>5, EndOfOne DEF LoginFails
<1> QED
  BY <1>3, <1>4, <1>5 DEF Login

\* The copy goes through the temporary file as it is, and takes the place of
\* the config by the rename.
LEMMA SaveMaps ==
  ASSUME SaveInv, VersionInv, Grows, NEW p \in Procs, Save(p)
  PROVE  VersionInv' /\ Maps
<1>1. TypeOK /\ stable' = stable
  BY DEF SaveInv, Save, CreateTemp, WriteTemp, SyncTemp, RenameTemp, SaveFails
<1>2. versions \subseteq versions'
  BY DEF Grows
<1>3. CASE CreateTemp(p) \/ WriteTemp(p) \/ SyncTemp(p)
  <2>1. PICK step \in {"write", "sync", "rename"} :
          /\ pc' = [pc EXCEPT ![p] = step] /\ UNCHANGED <<cmd, snap, tok>> /\ disk' = disk
    BY <1>3 DEF CreateTemp, WriteTemp, SyncTemp, Goto
  <2>2. /\ pc'[p] = step
        /\ \A q \in Procs \ {p} :
             pc'[q] = pc[q] /\ cmd'[q] = cmd[q] /\ snap'[q] = snap[q] /\ tok'[q] = tok[q]
    BY <1>1, <2>1 DEF TypeOK, ProcsOK
  <2>3. Planned(p)
    BY <1>3 DEF CreateTemp, WriteTemp, SyncTemp, VersionInv
  <2>4. Planned(p)'
    BY <1>2, <2>1, <2>3 DEF Planned
  <2>5. VersionInv'
    BY <1>1, <2>2, <2>4, StepOfOne
  <2> QED
    BY <2>1, <2>5, StutterMaps
<1>4. CASE RenameTemp(p)
  <2>1. Planned(p) /\ disk'.doc = snap[p] /\ End(p, "ok") /\ cmd[p] \in Command
    <3>1. pc[p] = "rename" /\ disk' = temp[p] /\ End(p, "ok")
      BY <1>4 DEF RenameTemp
    <3>2. temp[p] = [doc |-> snap[p], synced |-> TRUE]
      BY <3>1 DEF SaveInv, SaveShape
    <3>3. cmd[p] \in Command /\ Planned(p)
      BY <3>1 DEF SaveInv, TypeOK, ProcsOK, VersionInv
    <3> QED
      BY <3>1, <3>2, <3>3
  <2>2. PICK base \in versions, t \in Token :
          /\ cmd[p].op \in Writers /\ WellFormed(cmd[p]) /\ Accepts(cmd[p], base)
          /\ cmd[p].op # "login" => t = NoToken
          /\ snap[p] = Apply(cmd[p], base, t)
    BY <2>1 DEF Planned
  <2>3. Register!SnapshotNext
    BY <2>1, <2>2, EditStep
  <2> QED
    BY <1>1, <2>1, <2>3, EndOfOne DEF Maps
<1>5. CASE SaveFails(p)
  BY <1>1, <1>5, EndOfOne, StutterMaps DEF SaveFails
<1> QED
  BY <1>3, <1>4, <1>5 DEF Save

\* A request changes the config where it stores what it refreshed.
LEMMA RequestMaps ==
  ASSUME SaveInv, VersionInv, Grows, NEW p \in Procs, Request(p)
  PROVE  VersionInv' /\ Maps
<1>1. TypeOK /\ stable' = stable
  BY DEF SaveInv, Request, SendRequest, NeedRefresh, AcquireLock, ShareRefresh, RefreshToken,
     RefreshRefused, StoreToken, RequestFails, fileVars
<1>2. CASE SendRequest(p) \/ ShareRefresh(p) \/ RefreshRefused(p) \/ RequestFails(p)
  <2>1. PICK result \in {"ok", "failed"} : End(p, result)
    BY <1>2 DEF SendRequest, ShareRefresh, RefreshRefused, RequestFails
  <2>2. disk' = disk
    BY <1>2 DEF SendRequest, ShareRefresh, RefreshRefused, RequestFails, fileVars
  <2> QED
    BY <1>1, <2>1, <2>2, EndOfOne, StutterMaps
<1>3. CASE NeedRefresh(p) \/ AcquireLock(p) \/ RefreshToken(p)
  <2>1. PICK step \in {"lock", "refresh", "store"}, t \in Token :
          /\ pc' = [pc EXCEPT ![p] = step] /\ tok' = [tok EXCEPT ![p] = t]
          /\ UNCHANGED <<cmd, snap>> /\ disk' = disk
          /\ step = "store" => t.access = t.refresh
    <3>1. CASE NeedRefresh(p) \/ AcquireLock(p)
      <4>1. StoredToken(p) \in Token
        BY <1>1, StoredTokenType, <3>1 DEF TypeOK, NeedRefresh, AcquireLock
      <4> QED
        BY <3>1, <4>1 DEF NeedRefresh, AcquireLock, Goto, fileVars
    <3>2. CASE RefreshToken(p)
      <4>1. issued + 1 \in Tokens
        BY <1>1, <3>2, TokensAssumption DEF RefreshToken, Rotate, TypeOK, ServerTypeOK, Tokens
      <4>2. [access |-> issued + 1, refresh |-> issued + 1] \in Token
        BY <4>1 DEF Token
      <4> QED
        BY <3>2, <4>2 DEF RefreshToken, Goto, fileVars
    <3> QED
      BY <1>3, <3>1, <3>2
  <2>2. /\ pc'[p] = step /\ tok'[p] = t
        /\ \A q \in Procs \ {p} :
             pc'[q] = pc[q] /\ cmd'[q] = cmd[q] /\ snap'[q] = snap[q] /\ tok'[q] = tok[q]
    BY <1>1, <2>1 DEF TypeOK, ProcsOK
  <2>3. VersionInv'
    BY <1>1, <2>1, <2>2, StepOfOne
  <2> QED
    BY <2>1, <2>3, StutterMaps
<1>4. CASE StoreToken(p)
  <2>1. End(p, "ok") /\ pc[p] = "store" /\ cmd[p].name \in Names /\ tok[p] \in Token
        /\ disk \in File
    BY <1>1, <1>4 DEF StoreToken, TypeOK, ProcsOK, FilesOK
  <2>2. VersionInv'
    BY <1>1, <2>1, EndOfOne
  <2>3. CASE ~Has(disk.doc, cmd[p].name)
    BY <1>4, <2>2, <2>3, StutterMaps DEF StoreToken
  <2>4. CASE Has(disk.doc, cmd[p].name)
    <3> DEFINE t == tok[p].access
    <3>1. tok[p] = [access |-> t, refresh |-> t] /\ t \in Tokens
      BY <2>1 DEF VersionInv, Token
    <3>2. disk' = [disk EXCEPT !.doc = SetTokens(disk.doc, cmd[p].name, tok[p])]
      BY <1>4, <2>4 DEF StoreToken
    <3>3. disk'.doc = SetTokens(disk.doc, cmd[p].name, tok[p])
      BY <2>1, <3>2 DEF File
    <3> HIDE DEF t
    <3>4. disk'.doc = SetTokens(disk.doc, cmd[p].name, [access |-> t, refresh |-> t])
      BY <3>1, <3>3
    <3> QED
      BY <2>1, <2>2, <2>4, <3>1, <3>4, RefreshStep DEF Maps
  <2> QED
    BY <2>3, <2>4
<1> QED
  BY <1>2, <1>3, <1>4 DEF Request

\* What the machine does: what a power loss brings back is the config or the
\* version before it that reached the disk, as the config's bytes always have.
LEMMA MachineMaps ==
  ASSUME SaveInv, VersionInv, Grows,
         \/ \E p \in Procs : Crash(p)
         \/ PowerLoss \/ WriteBack \/ ExpireToken \/ UNCHANGED vars
  PROVE  VersionInv' /\ Maps
<1>1. TypeOK /\ versions \subseteq versions' /\ disk'.doc \in versions'
  BY DEF SaveInv, Grows
<1>2. ASSUME NEW p \in Procs, Crash(p)
      PROVE  VersionInv' /\ Maps
  BY <1>1, <1>2, EndOfOne, StutterMaps DEF Crash, fileVars
<1>3. CASE PowerLoss
  <2>1. PICK d \in AfterPowerLoss(disk) \cup {stable} :
          disk' = [doc |-> d, synced |-> TRUE] /\ stable' = d
    BY <1>3 DEF PowerLoss
  <2>2. d \in versions
    BY <2>1 DEF AfterPowerLoss, SaveInv, DiskIsWhole, VersionInv
  <2>3. \A p \in Procs : pc'[p] = "idle"
    BY <1>3 DEF PowerLoss
  <2>4. VersionInv'
    BY <1>1, <2>1, <2>2, <2>3 DEF VersionInv
  <2> QED
    BY <2>1, <2>2, <2>4, RevertStep DEF Maps
<1>4. CASE WriteBack \/ ExpireToken \/ UNCHANGED vars
  <2>1. /\ disk' = disk /\ stable' \in {stable, disk.doc} /\ UNCHANGED procVars
    BY <1>4 DEF WriteBack, ExpireToken, vars, fileVars
  <2>2. \A p \in Procs : (Loaded(p) => Loaded(p)') /\ (Planned(p) => Planned(p)')
    BY <1>1, <2>1 DEF Loaded, Planned, procVars
  <2>3. VersionInv'
    BY <1>1, <2>1, <2>2 DEF VersionInv, procVars
  <2> QED
    BY <2>1, <2>3, StutterMaps
<1> QED
  BY <1>2, <1>3, <1>4

-----------------------------------------------------------------------------
LEMMA HistoryIsNext == HistoryNext => Next /\ Recorded
<1> SUFFICES ASSUME HistoryNext PROVE Next /\ Recorded
  OBVIOUS
<1>1. CASE \/ \E p \in Procs, c \in Command : StartRefused(p, c) /\ Recorded
           \/ \E p \in Procs, c \in Command : StartEdit(p, c) /\ Recorded
           \/ \E p \in Procs, c \in Command : StartLogin(p, c) /\ Recorded
           \/ \E p \in Procs, c \in Command : StartRequest(p, c) /\ Recorded
           \/ \E p \in Procs, c \in Command : StartKeyRequest(p, c) /\ Recorded
  BY <1>1 DEF Next, Begin
<1>2. CASE \/ \E p \in Procs : CreateTemp(p) /\ Recorded
           \/ \E p \in Procs : WriteTemp(p) /\ Recorded
           \/ \E p \in Procs : SyncTemp(p) /\ Recorded
           \/ \E p \in Procs : RenameTemp(p) /\ Recorded
           \/ \E p \in Procs : SaveFails(p) /\ Recorded
  BY <1>2 DEF Next, Step, Save
<1>3. CASE \/ \E p \in Procs : Authorize(p) /\ Recorded
           \/ \E p \in Procs : FinishLogin(p) /\ Recorded
           \/ \E p \in Procs : LoginFails(p) /\ Recorded
  BY <1>3 DEF Next, Step, Login
<1>4. CASE \/ \E p \in Procs : SendRequest(p) /\ Recorded
           \/ \E p \in Procs : NeedRefresh(p) /\ Recorded
           \/ \E p \in Procs : AcquireLock(p) /\ Recorded
           \/ \E p \in Procs : ShareRefresh(p) /\ Recorded
           \/ \E p \in Procs : RefreshToken(p) /\ Recorded
           \/ \E p \in Procs : RefreshRefused(p) /\ Recorded
           \/ \E p \in Procs : StoreToken(p) /\ Recorded
           \/ \E p \in Procs : RequestFails(p) /\ Recorded
  BY <1>4 DEF Next, Step, Request
<1>5. CASE \/ \E p \in Procs : Crash(p) /\ Recorded
           \/ PowerLoss /\ Recorded
           \/ WriteBack /\ Recorded
           \/ ExpireToken /\ Recorded
           \/ Finished /\ Recorded
  BY <1>5 DEF Next
<1> QED
  BY <1>1, <1>2, <1>3, <1>4, <1>5 DEF HistoryNext

LEMMA HistoryMaps ==
  ASSUME SaveInv, VersionInv, [HistoryNext]_<<vars, versions>>
  PROVE  VersionInv' /\ Maps
<1>1. [Next]_vars /\ Grows
  BY HistoryIsNext DEF Recorded, Grows, VersionInv, vars, fileVars
<1>2. ASSUME NEW p \in Procs, (\E c \in Command : Begin(p, c)) \/ Step(p)
      PROVE  VersionInv' /\ Maps
  BY <1>1, <1>2, BeginMaps, LoginMaps, SaveMaps, RequestMaps DEF Step
<1>3. CASE \/ \E p \in Procs : Crash(p)
           \/ PowerLoss \/ WriteBack \/ ExpireToken \/ UNCHANGED vars
  BY <1>1, <1>3, MachineMaps
<1> QED
  BY <1>1, <1>2, <1>3 DEF Next, Finished

LEMMA HistoryIsStore == HistorySpec => Spec
<1>1. HistoryInit => Init
  BY DEF HistoryInit
<1>2. [HistoryNext]_<<vars, versions>> => [Next]_vars
  BY HistoryIsNext
<1> QED
  BY <1>1, <1>2, PTL DEF HistorySpec, Spec

\* Commands of any number of processes, their saves interleaved, failing, killed
\* and cut off by power losses, implement the register: what is on disk is always
\* the whole of one command's edit of a config that was on disk at some time, and
\* a refresh changes the tokens of one profile of the current config and nothing
\* else (Config.SaveTo and the commands of profile.go and login.go).
THEOREM SavesAreWholeEdits == HistorySpec => FromSomeVersion
<1>1. HistoryInit => Register!Init /\ VersionInv
  <2> SUFFICES ASSUME HistoryInit PROVE Register!Init /\ VersionInv
    OBVIOUS
  <2>1. Init /\ versions = {disk.doc}
    BY DEF HistoryInit
  <2>2. disk.doc \in {EmptyConfig, SavedConfig} /\ stable = disk.doc
        /\ \A p \in Procs : pc[p] = "idle"
    BY <2>1 DEF Init
  <2> QED
    BY <2>1, <2>2, SameCommands DEF Register!Init, VersionInv
<1>2. SaveInv /\ VersionInv /\ [HistoryNext]_<<vars, versions>>
        => VersionInv' /\ [Register!SnapshotNext]_(Register!registerVars)
  BY HistoryMaps DEF Maps
<1> QED
  BY <1>1, <1>2, HistoryIsStore, SaveInvariant, PTL
  DEF HistorySpec, FromSomeVersion, Register!SnapshotSpec
=============================================================================
