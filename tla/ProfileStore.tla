---------------------------- MODULE ProfileStore ----------------------------
(***************************************************************************)
(* CLI processes sharing one ~/.langsmith/config.json.                     *)
(*                                                                         *)
(* Commands that edit the file load it, change their copy and save the     *)
(* whole of it: a temporary file beside the target is written, synced and  *)
(* renamed over it (Config.SaveTo).  `auth login' keeps its copy from the  *)
(* start of the command to the end of the device flow.  Commands that call *)
(* the API let the LangSmith SDK refresh the profile's OAuth token, under  *)
(* a lock the SDK's users share; the SDK is not part of the repository.    *)
(***************************************************************************)
EXTENDS TokenServer

CONSTANTS
  Procs,        \* process slots: each runs one command after another
  Ops,          \* the commands the users run, a subset of Command's ops
  Torn,         \* a document cut short: json.Unmarshal refuses it
  NoFile,       \* no temporary file
  MaxCommands,  \* bound on the commands started
  MaxFaults     \* bound on the processes killed and the power losses

ASSUME ProcsAssumption == None \notin Procs
ASSUME OpsAssumption == Ops \subseteq Writers \cup {"request"}
ASSUME TornAssumption == Torn \notin Config
ASSUME NoFileAssumption == NoFile \notin [doc: Config \cup {Torn}, synced: BOOLEAN]
ASSUME BoundsAssumption == MaxCommands \in Nat /\ MaxFaults \in Nat

VARIABLES
  disk,     \* the config file: its document, and whether its bytes are on disk
  stable,   \* the document a power loss can bring back
  temp,     \* temp[p]: the temporary file p's last save left
  pc,       \* pc[p]: where p is in its command
  cmd,      \* cmd[p]: the command p runs
  snap,     \* snap[p]: the copy of the config p loaded and edits
  tok,      \* tok[p]: the token p was issued, or read for a refresh
  out,      \* out[p]: how p's last command ended
  lock,     \* holder of the SDK's refresh lock
  started,  \* commands started
  faults    \* processes killed and power losses

procVars == <<pc, cmd, snap, tok, out>>
fileVars == <<disk, stable, temp>>
vars == <<fileVars, procVars, lock, started, faults, serverVars>>

File == [doc: Config \cup {Torn}, synced: BOOLEAN]

Steps == {"idle", "poll", "prompt", "create", "write", "sync", "rename",
          "auth", "lock", "refresh", "store"}

NoCommand == [op |-> "request", name |-> None, ws |-> None, setCurrent |-> FALSE]

\* p has loaded the config and means to save it.
Editing(p) == pc[p] \in {"poll", "prompt", "create", "write", "sync", "rename"}

Init ==
  /\ \/ disk = [doc |-> EmptyConfig, synced |-> TRUE] /\ ServerInit({})
     \/ /\ disk = [doc |-> SavedConfig, synced |-> TRUE]
        /\ ServerInit({Holds[n] : n \in Names} \ {0})
  /\ stable = disk.doc
  /\ temp = [p \in Procs |-> NoFile]
  /\ pc = [p \in Procs |-> "idle"]
  /\ cmd = [p \in Procs |-> NoCommand]
  /\ snap = [p \in Procs |-> EmptyConfig]
  /\ tok = [p \in Procs |-> NoToken]
  /\ out = [p \in Procs |-> "none"]
  /\ lock = None
  /\ started = 0
  /\ faults = 0

-----------------------------------------------------------------------------
(* Moving a process on, and ending its command.                            *)

Goto(p, step) == pc' = [pc EXCEPT ![p] = step]

End(p, result) ==
  /\ pc' = [pc EXCEPT ![p] = "idle"]
  /\ cmd' = [cmd EXCEPT ![p] = NoCommand]
  /\ snap' = [snap EXCEPT ![p] = EmptyConfig]
  /\ tok' = [tok EXCEPT ![p] = NoToken]
  /\ out' = [out EXCEPT ![p] = result]

Start(p, c) ==
  /\ pc[p] = "idle"
  /\ started < MaxCommands
  /\ c.op \in Ops
  /\ WellFormed(c)
  /\ started' = started + 1

-----------------------------------------------------------------------------
(* Commands that edit the config.                                          *)

\* The config does not parse, or the command refuses what it finds in it.
StartRefused(p, c) ==
  /\ Start(p, c)
  /\ disk.doc = Torn \/ ~Accepts(c, disk.doc)
  /\ End(p, "failed")
  /\ UNCHANGED <<fileVars, lock, faults, serverVars>>

StartEdit(p, c) ==
  /\ Start(p, c)
  /\ c.op \in Writers \ {"login"}
  /\ disk.doc # Torn
  /\ Accepts(c, disk.doc)
  /\ Goto(p, "create")
  /\ cmd' = [cmd EXCEPT ![p] = c]
  /\ snap' = [snap EXCEPT ![p] = Apply(c, disk.doc, NoToken)]
  /\ out' = [out EXCEPT ![p] = "none"]
  /\ UNCHANGED <<fileVars, tok, lock, faults, serverVars>>

StartLogin(p, c) ==
  /\ Start(p, c)
  /\ c.op = "login"
  /\ disk.doc # Torn
  /\ Goto(p, "poll")
  /\ cmd' = [cmd EXCEPT ![p] = c]
  /\ snap' = [snap EXCEPT ![p] = disk.doc]
  /\ out' = [out EXCEPT ![p] = "none"]
  /\ UNCHANGED <<fileVars, tok, lock, faults, serverVars>>

\* The user approves the device code and the next poll gets the token.
Authorize(p) ==
  /\ pc[p] = "poll"
  /\ \E withRefresh \in BOOLEAN :
       /\ IssueToken(withRefresh)
       /\ tok' = [tok EXCEPT ![p] =
                    [access  |-> issued + 1,
                     refresh |-> IF withRefresh THEN issued + 1 ELSE 0]]
  /\ Goto(p, "prompt")
  /\ UNCHANGED <<fileVars, cmd, snap, out, lock, started, faults>>

\* With --prompt-workspace and no --workspace-id the user picks a workspace;
\* then the profile is edited in the copy loaded at the start.
FinishLogin(p) ==
  /\ pc[p] = "prompt"
  /\ \E w \in Workspaces \cup {None} :
       /\ cmd[p].ws # None => w = cmd[p].ws
       /\ cmd' = [cmd EXCEPT ![p].ws = w]
       /\ snap' = [snap EXCEPT ![p] =
                     Apply([cmd[p] EXCEPT !.ws = w], snap[p], tok[p])]
  /\ Goto(p, "create")
  /\ UNCHANGED <<fileVars, tok, out, lock, started, faults, serverVars>>

\* Discovery or the device request fails, the user declines or never answers,
\* or the workspace prompt fails.
LoginFails(p) ==
  /\ pc[p] = "poll" \/ (pc[p] = "prompt" /\ cmd[p].ws = None)
  /\ End(p, "failed")
  /\ UNCHANGED <<fileVars, lock, started, faults, serverVars>>

-----------------------------------------------------------------------------
(* Config.SaveTo.                                                          *)

CreateTempM(p) ==
  /\ pc[p] = "create"
  /\ disk' = [doc |-> EmptyConfig, synced |-> FALSE]
  /\ temp' = [temp EXCEPT ![p] = [doc |-> EmptyConfig, synced |-> FALSE]]
  /\ Goto(p, "write")
  /\ UNCHANGED <<stable, cmd, snap, tok, out, lock, started, faults, serverVars>>

CreateTemp(p) ==
  /\ pc[p] = "create"
  /\ temp' = [temp EXCEPT ![p] = [doc |-> EmptyConfig, synced |-> FALSE]]
  /\ Goto(p, "write")
  /\ UNCHANGED <<disk, stable, cmd, snap, tok, out, lock, started, faults, serverVars>>

WriteTemp(p) ==
  /\ pc[p] = "write"
  /\ temp' = [temp EXCEPT ![p] = [doc |-> snap[p], synced |-> FALSE]]
  /\ Goto(p, "sync")
  /\ UNCHANGED <<disk, stable, cmd, snap, tok, out, lock, started, faults, serverVars>>

\* Chmod, Sync and Close.
SyncTemp(p) ==
  /\ pc[p] = "sync"
  /\ temp' = [temp EXCEPT ![p] = [doc |-> @.doc, synced |-> TRUE]]
  /\ Goto(p, "rename")
  /\ UNCHANGED <<disk, stable, cmd, snap, tok, out, lock, started, faults, serverVars>>

RenameTemp(p) ==
  /\ pc[p] = "rename"
  /\ disk' = temp[p]
  /\ temp' = [temp EXCEPT ![p] = NoFile]
  /\ End(p, "ok")
  /\ UNCHANGED <<stable, lock, started, faults, serverVars>>

\* Any of the system calls fails: the temporary file, if there is one, goes.
SaveFails(p) ==
  /\ pc[p] \in {"create", "write", "sync", "rename"}
  /\ temp' = [temp EXCEPT ![p] = IF pc[p] = "create" THEN @ ELSE NoFile]
  /\ End(p, "failed")
  /\ UNCHANGED <<disk, stable, lock, started, faults, serverVars>>

-----------------------------------------------------------------------------
(* Commands that call the API with an OAuth profile (client.doHTTP and the *)
(* SDK under it).                                                          *)

\* The profile's tokens as the SDK reads them from the config.
StoredToken(p) ==
  LET profile == Lookup(disk.doc, cmd[p].name)
  IN [access |-> profile.access, refresh |-> profile.refresh]

StartRequestNoLockM(p, c) ==
  /\ Start(p, c)
  /\ c.op = "request"
  /\ disk.doc # Torn
  /\ LET n == ResolveProfileName(disk.doc, c.name)
         profile == Lookup(disk.doc, n)
     IN /\ HasOAuth(profile)
        /\ cmd' = [cmd EXCEPT ![p] = [c EXCEPT !.name = n]]
        /\ tok' = [tok EXCEPT ![p] = [access |-> profile.access, refresh |-> profile.refresh]]
  /\ Goto(p, "refresh")
  /\ out' = [out EXCEPT ![p] = "none"]
  /\ UNCHANGED <<fileVars, snap, lock, faults, serverVars>>

StartRequestM(p, c) ==
  /\ Start(p, c)
  /\ c.op = "request"
  /\ disk.doc # Torn
  /\ cmd' = [cmd EXCEPT ![p] = [c EXCEPT !.name = ResolveProfileName(disk.doc, c.name)]]
  /\ Goto(p, "auth")
  /\ out' = [out EXCEPT ![p] = "none"]
  /\ UNCHANGED <<fileVars, snap, tok, lock, faults, serverVars>>

\* cmd[p].name is the profile resolved when the command started.
StartRequest(p, c) ==
  /\ Start(p, c)
  /\ c.op = "request"
  /\ disk.doc # Torn
  /\ LET n == ResolveProfileName(disk.doc, c.name)
     IN /\ HasOAuth(Lookup(disk.doc, n))
        /\ cmd' = [cmd EXCEPT ![p] = [c EXCEPT !.name = n]]
  /\ Goto(p, "auth")
  /\ out' = [out EXCEPT ![p] = "none"]
  /\ UNCHANGED <<fileVars, snap, tok, lock, faults, serverVars>>

\* A profile without OAuth tokens: its API key is sent, or there is none and
\* the command fails.
StartKeyRequest(p, c) ==
  /\ Start(p, c)
  /\ c.op = "request"
  /\ disk.doc # Torn
  /\ LET profile == Lookup(disk.doc, ResolveProfileName(disk.doc, c.name))
     IN /\ ~HasOAuth(profile)
        /\ End(p, IF profile.key THEN "ok" ELSE "failed")
  /\ UNCHANGED <<fileVars, lock, faults, serverVars>>

SendRequest(p) ==
  /\ pc[p] = "auth"
  /\ disk.doc # Torn
  /\ StoredToken(p).access \in live
  /\ End(p, "ok")
  /\ UNCHANGED <<fileVars, lock, started, faults, serverVars>>

NeedRefresh(p) ==
  /\ pc[p] = "auth"
  /\ disk.doc # Torn
  /\ StoredToken(p).access \notin live
  /\ tok' = [tok EXCEPT ![p] = StoredToken(p)]
  /\ Goto(p, "lock")
  /\ UNCHANGED <<fileVars, cmd, snap, out, lock, started, faults, serverVars>>

\* The config is read again under the lock: another process may have
\* refreshed the token in the meantime.
AcquireLock(p) ==
  /\ pc[p] = "lock"
  /\ lock = None
  /\ disk.doc # Torn
  /\ lock' = p
  /\ tok' = [tok EXCEPT ![p] = StoredToken(p)]
  /\ Goto(p, "refresh")
  /\ UNCHANGED <<fileVars, cmd, snap, out, started, faults, serverVars>>

ShareRefresh(p) ==
  /\ pc[p] = "refresh"
  /\ tok[p].access \in live
  /\ lock' = None
  /\ End(p, "ok")
  /\ UNCHANGED <<fileVars, started, faults, serverVars>>

RefreshToken(p) ==
  /\ pc[p] = "refresh"
  /\ tok[p].access \notin live
  /\ Rotate(tok[p].refresh)
  /\ tok' = [tok EXCEPT ![p] = [access |-> issued + 1, refresh |-> issued + 1]]
  /\ Goto(p, "store")
  /\ UNCHANGED <<fileVars, cmd, snap, out, lock, started, faults>>

RefreshRefused(p) ==
  /\ pc[p] = "refresh"
  /\ tok[p].access \notin live
  /\ Replay(tok[p].refresh) \/ Reject(tok[p].refresh)
  /\ lock' = None
  /\ End(p, "failed")
  /\ UNCHANGED <<fileVars, started, faults>>

\* The profile may have been deleted or logged in again since.
StoreToken(p) ==
  /\ pc[p] = "store"
  /\ disk' = IF Has(disk.doc, cmd[p].name)
             THEN [disk EXCEPT !.doc = SetTokens(@, cmd[p].name, tok[p])]
             ELSE disk
  /\ lock' = None
  /\ End(p, "ok")
  /\ UNCHANGED <<stable, temp, started, faults, serverVars>>

\* The request's timeout runs out, or the network or the config fails it,
\* before a refresh token has been spent.
RequestFails(p) ==
  /\ pc[p] \in {"auth", "lock", "refresh"}
  /\ lock' = IF lock = p THEN None ELSE lock
  /\ End(p, "failed")
  /\ UNCHANGED <<fileVars, started, faults, serverVars>>

-----------------------------------------------------------------------------
(* The machine.                                                            *)

\* p is killed: the operating system drops its lock and keeps its files.
Crash(p) ==
  /\ pc[p] # "idle"
  /\ faults < MaxFaults
  /\ faults' = faults + 1
  /\ lock' = IF lock = p THEN None ELSE lock
  /\ End(p, "killed")
  /\ UNCHANGED <<fileVars, started, serverVars>>

\* What a file that was not synced holds after a power loss.
AfterPowerLoss(file) ==
  IF file.synced THEN {file.doc} ELSE {Torn, EmptyConfig}

\* SaveTo does not sync the directory, so a rename the kernel has not written
\* back may be undone.
PowerLoss ==
  /\ faults < MaxFaults
  /\ faults' = faults + 1
  /\ \E d \in AfterPowerLoss(disk) \cup {stable} :
       /\ disk' = [doc |-> d, synced |-> TRUE]
       /\ stable' = d
  /\ temp' = [p \in Procs |-> NoFile]  \* never read again, kept or not
  /\ pc' = [p \in Procs |-> "idle"]
  /\ cmd' = [p \in Procs |-> NoCommand]
  /\ snap' = [p \in Procs |-> EmptyConfig]
  /\ tok' = [p \in Procs |-> NoToken]
  /\ out' = [p \in Procs |-> IF pc[p] = "idle" THEN out[p] ELSE "killed"]
  /\ lock' = None
  /\ UNCHANGED <<started, serverVars>>

\* The kernel writes the directory back.
WriteBack ==
  /\ faults < MaxFaults
  /\ disk.synced
  /\ stable # disk.doc
  /\ stable' = disk.doc
  /\ UNCHANGED <<disk, temp, procVars, lock, started, faults, serverVars>>

ExpireToken ==
  /\ \E t \in live : Expire(t)
  /\ UNCHANGED <<fileVars, procVars, lock, started, faults>>

\* The bound on commands is reached and all have ended.
Finished ==
  /\ started = MaxCommands
  /\ \A p \in Procs : pc[p] = "idle"
  /\ UNCHANGED vars

-----------------------------------------------------------------------------
Save(p) ==
  CreateTemp(p) \/ WriteTemp(p) \/ SyncTemp(p) \/ RenameTemp(p) \/ SaveFails(p)

Login(p) == Authorize(p) \/ FinishLogin(p) \/ LoginFails(p)

Request(p) ==
  \/ SendRequest(p) \/ NeedRefresh(p) \/ AcquireLock(p) \/ ShareRefresh(p)
  \/ RefreshToken(p) \/ RefreshRefused(p) \/ StoreToken(p) \/ RequestFails(p)

Begin(p, c) ==
  \/ StartRefused(p, c) \/ StartEdit(p, c) \/ StartLogin(p, c)
  \/ StartRequest(p, c) \/ StartKeyRequest(p, c)

Step(p) == Save(p) \/ Login(p) \/ Request(p)

Next ==
  \/ \E p \in Procs : (\E c \in Command : Begin(p, c)) \/ Step(p) \/ Crash(p)
  \/ PowerLoss \/ WriteBack \/ ExpireToken \/ Finished

Spec == Init /\ [][Next]_vars

-----------------------------------------------------------------------------
FilesOK ==
  /\ disk \in File
  /\ stable \in Config \cup {Torn}
  /\ temp \in [Procs -> File \cup {NoFile}]

ProcsOK ==
  /\ pc \in [Procs -> Steps]
  /\ cmd \in [Procs -> Command]
  /\ snap \in [Procs -> Config]
  /\ tok \in [Procs -> Token]
  /\ out \in [Procs -> {"none", "ok", "failed", "killed"}]
  /\ \A p \in Procs :
       pc[p] \in {"auth", "lock", "refresh", "store"} => cmd[p].name \in Names

\* The type of every variable; a request past its start has resolved a profile.
TypeOK ==
  /\ FilesOK
  /\ ProcsOK
  /\ lock \in Procs \cup {None}
  /\ started \in 0 .. MaxCommands
  /\ faults \in 0 .. MaxFaults
  /\ ServerTypeOK

\* The profile current_profile names is one of the profiles, after any
\* interleaving of saves from stale copies: runProfileDelete clears it, and
\* every other command that sets it also writes the profile or has just found it.
CurrentExists == disk.doc # Torn => Consistent(disk.doc)

\* SaveTo replaces the config in one step by a complete document: neither a
\* process killed half way nor a power loss leaves it blank, cut short or with
\* bytes that are not on disk.
DiskIsWhole == disk.doc # Torn /\ disk.synced

\* A save that fails leaves no .langsmith-config-* file behind; only a killed
\* process does.
TempRemoved ==
  \A p \in Procs : pc[p] = "idle" /\ temp[p] # NoFile => faults > 0

\* Whatever is edited, interleaved, failing, killed or cut off: the config is whole
\* and consistent, and nothing is left of the saves that failed.
ConfigIsSound == CurrentExists /\ DiskIsWhole /\ TempRemoved

\* No refresh token is presented a second time: the server would revoke every
\* session of the user (client.go:411-416).
NoReplay == ~replays

\* While no process is exchanging it, the refresh token the config holds is one
\* the server still accepts: concurrent requests never lose the session.
SessionKept ==
  \A n \in Names :
    /\ Has(disk.doc, n)
    /\ disk.doc.profiles[n].refresh # 0
    /\ ~ \E p \in Procs : pc[p] = "store" /\ cmd[p].name = n
    => disk.doc.profiles[n].refresh \in valid

-----------------------------------------------------------------------------
(* What makes CurrentExists and DiskIsWhole inductive.                     *)

\* Only a login is in the device flow, and a temporary file that is about to be
\* renamed holds the whole of the copy its process edited, on disk.
SaveShape ==
  \A p \in Procs :
    /\ pc[p] \in {"poll", "prompt"} => cmd[p].op = "login"
    /\ pc[p] = "sync" => temp[p] = [doc |-> snap[p], synced |-> FALSE]
    /\ pc[p] = "rename" => temp[p] = [doc |-> snap[p], synced |-> TRUE]

\* Every document that is, was or may become the config is whole and names a
\* current profile that exists.
CopiesConsistent ==
  /\ Consistent(disk.doc)
  /\ stable # Torn /\ Consistent(stable)
  /\ \A p \in Procs : Consistent(snap[p])

SaveInv == TypeOK /\ SaveShape /\ DiskIsWhole /\ CopiesConsistent

\* Only a command on its way from creating its temporary file to renaming it has
\* one, unless a process was killed.
TempShape ==
  \A p \in Procs : temp[p] # NoFile => pc[p] \in {"write", "sync", "rename"} \/ faults > 0

-----------------------------------------------------------------------------
(* What makes NoReplay inductive when all commands are requests and no     *)
(* process is killed.                                                      *)

OnlyRequests == Ops = {"request"} /\ MaxFaults = 0

Requesting(p) == pc[p] \in {"auth", "lock", "refresh", "store"}

\* The lock's holder is the process between its second reading of the config
\* and its write.
LockShape ==
  \A p \in Procs :
    /\ pc[p] = "idle" \/ (Requesting(p) /\ Has(disk.doc, cmd[p].name))
    /\ pc[p] \in {"refresh", "store"} <=> lock = p
    /\ pc[p] = "refresh" => tok[p] = StoredToken(p)

RefreshOf(n) == disk.doc.profiles[n].refresh

\* A refreshed token about to be stored is valid and no other profile's.
FreshShape ==
  \A p \in Procs : pc[p] = "store" =>
    /\ tok[p].refresh \in valid
    /\ \A n \in Names : Has(disk.doc, n) /\ n # cmd[p].name => RefreshOf(n) # tok[p].refresh

\* Two profiles never hold the same refresh token.
DistinctTokens ==
  \A m, n \in Names :
    /\ Has(disk.doc, m) /\ Has(disk.doc, n)
    /\ m # n
    /\ RefreshOf(m) # 0
    => RefreshOf(m) # RefreshOf(n)

SessionInv ==
  /\ NoReplay
  /\ SessionKept
  /\ LockShape
  /\ FreshShape
  /\ DistinctTokens
  /\ valid \cap rotated = {}
=============================================================================
