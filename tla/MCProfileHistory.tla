--------------------------- MODULE MCProfileHistory ---------------------------
(***************************************************************************)
(* ProfileStore with a history variable, for TLC: the documents the config *)
(* file has held.  It changes nothing else; it is what ProfileRegister     *)
(* needs to say which version a command started from.                      *)
(***************************************************************************)
EXTENDS MCProfileStore

VARIABLE versions  \* every document the config file has held

HistoryInit == Init /\ versions = {disk.doc}

Recorded == versions' = versions \cup {disk'.doc}

\* Next, with the document it leaves recorded, one action of ProfileStore per line.
HistoryNext ==
  \/ \E p \in Procs, c \in Command : StartRefused(p, c) /\ Recorded
  \/ \E p \in Procs, c \in Command : StartEdit(p, c) /\ Recorded
  \/ \E p \in Procs, c \in Command : StartLogin(p, c) /\ Recorded
  \/ \E p \in Procs, c \in Command : StartRequest(p, c) /\ Recorded
  \/ \E p \in Procs, c \in Command : StartKeyRequest(p, c) /\ Recorded
  \/ \E p \in Procs : CreateTemp(p) /\ Recorded
  \/ \E p \in Procs : WriteTemp(p) /\ Recorded
  \/ \E p \in Procs : SyncTemp(p) /\ Recorded
  \/ \E p \in Procs : RenameTemp(p) /\ Recorded
  \/ \E p \in Procs : SaveFails(p) /\ Recorded
  \/ \E p \in Procs : Authorize(p) /\ Recorded
  \/ \E p \in Procs : FinishLogin(p) /\ Recorded
  \/ \E p \in Procs : LoginFails(p) /\ Recorded
  \/ \E p \in Procs : SendRequest(p) /\ Recorded
  \/ \E p \in Procs : NeedRefresh(p) /\ Recorded
  \/ \E p \in Procs : AcquireLock(p) /\ Recorded
  \/ \E p \in Procs : ShareRefresh(p) /\ Recorded
  \/ \E p \in Procs : RefreshToken(p) /\ Recorded
  \/ \E p \in Procs : RefreshRefused(p) /\ Recorded
  \/ \E p \in Procs : StoreToken(p) /\ Recorded
  \/ \E p \in Procs : RequestFails(p) /\ Recorded
  \/ \E p \in Procs : Crash(p) /\ Recorded
  \/ PowerLoss /\ Recorded
  \/ WriteBack /\ Recorded
  \/ ExpireToken /\ Recorded
  \/ Finished /\ Recorded

HistorySpec == HistoryInit /\ [][HistoryNext]_<<vars, versions>>

Register == INSTANCE ProfileRegister WITH doc <- disk.doc

\* Commands run together: every save is one whole command applied to a
\* config that was on disk at some time, never a mixture of two, and a refresh
\* changes the tokens of one profile of the current config and nothing else.
FromSomeVersion == Register!SnapshotSpec
=============================================================================
