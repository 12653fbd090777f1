------------------------------- MODULE HubRepos -------------------------------
(***************************************************************************)
(* Repositories of the hub and the directories they are pulled into:       *)
(* `hub init', `push', `pull' and `delete' (internal/cmd/hub_*.go), and    *)
(* `prompt create', `push', `tag' and `delete' (prompt.go), for which a    *)
(* commit is one manifest.                                                 *)
(*                                                                         *)
(* A directory is read and written one file after the other, while the     *)
(* user edits it and other commands run in it.                             *)
(***************************************************************************)
EXTENDS Integers, Sequences, FiniteSets

CONSTANTS
  HubRuns,      \* runs of the commands
  HubInputs,    \* what they are given: [cmd, public, ref, yes]
  MaxCommits,   \* bound on the commits of the repo
  MaxDirEdits   \* bound on what the user does in the directory

ASSUME HubAssumption ==
  /\ MaxCommits \in Nat /\ MaxDirEdits \in Nat
  /\ \A in \in HubInputs : in.public \in {"unset", "yes", "no"}

VARIABLES
  repo,      \* the repo on the hub
  dir,       \* the user's directory: its files
  hubRuns,   \* each run
  dirEdits   \* how often the user edited it

hubVars == <<repo, dir, hubRuns, dirEdits>>

\* One path of each kind: the files by which a directory of the hub is known,
\* another file, one that is never pushed, and a linked child of an agent.
HubPaths == {"SKILL.md", "tools.json", ".env", "child"}

Marker   == "SKILL.md"
Excluded == {".env"}

NoFile == "none"

\* Content that is text of some version, is not text, or is a link to a repo.
Contents == {NoFile, "1", "2", "binary", "link"}

NoFiles == [p \in HubPaths |-> NoFile]

NoRepo == [exists |-> FALSE, public |-> FALSE, commits |-> <<>>, tag |-> 0]

NoHubRun == [pc |-> "start", cmd |-> "none", public |-> "unset", left |-> {}, files |-> NoFiles, asked |-> FALSE,
             alone |-> TRUE]

HubInit ==
  /\ repo = NoRepo
  /\ dir \in {NoFiles, [NoFiles EXCEPT ![".env"] = "1"], [NoFiles EXCEPT ![Marker] = "1", ![".env"] = "1"]}
  /\ hubRuns = [r \in HubRuns |-> NoHubRun]
  /\ dirEdits = 0

-----------------------------------------------------------------------------
Written(d) == {p \in HubPaths : d[p] # NoFile}

\* Someone else, other than r, touches the directory.
Disturbed(runs, r) == [x \in HubRuns |-> IF x = r THEN runs[x] ELSE [runs[x] EXCEPT !.alone = FALSE]]

SetHubRun(r, run) == hubRuns' = [hubRuns EXCEPT ![r] = run]

BeginHub(r, in, cmd) == hubRuns[r].pc = "start" /\ in.cmd = cmd

\* A bad name, a request or a file operation that fails, an answer of no, or
\* the process is killed. What was written stays.
HubFails(r) ==
  /\ hubRuns[r].pc \notin {"done", "failed"}
  /\ SetHubRun(r, [NoHubRun EXCEPT !.pc = "failed"])
  /\ UNCHANGED <<repo, dir, dirEdits>>

EndHub(r) == hubRuns' = [hubRuns EXCEPT ![r] = [NoHubRun EXCEPT !.pc = "done"]]

\* scaffoldHubDirectory: the starter files, in a directory that has any only with
\* --force.
HubInitDir(r, in) ==
  /\ BeginHub(r, in, "init")
  /\ Written(dir) = {} \/ in.yes
  /\ SetHubRun(r, [NoHubRun EXCEPT !.pc = "write", !.cmd = "init", !.left = {Marker},
                                   !.files = [NoFiles EXCEPT ![Marker] = "1"]])
  /\ UNCHANGED <<repo, dir, dirEdits>>

-----------------------------------------------------------------------------
\* hub pull.

FileEntries(files) == {p \in HubPaths : files[p] \notin {NoFile, "link"}}

\* The commit that :REF or --commit names, the latest without one.
CommitOf(in) ==
  IF in.ref = "tag" /\ repo.tag # 0 THEN repo.tag ELSE Len(repo.commits)

ListFiles(r, in) ==
  /\ BeginHub(r, in, "pull") /\ repo.exists /\ CommitOf(in) # 0
  /\ SetHubRun(r, [NoHubRun EXCEPT !.pc = "check", !.cmd = "pull", !.files = repo.commits[CommitOf(in)]])
  /\ UNCHANGED <<repo, dir, dirEdits>>

\* confirmDirWipe, of the directory as it is now: the user is asked, or has said
\* --yes, unless it is empty or of the hub. Then some time passes.
ConfirmDirWipe(r) ==
  /\ hubRuns[r].pc = "check"
  /\ SetHubRun(r, [hubRuns[r] EXCEPT !.pc = "wipe", !.alone = TRUE,
                                     !.asked = Written(dir) # {} /\ dir[Marker] = NoFile])
  /\ UNCHANGED <<repo, dir, dirEdits>>

\* os.RemoveAll. The mutant keeps what is excluded from a push.
RemoveAllM(r) ==
  /\ hubRuns[r].pc = "wipe"
  /\ dir' = [p \in HubPaths |-> IF p = ".env" THEN dir[p] ELSE NoFile]
  /\ hubRuns' = [Disturbed(hubRuns, r) EXCEPT ![r].pc = "write", ![r].left = FileEntries(hubRuns[r].files), ![r].alone = TRUE]
  /\ UNCHANGED <<repo, dirEdits>>

RemoveAll(r) ==
  /\ hubRuns[r].pc = "wipe"
  /\ dir' = NoFiles
  /\ hubRuns' = [Disturbed(hubRuns, r) EXCEPT ![r].pc = "write", ![r].left = FileEntries(hubRuns[r].files), ![r].alone = TRUE]
  /\ UNCHANGED <<repo, dirEdits>>

\* writeFilesToDirectory, in any order; `init' writes its files so too.
WriteHubFile(r) ==
  /\ hubRuns[r].pc = "write"
  /\ \E p \in hubRuns[r].left :
       /\ dir' = [dir EXCEPT ![p] = hubRuns[r].files[p]]
       /\ hubRuns' = [Disturbed(hubRuns, r) EXCEPT ![r].left = @ \ {p}]
  /\ UNCHANGED <<repo, dirEdits>>

WrittenAll(r) ==
  /\ hubRuns[r].pc = "write" /\ hubRuns[r].left = {}
  /\ EndHub(r)
  /\ UNCHANGED <<repo, dir, dirEdits>>

-----------------------------------------------------------------------------
\* hub push.

ReadDirectory(r, in) ==
  /\ BeginHub(r, in, "push")
  /\ SetHubRun(r, [NoHubRun EXCEPT !.pc = "read", !.cmd = "push", !.public = in.public, !.left = HubPaths \ Excluded])
  /\ UNCHANGED <<repo, dir, dirEdits>>

\* readDirectoryAsFiles reads one file after the other; one that is not text
\* is an error, and so are no files at all.
ReadHubFile(r) ==
  /\ hubRuns[r].pc = "read"
  /\ \E p \in hubRuns[r].left :
       /\ dir[p] # "binary"
       /\ LET files == [hubRuns[r].files EXCEPT ![p] = dir[p]]
              left  == hubRuns[r].left \ {p}
          IN  /\ left = {} => FileEntries(files) # {}
              /\ SetHubRun(r, [hubRuns[r] EXCEPT !.files = files, !.left = left, !.pc = IF left = {} THEN "get" ELSE @])
  /\ UNCHANGED <<repo, dir, dirEdits>>

\* ensureHubRepo: one request whether the repo is there, then another that
\* updates what the flags say of it or creates it.
GetRepo(r) ==
  /\ hubRuns[r].pc = "get"
  /\ SetHubRun(r, [hubRuns[r] EXCEPT !.pc = IF ~repo.exists THEN "new"
                                            ELSE IF hubRuns[r].public = "unset" THEN "commit" ELSE "update"])
  /\ UNCHANGED <<repo, dir, dirEdits>>

UpdateRepo(r) ==
  /\ hubRuns[r].pc = "update" /\ repo.exists
  /\ repo' = [repo EXCEPT !.public = hubRuns[r].public = "yes"]
  /\ SetHubRun(r, [hubRuns[r] EXCEPT !.pc = "commit"])
  /\ UNCHANGED <<dir, dirEdits>>

\* A repo that another command created meanwhile is as good: the flags are
\* dropped.
NewRepo(r) ==
  /\ hubRuns[r].pc = "new"
  /\ repo' = IF repo.exists THEN repo ELSE [NoRepo EXCEPT !.exists = TRUE, !.public = hubRuns[r].public = "yes"]
  /\ SetHubRun(r, [hubRuns[r] EXCEPT !.pc = "commit"])
  /\ UNCHANGED <<dir, dirEdits>>

Commit(r) ==
  /\ hubRuns[r].pc = "commit" /\ repo.exists /\ Len(repo.commits) < MaxCommits
  /\ repo' = [repo EXCEPT !.commits = Append(@, hubRuns[r].files)]
  /\ EndHub(r)
  /\ UNCHANGED <<dir, dirEdits>>

-----------------------------------------------------------------------------
\* Deletion by name, and the commands on prompts.

\* `hub delete' and `prompt delete', with everything in the repo.
DeleteRepo(r, in) ==
  /\ BeginHub(r, in, "delete") /\ repo.exists
  /\ repo' = NoRepo
  /\ EndHub(r)
  /\ UNCHANGED <<dir, dirEdits>>

\* `prompt create' fails if there is one; `prompt push' if there is none.
CreatePrompt(r, in) ==
  /\ BeginHub(r, in, "create prompt") /\ ~repo.exists
  /\ repo' = [NoRepo EXCEPT !.exists = TRUE, !.public = in.public = "yes"]
  /\ EndHub(r)
  /\ UNCHANGED <<dir, dirEdits>>

PushPrompt(r, in) ==
  /\ BeginHub(r, in, "push prompt") /\ repo.exists /\ Len(repo.commits) < MaxCommits
  /\ repo' = [repo EXCEPT !.commits = Append(@, [NoFiles EXCEPT !["tools.json"] = "1"])]
  /\ EndHub(r)
  /\ UNCHANGED <<dir, dirEdits>>

\* `prompt tag create' and `update' make the same request.
TagCommit(r, in) ==
  /\ BeginHub(r, in, "tag") /\ repo.exists
  /\ \E n \in DOMAIN repo.commits : repo' = [repo EXCEPT !.tag = n]
  /\ EndHub(r)
  /\ UNCHANGED <<dir, dirEdits>>

-----------------------------------------------------------------------------
\* The user edits the directory; or a linked child is added in the UI.

EditDir ==
  /\ dirEdits < MaxDirEdits
  /\ dirEdits' = dirEdits + 1
  /\ \/ /\ \E p \in {"tools.json", ".env"}, c \in {NoFile, "2"} : dir' = [dir EXCEPT ![p] = c]
        /\ hubRuns' = [r \in HubRuns |-> [hubRuns[r] EXCEPT !.alone = FALSE]]
        /\ UNCHANGED repo
     \/ /\ repo.commits # <<>> /\ Len(repo.commits) < MaxCommits
        /\ repo' = [repo EXCEPT !.commits = Append(@, [repo.commits[Len(repo.commits)] EXCEPT !["child"] = "link"])]
        /\ UNCHANGED <<dir, hubRuns>>

HubNext ==
  \/ \E r \in HubRuns, in \in HubInputs :
       \/ HubInitDir(r, in) \/ ListFiles(r, in) \/ ReadDirectory(r, in) \/ DeleteRepo(r, in)
       \/ CreatePrompt(r, in) \/ PushPrompt(r, in) \/ TagCommit(r, in)
  \/ \E r \in HubRuns :
       \/ HubFails(r) \/ ConfirmDirWipe(r) \/ RemoveAll(r) \/ WriteHubFile(r) \/ WrittenAll(r)
       \/ ReadHubFile(r) \/ GetRepo(r) \/ UpdateRepo(r) \/ NewRepo(r) \/ Commit(r)
  \/ EditDir

HubSpec == HubInit /\ [][HubNext]_hubVars

-----------------------------------------------------------------------------
\* Properties.

HubTypeOK ==
  /\ dir \in [HubPaths -> Contents]
  /\ repo.tag \in 0 .. Len(repo.commits) /\ Len(repo.commits) <= MaxCommits
  /\ ~repo.exists => repo = NoRepo
  /\ \A r \in HubRuns : hubRuns[r].left \subseteq HubPaths /\ hubRuns[r].files \in [HubPaths -> Contents]

(***************************************************************************)
(* `hub pull' wipes unasked only a directory that was empty or of the hub  *)
(* when it looked; and when it says "pulled", the directory holds the      *)
(* files of the commit it asked for and nothing else, of an earlier pull   *)
(* or of the user, whatever failed or was killed before, and though        *)
(* commits, tags and the repo itself change while it writes. Unless        *)
(* someone touched the directory since it looked, or since it wiped.       *)
(***************************************************************************)
PullsAreClean ==
  \A r \in HubRuns :
    LET run == hubRuns[r]
    IN  /\ run.pc = "wipe" /\ ~run.asked /\ run.alone => Written(dir) = {} \/ dir[Marker] # NoFile
        /\ run.pc = "write" /\ run.cmd = "pull" /\ run.left = {} /\ run.alone =>
             \A p \in HubPaths : dir[p] = IF p \in FileEntries(run.files) THEN run.files[p] ELSE NoFile
=============================================================================
