---------------------------- MODULE CommandProofs ----------------------------
(***************************************************************************)
(* Proofs about commands that read, ask or wait, and then write what they  *)
(* read, while others change it: `hub pull' into a directory (HubRepos),   *)
(* `evaluator upload --replace' of a rule (Evaluators), the cached         *)
(* specification of `api ls' and `api info' (SpecCache), `apps push' from  *)
(* a directory that was pulled, claimed or cloned (AppsSync), the wait for *)
(* an insight report (Insights), `traces setup' (TracingSetup), the        *)
(* attempts of `api' (RawApi), exports and uploads of datasets (Datasets), *)
(* the board of issues (Issues), `trace stats' (TraceStats), and the       *)
(* generated commands (GeneratedCommands). The lemmas on numbers and       *)
(* sequences are in QueryProofs.                                           *)
(***************************************************************************)
EXTENDS HubRepos, Evaluators, SpecCache, AppsSync, Insights, CodexToml, RawApi,
        Datasets, TraceStats, Issues, GeneratedCommands, QueryProofs

-----------------------------------------------------------------------------
(* `hub pull': what a run has written so far is a part of the commit, and  *)
(* the directory holds that part and nothing else, unless someone else     *)
(* touched it, which the run then knows.                                   *)

HubFileSets == [HubPaths -> Contents]

HubSteps == {"start", "write", "check", "wipe", "read", "get", "new", "update", "commit", "done", "failed"}

HubRun ==
  [pc : HubSteps, cmd : {"none", "init", "pull", "push"}, public : {"unset", "yes", "no"},
   left : SUBSET HubPaths, files : HubFileSets, asked : BOOLEAN, alone : BOOLEAN]

HubTyped ==
  /\ dir \in HubFileSets
  /\ repo.commits \in Seq(HubFileSets)
  /\ repo.tag \in 0 .. Len(repo.commits)
  /\ repo \in [exists : BOOLEAN, public : BOOLEAN, commits : Seq(HubFileSets), tag : Nat]
  /\ hubRuns \in [HubRuns -> HubRun]

CleanSoFar(run, d) ==
  /\ run.pc = "wipe" /\ ~run.asked /\ run.alone => Written(d) = {} \/ d[Marker] # NoFile
  /\ run.pc = "write" /\ run.cmd = "pull" =>
       /\ run.left \subseteq FileEntries(run.files)
       /\ run.alone => \A p \in HubPaths :
            d[p] = IF p \in FileEntries(run.files) \ run.left THEN run.files[p] ELSE NoFile

HubInv == HubTyped /\ \A r \in HubRuns : CleanSoFar(hubRuns[r], dir)

\* A run goes on and leaves the directory as it is.
LEMMA HubRunGoesOn ==
  ASSUME HubInv, NEW r \in HubRuns, NEW run \in HubRun, SetHubRun(r, run), UNCHANGED dir, HubTyped' \/ UNCHANGED repo,
         CleanSoFar(run, dir)
  PROVE  HubInv'
<1>1. hubRuns' \in [HubRuns -> HubRun] /\ \A x \in HubRuns : hubRuns'[x] = IF x = r THEN run ELSE hubRuns[x]
  BY DEF SetHubRun, HubInv, HubTyped
<1>2. HubTyped'
  BY <1>1 DEF HubInv, HubTyped
<1>3. \A x \in HubRuns : CleanSoFar(hubRuns'[x], dir)
  BY <1>1 DEF HubInv
<1>4. dir' = dir
  OBVIOUS
<1> QED
  BY <1>2, <1>3, <1>4 DEF HubInv

\* A run that neither is to wipe a directory nor writes one has nothing to keep.
LEMMA NothingToKeep ==
  ASSUME NEW run, NEW d, run.pc \notin {"wipe", "write"}
  PROVE  CleanSoFar(run, d)
BY DEF CleanSoFar

LEMMA NewHubRun ==
  /\ NoHubRun \in HubRun /\ NoFiles \in HubFileSets
  /\ NoHubRun.pc = "start" /\ NoHubRun.files = NoFiles
<1>1. NoFiles \in HubFileSets
  BY DEF NoFiles, HubFileSets, Contents, NoFile
<1> QED
  BY <1>1 DEF NoHubRun, HubRun, HubSteps

\* What touches the directory, other than r, tells the runs.
LEMMA DisturbedRuns ==
  ASSUME HubInv, NEW r
  PROVE  /\ Disturbed(hubRuns, r) \in [HubRuns -> HubRun]
         /\ \A x \in HubRuns : x = r => Disturbed(hubRuns, r)[x] = hubRuns[x]
         /\ \A x \in HubRuns : x # r => /\ ~Disturbed(hubRuns, r)[x].alone
                                        /\ Disturbed(hubRuns, r)[x].left = hubRuns[x].left
                                        /\ Disturbed(hubRuns, r)[x].files = hubRuns[x].files
                                        /\ Disturbed(hubRuns, r)[x].pc = hubRuns[x].pc
                                        /\ Disturbed(hubRuns, r)[x].cmd = hubRuns[x].cmd
<1>1. hubRuns \in [HubRuns -> HubRun]
  BY DEF HubInv, HubTyped
<1> DEFINE other(x) == [hubRuns[x] EXCEPT !.alone = FALSE]
<1>2. ASSUME NEW x \in HubRuns
      PROVE  /\ other(x) \in HubRun /\ ~other(x).alone /\ other(x).left = hubRuns[x].left /\ other(x).files = hubRuns[x].files
             /\ other(x).pc = hubRuns[x].pc /\ other(x).cmd = hubRuns[x].cmd
  BY <1>1 DEF HubRun
<1>3. Disturbed(hubRuns, r) = [x \in HubRuns |-> IF x = r THEN hubRuns[x] ELSE other(x)]
  BY DEF Disturbed
<1> HIDE DEF other
<1> QED
  BY <1>1, <1>2, <1>3

\* Whoever is not alone any more has nothing to keep but what is left.
LEMMA NotAlone ==
  ASSUME NEW run, NEW d, CleanSoFar(run, d), NEW other, NEW e, ~other.alone,
         other.left = run.left, other.files = run.files, other.pc = run.pc, other.cmd = run.cmd
  PROVE  CleanSoFar(other, e)
BY DEF CleanSoFar

LEMMA ListFilesKeeps ==
  ASSUME HubInv, NEW r \in HubRuns, NEW in, ListFiles(r, in)
  PROVE  HubInv'
<1> DEFINE run == [NoHubRun EXCEPT !.pc = "check", !.cmd = "pull", !.files = repo.commits[CommitOf(in)]]
<1>1. CommitOf(in) \in 1 .. Len(repo.commits)
  BY DEF ListFiles, CommitOf, HubInv, HubTyped
<1>2. repo.commits[CommitOf(in)] \in HubFileSets
  BY <1>1 DEF HubInv, HubTyped
<1>3. run \in HubRun /\ run.pc = "check"
  BY <1>2, NewHubRun DEF HubRun, HubSteps
<1>4. SetHubRun(r, run) /\ UNCHANGED <<repo, dir>>
  BY DEF ListFiles
<1> HIDE DEF run
<1> QED
  BY <1>3, <1>4, NothingToKeep, HubRunGoesOn

LEMMA ConfirmDirWipeKeeps ==
  ASSUME HubInv, NEW r \in HubRuns, ConfirmDirWipe(r)
  PROVE  HubInv'
<1> DEFINE asked == Written(dir) # {} /\ dir[Marker] = NoFile
           run   == [hubRuns[r] EXCEPT !.pc = "wipe", !.alone = TRUE, !.asked = asked]
<1>1. hubRuns[r] \in HubRun /\ asked \in BOOLEAN
  BY DEF HubInv, HubTyped
<1> HIDE DEF asked
<1>2. run \in HubRun /\ run.pc = "wipe" /\ run.asked = asked
  BY <1>1 DEF HubRun, HubSteps
<1>3. SetHubRun(r, run) /\ UNCHANGED <<repo, dir>>
  BY DEF ConfirmDirWipe, asked
<1> HIDE DEF run
<1>4. CleanSoFar(run, dir)
  BY <1>2 DEF CleanSoFar, asked
<1> QED
  BY <1>2, <1>3, <1>4, HubRunGoesOn

LEMMA RemoveAllKeeps ==
  ASSUME HubInv, NEW r \in HubRuns, RemoveAll(r)
  PROVE  HubInv'
<1>1. /\ dir' = NoFiles /\ UNCHANGED repo /\ hubRuns[r] \in HubRun
      /\ hubRuns' = [Disturbed(hubRuns, r) EXCEPT ![r].pc = "write", ![r].left = FileEntries(hubRuns[r].files), ![r].alone = TRUE]
  BY DEF RemoveAll, HubInv, HubTyped
<1> DEFINE other  == Disturbed(hubRuns, r)
           files == hubRuns[r].files
           run   == [hubRuns[r] EXCEPT !.pc = "write", !.left = FileEntries(files), !.alone = TRUE]
<1>2. FileEntries(files) \subseteq HubPaths
  BY DEF FileEntries
<1>3. run \in HubRun /\ run.pc = "write" /\ run.left = FileEntries(files) /\ run.files = files
  BY <1>1, <1>2 DEF HubRun, HubSteps
<1>4. other \in [HubRuns -> HubRun] /\ other[r] = hubRuns[r]
  BY DisturbedRuns
<1>5. hubRuns' = [other EXCEPT ![r] = run]
  BY <1>1, <1>4
<1> HIDE DEF run, other
<1>6. hubRuns' \in [HubRuns -> HubRun] /\ \A x \in HubRuns : hubRuns'[x] = IF x = r THEN run ELSE other[x]
  BY <1>3, <1>4, <1>5
<1>7. HubTyped'
  BY <1>1, <1>6, NewHubRun DEF HubInv, HubTyped
<1>8. CleanSoFar(run, NoFiles)
  BY <1>3 DEF CleanSoFar, NoFiles
<1>9. ASSUME NEW x \in HubRuns, x # r PROVE CleanSoFar(other[x], NoFiles)
  BY <1>9, DisturbedRuns, NotAlone DEF HubInv, other
<1> QED
  BY <1>1, <1>6, <1>7, <1>8, <1>9 DEF HubInv

\* One file more is written.
LEMMA WriteHubFileKeeps ==
  ASSUME HubInv, NEW r \in HubRuns, WriteHubFile(r)
  PROVE  HubInv'
<1>1. hubRuns[r] \in HubRun /\ dir \in HubFileSets /\ CleanSoFar(hubRuns[r], dir) /\ hubRuns[r].pc = "write" /\ UNCHANGED repo
  BY DEF WriteHubFile, HubInv, HubTyped
<1>2. PICK p \in hubRuns[r].left :
        /\ dir' = [dir EXCEPT ![p] = hubRuns[r].files[p]]
        /\ hubRuns' = [Disturbed(hubRuns, r) EXCEPT ![r].left = @ \ {p}]
  BY DEF WriteHubFile
<1>3. p \in HubPaths /\ hubRuns[r].files[p] \in Contents
  BY <1>1, <1>2 DEF HubRun, HubFileSets
<1>4. dir' \in HubFileSets /\ \A q \in HubPaths : dir'[q] = IF q = p THEN hubRuns[r].files[p] ELSE dir[q]
  BY <1>1, <1>2, <1>3 DEF HubFileSets
<1> DEFINE other == Disturbed(hubRuns, r)
           run  == [hubRuns[r] EXCEPT !.left = @ \ {p}]
<1>5. /\ run \in HubRun /\ run.pc = "write" /\ run.left = hubRuns[r].left \ {p} /\ run.files = hubRuns[r].files
      /\ run.alone = hubRuns[r].alone /\ run.cmd = hubRuns[r].cmd
  BY <1>1 DEF HubRun
<1>6. other \in [HubRuns -> HubRun] /\ other[r] = hubRuns[r]
  BY DisturbedRuns
<1>7. hubRuns' = [other EXCEPT ![r] = run]
  BY <1>2, <1>6
<1> HIDE DEF run, other
<1>8. hubRuns' \in [HubRuns -> HubRun] /\ \A x \in HubRuns : hubRuns'[x] = IF x = r THEN run ELSE other[x]
  BY <1>5, <1>6, <1>7
<1>9. HubTyped'
  BY <1>1, <1>4, <1>8 DEF HubInv, HubTyped
<1>10. CleanSoFar(run, dir')
  <2>1. SUFFICES ASSUME run.cmd = "pull" PROVE CleanSoFar(run, dir')
    BY <1>5 DEF CleanSoFar
  <2>2. hubRuns[r].left \subseteq FileEntries(run.files)
    BY <1>1, <1>5, <2>1 DEF CleanSoFar
  <2>3. ASSUME run.alone, NEW q \in HubPaths
        PROVE  dir'[q] = IF q \in FileEntries(run.files) \ run.left THEN run.files[q] ELSE NoFile
    <3>1. dir[q] = IF q \in FileEntries(run.files) \ hubRuns[r].left THEN run.files[q] ELSE NoFile
      BY <1>1, <1>5, <2>1, <2>3 DEF CleanSoFar
    <3> QED
      BY <1>2, <1>4, <1>5, <2>2, <3>1
  <2> QED
    BY <1>5, <2>2, <2>3 DEF CleanSoFar
<1>11. ASSUME NEW x \in HubRuns, x # r PROVE CleanSoFar(other[x], dir')
  BY <1>11, DisturbedRuns, NotAlone DEF HubInv, other
<1> QED
  BY <1>8, <1>9, <1>10, <1>11 DEF HubInv

LEMMA ReadHubFileKeeps ==
  ASSUME HubInv, NEW r \in HubRuns, ReadHubFile(r)
  PROVE  HubInv'
<1>1. hubRuns[r] \in HubRun /\ dir \in HubFileSets /\ hubRuns[r].pc = "read" /\ UNCHANGED <<repo, dir>>
  BY DEF ReadHubFile, HubInv, HubTyped
<1>2. PICK p \in hubRuns[r].left :
        LET files == [hubRuns[r].files EXCEPT ![p] = dir[p]]
            rest  == hubRuns[r].left \ {p}
        IN  SetHubRun(r, [hubRuns[r] EXCEPT !.files = files, !.left = rest, !.pc = IF rest = {} THEN "get" ELSE @])
  BY DEF ReadHubFile
<1> DEFINE files == [hubRuns[r].files EXCEPT ![p] = dir[p]]
           rest  == hubRuns[r].left \ {p}
           pc    == IF rest = {} THEN "get" ELSE "read"
           run   == [hubRuns[r] EXCEPT !.files = files, !.left = rest, !.pc = pc]
<1>3. files \in HubFileSets /\ rest \in SUBSET HubPaths /\ pc \in {"get", "read"}
  BY <1>1 DEF HubRun, HubFileSets
<1>4. SetHubRun(r, run)
  BY <1>1, <1>2
<1> HIDE DEF files, rest, pc
<1>5. run \in HubRun /\ run.pc = pc
  BY <1>1, <1>3 DEF HubRun, HubSteps
<1> HIDE DEF run
<1> QED
  BY <1>1, <1>3, <1>4, <1>5, NothingToKeep, HubRunGoesOn

\* The repo changes and keeps its shape; the run that changes it goes on or ends.
LEMMA RepoChanges ==
  ASSUME HubInv, NEW r \in HubRuns,
         NEW run \in HubRun, run.pc \notin {"wipe", "write"}, SetHubRun(r, run), UNCHANGED dir,
         repo' \in [exists : BOOLEAN, public : BOOLEAN, commits : Seq(HubFileSets), tag : Nat],
         repo'.tag \in 0 .. Len(repo'.commits)
  PROVE  HubInv'
<1>1. HubTyped'
  BY DEF HubInv, HubTyped, SetHubRun
<1> QED
  BY <1>1, NothingToKeep, HubRunGoesOn

LEMMA EndedHubRun ==
  ASSUME NEW pc \in {"done", "failed"}
  PROVE  [NoHubRun EXCEPT !.pc = pc] \in HubRun /\ [NoHubRun EXCEPT !.pc = pc].pc = pc
BY NewHubRun DEF HubRun, HubSteps

LEMMA OneCommitMore ==
  ASSUME HubInv, NEW files \in HubFileSets
  PROVE  LET after == [repo EXCEPT !.commits = Append(@, files)]
         IN  /\ after \in [exists : BOOLEAN, public : BOOLEAN, commits : Seq(HubFileSets), tag : Nat]
             /\ after.tag \in 0 .. Len(after.commits)
<1>1. repo \in [exists : BOOLEAN, public : BOOLEAN, commits : Seq(HubFileSets), tag : Nat] /\ repo.tag \in 0 .. Len(repo.commits)
  BY DEF HubInv, HubTyped
<1> DEFINE commits == Append(repo.commits, files)
<1>2. commits \in Seq(HubFileSets) /\ Len(commits) = Len(repo.commits) + 1 /\ Len(repo.commits) \in Nat
  BY <1>1
<1> DEFINE after == [repo EXCEPT !.commits = commits]
<1>3. after = [repo EXCEPT !.commits = Append(@, files)]
  BY <1>1
<1> HIDE DEF commits
<1>4. /\ after \in [exists : BOOLEAN, public : BOOLEAN, commits : Seq(HubFileSets), tag : Nat]
      /\ after.tag = repo.tag /\ after.commits = commits
  BY <1>1, <1>2
<1> HIDE DEF after
<1>5. after.tag \in 0 .. Len(after.commits)
  BY <1>1, <1>2, <1>4
<1> QED
  BY <1>3, <1>4, <1>5

\* The requests about the repo.
LEMMA RepoRequestKeeps ==
  ASSUME HubInv, NEW r \in HubRuns, NEW in,
         \/ GetRepo(r) \/ UpdateRepo(r) \/ NewRepo(r) \/ Commit(r)
         \/ DeleteRepo(r, in) \/ CreatePrompt(r, in) \/ PushPrompt(r, in) \/ TagCommit(r, in)
  PROVE  HubInv'
<1>1. /\ hubRuns[r] \in HubRun
      /\ repo \in [exists : BOOLEAN, public : BOOLEAN, commits : Seq(HubFileSets), tag : Nat]
      /\ repo.tag \in 0 .. Len(repo.commits)
  BY DEF HubInv, HubTyped
<1>2. UNCHANGED dir
  BY DEF GetRepo, UpdateRepo, NewRepo, Commit, DeleteRepo, CreatePrompt, PushPrompt, TagCommit
<1>3. PICK run \in HubRun : run.pc \notin {"wipe", "write"} /\ SetHubRun(r, run)
  <2>1. CASE GetRepo(r) \/ UpdateRepo(r) \/ NewRepo(r)
    <3>1. PICK pc \in {"new", "commit", "update"} : SetHubRun(r, [hubRuns[r] EXCEPT !.pc = pc])
      BY <2>1 DEF GetRepo, UpdateRepo, NewRepo
    <3>2. [hubRuns[r] EXCEPT !.pc = pc] \in HubRun /\ [hubRuns[r] EXCEPT !.pc = pc].pc = pc
      BY <1>1 DEF HubRun, HubSteps
    <3> QED
      BY <3>1, <3>2
  <2>2. CASE \/ Commit(r) \/ DeleteRepo(r, in) \/ CreatePrompt(r, in) \/ PushPrompt(r, in) \/ TagCommit(r, in)
    <3>1. SetHubRun(r, [NoHubRun EXCEPT !.pc = "done"])
      BY <2>2 DEF SetHubRun, EndHub, Commit, DeleteRepo, CreatePrompt, PushPrompt, TagCommit
    <3> QED
      BY <3>1, EndedHubRun
  <2> QED
    BY <2>1, <2>2
<1>4. /\ repo' \in [exists : BOOLEAN, public : BOOLEAN, commits : Seq(HubFileSets), tag : Nat]
      /\ repo'.tag \in 0 .. Len(repo'.commits)
  <2>1. CASE GetRepo(r)
    BY <1>1, <2>1 DEF GetRepo
  <2>2. CASE UpdateRepo(r)
    BY <1>1, <2>2 DEF UpdateRepo
  <2>3. CASE NewRepo(r) \/ DeleteRepo(r, in) \/ CreatePrompt(r, in)
    <3>1. \E public \in BOOLEAN : repo' \in {repo, NoRepo, [NoRepo EXCEPT !.exists = TRUE, !.public = public]}
      BY <2>3 DEF NewRepo, DeleteRepo, CreatePrompt
    <3>2. PICK public \in BOOLEAN : repo' \in {repo, NoRepo, [NoRepo EXCEPT !.exists = TRUE, !.public = public]}
      BY <3>1
    <3> DEFINE new == [NoRepo EXCEPT !.exists = TRUE, !.public = public]
    <3>3. ASSUME NEW after, after \in {NoRepo, new}
          PROVE  after \in [exists : BOOLEAN, public : BOOLEAN, commits : Seq(HubFileSets), tag : Nat]
                 /\ after.tag = 0 /\ after.commits = <<>>
      <4>1. \E e \in BOOLEAN, q \in BOOLEAN : after = [exists |-> e, public |-> q, commits |-> <<>>, tag |-> 0]
        BY <3>3 DEF NoRepo
      <4>2. <<>> \in Seq(HubFileSets)
        OBVIOUS
      <4> QED
        BY <4>1, <4>2
    <3> HIDE DEF new
    <3>4. CASE repo' = repo
      BY <1>1, <3>4
    <3>5. CASE repo' \in {NoRepo, new}
      <4>1. repo'.tag = 0 /\ Len(repo'.commits) = 0
        BY <3>3, <3>5
      <4> QED
        BY <3>3, <3>5, <4>1
    <3> QED
      BY <3>2, <3>4, <3>5 DEF new
  <2>4. CASE Commit(r)
    <3>1. hubRuns[r].files \in HubFileSets
      BY <1>1 DEF HubRun
    <3> QED
      BY <2>4, <3>1, OneCommitMore DEF Commit
  <2>5. CASE PushPrompt(r, in)
    <3>1. [NoFiles EXCEPT !["tools.json"] = "1"] \in HubFileSets
      BY NewHubRun DEF HubFileSets, Contents
    <3> QED
      BY <2>5, <3>1, OneCommitMore DEF PushPrompt
  <2>6. CASE TagCommit(r, in)
    <3>1. PICK n \in DOMAIN repo.commits : repo' = [repo EXCEPT !.tag = n]
      BY <2>6 DEF TagCommit
    <3>2. n \in 1 .. Len(repo.commits) /\ Len(repo.commits) \in Nat
      BY <1>1, <3>1
    <3> QED
      BY <1>1, <3>1, <3>2
  <2> QED
    BY <2>1, <2>2, <2>3, <2>4, <2>5, <2>6
<1> QED
  BY <1>2, <1>3, <1>4, RepoChanges

LEMMA EditDirKeeps ==
  ASSUME HubInv, EditDir
  PROVE  HubInv'
<1>1. CASE /\ \E p \in {"tools.json", ".env"}, c \in {NoFile, "2"} : dir' = [dir EXCEPT ![p] = c]
           /\ hubRuns' = [r \in HubRuns |-> [hubRuns[r] EXCEPT !.alone = FALSE]]
           /\ UNCHANGED repo
  <2>1. dir' \in HubFileSets
    BY <1>1 DEF HubInv, HubTyped, HubFileSets, Contents, NoFile
  <2>2. ASSUME NEW x \in HubRuns
        PROVE  /\ hubRuns'[x] \in HubRun /\ ~hubRuns'[x].alone
               /\ hubRuns'[x].left = hubRuns[x].left /\ hubRuns'[x].files = hubRuns[x].files
               /\ hubRuns'[x].pc = hubRuns[x].pc /\ hubRuns'[x].cmd = hubRuns[x].cmd
    <3> DEFINE other == [hubRuns[x] EXCEPT !.alone = FALSE]
    <3>1. hubRuns[x] \in HubRun
      BY DEF HubInv, HubTyped
    <3>2. /\ other \in HubRun /\ ~other.alone /\ other.left = hubRuns[x].left /\ other.files = hubRuns[x].files
          /\ other.pc = hubRuns[x].pc /\ other.cmd = hubRuns[x].cmd
      BY <3>1 DEF HubRun
    <3>3. hubRuns'[x] = other
      BY <1>1
    <3> HIDE DEF other
    <3> QED
      BY <3>2, <3>3
  <2>3. hubRuns' \in [HubRuns -> HubRun]
    BY <1>1, <2>2
  <2>4. HubTyped'
    BY <1>1, <2>1, <2>3 DEF HubInv, HubTyped
  <2>5. ASSUME NEW x \in HubRuns PROVE CleanSoFar(hubRuns'[x], dir')
    BY <2>2, NotAlone DEF HubInv
  <2> QED
    BY <2>4, <2>5 DEF HubInv
<1>2. CASE /\ repo.commits # <<>>
           /\ repo' = [repo EXCEPT !.commits = Append(@, [repo.commits[Len(repo.commits)] EXCEPT !["child"] = "link"])]
           /\ UNCHANGED <<dir, hubRuns>>
  <2>1. repo.commits[Len(repo.commits)] \in HubFileSets
    BY <1>2 DEF HubInv, HubTyped
  <2>2. [repo.commits[Len(repo.commits)] EXCEPT !["child"] = "link"] \in HubFileSets
    BY <2>1 DEF HubFileSets, Contents
  <2>3. HubTyped'
    BY <1>2, <2>2, OneCommitMore DEF HubInv, HubTyped
  <2> QED
    BY <1>2, <2>3 DEF HubInv
<1> QED
  BY <1>1, <1>2 DEF EditDir

\* `hub pull' wipes unasked only what was empty or of the hub, and what it says it
\* pulled is the commit and nothing else, unless someone touched the directory.
THEOREM PullsStayClean == HubSpec => []PullsAreClean
<1>1. HubInit => HubInv
  <2> SUFFICES ASSUME HubInit PROVE HubInv
    OBVIOUS
  <2>1. dir \in HubFileSets
    BY NewHubRun DEF HubInit, HubFileSets, Contents, NoFile
  <2>2. repo \in [exists : BOOLEAN, public : BOOLEAN, commits : Seq(HubFileSets), tag : Nat] /\ repo.tag \in 0 .. Len(repo.commits)
    BY DEF HubInit, NoRepo
  <2>3. hubRuns \in [HubRuns -> HubRun] /\ \A r \in HubRuns : hubRuns[r].pc = "start"
    BY NewHubRun DEF HubInit
  <2>4. \A r \in HubRuns : CleanSoFar(hubRuns[r], dir)
    BY <2>3, NothingToKeep
  <2> QED
    BY <2>1, <2>2, <2>3, <2>4 DEF HubInv, HubTyped
<1>2. HubInv /\ [HubNext]_hubVars => HubInv'
  <2> SUFFICES ASSUME HubInv, [HubNext]_hubVars PROVE HubInv'
    OBVIOUS
  <2>1. CASE UNCHANGED hubVars
    BY <2>1 DEF hubVars, HubInv, HubTyped
  <2>2. ASSUME NEW r \in HubRuns, NEW in \in HubInputs, HubInitDir(r, in) PROVE HubInv'
    <3> DEFINE run == [NoHubRun EXCEPT !.pc = "write", !.cmd = "init", !.left = {Marker},
                                       !.files = [NoFiles EXCEPT ![Marker] = "1"]]
    <3>1. run \in HubRun /\ run.cmd = "init" /\ run.pc = "write"
      BY NewHubRun DEF HubRun, HubSteps, HubFileSets, HubPaths, Marker, Contents
    <3>2. SetHubRun(r, run) /\ UNCHANGED <<repo, dir>>
      BY <2>2 DEF HubInitDir
    <3> HIDE DEF run
    <3>3. CleanSoFar(run, dir)
      BY <3>1 DEF CleanSoFar
    <3> QED
      BY <3>1, <3>2, <3>3, HubRunGoesOn
  <2>3. ASSUME NEW r \in HubRuns, NEW in \in HubInputs, ReadDirectory(r, in) PROVE HubInv'
    <3> DEFINE run == [NoHubRun EXCEPT !.pc = "read", !.cmd = "push", !.public = in.public, !.left = HubPaths \ Excluded]
    <3>1. run \in HubRun /\ run.pc = "read"
      BY NewHubRun, HubAssumption DEF HubRun, HubSteps
    <3>2. SetHubRun(r, run) /\ UNCHANGED <<repo, dir>>
      BY <2>3 DEF ReadDirectory
    <3> HIDE DEF run
    <3> QED
      BY <3>1, <3>2, NothingToKeep, HubRunGoesOn
  <2>4. ASSUME NEW r \in HubRuns, HubFails(r) \/ WrittenAll(r) PROVE HubInv'
    <3>1. PICK pc \in {"done", "failed"} : SetHubRun(r, [NoHubRun EXCEPT !.pc = pc])
      BY <2>4 DEF HubFails, WrittenAll, EndHub, SetHubRun
    <3>2. UNCHANGED <<repo, dir>>
      BY <2>4 DEF HubFails, WrittenAll
    <3> DEFINE run == [NoHubRun EXCEPT !.pc = pc]
    <3>3. run \in HubRun /\ run.pc \notin {"wipe", "write"}
      BY EndedHubRun
    <3>4. SetHubRun(r, run)
      BY <3>1
    <3> HIDE DEF run
    <3> QED
      BY <3>2, <3>3, <3>4, NothingToKeep, HubRunGoesOn
  <2> QED
    BY <2>1, <2>2, <2>3, <2>4, ListFilesKeeps, ConfirmDirWipeKeeps, RemoveAllKeeps, WriteHubFileKeeps,
       ReadHubFileKeeps, RepoRequestKeeps, EditDirKeeps DEF HubNext
<1>3. HubInv => PullsAreClean
  BY DEF HubInv, CleanSoFar, PullsAreClean
<1> QED
  BY <1>1, <1>2, <1>3, PTL DEF HubSpec

-----------------------------------------------------------------------------
(* `upload --replace': what a run is about to send keeps what it found and *)
(* was not told to change, from the look at the rules on.                  *)

RuleRecord ==
  [name : EvalNames \cup {NoText}, target : Targets \cup {NoText}, evaluator : 0 .. MaxRules, alerts : BOOLEAN,
   set : [RuleSettings -> {"off", "on", "new", "own"}]]

Evaluator == [name : EvalNames \cup {NoText}, code : EvalNames \cup {NoText}]

UploadSteps == {"start", "confirm", "send", "delete rule", "delete evaluator", "done", "failed"}

Upload ==
  [pc : UploadSteps, name : EvalNames \cup {NoText}, target : Targets \cup {NoText}, code : EvalNames \cup {NoText},
   payload : [RuleSettings -> {"off", "on", "new", "own"}], rule : 0 .. MaxRules, found : RuleRecord,
   passed : SUBSET {"sampling_rate", "trace_filter", "delete rules"}]

EvalTyped ==
  /\ rules \in [RuleIds -> RuleRecord]
  /\ evaluators \in [RuleIds -> Evaluator]
  /\ uploads \in [Uploads -> Upload]
  /\ made \in 0 .. MaxRules

Kept(run) ==
  run.pc \in {"confirm", "send"} /\ run.rule # 0 =>
    /\ ~run.found.alerts
    /\ \A s \in RuleSettings \ run.passed : run.payload[s] = run.found.set[s]

EvalInv == EvalTyped /\ \A r \in Uploads : Kept(uploads[r])

LEMMA NewRecords ==
  /\ NoRule \in RuleRecord /\ NoEvaluator \in Evaluator
  /\ EvalIdle \in Upload /\ EvalIdle.pc = "start" /\ EvalIdle.rule = 0
<1>1. NoRule \in RuleRecord
  BY RulesAssumption DEF NoRule, RuleRecord, AllOff
<1>2. NoEvaluator \in Evaluator
  BY DEF NoEvaluator, Evaluator
<1> QED
  BY <1>1, <1>2, RulesAssumption DEF EvalIdle, Upload, UploadSteps, AllOff

\* A run goes on to where it keeps what it found; the server's types hold.
LEMMA UploadGoesOn ==
  ASSUME EvalInv, NEW r \in Uploads, NEW run \in Upload, uploads' = [uploads EXCEPT ![r] = run], Kept(run),
         rules' \in [RuleIds -> RuleRecord], evaluators' \in [RuleIds -> Evaluator], made' \in 0 .. MaxRules
  PROVE  EvalInv'
<1>1. uploads' \in [Uploads -> Upload] /\ \A x \in Uploads : uploads'[x] = IF x = r THEN run ELSE uploads[x]
  BY DEF EvalInv, EvalTyped
<1>2. \A x \in Uploads : Kept(uploads'[x])
  BY <1>1 DEF EvalInv
<1> QED
  BY <1>1, <1>2 DEF EvalInv, EvalTyped

LEMMA UploadsEnd ==
  ASSUME EvalInv, NEW r \in Uploads, NEW outcome \in {"done", "failed"}, EndUpload(r, outcome),
         rules' \in [RuleIds -> RuleRecord], evaluators' \in [RuleIds -> Evaluator], made' \in 0 .. MaxRules
  PROVE  EvalInv'
<1> DEFINE run == [EvalIdle EXCEPT !.pc = outcome]
<1>1. run \in Upload /\ run.pc = outcome
  BY NewRecords DEF Upload, UploadSteps
<1>2. uploads' = [uploads EXCEPT ![r] = run]
  BY DEF EndUpload
<1> HIDE DEF run
<1>3. Kept(run)
  BY <1>1 DEF Kept
<1> QED
  BY <1>1, <1>2, <1>3, UploadGoesOn

LEMMA EvalTypes ==
  ASSUME EvalInv
  PROVE  /\ rules \in [RuleIds -> RuleRecord] /\ evaluators \in [RuleIds -> Evaluator]
         /\ uploads \in [Uploads -> Upload] /\ made \in 0 .. MaxRules
BY DEF EvalInv, EvalTyped

\* The settings of a new rule, and those a replaced one keeps.
LEMMA SettingsSent ==
  ASSUME NEW in \in EvalInput, NEW rule \in RuleRecord
  PROVE  /\ NewRuleSettings(in) \in [RuleSettings -> {"off", "on", "new", "own"}]
         /\ KeepRuleSettings(in, rule) \in [RuleSettings -> {"off", "on", "new", "own"}]
         /\ \A s \in RuleSettings \ PassedFlags(in) : KeepRuleSettings(in, rule)[s] = rule.set[s]
         /\ PassedFlags(in) \in SUBSET {"sampling_rate", "trace_filter", "delete rules"}
<1>1. NewRuleSettings(in) \in [RuleSettings -> {"off", "on", "new", "own"}]
  BY DEF NewRuleSettings, AllOff, EvalInput, RuleSettings
<1>2. PassedFlags(in) \in SUBSET {"sampling_rate", "trace_filter", "delete rules"}
  BY DEF PassedFlags
<1>3. rule.set \in [RuleSettings -> {"off", "on", "new", "own"}]
  BY DEF RuleRecord
<1> QED
  BY <1>1, <1>2, <1>3 DEF KeepRuleSettings

LEMMA FindRuleKeeps ==
  ASSUME EvalInv, NEW r \in Uploads, NEW in \in EvalInputs, FindRule(r, in)
  PROVE  EvalInv'
<1>1. in \in EvalInput /\ UNCHANGED <<rules, evaluators, made>>
  BY RulesAssumption DEF FindRule
<1> DEFINE run == [EvalIdle EXCEPT !.name = in.name, !.target = in.target, !.code = in.code, !.passed = PassedFlags(in)]
<1>2. run \in Upload /\ run.rule = 0 /\ run.passed = PassedFlags(in)
  <2>1. PassedFlags(in) \in SUBSET {"sampling_rate", "trace_filter", "delete rules"}
    BY <1>1, NewRecords, SettingsSent
  <2>2. in.name \in EvalNames /\ in.target \in Targets /\ in.code \in EvalNames
    BY <1>1 DEF EvalInput
  <2> QED
    BY <2>1, <2>2, NewRecords DEF Upload
<1>3. \/ uploads' = [uploads EXCEPT ![r] = [run EXCEPT !.pc = "send", !.payload = NewRuleSettings(in)]]
      \/ \E id \in Rules :
           /\ ~rules[id].alerts
           /\ uploads' = [uploads EXCEPT ![r] =
                [run EXCEPT !.pc = IF in.yes THEN "send" ELSE "confirm", !.rule = id,
                            !.found = rules[id], !.payload = KeepRuleSettings(in, rules[id])]]
  BY DEF FindRule, RulesForReplace
<1> HIDE DEF run
<1>4. CASE uploads' = [uploads EXCEPT ![r] = [run EXCEPT !.pc = "send", !.payload = NewRuleSettings(in)]]
  <2> DEFINE sent == [run EXCEPT !.pc = "send", !.payload = NewRuleSettings(in)]
  <2>1. NewRuleSettings(in) \in [RuleSettings -> {"off", "on", "new", "own"}]
    BY <1>1, NewRecords, SettingsSent
  <2>2. sent \in Upload /\ sent.rule = 0
    BY <1>2, <2>1 DEF Upload, UploadSteps
  <2>3. uploads' = [uploads EXCEPT ![r] = sent]
    BY <1>4
  <2> HIDE DEF sent
  <2>4. Kept(sent)
    BY <2>2 DEF Kept
  <2> QED
    BY <1>1, <2>2, <2>3, <2>4, EvalTypes, UploadGoesOn
<1>5. ASSUME NEW id \in Rules, ~rules[id].alerts,
             uploads' = [uploads EXCEPT ![r] =
                [run EXCEPT !.pc = IF in.yes THEN "send" ELSE "confirm", !.rule = id,
                            !.found = rules[id], !.payload = KeepRuleSettings(in, rules[id])]]
      PROVE  EvalInv'
  <2> DEFINE pc   == IF in.yes THEN "send" ELSE "confirm"
             kept == KeepRuleSettings(in, rules[id])
             sent == [run EXCEPT !.pc = pc, !.rule = id, !.found = rules[id], !.payload = kept]
  <2>1. rules[id] \in RuleRecord /\ id \in RuleIds /\ id \in 0 .. MaxRules
    BY <1>5, EvalTypes, RulesAssumption DEF Rules, RuleIds
  <2>2. /\ kept \in [RuleSettings -> {"off", "on", "new", "own"}]
        /\ \A s \in RuleSettings \ PassedFlags(in) : kept[s] = rules[id].set[s]
    BY <1>1, <2>1, SettingsSent
  <2>3. pc \in UploadSteps
    BY DEF UploadSteps
  <2>4. uploads' = [uploads EXCEPT ![r] = sent]
    BY <1>5
  <2> HIDE DEF kept, pc
  <2>5. sent \in Upload /\ sent.found = rules[id] /\ sent.payload = kept /\ sent.passed = PassedFlags(in)
    BY <1>2, <2>1, <2>2, <2>3 DEF Upload
  <2> HIDE DEF sent
  <2>6. Kept(sent)
    BY <1>5, <2>2, <2>5 DEF Kept
  <2> QED
    BY <1>1, <2>4, <2>5, <2>6, EvalTypes, UploadGoesOn
<1> QED
  BY <1>3, <1>4, <1>5

LEMMA FindToDeleteKeeps ==
  ASSUME EvalInv, NEW r \in Uploads, NEW in, FindRuleToDelete(r, in) \/ FindEvaluatorToDelete(r, in)
  PROVE  EvalInv'
<1>1. UNCHANGED <<rules, evaluators, made>>
  BY DEF FindRuleToDelete, FindEvaluatorToDelete
<1>2. CASE FindRuleToDelete(r, in)
  <2>1. PICK id \in Rules : uploads' = [uploads EXCEPT ![r] = [EvalIdle EXCEPT !.pc = "delete rule", !.rule = id, !.found = rules[id]]]
    BY <1>2 DEF FindRuleToDelete
  <2> DEFINE run == [EvalIdle EXCEPT !.pc = "delete rule", !.rule = id, !.found = rules[id]]
  <2>2. id \in 0 .. MaxRules /\ rules[id] \in RuleRecord
    BY EvalTypes, RulesAssumption DEF Rules, RuleIds
  <2>3. run \in Upload /\ run.pc = "delete rule"
    BY <2>2, NewRecords DEF Upload, UploadSteps
  <2>4. uploads' = [uploads EXCEPT ![r] = run]
    BY <2>1
  <2> HIDE DEF run
  <2>5. Kept(run)
    BY <2>3 DEF Kept
  <2> QED
    BY <1>1, <2>3, <2>4, <2>5, EvalTypes, UploadGoesOn
<1>3. CASE FindEvaluatorToDelete(r, in)
  <2> DEFINE passed == IF in.deleteRules THEN {"delete rules"} ELSE {}
  <2>1. PICK id \in RuleIds : uploads' = [uploads EXCEPT ![r] = [EvalIdle EXCEPT !.pc = "delete evaluator", !.rule = id, !.passed = passed]]
    BY <1>3 DEF FindEvaluatorToDelete
  <2> DEFINE run == [EvalIdle EXCEPT !.pc = "delete evaluator", !.rule = id, !.passed = passed]
  <2>2. id \in 0 .. MaxRules /\ passed \in SUBSET {"sampling_rate", "trace_filter", "delete rules"}
    BY RulesAssumption DEF RuleIds
  <2> HIDE DEF passed
  <2>3. run \in Upload /\ run.pc = "delete evaluator"
    BY <2>2, NewRecords DEF Upload, UploadSteps
  <2>4. uploads' = [uploads EXCEPT ![r] = run]
    BY <2>1
  <2> HIDE DEF run
  <2>5. Kept(run)
    BY <2>3 DEF Kept
  <2> QED
    BY <1>1, <2>3, <2>4, <2>5, EvalTypes, UploadGoesOn
<1> QED
  BY <1>2, <1>3

\* The requests of a run, and what others do in the UI.
LEMMA RequestKeepsTypes ==
  ASSUME EvalInv, NEW r \in Uploads, PostRule(r) \/ PatchRule(r) \/ DeleteRule(r) \/ DeleteEvaluator(r)
  PROVE  EvalInv'
<1>1. uploads[r] \in Upload
  BY EvalTypes
<1>2. PICK outcome \in {"done", "failed"} : EndUpload(r, outcome)
  BY DEF PostRule, PatchRule, DeleteRule, DeleteEvaluator
<1>3. rules' \in [RuleIds -> RuleRecord] /\ evaluators' \in [RuleIds -> Evaluator] /\ made' \in 0 .. MaxRules
  <2>1. CASE PostRule(r)
    <3> DEFINE rule == [NoRule EXCEPT !.name = uploads[r].name, !.target = uploads[r].target,
                                      !.evaluator = made', !.set = uploads[r].payload]
               new  == [name |-> uploads[r].name, code |-> uploads[r].code]
    <3>1. made' \in RuleIds /\ made' \in 0 .. MaxRules
      BY <2>1, EvalTypes, RulesAssumption DEF PostRule, RuleIds
    <3>2. rule \in RuleRecord /\ new \in Evaluator
      BY <1>1, <3>1, NewRecords DEF RuleRecord, Upload, Evaluator
    <3>3. rules' = [rules EXCEPT ![made'] = rule] /\ evaluators' = [evaluators EXCEPT ![made'] = new]
      BY <2>1 DEF PostRule
    <3> HIDE DEF rule, new
    <3> QED
      BY <3>1, <3>2, <3>3, EvalTypes
  <2>2. CASE PatchRule(r)
    <3> DEFINE id   == uploads[r].rule
               rule == [rules[id] EXCEPT !.name = uploads[r].found.name, !.set = uploads[r].payload, !.alerts = FALSE]
    <3>1. id \in RuleIds /\ rules[id] \in RuleRecord /\ uploads[r].found.name \in EvalNames \cup {NoText}
      BY <1>1, <2>2, EvalTypes DEF PatchRule, Rules, Upload, RuleRecord
    <3>2. rule \in RuleRecord
      BY <1>1, <3>1 DEF RuleRecord, Upload
    <3>3. rules' = [rules EXCEPT ![id] = rule] /\ made' = made
      BY <2>2 DEF PatchRule
    <3>4. evaluators' = [evaluators EXCEPT ![rules[id].evaluator].code = uploads[r].code]
      BY <2>2 DEF PatchRule
    <3>5. evaluators' \in [RuleIds -> Evaluator]
      <4> DEFINE d    == rules[id].evaluator
                 code == uploads[r].code
      <4>1. code \in EvalNames \cup {NoText} /\ evaluators \in [RuleIds -> Evaluator]
        BY <1>1, EvalTypes DEF Upload
      <4>2. evaluators' = [evaluators EXCEPT ![d].code = code]
        BY <3>4
      <4> HIDE DEF d, code
      <4>3. CASE d \in RuleIds
        <5>1. [evaluators[d] EXCEPT !.code = code] \in Evaluator
          BY <4>1, <4>3 DEF Evaluator
        <5> QED
          BY <4>1, <4>2, <5>1
      <4>4. CASE d \notin RuleIds
        BY <4>1, <4>2, <4>4
      <4> QED
        BY <4>3, <4>4
    <3> HIDE DEF rule
    <3> QED
      BY <3>1, <3>2, <3>3, <3>5, EvalTypes
  <2>3. CASE DeleteRule(r) \/ DeleteEvaluator(r)
    BY <2>3, EvalTypes, NewRecords DEF DeleteRule, DeleteEvaluator, Rules
  <2> QED
    BY <2>1, <2>2, <2>3
<1> QED
  BY <1>2, <1>3, UploadsEnd

LEMMA EditInUIKeeps ==
  ASSUME EvalInv, EditInUI
  PROVE  EvalInv'
<1>1. rules' \in [RuleIds -> RuleRecord] /\ evaluators' \in [RuleIds -> Evaluator] /\ made' \in 0 .. MaxRules
  <2>1. CASE /\ \E e \in RuleIds, name \in EvalNames : evaluators' = [evaluators EXCEPT ![e].name = name]
             /\ UNCHANGED <<rules, made>>
    BY <2>1, EvalTypes DEF Evaluator
  <2>2. CASE /\ \E id \in Rules, s \in {"sampling_rate", "filter", "webhooks"} : rules' = [rules EXCEPT ![id].set[s] = "own"]
             /\ UNCHANGED <<evaluators, made>>
    <3>1. PICK id \in Rules, s \in {"sampling_rate", "filter", "webhooks"} : rules' = [rules EXCEPT ![id].set[s] = "own"]
      BY <2>2
    <3>2. id \in RuleIds /\ rules[id] \in RuleRecord
      BY EvalTypes DEF Rules
    <3> DEFINE set  == [rules[id].set EXCEPT ![s] = "own"]
               rule == [rules[id] EXCEPT !.set = set]
    <3>3. set \in [RuleSettings -> {"off", "on", "new", "own"}]
      BY <3>2 DEF RuleRecord
    <3>4. rules' = [rules EXCEPT ![id] = rule]
      BY <3>1
    <3> HIDE DEF set
    <3>5. rule \in RuleRecord
      BY <3>2, <3>3 DEF RuleRecord
    <3> HIDE DEF rule
    <3> QED
      BY <2>2, <3>2, <3>4, <3>5, EvalTypes
  <2>3. CASE /\ \E id \in Rules : rules' = [rules EXCEPT ![id].alerts = TRUE]
             /\ UNCHANGED <<evaluators, made>>
    BY <2>3, EvalTypes DEF Rules, RuleRecord
  <2>4. CASE /\ made < MaxRules
             /\ made' = made + 1
             /\ \E e \in RuleIds, target \in Targets :
                  rules' = [rules EXCEPT ![made'] = [NoRule EXCEPT !.name = evaluators[e].name, !.target = target,
                                                                   !.evaluator = e]]
             /\ UNCHANGED evaluators
    <3>1. PICK e \in RuleIds, target \in Targets :
            rules' = [rules EXCEPT ![made'] = [NoRule EXCEPT !.name = evaluators[e].name, !.target = target, !.evaluator = e]]
      BY <2>4
    <3> DEFINE rule == [NoRule EXCEPT !.name = evaluators[e].name, !.target = target, !.evaluator = e]
    <3>2. evaluators[e].name \in EvalNames \cup {NoText} /\ e \in 0 .. MaxRules /\ made' \in 0 .. MaxRules
      BY <2>4, EvalTypes, RulesAssumption DEF Evaluator, RuleIds
    <3>3. rule \in RuleRecord
      BY <3>2, NewRecords DEF RuleRecord
    <3>4. rules' = [rules EXCEPT ![made'] = rule]
      BY <3>1
    <3> HIDE DEF rule
    <3> QED
      BY <2>4, <3>2, <3>3, <3>4, EvalTypes
  <2> QED
    BY <2>1, <2>2, <2>3, <2>4 DEF EditInUI
<1>2. uploads' = uploads
  BY DEF EditInUI
<1> QED
  BY <1>1, <1>2 DEF EvalInv, EvalTyped

LEMMA EvalInvariant == EvalSpec => []EvalInv
<1>1. EvalInit => EvalInv
  <2> SUFFICES ASSUME EvalInit PROVE EvalInv
    OBVIOUS
  <2>1. EvalTyped
    BY NewRecords, RulesAssumption DEF EvalInit, EvalTyped
  <2>2. \A r \in Uploads : uploads[r].pc = "start"
    BY NewRecords DEF EvalInit
  <2> QED
    BY <2>1, <2>2 DEF EvalInv, Kept
<1>2. EvalInv /\ [EvalNext]_evalVars => EvalInv'
  <2> SUFFICES ASSUME EvalInv, [EvalNext]_evalVars PROVE EvalInv'
    OBVIOUS
  <2>1. CASE UNCHANGED evalVars
    BY <2>1 DEF evalVars, EvalInv, EvalTyped
  <2>2. ASSUME NEW r \in Uploads, UploadFails(r) PROVE EvalInv'
    BY <2>2, EvalTypes, UploadsEnd DEF UploadFails
  <2>3. ASSUME NEW r \in Uploads, Confirmed(r) PROVE EvalInv'
    <3> DEFINE run == [uploads[r] EXCEPT !.pc = "send"]
    <3>1. uploads[r] \in Upload /\ Kept(uploads[r]) /\ uploads[r].pc = "confirm"
      BY <2>3, EvalTypes DEF EvalInv, Confirmed
    <3>2. /\ run \in Upload /\ run.rule = uploads[r].rule /\ run.found = uploads[r].found
          /\ run.payload = uploads[r].payload /\ run.passed = uploads[r].passed
      BY <3>1 DEF Upload, UploadSteps
    <3>3. uploads' = [uploads EXCEPT ![r] = run]
      BY <2>3 DEF Confirmed
    <3> HIDE DEF run
    <3>4. Kept(run)
      BY <3>1, <3>2 DEF Kept
    <3> QED
      BY <2>3, <3>2, <3>3, <3>4, EvalTypes, UploadGoesOn DEF Confirmed
  <2> QED
    BY <2>1, <2>2, <2>3, FindRuleKeeps, FindToDeleteKeeps, RequestKeepsTypes, EditInUIKeeps
    DEF EvalNext, UploadEvaluator, CreateLLM
<1> QED
  BY <1>1, <1>2, PTL DEF EvalSpec

\* A rule that nobody edited since it was read keeps its name, its alerts and every
\* setting that no flag names, though the server replaces all of it.
THEOREM ReplacementsKeepSettings == EvalSpec => ReplaceKeepsSettings
<1> DEFINE Keeps == \A r \in Uploads :
       PatchRule(r) /\ rules[uploads[r].rule] = uploads[r].found =>
         /\ rules'[uploads[r].rule].name = rules[uploads[r].rule].name /\ rules'[uploads[r].rule].alerts = rules[uploads[r].rule].alerts
         /\ \A s \in RuleSettings \ uploads[r].passed : rules'[uploads[r].rule].set[s] = rules[uploads[r].rule].set[s]
<1>1. EvalInv => Keeps
  <2> SUFFICES ASSUME EvalInv, NEW r \in Uploads, PatchRule(r), rules[uploads[r].rule] = uploads[r].found
               PROVE  /\ rules'[uploads[r].rule].name = rules[uploads[r].rule].name
                      /\ rules'[uploads[r].rule].alerts = rules[uploads[r].rule].alerts
                      /\ \A s \in RuleSettings \ uploads[r].passed : rules'[uploads[r].rule].set[s] = rules[uploads[r].rule].set[s]
    OBVIOUS
  <2> DEFINE id   == uploads[r].rule
             rule == [rules[id] EXCEPT !.name = uploads[r].found.name, !.set = uploads[r].payload, !.alerts = FALSE]
  <2>1. /\ id \in RuleIds /\ id # 0 /\ rules[id] \in RuleRecord /\ uploads[r].pc = "send"
        /\ rules' = [rules EXCEPT ![id] = rule]
    BY EvalTypes, RulesAssumption DEF PatchRule, Rules, RuleIds
  <2>2. ~rules[id].alerts /\ \A s \in RuleSettings \ uploads[r].passed : uploads[r].payload[s] = rules[id].set[s]
    BY <2>1 DEF EvalInv, Kept
  <2>3. rule.name = rules[id].name /\ rule.set = uploads[r].payload /\ ~rule.alerts /\ rule.alerts \in BOOLEAN
    BY <2>1 DEF RuleRecord
  <2>4. rule.alerts = rules[id].alerts
    BY <2>1, <2>2 DEF RuleRecord
  <2> HIDE DEF rule
  <2>5. rules'[id] = rule
    BY <2>1, EvalTypes
  <2> QED
    BY <2>2, <2>3, <2>4, <2>5
<1>2. EvalInv /\ [EvalNext]_evalVars => [Keeps]_evalVars
  BY <1>1
<1> QED
  BY <1>2, EvalInvariant, PTL DEF EvalSpec, ReplaceKeepsSettings

-----------------------------------------------------------------------------
(* `api ls' and `api info': a whole file of the cache is a specification   *)
(* of its server, as old as the file; and a run that has looked at the     *)
(* file, or fetched one, knows how old it is, whatever others do to the    *)
(* file meanwhile.                                                         *)

FullSpec == [of : Servers, at : Nat, operations : Releases]

CacheFile == [kind : {"missing", "torn", "whole"}, spec : FullSpec \cup {NoSpec}, at : Nat]

SpecSteps == {"start", "read", "fetch", "truncate", "write", "show"}

SpecRun == [pc : SpecSteps, in : SpecInputs, began : Nat, spec : FullSpec \cup {NoSpec}]

SpecTyped ==
  /\ hour \in Nat
  /\ release \in [Servers -> Releases]
  /\ cached \in [Servers -> CacheFile]
  /\ specRuns \in [SpecRuns -> SpecRun]

TrueFile(file, url) ==
  file.kind = "whole" => file.spec \in FullSpec /\ file.spec.of = url /\ file.spec.at = file.at

\* What a run knows of the file of its server, now that it is so old.
KnowsAge(run, file) ==
  run.pc = "read" => ~run.in.refresh /\ (file.kind = "whole" => hour - file.at <= SpecTTL)

FreshRun(run) ==
  /\ run.pc # "start" => run.began = hour
  /\ run.pc \in {"truncate", "write", "show"} => run.spec \in FullSpec /\ run.spec.of = run.in.url
  /\ run.pc \in {"truncate", "write"} => run.spec.at = hour
  /\ run.pc = "show" => run.began - run.spec.at <= IF run.in.refresh THEN 0 ELSE SpecTTL

SpecInv ==
  /\ SpecTyped
  /\ \A url \in Servers : TrueFile(cached[url], url)
  /\ \A r \in SpecRuns : FreshRun(specRuns[r]) /\ KnowsAge(specRuns[r], cached[specRuns[r].in.url])

LEMMA SpecTypes ==
  ASSUME SpecInv
  PROVE  /\ hour \in Nat /\ release \in [Servers -> Releases] /\ cached \in [Servers -> CacheFile]
         /\ specRuns \in [SpecRuns -> SpecRun]
BY DEF SpecInv, SpecTyped

LEMMA InputTypes == \A in \in SpecInputs : in.url \in Servers /\ in.refresh \in BOOLEAN
BY SpecAssumption

LEMMA NewSpecRun == NoSpecRun \in SpecRun /\ NoSpecRun.pc = "start" /\ MissingSpec \in CacheFile /\ MissingSpec.kind = "missing"
<1>1. (CHOOSE in \in SpecInputs : TRUE) \in SpecInputs
  BY SpecAssumption
<1> HIDE DEF NoSpec
<1> QED
  BY <1>1 DEF NoSpecRun, SpecRun, SpecSteps, MissingSpec, SpecFile, CacheFile

\* A run goes on, and leaves the cache as it is.
LEMMA SpecRunGoesOn ==
  ASSUME SpecInv, NEW r \in SpecRuns, NEW run \in SpecRun, specRuns' = [specRuns EXCEPT ![r] = run],
         UNCHANGED <<hour, release, cached>>, FreshRun(run), KnowsAge(run, cached[run.in.url])
  PROVE  SpecInv'
<1>1. specRuns' \in [SpecRuns -> SpecRun] /\ \A x \in SpecRuns : specRuns'[x] = IF x = r THEN run ELSE specRuns[x]
  BY SpecTypes
<1>2. SpecTyped'
  BY <1>1 DEF SpecInv, SpecTyped
<1>3. \A x \in SpecRuns : FreshRun(specRuns'[x]) /\ KnowsAge(specRuns'[x], cached[specRuns'[x].in.url])
  BY <1>1 DEF SpecInv
<1>4. \A x \in SpecRuns : FreshRun(specRuns[x])' /\ KnowsAge(specRuns[x], cached[specRuns[x].in.url])'
  BY <1>3 DEF FreshRun, KnowsAge
<1>5. (\A url \in Servers : TrueFile(cached[url], url))'
  BY DEF SpecInv, TrueFile
<1> QED
  BY <1>2, <1>4, <1>5 DEF SpecInv

\* A run goes on with one file changed, to one that is not whole or is fresh.
LEMMA SpecFileChanges ==
  ASSUME SpecInv, NEW r \in SpecRuns, NEW run \in SpecRun, specRuns' = [specRuns EXCEPT ![r] = run],
         NEW file \in CacheFile, cached' = [cached EXCEPT ![run.in.url] = file], UNCHANGED <<hour, release>>,
         FreshRun(run), run.pc # "read", TrueFile(file, run.in.url), file.kind = "whole" => file.at = hour
  PROVE  SpecInv'
<1>1. specRuns' \in [SpecRuns -> SpecRun] /\ \A x \in SpecRuns : specRuns'[x] = IF x = r THEN run ELSE specRuns[x]
  BY SpecTypes
<1>2. run.in.url \in Servers
  BY InputTypes DEF SpecRun
<1>3. cached' \in [Servers -> CacheFile] /\ \A url \in Servers : cached'[url] = IF url = run.in.url THEN file ELSE cached[url]
  BY <1>2, SpecTypes
<1>4. SpecTyped'
  BY <1>1, <1>3 DEF SpecInv, SpecTyped
<1>5. (\A url \in Servers : TrueFile(cached[url], url))'
  BY <1>3 DEF SpecInv, TrueFile
<1>6. ASSUME NEW x \in SpecRuns PROVE FreshRun(specRuns'[x]) /\ KnowsAge(specRuns'[x], cached'[specRuns'[x].in.url])
  <2>1. CASE x = r
    BY <1>1, <2>1 DEF KnowsAge
  <2>2. CASE x # r
    <3>1. specRuns'[x] = specRuns[x] /\ specRuns[x].in.url \in Servers
      BY <1>1, <2>2, SpecTypes, InputTypes DEF SpecRun
    <3>2. FreshRun(specRuns[x]) /\ KnowsAge(specRuns[x], cached[specRuns[x].in.url])
      BY DEF SpecInv
    <3>3. KnowsAge(specRuns[x], file) \/ specRuns[x].in.url # run.in.url
      <4>1. hour \in Nat /\ SpecTTL \in Nat
        BY SpecTypes, SpecAssumption
      <4>2. file.kind = "whole" => hour - file.at <= SpecTTL
        BY <4>1
      <4> QED
        BY <3>2, <4>2 DEF KnowsAge
    <3> QED
      BY <1>3, <3>1, <3>2, <3>3
  <2> QED
    BY <2>1, <2>2
<1>7. \A x \in SpecRuns : FreshRun(specRuns[x])' /\ KnowsAge(specRuns[x], cached[specRuns[x].in.url])'
  BY <1>6 DEF FreshRun, KnowsAge
<1> QED
  BY <1>4, <1>5, <1>7 DEF SpecInv

LEMMA StatSpecKeeps ==
  ASSUME SpecInv, NEW r \in SpecRuns, NEW in \in SpecInputs, StatSpec(r, in)
  PROVE  SpecInv'
<1> DEFINE file == cached[in.url]
           old  == file.kind # "missing" /\ hour - file.at > SpecTTL
           pc   == IF in.refresh \/ old \/ file.kind = "missing" THEN "fetch" ELSE "read"
           run  == [NoSpecRun EXCEPT !.in = in, !.began = hour, !.pc = pc]
<1>1. /\ specRuns' = [specRuns EXCEPT ![r] = run] /\ UNCHANGED <<hour, release>>
      /\ cached' = IF old /\ ~in.refresh THEN [cached EXCEPT ![in.url] = MissingSpec] ELSE cached
  BY DEF StatSpec, PathForKey
<1>2. in.url \in Servers /\ in.refresh \in BOOLEAN /\ file \in CacheFile /\ hour \in Nat /\ SpecTTL \in Nat
  BY SpecTypes, InputTypes, SpecAssumption
<1>3. pc \in {"fetch", "read"} /\ (pc = "read" => ~in.refresh /\ ~old)
  OBVIOUS
<1>4. ~old /\ file.kind = "whole" => hour - file.at <= SpecTTL
  BY <1>2 DEF CacheFile
<1>5. old /\ ~in.refresh => pc = "fetch"
  OBVIOUS
<1> HIDE DEF old, pc, file
<1>6. run \in SpecRun /\ run.pc = pc /\ run.in = in /\ run.began = hour
  BY <1>2, <1>3, NewSpecRun DEF SpecRun, SpecSteps
<1> HIDE DEF run
<1>7. FreshRun(run)
  BY <1>3, <1>6 DEF FreshRun
<1>8. CASE old /\ ~in.refresh
  BY <1>1, <1>2, <1>5, <1>6, <1>7, <1>8, NewSpecRun, SpecFileChanges DEF TrueFile
<1>9. CASE ~(old /\ ~in.refresh)
  <2>1. KnowsAge(run, cached[run.in.url])
    BY <1>3, <1>4, <1>6 DEF KnowsAge, file
  <2> QED
    BY <1>1, <1>6, <1>7, <1>9, <2>1, SpecRunGoesOn
<1> QED
  BY <1>8, <1>9

LEMMA ReadSpecKeeps ==
  ASSUME SpecInv, NEW r \in SpecRuns, ReadSpec(r)
  PROVE  SpecInv'
<1> DEFINE url  == specRuns[r].in.url
           file == cached[url]
<1>1. /\ specRuns[r] \in SpecRun /\ url \in Servers /\ file \in CacheFile /\ hour \in Nat /\ SpecTTL \in Nat
      /\ specRuns[r].in \in SpecInputs
  BY SpecTypes, InputTypes, SpecAssumption DEF SpecRun
<1>2. specRuns[r].pc = "read" /\ FreshRun(specRuns[r]) /\ KnowsAge(specRuns[r], file) /\ TrueFile(file, url)
  BY <1>1 DEF ReadSpec, SpecInv
<1>3. UNCHANGED <<hour, release, cached>>
  BY DEF ReadSpec
<1>4. CASE file.kind = "whole"
  <2> DEFINE run == [specRuns[r] EXCEPT !.spec = file.spec, !.pc = "show"]
  <2>1. specRuns' = [specRuns EXCEPT ![r] = run]
    BY <1>1, <1>4, SpecTypes DEF ReadSpec, FileOf, PathForKey
  <2>2. file.spec \in FullSpec /\ file.spec.of = url /\ file.spec.at = file.at /\ hour - file.at <= SpecTTL /\ ~specRuns[r].in.refresh
    BY <1>2, <1>4 DEF TrueFile, KnowsAge
  <2>3. /\ run \in SpecRun /\ run.pc = "show" /\ run.in = specRuns[r].in /\ run.began = specRuns[r].began
        /\ run.spec = file.spec
    BY <1>1, <2>2 DEF SpecRun, SpecSteps
  <2>4. specRuns[r].began = hour
    BY <1>2 DEF FreshRun
  <2> HIDE DEF run, file
  <2>5. FreshRun(run) /\ KnowsAge(run, cached[run.in.url])
    BY <2>2, <2>3, <2>4 DEF FreshRun, KnowsAge
  <2> QED
    BY <1>3, <2>1, <2>3, <2>5, SpecRunGoesOn
<1>5. CASE file.kind # "whole"
  <2> DEFINE run == [specRuns[r] EXCEPT !.pc = "fetch"]
  <2>1. specRuns' = [specRuns EXCEPT ![r] = run]
    BY <1>1, <1>5, SpecTypes DEF ReadSpec, FileOf, PathForKey
  <2>2. run \in SpecRun /\ run.pc = "fetch" /\ run.in = specRuns[r].in /\ run.began = specRuns[r].began
    BY <1>1 DEF SpecRun, SpecSteps
  <2> HIDE DEF run, file
  <2>3. FreshRun(run) /\ KnowsAge(run, cached[run.in.url])
    BY <1>2, <2>2 DEF FreshRun, KnowsAge
  <2> QED
    BY <1>3, <2>1, <2>2, <2>3, SpecRunGoesOn
<1> QED
  BY <1>4, <1>5

LEMMA FetchSpecKeeps ==
  ASSUME SpecInv, NEW r \in SpecRuns, FetchSpec(r)
  PROVE  SpecInv'
<1> DEFINE url  == specRuns[r].in.url
           spec == [of |-> url, at |-> hour, operations |-> release[url]]
           run  == [specRuns[r] EXCEPT !.spec = spec, !.pc = "truncate"]
<1>1. specRuns[r] \in SpecRun /\ url \in Servers /\ hour \in Nat /\ release[url] \in Releases
  BY SpecTypes, InputTypes DEF SpecRun
<1>2. spec \in FullSpec /\ spec.of = url /\ spec.at = hour
  BY <1>1 DEF FullSpec
<1>3. specRuns' = [specRuns EXCEPT ![r] = run] /\ UNCHANGED <<hour, release, cached>>
  BY <1>1, SpecTypes DEF FetchSpec
<1>4. specRuns[r].began = hour
  BY DEF FetchSpec, SpecInv, FreshRun
<1> HIDE DEF spec
<1>5. /\ run \in SpecRun /\ run.pc = "truncate" /\ run.in = specRuns[r].in /\ run.began = specRuns[r].began /\ run.spec = spec
  BY <1>1, <1>2 DEF SpecRun, SpecSteps
<1> HIDE DEF run
<1>6. FreshRun(run) /\ KnowsAge(run, cached[run.in.url])
  BY <1>2, <1>4, <1>5 DEF FreshRun, KnowsAge
<1> QED
  BY <1>3, <1>5, <1>6, SpecRunGoesOn

\* A run whose specification is fetched goes on to write or to show it.
LEMMA FetchedGoesOn ==
  ASSUME SpecInv, NEW r \in SpecRuns, specRuns[r].pc \in {"truncate", "write"}, NEW pc \in {"write", "show"}
  PROVE  LET run == [specRuns[r] EXCEPT !.pc = pc]
         IN  /\ run \in SpecRun /\ run.in = specRuns[r].in /\ run.spec = specRuns[r].spec /\ run.pc = pc
             /\ FreshRun(run)
<1> DEFINE run == [specRuns[r] EXCEPT !.pc = pc]
<1>1. /\ specRuns[r] \in SpecRun /\ hour \in Nat /\ SpecTTL \in Nat /\ FreshRun(specRuns[r])
      /\ specRuns[r].in.refresh \in BOOLEAN
  BY SpecTypes, InputTypes, SpecAssumption DEF SpecInv, SpecRun
<1>2. /\ run \in SpecRun /\ run.in = specRuns[r].in /\ run.spec = specRuns[r].spec /\ run.pc = pc
      /\ run.began = specRuns[r].began
  BY <1>1 DEF SpecRun, SpecSteps
<1> HIDE DEF run
<1>3. FreshRun(run)
  BY <1>1, <1>2 DEF FreshRun
<1> QED
  BY <1>2, <1>3 DEF run

LEMMA TruncateSpecKeeps ==
  ASSUME SpecInv, NEW r \in SpecRuns, TruncateSpec(r)
  PROVE  SpecInv'
<1> DEFINE file == SpecFile("torn", NoSpec, hour)
<1>1. specRuns[r].pc = "truncate" /\ UNCHANGED <<hour, release>> /\ specRuns[r] \in SpecRun
  BY SpecTypes DEF TruncateSpec
<1>2. CASE cached' = [cached EXCEPT ![FileOf(r)] = file] /\ SpecGoto(r, "write")
  <2> DEFINE run == [specRuns[r] EXCEPT !.pc = "write"]
  <2>1. specRuns' = [specRuns EXCEPT ![r] = run]
    BY <1>2, SpecTypes DEF SpecGoto
  <2>2. run \in SpecRun /\ run.in = specRuns[r].in /\ run.pc = "write" /\ FreshRun(run)
    BY <1>1, FetchedGoesOn
  <2> HIDE DEF NoSpec
  <2>3. file \in CacheFile /\ file.kind = "torn"
    BY SpecTypes DEF SpecFile, CacheFile
  <2> HIDE DEF run, file
  <2>4. cached' = [cached EXCEPT ![run.in.url] = file] /\ TrueFile(file, run.in.url)
    BY <1>2, <2>2, <2>3 DEF FileOf, PathForKey, TrueFile
  <2> QED
    BY <1>1, <2>1, <2>2, <2>3, <2>4, SpecFileChanges
<1>3. CASE UNCHANGED cached /\ SpecGoto(r, "show")
  <2> DEFINE run == [specRuns[r] EXCEPT !.pc = "show"]
  <2>1. specRuns' = [specRuns EXCEPT ![r] = run]
    BY <1>3, SpecTypes DEF SpecGoto
  <2>2. run \in SpecRun /\ run.in = specRuns[r].in /\ run.pc = "show" /\ FreshRun(run)
    BY <1>1, FetchedGoesOn
  <2> HIDE DEF run
  <2>3. KnowsAge(run, cached[run.in.url])
    BY <2>2 DEF KnowsAge
  <2> QED
    BY <1>1, <1>3, <2>1, <2>2, <2>3, SpecRunGoesOn
<1> QED
  BY <1>2, <1>3 DEF TruncateSpec

LEMMA WriteSpecKeeps ==
  ASSUME SpecInv, NEW r \in SpecRuns, WriteSpec(r)
  PROVE  SpecInv'
<1>1. specRuns[r].pc = "write" /\ UNCHANGED <<hour, release>> /\ specRuns[r] \in SpecRun /\ hour \in Nat
  BY SpecTypes DEF WriteSpec
<1> DEFINE run == [specRuns[r] EXCEPT !.pc = "show"]
<1>2. specRuns' = [specRuns EXCEPT ![r] = run]
  BY SpecTypes DEF WriteSpec, SpecGoto
<1>3. run \in SpecRun /\ run.in = specRuns[r].in /\ run.pc = "show" /\ FreshRun(run)
  BY <1>1, FetchedGoesOn
<1>4. specRuns[r].spec \in FullSpec /\ specRuns[r].spec.of = specRuns[r].in.url /\ specRuns[r].spec.at = hour
  BY <1>1 DEF SpecInv, FreshRun
<1>5. PICK outcome \in {"whole", "torn"} :
        cached' = [cached EXCEPT ![FileOf(r)] = SpecFile(outcome, IF outcome = "whole" THEN specRuns[r].spec ELSE NoSpec, hour)]
  BY DEF WriteSpec
<1> DEFINE spec == IF outcome = "whole" THEN specRuns[r].spec ELSE NoSpec
           file == SpecFile(outcome, spec, hour)
<1> HIDE DEF run, NoSpec
<1>6. spec \in FullSpec \cup {NoSpec} /\ (outcome = "whole" => spec = specRuns[r].spec)
  BY <1>4
<1>7. cached' = [cached EXCEPT ![run.in.url] = file]
  BY <1>3, <1>5 DEF FileOf, PathForKey
<1> HIDE DEF spec
<1>8. file \in CacheFile /\ file.kind = outcome /\ file.spec = spec /\ file.at = hour
  BY <1>1, <1>6 DEF SpecFile, CacheFile
<1> HIDE DEF file
<1>9. TrueFile(file, run.in.url)
  BY <1>3, <1>4, <1>6, <1>8 DEF TrueFile
<1> QED
  BY <1>1, <1>2, <1>3, <1>7, <1>8, <1>9, SpecFileChanges

\* What `ls' shows, `info' finds in the same specification.
LEMMA ListedIsFound ==
  ASSUME NEW run, run.spec \in FullSpec, run.in.cmd = "ls", NEW op \in Shown(run)
  PROVE  \E found \in LookupEndpoint(run.spec, op.method, [name |-> op.path, absolute |-> FALSE]) :
           found.tag = op.tag /\ found.schema # "known component"
<1>1. op \in Endpoints(run.spec, run.in.tag)
  BY Zenon DEF Shown
<1>2. op \in run.spec.operations
  BY <1>1, Zenon DEF Endpoints
<1>3. op \in OperationRecord
  BY <1>2, SpecAssumption DEF FullSpec
<1> DEFINE found == ResolveRef(op)
           path  == [name |-> op.path, absolute |-> FALSE]
<1>4. found.tag = op.tag /\ found.schema # "known component"
  BY <1>3 DEF ResolveRef, OperationRecord
<1>5. NormalizedPath(path).name = op.path
  BY DEF NormalizedPath
<1> HIDE DEF path, found
<1>6. found \in LookupEndpoint(run.spec, op.method, path)
  BY <1>2, <1>5 DEF LookupEndpoint, found
<1> QED
  BY <1>4, <1>6 DEF path

\* What `api ls' and `api info' show is the specification of the server they were
\* asked about, no older than a file may be, and theirs to the second with --refresh.
THEOREM SpecsStayFresh == SpecCacheSpec => []SpecIsFresh
<1>1. SpecInit => SpecInv
  <2> SUFFICES ASSUME SpecInit PROVE SpecInv
    OBVIOUS
  <2>1. SpecTyped
    BY NewSpecRun DEF SpecInit, SpecTyped
  <2>2. \A r \in SpecRuns : specRuns[r].pc = "start"
    BY NewSpecRun DEF SpecInit
  <2>3. \A url \in Servers : cached[url].kind = "missing"
    BY NewSpecRun DEF SpecInit
  <2> QED
    BY <2>1, <2>2, <2>3 DEF SpecInv, TrueFile, FreshRun, KnowsAge
<1>2. SpecInv /\ [SpecNext]_specVars => SpecInv'
  <2> SUFFICES ASSUME SpecInv, [SpecNext]_specVars PROVE SpecInv'
    OBVIOUS
  <2>1. CASE UNCHANGED specVars
    BY <2>1 DEF specVars, SpecInv, SpecTyped, TrueFile, FreshRun, KnowsAge
  <2>2. ASSUME NEW r \in SpecRuns, FetchSpecFails(r) \/ KillSpecRun(r) \/ ShowSpec(r) PROVE SpecInv'
    <3>1. specRuns' = [specRuns EXCEPT ![r] = NoSpecRun] /\ UNCHANGED <<hour, release, cached>>
      BY <2>2 DEF FetchSpecFails, KillSpecRun, ShowSpec, EndSpecRun
    <3>2. FreshRun(NoSpecRun) /\ KnowsAge(NoSpecRun, cached[NoSpecRun.in.url])
      BY NewSpecRun DEF FreshRun, KnowsAge
    <3> QED
      BY <3>1, <3>2, NewSpecRun, SpecRunGoesOn
  <2>3. CASE HourPasses
    <3>1. hour' \in Nat /\ release' \in [Servers -> Releases] /\ UNCHANGED <<cached, specRuns>>
      BY <2>3, SpecTypes DEF HourPasses
    <3>2. \A r \in SpecRuns : specRuns[r].pc = "start"
      BY <2>3 DEF HourPasses
    <3> QED
      BY <3>1, <3>2 DEF SpecInv, SpecTyped, TrueFile, FreshRun, KnowsAge
  <2> QED
    BY <2>1, <2>2, <2>3, StatSpecKeeps, ReadSpecKeeps, FetchSpecKeeps, TruncateSpecKeeps, WriteSpecKeeps DEF SpecNext
<1>3. SpecInv => SpecIsFresh
  <2> SUFFICES ASSUME SpecInv, NEW r \in SpecRuns, specRuns[r].pc = "show"
               PROVE  LET run == specRuns[r]
                      IN  /\ run.spec.of = run.in.url
                          /\ run.began - run.spec.at <= IF run.in.refresh THEN 0 ELSE SpecTTL
                          /\ run.in.cmd = "ls" => \A op \in Shown(run) :
                               \E found \in LookupEndpoint(run.spec, op.method, [name |-> op.path, absolute |-> FALSE]) :
                                 found.tag = op.tag /\ found.schema # "known component"
    BY DEF SpecIsFresh
  <2>1. FreshRun(specRuns[r])
    BY DEF SpecInv
  <2> QED
    BY <2>1, ListedIsFound DEF FreshRun
<1> QED
  BY <1>1, <1>2, <1>3, PTL DEF SpecCacheSpec

-----------------------------------------------------------------------------
(* `apps push': the link in a directory names the app whose source is in   *)
(* it, unless a pull into it was cut short; what a push read is what is    *)
(* there; and the app that the last push was told it pushed to is the      *)
(* link's, but for the moment in which the link is written.                *)

LinkDecides(t) ==
  /\ t.link.app # 0 /\ ~t.cut => t.src.of \in {0, t.link.app}
  /\ t.src.part = "torn" => t.cut \/ t.half

AtLink(c) == c.pc \in {"link", "relink"}

MineIsLinked(t, c) ==
  /\ t.mine # 0 /\ ~AtLink(c) => t.link.app = t.mine
  /\ AtLink(c) /\ c.cmd = "push" => t.mine = c.app

PatchesTheLinked(t, c) ==
  c.pc = "patch" => c.app = t.link.app /\ c.app # 0 /\ c.held = t.src

CommandGoesOn(t, c) ==
  /\ c.pc \in {"fetch", "confirm", "clear", "extract", "extracting"} => c.cmd = "pull"
  /\ c.pc \in {"scaffold", "install"} => c.cmd = "init"
  /\ c.pc \in {"build", "read", "patch", "create"} => c.cmd = "push"
  /\ c.pc \in {"extract", "extracting"} => t.mine = 0
  /\ c.pc = "extracting" => t.cut
  /\ c.pc = "request" => c.name \in AppNames
  /\ AtLink(c) /\ c.cmd = "pull" => (t.src.part = "torn" => t.half)

DevSound(t, c) == LinkDecides(t) /\ MineIsLinked(t, c) /\ PatchesTheLinked(t, c) /\ CommandGoesOn(t, c)

NotYetCreated == \A i \in AppIds : i > created => apps[i] = NoApp

ServerSound == apps \in [AppIds -> AppRecord \cup {NoApp}] /\ created \in 0 .. MaxApps /\ NotYetCreated

SyncInv ==
  /\ SyncTypeOK
  /\ NotYetCreated
  /\ \A d \in Devs : DevSound(tree[d], cli[d])

LEMMA SyncTypes ==
  ASSUME SyncInv
  PROVE  /\ apps \in [AppIds -> AppRecord \cup {NoApp}]
         /\ created \in 0 .. MaxApps
         /\ tree \in [Devs -> TreeRecord] /\ cli \in [Devs -> CliRecord]
         /\ left \in SyncBudget /\ NotYetCreated
         /\ \A d \in Devs : tree[d] \in TreeRecord /\ cli[d] \in CliRecord /\ DevSound(tree[d], cli[d])
BY DEF SyncInv, SyncTypeOK

LEMMA NoSyncRecords ==
  /\ NoSource \in Source /\ NoLink \in Link /\ TornLink \in Link /\ NoTree \in TreeRecord
  /\ NoLink.app = 0 /\ TornLink.app = 0 /\ NoSource.of = 0 /\ NoSource.part = "none"
  /\ NoTree.src = NoSource /\ NoTree.link = NoLink /\ ~NoTree.cut /\ ~NoTree.half /\ NoTree.mine = 0
  /\ Idle \in CliRecord /\ Idle.pc = "idle"
<1>1. NoSource \in Source /\ NoSource.of = 0 /\ NoSource.part = "none"
  BY DEF NoSource, Source
<1>2. NoLink \in Link /\ TornLink \in Link /\ NoLink.app = 0 /\ TornLink.app = 0
  <2> HIDE DEF Unnamed
  <2> QED BY DEF NoLink, TornLink, Link
<1> HIDE DEF NoSource, NoLink, Unnamed
<1>3. /\ NoTree \in TreeRecord /\ NoTree.src = NoSource /\ NoTree.link = NoLink
      /\ ~NoTree.cut /\ ~NoTree.half /\ NoTree.mine = 0
  BY <1>1, <1>2 DEF NoTree, TreeRecord
<1>4. Idle \in CliRecord /\ Idle.pc = "idle"
  BY <1>1, <1>2 DEF Idle, CliRecord, SyncSteps
<1> QED
  BY <1>1, <1>2, <1>3, <1>4

\* A step of one developer's command, or of the server for it.
LEMMA SyncGoesOn ==
  ASSUME SyncInv, NEW d \in Devs, NEW t \in TreeRecord, NEW c \in CliRecord, DevSound(t, c),
         tree' = [tree EXCEPT ![d] = t], cli' = [cli EXCEPT ![d] = c],
         ServerSound', UNCHANGED member, left' \in SyncBudget
  PROVE  SyncInv'
<1>1. SyncTypeOK'
  <2>1. member' \in [Devs -> Workspaces]
    BY DEF SyncInv, SyncTypeOK
  <2>2. tree' \in [Devs -> TreeRecord] /\ cli' \in [Devs -> CliRecord]
    BY SyncTypes
  <2> QED
    BY <2>1, <2>2 DEF SyncTypeOK, ServerSound
<1>2. \A e \in Devs : DevSound(tree'[e], cli'[e])
  <2> TAKE e \in Devs
  <2>1. CASE e = d
    BY <2>1, SyncTypes
  <2>2. CASE e # d
    BY <2>2, SyncTypes
  <2> QED
    BY <2>1, <2>2
<1> QED
  BY <1>1, <1>2 DEF SyncInv, ServerSound, DevSound, LinkDecides, MineIsLinked, PatchesTheLinked, CommandGoesOn, AtLink

LEMMA SameServer ==
  ASSUME SyncInv, UNCHANGED <<apps, created>>
  PROVE  ServerSound'
BY DEF SyncInv, SyncTypeOK, ServerSound, NotYetCreated

\* A step that leaves the directory alone.
LEMMA CliGoesOn ==
  ASSUME SyncInv, NEW d \in Devs, NEW c \in CliRecord, DevSound(tree[d], c),
         cli' = [cli EXCEPT ![d] = c], ServerSound', UNCHANGED <<member, tree>>, left' \in SyncBudget
  PROVE  SyncInv'
<1>1. tree' = [tree EXCEPT ![d] = tree[d]]
  BY SyncTypes
<1> QED
  BY <1>1, SyncTypes, SyncGoesOn

\* A command that is over, wherever it was, if the link was not being written.
LEMMA IdleIsSound ==
  ASSUME NEW t, NEW c, DevSound(t, c), ~AtLink(c)
  PROVE  DevSound(t, Idle)
BY NoSyncRecords DEF DevSound, LinkDecides, MineIsLinked, PatchesTheLinked, CommandGoesOn, AtLink

LEMMA SpendTypes ==
  ASSUME SyncInv, NEW what \in {"init", "push", "pull", "manage", "fault", "clone"}, Spend(what)
  PROVE  left' \in SyncBudget
BY SyncTypes DEF Spend, SyncBudget

LEMMA StopKeeps ==
  ASSUME SyncInv, NEW d \in Devs, ~AtLink(cli[d]), Stop(d), ServerSound', UNCHANGED <<member, tree>>, left' \in SyncBudget
  PROVE  SyncInv'
<1>1. DevSound(tree[d], Idle)
  BY SyncTypes, IdleIsSound
<1> QED
  BY <1>1, NoSyncRecords, CliGoesOn DEF Stop

LEMMA BeginKeeps ==
  ASSUME SyncInv, NEW d \in Devs, NEW cmd \in {"init", "push", "pull", "share", "claim", "delete"},
         NEW step \in {"scaffold", "idle", "build", "read", "resolve"}, step = "scaffold" => cmd = "init",
         step \in {"build", "read"} => cmd = "push",
         NEW name \in AppNames \cup {Unnamed}, BeginSync(d, cmd, step, name), UNCHANGED <<apps, created, member, tree>>
  PROVE  SyncInv'
<1> DEFINE c == [Idle EXCEPT !.cmd = cmd, !.pc = step, !.name = name]
<1>1. cli' = [cli EXCEPT ![d] = c] /\ cli[d].pc = "idle"
  BY DEF BeginSync, At
<1>2. left' \in SyncBudget
  BY SpendTypes DEF BeginSync
<1> HIDE DEF Unnamed
<1>3. c \in CliRecord /\ c.pc = step /\ c.cmd = cmd
  BY NoSyncRecords DEF CliRecord, SyncSteps
<1> HIDE DEF c
<1>4. DevSound(tree[d], c)
  BY <1>1, <1>3, SyncTypes DEF DevSound, MineIsLinked, PatchesTheLinked, CommandGoesOn, AtLink
<1> QED
  BY <1>1, <1>2, <1>3, <1>4, SameServer, CliGoesOn

\* The step a command is at, and nothing else of it, changes.
LEMMA PcChanges ==
  ASSUME SyncInv, NEW d \in Devs, NEW step \in SyncSteps
  PROVE  LET c == [cli[d] EXCEPT !.pc = step]
         IN  /\ c \in CliRecord /\ c.pc = step /\ c.cmd = cli[d].cmd
             /\ c.app = cli[d].app /\ c.held = cli[d].held
BY SyncTypes DEF CliRecord

LEMMA ScaffoldKeeps ==
  ASSUME SyncInv, NEW d \in Devs, Scaffold(d)
  PROVE  SyncInv'
<1> DEFINE src == IF tree[d].src.part = "none" THEN [of |-> 0, part |-> "whole"] ELSE tree[d].src
           t   == [tree[d] EXCEPT !.src = src]
           c   == [cli[d] EXCEPT !.pc = "link"]
<1>1. tree' = [tree EXCEPT ![d] = t] /\ cli' = [cli EXCEPT ![d] = c] /\ cli[d].pc = "scaffold"
  BY SyncTypes DEF Scaffold, PutTree, SyncGoto, At
<1>2. UNCHANGED <<apps, created, member>> /\ left' \in SyncBudget
  BY SyncTypes DEF Scaffold
<1>3. src \in Source /\ (src = tree[d].src \/ (src.of = 0 /\ src.part = "whole"))
  BY SyncTypes DEF TreeRecord, Source
<1> HIDE DEF src
<1>4. /\ t \in TreeRecord /\ t.src = src /\ t.link = tree[d].link
      /\ t.cut = tree[d].cut /\ t.half = tree[d].half /\ t.mine = tree[d].mine
  BY <1>3, SyncTypes DEF TreeRecord
<1>5. c \in CliRecord /\ c.pc = "link" /\ c.cmd = cli[d].cmd
  BY PcChanges DEF SyncSteps
<1> HIDE DEF t, c
<1>6. DevSound(t, c)
  BY <1>1, <1>3, <1>4, <1>5, SyncTypes DEF DevSound, LinkDecides, MineIsLinked, PatchesTheLinked, CommandGoesOn, AtLink
<1> QED
  BY <1>1, <1>2, <1>4, <1>5, <1>6, SameServer, SyncGoesOn

LEMMA AppsBuildKeeps ==
  ASSUME SyncInv, NEW d \in Devs, AppsBuild(d)
  PROVE  SyncInv'
<1> DEFINE t == [tree[d] EXCEPT !.built = TRUE]
           c == [cli[d] EXCEPT !.pc = "read"]
<1>1. tree' = [tree EXCEPT ![d] = t] /\ cli' = [cli EXCEPT ![d] = c] /\ cli[d].pc = "build"
  BY SyncTypes DEF AppsBuild, PutTree, SyncGoto, At
<1>2. UNCHANGED <<apps, created, member>> /\ left' \in SyncBudget
  BY SyncTypes DEF AppsBuild
<1>3. /\ t \in TreeRecord /\ t.src = tree[d].src /\ t.link = tree[d].link
      /\ t.cut = tree[d].cut /\ t.half = tree[d].half /\ t.mine = tree[d].mine
  BY SyncTypes DEF TreeRecord
<1>4. c \in CliRecord /\ c.pc = "read" /\ c.cmd = cli[d].cmd
  BY SyncTypes, PcChanges DEF SyncSteps
<1> HIDE DEF t, c
<1>5. DevSound(t, c)
  BY <1>1, <1>3, <1>4, SyncTypes DEF DevSound, LinkDecides, MineIsLinked, PatchesTheLinked, CommandGoesOn, AtLink
<1> QED
  BY <1>1, <1>2, <1>3, <1>4, <1>5, SameServer, SyncGoesOn

LEMMA ReadSourcesKeeps ==
  ASSUME SyncInv, NEW d \in Devs, ReadSources(d)
  PROVE  SyncInv'
<1>1. cli[d].pc = "read" /\ UNCHANGED <<apps, created, member, tree>> /\ left' \in SyncBudget
  BY SyncTypes DEF ReadSources, At
<1>2. CASE Stop(d)
  BY <1>1, <1>2, SameServer, StopKeeps DEF AtLink
<1>3. CASE ~Stop(d)
  <2> DEFINE id   == tree[d].link.app
             step == IF id = 0 THEN "create" ELSE "patch"
             c    == [cli[d] EXCEPT !.app = id, !.pc = step, !.held = tree[d].src, !.link = tree[d].link]
  <2>1. cli' = [cli EXCEPT ![d] = c]
    BY <1>3, SyncTypes DEF ReadSources, SourceArchive
  <2>2. id \in AppIds \cup {0} /\ tree[d].src \in Source /\ tree[d].link \in Link
    BY SyncTypes DEF TreeRecord, Link
  <2>3. c \in CliRecord /\ c.pc = step /\ c.cmd = cli[d].cmd /\ c.app = id /\ c.held = tree[d].src
    BY <2>2, SyncTypes DEF CliRecord, SyncSteps
  <2> HIDE DEF c
  <2>4. DevSound(tree[d], c)
    BY <1>1, <2>3, SyncTypes DEF DevSound, MineIsLinked, PatchesTheLinked, CommandGoesOn, AtLink
  <2> QED
    BY <1>1, <2>1, <2>3, <2>4, SameServer, CliGoesOn
<1> QED
  BY <1>2, <1>3

\* An app that a developer sees is there; what is patched or published is an app.
LEMMA VisibleApps ==
  ASSUME SyncInv, NEW d \in Devs, NEW i \in Visible(d)
  PROVE  i \in AppIds /\ i # 0 /\ apps[i] \in AppRecord
BY SyncTypes, MaxAppsAssumption DEF Visible, Exists, AppIds

LEMMA CliTypes ==
  ASSUME SyncInv, NEW d \in Devs
  PROVE  /\ cli[d].name \in AppNames \cup {Unnamed} /\ cli[d].app \in AppIds \cup {0}
         /\ cli[d].held \in Source /\ cli[d].link \in Link /\ cli[d].pc \in SyncSteps
         /\ cli[d].link.name \in AppNames \cup {Unnamed}
<1> HIDE DEF Unnamed
<1> QED
  BY SyncTypes DEF CliRecord, Link

LEMMA PatchedServer ==
  ASSUME SyncInv, NEW d \in Devs, Patch(d), created' = created
  PROVE  /\ ServerSound' /\ cli[d].app \in Visible(d) /\ PatchedName(d) \in AppNames
         /\ apps'[cli[d].app].src = cli[d].held
         /\ \A i \in AppIds \ {cli[d].app} : apps'[i] = apps[i]
<1> DEFINE i   == cli[d].app
           app == [apps[i] EXCEPT !.src = cli[d].held, !.link = cli[d].link, !.name = PatchedName(d)]
<1>1. i \in Visible(d) /\ i \in AppIds /\ apps[i] \in AppRecord
  BY VisibleApps DEF Patch, MayPatch
<1> HIDE DEF Unnamed
<1>2. PatchedName(d) \in AppNames
  BY <1>1, CliTypes DEF PatchedName, AppRecord
<1>3. apps' = [apps EXCEPT ![i] = app]
  BY <1>1, SyncTypes DEF Patch
<1>4. app \in AppRecord /\ app.src = cli[d].held
  BY <1>1, <1>2, CliTypes DEF AppRecord
<1> HIDE DEF app
<1>5. i <= created
  BY <1>1, SyncTypes DEF Visible, Exists, NotYetCreated, AppIds
<1>6. NotYetCreated'
  BY <1>1, <1>3, <1>5, SyncTypes, MaxAppsAssumption DEF NotYetCreated, AppIds
<1>7. apps' \in [AppIds -> AppRecord \cup {NoApp}] /\ created' \in 0 .. MaxApps
  BY <1>1, <1>3, <1>4, SyncTypes
<1>8. apps'[i] = app /\ \A j \in AppIds \ {i} : apps'[j] = apps[j]
  BY <1>1, <1>3, SyncTypes
<1> QED
  BY <1>1, <1>2, <1>4, <1>6, <1>7, <1>8 DEF ServerSound

LEMMA PublishedServer ==
  ASSUME SyncInv, NEW d \in Devs, NEW name \in AppNames, NEW src \in Source, NEW link \in Link,
         Publish(d, name, src, link)
  PROVE  /\ ServerSound' /\ created' = created + 1 /\ created + 1 \in AppIds /\ ~Exists(created + 1)
         /\ \A i \in AppIds \ {created + 1} : apps'[i] = apps[i]
<1> DEFINE app == [tier |-> "workspace", home |-> member[d], name |-> name, src |-> src, link |-> link]
<1>1. created \in Nat /\ created' = created + 1 /\ created + 1 \in AppIds /\ created + 1 <= MaxApps
  BY SyncTypes, MaxAppsAssumption DEF Publish, AppIds
<1>2. apps' = [apps EXCEPT ![created + 1] = app]
  BY DEF Publish
<1>3. app \in AppRecord
  <2>1. member[d] \in Workspaces
    BY DEF SyncInv, SyncTypeOK
  <2> QED
    BY <2>1 DEF AppRecord
<1> HIDE DEF app
<1>4. ~Exists(created + 1)
  BY <1>1, SyncTypes DEF NotYetCreated, Exists
<1>5. NotYetCreated'
  BY <1>1, <1>2, SyncTypes DEF NotYetCreated, AppIds
<1> QED
  BY <1>1, <1>2, <1>3, <1>4, <1>5, SyncTypes DEF ServerSound

\* The server said which app the push went to.
LEMMA PushedSound ==
  ASSUME SyncInv, NEW d \in Devs, cli[d].pc \in {"patch", "create"}, NEW id \in AppIds, NEW name \in AppNames,
         cli' = [cli EXCEPT ![d].pc = "link", ![d].name = name, ![d].app = id],
         PutTree(d, [tree[d] EXCEPT !.mine = id]),
         ServerSound', UNCHANGED member, left' \in SyncBudget
  PROVE  SyncInv'
<1> DEFINE t == [tree[d] EXCEPT !.mine = id]
           c == [cli[d] EXCEPT !.pc = "link", !.name = name, !.app = id]
<1>1. tree' = [tree EXCEPT ![d] = t] /\ cli' = [cli EXCEPT ![d] = c]
  BY SyncTypes DEF PutTree
<1>2. /\ t \in TreeRecord /\ t.src = tree[d].src /\ t.link = tree[d].link
      /\ t.cut = tree[d].cut /\ t.half = tree[d].half /\ t.mine = id
  BY SyncTypes DEF TreeRecord
<1>3. c \in CliRecord /\ c.pc = "link" /\ c.cmd = cli[d].cmd /\ c.app = id
  BY SyncTypes DEF CliRecord, SyncSteps
<1>4. cli[d].cmd = "push"
  BY SyncTypes DEF DevSound, CommandGoesOn
<1> HIDE DEF t, c
<1>5. DevSound(t, c)
  BY <1>2, <1>3, <1>4, SyncTypes DEF DevSound, LinkDecides, MineIsLinked, PatchesTheLinked, CommandGoesOn, AtLink
<1> QED
  BY <1>1, <1>2, <1>3, <1>5, SyncGoesOn

LEMMA UpdateAppKeeps ==
  ASSUME SyncInv, NEW d \in Devs, UpdateApp(d)
  PROVE  SyncInv'
<1>1. cli[d].pc = "patch" /\ UNCHANGED <<created, member>> /\ left' \in SyncBudget /\ cli[d].cmd = "push"
  BY SyncTypes DEF UpdateApp, At, DevSound, CommandGoesOn
<1>2. CASE /\ Patch(d)
           /\ cli' = [cli EXCEPT ![d].pc = "link", ![d].name = PatchedName(d)]
           /\ PutTree(d, [tree[d] EXCEPT !.mine = cli[d].app])
  <2>1. ServerSound' /\ cli[d].app \in AppIds /\ PatchedName(d) \in AppNames
    BY <1>1, <1>2, PatchedServer, VisibleApps
  <2> DEFINE id == cli[d].app
             name == PatchedName(d)
             c == [cli[d] EXCEPT !.pc = "link", !.name = name, !.app = id]
  <2>2. [cli[d] EXCEPT !.pc = "link", !.name = name] = c
    BY SyncTypes DEF CliRecord
  <2>3. cli' = [cli EXCEPT ![d].pc = "link", ![d].name = name, ![d].app = id]
    BY <1>2, <2>2
  <2> QED
    BY <1>1, <1>2, <2>1, <2>3, PushedSound
<1>3. CASE cli[d].app \notin Visible(d) /\ SyncGoto(d, "create") /\ UNCHANGED <<apps, tree>>
  <2> DEFINE c == [cli[d] EXCEPT !.pc = "create"]
  <2>1. cli' = [cli EXCEPT ![d] = c]
    BY <1>3, SyncTypes DEF SyncGoto
  <2>2. c \in CliRecord /\ c.pc = "create" /\ c.cmd = cli[d].cmd
    BY PcChanges DEF SyncSteps
  <2> HIDE DEF c
  <2>3. DevSound(tree[d], c)
    BY <1>1, <2>2, SyncTypes DEF DevSound, MineIsLinked, PatchesTheLinked, CommandGoesOn, AtLink
  <2> QED
    BY <1>1, <1>3, <2>1, <2>2, <2>3, SameServer, CliGoesOn
<1>4. CASE Stop(d) /\ UNCHANGED <<apps, tree>>
  BY <1>1, <1>4, SameServer, StopKeeps DEF AtLink
<1> QED
  BY <1>2, <1>3, <1>4 DEF UpdateApp

LEMMA NewNames ==
  ASSUME SyncInv, NEW d \in Devs
  PROVE  NewName(d) \in AppNames
<1> HIDE DEF Unnamed
<1> QED
  BY CliTypes DEF NewName, AppNames

LEMMA CreateAppKeeps ==
  ASSUME SyncInv, NEW d \in Devs, CreateApp(d)
  PROVE  SyncInv'
<1>1. cli[d].pc = "create" /\ UNCHANGED member /\ left' \in SyncBudget
  BY SyncTypes DEF CreateApp, At
<1>2. CASE /\ Publish(d, NewName(d), cli[d].held, cli[d].link)
           /\ cli' = [cli EXCEPT ![d].pc = "link", ![d].name = NewName(d), ![d].app = created + 1]
           /\ PutTree(d, [tree[d] EXCEPT !.mine = created + 1])
  <2>1. ServerSound' /\ created + 1 \in AppIds
    BY <1>2, NewNames, CliTypes, PublishedServer
  <2> QED
    BY <1>1, <1>2, <2>1, NewNames, PushedSound
<1>3. CASE Stop(d) /\ UNCHANGED <<apps, created, tree>>
  BY <1>1, <1>3, SameServer, StopKeeps DEF AtLink
<1> QED
  BY <1>2, <1>3 DEF CreateApp

LEMMA TearLinkKeeps ==
  ASSUME SyncInv, NEW d \in Devs, At(d, "link"), TearLink(d), SyncGoto(d, "relink"),
         UNCHANGED <<apps, created, member, left>>
  PROVE  SyncInv'
<1> DEFINE t == [tree[d] EXCEPT !.link = TornLink]
           c == [cli[d] EXCEPT !.pc = "relink"]
<1>1. tree' = [tree EXCEPT ![d] = t] /\ cli' = [cli EXCEPT ![d] = c] /\ cli[d].pc = "link"
  BY SyncTypes DEF TearLink, PutTree, SyncGoto, At
<1> HIDE DEF TornLink
<1>2. /\ t \in TreeRecord /\ t.src = tree[d].src /\ t.link = TornLink /\ t.cut = tree[d].cut
      /\ t.half = tree[d].half /\ t.mine = tree[d].mine
  BY NoSyncRecords, SyncTypes DEF TreeRecord
<1>3. c \in CliRecord /\ c.pc = "relink" /\ c.cmd = cli[d].cmd /\ c.app = cli[d].app
  BY PcChanges DEF SyncSteps
<1> HIDE DEF t, c
<1>4. DevSound(t, c)
  BY <1>1, <1>2, <1>3, NoSyncRecords, SyncTypes
     DEF DevSound, LinkDecides, MineIsLinked, PatchesTheLinked, CommandGoesOn, AtLink
<1> QED
  BY <1>1, <1>2, <1>3, <1>4, SameServer, SyncTypes, SyncGoesOn

LEMMA RelinkKeeps ==
  ASSUME SyncInv, NEW d \in Devs, At(d, "relink"), WriteLink(d)
  PROVE  SyncInv'
<1> DEFINE r    == cli[d]
           of   == IF r.app = 0 THEN tree[d].src.of ELSE r.app
           src  == [tree[d].src EXCEPT !.of = of]
           link == LinkTo(r.app, r.name)
           cut  == tree[d].cut /\ r.cmd # "pull"
           mine == IF r.cmd = "push" THEN tree[d].mine ELSE 0
           t    == [tree[d] EXCEPT !.link = link, !.cut = cut, !.src.of = of, !.mine = mine]
           c    == IF r.cmd = "init" THEN [cli[d] EXCEPT !.pc = "install"] ELSE Idle
<1>1. /\ cli[d].pc = "relink" /\ tree' = [tree EXCEPT ![d] = t] /\ cli' = [cli EXCEPT ![d] = c]
      /\ UNCHANGED <<apps, created, member>> /\ left' \in SyncBudget
  BY SyncTypes DEF WriteLink, PutTree, SyncGoto, Stop, At
<1>2. of \in AppIds \cup {0} /\ r.app \in AppIds \cup {0} /\ mine \in AppIds \cup {0} /\ cut \in BOOLEAN
  BY SyncTypes DEF TreeRecord, Source, CliRecord
<1>3. src \in Source /\ src.of = of /\ src.part = tree[d].src.part
  BY <1>2, SyncTypes DEF TreeRecord, Source
<1>4. link \in Link /\ link.app = r.app
  <2> HIDE DEF Unnamed
  <2> QED
    BY SyncTypes DEF LinkTo, Link, CliRecord
<1>5. (r.app # 0 => of = r.app) /\ (r.cmd = "pull" => ~cut) /\ (cut => tree[d].cut) /\ (tree[d].cut /\ r.cmd # "pull" => cut)
  OBVIOUS
<1>6. (r.cmd = "push" => mine = r.app) /\ (r.cmd # "push" => mine = 0)
  BY <1>1, SyncTypes DEF DevSound, MineIsLinked, AtLink
<1> HIDE DEF of, link, cut, mine
<1>7. /\ t \in TreeRecord /\ t.src = src /\ t.link = link /\ t.cut = cut /\ t.half = tree[d].half /\ t.mine = mine
  BY <1>2, <1>3, <1>4, SyncTypes DEF TreeRecord
<1>8. c \in CliRecord /\ (r.cmd = "init" => c.pc = "install" /\ c.cmd = "init") /\ (r.cmd # "init" => c.pc = "idle")
  <2> DEFINE installing == [cli[d] EXCEPT !.pc = "install"]
  <2>1. installing \in CliRecord /\ installing.pc = "install" /\ installing.cmd = r.cmd
    BY PcChanges DEF SyncSteps
  <2> HIDE DEF installing
  <2>2. c = IF r.cmd = "init" THEN installing ELSE Idle
    BY DEF installing
  <2> QED
    BY <2>1, <2>2, NoSyncRecords
<1> HIDE DEF t, c, src
<1>9. LinkDecides(t)
  BY <1>1, <1>3, <1>4, <1>5, <1>7, SyncTypes DEF DevSound, LinkDecides, CommandGoesOn, AtLink
<1>10. DevSound(t, c)
  BY <1>4, <1>6, <1>7, <1>8, <1>9, SyncTypes DEF DevSound, MineIsLinked, PatchesTheLinked, CommandGoesOn, AtLink
<1> QED
  BY <1>1, <1>7, <1>8, <1>10, SameServer, SyncGoesOn

LEMMA WriteLinkKeeps ==
  ASSUME SyncInv, NEW d \in Devs, WriteLink(d)
  PROVE  SyncInv'
BY TearLinkKeeps, RelinkKeeps DEF WriteLink

LEMMA InstallDepsKeeps ==
  ASSUME SyncInv, NEW d \in Devs, InstallDeps(d)
  PROVE  SyncInv'
BY SameServer, SyncTypes, StopKeeps DEF InstallDeps, At, AtLink

\* What an argument resolves to is an app that the developer sees.
LEMMA ResolvedAreVisible ==
  ASSUME NEW d, NEW arg, NEW scopes
  PROVE  ResolveCustomApp(d, arg, scopes) \subseteq Visible(d)
<1> DEFINE tiered(t) == {i \in Visible(d) : apps[i].tier = t /\ t \in scopes}
           exact(t)  == {i \in tiered(t) : apps[i].name = arg}
           folded(t) == {i \in tiered(t) : Fold(apps[i].name) = Fold(arg)}
           order     == <<exact("workspace"), exact("org"), folded("workspace"), folded("org")>>
           hits      == {k \in DOMAIN order : order[k] # {}}
           first     == CHOOSE k \in hits : \A l \in hits : k <= l
<1>1. /\ exact("workspace") \subseteq Visible(d) /\ exact("org") \subseteq Visible(d)
      /\ folded("workspace") \subseteq Visible(d) /\ folded("org") \subseteq Visible(d)
  OBVIOUS
<1>2. ResolveCustomApp(d, arg, scopes) = IF hits = {} THEN {} ELSE order[first]
  BY Zenon DEF ResolveCustomApp
<1> HIDE DEF exact, folded
<1>3. DOMAIN order = 1 .. 4 /\ \A k \in 1 .. 4 : order[k] \subseteq Visible(d)
  BY <1>1
<1> HIDE DEF order
<1>4. CASE hits # {}
  <2>1. \E k \in hits : \A l \in hits : k <= l
    <3>1. hits \subseteq 1 .. 4
      BY <1>3
    <3> HIDE DEF hits
    <3>2. \A k \in hits : k = 1 \/ k = 2 \/ k = 3 \/ k = 4
      BY <3>1
    <3>3. CASE 1 \in hits
      BY <3>2, <3>3
    <3>4. CASE 1 \notin hits /\ 2 \in hits
      BY <3>2, <3>4
    <3>5. CASE 1 \notin hits /\ 2 \notin hits /\ 3 \in hits
      BY <3>2, <3>5
    <3>6. CASE 1 \notin hits /\ 2 \notin hits /\ 3 \notin hits
      BY <1>4, <3>2, <3>6
    <3> QED
      BY <3>3, <3>4, <3>5, <3>6
  <2>2. first \in hits
    BY <2>1
  <2> QED
    BY <1>2, <1>3, <1>4, <2>2
<1> QED
  BY <1>2, <1>4

LEMMA ResolveAppKeeps ==
  ASSUME SyncInv, NEW d \in Devs, ResolveApp(d)
  PROVE  SyncInv'
<1>1. cli[d].pc = "resolve" /\ UNCHANGED <<apps, created, member, tree>> /\ left' \in SyncBudget
  BY SyncTypes DEF ResolveApp, At
<1>2. CASE Stop(d)
  BY <1>1, <1>2, SameServer, StopKeeps DEF AtLink
<1>3. CASE ~Stop(d)
  <2> DEFINE step == IF cli[d].cmd = "pull" THEN "fetch" ELSE "request"
  <2>1. PICK i \in Visible(d) :
          cli' = [cli EXCEPT ![d].pc = step, ![d].app = i, ![d].name = apps[i].name]
    <3>1. PICK scopes \in Scopes(cli[d].cmd) :
            \E i \in (UNION {ResolveCustomApp(d, arg, scopes) : arg \in AppNames})
                  \cup (UNION {ByIdentifier(d, id, scopes) : id \in AppIds}) :
              cli' = [cli EXCEPT ![d].pc = step, ![d].app = i, ![d].name = apps[i].name]
      BY <1>3, Zenon DEF ResolveApp
    <3>2. \A arg \in AppNames : ResolveCustomApp(d, arg, scopes) \subseteq Visible(d)
      BY ResolvedAreVisible
    <3>3. \A id \in AppIds : ByIdentifier(d, id, scopes) \subseteq Visible(d)
      BY DEF ByIdentifier
    <3>4. PICK i \in (UNION {ResolveCustomApp(d, arg, scopes) : arg \in AppNames})
                   \cup (UNION {ByIdentifier(d, id, scopes) : id \in AppIds}) :
            cli' = [cli EXCEPT ![d].pc = step, ![d].app = i, ![d].name = apps[i].name]
      BY <3>1, Zenon
    <3>5. i \in Visible(d)
      BY <3>2, <3>3
    <3> QED
      BY <3>4, <3>5, Zenon
  <2> DEFINE c == [cli[d] EXCEPT !.pc = step, !.app = i, !.name = apps[i].name]
  <2>2. cli' = [cli EXCEPT ![d] = c]
    BY <2>1, SyncTypes
  <2>3. i \in AppIds /\ apps[i].name \in AppNames
    BY VisibleApps DEF AppRecord
  <2> HIDE DEF Unnamed
  <2>4. c \in CliRecord /\ c.pc = step /\ c.cmd = cli[d].cmd /\ c.name \in AppNames
    BY <2>3, SyncTypes DEF CliRecord, SyncSteps
  <2> HIDE DEF c
  <2>5. DevSound(tree[d], c)
    BY <1>1, <2>4, SyncTypes DEF DevSound, MineIsLinked, PatchesTheLinked, CommandGoesOn, AtLink
  <2> QED
    BY <1>1, <2>2, <2>4, <2>5, SameServer, CliGoesOn
<1> QED
  BY <1>2, <1>3

LEMMA FetchSourceKeeps ==
  ASSUME SyncInv, NEW d \in Devs, FetchSource(d)
  PROVE  SyncInv'
<1>1. cli[d].pc = "fetch" /\ UNCHANGED <<apps, created, member, tree>> /\ left' \in SyncBudget
  BY SyncTypes DEF FetchSource, At
<1>2. CASE Stop(d)
  BY <1>1, <1>2, SameServer, StopKeeps DEF AtLink
<1>3. CASE ~Stop(d)
  <2> DEFINE i == cli[d].app
             c == [cli[d] EXCEPT !.pc = "confirm", !.held = apps[i].src, !.link = apps[i].link]
  <2>1. i \in Visible(d) /\ cli' = [cli EXCEPT ![d] = c]
    BY <1>3, SyncTypes DEF FetchSource
  <2>2. apps[i].src \in Source /\ apps[i].link \in Link
    BY <2>1, VisibleApps DEF AppRecord
  <2>3. c \in CliRecord /\ c.pc = "confirm" /\ c.cmd = cli[d].cmd
    BY <2>2, SyncTypes DEF CliRecord, SyncSteps
  <2> HIDE DEF c
  <2>4. DevSound(tree[d], c)
    BY <1>1, <2>3, SyncTypes DEF DevSound, MineIsLinked, PatchesTheLinked, CommandGoesOn, AtLink
  <2> QED
    BY <1>1, <2>1, <2>3, <2>4, SameServer, CliGoesOn
<1> QED
  BY <1>2, <1>3

LEMMA ConfirmReplaceKeeps ==
  ASSUME SyncInv, NEW d \in Devs, ConfirmReplace(d)
  PROVE  SyncInv'
<1>1. cli[d].pc = "confirm" /\ UNCHANGED <<apps, created, member, tree>> /\ left' \in SyncBudget
  BY SyncTypes DEF ConfirmReplace, At
<1>2. CASE Stop(d)
  BY <1>1, <1>2, SameServer, StopKeeps DEF AtLink
<1>3. CASE SyncGoto(d, "clear")
  <2> DEFINE c == [cli[d] EXCEPT !.pc = "clear"]
  <2>1. cli' = [cli EXCEPT ![d] = c]
    BY <1>3, SyncTypes DEF SyncGoto
  <2>2. c \in CliRecord /\ c.pc = "clear" /\ c.cmd = cli[d].cmd
    BY PcChanges DEF SyncSteps
  <2> HIDE DEF c
  <2>3. DevSound(tree[d], c)
    BY <1>1, <2>2, SyncTypes DEF DevSound, MineIsLinked, PatchesTheLinked, CommandGoesOn, AtLink
  <2> QED
    BY <1>1, <2>1, <2>2, <2>3, SameServer, CliGoesOn
<1> QED
  BY <1>2, <1>3 DEF ConfirmReplace

LEMMA ClearDirectoryKeeps ==
  ASSUME SyncInv, NEW d \in Devs, ClearDirectory(d)
  PROVE  SyncInv'
<1>1. cli[d].pc = "clear" /\ cli[d].cmd = "pull" /\ UNCHANGED <<apps, created, member>> /\ left' \in SyncBudget
  BY SyncTypes DEF ClearDirectory, At, DevSound, CommandGoesOn
<1>2. CASE PutTree(d, NoTree) /\ SyncGoto(d, "extract")
  <2> DEFINE c == [cli[d] EXCEPT !.pc = "extract"]
  <2>1. tree' = [tree EXCEPT ![d] = NoTree] /\ cli' = [cli EXCEPT ![d] = c]
    BY <1>2, SyncTypes DEF PutTree, SyncGoto
  <2>2. c \in CliRecord /\ c.pc = "extract" /\ c.cmd = cli[d].cmd
    BY PcChanges DEF SyncSteps
  <2> HIDE DEF c
  <2>3. DevSound(NoTree, c)
    BY <1>1, <2>2, NoSyncRecords DEF DevSound, LinkDecides, MineIsLinked, PatchesTheLinked, CommandGoesOn, AtLink
  <2> QED
    BY <1>1, <2>1, <2>2, <2>3, NoSyncRecords, SameServer, SyncGoesOn
<1>3. ASSUME NEW linkGone \in BOOLEAN, NEW distGone \in BOOLEAN, UNCHANGED cli,
             PutTree(d, [tree[d] EXCEPT !.src.part = IF @ = "none" THEN @ ELSE "cleared",
                                        !.link = IF linkGone THEN NoLink ELSE @,
                                        !.built = @ /\ ~distGone, !.mine = 0])
      PROVE  SyncInv'
  <2> DEFINE part  == IF tree[d].src.part = "none" THEN "none" ELSE "cleared"
             src   == [tree[d].src EXCEPT !.part = part]
             link  == IF linkGone THEN NoLink ELSE tree[d].link
             built == tree[d].built /\ ~distGone
             t     == [tree[d] EXCEPT !.src.part = part, !.link = link, !.built = built, !.mine = 0]
  <2>1. tree' = [tree EXCEPT ![d] = t] /\ cli' = [cli EXCEPT ![d] = cli[d]]
    BY <1>3, SyncTypes DEF PutTree, TreeRecord, Source
  <2>2. src \in Source /\ src.of = tree[d].src.of /\ src.part # "torn"
    BY SyncTypes DEF TreeRecord, Source
  <2>3. link \in Link /\ (link = tree[d].link \/ link.app = 0)
    BY SyncTypes, NoSyncRecords DEF TreeRecord
  <2>4. built \in BOOLEAN
    OBVIOUS
  <2> HIDE DEF link, built, NoLink
  <2>5. /\ t \in TreeRecord /\ t.src = src /\ t.link = link /\ t.cut = tree[d].cut /\ t.mine = 0
    BY <2>2, <2>3, <2>4, SyncTypes DEF TreeRecord
  <2> HIDE DEF t, src
  <2>6. DevSound(t, cli[d])
    BY <1>1, <2>2, <2>3, <2>5, SyncTypes DEF DevSound, LinkDecides, MineIsLinked, PatchesTheLinked, CommandGoesOn, AtLink
  <2> QED
    BY <1>1, <2>1, <2>5, <2>6, SyncTypes, SameServer, SyncGoesOn
<1> QED
  BY <1>2, <1>3 DEF ClearDirectory

LEMMA ExtractArchiveKeeps ==
  ASSUME SyncInv, NEW d \in Devs, ExtractArchive(d)
  PROVE  SyncInv'
<1>1. /\ cli[d].pc \in {"extract", "extracting"} /\ cli[d].cmd = "pull" /\ tree[d].mine = 0
      /\ UNCHANGED <<apps, created, member>> /\ left' \in SyncBudget
  BY SyncTypes DEF ExtractArchive, At, DevSound, CommandGoesOn
<1> DEFINE held == cli[d].held
           id   == cli[d].app
<1>2. held \in Source /\ id \in AppIds \cup {0} /\ cli[d].link \in Link
  BY CliTypes
<1>3. CASE /\ PutTree(d, [tree[d] EXCEPT !.link = cli[d].link, !.cut = TRUE, !.src = [of |-> id, part |-> "torn"]])
           /\ SyncGoto(d, "extracting")
  <2> DEFINE src == [of |-> id, part |-> "torn"]
             t   == [tree[d] EXCEPT !.link = cli[d].link, !.cut = TRUE, !.src = src]
             c   == [cli[d] EXCEPT !.pc = "extracting"]
  <2>1. tree' = [tree EXCEPT ![d] = t] /\ cli' = [cli EXCEPT ![d] = c]
    BY <1>3, SyncTypes DEF PutTree, SyncGoto
  <2>2. src \in Source
    BY <1>2 DEF Source
  <2> HIDE DEF src
  <2>3. t \in TreeRecord /\ t.cut /\ t.mine = 0
    BY <1>1, <1>2, <2>2, SyncTypes DEF TreeRecord
  <2>4. c \in CliRecord /\ c.pc = "extracting" /\ c.cmd = cli[d].cmd
    BY PcChanges DEF SyncSteps
  <2> HIDE DEF t, c
  <2>5. DevSound(t, c)
    BY <1>1, <2>3, <2>4, SyncTypes DEF DevSound, LinkDecides, MineIsLinked, PatchesTheLinked, CommandGoesOn, AtLink
  <2> QED
    BY <1>1, <2>1, <2>3, <2>4, <2>5, SameServer, SyncGoesOn
<1>4. CASE /\ At(d, "extracting") /\ SyncGoto(d, "link")
           /\ PutTree(d, [tree[d] EXCEPT !.src = [of |-> id, part |-> held.part], !.half = held.part = "torn"])
  <2> DEFINE src  == [of |-> id, part |-> held.part]
             half == held.part = "torn"
             t    == [tree[d] EXCEPT !.src = src, !.half = half]
             c    == [cli[d] EXCEPT !.pc = "link"]
  <2>1. tree' = [tree EXCEPT ![d] = t] /\ cli' = [cli EXCEPT ![d] = c] /\ tree[d].cut
    BY <1>4, SyncTypes DEF PutTree, SyncGoto, At, DevSound, CommandGoesOn
  <2>2. src \in Source /\ src.part = held.part /\ half \in BOOLEAN /\ (src.part = "torn" => half)
    BY <1>2 DEF Source
  <2> HIDE DEF src, half
  <2>3. t \in TreeRecord /\ t.src = src /\ t.half = half /\ t.link = tree[d].link /\ t.cut = tree[d].cut /\ t.mine = 0
    BY <1>1, <2>2, SyncTypes DEF TreeRecord
  <2>4. c \in CliRecord /\ c.pc = "link" /\ c.cmd = cli[d].cmd
    BY PcChanges DEF SyncSteps
  <2> HIDE DEF t, c
  <2>5. DevSound(t, c)
    BY <1>1, <2>1, <2>2, <2>3, <2>4, SyncTypes DEF DevSound, LinkDecides, MineIsLinked, PatchesTheLinked, CommandGoesOn, AtLink
  <2> QED
    BY <1>1, <2>1, <2>3, <2>4, <2>5, SameServer, SyncGoesOn
<1> QED
  BY <1>3, <1>4 DEF ExtractArchive

LEMMA ShareAppKeeps ==
  ASSUME SyncInv, NEW d \in Devs, ShareApp(d)
  PROVE  SyncInv' /\ \A i \in AppIds : Exists(i) => apps'[i].src = apps[i].src
<1>1. cli[d].pc = "request" /\ Stop(d) /\ UNCHANGED <<created, member, tree>> /\ left' \in SyncBudget
  BY SyncTypes DEF ShareApp, At
<1>2. CASE UNCHANGED apps
  BY <1>1, <1>2, SameServer, StopKeeps DEF AtLink
<1>3. CASE ~UNCHANGED apps
  <2> DEFINE i   == cli[d].app
             app == [apps[i] EXCEPT !.tier = "org"]
  <2>1. i \in Visible(d) /\ apps' = [apps EXCEPT ![i] = app]
    BY <1>3, SyncTypes DEF ShareApp
  <2>2. i \in AppIds /\ apps[i] \in AppRecord /\ apps[i] # NoApp
    BY <2>1, VisibleApps DEF Visible, Exists
  <2>3. app \in AppRecord /\ app.src = apps[i].src
    BY <2>2 DEF AppRecord
  <2> HIDE DEF app
  <2>4. NotYetCreated'
    BY <1>1, <2>1, <2>2, SyncTypes DEF NotYetCreated
  <2>5. ServerSound'
    BY <1>1, <2>1, <2>3, <2>4, SyncTypes DEF ServerSound
  <2>6. \A j \in AppIds : apps'[j].src = apps[j].src
    BY <2>1, <2>2, <2>3, SyncTypes
  <2> QED
    BY <1>1, <2>5, <2>6, StopKeeps DEF AtLink
<1> QED
  BY <1>2, <1>3

LEMMA ClaimAppKeeps ==
  ASSUME SyncInv, NEW d \in Devs, ClaimApp(d)
  PROVE  SyncInv' /\ \A i \in AppIds : Exists(i) => apps'[i] = apps[i]
<1>1. cli[d].pc = "request" /\ Stop(d) /\ UNCHANGED <<member, tree>> /\ left' \in SyncBudget
  BY SyncTypes DEF ClaimApp, At
<1>2. CASE UNCHANGED <<apps, created>>
  BY <1>1, <1>2, SameServer, StopKeeps DEF AtLink
<1>3. ASSUME NEW as \in AppNames \cup {Unnamed}, cli[d].app \in Visible(d),
             Publish(d, IF as = Unnamed THEN cli[d].name ELSE as, apps[cli[d].app].src, apps[cli[d].app].link)
      PROVE  ServerSound' /\ \A i \in AppIds : Exists(i) => apps'[i] = apps[i]
  <2>1. apps[cli[d].app].src \in Source /\ apps[cli[d].app].link \in Link
    BY <1>3, VisibleApps DEF AppRecord
  <2>2. cli[d].name \in AppNames
    BY <1>1, SyncTypes DEF DevSound, CommandGoesOn
  <2> HIDE DEF Unnamed
  <2>3. (IF as = Unnamed THEN cli[d].name ELSE as) \in AppNames
    BY <2>2
  <2>4. ServerSound' /\ ~Exists(created + 1) /\ \A i \in AppIds \ {created + 1} : apps'[i] = apps[i]
    BY <1>3, <2>1, <2>3, PublishedServer
  <2> QED
    BY <2>4
<1> QED
  BY <1>1, <1>2, <1>3, StopKeeps DEF ClaimApp, AtLink

LEMMA DeleteAppKeeps ==
  ASSUME SyncInv, NEW d \in Devs, DeleteApp(d)
  PROVE  SyncInv' /\ \A i \in AppIds : apps'[i] = apps[i] \/ apps'[i] = NoApp
<1>1. cli[d].pc = "request" /\ Stop(d) /\ UNCHANGED <<created, member, tree>> /\ left' \in SyncBudget
  BY SyncTypes DEF DeleteApp, At
<1>2. CASE UNCHANGED apps
  BY <1>1, <1>2, SameServer, StopKeeps DEF AtLink
<1>3. CASE ~UNCHANGED apps
  <2>1. apps' = [apps EXCEPT ![cli[d].app] = NoApp]
    BY <1>3 DEF DeleteApp
  <2> HIDE DEF NoApp
  <2>2. NotYetCreated' /\ apps' \in [AppIds -> AppRecord \cup {NoApp}]
    BY <1>1, <2>1, SyncTypes DEF NotYetCreated
  <2>3. ServerSound'
    BY <1>1, <2>2, SyncTypes DEF ServerSound
  <2>4. \A i \in AppIds : apps'[i] = apps[i] \/ apps'[i] = NoApp
    BY <2>1, SyncTypes
  <2> QED
    BY <1>1, <2>3, <2>4, StopKeeps DEF AtLink
<1> QED
  BY <1>2, <1>3

LEMMA LoseAnswerKeeps ==
  ASSUME SyncInv, NEW d \in Devs, LoseAnswer(d)
  PROVE  SyncInv'
<1>1. cli[d].pc \in {"patch", "create"} /\ Stop(d) /\ UNCHANGED <<member, tree>> /\ left' \in SyncBudget
  BY SpendTypes DEF LoseAnswer, At
<1>2. CASE Patch(d) /\ UNCHANGED created
  BY <1>1, <1>2, PatchedServer, StopKeeps DEF AtLink
<1>3. CASE Publish(d, NewName(d), cli[d].held, cli[d].link)
  BY <1>1, <1>3, NewNames, CliTypes, PublishedServer, StopKeeps DEF AtLink
<1> QED
  BY <1>2, <1>3 DEF LoseAnswer

LEMMA InterruptKeeps ==
  ASSUME SyncInv, NEW d \in Devs, Interrupt(d)
  PROVE  SyncInv'
<1> DEFINE mine == IF cli[d].pc \in {"link", "relink"} THEN 0 ELSE tree[d].mine
           t    == [tree[d] EXCEPT !.mine = mine]
<1>1. tree' = [tree EXCEPT ![d] = t] /\ cli' = [cli EXCEPT ![d] = Idle]
  BY SyncTypes DEF Interrupt, PutTree, Stop
<1>2. UNCHANGED <<apps, created, member>> /\ left' \in SyncBudget
  BY SpendTypes DEF Interrupt
<1>3. mine \in AppIds \cup {0} /\ (mine # 0 => mine = tree[d].mine /\ ~AtLink(cli[d]))
  BY SyncTypes DEF TreeRecord, AtLink
<1> HIDE DEF mine
<1>4. /\ t \in TreeRecord /\ t.src = tree[d].src /\ t.link = tree[d].link /\ t.cut = tree[d].cut
      /\ t.half = tree[d].half /\ t.mine = mine
  BY <1>3, SyncTypes DEF TreeRecord
<1> HIDE DEF t
<1>5. DevSound(t, Idle)
  BY <1>3, <1>4, NoSyncRecords, SyncTypes DEF DevSound, LinkDecides, MineIsLinked, PatchesTheLinked, CommandGoesOn, AtLink
<1> QED
  BY <1>1, <1>2, <1>4, <1>5, NoSyncRecords, SameServer, SyncGoesOn

LEMMA CloneDirectoryKeeps ==
  ASSUME SyncInv, NEW d \in Devs, NEW e \in Devs, CloneDirectory(d, e)
  PROVE  SyncInv'
<1> DEFINE t == [tree[d] EXCEPT !.built = FALSE, !.mine = 0]
<1>1. tree' = [tree EXCEPT ![e] = t] /\ cli' = [cli EXCEPT ![e] = Idle]
  BY DEF CloneDirectory
<1>2. UNCHANGED <<apps, created, member>> /\ left' \in SyncBudget
  BY SpendTypes DEF CloneDirectory
<1>3. /\ t \in TreeRecord /\ t.src = tree[d].src /\ t.link = tree[d].link
      /\ t.cut = tree[d].cut /\ t.half = tree[d].half /\ t.mine = 0
  BY SyncTypes DEF TreeRecord
<1> HIDE DEF t
<1>4. DevSound(t, Idle)
  BY <1>3, NoSyncRecords, SyncTypes DEF DevSound, LinkDecides, MineIsLinked, PatchesTheLinked, CommandGoesOn, AtLink
<1> QED
  BY <1>1, <1>2, <1>3, <1>4, NoSyncRecords, SameServer, SyncGoesOn

LEMMA CommandKeeps ==
  ASSUME SyncInv, NEW d \in Devs, CommandStep(d)
  PROVE  SyncInv'
<1>1. CASE AppsInit(d)
  BY <1>1, BeginKeeps DEF AppsInit
<1>2. CASE AppsPush(d)
  BY <1>2, BeginKeeps DEF AppsPush
<1>3. CASE StartOnServer(d)
  BY <1>3, BeginKeeps DEF StartOnServer
<1>4. CASE AppsBuildFails(d)
  BY <1>4, SameServer, SyncTypes, StopKeeps DEF AppsBuildFails, At, AtLink
<1> QED
  BY <1>1, <1>2, <1>3, <1>4, ScaffoldKeeps, InstallDepsKeeps, AppsBuildKeeps, ReadSourcesKeeps, UpdateAppKeeps,
     CreateAppKeeps, WriteLinkKeeps, ResolveAppKeeps, FetchSourceKeeps, ConfirmReplaceKeeps, ClearDirectoryKeeps,
     ExtractArchiveKeeps, ShareAppKeeps, ClaimAppKeeps, DeleteAppKeeps
     DEF CommandStep

LEMMA SyncInvariant == SyncSpec => []SyncInv
<1>1. SyncInit => SyncInv
  <2> SUFFICES ASSUME SyncInit PROVE SyncInv
    OBVIOUS
  <2> HIDE DEF NoTree, Idle, NoApp
  <2>1. SyncTypeOK
    BY NoSyncRecords, SyncBudgetsAssumption, MaxAppsAssumption DEF SyncInit, SyncTypeOK
  <2>2. NotYetCreated
    BY DEF SyncInit, NotYetCreated
  <2>3. DevSound(NoTree, Idle)
    BY NoSyncRecords DEF DevSound, LinkDecides, MineIsLinked, PatchesTheLinked, CommandGoesOn, AtLink
  <2> QED
    BY <2>1, <2>2, <2>3 DEF SyncInv, SyncInit
<1>2. SyncInv /\ [SyncNext]_syncVars => SyncInv'
  <2> SUFFICES ASSUME SyncInv, [SyncNext]_syncVars PROVE SyncInv'
    OBVIOUS
  <2>1. CASE UNCHANGED syncVars
    BY <2>1 DEF syncVars, SyncInv, SyncTypeOK, NotYetCreated, DevSound, LinkDecides, MineIsLinked, PatchesTheLinked,
                CommandGoesOn, AtLink
  <2> QED
    BY <2>1, CommandKeeps, LoseAnswerKeeps, InterruptKeeps, CloneDirectoryKeeps DEF SyncNext
<1> QED
  BY <1>1, <1>2, PTL DEF SyncSpec

\* What is patched is what the directory holds, and the link says where.
LEMMA PatchOverwritesOwn ==
  ASSUME SyncInv, NEW d \in Devs, At(d, "patch"), Patch(d), created' = created, NEW i \in AppIds
  PROVE  OverwritesOwn(i)
<1> SUFFICES ASSUME Exists(i), apps'[i] # NoApp, apps'[i].src # apps[i].src
             PROVE  /\ At(d, "patch") /\ cli[d].app = i
                    /\ apps'[i].src.of \in {0, i} \/ tree[d].cut
                    /\ apps'[i].src.part = "torn" => tree[d].cut \/ tree[d].half
  BY DEF OverwritesOwn
<1>1. cli[d].app = i /\ apps'[i].src = cli[d].held
  BY PatchedServer
<1>2. i = tree[d].link.app /\ i # 0 /\ cli[d].held = tree[d].src
  BY <1>1, SyncTypes DEF At, DevSound, PatchesTheLinked
<1> QED
  BY <1>1, <1>2, SyncTypes DEF DevSound, LinkDecides

LEMMA OthersOverwriteNothing ==
  ASSUME NEW i \in AppIds, Exists(i) => apps'[i] = NoApp \/ apps'[i].src = apps[i].src
  PROVE  OverwritesOwn(i)
BY DEF OverwritesOwn

LEMMA EveryoneOverwritesOwn ==
  ASSUME SyncInv, SyncNext, NEW i \in AppIds
  PROVE  OverwritesOwn(i)
<1>1. CASE UNCHANGED apps
  BY <1>1, OthersOverwriteNothing
<1>2. ASSUME NEW d \in Devs, At(d, "patch"), Patch(d), created' = created PROVE OverwritesOwn(i)
  BY <1>2, PatchOverwritesOwn
<1>3. ASSUME NEW d \in Devs, Publish(d, NewName(d), cli[d].held, cli[d].link) PROVE OverwritesOwn(i)
  BY <1>3, NewNames, CliTypes, PublishedServer, OthersOverwriteNothing
<1>4. ASSUME NEW d \in Devs, UpdateApp(d) PROVE OverwritesOwn(i)
  BY <1>1, <1>2, <1>4 DEF UpdateApp
<1>5. ASSUME NEW d \in Devs, CreateApp(d) PROVE OverwritesOwn(i)
  BY <1>1, <1>3, <1>5 DEF CreateApp
<1>6. ASSUME NEW d \in Devs, LoseAnswer(d) PROVE OverwritesOwn(i)
  BY <1>2, <1>3, <1>6 DEF LoseAnswer
<1>7. ASSUME NEW d \in Devs, ShareApp(d) \/ ClaimApp(d) \/ DeleteApp(d) PROVE OverwritesOwn(i)
  BY <1>7, ShareAppKeeps, ClaimAppKeeps, DeleteAppKeeps, OthersOverwriteNothing, SMTT(30)
<1>8. ASSUME NEW d \in Devs, CommandStep(d), ~(UpdateApp(d) \/ CreateApp(d) \/ ShareApp(d) \/ ClaimApp(d) \/ DeleteApp(d))
      PROVE  UNCHANGED apps
  BY <1>8 DEF CommandStep, AppsInit, Scaffold, InstallDeps, AppsPush, AppsBuild, AppsBuildFails, ReadSources, WriteLink,
              StartOnServer, ResolveApp, FetchSource, ConfirmReplace, ClearDirectory, ExtractArchive
<1>9. ASSUME NEW d \in Devs, NEW e \in Devs, Interrupt(d) \/ CloneDirectory(d, e) PROVE UNCHANGED apps
  BY <1>9 DEF Interrupt, CloneDirectory
<1> QED
  BY <1>1, <1>4, <1>5, <1>6, <1>7, <1>8, <1>9 DEF SyncNext

\* Only a read without a link, and a patch of an app that is not there, go on to
\* create one.
LEMMA CreatesIfGone ==
  ASSUME SyncInv, SyncNext, NEW d \in Devs, At(d, "read") \/ At(d, "patch"), cli'[d].pc = "create"
  PROVE  tree[d].mine \notin Visible(d)
<1>1. /\ cli[d].pc \in {"read", "patch"} /\ cli'[d] # cli[d] /\ cli'[d] # Idle
  BY NoSyncRecords DEF At
<1>2. tree[d].mine # 0 => tree[d].link.app = tree[d].mine
  BY <1>1, SyncTypes DEF DevSound, MineIsLinked, AtLink
<1>3. 0 \notin Visible(d)
  BY DEF Visible, AppIds
<1>4. CASE ReadSources(d)
  <2>1. tree[d].link.app = 0
    <3> DEFINE step == IF tree[d].link.app = 0 THEN "create" ELSE "patch"
               c    == [cli[d] EXCEPT !.app = tree[d].link.app, !.pc = step, !.held = tree[d].src, !.link = tree[d].link]
    <3>1. ~Stop(d)
      BY <1>1, SyncTypes DEF Stop
    <3>2. cli' = [cli EXCEPT ![d] = c]
      BY <1>4, <3>1, SyncTypes DEF ReadSources, SourceArchive
    <3>3. c.pc = step
      BY SyncTypes DEF CliRecord
    <3> QED
      BY <3>2, <3>3, SyncTypes
  <2> QED
    BY <1>2, <1>3, <2>1
<1>5. CASE UpdateApp(d)
  <2>1. cli[d].app \notin Visible(d) /\ cli[d].app = tree[d].link.app
    <3>1. CASE cli' = [cli EXCEPT ![d].pc = "link", ![d].name = PatchedName(d)]
      BY <3>1, SyncTypes DEF CliRecord
    <3> QED
      BY <1>1, <1>5, <3>1, SyncTypes DEF UpdateApp, Stop, At, DevSound, PatchesTheLinked
  <2> QED
    BY <1>2, <1>3, <2>1
<1>6. CASE ~ReadSources(d) /\ ~UpdateApp(d)
  <2>1. ASSUME NEW e \in Devs, e # d, CommandStep(e) \/ LoseAnswer(e) \/ Interrupt(e) PROVE cli'[d] = cli[d]
    <3>1. CASE AppsInit(e) \/ AppsPush(e) \/ StartOnServer(e)
      BY <2>1, <3>1, SyncTypes DEF AppsInit, AppsPush, StartOnServer, BeginSync
    <3>2. CASE Scaffold(e) \/ AppsBuild(e) \/ ConfirmReplace(e) \/ ClearDirectory(e) \/ ExtractArchive(e) \/ WriteLink(e)
      BY <2>1, <3>2, SyncTypes DEF Scaffold, AppsBuild, ConfirmReplace, ClearDirectory, ExtractArchive, WriteLink, SyncGoto, Stop
    <3>3. CASE ReadSources(e) \/ FetchSource(e) \/ CreateApp(e)
      BY <2>1, <3>3, SyncTypes DEF ReadSources, FetchSource, CreateApp, Stop
    <3>4. CASE UpdateApp(e) \/ ResolveApp(e)
      BY <2>1, <3>4, SyncTypes DEF UpdateApp, ResolveApp, SyncGoto, Stop
    <3>5. ASSUME Stop(e) PROVE cli'[d] = cli[d]
      BY <2>1, <3>5, SyncTypes DEF Stop
    <3>6. CASE \/ InstallDeps(e) \/ AppsBuildFails(e) \/ ShareApp(e) \/ ClaimApp(e) \/ DeleteApp(e)
               \/ LoseAnswer(e) \/ Interrupt(e)
      BY <3>5, <3>6 DEF InstallDeps, AppsBuildFails, ShareApp, ClaimApp, DeleteApp, LoseAnswer, Interrupt
    <3> QED
      BY <2>1, <3>1, <3>2, <3>3, <3>4, <3>6 DEF CommandStep
  <2>2. ASSUME NEW e \in Devs, NEW f \in Devs, CloneDirectory(e, f) PROVE cli'[d] \in {cli[d], Idle}
    BY <2>2, SyncTypes DEF CloneDirectory
  <2>3. CASE LoseAnswer(d) \/ Interrupt(d)
    BY <1>1, <2>3, SyncTypes, SMTT(30) DEF LoseAnswer, Interrupt, Stop
  <2>4. CASE CommandStep(d)
    BY <1>1, <1>6, <2>4
       DEF CommandStep, AppsInit, Scaffold, InstallDeps, AppsPush, AppsBuild, AppsBuildFails, CreateApp, WriteLink,
           StartOnServer, ResolveApp, FetchSource, ConfirmReplace, ClearDirectory, ExtractArchive, ShareApp, ClaimApp,
           DeleteApp, BeginSync, At
  <2> QED
    BY <1>1, <2>1, <2>2, <2>3, <2>4 DEF SyncNext
<1> QED
  BY <1>4, <1>5, <1>6

\* A push overwrites the app whose source the directory holds, unless a pull into
\* it was cut short, and creates an app only if the last one is not there.
THEOREM AppsAreKeptApart == SyncSpec => AppsStayApart
<1> DEFINE Apart == /\ \A i \in AppIds : OverwritesOwn(i)
                    /\ \A d \in Devs :
                         At(d, "read") \/ At(d, "patch") =>
                           (cli'[d].pc = "create" => tree[d].mine \notin Visible(d))
<1>1. SyncInv /\ SyncNext => Apart
  BY EveryoneOverwritesOwn, CreatesIfGone
<1>2. SyncInv /\ [SyncNext]_syncVars => [Apart]_syncVars
  BY <1>1
<1> QED
  BY <1>2, SyncInvariant, PTL DEF SyncSpec, AppsStayApart

-----------------------------------------------------------------------------
(* `insights create' and `run': every job that was not deleted is of a     *)
(* saved configuration, and a run that waits has a job of its own and of   *)
(* its configuration, which only the server ends.                          *)

JobRecord == [config : Configs \cup {0}, status : {"none", "queued", "success", "error", "deleted"}]

InsightFiles == {in.file : in \in InsightInputs} \cup {[schedule |-> "unset"]}

InsightSteps == {"start", "refused", "stopped", "saved", "wait", "started", "completed", "failed", "timed out", "updated",
                 "deleted", "aborted"}

InsightRun ==
  [pc : InsightSteps, config : Configs \cup {0}, job : Jobs \cup {0},
   wait : {in.wait : in \in InsightInputs} \cup {FALSE}, waited : Nat, file : InsightFiles]

ConfigsKept ==
  /\ configs = [c \in Configs |-> configs[c]]
  /\ \A c \in Configs : Saved(c) => configs[c].name # NoWords /\ configs[c].analysis # NoWords
  /\ \A c \in Configs : ~Saved(c) => configs[c].schedule = NoWords

JobsKept ==
  /\ jobs \in [Jobs -> JobRecord]
  /\ \A j \in Jobs : /\ jobs[j].status = "none" => jobs[j] = NoJob
                     /\ jobs[j].status \notin {"none", "deleted"} => Saved(jobs[j].config)

\* The job a run waits for, among the jobs js.
WaitsForOwn(run, js) ==
  run.pc = "wait" => run.job \in Jobs /\ js[run.job] # NoJob /\ js[run.job].config = run.config

InsightInv ==
  /\ ConfigsKept
  /\ JobsKept
  /\ insightRuns \in [InsightRuns -> InsightRun]
  /\ \A r \in InsightRuns : WaitsForOwn(insightRuns[r], jobs)

LEMMA NewInsights ==
  /\ NoJob \in JobRecord /\ NoJob.status = "none"
  /\ NoInsightRun \in InsightRun /\ NoInsightRun.pc = "start"
  /\ NoConfig.schedule = NoWords /\ DeletedConfig.schedule = NoWords /\ NoConfig.name = NoWords /\ DeletedConfig.name = NoWords
<1>1. NoJob \in JobRecord /\ NoJob.status = "none"
  BY DEF NoJob, JobRecord
<1>2. NoInsightRun \in InsightRun /\ NoInsightRun.pc = "start"
  BY DEF NoInsightRun, InsightRun, InsightFiles, InsightSteps
<1>3. NoConfig.schedule = NoWords /\ DeletedConfig.schedule = NoWords /\ NoConfig.name = NoWords /\ DeletedConfig.name = NoWords
  <2> HIDE DEF NoWords
  <2> QED
    BY DEF NoConfig, DeletedConfig
<1> QED
  BY <1>1, <1>2, <1>3

LEMMA InsightTypes ==
  ASSUME InsightInv
  PROVE  /\ ConfigsKept /\ JobsKept /\ DOMAIN configs = Configs
         /\ jobs \in [Jobs -> JobRecord] /\ insightRuns \in [InsightRuns -> InsightRun]
         /\ \A j \in Jobs : jobs[j] \in JobRecord
         /\ \A r \in InsightRuns : insightRuns[r] \in InsightRun /\ WaitsForOwn(insightRuns[r], jobs)
BY DEF InsightInv, ConfigsKept, JobsKept

\* What a run waits for is still there, whatever else happened to the jobs.
JobsGoOn == \A j \in Jobs : jobs[j] # NoJob => jobs'[j] # NoJob /\ jobs'[j].config = jobs[j].config

LEMMA InsightGoesOn ==
  ASSUME InsightInv, ConfigsKept', JobsKept', JobsGoOn, NEW r \in InsightRuns, NEW run \in InsightRun,
         SetInsightRun(r, run), WaitsForOwn(run, jobs')
  PROVE  InsightInv'
<1>1. insightRuns' \in [InsightRuns -> InsightRun] /\ insightRuns'[r] = run
  BY InsightTypes DEF SetInsightRun
<1>2. \A s \in InsightRuns \ {r} : insightRuns'[s] = insightRuns[s]
  BY InsightTypes DEF SetInsightRun
<1>3. \A s \in InsightRuns : WaitsForOwn(insightRuns'[s], jobs')
  BY <1>1, <1>2, InsightTypes DEF WaitsForOwn, JobsGoOn
<1> QED
  BY <1>1, <1>3 DEF InsightInv

LEMMA ServerGoesOn ==
  ASSUME InsightInv, ConfigsKept', JobsKept', JobsGoOn, UNCHANGED insightRuns
  PROVE  InsightInv'
BY InsightTypes DEF InsightInv, WaitsForOwn, JobsGoOn

LEMMA SameConfigs ==
  ASSUME InsightInv, UNCHANGED configs
  PROVE  ConfigsKept' /\ \A c : Saved(c)' = Saved(c)
BY InsightTypes DEF ConfigsKept, Saved

LEMMA SameJobs ==
  ASSUME InsightInv, UNCHANGED jobs, \A c \in Configs : Saved(c) => Saved(c)'
  PROVE  JobsKept' /\ JobsGoOn
BY InsightTypes DEF JobsKept, JobsGoOn, JobRecord, Saved

\* A run that goes on without a change on the server.
LEMMA OnlyRunGoesOn ==
  ASSUME InsightInv, UNCHANGED <<configs, jobs>>, NEW r \in InsightRuns, NEW run \in InsightRun, SetInsightRun(r, run),
         WaitsForOwn(run, jobs)
  PROVE  InsightInv'
<1>1. ConfigsKept' /\ JobsKept' /\ JobsGoOn
  BY SameConfigs, SameJobs
<1>2. WaitsForOwn(run, jobs')
  BY DEF WaitsForOwn
<1> QED
  BY <1>1, <1>2, InsightGoesOn

LEMMA EndedInsight ==
  ASSUME InsightInv, NEW r \in InsightRuns, NEW pc \in InsightSteps \ {"wait"}
  PROVE  /\ EndInsight(r, pc) \in InsightRun /\ EndInsight(r, pc).pc = pc /\ EndInsight(r, pc).job = insightRuns[r].job
         /\ EndInsight(r, pc).config = insightRuns[r].config /\ EndInsight(r, pc).waited = insightRuns[r].waited
BY InsightTypes DEF EndInsight, InsightRun

LEMMA JobIsQueued ==
  ASSUME InsightInv, NEW c, Saved(c), NEW j \in Jobs, jobs[j] = NoJob,
         jobs' = [jobs EXCEPT ![j] = Queued(c)], UNCHANGED configs
  PROVE  /\ ConfigsKept' /\ JobsKept' /\ JobsGoOn
         /\ jobs'[j] # NoJob /\ jobs'[j].config = c /\ c \in Configs
<1>1. c \in Configs /\ \A d : Saved(d)' = Saved(d)
  BY SameConfigs DEF Saved
<1>2. Queued(c) \in JobRecord /\ Queued(c).status = "queued" /\ Queued(c).config = c /\ Queued(c) # NoJob
  BY <1>1, NewInsights DEF Queued, JobRecord
<1> HIDE DEF NoJob
<1>3. jobs'[j] = Queued(c) /\ jobs' \in [Jobs -> JobRecord] /\ \A k \in Jobs \ {j} : jobs'[k] = jobs[k]
  BY <1>2, InsightTypes
<1>4. JobsKept'
  BY <1>1, <1>2, <1>3, InsightTypes DEF JobsKept
<1>5. JobsGoOn
  BY <1>3 DEF JobsGoOn
<1> QED
  BY <1>1, <1>2, <1>3, <1>4, <1>5, SameConfigs

LEMMA StartJobKeeps ==
  ASSUME InsightInv, NEW r \in InsightRuns, NEW c, NEW wait, StartJob(r, c, wait)
  PROVE  InsightInv' /\ insightRuns'[r].pc \in {"wait", "started"}
<1>1. PICK j \in Jobs :
        /\ jobs[j] = NoJob
        /\ jobs' = [jobs EXCEPT ![j] = Queued(c)]
        /\ SetInsightRun(r, [insightRuns[r] EXCEPT !.pc = IF wait THEN "wait" ELSE "started", !.config = c, !.job = j])
  BY DEF StartJob
<1>2. Saved(c) /\ UNCHANGED configs
  BY DEF StartJob
<1>3. /\ ConfigsKept' /\ JobsKept' /\ JobsGoOn
      /\ jobs'[j] # NoJob /\ jobs'[j].config = c /\ c \in Configs
  BY <1>1, <1>2, JobIsQueued
<1> DEFINE pc  == IF wait THEN "wait" ELSE "started"
           run == [insightRuns[r] EXCEPT !.pc = pc, !.config = c, !.job = j]
<1>4. SetInsightRun(r, run)
  BY <1>1
<1>5. pc \in {"wait", "started"}
  OBVIOUS
<1> HIDE DEF pc
<1>6. run \in InsightRun /\ run.pc = pc /\ run.config = c /\ run.job = j
  BY <1>3, <1>5, InsightTypes DEF InsightRun, InsightSteps
<1> HIDE DEF run
<1>7. WaitsForOwn(run, jobs')
  BY <1>3, <1>6 DEF WaitsForOwn
<1>8. insightRuns'[r] = run
  BY <1>4, InsightTypes DEF SetInsightRun
<1> QED
  BY <1>3, <1>4, <1>5, <1>6, <1>7, <1>8, InsightGoesOn

\* What a file that is not refused makes of a configuration is a configuration.
LEMMA MergedIsSaved ==
  ASSUME NEW old, NEW f, ~FileRefused(f)
  PROVE  /\ MergedConfig(old, f).name # NoWords /\ MergedConfig(old, f).analysis # NoWords
         /\ MergedConfig(old, f) \notin {NoConfig, DeletedConfig}
<1> HIDE DEF NoWords
<1>1. f.name # NoWords /\ f.analysis # NoWords
  BY Zenon DEF FileRefused
<1>2. MergedConfig(old, f).name = f.name /\ MergedConfig(old, f).analysis = f.analysis
  BY DEF MergedConfig
<1> QED
  BY <1>1, <1>2, NewInsights

LEMMA ConfigIsMerged ==
  ASSUME InsightInv, NEW c \in Configs, NEW old, NEW f, ~FileRefused(f),
         configs' = [configs EXCEPT ![c] = MergedConfig(old, f)]
  PROVE  ConfigsKept' /\ \A d \in Configs : Saved(d) => Saved(d)'
<1> DEFINE config == MergedConfig(old, f)
<1>1. config.name # NoWords /\ config.analysis # NoWords /\ config \notin {NoConfig, DeletedConfig}
  BY MergedIsSaved
<1> HIDE DEF config, NoWords, NoConfig, DeletedConfig
<1>2. configs'[c] = config /\ (\A d \in Configs \ {c} : configs'[d] = configs[d]) /\ configs' = [d \in Configs |-> configs'[d]]
  BY InsightTypes DEF config, ConfigsKept
<1>3. Saved(c)' /\ \A d \in Configs \ {c} : Saved(d)' = Saved(d)
  BY <1>1, <1>2 DEF Saved
<1>4. ConfigsKept'
  BY <1>1, <1>2, <1>3, InsightTypes DEF ConfigsKept
<1> QED
  BY <1>3, <1>4

LEMMA SaveConfigKeeps ==
  ASSUME InsightInv, NEW r \in InsightRuns, NEW in \in InsightInputs, SaveConfig(r, in)
  PROVE  InsightInv' /\ (insightRuns'[r].pc = "saved" \/ UNCHANGED insightRuns)
<1>1. PICK c \in Configs :
        /\ configs' = [configs EXCEPT ![c] = MergedConfig(NoConfig, in.file)]
        /\ \/ SetInsightRun(r, [EndInsight(r, "saved") EXCEPT !.config = c, !.wait = in.wait, !.file = in.file])
           \/ UNCHANGED insightRuns
  BY DEF SaveConfig
<1>2. ~FileRefused(in.file) /\ UNCHANGED jobs
  BY DEF SaveConfig
<1>3. ConfigsKept' /\ \A d \in Configs : Saved(d) => Saved(d)'
  BY <1>1, <1>2, ConfigIsMerged
<1>4. JobsKept' /\ JobsGoOn
  BY <1>2, <1>3, SameJobs
<1> DEFINE run == [EndInsight(r, "saved") EXCEPT !.config = c, !.wait = in.wait, !.file = in.file]
<1>5. CASE SetInsightRun(r, run)
  <2>1. EndInsight(r, "saved") \in InsightRun /\ EndInsight(r, "saved").pc = "saved"
    BY EndedInsight DEF InsightSteps
  <2>2. run \in InsightRun /\ run.pc = "saved"
    BY <2>1 DEF InsightRun, InsightFiles
  <2> HIDE DEF run
  <2>3. WaitsForOwn(run, jobs') /\ insightRuns'[r] = run
    BY <1>5, <2>2, InsightTypes DEF WaitsForOwn, SetInsightRun
  <2> QED
    BY <1>3, <1>4, <1>5, <2>2, <2>3, InsightGoesOn
<1>6. CASE UNCHANGED insightRuns
  BY <1>3, <1>4, <1>6, ServerGoesOn
<1> QED
  BY <1>1, <1>5, <1>6

LEMMA UpdateConfigKeeps ==
  ASSUME InsightInv, NEW r \in InsightRuns, NEW in \in InsightInputs, UpdateConfig(r, in)
  PROVE  /\ InsightInv' /\ insightRuns'[r].pc = "updated"
         /\ insightRuns'[r].config = in.config /\ insightRuns'[r].file = in.file
<1>1. /\ ~FileRefused(in.file) /\ Saved(in.config) /\ UNCHANGED jobs
      /\ configs' = [configs EXCEPT ![in.config] = MergedConfig(configs[in.config], in.file)]
  BY InsightTypes DEF UpdateConfig, Saved
<1>2. ConfigsKept' /\ \A d \in Configs : Saved(d) => Saved(d)'
  BY <1>1, ConfigIsMerged DEF Saved
<1>3. JobsKept' /\ JobsGoOn
  BY <1>1, <1>2, SameJobs
<1> DEFINE run == [EndInsight(r, "updated") EXCEPT !.config = in.config, !.file = in.file]
<1>4. EndInsight(r, "updated") \in InsightRun /\ EndInsight(r, "updated").pc = "updated"
  BY EndedInsight DEF InsightSteps
<1>5. run \in InsightRun /\ run.pc = "updated" /\ run.config = in.config /\ run.file = in.file
  BY <1>1, <1>4 DEF InsightRun, InsightFiles, Saved
<1>6. SetInsightRun(r, run)
  BY DEF UpdateConfig
<1> HIDE DEF run
<1>7. WaitsForOwn(run, jobs') /\ insightRuns'[r] = run
  BY <1>5, <1>6, InsightTypes DEF WaitsForOwn, SetInsightRun
<1> QED
  BY <1>2, <1>3, <1>5, <1>6, <1>7, InsightGoesOn

LEMMA DeleteConfigKeeps ==
  ASSUME InsightInv, NEW r \in InsightRuns, NEW in \in InsightInputs, DeleteConfig(r, in)
  PROVE  InsightInv' /\ insightRuns'[r].pc = "deleted"
<1>1. /\ Saved(in.config) /\ in.config \in Configs /\ SetInsightRun(r, EndInsight(r, "deleted"))
      /\ configs' = [configs EXCEPT ![in.config] = DeletedConfig]
      /\ jobs' = [j \in Jobs |-> IF jobs[j].config = in.config THEN [jobs[j] EXCEPT !.status = "deleted"] ELSE jobs[j]]
  BY DEF DeleteConfig, Saved
<1> HIDE DEF NoWords, NoConfig, DeletedConfig, NoJob
<1>2. /\ configs'[in.config] = DeletedConfig /\ (\A d \in Configs \ {in.config} : configs'[d] = configs[d])
      /\ configs' = [d \in Configs |-> configs'[d]]
  BY <1>1, InsightTypes DEF ConfigsKept
<1>3. ~Saved(in.config)' /\ \A d : d # in.config => Saved(d)' = Saved(d)
  BY <1>2 DEF Saved
<1>4. ConfigsKept'
  BY <1>2, <1>3, InsightTypes, NewInsights DEF ConfigsKept
<1>5. \A j \in Jobs : \/ jobs'[j] = jobs[j] /\ jobs[j].config # in.config
                      \/ /\ jobs'[j] \in JobRecord /\ jobs'[j].status = "deleted"
                         /\ jobs'[j].config = jobs[j].config
  BY <1>1, InsightTypes DEF JobRecord
<1>6. jobs' \in [Jobs -> JobRecord]
  BY <1>1, <1>5, InsightTypes
<1>7. JobsKept'
  BY <1>3, <1>5, <1>6, InsightTypes DEF JobsKept
<1>8. JobsGoOn
  BY <1>5, NewInsights DEF JobsGoOn
<1>9. EndInsight(r, "deleted") \in InsightRun /\ EndInsight(r, "deleted").pc = "deleted"
  BY EndedInsight DEF InsightSteps
<1>10. WaitsForOwn(EndInsight(r, "deleted"), jobs') /\ insightRuns'[r] = EndInsight(r, "deleted")
  <2> DEFINE run == EndInsight(r, "deleted")
  <2>1. run.pc = "deleted" /\ SetInsightRun(r, run)
    BY <1>1, <1>9
  <2> HIDE DEF run
  <2> QED
    BY <2>1, InsightTypes DEF WaitsForOwn, SetInsightRun, run
<1> QED
  BY <1>1, <1>4, <1>7, <1>8, <1>9, <1>10, InsightGoesOn

LEMMA EndRunKeeps ==
  ASSUME InsightInv, NEW r \in InsightRuns, NEW pc \in InsightSteps \ {"wait"},
         SetInsightRun(r, EndInsight(r, pc)), UNCHANGED <<configs, jobs>>
  PROVE  InsightInv' /\ insightRuns'[r] = EndInsight(r, pc)
<1> DEFINE run == EndInsight(r, pc)
<1>1. run \in InsightRun /\ run.pc = pc
  BY EndedInsight
<1>2. SetInsightRun(r, run)
  OBVIOUS
<1> HIDE DEF run
<1>3. WaitsForOwn(run, jobs)
  BY <1>1 DEF WaitsForOwn
<1>4. insightRuns'[r] = run
  BY <1>2, InsightTypes DEF SetInsightRun
<1>5. InsightInv'
  BY <1>1, <1>2, <1>3, OnlyRunGoesOn
<1> QED
  BY <1>4, <1>5 DEF run

\* What PollJob says, it has read of the run's own job.
LEMMA PollJobKeeps ==
  ASSUME InsightInv, NEW r \in InsightRuns, PollJob(r)
  PROVE  /\ InsightInv' /\ UNCHANGED jobs
         /\ LET run == insightRuns'[r]
            IN  /\ run.pc \in {"wait", "completed", "failed", "timed out"}
                /\ jobs[run.job].config = run.config
                /\ run.pc = "completed" => jobs[run.job].status = "success"
                /\ run.pc = "failed" => jobs[run.job].status = "error"
                /\ run.pc = "timed out" => run.waited = WaitIntervals /\ jobs[run.job].status = "queued"
<1> DEFINE run == insightRuns[r]
           job == jobs[run.job]
           end == WaitEnds(job.status)
<1>1. /\ run.pc = "wait" /\ job.status # "deleted" /\ UNCHANGED <<configs, jobs>>
      /\ \/ end # "wait" /\ SetInsightRun(r, EndInsight(r, end))
         \/ end = "wait" /\ run.waited < WaitIntervals /\ SetInsightRun(r, [run EXCEPT !.waited = @ + 1])
         \/ end = "wait" /\ run.waited = WaitIntervals /\ SetInsightRun(r, EndInsight(r, "timed out"))
  BY DEF PollJob
<1>2. run \in InsightRun /\ run.job \in Jobs /\ job # NoJob /\ job.config = run.config /\ job \in JobRecord
  BY <1>1, InsightTypes DEF WaitsForOwn
<1>3. job.status \in {"queued", "success", "error"}
  BY <1>1, <1>2, InsightTypes DEF JobsKept, JobRecord
<1>4. /\ end \in {"wait", "completed", "failed"}
      /\ end = "completed" => job.status = "success"
      /\ end = "failed" => job.status = "error"
      /\ end = "wait" => job.status = "queued"
  BY <1>3 DEF WaitEnds
<1> HIDE DEF end
<1>5. CASE end # "wait" /\ SetInsightRun(r, EndInsight(r, end))
  <2>1. end \in InsightSteps \ {"wait"}
    BY <1>4, <1>5 DEF InsightSteps
  <2>2. InsightInv' /\ insightRuns'[r] = EndInsight(r, end)
    BY <1>1, <1>5, <2>1, EndRunKeeps
  <2>3. EndInsight(r, end).pc = end /\ EndInsight(r, end).job = run.job /\ EndInsight(r, end).config = run.config
    BY <2>1, EndedInsight
  <2> QED
    BY <1>1, <1>2, <1>4, <1>5, <2>2, <2>3
<1>6. CASE end = "wait" /\ SetInsightRun(r, [run EXCEPT !.waited = @ + 1])
  <2> DEFINE next == [run EXCEPT !.waited = @ + 1]
  <2>1. run.waited \in Nat /\ run.waited + 1 \in Nat
    <3>1. run.waited \in Nat
      <4> HIDE DEF run
      <4> QED
        BY <1>2 DEF InsightRun
    <3>2. \A n \in Nat : n + 1 \in Nat
      OBVIOUS
    <3> QED
      BY ONLY <3>1, <3>2
  <2>2. next = [run EXCEPT !.waited = run.waited + 1]
    OBVIOUS
  <2>3. next \in InsightRun /\ next.pc = run.pc /\ next.job = run.job /\ next.config = run.config
    <3> HIDE DEF run, next
    <3> QED
      BY <1>2, <2>1, <2>2 DEF InsightRun
  <2>4. SetInsightRun(r, next)
    BY <1>6
  <2> HIDE DEF next
  <2>5. WaitsForOwn(next, jobs)
    BY <1>2, <2>3 DEF WaitsForOwn
  <2>6. InsightInv' /\ insightRuns'[r] = next
    BY <1>1, <2>3, <2>4, <2>5, OnlyRunGoesOn, InsightTypes DEF SetInsightRun
  <2> QED
    BY <1>1, <1>2, <2>3, <2>6
<1>7. CASE end = "wait" /\ run.waited = WaitIntervals /\ SetInsightRun(r, EndInsight(r, "timed out"))
  <2>1. "timed out" \in InsightSteps \ {"wait"}
    BY DEF InsightSteps
  <2>2. InsightInv' /\ insightRuns'[r] = EndInsight(r, "timed out")
    BY <1>1, <1>7, <2>1, EndRunKeeps
  <2>3. LET out == EndInsight(r, "timed out")
        IN  out.pc = "timed out" /\ out.job = run.job /\ out.config = run.config /\ out.waited = run.waited
    BY <2>1, EndedInsight
  <2> QED
    BY <1>1, <1>2, <1>4, <1>7, <2>2, <2>3
<1> QED
  BY <1>1, <1>5, <1>6, <1>7

LEMMA JobEndsKeeps ==
  ASSUME InsightInv, JobEnds
  PROVE  InsightInv'
<1>1. PICK j \in Jobs, status \in {"success", "error"} :
        jobs[j].status = "queued" /\ jobs' = [jobs EXCEPT ![j].status = status]
  BY DEF JobEnds
<1>2. UNCHANGED <<configs, insightRuns>>
  BY DEF JobEnds
<1>3. jobs[j] \in JobRecord /\ jobs[j] # NoJob
  BY <1>1, InsightTypes, NewInsights
<1>4. /\ jobs'[j] \in JobRecord /\ jobs'[j].status = status /\ jobs'[j].config = jobs[j].config
      /\ jobs' \in [Jobs -> JobRecord]
      /\ \A k \in Jobs \ {j} : jobs'[k] = jobs[k]
  BY <1>1, <1>3, InsightTypes DEF JobRecord
<1>5. JobsGoOn
  BY <1>1, <1>4, NewInsights DEF JobsGoOn
<1>6. ConfigsKept' /\ \A c : Saved(c)' = Saved(c)
  BY <1>2, SameConfigs
<1>7. Saved(jobs[j].config)
  BY <1>1, InsightTypes DEF JobsKept
<1>8. JobsKept'
  BY <1>4, <1>6, <1>7, InsightTypes DEF JobsKept
<1> QED
  BY <1>2, <1>5, <1>6, <1>8, ServerGoesOn

LEMMA ScheduledJobKeeps ==
  ASSUME InsightInv, ScheduledJob
  PROVE  InsightInv'
<1>1. PICK c \in Configs, j \in Jobs :
        /\ configs[c].schedule # NoWords /\ jobs[j] = NoJob
        /\ jobs' = [jobs EXCEPT ![j] = Queued(c)]
  BY DEF ScheduledJob
<1>2. UNCHANGED <<configs, insightRuns>>
  BY DEF ScheduledJob
<1>3. Saved(c)
  BY <1>1, InsightTypes DEF ConfigsKept
<1>4. ConfigsKept' /\ JobsKept' /\ JobsGoOn
  BY <1>1, <1>2, <1>3, JobIsQueued
<1> QED
  BY <1>2, <1>4, ServerGoesOn

\* The part of InsightsTellTheTruth that is about one run.
RunTellsTheTruth(r) ==
  LET run == insightRuns'[r]
  IN  run.pc # insightRuns[r].pc =>
        /\ run.pc \in {"completed", "failed", "timed out"} => jobs[run.job].config = run.config
        /\ run.pc = "completed" => jobs[run.job].status = "success"
        /\ run.pc = "failed" => jobs[run.job].status = "error"
        /\ run.pc = "timed out" => run.waited = WaitIntervals /\ jobs[run.job].status = "queued"
        /\ run.pc = "updated" => \A c \in Configs :
             /\ c # run.config => configs'[c] = configs[c]
             /\ ~Given(run.file.schedule) => configs'[c].schedule = configs[c].schedule
             /\ ~Given(run.file.description) => configs'[c].description = configs[c].description

InsightStep == InsightInv' /\ \A r \in InsightRuns : RunTellsTheTruth(r)

\* A step of one run changes no other.
LEMMA OneRunTells ==
  ASSUME InsightInv, InsightInv', NEW r \in InsightRuns, NEW run, SetInsightRun(r, run), RunTellsTheTruth(r)
  PROVE  InsightStep
BY InsightTypes DEF InsightStep, RunTellsTheTruth, SetInsightRun

\* A step that ends no wait and updates nothing.
LEMMA QuietStepTells ==
  ASSUME NEW r, insightRuns'[r].pc \notin {"completed", "failed", "timed out", "updated"}
  PROVE  RunTellsTheTruth(r)
BY DEF RunTellsTheTruth

LEMMA UpdateConfigTells ==
  ASSUME InsightInv, NEW r \in InsightRuns, NEW in \in InsightInputs, UpdateConfig(r, in)
  PROVE  InsightStep
<1>1. /\ InsightInv' /\ insightRuns'[r].pc = "updated"
      /\ insightRuns'[r].config = in.config /\ insightRuns'[r].file = in.file
  BY UpdateConfigKeeps
<1> DEFINE config == MergedConfig(configs[in.config], in.file)
<1>2. /\ configs' = [configs EXCEPT ![in.config] = config]
      /\ SetInsightRun(r, [EndInsight(r, "updated") EXCEPT !.config = in.config, !.file = in.file])
      /\ in.config \in Configs
  BY InsightTypes DEF UpdateConfig, Saved
<1>3. /\ ~Given(in.file.schedule) => in.file.schedule = "unset"
      /\ ~Given(in.file.schedule) => config.schedule = configs[in.config].schedule
      /\ ~Given(in.file.description) => config.description = configs[in.config].description
  <2> HIDE DEF NoWords
  <2> QED
    BY DEF MergedConfig, Given
<1> HIDE DEF config
<1>4. configs'[in.config] = config /\ \A c \in Configs \ {in.config} : configs'[c] = configs[c]
  BY <1>2, InsightTypes
<1>5. RunTellsTheTruth(r)
  BY <1>1, <1>3, <1>4 DEF RunTellsTheTruth
<1> QED
  BY <1>1, <1>2, <1>5, OneRunTells

LEMMA CommandTells ==
  ASSUME InsightInv, NEW r \in InsightRuns, NEW in \in InsightInputs,
         \/ RefuseFile(r, in) \/ SaveConfig(r, in) \/ RunConfig(r, in) \/ UpdateConfig(r, in)
         \/ DeleteConfig(r, in) \/ AbortDelete(r, in)
  PROVE  InsightStep
<1>1. ASSUME NEW pc \in {"refused", "aborted"}, SetInsightRun(r, EndInsight(r, pc)), UNCHANGED <<configs, jobs>>
      PROVE  InsightStep
  <2>1. pc \in InsightSteps \ {"wait"}
    BY DEF InsightSteps
  <2>2. InsightInv' /\ insightRuns'[r] = EndInsight(r, pc) /\ EndInsight(r, pc).pc = pc
    BY <1>1, <2>1, EndRunKeeps, EndedInsight
  <2> QED
    BY <1>1, <2>2, QuietStepTells, OneRunTells
<1>2. CASE RefuseFile(r, in)
  BY <1>1, <1>2 DEF RefuseFile
<1>3. CASE AbortDelete(r, in)
  BY <1>1, <1>3 DEF AbortDelete
<1>4. CASE SaveConfig(r, in)
  <2>1. InsightInv' /\ (insightRuns'[r].pc = "saved" \/ UNCHANGED insightRuns)
    BY <1>4, SaveConfigKeeps
  <2>2. (\E run : SetInsightRun(r, run)) \/ UNCHANGED insightRuns
    BY <1>4 DEF SaveConfig
  <2>3. CASE UNCHANGED insightRuns
    BY <2>1, <2>3 DEF InsightStep, RunTellsTheTruth
  <2>4. CASE insightRuns'[r].pc = "saved" /\ \E run : SetInsightRun(r, run)
    BY <2>1, <2>4, QuietStepTells, OneRunTells
  <2> QED
    BY <2>1, <2>2, <2>3, <2>4
<1>5. CASE RunConfig(r, in)
  <2>1. InsightInv' /\ insightRuns'[r].pc \in {"wait", "started"} /\ \E run : SetInsightRun(r, run)
    BY <1>5, StartJobKeeps DEF RunConfig, StartJob
  <2> QED
    BY <2>1, QuietStepTells, OneRunTells
<1>6. CASE UpdateConfig(r, in)
  BY <1>6, UpdateConfigTells
<1>7. CASE DeleteConfig(r, in)
  <2>1. InsightInv' /\ insightRuns'[r].pc = "deleted" /\ \E run : SetInsightRun(r, run)
    BY <1>7, DeleteConfigKeeps DEF DeleteConfig
  <2> QED
    BY <2>1, QuietStepTells, OneRunTells
<1> QED
  BY <1>2, <1>3, <1>4, <1>5, <1>6, <1>7

LEMMA WaiterTells ==
  ASSUME InsightInv, NEW r \in InsightRuns, InsightFails(r) \/ CreateStarts(r) \/ PollJob(r)
  PROVE  InsightStep
<1>1. CASE InsightFails(r)
  <2>1. "stopped" \in InsightSteps \ {"wait"} /\ SetInsightRun(r, EndInsight(r, "stopped")) /\ UNCHANGED <<configs, jobs>>
    BY <1>1 DEF InsightFails, InsightSteps
  <2>2. InsightInv' /\ insightRuns'[r] = EndInsight(r, "stopped") /\ EndInsight(r, "stopped").pc = "stopped"
    BY <2>1, EndRunKeeps, EndedInsight
  <2> QED
    BY <2>1, <2>2, QuietStepTells, OneRunTells
<1>2. CASE CreateStarts(r)
  <2>1. InsightInv' /\ insightRuns'[r].pc \in {"wait", "started"} /\ \E run : SetInsightRun(r, run)
    BY <1>2, StartJobKeeps DEF CreateStarts, StartJob
  <2> QED
    BY <2>1, QuietStepTells, OneRunTells
<1>3. CASE PollJob(r)
  <2>1. InsightInv' /\ RunTellsTheTruth(r)
    BY <1>3, PollJobKeeps DEF RunTellsTheTruth
  <2>2. \E run : SetInsightRun(r, run)
    BY <1>3 DEF PollJob
  <2> QED
    BY <2>1, <2>2, OneRunTells
<1> QED
  BY <1>1, <1>2, <1>3

LEMMA InsightStepKeeps == InsightInv /\ [InsightNext]_insightVars => InsightStep
<1> SUFFICES ASSUME InsightInv, [InsightNext]_insightVars
             PROVE  InsightStep
  OBVIOUS
<1>1. ASSUME InsightInv', UNCHANGED insightRuns
      PROVE  InsightStep
  BY <1>1 DEF InsightStep, RunTellsTheTruth
<1>2. CASE UNCHANGED insightVars
  <2>1. UNCHANGED <<configs, jobs, insightRuns>>
    BY <1>2 DEF insightVars
  <2>2. InsightInv'
    BY <2>1, SameConfigs, SameJobs, ServerGoesOn
  <2> QED
    BY <1>1, <2>1, <2>2
<1>3. ASSUME NEW r \in InsightRuns, NEW in \in InsightInputs,
             \/ RefuseFile(r, in) \/ SaveConfig(r, in) \/ RunConfig(r, in) \/ UpdateConfig(r, in)
             \/ DeleteConfig(r, in) \/ AbortDelete(r, in)
      PROVE  InsightStep
  BY <1>3, CommandTells
<1>4. ASSUME NEW r \in InsightRuns, InsightFails(r) \/ CreateStarts(r) \/ PollJob(r)
      PROVE  InsightStep
  BY <1>4, WaiterTells
<1>5. CASE JobEnds
  BY <1>1, <1>5, JobEndsKeeps DEF JobEnds
<1>6. CASE ScheduledJob
  BY <1>1, <1>6, ScheduledJobKeeps DEF ScheduledJob
<1> QED
  BY <1>2, <1>3, <1>4, <1>5, <1>6 DEF InsightNext

LEMMA InsightInitKept == InsightInit => InsightInv
<1> SUFFICES ASSUME InsightInit
             PROVE  InsightInv
  OBVIOUS
<1>1. /\ \A c \in Configs : configs[c] = NoConfig
      /\ configs = [c \in Configs |-> configs[c]]
      /\ \A j \in Jobs : jobs[j] = NoJob
      /\ jobs = [j \in Jobs |-> jobs[j]]
      /\ \A r \in InsightRuns : insightRuns[r] = NoInsightRun
      /\ insightRuns = [r \in InsightRuns |-> insightRuns[r]]
  BY DEF InsightInit
<1> HIDE DEF NoConfig, NoJob, NoInsightRun, NoWords
<1>2. ConfigsKept
  BY <1>1, NewInsights DEF ConfigsKept, Saved
<1>3. JobsKept
  BY <1>1, NewInsights DEF JobsKept
<1>4. insightRuns \in [InsightRuns -> InsightRun] /\ \A r \in InsightRuns : WaitsForOwn(insightRuns[r], jobs)
  BY <1>1, NewInsights DEF WaitsForOwn
<1> QED
  BY <1>2, <1>3, <1>4 DEF InsightInv

LEMMA InsightInvariant == InsightSpec => []InsightInv
<1>1. InsightInv /\ [InsightNext]_insightVars => InsightInv'
  BY InsightStepKeeps DEF InsightStep
<1> QED
  BY <1>1, InsightInitKept, PTL DEF InsightSpec

\* A configuration that is saved is complete, and every job that was not deleted
\* is of one that is saved, whatever else the commands, the schedules and the
\* server do: a deletion takes the jobs of its configuration, and only those.
THEOREM JobsAreOfConfigs == InsightSpec => []InsightTypeOK
<1>1. InsightInv => InsightTypeOK
  BY DEF InsightInv, ConfigsKept, JobsKept, InsightTypeOK
<1> QED
  BY <1>1, InsightInvariant, PTL

\* What a run that waited says is true of its own job, whoever else starts and
\* ends jobs meanwhile, and an update changes only what its file names.
THEOREM InsightsAreTold == InsightSpec => InsightsTellTheTruth
<1> DEFINE Tells == \A r \in InsightRuns : RunTellsTheTruth(r)
<1>1. InsightInv /\ [InsightNext]_insightVars => Tells
  BY InsightStepKeeps DEF InsightStep
<1>2. Tells => [
        \A r \in InsightRuns :
          LET run == insightRuns'[r]
          IN  run.pc # insightRuns[r].pc =>
                /\ run.pc \in {"completed", "failed", "timed out"} => jobs[run.job].config = run.config
                /\ run.pc = "completed" => jobs[run.job].status = "success"
                /\ run.pc = "failed" => jobs[run.job].status = "error"
                /\ run.pc = "timed out" => run.waited = WaitIntervals /\ jobs[run.job].status = "queued"
                /\ run.pc = "updated" => \A c \in Configs :
                     /\ c # run.config => configs'[c] = configs[c]
                     /\ ~Given(run.file.schedule) => configs'[c].schedule = configs[c].schedule
                     /\ ~Given(run.file.description) => configs'[c].description = configs[c].description
        ]_insightVars
  BY DEF RunTellsTheTruth
<1> HIDE DEF Tells
<1> QED
  BY <1>1, <1>2, InsightInvariant, PTL DEF InsightSpec, InsightsTellTheTruth

-----------------------------------------------------------------------------
(* `traces setup': what a run writes belongs together because its key and  *)
(* endpoint do from the moment they are resolved; and in a project, where  *)
(* no file is ever half written, what it has read holds the user's.        *)

Texts == STRING \cup {NoValue}

AgentFile == [state : {"ok", "absent", "empty", "torn"}, key : Texts, endpoint : Texts, mine : BOOLEAN]

SetupSteps == {"start", "read", "merge", "write", "install", "done", "failed"}

AgentLists == {<<"claude">>, <<"codex">>, <<"claude", "codex">>}

TraceRun ==
  [pc : SetupSteps, todo : AgentLists \cup {<<>>}, key : Texts, endpoint : Texts, doc : AgentFile, wrote : SUBSET Agents]

\* A run at work has an agent to set up, a key with its endpoint, and in a project
\* what the user had.
GoesWell(run) ==
  run.pc \in {"read", "merge", "write", "install"} =>
    /\ run.todo # <<>>
    /\ StoredEndpoint(run.endpoint) \in EndpointsOf(run.key)
    /\ place.project => run.pc # "write"
    /\ run.pc = "merge" /\ place.project /\ place.mine => run.doc.mine

TraceInv ==
  /\ place \in [project : BOOLEAN, mine : BOOLEAN]
  /\ agents \in [Agents -> AgentFile]
  /\ traces \in [SetupRuns -> TraceRun]
  /\ \A r \in SetupRuns : GoesWell(traces[r])
  /\ KeyGoesToItsEndpoint

LEMMA TraceTypes ==
  ASSUME TraceInv, NEW r \in SetupRuns
  PROVE  /\ traces[r] \in TraceRun /\ GoesWell(traces[r])
         /\ traces[r].pc \in {"read", "merge", "write", "install"} =>
              /\ traces[r].todo \in AgentLists /\ Agent(r) \in Agents
              /\ Tail(traces[r].todo) \in AgentLists \cup {<<>>}
<1>1. traces[r] \in TraceRun /\ GoesWell(traces[r])
  BY DEF TraceInv
<1>2. ASSUME traces[r].todo \in AgentLists
      PROVE  Head(traces[r].todo) \in Agents /\ Tail(traces[r].todo) \in AgentLists \cup {<<>>}
  <2>1. CASE traces[r].todo = <<"claude">>
    BY <2>1 DEF Agents
  <2>2. CASE traces[r].todo = <<"codex">>
    BY <2>2 DEF Agents
  <2>3. CASE traces[r].todo = <<"claude", "codex">>
    <3>1. Head(traces[r].todo) = "claude" /\ Tail(traces[r].todo) = <<"codex">>
      BY <2>3
    <3> QED
      BY <3>1 DEF Agents, AgentLists
  <2> QED
    BY <1>2, <2>1, <2>2, <2>3 DEF AgentLists
<1>3. traces[r].pc \in {"read", "merge", "write", "install"} => traces[r].todo \in AgentLists
  BY <1>1 DEF TraceRun, GoesWell
<1> QED
  BY <1>1, <1>2, <1>3 DEF Agent

LEMMA NewSettings ==
  /\ NoJSON \in AgentFile /\ Truncated \in AgentFile /\ HalfWritten \in AgentFile
  /\ NoJSON.state = "absent" /\ Truncated.state = "empty" /\ HalfWritten.state = "torn"
  /\ NotRun \in TraceRun /\ NotRun.pc = "start"
<1> HIDE DEF NoValue
<1>1. NoValue \in Texts
  BY DEF Texts
<1>2. NoJSON \in AgentFile /\ NoJSON.state = "absent"
  BY <1>1 DEF NoJSON, AgentFile
<1>3. Truncated \in AgentFile /\ HalfWritten \in AgentFile /\ Truncated.state = "empty" /\ HalfWritten.state = "torn"
  BY <1>1 DEF NoJSON, Truncated, HalfWritten, AgentFile
<1>4. NotRun \in TraceRun /\ NotRun.pc = "start"
  <2> HIDE DEF NoJSON
  <2> QED
    BY <1>1, <1>2 DEF NotRun, TraceRun, SetupSteps
<1> QED
  BY <1>2, <1>3, <1>4

\* A run goes on, and the file of one agent is what it may be.
LEMMA SetupGoesOn ==
  ASSUME TraceInv, NEW r \in SetupRuns, NEW run \in TraceRun, traces' = [traces EXCEPT ![r] = run], GoesWell(run),
         UNCHANGED place, NEW a \in Agents, NEW file \in AgentFile, agents' = [agents EXCEPT ![a] = file],
         file.state = "ok" /\ file.key # NoValue => file.endpoint \in EndpointsOf(file.key),
         place.project /\ place.mine => file.state = "ok" /\ file.mine
  PROVE  TraceInv'
<1>1. agents' \in [Agents -> AgentFile] /\ agents'[a] = file /\ \A b \in Agents \ {a} : agents'[b] = agents[b]
  BY DEF TraceInv
<1>2. KeyGoesToItsEndpoint'
  BY <1>1 DEF TraceInv, KeyGoesToItsEndpoint, EndpointsOf
<1>3. traces' \in [SetupRuns -> TraceRun] /\ traces'[r] = run /\ \A x \in SetupRuns \ {r} : traces'[x] = traces[x]
  BY DEF TraceInv
<1>4. \A x \in SetupRuns : GoesWell(traces[x])'
  BY <1>3 DEF TraceInv, GoesWell, EndpointsOf
<1> QED
  BY <1>1, <1>2, <1>3, <1>4 DEF TraceInv

LEMMA OnlySetupGoesOn ==
  ASSUME TraceInv, NEW r \in SetupRuns, NEW run \in TraceRun, traces' = [traces EXCEPT ![r] = run], GoesWell(run),
         UNCHANGED <<agents, place>>
  PROVE  TraceInv'
<1>1. traces' \in [SetupRuns -> TraceRun] /\ traces'[r] = run /\ \A x \in SetupRuns \ {r} : traces'[x] = traces[x]
  BY DEF TraceInv
<1>2. \A x \in SetupRuns : GoesWell(traces[x])'
  BY <1>1 DEF TraceInv, GoesWell, EndpointsOf
<1>3. KeyGoesToItsEndpoint'
  BY DEF TraceInv, KeyGoesToItsEndpoint, EndpointsOf
<1> QED
  BY <1>1, <1>2, <1>3 DEF TraceInv

\* What NextAgent makes of a run that is at work.
LEMMA NextAgentGoesWell ==
  ASSUME TraceInv, NEW r \in SetupRuns, traces[r].pc \in {"read", "merge", "write", "install"},
         NEW wrote \in SUBSET Agents, NextAgent(r, wrote)
  PROVE  \E run \in TraceRun : GoesWell(run) /\ traces' = [traces EXCEPT ![r] = run]
<1> DEFINE old  == traces[r]
           last == [NotRun EXCEPT !.pc = IF wrote = {} THEN "failed" ELSE "done"]
           next == [old EXCEPT !.pc = "read", !.todo = Tail(old.todo), !.doc = NoJSON, !.wrote = wrote]
<1>1. /\ old \in TraceRun /\ GoesWell(old) /\ old.todo \in AgentLists /\ Tail(old.todo) \in AgentLists \cup {<<>>}
      /\ traces \in [SetupRuns -> TraceRun]
  BY TraceTypes DEF TraceInv
<1>2. CASE Tail(old.todo) = <<>>
  <2>1. traces' = [traces EXCEPT ![r] = last]
    BY <1>1, <1>2 DEF NextAgent
  <2>2. last \in TraceRun /\ last.pc \in {"failed", "done"}
    <3> HIDE DEF NotRun
    <3> QED
      BY NewSettings DEF TraceRun, SetupSteps
  <2>3. GoesWell(last)
    BY <2>2 DEF GoesWell
  <2> QED
    BY <2>1, <2>2, <2>3
<1>3. CASE Tail(old.todo) # <<>>
  <2>1. traces' = [traces EXCEPT ![r] = next]
    BY <1>1, <1>3 DEF NextAgent
  <2>2. /\ next \in TraceRun /\ next.pc = "read" /\ next.todo = Tail(old.todo)
        /\ next.key = old.key /\ next.endpoint = old.endpoint
    <3> HIDE DEF NoJSON, old
    <3> QED
      BY <1>1, NewSettings DEF TraceRun, SetupSteps
  <2>3. GoesWell(next)
    <3> HIDE DEF next
    <3> QED
      BY <1>1, <1>3, <2>2 DEF GoesWell
  <2> QED
    BY <2>1, <2>2, <2>3
<1> QED
  BY <1>2, <1>3

LEMMA ResolveKeeps ==
  ASSUME TraceInv, NEW r \in SetupRuns, NEW in \in SetupInputs, ResolveSetup(r, in)
  PROVE  TraceInv'
<1> DEFINE key      == SetupGiven(in.keyArg, in.keyFlag, in.key)
           endpoint == SetupGiven(in.urlArg, in.urlFlag, in.url)
           begun    == [pc |-> "read", todo |-> in.agents, key |-> key, endpoint |-> endpoint, doc |-> NoJSON, wrote |-> {}]
           refused  == [traces[r] EXCEPT !.pc = "failed"]
           declined == [NotRun EXCEPT !.pc = "failed"]
<1>1. UNCHANGED <<agents, place>> /\ traces \in [SetupRuns -> TraceRun] /\ traces[r] \in TraceRun
  BY DEF ResolveSetup, TraceInv
<1>2. \/ traces' = [traces EXCEPT ![r] = refused]
      \/ ~RefusesOptions(in) /\ traces' = [traces EXCEPT ![r] = begun]
      \/ traces' = [traces EXCEPT ![r] = declined]
  BY <1>1 DEF ResolveSetup
<1>3. refused \in TraceRun /\ refused.pc = "failed"
  BY <1>1 DEF TraceRun, SetupSteps
<1>4. declined \in TraceRun /\ declined.pc = "failed"
  <2> HIDE DEF NotRun
  <2> QED
    BY NewSettings DEF TraceRun, SetupSteps
<1>5. in \in SetupInput
  BY TracingAssumption
<1>6. key \in Texts /\ endpoint \in Texts /\ in.agents \in AgentLists
  BY <1>5 DEF SetupInput, SetupGiven, AgentLists, Texts
<1> HIDE DEF NoJSON
<1>7. begun \in TraceRun /\ begun.pc = "read" /\ begun.todo # <<>> /\ begun.key = key /\ begun.endpoint = endpoint
  <2> HIDE DEF key, endpoint
  <2>1. in.agents # <<>>
    BY <1>6 DEF AgentLists
  <2> QED
    BY <1>6, <2>1, NewSettings DEF TraceRun, SetupSteps
<1>8. ~RefusesOptions(in) => StoredEndpoint(endpoint) \in EndpointsOf(key)
  BY DEF EndpointsOf
<1> HIDE DEF begun, refused, declined, key, endpoint
<1>9. CASE traces' = [traces EXCEPT ![r] = refused]
  BY <1>1, <1>3, <1>9, OnlySetupGoesOn DEF GoesWell
<1>10. CASE ~RefusesOptions(in) /\ traces' = [traces EXCEPT ![r] = begun]
  <2>1. GoesWell(begun)
    BY <1>7, <1>8, <1>10 DEF GoesWell
  <2> QED
    BY <1>1, <1>7, <1>10, <2>1, OnlySetupGoesOn
<1>11. CASE traces' = [traces EXCEPT ![r] = declined]
  BY <1>1, <1>4, <1>11, OnlySetupGoesOn DEF GoesWell
<1> QED
  BY <1>2, <1>9, <1>10, <1>11

LEMMA ReadSettingsKeeps ==
  ASSUME TraceInv, NEW r \in SetupRuns, ReadSettings(r)
  PROVE  TraceInv'
<1> DEFINE doc == agents[Agent(r)]
           run == [traces[r] EXCEPT !.pc = "merge", !.doc = doc]
<1>1. /\ UNCHANGED <<agents, place>> /\ traces[r].pc = "read" /\ traces[r] \in TraceRun /\ GoesWell(traces[r])
      /\ traces \in [SetupRuns -> TraceRun] /\ Agent(r) \in Agents
  BY TraceTypes DEF ReadSettings, TraceInv
<1>2. doc \in AgentFile /\ (place.project /\ place.mine => doc.mine)
  BY <1>1 DEF TraceInv, KeyGoesToItsEndpoint
<1>3. CASE traces' = [traces EXCEPT ![r] = run]
  <2> HIDE DEF doc
  <2>1. /\ run \in TraceRun /\ run.pc = "merge" /\ run.doc = doc /\ run.todo = traces[r].todo
        /\ run.key = traces[r].key /\ run.endpoint = traces[r].endpoint
    BY <1>1, <1>2 DEF TraceRun, SetupSteps
  <2> HIDE DEF run
  <2>2. GoesWell(run)
    BY <1>1, <1>2, <2>1 DEF GoesWell
  <2> QED
    BY <1>1, <1>3, <2>1, <2>2, OnlySetupGoesOn
<1>4. CASE NextAgent(r, traces[r].wrote)
  <2>1. traces[r].wrote \in SUBSET Agents
    BY <1>1 DEF TraceRun
  <2>2. \E next \in TraceRun : GoesWell(next) /\ traces' = [traces EXCEPT ![r] = next]
    BY <1>1, <1>4, <2>1, NextAgentGoesWell
  <2> QED
    BY <1>1, <2>2, OnlySetupGoesOn
<1>5. traces' = [traces EXCEPT ![r] = run] \/ NextAgent(r, traces[r].wrote)
  BY <1>1 DEF ReadSettings
<1> QED
  BY <1>3, <1>4, <1>5

LEMMA WriteSettingsKeeps ==
  ASSUME TraceInv, NEW r \in SetupRuns, WriteSettings(r)
  PROVE  TraceInv'
<1> DEFINE run    == traces[r]
           merged == Merged(run.doc, run.key, run.endpoint)
           a      == Agent(r)
<1>1. /\ UNCHANGED place /\ run.pc \in {"merge", "write"} /\ run \in TraceRun /\ GoesWell(run)
      /\ traces \in [SetupRuns -> TraceRun] /\ a \in Agents /\ agents \in [Agents -> AgentFile]
  BY TraceTypes DEF WriteSettings, TraceInv
<1>2. place.project => run.pc = "merge"
  BY <1>1 DEF GoesWell
<1>3. /\ merged \in AgentFile /\ merged.state = "ok" /\ merged.key = run.key
      /\ merged.endpoint \in EndpointsOf(merged.key) /\ merged.mine = run.doc.mine
  <2>1. run.key \in Texts /\ run.endpoint \in Texts /\ run.doc.mine \in BOOLEAN
    <3> HIDE DEF run
    <3> QED
      BY <1>1 DEF TraceRun, AgentFile
  <2>2. NoValue \in Texts
    BY DEF Texts
  <2>3. StoredEndpoint(run.endpoint) \in Texts /\ StoredEndpoint(run.endpoint) \in EndpointsOf(run.key)
    <3> HIDE DEF NoValue
    <3>1. StoredEndpoint(run.endpoint) \in Texts
      BY <2>1, <2>2 DEF StoredEndpoint
    <3> QED
      BY <1>1, <3>1 DEF GoesWell
  <2> HIDE DEF run
  <2> QED
    BY <2>1, <2>3 DEF Merged, Settings, AgentFile
<1>4. ASSUME NEW pc \in {"write", "install"}, traces' = [traces EXCEPT ![r].pc = pc], place.project => pc = "install"
      PROVE  \E next \in TraceRun : GoesWell(next) /\ traces' = [traces EXCEPT ![r] = next]
  <2> DEFINE next == [run EXCEPT !.pc = pc]
  <2>1. traces' = [traces EXCEPT ![r] = next]
    BY <1>1, <1>4
  <2>2. next \in TraceRun /\ next.pc = pc /\ next.todo = run.todo /\ next.key = run.key /\ next.endpoint = run.endpoint
    <3> HIDE DEF run
    <3> QED
      BY <1>1, <1>4 DEF TraceRun, SetupSteps
  <2>3. GoesWell(next)
    <3> HIDE DEF next, run
    <3> QED
      BY <1>1, <1>4, <2>2 DEF GoesWell
  <2> QED
    BY <2>1, <2>2, <2>3
<1>5. ASSUME NextAgent(r, run.wrote)
      PROVE  \E next \in TraceRun : GoesWell(next) /\ traces' = [traces EXCEPT ![r] = next]
  <2>1. run.wrote \in SUBSET Agents
    BY <1>1 DEF TraceRun
  <2> QED
    BY <1>1, <1>5, <2>1, NextAgentGoesWell
<1>6. ASSUME NEW file \in AgentFile, agents' = [agents EXCEPT ![a] = file],
             \/ ~place.project /\ file.state # "ok"
             \/ file = merged /\ (place.project => run.pc = "merge"),
             \E next \in TraceRun : GoesWell(next) /\ traces' = [traces EXCEPT ![r] = next]
      PROVE  TraceInv'
  <2>1. PICK next \in TraceRun : GoesWell(next) /\ traces' = [traces EXCEPT ![r] = next]
    BY <1>6
  <2>2. file.state = "ok" /\ file.key # NoValue => file.endpoint \in EndpointsOf(file.key)
    BY <1>3, <1>6
  <2>3. place.project /\ place.mine => file.state = "ok" /\ file.mine
    BY <1>1, <1>3, <1>6 DEF GoesWell
  <2> HIDE DEF merged, a
  <2> QED
    BY <1>1, <1>6, <2>1, <2>2, <2>3, SetupGoesOn
<1>7. CASE /\ run.pc = "merge" /\ ~place.project
           /\ agents' = [agents EXCEPT ![a] = Truncated]
           /\ traces' = [traces EXCEPT ![r].pc = "write"]
  BY <1>4, <1>6, <1>7, NewSettings
<1>8. CASE /\ run.pc = "write" \/ (run.pc = "merge" /\ place.project)
           /\ \/ agents' = [agents EXCEPT ![a] = merged]
              \/ ~place.project /\ agents' = [agents EXCEPT ![a] = HalfWritten]
           /\ traces' = [traces EXCEPT ![r].pc = "install"]
  <2>1. \E next \in TraceRun : GoesWell(next) /\ traces' = [traces EXCEPT ![r] = next]
    BY <1>4, <1>8
  <2>2. CASE agents' = [agents EXCEPT ![a] = merged]
    BY <1>2, <1>3, <1>6, <2>1, <2>2
  <2>3. CASE ~place.project /\ agents' = [agents EXCEPT ![a] = HalfWritten]
    BY <1>6, <2>1, <2>3, NewSettings
  <2> QED
    BY <1>8, <2>2, <2>3
<1>9. CASE /\ \/ UNCHANGED agents
              \/ run.pc = "write" /\ agents' = [agents EXCEPT ![a] = HalfWritten]
           /\ NextAgent(r, run.wrote)
  <2>1. \E next \in TraceRun : GoesWell(next) /\ traces' = [traces EXCEPT ![r] = next]
    BY <1>5, <1>9
  <2>2. CASE UNCHANGED agents
    BY <1>1, <2>1, <2>2, OnlySetupGoesOn
  <2>3. CASE run.pc = "write" /\ agents' = [agents EXCEPT ![a] = HalfWritten]
    BY <1>2, <1>6, <2>1, <2>3, NewSettings
  <2> QED
    BY <1>9, <2>2, <2>3
<1> QED
  BY <1>7, <1>8, <1>9 DEF WriteSettings

LEMMA InstallKeeps ==
  ASSUME TraceInv, NEW r \in SetupRuns, Install(r) \/ Killed(r)
  PROVE  TraceInv'
<1> DEFINE killed == [NotRun EXCEPT !.pc = "failed"]
<1>1. UNCHANGED <<agents, place>> /\ traces[r].pc \in {"read", "merge", "write", "install"}
  BY DEF Install, Killed
<1>2. CASE Install(r)
  <2>1. traces[r].wrote \cup {Agent(r)} \in SUBSET Agents
    BY <1>1, TraceTypes DEF TraceRun
  <2>2. \E next \in TraceRun : GoesWell(next) /\ traces' = [traces EXCEPT ![r] = next]
    BY <1>1, <1>2, <2>1, NextAgentGoesWell DEF Install
  <2> QED
    BY <1>1, <2>2, OnlySetupGoesOn
<1>3. CASE Killed(r)
  <2>1. traces' = [traces EXCEPT ![r] = killed]
    BY <1>3 DEF Killed
  <2>2. killed \in TraceRun /\ killed.pc = "failed"
    <3> HIDE DEF NotRun
    <3> QED
      BY NewSettings DEF TraceRun, SetupSteps
  <2> HIDE DEF killed
  <2>3. GoesWell(killed)
    BY <2>2 DEF GoesWell
  <2> QED
    BY <1>1, <2>1, <2>2, <2>3, OnlySetupGoesOn
<1> QED
  BY <1>2, <1>3

\* The key of one run never meets the endpoint of another in an agent's file,
\* though runs overlap and are killed, and in a project the user's settings stay.
THEOREM KeysGoHome == TraceSpec => []KeyGoesToItsEndpoint
<1>1. TraceInit => TraceInv
  <2> SUFFICES ASSUME TraceInit PROVE TraceInv
    OBVIOUS
  <2>1. Settings(NoValue, NoValue, TRUE) \in AgentFile
    <3> HIDE DEF NoValue
    <3>1. NoValue \in Texts
      BY DEF Texts
    <3> QED
      BY <3>1 DEF Settings, AgentFile
  <2>2. \A a \in Agents : agents[a] = IF place.mine THEN Settings(NoValue, NoValue, TRUE) ELSE NoJSON
    BY DEF TraceInit
  <2> HIDE DEF NoJSON, NotRun, NoValue
  <2>3. agents \in [Agents -> AgentFile]
    BY <2>1, NewSettings DEF TraceInit
  <2>4. KeyGoesToItsEndpoint
    BY <2>2, NewSettings DEF KeyGoesToItsEndpoint, Settings
  <2>5. traces \in [SetupRuns -> TraceRun] /\ \A r \in SetupRuns : GoesWell(traces[r])
    BY NewSettings DEF TraceInit, GoesWell
  <2> QED
    BY <2>3, <2>4, <2>5 DEF TraceInv, TraceInit
<1>2. TraceInv /\ [TraceNext]_traceVars => TraceInv'
  <2> SUFFICES ASSUME TraceInv, [TraceNext]_traceVars PROVE TraceInv'
    OBVIOUS
  <2>1. CASE UNCHANGED traceVars
    BY <2>1 DEF traceVars, TraceInv, KeyGoesToItsEndpoint, GoesWell, EndpointsOf
  <2>2. CASE TraceNext
    BY <2>2, ResolveKeeps, ReadSettingsKeeps, WriteSettingsKeeps, InstallKeeps DEF TraceNext
  <2> QED
    BY <2>1, <2>2
<1>3. TraceInv => KeyGoesToItsEndpoint
  BY DEF TraceInv
<1> QED
  BY <1>1, <1>2, <1>3, PTL DEF TraceSpec

-----------------------------------------------------------------------------
(* `traces setup codex': the text of config.toml is followed line by line. *)
(* An edit takes the lines of a file to places in the new one, where they  *)
(* belong to the same tables, so that whatever is not one of the two       *)
(* settings is set as before; and what is edited as text, or marshalled    *)
(* from the document, has both settings on and parses.                     *)

\* The lines that the edit leaves, and one it may put into a string.
TomlText == TomlLines \cup {<<"quoted", "changed">>}

Places(lines) == 1 .. Len(lines)

IsTable(line) == line[1] = "table"

\* The header that is the last above a line names its table.
LEMMA TableIs ==
  ASSUME NEW lines \in Seq(TomlText), NEW i \in Nat, NEW h \in Headers(lines), h < i,
         \A g \in Headers(lines) : g < i => g <= h
  PROVE  TableOf(lines, i) = TableName(lines[h])
<1>1. h \in Above(lines, i) /\ Above(lines, i) # {}
  BY DEF Above
<1>2. \A g \in Above(lines, i) : g <= h
  BY DEF Above
<1>3. Headers(lines) \subseteq Nat
  BY DEF Headers
<1> DEFINE k == CHOOSE k \in Above(lines, i) : \A g \in Above(lines, i) : g <= k
<1>4. k \in Above(lines, i) /\ \A g \in Above(lines, i) : g <= k
  BY <1>1, <1>2
<1>5. k = h
  <2>1. k <= h /\ h <= k
    BY <1>1, <1>2, <1>4
  <2>2. k \in Nat /\ h \in Nat
    BY <1>3, <1>4 DEF Above
  <2> HIDE DEF k
  <2> QED
    BY <2>1, <2>2
<1> QED
  BY <1>1, <1>5 DEF TableOf

LEMMA TopIs ==
  ASSUME NEW lines, NEW i, \A g \in Headers(lines) : ~(g < i)
  PROVE  TableOf(lines, i) = "top"
BY DEF TableOf, Above

\* There is a last header above a line, or none.
LEMMA HeaderAbove ==
  ASSUME NEW lines \in Seq(TomlText), NEW i \in Nat
  PROVE  \/ \A g \in Headers(lines) : ~(g < i)
         \/ \E h \in Headers(lines) : h < i /\ \A g \in Headers(lines) : g < i => g <= h
<1>1. Above(lines, i) \in SUBSET (1 .. Len(lines)) /\ Len(lines) \in Nat
  BY DEF Above, Headers
<1>2. CASE Above(lines, i) = {}
  BY <1>2 DEF Above
<1>3. CASE Above(lines, i) # {}
  <2>1. PICK h \in Above(lines, i) : \A g \in Above(lines, i) : g <= h
    BY <1>1, <1>3, LastIsThere
  <2> QED
    BY <2>1 DEF Above
<1> QED
  BY <1>2, <1>3

\* f takes the lines of a file to places of another, in their order, where they are
\* of the same kind, headers are the same, and no other header comes before them.
Placed(a, b, f) ==
  /\ f \in [Places(a) -> Places(b)]
  /\ \A i, j \in Places(a) : i < j => f[i] < f[j]
  /\ \A i \in Places(a) : b[f[i]][1] = a[i][1] /\ (IsTable(a[i]) => b[f[i]] = a[i])
  /\ \A i \in Places(a) : \A g \in Headers(b) : g < f[i] => \E h \in Headers(a) : g = f[h]

\* Such lines belong to the same tables.
LEMMA TablesStay ==
  ASSUME NEW a \in Seq(TomlText), NEW b \in Seq(TomlText), NEW f, Placed(a, b, f), NEW i \in Places(a)
  PROVE  TableOf(b, f[i]) = TableOf(a, i)
<1>1. Places(a) = DOMAIN a /\ Places(b) = DOMAIN b /\ Len(a) \in Nat /\ Len(b) \in Nat
  BY DEF Places
<1>2. i \in Nat /\ f[i] \in Nat /\ f[i] \in Places(b)
  BY DEF Placed, Places
<1>3. \A h \in Headers(a) : h \in Places(a) /\ h \in Nat /\ f[h] \in Nat /\ f[h] \in Headers(b) /\ b[f[h]] = a[h]
  BY <1>1 DEF Headers, Placed, Places, IsTable
<1>4. \A g \in Headers(b) : g < f[i] => \E h \in Headers(a) : g = f[h] /\ h < i
  <2> SUFFICES ASSUME NEW g \in Headers(b), g < f[i]
               PROVE  \E h \in Headers(a) : g = f[h] /\ h < i
    OBVIOUS
  <2>1. PICK h \in Headers(a) : g = f[h]
    BY DEF Placed
  <2>2. h < i
    <3> SUFFICES ASSUME ~(h < i) PROVE FALSE
      OBVIOUS
    <3>1. i < h \/ i = h
      BY <1>2, <1>3
    <3>2. f[i] < f[h] \/ f[i] = f[h]
      BY <1>3, <3>1 DEF Placed
    <3> QED
      BY <1>2, <1>3, <2>1, <3>2
  <2> QED
    BY <2>1, <2>2
<1>5. CASE \A g \in Headers(a) : ~(g < i)
  <2>1. \A g \in Headers(b) : ~(g < f[i])
    BY <1>4, <1>5
  <2> QED
    BY <1>5, <2>1, TopIs
<1>6. CASE \E h \in Headers(a) : h < i /\ \A g \in Headers(a) : g < i => g <= h
  <2>1. PICK h \in Headers(a) : h < i /\ \A g \in Headers(a) : g < i => g <= h
    BY <1>6
  <2>2. f[h] \in Headers(b) /\ f[h] < f[i]
    BY <1>3, <2>1 DEF Placed
  <2>3. \A g \in Headers(b) : g < f[i] => g <= f[h]
    <3> SUFFICES ASSUME NEW g \in Headers(b), g < f[i] PROVE g <= f[h]
      OBVIOUS
    <3>1. PICK k \in Headers(a) : g = f[k] /\ k < i
      BY <1>4
    <3>2. k <= h /\ k \in Nat /\ h \in Nat /\ k \in Places(a) /\ h \in Places(a)
      BY <1>3, <2>1, <3>1
    <3>3. k < h \/ k = h
      BY <3>2
    <3>4. f[k] < f[h] \/ f[k] = f[h]
      BY <3>2, <3>3 DEF Placed
    <3> QED
      BY <1>3, <3>1, <3>4
  <2>4. TableOf(b, f[i]) = TableName(b[f[h]]) /\ TableOf(a, i) = TableName(a[h])
    BY <1>2, <2>1, <2>2, <2>3, TableIs
  <2> QED
    BY <1>3, <2>4
<1> QED
  BY <1>2, <1>5, <1>6, HeaderAbove

LEMMA PlacesAre ==
  ASSUME NEW a \in Seq(TomlText)
  PROVE  Places(a) = DOMAIN a /\ Len(a) \in Nat /\ Places(a) \subseteq Nat
BY DEF Places

\* Lines that are taken to another file are keys there if they are here, and set the same.
LEMMA KeysStay ==
  ASSUME NEW a \in Seq(TomlText), NEW b \in Seq(TomlText), NEW f, Placed(a, b, f), NEW i \in Places(a)
  PROVE  /\ f[i] \in Places(b) /\ TableOf(b, f[i]) = TableOf(a, i) /\ b[f[i]][1] = a[i][1]
         /\ i \in Keys(a) <=> f[i] \in Keys(b)
         /\ i \in HooksKeys(a) <=> f[i] \in HooksKeys(b)
         /\ i \in PluginKeys(a) <=> f[i] \in PluginKeys(b)
         /\ i \in Headers(a) <=> f[i] \in Headers(b)
         /\ i \in Headers(a) => b[f[i]] = a[i]
<1>1. /\ f[i] \in Places(b) /\ b[f[i]][1] = a[i][1] /\ (a[i][1] = "table" => b[f[i]] = a[i])
      /\ Places(a) = DOMAIN a /\ Places(b) = DOMAIN b
  BY PlacesAre DEF Placed, IsTable
<1>2. TableOf(b, f[i]) = TableOf(a, i)
  BY TablesStay
<1>3. i \in Keys(a) <=> f[i] \in Keys(b)
  BY ONLY <1>1, i \in Places(a) DEF Keys
<1>4. i \in Headers(a) <=> f[i] \in Headers(b)
  BY ONLY <1>1, i \in Places(a) DEF Headers
<1>5. i \in HooksKeys(a) <=> f[i] \in HooksKeys(b)
  BY ONLY <1>1, <1>2, <1>3 DEF HooksKeys
<1>6. i \in PluginKeys(a) <=> f[i] \in PluginKeys(b)
  BY ONLY <1>1, <1>2, <1>3 DEF PluginKeys
<1>7. i \in Headers(a) => b[f[i]] = a[i]
  BY ONLY <1>1 DEF Headers
<1> QED
  BY ONLY <1>1, <1>2, <1>3, <1>4, <1>5, <1>6, <1>7

Comments(lines) == {i \in DOMAIN lines : lines[i][1] = "comment"}

\* An edit that turns the keys at P on, in a file with the lines of another one at
\* the places of f: besides them no key is new or different.
TurnsOn(a, b, f, P) ==
  /\ Placed(a, b, f)
  /\ P \subseteq HooksKeys(b) \cup PluginKeys(b)
  /\ \A p \in P : b[p][2] = "true"
  /\ \A i \in Places(a) : f[i] \notin P => b[f[i]] = a[i]
  /\ \A j \in Keys(b) : j \in P \/ \E i \in Keys(a) : j = f[i]

\* Such an edit of the text, where no line but keys and their headers is new.
EditsText(a, b, f, P) ==
  /\ TurnsOn(a, b, f, P)
  /\ \A j \in Comments(b) : \E i \in Places(a) : j = f[i]
  /\ \A g \in Headers(b) : (\E p \in P : TableName(b[g]) = TableOf(b, p)) \/ \E h \in Headers(a) : b[g] = a[h]
  /\ IsPlain(a) => IsPlain(b)

LEMMA KeysArePlaces == ASSUME NEW a \in Seq(TomlText) PROVE Keys(a) \subseteq Places(a) /\ Headers(a) \subseteq Places(a)
BY PlacesAre DEF Keys, Headers

\* What the user set is as before.
LEMMA SettingsStay ==
  ASSUME NEW a \in Seq(TomlText), NEW b \in Seq(TomlText), NEW f, NEW P, TurnsOn(a, b, f, P)
  PROVE  UserSettings(b) = UserSettings(a)
<1> DEFINE Mine(lines) == Keys(lines) \ (HooksKeys(lines) \cup PluginKeys(lines))
           Entry(lines, i) == <<TableOf(lines, i), lines[i]>>
<1>1. Placed(a, b, f)
  BY DEF TurnsOn
<1>2. ASSUME NEW i \in Mine(a)
      PROVE  f[i] \in Mine(b) /\ Entry(b, f[i]) = Entry(a, i)
  <2>1. i \in Places(a)
    BY KeysArePlaces
  <2>2. f[i] \in Mine(b) /\ TableOf(b, f[i]) = TableOf(a, i)
    BY <1>1, <2>1, KeysStay
  <2>3. b[f[i]] = a[i]
    BY <2>1, <2>2 DEF TurnsOn
  <2> QED
    BY <2>2, <2>3
<1>3. ASSUME NEW j \in Mine(b)
      PROVE  \E i \in Mine(a) : j = f[i]
  <2>1. PICK i \in Keys(a) : j = f[i]
    BY DEF TurnsOn
  <2>2. i \in Places(a)
    BY KeysArePlaces
  <2>3. i \in Mine(a)
    BY <1>1, <2>1, <2>2, KeysStay
  <2> QED
    BY <2>1, <2>3
<1>4. UserSettings(a) = {Entry(a, i) : i \in Mine(a)} /\ UserSettings(b) = {Entry(b, j) : j \in Mine(b)}
  BY DEF UserSettings
<1> HIDE DEF Mine, Entry
<1>5. {Entry(a, i) : i \in Mine(a)} \subseteq {Entry(b, j) : j \in Mine(b)}
  BY ONLY <1>2
<1>6. {Entry(b, j) : j \in Mine(b)} \subseteq {Entry(a, i) : i \in Mine(a)}
  BY ONLY <1>2, <1>3
<1> QED
  BY ONLY <1>4, <1>5, <1>6

\* A setting that is on stays so, and one at P is on.
LEMMA OnStaysOn ==
  ASSUME NEW a \in Seq(TomlText), NEW b \in Seq(TomlText), NEW f, NEW P, TurnsOn(a, b, f, P)
  PROVE  /\ FeatureOK(a) \/ P \cap HooksKeys(b) # {} => FeatureOK(b)
         /\ PluginOK(a) \/ P \cap PluginKeys(b) # {} => PluginOK(b)
         /\ FeatureOK(b) => FeatureOK(a) \/ P \cap HooksKeys(b) # {}
<1>1. Placed(a, b, f) /\ \A p \in P : b[p][2] = "true"
  BY DEF TurnsOn
<1>2. \A i \in Places(a) : a[i][2] = "true" => b[f[i]][2] = "true"
  BY DEF TurnsOn
<1>3. HooksKeys(a) \subseteq Places(a) /\ PluginKeys(a) \subseteq Places(a)
  BY KeysArePlaces DEF HooksKeys, PluginKeys
<1>4. ASSUME FeatureOK(a) PROVE FeatureOK(b)
  <2>1. PICK i \in HooksKeys(a) : a[i][2] = "true"
    BY <1>4 DEF FeatureOK
  <2>2. i \in Places(a) /\ f[i] \in HooksKeys(b) /\ b[f[i]][2] = "true"
    BY <1>1, <1>2, <1>3, <2>1, KeysStay
  <2> QED
    BY <2>2 DEF FeatureOK
<1>5. ASSUME PluginOK(a) PROVE PluginOK(b)
  <2>1. PICK i \in PluginKeys(a) : a[i][2] = "true"
    BY <1>5 DEF PluginOK
  <2>2. i \in Places(a) /\ f[i] \in PluginKeys(b) /\ b[f[i]][2] = "true"
    BY <1>1, <1>2, <1>3, <2>1, KeysStay
  <2> QED
    BY <2>2 DEF PluginOK
<1>6. ASSUME FeatureOK(b), P \cap HooksKeys(b) = {} PROVE FeatureOK(a)
  <2>1. PICK j \in HooksKeys(b) : b[j][2] = "true"
    BY <1>6 DEF FeatureOK
  <2>2. PICK i \in Keys(a) : j = f[i]
    BY <1>6, <2>1 DEF TurnsOn, HooksKeys
  <2>3. i \in Places(a) /\ f[i] \notin P
    BY <1>6, <2>1, <2>2, KeysArePlaces
  <2>4. i \in HooksKeys(a) /\ a[i] = b[f[i]]
    BY <1>1, <2>1, <2>2, <2>3, KeysStay DEF TurnsOn
  <2> QED
    BY <2>1, <2>2, <2>4 DEF FeatureOK
<1>7. P \cap HooksKeys(b) # {} => FeatureOK(b)
  BY <1>1 DEF FeatureOK
<1>8. P \cap PluginKeys(b) # {} => PluginOK(b)
  BY <1>1 DEF PluginOK
<1> QED
  BY <1>4, <1>5, <1>6, <1>7, <1>8

\* A file parses if another one does that has all of its lines.
LEMMA PartParses ==
  ASSUME NEW a \in Seq(TomlText), NEW b \in Seq(TomlText), NEW f, Placed(a, b, f), Parses(b)
  PROVE  Parses(a)
<1>1. ASSUME NEW i \in Places(a), NEW j \in Places(a), i # j
      PROVE  f[i] # f[j]
  <2>1. i < j \/ j < i
    BY <1>1, PlacesAre
  <2>2. f[i] < f[j] \/ f[j] < f[i]
    BY <2>1 DEF Placed
  <2>3. f[i] \in Nat /\ f[j] \in Nat
    BY PlacesAre DEF Placed
  <2> QED
    BY <2>2, <2>3
<1>2. \A h, g \in Headers(a) : h # g => TableName(a[h]) # TableName(a[g])
  <2> SUFFICES ASSUME NEW h \in Headers(a), NEW g \in Headers(a), h # g
               PROVE  TableName(a[h]) # TableName(a[g])
    OBVIOUS
  <2>1. h \in Places(a) /\ g \in Places(a)
    BY KeysArePlaces
  <2>2. f[h] \in Headers(b) /\ f[g] \in Headers(b) /\ b[f[h]] = a[h] /\ b[f[g]] = a[g] /\ f[h] # f[g]
    BY <1>1, <2>1, KeysStay
  <2> QED
    BY <2>2 DEF Parses
<1>3. \A i, j \in Keys(a) : i # j => <<TableOf(a, i), a[i][1]>> # <<TableOf(a, j), a[j][1]>>
  <2> SUFFICES ASSUME NEW i \in Keys(a), NEW j \in Keys(a), i # j
               PROVE  <<TableOf(a, i), a[i][1]>> # <<TableOf(a, j), a[j][1]>>
    OBVIOUS
  <2>1. i \in Places(a) /\ j \in Places(a)
    BY KeysArePlaces
  <2>2. /\ f[i] \in Keys(b) /\ f[j] \in Keys(b) /\ f[i] # f[j]
        /\ TableOf(b, f[i]) = TableOf(a, i) /\ TableOf(b, f[j]) = TableOf(a, j) /\ b[f[i]][1] = a[i][1] /\ b[f[j]][1] = a[j][1]
    BY <1>1, <2>1, KeysStay
  <2>3. <<TableOf(b, f[i]), b[f[i]][1]>> # <<TableOf(b, f[j]), b[f[j]][1]>>
    BY <2>2 DEF Parses
  <2> QED
    BY <2>2, <2>3
<1>4. \A i \in Keys(a), h \in Headers(a) :
        ~(a[i][1] = "inline" /\ TableOf(a, i) = "plugins" /\ TableName(a[h]) = "ref")
  <2> SUFFICES ASSUME NEW i \in Keys(a), NEW h \in Headers(a)
               PROVE  ~(a[i][1] = "inline" /\ TableOf(a, i) = "plugins" /\ TableName(a[h]) = "ref")
    OBVIOUS
  <2>1. i \in Places(a) /\ h \in Places(a)
    BY KeysArePlaces
  <2>2. /\ f[i] \in Keys(b) /\ TableOf(b, f[i]) = TableOf(a, i) /\ b[f[i]][1] = a[i][1]
        /\ f[h] \in Headers(b) /\ b[f[h]] = a[h]
    BY <2>1, KeysStay
  <2> QED
    BY <2>2 DEF Parses
<1> QED
  BY <1>2, <1>3, <1>4 DEF Parses

\* No comment is lost or made if all of them are at the places of f.
LEMMA CommentsStay ==
  ASSUME NEW a \in Seq(TomlText), NEW b \in Seq(TomlText), NEW f, Placed(a, b, f),
         \A j \in Comments(b) : \E i \in Places(a) : j = f[i]
  PROVE  CommentLines(b) = CommentLines(a)
<1> DEFINE g == [i \in Comments(a) |-> f[i]]
<1>1. Comments(a) \subseteq Places(a) /\ Places(a) = DOMAIN a /\ Places(b) = DOMAIN b /\ Len(a) \in Nat
  BY PlacesAre DEF Comments
<1>2. \A i \in Places(a) : f[i] \in Places(b) /\ f[i] \in Nat /\ b[f[i]][1] = a[i][1]
  BY PlacesAre DEF Placed
<1>3. g \in [Comments(a) -> Comments(b)]
  BY <1>1, <1>2 DEF Comments
<1>4. \A i, j \in Comments(a) : g[i] = g[j] => i = j
  <2> SUFFICES ASSUME NEW i \in Comments(a), NEW j \in Comments(a), i # j PROVE g[i] # g[j]
    OBVIOUS
  <2>1. i \in Places(a) /\ j \in Places(a) /\ (i < j \/ j < i)
    BY <1>1, PlacesAre
  <2>2. f[i] < f[j] \/ f[j] < f[i]
    BY <2>1 DEF Placed
  <2> QED
    BY <1>2, <2>1, <2>2
<1>5. \A j \in Comments(b) : \E i \in Comments(a) : g[i] = j
  <2> TAKE j \in Comments(b)
  <2>1. PICK i \in Places(a) : j = f[i]
    OBVIOUS
  <2>2. i \in Comments(a)
    BY <1>1, <1>2, <2>1 DEF Comments
  <2> QED
    BY <2>1, <2>2
<1>6. g \in Bijection(Comments(a), Comments(b))
  <2> HIDE DEF g
  <2> QED
    BY <1>3, <1>4, <1>5 DEF Bijection, Injection, Surjection, IsInjective
<1>7. IsFiniteSet(Comments(a))
  <2>1. IsFiniteSet(1 .. Len(a))
    BY <1>1, FS_Interval
  <2>2. Comments(a) \subseteq 1 .. Len(a)
    BY <1>1 DEF Places
  <2> QED
    BY <2>1, <2>2, FS_Subset
<1>8. Cardinality(Comments(b)) = Cardinality(Comments(a))
  BY <1>6, <1>7, FS_Bijection DEF ExistsBijection
<1> QED
  BY <1>8 DEF CommentLines, Comments

\* A file with one key more parses if the key is new in its table, and so is the
\* header, at q, that it may have come with.
LEMMA WholeParses ==
  ASSUME NEW a \in Seq(TomlText), NEW b \in Seq(TomlText), NEW f, Placed(a, b, f), Parses(a),
         NEW p \in Keys(b), b[p][1] # "inline", \A j \in Keys(b) : j = p \/ \E i \in Keys(a) : j = f[i],
         \A i \in Keys(a) : a[i][1] = b[p][1] => TableOf(a, i) # TableOf(b, p),
         NEW q, \A g \in Headers(b) : g = q \/ \E h \in Headers(a) : g = f[h],
         q \in Headers(b) =>
           /\ \A h \in Headers(a) : TableName(a[h]) # TableName(b[q])
           /\ TableName(b[q]) = "ref" => \A i \in Keys(a) : a[i][1] # "inline" \/ TableOf(a, i) # "plugins"
  PROVE  Parses(b)
<1>1. \A h, g \in Headers(b) : h # g => TableName(b[h]) # TableName(b[g])
  <2> SUFFICES ASSUME NEW h \in Headers(b), NEW g \in Headers(b), h # g PROVE TableName(b[h]) # TableName(b[g])
    OBVIOUS
  <2>1. \A k \in Headers(a) : b[f[k]] = a[k]
    BY KeysArePlaces, KeysStay
  <2>2. CASE h = q \/ g = q
    BY <2>1, <2>2
  <2>3. CASE h # q /\ g # q
    <3>1. PICK k \in Headers(a), l \in Headers(a) : h = f[k] /\ g = f[l]
      BY <2>3
    <3> QED
      BY <2>1, <3>1 DEF Parses
  <2> QED
    BY <2>2, <2>3
<1>2. \A i \in Keys(a) : f[i] \in Keys(b) /\ TableOf(b, f[i]) = TableOf(a, i) /\ b[f[i]][1] = a[i][1]
  BY KeysArePlaces, KeysStay
<1>3. \A i, j \in Keys(b) : i # j => <<TableOf(b, i), b[i][1]>> # <<TableOf(b, j), b[j][1]>>
  <2> SUFFICES ASSUME NEW i \in Keys(b), NEW j \in Keys(b), i # j, TableOf(b, i) = TableOf(b, j), b[i][1] = b[j][1]
               PROVE  FALSE
    OBVIOUS
  <2>1. CASE i = p \/ j = p
    <3>1. PICK k \in Keys(a) : b[f[k]][1] = b[p][1] /\ TableOf(b, f[k]) = TableOf(b, p)
      BY <2>1
    <3> QED
      BY <1>2, <3>1
  <2>2. CASE i # p /\ j # p
    <3>1. PICK k \in Keys(a), l \in Keys(a) : i = f[k] /\ j = f[l]
      BY <2>2
    <3>2. <<TableOf(a, k), a[k][1]>> # <<TableOf(a, l), a[l][1]>>
      BY <3>1 DEF Parses
    <3> QED
      BY <1>2, <3>1, <3>2
  <2> QED
    BY <2>1, <2>2
<1>4. \A i \in Keys(b), h \in Headers(b) :
        ~(b[i][1] = "inline" /\ TableOf(b, i) = "plugins" /\ TableName(b[h]) = "ref")
  <2> SUFFICES ASSUME NEW i \in Keys(b), NEW h \in Headers(b), b[i][1] = "inline", TableOf(b, i) = "plugins", TableName(b[h]) = "ref"
               PROVE  FALSE
    OBVIOUS
  <2>1. PICK k \in Keys(a) : i = f[k]
    OBVIOUS
  <2>2. a[k][1] = "inline" /\ TableOf(a, k) = "plugins"
    BY <1>2, <2>1
  <2>3. CASE h = q
    BY <2>2, <2>3
  <2>4. CASE h # q
    <3>1. PICK l \in Headers(a) : h = f[l]
      BY <2>4
    <3>2. TableName(a[l]) = "ref"
      BY <3>1, KeysArePlaces, KeysStay
    <3> QED
      BY <2>2, <3>2 DEF Parses
  <2> QED
    BY <2>3, <2>4
<1> QED
  BY <1>1, <1>3, <1>4 DEF Parses

-----------------------------------------------------------------------------
\* What comes of an edit: the key is on, in a file that sets the rest as before.
Edits(a, b, key) ==
  /\ b \in Seq(TomlText) /\ UserSettings(b) = UserSettings(a) /\ CommentLines(b) = CommentLines(a)
  /\ IsPlain(a) => IsPlain(b)
  /\ key = "hooks" => \A g \in Headers(b) : TableName(b[g]) = "features" \/ \E h \in Headers(a) : b[g] = a[h]
  /\ key = "hooks" => FeatureOK(b) /\ (PluginOK(a) => PluginOK(b))
  /\ key \in {"enabled", "inline"} => PluginOK(b) /\ (FeatureOK(a) <=> FeatureOK(b))

\* One key is turned on.
LEMMA TurnedOn ==
  ASSUME NEW a \in Seq(TomlText), NEW b \in Seq(TomlText), NEW f, NEW p, EditsText(a, b, f, {p}), NEW key, b[p][1] = key
  PROVE  Edits(a, b, key)
<1> DEFINE P == {p}
<1>1. /\ Placed(a, b, f) /\ P \subseteq HooksKeys(b) \cup PluginKeys(b) /\ TurnsOn(a, b, f, P)
      /\ \A j \in Comments(b) : \E i \in Places(a) : j = f[i]
      /\ \A g \in Headers(b) : TableName(b[g]) = TableOf(b, p) \/ \E h \in Headers(a) : b[g] = a[h]
      /\ IsPlain(a) => IsPlain(b)
  BY DEF TurnsOn, EditsText
<1>2. CommentLines(b) = CommentLines(a)
  BY <1>1, CommentsStay
<1>3. UserSettings(b) = UserSettings(a)
  BY <1>1, SettingsStay
<1>4. /\ FeatureOK(a) \/ P \cap HooksKeys(b) # {} => FeatureOK(b)
      /\ PluginOK(a) \/ P \cap PluginKeys(b) # {} => PluginOK(b)
      /\ FeatureOK(b) => FeatureOK(a) \/ P \cap HooksKeys(b) # {}
  BY <1>1, OnStaysOn
<1>5. key = "hooks" => p \in HooksKeys(b) /\ TableOf(b, p) = "features"
  BY <1>1 DEF PluginKeys, HooksKeys
<1>6. key \in {"enabled", "inline"} => p \in PluginKeys(b) /\ p \notin HooksKeys(b)
  BY <1>1 DEF HooksKeys
<1>7. key = "hooks" => FeatureOK(b) /\ (PluginOK(a) => PluginOK(b))
  BY <1>4, <1>5
<1>8. key \in {"enabled", "inline"} => PluginOK(b) /\ (FeatureOK(a) <=> FeatureOK(b))
  BY <1>4, <1>6
<1> QED
  BY <1>1, <1>2, <1>3, <1>5, <1>7, <1>8 DEF Edits

Same(a) == [n \in Places(a) |-> n]

\* Files of the same kinds of lines, with the same headers.
LEMMA SameKinds ==
  ASSUME NEW a \in Seq(TomlText), NEW b \in Seq(TomlText), Len(a) = Len(b),
         \A n \in Places(a) : b[n][1] = a[n][1] /\ (IsTable(a[n]) => b[n] = a[n])
  PROVE  Placed(a, b, Same(a)) /\ Placed(b, a, Same(a)) /\ \A n \in Places(a) : n \in Places(b) /\ Same(a)[n] = n
<1>1. Places(b) = Places(a) /\ Same(a) \in [Places(a) -> Places(b)] /\ (\A n \in Places(a) : Same(a)[n] = n)
  BY DEF Same, Places
<1>2. Headers(a) \subseteq Places(a) /\ Headers(b) \subseteq Places(a) /\ Places(a) = DOMAIN a /\ Places(b) = DOMAIN b
  BY <1>1, KeysArePlaces, PlacesAre
<1>3. \A n \in Places(a) : n \in Headers(a) <=> n \in Headers(b)
  BY <1>1, <1>2 DEF Headers, IsTable
<1>4. Placed(a, b, Same(a))
  BY <1>1, <1>2, <1>3 DEF Placed
<1>5. Placed(b, a, Same(a))
  BY <1>1, <1>2, <1>3 DEF Placed, IsTable
<1> QED
  BY <1>1, <1>4, <1>5

\* A key of one of the two settings is turned on where it is.
LEMMA SetWhereItIs ==
  ASSUME NEW a \in Seq(TomlText), NEW i \in HooksKeys(a) \cup PluginKeys(a), NEW b, b = [a EXCEPT ![i] = <<a[i][1], "true">>]
  PROVE  Edits(a, b, a[i][1]) /\ (Parses(a) => Parses(b))
<1>1. /\ i \in Keys(a) /\ i \in Places(a) /\ Places(a) = DOMAIN a /\ Places(a) \subseteq Nat
      /\ a[i][1] \in {"hooks", "enabled", "inline"}
  BY KeysArePlaces, PlacesAre DEF HooksKeys, PluginKeys
<1>2. <<a[i][1], "true">> \in TomlText
  BY <1>1 DEF TomlText, TomlLines
<1>3. /\ b \in Seq(TomlText) /\ Len(b) = Len(a) /\ b[i] = <<a[i][1], "true">>
      /\ \A n \in Places(a) : n # i => b[n] = a[n]
  BY <1>1, <1>2
<1>4. b[i][1] = a[i][1] /\ b[i][2] = "true" /\ ~IsTable(a[i])
  BY <1>1, <1>3 DEF IsTable
<1>5. \A n \in Places(a) : b[n][1] = a[n][1] /\ (IsTable(a[n]) => b[n] = a[n])
  BY <1>3, <1>4
<1> DEFINE f == Same(a)
<1>6. Placed(a, b, f) /\ Placed(b, a, f) /\ (\A n \in Places(a) : f[n] = n) /\ Places(b) = Places(a) /\ Places(b) = DOMAIN b
  BY <1>3, <1>5, SameKinds, PlacesAre DEF Places
<1> HIDE DEF f
<1>7. \A j \in Comments(b) : \E n \in Places(a) : j = f[n]
  BY <1>6 DEF Comments
<1>8. IsPlain(a) => IsPlain(b)
  <2> SUFFICES ASSUME IsPlain(a), NEW n \in Places(a)
               PROVE  b[n] \notin {TableLine("features#"), TableLine("ref#")} /\ b[n][1] \notin {"quoted", "inline"}
    BY <1>6 DEF IsPlain
  <2>1. a[n] \notin {TableLine("features#"), TableLine("ref#")} /\ a[n][1] \notin {"quoted", "inline"}
    BY <1>1 DEF IsPlain
  <2>2. CASE n = i
    BY <1>1, <1>4, <2>1, <2>2 DEF TableLine
  <2> QED
    BY <1>3, <2>1, <2>2
<1>9. EditsText(a, b, f, {i})
  <2>1. i \in HooksKeys(b) \cup PluginKeys(b)
    <3>1. /\ i \in HooksKeys(a) <=> f[i] \in HooksKeys(b)
          /\ i \in PluginKeys(a) <=> f[i] \in PluginKeys(b)
      BY ONLY <1>1, <1>3, <1>6, KeysStay, a \in Seq(TomlText)
    <3> QED
      BY <1>1, <1>6, <3>1
  <2>2. \A n \in Places(a) : n \in Keys(b) => n \in Keys(a)
    BY <1>1, <1>5, <1>6 DEF Keys
  <2>3. \A j \in Keys(b) : \E n \in Keys(a) : j = f[n]
    BY <1>3, <1>6, <2>2, KeysArePlaces
  <2> QED
    <3>1. TurnsOn(a, b, f, {i})
      BY <1>3, <1>4, <1>6, <2>1, <2>3 DEF TurnsOn
    <3>2. \A g \in Headers(b) : g \in Headers(a) /\ b[g] = a[g]
      BY ONLY <1>1, <1>5, <1>6 DEF Headers, IsTable
    <3> QED
      BY ONLY <1>7, <1>8, <3>1, <3>2 DEF EditsText
<1>10. Edits(a, b, b[i][1])
  BY ONLY <1>3, <1>9, TurnedOn, a \in Seq(TomlText)
<1>11. Parses(a) => Parses(b)
  BY <1>3, <1>6, PartParses
<1> QED
  BY <1>4, <1>10, <1>11

\* A line is inserted, or two are appended.
LEMMA InsertIs ==
  ASSUME NEW S, NEW a \in Seq(S), NEW p \in 1 .. Len(a) + 1, NEW e \in S, NEW c, c = InsertAt(a, p, e)
  PROVE  /\ c \in Seq(S) /\ Len(c) = Len(a) + 1 /\ c[p] = e
         /\ \A n \in 1 .. p - 1 : c[n] = a[n]
         /\ \A n \in p .. Len(a) : c[n + 1] = a[n]
<1> DEFINE N == Len(a)
           h == p - 1
           x == SubSeq(a, 1, h)
           y == SubSeq(a, h + 1, N)
           z == x \o <<e>>
           b == z \o y
<1>1. N \in Nat /\ h \in Nat /\ h <= N /\ (h + 1) - 1 = h /\ h + 1 = p
  OBVIOUS
<1> HIDE DEF h
<1>2. x \in Seq(S) /\ Len(x) = h /\ \A n \in 1 .. h : x[n] = a[n]
  BY <1>1
<1>3. y \in Seq(S) /\ Len(y) = N - h /\ \A n \in 1 .. N - h : y[n] = a[h + n]
  BY <1>1
<1> HIDE DEF x, y, N
<1>4. z \in Seq(S) /\ Len(z) = h + 1 /\ z[h + 1] = e /\ \A n \in 1 .. h : z[n] = a[n]
  BY <1>1, <1>2
<1> HIDE DEF z
<1>5. /\ b \in Seq(S) /\ Len(b) = h + 1 + (N - h)
      /\ \A n \in 1 .. h + 1 : b[n] = z[n]
      /\ \A n \in 1 .. N - h : b[h + 1 + n] = y[n]
  <2>1. /\ b \in Seq(S) /\ Len(b) = Len(z) + Len(y)
        /\ \A n \in 1 .. Len(z) : b[n] = z[n]
        /\ \A n \in 1 .. Len(y) : b[Len(z) + n] = y[n]
    <3>1. z \in Seq(S) /\ y \in Seq(S)
      BY <1>3, <1>4
    <3> QED
      BY ONLY <3>1, ConcatIs
  <2>2. Len(z) = h + 1 /\ Len(y) = N - h
    BY <1>3, <1>4
  <2> HIDE DEF b
  <2> DEFINE u == Len(z)
             v == Len(y)
  <2>3. /\ b \in Seq(S) /\ Len(b) = u + v
        /\ \A n \in 1 .. u : b[n] = z[n]
        /\ \A n \in 1 .. v : b[u + n] = y[n]
    BY <2>1
  <2>4. u = h + 1 /\ v = N - h
    BY <2>2
  <2> HIDE DEF u, v
  <2> QED
    BY ONLY <2>3, <2>4
<1>6. c = b
  BY <1>1 DEF InsertAt, x, y, z, N, h
<1> HIDE DEF b
<1>7. Len(b) = N + 1
  BY ONLY <1>1, <1>5
<1>8. b[h + 1] = e /\ \A n \in 1 .. h : b[n] = a[n]
  BY <1>1, <1>4, <1>5
<1>9. ASSUME NEW n \in h + 1 .. N PROVE b[n + 1] = a[n]
  <2> DEFINE k == n - h
  <2>1. k \in 1 .. N - h /\ h + 1 + k = n + 1 /\ h + k = n
    BY <1>1
  <2> HIDE DEF k
  <2>2. b[h + 1 + k] = y[k] /\ y[k] = a[h + k]
    BY <1>3, <1>5, <2>1
  <2> QED
    BY <2>1, <2>2
<1> QED
  BY <1>1, <1>5, <1>6, <1>7, <1>8, <1>9 DEF N, h

LEMMA TwoMore ==
  ASSUME NEW S, NEW a \in Seq(S), NEW d \in S, NEW e \in S, NEW b, b = a \o <<d, e>>
  PROVE  /\ b \in Seq(S) /\ Len(b) = Len(a) + 2 /\ b[Len(a) + 1] = d /\ b[Len(a) + 2] = e
         /\ \A n \in 1 .. Len(a) : b[n] = a[n]
OBVIOUS

Setting(table, key) == <<table, key>> \in {<<"features", "hooks">>, <<"ref", "enabled">>}

LEMMA SettingIs ==
  ASSUME NEW table, NEW key, Setting(table, key)
  PROVE  /\ <<key, "true">> \in TomlText /\ TableLine(table) \in TomlText /\ TableName(TableLine(table)) = table
         /\ key \in {"hooks", "enabled"} /\ table \in {"features", "ref"}
         /\ table = "features" <=> key = "hooks"
BY DEF Setting, TomlText, TomlLines, TableLine, TableName

\* A key is inserted under the header of its table.
LEMMA InsertUnder ==
  ASSUME NEW a \in Seq(TomlText), NEW h \in Headers(a), NEW table, NEW key, Setting(table, key), TableName(a[h]) = table,
         NEW b, b = InsertAt(a, h + 1, <<key, "true">>)
  PROVE  /\ Edits(a, b, key)
         /\ Parses(a) /\ (\A i \in Keys(a) : a[i][1] = key => TableOf(a, i) # table) => Parses(b)
<1> DEFINE f == [n \in Places(a) |-> IF n <= h THEN n ELSE n + 1]
           p == h + 1
           N == Len(a)
<1>1. /\ <<key, "true">> \in TomlText /\ key \in {"hooks", "enabled"} /\ table \in {"features", "ref"}
      /\ table = "features" <=> key = "hooks"
  BY SettingIs
<1>2. h \in 1 .. N /\ h \in Nat /\ N \in Nat /\ Places(a) = 1 .. N /\ Places(a) = DOMAIN a
  BY KeysArePlaces, PlacesAre DEF Places
<1>3. /\ b \in Seq(TomlText) /\ Len(b) = N + 1 /\ b[p] = <<key, "true">>
      /\ \A n \in 1 .. h : b[n] = a[n]
      /\ \A n \in h + 1 .. N : b[n + 1] = a[n]
  <2> DEFINE e == <<key, "true">>
             T == TomlText
  <2>1. e \in T /\ b = InsertAt(a, p, e) /\ a \in Seq(T) /\ p \in 1 .. Len(a) + 1 /\ p - 1 = h
    BY <1>1, <1>2
  <2> HIDE DEF e, T, p
  <2>2. /\ b \in Seq(T) /\ Len(b) = Len(a) + 1 /\ b[p] = e
        /\ \A n \in 1 .. p - 1 : b[n] = a[n]
        /\ \A n \in p .. Len(a) : b[n + 1] = a[n]
    BY ONLY <2>1, InsertIs, SMTT(30)
  <2>3. p = h + 1
    BY DEF p
  <2>4. /\ \A n \in 1 .. h : b[n] = a[n]
        /\ \A n \in h + 1 .. N : b[n + 1] = a[n]
    BY ONLY <2>1, <2>2, <2>3
  <2>5. b \in Seq(TomlText) /\ b[p] = <<key, "true">>
    BY ONLY <2>2 DEF e, T
  <2>6. Len(b) = N + 1
    BY ONLY <2>2
  <2> QED
    BY ONLY <2>4, <2>5, <2>6
<1>4. Places(b) = 1 .. N + 1 /\ Places(b) = DOMAIN b
  BY <1>3, PlacesAre DEF Places
<1>5. f \in [Places(a) -> Places(b)] /\ \A n \in Places(a) : f[n] = (IF n <= h THEN n ELSE n + 1)
  BY <1>2, <1>4
<1> HIDE DEF f
<1> HIDE DEF p, N
<1>p. p \in Nat /\ p = h + 1 /\ h < p
  BY <1>2 DEF p
<1>6. \A n \in Places(a) : b[f[n]] = a[n] /\ f[n] # p
  <2> TAKE n \in Places(a)
  <2>1. n \in Nat /\ (n \in 1 .. h \/ n \in h + 1 .. N)
    BY ONLY <1>2, n \in Places(a)
  <2>2. CASE n \in 1 .. h
    <3>1. f[n] = n /\ n # p
      BY ONLY <1>2, <1>5, <1>p, <2>2, n \in Places(a)
    <3> QED
      BY ONLY <1>3, <2>2, <3>1
  <2>3. CASE n \in h + 1 .. N
    <3>1. f[n] = n + 1 /\ n + 1 # p
      BY ONLY <1>2, <1>5, <1>p, <2>3, n \in Places(a)
    <3> QED
      BY ONLY <1>3, <2>3, <3>1
  <2> QED
    BY <2>1, <2>2, <2>3
<1>7. \A j \in Places(b) : j = p \/ \E n \in Places(a) : j = f[n]
  <2> TAKE j \in Places(b)
  <2>1. j \in Nat /\ (j \in 1 .. h \/ j = p \/ j - 1 \in h + 1 .. N)
    BY ONLY <1>2, <1>4, <1>p, j \in Places(b)
  <2>2. CASE j \in 1 .. h
    <3>1. j \in Places(a) /\ j <= h
      BY ONLY <1>2, <2>2
    <3> QED
      BY ONLY <1>5, <3>1
  <2>3. CASE j - 1 \in h + 1 .. N
    <3>1. j - 1 \in Places(a) /\ ~(j - 1 <= h) /\ (j - 1) + 1 = j
      BY ONLY <1>2, <2>1, <2>3
    <3> QED
      BY ONLY <1>5, <3>1
  <2> QED
    BY <2>1, <2>2, <2>3
<1>8. \A i, j \in Places(a) : i < j => f[i] < f[j]
  <2> TAKE i, j \in Places(a)
  <2>1. i \in Nat /\ j \in Nat
    BY ONLY <1>2, i \in Places(a), j \in Places(a)
  <2> QED
    BY ONLY <1>2, <1>5, <2>1, i \in Places(a), j \in Places(a)
<1>9. b[p][1] = key /\ b[p][2] = "true" /\ ~IsTable(b[p]) /\ b[p][1] \notin {"comment", "inline", "table"}
  <2>1. b[p][1] = key /\ b[p][2] = "true"
    BY ONLY <1>3
  <2> QED
    BY ONLY <1>1, <2>1 DEF IsTable
<1>10. /\ \A g \in Headers(b) : \E n \in Headers(a) : g = f[n]
       /\ \A j \in Keys(b) : j = p \/ \E n \in Keys(a) : j = f[n]
       /\ \A j \in Comments(b) : \E n \in Places(a) : j = f[n]
  <2>1. \A n \in Places(a) : (f[n] \in Headers(b) => n \in Headers(a)) /\ (f[n] \in Keys(b) => n \in Keys(a))
    BY <1>2, <1>4, <1>6 DEF Headers, Keys
  <2>2. Headers(b) \subseteq Places(b) \ {p} /\ Keys(b) \subseteq Places(b) /\ Comments(b) \subseteq Places(b) \ {p}
    BY <1>4, <1>9 DEF Headers, Keys, Comments
  <2> QED
    BY <1>7, <2>1, <2>2
<1>11. Placed(a, b, f)
  BY <1>5, <1>6, <1>8, <1>10 DEF Placed
<1>12. TableOf(b, p) = table
  <2>1. f[h] = h /\ h \in Headers(b) /\ b[h] = a[h]
    <3>1. f[h] = h /\ b[h] = a[h] /\ h \in DOMAIN b
      <4>1. h \in Places(a) /\ h <= h /\ h \in 1 .. h /\ h \in DOMAIN b
        BY ONLY <1>2, <1>4
      <4> QED
        BY ONLY <1>3, <1>5, <4>1
    <3>2. a[h][1] = "table"
      BY DEF Headers
    <3> QED
      BY ONLY <3>1, <3>2 DEF Headers
  <2>2. \A g \in Headers(b) : g < p => g <= h
    BY <1>2, <1>4, <1>p, KeysArePlaces DEF Headers
  <2>4. TableOf(b, p) = TableName(b[h])
    BY ONLY <1>3, <1>p, <2>1, <2>2, TableIs
  <2> QED
    BY <2>1, <2>4
<1>13. p \in Keys(b) /\ p \in HooksKeys(b) \cup PluginKeys(b)
  <2>1. p \in Keys(b)
    BY ONLY <1>1, <1>2, <1>4, <1>p, <1>9 DEF Keys
  <2> QED
    BY <1>1, <1>9, <1>12, <2>1 DEF HooksKeys, PluginKeys
<1>14. IsPlain(a) => IsPlain(b)
  <2> SUFFICES ASSUME IsPlain(a), NEW j \in Places(b)
               PROVE  b[j] \notin {TableLine("features#"), TableLine("ref#")} /\ b[j][1] \notin {"quoted", "inline"}
    BY <1>4 DEF IsPlain
  <2>1. CASE j = p
    BY <1>1, <1>9, <2>1 DEF TableLine
  <2>2. CASE j # p
    <3>1. PICK n \in Places(a) : j = f[n]
      BY <1>7, <2>2
    <3>2. a[n] \notin {TableLine("features#"), TableLine("ref#")} /\ a[n][1] \notin {"quoted", "inline"}
      BY <1>2 DEF IsPlain
    <3> QED
      BY <1>6, <3>1, <3>2
  <2> QED
    BY <2>1, <2>2
<1>15. EditsText(a, b, f, {p})
  <2>1. TurnsOn(a, b, f, {p})
    BY <1>6, <1>9, <1>10, <1>11, <1>13 DEF TurnsOn
  <2>2. \A g \in Headers(b) : \E n \in Headers(a) : b[g] = a[n]
    <3>1. Headers(a) \subseteq Places(a)
      BY KeysArePlaces
    <3> QED
      BY ONLY <1>6, <1>10, <3>1
  <2> QED
    BY ONLY <1>10, <1>14, <2>1, <2>2 DEF EditsText
<1>16. Edits(a, b, key)
  BY ONLY <1>3, <1>9, <1>15, TurnedOn, a \in Seq(TomlText)
<1>17. ASSUME Parses(a), \A i \in Keys(a) : a[i][1] = key => TableOf(a, i) # table
       PROVE  Parses(b)
  <2>1. \A g \in Headers(b) : g = 0 \/ \E n \in Headers(a) : g = f[n]
    BY <1>10
  <2>2. 0 \notin Headers(b)
    BY <1>2, <1>4 DEF Headers
  <2> QED
    BY ONLY a \in Seq(TomlText), <1>3, <1>9, <1>10, <1>11, <1>12, <1>13, <1>17, <2>1, <2>2, WholeParses
<1> QED
  BY <1>16, <1>17

\* A table with the key alone is appended.
LEMMA AppendTable ==
  ASSUME NEW a \in Seq(TomlText), NEW table, NEW key, Setting(table, key),
         NEW b, b = a \o <<TableLine(table), <<key, "true">>>>
  PROVE  /\ Edits(a, b, key)
         /\ /\ Parses(a) /\ \A h \in Headers(a) : TableName(a[h]) # table
            /\ table = "ref" => \A i \in Keys(a) : a[i][1] # "inline" \/ TableOf(a, i) # "plugins"
            => Parses(b)
<1> DEFINE f == [n \in Places(a) |-> n]
           q == Len(a) + 1
           p == Len(a) + 2
           N == Len(a)
<1>1. /\ <<key, "true">> \in TomlText /\ key \in {"hooks", "enabled"} /\ table \in {"features", "ref"}
      /\ table = "features" <=> key = "hooks"
      /\ TableLine(table) \in TomlText /\ TableName(TableLine(table)) = table
  BY SettingIs
<1>2. N \in Nat /\ Places(a) = 1 .. N /\ Places(a) = DOMAIN a
  BY PlacesAre DEF Places
<1>3. /\ b \in Seq(TomlText) /\ Len(b) = N + 2 /\ b[q] = TableLine(table) /\ b[p] = <<key, "true">>
      /\ \A n \in 1 .. N : b[n] = a[n]
  <2> DEFINE d == TableLine(table)
             e == <<key, "true">>
             T == TomlText
  <2>1. d \in T /\ e \in T /\ b = a \o <<d, e>> /\ a \in Seq(T)
    BY <1>1
  <2> HIDE DEF d, e, T
  <2>2. /\ b \in Seq(T) /\ Len(b) = Len(a) + 2 /\ b[Len(a) + 1] = d /\ b[Len(a) + 2] = e
        /\ \A n \in 1 .. Len(a) : b[n] = a[n]
    BY ONLY <2>1, TwoMore
  <2> QED
    BY ONLY <2>2 DEF d, e, T
<1>4. Places(b) = 1 .. N + 2 /\ Places(b) = DOMAIN b
  BY <1>3, PlacesAre DEF Places
<1>5. f \in [Places(a) -> Places(b)] /\ \A n \in Places(a) : f[n] = n
  BY <1>2, <1>4
<1> HIDE DEF f, p, q, N
<1>p. p \in Nat /\ q \in Nat /\ q = N + 1 /\ p = N + 2 /\ q < p
  BY <1>2 DEF p, q, N
<1>6. \A n \in Places(a) : b[f[n]] = a[n] /\ f[n] # p /\ f[n] < q
  BY ONLY <1>2, <1>3, <1>5, <1>p
<1>7. \A j \in Places(b) : j = p \/ j = q \/ \E n \in Places(a) : j = f[n]
  <2> TAKE j \in Places(b)
  <2>1. j = p \/ j = q \/ j \in 1 .. N
    BY ONLY <1>2, <1>4, <1>p, j \in Places(b)
  <2> QED
    BY <1>2, <1>5, <2>1
<1>8. \A i, j \in Places(a) : i < j => f[i] < f[j]
  BY <1>5
<1>9. /\ b[p][1] = key /\ b[p][2] = "true" /\ ~IsTable(b[p]) /\ b[p][1] \notin {"comment", "inline", "table"}
      /\ b[q][1] = "table" /\ TableName(b[q]) = table
  <2>1. b[p][1] = key /\ b[p][2] = "true"
    BY ONLY <1>3
  <2>2. b[q][1] = "table" /\ TableName(b[q]) = table
    BY ONLY <1>1, <1>3 DEF TableLine
  <2> QED
    BY ONLY <1>1, <2>1, <2>2 DEF IsTable
<1>10. /\ \A g \in Headers(b) : g = q \/ \E n \in Headers(a) : g = f[n]
       /\ \A j \in Keys(b) : j = p \/ \E n \in Keys(a) : j = f[n]
       /\ \A j \in Comments(b) : \E n \in Places(a) : j = f[n]
  <2>1. \A n \in Places(a) : (f[n] \in Headers(b) => n \in Headers(a)) /\ (f[n] \in Keys(b) => n \in Keys(a))
    BY <1>2, <1>4, <1>6 DEF Headers, Keys
  <2>2. Headers(b) \subseteq Places(b) \ {p} /\ Keys(b) \subseteq Places(b) \ {q} /\ Comments(b) \subseteq Places(b) \ {p, q}
    BY <1>4, <1>9 DEF Headers, Keys, Comments
  <2> QED
    BY <1>7, <2>1, <2>2
<1>11. Placed(a, b, f)
  <2>1. \A i \in Places(a) : f[i] < q /\ f[i] \in Nat
    BY ONLY <1>2, <1>5, <1>6
  <2>2. \A i \in Places(a) : \A g \in Headers(b) : g < f[i] => g # q
    BY ONLY <2>1, <1>p
  <2> QED
    BY <1>5, <1>6, <1>8, <1>10, <2>2 DEF Placed
<1>12. TableOf(b, p) = table
  <2>1. q \in Headers(b)
    BY ONLY <1>2, <1>4, <1>9, <1>p DEF Headers
  <2>2. \A g \in Headers(b) : g < p => g <= q
    BY ONLY <1>2, <1>4, <1>p DEF Headers
  <2>3. TableOf(b, p) = TableName(b[q])
    BY ONLY <1>3, <1>p, <2>1, <2>2, TableIs
  <2> QED
    BY ONLY <1>9, <2>3
<1>13. p \in Keys(b) /\ p \in HooksKeys(b) \cup PluginKeys(b)
  <2>1. p \in Keys(b)
    BY ONLY <1>1, <1>2, <1>4, <1>p, <1>9 DEF Keys
  <2> QED
    BY <1>1, <1>9, <1>12, <2>1 DEF HooksKeys, PluginKeys
<1>14. IsPlain(a) => IsPlain(b)
  <2> SUFFICES ASSUME IsPlain(a), NEW j \in Places(b)
               PROVE  b[j] \notin {TableLine("features#"), TableLine("ref#")} /\ b[j][1] \notin {"quoted", "inline"}
    BY <1>4 DEF IsPlain
  <2>1. CASE j = p
    BY ONLY <1>1, <1>3, <1>9, <2>1 DEF TableLine
  <2>2. CASE j = q
    BY ONLY <1>1, <1>3, <2>2 DEF TableLine
  <2>3. CASE j # p /\ j # q
    <3>1. PICK n \in Places(a) : j = f[n]
      BY <1>7, <2>3
    <3>2. a[n] \notin {TableLine("features#"), TableLine("ref#")} /\ a[n][1] \notin {"quoted", "inline"}
      BY <1>2 DEF IsPlain
    <3> QED
      BY <1>6, <3>1, <3>2
  <2> QED
    BY <2>1, <2>2, <2>3
<1>15. \A g \in Headers(b) : TableName(b[g]) = table \/ \E h \in Headers(a) : b[g] = a[h]
  <2> TAKE g \in Headers(b)
  <2>1. CASE g = q
    BY ONLY <1>9, <2>1
  <2>2. CASE g # q
    <3>1. PICK n \in Headers(a) : g = f[n]
      BY ONLY <1>10, <2>2, g \in Headers(b)
    <3>2. n \in Places(a)
      BY KeysArePlaces
    <3> QED
      BY ONLY <1>6, <3>1, <3>2
  <2> QED
    BY <2>1, <2>2
<1>18. EditsText(a, b, f, {p})
  <2>1. TurnsOn(a, b, f, {p})
    BY <1>6, <1>9, <1>10, <1>11, <1>13 DEF TurnsOn
  <2> QED
    BY ONLY <1>10, <1>12, <1>14, <1>15, <2>1 DEF EditsText
<1>16. Edits(a, b, key)
  BY ONLY <1>3, <1>9, <1>18, TurnedOn, a \in Seq(TomlText)
<1>17. ASSUME Parses(a), \A h \in Headers(a) : TableName(a[h]) # table,
              table = "ref" => \A i \in Keys(a) : a[i][1] # "inline" \/ TableOf(a, i) # "plugins"
       PROVE  Parses(b)
  <2>1. \A i \in Keys(a) : TableOf(a, i) # table
    <3> TAKE i \in Keys(a)
    <3>1. i \in Nat
      BY KeysArePlaces, PlacesAre
    <3>2. CASE \A g \in Headers(a) : ~(g < i)
      BY <1>1, <3>2, TopIs
    <3>3. CASE \E h \in Headers(a) : h < i /\ \A g \in Headers(a) : g < i => g <= h
      BY <1>17, <3>1, <3>3, TableIs
    <3> QED
      BY <3>1, <3>2, <3>3, HeaderAbove
  <2> QED
    BY ONLY a \in Seq(TomlText), <1>3, <1>9, <1>10, <1>11, <1>12, <1>13, <1>17, <2>1, WholeParses, SMTT(30)
<1> QED
  BY <1>16, <1>17

LEMMA LowestIs ==
  ASSUME NEW S \in SUBSET Nat, S # {}
  PROVE  LowestOf(S) \in S /\ \A j \in S : LowestOf(S) <= j
BY LeastIsThere DEF LowestOf

\* The lines with the key between header h and the next bracket.
Present(lines, h, key) ==
  LET beyond == {i \in Bracketed(lines) : i > h}
  IN  {i \in DOMAIN lines : i > h /\ lines[i][1] = key /\ \A j \in beyond : i < j}

LEMMA SetBelowIs ==
  ASSUME NEW a, NEW h, NEW key
  PROVE  /\ Present(a, h, key) # {} => SetBelow(a, h, key) = [a EXCEPT ![LowestOf(Present(a, h, key))] = <<key, "true">>]
         /\ Present(a, h, key) = {} /\ a[h][1] = "quoted" => SetBelow(a, h, key) = [a EXCEPT ![h] = <<"quoted", "changed">>]
         /\ Present(a, h, key) = {} /\ a[h][1] # "quoted" => SetBelow(a, h, key) = InsertAt(a, h + 1, <<key, "true">>)
BY DEF SetBelow, Present

\* The search from a header finds the key of its table; from a plain file's, if it is there.
LEMMA PresentIs ==
  ASSUME NEW a \in Seq(TomlText), NEW h \in Headers(a), NEW table, NEW key, Setting(table, key), TableName(a[h]) = table
  PROVE  /\ \A i \in Present(a, h, key) : i \in HooksKeys(a) \cup PluginKeys(a) /\ a[i][1] = key
         /\ Parses(a) /\ IsPlain(a) /\ Present(a, h, key) = {} => \A i \in Keys(a) : a[i][1] = key => TableOf(a, i) # table
<1>1. key \in {"hooks", "enabled"} /\ table \in {"features", "ref"} /\ (table = "features" <=> key = "hooks")
  BY SettingIs
<1>2. Headers(a) \subseteq Bracketed(a) /\ Headers(a) \subseteq Nat /\ Keys(a) \subseteq Nat /\ Places(a) = DOMAIN a /\ DOMAIN a \subseteq Nat
  BY KeysArePlaces, PlacesAre DEF Headers, Bracketed
<1>3. ASSUME NEW i \in Present(a, h, key)
      PROVE  i \in HooksKeys(a) \cup PluginKeys(a) /\ a[i][1] = key
  <2>1. i \in DOMAIN a /\ i > h /\ a[i][1] = key /\ \A j \in Bracketed(a) : j > h => i < j
    BY DEF Present
  <2>2. i \in Nat /\ h \in Nat /\ h < i
    BY ONLY <1>2, <2>1, h \in Headers(a)
  <2>3. \A g \in Headers(a) : g < i => g <= h
    BY ONLY <1>2, <2>1, <2>2
  <2>4. TableOf(a, i) = table
    BY <2>2, <2>3, TableIs
  <2> QED
    BY ONLY <1>1, <2>1, <2>4 DEF Keys, HooksKeys, PluginKeys
<1>4. ASSUME Parses(a), IsPlain(a), Present(a, h, key) = {}, NEW i \in Keys(a), a[i][1] = key, TableOf(a, i) = table
      PROVE  FALSE
  <2>1. i \in Nat /\ i \in DOMAIN a /\ h \in Nat
    BY <1>2 DEF Keys
  <2>2. ~ \A g \in Headers(a) : ~(g < i)
    BY <1>1, <1>4, TopIs
  <2>3. PICK k \in Headers(a) : k < i /\ \A g \in Headers(a) : g < i => g <= k
    BY <2>1, <2>2, HeaderAbove
  <2>4. TableName(a[k]) = table
    BY <1>4, <2>1, <2>3, TableIs
  <2>5. k = h
    BY <1>4, <2>4 DEF Parses
  <2>6. \A j \in Bracketed(a) : j > h => i < j
    <3> SUFFICES ASSUME NEW j \in Bracketed(a), j > h PROVE i < j
      OBVIOUS
    <3>1. j \in DOMAIN a /\ j \in Nat /\ a[j][1] \in {"table", "quoted"}
      BY <1>2 DEF Bracketed
    <3>2. a[j][1] # "quoted"
      BY <1>4, <3>1 DEF IsPlain
    <3>3. j \in Headers(a)
      BY <3>1, <3>2 DEF Headers
    <3>4. ~(j < i)
      BY <2>1, <2>3, <2>5, <3>1, <3>3
    <3>5. j # i
      BY <1>1, <1>4, <3>1, <3>2
    <3> QED
      BY <2>1, <3>1, <3>4, <3>5
  <2>7. i \in Present(a, h, key)
    BY <1>4, <2>1, <2>3, <2>5, <2>6 DEF Present
  <2> QED
    BY <1>4, <2>7
<1> QED
  BY <1>3, <1>4

\* The key is set below the header of its table.
LEMMA SetUnder ==
  ASSUME NEW a \in Seq(TomlText), NEW h \in Headers(a), NEW table, NEW key, Setting(table, key), TableName(a[h]) = table,
         NEW b, b = SetBelow(a, h, key)
  PROVE  Edits(a, b, key) /\ (Parses(a) /\ IsPlain(a) => Parses(b))
<1>1. CASE Present(a, h, key) # {}
  <2>1. Present(a, h, key) \in SUBSET Nat
    BY PlacesAre DEF Present
  <2>2. PICK i \in Present(a, h, key) : b = [a EXCEPT ![i] = <<key, "true">>]
    BY <1>1, <2>1, LowestIs, SetBelowIs
  <2>3. i \in HooksKeys(a) \cup PluginKeys(a) /\ a[i][1] = key
    BY PresentIs
  <2>4. b = [a EXCEPT ![i] = <<a[i][1], "true">>]
    BY ONLY <2>2, <2>3
  <2> QED
    BY ONLY <2>3, <2>4, SetWhereItIs, a \in Seq(TomlText)
<1>2. CASE Present(a, h, key) = {}
  <2>1. a[h][1] # "quoted"
    BY DEF Headers
  <2>2. b = InsertAt(a, h + 1, <<key, "true">>)
    BY <1>2, <2>1, SetBelowIs
  <2>3. Edits(a, b, key) /\ (Parses(a) /\ (\A i \in Keys(a) : a[i][1] = key => TableOf(a, i) # table) => Parses(b))
    BY <2>2, InsertUnder
  <2> QED
    BY <1>2, <2>3, PresentIs
<1> QED
  BY <1>1, <1>2

\* Any other line than a hooks key changes nothing about them.
LEMMA AnotherLine ==
  ASSUME NEW a \in Seq(TomlText), NEW i \in Places(a) \ HooksKeys(a), NEW line \in TomlText, line[1] = a[i][1], ~IsTable(line),
         NEW b, b = [a EXCEPT ![i] = line]
  PROVE  b \in Seq(TomlText) /\ (FeatureOK(b) => FeatureOK(a))
<1>1. Places(a) = DOMAIN a /\ b \in Seq(TomlText) /\ Len(b) = Len(a) /\ b[i] = line /\ \A n \in Places(a) : n # i => b[n] = a[n]
  BY PlacesAre
<1>2. \A n \in Places(a) : b[n][1] = a[n][1] /\ (IsTable(a[n]) => b[n] = a[n])
  BY ONLY <1>1, line[1] = a[i][1], ~IsTable(line) DEF IsTable
<1> DEFINE f == Same(a)
<1>3. Placed(a, b, f) /\ Placed(b, a, f) /\ (\A n \in Places(a) : f[n] = n) /\ Places(b) = Places(a)
  BY <1>1, <1>2, SameKinds DEF Places
<1> HIDE DEF f
<1>4. \A n \in Places(a) : n \in HooksKeys(a) <=> n \in HooksKeys(b)
  BY ONLY <1>1, <1>3, KeysStay, a \in Seq(TomlText)
<1>5. HooksKeys(b) \subseteq Places(a)
  BY <1>1, <1>3, KeysArePlaces DEF HooksKeys
<1> QED
  BY <1>1, <1>4, <1>5 DEF FeatureOK

\* Below a string, the key is set where it is, or the setting is as it was.
LEMMA SetInString ==
  ASSUME NEW a \in Seq(TomlText), NEW h \in Places(a), a[h][1] = "quoted", NEW b, b = SetBelow(a, h, "hooks")
  PROVE  b \in Seq(TomlText) /\ (Edits(a, b, "hooks") \/ (FeatureOK(b) => FeatureOK(a)))
<1>1. CASE Present(a, h, "hooks") # {}
  <2>1. Present(a, h, "hooks") \in SUBSET Nat
    BY PlacesAre DEF Present
  <2>2. PICK i \in Present(a, h, "hooks") : b = [a EXCEPT ![i] = <<"hooks", "true">>]
    BY <1>1, <2>1, LowestIs, SetBelowIs
  <2>3. a[i][1] = "hooks" /\ i \in Places(a)
    BY PlacesAre DEF Present
  <2>4. b = [a EXCEPT ![i] = <<a[i][1], "true">>]
    BY ONLY <2>2, <2>3
  <2>5. CASE i \in HooksKeys(a)
    <3>1. Edits(a, b, a[i][1])
      BY ONLY <2>4, <2>5, SetWhereItIs, a \in Seq(TomlText)
    <3> QED
      BY <2>3, <3>1 DEF Edits
  <2>6. CASE i \notin HooksKeys(a)
    <3> DEFINE line == <<"hooks", "true">>
    <3>1. line \in TomlText /\ line[1] = a[i][1] /\ ~IsTable(line)
      BY <2>3 DEF TomlText, TomlLines, IsTable
    <3>2. b = [a EXCEPT ![i] = line]
      BY <2>2
    <3> HIDE DEF line
    <3> QED
      BY ONLY <2>3, <2>6, <3>1, <3>2, AnotherLine, a \in Seq(TomlText)
  <2> QED
    BY <2>5, <2>6
<1>2. CASE Present(a, h, "hooks") = {}
  <2> DEFINE line == <<"quoted", "changed">>
  <2>1. line \in TomlText /\ line[1] = a[h][1] /\ ~IsTable(line)
    BY DEF TomlText, IsTable
  <2>2. b = [a EXCEPT ![h] = line] /\ h \notin HooksKeys(a)
    BY <1>2, SetBelowIs DEF HooksKeys
  <2> HIDE DEF line
  <2> QED
    BY ONLY <2>1, <2>2, AnotherLine, a \in Seq(TomlText), h \in Places(a)
<1> QED
  BY <1>1, <1>2

\* A header of a plain file is found by its line.
LEMMA PlainHeaders ==
  ASSUME NEW a \in Seq(TomlText), IsPlain(a), NEW table, table \in {"features", "ref"}
  PROVE  /\ HeaderLine(a, table) = {} => \A h \in Headers(a) : TableName(a[h]) # table
         /\ HeaderLine(a, table) \subseteq Headers(a)
<1>1. \A i \in DOMAIN a : a[i] \in TomlText /\ a[i] \notin {TableLine("features#"), TableLine("ref#")} /\ a[i][1] # "quoted"
  BY DEF IsPlain
<1>2. HeaderLine(a, table) = {i \in DOMAIN a : a[i] = TableLine(table)}
  BY <1>1 DEF HeaderLine
<1>3. \A i \in DOMAIN a : a[i][1] = "table" /\ TableName(a[i]) = table => a[i] = TableLine(table)
  <2> TAKE i \in DOMAIN a
  <2>1. a[i][1] = "table" => \E name \in {"features", "plugins", "ref", "other"} : a[i] = TableLine(name)
    <3>1. \A line \in TomlText : line[1] = "table" =>
            \E name \in {"features", "features#", "plugins", "ref", "ref#", "other"} : line = TableLine(name)
      <4> SUFFICES ASSUME NEW line \in TomlText, line[1] = "table"
                   PROVE  \E name \in {"features", "features#", "plugins", "ref", "ref#", "other"} : line = TableLine(name)
        OBVIOUS
      <4>1. \/ \E name \in {"features", "features#", "plugins", "ref", "ref#", "other"} : line = TableLine(name)
            \/ line \in {"hooks", "enabled", "inline"} \X {"true", "false"}
            \/ \E text : line = <<"quoted", text>> \/ line = <<"comment", text>>
        BY Zenon DEF TomlText, TomlLines
      <4>2. line \notin {"hooks", "enabled", "inline"} \X {"true", "false"}
        OBVIOUS
      <4>3. ~ \E text : line = <<"quoted", text>> \/ line = <<"comment", text>>
        OBVIOUS
      <4> QED
        BY <4>1, <4>2, <4>3
    <3> QED
      BY ONLY <1>1, <3>1, i \in DOMAIN a
  <2>2. \A name \in {"features", "plugins", "ref", "other"} : TableName(TableLine(name)) = name
    BY DEF TableName, TableLine
  <2> QED
    BY <2>1, <2>2
<1> QED
  BY <1>2, <1>3 DEF Headers, TableLine

\* ensureTOMLTableKey turns the hooks on, unless it took a string for the header.
LEMMA FeatureIsSet ==
  ASSUME NEW a \in Seq(TomlText), NEW b, b = EnsureFeature(a)
  PROVE  /\ b \in Seq(TomlText) /\ (Edits(a, b, "hooks") \/ (FeatureOK(b) => FeatureOK(a)))
         /\ Parses(a) /\ IsPlain(a) => Edits(a, b, "hooks") /\ Parses(b)
<1>1. Setting("features", "hooks")
  BY DEF Setting
<1>2. CASE HeaderLine(a, "features") = {}
  <2>1. b = a \o <<TableLine("features"), <<"hooks", "true">>>>
    BY <1>2 DEF EnsureFeature
  <2>2. /\ Edits(a, b, "hooks")
        /\ Parses(a) /\ (\A h \in Headers(a) : TableName(a[h]) # "features") => Parses(b)
    BY <1>1, <2>1, AppendTable
  <2>3. Parses(a) /\ IsPlain(a) => Parses(b)
    BY <1>2, <2>2, PlainHeaders
  <2> QED
    BY <2>2, <2>3 DEF Edits
<1>3. CASE HeaderLine(a, "features") # {}
  <2> DEFINE h == LowestOf(HeaderLine(a, "features"))
  <2>1. h \in HeaderLine(a, "features") /\ h \in Places(a)
    <3>1. HeaderLine(a, "features") \subseteq Places(a) /\ Places(a) \subseteq Nat
      BY PlacesAre DEF HeaderLine
    <3>2. HeaderLine(a, "features") \in SUBSET Nat
      BY <3>1
    <3> QED
      BY <1>3, <3>1, <3>2, LowestIs
  <2>2. b = SetBelow(a, h, "hooks")
    BY <1>3 DEF EnsureFeature
  <2> HIDE DEF h
  <2>3. a[h] = TableLine("features") \/ a[h][1] = "quoted"
    BY <2>1 DEF HeaderLine
  <2>4. CASE a[h] = TableLine("features")
    <3>1. h \in Headers(a) /\ TableName(a[h]) = "features"
      BY <2>1, <2>4, PlacesAre DEF Headers, TableName, TableLine
    <3>2. Edits(a, b, "hooks") /\ (Parses(a) /\ IsPlain(a) => Parses(b))
      BY <1>1, <2>2, <3>1, SetUnder
    <3> QED
      BY <3>2 DEF Edits
  <2>5. CASE a[h][1] = "quoted"
    <3>1. ~IsPlain(a)
      BY <2>1, <2>5, PlacesAre DEF IsPlain
    <3> QED
      BY <2>1, <2>2, <2>5, <3>1, SetInString
  <2> QED
    BY <2>3, <2>4, <2>5
<1> QED
  BY <1>2, <1>3

\* ensureCodexPluginEnabled turns the plugin on.
LEMMA PluginIsSet ==
  ASSUME NEW a \in Seq(TomlText), NEW doc, NEW b, b = EnsurePlugin(a, doc)
  PROVE  /\ Edits(a, b, "enabled")
         /\ /\ Parses(a) /\ IsPlain(a)
            /\ ~PluginPresent(doc) => \A h \in Headers(a) : TableName(a[h]) # "ref"
            => Parses(b)
<1>1. Setting("ref", "enabled")
  BY DEF Setting
<1>2. CASE ~PluginPresent(doc) \/ HeaderLine(a, "ref") = {}
  <2>1. b = a \o <<TableLine("ref"), <<"enabled", "true">>>>
    BY <1>2 DEF EnsurePlugin
  <2>2. /\ Edits(a, b, "enabled")
        /\ /\ Parses(a) /\ \A h \in Headers(a) : TableName(a[h]) # "ref"
           /\ \A i \in Keys(a) : a[i][1] # "inline" \/ TableOf(a, i) # "plugins"
           => Parses(b)
    BY <1>1, <2>1, AppendTable
  <2>3. ASSUME IsPlain(a), ~PluginPresent(doc) => \A h \in Headers(a) : TableName(a[h]) # "ref"
        PROVE  \A h \in Headers(a) : TableName(a[h]) # "ref"
    BY <1>2, <2>3, PlainHeaders
  <2>4. IsPlain(a) => \A i \in Keys(a) : a[i][1] # "inline" \/ TableOf(a, i) # "plugins"
    BY DEF IsPlain, Keys
  <2> QED
    BY <2>2, <2>3, <2>4
<1>3. CASE PluginPresent(doc) /\ HeaderLine(a, "ref") # {}
  <2> DEFINE h == LowestOf(HeaderLine(a, "ref"))
  <2>1. h \in HeaderLine(a, "ref") /\ h \in Places(a)
    <3>1. HeaderLine(a, "ref") \subseteq Places(a) /\ Places(a) \subseteq Nat
      BY PlacesAre DEF HeaderLine
    <3>2. HeaderLine(a, "ref") \in SUBSET Nat
      BY <3>1
    <3> QED
      BY <1>3, <3>1, <3>2, LowestIs
  <2>2. b = SetBelow(a, h, "enabled")
    BY <1>3 DEF EnsurePlugin
  <2> HIDE DEF h
  <2>3. a[h] = TableLine("ref")
    BY <2>1 DEF HeaderLine
  <2>4. h \in Headers(a) /\ TableName(a[h]) = "ref"
    BY <2>1, <2>3, PlacesAre DEF Headers, TableName, TableLine
  <2> QED
    BY <1>1, <2>2, <2>4, SetUnder
<1> QED
  BY <1>2, <1>3

\* The text as edited sets the rest as before if it says so, and a plain one does.
LEMMA TextIsEdited ==
  ASSUME NEW o \in Seq(TomlText), NEW e, e = Edited(o)
  PROVE  /\ e \in Seq(TomlText)
         /\ SaysSo(e) => UserSettings(e) = UserSettings(o) /\ CommentLines(e) = CommentLines(o)
         /\ Parses(o) /\ IsPlain(o) => SaysSo(e)
<1> DEFINE f == IF FeatureOK(o) THEN o ELSE EnsureFeature(o)
<1>1. e = IF PluginOK(o) THEN f ELSE EnsurePlugin(f, o)
  BY DEF Edited
<1>2. /\ f \in Seq(TomlText)
      /\ FeatureOK(f) => /\ UserSettings(f) = UserSettings(o) /\ CommentLines(f) = CommentLines(o)
      /\ Parses(o) /\ IsPlain(o) =>
           /\ Parses(f) /\ IsPlain(f) /\ FeatureOK(f) /\ (PluginOK(o) => PluginOK(f))
           /\ \A g \in Headers(f) : TableName(f[g]) = "features" \/ \E h \in Headers(o) : f[g] = o[h]
  <2>1. CASE FeatureOK(o)
    BY <2>1
  <2>2. CASE ~FeatureOK(o)
    <3>1. f = EnsureFeature(o)
      BY <2>2
    <3> HIDE DEF f
    <3>2. /\ f \in Seq(TomlText) /\ (Edits(o, f, "hooks") \/ (FeatureOK(f) => FeatureOK(o)))
          /\ Parses(o) /\ IsPlain(o) => Edits(o, f, "hooks") /\ Parses(f)
      BY <3>1, FeatureIsSet
    <3> QED
      BY <2>2, <3>2 DEF Edits
  <2> QED
    BY <2>1, <2>2
<1> HIDE DEF f
<1>3. CASE PluginOK(o)
  <2>1. e = f
    BY <1>1, <1>3
  <2> QED
    BY <1>2, <1>3, <2>1 DEF SaysSo
<1>4. CASE ~PluginOK(o)
  <2>1. e = EnsurePlugin(f, o)
    BY <1>1, <1>4
  <2>2. /\ Edits(f, e, "enabled")
        /\ /\ Parses(f) /\ IsPlain(f)
           /\ ~PluginPresent(o) => \A h \in Headers(f) : TableName(f[h]) # "ref"
           => Parses(e)
    BY <1>2, <2>1, PluginIsSet
  <2>3. UserSettings(e) = UserSettings(f) /\ CommentLines(e) = CommentLines(f) /\ PluginOK(e) /\ e \in Seq(TomlText) /\ (FeatureOK(f) <=> FeatureOK(e))
    BY <2>2 DEF Edits
  <2>4. ASSUME Parses(o), IsPlain(o), ~PluginPresent(o), NEW g \in Headers(f)
        PROVE  TableName(f[g]) # "ref"
    <3>1. TableName(f[g]) = "features" \/ \E h \in Headers(o) : f[g] = o[h]
      BY <1>2, <2>4
    <3>2. \A h \in Headers(o) : TableName(o[h]) # "ref"
      BY <2>4 DEF PluginPresent
    <3> QED
      BY <3>1, <3>2
  <2> QED
    BY <1>2, <2>2, <2>3, <2>4 DEF SaysSo
<1> QED
  BY <1>3, <1>4

\* The lines of a sequence up to place i without its comments, and where they were.
NoComments(doc, i, s, g) ==
  /\ s \in Seq(TomlText) /\ g \in [Places(s) -> 1 .. i]
  /\ \A n, m \in Places(s) : n < m => g[n] < g[m]
  /\ \A n \in Places(s) : s[n] = doc[g[n]]
  /\ \A j \in 1 .. i : doc[j][1] # "comment" => \E n \in Places(s) : j = g[n]

LEMMA OneMoreKept ==
  ASSUME NEW doc \in Seq(TomlText), NEW i \in 1 .. Len(doc), NEW s, NEW g, NoComments(doc, i - 1, s, g), doc[i][1] # "comment",
         NEW t, t = Append(s, doc[i])
  PROVE  \E k : NoComments(doc, i, t, k)
<1>1. s \in Seq(TomlText) /\ doc[i] \in TomlText /\ Len(s) \in Nat /\ i \in Nat /\ i >= 1
  BY DEF NoComments
<1> DEFINE line == doc[i]
           L == Len(s)
           k == [n \in 1 .. L + 1 |-> IF n <= L THEN g[n] ELSE i]
<1>2. t \in Seq(TomlText) /\ Len(t) = L + 1 /\ t[L + 1] = line /\ \A n \in 1 .. L : t[n] = s[n]
  <2> HIDE DEF line
  <2>1. line \in TomlText /\ t = Append(s, line)
    BY <1>1 DEF line
  <2> QED
    BY ONLY <1>1, <2>1
<1> HIDE DEF line
<1>3. L \in Nat /\ Places(s) = 1 .. L /\ Places(t) = 1 .. L + 1
  BY <1>1, <1>2 DEF Places
<1> HIDE DEF L
<1>4. /\ \A n \in 1 .. L : g[n] \in 1 .. i - 1 /\ s[n] = doc[g[n]]
      /\ \A n, m \in 1 .. L : n < m => g[n] < g[m]
      /\ \A j \in 1 .. i - 1 : doc[j][1] # "comment" => \E n \in 1 .. L : j = g[n]
  BY <1>3 DEF NoComments
<1>5. /\ \A n \in 1 .. L : k[n] = g[n] /\ n \in 1 .. L + 1 /\ n \in Nat
      /\ k[L + 1] = i /\ L + 1 \in 1 .. L + 1
      /\ \A n \in 1 .. L + 1 : n \in 1 .. L \/ n = L + 1
  BY <1>3
<1>6. k \in [1 .. L + 1 -> 1 .. i]
  <2> SUFFICES ASSUME NEW n \in 1 .. L + 1 PROVE k[n] \in 1 .. i
    OBVIOUS
  <2> HIDE DEF k
  <2> QED
    BY ONLY <1>1, <1>4, <1>5, n \in 1 .. L + 1
<1> HIDE DEF k
<1>7. \A n, m \in 1 .. L + 1 : n < m => k[n] < k[m]
  <2> SUFFICES ASSUME NEW n \in 1 .. L + 1, NEW m \in 1 .. L + 1, n < m PROVE k[n] < k[m]
    OBVIOUS
  <2>1. n \in 1 .. L
    BY ONLY <1>3, n \in 1 .. L + 1, m \in 1 .. L + 1, n < m
  <2>2. CASE m \in 1 .. L
    BY ONLY <1>4, <1>5, <2>1, <2>2, n < m
  <2>3. CASE m = L + 1
    BY ONLY <1>1, <1>4, <1>5, <2>1, <2>3
  <2> QED
    BY <1>5, <2>2, <2>3
<1>8. \A n \in 1 .. L + 1 : t[n] = doc[k[n]]
  <2> TAKE n \in 1 .. L + 1
  <2>1. CASE n \in 1 .. L
    BY ONLY <1>2, <1>4, <1>5, <2>1
  <2>2. CASE n = L + 1
    BY ONLY <1>2, <1>5, <2>2 DEF line
  <2> QED
    BY <1>5, <2>1, <2>2
<1>9. \A j \in 1 .. i : doc[j][1] # "comment" => \E n \in 1 .. L + 1 : j = k[n]
  <2> SUFFICES ASSUME NEW j \in 1 .. i, doc[j][1] # "comment" PROVE \E n \in 1 .. L + 1 : j = k[n]
    OBVIOUS
  <2>1. j \in 1 .. i - 1 \/ j = i
    BY ONLY <1>1, j \in 1 .. i
  <2> QED
    BY ONLY <1>4, <1>5, <2>1, doc[j][1] # "comment"
<1>10. NoComments(doc, i, t, k)
  BY ONLY <1>2, <1>3, <1>6, <1>7, <1>8, <1>9 DEF NoComments
<1> QED
  BY <1>10

LEMMA BareIsKept ==
  ASSUME NEW doc \in Seq(TomlText)
  PROVE  \E g : NoComments(doc, Len(doc), Bare(doc), g)
<1> DEFINE N == Len(doc)
           places == {i \in 1 .. N : doc[i][1] # "comment"}
           fs == [n \in 0 .. N |-> n]
           b == CHOOSE f : f = [i \in 0 .. N |->
                  IF i = 0 THEN <<>> ELSE IF doc[i][1] # "comment" THEN Append(f[i - 1], doc[i]) ELSE f[i - 1]]
<1>1. N \in Nat /\ DOMAIN doc = 1 .. N
  OBVIOUS
<1>2. Bare(doc) = b[N]
  BY DEF Bare
<1> HIDE DEF N
<1>3. PICK f : KeepsPlaces(doc, places, f, N)
  BY <1>1, KeepsExists
<1>4. f = [i \in 0 .. N |-> IF i = 0 THEN <<>> ELSE IF doc[i][1] # "comment" THEN Append(f[i - 1], doc[i]) ELSE f[i - 1]]
  <2>1. \A i \in 0 .. N : i # 0 => (i \in places <=> doc[i][1] # "comment")
    BY <1>1
  <2> HIDE DEF places
  <2> QED
    BY <1>3, <2>1 DEF KeepsPlaces
<1>5. b = [i \in 0 .. N |-> IF i = 0 THEN <<>> ELSE IF doc[i][1] # "comment" THEN Append(b[i - 1], doc[i]) ELSE b[i - 1]]
  BY <1>4
<1> HIDE DEF b, places
<1>6. \A i \in 0 .. N : b[i] = IF i = 0 THEN <<>> ELSE IF doc[i][1] # "comment" THEN Append(b[i - 1], doc[i]) ELSE b[i - 1]
  BY ONLY <1>5
<1> DEFINE Good(i) == \E g : NoComments(doc, i, b[i], g)
           T == {n \in 0 .. N : ~Good(n)}
<1>7. T = {}
  <2> SUFFICES ASSUME T # {} PROVE FALSE
    OBVIOUS
  <2>0. T \in SUBSET Nat
    BY <1>1
  <2>1. PICK m \in T : \A k \in T : m <= k
    <3> HIDE DEF T
    <3> QED
      BY <2>0, LeastIsThere
  <2>2. m # 0
    <3>1. b[0] = <<>>
      BY <1>1, <1>6
    <3>2. NoComments(doc, 0, <<>>, <<>>)
      BY DEF NoComments, Places
    <3>3. Good(0)
      BY <3>1, <3>2
    <3> HIDE DEF Good
    <3> QED
      BY <2>1, <3>3
  <2>3. m - 1 \in 0 .. N /\ Good(m - 1) /\ m \in 1 .. N /\ m \in 0 .. N
    <3> HIDE DEF Good
    <3> QED
      BY <1>1, <2>1, <2>2
  <2>4. PICK g : NoComments(doc, m - 1, b[m - 1], g)
    BY <2>3
  <2>5. CASE doc[m][1] # "comment"
    <3>1. b[m] = Append(b[m - 1], doc[m])
      BY <1>6, <2>2, <2>3, <2>5
    <3>2. \E k : NoComments(doc, m, b[m], k)
      BY <2>3, <2>4, <2>5, <3>1, OneMoreKept DEF N
    <3> QED
      BY <2>1, <3>2
  <2>6. CASE doc[m][1] = "comment"
    <3>1. b[m] = b[m - 1]
      BY <1>6, <2>2, <2>3, <2>6
    <3>2. NoComments(doc, m, b[m], g)
      <4>1. \A j \in 1 .. m : j \in 1 .. m - 1 \/ j = m
        BY <1>1, <2>3
      <4>2. 1 .. m - 1 \subseteq 1 .. m
        BY <1>1, <2>3
      <4> HIDE DEF T
      <4> QED
        BY <2>4, <2>6, <3>1, <4>1, <4>2 DEF NoComments
    <3> QED
      BY <2>1, <3>2
  <2> QED
    BY <2>5, <2>6
<1> QED
  BY <1>1, <1>2, <1>7 DEF N

\* Without its comments a file sets the same, and parses if it did.
LEMMA BareIs ==
  ASSUME NEW doc \in Seq(TomlText), NEW b, b = Bare(doc)
  PROVE  b \in Seq(TomlText) /\ UserSettings(doc) = UserSettings(b) /\ (Parses(doc) => Parses(b))
<1>1. PICK g : NoComments(doc, Len(doc), b, g)
  BY BareIsKept
<1>2. /\ b \in Seq(TomlText) /\ g \in [Places(b) -> Places(doc)]
      /\ \A n, m \in Places(b) : n < m => g[n] < g[m]
      /\ \A n \in Places(b) : b[n] = doc[g[n]]
      /\ \A j \in Places(doc) : doc[j][1] # "comment" => \E n \in Places(b) : j = g[n]
  BY <1>1 DEF NoComments, Places
<1>3. Places(b) = DOMAIN b /\ Places(doc) = DOMAIN doc
  BY <1>2, PlacesAre
<1>4. \A g1 \in Headers(doc) : \E h \in Headers(b) : g1 = g[h]
  <2> TAKE g1 \in Headers(doc)
  <2>1. g1 \in Places(doc) /\ doc[g1][1] = "table"
    BY <1>3 DEF Headers
  <2>2. PICK n \in Places(b) : g1 = g[n]
    BY <1>2, <2>1
  <2>3. n \in Headers(b)
    BY <1>2, <1>3, <2>1, <2>2 DEF Headers
  <2> QED
    BY <2>2, <2>3
<1>5. \A j \in Keys(doc) : \E n \in Keys(b) : j = g[n]
  <2> TAKE j \in Keys(doc)
  <2>1. j \in Places(doc) /\ doc[j][1] \in {"hooks", "enabled", "inline", "quoted"}
    BY <1>3 DEF Keys
  <2>2. PICK n \in Places(b) : j = g[n]
    BY <1>2, <2>1
  <2>3. n \in Keys(b)
    BY <1>2, <1>3, <2>1, <2>2 DEF Keys
  <2> QED
    BY <2>2, <2>3
<1>6. Placed(b, doc, g)
  BY <1>2, <1>4 DEF Placed
<1>7. TurnsOn(b, doc, g, {})
  BY <1>2, <1>5, <1>6 DEF TurnsOn
<1> QED
  BY <1>2, <1>6, <1>7, SettingsStay, PartParses

\* A value set in the document is set in its line.
LEMMA LineSet ==
  ASSUME NEW a \in Seq(TomlText), NEW i \in HooksKeys(a) \cup PluginKeys(a)
  PROVE  [a EXCEPT ![i][2] = "true"] = [a EXCEPT ![i] = <<a[i][1], "true">>]
<1>1. i \in DOMAIN a /\ a[i] \in TomlText /\ a[i][1] \in {"hooks", "enabled", "inline"}
  BY DEF HooksKeys, PluginKeys, Keys
<1>2. a[i] \in {"hooks", "enabled", "inline"} \X {"true", "false"}
  <2>1. \/ \E name \in {"features", "features#", "plugins", "ref", "ref#", "other"} : a[i] = TableLine(name)
        \/ a[i] \in {"hooks", "enabled", "inline"} \X {"true", "false"}
        \/ \E text : a[i] = <<"quoted", text>> \/ a[i] = <<"comment", text>>
    BY <1>1, Zenon DEF TomlText, TomlLines
  <2> QED
    BY ONLY <1>1, <2>1 DEF TableLine
<1>3. [a[i] EXCEPT ![2] = "true"] = <<a[i][1], "true">>
  BY <1>2
<1> QED
  BY <1>3

SettingKeys(lines, table) == IF table = "features" THEN HooksKeys(lines) ELSE PluginKeys(lines)

\* The setting is on in the document as it is marshalled, which parses if it did.
LEMMA SetKeyIs ==
  ASSUME NEW a \in Seq(TomlText), NEW table, NEW key, Setting(table, key),
         NEW b, b = SetKey(a, SettingKeys(a, table), table, key)
  PROVE  /\ b \in Seq(TomlText) /\ UserSettings(b) = UserSettings(a) /\ (Parses(a) => Parses(b))
         /\ table = "features" => FeatureOK(b)
         /\ table = "ref" => PluginOK(b) /\ (FeatureOK(a) <=> FeatureOK(b))
<1> DEFINE keys == SettingKeys(a, table)
           headers == {h \in Headers(a) : TableName(a[h]) = table}
<1>1. /\ keys \subseteq Keys(a) /\ keys \subseteq HooksKeys(a) \cup PluginKeys(a) /\ Keys(a) \subseteq Nat /\ headers \subseteq Nat
      /\ headers \subseteq Headers(a) /\ \A h \in headers : TableName(a[h]) = table
  BY KeysArePlaces, PlacesAre DEF HooksKeys, PluginKeys, SettingKeys
<1>2. key \in {"hooks", "enabled"} /\ table \in {"features", "ref"} /\ (table = "features" <=> key = "hooks")
  BY SettingIs
<1>3. b = IF keys # {} THEN [a EXCEPT ![LowestOf(keys)][2] = "true"]
          ELSE IF headers # {} THEN InsertAt(a, LowestOf(headers) + 1, <<key, "true">>)
          ELSE a \o <<TableLine(table), <<key, "true">>>>
  BY DEF SetKey
<1>4. headers = {} => \A h \in Headers(a) : TableName(a[h]) # table
  OBVIOUS
<1> HIDE DEF headers, keys
<1>5. CASE keys # {}
  <2>1. PICK i \in keys : b = [a EXCEPT ![i][2] = "true"]
    BY <1>1, <1>3, <1>5, LowestIs
  <2>2. i \in HooksKeys(a) \cup PluginKeys(a)
    BY <1>1
  <2>3. b = [a EXCEPT ![i] = <<a[i][1], "true">>]
    BY ONLY <2>1, <2>2, LineSet, a \in Seq(TomlText)
  <2>4. Edits(a, b, a[i][1]) /\ (Parses(a) => Parses(b))
    BY ONLY <2>2, <2>3, SetWhereItIs, a \in Seq(TomlText)
  <2>5. IF table = "features" THEN a[i][1] = "hooks" ELSE a[i][1] \in {"enabled", "inline"}
    BY DEF HooksKeys, PluginKeys, SettingKeys, keys
  <2> QED
    BY <1>2, <2>4, <2>5 DEF Edits
<1>6. CASE keys = {} /\ headers # {}
  <2>1. PICK h \in headers : b = InsertAt(a, h + 1, <<key, "true">>)
    BY <1>1, <1>3, <1>6, LowestIs
  <2>2. h \in Headers(a) /\ TableName(a[h]) = table
    BY <1>1
  <2>3. \A i \in Keys(a) : a[i][1] = key => TableOf(a, i) # table
    BY <1>2, <1>6 DEF HooksKeys, PluginKeys, SettingKeys, keys
  <2>4. Edits(a, b, key) /\ (Parses(a) /\ (\A i \in Keys(a) : a[i][1] = key => TableOf(a, i) # table) => Parses(b))
    BY <2>1, <2>2, InsertUnder
  <2> QED
    BY <1>2, <2>3, <2>4 DEF Edits
<1>7. CASE keys = {} /\ headers = {}
  <2>1. b = a \o <<TableLine(table), <<key, "true">>>>
    BY <1>3, <1>7
  <2>2. table = "ref" => \A i \in Keys(a) : a[i][1] # "inline" \/ TableOf(a, i) # "plugins"
    BY <1>7 DEF PluginKeys, SettingKeys, keys
  <2>3. /\ Edits(a, b, key)
        /\ /\ Parses(a) /\ \A h \in Headers(a) : TableName(a[h]) # table
           /\ table = "ref" => \A i \in Keys(a) : a[i][1] # "inline" \/ TableOf(a, i) # "plugins"
           => Parses(b)
    BY <2>1, AppendTable
  <2> QED
    BY <1>2, <1>4, <1>7, <2>2, <2>3 DEF Edits
<1> QED
  BY <1>5, <1>6, <1>7

LEMMA MarshalledIs ==
  ASSUME NEW doc \in Seq(TomlText), NEW m, m = Marshalled(doc), Parses(doc)
  PROVE  m \in Seq(TomlText) /\ SaysSo(m) /\ UserSettings(m) = UserSettings(doc)
<1> DEFINE bare == Bare(doc)
           first == SetKey(bare, HooksKeys(bare), "features", "hooks")
<1>1. m = SetKey(first, PluginKeys(first), "ref", "enabled")
  BY DEF Marshalled
<1>2. bare \in Seq(TomlText) /\ UserSettings(doc) = UserSettings(bare) /\ Parses(bare)
  BY BareIs
<1> HIDE DEF bare
<1>3. Setting("features", "hooks") /\ Setting("ref", "enabled")
  BY DEF Setting
<1>4. first \in Seq(TomlText) /\ UserSettings(first) = UserSettings(bare) /\ Parses(first) /\ FeatureOK(first)
  <2>1. first = SetKey(bare, SettingKeys(bare, "features"), "features", "hooks")
    BY DEF SettingKeys
  <2> HIDE DEF first
  <2> QED
    BY <1>2, <1>3, <2>1, SetKeyIs
<1> HIDE DEF first
<1>5. m \in Seq(TomlText) /\ UserSettings(m) = UserSettings(first) /\ Parses(m) /\ PluginOK(m) /\ FeatureOK(m)
  <2>1. m = SetKey(first, SettingKeys(first, "ref"), "ref", "enabled")
    BY <1>1 DEF SettingKeys
  <2> QED
    BY <1>3, <1>4, <2>1, SetKeyIs
<1> QED
  BY <1>2, <1>4, <1>5 DEF SaysSo

-----------------------------------------------------------------------------
TomlInv ==
  /\ original \in Seq(TomlText) /\ toml \in Seq(TomlText) /\ tomlStep \in {"before", "after"}
  /\ tomlStep = "before" => toml = original
  /\ EditKeepsSettings

LEMMA FileIsEdited ==
  ASSUME NEW o \in Seq(TomlText)
  PROVE  /\ Enabled(o) \in Seq(TomlText)
         /\ Parses(o) => /\ SaysSo(Enabled(o)) /\ UserSettings(Enabled(o)) = UserSettings(o)
                         /\ IsPlain(o) => CommentLines(Enabled(o)) = CommentLines(o)
<1>1. /\ Edited(o) \in Seq(TomlText)
      /\ SaysSo(Edited(o)) => UserSettings(Edited(o)) = UserSettings(o) /\ CommentLines(Edited(o)) = CommentLines(o)
      /\ Parses(o) /\ IsPlain(o) => SaysSo(Edited(o))
  BY TextIsEdited
<1>2. CASE ~Parses(o)
  BY <1>2 DEF Enabled
<1>3. CASE Parses(o) /\ SaysSo(o)
  BY <1>3 DEF Enabled
<1>4. CASE Parses(o) /\ ~SaysSo(o) /\ SaysSo(Edited(o))
  <2>1. Enabled(o) = Edited(o)
    BY <1>4 DEF Enabled
  <2> QED
    BY <1>1, <1>4, <2>1
<1>5. CASE Parses(o) /\ ~SaysSo(o) /\ ~SaysSo(Edited(o))
  <2>1. Enabled(o) = Marshalled(o)
    BY <1>5 DEF Enabled
  <2>2. Enabled(o) \in Seq(TomlText) /\ SaysSo(Enabled(o)) /\ UserSettings(Enabled(o)) = UserSettings(o)
    BY <1>5, <2>1, MarshalledIs
  <2> QED
    BY <1>1, <1>5, <2>2
<1> QED
  BY <1>2, <1>3, <1>4, <1>5

\* Whatever config.toml was, if it parsed it still does after the command, has the
\* plugin and its hooks on, and sets the rest as before.
THEOREM EditsKeepSettings == TomlSpec => []EditKeepsSettings
<1>1. TomlInit => TomlInv
  <2> SUFFICES ASSUME TomlInit PROVE TomlInv
    OBVIOUS
  <2>1. TomlLines \subseteq TomlText
    BY DEF TomlText
  <2> QED
    BY <2>1, TomlFilesAssumption DEF TomlInit, TomlInv, EditKeepsSettings
<1>2. TomlInv /\ [TomlNext]_tomlVars => TomlInv'
  <2> SUFFICES ASSUME TomlInv, [TomlNext]_tomlVars PROVE TomlInv'
    OBVIOUS
  <2>1. CASE UNCHANGED tomlVars
    BY <2>1 DEF tomlVars, TomlInv, EditKeepsSettings
  <2>2. CASE TomlNext
    <3>1. toml = original /\ toml' = Enabled(original) /\ tomlStep' = "after" /\ original' = original
      BY <2>2 DEF TomlNext, EnableCodexPlugin, TomlInv
    <3>2. toml' \in Seq(TomlText) /\ EditKeepsSettings'
      BY <3>1, FileIsEdited DEF TomlInv, EditKeepsSettings
    <3> QED
      BY <3>1, <3>2 DEF TomlInv
  <2> QED
    BY <2>1, <2>2
<1>3. TomlInv => EditKeepsSettings
  BY DEF TomlInv
<1> QED
  BY <1>1, <1>2, <1>3, PTL DEF TomlSpec

\* Both setups keep what was set beside their own keys, and a key goes home.
THEOREM SetupStaysSound == TraceSpec /\ TomlSpec => []SetupIsSound
<1>1. EditKeepsSettings /\ KeyGoesToItsEndpoint => SetupIsSound
  BY DEF SetupIsSound
<1> QED
  BY <1>1, KeysGoHome, EditsKeepSettings, PTL

-----------------------------------------------------------------------------
(* `api': every attempt is of the one request that was put together, and   *)
(* all but the last were answered by something that asks for another.      *)

ApiSteps == {"idle", "send", "print", "done", "failed"}

SentAnswers == {"ok", "refused", "busy", "lost"}

ApiCall ==
  [pc : ApiSteps, in : ApiInputs, method : {NoWord} \cup {MethodOf(in) : in \in ApiInputs},
   params : {EmptyObject} \cup {ParseFields(in.fields).object : in \in ApiInputs},
   body : {NoWord} \cup {BodyOf(in) : in \in ApiInputs}, tries : Nat]

Attempts(run) == {Sent(run, answer) : answer \in SentAnswers}

\* The request is what the command was given.
AsAsked(run) ==
  /\ run.method = MethodOf(run.in) /\ run.body = BodyOf(run.in)
  /\ ~BlockRawDelete(run.in) /\ ~BodyRefused(run.in)

ApiInv ==
  /\ call \in ApiCall
  /\ arrived \in Seq(Attempts(call))
  /\ call.pc = "idle" => arrived = <<>>
  /\ call.pc \in {"send", "print", "done"} \/ arrived # <<>> => AsAsked(call)
  /\ Len(arrived) > 1 \/ (arrived # <<>> /\ call.pc = "send") => call.in.host = "own"
  /\ \A i \in DOMAIN arrived : i < Len(arrived) \/ call.pc = "send" => Retriable(arrived[i].answer)
  /\ call.pc = "done" => arrived # <<>> /\ Last(arrived).answer = "ok"

LEMMA NewCall == NoCall \in ApiCall /\ NoCall.pc = "idle"
<1>1. (CHOOSE in \in ApiInputs : TRUE) \in ApiInputs
  BY ApiAssumption
<1> QED
  BY <1>1 DEF NoCall, ApiCall, ApiSteps

LEMMA ApiStarts == ApiInit => ApiInv
<1> SUFFICES ASSUME ApiInit PROVE ApiInv
  OBVIOUS
<1>1. call \in ApiCall /\ call.pc = "idle" /\ arrived = <<>>
  BY NewCall DEF ApiInit
<1> QED
  BY <1>1 DEF ApiInv

LEMMA StartCallKeeps ==
  ASSUME ApiInv, NEW in \in ApiInputs, StartCall(in)
  PROVE  ApiInv'
<1> DEFINE parsed == ParseFields(in.fields)
           fails  == parsed.fails # NoWord \/ BlockRawDelete(in) \/ (in.include /\ in.jq) \/ BodyRefused(in)
           pc     == IF fails THEN "failed" ELSE "send"
           run    == [NoCall EXCEPT !.in = in, !.method = MethodOf(in), !.params = parsed.object, !.body = BodyOf(in), !.pc = pc]
<1>1. call' = run /\ arrived' = <<>>
  BY DEF StartCall, ApiInv
<1>2. pc \in ApiSteps /\ (pc \in {"send", "print", "done"} => ~BlockRawDelete(in) /\ ~BodyRefused(in)) /\ pc \notin {"idle", "done"}
  BY DEF ApiSteps
<1>3. /\ run \in ApiCall /\ run.pc = pc /\ run.in = in /\ run.method = MethodOf(in) /\ run.body = BodyOf(in)
  <2>1. MethodOf(in) \in {MethodOf(x) : x \in ApiInputs} /\ BodyOf(in) \in {BodyOf(x) : x \in ApiInputs}
        /\ parsed.object \in {ParseFields(x.fields).object : x \in ApiInputs}
    OBVIOUS
  <2> HIDE DEF parsed, pc
  <2> QED
    BY <1>2, <2>1, NewCall DEF ApiCall
<1> HIDE DEF run, pc
<1>4. AsAsked(run) \/ pc = "failed"
  BY <1>2, <1>3 DEF AsAsked, ApiSteps
<1> QED
  BY <1>1, <1>2, <1>3, <1>4 DEF ApiInv

\* A call that only goes on to another step sends the same as before.
LEMMA CallGoesOn ==
  ASSUME call \in ApiCall, NEW pc \in ApiSteps, NEW tries \in Nat, call' = [call EXCEPT !.pc = pc, !.tries = tries]
  PROVE  /\ call' \in ApiCall /\ call'.pc = pc /\ call'.in = call.in
         /\ Attempts(call') = Attempts(call) /\ (AsAsked(call') <=> AsAsked(call))
<1>1. /\ call' \in ApiCall /\ call'.pc = pc /\ call'.in = call.in /\ call'.method = call.method
      /\ call'.body = call.body /\ call'.params = call.params
  BY DEF ApiCall
<1>2. \A answer : Sent(call', answer) = Sent(call, answer)
  BY <1>1 DEF Sent, AttemptBody
<1>3. Attempts(call') = Attempts(call)
  BY <1>2 DEF Attempts
<1> QED
  BY <1>1, <1>3 DEF AsAsked

LEMMA AnswerOf == ASSUME NEW run, NEW a PROVE Sent(run, a).answer = a
BY DEF Sent

LEMMA KeyOf == ASSUME NEW run, NEW a PROVE Sent(run, a).key <=> run.in.host = "own"
BY Zenon DEF Sent

LEMMA ArrivesKeeps ==
  ASSUME ApiInv, call.pc = "send", NEW answer \in SentAnswers, NEW again \in BOOLEAN, Arrives(answer, again),
         again => Retriable(answer) /\ call.in.host = "own"
  PROVE  ApiInv'
<1> DEFINE pc    == IF again THEN "send" ELSE "print"
           tries == call.tries + 1
           sent  == Sent(call, answer)
<1>1. call \in ApiCall /\ arrived \in Seq(Attempts(call)) /\ call.tries \in Nat /\ AsAsked(call)
  BY DEF ApiInv, ApiCall
<1>2. /\ call' = [call EXCEPT !.pc = pc, !.tries = tries] /\ arrived' = Append(arrived, sent)
      /\ pc \in ApiSteps /\ pc \in {"send", "print"} /\ tries \in Nat
  <2>1. pc \in {"send", "print"} /\ tries \in Nat
    BY <1>1
  <2>2. call' = [[call EXCEPT !.tries = tries] EXCEPT !.pc = pc] /\ arrived' = Append(arrived, sent)
    BY DEF Arrives
  <2> HIDE DEF pc, tries, sent
  <2> QED
    BY <1>1, <2>1, <2>2 DEF ApiSteps, ApiCall
<1>3. pc = "send" => again
  <2>1. CASE again
    BY <2>1
  <2>2. CASE ~again
    BY <2>2, Zenon
  <2> QED
    BY <2>1, <2>2
<1> HIDE DEF pc, tries, sent
<1>4. /\ call' \in ApiCall /\ call'.pc = pc /\ call'.in = call.in
      /\ Attempts(call') = Attempts(call) /\ AsAsked(call')
  BY <1>1, <1>2, CallGoesOn
<1>5. sent \in Attempts(call) /\ sent.answer = answer
  BY AnswerOf DEF sent, Attempts
<1>6. /\ arrived' \in Seq(Attempts(call)) /\ Len(arrived') = Len(arrived) + 1 /\ arrived'[Len(arrived')] = sent
      /\ DOMAIN arrived' = DOMAIN arrived \cup {Len(arrived')} /\ Len(arrived) \in Nat
      /\ \A i \in DOMAIN arrived : arrived'[i] = arrived[i] /\ i < Len(arrived')
  BY <1>1, <1>2, <1>5
<1>7. \A i \in DOMAIN arrived' : i < Len(arrived') \/ call'.pc = "send" => Retriable(arrived'[i].answer)
  <2> SUFFICES ASSUME NEW i \in DOMAIN arrived', i < Len(arrived') \/ call'.pc = "send"
               PROVE  Retriable(arrived'[i].answer)
    OBVIOUS
  <2>1. CASE i \in DOMAIN arrived
    BY <1>6, <2>1 DEF ApiInv
  <2>2. CASE i = Len(arrived')
    BY <1>3, <1>4, <1>5, <1>6, <2>2
  <2> QED
    BY <1>6, <2>1, <2>2
<1>8. Len(arrived') > 1 \/ (arrived' # <<>> /\ call'.pc = "send") => call'.in.host = "own"
  <2>1. CASE call'.pc = "send"
    BY <1>3, <1>4, <2>1
  <2>2. CASE Len(arrived') > 1
    BY <1>1, <1>4, <1>6, <2>2 DEF ApiInv
  <2> QED
    BY <2>1, <2>2
<1> QED
  BY <1>2, <1>4, <1>6, <1>7, <1>8 DEF ApiInv

LEMMA PrintKeeps ==
  ASSUME ApiInv, PrintResponse
  PROVE  ApiInv'
<1> DEFINE answers  == {i \in DOMAIN arrived : arrived[i].answer # "lost"}
           response == IF answers = {} THEN "lost" ELSE arrived[Max(answers)].answer
<1>1. /\ call.pc = "print" /\ UNCHANGED arrived /\ call \in ApiCall /\ arrived \in Seq(Attempts(call))
      /\ call.tries \in Nat /\ AsAsked(call)
  BY DEF PrintResponse, ApiInv, ApiCall
<1>2. PICK pc \in {"done", "failed"} : call' = [call EXCEPT !.pc = pc] /\ (pc = "done" => response = "ok")
  BY DEF PrintResponse
<1>3. call' = [call EXCEPT !.pc = pc, !.tries = call.tries] /\ pc \in ApiSteps
  BY <1>1, <1>2 DEF ApiCall, ApiSteps
<1>4. /\ call' \in ApiCall /\ call'.pc = pc /\ call'.in = call.in
      /\ Attempts(call') = Attempts(call) /\ AsAsked(call')
  BY <1>1, <1>3, CallGoesOn
<1>5. pc = "done" => arrived # <<>> /\ Last(arrived).answer = "ok"
  <2> SUFFICES ASSUME pc = "done"
               PROVE  arrived # <<>> /\ Last(arrived).answer = "ok"
    OBVIOUS
  <2>1. answers # {} /\ arrived[Max(answers)].answer = "ok"
    BY <1>2
  <2>2. Len(arrived) \in Nat /\ DOMAIN arrived = 1 .. Len(arrived)
    BY <1>1
  <2>3. Max(answers) \in answers
    BY <2>1, <2>2, MaxIsThere
  <2> DEFINE last == Max(answers)
  <2>4. last \in DOMAIN arrived /\ arrived[last].answer = "ok"
    BY <2>1, <2>3
  <2> HIDE DEF last, answers
  <2>5. ~(last < Len(arrived))
    BY <1>1, <2>4 DEF ApiInv, Retriable
  <2>6. last = Len(arrived) /\ arrived # <<>>
    BY <1>1, <2>2, <2>4, <2>5
  <2> QED
    BY <2>4, <2>6 DEF Last
<1> QED
  BY <1>1, <1>2, <1>4, <1>5 DEF ApiInv

\* However often the SDK tries, each attempt is the request that was asked for,
\* with the body that could be read once, to the host that was named; no project
\* is deleted, and a command that succeeds had its last attempt answered.
THEOREM RequestsStayOne == ApiSpec => []AttemptsAreOne
<1>1. ApiInv /\ [ApiNext]_apiVars => ApiInv'
  <2> SUFFICES ASSUME ApiInv, [ApiNext]_apiVars
               PROVE  ApiInv'
    OBVIOUS
  <2>1. CASE UNCHANGED apiVars
    BY <2>1 DEF apiVars, ApiInv
  <2>2. CASE Attempt
    <3>1. PICK answer \in SentAnswers : Arrives(answer, Retriable(answer) /\ call.tries < SDKRetries)
      BY <2>2 DEF Attempt, SentAnswers
    <3> QED
      BY <2>2, <3>1, ArrivesKeeps DEF Attempt
  <2>3. CASE AttemptElsewhere
    <3>1. PICK answer \in SentAnswers : Arrives(answer, FALSE)
      BY <2>3 DEF AttemptElsewhere, SentAnswers
    <3> QED
      BY <2>3, <3>1, ArrivesKeeps DEF AttemptElsewhere
  <2> QED
    BY <2>1, <2>2, <2>3, StartCallKeeps, PrintKeeps DEF ApiNext
<1>2. ApiInv => AttemptsAreOne
  <2> SUFFICES ASSUME ApiInv
               PROVE  AttemptsAreOne
    OBVIOUS
  <2>1. /\ call \in ApiCall /\ arrived \in Seq(Attempts(call)) /\ Len(arrived) \in Nat
        /\ DOMAIN arrived = 1 .. Len(arrived)
    BY DEF ApiInv
  <2>2. \A i \in DOMAIN arrived : \E answer \in SentAnswers : arrived[i] = Sent(call, answer)
    BY <2>1 DEF Attempts
  <2>7. \A i \in DOMAIN arrived : arrived[i].key <=> call.in.host = "own"
    BY <2>2, KeyOf
  <2>3. \A i \in DOMAIN arrived :
          /\ arrived[i].host = call.in.host /\ arrived[i].method = call.method
          /\ arrived[i].route = call.in.route /\ arrived[i].body = call.body
    BY <2>2 DEF Sent, AttemptBody
  <2>4. ASSUME NEW i \in DOMAIN arrived
        PROVE  /\ AsAsked(call)
               /\ i > 1 => call.in.host = "own"
    BY <2>1, <2>4 DEF ApiInv
  <2>5. ASSUME AsAsked(call), Stdin \in {call.in.input, call.in.body}, ~ReadsStdin(call.in.fields)
        PROVE  call.body = Stdin
    <3>1. Stdin # NoWord
      BY Zenon DEF Stdin, NoWord
    <3> QED
      BY <2>5, <3>1 DEF AsAsked, BodyOf, BodyRefused
  <2>6. ASSUME AsAsked(call), call.in.host = "own"
        PROVE  ~(call.method = "DELETE" /\ call.in.route \in {"sessions", "sessions/id"})
    BY <2>6 DEF AsAsked, BlockRawDelete
  <2> QED
    BY <2>7, <2>3, <2>4, <2>5, <2>6 DEF AttemptsAreOne, ApiInv
<1> QED
  BY <1>1, <1>2, ApiStarts, PTL DEF ApiSpec

\* The objects of a file are items of it, and all of them if it has nothing else.
LEMMA ObjectsOfItems ==
  ASSUME NEW items \in Seq(FileItems)
  PROVE  /\ ObjectsOf(items) \in Seq(FileItems)
         /\ (\A n \in DOMAIN items : items[n] # NoObject) => ObjectsOf(items) = items
<1> DEFINE kept    == {n \in DOMAIN items : items[n] # NoObject}
           objects == CHOOSE f : KeepsPlaces(items, kept, f, Len(items))
<1>1. ObjectsOf(items) = objects[Len(items)]
  BY DEF ObjectsOf, KeepsPlaces
<1>2. KeepsPlaces(items, kept, objects, Len(items))
  <2>1. Len(items) \in Nat
    OBVIOUS
  <2> HIDE DEF kept
  <2> QED
    BY <2>1, KeepsExists
<1> HIDE DEF objects
<1>3. objects[Len(items)] \in Seq(FileItems) /\ (DOMAIN items \subseteq kept => objects[Len(items)] = items)
  BY <1>2, KeptOfSequence
<1> QED
  BY <1>1, <1>3

-----------------------------------------------------------------------------
(* Exports and uploads: what a run that nobody disturbs has read or sent so *)
(* far is a prefix of what it reads or sends.                              *)

DataSteps == {"start", "delete", "create", "upload", "export", "write", "exported", "done", "failed"}

DataRunShape ==
  [pc : DataSteps, of : 0 .. MaxDatasets, limit : Nat, page : Seq(Examples) \cup Seq(FileItems), again : Nat,
   alone : BOOLEAN, heard : BOOLEAN, copied : Seq(FileItems)]

Exporting == {"export", "write", "exported"}

RunShape(run) ==
  /\ run \in DataRunShape
  /\ run.pc \in Exporting \cup {"upload", "delete", "create"} => run.of \in DatasetIds
  /\ run.pc \in Exporting \cup {"create"} => run.page \in Seq(Examples)
  /\ run.pc = "create" => run.page # <<>>
  /\ run.pc = "upload" => run.page \in Seq(FileItems)

ReadSoFar(run, listed) ==
  /\ Len(run.page) <= Len(listed)
  /\ \A n \in 1 .. Len(run.page) : run.page[n] = listed[n]

ReadWhole(run, listed) ==
  /\ ReadSoFar(run, listed)
  /\ Len(run.page) = IF run.limit = 0 THEN Len(listed) ELSE Min({run.limit, Len(listed)})

Wrote(run, items) ==
  /\ Len(items) = Len(run.page)
  /\ \A n \in 1 .. Len(items) : items[n] = Exported(run.page[n])

\* The examples come from the first items of the file in reverse order: from as many
\* as were sent, and perhaps from the next one, about which no answer came yet.
CameFrom(from, listed, copied, sent) ==
  /\ from \in [1 .. Len(listed) -> 1 .. Len(copied)]
  /\ \A n \in 1 .. Len(listed) - 1 : from[n] - from[n + 1] \in {0, 1}
  /\ \A n \in 1 .. Len(listed) : Exported(listed[n]) = copied[from[n]]
  /\ Len(listed) # 0 => from[Len(listed)] = 1 /\ from[1] \in {sent, sent + 1}
  /\ Len(listed) = 0 => sent = 0

\* What is left is the rest of the file, and what was sent comes back in reverse,
\* each item once if every answer came.
SentSoFar(run, listed) ==
  LET sent == Len(run.copied) - Len(run.page)
  IN  /\ Len(run.page) <= Len(run.copied)
      /\ \A n \in 1 .. Len(run.page) : run.page[n] = run.copied[sent + n]
      /\ \E from : CameFrom(from, listed, run.copied, sent)
      /\ run.heard => Len(listed) = sent

WholeItem(item) == IsObject(item.inputs) /\ item.outputs # "text"

Told(run, listed, items) ==
  run.alone =>
    /\ run.pc = "export" => ReadSoFar(run, listed) /\ (run.limit = 0 \/ Len(run.page) <= run.limit)
    /\ run.pc \in {"write", "exported"} => ReadWhole(run, listed)
    /\ run.pc = "exported" => Wrote(run, items)
    /\ run.pc = "upload" /\ run.copied # <<>> => SentSoFar(run, listed)

Titles == {in.name : in \in DataInputs} \cup {NoTitle, "deleted"}

DatasetShape == [name : Titles, examples : Seq(Examples)]

FileShape == [kind : {"missing", "null", "array"}, items : Seq(FileItems), exported : BOOLEAN]

RunIsTold(run) ==
  /\ RunShape(run)
  /\ \A n \in DOMAIN run.copied : WholeItem(run.copied[n])
  /\ Told(run, datasets[run.of].examples, dataFile.items)

DataInv ==
  /\ datasets \in [DatasetIds -> DatasetShape]
  /\ dataFile \in FileShape
  /\ dataFile.exported => \A n \in DOMAIN dataFile.items : WholeItem(dataFile.items[n])
  /\ dataRuns = [r \in DataRuns |-> dataRuns[r]]
  /\ \A r \in DataRuns : RunIsTold(dataRuns[r])

\* A run that starts or ends has nothing to tell.
LEMMA RestingIsTold ==
  ASSUME NEW run \in DataRunShape, run.pc \in {"start", "done", "failed"}, NEW listed, NEW items
  PROVE  RunShape(run) /\ Told(run, listed, items)
BY DEF RunShape, Told, Exporting

LEMMA NoDataRunRests == NoDataRun \in DataRunShape /\ NoDataRun.pc = "start" /\ NoDataRun.copied = <<>> /\ NoDataRun.page = <<>>
                        /\ NoDataRun.alone
<1>1. 0 \in 0 .. MaxDatasets
  BY DataAssumption
<1>2. <<>> \in Seq(FileItems)
  OBVIOUS
<1> QED
  BY <1>1, <1>2 DEF NoDataRun, DataRunShape, DataSteps

\* A run that another disturbed keeps its shape, and has nothing to tell.
LEMMA DisturbedIsTold ==
  ASSUME NEW run, RunShape(run), NEW other, other = [run EXCEPT !.alone = FALSE], NEW listed, NEW items
  PROVE  RunShape(other) /\ other.copied = run.copied /\ other.of = run.of /\ Told(other, listed, items)
BY DEF RunShape, DataRunShape, Told

LEMMA DataStarts == DataInit => DataInv
<1> SUFFICES ASSUME DataInit PROVE DataInv
  OBVIOUS
<1>1. datasets \in [DatasetIds -> DatasetShape]
  BY DEF DataInit, NoDataset, DatasetShape, Titles
<1>2. dataFile \in FileShape /\ ~dataFile.exported
  <2>1. \A items \in Seq(FileItems) : \A state \in {"array", "missing"} :
          File(state, items, FALSE) \in FileShape /\ ~File(state, items, FALSE).exported
    BY DEF File, FileShape
  <2>2. <<>> \in Seq(FileItems) /\ UserFiles \subseteq Seq(FileItems)
    BY DataAssumption
  <2> QED
    BY <2>1, <2>2 DEF DataInit
<1>3. \A r \in DataRuns : RunIsTold(dataRuns[r])
  <2> TAKE r \in DataRuns
  <2>3. dataRuns[r] = NoDataRun
    BY DEF DataInit
  <2>4. /\ RunShape(dataRuns[r]) /\ dataRuns[r].copied = <<>>
        /\ Told(dataRuns[r], datasets[dataRuns[r].of].examples, dataFile.items)
    BY <2>3, RestingIsTold, NoDataRunRests
  <2> QED
    BY <2>4 DEF RunIsTold
<1>4. dataRuns = [r \in DataRuns |-> dataRuns[r]]
  BY DEF DataInit
<1> QED
  BY <1>1, <1>2, <1>3, <1>4 DEF DataInv

\* A step of one run: the others are disturbed, or see what they saw.
LEMMA StepIsTold ==
  ASSUME DataInv, NEW r \in DataRuns,
         datasets' \in [DatasetIds -> DatasetShape], dataFile' \in FileShape,
         dataFile'.exported => \A n \in DOMAIN dataFile'.items : WholeItem(dataFile'.items[n]),
         dataRuns' = [x \in DataRuns |-> dataRuns'[x]], RunIsTold(dataRuns[r])',
         \A x \in DataRuns \ {r} :
           \/ dataRuns'[x] = [dataRuns[x] EXCEPT !.alone = FALSE]
           \/ /\ dataRuns'[x] = dataRuns[x]
              /\ dataRuns[x].pc \in Exporting \cup {"upload"} =>
                   datasets'[dataRuns[x].of].examples = datasets[dataRuns[x].of].examples
              /\ dataRuns[x].pc = "exported" => dataFile'.items = dataFile.items
  PROVE  DataInv'
<1>1. ASSUME NEW x \in DataRuns \ {r}
      PROVE  RunIsTold(dataRuns[x])'
  <2>1. RunIsTold(dataRuns[x])
    BY DEF DataInv
  <2>2. CASE dataRuns'[x] = [dataRuns[x] EXCEPT !.alone = FALSE]
    <3>1. RunShape(dataRuns[x])
      BY <2>1 DEF RunIsTold
    <3>2. /\ RunShape(dataRuns'[x]) /\ dataRuns'[x].copied = dataRuns[x].copied
          /\ Told(dataRuns'[x], datasets'[dataRuns'[x].of].examples, dataFile'.items)
      BY <2>2, <3>1, DisturbedIsTold
    <3> QED
      BY <2>1, <3>2 DEF RunIsTold
  <2>3. CASE /\ dataRuns'[x] = dataRuns[x]
             /\ dataRuns[x].pc \in Exporting \cup {"upload"} =>
                  datasets'[dataRuns[x].of].examples = datasets[dataRuns[x].of].examples
             /\ dataRuns[x].pc = "exported" => dataFile'.items = dataFile.items
    <3>1. Told(dataRuns[x], datasets[dataRuns[x].of].examples, dataFile.items)
      BY <2>1 DEF RunIsTold
    <3>2. Told(dataRuns[x], datasets'[dataRuns[x].of].examples, dataFile'.items)
      BY <2>3, <3>1 DEF Told, Exporting
    <3> QED
      BY <2>1, <2>3, <3>2 DEF RunIsTold
  <2> QED
    BY <2>2, <2>3
<1>2. \A x \in DataRuns : RunIsTold(dataRuns[x])'
  BY <1>1
<1> QED
  BY <1>2 DEF DataInv

LEMMA SetIsTold ==
  ASSUME DataInv, NEW r \in DataRuns, NEW run, SetDataRun(r, run), UNCHANGED <<datasets, dataFile>>,
         RunShape(run), \A n \in DOMAIN run.copied : WholeItem(run.copied[n]),
         Told(run, datasets[run.of].examples, dataFile.items)
  PROVE  DataInv'
<1>1. dataRuns' = [x \in DataRuns |-> dataRuns'[x]] /\ dataRuns'[r] = run /\ \A x \in DataRuns \ {r} : dataRuns'[x] = dataRuns[x]
  BY DEF SetDataRun, DataInv
<1>2. RunIsTold(dataRuns[r])'
  BY <1>1 DEF RunIsTold
<1>3. /\ datasets' \in [DatasetIds -> DatasetShape] /\ dataFile' \in FileShape
      /\ dataFile'.exported => \A n \in DOMAIN dataFile'.items : WholeItem(dataFile'.items[n])
  BY DEF DataInv
<1> QED
  BY <1>1, <1>2, <1>3, StepIsTold

LEMMA ChangeIsTold ==
  ASSUME DataInv, NEW r \in DataRuns, NEW d \in DatasetIds, NEW set \in DatasetShape, NEW run, ChangedBy(r, d, run),
         datasets' = [datasets EXCEPT ![d] = set], UNCHANGED dataFile,
         RunShape(run), \A n \in DOMAIN run.copied : WholeItem(run.copied[n]),
         Told(run, datasets'[run.of].examples, dataFile.items)
  PROVE  DataInv'
<1>1. /\ dataRuns' = [x \in DataRuns |-> dataRuns'[x]] /\ dataRuns'[r] = run
      /\ \A x \in DataRuns \ {r} :
           dataRuns'[x] = IF dataRuns[x].of = d THEN [dataRuns[x] EXCEPT !.alone = FALSE] ELSE dataRuns[x]
  BY DEF ChangedBy
<1>2. RunIsTold(dataRuns[r])'
  BY <1>1 DEF RunIsTold
<1>3. /\ datasets' \in [DatasetIds -> DatasetShape] /\ dataFile' \in FileShape
      /\ dataFile'.exported => \A n \in DOMAIN dataFile'.items : WholeItem(dataFile'.items[n])
      /\ \A e \in DatasetIds \ {d} : datasets'[e] = datasets[e]
  BY DEF DataInv
<1>4. \A x \in DataRuns : dataRuns[x].pc \in Exporting \cup {"upload"} => dataRuns[x].of \in DatasetIds
  BY DEF DataInv, RunIsTold, RunShape
<1>5. ASSUME NEW x \in DataRuns \ {r}
      PROVE  \/ dataRuns'[x] = [dataRuns[x] EXCEPT !.alone = FALSE]
             \/ /\ dataRuns'[x] = dataRuns[x]
                /\ dataRuns[x].pc \in Exporting \cup {"upload"} =>
                     datasets'[dataRuns[x].of].examples = datasets[dataRuns[x].of].examples
                /\ dataRuns[x].pc = "exported" => dataFile'.items = dataFile.items
  BY <1>1, <1>3, <1>4
<1> QED
  BY <1>1, <1>2, <1>3, <1>5, StepIsTold

-----------------------------------------------------------------------------
\* Creating and deleting.

LEMMA EndRests ==
  ASSUME NEW r, NEW end \in LastOf(r)
  PROVE  /\ end \in DataRunShape /\ end.pc \in {"done", "failed"} /\ end.copied = <<>>
         /\ \A d \in DatasetIds : LET run == [end EXCEPT !.of = d]
                                  IN  run \in DataRunShape /\ run.pc \in {"done", "failed"} /\ run.copied = <<>>
<1>1. "done" \in DataSteps /\ "failed" \in DataSteps
  BY DEF DataSteps
<1>2. end \in DataRunShape /\ end.pc \in {"done", "failed"} /\ end.copied = <<>>
  <2>1. ASSUME NEW pc \in {"done", "failed"}
        PROVE  LET run == [NoDataRun EXCEPT !.pc = pc] IN run \in DataRunShape /\ run.pc = pc /\ run.copied = <<>>
    BY <1>1, NoDataRunRests DEF DataRunShape
  <2>2. end = [NoDataRun EXCEPT !.pc = "done"] \/ end = [NoDataRun EXCEPT !.pc = "failed"]
    BY DEF LastOf, EndData, FailedData
  <2> QED
    BY <2>1, <2>2
<1>3. \A d \in DatasetIds : d \in 0 .. MaxDatasets
  BY DataAssumption DEF DatasetIds
<1>4. ASSUME NEW d \in DatasetIds
      PROVE  LET run == [end EXCEPT !.of = d]
             IN  run \in DataRunShape /\ run.pc \in {"done", "failed"} /\ run.copied = <<>>
  BY <1>2, <1>3 DEF DataRunShape
<1> QED
  BY <1>2, <1>4

LEMMA NewIsEmpty ==
  ASSUME NEW in \in DataInputs
  PROVE  LET set == [NoDataset EXCEPT !.name = in.name] IN set \in DatasetShape /\ set.examples = <<>>
<1>1. in.name \in Titles
  BY DEF Titles
<1>2. <<>> \in Seq(Examples)
  OBVIOUS
<1> DEFINE name == in.name
<1>3. name \in Titles
  BY <1>1
<1> HIDE DEF name
<1>4. LET set == [NoDataset EXCEPT !.name = name] IN set \in DatasetShape /\ set.examples = <<>>
  BY <1>2, <1>3 DEF NoDataset, DatasetShape
<1> QED
  BY <1>4 DEF name

\* The run of a dataset that is new.
FirstOfNew(run, d) ==
  LET of == [run EXCEPT !.of = d]
  IN  /\ RunShape(of) /\ of.of = d /\ \A n \in DOMAIN of.copied : WholeItem(of.copied[n])
      /\ Told(of, <<>>, dataFile.items)

\* A dataset that is new is empty.
LEMMA NewDatasetKeeps ==
  ASSUME DataInv, NEW r \in DataRuns, NEW in \in DataInputs, NEW run, NewDataset(r, in, run), UNCHANGED dataFile,
         \A d \in DatasetIds : FirstOfNew(run, d)
  PROVE  DataInv'
<1>1. PICK d \in DatasetIds : /\ datasets[d] = NoDataset /\ datasets' = [datasets EXCEPT ![d].name = in.name]
                              /\ ChangedBy(r, d, [run EXCEPT !.of = d])
  BY DEF NewDataset
<1> DEFINE set == [NoDataset EXCEPT !.name = in.name]
           of  == [run EXCEPT !.of = d]
<1>2. set \in DatasetShape /\ set.examples = <<>>
  BY NewIsEmpty
<1>3. datasets' = [datasets EXCEPT ![d] = set] /\ datasets'[d] = set
  BY <1>1 DEF DataInv
<1>4. /\ RunShape(of) /\ of.of = d /\ \A n \in DOMAIN of.copied : WholeItem(of.copied[n])
      /\ Told(of, <<>>, dataFile.items)
  BY DEF FirstOfNew
<1> HIDE DEF set, of
<1>5. Told(of, datasets'[of.of].examples, dataFile.items)
  BY <1>2, <1>3, <1>4
<1>6. ChangedBy(r, d, of)
  BY <1>1 DEF of
<1> QED
  BY <1>2, <1>3, <1>4, <1>5, <1>6, ChangeIsTold

LEMMA RestsAreTold ==
  ASSUME NEW run \in DataRunShape, run.pc \in {"start", "delete", "create", "done", "failed"}, run.copied = <<>>,
         run.pc \in {"delete", "create"} => run.of \in DatasetIds,
         run.pc = "create" => run.page \in Seq(Examples) /\ run.page # <<>>, NEW listed, NEW items
  PROVE  RunShape(run) /\ Told(run, listed, items) /\ \A n \in DOMAIN run.copied : WholeItem(run.copied[n])
BY DEF RunShape, Told, Exporting

LEMMA EndsAreTold ==
  ASSUME NEW r, NEW end \in LastOf(r), NEW listed, NEW items
  PROVE  RunShape(end) /\ Told(end, listed, items) /\ \A n \in DOMAIN end.copied : WholeItem(end.copied[n])
BY EndRests, RestsAreTold

LEMMA DataFailsKeeps ==
  ASSUME DataInv, NEW r \in DataRuns, DataFails(r)
  PROVE  DataInv'
<1>1. SetDataRun(r, FailedData) /\ UNCHANGED <<datasets, dataFile>> /\ FailedData \in LastOf(r)
  BY DEF DataFails, LastOf
<1> QED
  BY <1>1, EndsAreTold, SetIsTold

\* A run that ended has nothing to tell of a dataset that is new.
LEMMA EndsOfNew ==
  ASSUME NEW r, NEW end \in LastOf(r), NEW d \in DatasetIds
  PROVE  FirstOfNew(end, d)
<1> DEFINE of == [end EXCEPT !.of = d]
<1>1. of \in DataRunShape /\ of.pc \in {"done", "failed"} /\ of.copied = <<>>
  BY EndRests
<1>2. of.of = d
  BY EndRests DEF DataRunShape
<1> HIDE DEF of
<1>3. RunShape(of) /\ Told(of, <<>>, dataFile.items) /\ \A n \in DOMAIN of.copied : WholeItem(of.copied[n])
  BY <1>1, RestsAreTold
<1> QED
  BY <1>2, <1>3 DEF FirstOfNew, of

LEMMA CreateDatasetKeeps ==
  ASSUME DataInv, NEW r \in DataRuns, NEW in \in DataInputs, CreateDataset(r, in)
  PROVE  DataInv'
<1>1. PICK end \in LastOf(r) : NewDataset(r, in, end)
  BY DEF CreateDataset
<1>2. UNCHANGED dataFile
  BY DEF CreateDataset
<1> QED
  BY <1>1, <1>2, EndsOfNew, NewDatasetKeeps

LEMMA ResolveToDeleteKeeps ==
  ASSUME DataInv, NEW r \in DataRuns, NEW in \in DataInputs, ResolveToDelete(r, in)
  PROVE  DataInv'
<1>1. PICK d \in ResolvedDataset(in.name) : SetDataRun(r, [NoDataRun EXCEPT !.pc = "delete", !.of = d])
  BY DEF ResolveToDelete
<1> DEFINE run == [NoDataRun EXCEPT !.pc = "delete", !.of = d]
<1>2. d \in DatasetIds /\ d \in 0 .. MaxDatasets
  BY DataAssumption DEF ResolvedDataset, DatasetIds
<1>3. run \in DataRunShape /\ run.pc = "delete" /\ run.of = d /\ run.copied = <<>>
  BY <1>2, NoDataRunRests DEF DataRunShape, DataSteps
<1>4. SetDataRun(r, run) /\ UNCHANGED <<datasets, dataFile>>
  BY <1>1 DEF ResolveToDelete
<1> HIDE DEF run
<1> QED
  BY <1>2, <1>3, <1>4, RestsAreTold, SetIsTold

\* Whatever a dataset becomes, a run that ends with it has nothing to tell.
LEMMA EndsWithKeeps ==
  ASSUME DataInv, NEW r \in DataRuns, NEW d \in DatasetIds, NEW set \in DatasetShape, NEW end \in LastOf(r),
         datasets' = [datasets EXCEPT ![d] = set], ChangedBy(r, d, end), UNCHANGED dataFile
  PROVE  DataInv'
<1>1. /\ RunShape(end) /\ \A n \in DOMAIN end.copied : WholeItem(end.copied[n])
      /\ Told(end, datasets'[end.of].examples, dataFile.items)
  BY EndsAreTold
<1> QED
  BY <1>1, ChangeIsTold

LEMMA DeleteDatasetKeeps ==
  ASSUME DataInv, NEW r \in DataRuns, DeleteDataset(r)
  PROVE  DataInv'
<1> DEFINE set == [name |-> "deleted", examples |-> <<>>]
           d   == dataRuns[r].of
<1>1. d \in DatasetIds
  BY DEF DeleteDataset, DataInv, RunIsTold, RunShape
<1>2. set \in DatasetShape
  <2>1. "deleted" \in Titles
    BY DEF Titles
  <2> QED
    BY <2>1 DEF DatasetShape
<1>3. PICK end \in LastOf(r) : ChangedBy(r, d, end)
  BY DEF DeleteDataset
<1>4. datasets' = [datasets EXCEPT ![d] = set] /\ UNCHANGED dataFile
  BY DEF DeleteDataset
<1> HIDE DEF set, d
<1> QED
  BY <1>1, <1>2, <1>3, <1>4, EndsWithKeeps

LEMMA ResolveToCreateKeeps ==
  ASSUME DataInv, NEW r \in DataRuns, NEW in \in DataInputs, ResolveToCreate(r, in)
  PROVE  DataInv'
<1> DEFINE example == in.example
<1>1. PICK d \in ResolvedDataset(in.name) : SetDataRun(r, [NoDataRun EXCEPT !.pc = "create", !.of = d, !.page = <<example>>])
  BY DEF ResolveToCreate
<1> DEFINE page == <<example>>
           run  == [NoDataRun EXCEPT !.pc = "create", !.of = d, !.page = page]
<1>2. d \in DatasetIds /\ d \in 0 .. MaxDatasets /\ example \in Examples
  BY DataAssumption DEF ResolvedDataset, DatasetIds
<1> HIDE DEF example
<1>3. page \in Seq(Examples) /\ page # <<>>
  BY <1>2
<1>4. SetDataRun(r, run) /\ UNCHANGED <<datasets, dataFile>>
  BY <1>1 DEF ResolveToCreate
<1> HIDE DEF page
<1>5. run \in DataRunShape /\ run.pc = "create" /\ run.of = d /\ run.copied = <<>> /\ run.page = page
  BY <1>2, <1>3, NoDataRunRests DEF DataRunShape, DataSteps
<1> HIDE DEF run
<1> QED
  BY <1>2, <1>3, <1>4, <1>5, RestsAreTold, SetIsTold

\* A run that makes a call again.
LEMMA AgainIsRun ==
  ASSUME NEW run \in DataRunShape
  PROVE  LET again == [run EXCEPT !.again = @ + 1, !.heard = FALSE]
         IN  /\ again \in DataRunShape /\ again.pc = run.pc /\ again.of = run.of /\ again.page = run.page
             /\ again.copied = run.copied /\ ~again.heard /\ again.alone = run.alone
<1> DEFINE times == run.again + 1
           again == [run EXCEPT !.again = times, !.heard = FALSE]
<1>1. times \in Nat
  BY DEF DataRunShape
<1> HIDE DEF times
<1>2. /\ again \in DataRunShape /\ again.pc = run.pc /\ again.of = run.of /\ again.page = run.page
      /\ again.copied = run.copied
  BY <1>1 DEF DataRunShape
<1>3. again.alone = run.alone
  BY Zenon DEF DataRunShape
<1>4. ~again.heard
  BY Zenon DEF DataRunShape
<1>5. again = [run EXCEPT !.again = run.again + 1, !.heard = FALSE]
  BY DEF times
<1> QED
  BY <1>2, <1>3, <1>4, <1>5

\* A call that makes an example: the run goes on, makes it again, or ends.
LEMMA MakeExampleKeeps ==
  ASSUME DataInv, NEW r \in DataRuns, NEW example \in Examples, NEW next, MakeExample(r, example, next),
         dataRuns[r].of \in DatasetIds, dataRuns[r].pc \in {"create", "upload"},
         RunShape(next), \A n \in DOMAIN next.copied : WholeItem(next.copied[n]), next.of = dataRuns[r].of \/ next \in LastOf(r),
         \A listed : listed = <<example>> \o datasets[dataRuns[r].of].examples =>
           /\ Told(next, listed, dataFile.items) \/ next \in LastOf(r)
           /\ dataRuns[r].alone /\ dataRuns[r].pc = "upload" /\ dataRuns[r].copied # <<>> =>
                SentSoFar([dataRuns[r] EXCEPT !.again = @ + 1, !.heard = FALSE], listed)
  PROVE  DataInv'
<1> DEFINE run    == dataRuns[r]
           d      == run.of
           listed == <<example>> \o datasets[d].examples
           set    == [datasets[d] EXCEPT !.examples = listed]
           again  == [run EXCEPT !.again = @ + 1, !.heard = FALSE]
<1>1. /\ run \in DataRunShape /\ RunShape(run) /\ d \in DatasetIds
      /\ \A n \in DOMAIN run.copied : WholeItem(run.copied[n])
  BY DEF DataInv, RunIsTold, RunShape
<1>2. datasets[d] \in DatasetShape /\ datasets[d].examples \in Seq(Examples)
  BY <1>1 DEF DataInv, DatasetShape
<1>3. listed \in Seq(Examples)
  BY <1>2
<1>4. datasets' = [datasets EXCEPT ![d].examples = listed] /\ UNCHANGED dataFile
  BY DEF MakeExample, AddExample
<1>5. ChangedBy(r, d, next) \/ ChangedBy(r, d, again) \/ ChangedBy(r, d, FailedData)
  BY DEF MakeExample
<1>6. \/ Told(next, listed, dataFile.items)
      \/ next \in LastOf(r)
  OBVIOUS
<1>7. run.alone /\ run.pc = "upload" /\ run.copied # <<>> => SentSoFar(again, listed)
  OBVIOUS
<1>8. /\ again \in DataRunShape /\ again.pc = run.pc /\ again.of = run.of /\ again.page = run.page
      /\ again.copied = run.copied /\ again.alone = run.alone
  BY <1>1, AgainIsRun
<1>9. run.pc \in {"create", "upload"} /\ (next.of = d \/ next \in LastOf(r))
  OBVIOUS
<1> HIDE DEF again, run, d, listed
<1>10. set \in DatasetShape /\ set.examples = listed
  BY <1>2, <1>3 DEF DatasetShape
<1>11. datasets' = [datasets EXCEPT ![d] = set] /\ datasets'[d] = set
  BY <1>1, <1>4 DEF DataInv
<1> HIDE DEF set
<1>12. ASSUME ChangedBy(r, d, again)
       PROVE  DataInv'
  <2>1. RunShape(again)
    BY <1>1, <1>8 DEF RunShape
  <2>2. again.of = d
    BY <1>8 DEF d
  <2>3. Told(again, datasets'[again.of].examples, dataFile.items)
    BY <1>7, <1>8, <1>9, <1>10, <1>11, <2>2 DEF Told
  <2> QED
    BY <1>1, <1>4, <1>8, <1>10, <1>11, <1>12, <2>1, <2>3, ChangeIsTold
<1>13. ASSUME NEW end \in LastOf(r), ChangedBy(r, d, end)
       PROVE  DataInv'
  BY <1>1, <1>4, <1>10, <1>11, <1>13, EndsWithKeeps
<1>14. ASSUME ChangedBy(r, d, next), next.of = d, Told(next, listed, dataFile.items)
       PROVE  DataInv'
  <2>1. Told(next, datasets'[next.of].examples, dataFile.items)
    BY <1>10, <1>11, <1>14
  <2> QED
    BY <1>1, <1>4, <1>10, <1>11, <1>14, <2>1, ChangeIsTold
<1>15. FailedData \in LastOf(r)
  BY DEF LastOf
<1> QED
  BY <1>5, <1>6, <1>9, <1>12, <1>13, <1>14, <1>15

LEMMA CreateExampleKeeps ==
  ASSUME DataInv, NEW r \in DataRuns, CreateExample(r)
  PROVE  DataInv'
<1> DEFINE run     == dataRuns[r]
           example == Head(run.page)
<1>1. run.pc = "create" /\ MakeExample(r, example, EndData(r))
  BY DEF CreateExample
<1>2. RunShape(run)
  BY DEF DataInv, RunIsTold
<1>3. run.of \in DatasetIds /\ run.page \in Seq(Examples) /\ run.page # <<>>
  BY <1>1, <1>2 DEF RunShape
<1> HIDE DEF run
<1>4. example \in Examples
  BY <1>3
<1>5. EndData(r) \in LastOf(r)
  BY DEF LastOf
<1>6. RunShape(EndData(r)) /\ \A n \in DOMAIN EndData(r).copied : WholeItem(EndData(r).copied[n])
  BY <1>5, EndsAreTold
<1> HIDE DEF example
<1> QED
  BY <1>1, <1>3, <1>4, <1>5, <1>6, MakeExampleKeeps DEF run

LEMMA DeleteExampleKeeps ==
  ASSUME DataInv, NEW r \in DataRuns, NEW in \in DataInputs, DeleteExample(r, in)
  PROVE  DataInv'
<1>0. PICK d \in ResolvedDataset(in.name) : \E n \in DOMAIN datasets[d].examples :
        datasets' = [datasets EXCEPT ![d].examples = RemoveAt(@, n)] /\ \E end \in LastOf(r) : ChangedBy(r, d, end)
  BY DEF DeleteExample
<1>1. PICK n \in DOMAIN datasets[d].examples :
        datasets' = [datasets EXCEPT ![d].examples = RemoveAt(@, n)] /\ \E end \in LastOf(r) : ChangedBy(r, d, end)
  BY <1>0
<1> DEFINE set == [datasets[d] EXCEPT !.examples = RemoveAt(@, n)]
<1>2. d \in DatasetIds /\ datasets[d] \in DatasetShape
  BY DEF ResolvedDataset, DataInv
<1>3. set \in DatasetShape
  <2>1. datasets[d].examples \in Seq(Examples)
    BY <1>2 DEF DatasetShape
  <2>2. RemoveAt(datasets[d].examples, n) \in Seq(Examples)
    BY <1>1, <2>1 DEF RemoveAt
  <2> QED
    BY <1>2, <2>2 DEF DatasetShape
<1>4. datasets' = [datasets EXCEPT ![d] = set]
  BY <1>1
<1>5. PICK end \in LastOf(r) : ChangedBy(r, d, end)
  BY <1>1
<1>6. UNCHANGED dataFile
  BY DEF DeleteExample
<1> HIDE DEF set
<1> QED
  BY <1>2, <1>3, <1>4, <1>5, <1>6, EndsWithKeeps

-----------------------------------------------------------------------------
\* Uploading.

LEMMA ReadFileKeeps ==
  ASSUME DataInv, NEW r \in DataRuns, NEW in \in DataInputs, ReadFile(r, in)
  PROVE  DataInv'
<1> DEFINE page   == ObjectsOf(dataFile.items)
           copied == IF dataFile.exported THEN dataFile.items ELSE <<>>
           run    == [NoDataRun EXCEPT !.pc = "upload", !.page = page, !.copied = copied]
<1>1. (NewDataset(r, in, run) \/ NewDataset(r, in, FailedData)) /\ UNCHANGED dataFile
  BY DEF ReadFile
<1>2. dataFile.items \in Seq(FileItems) /\ dataFile.exported \in BOOLEAN
  BY DEF DataInv, FileShape
<1>3. /\ page \in Seq(FileItems) /\ copied \in Seq(FileItems)
      /\ \A n \in DOMAIN copied : WholeItem(copied[n])
      /\ copied # <<>> => page = copied
  <2>1. page \in Seq(FileItems)
    BY <1>2, ObjectsOfItems
  <2>2. CASE dataFile.exported
    <3>1. \A n \in DOMAIN dataFile.items : WholeItem(dataFile.items[n])
      BY <2>2 DEF DataInv
    <3>2. \A n \in DOMAIN dataFile.items : dataFile.items[n] # NoObject
      <4>1. ~WholeItem(NoObject)
        BY DEF WholeItem, IsObject, NoObject, Item
      <4> QED
        BY <3>1, <4>1
    <3>3. page = dataFile.items
      BY <1>2, <3>2, ObjectsOfItems
    <3> QED
      BY <1>2, <2>1, <2>2, <3>1, <3>3
  <2>3. CASE ~dataFile.exported
    BY <2>1, <2>3
  <2> QED
    BY <2>2, <2>3
<1> HIDE DEF page, copied
<1>4. ASSUME NEW d \in DatasetIds
      PROVE  FirstOfNew(run, d)
  <2> DEFINE of == [run EXCEPT !.of = d]
  <2>1. d \in 0 .. MaxDatasets /\ "upload" \in DataSteps
    BY DataAssumption DEF DatasetIds, DataSteps
  <2>2. of \in DataRunShape /\ of.pc = "upload" /\ of.of = d /\ of.page = page /\ of.copied = copied
    BY <1>3, <2>1, NoDataRunRests DEF DataRunShape
  <2> HIDE DEF of, run
  <2>3. RunShape(of) /\ \A n \in DOMAIN of.copied : WholeItem(of.copied[n])
    BY <1>3, <2>2 DEF RunShape, Exporting
  <2>4. copied # <<>> => SentSoFar(of, <<>>)
    <3>1. SUFFICES ASSUME copied # <<>> PROVE SentSoFar(of, <<>>)
      OBVIOUS
    <3>2. of.page = of.copied /\ Len(of.copied) \in Nat /\ Len(<<>>) = 0
      BY <1>3, <2>2, <3>1
    <3>3. Len(of.copied) - Len(of.page) = 0
      BY <3>2
    <3>4. \A n \in 1 .. Len(of.page) : of.page[n] = of.copied[0 + n]
      BY <3>2
    <3>5. CameFrom([n \in 1 .. Len(<<>>) |-> 1], <<>>, of.copied, 0)
      BY <3>2 DEF CameFrom
    <3> QED
      BY <3>2, <3>3, <3>4, <3>5 DEF SentSoFar
  <2>5. Told(of, <<>>, dataFile.items)
    BY <2>2, <2>4 DEF Told
  <2> QED
    BY <2>2, <2>3, <2>5 DEF FirstOfNew, of
<1>5. FailedData \in LastOf(r)
  BY DEF LastOf
<1> HIDE DEF run
<1> QED
  BY <1>1, <1>4, <1>5, EndsOfNew, NewDatasetKeeps

\* An object is uploaded as it was exported.
LEMMA UploadedIsExported ==
  ASSUME NEW item \in FileItems
  PROVE  Uploaded(item) \in Examples /\ (WholeItem(item) => Exported(Uploaded(item)) = item)
<1>1. Uploaded(item) \in Examples
  <2> DEFINE inputs  == IF IsObject(item.inputs) THEN item.inputs ELSE "item"
             outputs == IF IsObject(item.outputs) THEN item.outputs ELSE "none"
  <2>1. /\ item.inputs \in Objects \cup {"none", "text"} /\ item.outputs \in Objects \cup {"none", "text"}
        /\ "item" \in Objects
    BY DEF FileItems, Objects
  <2>2. inputs \in Objects
    BY <2>1 DEF IsObject
  <2>3. outputs \in Objects \cup {"none"}
    BY <2>1 DEF IsObject
  <2> HIDE DEF inputs, outputs
  <2>4. [inputs |-> inputs, outputs |-> outputs, split |-> "none"] \in Examples
    BY <2>2, <2>3 DEF Examples
  <2> QED
    BY <2>4 DEF Uploaded, Example, inputs, outputs
<1>2. ASSUME WholeItem(item)
      PROVE  Exported(Uploaded(item)) = item
  <2>1. Uploaded(item).inputs = item.inputs /\ Uploaded(item).outputs = item.outputs
    BY <1>2 DEF WholeItem, Uploaded, Example, IsObject
  <2>2. item = [inputs |-> item.inputs, outputs |-> item.outputs]
    BY DEF FileItems
  <2> QED
    BY <2>1, <2>2 DEF Exported, Item
<1> QED
  BY <1>1, <1>2

\* No output of an example is a text.
LEMMA ExportedIsWhole ==
  ASSUME NEW example \in Examples
  PROVE  Exported(example) \in FileItems /\ WholeItem(Exported(example))
BY DEF Exported, Item, Examples, FileItems, WholeItem, IsObject, Objects

\* One example more, made from the next item: it may be the answer's or not.
LEMMA ListedOneMore ==
  ASSUME NEW copied \in Seq(FileItems), NEW listed \in Seq(Examples), NEW example \in Examples, NEW sent \in Nat,
         sent + 1 <= Len(copied), Exported(example) = copied[sent + 1], NEW from, CameFrom(from, listed, copied, sent)
  PROVE  /\ \E to : CameFrom(to, <<example>> \o listed, copied, sent)
         /\ \E to : CameFrom(to, <<example>> \o listed, copied, sent + 1)
<1> DEFINE after == <<example>> \o listed
           L     == Len(listed)
           N     == Len(copied)
           to    == [n \in 1 .. L + 1 |-> IF n = 1 THEN sent + 1 ELSE from[n - 1]]
<1>1. L \in Nat /\ N \in Nat /\ sent + 1 \in 1 .. N
  OBVIOUS
<1>2. Len(after) = L + 1 /\ after[1] = example /\ \A n \in 2 .. L + 1 : after[n] = listed[n - 1]
  BY <1>1
<1>3. /\ from \in [1 .. L -> 1 .. N]
      /\ \A n \in 1 .. L - 1 : from[n] - from[n + 1] \in {0, 1}
      /\ \A n \in 1 .. L : Exported(listed[n]) = copied[from[n]]
      /\ L # 0 => from[L] = 1 /\ from[1] \in {sent, sent + 1}
      /\ L = 0 => sent = 0
  BY DEF CameFrom
<1> HIDE DEF L, N, after
<1>4. to \in [1 .. L + 1 -> 1 .. N] /\ to[1] = sent + 1 /\ \A n \in 2 .. L + 1 : to[n] = from[n - 1]
  <2>1. \A n \in 1 .. L + 1 : n # 1 => n - 1 \in 1 .. L
    BY <1>1
  <2> QED
    BY <1>1, <1>3, <2>1
<1> HIDE DEF to
<1>5. ASSUME NEW n \in 1 .. L
      PROVE  to[n] - to[n + 1] \in {0, 1}
  <2>1. CASE n = 1
    <3>1. to[2] = from[1] /\ from[1] \in {sent, sent + 1} /\ to[1] = sent + 1
      BY <1>1, <1>3, <1>4
    <3> QED
      BY <2>1, <3>1
  <2>2. CASE n \in 2 .. L
    <3>1. n - 1 \in 1 .. L - 1 /\ (n - 1) + 1 = n /\ (n + 1) - 1 = n
      BY <1>1, <2>2
    <3>2. from[n - 1] - from[n] \in {0, 1}
      BY <1>3, <3>1
    <3>3. to[n] = from[n - 1] /\ to[n + 1] = from[n]
      BY <1>1, <1>4, <2>2, <3>1
    <3> QED
      BY <3>2, <3>3
  <2> QED
    BY <1>1, <2>1, <2>2
<1>6. ASSUME NEW n \in 1 .. L + 1
      PROVE  Exported(after[n]) = copied[to[n]]
  <2>1. CASE n = 1
    BY <1>2, <1>4, <2>1
  <2>2. CASE n \in 2 .. L + 1
    <3>1. n - 1 \in 1 .. L /\ after[n] = listed[n - 1] /\ to[n] = from[n - 1]
      BY <1>1, <1>2, <1>4, <2>2
    <3> QED
      BY <1>3, <3>1
  <2> QED
    BY <1>1, <2>1, <2>2
<1>7. to[L + 1] = 1
  <2>1. CASE L = 0
    BY <1>3, <1>4, <2>1
  <2>2. CASE L # 0
    <3>1. L + 1 \in 2 .. L + 1 /\ (L + 1) - 1 = L
      BY <1>1, <2>2
    <3> QED
      BY <1>3, <1>4, <2>2, <3>1
  <2> QED
    BY <2>1, <2>2
<1>8. ASSUME NEW k \in {sent, sent + 1}
      PROVE  CameFrom(to, after, copied, k)
  <2>1. to[1] \in {k, k + 1} /\ (L + 1) - 1 = L /\ L + 1 # 0
    BY <1>1, <1>4
  <2> QED
    BY <1>2, <1>4, <1>5, <1>6, <1>7, <2>1 DEF CameFrom, N
<1> QED
  BY <1>8 DEF after

LEMMA SentOneMore ==
  ASSUME NEW run \in DataRunShape, run.page \in Seq(FileItems), run.page # <<>>, NEW listed \in Seq(Examples),
         SentSoFar(run, listed), \A n \in DOMAIN run.copied : WholeItem(run.copied[n]),
         NEW more \in DataRunShape, more.page = Tail(run.page), more.copied = run.copied, more.heard => run.heard,
         NEW again \in DataRunShape, again.page = run.page, again.copied = run.copied, ~again.heard
  PROVE  LET after == <<Uploaded(Head(run.page))>> \o listed IN SentSoFar(more, after) /\ SentSoFar(again, after)
<1> DEFINE item    == Head(run.page)
           example == Uploaded(item)
           after   == <<example>> \o listed
           L       == Len(listed)
           P       == Len(run.page)
           N       == Len(run.copied)
           sent    == N - P
           copied  == run.copied
<1>1. copied \in Seq(FileItems) /\ N \in Nat /\ P \in Nat \ {0} /\ L \in Nat
  BY DEF DataRunShape
<1>2. item \in FileItems /\ item = run.page[1] /\ \A n \in 1 .. P : run.page[n] \in FileItems
  OBVIOUS
<1>3. /\ P <= N /\ \A n \in 1 .. P : run.page[n] = copied[sent + n]
      /\ \E from : CameFrom(from, listed, copied, sent)
      /\ run.heard => L = sent
  BY DEF SentSoFar
<1>4. Len(more.page) = P - 1 /\ \A n \in 1 .. P - 1 : more.page[n] = run.page[n + 1]
  <2>1. run.page \in Seq(FileItems) /\ run.page # <<>>
    OBVIOUS
  <2>2. Len(Tail(run.page)) = Len(run.page) - 1 /\ \A n \in 1 .. Len(run.page) - 1 : Tail(run.page)[n] = run.page[n + 1]
    BY <2>1
  <2> QED
    BY <2>2
<1> HIDE DEF L, P, N
<1>5. sent \in Nat /\ sent + 1 <= N /\ sent + 1 \in 1 .. N /\ N - (P - 1) = sent + 1
  BY <1>1, <1>3
<1> HIDE DEF sent, item
<1>6. item = copied[sent + 1]
  BY <1>1, <1>2, <1>3
<1>7. WholeItem(item)
  <2>1. sent + 1 \in DOMAIN copied
    BY <1>1, <1>5 DEF N
  <2> QED
    BY <1>6, <2>1
<1>8. example \in Examples /\ Exported(example) = item
  BY <1>2, <1>7, UploadedIsExported
<1> HIDE DEF example
<1>9. (\E to : CameFrom(to, after, copied, sent)) /\ (\E to : CameFrom(to, after, copied, sent + 1))
  <2>1. PICK from : CameFrom(from, listed, copied, sent)
    BY <1>3
  <2>2. Exported(example) = copied[sent + 1] /\ sent + 1 <= Len(copied) /\ sent \in Nat /\ copied \in Seq(FileItems)
    BY <1>1, <1>5, <1>6, <1>8 DEF N
  <2> QED
    BY <1>8, <2>1, <2>2, ListedOneMore
<1>10. Len(after) = L + 1
  BY <1>1, <1>8 DEF L
<1> HIDE DEF after
<1>11. SentSoFar(again, after)
  <2>1. Len(again.copied) = N /\ Len(again.page) = P /\ N - P = sent
    BY DEF N, P, sent
  <2>2. \A n \in 1 .. P : again.page[n] = again.copied[sent + n]
    BY <1>3
  <2>3. \E to : CameFrom(to, after, again.copied, sent)
    BY <1>9
  <2> QED
    BY <1>3, <2>1, <2>2, <2>3 DEF SentSoFar
<1>12. SentSoFar(more, after)
  <2>1. Len(more.copied) = N /\ Len(more.page) = P - 1 /\ Len(more.copied) - Len(more.page) = sent + 1 /\ P - 1 <= N
    <3>1. Len(more.copied) = N
      BY DEF N
    <3>2. N \in Nat /\ P \in Nat \ {0} /\ P <= N /\ N - (P - 1) = sent + 1
      BY <1>1, <1>3, <1>5 DEF N
    <3>3. P - 1 <= N
      BY <3>2
    <3> QED
      BY <1>4, <3>1, <3>2, <3>3
  <2>2. ASSUME NEW n \in 1 .. P - 1
        PROVE  more.page[n] = more.copied[(sent + 1) + n]
    <3>1. n + 1 \in 1 .. P /\ (sent + 1) + n = sent + (n + 1)
      BY <1>1, <1>5
    <3>2. run.page[n + 1] = copied[sent + (n + 1)]
      BY <1>3, <3>1
    <3> QED
      BY <1>4, <3>1, <3>2
  <2>3. \E to : CameFrom(to, after, more.copied, sent + 1)
    BY <1>9
  <2>4. more.heard => Len(after) = sent + 1
    BY <1>3, <1>10
  <2> QED
    BY <2>1, <2>2, <2>3, <2>4 DEF SentSoFar
<1> QED
  BY <1>11, <1>12 DEF after, example, item

LEMMA UploadExampleKeeps ==
  ASSUME DataInv, NEW r \in DataRuns, UploadExample(r)
  PROVE  DataInv'
<1> DEFINE run     == dataRuns[r]
           d       == run.of
           example == Uploaded(Head(run.page))
           more    == [run EXCEPT !.page = Tail(@), !.again = 0]
           again   == [run EXCEPT !.again = @ + 1, !.heard = FALSE]
<1>1. /\ run \in DataRunShape /\ run.pc = "upload" /\ run.page \in Seq(FileItems) /\ run.page # <<>> /\ d \in DatasetIds
      /\ \A n \in DOMAIN run.copied : WholeItem(run.copied[n])
      /\ Told(run, datasets[d].examples, dataFile.items)
  BY DEF UploadExample, DataInv, RunIsTold, RunShape
<1>2. datasets[d].examples \in Seq(Examples)
  BY <1>1 DEF DataInv, DatasetShape
<1>3. example \in Examples
  BY <1>1, UploadedIsExported
<1>4. MakeExample(r, example, more)
  BY DEF UploadExample
<1>5. /\ more \in DataRunShape /\ more.pc = "upload" /\ more.of = d /\ more.page = Tail(run.page) /\ more.copied = run.copied
      /\ more.alone = run.alone /\ more.heard = run.heard /\ more.page \in Seq(FileItems)
  <2>1. Tail(run.page) \in Seq(FileItems) /\ 0 \in Nat
    BY <1>1
  <2>2. run \in DataRunShape
    BY <1>1
  <2> HIDE DEF run
  <2>3. more \in DataRunShape /\ more.pc = run.pc /\ more.of = run.of /\ more.page = Tail(run.page) /\ more.copied = run.copied
    BY <2>1, <2>2 DEF DataRunShape
  <2>4. more.alone = run.alone
    BY <2>2, Zenon DEF DataRunShape
  <2>5. more.heard = run.heard
    BY <2>2, Zenon DEF DataRunShape
  <2> QED
    BY <1>1, <2>1, <2>3, <2>4, <2>5
<1>6. /\ again \in DataRunShape /\ again.page = run.page /\ again.copied = run.copied /\ ~again.heard
  BY <1>1, AgainIsRun
<1> HIDE DEF more, again
<1>7. RunShape(more)
  BY <1>1, <1>5 DEF RunShape, Exporting
<1>8. ASSUME run.alone, run.copied # <<>>
      PROVE  LET listed == <<example>> \o datasets[d].examples IN SentSoFar(more, listed) /\ SentSoFar(again, listed)
  <2>1. SentSoFar(run, datasets[d].examples)
    BY <1>1, <1>8 DEF Told
  <2> HIDE DEF run
  <2> QED
    BY <1>1, <1>2, <1>5, <1>6, <2>1, SentOneMore
<1> HIDE DEF example, run, d
<1>9. ASSUME NEW listed, listed = <<example>> \o datasets[d].examples
      PROVE  /\ Told(more, listed, dataFile.items)
             /\ run.alone /\ run.pc = "upload" /\ run.copied # <<>> => SentSoFar(again, listed)
  <2>1. run.alone /\ run.copied # <<>> => SentSoFar(more, listed) /\ SentSoFar(again, listed)
    BY <1>8, <1>9
  <2> QED
    BY <1>5, <2>1 DEF Told
<1>10. \A n \in DOMAIN more.copied : WholeItem(more.copied[n])
  BY <1>1, <1>5
<1> QED
  BY <1>1, <1>3, <1>4, <1>5, <1>7, <1>9, <1>10, MakeExampleKeeps DEF run, d, again

LEMMA EndsAloneKeeps ==
  ASSUME DataInv, NEW r \in DataRuns, SetDataRun(r, EndData(r)), UNCHANGED <<datasets, dataFile>>
  PROVE  DataInv'
<1>1. EndData(r) \in LastOf(r)
  BY DEF LastOf
<1> QED
  BY <1>1, EndsAreTold, SetIsTold

-----------------------------------------------------------------------------
\* Exporting.

\* What has been read with a page, as `ExportPage' has it.
GotWith(read, limit) == IF limit = 0 THEN read ELSE SubSeq(read, 1, Min({limit, Len(read)}))

LEMMA GotIsPrefix ==
  ASSUME NEW read \in Seq(Examples), NEW limit \in Nat
  PROVE  LET got == GotWith(read, limit)
         IN  /\ got \in Seq(Examples)
             /\ Len(got) = IF limit = 0 THEN Len(read) ELSE IF limit <= Len(read) THEN limit ELSE Len(read)
             /\ \A n \in 1 .. Len(got) : got[n] = read[n]
<1> DEFINE R == Len(read)
           e == Min({limit, R})
           got == GotWith(read, limit)
<1>1. R \in Nat /\ \A i \in 1 .. R : read[i] \in Examples
  OBVIOUS
<1>2. e = IF limit <= R THEN limit ELSE R
  BY <1>1, MinOfTwo
<1>3. got = IF limit = 0 THEN read ELSE SubSeq(read, 1, e)
  BY DEF GotWith
<1> HIDE DEF got, e, R
<1>4. CASE limit = 0
  BY <1>3, <1>4 DEF got, R
<1>5. CASE limit # 0
  <2>1. e \in Nat /\ e <= R /\ \A i \in 1 .. e : read[i] \in Examples
    BY <1>1, <1>2
  <2>2. got \in Seq(Examples) /\ Len(got) = (IF 1 <= e THEN e - 1 + 1 ELSE 0) /\ \A i \in 1 .. e - 1 + 1 : got[i] = read[1 + i - 1]
    BY <1>3, <1>5, <2>1, SubSeqProperties
  <2>3. Len(got) = e /\ \A i \in 1 .. e : got[i] = read[i]
    <3>1. Len(got) = e
      BY <2>1, <2>2
    <3>2. \A i \in 1 .. e : i \in 1 .. e - 1 + 1 /\ 1 + i - 1 = i
      BY <2>1
    <3> QED
      BY <2>2, <3>1, <3>2
  <2> QED
    BY <1>2, <1>5, <2>2, <2>3 DEF got, R
<1> QED
  BY <1>4, <1>5

\* What was read with one page more.
LEMMA ReadOneMore ==
  ASSUME NEW all \in Seq(Examples), NEW run \in DataRunShape, run.page \in Seq(Examples), NEW size \in Nat \ {0},
         NEW more \in DataRunShape, more.limit = run.limit,
         more.page = GotWith(run.page \o PageAt(all, Len(run.page), size), run.limit),
         ReadSoFar(run, all), run.limit = 0 \/ Len(run.page) <= run.limit
  PROVE  /\ ReadSoFar(more, all) /\ (run.limit = 0 \/ Len(more.page) <= run.limit)
         /\ PageAt(all, Len(run.page), size) = <<>> \/ Len(more.page) = run.limit => ReadWhole(more, all)
<1> DEFINE old   == run.page
           limit == run.limit
           page  == PageAt(all, Len(run.page), size)
           read  == old \o page
           got   == more.page
           A     == Len(all)
           L     == Len(old)
           P     == Len(page)
<1>1. limit \in Nat /\ L \in Nat /\ A \in Nat /\ L <= A /\ (limit = 0 \/ L <= limit)
      /\ \A n \in 1 .. L : old[n] = all[n]
  <2>1. limit \in Nat
    BY DEF DataRunShape
  <2>2. L \in Nat /\ A \in Nat
    OBVIOUS
  <2>3. L <= A /\ \A n \in 1 .. L : old[n] = all[n]
    BY DEF ReadSoFar
  <2> QED
    BY <2>1, <2>2, <2>3
<1>2. /\ page \in Seq(Examples) /\ P \in Nat /\ L + P <= A /\ (page = <<>> => L = A)
      /\ \A n \in 1 .. P : page[n] = all[L + n]
  <2>1. /\ page \in Seq(Examples)
        /\ L <= A => /\ L + P <= A
                     /\ \A n \in 1 .. P : page[n] = all[L + n]
                     /\ page = <<>> => L = A
    <3>1. L \in Nat /\ page = PageAt(all, L, size)
      BY <1>1
    <3> HIDE DEF L, A, P, page
    <3>2. /\ page \in Seq(Examples)
          /\ L <= Len(all) => /\ L + Len(page) <= Len(all)
                              /\ \A n \in 1 .. Len(page) : page[n] = all[L + n]
                              /\ page = <<>> => L = Len(all)
      BY <3>1, PageIsNext
    <3> QED
      BY <3>2 DEF A, P
  <2> HIDE DEF page
  <2>2. P \in Nat
    BY <2>1
  <2> QED
    BY <1>1, <2>1, <2>2
<1> HIDE DEF page
<1>3. read \in Seq(Examples) /\ Len(read) = L + P /\ \A n \in 1 .. L + P : read[n] = all[n]
  <2>1. read \in Seq(Examples) /\ Len(read) = L + P
    BY <1>2
  <2>2. ASSUME NEW n \in 1 .. L + P
        PROVE  read[n] = all[n]
    <3>1. CASE n <= L
      BY <1>1, <1>2, <3>1
    <3>2. CASE n > L
      <4>1. n - L \in 1 .. P /\ L + (n - L) = n
        BY <1>1, <1>2, <3>2
      <4>2. read[n] = page[n - L]
        BY <1>2, <3>2, <4>1
      <4> QED
        BY <1>2, <4>1, <4>2
    <3> QED
      BY <1>1, <1>2, <3>1, <3>2
  <2> QED
    BY <2>1, <2>2
<1> HIDE DEF read
<1>4. /\ got \in Seq(Examples) /\ Len(got) = (IF limit = 0 THEN L + P ELSE IF limit <= L + P THEN limit ELSE L + P)
      /\ \A n \in 1 .. Len(got) : got[n] = read[n]
  <2>1. got = GotWith(read, limit)
    BY DEF read, page
  <2> QED
    BY <1>1, <1>3, <2>1, GotIsPrefix
<1> DEFINE G == Len(got)
<1>5. G \in Nat /\ G <= L + P /\ (limit = 0 \/ G <= limit)
  BY <1>1, <1>2, <1>4
<1>6. ReadSoFar(more, all)
  BY <1>1, <1>2, <1>3, <1>4, <1>5 DEF ReadSoFar
<1>7. Min({limit, A}) = IF limit <= A THEN limit ELSE A
  BY <1>1, MinOfTwo
<1>8. ASSUME page = <<>> \/ G = limit
      PROVE  G = IF limit = 0 THEN A ELSE IF limit <= A THEN limit ELSE A
  <2>1. (page = <<>> => P = 0 /\ L = A) /\ (P = 0 => page = <<>>)
    BY <1>2
  <2>2. G = IF limit = 0 THEN L + P ELSE IF limit <= L + P THEN limit ELSE L + P
    BY <1>4
  <2>3. L \in Nat /\ A \in Nat /\ P \in Nat /\ L + P <= A /\ limit \in Nat /\ (limit = 0 \/ L <= limit)
    BY <1>1, <1>2
  <2> HIDE DEF G, L, P, A, limit
  <2>4. CASE page = <<>>
    BY <2>1, <2>2, <2>3, <2>4
  <2>5. CASE G = limit /\ limit # 0
    BY <2>2, <2>3, <2>5
  <2>6. CASE G = limit /\ limit = 0
    BY <2>1, <2>2, <2>3, <2>4, <2>6
  <2> QED
    BY <1>8, <2>4, <2>5, <2>6
<1> QED
  BY <1>5, <1>6, <1>7, <1>8 DEF ReadWhole, page

LEMMA StartExportKeeps ==
  ASSUME DataInv, NEW r \in DataRuns, NEW in \in DataInputs, StartExport(r, in)
  PROVE  DataInv'
<1>1. PICK d \in ResolvedDataset(in.name) : SetDataRun(r, [NoDataRun EXCEPT !.pc = "export", !.of = d, !.limit = in.limit])
  BY DEF StartExport
<1> DEFINE limit == in.limit
           run   == [NoDataRun EXCEPT !.pc = "export", !.of = d, !.limit = limit]
<1>2. d \in DatasetIds /\ d \in 0 .. MaxDatasets /\ limit \in Nat /\ "export" \in DataSteps
  BY DataAssumption DEF ResolvedDataset, DatasetIds, DataSteps
<1>3. SetDataRun(r, run) /\ UNCHANGED <<datasets, dataFile>>
  BY <1>1 DEF StartExport
<1> HIDE DEF limit
<1>4. /\ run \in DataRunShape /\ run.pc = "export" /\ run.of = d /\ run.limit = limit /\ run.page = <<>> /\ run.copied = <<>>
  BY <1>2, NoDataRunRests DEF DataRunShape
<1> HIDE DEF run
<1>5. RunShape(run) /\ \A n \in DOMAIN run.copied : WholeItem(run.copied[n])
  BY <1>2, <1>4 DEF RunShape, Exporting
<1>6. Told(run, datasets[run.of].examples, dataFile.items)
  <2>1. Len(datasets[d].examples) \in Nat
    BY <1>2 DEF DataInv, DatasetShape
  <2>2. ReadSoFar(run, datasets[run.of].examples) /\ (run.limit = 0 \/ Len(run.page) <= run.limit)
    BY <1>2, <1>4, <2>1 DEF ReadSoFar
  <2> QED
    BY <1>4, <2>2 DEF Told
<1> QED
  BY <1>3, <1>5, <1>6, SetIsTold

LEMMA ExportPageKeeps ==
  ASSUME DataInv, NEW r \in DataRuns, ExportPage(r)
  PROVE  DataInv'
<1> DEFINE run  == dataRuns[r]
           all  == datasets[run.of].examples
           size == IF run.limit = 0 THEN ExamplePage ELSE Min({run.limit, ExamplePage})
           page == PageAt(all, Len(run.page), size)
           got  == GotWith(run.page \o page, run.limit)
           pc   == IF page = <<>> \/ Len(got) = run.limit THEN "write" ELSE run.pc
           more == [run EXCEPT !.page = got, !.pc = pc]
<1>1. /\ run \in DataRunShape /\ run.pc = "export" /\ run.page \in Seq(Examples) /\ run.of \in DatasetIds /\ run.limit \in Nat
      /\ \A n \in DOMAIN run.copied : WholeItem(run.copied[n])
      /\ Told(run, all, dataFile.items)
  BY DEF ExportPage, DataInv, RunIsTold, RunShape, Exporting, DataRunShape
<1>2. all \in Seq(Examples)
  BY <1>1 DEF DataInv, DatasetShape
<1>3. size \in Nat \ {0}
  BY ONLY <1>1, DataAssumption, MinOfTwo, SMTT(20)
<1>4. SetDataRun(r, more) /\ UNCHANGED <<datasets, dataFile>>
  BY DEF ExportPage, PageAt, GotWith
<1>5. page \in Seq(Examples) /\ run.page \o page \in Seq(Examples)
  <2>1. page \in Seq(Examples)
    BY <1>1, <1>2, <1>3, PageIsNext
  <2> HIDE DEF page
  <2> QED
    BY <1>1, <2>1
<1>6. got \in Seq(Examples)
  <2> HIDE DEF page
  <2> QED
    BY <1>1, <1>5, GotIsPrefix
<1> HIDE DEF got
<1>7. pc \in {"export", "write"} /\ (pc = "write" => page = <<>> \/ Len(got) = run.limit)
  BY <1>1
<1> HIDE DEF page, size, pc
<1>8. /\ more \in DataRunShape /\ more.pc = pc /\ more.page = got /\ more.limit = run.limit /\ more.of = run.of
      /\ more.copied = run.copied
  BY <1>1, <1>6, <1>7 DEF DataRunShape, DataSteps
<1>9. more.alone = run.alone
  BY <1>1, Zenon DEF DataRunShape
<1> HIDE DEF more, run
<1>10. RunShape(more)
  BY <1>1, <1>6, <1>7, <1>8 DEF RunShape, Exporting
<1>11. more.alone => /\ ReadSoFar(more, all) /\ (more.limit = 0 \/ Len(more.page) <= more.limit)
                     /\ pc = "write" => ReadWhole(more, all)
  <2> SUFFICES ASSUME more.alone
               PROVE  /\ ReadSoFar(more, all) /\ (more.limit = 0 \/ Len(more.page) <= more.limit)
                      /\ pc = "write" => ReadWhole(more, all)
    OBVIOUS
  <2>1. ReadSoFar(run, all) /\ (run.limit = 0 \/ Len(run.page) <= run.limit)
    BY <1>1, <1>9 DEF Told
  <2>2. more.page = GotWith(run.page \o PageAt(all, Len(run.page), size), run.limit)
    BY <1>8 DEF got, page
  <2>3. /\ ReadSoFar(more, all) /\ (run.limit = 0 \/ Len(more.page) <= run.limit)
        /\ PageAt(all, Len(run.page), size) = <<>> \/ Len(more.page) = run.limit => ReadWhole(more, all)
    BY <1>1, <1>2, <1>3, <1>8, <2>1, <2>2, ReadOneMore
  <2> QED
    BY <1>7, <1>8, <2>3 DEF page
<1>12. Told(more, all, dataFile.items)
  BY <1>7, <1>8, <1>11 DEF Told
<1> QED
  BY <1>1, <1>4, <1>8, <1>10, <1>12, SetIsTold

LEMMA WriteExportKeeps ==
  ASSUME DataInv, NEW r \in DataRuns, WriteExport(r)
  PROVE  DataInv'
<1> DEFINE run   == dataRuns[r]
           page  == run.page
           items == [n \in DOMAIN page |-> Exported(page[n])]
           state == IF items = <<>> THEN "null" ELSE "array"
           more  == [run EXCEPT !.pc = "exported"]
<1>1. /\ run \in DataRunShape /\ run.pc = "write" /\ page \in Seq(Examples) /\ run.of \in DatasetIds
      /\ \A n \in DOMAIN run.copied : WholeItem(run.copied[n])
      /\ Told(run, datasets[run.of].examples, dataFile.items)
  BY DEF WriteExport, DataInv, RunIsTold, RunShape, Exporting
<1>2. /\ dataRuns' = [x \in DataRuns |->
           IF x = r THEN more ELSE IF dataRuns[x].pc = "exported" THEN [dataRuns[x] EXCEPT !.alone = FALSE] ELSE dataRuns[x]]
      /\ dataFile' = File(state, items, TRUE) /\ UNCHANGED datasets
  BY DEF WriteExport
<1>3. /\ items \in Seq(FileItems) /\ Len(items) = Len(page) /\ \A n \in 1 .. Len(page) : items[n] = Exported(page[n])
      /\ \A n \in DOMAIN items : WholeItem(items[n])
  <2>1. DOMAIN page = 1 .. Len(page) /\ Len(page) \in Nat /\ \A n \in DOMAIN page : page[n] \in Examples
    BY <1>1
  <2> HIDE DEF page
  <2>2. \A n \in DOMAIN page : Exported(page[n]) \in FileItems /\ WholeItem(Exported(page[n]))
    BY <2>1, ExportedIsWhole
  <2> QED
    BY <2>1, <2>2
<1>4. state \in {"null", "array"}
  OBVIOUS
<1> HIDE DEF items, state, page
<1>5. dataFile' \in FileShape /\ dataFile'.items = items /\ dataFile'.exported
  BY <1>2, <1>3, <1>4 DEF File, FileShape
<1>6. /\ more \in DataRunShape /\ more.pc = "exported" /\ more.page = page /\ more.limit = run.limit /\ more.of = run.of
      /\ more.copied = run.copied
  BY <1>1 DEF DataRunShape, DataSteps, page
<1>7. more.alone = run.alone
  BY <1>1, Zenon DEF DataRunShape
<1> HIDE DEF more, run
<1>8. RunShape(more)
  BY <1>1, <1>6 DEF RunShape, Exporting
<1>9. Told(more, datasets[run.of].examples, items)
  <2>1. Wrote(more, items)
    BY <1>3, <1>6 DEF Wrote
  <2>2. run.alone => ReadWhole(run, datasets[run.of].examples)
    BY <1>1 DEF Told
  <2>3. run.alone => ReadWhole(more, datasets[run.of].examples)
    BY <1>6, <2>2 DEF ReadWhole, ReadSoFar, page
  <2> QED
    BY <1>6, <1>7, <2>1, <2>3 DEF Told
<1>10. RunIsTold(dataRuns[r])'
  <2>1. dataRuns'[r] = more
    BY <1>2
  <2> QED
    BY <1>1, <1>2, <1>5, <1>6, <1>8, <1>9, <2>1 DEF RunIsTold
<1>11. ASSUME NEW x \in DataRuns \ {r}
       PROVE  \/ dataRuns'[x] = [dataRuns[x] EXCEPT !.alone = FALSE]
              \/ /\ dataRuns'[x] = dataRuns[x]
                 /\ dataRuns[x].pc \in Exporting \cup {"upload"} =>
                      datasets'[dataRuns[x].of].examples = datasets[dataRuns[x].of].examples
                 /\ dataRuns[x].pc = "exported" => dataFile'.items = dataFile.items
  BY <1>2
<1>12. dataRuns' = [x \in DataRuns |-> dataRuns'[x]] /\ datasets' \in [DatasetIds -> DatasetShape]
  BY <1>2 DEF DataInv
<1> QED
  BY <1>3, <1>5, <1>10, <1>11, <1>12, StepIsTold

\* An export that nobody disturbed wrote the dataset's examples, each once and in
\* their order, as far as its limit says; and the upload of such a file makes a
\* dataset with the same inputs and outputs in the reverse order: each of them, and
\* once if every answer about an example came. However many runs there are, however
\* large their datasets and pages, and wherever they fail.
THEOREM ExamplesAreKept == DataSpec => []ExamplesSurvive
<1>1. DataInv /\ [DataNext]_dataVars => DataInv'
  <2> SUFFICES ASSUME DataInv, [DataNext]_dataVars
               PROVE  DataInv'
    OBVIOUS
  <2>1. CASE UNCHANGED dataVars
    BY <2>1 DEF dataVars, DataInv, RunIsTold
  <2>2. ASSUME NEW r \in DataRuns, UploadEnds(r) \/ ExportEnds(r)
        PROVE  DataInv'
    BY <2>2, EndsAloneKeeps DEF UploadEnds, ExportEnds
  <2>3. CASE DataNext
    BY <2>2, <2>3, CreateDatasetKeeps, ResolveToDeleteKeeps, ResolveToCreateKeeps, CreateExampleKeeps, DeleteExampleKeeps, ReadFileKeeps,
       StartExportKeeps, DataFailsKeeps, DeleteDatasetKeeps, UploadExampleKeeps, ExportPageKeeps, WriteExportKeeps DEF DataNext
  <2> QED
    BY <2>1, <2>3
<1>2. DataInv => ExamplesSurvive
  <2> SUFFICES ASSUME DataInv, NEW r \in DataRuns, dataRuns[r].alone
               PROVE  LET run    == dataRuns[r]
                          listed == datasets[run.of].examples
                      IN  /\ run.pc = "exported" =>
                               /\ Len(dataFile.items) = IF run.limit = 0 THEN Len(listed) ELSE Min({run.limit, Len(listed)})
                               /\ \A n \in DOMAIN dataFile.items :
                                    dataFile.items[n] = Item(listed[n].inputs, listed[n].outputs)
                          /\ run.pc = "upload" /\ run.page = <<>> /\ run.copied # <<>> =>
                               /\ \E from \in [1 .. Len(listed) -> 1 .. Len(run.copied)] :
                                    /\ from[1] = Len(run.copied) /\ from[Len(listed)] = 1
                                    /\ \A n \in 1 .. Len(listed) - 1 : from[n] - from[n + 1] \in {0, 1}
                                    /\ \A n \in 1 .. Len(listed) :
                                         Item(listed[n].inputs, listed[n].outputs) = run.copied[from[n]]
                               /\ run.heard => Len(listed) = Len(run.copied)
    BY DEF ExamplesSurvive
  <2> DEFINE run    == dataRuns[r]
             listed == datasets[run.of].examples
  <2>1. /\ run \in DataRunShape /\ Told(run, listed, dataFile.items) /\ dataFile.items \in Seq(FileItems)
        /\ run.pc \in Exporting \cup {"upload"} => run.of \in DatasetIds
    BY DEF DataInv, RunIsTold, RunShape, FileShape
  <2>2. run.pc \in Exporting \cup {"upload"} => listed \in Seq(Examples)
    BY <2>1 DEF DataInv, DatasetShape
  <2>3. ASSUME run.pc = "exported"
        PROVE  /\ Len(dataFile.items) = IF run.limit = 0 THEN Len(listed) ELSE Min({run.limit, Len(listed)})
               /\ \A n \in DOMAIN dataFile.items : dataFile.items[n] = Item(listed[n].inputs, listed[n].outputs)
    <3>1. ReadWhole(run, listed) /\ Wrote(run, dataFile.items)
      BY <2>1, <2>3 DEF Told
    <3>2. DOMAIN dataFile.items = 1 .. Len(dataFile.items)
      BY <2>1
    <3> HIDE DEF run, listed
    <3> QED
      BY <3>1, <3>2 DEF ReadWhole, ReadSoFar, Wrote, Exported
  <2>4. ASSUME run.pc = "upload", run.page = <<>>, run.copied # <<>>
        PROVE  /\ \E from \in [1 .. Len(listed) -> 1 .. Len(run.copied)] :
                    /\ from[1] = Len(run.copied) /\ from[Len(listed)] = 1
                    /\ \A n \in 1 .. Len(listed) - 1 : from[n] - from[n + 1] \in {0, 1}
                    /\ \A n \in 1 .. Len(listed) : Item(listed[n].inputs, listed[n].outputs) = run.copied[from[n]]
               /\ run.heard => Len(listed) = Len(run.copied)
    <3> DEFINE copied == run.copied
               N      == Len(copied)
               L      == Len(listed)
    <3>1. SentSoFar(run, listed)
      BY <2>1, <2>4 DEF Told
    <3>2. N \in Nat \ {0} /\ L \in Nat /\ N - Len(run.page) = N
      <4>1. copied \in Seq(FileItems) /\ copied # <<>> /\ Len(run.page) = 0
        BY <2>1, <2>4 DEF DataRunShape
      <4> HIDE DEF run
      <4> QED
        BY <2>2, <2>4, <4>1
    <3> HIDE DEF run, listed
    <3>3. (\E from : CameFrom(from, listed, copied, N)) /\ (run.heard => L = N)
      BY <3>1, <3>2 DEF SentSoFar
    <3>4. PICK from : CameFrom(from, listed, copied, N)
      BY <3>3
    <3> HIDE DEF copied, N, L
    <3>5. /\ from \in [1 .. L -> 1 .. N]
          /\ \A n \in 1 .. L - 1 : from[n] - from[n + 1] \in {0, 1}
          /\ \A n \in 1 .. L : Item(listed[n].inputs, listed[n].outputs) = copied[from[n]]
          /\ L # 0 => from[L] = 1 /\ from[1] \in {N, N + 1}
          /\ L = 0 => N = 0
      BY <3>4 DEF CameFrom, Exported, N, L
    <3>6. from[1] = N /\ from[L] = 1
      <4>1. L # 0 /\ 1 \in 1 .. L
        BY <3>2, <3>5
      <4>2. from[1] <= N /\ from[1] \in Nat
        BY <3>2, <3>5, <4>1
      <4> QED
        BY <3>2, <3>5, <4>1, <4>2
    <3> QED
      BY <3>3, <3>5, <3>6 DEF copied, N, L
  <2> QED
    BY <2>3, <2>4
<1> QED
  BY <1>1, <1>2, DataStarts, PTL DEF DataSpec

-----------------------------------------------------------------------------
(* The board of issues: ids count from the oldest, and a reader that nobody *)
(* disturbed has read a part of the issues of a status from the first on.  *)

IssueKeys == {"id"} \cup IssueFields

IssueValues ==
  {PatchedTo(in, f) : in \in IssueInputs, f \in IssueFields}
    \cup IssueStatuses \cup IssueIds \cup {NoFlag, NoSuggestion, "found", "edited"}

IssueRow == [IssueKeys -> IssueValues]

StatusChange == [id : IssueIds, to : IssueValues, reason : {in.reason : in \in IssueInputs} \cup {NoFlag}]

BoardShape ==
  /\ board \in Seq(IssueRow) /\ Len(board) <= MaxIssues
  /\ \A i \in 1 .. Len(board) : board[i].id = Len(board) + 1 - i
  /\ lastGiven \in [IssueIds -> IssueRow]
  /\ statuses \in Seq(StatusChange)

LastOfIssue(n) == \A m \in n + 1 .. Len(statuses) : statuses[m].id # statuses[n].id

GivenIsTrue ==
  /\ \A i \in 1 .. Len(board) : board[i] = lastGiven[board[i].id]
  /\ \A n \in 1 .. Len(statuses) :
       /\ statuses[n].id \in 1 .. Len(board)
       /\ LastOfIssue(n) => lastGiven[statuses[n].id].status = statuses[n].to

LinkedOnce == \A a, b \in evidence : a.id = b.id /\ a.run = b.run => a = b

Reading ==
  [status : IssueStatuses \cup {NoFlag}, limit : 0 .. ServerIssuePage, offset : Nat, rows : Seq(IssueValues),
   alone : BOOLEAN, ended : BOOLEAN]

HasRead(read, all) ==
  /\ read.limit = 0 => read.rows = <<>> /\ read.offset = 0 /\ ~read.ended
  /\ read.alone =>
       /\ Len(read.rows) <= Len(all)
       /\ \A n \in 1 .. Len(read.rows) : read.rows[n] = all[n].id
       /\ IF read.ended THEN Len(read.rows) = Len(all) ELSE read.offset = Len(read.rows)

BoardInv ==
  /\ BoardShape /\ GivenIsTrue /\ LinkedOnce
  /\ reading \in Reading
  /\ HasRead(reading, OfStatus(board, reading.status))

LEMMA NewIssueRow ==
  ASSUME NEW id \in IssueIds, NEW status \in IssueStatuses
  PROVE  NewIssue(id, status) \in IssueRow /\ NewIssue(id, status).id = id
BY DEF NewIssue, IssueRow, IssueKeys, IssueFields, IssueValues

LEMMA OfStatusTyped ==
  ASSUME NEW issues \in Seq(IssueRow), NEW status
  PROVE  OfStatus(issues, status) \in Seq(IssueRow)
<1> DEFINE kept == {i \in DOMAIN issues : status \in {NoFlag, issues[i].status}}
           of   == CHOOSE f : KeepsPlaces(issues, kept, f, Len(issues))
<1>1. OfStatus(issues, status) = of[Len(issues)]
  BY DEF OfStatus, KeepsPlaces
<1>2. KeepsPlaces(issues, kept, of, Len(issues))
  <2>1. Len(issues) \in Nat
    OBVIOUS
  <2> HIDE DEF kept
  <2> QED
    BY <2>1, KeepsExists
<1> HIDE DEF of, kept
<1>3. of[Len(issues)] \in Seq(IssueRow)
  BY <1>2, KeptOfSequence
<1> QED
  BY <1>1, <1>3

\* Where an issue is on the board.
LEMMA WhereIsIssue ==
  ASSUME BoardShape
  PROVE  /\ Len(board) \in Nat /\ DOMAIN board = 1 .. Len(board)
         /\ \A i \in 1 .. Len(board) : board[i] \in IssueRow /\ board[i].id \in 1 .. Len(board) /\ board[i].id \in IssueIds
         /\ \A i, j \in 1 .. Len(board) : board[i].id = board[j].id => i = j
         /\ \A id \in 1 .. Len(board) : \E i \in 1 .. Len(board) : board[i].id = id
<1>1. Len(board) \in Nat /\ DOMAIN board = 1 .. Len(board) /\ \A i \in 1 .. Len(board) : board[i] \in IssueRow
  BY DEF BoardShape
<1>2. /\ MaxIssues \in Nat /\ Len(board) <= MaxIssues
      /\ \A i \in 1 .. Len(board) : board[i].id = Len(board) + 1 - i
  BY IssueAssumption DEF BoardShape
<1>3. \A i \in 1 .. Len(board) : board[i].id \in 1 .. Len(board) /\ board[i].id \in IssueIds
  BY <1>1, <1>2 DEF IssueIds
<1>4. \A id \in 1 .. Len(board) : Len(board) + 1 - id \in 1 .. Len(board) /\ board[Len(board) + 1 - id].id = id
  BY <1>1, <1>2
<1> QED
  BY <1>1, <1>2, <1>3, <1>4

LEMMA BoardStarts == IssueInit => BoardInv
<1> SUFFICES ASSUME IssueInit PROVE BoardInv
  OBVIOUS
<1>1. PICK n \in 0 .. MaxIssues : board = [i \in 1 .. n |-> NewIssue(n + 1 - i, IF i = 2 THEN "ignored" ELSE "open")]
  BY DEF IssueInit
<1>2. n \in Nat /\ MaxIssues \in Nat /\ n <= MaxIssues
  BY IssueAssumption
<1>3. ASSUME NEW i \in 1 .. n
      PROVE  board[i] \in IssueRow /\ board[i].id = n + 1 - i /\ n + 1 - i \in IssueIds
             /\ board[i] = NewIssue(n + 1 - i, IF i = 2 THEN "ignored" ELSE "open")
  <2>1. n + 1 - i \in IssueIds
    BY <1>2 DEF IssueIds
  <2>2. board[i] = NewIssue(n + 1 - i, IF i = 2 THEN "ignored" ELSE "open")
    BY <1>1
  <2>3. (IF i = 2 THEN "ignored" ELSE "open") \in IssueStatuses
    BY DEF IssueStatuses
  <2> HIDE DEF NewIssue
  <2> QED
    BY <2>1, <2>2, <2>3, NewIssueRow
<1>4. board \in Seq(IssueRow) /\ Len(board) = n
  BY <1>1, <1>2, <1>3
<1>5. ASSUME NEW id \in IssueIds
      PROVE  /\ lastGiven[id] \in IssueRow
             /\ \A i \in 1 .. n : board[i].id = id => board[i] = lastGiven[id]
  <2> DEFINE status == IF \E i \in DOMAIN board : board[i].id = id /\ i = 2 THEN "ignored" ELSE "open"
  <2>1. lastGiven[id] = NewIssue(id, status)
    BY DEF IssueInit
  <2>2. status \in IssueStatuses
    BY DEF IssueStatuses
  <2>3. ASSUME NEW i \in 1 .. n, board[i].id = id
        PROVE  board[i] = lastGiven[id]
    <3>1. id = n + 1 - i
      BY <1>3, <2>3
    <3>2. (\E j \in DOMAIN board : board[j].id = id /\ j = 2) <=> i = 2
      <4>1. DOMAIN board = 1 .. n
        BY <1>1
      <4>2. \A j \in 1 .. n : board[j].id = id => j = i
        BY <1>2, <1>3, <3>1
      <4> QED
        BY <2>3, <4>1, <4>2
    <3> QED
      BY <1>3, <2>1, <3>1, <3>2
  <2> QED
    BY <2>1, <2>2, <2>3, NewIssueRow
<1>6. lastGiven \in [IssueIds -> IssueRow]
  BY <1>5 DEF IssueInit
<1>7. statuses = <<>> /\ evidence = {} /\ reading = NotReading
  BY DEF IssueInit
<1>8. BoardShape
  BY <1>3, <1>4, <1>6, <1>7 DEF BoardShape
<1>9. GivenIsTrue /\ LinkedOnce
  BY <1>3, <1>4, <1>5, <1>7 DEF GivenIsTrue, LinkedOnce
<1>10. reading \in Reading
  BY <1>7, IssueAssumption DEF NotReading, Reading
<1>11. HasRead(reading, OfStatus(board, reading.status))
  <2>1. OfStatus(board, reading.status) \in Seq(IssueRow)
    BY <1>4, OfStatusTyped
  <2>2. Len(OfStatus(board, reading.status)) \in Nat
    BY <2>1
  <2> QED
    BY <1>7, <2>2 DEF NotReading, HasRead
<1> QED
  BY <1>8, <1>9, <1>10, <1>11 DEF BoardInv

\* After a change the reader starts over, or is not alone.
LEMMA ReaderIsDisturbed ==
  ASSUME BoardInv, reading' = Disturbs, BoardShape'
  PROVE  (reading \in Reading /\ HasRead(reading, OfStatus(board, reading.status)))'
<1>1. reading \in Reading /\ (reading.limit = 0 => reading.rows = <<>> /\ reading.offset = 0 /\ ~reading.ended)
  BY DEF BoardInv, HasRead
<1>2. /\ reading' \in Reading /\ reading'.limit = reading.limit /\ reading'.rows = reading.rows
      /\ reading'.offset = reading.offset /\ reading'.ended = reading.ended /\ (reading'.alone => reading.limit = 0)
  BY <1>1 DEF Disturbs, Reading
<1>3. \A all \in Seq(IssueRow) : HasRead(reading', all)
  BY <1>1, <1>2 DEF HasRead
<1>4. OfStatus(board', reading'.status) \in Seq(IssueRow)
  BY OfStatusTyped DEF BoardShape
<1> QED
  BY <1>2, <1>3, <1>4

\* What one more change of status leaves of the last of each issue.
LEMMA StatusIsAdded ==
  ASSUME BoardShape, NEW change \in StatusChange, statuses' = Append(statuses, change)
  PROVE  /\ Len(statuses') = Len(statuses) + 1 /\ statuses'[Len(statuses) + 1] = change
         /\ statuses' \in Seq(StatusChange)
         /\ \A n \in 1 .. Len(statuses) :
              statuses'[n] = statuses[n] /\ (LastOfIssue(n)' <=> LastOfIssue(n) /\ statuses[n].id # change.id)
<1>1. /\ statuses \in Seq(StatusChange) /\ Len(statuses) \in Nat
      /\ Len(statuses') = Len(statuses) + 1 /\ statuses'[Len(statuses) + 1] = change /\ statuses' \in Seq(StatusChange)
      /\ \A n \in 1 .. Len(statuses) : statuses'[n] = statuses[n]
  BY DEF BoardShape
<1>2. ASSUME NEW n \in 1 .. Len(statuses)
      PROVE  LastOfIssue(n)' <=> LastOfIssue(n) /\ statuses[n].id # change.id
  <2>1. n + 1 .. Len(statuses') = (n + 1 .. Len(statuses)) \cup {Len(statuses) + 1}
    BY <1>1
  <2>2. \A m \in n + 1 .. Len(statuses) : statuses'[m] = statuses[m]
    BY <1>1
  <2> QED
    BY <1>1, <2>1, <2>2 DEF LastOfIssue
<1> QED
  BY <1>1, <1>2

\* An issue changes, and its status is told if it does.
LEMMA IssueChanges ==
  ASSUME BoardInv, NEW i \in 1 .. Len(board), NEW row \in IssueRow, row.id = board[i].id,
         board' = [board EXCEPT ![i] = row], lastGiven' = [lastGiven EXCEPT ![board[i].id] = row],
         \/ statuses' = statuses /\ row.status = board[i].status
         \/ \E change \in StatusChange :
              change.id = row.id /\ change.to = row.status /\ statuses' = Append(statuses, change),
         reading' = Disturbs, UNCHANGED evidence
  PROVE  BoardInv'
<1>1. BoardShape /\ GivenIsTrue /\ LinkedOnce
  BY DEF BoardInv
<1>2. /\ Len(board) \in Nat /\ \A j \in 1 .. Len(board) : board[j].id \in 1 .. Len(board) /\ board[j].id \in IssueIds
      /\ \A j, k \in 1 .. Len(board) : board[j].id = board[k].id => j = k
  BY <1>1, WhereIsIssue
<1> DEFINE id == row.id
<1>3. /\ board \in Seq(IssueRow) /\ lastGiven \in [IssueIds -> IssueRow] /\ statuses \in Seq(StatusChange)
      /\ Len(board) <= MaxIssues /\ \A j \in 1 .. Len(board) : board[j].id = Len(board) + 1 - j
  BY <1>1 DEF BoardShape
<1>4. /\ board' \in Seq(IssueRow) /\ Len(board') = Len(board) /\ board'[i] = row
      /\ \A j \in 1 .. Len(board) : j # i => board'[j] = board[j]
  BY <1>3
<1>5. /\ lastGiven' \in [IssueIds -> IssueRow] /\ lastGiven'[id] = row
      /\ \A other \in IssueIds : other # id => lastGiven'[other] = lastGiven[other]
  BY <1>2, <1>3
<1>6. \A j \in 1 .. Len(board) : board'[j].id = board[j].id
  BY <1>4
<1>7. statuses' \in Seq(StatusChange)
  BY <1>1, <1>3, StatusIsAdded
<1>8. BoardShape'
  BY <1>3, <1>4, <1>5, <1>6, <1>7 DEF BoardShape
<1>9. \A j \in 1 .. Len(board') : board'[j] = lastGiven'[board'[j].id]
  <2> TAKE j \in 1 .. Len(board')
  <2>1. CASE j = i
    BY <1>4, <1>5, <2>1
  <2>2. CASE j # i
    <3>1. board'[j] = board[j] /\ board[j].id # id /\ board[j].id \in IssueIds /\ board[j] = lastGiven[board[j].id]
      BY <1>1, <1>2, <1>4, <2>2 DEF GivenIsTrue
    <3> QED
      BY <1>5, <3>1
  <2> QED
    BY <2>1, <2>2
<1>10. ASSUME NEW n \in 1 .. Len(statuses')
       PROVE  /\ statuses'[n].id \in 1 .. Len(board')
              /\ LastOfIssue(n)' => lastGiven'[statuses'[n].id].status = statuses'[n].to
  <2>1. \A m \in 1 .. Len(statuses) :
          /\ statuses[m].id \in 1 .. Len(board) /\ statuses[m].id \in IssueIds
          /\ LastOfIssue(m) => lastGiven[statuses[m].id].status = statuses[m].to
    <3>1. \A m \in 1 .. Len(statuses) : statuses[m] \in StatusChange
      BY <1>3
    <3>2. \A change \in StatusChange : change.id \in IssueIds
      BY DEF StatusChange
    <3> QED
      BY <1>1, <3>1, <3>2 DEF GivenIsTrue
  <2>2. id \in 1 .. Len(board) /\ id \in IssueIds /\ lastGiven[id] = board[i]
    BY <1>1, <1>2 DEF GivenIsTrue
  <2>3. CASE statuses' = statuses /\ row.status = board[i].status
    <3>1. statuses'[n] = statuses[n] /\ n \in 1 .. Len(statuses) /\ (LastOfIssue(n)' <=> LastOfIssue(n))
      BY <2>3 DEF LastOfIssue
    <3>2. CASE statuses[n].id = id
      BY <1>4, <1>5, <2>1, <2>2, <2>3, <3>1, <3>2
    <3>3. CASE statuses[n].id # id
      BY <1>4, <1>5, <2>1, <3>1, <3>3
    <3> QED
      BY <3>2, <3>3
  <2>4. ASSUME NEW change \in StatusChange, change.id = id, change.to = row.status, statuses' = Append(statuses, change)
        PROVE  /\ statuses'[n].id \in 1 .. Len(board')
               /\ LastOfIssue(n)' => lastGiven'[statuses'[n].id].status = statuses'[n].to
    <3>1. /\ Len(statuses') = Len(statuses) + 1 /\ statuses'[Len(statuses) + 1] = change /\ Len(statuses) \in Nat
          /\ \A m \in 1 .. Len(statuses) :
               statuses'[m] = statuses[m] /\ (LastOfIssue(m)' <=> LastOfIssue(m) /\ statuses[m].id # change.id)
      BY <1>1, <1>3, <2>4, StatusIsAdded
    <3>2. CASE n = Len(statuses) + 1
      BY <1>4, <1>5, <2>2, <2>4, <3>1, <3>2
    <3>3. CASE n \in 1 .. Len(statuses)
      BY <1>4, <1>5, <2>1, <2>4, <3>1, <3>3
    <3> QED
      BY <3>1, <3>2, <3>3
  <2> QED
    BY <2>3, <2>4
<1>11. LinkedOnce'
  BY <1>1 DEF LinkedOnce
<1>12. (reading \in Reading /\ HasRead(reading, OfStatus(board, reading.status)))'
  BY <1>8, ReaderIsDisturbed
<1> QED
  BY <1>8, <1>9, <1>10, <1>11, <1>12 DEF BoardInv, GivenIsTrue

LEMMA UpdateIssueKeeps ==
  ASSUME BoardInv, NEW in \in IssueInputs, UpdateIssue(in)
  PROVE  BoardInv'
<1>1. PICK i \in IssueAt(in.id) :
        /\ board' = [board EXCEPT ![i] =
             [f \in DOMAIN @ |-> IF f \in PatchedFields(in) THEN PatchedTo(in, f) ELSE @[f]]]
        /\ lastGiven' = [lastGiven EXCEPT ![in.id] =
             [f \in DOMAIN @ |-> IF f # "id" /\ IsGiven(in, f) THEN PatchedTo(in, f) ELSE @[f]]]
  BY DEF UpdateIssue
<1>2. i \in 1 .. Len(board) /\ board[i].id = in.id /\ board[i] \in IssueRow /\ in.id \in IssueIds
      /\ board[i] = lastGiven[in.id]
  BY WhereIsIssue DEF BoardInv, IssueAt, GivenIsTrue
<1> DEFINE row == [f \in IssueKeys |-> IF f \in PatchedFields(in) THEN PatchedTo(in, f) ELSE board[i][f]]
<1>3. DOMAIN board[i] = IssueKeys /\ DOMAIN lastGiven[in.id] = IssueKeys
  BY <1>2 DEF IssueRow
<1>4. board' = [board EXCEPT ![i] = row]
  BY <1>1, <1>2, <1>3
<1>5. \A f \in IssueKeys : f \in PatchedFields(in) <=> f # "id" /\ IsGiven(in, f)
  BY DEF PatchedFields, IssueKeys, IssueFields
<1>6. lastGiven' = [lastGiven EXCEPT ![board[i].id] = row]
  BY <1>1, <1>2, <1>3, <1>5
<1>7. row \in IssueRow /\ row.id = board[i].id
  <2>1. \A f \in IssueKeys : board[i][f] \in IssueValues
    BY <1>2 DEF IssueRow
  <2>2. \A f \in PatchedFields(in) : PatchedTo(in, f) \in IssueValues
    BY DEF PatchedFields, IssueValues
  <2>3. "id" \in IssueKeys /\ "id" \notin PatchedFields(in)
    BY DEF IssueKeys, PatchedFields, IssueFields
  <2> HIDE DEF IssueKeys
  <2> QED
    BY <2>1, <2>2, <2>3 DEF IssueRow
<1>8. \/ statuses' = statuses /\ row.status = board[i].status
      \/ \E change \in StatusChange :
           change.id = row.id /\ change.to = row.status /\ statuses' = Append(statuses, change)
  <2>1. "status" \in IssueKeys /\ "status" \in IssueFields /\ "status" # "evaluator"
    BY DEF IssueKeys, IssueFields
  <2>2. row.status = IF in.status = NoFlag THEN board[i].status ELSE in.status
    BY <2>1 DEF PatchedFields, IsGiven, PatchedTo
  <2>3. CASE in.status = NoFlag
    BY <2>2, <2>3 DEF UpdateIssue
  <2>4. CASE in.status # NoFlag
    <3> DEFINE change == [id |-> in.id, to |-> in.status, reason |-> in.reason]
    <3>1. in.status \in IssueValues
      BY <2>1 DEF IssueValues, PatchedTo
    <3>2. change \in StatusChange
      BY <1>2, <3>1 DEF StatusChange
    <3>3. statuses' = Append(statuses, change)
      BY <2>4 DEF UpdateIssue
    <3>4. change.id = row.id /\ change.to = row.status
      BY <1>2, <1>7, <2>2, <2>4
    <3> QED
      BY <3>2, <3>3, <3>4
  <2> QED
    BY <2>3, <2>4
<1> HIDE DEF row
<1> QED
  BY <1>2, <1>4, <1>6, <1>7, <1>8, IssueChanges DEF UpdateIssue

LEMMA EditOnBoardKeeps ==
  ASSUME BoardInv, EditOnBoard
  PROVE  BoardInv'
<1>1. PICK i \in DOMAIN board, f \in {"description", "status"} :
        /\ board' = [board EXCEPT ![i][f] = IF f = "status" THEN "fixing" ELSE "edited"]
        /\ lastGiven' = [lastGiven EXCEPT ![board[i].id][f] = IF f = "status" THEN "fixing" ELSE "edited"]
        /\ statuses' = IF f = "status" THEN Append(statuses, [id |-> board[i].id, to |-> "fixing", reason |-> NoFlag])
                                       ELSE statuses
  BY DEF EditOnBoard
<1>2. i \in 1 .. Len(board) /\ board[i] \in IssueRow /\ board[i].id \in IssueIds /\ board[i] = lastGiven[board[i].id]
  BY WhereIsIssue DEF BoardInv, GivenIsTrue
<1> DEFINE to  == IF f = "status" THEN "fixing" ELSE "edited"
           row == [board[i] EXCEPT ![f] = to]
<1>3. f \in IssueKeys /\ "id" \in IssueKeys /\ "status" \in IssueKeys /\ f # "id"
  BY DEF IssueKeys, IssueFields
<1>4. to \in IssueValues
  BY DEF IssueValues, IssueStatuses
<1>5. board' = [board EXCEPT ![i] = row] /\ lastGiven' = [lastGiven EXCEPT ![board[i].id] = row]
  BY <1>1, <1>2
<1>6. row \in IssueRow /\ row.id = board[i].id /\ row.status = IF f = "status" THEN "fixing" ELSE board[i].status
  <2> HIDE DEF to, IssueKeys, IssueValues
  <2>1. row \in IssueRow
    BY <1>2, <1>4 DEF IssueRow
  <2>2. \A k \in IssueKeys : row[k] = IF k = f THEN to ELSE board[i][k]
    BY <1>2 DEF IssueRow
  <2> HIDE DEF row
  <2>3. row["id"] = board[i]["id"] /\ row["status"] = IF f = "status" THEN to ELSE board[i]["status"]
    BY <1>3, <2>2
  <2>4. row.status = IF f = "status" THEN "fixing" ELSE board[i].status
    BY <2>3 DEF to
  <2> QED
    BY <2>1, <2>3, <2>4
<1>7. \/ statuses' = statuses /\ row.status = board[i].status
      \/ \E change \in StatusChange :
           change.id = row.id /\ change.to = row.status /\ statuses' = Append(statuses, change)
  <2> HIDE DEF row
  <2>1. CASE f = "status"
    <3> DEFINE change == [id |-> board[i].id, to |-> "fixing", reason |-> NoFlag]
    <3>1. change \in StatusChange
      BY <1>2, <1>4, <2>1 DEF StatusChange
    <3>2. statuses' = Append(statuses, change) /\ change.id = row.id /\ change.to = row.status
      BY <1>1, <1>6, <2>1
    <3> QED
      BY <3>1, <3>2
  <2>2. CASE f # "status"
    BY <1>1, <1>6, <2>2
  <2> QED
    BY <2>1, <2>2
<1> HIDE DEF row
<1> QED
  BY <1>2, <1>5, <1>6, <1>7, IssueChanges DEF EditOnBoard

LEMMA OpenIssueKeeps ==
  ASSUME BoardInv, OpenIssue
  PROVE  BoardInv'
<1> DEFINE N   == Len(board)
           new == NewIssue(N + 1, "open")
<1>1. BoardShape /\ GivenIsTrue /\ LinkedOnce
  BY DEF BoardInv
<1>2. /\ N \in Nat /\ N < MaxIssues /\ MaxIssues \in Nat /\ N + 1 \in IssueIds
      /\ \A j \in 1 .. N : board[j] \in IssueRow /\ board[j].id \in 1 .. N /\ board[j].id \in IssueIds
  BY <1>1, WhereIsIssue, IssueAssumption DEF OpenIssue, IssueIds
<1>3. new \in IssueRow /\ new.id = N + 1
  <2>1. "open" \in IssueStatuses
    BY DEF IssueStatuses
  <2> HIDE DEF N
  <2> QED
    BY <1>2, <2>1, NewIssueRow
<1>4. board' = <<new>> \o board /\ lastGiven' = [lastGiven EXCEPT ![N + 1] = new] /\ UNCHANGED <<statuses, evidence>>
      /\ reading' = Disturbs
  BY DEF OpenIssue
<1> HIDE DEF new
<1>5. /\ board' \in Seq(IssueRow) /\ Len(board') = N + 1 /\ board'[1] = new
      /\ \A j \in 1 .. N : board'[j + 1] = board[j]
  BY <1>1, <1>3, <1>4 DEF BoardShape
<1> HIDE DEF N
<1>6. /\ lastGiven \in [IssueIds -> IssueRow] /\ statuses \in Seq(StatusChange)
      /\ \A j \in 1 .. N : board[j].id = N + 1 - j
  BY <1>1 DEF BoardShape, N
<1>7. /\ lastGiven' \in [IssueIds -> IssueRow] /\ lastGiven'[N + 1] = new
      /\ \A id \in IssueIds : id # N + 1 => lastGiven'[id] = lastGiven[id]
  BY <1>2, <1>3, <1>4, <1>6
<1>8. ASSUME NEW j \in 1 .. N + 1
      PROVE  board'[j].id = N + 1 + 1 - j /\ board'[j] = lastGiven'[board'[j].id]
  <2>1. CASE j = 1
    BY <1>2, <1>3, <1>5, <1>7, <2>1
  <2>2. CASE j # 1
    <3>1. j - 1 \in 1 .. N /\ j - 1 + 1 = j
      BY <1>2, <2>2
    <3>2. board'[j] = board[j - 1]
      BY <1>5, <3>1
    <3>3. board[j - 1].id = N + 1 - (j - 1) /\ board[j - 1] = lastGiven[board[j - 1].id]
      BY <1>1, <1>6, <3>1 DEF GivenIsTrue, N
    <3>4. board[j - 1].id # N + 1 /\ board[j - 1].id \in IssueIds
      BY <1>2, <3>1
    <3>5. N + 1 - (j - 1) = N + 1 + 1 - j
      BY <1>2
    <3> QED
      BY <1>7, <3>2, <3>3, <3>4, <3>5
  <2> QED
    BY <2>1, <2>2
<1>9. BoardShape'
  BY <1>2, <1>4, <1>5, <1>6, <1>7, <1>8 DEF BoardShape
<1>10. GivenIsTrue'
  <2>1. \A n \in 1 .. Len(statuses) : LastOfIssue(n)' <=> LastOfIssue(n)
    BY <1>4 DEF LastOfIssue
  <2>2. ASSUME NEW n \in 1 .. Len(statuses)
        PROVE  /\ statuses[n].id \in 1 .. N + 1
               /\ LastOfIssue(n) => lastGiven'[statuses[n].id].status = statuses[n].to
    <3>1. statuses[n].id \in 1 .. N /\ (LastOfIssue(n) => lastGiven[statuses[n].id].status = statuses[n].to)
      BY <1>1 DEF GivenIsTrue, N
    <3>2. statuses[n].id # N + 1 /\ statuses[n].id \in IssueIds /\ statuses[n].id \in 1 .. N + 1
      BY <1>2, <3>1 DEF IssueIds
    <3> QED
      BY <1>7, <3>1, <3>2
  <2> QED
    BY <1>4, <1>5, <1>8, <2>1, <2>2 DEF GivenIsTrue
<1>11. LinkedOnce'
  BY <1>1, <1>4 DEF LinkedOnce
<1>12. (reading \in Reading /\ HasRead(reading, OfStatus(board, reading.status)))'
  BY <1>4, <1>9, ReaderIsDisturbed
<1> QED
  BY <1>9, <1>10, <1>11, <1>12 DEF BoardInv

LEMMA EvidenceKeeps ==
  ASSUME BoardInv, NEW in \in IssueInputs, LinkRun(in) \/ UnlinkRun(in) \/ ProposeExample(in)
  PROVE  BoardInv'
<1>1. UNCHANGED <<board, statuses, reading, lastGiven>>
  BY DEF LinkRun, UnlinkRun, ProposeExample
<1>2. LinkedOnce'
  <2>1. LinkedOnce
    BY DEF BoardInv
  <2>2. CASE LinkRun(in)
    <3> DEFINE old == {link \in evidence : link.id = in.id /\ link.run = in.run}
               new == [id |-> in.id, run |-> in.run, comment |-> in.comment]
    <3>1. evidence' = evidence \/ evidence' = (evidence \ old) \cup {new}
      BY <2>2 DEF LinkRun
    <3>2. new.id = in.id /\ new.run = in.run /\ \A link \in evidence \ old : link.id # in.id \/ link.run # in.run
      OBVIOUS
    <3> HIDE DEF old, new
    <3> QED
      BY <2>1, <3>1, <3>2 DEF LinkedOnce
  <2>3. CASE UnlinkRun(in) \/ ProposeExample(in)
    BY <2>1, <2>3 DEF UnlinkRun, ProposeExample, LinkedOnce
  <2> QED
    BY <2>2, <2>3
<1>3. (BoardShape /\ GivenIsTrue /\ reading \in Reading /\ HasRead(reading, OfStatus(board, reading.status)))'
  BY <1>1 DEF BoardInv, BoardShape, GivenIsTrue, LastOfIssue
<1> QED
  BY <1>2, <1>3 DEF BoardInv

\* The reader asks for the page that follows what was read, of what nobody changed.
LEMMA ListIssuesKeeps ==
  ASSUME BoardInv, NEW status \in {NoFlag, "open"}, NEW limit \in 1 .. ServerIssuePage, ListIssues(status, limit)
  PROVE  BoardInv'
<1> DEFINE all  == OfStatus(board, status)
           page == IssuePage(status, limit, reading.offset)
           ids  == [i \in DOMAIN page |-> page[i].id]
           read == reading'
<1>1. /\ reading \in Reading /\ HasRead(reading, OfStatus(board, reading.status)) /\ BoardShape
      /\ reading.limit = 0 \/ (reading.limit = limit /\ reading.status = status)
      /\ ~reading.ended
  BY DEF BoardInv, ListIssues
<1>2. limit \in Nat \ {0} /\ limit \in 0 .. ServerIssuePage /\ limit <= ServerIssuePage /\ reading.offset \in Nat
      /\ reading.rows \in Seq(IssueValues) /\ ServerIssuePage \in Nat
  BY <1>1, IssueAssumption DEF Reading
<1>3. all \in Seq(IssueRow)
  BY <1>1, OfStatusTyped DEF BoardShape
<1>4. page = PageAt(all, reading.offset, limit)
  <2>1. (IF limit = 0 THEN ServerIssuePage ELSE Min({limit, ServerIssuePage})) = limit
    BY <1>2, MinOfTwo
  <2> QED
    BY <2>1 DEF IssuePage, PageAt
<1> HIDE DEF page, all
<1>5. /\ page \in Seq(IssueRow)
      /\ reading.offset <= Len(all) =>
           /\ reading.offset + Len(page) <= Len(all)
           /\ \A n \in 1 .. Len(page) : page[n] = all[reading.offset + n]
           /\ Len(page) <= limit /\ (Len(page) < limit => reading.offset + Len(page) = Len(all))
  BY <1>2, <1>3, <1>4, PageIsNext
<1> DEFINE short == Len(page) < limit
           asked == [reading EXCEPT !.status = status, !.limit = limit]
<1>6. /\ reading' = [asked EXCEPT !.rows = reading.rows \o ids, !.offset = reading.offset + limit, !.ended = short]
      /\ asked \in Reading /\ asked.alone = reading.alone /\ asked.status = status /\ asked.limit = limit
  <2>1. status \in IssueStatuses \cup {NoFlag}
    BY DEF IssueStatuses
  <2>2. /\ asked \in Reading /\ asked.alone = reading.alone /\ asked.status = status /\ asked.limit = limit
        /\ asked.rows = reading.rows /\ asked.offset = reading.offset
    BY <1>1, <1>2, <2>1 DEF Reading
  <2> HIDE DEF asked, short
  <2>3. reading' = [asked EXCEPT !.rows = asked.rows \o [i \in DOMAIN IssuePage(status, limit, asked.offset) |->
                                           IssuePage(status, limit, asked.offset)[i].id],
                                 !.offset = asked.offset + asked.limit,
                                 !.ended = Len(IssuePage(status, limit, asked.offset)) < limit]
    BY DEF ListIssues, NextOffset, asked
  <2> QED
    BY <2>2, <2>3 DEF short, page, ids
<1> HIDE DEF short, asked
<1>6a. /\ read.rows = reading.rows \o ids /\ read.status = status
       /\ read.limit = limit /\ read.offset = reading.offset + limit /\ read.ended = short /\ read.alone = reading.alone
  BY <1>6 DEF Reading
<1> HIDE DEF ids
<1>7. /\ ids \in Seq(IssueValues) /\ Len(ids) = Len(page) /\ \A n \in 1 .. Len(page) : ids[n] = page[n].id
  <2>1. \A n \in 1 .. Len(page) : page[n] \in IssueRow
    BY <1>5
  <2>2. \A row \in IssueRow : row.id \in IssueValues
    BY DEF IssueRow, IssueKeys
  <2>3. DOMAIN page = 1 .. Len(page) /\ Len(page) \in Nat
    BY <1>5
  <2> QED
    BY <2>1, <2>2, <2>3 DEF ids
<1>8. /\ read.rows \in Seq(IssueValues) /\ Len(read.rows) = Len(reading.rows) + Len(page)
      /\ \A n \in 1 .. Len(reading.rows) : read.rows[n] = reading.rows[n]
      /\ \A n \in 1 .. Len(page) : read.rows[Len(reading.rows) + n] = page[n].id
  <2> DEFINE old == reading.rows
  <2>1. old \in Seq(IssueValues) /\ ids \in Seq(IssueValues) /\ read.rows = old \o ids
    BY <1>2, <1>7, <1>6a
  <2> HIDE DEF old, read
  <2>2. /\ old \o ids \in Seq(IssueValues) /\ Len(old \o ids) = Len(old) + Len(ids)
        /\ \A n \in 1 .. Len(old) : (old \o ids)[n] = old[n]
        /\ \A n \in 1 .. Len(ids) : (old \o ids)[Len(old) + n] = ids[n]
    BY <2>1, ConcatIs
  <2>3. /\ read.rows \in Seq(IssueValues) /\ Len(read.rows) = Len(old) + Len(page)
        /\ \A n \in 1 .. Len(old) : read.rows[n] = old[n]
        /\ \A n \in 1 .. Len(page) : read.rows[Len(old) + n] = page[n].id
    BY <1>7, <2>1, <2>2
  <2> QED
    BY <2>3 DEF old
<1>9. read \in Reading
  <2>1. short \in BOOLEAN /\ reading.offset + limit \in Nat
    BY <1>2 DEF short
  <2> QED
    BY <1>6, <1>8, <1>6a, <2>1 DEF Reading
<1>10. ASSUME reading.alone
       PROVE  /\ Len(read.rows) <= Len(all)
              /\ \A n \in 1 .. Len(read.rows) : read.rows[n] = all[n].id
              /\ IF read.ended THEN Len(read.rows) = Len(all) ELSE read.offset = Len(read.rows)
  <2>1. /\ reading.offset = Len(reading.rows) /\ Len(reading.rows) <= Len(all)
        /\ \A n \in 1 .. Len(reading.rows) : reading.rows[n] = all[n].id
    <3>1. CASE reading.limit = 0
      BY <1>1, <1>3, <1>10, <3>1 DEF HasRead
    <3>2. CASE reading.limit = limit /\ reading.status = status
      BY <1>1, <1>10, <3>2 DEF HasRead, all
    <3> QED
      BY <1>1, <3>1, <3>2
  <2>2. /\ Len(reading.rows) + Len(page) <= Len(all)
        /\ \A n \in 1 .. Len(page) : page[n] = all[Len(reading.rows) + n]
        /\ Len(page) <= limit /\ (Len(page) < limit => Len(reading.rows) + Len(page) = Len(all))
    BY <1>5, <2>1
  <2>3. Len(page) \in Nat /\ Len(reading.rows) \in Nat /\ Len(all) \in Nat
    BY <1>2, <1>3, <1>5
  <2>4. ASSUME NEW n \in 1 .. Len(read.rows)
        PROVE  read.rows[n] = all[n].id
    <3>1. CASE n <= Len(reading.rows)
      BY <1>8, <2>1, <2>3, <3>1
    <3>2. CASE n > Len(reading.rows)
      <4>1. n - Len(reading.rows) \in 1 .. Len(page) /\ Len(reading.rows) + (n - Len(reading.rows)) = n
        BY <1>8, <2>3, <3>2
      <4> QED
        BY <1>8, <2>2, <4>1
    <3> QED
      BY <1>8, <2>3, <3>1, <3>2
  <2> QED
    <3>1. read.ended <=> Len(page) < limit
      BY <1>6a, Zenon DEF short
    <3>2. /\ Len(read.rows) <= Len(all)
          /\ Len(page) < limit => Len(read.rows) = Len(all)
          /\ ~(Len(page) < limit) => read.offset = Len(read.rows)
      <4>1. limit \in Nat /\ Len(read.rows) = Len(reading.rows) + Len(page)
            /\ read.offset = Len(reading.rows) + limit
        BY <1>2, <1>6a, <1>8, <2>1
      <4> QED
        BY ONLY <2>2, <2>3, <4>1
    <3> QED
      BY <2>4, <3>1, <3>2, Zenon
<1>11. HasRead(reading, OfStatus(board, reading.status))'
  <2>1. OfStatus(board, reading.status)' = all
    BY <1>6a DEF ListIssues, all
  <2>2. read.limit # 0 /\ (read.alone => reading.alone)
    BY <1>2, <1>6a
  <2> QED
    BY <1>10, <2>1, <2>2 DEF HasRead
<1>12. (BoardShape /\ GivenIsTrue /\ LinkedOnce)'
  BY DEF BoardInv, BoardShape, GivenIsTrue, LastOfIssue, LinkedOnce, ListIssues
<1> QED
  BY <1>9, <1>11, <1>12 DEF BoardInv

\* Whatever commands, people and the agent change, every field of every issue is what
\* it was last given, its status the last of its statuses, a run is linked once, and
\* a reader that nobody disturbs reads every issue of a status once, in pages of any size.
THEOREM BoardStaysTrue == IssueSpec => []BoardIsTrue
<1>1. BoardInv /\ [IssueNext]_issueVars => BoardInv'
  <2> SUFFICES ASSUME BoardInv, [IssueNext]_issueVars
               PROVE  BoardInv'
    OBVIOUS
  <2>1. CASE UNCHANGED issueVars
    BY <2>1 DEF issueVars, BoardInv, BoardShape, GivenIsTrue, LastOfIssue, LinkedOnce
  <2>2. CASE IssueNext
    BY <2>2, UpdateIssueKeeps, EvidenceKeeps, ListIssuesKeeps, EditOnBoardKeeps, OpenIssueKeeps DEF IssueNext
  <2> QED
    BY <2>1, <2>2
<1>2. BoardInv => BoardIsTrue
  <2> SUFFICES ASSUME BoardInv PROVE BoardIsTrue
    OBVIOUS
  <2>1. /\ Len(board) \in Nat /\ DOMAIN board = 1 .. Len(board)
        /\ \A i \in 1 .. Len(board) : board[i] = lastGiven[board[i].id]
        /\ \A id \in 1 .. Len(board) : \E i \in 1 .. Len(board) : board[i].id = id
    BY WhereIsIssue DEF BoardInv, GivenIsTrue
  <2>2. ASSUME NEW n \in DOMAIN statuses, LastOfIssue(n)
        PROVE  \E i \in IssueAt(statuses[n].id) : board[i].status = statuses[n].to
    <3>1. n \in 1 .. Len(statuses)
      BY DEF BoardInv, BoardShape
    <3>2. statuses[n].id \in 1 .. Len(board) /\ lastGiven[statuses[n].id].status = statuses[n].to
      BY <2>2, <3>1 DEF BoardInv, GivenIsTrue
    <3>3. PICK i \in 1 .. Len(board) : board[i].id = statuses[n].id
      BY <2>1, <3>2
    <3>4. i \in IssueAt(statuses[n].id) /\ board[i].status = statuses[n].to
      BY <2>1, <3>2, <3>3 DEF IssueAt
    <3> QED
      BY <3>4
  <2>3. ASSUME reading.alone, reading.ended
        PROVE  LET all == OfStatus(board, reading.status)
               IN  reading.rows = [i \in DOMAIN all |-> all[i].id]
    <3> DEFINE all == OfStatus(board, reading.status)
    <3>1. all \in Seq(IssueRow) /\ reading.rows \in Seq(IssueValues)
      BY OfStatusTyped DEF BoardInv, BoardShape, Reading
    <3>2. Len(reading.rows) = Len(all) /\ \A n \in 1 .. Len(reading.rows) : reading.rows[n] = all[n].id
      BY <2>3 DEF BoardInv, HasRead
    <3> HIDE DEF all
    <3>3. DOMAIN all = 1 .. Len(all) /\ DOMAIN reading.rows = 1 .. Len(all)
          /\ reading.rows = [i \in DOMAIN reading.rows |-> reading.rows[i]]
      BY <3>1, <3>2
    <3>4. reading.rows = [i \in DOMAIN all |-> all[i].id]
      BY <3>2, <3>3
    <3> QED
      BY <3>4 DEF all
  <2>4. LinkedOnce
    BY DEF BoardInv
  <2> QED
    BY <2>1, <2>2, <2>3, <2>4 DEF BoardIsTrue, LinkedOnce, LastOfIssue
<1> QED
  BY <1>1, <1>2, BoardStarts, PTL DEF IssueSpec
-----------------------------------------------------------------------------
(* `trace stats': what is shown of what was asked for.                     *)

\* The names of a list that are in a set, each once.
LEMMA EachOnceIs ==
  ASSUME NEW S, NEW names \in Seq(S), NEW set
  PROVE  LET all == EachOnce(names, set)
         IN  /\ all \in Seq(S)
             /\ ToSet(all) = ToSet(names) \cap set
             /\ \A k, l \in 1 .. Len(all) : all[k] = all[l] => k = l
<1> DEFINE N == Len(names)
           first == {i \in DOMAIN names : names[i] \in set /\ \A j \in 1 .. i - 1 : names[j] # names[i]}
           once  == CHOOSE f : KeepsPlaces(names, first, f, N)
           all   == EachOnce(names, set)
<1>1. N \in Nat /\ DOMAIN names = 1 .. N
  OBVIOUS
<1>2. KeepsPlaces(names, first, once, N)
  <2> HIDE DEF first
  <2> QED
    BY <1>1, KeepsExists
<1>3. all = once[N]
  BY DEF EachOnce, KeepsPlaces
<1> HIDE DEF once, N, all
<1>4. \A i, j \in 1 .. N : i \in first /\ j \in first /\ names[i] = names[j] => i = j
  <2> SUFFICES ASSUME NEW i \in 1 .. N, NEW j \in 1 .. N, i \in first, j \in first, names[i] = names[j], i # j
               PROVE  FALSE
    OBVIOUS
  <2>1. i \in 1 .. j - 1 \/ j \in 1 .. i - 1
    BY <1>1
  <2> QED
    BY <2>1
<1>5. \A n \in 1 .. N : names[n] \in set => \E i \in first : names[i] = names[n]
  <2> SUFFICES ASSUME NEW n \in 1 .. N, names[n] \in set
               PROVE  \E i \in first : names[i] = names[n]
    OBVIOUS
  <2> DEFINE T == {i \in 1 .. N : names[i] = names[n]}
  <2>1. T \in SUBSET Nat /\ T # {}
    BY <1>1
  <2>2. PICK m \in T : \A k \in T : m <= k
    <3> HIDE DEF T
    <3> QED
      BY <2>1, LeastIsThere
  <2>3. m \in 1 .. N /\ names[m] = names[n]
    OBVIOUS
  <2>4. ASSUME NEW j \in 1 .. m - 1
        PROVE  names[j] # names[m]
    <3>1. j \in 1 .. N /\ ~(m <= j)
      BY <1>1, <2>3
    <3> QED
      BY <2>2, <2>3, <3>1
  <2>5. m \in first
    BY <1>1, <2>3, <2>4
  <2> QED
    BY <2>3, <2>5
<1>6. \A i \in first : i \in 1 .. N /\ names[i] \in set
  BY <1>1
<1> HIDE DEF first
<1>7. /\ all \in Seq(S)
      /\ \A k \in 1 .. Len(all) : \E i \in 1 .. N : i \in first /\ all[k] = names[i]
      /\ \A i \in 1 .. N : i \in first => \E k \in 1 .. Len(all) : all[k] = names[i]
      /\ \A k, l \in 1 .. Len(all) : all[k] = all[l] => k = l
  BY <1>2, <1>3, <1>4, KeptAre DEF N
<1>8. DOMAIN all = 1 .. Len(all)
  BY <1>7
<1>9. ToSet(all) = ToSet(names) \cap set
  <2>1. \A s : s \in ToSet(all) => s \in ToSet(names) \cap set
    BY <1>1, <1>6, <1>7, <1>8 DEF ToSet
  <2>2. \A s : s \in ToSet(names) \cap set => s \in ToSet(all)
    BY <1>1, <1>5, <1>6, <1>7, <1>8 DEF ToSet
  <2> QED
    BY <2>1, <2>2
<1> QED
  BY <1>7, <1>9 DEF all

\* As many rows as there are keys in them, if no key is shown twice.
LEMMA RowsAreCounted ==
  ASSUME NEW N \in Nat, NEW row, \A k, l \in 1 .. N : row[k] = row[l] => k = l
  PROVE  Cardinality({row[n] : n \in 1 .. N}) = N
<1> DEFINE shown == {row[n] : n \in 1 .. N}
           f == [n \in 1 .. N |-> row[n]]
<1>1. f \in Bijection(1 .. N, shown)
  BY DEF Bijection, Injection, Surjection, IsInjective
<1>2. ExistsBijection(1 .. N, shown)
  BY <1>1 DEF ExistsBijection
<1> QED
  <2> HIDE DEF shown
  <2>1. Cardinality(shown) = N
    BY <1>2, FS_CountingElements
  <2> QED
    BY <2>1 DEF shown

\* The state of the command has these parts.
StatsShape(run) ==
  run = [pc |-> run.pc, in |-> run.in, keys |-> run.keys, primary |-> run.primary, compare |-> run.compare,
         rows |-> run.rows, asked |-> run.asked, cmpAsked |-> run.cmpAsked]

StatsAskedFor(in) == IF in.select = <<>> THEN StatsKeys ELSE ToSet(in.select) \ {NoStat}

StatsNames == STRING \cup {"feedback_stats"}

\* The keys are those that were asked for, each once.
KeysAreMeant(run) ==
  /\ run.keys \in Seq(StatsNames) /\ ToSet(run.keys) = StatsAskedFor(run.in) /\ ToSet(run.keys) \subseteq StatsKeys
  /\ \A k, l \in 1 .. Len(run.keys) : run.keys[k] = run.keys[l] => k = l

Shows(keys, values, found) == \A k \in ToSet(keys) : values[k] = Cardinality(found)

\* The traces that the flags name, of each of the two requests, and when the property
\* is about them.
PrimaryNamed(run) == NamedBy(run.in.since, run.in.before, run.in.last, run.asked)

CompareNamed(run) == NamedBy(run.in.cmpSince, run.in.cmpBefore, 0, run.cmpAsked)

NamesBoth(in) == in.cmpSince > 0 /\ in.cmpBefore > 0 /\ in.cmpLast = 0

PrimaryTrue(run) == run.in.before >= 0 => Shows(run.keys, run.primary, PrimaryNamed(run))

CompareTrue(run) == NamesBoth(run.in) => Shows(run.keys, run.compare, CompareNamed(run))

\* No trace starts before it does.
TimesAreSound == clock \in Nat /\ clock <= EndOfTime /\ started \subseteq 1 .. clock

StatsInv ==
  /\ StatsShape(stats) /\ TimesAreSound
  /\ stats.pc \in {"primary", "compare", "print"} => KeysAreMeant(stats) /\ stats.in \in StatsInputs
  /\ stats.pc \in {"compare", "print"} => PrimaryTrue(stats)
  /\ stats.pc = "print" /\ HasCompare(stats.in) => CompareTrue(stats)
  /\ StatsAreMeasured

\* The feedback goes after the other stats.
LEMMA FeedbackIsLast ==
  ASSUME NEW keys \in Seq(StatsNames)
  PROVE  LET longer == Append(keys, "feedback_stats")
         IN  /\ longer \in Seq(StatsNames) /\ Len(longer) = Len(keys) + 1 /\ Len(keys) \in Nat
             /\ DOMAIN longer = 1 .. Len(longer) /\ DOMAIN keys = 1 .. Len(keys)
             /\ \A n \in 1 .. Len(keys) : longer[n] = keys[n]
             /\ longer[Len(keys) + 1] = "feedback_stats"
<1>1. "feedback_stats" \in StatsNames
  BY DEF StatsNames
<1> QED
  BY <1>1, AppendIs

LEMMA NamesAreTyped ==
  /\ OverviewKeys \in Seq(StatsNames)
  /\ \A in \in StatsInputs : in.select \in Seq(StatsNames)
<1>1. \A names \in Seq(STRING) : names \in Seq(StatsNames)
  BY DEF StatsNames
<1> QED
  BY <1>1, StatsAssumption

LEMMA SelectIsMeant ==
  ASSUME NEW in \in StatsInputs, ResolveStatsSelect(in.select) # <<>>
  PROVE  LET keys == ResolveStatsSelect(in.select)
         IN  /\ keys \in Seq(StatsNames) /\ ToSet(keys) = StatsAskedFor(in) /\ ToSet(keys) \subseteq StatsKeys
             /\ \A k, l \in 1 .. Len(keys) : keys[k] = keys[l] => k = l
<1> DEFINE select == in.select
           keys   == ResolveStatsSelect(select)
           named  == IF select = <<>> THEN Append(OverviewKeys, "feedback_stats") ELSE select
<1>1. select \in Seq(StatsNames) /\ OverviewKeys \in Seq(StatsNames)
  BY NamesAreTyped
<1>2. NoStat \notin StatsKeys
  <2>1. NoStat # "feedback_stats"
    BY Zenon DEF NoStat
  <2> QED
    BY <2>1, StatsAssumption DEF StatsKeys, ToSet
<1>3. (\A n \in DOMAIN named : named[n] \in StatsKeys \cup {NoStat}) /\ keys = EachOnce(named, StatsKeys)
  BY DEF ResolveStatsSelect
<1> DEFINE longer == Append(OverviewKeys, "feedback_stats")
<1>4. longer \in Seq(StatsNames) /\ ToSet(longer) = StatsKeys
  <2>1. /\ longer \in Seq(StatsNames) /\ Len(longer) = Len(OverviewKeys) + 1 /\ Len(OverviewKeys) \in Nat
        /\ DOMAIN longer = 1 .. Len(longer) /\ DOMAIN OverviewKeys = 1 .. Len(OverviewKeys)
        /\ \A n \in 1 .. Len(OverviewKeys) : longer[n] = OverviewKeys[n]
        /\ longer[Len(OverviewKeys) + 1] = "feedback_stats"
    BY <1>1, FeedbackIsLast
  <2> HIDE DEF longer
  <2>2. \A n \in 1 .. Len(longer) : n \in 1 .. Len(OverviewKeys) \/ n = Len(OverviewKeys) + 1
    BY <2>1
  <2>3. \A n \in 1 .. Len(OverviewKeys) : n \in 1 .. Len(longer)
    BY <2>1
  <2>4. Len(OverviewKeys) + 1 \in 1 .. Len(longer)
    BY <2>1
  <2> QED
    BY <2>1, <2>2, <2>3, <2>4 DEF ToSet, StatsKeys
<1>5. named \in Seq(StatsNames) /\ ToSet(named) \cap StatsKeys = StatsAskedFor(in)
  <2>1. CASE select = <<>>
    BY <1>4, <2>1 DEF StatsAskedFor
  <2>2. CASE select # <<>>
    BY <1>1, <1>2, <1>3, <2>2 DEF StatsAskedFor, ToSet
  <2> QED
    BY <2>1, <2>2
<1> HIDE DEF named, keys
<1>6. /\ keys \in Seq(StatsNames) /\ ToSet(keys) = ToSet(named) \cap StatsKeys
      /\ \A k, l \in 1 .. Len(keys) : keys[k] = keys[l] => k = l
  BY <1>3, <1>5, EachOnceIs
<1> QED
  BY <1>5, <1>6 DEF keys


LEMMA StatsAreAsked ==
  ASSUME StatsInv, NEW in \in StatsInputs, StartStats(in)
  PROVE  StatsInv'
<1> DEFINE keys == ResolveStatsSelect(in.select)
           pc   == IF keys = <<>> \/ (in.since = -1 /\ in.last = 0) THEN "failed" ELSE "primary"
<1>1. stats' = [NotAsked EXCEPT !.in = in, !.keys = keys, !.pc = pc] /\ TimesAreSound'
  BY DEF StartStats, StatsInv, TimesAreSound
<1>2. pc = "primary" => keys # <<>>
  OBVIOUS
<1>3. pc \in {"failed", "primary"}
  OBVIOUS
<1> HIDE DEF keys, pc
<1>4. StatsShape(stats') /\ stats'.in = in /\ stats'.keys = keys /\ stats'.pc = pc
  BY <1>1 DEF NotAsked, StatsShape
<1>5. pc = "primary" => KeysAreMeant(stats')
  BY <1>2, <1>4, SelectIsMeant DEF KeysAreMeant, keys
<1> QED
  BY <1>1, <1>3, <1>4, <1>5 DEF StatsInv, StatsAreMeasured

\* The numbers of a response are of the traces of its window.
LEMMA MeasuredShows ==
  ASSUME NEW keys, ToSet(keys) \subseteq StatsKeys, NEW window
  PROVE  Shows(keys, Measured(keys, window), InWindow(window))
BY DEF Shows, Measured

\* The window that the code asks for is the one that the flags name.
LEMMA WindowIsNamed ==
  ASSUME TimesAreSound, NEW since \in Int, NEW before \in Nat, NEW last \in Nat
  PROVE  InWindow(StatsWindow(since, before, last, clock)) = NamedBy(since, before, last, AskedWhen(clock, started))
<1> DEFINE start == StatsStart(since, last, clock)
           end   == IF before > 0 THEN before ELSE EndOfTime + 1
<1>1. NamedStart(since, last, AskedWhen(clock, started)) = start
  BY DEF StatsStart, NamedStart, AskedWhen
<1>2. ASSUME NEW t \in started
      PROVE  t < end <=> IF before > 0 THEN t < before ELSE t <= clock
  <2>1. t \in Nat /\ t <= clock /\ clock \in Nat /\ clock <= EndOfTime /\ EndOfTime \in Nat
    BY StatsAssumption DEF TimesAreSound
  <2> QED
    BY <2>1
<1>3. InWindow(StatsWindow(since, before, last, clock)) = {t \in started : start <= t /\ t < end}
  BY DEF InWindow, StatsWindow, Window
<1>4. NamedBy(since, before, last, AskedWhen(clock, started))
      = {t \in started : start <= t /\ IF before > 0 THEN t < before ELSE t <= clock}
  BY <1>1 DEF NamedBy, AskedWhen
<1> HIDE DEF start, end
<1> QED
  BY <1>2, <1>3, <1>4

LEMMA FetchedStatsKeep ==
  ASSUME StatsInv, FetchStats \/ FetchCompareStats
  PROVE  StatsInv'
<1>1. /\ StatsShape(stats) /\ KeysAreMeant(stats) /\ ToSet(stats.keys) \subseteq StatsKeys
      /\ stats.in \in StatsInputs /\ TimesAreSound /\ TimesAreSound'
  BY DEF StatsInv, FetchStats, FetchCompareStats, KeysAreMeant, TimesAreSound
<1>2. /\ stats.in.since \in Int /\ stats.in.before \in Int /\ stats.in.last \in Nat
      /\ stats.in.cmpSince \in Int /\ stats.in.cmpBefore \in Int /\ stats.in.cmpLast \in Nat
  BY <1>1, StatsAssumption
<1>3. CASE FetchStats
  <2> DEFINE window == StatsWindow(stats.in.since, stats.in.before, stats.in.last, clock)
             pc     == IF HasCompare(stats.in) THEN "compare" ELSE "print"
             values == Measured(stats.keys, window)
             asked  == AskedWhen(clock, started)
  <2>1. stats' = [stats EXCEPT !.primary = values, !.asked = asked, !.pc = pc]
    BY <1>3 DEF FetchStats
  <2>2. Shows(stats.keys, values, InWindow(window))
    BY <1>1, MeasuredShows
  <2>3. stats.in.before >= 0 => InWindow(window) = NamedBy(stats.in.since, stats.in.before, stats.in.last, asked)
    <3> SUFFICES ASSUME stats.in.before >= 0
                 PROVE  InWindow(window) = NamedBy(stats.in.since, stats.in.before, stats.in.last, asked)
      OBVIOUS
    <3>1. stats.in.before \in Nat
      BY <1>2
    <3> QED
      BY <1>1, <1>2, <3>1, WindowIsNamed
  <2>4. pc \in {"compare", "print"} /\ (pc = "print" => ~HasCompare(stats.in))
    OBVIOUS
  <2> HIDE DEF window, pc, values, asked
  <2>5. /\ StatsShape(stats') /\ stats'.in = stats.in /\ stats'.keys = stats.keys /\ stats'.pc = pc
        /\ stats'.primary = values /\ stats'.asked = asked
    BY <1>1, <2>1 DEF StatsShape
  <2>6. KeysAreMeant(stats') /\ PrimaryTrue(stats')
    BY <1>1, <2>2, <2>3, <2>5 DEF KeysAreMeant, PrimaryTrue, PrimaryNamed
  <2> QED
    BY <1>1, <2>4, <2>5, <2>6 DEF StatsInv, StatsAreMeasured
<1>4. CASE FetchCompareStats
  <2> DEFINE window == StatsWindow(stats.in.cmpSince, stats.in.cmpBefore, stats.in.cmpLast, clock)
             values == Measured(stats.keys, window)
             asked  == AskedWhen(clock, started)
  <2>1. \/ stats' = [stats EXCEPT !.pc = "failed"]
        \/ stats' = [stats EXCEPT !.compare = values, !.cmpAsked = asked, !.pc = "print"]
    BY <1>4 DEF FetchCompareStats
  <2>2. Shows(stats.keys, values, InWindow(window))
    BY <1>1, MeasuredShows
  <2>3. NamesBoth(stats.in) => InWindow(window) = NamedBy(stats.in.cmpSince, stats.in.cmpBefore, 0, asked)
    <3> SUFFICES ASSUME NamesBoth(stats.in)
                 PROVE  InWindow(window) = NamedBy(stats.in.cmpSince, stats.in.cmpBefore, 0, asked)
      OBVIOUS
    <3>1. stats.in.cmpBefore \in Nat /\ stats.in.cmpLast = 0
      BY <1>2 DEF NamesBoth
    <3> QED
      BY <1>1, <1>2, <3>1, WindowIsNamed
  <2>4. PrimaryTrue(stats)
    BY <1>4 DEF StatsInv, FetchCompareStats
  <2> HIDE DEF window, values, asked
  <2>5. CASE stats' = [stats EXCEPT !.pc = "failed"]
    <3>1. StatsShape(stats') /\ stats'.pc = "failed"
      BY <1>1, <2>5 DEF StatsShape
    <3> QED
      BY <1>1, <3>1 DEF StatsInv, StatsAreMeasured
  <2>6. CASE stats' = [stats EXCEPT !.compare = values, !.cmpAsked = asked, !.pc = "print"]
    <3>1. /\ StatsShape(stats') /\ stats'.in = stats.in /\ stats'.keys = stats.keys /\ stats'.pc = "print"
          /\ stats'.primary = stats.primary /\ stats'.asked = stats.asked
          /\ stats'.compare = values /\ stats'.cmpAsked = asked
      BY <1>1, <2>6 DEF StatsShape
    <3>2. KeysAreMeant(stats') /\ PrimaryTrue(stats') /\ CompareTrue(stats')
      BY <1>1, <2>2, <2>3, <2>4, <3>1 DEF KeysAreMeant, PrimaryTrue, PrimaryNamed, CompareTrue, CompareNamed
    <3> QED
      BY <1>1, <3>1, <3>2 DEF StatsInv, StatsAreMeasured
  <2> QED
    BY <2>1, <2>5, <2>6
<1> QED
  BY <1>3, <1>4

\* Rows of keys that were asked for, each once, tell what was measured.
LEMMA RowsAreTrue ==
  ASSUME StatsInv, stats.pc = "print", NEW all \in Seq(StatsNames), ToSet(all) \subseteq ToSet(stats.keys),
         \A k, l \in 1 .. Len(all) : all[k] = all[l] => k = l,
         ~stats.in.pretty => ToSet(all) = ToSet(stats.keys),
         stats' = [stats EXCEPT !.pc = "done", !.rows = [n \in DOMAIN all |-> StatsRow(all[n], stats)]], TimesAreSound'
  PROVE  StatsInv'
<1> DEFINE rows  == [n \in DOMAIN all |-> StatsRow(all[n], stats)]
           shown == {rows[n].key : n \in DOMAIN rows}
           N     == Len(all)
<1>1. N \in Nat /\ DOMAIN all = 1 .. N /\ DOMAIN rows = 1 .. N /\ Len(rows) = N
  <2>1. N \in Nat /\ DOMAIN all = 1 .. N
    OBVIOUS
  <2> QED
    BY <2>1
<1>2. ASSUME NEW n \in 1 .. N
      PROVE  /\ rows[n].key = all[n] /\ rows[n].value = stats.primary[all[n]]
             /\ HasCompare(stats.in) => /\ rows[n].other = stats.compare[all[n]]
                                        /\ rows[n].delta = stats.primary[all[n]] - stats.compare[all[n]]
  <2>1. rows[n] = StatsRow(all[n], stats)
    BY <1>1
  <2> HIDE DEF rows
  <2> QED
    BY <2>1 DEF StatsRow
<1>3. /\ StatsShape(stats) /\ KeysAreMeant(stats) /\ PrimaryTrue(stats)
      /\ NamesBoth(stats.in) => HasCompare(stats.in) /\ CompareTrue(stats)
  <2>1. NamesBoth(stats.in) => HasCompare(stats.in)
    BY DEF NamesBoth, HasCompare
  <2> QED
    BY <2>1 DEF StatsInv
<1> HIDE DEF rows
<1>4. /\ StatsShape(stats') /\ stats'.in = stats.in /\ stats'.pc = "done" /\ stats'.rows = rows
      /\ stats'.asked = stats.asked /\ stats'.cmpAsked = stats.cmpAsked
  BY <1>3 DEF StatsShape, rows
<1>5. \A n \in 1 .. N : all[n] \in ToSet(all) /\ all[n] \in ToSet(stats.keys) /\ rows[n].key = all[n]
  BY <1>1, <1>2 DEF ToSet
<1>6. ASSUME NEW n \in 1 .. N
      PROVE  /\ stats.in.before >= 0 => rows[n].value = Cardinality(PrimaryNamed(stats))
             /\ NamesBoth(stats.in) => rows[n].other = Cardinality(CompareNamed(stats))
             /\ HasCompare(stats.in) => rows[n].delta = rows[n].value - rows[n].other
  BY <1>2, <1>3, <1>5 DEF Shows, PrimaryTrue, CompareTrue
<1>7. shown = ToSet(all)
  BY <1>1, <1>5 DEF ToSet
<1>8. Cardinality(shown) = N
  <2>1. shown = {all[n] : n \in 1 .. N}
    BY <1>1, <1>7 DEF ToSet
  <2> HIDE DEF shown, N
  <2>2. \A k, l \in 1 .. N : all[k] = all[l] => k = l
    BY DEF N
  <2>3. Cardinality({all[n] : n \in 1 .. N}) = N
    BY <1>1, <2>2, RowsAreCounted
  <2> QED
    BY <2>1, <2>3
<1>9. ToSet(stats.keys) = StatsAskedFor(stats.in)
  BY <1>3 DEF KeysAreMeant
<1> HIDE DEF shown, N
<1>10. StatsAreMeasured'
  <2>1. shown \subseteq StatsAskedFor(stats.in) /\ (~stats.in.pretty => shown = StatsAskedFor(stats.in))
    BY <1>7, <1>9
  <2>2. {stats'.rows[n].key : n \in DOMAIN stats'.rows} = shown /\ Len(stats'.rows) = N /\ DOMAIN stats'.rows = 1 .. N
    BY <1>1, <1>4 DEF shown
  <2>3. \A n \in DOMAIN stats'.rows :
          LET row == stats'.rows[n]
              in  == stats'.in
          IN  /\ in.before >= 0 => row.value = Cardinality(NamedBy(in.since, in.before, in.last, stats'.asked))
              /\ in.cmpSince > 0 /\ in.cmpBefore > 0 /\ in.cmpLast = 0 =>
                   row.other = Cardinality(NamedBy(in.cmpSince, in.cmpBefore, 0, stats'.cmpAsked))
              /\ HasCompare(in) => row.delta = row.value - row.other
    BY <1>4, <1>6, <2>2 DEF PrimaryNamed, CompareNamed, NamesBoth
  <2> QED
    BY <1>4, <1>8, <2>1, <2>2, <2>3, Zenon DEF StatsAreMeasured, StatsAskedFor
<1> QED
  BY <1>4, <1>10 DEF StatsInv

LEMMA PrintedStatsKeep ==
  ASSUME StatsInv, PrintStats
  PROVE  StatsInv'
<1>1. stats.pc = "print" /\ KeysAreMeant(stats) /\ TimesAreSound'
  BY DEF PrintStats, StatsInv, TimesAreSound
<1>2. CASE ~stats.in.pretty
  <2>1. stats' = [stats EXCEPT !.pc = "done", !.rows = [n \in DOMAIN stats.keys |-> StatsRow(stats.keys[n], stats)]]
    BY <1>2 DEF PrintStats, SelectedStats
  <2> QED
    BY <1>1, <2>1, RowsAreTrue DEF KeysAreMeant
<1>3. CASE stats.in.pretty
  <2> DEFINE kept == EachOnce(OverviewKeys, ToSet(stats.keys))
             all  == IF "feedback_stats" \in ToSet(stats.keys) /\ stats.primary["feedback_stats"] > 0
                     THEN Append(kept, "feedback_stats") ELSE kept
  <2>1. stats' = [stats EXCEPT !.pc = "done", !.rows = [n \in DOMAIN all |-> StatsRow(all[n], stats)]]
    BY <1>3 DEF PrintStats, PrintStatsPretty
  <2>2. /\ kept \in Seq(StatsNames) /\ ToSet(kept) = ToSet(OverviewKeys) \cap ToSet(stats.keys)
        /\ \A k, l \in 1 .. Len(kept) : kept[k] = kept[l] => k = l
    BY NamesAreTyped, EachOnceIs
  <2>3. "feedback_stats" \notin ToSet(OverviewKeys)
    BY StatsAssumption DEF ToSet
  <2> HIDE DEF kept
  <2>4. all \in Seq(StatsNames) /\ ToSet(all) \subseteq ToSet(stats.keys) /\ \A k, l \in 1 .. Len(all) : all[k] = all[l] => k = l
    <3>1. CASE all = kept
      BY <2>2, <3>1
    <3>2. CASE "feedback_stats" \in ToSet(stats.keys) /\ all = Append(kept, "feedback_stats")
      <4> DEFINE N == Len(kept)
      <4> HIDE DEF all
      <4>1. /\ all \in Seq(StatsNames) /\ Len(all) = N + 1 /\ N \in Nat /\ DOMAIN all = 1 .. Len(all) /\ DOMAIN kept = 1 .. N
            /\ \A n \in 1 .. N : all[n] = kept[n]
            /\ all[N + 1] = "feedback_stats"
        BY <2>2, <3>2, FeedbackIsLast
      <4> HIDE DEF N
      <4>2. \A n \in 1 .. Len(all) : n \in 1 .. N \/ n = N + 1
        BY <4>1
      <4>3. \A n \in 1 .. N : kept[n] \in ToSet(stats.keys) /\ kept[n] # "feedback_stats"
        BY <2>2, <2>3, <4>1 DEF ToSet
      <4>4. \A n \in 1 .. Len(all) : all[n] \in ToSet(stats.keys)
        BY <3>2, <4>1, <4>2, <4>3
      <4>5. \A k, l \in 1 .. Len(all) : all[k] = all[l] => k = l
        BY <2>2, <4>1, <4>2, <4>3 DEF N
      <4>6. ToSet(all) \subseteq ToSet(stats.keys)
        BY <4>1, <4>4 DEF ToSet
      <4> QED
        BY <4>1, <4>5, <4>6
    <3> QED
      BY <3>1, <3>2
  <2> HIDE DEF all
  <2> QED
    BY <1>1, <1>3, <2>1, <2>4, RowsAreTrue
<1> QED
  BY <1>2, <1>3

\* Whatever is asked for, and whatever traces come in between the two requests, the
\* rows of `trace stats' are of the stats that were asked for, each shown once, with the
\* numbers of the traces in the windows that the flags name.
THEOREM StatsAreTrue == StatsSpec => []StatsAreMeasured
<1>1. StatsInit => StatsInv
  <2> SUFFICES ASSUME StatsInit PROVE StatsInv
    OBVIOUS
  <2>1. TimesAreSound
    BY StatsAssumption DEF StatsInit, TimesAreSound
  <2> QED
    BY <2>1 DEF StatsInit, NotAsked, StatsInv, StatsShape, StatsAreMeasured
<1>2. StatsInv /\ [StatsNext]_statsVars => StatsInv'
  <2> SUFFICES ASSUME StatsInv, [StatsNext]_statsVars
               PROVE  StatsInv'
    OBVIOUS
  <2>0. StatsNext /\ UNCHANGED stats => ClockTicks \/ UNCHANGED <<clock, started>>
    BY DEF StatsNext, StartStats, FetchStats, FetchCompareStats, StatsFail, PrintStats
  <2>1. CASE UNCHANGED stats
    <3>1. TimesAreSound'
      <4>1. clock \in Nat /\ EndOfTime \in Nat /\ clock <= EndOfTime /\ started \subseteq 1 .. clock
        BY StatsAssumption DEF StatsInv, TimesAreSound
      <4>2. CASE UNCHANGED <<clock, started>>
        BY <4>1, <4>2 DEF TimesAreSound
      <4>3. CASE ClockTicks
        <5>1. /\ clock < EndOfTime /\ clock' = clock + 1
              /\ \E t \in {0, clock, clock + 1} : started' = started \cup ({t} \ {0})
          BY <4>3 DEF ClockTicks
        <5>2. clock' \in Nat /\ clock' <= EndOfTime /\ started' \subseteq 1 .. clock'
          BY ONLY <4>1, <5>1
        <5> QED
          BY <5>2 DEF TimesAreSound
      <4> QED
        BY <2>0, <2>1, <4>2, <4>3 DEF statsVars
    <3> QED
      BY <2>1, <3>1 DEF StatsInv, KeysAreMeant, StatsAreMeasured, PrimaryTrue, PrimaryNamed, CompareTrue, CompareNamed
  <2>2. CASE StatsFail
    <3>1. StatsShape(stats) /\ stats' = [stats EXCEPT !.pc = "failed"] /\ TimesAreSound'
      BY <2>2 DEF StatsInv, StatsFail, TimesAreSound
    <3>2. StatsShape(stats') /\ stats'.pc = "failed"
      BY <3>1 DEF StatsShape
    <3> QED
      BY <3>1, <3>2 DEF StatsInv, StatsAreMeasured
  <2> QED
    BY <2>1, <2>2, StatsAreAsked, FetchedStatsKeep, PrintedStatsKeep DEF StatsNext, ClockTicks, statsVars
<1>3. StatsInv => StatsAreMeasured
  BY DEF StatsInv
<1> QED
  BY <1>1, <1>2, <1>3, PTL DEF StatsSpec

-----------------------------------------------------------------------------
(* Generated commands: an operation that deletes runs only after a yes.    *)
(* What an argument is depends on the arguments before it; so where two    *)
(* lists of arguments agree up to the first word, both run the operation   *)
(* that it names, and what the CLI takes out before that word is none of   *)
(* the generated tree's flags.                                             *)

RolesAre(args, flags, role, n) ==
  role = [i \in 0 .. n |->
           IF i = 0 THEN "rest"
           ELSE IF role[i - 1] = "end" THEN "end"
           ELSE IF role[i - 1] = "flag" /\ Alone(args[i - 1]) THEN "value"
           ELSE IF args[i] = Dashes THEN "end"
           ELSE IF args[i].name \in flags THEN "flag" ELSE "rest"]

\* What the next argument is depends on what the last one was.
RoleAfter(state, arg, flags) ==
  IF state = "end" THEN "end" ELSE IF state = "takes" THEN "value"
  ELSE IF arg = Dashes THEN "end" ELSE IF arg.name \in flags THEN "flag" ELSE "rest"

StateOf(role, arg) ==
  IF role = "end" THEN "end" ELSE IF role = "flag" /\ Alone(arg) THEN "takes" ELSE "free"

StateAt(args, flags, n) == IF n = 0 THEN "free" ELSE StateOf(Roles(args, flags)[n], args[n])

LEMMA RolesExist ==
  ASSUME NEW args, NEW flags, NEW N \in Nat
  PROVE  \E f : RolesAre(args, flags, f, N)
<1> DEFINE Next(f, i) ==
             IF f[i - 1] = "end" THEN "end" ELSE IF f[i - 1] = "flag" /\ Alone(args[i - 1]) THEN "value"
             ELSE IF args[i] = Dashes THEN "end" ELSE IF args[i].name \in flags THEN "flag" ELSE "rest"
           Is(f, n) == /\ f = [i \in 0 .. n |-> f[i]]
                       /\ f[0] = "rest" /\ \A i \in 1 .. n : f[i] = Next(f, i)
           T == {n \in 0 .. N : ~\E f : Is(f, n)}
<1>1. ASSUME NEW n \in Nat, NEW f, Is(f, n) PROVE RolesAre(args, flags, f, n)
  <2>1. ASSUME NEW i \in 0 .. n PROVE f[i] = IF i = 0 THEN "rest" ELSE Next(f, i)
    <3>1. i = 0 \/ i \in 1 .. n
      BY <1>1
    <3>2. i = 0 => f[i] = "rest"
      BY ONLY <1>1
    <3>3. i \in 1 .. n => i # 0 /\ f[i] = Next(f, i)
      BY ONLY <1>1
    <3> HIDE DEF Next
    <3> QED
      BY ONLY <3>1, <3>2, <3>3
  <2> QED
    BY <1>1, <2>1 DEF RolesAre
<1> SUFFICES \E f : Is(f, N)
  BY <1>1
<1> SUFFICES T = {}
  OBVIOUS
<1> SUFFICES ASSUME T # {} PROVE FALSE
  OBVIOUS
<1>0. T \in SUBSET Nat
  OBVIOUS
<1>2. PICK m \in T : \A k \in T : m <= k
  <2> HIDE DEF T
  <2> QED
    BY <1>0, LeastIsThere
<1>3. m # 0
  <2> DEFINE f == [i \in 0 .. 0 |-> "rest"]
  <2>1. Is(f, 0)
    OBVIOUS
  <2> QED
    BY <2>1
<1>4. PICK f : Is(f, m - 1)
  <2>1. m - 1 \in 0 .. N /\ m - 1 \notin T
    BY <1>2, <1>3
  <2> QED
    BY <2>1
<1>5. m \in Nat \ {0} /\ m - 1 \in Nat /\ m - 1 \in 0 .. m - 1
  BY <1>3
<1> DEFINE next == Next(f, m)
           g == [i \in 0 .. m |-> IF i = m THEN next ELSE f[i]]
<1>6. \A i \in 0 .. m - 1 : g[i] = f[i]
  BY <1>5
<1>7. g[m] = Next(g, m)
  BY <1>5, <1>6
<1>8. \A i \in 1 .. m : g[i] = Next(g, i)
  <2> TAKE i \in 1 .. m
  <2>1. CASE i = m
    BY <1>7, <2>1
  <2>2. CASE i # m
    <3>1. i \in 1 .. m - 1 /\ i \in 0 .. m - 1 /\ i - 1 \in 0 .. m - 1
      BY <1>5, <2>2
    <3>2. f[i] = Next(f, i) /\ g[i] = f[i] /\ g[i - 1] = f[i - 1]
      BY <1>4, <1>6, <3>1
    <3> QED
      BY ONLY <3>2
  <2> QED
    BY <2>1, <2>2
<1>9. g[0] = "rest"
  BY <1>4, <1>5
<1>10. Is(g, m)
  BY <1>8, <1>9
<1> QED
  BY <1>2, <1>10

\* Every argument has one of four roles.
LEMMA RoleIs ==
  ASSUME NEW S, NEW args \in Seq(S), NEW flags
  PROVE  /\ \A n \in 1 .. Len(args) :
              /\ Roles(args, flags)[n] = RoleAfter(StateAt(args, flags, n - 1), args[n], flags)
              /\ Roles(args, flags)[n] \in {"rest", "flag", "value", "end"}
<1> DEFINE N == Len(args)
           role == CHOOSE f : RolesAre(args, flags, f, N)
<1>1. N \in Nat /\ DOMAIN args = 1 .. N
  OBVIOUS
<1>2. Roles(args, flags) = role
  BY DEF Roles, RolesAre
<1>3. RolesAre(args, flags, role, N)
  <2>1. \E f : RolesAre(args, flags, f, N)
    BY <1>1, RolesExist
  <2> QED
    BY <2>1
<1> HIDE DEF role
<1>4. role[0] = "rest"
  BY <1>1, <1>3 DEF RolesAre
<1>5. ASSUME NEW n \in 1 .. N
      PROVE  role[n] = RoleAfter(StateAt(args, flags, n - 1), args[n], flags)
  <2>1. n \in 0 .. N /\ n # 0 /\ n > 0 /\ n - 1 \in 0 .. N
    BY <1>1
  <2>2. role[n] = IF role[n - 1] = "end" THEN "end" ELSE IF role[n - 1] = "flag" /\ Alone(args[n - 1]) THEN "value"
                  ELSE IF args[n] = Dashes THEN "end" ELSE IF args[n].name \in flags THEN "flag" ELSE "rest"
    BY ONLY <1>3, <2>1 DEF RolesAre
  <2>3. CASE n - 1 = 0
    BY <1>4, <2>2, <2>3 DEF StateAt, RoleAfter
  <2>4. CASE n - 1 # 0
    <3>1. Roles(args, flags)[n - 1] = role[n - 1]
      BY <1>1, <1>2, <2>1, <2>4
    <3> QED
      BY ONLY <2>2, <2>4, <3>1 DEF StateAt, StateOf, RoleAfter
  <2> QED
    BY <2>3, <2>4
<1> QED
  BY <1>1, <1>2, <1>5 DEF RoleAfter

LEMMA RoleNext ==
  ASSUME NEW S, NEW args \in Seq(S), NEW flags, NEW n \in 1 .. Len(args), NEW h, h = n - 1
  PROVE  Roles(args, flags)[n] = RoleAfter(StateAt(args, flags, h), args[n], flags)
BY RoleIs

\* After "--" nothing is a flag any more.
LEMMA EndStays ==
  ASSUME NEW S, NEW args \in Seq(S), NEW flags, NEW i \in 1 .. Len(args), Roles(args, flags)[i] = "end"
  PROVE  \A j \in i .. Len(args) : Roles(args, flags)[j] = "end"
<1> DEFINE N == Len(args)
           Good(j) == j >= i => Roles(args, flags)[j] = "end"
           T == {j \in 1 .. N : ~Good(j)}
<1>1. N \in Nat
  OBVIOUS
<1> SUFFICES ASSUME T # {} PROVE FALSE
  BY <1>1
<1>2. PICK m \in T : \A k \in T : m <= k
  <2>1. T \in SUBSET Nat
    OBVIOUS
  <2> HIDE DEF T
  <2> QED
    BY <2>1, LeastIsThere
<1>3. m \in 1 .. N /\ m > i /\ m - 1 \in 1 .. N /\ m - 1 >= i /\ m - 1 # 0 /\ ~(m <= m - 1)
  BY <1>1
<1>4. Roles(args, flags)[m - 1] = "end"
  BY ONLY <1>2, <1>3
<1>5. StateAt(args, flags, m - 1) = "end"
  BY ONLY <1>3, <1>4 DEF StateAt, StateOf
<1>6. Roles(args, flags)[m] = "end"
  BY <1>3, <1>5, RoleIs DEF RoleAfter
<1> QED
  BY ONLY <1>2, <1>6

\* Where two lists agree, so do the roles of their arguments.
Agree(a, b, n) == n \in Nat /\ n <= Len(a) /\ n <= Len(b) /\ \A i \in 1 .. n : a[i] = b[i]

Alike(a, b, flags, n) ==
  /\ \A i \in 1 .. n : Roles(a, flags)[i] = Roles(b, flags)[i]
  /\ StateAt(a, flags, n) = StateAt(b, flags, n)

LEMMA SameRoles ==
  ASSUME NEW S, NEW a \in Seq(S), NEW T, NEW b \in Seq(T), NEW flags, NEW n, Agree(a, b, n)
  PROVE  Alike(a, b, flags, n)
<1>0. n \in Nat /\ n <= Len(a) /\ n <= Len(b) /\ \A i \in 1 .. n : a[i] = b[i]
  BY DEF Agree
<1> DEFINE Still(i) == Roles(a, flags)[i] = Roles(b, flags)[i]
           U == {i \in 1 .. n : ~Still(i)}
<1>1. Len(a) \in Nat /\ Len(b) \in Nat
  OBVIOUS
<1>2. U = {}
  <2> SUFFICES ASSUME U # {} PROVE FALSE
    OBVIOUS
  <2>1. PICK m \in U : \A k \in U : m <= k
    <3>1. U \in SUBSET Nat
      BY <1>0
    <3> HIDE DEF U
    <3> QED
      BY <3>1, LeastIsThere
  <2>2. m \in 1 .. n /\ m \in 1 .. Len(a) /\ m \in 1 .. Len(b) /\ (m - 1 = 0 \/ m - 1 \in 1 .. n) /\ ~(m <= m - 1)
    BY <1>0, <1>1
  <2>3. m - 1 # 0 => Still(m - 1) /\ a[m - 1] = b[m - 1]
    BY <1>0, <2>1, <2>2
  <2>4. StateAt(a, flags, m - 1) = StateAt(b, flags, m - 1)
    BY ONLY <2>3 DEF StateAt
  <2>5. Still(m)
    BY <1>0, <2>2, <2>4, RoleIs
  <2> QED
    BY ONLY <2>1, <2>5
<1>3. \A i \in 1 .. n : Still(i)
  BY <1>2
<1>4. n = 0 \/ n \in 1 .. n
  BY <1>0
<1> QED
  BY <1>0, <1>3, <1>4 DEF StateAt, Alike

\* What is left are some of the arguments.
LEMMA ThoseAre ==
  ASSUME NEW S, NEW args \in Seq(S), NEW kept
  PROVE  /\ Those(args, kept) \in Seq(S)
         /\ \A k \in 1 .. Len(Those(args, kept)) : \E i \in 1 .. Len(args) : i \in kept /\ Those(args, kept)[k] = args[i]
<1> DEFINE those == CHOOSE f : KeepsPlaces(args, kept, f, Len(args))
<1>1. Those(args, kept) = those[Len(args)]
  BY DEF Those, KeepsPlaces
<1>2. KeepsPlaces(args, kept, those, Len(args))
  <2>1. Len(args) \in Nat
    OBVIOUS
  <2>2. \E f : KeepsPlaces(args, kept, f, Len(args))
    BY <2>1, KeepsExists
  <2> QED
    BY <2>2
<1> HIDE DEF those
<1> QED
  BY <1>1, <1>2, KeptAre

\* If only such arguments are dropped that are neither flags nor values of flags, the
\* others keep their roles up to any place.
DropsRest(args, kept, flags, w) ==
  w \in kept /\ \A i \in 1 .. w - 1 : i \notin kept => Roles(args, flags)[i] = "rest"

KeptAt(q, args, kept, flags, v, w) ==
  /\ q[v] = args[w] /\ Roles(q, flags)[v] = Roles(args, flags)[w]
  /\ \A j \in 1 .. v - 1 : \E i \in 1 .. w - 1 :
       i \in kept /\ q[j] = args[i] /\ Roles(q, flags)[j] = Roles(args, flags)[i]

LEMMA DroppedBefore ==
  ASSUME NEW S, NEW args \in Seq(S), NEW kept, NEW flags, NEW w \in 1 .. Len(args), DropsRest(args, kept, flags, w)
  PROVE  \E v \in 1 .. Len(Those(args, kept)) : KeptAt(Those(args, kept), args, kept, flags, v, w)
<1> DEFINE N == Len(args)
           those == CHOOSE f : KeepsPlaces(args, kept, f, N)
           q == Those(args, kept)
<1>1. q = those[N]
  BY DEF Those, KeepsPlaces
<1>2. KeepsPlaces(args, kept, those, N)
  <2>1. N \in Nat
    OBVIOUS
  <2>2. \E f : KeepsPlaces(args, kept, f, N)
    BY <2>1, KeepsExists
  <2> QED
    BY <2>2
<1> HIDE DEF those
<1>0. w \in kept /\ \A i \in 1 .. w - 1 : i \notin kept => Roles(args, flags)[i] = "rest"
  BY DEF DropsRest
<1>3. N \in Nat /\ w \in 1 .. N /\ w \in Nat /\ w - 1 \in 0 .. N /\ w - 1 \in Nat /\ \A n \in 1 .. N : args[n] \in S
  OBVIOUS
<1>4. \A n \in 0 .. N : those[n] = IF n = 0 THEN <<>> ELSE IF n \in kept THEN Append(those[n - 1], args[n]) ELSE those[n - 1]
  BY <1>2 DEF KeepsPlaces
<1>5. \A n \in 0 .. N : those[n] \in Seq(S)
  <2> DEFINE T == {n \in 0 .. N : those[n] \notin Seq(S)}
  <2> SUFFICES ASSUME T # {} PROVE FALSE
    OBVIOUS
  <2>1. PICK m \in T : \A k \in T : m <= k
    <3>1. T \in SUBSET Nat
      BY <1>3
    <3> HIDE DEF T
    <3> QED
      BY <3>1, LeastIsThere
  <2>2. m # 0
    <3>1. those[0] = <<>> /\ <<>> \in Seq(S)
      BY <1>3, <1>4
    <3>2. those[m] \notin Seq(S)
      BY <2>1
    <3> QED
      BY ONLY <3>1, <3>2
  <2>3. m \in 1 .. N /\ m - 1 \in 0 .. N /\ ~(m <= m - 1)
    BY <1>3, <2>2
  <2>4. those[m - 1] \in Seq(S)
    BY ONLY <2>1, <2>3
  <2>5. those[m] = Append(those[m - 1], args[m]) \/ those[m] = those[m - 1]
    BY <1>4, <2>2
  <2>6. those[m] \in Seq(S)
    BY ONLY <1>3, <2>3, <2>4, <2>5
  <2> QED
    BY <2>1, <2>6
<1> DEFINE Still(n, j) == \E i \in 1 .. n : i \in kept /\ those[n][j] = args[i] /\ Roles(those[n], flags)[j] = Roles(args, flags)[i]
           Good(n) == /\ StateAt(those[n], flags, Len(those[n])) = StateAt(args, flags, n)
                      /\ \A j \in 1 .. Len(those[n]) : Still(n, j)
\* One more that is kept.
<1>6. ASSUME NEW n \in 1 .. w, n \in kept, Good(n - 1)
      PROVE  /\ those[n] = Append(those[n - 1], args[n]) /\ Len(those[n]) = Len(those[n - 1]) + 1
             /\ those[n][Len(those[n])] = args[n] /\ Roles(those[n], flags)[Len(those[n])] = Roles(args, flags)[n]
             /\ \A j \in 1 .. Len(those[n - 1]) : those[n][j] = those[n - 1][j] /\ Roles(those[n], flags)[j] = Roles(those[n - 1], flags)[j]
  <2> DEFINE before == those[n - 1]
             more   == those[n]
             p      == Len(before)
             h      == n - 1
  <2>1. n \in 0 .. N /\ n # 0 /\ n \in 1 .. N /\ h \in 0 .. N /\ args[n] \in S
    BY ONLY <1>3, n \in 1 .. w
  <2>2. more = Append(before, args[n]) /\ before \in Seq(S) /\ more \in Seq(S)
    BY ONLY <1>4, <1>5, <1>6, <2>1
  <2>3. StateAt(before, flags, p) = StateAt(args, flags, h)
    BY <1>6
  <2> HIDE DEF before, more
  <2>4. /\ p \in Nat /\ Len(more) = p + 1 /\ more[p + 1] = args[n] /\ p + 1 \in 1 .. Len(more) /\ (p + 1) - 1 = p
        /\ p <= Len(before) /\ p <= Len(more) /\ \A j \in 1 .. p : more[j] = before[j]
    BY ONLY <2>1, <2>2
  <2>5. /\ \A j \in 1 .. p : Roles(more, flags)[j] = Roles(before, flags)[j]
        /\ StateAt(more, flags, p) = StateAt(before, flags, p)
    <3>1. Agree(more, before, p)
      BY ONLY <2>4 DEF Agree
    <3> HIDE DEF p
    <3>2. Alike(more, before, flags, p)
      BY ONLY <2>2, <3>1, SameRoles
    <3> QED
      BY ONLY <3>2 DEF Alike
  <2>6. Roles(more, flags)[p + 1] = RoleAfter(StateAt(more, flags, p), args[n], flags)
    <3> DEFINE last == p + 1
    <3>1. last \in 1 .. Len(more) /\ p = last - 1 /\ more[last] = args[n]
      BY ONLY <2>4
    <3> HIDE DEF p, last
    <3>2. Roles(more, flags)[last] = RoleAfter(StateAt(more, flags, p), more[last], flags)
      BY ONLY <2>2, <3>1, RoleNext
    <3> QED
      BY ONLY <3>1, <3>2 DEF last
  <2>7. Roles(args, flags)[n] = RoleAfter(StateAt(args, flags, h), args[n], flags)
    BY ONLY <2>1, RoleIs, args \in Seq(S)
  <2> QED
    BY ONLY <2>2, <2>3, <2>4, <2>5, <2>6, <2>7 DEF before, more
<1>7. \A n \in 0 .. w - 1 : Good(n)
  <2> DEFINE T == {n \in 0 .. w - 1 : ~Good(n)}
  <2> SUFFICES ASSUME T # {} PROVE FALSE
    OBVIOUS
  <2>1. PICK m \in T : \A k \in T : m <= k
    <3>1. T \in SUBSET Nat
      OBVIOUS
    <3> HIDE DEF T
    <3> QED
      BY <3>1, LeastIsThere
  <2>2. m # 0
    <3>1. those[0] = <<>>
      BY <1>3, <1>4
    <3>2. Len(those[0]) = 0
      BY <3>1
    <3>3. Good(0)
      BY <3>2 DEF StateAt
    <3> HIDE DEF Good
    <3> QED
      BY <2>1, <3>3
  <2>3. m \in 1 .. w - 1 /\ m \in 1 .. w /\ m \in 0 .. N /\ m \in 1 .. N /\ m - 1 \in 0 .. w - 1 /\ ~(m <= m - 1)
    BY ONLY <1>3, <2>2, m \in 0 .. w - 1
  <2>4. Good(m - 1) /\ ~Good(m)
    <3> HIDE DEF Good
    <3> QED
      BY <2>1, <2>3
  <2>5. CASE m \in kept
    <3> DEFINE p == Len(those[m])
    <3>1. /\ Len(those[m]) = Len(those[m - 1]) + 1
          /\ those[m][p] = args[m] /\ Roles(those[m], flags)[p] = Roles(args, flags)[m]
          /\ \A j \in 1 .. Len(those[m - 1]) : those[m][j] = those[m - 1][j] /\ Roles(those[m], flags)[j] = Roles(those[m - 1], flags)[j]
      <4> HIDE DEF Good
      <4> QED
        BY <1>6, <2>3, <2>4, <2>5
    <3>2. Len(those[m - 1]) \in Nat /\ p \in Nat /\ p # 0
      <4>1. those[m - 1] \in Seq(S)
        BY <1>3, <1>5, <2>3
      <4> QED
        BY ONLY <3>1, <4>1
    <3>3. StateAt(those[m], flags, p) = StateAt(args, flags, m)
      BY ONLY <2>3, <3>1, <3>2 DEF StateAt
    <3>4. ASSUME NEW j \in 1 .. p PROVE Still(m, j)
      <4>1. CASE j = p
        <5>1. m \in 1 .. m
          BY ONLY <2>3
        <5> QED
          BY ONLY <2>5, <3>1, <4>1, <5>1
      <4>2. CASE j # p
        <5>1. j \in 1 .. Len(those[m - 1])
          BY ONLY <3>1, <3>2, <4>2, j \in 1 .. p
        <5>2. Still(m - 1, j)
          BY ONLY <2>4, <5>1
        <5>3. PICK i \in 1 .. m - 1 : i \in kept /\ those[m - 1][j] = args[i] /\ Roles(those[m - 1], flags)[j] = Roles(args, flags)[i]
          BY ONLY <5>2
        <5>4. i \in 1 .. m
          BY ONLY <2>3, i \in 1 .. m - 1
        <5>5. those[m][j] = those[m - 1][j] /\ Roles(those[m], flags)[j] = Roles(those[m - 1], flags)[j]
          BY ONLY <3>1, <5>1
        <5> QED
          BY ONLY <5>3, <5>4, <5>5
      <4> QED
        BY ONLY <4>1, <4>2
    <3> QED
      BY ONLY <2>4, <3>3, <3>4
  <2>6. CASE m \notin kept
    <3>1. those[m] = those[m - 1]
      BY ONLY <1>4, <2>2, <2>3, <2>6
    <3>2. Roles(args, flags)[m] = "rest"
      BY <1>0, <2>3, <2>6
    <3>3. StateAt(args, flags, m) = "free"
      BY ONLY <2>2, <3>2 DEF StateAt, StateOf
    <3>4. Roles(args, flags)[m] = RoleAfter(StateAt(args, flags, m - 1), args[m], flags)
      BY <2>3, RoleIs
    <3>5. StateAt(args, flags, m - 1) \in {"free", "takes", "end"}
      BY DEF StateAt, StateOf
    <3>6. StateAt(args, flags, m - 1) = "free"
      BY ONLY <3>2, <3>4, <3>5 DEF RoleAfter
    <3>7. \A j : Still(m - 1, j) => Still(m, j)
      <4>1. \A i \in 1 .. m - 1 : i \in 1 .. m
        BY ONLY <2>3
      <4> QED
        BY ONLY <3>1, <4>1
    <3>8. StateAt(those[m], flags, Len(those[m])) = StateAt(args, flags, m)
      BY ONLY <2>4, <3>1, <3>3, <3>6
    <3>9. \A j \in 1 .. Len(those[m]) : Still(m, j)
      BY ONLY <2>4, <3>1, <3>7
    <3> QED
      BY ONLY <2>4, <3>8, <3>9
  <2> QED
    BY <2>5, <2>6
\* What follows changes nothing before.
<1>8. \A n \in w .. N : Len(those[n]) >= Len(those[w]) /\ \A j \in 1 .. Len(those[w]) : those[n][j] = those[w][j]
  <2> DEFINE Grown(n) == Len(those[n]) >= Len(those[w]) /\ \A j \in 1 .. Len(those[w]) : those[n][j] = those[w][j]
             T == {n \in w .. N : ~Grown(n)}
  <2> SUFFICES ASSUME T # {} PROVE FALSE
    OBVIOUS
  <2>0. \A n \in w .. N : n \in 0 .. N
    BY ONLY <1>3
  <2>1. PICK m \in T : \A k \in T : m <= k
    <3>1. T \in SUBSET Nat
      BY ONLY <1>3
    <3> HIDE DEF T
    <3> QED
      BY <3>1, LeastIsThere
  <2>2. m # w
    <3>1. Len(those[w]) \in Nat
      BY <1>3, <1>5
    <3> QED
      BY ONLY <2>1, <3>1
  <2>3. m \in w .. N /\ m - 1 \in w .. N /\ m \in 1 .. N /\ m \in 0 .. N /\ m # 0 /\ ~(m <= m - 1)
    BY ONLY <1>3, <2>2, m \in w .. N
  <2>4. Grown(m - 1) /\ ~Grown(m)
    <3> HIDE DEF Grown
    <3> QED
      BY ONLY <2>1, <2>3
  <2> DEFINE before == those[m - 1]
             first  == those[w]
             more   == those[m]
  <2>5. before \in Seq(S) /\ first \in Seq(S) /\ args[m] \in S /\ (more = Append(before, args[m]) \/ more = before)
    <3>1. those[m] = IF m \in kept THEN Append(those[m - 1], args[m]) ELSE those[m - 1]
      BY ONLY <1>4, <2>3
    <3>2. w \in 0 .. N /\ m - 1 \in 0 .. N
      BY ONLY <1>3, <2>0, <2>3
    <3> QED
      BY ONLY <1>3, <1>5, <2>3, <3>1, <3>2
  <2>6. Len(before) >= Len(first) /\ \A j \in 1 .. Len(first) : before[j] = first[j]
    BY ONLY <2>4
  <2>7. ~(Len(more) >= Len(first) /\ \A j \in 1 .. Len(first) : more[j] = first[j])
    BY ONLY <2>4
  <2> HIDE DEF before, first, more
  <2> QED
    BY ONLY <2>5, <2>6, <2>7
<1> DEFINE p == Len(those[w])
<1>9. Good(w - 1)
  <2>1. w - 1 \in 0 .. w - 1
    BY ONLY <1>3
  <2> HIDE DEF Good
  <2> QED
    BY ONLY <1>7, <2>1
<1>10. /\ p = Len(those[w - 1]) + 1 /\ those[w][p] = args[w] /\ Roles(those[w], flags)[p] = Roles(args, flags)[w]
       /\ \A j \in 1 .. p - 1 : those[w][j] = those[w - 1][j] /\ Roles(those[w], flags)[j] = Roles(those[w - 1], flags)[j]
  <2>1. w \in 1 .. w
    BY ONLY <1>3
  <2>2. /\ p = Len(those[w - 1]) + 1 /\ those[w][p] = args[w] /\ Roles(those[w], flags)[p] = Roles(args, flags)[w]
        /\ \A j \in 1 .. Len(those[w - 1]) : those[w][j] = those[w - 1][j] /\ Roles(those[w], flags)[j] = Roles(those[w - 1], flags)[j]
    <3> HIDE DEF Good
    <3> QED
      BY <1>0, <1>6, <1>9, <2>1
  <2>3. Len(those[w - 1]) \in Nat
    BY <1>3, <1>5
  <2>4. p - 1 = Len(those[w - 1])
    <3> HIDE DEF p
    <3> QED
      BY ONLY <2>2, <2>3
  <2> QED
    BY ONLY <2>2, <2>4
<1>11. /\ q \in Seq(S) /\ those[w] \in Seq(S) /\ p \in Nat /\ p <= Len(q) /\ p <= Len(those[w]) /\ p \in 1 .. Len(q) /\ p \in 1 .. p
       /\ \A j \in 1 .. p : q[j] = those[w][j]
  <2>1. N \in w .. N /\ N \in 0 .. N /\ w \in 0 .. N
    BY ONLY <1>3
  <2>2. q \in Seq(S) /\ those[w] \in Seq(S) /\ those[w - 1] \in Seq(S)
    BY ONLY <1>1, <1>3, <1>5, <2>1
  <2>3. Len(q) >= p /\ \A j \in 1 .. p : q[j] = those[w][j]
    BY ONLY <1>1, <1>8, <2>1
  <2>4. p = Len(those[w - 1]) + 1
    BY ONLY <1>10
  <2> QED
    BY ONLY <2>2, <2>3, <2>4
<1> HIDE DEF q
<1>12. \A j \in 1 .. p : Roles(q, flags)[j] = Roles(those[w], flags)[j]
  <2>1. Agree(q, those[w], p)
    BY ONLY <1>11 DEF Agree
  <2> HIDE DEF p
  <2>2. Alike(q, those[w], flags, p)
    BY ONLY <1>11, <2>1, SameRoles
  <2> QED
    BY ONLY <2>2 DEF Alike
<1>13. ASSUME NEW j \in 1 .. p - 1
       PROVE  \E i \in 1 .. w - 1 : i \in kept /\ q[j] = args[i] /\ Roles(q, flags)[j] = Roles(args, flags)[i]
  <2>1. j \in 1 .. p /\ j \in 1 .. Len(those[w - 1])
    BY ONLY <1>10, <1>11, j \in 1 .. p - 1
  <2>2. Still(w - 1, j)
    BY ONLY <1>9, <2>1
  <2>3. PICK i \in 1 .. w - 1 : i \in kept /\ those[w - 1][j] = args[i] /\ Roles(those[w - 1], flags)[j] = Roles(args, flags)[i]
    BY ONLY <2>2
  <2> QED
    BY ONLY <1>10, <1>11, <1>12, <2>1, <2>3, j \in 1 .. p - 1
<1> QED
  <2> HIDE DEF p
  <2>1. q[p] = args[w] /\ Roles(q, flags)[p] = Roles(args, flags)[w]
    BY ONLY <1>10, <1>11, <1>12
  <2> QED
    BY <1>11, <1>13, <2>1 DEF q, KeptAt
-----------------------------------------------------------------------------
(* The first word of a list of arguments, as a reader sees it who knows the *)
(* flags of the generated root.                                             *)

FirstIs(args, w) ==
  /\ w \in 1 .. Len(args) /\ Roles(args, RootValues)[w] = "rest" /\ ~Dashed(args[w])
  /\ \A j \in 1 .. w - 1 : Roles(args, RootValues)[j] = "rest" => Dashed(args[j])

LEMMA ArgIs == \A name, value : Arg(name, value).name = name /\ Arg(name, value).value = value
BY DEF Arg

LEMMA PlainAreNoFlags ==
  ASSUME NEW arg, ~Dashed(arg)
  PROVE  arg # Dashes /\ arg.name \notin RootValues /\ arg.name \notin ProjectFlags
<1>1. arg.name \in Plain
  BY DEF Dashed
<1>2. arg.name # "--"
  BY <1>1, ArgsAssumption
<1>3. Dashes.name = "--"
  BY ArgIs DEF Dashes
<1> QED
  BY <1>1, <1>2, <1>3, ArgsAssumption

LEMMA FirstIsMin ==
  ASSUME NEW S, NEW args \in Seq(S), NEW w, FirstIs(args, w)
  PROVE  Words(args, RootValues) # {} /\ Min(Words(args, RootValues)) = w
<1> DEFINE W == Words(args, RootValues)
<1>1. /\ W = {i \in DOMAIN args : Roles(args, RootValues)[i] = "rest" /\ ~Dashed(args[i])}
      /\ DOMAIN args = 1 .. Len(args) /\ Len(args) \in Nat
  BY DEF Words
<1>2. w \in W /\ \A j \in W : w <= j
  BY <1>1 DEF FirstIs
<1>3. Min(W) \in W /\ \A j \in W : Min(W) <= j
  BY <1>2 DEF Min
<1>4. Min(W) \in Nat /\ w \in Nat
  BY ONLY <1>1, <1>2, <1>3
<1> QED
  BY ONLY <1>2, <1>3, <1>4

LEMMA FirstIsThere ==
  ASSUME NEW S, NEW args \in Seq(S), Words(args, RootValues) # {}
  PROVE  FirstIs(args, Min(Words(args, RootValues)))
<1> DEFINE W == Words(args, RootValues)
<1>1. /\ W = {i \in DOMAIN args : Roles(args, RootValues)[i] = "rest" /\ ~Dashed(args[i])}
      /\ DOMAIN args = 1 .. Len(args) /\ Len(args) \in Nat
  BY DEF Words
<1>2. W \in SUBSET Nat /\ W # {}
  BY <1>1
<1>3. PICK m \in W : \A k \in W : m <= k
  <2> HIDE DEF W
  <2> QED
    BY <1>2, LeastIsThere
<1>4. Min(W) \in W /\ \A j \in W : Min(W) <= j
  BY <1>3 DEF Min
<1> DEFINE w == Min(W)
<1>5. w \in 1 .. Len(args) /\ w \in W /\ \A j \in W : w <= j
  BY <1>1, <1>4
<1> HIDE DEF w
<1>6. \A j \in 1 .. w - 1 : j \in 1 .. Len(args) /\ ~(w <= j)
  BY ONLY <1>1, <1>5
<1>7. \A j \in 1 .. w - 1 : j \notin W
  BY ONLY <1>5, <1>6
<1>8. FirstIs(args, w)
  BY ONLY <1>1, <1>5, <1>6, <1>7 DEF FirstIs
<1> QED
  BY <1>8 DEF w

\* A list that goes on differently after the first word has the same first word.
LEMMA FirstOfAlike ==
  ASSUME NEW S, NEW a \in Seq(S), NEW T, NEW b \in Seq(T), NEW w, FirstIs(a, w), Agree(a, b, w)
  PROVE  FirstIs(b, w) /\ b[w] = a[w]
<1>1. Alike(a, b, RootValues, w)
  BY ONLY a \in Seq(S), b \in Seq(T), Agree(a, b, w), SameRoles
<1>2. w \in 1 .. Len(a) /\ w \in 1 .. w /\ w \in 1 .. Len(b) /\ \A j \in 1 .. w - 1 : j \in 1 .. w
  BY DEF FirstIs, Agree
<1>3. \A i \in 1 .. w : a[i] = b[i] /\ Roles(a, RootValues)[i] = Roles(b, RootValues)[i]
  BY ONLY <1>1, Agree(a, b, w) DEF Alike, Agree
<1> QED
  BY ONLY <1>2, <1>3, FirstIs(a, w) DEF FirstIs

\* Up to the first word there is no end, and only flags for values take one.
LEMMA BeforeFirst ==
  ASSUME NEW S, NEW args \in Seq(S), NEW w, FirstIs(args, w), NEW i \in 1 .. w
  PROVE  /\ Roles(args, RootValues)[i] # "end"
         /\ i - 1 \in Nat /\ StateAt(args, RootValues, i - 1) \in {"free", "takes"}
<1>1. w \in 1 .. Len(args) /\ Len(args) \in Nat /\ Roles(args, RootValues)[w] = "rest"
  BY DEF FirstIs
<1>2. ASSUME NEW k \in 1 .. w PROVE Roles(args, RootValues)[k] # "end"
  <2> SUFFICES ASSUME Roles(args, RootValues)[k] = "end" PROVE FALSE
    OBVIOUS
  <2>1. k \in 1 .. Len(args) /\ w \in k .. Len(args)
    BY ONLY <1>1, k \in 1 .. w
  <2>2. Roles(args, RootValues)[w] = "end"
    BY <2>1, EndStays
  <2> QED
    BY <1>1, <2>2
<1>3. i - 1 = 0 \/ i - 1 \in 1 .. w
  BY <1>1
<1>4. i - 1 \in Nat
  BY <1>1
<1> QED
  BY <1>2, <1>3, <1>4 DEF StateAt, StateOf

-----------------------------------------------------------------------------
(* A project that hides nothing: before the first word, the flags for a     *)
(* project are joined to their values and are no values themselves.         *)

Harmless(args, w) ==
  \A i \in 1 .. w - 1 : args[i].name \in ProjectFlags => ~Alone(args[i]) /\ Roles(args, RootValues)[i] = "rest"

LEMMA NothingHidden ==
  ASSUME NEW S, NEW args \in Seq(S), NEW w, FirstIs(args, w), args[w].name \in DOMAIN Operations, ~ProjectHidesOperation(args)
  PROVE  Harmless(args, w)
<1> DEFINE Both == RootValues \cup ProjectFlags
           Good(n) == /\ StateAt(args, Both, n) = StateAt(args, RootValues, n)
                      /\ n # 0 /\ args[n].name \in ProjectFlags => ~Alone(args[n]) /\ Roles(args, RootValues)[n] = "rest"
           T == {n \in 0 .. w - 1 : ~Good(n)}
<1>1. /\ w \in 1 .. Len(args) /\ w \in Nat /\ Len(args) \in Nat /\ DOMAIN args = 1 .. Len(args)
      /\ Roles(args, RootValues)[w] = "rest" /\ ~Dashed(args[w])
      /\ \A j \in 1 .. w - 1 : Roles(args, RootValues)[j] = "rest" => Dashed(args[j])
  BY DEF FirstIs
<1>2. ASSUME NEW i \in 1 .. Len(args), Roles(args, Both)[i] = "value"
      PROVE  /\ args[i].name \notin ProjectFlags
             /\ args[i - 1].name \in ProjectFlags => ~Dashed(args[i]) /\ args[i].name \notin DOMAIN Operations
  BY <1>1, <1>2 DEF ProjectHidesOperation
<1>3. \A n \in 0 .. w - 1 : Good(n)
  <2> SUFFICES ASSUME T # {} PROVE FALSE
    OBVIOUS
  <2>1. PICK m \in T : \A k \in T : m <= k
    <3>1. T \in SUBSET Nat
      BY <1>1
    <3> HIDE DEF T
    <3> QED
      BY <3>1, LeastIsThere
  <2>2. m # 0
    <3>1. Good(0)
      BY DEF StateAt
    <3> HIDE DEF Good
    <3> QED
      BY <2>1, <3>1
  <2>3. /\ m \in 1 .. w - 1 /\ m \in 1 .. w /\ m - 1 \in 0 .. w - 1 /\ ~(m <= m - 1)
        /\ m \in 1 .. Len(args) /\ m + 1 \in 1 .. Len(args) /\ m + 1 \in 1 .. w /\ (m + 1) - 1 = m /\ m - 1 \in Nat
        /\ m + 1 = w \/ m + 1 \in 1 .. w - 1
    BY ONLY <1>1, <2>2, m \in 0 .. w - 1
  <2>4. Good(m - 1) /\ ~Good(m)
    <3> HIDE DEF Good
    <3> QED
      BY <2>1, <2>3
  <2> DEFINE s == StateAt(args, RootValues, m - 1)
  <2>5. s = StateAt(args, Both, m - 1) /\ s \in {"free", "takes"}
    BY <2>3, <2>4, BeforeFirst
  <2> HIDE DEF s
  <2>6. /\ Roles(args, RootValues)[m] = RoleAfter(s, args[m], RootValues)
        /\ Roles(args, Both)[m] = RoleAfter(s, args[m], Both)
    <3>1. /\ Roles(args, RootValues)[m] = RoleAfter(StateAt(args, RootValues, m - 1), args[m], RootValues)
          /\ Roles(args, Both)[m] = RoleAfter(StateAt(args, Both, m - 1), args[m], Both)
      BY <2>3, RoleIs
    <3> QED
      BY ONLY <2>5, <3>1 DEF s
  <2>7. Roles(args, RootValues)[m] # "end"
    BY <2>3, BeforeFirst
  <2>8. CASE s = "takes"
    <3>1. Roles(args, RootValues)[m] = "value" /\ Roles(args, Both)[m] = "value"
      BY ONLY <2>6, <2>8 DEF RoleAfter
    <3>2. args[m].name \notin ProjectFlags
      BY <1>2, <2>3, <3>1
    <3>3. StateAt(args, Both, m) = "free" /\ StateAt(args, RootValues, m) = "free"
      BY ONLY <2>2, <3>1 DEF StateAt, StateOf
    <3> QED
      BY ONLY <2>4, <3>2, <3>3
  <2>9. CASE s = "free"
    <3>1. args[m] # Dashes
      BY ONLY <2>6, <2>7, <2>9 DEF RoleAfter
    <3>2. CASE args[m].name \in RootValues
      <4>1. Roles(args, RootValues)[m] = "flag" /\ Roles(args, Both)[m] = "flag"
        BY ONLY <2>6, <2>9, <3>1, <3>2 DEF RoleAfter
      <4>2. args[m].name \notin ProjectFlags
        BY <3>2, ArgsAssumption
      <4>3. StateAt(args, Both, m) = StateAt(args, RootValues, m)
        BY ONLY <2>2, <4>1 DEF StateAt, StateOf
      <4> QED
        BY ONLY <2>4, <4>2, <4>3
    <3>3. CASE args[m].name \notin Both
      <4>1. Roles(args, RootValues)[m] = "rest" /\ Roles(args, Both)[m] = "rest"
        BY ONLY <2>6, <2>9, <3>1, <3>3 DEF RoleAfter
      <4>2. StateAt(args, Both, m) = StateAt(args, RootValues, m)
        BY ONLY <2>2, <4>1 DEF StateAt, StateOf
      <4> QED
        BY ONLY <2>4, <3>3, <4>2
    <3>4. CASE args[m].name \notin RootValues /\ args[m].name \in ProjectFlags
      <4>1. Roles(args, RootValues)[m] = "rest" /\ Roles(args, Both)[m] = "flag"
        BY ONLY <2>6, <2>9, <3>1, <3>4 DEF RoleAfter
      <4>2. CASE ~Alone(args[m])
        <5>1. StateAt(args, Both, m) = "free" /\ StateAt(args, RootValues, m) = "free"
          BY ONLY <2>2, <4>1, <4>2 DEF StateAt, StateOf
        <5> QED
          BY ONLY <2>4, <4>1, <4>2, <5>1
      <4>3. CASE Alone(args[m])
        <5>1. StateAt(args, Both, m) = "takes" /\ StateAt(args, RootValues, m) = "free"
          BY ONLY <2>2, <4>1, <4>3 DEF StateAt, StateOf
        <5> DEFINE h == m + 1
        <5>2. h \in 1 .. Len(args) /\ m = h - 1 /\ (h = w \/ h \in 1 .. w - 1)
          BY ONLY <2>3
        <5> HIDE DEF h
        <5>3. Roles(args, Both)[h] = "value"
          BY ONLY args \in Seq(S), <5>1, <5>2, RoleNext DEF RoleAfter
        <5>4. ~Dashed(args[h]) /\ args[h].name \notin DOMAIN Operations
          BY <1>2, <3>4, <5>2, <5>3
        <5>5. Roles(args, RootValues)[h] = "rest"
          <6>1. Roles(args, RootValues)[h] = RoleAfter("free", args[h], RootValues)
            BY ONLY args \in Seq(S), <5>1, <5>2, RoleNext
          <6>2. args[h] # Dashes /\ args[h].name \notin RootValues
            BY ONLY <5>4, PlainAreNoFlags
          <6> QED
            BY ONLY <6>1, <6>2 DEF RoleAfter
        <5> QED
          BY <1>1, <5>2, <5>4, <5>5
      <4> QED
        BY ONLY <4>2, <4>3
    <3> QED
      BY ONLY <3>2, <3>3, <3>4
  <2> QED
    BY ONLY <2>5, <2>8, <2>9
<1>4. ASSUME NEW i \in 1 .. w - 1, args[i].name \in ProjectFlags
      PROVE  ~Alone(args[i]) /\ Roles(args, RootValues)[i] = "rest"
  <2>1. i \in 0 .. w - 1 /\ i # 0
    BY ONLY <1>1, i \in 1 .. w - 1
  <2> QED
    BY <1>3, <1>4, <2>1
<1> QED
  BY ONLY <1>4 DEF Harmless

\* Then the first word stays the first when flags for projects are taken out.
LEMMA ProjectTakenOut ==
  ASSUME NEW S, NEW args \in Seq(S), NEW w, FirstIs(args, w), Harmless(args, w), NEW flags \in SUBSET ProjectFlags
  PROVE  /\ Without(args, flags) \in Seq(S)
         /\ \E v \in Nat : /\ FirstIs(Without(args, flags), v) /\ Harmless(Without(args, flags), v)
                           /\ Without(args, flags)[v] = args[w]
<1> DEFINE K == {i \in DOMAIN args : Roles(args, flags)[i] \in {"rest", "end"}}
           q == Those(args, K)
<1>1. /\ w \in 1 .. Len(args) /\ w \in Nat /\ Len(args) \in Nat /\ DOMAIN args = 1 .. Len(args)
      /\ Roles(args, RootValues)[w] = "rest" /\ ~Dashed(args[w])
      /\ \A j \in 1 .. w - 1 : Roles(args, RootValues)[j] = "rest" => Dashed(args[j])
  BY DEF FirstIs
<1>2. ASSUME NEW i \in 1 .. w, i \notin K PROVE args[i].name \in flags
  <2>1. i \in 1 .. Len(args) /\ i \in DOMAIN args /\ (i - 1 = 0 \/ (i - 1 \in 1 .. w - 1 /\ i - 1 \in 1 .. Len(args)))
    BY ONLY <1>1, i \in 1 .. w
  <2>2. Roles(args, flags)[i] \in {"flag", "value"}
    BY <1>2, <2>1, RoleIs
  <2>3. Roles(args, flags)[i] = RoleAfter(StateAt(args, flags, i - 1), args[i], flags)
    BY <2>1, RoleIs
  <2>4. CASE Roles(args, flags)[i] = "flag"
    BY ONLY <2>3, <2>4 DEF RoleAfter
  <2>5. CASE Roles(args, flags)[i] = "value"
    <3>1. StateAt(args, flags, i - 1) = "takes"
      BY ONLY <2>3, <2>5 DEF RoleAfter
    <3>2. i - 1 # 0 /\ Roles(args, flags)[i - 1] = "flag" /\ Alone(args[i - 1])
      BY ONLY <3>1 DEF StateAt, StateOf
    <3>3. args[i - 1].name \in flags
      <4>1. Roles(args, flags)[i - 1] = RoleAfter(StateAt(args, flags, (i - 1) - 1), args[i - 1], flags)
        BY <2>1, <3>2, RoleIs
      <4> QED
        BY ONLY <3>2, <4>1 DEF RoleAfter
    <3>4. FALSE
      BY <2>1, <3>2, <3>3 DEF Harmless
    <3> QED
      BY <3>4
  <2> QED
    BY ONLY <2>2, <2>4, <2>5
<1>3. w \in K
  <2>1. args[w].name \notin flags
    BY <1>1, PlainAreNoFlags
  <2>2. w \in 1 .. w
    BY ONLY <1>1
  <2> QED
    BY ONLY <1>2, <2>1, <2>2
<1>4. ASSUME NEW i \in 1 .. w - 1, i \notin K PROVE Roles(args, RootValues)[i] = "rest"
  <2>1. i \in 1 .. w
    BY ONLY <1>1, i \in 1 .. w - 1
  <2>2. args[i].name \in ProjectFlags
    BY <1>2, <1>4, <2>1
  <2> QED
    BY <2>2 DEF Harmless
<1> HIDE DEF K
<1>5. PICK v \in 1 .. Len(q) :
        /\ q[v] = args[w] /\ Roles(q, RootValues)[v] = Roles(args, RootValues)[w]
        /\ \A j \in 1 .. v - 1 : \E i \in 1 .. w - 1 :
             i \in K /\ q[j] = args[i] /\ Roles(q, RootValues)[j] = Roles(args, RootValues)[i]
  <2>1. DropsRest(args, K, RootValues, w)
    BY ONLY <1>3, <1>4 DEF DropsRest
  <2>2. \E v \in 1 .. Len(q) : KeptAt(q, args, K, RootValues, v, w)
    BY ONLY args \in Seq(S), <1>1, <2>1, DroppedBefore
  <2> QED
    BY <2>2 DEF KeptAt
<1>6. q \in Seq(S)
  BY ThoseAre
<1>7. Without(args, flags) = q
  BY DEF Without, K
<1> HIDE DEF q
<1>8. FirstIs(q, v)
  <2>1. ASSUME NEW j \in 1 .. v - 1, Roles(q, RootValues)[j] = "rest" PROVE Dashed(q[j])
    <3>1. PICK i \in 1 .. w - 1 : q[j] = args[i] /\ Roles(q, RootValues)[j] = Roles(args, RootValues)[i]
      BY ONLY <1>5, j \in 1 .. v - 1
    <3> QED
      BY ONLY <1>1, <2>1, <3>1
  <2> QED
    BY ONLY <1>1, <1>5, <2>1, v \in 1 .. Len(q) DEF FirstIs
<1>9. Harmless(q, v)
  <2>1. ASSUME NEW j \in 1 .. v - 1, q[j].name \in ProjectFlags PROVE ~Alone(q[j]) /\ Roles(q, RootValues)[j] = "rest"
    <3>1. PICK i \in 1 .. w - 1 : q[j] = args[i] /\ Roles(q, RootValues)[j] = Roles(args, RootValues)[i]
      BY ONLY <1>5, j \in 1 .. v - 1
    <3> QED
      BY ONLY <2>1, <3>1, Harmless(args, w) DEF Harmless
  <2> QED
    BY ONLY <2>1 DEF Harmless
<1>10. v \in Nat
  BY <1>6
<1> QED
  BY ONLY <1>5, <1>6, <1>7, <1>8, <1>9, <1>10

-----------------------------------------------------------------------------
\* What the generated tree runs is named by the argument at which it finds it.
LEMMA TreeRunsNamed ==
  ASSUME NEW args, TreeRuns(args) # ""
  PROVE  /\ OperationAt(args) # 0 /\ TreeRuns(args) = args[OperationAt(args)].name
         /\ TreeRuns(args) \in DOMAIN Operations
BY DEF TreeRuns

LEMMA OperationAtFirst ==
  ASSUME NEW S, NEW args \in Seq(S), NEW w, FirstIs(args, w)
  PROVE  OperationAt(args) = w
BY FirstIsMin DEF OperationAt

\* Without a word before "--" it is the argument after it.
LEMMA OperationAtEnd ==
  ASSUME NEW S, NEW args \in Seq(S), Words(args, RootValues) = {}, OperationAt(args) # 0
  PROVE  \E m \in 1 .. Len(args) :
           /\ Roles(args, RootValues)[m] = "end" /\ OperationAt(args) = m + 1 /\ m + 1 \in 1 .. Len(args)
           /\ \A j \in 1 .. Len(args) : Roles(args, RootValues)[j] = "end" => m <= j
<1> DEFINE E == {i \in DOMAIN args : Roles(args, RootValues)[i] = "end"}
<1>1. DOMAIN args = 1 .. Len(args) /\ Len(args) \in Nat
  OBVIOUS
<1>2. Cardinality(E) > 1 /\ OperationAt(args) = Min(E) + 1
  BY DEF OperationAt
<1>3. E # {}
  <2> SUFFICES ASSUME E = {} PROVE FALSE
    OBVIOUS
  <2> HIDE DEF E
  <2>1. Cardinality(E) = 0
    BY FS_EmptySet
  <2> QED
    BY ONLY <1>2, <2>1
<1>4. PICK m \in E : \A k \in E : m <= k
  <2>1. E \in SUBSET Nat
    BY <1>1
  <2> HIDE DEF E
  <2> QED
    BY <1>3, <2>1, LeastIsThere
<1>5. Min(E) \in E /\ \A j \in E : Min(E) <= j
  BY <1>4 DEF Min
<1>6. Min(E) = m /\ m \in 1 .. Len(args)
  <2>1. \A j \in E : j \in 1 .. Len(args)
    BY <1>1
  <2> DEFINE least == Min(E)
  <2>2. least \in E /\ m \in E /\ least <= m /\ m <= least
    BY <1>4, <1>5
  <2> HIDE DEF E, least
  <2>3. least = m /\ m \in 1 .. Len(args)
    BY ONLY <1>1, <2>1, <2>2
  <2> QED
    BY <2>3 DEF least
<1>7. m + 1 \in 1 .. Len(args)
  <2> SUFFICES ASSUME m + 1 \notin 1 .. Len(args) PROVE FALSE
    OBVIOUS
  <2>1. m = Len(args)
    BY <1>1, <1>6
  <2>2. E = {m}
    BY <1>1, <1>4, <2>1
  <2>3. Cardinality({m}) = 1
    BY FS_Singleton
  <2> HIDE DEF E
  <2>4. Cardinality(E) = 1
    BY ONLY <2>2, <2>3
  <2> QED
    BY ONLY <1>2, <2>4
<1> QED
  BY <1>1, <1>2, <1>4, <1>6, <1>7

\* The words of a list are those of another.
WordsFrom(b, a) == \A k \in 1 .. Len(b) : ~Dashed(b[k]) => \E i \in 1 .. Len(a) : b[k] = a[i]

LEMMA OperationIsWord ==
  ASSUME NEW S, NEW args \in Seq(S), TreeRuns(args) # ""
  PROVE  /\ OperationAt(args) \in 1 .. Len(args) /\ TreeRuns(args) = args[OperationAt(args)].name
         /\ ~Dashed(args[OperationAt(args)]) /\ TreeRuns(args) \in DOMAIN Operations
<1> DEFINE at == OperationAt(args)
<1>1. at # 0 /\ TreeRuns(args) = args[at].name /\ TreeRuns(args) \in DOMAIN Operations
  BY TreeRunsNamed
<1>2. at \in 1 .. Len(args)
  <2>1. CASE Words(args, RootValues) # {}
    <3>1. FirstIs(args, Min(Words(args, RootValues)))
      BY <2>1, FirstIsThere
    <3>2. at = Min(Words(args, RootValues))
      BY <3>1, OperationAtFirst
    <3> QED
      BY <3>1, <3>2 DEF FirstIs
  <2>2. CASE Words(args, RootValues) = {}
    BY <1>1, <2>2, OperationAtEnd
  <2> QED
    BY <2>1, <2>2
<1>3. DOMAIN Operations \subseteq Plain
  BY ArgsAssumption
<1> HIDE DEF at
<1>4. ~Dashed(args[at])
  BY ONLY <1>1, <1>3 DEF Dashed
<1> QED
  BY ONLY <1>1, <1>2, <1>4 DEF at

\* The flags of the output of --jq.
JQAdded(a, b, f, r, u) ==
  /\ u \in 1 .. Len(a) + 1 /\ Len(b) = Len(a) + 2
  /\ b[u] = f /\ b[u + 1] = r /\ Dashed(f) /\ Dashed(r) /\ r # Dashes /\ ~Alone(r)
  /\ u \in 1 .. Len(a) => a[u] = Dashes
  /\ \A n \in 1 .. u - 1 : b[n] = a[n] /\ a[n] # Dashes
  /\ \A n \in u .. Len(a) : b[n + 2] = a[n]

LEMMA JQIs ==
  ASSUME NEW S, NEW a \in Seq(S)
  PROVE  \E T, f, r, u : WithJQOutputFlags(a) \in Seq(T) /\ JQAdded(a, WithJQOutputFlags(a), f, r, u)
<1> DEFINE U == {i \in DOMAIN a : a[i] = Dashes} \cup {Len(a) + 1}
           u == Min(U)
           f == Arg("--format", "jsonl")
           r == Arg("--raw-output", "false")
           T == S \cup {f, r}
           c == InsertAt(a, u, r)
           b == InsertAt(c, u, f)
<1>1. DOMAIN a = 1 .. Len(a) /\ Len(a) \in Nat
  OBVIOUS
<1>2. WithJQOutputFlags(a) = b
  BY DEF WithJQOutputFlags
<1>3. u \in U /\ \A k \in U : u <= k
  <2>1. U \in SUBSET Nat /\ U # {}
    BY <1>1
  <2>2. PICK m \in U : \A k \in U : m <= k
    <3> HIDE DEF U
    <3> QED
      BY <2>1, LeastIsThere
  <2> QED
    BY <2>2 DEF Min
<1>4. /\ Dashed(f) /\ Dashed(r) /\ f.name # "--" /\ r.name # "--"
  <2>1. f.name = "--format" /\ r.name = "--raw-output"
    BY ArgIs
  <2>2. "--format" \notin Plain /\ "--raw-output" \notin Plain
    BY ArgsAssumption
  <2> HIDE DEF f, r
  <2> QED
    BY ONLY <2>1, <2>2 DEF Dashed
<1>5. r # Dashes /\ ~Alone(r)
  <2>1. Dashes.name = "--"
    BY ArgIs DEF Dashes
  <2>2. r.value = "false"
    BY ArgIs
  <2>3. ~Alone(r)
    BY <2>2 DEF Alone
  <2> QED
    BY <1>4, <2>1, <2>3
<1>6. u \in 1 .. Len(a) + 1 /\ (u \in 1 .. Len(a) => a[u] = Dashes) /\ \A n \in 1 .. u - 1 : n \in 1 .. Len(a) /\ a[n] # Dashes
  <2>1. u \in 1 .. Len(a) + 1 /\ (u \in 1 .. Len(a) => a[u] = Dashes)
    BY ONLY <1>1, <1>3
  <2>2. \A n \in 1 .. u - 1 : n \in 1 .. Len(a) /\ ~(u <= n)
    BY ONLY <1>1, <2>1
  <2>3. \A n \in 1 .. u - 1 : n \notin U
    BY ONLY <1>3, <2>2
  <2> QED
    BY ONLY <1>1, <2>1, <2>2, <2>3
<1>7. a \in Seq(T) /\ f \in T /\ r \in T /\ S \subseteq T
  OBVIOUS
<1> HIDE DEF u, f, r, T, U
<1>8. /\ c \in Seq(T) /\ Len(c) = Len(a) + 1 /\ c[u] = r
      /\ \A n \in 1 .. u - 1 : c[n] = a[n]
      /\ \A n \in u .. Len(a) : c[n + 1] = a[n]
  BY ONLY <1>6, <1>7, InsertIs
<1> HIDE DEF c
<1>9. u \in 1 .. Len(c) + 1
  BY ONLY <1>1, <1>6, <1>8
<1>10. /\ b \in Seq(T) /\ Len(b) = Len(c) + 1 /\ b[u] = f
       /\ \A n \in 1 .. u - 1 : b[n] = c[n]
       /\ \A n \in u .. Len(c) : b[n + 1] = c[n]
  <2>1. b = InsertAt(c, u, f)
    OBVIOUS
  <2>2. c \in Seq(T) /\ f \in T
    BY ONLY <1>7, <1>8
  <2> HIDE DEF b
  <2> QED
    BY ONLY <1>9, <2>1, <2>2, InsertIs
<1> HIDE DEF b
<1>11. Len(b) = Len(a) + 2 /\ b[u + 1] = r
  BY ONLY <1>1, <1>6, <1>8, <1>10
<1>12. \A n \in 1 .. u - 1 : b[n] = a[n]
  BY ONLY <1>8, <1>10
<1>13. ASSUME NEW n \in u .. Len(a) PROVE b[n + 2] = a[n]
  <2> DEFINE h == n + 1
  <2>1. h \in u .. Len(c) /\ h + 1 = n + 2
    BY ONLY <1>1, <1>6, <1>8, n \in u .. Len(a)
  <2>2. b[h + 1] = c[h]
    <3> HIDE DEF h
    <3> QED
      BY ONLY <1>10, <2>1
  <2>3. c[h] = a[n]
    BY ONLY <1>8, n \in u .. Len(a)
  <2> QED
    BY ONLY <2>1, <2>2, <2>3
<1>14. JQAdded(a, b, f, r, u)
  BY ONLY <1>4, <1>5, <1>6, <1>10, <1>11, <1>12, <1>13 DEF JQAdded
<1> QED
  BY ONLY <1>2, <1>10, <1>14

LEMMA JQKeepsWords ==
  ASSUME NEW S, NEW a \in Seq(S)
  PROVE  WordsFrom(WithJQOutputFlags(a), a) /\ \E T : WithJQOutputFlags(a) \in Seq(T)
<1> DEFINE b == WithJQOutputFlags(a)
<1>1. PICK T, f, r, u : b \in Seq(T) /\ JQAdded(a, b, f, r, u)
  BY JQIs
<1>2. /\ u \in 1 .. Len(a) + 1 /\ b \in Seq(T) /\ Len(b) = Len(a) + 2 /\ b[u] = f /\ b[u + 1] = r /\ Dashed(f) /\ Dashed(r)
      /\ \A n \in 1 .. u - 1 : b[n] = a[n]
      /\ \A n \in u .. Len(a) : b[n + 2] = a[n]
  BY <1>1 DEF JQAdded
<1> HIDE DEF b
<1>3. Len(a) \in Nat /\ u \in Nat
  BY <1>2
<1>4. ASSUME NEW k \in 1 .. Len(b), ~Dashed(b[k]) PROVE \E i \in 1 .. Len(a) : b[k] = a[i]
  <2>1. CASE k < u
    <3>1. k \in 1 .. u - 1 /\ k \in 1 .. Len(a)
      BY ONLY <1>2, <1>3, <2>1, k \in 1 .. Len(b)
    <3> QED
      BY ONLY <1>2, <3>1
  <2>2. CASE k = u \/ k = u + 1
    BY ONLY <1>2, <1>4, <2>2
  <2>3. CASE k > u + 1
    <3> DEFINE h == k - 2
    <3>1. h \in u .. Len(a) /\ h \in 1 .. Len(a) /\ h + 2 = k
      BY ONLY <1>2, <1>3, <2>3, k \in 1 .. Len(b)
    <3> HIDE DEF h
    <3> QED
      BY ONLY <1>2, <3>1
  <2>4. k < u \/ k = u \/ k = u + 1 \/ k > u + 1
    BY ONLY <1>3, <1>2, k \in 1 .. Len(b)
  <2> QED
    BY ONLY <2>1, <2>2, <2>3, <2>4
<1> QED
  BY <1>2, <1>4 DEF WordsFrom, b

\* With them, the same operation runs or none.
LEMMA JQKeepsFirst ==
  ASSUME NEW S, NEW a \in Seq(S), NEW w, FirstIs(a, w), NEW b, b = WithJQOutputFlags(a), TreeRuns(b) # ""
  PROVE  TreeRuns(b) = a[w].name
<1>1. PICK T, f, r, u : b \in Seq(T) /\ JQAdded(a, b, f, r, u)
  BY JQIs
<1>2. /\ u \in 1 .. Len(a) + 1 /\ b \in Seq(T) /\ Len(b) = Len(a) + 2
      /\ b[u] = f /\ b[u + 1] = r /\ r # Dashes /\ ~Alone(r) /\ Dashed(r)
      /\ u \in 1 .. Len(a) => a[u] = Dashes
      /\ \A n \in 1 .. u - 1 : b[n] = a[n]
      /\ \A n \in u .. Len(a) : b[n + 2] = a[n]
  BY <1>1 DEF JQAdded
<1>3. /\ w \in 1 .. Len(a) /\ w \in Nat /\ Len(a) \in Nat /\ u \in Nat
      /\ Roles(a, RootValues)[w] = "rest" /\ ~Dashed(a[w])
      /\ \A j \in 1 .. w - 1 : Roles(a, RootValues)[j] = "rest" => Dashed(a[j])
  <2>1. Len(a) \in Nat
    BY ONLY a \in Seq(S)
  <2> QED
    BY ONLY <1>2, <2>1, FirstIs(a, w) DEF FirstIs
<1>4. OperationAt(b) \in 1 .. Len(b) /\ TreeRuns(b) = b[OperationAt(b)].name /\ ~Dashed(b[OperationAt(b)])
  BY <1>2, OperationIsWord
<1>5. CASE w < u
  <2>1. Agree(a, b, w)
    BY ONLY <1>2, <1>3, <1>5 DEF Agree
  <2>2. FirstIs(b, w) /\ b[w] = a[w]
    BY ONLY <1>2, <2>1, a \in Seq(S), FirstIs(a, w), FirstOfAlike
  <2>3. OperationAt(b) = w
    BY ONLY <1>2, <2>2, OperationAtFirst
  <2> QED
    BY ONLY <1>4, <2>2, <2>3
<1>6. CASE w = u
  <2>1. a[w] = Dashes
    BY ONLY <1>2, <1>3, <1>6
  <2> QED
    BY <1>3, <2>1, PlainAreNoFlags
<1>7. CASE u < w
\* The argument "--" was a value, and ends the arguments now.
  <2> DEFINE h == u - 1
             v == u + 1
             x == u + 2
             y == u + 3
  <2>1. /\ u \in 1 .. Len(a) /\ u \in 1 .. w /\ u \in 1 .. w - 1 /\ v \in 1 .. Len(a) /\ v \in 1 .. w /\ (v = w \/ v \in 1 .. w - 1)
        /\ h \in Nat /\ h = u - 1 /\ h <= Len(a) /\ h <= Len(b) /\ u = v - 1 /\ v = x - 1 /\ v - 1 = u
        /\ u \in 1 .. Len(b) /\ v \in 1 .. Len(b) /\ x \in 1 .. Len(b) /\ y \in 1 .. Len(b) /\ y = x + 1
        /\ u \in u .. Len(a) /\ v \in u .. Len(a) /\ u + 2 = x /\ v + 2 = y /\ x \in Nat
        /\ u # 0 /\ v # 0 /\ x # 0
    BY ONLY <1>2, <1>3, <1>7
  <2>2. \A n \in 1 .. h : b[n] = a[n] /\ n \in 1 .. w - 1
    BY ONLY <1>2, <1>3, <1>7, <2>1
  <2>3. b[x] = a[u] /\ b[y] = a[v] /\ a[u] = Dashes /\ b[u] = f /\ b[v] = r
    BY ONLY <1>2, <2>1
  <2> HIDE DEF h, v, x, y
  <2>4. Alike(a, b, RootValues, h)
    <3>1. Agree(a, b, h)
      BY ONLY <2>1, <2>2 DEF Agree
    <3> QED
      BY ONLY <1>2, <3>1, a \in Seq(S), SameRoles
  <2>5. Roles(a, RootValues)[u] = RoleAfter(StateAt(a, RootValues, h), a[u], RootValues)
    BY ONLY <2>1, a \in Seq(S), RoleNext
  <2>6. Roles(a, RootValues)[u] # "end" /\ StateAt(a, RootValues, h) \in {"free", "takes"}
    BY <2>1, BeforeFirst
  <2>7. StateAt(a, RootValues, h) = "takes" /\ StateAt(b, RootValues, h) = "takes"
    BY ONLY <2>3, <2>4, <2>5, <2>6 DEF RoleAfter, Alike
  <2>8. Roles(b, RootValues)[u] = "value" /\ StateAt(b, RootValues, u) = "free"
    <3>0. b \in Seq(T) /\ u \in 1 .. Len(b) /\ h = u - 1
      BY ONLY <1>2, <2>1
    <3>1. Roles(b, RootValues)[u] = RoleAfter(StateAt(b, RootValues, h), b[u], RootValues)
      BY ONLY <3>0, RoleNext
    <3>2. Roles(b, RootValues)[u] = "value"
      BY ONLY <2>7, <3>1 DEF RoleAfter
    <3> QED
      BY ONLY <2>1, <3>2 DEF StateAt, StateOf
  <2>9. Roles(b, RootValues)[v] # "end" /\ StateAt(b, RootValues, v) = "free"
    <3>1. Roles(b, RootValues)[v] = RoleAfter(StateAt(b, RootValues, u), b[v], RootValues)
      <4>1. b \in Seq(T) /\ v \in 1 .. Len(b) /\ u = v - 1
        BY ONLY <1>2, <2>1
      <4> QED
        BY ONLY <4>1, RoleNext
    <3> QED
      BY ONLY <1>2, <2>1, <2>3, <2>8, <3>1 DEF RoleAfter, StateAt, StateOf
  <2>10. Roles(b, RootValues)[x] = "end"
    <3>1. Roles(b, RootValues)[x] = RoleAfter(StateAt(b, RootValues, v), b[x], RootValues)
      BY ONLY <1>2, <2>1, RoleNext
    <3> QED
      BY ONLY <2>3, <2>9, <3>1 DEF RoleAfter
  <2>11. \A j \in x .. Len(b) : Roles(b, RootValues)[j] = "end"
    BY ONLY <1>2, <2>1, <2>10, EndStays
  <2>12. \A j \in 1 .. h : Roles(b, RootValues)[j] # "end" /\ (Roles(b, RootValues)[j] = "rest" => Dashed(b[j]))
    <3> TAKE j \in 1 .. h
    <3>1. Roles(b, RootValues)[j] = Roles(a, RootValues)[j] /\ b[j] = a[j]
      BY ONLY <2>2, <2>4, j \in 1 .. h DEF Alike
    <3>2. j \in 1 .. w - 1 /\ j \in 1 .. w
      BY ONLY <1>3, <2>2, j \in 1 .. h
    <3>3. Roles(a, RootValues)[j] # "end"
      BY <3>2, BeforeFirst
    <3> QED
      BY ONLY <1>3, <3>1, <3>2, <3>3
  <2>13. \A j \in 1 .. Len(b) : j \in 1 .. h \/ j = u \/ j = v \/ j \in x .. Len(b)
    BY ONLY <1>2, <1>3, <2>1
  <2>14. Words(b, RootValues) = {}
    <3>1. ASSUME NEW j \in 1 .. Len(b) PROVE ~(Roles(b, RootValues)[j] = "rest" /\ ~Dashed(b[j]))
      <4>1. Dashed(b[v])
        BY ONLY <1>2, <2>3
      <4> QED
        BY ONLY <2>8, <2>11, <2>12, <2>13, <4>1
    <3>2. b \in Seq(T)
      BY ONLY <1>2
    <3>3. DOMAIN b = 1 .. Len(b)
      BY ONLY <3>2
    <3> QED
      BY ONLY <3>1, <3>3 DEF Words
  <2>15. OperationAt(b) = y
    <3>1. OperationAt(b) # 0
      BY TreeRunsNamed
    <3>2. PICK m \in 1 .. Len(b) :
            /\ Roles(b, RootValues)[m] = "end" /\ OperationAt(b) = m + 1
            /\ \A j \in 1 .. Len(b) : Roles(b, RootValues)[j] = "end" => m <= j
      BY ONLY <1>2, <2>14, <3>1, OperationAtEnd
    <3>3. m \in x .. Len(b)
      BY ONLY <2>8, <2>9, <2>12, <2>13, <3>2
    <3>4. m <= x
      BY ONLY <2>1, <2>10, <3>2
    <3> QED
      BY ONLY <2>1, <3>2, <3>3, <3>4
  <2>16. ~Dashed(a[v]) /\ TreeRuns(b) = a[v].name
    BY ONLY <1>4, <2>3, <2>15
  <2>17. Roles(a, RootValues)[v] = "rest"
    <3>1. Roles(a, RootValues)[u] = "value"
      BY ONLY <2>5, <2>7 DEF RoleAfter
    <3>2. StateAt(a, RootValues, u) = "free"
      BY ONLY <2>1, <3>1 DEF StateAt, StateOf
    <3>3. Roles(a, RootValues)[v] = RoleAfter(StateAt(a, RootValues, u), a[v], RootValues)
      BY ONLY <2>1, a \in Seq(S), RoleNext
    <3>4. a[v] # Dashes /\ a[v].name \notin RootValues
      BY ONLY <2>16, PlainAreNoFlags
    <3> QED
      BY ONLY <3>2, <3>3, <3>4 DEF RoleAfter
  <2>18. v = w
    BY ONLY <1>3, <2>1, <2>16, <2>17
  <2> QED
    BY ONLY <2>16, <2>18
<1> QED
  BY ONLY <1>3, <1>5, <1>6, <1>7

PartOf(q, args) == \A k \in 1 .. Len(q) : \E i \in 1 .. Len(args) : q[k] = args[i]

LEMMA WithoutIs ==
  ASSUME NEW S, NEW args \in Seq(S), NEW flags, NEW q, q = Without(args, flags)
  PROVE  q \in Seq(S) /\ PartOf(q, args)
<1> DEFINE K == {i \in DOMAIN args : Roles(args, flags)[i] \in {"rest", "end"}}
<1>1. q = Those(args, K)
  BY DEF Without
<1> HIDE DEF K
<1> QED
  BY <1>1, ThoseAre DEF PartOf

\* What is left after the project has been resolved.
LEMMA ResolvedIs ==
  ASSUME NEW args, NEW in, NEW r \in ResolveGeneratedProject(args, in)
  PROVE  \/ r = args
         \/ \E op \in DOMAIN Operations, taken \in SUBSET ProjectFlags :
              LET rest == Without(Without(args, {"--project"}), taken)
              IN  r = rest \/ \E value : r = Append(rest, Arg(Operations[op].project, value))
<1> DEFINE op == OperationName(args, RootValues \cup ProjectFlags)
           taken == IF Operations[op].project = "--session-id" THEN {"--project-id"} ELSE {}
           rest == Without(Without(args, {"--project"}), taken)
<1>1. r = args \/ (op \in DOMAIN Operations /\ r \in WithProject(op, args, in))
  BY DEF ResolveGeneratedProject, OperationName
<1>2. taken \in SUBSET ProjectFlags
  BY DEF ProjectFlags
<1>3. ASSUME r \in WithProject(op, args, in)
      PROVE  r = rest \/ \E value : r = Append(rest, Arg(Operations[op].project, value))
  BY <1>3 DEF WithProject
<1> HIDE DEF op, taken
<1> QED
  BY <1>1, <1>2, <1>3

\* The word that names the operation is still the first, and all words are from before.
ResolvedFrom(r, args) ==
  /\ WordsFrom(r, args)
  /\ \A w : FirstIs(args, w) /\ Harmless(args, w) => \E v : FirstIs(r, v) /\ r[v] = args[w]

LEMMA ResolvedKeeps ==
  ASSUME NEW S, NEW args \in Seq(S), NEW in, NEW r \in ResolveGeneratedProject(args, in)
  PROVE  ResolvedFrom(r, args) /\ \E T : r \in Seq(T)
<1>1. CASE r = args
  BY <1>1 DEF WordsFrom, ResolvedFrom
<1>2. ASSUME NEW op \in DOMAIN Operations, NEW taken \in SUBSET ProjectFlags, NEW rest,
             rest = Without(Without(args, {"--project"}), taken)
      PROVE  rest \in Seq(S) /\ ResolvedFrom(rest, args)
  <2> DEFINE one == Without(args, {"--project"})
  <2>0. {"--project"} \in SUBSET ProjectFlags
    BY DEF ProjectFlags
  <2>1. one \in Seq(S) /\ PartOf(one, args)
    BY WithoutIs
  <2> HIDE DEF one
  <2>2. rest = Without(one, taken)
    BY <1>2 DEF one
  <2>3. rest \in Seq(S) /\ PartOf(rest, one)
    BY ONLY <2>1, <2>2, WithoutIs
  <2>4. WordsFrom(rest, args)
    <3>1. ASSUME NEW k \in 1 .. Len(rest) PROVE \E i \in 1 .. Len(args) : rest[k] = args[i]
      <4>1. PICK j \in 1 .. Len(one) : rest[k] = one[j]
        BY ONLY <2>3, k \in 1 .. Len(rest) DEF PartOf
      <4>2. PICK i \in 1 .. Len(args) : one[j] = args[i]
        BY ONLY <2>1, j \in 1 .. Len(one) DEF PartOf
      <4> QED
        BY ONLY <4>1, <4>2
    <3> QED
      BY ONLY <3>1 DEF WordsFrom
  <2>5. ASSUME NEW w, FirstIs(args, w), Harmless(args, w) PROVE \E v : FirstIs(rest, v) /\ rest[v] = args[w]
    <3>1. PICK v : FirstIs(one, v) /\ Harmless(one, v) /\ one[v] = args[w]
      BY <2>0, <2>5, ProjectTakenOut DEF one
    <3>2. \E x : FirstIs(rest, x) /\ rest[x] = one[v]
      BY ONLY <2>1, <2>2, <3>1, taken \in SUBSET ProjectFlags, ProjectTakenOut
    <3> QED
      BY ONLY <3>1, <3>2
  <2> QED
    BY ONLY <2>3, <2>4, <2>5 DEF ResolvedFrom
<1>3. ASSUME NEW op \in DOMAIN Operations, NEW taken \in SUBSET ProjectFlags, NEW rest, NEW value,
             rest = Without(Without(args, {"--project"}), taken), r = Append(rest, Arg(Operations[op].project, value))
      PROVE  ResolvedFrom(r, args) /\ \E T : r \in Seq(T)
  <2> DEFINE x == Arg(Operations[op].project, value)
             T == S \cup {x}
  <2>1. /\ rest \in Seq(S) /\ WordsFrom(rest, args)
        /\ \A w : FirstIs(args, w) /\ Harmless(args, w) => \E v : FirstIs(rest, v) /\ rest[v] = args[w]
    BY <1>2, <1>3 DEF ResolvedFrom
  <2>2. Dashed(x)
    <3>1. x.name = Operations[op].project
      BY ArgIs
    <3> QED
      BY <3>1, ArgsAssumption DEF Dashed
  <2>3. x \in T /\ rest \in Seq(T) /\ r = Append(rest, x)
    BY <1>3, <2>1
  <2> HIDE DEF x, T
  <2>4. /\ r \in Seq(T) /\ Len(r) = Len(rest) + 1 /\ Len(rest) \in Nat /\ r[Len(rest) + 1] = x
        /\ \A k \in 1 .. Len(rest) : r[k] = rest[k]
    BY ONLY <2>3
  <2>5. WordsFrom(r, args)
    <3>1. ASSUME NEW k \in 1 .. Len(r), ~Dashed(r[k]) PROVE \E i \in 1 .. Len(args) : r[k] = args[i]
      <4>1. k # Len(rest) + 1
        BY ONLY <2>2, <2>4, <3>1
      <4>2. k \in 1 .. Len(rest)
        BY ONLY <2>4, <4>1, k \in 1 .. Len(r)
      <4> QED
        BY ONLY <2>1, <2>4, <3>1, <4>2 DEF WordsFrom
    <3> QED
      BY ONLY <3>1 DEF WordsFrom
  <2>6. ASSUME NEW w, FirstIs(args, w), Harmless(args, w) PROVE \E v : FirstIs(r, v) /\ r[v] = args[w]
    <3>1. PICK v : FirstIs(rest, v) /\ rest[v] = args[w]
      BY ONLY <2>1, <2>6
    <3>2. v \in 1 .. Len(rest)
      BY ONLY <3>1 DEF FirstIs
    <3>3. Agree(rest, r, v)
      BY ONLY <2>4, <3>2 DEF Agree
    <3>4. FirstIs(r, v) /\ r[v] = rest[v]
      <4>1. rest \in Seq(T) /\ r \in Seq(T)
        BY ONLY <2>3, <2>4
      <4> QED
        BY ONLY <3>1, <3>3, <4>1, FirstOfAlike
    <3> QED
      BY ONLY <3>1, <3>4
  <2>7. ResolvedFrom(r, args)
    BY ONLY <2>5, <2>6 DEF ResolvedFrom
  <2> QED
    BY ONLY <2>4, <2>7
<1>4. ASSUME NEW op \in DOMAIN Operations, NEW taken \in SUBSET ProjectFlags, NEW rest,
             rest = Without(Without(args, {"--project"}), taken), r = rest \/ \E value : r = Append(rest, Arg(Operations[op].project, value))
      PROVE  ResolvedFrom(r, args) /\ \E T : r \in Seq(T)
  <2>1. CASE r = rest
    BY <1>2, <1>4, <2>1
  <2>2. ASSUME NEW value, r = Append(rest, Arg(Operations[op].project, value)) PROVE ResolvedFrom(r, args) /\ \E T : r \in Seq(T)
    BY <1>3, <1>4, <2>2
  <2> QED
    BY <1>4, <2>1, <2>2
<1> QED
  BY <1>1, <1>4, ResolvedIs
-----------------------------------------------------------------------------
(* Without a yes and without "--help", what runs deletes nothing.           *)

Signs == YesFlags \cup {Arg("--help", ""), Arg("-h", "")}

\* Renaming keeps words and makes none, and makes neither a yes nor a "--help".
RenamedTo(x, y) == x = y \/ (Dashed(x) /\ x \notin Signs)

LEMMA RenamedIs ==
  ASSUME NEW S, NEW a \in Seq(S), NEW q, q = RenamedFlags(a)
  PROVE  \E T : q \in Seq(T) /\ \A k \in 1 .. Len(q) : \E i \in 1 .. Len(a) : RenamedTo(q[k], a[i])
<1> DEFINE op == OperationName(a, RootValues)
           until == Min({i \in DOMAIN a : a[i] = Dashes} \cup {Len(a) + 1})
           To(i) == Arg(Operations[op].renames[a[i].name], a[i].value)
           Is(i) == i < until /\ a[i].name \in DOMAIN Operations[op].renames
<1>1. CASE q = a
  BY <1>1 DEF RenamedTo
<1>2. CASE q # a
  <2> DEFINE T == {q[k] : k \in 1 .. Len(a)}
  <2>1. op # "" /\ q = [i \in DOMAIN a |-> IF Is(i) THEN To(i) ELSE a[i]]
    BY <1>2 DEF RenamedFlags
  <2>2. op \in DOMAIN Operations
    BY <2>1 DEF OperationName
  <2>3. ASSUME NEW i \in 1 .. Len(a), Is(i) PROVE RenamedTo(To(i), a[i])
    <3> DEFINE new == Operations[op].renames[a[i].name]
    <3>1. new \notin Plain /\ new \notin {"--yes", "--help", "-h"}
      BY <2>2, <2>3, ArgsAssumption
    <3>2. To(i).name = new
      BY ArgIs
    <3>3. \A x \in Signs : x.name \in {"--yes", "--help", "-h"}
      BY ArgIs DEF Signs, YesFlags
    <3> HIDE DEF new, To
    <3> QED
      BY ONLY <3>1, <3>2, <3>3 DEF RenamedTo, Dashed
  <2> HIDE DEF op, To, Is
  <2>4. DOMAIN a = 1 .. Len(a) /\ Len(a) \in Nat
    OBVIOUS
  <2>5. q \in Seq(T) /\ Len(q) = Len(a)
    <3>1. \A k \in 1 .. Len(a) : q[k] \in T
      OBVIOUS
    <3> HIDE DEF T
    <3>2. q = [i \in 1 .. Len(a) |-> IF Is(i) THEN To(i) ELSE a[i]]
      BY ONLY <2>1, <2>4
    <3>3. q = [i \in 1 .. Len(a) |-> q[i]]
      BY ONLY <3>2
    <3> QED
      BY ONLY <2>4, <3>1, <3>3
  <2>6. ASSUME NEW k \in 1 .. Len(q) PROVE RenamedTo(q[k], a[k])
    BY ONLY <2>1, <2>3, <2>4, <2>5, k \in 1 .. Len(q) DEF RenamedTo
  <2> QED
    BY ONLY <2>5, <2>6
<1> QED
  BY <1>1, <1>2

\* So it is for the arguments in which the CLI looks for an operation.
AskedFrom(asked, args) ==
  /\ \A k \in 1 .. Len(asked) : ~Dashed(asked[k]) => Alone(asked[k])
  /\ \A k \in 1 .. Len(asked) : asked[k] \in Signs => \E i \in 1 .. Len(args) : args[i] = asked[k]

LEMMA AskedIs ==
  ASSUME NEW in \in GenInputs
  PROVE  \E T : Asked(in.args) \in Seq(T) /\ AskedFrom(Asked(in.args), in.args)
<1> DEFINE S == [name : STRING, value : STRING]
           args == in.args
           own == Without(args, GlobalFlags)
           named == RenamedFlags(own)
           asked == Without(named, {"--jq"})
<1>1. args \in Seq(S) /\ \A i \in DOMAIN args : ~Dashed(args[i]) => Alone(args[i])
  BY ArgsAssumption
<1> HIDE DEF S, args
<1>2. own \in Seq(S) /\ PartOf(own, args)
  BY ONLY <1>1, WithoutIs
<1> HIDE DEF own
<1>3. PICK T : named \in Seq(T) /\ \A k \in 1 .. Len(named) : \E i \in 1 .. Len(own) : RenamedTo(named[k], own[i])
  BY ONLY <1>2, RenamedIs
<1> HIDE DEF named
<1>4. asked \in Seq(T) /\ PartOf(asked, named)
  BY ONLY <1>3, WithoutIs
<1>5. asked = Asked(in.args)
  BY DEF Asked, asked, named, own, args
<1> HIDE DEF asked
<1>6. ASSUME NEW k \in 1 .. Len(asked)
      PROVE  \E i \in 1 .. Len(args) : RenamedTo(asked[k], args[i])
  <2>1. PICK n \in 1 .. Len(named) : asked[k] = named[n]
    BY ONLY <1>4, k \in 1 .. Len(asked) DEF PartOf
  <2>2. PICK j \in 1 .. Len(own) : RenamedTo(named[n], own[j])
    BY ONLY <1>3, n \in 1 .. Len(named)
  <2>3. PICK i \in 1 .. Len(args) : own[j] = args[i]
    BY ONLY <1>2, j \in 1 .. Len(own) DEF PartOf
  <2> QED
    BY ONLY <2>1, <2>2, <2>3
<1>7. \A i \in 1 .. Len(args) : ~Dashed(args[i]) => Alone(args[i])
  <2>1. DOMAIN args = 1 .. Len(args)
    BY ONLY <1>1
  <2> QED
    BY ONLY <1>1, <2>1
<1>8. AskedFrom(asked, args)
  BY ONLY <1>6, <1>7 DEF RenamedTo, AskedFrom
<1> QED
  BY <1>4, <1>5, <1>8 DEF args

SafeToRun(args) == TreeRuns(args) # "" => ~Operations[TreeRuns(args)].deletes

\* No word names an operation that deletes: none runs.
LEMMA NoWordDeletes ==
  ASSUME NEW S, NEW r \in Seq(S), NEW T, NEW asked \in Seq(T), WordsFrom(r, asked),
         \A k \in 1 .. Len(asked) : ~Dashed(asked[k]) => Alone(asked[k]),
         OperationName(asked, RootValues) = "", ~IsDeleteInvocation(asked)
  PROVE  SafeToRun(r)
<1> SUFFICES ASSUME TreeRuns(r) # "" PROVE ~Operations[TreeRuns(r)].deletes
  BY DEF SafeToRun
<1> DEFINE at == OperationAt(r)
<1>1. at \in 1 .. Len(r) /\ TreeRuns(r) = r[at].name /\ ~Dashed(r[at]) /\ TreeRuns(r) \in DOMAIN Operations
  BY OperationIsWord
<1> HIDE DEF at
<1>2. PICK i \in 1 .. Len(asked) : r[at] = asked[i]
  BY ONLY <1>1, WordsFrom(r, asked) DEF WordsFrom
<1>3. Alone(asked[i]) /\ asked[i].name \in DOMAIN Operations /\ i \in DOMAIN asked
  <2>1. asked[i].name \in DOMAIN Operations /\ ~Dashed(asked[i])
    BY ONLY <1>1, <1>2
  <2>2. i \in DOMAIN asked
    BY ONLY asked \in Seq(T), i \in 1 .. Len(asked)
  <2> QED
    BY <2>1, <2>2
<1>4. ~(Alone(asked[i]) /\ asked[i].name \in DOMAIN Operations /\ Operations[asked[i].name].deletes)
  BY <1>3 DEF IsDeleteInvocation
<1> QED
  BY <1>1, <1>2, <1>3, <1>4

\* The first word names one that does not: that or none runs.
LEMMA FirstDeletesNot ==
  ASSUME NEW S, NEW r \in Seq(S), NEW v, FirstIs(r, v), ~Operations[r[v].name].deletes
  PROVE  SafeToRun(r) /\ SafeToRun(WithJQOutputFlags(r))
<1>1. SafeToRun(r)
  BY TreeRunsNamed, OperationAtFirst DEF SafeToRun
<1>2. SafeToRun(WithJQOutputFlags(r))
  BY JQKeepsFirst DEF SafeToRun
<1> QED
  BY <1>1, <1>2

\* Whatever is resolved and added for --jq.
LEMMA ResolvedIsSafe ==
  ASSUME NEW in \in GenInputs, NEW asked, asked = Asked(in.args), ~ProjectHidesOperation(asked), ~IsDeleteInvocation(asked),
         NEW r, r = asked \/ r \in ResolveGeneratedProject(asked, in)
  PROVE  SafeToRun(r) /\ SafeToRun(WithJQOutputFlags(r))
<1>1. PICK T : asked \in Seq(T) /\ AskedFrom(asked, in.args)
  BY AskedIs
<1>2. ResolvedFrom(r, asked) /\ \E U : r \in Seq(U)
  <2>1. CASE r = asked
    BY <1>1, <2>1 DEF ResolvedFrom, WordsFrom
  <2>2. CASE r \in ResolveGeneratedProject(asked, in)
    BY ONLY <1>1, <2>2, ResolvedKeeps
  <2> QED
    BY <2>1, <2>2
<1>3. PICK U : r \in Seq(U)
  BY <1>2
<1>4. CASE OperationName(asked, RootValues) = ""
  <2>1. \A k \in 1 .. Len(asked) : ~Dashed(asked[k]) => Alone(asked[k])
    BY <1>1 DEF AskedFrom
  <2>2. WordsFrom(r, asked)
    BY <1>2 DEF ResolvedFrom
  <2>3. SafeToRun(r)
    BY ONLY <1>1, <1>3, <1>4, <2>1, <2>2, ~IsDeleteInvocation(asked), NoWordDeletes
  <2> DEFINE b == WithJQOutputFlags(r)
  <2>4. WordsFrom(b, r) /\ \E V : b \in Seq(V)
    BY ONLY <1>3, JQKeepsWords
  <2> HIDE DEF b
  <2>5. WordsFrom(b, asked)
    <3>1. ASSUME NEW k \in 1 .. Len(b), ~Dashed(b[k]) PROVE \E i \in 1 .. Len(asked) : b[k] = asked[i]
      <4>1. PICK j \in 1 .. Len(r) : b[k] = r[j]
        BY ONLY <2>4, <3>1 DEF WordsFrom
      <4> QED
        BY ONLY <2>2, <3>1, <4>1 DEF WordsFrom
    <3> QED
      BY ONLY <3>1 DEF WordsFrom
  <2>6. PICK V : b \in Seq(V)
    BY <2>4
  <2>7. SafeToRun(b)
    BY ONLY <1>1, <2>6, <1>4, <2>1, <2>5, ~IsDeleteInvocation(asked), NoWordDeletes
  <2> QED
    BY <2>3, <2>7 DEF b
<1>5. CASE OperationName(asked, RootValues) # ""
  <2> DEFINE w == Min(Words(asked, RootValues))
             op == OperationName(asked, RootValues)
  <2>1. op \in DOMAIN Operations /\ op = FirstPositional(asked, RootValues) /\ ~Operations[op].deletes
    BY <1>5 DEF OperationName, IsDeleteInvocation
  <2>2. Words(asked, RootValues) # {} /\ op = asked[w].name
    BY <1>5, <2>1 DEF FirstPositional
  <2>3. FirstIs(asked, w)
    BY ONLY <1>1, <2>2, FirstIsThere
  <2> HIDE DEF w, op
  <2>4. Harmless(asked, w)
    BY ONLY <1>1, <2>1, <2>2, <2>3, ~ProjectHidesOperation(asked), NothingHidden
  <2>5. PICK v : FirstIs(r, v) /\ r[v] = asked[w]
    BY ONLY <1>2, <2>3, <2>4 DEF ResolvedFrom
  <2>6. ~Operations[r[v].name].deletes
    BY ONLY <2>1, <2>2, <2>5
  <2> QED
    BY ONLY <1>3, <2>5, <2>6, FirstDeletesNot
<1> QED
  BY <1>4, <1>5

\* Without a yes among them, the arguments stay as they are when it is taken out.
LEMMA NoYesStays ==
  ASSUME NEW S, NEW a \in Seq(S), \A i \in 1 .. Len(a) : a[i] \notin YesFlags
  PROVE  WithoutYes(a) = a
<1> DEFINE K == {i \in DOMAIN a : a[i] \notin YesFlags}
           those == CHOOSE f : KeepsPlaces(a, K, f, Len(a))
<1>1. WithoutYes(a) = those[Len(a)]
  BY DEF WithoutYes, Those, KeepsPlaces
<1>2. KeepsPlaces(a, K, those, Len(a))
  <2>1. Len(a) \in Nat
    OBVIOUS
  <2>2. \E f : KeepsPlaces(a, K, f, Len(a))
    BY <2>1, KeepsExists
  <2> QED
    BY <2>2
<1>3. DOMAIN a \subseteq K
  OBVIOUS
<1> HIDE DEF those, K
<1> QED
  BY ONLY a \in Seq(S), <1>1, <1>2, <1>3, KeptOfSequence

Unasked ==
  /\ ~gen.confirmed /\ ~HasHelpFlag(gen.in.args) /\ ~ProjectHidesOperation(Asked(gen.in.args))
  /\ ~\E i \in DOMAIN gen.in.args : gen.in.args[i] \in YesFlags

\* Until the tree runs, the arguments are those that were looked at.
DeletesInv ==
  /\ DOMAIN gen = DOMAIN NotInvoked
  /\ gen.at \in {"confirm", "resolve", "run", "filter", "done"} => gen.in \in GenInputs
  /\ gen.at = "resolve" /\ Unasked => gen.rest = Asked(gen.in.args) /\ ~IsDeleteInvocation(gen.rest)
  /\ gen.at \in {"run", "filter", "done"} /\ Unasked => SafeToRun(gen.rest)

LEMMA DeletesInvStarts == GenInit => DeletesInv
<1>1. NotInvoked.at = "start"
  BY DEF NotInvoked
<1> QED
  BY <1>1 DEF GenInit, DeletesInv

LEMMA ForwardKeepsDeletes ==
  ASSUME DeletesInv, IsMounted, NEW in \in GenInputs, ForwardGenerated(in)
  PROVE  DeletesInv'
<1> DEFINE rest == Asked(in.args)
           asks == IsDeleteInvocation(rest)
           handed == IF asks THEN WithoutYes(rest) ELSE rest
           at == IF asks /\ handed = rest /\ ~HasHelpFlag(handed) THEN "confirm" ELSE "resolve"
<1>1. PICK jq : gen' = [gen EXCEPT !.in = in, !.rest = handed, !.jq = jq, !.at = at]
  BY DEF ForwardGenerated
<1>2. DOMAIN gen = DOMAIN NotInvoked
  BY DEF DeletesInv
<1>3. DOMAIN NotInvoked = {"at", "in", "rest", "jq", "help", "confirmed", "out", "filtered"}
  BY DEF NotInvoked
<1> HIDE DEF at, handed
<1>4. DOMAIN gen' = DOMAIN NotInvoked /\ gen'.in = in /\ gen'.rest = handed /\ gen'.at = at
  BY ONLY <1>1, <1>2, <1>3
<1>5. PICK T : rest \in Seq(T) /\ AskedFrom(rest, in.args)
  BY AskedIs
<1>6. DOMAIN in.args = 1 .. Len(in.args)
  BY ArgsAssumption
<1>7. ASSUME at = "resolve", asks PROVE ~Unasked'
  <2> HIDE DEF rest, asks
  <2>1. handed = WithoutYes(rest) /\ (handed # rest \/ HasHelpFlag(handed))
    BY ONLY <1>7 DEF at, handed
  <2>2. (\E k \in 1 .. Len(rest) : rest[k] \in YesFlags) \/ HasHelpFlag(rest)
    BY ONLY <1>5, <2>1, NoYesStays
  <2>3. DOMAIN rest = 1 .. Len(rest)
    BY ONLY <1>5
  <2>4. PICK k \in 1 .. Len(rest) : rest[k] \in YesFlags \/ rest[k] \in {Arg("--help", ""), Arg("-h", "")}
    BY ONLY <2>2, <2>3 DEF HasHelpFlag
  <2>5. PICK i \in 1 .. Len(in.args) : in.args[i] = rest[k]
    BY ONLY <1>5, <2>4 DEF AskedFrom, Signs
  <2>6. HasHelpFlag(in.args) \/ \E j \in DOMAIN in.args : in.args[j] \in YesFlags
    BY ONLY <1>6, <2>4, <2>5 DEF HasHelpFlag
  <2> QED
    BY <1>4, <2>6 DEF Unasked
<1>8. at = "resolve" /\ ~asks => handed = rest
  BY DEF handed
<1>9. at \in {"confirm", "resolve"}
  BY DEF at
<1> HIDE DEF at, handed
<1> QED
  BY <1>4, <1>7, <1>8, <1>9 DEF DeletesInv

LEMMA ResolveKeepsDeletes ==
  ASSUME DeletesInv, ResolveGenerated
  PROVE  DeletesInv'
<1>0. PICK r : /\ r = gen.rest \/ r \in ResolveGeneratedProject(gen.rest, gen.in)
               /\ gen' = [gen EXCEPT !.at = "run", !.help = IsHelpInvocation(gen.rest),
                                     !.jq = IF IsHelpInvocation(gen.rest) THEN "" ELSE @,
                                     !.rest = IF IsHelpInvocation(gen.rest) \/ gen.jq = "" THEN r ELSE WithJQOutputFlags(r)]
  BY DEF ResolveGenerated
<1> DEFINE help == IsHelpInvocation(gen.rest)
           jq   == IF help THEN "" ELSE gen.jq
           rest == IF help \/ gen.jq = "" THEN r ELSE WithJQOutputFlags(r)
<1>1. gen' = [gen EXCEPT !.at = "run", !.help = help, !.jq = jq, !.rest = rest]
  BY <1>0
<1>2. rest = r \/ rest = WithJQOutputFlags(r)
  OBVIOUS
<1> HIDE DEF help, jq, rest
<1>3. DOMAIN gen = DOMAIN NotInvoked /\ gen.in \in GenInputs
  BY DEF DeletesInv, ResolveGenerated
<1>4. DOMAIN NotInvoked = {"at", "in", "rest", "jq", "help", "confirmed", "out", "filtered"}
  BY DEF NotInvoked
<1>5. /\ DOMAIN gen' = DOMAIN NotInvoked /\ gen'.in = gen.in /\ gen'.rest = rest /\ gen'.at = "run"
      /\ gen'.confirmed = gen.confirmed
  BY ONLY <1>1, <1>3, <1>4
<1>6. ASSUME Unasked' PROVE SafeToRun(rest)
  <2>1. Unasked
    BY <1>5, <1>6 DEF Unasked
  <2>2. gen.rest = Asked(gen.in.args) /\ ~IsDeleteInvocation(gen.rest)
    BY <2>1 DEF DeletesInv, ResolveGenerated
  <2>3. ~ProjectHidesOperation(gen.rest)
    BY <2>1, <2>2 DEF Unasked
  <2> QED
    BY ONLY <1>0, <1>2, <1>3, <2>2, <2>3, ResolvedIsSafe
<1> QED
  BY <1>3, <1>5, <1>6 DEF DeletesInv

\* The other steps change none of it, or end it.
LEMMA OthersKeepDeletes ==
  ASSUME DeletesInv, MountResource \/ ConfirmGenerated \/ GenFails \/ RunGenerated \/ FilterGenerated \/ UNCHANGED genVars
  PROVE  DeletesInv'
<1>1. DOMAIN gen = DOMAIN NotInvoked
  BY DEF DeletesInv
<1>2. DOMAIN NotInvoked = {"at", "in", "rest", "jq", "help", "confirmed", "out", "filtered"}
  BY DEF NotInvoked
<1>3. CASE MountResource
  <2>1. gen.at = "start" /\ (gen' = gen \/ gen' = [gen EXCEPT !.at = "panic"])
    BY <1>3 DEF MountResource
  <2>2. DOMAIN gen' = DOMAIN NotInvoked /\ gen'.at \in {"start", "panic"}
    BY ONLY <1>1, <1>2, <2>1
  <2> QED
    BY <2>2 DEF DeletesInv
<1>4. CASE ConfirmGenerated
  <2>1. gen.at = "confirm" /\ gen' = [gen EXCEPT !.at = "resolve", !.confirmed = TRUE]
    BY <1>4 DEF ConfirmGenerated
  <2>2. DOMAIN gen' = DOMAIN NotInvoked /\ gen'.at = "resolve" /\ gen'.confirmed /\ gen'.in = gen.in
    BY ONLY <1>1, <1>2, <2>1
  <2> QED
    BY <2>1, <2>2 DEF DeletesInv, Unasked
<1>5. CASE GenFails
  <2>1. gen' = [NotInvoked EXCEPT !.at = "failed"]
    BY <1>5 DEF GenFails
  <2>2. DOMAIN gen' = DOMAIN NotInvoked /\ gen'.at = "failed"
    BY ONLY <1>2, <2>1
  <2> QED
    BY <2>2 DEF DeletesInv
<1>6. ASSUME RunGenerated \/ FilterGenerated
      PROVE  DeletesInv'
  <2>1. \E at \in {"filter", "done"} : \E out, filtered : gen' = [gen EXCEPT !.at = at, !.out = out, !.filtered = filtered]
    <3>1. CASE RunGenerated
      <4>1. PICK at \in {"filter", "done"} : \E out : gen' = [gen EXCEPT !.at = at, !.out = out]
        BY <3>1 DEF RunGenerated
      <4>2. PICK out : gen' = [gen EXCEPT !.at = at, !.out = out]
        BY <4>1
      <4>3. [gen EXCEPT !.at = at, !.out = out] = [gen EXCEPT !.at = at, !.out = out, !.filtered = gen.filtered]
        BY ONLY <1>1, <1>2
      <4> QED
        BY ONLY <4>2, <4>3, at \in {"filter", "done"}
    <3>2. CASE FilterGenerated
      <4>1. PICK filtered : gen' = [gen EXCEPT !.at = "done", !.filtered = filtered]
        BY <3>2 DEF FilterGenerated
      <4>2. [gen EXCEPT !.at = "done", !.filtered = filtered] = [gen EXCEPT !.at = "done", !.out = gen.out, !.filtered = filtered]
        BY ONLY <1>1, <1>2
      <4> QED
        BY ONLY <4>1, <4>2
    <3> QED
      BY <1>6, <3>1, <3>2
  <2>2. gen.at \in {"run", "filter"}
    BY <1>6 DEF RunGenerated, FilterGenerated
  <2>3. /\ DOMAIN gen' = DOMAIN NotInvoked /\ gen'.at \in {"filter", "done"}
        /\ gen'.in = gen.in /\ gen'.rest = gen.rest /\ gen'.confirmed = gen.confirmed
    <3>1. PICK at \in {"filter", "done"} : \E out, filtered : gen' = [gen EXCEPT !.at = at, !.out = out, !.filtered = filtered]
      BY <2>1
    <3>2. PICK out, filtered : gen' = [gen EXCEPT !.at = at, !.out = out, !.filtered = filtered]
      BY <3>1
    <3> QED
      BY ONLY <1>1, <1>2, <3>2, at \in {"filter", "done"}
  <2>4. Unasked' => Unasked
    BY <2>3 DEF Unasked
  <2> QED
    BY <2>2, <2>3, <2>4 DEF DeletesInv
<1>7. CASE UNCHANGED genVars
  BY <1>7 DEF genVars, DeletesInv, Unasked
<1> QED
  BY <1>3, <1>4, <1>5, <1>6, <1>7

\* However its arguments are written, no operation that deletes runs before a yes.
THEOREM DeletesStayConfirmed == GenSpec => []DeletesAreConfirmed
<1>1. DeletesInv /\ [GenNext]_genVars => DeletesInv'
  BY ForwardKeepsDeletes, ResolveKeepsDeletes, OthersKeepDeletes DEF GenNext
<1>2. DeletesInv => DeletesAreConfirmed
  <2> SUFFICES ASSUME DeletesInv, Executed # "", Operations[Executed].deletes, Unasked PROVE FALSE
    BY DEF DeletesAreConfirmed, Unasked
  <2>1. gen.at \in {"run", "filter", "done"} /\ Executed = TreeRuns(gen.rest)
    BY DEF Executed
  <2> QED
    BY <2>1 DEF DeletesInv, SafeToRun
<1> QED
  BY DeletesInvStarts, <1>1, <1>2, PTL DEF GenSpec
=============================================================================
