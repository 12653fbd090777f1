------------------------------ MODULE AppsSync ------------------------------
(***************************************************************************)
(* A custom app on developers' disks and on the server: `apps init', push, *)
(* pull, list, share, claim and delete (internal/cmd/apps_*.go).           *)
(*                                                                         *)
(* A developer has one directory: all names here have the same slug, so    *)
(* init and pull of any app go to it. .langsmith/app.json, the link, says  *)
(* which app the directory is pushed to. The source archive of a push      *)
(* holds the link file as it was then (`.langsmith' is not among           *)
(* appsSourceDenyDirs), and the bundle (dist) is not in it.                *)
(*                                                                         *)
(* The server is modelled from the answers the code and its tests expect:  *)
(* names are unique in a workspace and among the apps shared with the      *)
(* organization, and an app that a workspace cannot see is a 404.          *)
(***************************************************************************)
EXTENDS Integers, FiniteSets, TLC

CONSTANTS
  Devs,        \* developers, each with a directory
  Workspaces,  \* their workspaces, all of one organization
  MaxApps,     \* bound on the apps created
  SyncBudgets  \* bounds: how often each command starts, one fails, and git copies

ASSUME MaxAppsAssumption == MaxApps \in Nat
SyncBudget == [{"init", "push", "pull", "manage", "fault", "clone"} -> Nat]

ASSUME SyncBudgetsAssumption == SyncBudgets \subseteq SyncBudget

VARIABLES
  apps,      \* the server: for each identifier the app or NoApp
  created,   \* how many identifiers are used; none is used again
  member,    \* the workspace of each developer
  tree,      \* each developer's directory
  cli,       \* the command that runs there
  left       \* what remains of the budget chosen

syncVars == <<apps, created, member, tree, cli, left>>

AppIds == 1 .. MaxApps

\* "app" and "App" differ, but not for strings.EqualFold nor as directories.
AppNames == {"app", "App"}

\* A flag, or a link's name, that is not there.
Unnamed == ""

Fold(name) == "app"

\* Source code: the app whose source it is a version of (0: none yet), and
\* whether some files of it are missing: "torn" by an extraction that was cut
\* short, "cleared" by a removal that was.
Source == [of : AppIds \cup {0}, part : {"none", "whole", "torn", "cleared"}]

NoSource == [of |-> 0, part |-> "none"]

\* A write truncates the file first: "torn" is a link that does not parse.
Link == [state : {"none", "torn", "ok"}, app : AppIds \cup {0}, name : AppNames \cup {Unnamed}]

NoLink == [state |-> "none", app |-> 0, name |-> Unnamed]

TornLink == [state |-> "torn", app |-> 0, name |-> Unnamed]

LinkTo(id, name) == [state |-> "ok", app |-> id, name |-> name]

NoApp == [tier |-> "none"]

AppRecord == [tier : {"workspace", "org"}, home : Workspaces, name : AppNames, src : Source, link : Link]

\* What the properties know of a directory besides its files: `cut', the last
\* pull into it was cut short; `half', the last one that was not brought an
\* archive pushed from such a directory; `mine', the app that its last push was
\* told it pushed to, if nothing but pushes has happened to the link since.
NoTree == [src |-> NoSource, built |-> FALSE, link |-> NoLink, cut |-> FALSE, half |-> FALSE, mine |-> 0]

TreeRecord ==
  [src : Source, built : BOOLEAN, link : Link, cut : BOOLEAN, half : BOOLEAN, mine : AppIds \cup {0}]

Idle == [cmd |-> "none", pc |-> "idle", name |-> Unnamed, app |-> 0, held |-> NoSource, link |-> NoLink]

SyncSteps == {"idle", "scaffold", "install", "build", "read", "patch", "create", "link", "relink",
          "resolve", "fetch", "confirm", "clear", "extract", "extracting", "request"}

CliRecord == [cmd : {"none", "init", "push", "pull", "share", "claim", "delete"}, pc : SyncSteps,
              name : AppNames \cup {Unnamed}, app : AppIds \cup {0}, held : Source, link : Link]

SyncTypeOK ==
  /\ apps \in [AppIds -> AppRecord \cup {NoApp}]
  /\ created \in 0 .. MaxApps
  /\ member \in [Devs -> Workspaces]
  /\ tree \in [Devs -> TreeRecord]
  /\ cli \in [Devs -> CliRecord]
  /\ left \in SyncBudget

SyncInit ==
  /\ apps = [i \in AppIds |-> NoApp]
  /\ created = 0
  /\ member \in [Devs -> Workspaces]
  /\ tree = [d \in Devs |-> NoTree]
  /\ cli = [d \in Devs |-> Idle]
  /\ left \in SyncBudgets

-----------------------------------------------------------------------------
\* The server.

Exists(i) == i \in AppIds /\ apps[i] # NoApp

Visible(d) == {i \in AppIds : Exists(i) /\ (apps[i].tier = "org" \/ apps[i].home = member[d])}

\* The names an app of tier t and workspace w may not take.
TakenNames(t, w) == {apps[i].name : i \in {j \in AppIds : /\ Exists(j) /\ apps[j].tier = t
                                                          /\ t = "org" \/ apps[j].home = w}}

\* POST of an app: a new identifier, or 409.
Publish(d, name, src, link) ==
  /\ created < MaxApps
  /\ name \notin TakenNames("workspace", member[d])
  /\ created' = created + 1
  /\ apps' = [apps EXCEPT ![created + 1] =
       [tier |-> "workspace", home |-> member[d], name |-> name, src |-> src, link |-> link]]

-----------------------------------------------------------------------------
\* Commands.

At(d, step) == cli[d].pc = step

SyncGoto(d, step) == cli' = [cli EXCEPT ![d].pc = step]

Stop(d) == cli' = [cli EXCEPT ![d] = Idle]

Spend(what) == left[what] > 0 /\ left' = [left EXCEPT ![what] = @ - 1]

BeginSync(d, cmd, step, name) ==
  /\ At(d, "idle")
  /\ Spend(IF cmd \in {"share", "claim", "delete"} THEN "manage" ELSE cmd)
  /\ cli' = [cli EXCEPT ![d] = [Idle EXCEPT !.cmd = cmd, !.pc = step, !.name = name]]

PutTree(d, record) == tree' = [tree EXCEPT ![d] = record]

\* os.WriteFile of the link: the file is emptied, then written.
TearLink(d) == PutTree(d, [tree[d] EXCEPT !.link = TornLink])

(***************************************************************************)
(* init: `force' is needed when the directory holds anything. Files of the *)
(* template replace files of the same name; the link comes last, and after *)
(* it "npm install", which may fail.                                       *)
(***************************************************************************)
Empty(d) == tree[d].src.part = "none" /\ tree[d].link.state = "none"

AppsInit(d) ==
  \E name \in AppNames, force \in BOOLEAN :
    /\ BeginSync(d, "init", IF Empty(d) \/ force THEN "scaffold" ELSE "idle", name)
    /\ UNCHANGED <<apps, created, member, tree>>

Scaffold(d) ==
  /\ At(d, "scaffold")
  /\ PutTree(d, [tree[d] EXCEPT !.src = IF @.part = "none" THEN [of |-> 0, part |-> "whole"] ELSE @])
  /\ SyncGoto(d, "link")
  /\ UNCHANGED <<apps, created, member, left>>

\* push: "npm run build" unless --no-build; without its sources it may fail.
AppsPush(d) ==
  \E name \in AppNames \cup {Unnamed}, noBuild \in BOOLEAN :
    /\ BeginSync(d, "push", IF noBuild THEN "read" ELSE "build", name)
    /\ UNCHANGED <<apps, created, member, tree>>

AppsBuild(d) ==
  /\ At(d, "build")
  /\ tree[d].src.part # "none"
  /\ PutTree(d, [tree[d] EXCEPT !.built = TRUE])
  /\ SyncGoto(d, "read")
  /\ UNCHANGED <<apps, created, member, left>>

AppsBuildFails(d) ==
  /\ At(d, "build")
  /\ tree[d].src.part # "whole"
  /\ Stop(d)
  /\ UNCHANGED <<apps, created, member, tree, left>>

\* The files of the app, which are of no use without the entrypoint.
AppFilesFound(d) == tree[d].built

\* The source archive: the source and the link as they are.
SourceArchive(d) == [held |-> tree[d].src, link |-> tree[d].link]

LinkParses(d) == tree[d].link.state # "torn"

\* The bundle, then the source archive, then the link.
ReadSources(d) ==
  /\ At(d, "read")
  /\ IF ~AppFilesFound(d) \/ ~LinkParses(d)
     THEN Stop(d)
     ELSE LET id == tree[d].link.app
          IN  cli' = [cli EXCEPT ![d].app = id, ![d].pc = IF id = 0 THEN "create" ELSE "patch",
                                ![d].held = SourceArchive(d).held, ![d].link = SourceArchive(d).link]
  /\ UNCHANGED <<apps, created, member, tree, left>>

\* PATCH by the server: new source and, if the flag is there, a new name.
PatchedName(d) == IF cli[d].name = Unnamed THEN apps[cli[d].app].name ELSE cli[d].name

MayPatch(d) ==
  LET i == cli[d].app
  IN  /\ i \in Visible(d)
      /\ \/ PatchedName(d) = apps[i].name
         \/ PatchedName(d) \notin TakenNames(apps[i].tier, apps[i].home)

Patch(d) ==
  /\ MayPatch(d)
  /\ apps' = [apps EXCEPT ![cli[d].app].src = cli[d].held, ![cli[d].app].link = cli[d].link,
                          ![cli[d].app].name = PatchedName(d)]

\* An app that is not found is created again; any other error ends the push.
UpdateAppM(d) ==
  /\ At(d, "patch")
  /\ \/ /\ Patch(d)
        /\ cli' = [cli EXCEPT ![d].pc = "link", ![d].name = PatchedName(d)]
        /\ PutTree(d, [tree[d] EXCEPT !.mine = cli[d].app])
     \/ ~MayPatch(d) /\ SyncGoto(d, "create") /\ UNCHANGED <<apps, tree>>
  /\ UNCHANGED <<created, member, left>>

UpdateApp(d) ==
  /\ At(d, "patch")
  /\ \/ /\ Patch(d)
        /\ cli' = [cli EXCEPT ![d].pc = "link", ![d].name = PatchedName(d)]
        /\ PutTree(d, [tree[d] EXCEPT !.mine = cli[d].app])
     \/ cli[d].app \notin Visible(d) /\ SyncGoto(d, "create") /\ UNCHANGED <<apps, tree>>
     \/ cli[d].app \in Visible(d) /\ ~MayPatch(d) /\ Stop(d) /\ UNCHANGED <<apps, tree>>
  /\ UNCHANGED <<created, member, left>>

\* The name is the flag's, the link's or the directory's.
NewName(d) ==
  IF cli[d].name # Unnamed THEN cli[d].name
  ELSE IF cli[d].link.name # Unnamed THEN cli[d].link.name ELSE "app"

\* A name that is taken (409) ends the push.
CreateApp(d) ==
  /\ At(d, "create")
  /\ \/ /\ Publish(d, NewName(d), cli[d].held, cli[d].link)
        /\ cli' = [cli EXCEPT ![d].pc = "link", ![d].name = NewName(d), ![d].app = created + 1]
        /\ PutTree(d, [tree[d] EXCEPT !.mine = created + 1])
     \/ /\ NewName(d) \in TakenNames("workspace", member[d])
        /\ Stop(d)
        /\ UNCHANGED <<apps, created, tree>>
  /\ UNCHANGED <<member, left>>

\* writeAppLink, the last step of init, push and pull.
WriteLink(d) ==
  /\ \/ At(d, "link") /\ TearLink(d) /\ SyncGoto(d, "relink")
     \/ /\ At(d, "relink")
        /\ LET r == cli[d]
           IN  /\ PutTree(d, [tree[d] EXCEPT !.link = LinkTo(r.app, r.name),
                                         !.cut = @ /\ r.cmd # "pull",
                                         !.src.of = IF r.app = 0 THEN @ ELSE r.app,
                                         !.mine = IF r.cmd = "push" THEN @ ELSE 0])
               /\ IF r.cmd = "init" THEN SyncGoto(d, "install") ELSE Stop(d)
  /\ UNCHANGED <<apps, created, member, left>>

\* "npm install": init ends, whether or not it succeeds.
InstallDeps(d) == At(d, "install") /\ Stop(d) /\ UNCHANGED <<apps, created, member, tree, left>>

(***************************************************************************)
(* The app an argument names: in the order of the tiers searched, first    *)
(* an equal name, then one that differs only in case; or an identifier.    *)
(***************************************************************************)
ResolveCustomApp(d, arg, scopes) ==
  LET tiered(t) == {i \in Visible(d) : apps[i].tier = t /\ t \in scopes}
      exact(t) == {i \in tiered(t) : apps[i].name = arg}
      folded(t) == {i \in tiered(t) : Fold(apps[i].name) = Fold(arg)}
      order == <<exact("workspace"), exact("org"), folded("workspace"), folded("org")>>
      hits == {k \in DOMAIN order : order[k] # {}}
  IN  IF hits = {} THEN {} ELSE order[CHOOSE k \in hits : \A l \in hits : k <= l]

ByIdentifier(d, id, scopes) == {i \in Visible(d) : i = id /\ apps[i].tier \in scopes}

\* pull --scope, claim among the shared apps only, share and delete.
StartOnServer(d) ==
  \E cmd \in {"pull", "share", "claim", "delete"} :
    /\ BeginSync(d, cmd, "resolve", Unnamed)
    /\ UNCHANGED <<apps, created, member, tree>>

Tiers == {"workspace", "org"}

Scopes(cmd) == IF cmd = "pull" THEN {{"workspace"}, {"org"}, Tiers}
               ELSE IF cmd = "claim" THEN {{"org"}} ELSE {Tiers}

ResolveApp(d) ==
  /\ At(d, "resolve")
  /\ \E scopes \in Scopes(cli[d].cmd) :
       LET found == (UNION {ResolveCustomApp(d, arg, scopes) : arg \in AppNames})
                    \cup (UNION {ByIdentifier(d, id, scopes) : id \in AppIds})
           refused(i) == cli[d].cmd = "share" /\ apps[i].tier = "org"
       IN  \/ \E i \in {j \in found : ~refused(j)} :
                cli' = [cli EXCEPT ![d].pc = IF cli[d].cmd = "pull" THEN "fetch" ELSE "request",
                                   ![d].app = i, ![d].name = apps[i].name]
           \/ (found = {} \/ \E i \in found : refused(i)) /\ Stop(d)
  /\ UNCHANGED <<apps, created, member, tree, left>>

(***************************************************************************)
(* pull, from the download of the archive on. The directory is cleared     *)
(* before the archive is looked at.                                        *)
(***************************************************************************)
FetchSource(d) ==
  /\ At(d, "fetch")
  /\ LET i == cli[d].app
     IN  IF i \in Visible(d)
         THEN cli' = [cli EXCEPT ![d].pc = "confirm", ![d].held = apps[i].src, ![d].link = apps[i].link]
         ELSE Stop(d)
  /\ UNCHANGED <<apps, created, member, tree, left>>

\* --force or a yes; no is an end.
ConfirmReplace(d) ==
  /\ At(d, "confirm")
  /\ \/ SyncGoto(d, "clear")
     \/ ~Empty(d) /\ Stop(d)
  /\ UNCHANGED <<apps, created, member, tree, left>>

\* RemoveAll may be cut short after any of the files.
ClearDirectory(d) ==
  /\ At(d, "clear")
  /\ \/ PutTree(d, NoTree) /\ SyncGoto(d, "extract")
     \/ /\ ~Empty(d) /\ tree[d].src.part # "cleared"
        /\ \E linkGone, distGone \in BOOLEAN :
             PutTree(d, [tree[d] EXCEPT !.src.part = IF @ = "none" THEN @ ELSE "cleared",
                                    !.link = IF linkGone THEN NoLink ELSE @,
                                    !.built = @ /\ ~distGone, !.mine = 0])
        /\ UNCHANGED cli
  /\ UNCHANGED <<apps, created, member, left>>

\* Entries are in the order of their names: the archived link is first.
ExtractArchive(d) ==
  LET whole == [tree[d] EXCEPT !.src = [of |-> cli[d].app, part |-> cli[d].held.part],
                               !.half = cli[d].held.part = "torn"]
  IN  /\ \/ /\ At(d, "extract")
            /\ PutTree(d, [tree[d] EXCEPT !.link = cli[d].link, !.cut = TRUE,
                                      !.src = [of |-> cli[d].app, part |-> "torn"]])
            /\ SyncGoto(d, "extracting")
         \/ At(d, "extracting") /\ PutTree(d, whole) /\ SyncGoto(d, "link")
      /\ UNCHANGED <<apps, created, member, left>>

-----------------------------------------------------------------------------
\* The requests of share, claim and delete.

ShareApp(d) ==
  /\ At(d, "request") /\ cli[d].cmd = "share"
  /\ LET i == cli[d].app
     IN  IF i \in Visible(d) /\ apps[i].tier = "workspace" /\ apps[i].name \notin TakenNames("org", member[d])
         THEN apps' = [apps EXCEPT ![i].tier = "org"]
         ELSE UNCHANGED apps
  /\ Stop(d)
  /\ UNCHANGED <<created, member, tree, left>>

\* claim copies a shared app under its name, or under --as; its source goes
\* with it, and the link in it.
ClaimApp(d) ==
  /\ At(d, "request") /\ cli[d].cmd = "claim"
  /\ \E as \in AppNames \cup {Unnamed} :
       LET i == cli[d].app
           name == IF as = Unnamed THEN cli[d].name ELSE as
       IN  \/ i \in Visible(d) /\ Publish(d, name, apps[i].src, apps[i].link)
           \/ /\ i \notin Visible(d) \/ name \in TakenNames("workspace", member[d])
              /\ UNCHANGED <<apps, created>>
  /\ Stop(d)
  /\ UNCHANGED <<member, tree, left>>

\* After --yes or a yes; an app of the organization is not deleted here.
DeleteApp(d) ==
  /\ At(d, "request") /\ cli[d].cmd = "delete"
  /\ LET i == cli[d].app
     IN  \/ i \in Visible(d) /\ apps[i].tier = "workspace" /\ apps' = [apps EXCEPT ![i] = NoApp]
         \/ UNCHANGED apps
  /\ Stop(d)
  /\ UNCHANGED <<created, member, tree, left>>

-----------------------------------------------------------------------------
\* What goes wrong.

\* A request whose answer is lost ends the command, done or not.
LoseAnswer(d) ==
  /\ Spend("fault")
  /\ \/ At(d, "patch") /\ Patch(d) /\ UNCHANGED created
     \/ At(d, "create") /\ Publish(d, NewName(d), cli[d].held, cli[d].link)
  /\ Stop(d)
  /\ UNCHANGED <<member, tree>>

\* A kill, a full disk or a request that fails leaves everything where it is.
Interrupt(d) ==
  /\ cli[d].pc # "idle"
  /\ Spend("fault")
  /\ Stop(d)
  /\ PutTree(d, [tree[d] EXCEPT !.mine = IF cli[d].pc \in {"link", "relink"} THEN 0 ELSE @])
  /\ UNCHANGED <<apps, created, member>>

\* The directory is committed and checked out by a teammate; dist is not.
CloneDirectory(d, e) ==
  /\ d # e /\ At(d, "idle") /\ At(e, "idle")
  /\ Spend("clone")
  /\ tree' = [tree EXCEPT ![e] = [tree[d] EXCEPT !.built = FALSE, !.mine = 0]]
  /\ cli' = [cli EXCEPT ![e] = Idle]
  /\ UNCHANGED <<apps, created, member>>

CommandStep(d) ==
  \/ AppsInit(d) \/ Scaffold(d) \/ InstallDeps(d)
  \/ AppsPush(d) \/ AppsBuild(d) \/ AppsBuildFails(d) \/ ReadSources(d) \/ UpdateApp(d) \/ CreateApp(d)
  \/ WriteLink(d)
  \/ StartOnServer(d) \/ ResolveApp(d)
  \/ FetchSource(d) \/ ConfirmReplace(d) \/ ClearDirectory(d) \/ ExtractArchive(d)
  \/ ShareApp(d) \/ ClaimApp(d) \/ DeleteApp(d)

SyncNext ==
  \/ \E d \in Devs : CommandStep(d) \/ LoseAnswer(d) \/ Interrupt(d)
  \/ \E d, e \in Devs : CloneDirectory(d, e)

SyncSpec == SyncInit /\ [][SyncNext]_syncVars

-----------------------------------------------------------------------------
\* Properties.

\* d's command overwrites the source of app i with that of no other app, unless
\* a pull was interrupted where it comes from: then the link that was in the
\* archive decides. And not with half of an archive, unless that pull or the push
\* of what was pulled left only half.
OverwritesOwn(i) ==
  LET src == apps'[i].src
  IN  Exists(i) /\ apps'[i] # NoApp /\ src # apps[i].src =>
        \E d \in Devs :
          /\ At(d, "patch") /\ cli[d].app = i
          /\ src.of \in {0, i} \/ tree[d].cut
          /\ src.part = "torn" => tree[d].cut \/ tree[d].half

(***************************************************************************)
(* An app is only ever overwritten by a version of itself or by code that  *)
(* was no app's before; and a push from where the last push succeeded goes *)
(* on to create an app only if the earlier one is not there for this       *)
(* workspace at that time. An error of another kind, or a link that was    *)
(* not brought up to date, must not leave two (apps_archive.go,            *)
(* apps_pull.go, apps_push.go).                                            *)
(***************************************************************************)
AppsStayApart == [][
  /\ \A i \in AppIds : OverwritesOwn(i)
  /\ \A d \in Devs :
       At(d, "read") \/ At(d, "patch") =>
         (cli'[d].pc = "create" => tree[d].mine \notin Visible(d))
  ]_syncVars
=============================================================================
