----------------------------- MODULE Sandboxes ------------------------------
(***************************************************************************)
(* Sandboxes and snapshots on the server and the commands on them:         *)
(* internal/cmd/sandbox_box.go, sandbox_snapshot.go, sandbox_tunnel.go,    *)
(* and the start of a console (sandbox_console.go).                        *)
(*                                                                         *)
(* A sandbox is addressed by its name; a name can be deleted and used      *)
(* again, which is another life. A command checks its flags, makes its     *)
(* request, and then `start' and `create --console' poll until the sandbox *)
(* is ready.                                                               *)
(***************************************************************************)
EXTENDS Integers, FiniteSets

CONSTANTS
  BoxNames,   \* names of sandboxes
  Runs,       \* runs of commands
  MaxLives,   \* bound on the sandboxes created
  BoxInputs   \* what the commands are given

ASSUME LivesAssumption == MaxLives \in Nat

VARIABLES
  boxes,   \* for each name its sandbox or NoBox
  lives,   \* how many sandboxes were created
  snaps,   \* for each name:tag the life its snapshot was captured from, FromImage or 0
  building, \* the tags of snapshots that are being built
  cmds     \* each run

boxVars == <<boxes, lives, snaps, building, cmds>>

SnapTags == {"latest", "v2"}

FromImage == MaxLives + 1

NoBox == [status |-> "absent", life |-> 0]

Unset == "unset"

\* What a size flag holds for parseByteSize: a number and a unit, in MiB as a
\* power of two (a size without a unit, or of an unknown one, is "no unit").
SizeFlags == {Unset, "4gb", "1kb", "2048tb", "12"}

MiBExponent == [s \in {"4gb", "1kb", "2048tb"} |-> CASE s = "4gb" -> 12 [] s = "1kb" -> -10 [] s = "2048tb" -> 31]

\* At least 1 MiB, at most 1 PiB.
ParseByteSizeFails(s) == s \notin DOMAIN MiBExponent \/ MiBExponent[s] < 0 \/ MiBExponent[s] > 30

SizeFlagFails(s) == s # Unset /\ ParseByteSizeFails(s)

NoName == ""

NotStartedYet == [pc |-> "start", name |-> NoName, opens |-> FALSE, met |-> {}]

BoxInit ==
  /\ boxes = [n \in BoxNames |-> NoBox]
  /\ lives = 0
  /\ snaps = [t \in SnapTags |-> 0]
  /\ building = {}
  /\ cmds = [r \in Runs |-> NotStartedYet]

-----------------------------------------------------------------------------
\* The server. A sandbox that is started is provisioned, and becomes ready or fails.

BoxExists(n) == n \in BoxNames /\ boxes[n].status # "absent"

\* Which runs have asked for this sandbox, by name, and not ended.
Polling(n) == {r \in Runs : cmds[r].pc = "poll" /\ cmds[r].name = n}

Provisioned(n) ==
  /\ boxes[n].status = "provisioning"
  /\ \E status \in {"ready", "failed"} :
       /\ boxes' = [boxes EXCEPT ![n].status = status]
       /\ cmds' = [r \in Runs |-> IF r \in Polling(n) THEN [cmds[r] EXCEPT !.met = @ \cup {status}] ELSE cmds[r]]
  /\ UNCHANGED <<lives, snaps, building>>

-----------------------------------------------------------------------------
\* What the flags are checked for before a request is made.

ServiceURLFails(in) ==
  \/ in.port \notin 1 .. 65535
  \/ in.expires # Unset /\ in.expires = "0"
  \/ in.access # Unset /\ in.access \notin {"restricted", "workspace"}
  \/ in.expires # Unset /\ in.access # Unset

DownloadURLFails(in) ==
  \/ in.expires # Unset /\ in.expires = "0"
  \/ in.disposition \notin {Unset, "attachment", "inline"}

CreateFails(in) ==
  \/ in.snapshot # Unset /\ in.snapshotId # Unset
  \/ \E size \in {in.memory, in.rootfs} : SizeFlagFails(size)
  \/ in.proxy = "bad json"
  \/ in.delegate /\ in.permissions # {}

UpdateFails(in) ==
  \/ \E size \in {in.memory, in.rootfs} : SizeFlagFails(size)
  \/ in.proxy = "bad json"
  \/ {in.memory, in.rootfs, in.proxy, in.vcpus} = {Unset}

\* --capacity has a default.
BuildFails(in) == in.image = Unset \/ ParseByteSizeFails(in.capacity)

TunnelFails(in) == in.port \notin 1 .. 65535 \/ in.localPort \notin 0 .. 65535

\* sandboxConsoleEnvFrom: every KEY of --env must be set here. With
\* --forward-ssh-agent SSH_AUTH_SOCK must be.
ConsoleFails(in) == "" \in in.env \/ in.env \ in.local # {} \/ (in.forward /\ "SSH_AUTH_SOCK" \notin in.local)

-----------------------------------------------------------------------------
\* Commands.

EndRun(r, outcome) == cmds' = [cmds EXCEPT ![r] = [NotStartedYet EXCEPT !.pc = outcome]]

Begins(r, in, cmd) == cmds[r].pc = "start" /\ in.cmd = cmd

\* A refused flag, credentials that do not resolve, or a request that fails.
Refused(r) ==
  /\ cmds[r].pc = "start"
  /\ EndRun(r, "failed")
  /\ UNCHANGED <<boxes, lives, snaps, building>>

\* The new sandbox has the name the server answers, which without an argument
\* it makes up. What --console is given is looked at only when it opens.
Create(r, in) ==
  /\ Begins(r, in, "create") /\ ~CreateFails(in) /\ lives < MaxLives
  /\ \E n \in BoxNames :
       /\ in.name \in {NoName, n} /\ ~BoxExists(n)
       /\ boxes' = [boxes EXCEPT ![n] = [status |-> "provisioning", life |-> lives + 1]]
       /\ IF in.console
          THEN cmds' = [cmds EXCEPT ![r] = [pc |-> "poll", name |-> n, opens |-> ~ConsoleFails(in), met |-> {"provisioning"}]]
          ELSE EndRun(r, "done")
  /\ lives' = lives + 1
  /\ UNCHANGED <<snaps, building>>

StartBox(r, in) ==
  /\ Begins(r, in, "start") /\ BoxExists(in.name)
  /\ LET status == IF boxes[in.name].status = "ready" THEN "ready" ELSE "provisioning"
     IN  /\ boxes' = [boxes EXCEPT ![in.name].status = status]
         /\ cmds' = [cmds EXCEPT ![r] = [pc |-> "poll", name |-> in.name, opens |-> FALSE, met |-> {status}]]
  /\ UNCHANGED <<lives, snaps, building>>

\* waitForBoxReady: a status that is neither "ready" nor "failed" is asked for
\* again after two seconds, without end; a sandbox that is gone is an error.
PollBoxM(r) ==
  /\ cmds[r].pc = "poll"
  /\ LET status == boxes[cmds[r].name].status
     IN  \/ status \notin {"failed", "absent"} /\ cmds' = [cmds EXCEPT ![r].pc = "ready"]
         \/ status \in {"failed", "absent"} /\ EndRun(r, "failed")
  /\ UNCHANGED <<boxes, lives, snaps, building>>

PollBox(r) ==
  /\ cmds[r].pc = "poll"
  /\ LET status == boxes[cmds[r].name].status
     IN  \/ status = "ready" /\ cmds' = [cmds EXCEPT ![r].pc = "ready"]
         \/ status \in {"failed", "absent"} /\ EndRun(r, "failed")
  /\ UNCHANGED <<boxes, lives, snaps, building>>

\* After the wait `start' is done; `create --console' opens the console, unless
\* its environment cannot be put together or the sandbox stopped meanwhile.
AfterWait(r) ==
  /\ cmds[r].pc = "ready"
  /\ EndRun(r, IF cmds[r].opens /\ boxes[cmds[r].name].status = "ready" THEN "console" ELSE "done")
  /\ UNCHANGED <<boxes, lives, snaps, building>>

\* One request about a sandbox that is there: the server may wake one that is
\* stopped, or answer with an error (Refused).
Requests(r, in, cmd) ==
  /\ Begins(r, in, cmd) /\ BoxExists(in.name)
  /\ EndRun(r, "done")
  /\ UNCHANGED <<boxes, lives, snaps, building>>

OpenConsole(r, in) == ~ConsoleFails(in) /\ Requests(r, in, "console")

\* The exit code of the command becomes that of the process.
Exec(r, in) == in.command # <<>> /\ Requests(r, in, "exec")

\* The lookup comes before the ports are checked, and not at all with --url.
Tunnel(r, in) == ~TunnelFails(in) /\ Requests(r, in, "tunnel")

ServiceURL(r, in) == ~ServiceURLFails(in) /\ Requests(r, in, "service-url")

DownloadURL(r, in) == ~DownloadURLFails(in) /\ Requests(r, in, "download-url")

\* `update' changes its size, its proxy or when it stops by itself, not whether it is ready.
UpdateBox(r, in) ==
  /\ Begins(r, in, "update") /\ ~UpdateFails(in) /\ BoxExists(in.name)
  /\ EndRun(r, "done")
  /\ UNCHANGED <<boxes, lives, snaps, building>>

StopBox(r, in) ==
  /\ Begins(r, in, "stop") /\ BoxExists(in.name)
  /\ boxes' = [boxes EXCEPT ![in.name].status = "stopped"]
  /\ EndRun(r, "done")
  /\ UNCHANGED <<lives, snaps, building>>

DeleteBox(r, in) ==
  /\ Begins(r, in, "delete") /\ BoxExists(in.name)
  /\ boxes' = [boxes EXCEPT ![in.name] = NoBox]
  /\ EndRun(r, "done")
  /\ UNCHANGED <<lives, snaps, building>>

\* splitSnapshotRef: a name without a tag.
TagOf(in, default) == IF in.tag = "" THEN default ELSE in.tag

\* A tag moves to the snapshot that is published over it.
CaptureSnapshot(r, in) ==
  /\ Begins(r, in, "capture") /\ BoxExists(in.name)
  /\ snaps' = [snaps EXCEPT ![TagOf(in, "latest")] = boxes[in.name].life]
  /\ EndRun(r, "done")
  /\ UNCHANGED <<boxes, lives, building>>

\* The default is the tag of the image; it is applied when the build finishes.
BuildSnapshot(r, in) ==
  /\ Begins(r, in, "build") /\ ~BuildFails(in)
  /\ building' = building \cup {TagOf(in, in.image)}
  /\ EndRun(r, "done")
  /\ UNCHANGED <<boxes, lives, snaps>>

SnapshotBuilt(tag) ==
  /\ tag \in building
  /\ building' = building \ {tag}
  /\ snaps' = [snaps EXCEPT ![tag] = FromImage]
  /\ UNCHANGED <<boxes, lives, cmds>>

DeleteSnapshot(r, in) ==
  /\ Begins(r, in, "delete snapshot") /\ snaps[TagOf(in, "latest")] # 0
  /\ snaps' = [snaps EXCEPT ![TagOf(in, "latest")] = 0]
  /\ EndRun(r, "done")
  /\ UNCHANGED <<boxes, lives, building>>

BoxNext ==
  \/ \E n \in BoxNames : Provisioned(n)
  \/ \E tag \in SnapTags : SnapshotBuilt(tag)
  \/ \E r \in Runs : Refused(r) \/ PollBox(r) \/ AfterWait(r)
  \/ \E r \in Runs, in \in BoxInputs :
       \/ Create(r, in) \/ StartBox(r, in) \/ UpdateBox(r, in) \/ StopBox(r, in) \/ DeleteBox(r, in)
       \/ OpenConsole(r, in) \/ Exec(r, in) \/ Tunnel(r, in) \/ ServiceURL(r, in) \/ DownloadURL(r, in)
       \/ CaptureSnapshot(r, in) \/ BuildSnapshot(r, in) \/ DeleteSnapshot(r, in)

BoxSpec == BoxInit /\ [][BoxNext]_boxVars

-----------------------------------------------------------------------------
\* Properties.

BoxTypeOK ==
  /\ boxes \in [BoxNames -> [status : {"absent", "provisioning", "ready", "failed", "stopped"}, life : 0 .. MaxLives]]
  /\ lives \in 0 .. MaxLives
  /\ snaps \in [SnapTags -> 0 .. FromImage] /\ building \subseteq SnapTags
  /\ cmds \in [Runs -> [pc : {"start", "poll", "ready", "done", "console", "failed"}, name : BoxNames \cup {""},
                        opens : BOOLEAN, met : SUBSET {"provisioning", "ready", "failed"}]]

(***************************************************************************)
(* When `start' or `create --console' goes on, the sandbox of that name    *)
(* has been ready at some time since the command's own request, whatever   *)
(* others did to it meanwhile (waitForBoxReady).                           *)
(***************************************************************************)
ReadyWasMet == \A r \in Runs : cmds[r].pc = "ready" => "ready" \in cmds[r].met
=============================================================================
