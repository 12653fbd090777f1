----------------------------- MODULE SelfUpdate -----------------------------
(***************************************************************************)
(* `self-update' (internal/cmd/update.go): find out who installed the      *)
(* running binary, ask GitHub for the latest release, download and verify  *)
(* its archive and rename the binary in it over the running one, while the *)
(* user installs by other means and other updates run.                     *)
(*                                                                         *)
(* GitHub is not part of the repository: a release appears at any time,    *)
(* and what is downloaded may be damaged or missing.                       *)
(***************************************************************************)
EXTENDS InstallMethod

CONSTANTS
  Updaters,    \* processes that run self-update
  MaxRelease,  \* bound on the releases published
  Starts,      \* the machines considered, and how many installs each may see
  LossyClose   \* closing a file may fail to write what it still buffers

ASSUME MaxReleaseAssumption == MaxRelease \in Nat \ {0}
ASSUME LossyCloseAssumption == LossyClose \in BOOLEAN

VARIABLES
  released,  \* the latest release
  installs,  \* how many more times the user installs something
  update     \* each run of self-update

vars == <<installVars, released, installs, update>>

Start == [windows: BOOLEAN, lock: BOOLEAN, custom: BOOLEAN, installs: Nat, runs: SUBSET Updaters]

ASSUME StartsAssumption == Starts \subseteq Start

\* archive: the archive is what was published; sums: what checksums.txt lists
\* for it; new: the binary taken out of the archive; temp: the temporary file
\* next to the running binary.
Waiting == [pc |-> "idle", path |-> "none", force |-> FALSE, current |-> 0, latest |-> 0,
            archive |-> FALSE, sums |-> "none", new |-> NoBinary, temp |-> NoBinary, result |-> ""]

Init ==
  /\ \E s \in Starts :
       /\ InstallInit([windows |-> s.windows, lock |-> s.lock, custom |-> s.custom])
       /\ installs = s.installs
       /\ update = [u \in Updaters |-> IF u \in s.runs THEN Waiting ELSE [Waiting EXCEPT !.pc = "ended"]]
  /\ released = 1

-----------------------------------------------------------------------------
\* Around self-update.

NewRelease ==
  /\ released < MaxRelease
  /\ released' = released + 1
  /\ UNCHANGED <<installVars, installs, update>>

Built(build) == {[release |-> r, build |-> build, whole |-> TRUE] : r \in 1 .. released}

\* A wheel may hold the binary of the release's archive.
UserInstalls ==
  /\ installs > 0
  /\ installs' = installs - 1
  /\ \/ \E site \in Sites, installer \in {"pip", "uv", "unknown"}, entry \in Paths,
          binary \in Built("wheel") \cup Built("archive") :
          WheelInstall(site, installer, binary, entry)
     \/ \E site \in Sites : WheelUninstall(site)
     \/ \E path \in Paths, release \in 1 .. released : InstallBinary(path, release)
     \/ \E path \in Paths, release \in 1 .. released : OtherInstall(path, release)
     \/ \E path \in Paths \ {"tools"} : files[path] # NoBinary /\ CopyByHand(files[path])
     \/ CopyByHand([release |-> 0, build |-> "source", whole |-> TRUE])
  /\ UNCHANGED <<released, update>>

-----------------------------------------------------------------------------
\* runUpdate.

Become(u, record) == update' = [update EXCEPT ![u] = record]

Goto(u, step) == Become(u, [update[u] EXCEPT !.pc = step])

\* A return runs the deferred removals of the files in the temporary directory;
\* replaceBinary removes its own.
End(u, how) == Become(u, [update[u] EXCEPT !.pc = "ended", !.result = how,
                                           !.new = NoBinary, !.temp = NoBinary])

Elsewhere == UNCHANGED <<installVars, released, installs>>

\* The binary that runs is the one at the path, and knows its own version.
StartUpdate(u, path, force) ==
  LET method == DetectInstallMethod(path)
      begun == [update[u] EXCEPT !.path = path, !.force = force,
                                 !.current = files[path].release]
  IN /\ update[u].pc = "idle" /\ files[path].whole
     /\ \/ method = "dev" /\ Become(u, [begun EXCEPT !.pc = "ended", !.result = "dev"])
        \/ /\ ExternallyManaged(method) /\ ~force
           /\ Become(u, [begun EXCEPT !.pc = "ended", !.result = "managed-externally"])
        \/ /\ method = "managed" \/ (ExternallyManaged(method) /\ force)
           /\ Become(u, [begun EXCEPT !.pc = "check"])
     /\ Elsewhere

FailsM(u) ==
  /\ update[u].pc \in {"check", "archive", "sums", "extract", "create", "fill", "rename"}
  /\ Become(u, [update[u] EXCEPT !.pc = "ended", !.result = "error", !.new = NoBinary])
  /\ Elsewhere

\* GitHub, the network or the disk fail; so do the checks of what is there.
Fails(u) ==
  /\ update[u].pc \in {"check", "archive", "sums", "extract", "create", "fill", "rename"}
  /\ End(u, "error")
  /\ Elsewhere

UpToDateM(current, latest) == current > latest

\* compareVersions.
UpToDate(current, latest) == current >= latest

\* dryRun stops at the comparison.
CheckLatest(u, dryRun) ==
  /\ update[u].pc = "check"
  /\ LET checked == [update[u] EXCEPT !.latest = released]
         newer == ~UpToDate(update[u].current, released)
     IN \/ ~newer /\ Become(u, [checked EXCEPT !.pc = "ended", !.result = "up-to-date"])
        \/ /\ newer /\ dryRun
           /\ Become(u, [checked EXCEPT !.pc = "ended", !.result = "update-available"])
        \/ newer /\ ~dryRun /\ Become(u, [checked EXCEPT !.pc = "archive"])
  /\ Elsewhere

DownloadArchive(u, good) ==
  /\ update[u].pc = "archive"
  /\ Become(u, [update[u] EXCEPT !.pc = "sums", !.archive = good])
  /\ Elsewhere

DownloadChecksums(u, sums) ==
  /\ update[u].pc = "sums"
  /\ Become(u, [update[u] EXCEPT !.pc = "verify", !.sums = sums])
  /\ Elsewhere

VerifiedM(u) == update[u].sums \in {"lists", "lacks"} => update[u].archive

\* checksums.txt lists the archive with the hash of what was downloaded.
Verified(u) == update[u].sums = "lists" /\ update[u].archive

VerifyChecksum(u) ==
  /\ update[u].pc = "verify"
  /\ IF Verified(u) THEN Goto(u, "extract") ELSE End(u, "error")
  /\ Elsewhere

\* What a file holds once it is closed; Close's error is not looked at.
Closed(binary) == {binary} \cup IF LossyClose THEN {[binary EXCEPT !.whole = FALSE]} ELSE {}

ExtractBinary(u) ==
  /\ update[u].pc = "extract"
  /\ \E binary \in Closed([release |-> update[u].latest, build |-> "archive",
                           whole |-> update[u].archive]) :
       Become(u, [update[u] EXCEPT !.pc = "stat", !.new = binary])
  /\ Elsewhere

StatTarget(u) ==
  /\ update[u].pc = "stat"
  /\ IF files[update[u].path] = NoBinary THEN End(u, "error") ELSE Goto(u, "create")
  /\ Elsewhere

CreateTemp(u) ==
  /\ update[u].pc = "create"
  /\ Become(u, [update[u] EXCEPT !.pc = "fill", !.temp = [update[u].new EXCEPT !.whole = FALSE]])
  /\ Elsewhere

\* The copy is closed without a look at Close's error, then made executable.
FillTemp(u) ==
  /\ update[u].pc = "fill"
  /\ \E binary \in Closed(update[u].new) :
       Become(u, [update[u] EXCEPT !.pc = "rename", !.temp = binary])
  /\ Elsewhere

\* Whatever is at the path by now is replaced.
Rename(u) ==
  /\ update[u].pc = "rename"
  /\ Put(update[u].path, update[u].temp, "release")
  /\ End(u, "updated")
  /\ UNCHANGED <<released, installs>>

\* What a killed process leaves behind stays.
Kill(u) ==
  /\ update[u].pc \notin {"idle", "ended", "killed"}
  /\ Goto(u, "killed")
  /\ Elsewhere

Step(u) ==
  \/ \E path \in Paths, force \in BOOLEAN : StartUpdate(u, path, force)
  \/ \E dryRun \in BOOLEAN : CheckLatest(u, dryRun)
  \/ \E good \in BOOLEAN : DownloadArchive(u, good)
  \/ \E sums \in {"lists", "other", "lacks"} : DownloadChecksums(u, sums)
  \/ VerifyChecksum(u)
  \/ ExtractBinary(u)
  \/ StatTarget(u)
  \/ CreateTemp(u)
  \/ FillTemp(u)
  \/ Rename(u)
  \/ Fails(u)
  \/ Kill(u)

Next ==
  \/ NewRelease
  \/ UserInstalls
  \/ \E u \in Updaters : Step(u)

Spec == Init /\ [][Next]_vars

-----------------------------------------------------------------------------
Steps == {"idle", "check", "archive", "sums", "verify", "extract", "stat", "create", "fill",
          "rename", "ended", "killed"}

Running == [pc: Steps, path: Paths \cup {"none"}, force: BOOLEAN, current: Nat, latest: Nat,
            archive: BOOLEAN, sums: {"none", "lists", "other", "lacks"},
            new: Binary \cup {NoBinary}, temp: Binary \cup {NoBinary},
            result: {"", "dev", "managed-externally", "up-to-date", "update-available",
                     "updated", "error"}]

\* The types; and a run of self-update that was not killed has removed its
\* temporary file, whatever made it end.
UpdateTypeOK ==
  /\ host \in [windows: BOOLEAN, lock: BOOLEAN, custom: BOOLEAN]
  /\ files \in [Paths -> Binary \cup {NoBinary}]
  /\ wheels \in [Sites -> Wheel \cup {NoWheel}]
  /\ receipt \in Paths \cup {"none"}
  /\ owner \in [Paths -> Sites \cup {"cellar", "gobin", "release", "none"}]
  /\ released \in Nat /\ installs \in Nat
  /\ update \in [Updaters -> Running]
  /\ \A u \in Updaters : /\ update[u].pc \notin {"idle", "ended"} => update[u].path \in Paths
                        /\ update[u].pc = "ended" => update[u].temp = NoBinary

\* replaceBinary "atomically replaces the target binary with the new one": no
\* failure, kill, damaged download or other update leaves half a binary.
BinaryIsWhole == \A p \in Paths : files[p] # NoBinary => files[p].whole

\* What an update renames over a binary is the release it found to be newer than
\* itself, out of an archive that checksums.txt vouches for.
InstalledIsVerified ==
  [][\A u \in Updaters :
       update'[u].result = "updated" /\ update[u].result # "updated" =>
         /\ files'[update[u].path].release = update[u].latest
         /\ update[u].latest > update[u].current
         /\ update[u].latest <= released
         /\ update[u].archive /\ update[u].sums = "lists"]_vars

\* The bytes at a path are those of a wheel that a tool would put there, or the
\* wheel cannot tell.
LooksLike(p, site) ==
  wheels[site].hash = files[p] \/ (wheels[site].hash = NoBinary /\ p = Script(site))

\* The way to upgrade that self-update picks reaches the binary: it is that of
\* who put the binary there, unless the bytes cannot be told from those of a
\* wheel; and self-update replaces only what no package manager put there.
UpgradeReachesBinary ==
  \A p \in Paths : files[p] # NoBinary =>
    \/ UpdateReaches(p) = owner[p]
    \/ UpdateReaches(p) \in Sites /\ Installed(UpdateReaches(p)) /\ LooksLike(p, UpdateReaches(p))
    \/ UpdateReaches(p) = p
=============================================================================
