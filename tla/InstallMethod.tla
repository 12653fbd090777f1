--------------------------- MODULE InstallMethod ---------------------------
(***************************************************************************)
(* How a langsmith binary got where it is, and how `self-update' finds out *)
(* (internal/cmd/wheel_install.go, internal/cmd/install_method.go).        *)
(*                                                                         *)
(* The package managers are not part of the repository; what they leave on *)
(* disk is modelled as findWheelInstall expects it: a wheel's RECORD lists *)
(* its script with the hash of its bytes, and on Windows pipx and uv copy  *)
(* the script to their bin directory.                                      *)
(***************************************************************************)
EXTENDS Naturals

VARIABLES
  host,     \* the machine: Windows, a uv.lock next to the venv, PIPX_HOME and
            \* UV_TOOL_DIR set to directories of the user's
  files,    \* the binary at each path
  wheels,   \* the wheel in each site-packages
  receipt,  \* the path uv-receipt.toml lists
  owner     \* who put the binary at each path

installVars == <<host, files, wheels, receipt, owner>>

\* A site-packages: the user site, a project's venv, pipx's venv and uv's.
Sites == {"user", "venv", "pipx", "uv"}

\* ~/.local/bin is install.sh's and pip --user's, and the bin directory of pipx
\* and of uv; "once" is a one-off UV_TOOL_BIN_DIR, "tools" any other place.
Paths == {"local", "venv", "pipx", "uv", "once", "tools", "cellar", "gobin"}

Script(site) == IF site = "user" THEN "local" ELSE site

\* A binary is known by its release, 0 for a development build, and by who
\* built it: the wheel of a release need not hold the bytes of its archive.
NoBinary == [release |-> 0, build |-> "none", whole |-> FALSE]
Binary == [release: Nat, build: {"archive", "wheel", "source"}, whole: BOOLEAN]

\* hash is NoBinary if the RECORD has no hash for the script.
NoWheel == [installer |-> "none", hash |-> NoBinary]
Wheel == [installer: {"pip", "uv", "unknown"}, hash: Binary \cup {NoBinary}]

Installed(site) == wheels[site] # NoWheel

-----------------------------------------------------------------------------
\* findWheelInstall.

RecordListsFileM(site, path, byName) ==
  /\ Installed(site)
  /\ byName \/ Script(site) = path

\* An entry counts when its hash is that of the binary; one without a hash
\* counts for its own path.
RecordListsFile(site, path, byName) ==
  /\ Installed(site)
  /\ byName \/ Script(site) = path
  /\ \/ wheels[site].hash = files[path]
     \/ wheels[site].hash = NoBinary /\ ~byName

InBin(path) == path = "local"

\* pipx before uv; only uv has a receipt.
CopyOf(path) ==
  LET pipx == InBin(path) /\ RecordListsFile("pipx", path, TRUE)
      uv == (InBin(path) \/ receipt = path) /\ RecordListsFile("uv", path, TRUE)
  IN CASE pipx -> [site |-> "pipx", tool |-> "pipx"]
       [] ~pipx /\ uv -> [site |-> "uv", tool |-> "uv-tool"]
       [] OTHER -> [site |-> "none", tool |-> ""]

FindWheelInstall(path) ==
  LET beside == {s \in Sites : RecordListsFile(s, path, FALSE)}
  IN IF beside = {} THEN CopyOf(path)
     ELSE [site |-> CHOOSE s \in beside : TRUE, tool |-> ""]

-----------------------------------------------------------------------------
\* detectInstallMethod and wheelUpdateCommand.

\* The wheel's path names the tool, if the tool has its venvs where it does by
\* default.
ToolOf(wheel) ==
  CASE wheel.tool # "" -> wheel.tool
    [] wheel.tool = "" /\ wheel.site = "pipx" /\ ~host.custom -> "pipx"
    [] wheel.tool = "" /\ wheel.site = "uv" /\ ~host.custom -> "uv-tool"
    [] OTHER -> ""

WheelMethod(wheel) ==
  CASE ToolOf(wheel) # "" -> ToolOf(wheel)
    [] ToolOf(wheel) = "" /\ wheel.site = "venv" /\ host.lock -> "uv-project"
    [] ToolOf(wheel) = "" /\ ~(wheel.site = "venv" /\ host.lock) ->
         IF wheels[wheel.site].installer = "uv" THEN "uv-pip" ELSE "pip"

DetectInstallMethod(path) ==
  LET wheel == FindWheelInstall(path)
  IN CASE wheel.site # "none" -> WheelMethod(wheel)
       [] wheel.site = "none" /\ path = "cellar" -> "homebrew"
       [] wheel.site = "none" /\ path = "gobin" -> "go"
       [] wheel.site = "none" /\ path \notin {"cellar", "gobin"} ->
            IF files[path].release = 0 THEN "dev" ELSE "managed"

ExternallyManaged(method) == method \notin {"dev", "managed"}

\* Where the command the user is told to run puts the new version: pip and uv
\* pip are given the interpreter of a venv; a bare pip has the user site's.
UpdateReaches(path) ==
  LET method == DetectInstallMethod(path)
      site == FindWheelInstall(path).site
  IN CASE method = "pipx" -> "pipx"
       [] method = "uv-tool" -> "uv"
       [] method \in {"pip", "uv-pip", "uv-project"} -> site
       [] method = "homebrew" -> "cellar"
       [] method = "go" -> "gobin"
       [] OTHER -> "release"

-----------------------------------------------------------------------------
\* What puts binaries where they are.

InstallInit(h) ==
  /\ host = h
  /\ files = [p \in Paths |-> NoBinary]
  /\ wheels = [s \in Sites |-> NoWheel]
  /\ receipt = "none"
  /\ owner = [p \in Paths |-> "none"]

Installers(site) == IF site = "venv" THEN {"pip", "uv", "unknown"}
                    ELSE IF site = "uv" THEN {"uv"} ELSE {"pip"}

\* Where a tool's entry point goes: a copy on Windows, a symbolic link that
\* resolves to the script elsewhere.
EntryPoints(site) ==
  CASE host.windows /\ site = "pipx" -> {"local"}
    [] host.windows /\ site = "uv" -> {"local", "once"}
    [] OTHER -> {Script(site)}

\* The tool takes away the entry point of the wheel it replaces.
Stale(site, p) == owner[p] = site /\ p # Script(site)

\* An upgrade or a first install.  The user site has its scripts in ~/.local/bin
\* on Unix only; wheels of unknown origin have no hashes.
WheelInstall(site, installer, binary, entry) ==
  /\ installer \in Installers(site) /\ entry \in EntryPoints(site)
  /\ site = "user" => ~host.windows
  /\ files' = [p \in Paths |-> IF p \in {Script(site), entry} THEN binary
                               ELSE IF Stale(site, p) THEN NoBinary ELSE files[p]]
  /\ owner' = [p \in Paths |-> IF p \in {Script(site), entry} THEN site
                               ELSE IF Stale(site, p) THEN "none" ELSE owner[p]]
  /\ wheels' = [wheels EXCEPT ![site] =
                 [installer |-> installer,
                  hash |-> IF installer = "unknown" THEN NoBinary ELSE binary]]
  /\ receipt' = IF site = "uv" THEN entry ELSE receipt
  /\ UNCHANGED host

\* pip removes the files RECORD lists, whoever wrote them last.
WheelUninstall(site) ==
  LET gone(p) == p = Script(site) \/ Stale(site, p)
  IN /\ Installed(site)
     /\ files' = [p \in Paths |-> IF gone(p) THEN NoBinary ELSE files[p]]
     /\ owner' = [p \in Paths |-> IF gone(p) THEN "none" ELSE owner[p]]
     /\ wheels' = [wheels EXCEPT ![site] = NoWheel]
     /\ receipt' = IF site = "uv" THEN "none" ELSE receipt
     /\ UNCHANGED host

\* One file replaced: by install.sh, by hand, by brew or go, by self-update.
Put(path, binary, who) ==
  /\ files' = [files EXCEPT ![path] = binary]
  /\ owner' = [owner EXCEPT ![path] = who]
  /\ UNCHANGED <<host, wheels, receipt>>

InstallBinary(path, release) ==
  /\ path \in {"local", "tools"}
  /\ Put(path, [release |-> release, build |-> "archive", whole |-> TRUE], "release")

OtherInstall(path, release) ==
  /\ path \in {"cellar", "gobin"}
  /\ Put(path, [release |-> release, build |-> "source", whole |-> TRUE], path)

CopyByHand(binary) == Put("tools", binary, "release")
=============================================================================
