----------------------------- MODULE SshConfig ------------------------------
(***************************************************************************)
(* `sandboxes ssh-setup' (internal/cmd/sandbox_ssh.go): upload the user's  *)
(* public key, fetch the sandbox's host key, record it in a known_hosts    *)
(* file and put a Host block for the sandbox into ~/.ssh/config.           *)
(*                                                                         *)
(* The config is a sequence of lines, as strings.Split leaves it: a file   *)
(* that ends in a newline has an empty last line. Lines are known by their *)
(* first word and by who wrote them. What the block says (endpoint,        *)
(* profile, key) is a version: CredentialUse is about its content.         *)
(***************************************************************************)
EXTENDS Integers, Sequences, SequencesExt

CONSTANTS
  Setups,    \* runs of ssh-setup
  Boxes,     \* the sandboxes they are for
  Versions,  \* what a block or a host key may say
  UserEdits  \* bound on the edits of the user

ASSUME SshAssumption == UserEdits \in Nat /\ "user" \notin Boxes

VARIABLES
  config,  \* ~/.ssh/config
  known,   \* known_hosts_sandboxes: for each box its host key, or "none"
  setup,   \* each run
  edits    \* how many edits the user has left

sshVars == <<config, known, setup, edits>>

ConfigLine == [word : {"Host", "Added", "body", "comment", "Match", ""}, of : Boxes \cup {"user"},
         says : Versions \cup {"-"}]

SshLine(word, of, says) == [word |-> word, of |-> of, says |-> says]

Blank == SshLine("", "user", "-")

\* The block ends in a newline, so its last line is empty.
Block(box, version) ==
  <<SshLine("Added", box, version), SshLine("Host", box, "-"), SshLine("body", box, version), Blank>>

UserBlock == <<SshLine("Host", "user", "-"), SshLine("body", "user", "-")>>

StartingConfigs == {<<Blank>>, UserBlock, Append(UserBlock, Blank)}

NoHosts == [b \in Boxes |-> "none"]

NotStarted == [pc |-> "start", box |-> "user", says |-> "-", seen |-> <<Blank>>, hosts |-> NoHosts]

SshInit ==
  /\ config \in StartingConfigs
  /\ known = NoHosts
  /\ setup = [s \in Setups |-> NotStarted]
  /\ edits = UserEdits

-----------------------------------------------------------------------------
\* The edit of the config, as a function of what was read.

HostLine(lines, box) == {i \in DOMAIN lines : lines[i].word = "Host" /\ lines[i].of = box}

FirstLine(S) == CHOOSE i \in S : \A j \in S : i <= j

\* The comment above the line belongs to the block if it is ours.
BlockStart(lines, i) == IF i > 1 /\ lines[i - 1].word = "Added" THEN i - 1 ELSE i

\* The block goes on to the next line that starts with "Host " or "# Added by:".
BlockEndM(lines, i) ==
  LET next == {j \in DOMAIN lines : j > i /\ lines[j].word = "Added"}
  IN  IF next = {} THEN Len(lines) ELSE FirstLine(next) - 1

BlockEnd(lines, i) ==
  LET next == {j \in DOMAIN lines : j > i /\ lines[j].word \in {"Host", "Added"}}
  IN  IF next = {} THEN Len(lines) ELSE FirstLine(next) - 1

\* strings.TrimSpace, of lines.
TrimLines(lines) ==
  LET full == {i \in DOMAIN lines : lines[i].word # ""}
  IN  IF full = {} THEN <<>> ELSE SubSeq(lines, FirstLine(full), CHOOSE i \in full : \A j \in full : j <= i)

Replaced(lines, box, version) ==
  LET i == FirstLine(HostLine(lines, box))
      start == BlockStart(lines, i)
      end == BlockEnd(lines, i)
  IN  IF TrimLines(SubSeq(lines, start, end)) = TrimLines(Block(box, version))
      THEN lines
      ELSE SubSeq(lines, 1, start - 1) \o Block(box, version) \o SubSeq(lines, end + 1, Len(lines))

\* Appended to the file as it is by then; whether a newline is missing was seen
\* in what was read. (Nobody takes the last newline away again.)
Appended(lines, seen, box, version) ==
  LET base == IF Last(seen) = Blank THEN lines ELSE Append(lines, Blank)
  IN  Front(base) \o Block(box, version)

-----------------------------------------------------------------------------
\* runSSHSetup.

EndSetup(s) == setup' = [setup EXCEPT ![s] = [NotStarted EXCEPT !.pc = "ended"]]

\* The user's key is found and uploaded, the host key is fetched (a failure
\* only makes a warning) and known_hosts read. Whether sshd runs only makes a
\* warning. A sandbox created anew has another host key: that of its version.
UploadKey(s) ==
  /\ setup[s].pc = "start"
  /\ \/ \E box \in Boxes, version \in Versions, pc \in {"known", "read"} :
          setup' = [setup EXCEPT ![s] = [NotStarted EXCEPT !.pc = pc, !.box = box, !.says = version,
                                                      !.hosts = IF pc = "known" THEN known ELSE NoHosts]]
     \/ EndSetup(s)
  /\ UNCHANGED <<config, known, edits>>

\* ensureKnownHost: a line of the alias is replaced and the whole file written
\* as it was read; a new line is appended.
EnsureKnownHost(s) ==
  /\ setup[s].pc = "known"
  /\ LET r == setup[s]
     IN  known' = IF r.hosts[r.box] = "none" THEN [known EXCEPT ![r.box] = r.says]
                  ELSE [r.hosts EXCEPT ![r.box] = r.says]
  /\ setup' = [setup EXCEPT ![s].pc = "read", ![s].hosts = NoHosts]
  /\ UNCHANGED <<config, edits>>

ReadConfig(s) ==
  /\ setup[s].pc = "read"
  /\ setup' = [setup EXCEPT ![s].seen = config,
                            ![s].pc = IF HostLine(config, setup[s].box) = {} THEN "append" ELSE "replace"]
  /\ UNCHANGED <<config, known, edits>>

\* ensureSSHConfig.
WriteConfig(s) ==
  LET r == setup[s]
  IN  /\ \/ r.pc = "append" /\ config' = Appended(config, r.seen, r.box, r.says)
         \/ r.pc = "replace" /\ config' = (IF Replaced(r.seen, r.box, r.says) = r.seen THEN config
                                           ELSE Replaced(r.seen, r.box, r.says))
      /\ EndSetup(s)
      /\ UNCHANGED <<known, edits>>

\* The user adds a Host of their own, a comment or a Match at the end.
UserEdit ==
  /\ edits > 0
  /\ edits' = edits - 1
  /\ \E more \in {UserBlock, <<SshLine("comment", "user", "-")>>, <<SshLine("Match", "user", "-"), SshLine("body", "user", "-")>>} :
       config' = (IF Last(config) = Blank THEN Front(config) ELSE config) \o Append(more, Blank)
  /\ UNCHANGED <<known, setup>>

SshNext ==
  \/ \E s \in Setups : UploadKey(s) \/ EnsureKnownHost(s) \/ ReadConfig(s) \/ WriteConfig(s)
  \/ UserEdit

SshSpec == SshInit /\ [][SshNext]_sshVars

-----------------------------------------------------------------------------
\* Properties.

SshTypeOK ==
  /\ config \in Seq(ConfigLine) /\ config # <<>>
  /\ known \in [Boxes -> Versions \cup {"none"}]
  /\ edits \in 0 .. UserEdits
  /\ \A s \in Setups :
       /\ setup[s].pc \in {"start", "known", "read", "append", "replace", "ended"}
       /\ setup[s].box \in Boxes \cup {"user"} /\ setup[s].says \in Versions \cup {"-"}
       /\ setup[s].seen \in Seq(ConfigLine)
       /\ setup[s].hosts \in [Boxes -> Versions \cup {"none"}]

\* A line of the user that is under a Host line of the user, which is where
\* ssh reads it.
UnderOwnHost(lines, i) ==
  LET above == {j \in 1 .. i : lines[j].word \in {"Host", "Added"}}
  IN  above # {} /\ lines[CHOOSE j \in above : \A k \in above : k <= j].of = "user"

\* The lines at these places, in their order.
Chosen(lines, places) ==
  LET kept[n \in 0 .. Len(lines)] ==
        IF n = 0 THEN <<>> ELSE IF n \in places THEN Append(kept[n - 1], lines[n]) ELSE kept[n - 1]
  IN  kept[Len(lines)]

Owned(lines, box) == Chosen(lines, {i \in DOMAIN lines : lines[i].of = box /\ lines[i].word # ""})

UserHosts(lines) == Chosen(lines, {i \in DOMAIN lines : UnderOwnHost(lines, i) /\ lines[i].word # ""})

\* The block that ssh obeys: the first one of the box.
Effective(lines, box) ==
  IF HostLine(lines, box) = {} THEN "none" ELSE lines[FirstLine(HostLine(lines, box)) + 1].says

(***************************************************************************)
(* A setup that nobody interferes with between its reading and its writing *)
(* changes the config only for its own box: ssh obeys the new block for    *)
(* it, the blocks of the other boxes are as they were, and so is all that  *)
(* the user has under Host lines of their own (ensureSSHConfig).           *)
(***************************************************************************)
SetupIsLocal ==
  [][\A s \in Setups :
       LET r == setup[s]
       IN  setup'[s].pc = "ended" /\ r.pc \in {"append", "replace"} /\ r.seen = config =>
             /\ Effective(config', r.box) = r.says
             /\ \A b \in Boxes \ {r.box} : Owned(config', b) = Owned(config, b)
             /\ UserHosts(config') = UserHosts(config)]_sshVars
=============================================================================
