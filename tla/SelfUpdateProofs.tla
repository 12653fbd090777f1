-------------------------- MODULE SelfUpdateProofs --------------------------
(***************************************************************************)
(* Proofs about SelfUpdate, for any number of updates, releases, installs  *)
(* and kinds of machine: its types, that a binary is whole as long as      *)
(* closing a file loses nothing, that an update installs a verified and    *)
(* newer release, and that it upgrades by way of who put the binary there. *)
(***************************************************************************)
EXTENDS SelfUpdate, TLAPS

Newer == {"archive", "sums", "verify", "extract", "stat", "create", "fill", "rename"}
Vouched == {"extract", "stat", "create", "fill", "rename"}
Unpacked == {"stat", "create", "fill", "rename"}

\* What holds of a run by the step it is at.
Fine(r) ==
  /\ r.pc \notin {"idle", "ended"} => r.path \in Paths
  /\ r.pc \in {"idle", "check", "ended"} => r.temp = NoBinary
  /\ r.pc \in Newer => r.latest > r.current /\ r.latest <= released
  /\ r.pc \in Vouched => r.archive /\ r.sums = "lists"
  /\ r.pc \in Unpacked => r.new \in Binary /\ r.new.release = r.latest
  /\ r.pc \in Unpacked => LossyClose \/ r.new.whole
  /\ r.pc = "rename" => r.temp \in Binary /\ r.temp.release = r.latest
  /\ r.pc = "rename" => LossyClose \/ r.temp.whole

MachineOK ==
  /\ host \in [windows: BOOLEAN, lock: BOOLEAN, custom: BOOLEAN]
  /\ files \in [Paths -> Binary \cup {NoBinary}]
  /\ wheels \in [Sites -> Wheel \cup {NoWheel}]
  /\ receipt \in Paths \cup {"none"}
  /\ owner \in [Paths -> Sites \cup {"cellar", "gobin", "release", "none"}]

UpdateInv ==
  /\ MachineOK
  /\ released \in Nat /\ installs \in Nat
  /\ update \in [Updaters -> Running]
  /\ \A u \in Updaters : Fine(update[u])
  /\ LossyClose \/ BinaryIsWhole

-----------------------------------------------------------------------------
LEMMA BinaryFacts ==
  /\ NoBinary \notin Binary
  /\ \A b \in Binary : b.release \in Nat /\ b.whole \in BOOLEAN
  /\ \A r \in Nat, build \in {"archive", "wheel", "source"} :
       /\ [release |-> r, build |-> build, whole |-> TRUE] \in Binary
       /\ [release |-> r, build |-> build, whole |-> TRUE].whole
       /\ [release |-> r, build |-> build, whole |-> TRUE].release = r
  BY DEF Binary, NoBinary

\* One binary replaced at one path.
LEMMA PutKeeps ==
  ASSUME MachineOK, LossyClose \/ BinaryIsWhole,
         NEW path \in Paths, NEW binary \in Binary, LossyClose \/ binary.whole,
         NEW who \in {"cellar", "gobin", "release"},
         Put(path, binary, who)
  PROVE  MachineOK' /\ (LossyClose \/ BinaryIsWhole')
  BY DEF MachineOK, Put, BinaryIsWhole

LEMMA WheelInstallKeeps ==
  ASSUME MachineOK, LossyClose \/ BinaryIsWhole,
         NEW site \in Sites, NEW installer \in {"pip", "uv", "unknown"}, NEW entry \in Paths,
         NEW binary \in Binary, binary.whole,
         WheelInstall(site, installer, binary, entry)
  PROVE  MachineOK' /\ (LossyClose \/ BinaryIsWhole')
<1>1. files' \in [Paths -> Binary \cup {NoBinary}]
  BY DEF WheelInstall, MachineOK
<1>2. owner' \in [Paths -> Sites \cup {"cellar", "gobin", "release", "none"}]
  BY DEF WheelInstall, MachineOK
<1>3. wheels' \in [Sites -> Wheel \cup {NoWheel}]
  BY DEF WheelInstall, MachineOK, Wheel
<1>4. receipt' \in Paths \cup {"none"} /\ host' = host
  BY DEF WheelInstall, MachineOK
<1>5. LossyClose \/ BinaryIsWhole'
  BY DEF WheelInstall, BinaryIsWhole
<1> QED
  BY <1>1, <1>2, <1>3, <1>4, <1>5 DEF MachineOK

LEMMA WheelUninstallKeeps ==
  ASSUME MachineOK, LossyClose \/ BinaryIsWhole,
         NEW site \in Sites, WheelUninstall(site)
  PROVE  MachineOK' /\ (LossyClose \/ BinaryIsWhole')
<1>1. files' \in [Paths -> Binary \cup {NoBinary}]
  BY DEF WheelUninstall, MachineOK
<1>2. owner' \in [Paths -> Sites \cup {"cellar", "gobin", "release", "none"}]
  BY DEF WheelUninstall, MachineOK
<1>3. wheels' \in [Sites -> Wheel \cup {NoWheel}] /\ receipt' \in Paths \cup {"none"} /\ host' = host
  BY DEF WheelUninstall, MachineOK
<1>4. LossyClose \/ BinaryIsWhole'
  BY DEF WheelUninstall, BinaryIsWhole
<1> QED
  BY <1>1, <1>2, <1>3, <1>4 DEF MachineOK

\* Whatever the user installs, by whatever means, is whole.
LEMMA UserInstallsKeeps ==
  ASSUME UpdateInv, UserInstalls
  PROVE  UpdateInv'
<1> DEFINE Good == MachineOK' /\ (LossyClose \/ BinaryIsWhole')
<1>a. MachineOK /\ (LossyClose \/ BinaryIsWhole) /\ released \in Nat /\ installs \in Nat
  BY DEF UpdateInv
<1>b. installs' \in Nat
  BY <1>a DEF UserInstalls
<1>c. \A b \in Built("wheel") \cup Built("archive") : b \in Binary /\ b.whole
  <2> SUFFICES ASSUME NEW build \in {"wheel", "archive"}, NEW b \in Built(build)
               PROVE  b \in Binary /\ b.whole
    OBVIOUS
  <2>1. PICK r \in 1 .. released : b = [release |-> r, build |-> build, whole |-> TRUE]
    BY DEF Built
  <2>2. r \in Nat
    BY <1>a
  <2> QED
    BY <2>1, <2>2 DEF Binary
<1>d. ASSUME NEW path \in Paths, files[path] # NoBinary
      PROVE  files[path] \in Binary /\ (LossyClose \/ files[path].whole)
  BY <1>a, <1>d DEF MachineOK, BinaryIsWhole
<1>1. ASSUME NEW site \in Sites, NEW installer \in {"pip", "uv", "unknown"}, NEW entry \in Paths,
             NEW binary \in Built("wheel") \cup Built("archive"),
             WheelInstall(site, installer, binary, entry)
      PROVE  Good
  BY <1>a, <1>c, <1>1, WheelInstallKeeps
<1>2. ASSUME NEW site \in Sites, WheelUninstall(site)
      PROVE  Good
  BY <1>a, <1>2, WheelUninstallKeeps
<1>3. ASSUME NEW path \in Paths, NEW release \in 1 .. released, InstallBinary(path, release)
      PROVE  Good
  <2>1. [release |-> release, build |-> "archive", whole |-> TRUE] \in Binary
    BY <1>a
      DEF Binary
  <2> QED
    BY <1>a, <1>3, <2>1, PutKeeps DEF InstallBinary
<1>4. ASSUME NEW path \in Paths, NEW release \in 1 .. released, OtherInstall(path, release)
      PROVE  Good
  <2>1. [release |-> release, build |-> "source", whole |-> TRUE] \in Binary
    BY <1>a DEF Binary
  <2> QED
    BY <1>a, <1>4, <2>1, PutKeeps DEF OtherInstall
<1>5. ASSUME NEW path \in Paths, files[path] # NoBinary, CopyByHand(files[path])
      PROVE  Good
  <2>1. "tools" \in Paths
    BY DEF Paths
  <2> QED
    BY <1>a, <1>d, <1>5, <2>1, PutKeeps DEF CopyByHand
<1>6. ASSUME CopyByHand([release |-> 0, build |-> "source", whole |-> TRUE])
      PROVE  Good
  <2>1. "tools" \in Paths /\ [release |-> 0, build |-> "source", whole |-> TRUE] \in Binary
    BY DEF Paths, Binary
  <2> QED
    BY <1>a, <1>6, <2>1, PutKeeps DEF CopyByHand
<1>7. Good
  BY <1>1, <1>2, <1>3, <1>4, <1>5, <1>6 DEF UserInstalls
<1>8. UNCHANGED <<released, update>>
  BY DEF UserInstalls
<1> QED
  BY <1>b, <1>7, <1>8 DEF UpdateInv, Fine

-----------------------------------------------------------------------------
\* A step of a run that leaves the machine alone.
LEMMA BecomeKeeps ==
  ASSUME UpdateInv, NEW u \in Updaters, NEW r \in Running, Fine(r),
         Become(u, r), Elsewhere
  PROVE  UpdateInv'
<1>1. update' \in [Updaters -> Running]
  BY DEF UpdateInv, Become
<1>2. ASSUME NEW v \in Updaters
      PROVE  Fine(update[v])'
  <2>1. update'[v] = IF v = u THEN r ELSE update[v]
    BY DEF UpdateInv, Become
  <2>2. Fine(update'[v])
    BY <2>1 DEF UpdateInv
  <2> QED
    BY <2>2 DEF Fine, Elsewhere
<1> QED
  BY <1>1, <1>2 DEF UpdateInv, Elsewhere, MachineOK, BinaryIsWhole, installVars

LEMMA EndKeeps ==
  ASSUME UpdateInv, NEW u \in Updaters, NEW how \in {"error", "updated"}, End(u, how), Elsewhere
  PROVE  UpdateInv'
<1> DEFINE r == [update[u] EXCEPT !.pc = "ended", !.result = how, !.new = NoBinary,
                                  !.temp = NoBinary]
<1>1. update[u] \in Running
  BY DEF UpdateInv
<1>2. r \in Running
  BY <1>1 DEF Running, Steps
<1>3. r.pc = "ended" /\ r.temp = NoBinary
  BY <1>1 DEF Running
<1>4. Fine(r)
  BY <1>3 DEF Fine, Newer, Vouched, Unpacked
<1>5. Become(u, r)
  BY DEF End
<1> QED
  BY <1>2, <1>4, <1>5, BecomeKeeps

LEMMA StartKeeps ==
  ASSUME UpdateInv, NEW u \in Updaters, NEW path \in Paths, NEW force \in BOOLEAN,
         StartUpdate(u, path, force)
  PROVE  UpdateInv'
<1>1. update[u] \in Running /\ Fine(update[u]) /\ update[u].pc = "idle"
  BY DEF UpdateInv, StartUpdate
<1>2. files[path].release \in Nat
  BY DEF UpdateInv, MachineOK, Binary, NoBinary
<1> DEFINE begun == [update[u] EXCEPT !.path = path, !.force = force,
                                      !.current = files[path].release]
<1>3. begun \in Running /\ begun.path = path /\ begun.temp = NoBinary
  BY <1>1, <1>2 DEF Running, Fine
<1>4. Elsewhere
  BY DEF StartUpdate
<1> HIDE DEF begun
<1>5. ASSUME NEW how \in {"dev", "managed-externally"},
             Become(u, [begun EXCEPT !.pc = "ended", !.result = how])
      PROVE  UpdateInv'
  <2> DEFINE r == [begun EXCEPT !.pc = "ended", !.result = how]
  <2>1. r \in Running /\ r.pc = "ended" /\ r.temp = NoBinary
    BY <1>3 DEF Running, Steps
  <2>2. Fine(r)
    BY <2>1 DEF Fine, Newer, Vouched, Unpacked
  <2> QED
    BY <1>4, <1>5, <2>1, <2>2, BecomeKeeps
<1>6. ASSUME Become(u, [begun EXCEPT !.pc = "check"])
      PROVE  UpdateInv'
  <2> DEFINE r == [begun EXCEPT !.pc = "check"]
  <2>1. r \in Running /\ r.pc = "check" /\ r.path = path /\ r.temp = NoBinary
    BY <1>3 DEF Running, Steps
  <2>2. Fine(r)
    BY <2>1 DEF Fine, Newer, Vouched, Unpacked
  <2> QED
    BY <1>4, <1>6, <2>1, <2>2, BecomeKeeps
<1> QED
  BY <1>5, <1>6 DEF StartUpdate, begun

\* The version found is newer than the one that runs, and has been released.
LEMMA CheckKeeps ==
  ASSUME UpdateInv, NEW u \in Updaters, NEW dryRun \in BOOLEAN, CheckLatest(u, dryRun)
  PROVE  UpdateInv'
<1>1. update[u] \in Running /\ Fine(update[u]) /\ update[u].pc = "check" /\ released \in Nat
  BY DEF UpdateInv, CheckLatest
<1> DEFINE checked == [update[u] EXCEPT !.latest = released]
<1>2. /\ checked \in Running /\ checked.path \in Paths /\ checked.latest = released
      /\ checked.current = update[u].current /\ checked.temp = update[u].temp
  BY <1>1 DEF Running, Fine
<1>3. Elsewhere
  BY DEF CheckLatest
<1> HIDE DEF checked
<1>4. ASSUME NEW how \in {"up-to-date", "update-available"},
             Become(u, [checked EXCEPT !.pc = "ended", !.result = how])
      PROVE  UpdateInv'
  <2> DEFINE r == [checked EXCEPT !.pc = "ended", !.result = how]
  <2>1. r \in Running /\ r.pc = "ended" /\ r.temp = update[u].temp
    BY <1>2 DEF Running, Steps
  <2>2. Fine(r)
    BY <1>1, <2>1 DEF Fine, Newer, Vouched, Unpacked
  <2> QED
    BY <1>3, <1>4, <2>1, <2>2, BecomeKeeps
<1>5. ASSUME ~UpToDate(update[u].current, released), Become(u, [checked EXCEPT !.pc = "archive"])
      PROVE  UpdateInv'
  <2> DEFINE r == [checked EXCEPT !.pc = "archive"]
  <2>1. /\ r \in Running /\ r.pc = "archive" /\ r.path \in Paths
        /\ r.latest = released /\ r.current = update[u].current
    BY <1>2 DEF Running, Steps
  <2>2. update[u].current < released
    <3>1. update[u].current \in Nat
      BY <1>1 DEF Running
    <3> QED
      BY <1>1, <1>5, <3>1 DEF UpToDate
  <2>3. Fine(r)
    BY <1>1, <2>1, <2>2 DEF Fine, Newer, Vouched, Unpacked
  <2> QED
    BY <1>3, <1>5, <2>1, <2>3, BecomeKeeps
<1> QED
  BY <1>4, <1>5 DEF CheckLatest, checked

LEMMA DownloadKeeps ==
  ASSUME UpdateInv, NEW u \in Updaters, NEW good \in BOOLEAN,
         NEW sums \in {"lists", "other", "lacks"},
         DownloadArchive(u, good) \/ DownloadChecksums(u, sums)
  PROVE  UpdateInv'
<1>1. update[u] \in Running /\ Fine(update[u]) /\ Elsewhere
  BY DEF UpdateInv, DownloadArchive, DownloadChecksums
<1>2. CASE DownloadArchive(u, good)
  <2> DEFINE r == [update[u] EXCEPT !.pc = "sums", !.archive = good]
  <2>1. /\ r \in Running /\ r.pc = "sums" /\ r.path = update[u].path
        /\ r.latest = update[u].latest /\ r.current = update[u].current
    BY <1>1 DEF Running, Steps
  <2>2. Fine(r)
    BY <1>1, <1>2, <2>1 DEF Fine, Newer, Vouched, Unpacked, DownloadArchive
  <2> QED
    BY <1>1, <1>2, <2>1, <2>2, BecomeKeeps DEF DownloadArchive
<1>3. CASE DownloadChecksums(u, sums)
  <2> DEFINE r == [update[u] EXCEPT !.pc = "verify", !.sums = sums]
  <2>1. /\ r \in Running /\ r.pc = "verify" /\ r.path = update[u].path
        /\ r.latest = update[u].latest /\ r.current = update[u].current
    BY <1>1 DEF Running, Steps
  <2>2. Fine(r)
    BY <1>1, <1>3, <2>1 DEF Fine, Newer, Vouched, Unpacked, DownloadChecksums
  <2> QED
    BY <1>1, <1>3, <2>1, <2>2, BecomeKeeps DEF DownloadChecksums
<1> QED
  BY <1>2, <1>3

\* Only a verified archive is unpacked.
LEMMA VerifyKeeps ==
  ASSUME UpdateInv, NEW u \in Updaters, VerifyChecksum(u)
  PROVE  UpdateInv'
<1>1. update[u] \in Running /\ Fine(update[u]) /\ Elsewhere /\ update[u].pc = "verify"
  BY DEF UpdateInv, VerifyChecksum
<1>2. CASE Verified(u)
  <2> DEFINE r == [update[u] EXCEPT !.pc = "extract"]
  <2>1. /\ r \in Running /\ r.pc = "extract" /\ r.path = update[u].path
        /\ r.latest = update[u].latest /\ r.current = update[u].current
        /\ r.archive = update[u].archive /\ r.sums = update[u].sums
    BY <1>1 DEF Running, Steps
  <2>2. Fine(r)
    BY <1>1, <1>2, <2>1 DEF Fine, Newer, Vouched, Unpacked, Verified
  <2> QED
    BY <1>1, <1>2, <2>1, <2>2, BecomeKeeps DEF VerifyChecksum, Goto
<1>3. CASE ~Verified(u)
  BY <1>1, <1>3, EndKeeps DEF VerifyChecksum
<1> QED
  BY <1>2, <1>3

\* A copy has the release of what is copied, and all of it unless closing loses
\* something.
LEMMA ClosedFacts ==
  ASSUME NEW b \in Binary, NEW c \in Closed(b)
  PROVE  c \in Binary /\ c.release = b.release /\ (LossyClose \/ c.whole = b.whole)
  BY LossyCloseAssumption DEF Closed, Binary

LEMMA ExtractKeeps ==
  ASSUME UpdateInv, NEW u \in Updaters, ExtractBinary(u)
  PROVE  UpdateInv'
<1>1. update[u] \in Running /\ Fine(update[u]) /\ Elsewhere /\ update[u].pc = "extract"
  BY DEF UpdateInv, ExtractBinary
<1>2. update[u].archive = TRUE /\ update[u].latest \in Nat
  BY <1>1 DEF Fine, Vouched, Running
<1> DEFINE in == [release |-> update[u].latest, build |-> "archive", whole |-> update[u].archive]
<1>3. in \in Binary /\ in.release = update[u].latest /\ in.whole
  BY <1>2 DEF Binary
<1>4. PICK binary \in Closed(in) : Become(u, [update[u] EXCEPT !.pc = "stat", !.new = binary])
  BY DEF ExtractBinary
<1> HIDE DEF in
<1>5. binary \in Binary /\ binary.release = update[u].latest /\ (LossyClose \/ binary.whole)
  BY <1>3, <1>4, ClosedFacts
<1> DEFINE r == [update[u] EXCEPT !.pc = "stat", !.new = binary]
<1>6. /\ r \in Running /\ r.pc = "stat" /\ r.path = update[u].path
      /\ r.latest = update[u].latest /\ r.current = update[u].current
      /\ r.archive = update[u].archive /\ r.sums = update[u].sums /\ r.new = binary
  BY <1>1, <1>5 DEF Running, Steps
<1>7. Fine(r)
  BY <1>1, <1>5, <1>6 DEF Fine, Newer, Vouched, Unpacked
<1> QED
  BY <1>1, <1>4, <1>6, <1>7, BecomeKeeps

LEMMA StatKeeps ==
  ASSUME UpdateInv, NEW u \in Updaters, StatTarget(u)
  PROVE  UpdateInv'
<1>1. update[u] \in Running /\ Fine(update[u]) /\ Elsewhere /\ update[u].pc = "stat"
  BY DEF UpdateInv, StatTarget
<1>2. CASE Goto(u, "create")
  <2> DEFINE r == [update[u] EXCEPT !.pc = "create"]
  <2>1. /\ r \in Running /\ r.pc = "create" /\ r.path = update[u].path
        /\ r.latest = update[u].latest /\ r.current = update[u].current
        /\ r.archive = update[u].archive /\ r.sums = update[u].sums /\ r.new = update[u].new
    BY <1>1 DEF Running, Steps
  <2>2. Fine(r)
    BY <1>1, <2>1 DEF Fine, Newer, Vouched, Unpacked
  <2> QED
    BY <1>1, <1>2, <2>1, <2>2, BecomeKeeps DEF Goto
<1> QED
  BY <1>1, <1>2, EndKeeps DEF StatTarget

LEMMA CreateKeeps ==
  ASSUME UpdateInv, NEW u \in Updaters, CreateTemp(u)
  PROVE  UpdateInv'
<1>1. update[u] \in Running /\ Fine(update[u]) /\ Elsewhere /\ update[u].pc = "create"
  BY DEF UpdateInv, CreateTemp
<1> DEFINE temp == [update[u].new EXCEPT !.whole = FALSE]
           r == [update[u] EXCEPT !.pc = "fill", !.temp = temp]
<1>2. temp \in Binary
  BY <1>1 DEF Fine, Unpacked, Binary
<1> HIDE DEF temp
<1>3. /\ r \in Running /\ r.pc = "fill" /\ r.path = update[u].path
      /\ r.latest = update[u].latest /\ r.current = update[u].current
      /\ r.archive = update[u].archive /\ r.sums = update[u].sums /\ r.new = update[u].new
  BY <1>1, <1>2 DEF Running, Steps
<1>4. Fine(r)
  BY <1>1, <1>3 DEF Fine, Newer, Vouched, Unpacked
<1>5. Become(u, r)
  BY DEF CreateTemp, temp
<1> QED
  BY <1>1, <1>3, <1>4, <1>5, BecomeKeeps

LEMMA FillKeeps ==
  ASSUME UpdateInv, NEW u \in Updaters, FillTemp(u)
  PROVE  UpdateInv'
<1>1. update[u] \in Running /\ Fine(update[u]) /\ Elsewhere /\ update[u].pc = "fill"
  BY DEF UpdateInv, FillTemp
<1>2. /\ update[u].new \in Binary /\ update[u].new.release = update[u].latest
      /\ LossyClose \/ update[u].new.whole
  BY <1>1 DEF Fine, Unpacked
<1>3. PICK binary \in Closed(update[u].new) :
        Become(u, [update[u] EXCEPT !.pc = "rename", !.temp = binary])
  BY DEF FillTemp
<1>4. binary \in Binary /\ binary.release = update[u].latest /\ (LossyClose \/ binary.whole)
  BY <1>2, <1>3, ClosedFacts
<1> DEFINE r == [update[u] EXCEPT !.pc = "rename", !.temp = binary]
<1>5. /\ r \in Running /\ r.pc = "rename" /\ r.path = update[u].path
      /\ r.latest = update[u].latest /\ r.current = update[u].current
      /\ r.archive = update[u].archive /\ r.sums = update[u].sums
      /\ r.new = update[u].new /\ r.temp = binary
  BY <1>1, <1>4 DEF Running, Steps
<1>6. Fine(r)
  BY <1>1, <1>2, <1>4, <1>5 DEF Fine, Newer, Vouched, Unpacked
<1> QED
  BY <1>1, <1>3, <1>5, <1>6, BecomeKeeps

LEMMA KillKeeps ==
  ASSUME UpdateInv, NEW u \in Updaters, Kill(u)
  PROVE  UpdateInv'
<1>1. update[u] \in Running /\ Fine(update[u]) /\ Elsewhere /\ update[u].pc \notin {"idle", "ended"}
  BY DEF UpdateInv, Kill
<1> DEFINE r == [update[u] EXCEPT !.pc = "killed"]
<1>2. r \in Running /\ r.pc = "killed" /\ r.path = update[u].path
  BY <1>1 DEF Running, Steps
<1>3. Fine(r)
  BY <1>1, <1>2 DEF Fine, Newer, Vouched, Unpacked
<1> QED
  BY <1>1, <1>2, <1>3, BecomeKeeps DEF Kill, Goto

\* What is renamed over the binary is whole.
LEMMA RenameKeeps ==
  ASSUME UpdateInv, NEW u \in Updaters, Rename(u)
  PROVE  UpdateInv'
<1>1. update[u] \in Running /\ Fine(update[u]) /\ update[u].pc = "rename"
  BY DEF UpdateInv, Rename
<1>2. update[u].path \in Paths /\ update[u].temp \in Binary /\ (LossyClose \/ update[u].temp.whole)
  BY <1>1 DEF Fine
<1>3. MachineOK' /\ (LossyClose \/ BinaryIsWhole')
  BY <1>2, PutKeeps DEF UpdateInv, Rename
<1> DEFINE r == [update[u] EXCEPT !.pc = "ended", !.result = "updated", !.new = NoBinary,
                                  !.temp = NoBinary]
<1>4. r \in Running /\ r.pc = "ended" /\ r.temp = NoBinary
  BY <1>1 DEF Running, Steps
<1>5. Fine(r)
  BY <1>4 DEF Fine, Newer, Vouched, Unpacked
<1>6. update' = [update EXCEPT ![u] = r] /\ released' = released /\ installs' = installs
  BY DEF Rename, End, Become
<1> HIDE DEF r
<1>7. update' \in [Updaters -> Running]
  BY <1>4, <1>6 DEF UpdateInv
<1>8. ASSUME NEW v \in Updaters
      PROVE  Fine(update[v])'
  <2>1. update'[v] = IF v = u THEN r ELSE update[v]
    BY <1>6 DEF UpdateInv
  <2>2. Fine(update'[v])
    BY <1>5, <2>1 DEF UpdateInv
  <2> QED
    BY <1>6, <2>2 DEF Fine
<1> QED
  BY <1>3, <1>6, <1>7, <1>8 DEF UpdateInv

-----------------------------------------------------------------------------
LEMMA InitHolds == Init => UpdateInv
<1> SUFFICES ASSUME Init PROVE UpdateInv
  OBVIOUS
<1>1. PICK s \in Starts :
        /\ InstallInit([windows |-> s.windows, lock |-> s.lock, custom |-> s.custom])
        /\ installs = s.installs
        /\ update = [u \in Updaters |-> IF u \in s.runs THEN Waiting
                                        ELSE [Waiting EXCEPT !.pc = "ended"]]
  BY DEF Init
<1>2. s \in Start
  BY StartsAssumption
<1>3. [windows |-> s.windows, lock |-> s.lock, custom |-> s.custom]
        \in [windows: BOOLEAN, lock: BOOLEAN, custom: BOOLEAN]
  BY <1>2 DEF Start
<1>4. MachineOK /\ BinaryIsWhole
  <2>1. host \in [windows: BOOLEAN, lock: BOOLEAN, custom: BOOLEAN]
    BY <1>1, <1>3 DEF InstallInit
  <2>2. \A p \in Paths : files[p] = NoBinary
    BY <1>1 DEF InstallInit
  <2> QED
    BY <1>1, <2>1, <2>2 DEF InstallInit, MachineOK, BinaryIsWhole
<1>5. Waiting \in Running /\ Waiting.pc = "idle" /\ Waiting.temp = NoBinary
  BY DEF Waiting, Running, Steps
<1>6. [Waiting EXCEPT !.pc = "ended"] \in Running
  BY <1>5 DEF Running, Steps
<1>7. [Waiting EXCEPT !.pc = "ended"].pc = "ended" /\ [Waiting EXCEPT !.pc = "ended"].temp = NoBinary
  BY <1>5 DEF Running
<1>8. Fine(Waiting) /\ Fine([Waiting EXCEPT !.pc = "ended"])
  BY <1>5, <1>7 DEF Fine, Newer, Vouched, Unpacked
<1>9. update \in [Updaters -> Running] /\ \A u \in Updaters : Fine(update[u])
  BY <1>1, <1>5, <1>6, <1>8
<1>10. released \in Nat /\ installs \in Nat
  BY <1>1, <1>2 DEF Init, Start
<1> QED
  BY <1>4, <1>9, <1>10 DEF UpdateInv

LEMMA NextKeeps == UpdateInv /\ [Next]_vars => UpdateInv'
<1> SUFFICES ASSUME UpdateInv, [Next]_vars PROVE UpdateInv'
  OBVIOUS
<1>1. CASE NewRelease
  <2>1. released \in Nat /\ released' = released + 1 /\ UNCHANGED <<installVars, installs, update>>
    BY <1>1 DEF UpdateInv, NewRelease
  <2>2. ASSUME NEW u \in Updaters PROVE Fine(update[u])'
    <3>1. Fine(update[u]) /\ update[u].latest \in Nat
      BY DEF UpdateInv, Running
    <3>2. update[u].latest <= released => update[u].latest <= released'
      BY <2>1, <3>1
    <3> QED
      BY <2>1, <3>1, <3>2 DEF Fine
  <2>3. released' \in Nat
    BY <2>1
  <2> QED
    BY <2>1, <2>2, <2>3 DEF UpdateInv, MachineOK, BinaryIsWhole, installVars
<1>2. CASE UserInstalls
  BY <1>2, UserInstallsKeeps
<1>3. ASSUME NEW u \in Updaters, Step(u) PROVE UpdateInv'
  <2>1. ASSUME Fails(u) PROVE UpdateInv'
    BY <2>1, EndKeeps DEF Fails
  <2>2. ASSUME NEW good \in BOOLEAN, DownloadArchive(u, good) PROVE UpdateInv'
    BY <2>2, DownloadKeeps
  <2>3. ASSUME NEW sums \in {"lists", "other", "lacks"}, DownloadChecksums(u, sums) PROVE UpdateInv'
    BY <2>3, DownloadKeeps
  <2> QED
    BY <1>3, <2>1, <2>2, <2>3, StartKeeps, CheckKeeps, VerifyKeeps, ExtractKeeps, StatKeeps,
       CreateKeeps, FillKeeps, KillKeeps, RenameKeeps DEF Step
<1>4. CASE UNCHANGED vars
  BY <1>4 DEF UpdateInv, MachineOK, BinaryIsWhole, Fine, vars, installVars
<1> QED
  BY <1>1, <1>2, <1>3, <1>4 DEF Next

LEMMA UpdateInvariant == Spec => []UpdateInv
  BY InitHolds, NextKeeps, PTL DEF Spec

\* Every state of self-update is typed, and what ended cleaned up after itself.
THEOREM UpdateTypeCorrect == Spec => []UpdateTypeOK
<1>1. UpdateInv => UpdateTypeOK
  BY DEF UpdateInv, MachineOK, Fine, UpdateTypeOK
<1> QED
  BY <1>1, UpdateInvariant, PTL

\* If closing a file loses nothing, replaceBinary is atomic: no failure, kill,
\* damaged download or other update leaves half a binary.
THEOREM BinariesStayWhole ==
  ASSUME LossyClose = FALSE
  PROVE  Spec => []BinaryIsWhole
<1>1. UpdateInv => BinaryIsWhole
  BY DEF UpdateInv
<1> QED
  BY <1>1, UpdateInvariant, PTL

\* Only a rename makes an update an updated one.
LEMMA OnlyRenameUpdates ==
  ASSUME UpdateInv, NEW u \in Updaters, NEW v \in Updaters, Step(u), ~Rename(u),
         update'[v].result = "updated"
  PROVE  update[v].result = "updated"
<1>1. update \in [Updaters -> Running] /\ update[u] \in Running
  BY DEF UpdateInv
<1>2. CASE v # u
  <2>1. PICK r : Become(u, r)
    BY DEF Step, StartUpdate, CheckLatest, DownloadArchive, DownloadChecksums, VerifyChecksum,
       ExtractBinary, StatTarget, CreateTemp, FillTemp, Fails, Kill, Goto, End
  <2> QED
    BY <1>1, <1>2, <2>1 DEF Become
<1>3. CASE v = u
  <2> DEFINE Keeps(r) == r.result = update[u].result
                         \/ r.result \in {"dev", "managed-externally", "error", "up-to-date",
                                          "update-available"}
  <2>1. PICK r : Become(u, r) /\ Keeps(r)
    <3>1. ASSUME NEW path \in Paths, NEW force \in BOOLEAN, StartUpdate(u, path, force)
          PROVE  \E r : Become(u, r) /\ Keeps(r)
      <4> DEFINE begun == [update[u] EXCEPT !.path = path, !.force = force,
                                            !.current = files[path].release]
      <4>1. /\ Keeps([begun EXCEPT !.pc = "ended", !.result = "dev"])
            /\ Keeps([begun EXCEPT !.pc = "ended", !.result = "managed-externally"])
            /\ Keeps([begun EXCEPT !.pc = "check"])
        BY <1>1 DEF Running
      <4> QED
        BY <3>1, <4>1 DEF StartUpdate
    <3>2. ASSUME NEW dryRun \in BOOLEAN, CheckLatest(u, dryRun)
          PROVE  \E r : Become(u, r) /\ Keeps(r)
      <4> DEFINE checked == [update[u] EXCEPT !.latest = released]
      <4>1. /\ Keeps([checked EXCEPT !.pc = "ended", !.result = "up-to-date"])
            /\ Keeps([checked EXCEPT !.pc = "ended", !.result = "update-available"])
            /\ Keeps([checked EXCEPT !.pc = "archive"])
        BY <1>1 DEF Running
      <4> QED
        BY <3>2, <4>1 DEF CheckLatest
    <3>3. ASSUME NEW good \in BOOLEAN, DownloadArchive(u, good)
          PROVE  \E r : Become(u, r) /\ Keeps(r)
      <4>1. Keeps([update[u] EXCEPT !.pc = "sums", !.archive = good])
        BY <1>1 DEF Running
      <4> QED
        BY <3>3, <4>1 DEF DownloadArchive
    <3>4. ASSUME NEW sums \in {"lists", "other", "lacks"}, DownloadChecksums(u, sums)
          PROVE  \E r : Become(u, r) /\ Keeps(r)
      <4>1. Keeps([update[u] EXCEPT !.pc = "verify", !.sums = sums])
        BY <1>1 DEF Running
      <4> QED
        BY <3>4, <4>1 DEF DownloadChecksums
    <3>5. ASSUME NEW step, Goto(u, step)
          PROVE  \E r : Become(u, r) /\ Keeps(r)
      <4>1. Keeps([update[u] EXCEPT !.pc = step])
        BY <1>1 DEF Running
      <4> QED
        BY <3>5, <4>1 DEF Goto
    <3>6. ASSUME End(u, "error")
          PROVE  \E r : Become(u, r) /\ Keeps(r)
      <4>1. Keeps([update[u] EXCEPT !.pc = "ended", !.result = "error", !.new = NoBinary,
                                    !.temp = NoBinary])
        BY <1>1 DEF Running
      <4> QED
        BY <3>6, <4>1 DEF End
    <3>7. ASSUME ExtractBinary(u) \/ CreateTemp(u) \/ FillTemp(u)
          PROVE  \E r : Become(u, r) /\ Keeps(r)
      <4>1. \A binary : /\ Keeps([update[u] EXCEPT !.pc = "stat", !.new = binary])
                        /\ Keeps([update[u] EXCEPT !.pc = "fill", !.temp = binary])
                        /\ Keeps([update[u] EXCEPT !.pc = "rename", !.temp = binary])
        BY <1>1 DEF Running
      <4> HIDE DEF Keeps
      <4> QED
        BY <3>7, <4>1 DEF ExtractBinary, CreateTemp, FillTemp
    <3>8. VerifyChecksum(u) \/ StatTarget(u) \/ Kill(u) \/ Fails(u)
            => End(u, "error") \/ \E step : Goto(u, step)
      BY DEF VerifyChecksum, StatTarget, Kill, Fails
    <3> QED
      BY <3>1, <3>2, <3>3, <3>4, <3>5, <3>6, <3>7, <3>8 DEF Step
  <2> QED
    BY <1>1, <1>3, <2>1 DEF Become
<1> QED
  BY <1>2, <1>3

\* What an update puts in place of the binary is the verified, newer release.
THEOREM UpdatesAreVerified == Spec => InstalledIsVerified
<1> DEFINE Verifies ==
      \A u \in Updaters :
        update'[u].result = "updated" /\ update[u].result # "updated" =>
          /\ files'[update[u].path].release = update[u].latest
          /\ update[u].latest > update[u].current
          /\ update[u].latest <= released
          /\ update[u].archive /\ update[u].sums = "lists"
<1>1. UpdateInv /\ [Next]_vars => [Verifies]_vars
  <2> SUFFICES ASSUME UpdateInv, Next, NEW u \in Updaters,
                      update'[u].result = "updated", update[u].result # "updated"
               PROVE  /\ files'[update[u].path].release = update[u].latest
                      /\ update[u].latest > update[u].current
                      /\ update[u].latest <= released
                      /\ update[u].archive /\ update[u].sums = "lists"
    BY DEF Verifies
  <2>1. PICK v \in Updaters : Step(v)
    BY DEF Next, NewRelease, UserInstalls
  <2>2. Rename(v)
    BY <2>1, OnlyRenameUpdates
  <2>3. v = u
    BY <2>2 DEF Rename, End, Become, UpdateInv
  <2>4. Fine(update[u]) /\ update[u].pc = "rename"
    BY <2>2, <2>3 DEF UpdateInv, Rename
  <2>5. files'[update[u].path] = update[u].temp
    BY <2>2, <2>3, <2>4 DEF Rename, Put, UpdateInv, MachineOK, Fine
  <2> QED
    BY <2>4, <2>5 DEF Fine, Newer, Vouched
<1>2. InstalledIsVerified <=> [][Verifies]_vars
  BY DEF InstalledIsVerified
<1> HIDE DEF Verifies
<1> QED
  BY <1>1, <1>2, UpdateInvariant, PTL DEF Spec

-----------------------------------------------------------------------------
(* Who put a binary where it is.                                           *)

\* Every binary has an owner; brew and go install in their own directory only;
\* and the wheel that owns a path lists it, by its name or by what it holds.
Owned(p, o) ==
  /\ files[p] # NoBinary => o # "none"
  /\ o \in {"cellar", "gobin"} => p = o
  /\ o \in Sites =>
       /\ Installed(o)
       /\ \/ p = Script(o) /\ wheels[o].hash \in {files[p], NoBinary}
          \/ o = "pipx" /\ p = "local" /\ wheels[o].hash = files[p]
          \/ o = "uv" /\ (p = "local" \/ p = receipt) /\ wheels[o].hash = files[p]

Owners == \A p \in Paths : Owned(p, owner[p])

LEMMA OwnersInit == Init => Owners
<1> SUFFICES ASSUME Init PROVE Owners
  OBVIOUS
<1>1. PICK s \in Starts :
        InstallInit([windows |-> s.windows, lock |-> s.lock, custom |-> s.custom])
  BY DEF Init
<1>2. \A p \in Paths : files[p] = NoBinary /\ owner[p] = "none"
  BY <1>1 DEF InstallInit
<1> QED
  BY <1>2 DEF Owners, Owned, Sites

LEMMA OwnersPut ==
  ASSUME MachineOK, Owners, NEW path \in Paths, NEW binary \in Binary,
         NEW who \in {"cellar", "gobin", "release"}, who # "release" => path = who,
         Put(path, binary, who)
  PROVE  Owners'
<1> SUFFICES ASSUME NEW p \in Paths
             PROVE  Owned(p, owner[p])'
  BY DEF Owners
<1>1. UNCHANGED <<wheels, receipt>>
  BY DEF Put
<1>2. CASE p = path
  <2>1. owner'[p] = who /\ who \notin Sites
    BY <1>2 DEF Put, MachineOK, Sites
  <2> QED
    BY <1>2, <2>1 DEF Owned
<1>3. CASE p # path
  <2>1. owner'[p] = owner[p] /\ files'[p] = files[p]
    BY <1>3 DEF Put, MachineOK
  <2>2. Owned(p, owner[p])
    BY DEF Owners
  <2> QED
    BY <1>1, <2>1, <2>2 DEF Owned, Installed
<1> QED
  BY <1>2, <1>3

LEMMA OwnersWheelInstall ==
  ASSUME MachineOK, Owners, NEW site \in Sites, NEW installer \in {"pip", "uv", "unknown"},
         NEW entry \in Paths, NEW binary, WheelInstall(site, installer, binary, entry)
  PROVE  Owners'
<1> DEFINE wheel == [installer |-> installer,
                     hash |-> IF installer = "unknown" THEN NoBinary ELSE binary]
<1>1. wheels' = [wheels EXCEPT ![site] = wheel] /\ wheels \in [Sites -> Wheel \cup {NoWheel}]
  BY DEF WheelInstall, MachineOK
<1>2. wheel # NoWheel
  BY DEF NoWheel
<1>3. installer \in Installers(site) /\ entry \in EntryPoints(site)
  BY DEF WheelInstall
<1> SUFFICES ASSUME NEW p \in Paths
             PROVE  Owned(p, owner[p])'
  BY DEF Owners
<1>4. /\ owner'[p] = IF p \in {Script(site), entry} THEN site
                     ELSE IF Stale(site, p) THEN "none" ELSE owner[p]
      /\ files'[p] = IF p \in {Script(site), entry} THEN binary
                     ELSE IF Stale(site, p) THEN NoBinary ELSE files[p]
      /\ receipt' = IF site = "uv" THEN entry ELSE receipt
  BY DEF WheelInstall
<1>5. CASE p \in {Script(site), entry}
  <2>1. wheels'[site] = wheel /\ Installed(site)'
    BY <1>1, <1>2 DEF Installed
  <2>2. owner'[p] = site /\ files'[p] = binary
    BY <1>4, <1>5
  <2>3. wheels'[site].hash = IF installer = "unknown" THEN NoBinary ELSE binary
    BY <2>1
  <2>4. CASE p = Script(site)
    BY <2>1, <2>2, <2>3, <2>4 DEF Owned, Sites
  <2>5. CASE p = entry /\ entry # Script(site)
    <3>1. \/ site = "pipx" /\ entry = "local"
          \/ site = "uv" /\ entry \in {"local", "once"}
      BY <1>3, <2>5 DEF EntryPoints
    <3>2. installer # "unknown"
      BY <1>3, <3>1 DEF Installers
    <3> QED
      BY <1>4, <2>1, <2>2, <2>3, <2>5, <3>1, <3>2 DEF Owned, Sites
  <2> QED
    BY <1>5, <2>4, <2>5
<1>6. CASE p \notin {Script(site), entry} /\ Stale(site, p)
  BY <1>4, <1>6 DEF Owned, Sites
<1>7. CASE p \notin {Script(site), entry} /\ ~Stale(site, p)
  <2>1. owner'[p] = owner[p] /\ files'[p] = files[p] /\ Owned(p, owner[p])
    BY <1>4, <1>7 DEF Owners
  <2>2. owner[p] # site
    BY <1>7 DEF Stale
  <2>3. owner[p] \in Sites => wheels'[owner[p]] = wheels[owner[p]]
    BY <1>1, <2>2
  <2>4. owner[p] = "uv" => receipt' = receipt
    BY <1>4, <2>2
  <2> QED
    BY <2>1, <2>3, <2>4 DEF Owned, Installed
<1> QED
  BY <1>5, <1>6, <1>7

LEMMA OwnersWheelUninstall ==
  ASSUME MachineOK, Owners, NEW site \in Sites, WheelUninstall(site)
  PROVE  Owners'
<1> SUFFICES ASSUME NEW p \in Paths
             PROVE  Owned(p, owner[p])'
  BY DEF Owners
<1> DEFINE gone == p = Script(site) \/ Stale(site, p)
<1>1. /\ owner'[p] = (IF gone THEN "none" ELSE owner[p])
      /\ files'[p] = (IF gone THEN NoBinary ELSE files[p])
      /\ receipt' = IF site = "uv" THEN "none" ELSE receipt
  BY DEF WheelUninstall
<1>2. wheels' = [wheels EXCEPT ![site] = NoWheel] /\ wheels \in [Sites -> Wheel \cup {NoWheel}]
  BY DEF WheelUninstall, MachineOK
<1>3. CASE gone
  BY <1>1, <1>3 DEF Owned, Sites
<1>4. CASE ~gone
  <2>1. owner'[p] = owner[p] /\ files'[p] = files[p] /\ Owned(p, owner[p])
    BY <1>1, <1>4 DEF Owners
  <2>2. owner[p] # site
    BY <1>4 DEF Stale
  <2>3. owner[p] \in Sites => wheels'[owner[p]] = wheels[owner[p]]
    BY <1>2, <2>2
  <2>4. owner[p] = "uv" => receipt' = receipt
    BY <1>1, <2>2
  <2> QED
    BY <2>1, <2>3, <2>4 DEF Owned, Installed
<1> QED
  BY <1>3, <1>4

LEMMA OwnersKept == UpdateInv /\ Owners /\ [Next]_vars => Owners'
<1> SUFFICES ASSUME UpdateInv, Owners, [Next]_vars PROVE Owners'
  OBVIOUS
<1>1. MachineOK /\ released \in Nat
  BY DEF UpdateInv
<1>2. CASE UserInstalls
  <2>1. ASSUME NEW site \in Sites, NEW installer \in {"pip", "uv", "unknown"}, NEW entry \in Paths,
               NEW binary, WheelInstall(site, installer, binary, entry)
        PROVE  Owners'
    BY <1>1, <2>1, OwnersWheelInstall
  <2>2. ASSUME NEW site \in Sites, WheelUninstall(site) PROVE Owners'
    BY <1>1, <2>2, OwnersWheelUninstall
  <2>3. ASSUME NEW path \in Paths, NEW release \in 1 .. released,
               InstallBinary(path, release) \/ OtherInstall(path, release)
        PROVE  Owners'
    <3>1. \A build \in {"archive", "source"} :
            [release |-> release, build |-> build, whole |-> TRUE] \in Binary
      BY <1>1 DEF Binary
    <3> QED
      BY <1>1, <2>3, <3>1, OwnersPut DEF InstallBinary, OtherInstall
  <2>4. ASSUME NEW binary \in Binary, CopyByHand(binary) PROVE Owners'
    <3>1. "tools" \in Paths
      BY DEF Paths
    <3> QED
      BY <1>1, <2>4, <3>1, OwnersPut DEF CopyByHand
  <2>5. \A path \in Paths : files[path] # NoBinary => files[path] \in Binary
    BY <1>1 DEF MachineOK
  <2>6. [release |-> 0, build |-> "source", whole |-> TRUE] \in Binary
    BY DEF Binary
  <2> QED
    BY <1>2, <2>1, <2>2, <2>3, <2>4, <2>5, <2>6 DEF UserInstalls
<1>3. ASSUME NEW u \in Updaters, Step(u) PROVE Owners'
  <2>1. CASE Rename(u)
    <3>1. update[u].path \in Paths /\ update[u].temp \in Binary
      BY <2>1 DEF UpdateInv, Fine, Rename
    <3> QED
      BY <1>1, <2>1, <3>1, OwnersPut DEF Rename
  <2>2. CASE ~Rename(u)
    <3>1. UNCHANGED installVars
      BY <1>3, <2>2 DEF Step, StartUpdate, CheckLatest, DownloadArchive, DownloadChecksums,
         VerifyChecksum, ExtractBinary, StatTarget, CreateTemp, FillTemp, Fails, Kill, Elsewhere
    <3> QED
      BY <3>1 DEF installVars, Owners, Owned, Installed
  <2> QED
    BY <2>1, <2>2
<1>4. CASE NewRelease \/ UNCHANGED vars
  BY <1>4 DEF NewRelease, vars, installVars, Owners, Owned, Installed
<1> QED
  BY <1>2, <1>3, <1>4 DEF Next

LEMMA WheelFields ==
  ASSUME NEW r, NEW site, NEW tool, r = [site |-> site, tool |-> tool]
  PROVE  r.site = site /\ r.tool = tool
  OBVIOUS

\* The wheel that self-update finds for a binary lists it.
LEMMA FoundWheel ==
  ASSUME NEW p \in Paths, files[p] # NoBinary, FindWheelInstall(p).site # "none"
  PROVE  LET found == FindWheelInstall(p)
         IN /\ found.site \in Sites /\ Installed(found.site) /\ LooksLike(p, found.site)
            /\ found.tool = "pipx" => found.site = "pipx"
            /\ found.tool = "uv-tool" => found.site = "uv"
            /\ found.tool \in {"", "pipx", "uv-tool"}
<1> DEFINE beside == {s \in Sites : RecordListsFile(s, p, FALSE)}
<1>1. CASE beside # {}
  <2>1. PICK s \in beside : FindWheelInstall(p) = [site |-> s, tool |-> ""]
    BY <1>1 DEF FindWheelInstall
  <2>2. s \in Sites /\ Installed(s) /\ LooksLike(p, s)
    BY <2>1 DEF RecordListsFile, LooksLike
  <2>3. FindWheelInstall(p).site = s /\ FindWheelInstall(p).tool = ""
    BY <2>1, WheelFields, Zenon
  <2> QED
    BY <2>2, <2>3
<1>2. CASE beside = {}
  <2>1. FindWheelInstall(p) = CopyOf(p)
    BY <1>2 DEF FindWheelInstall
  <2>2. \/ /\ CopyOf(p) = [site |-> "pipx", tool |-> "pipx"]
           /\ RecordListsFile("pipx", p, TRUE)
        \/ /\ CopyOf(p) = [site |-> "uv", tool |-> "uv-tool"]
           /\ RecordListsFile("uv", p, TRUE)
        \/ CopyOf(p) = [site |-> "none", tool |-> ""]
    BY DEF CopyOf
  <2>3. \A s \in Sites : RecordListsFile(s, p, TRUE) => Installed(s) /\ LooksLike(p, s)
    BY DEF RecordListsFile, LooksLike
  <2>4. "pipx" \in Sites /\ "uv" \in Sites
    BY DEF Sites
  <2>5. \/ /\ FindWheelInstall(p).site = "pipx" /\ FindWheelInstall(p).tool = "pipx"
           /\ RecordListsFile("pipx", p, TRUE)
        \/ /\ FindWheelInstall(p).site = "uv" /\ FindWheelInstall(p).tool = "uv-tool"
           /\ RecordListsFile("uv", p, TRUE)
    <3>1. CASE CopyOf(p) = [site |-> "none", tool |-> ""]
      BY <2>1, <3>1, WheelFields, Zenon
    <3>2. CASE /\ CopyOf(p) = [site |-> "pipx", tool |-> "pipx"]
               /\ RecordListsFile("pipx", p, TRUE)
      BY <2>1, <3>2, WheelFields
    <3>3. CASE /\ CopyOf(p) = [site |-> "uv", tool |-> "uv-tool"]
               /\ RecordListsFile("uv", p, TRUE)
      BY <2>1, <3>3, WheelFields
    <3> QED
      BY <2>2, <3>1, <3>2, <3>3
  <2> QED
    BY <2>3, <2>4, <2>5
<1> QED
  BY <1>1, <1>2

\* The command or the rename that upgrades a binary reaches it: detectInstallMethod
\* names who put the binary there, or one whose wheel holds the same bytes.
THEOREM UpgradesReach == Spec => []UpgradeReachesBinary
<1>1. Owners /\ UpdateInv => UpgradeReachesBinary
  <2> SUFFICES ASSUME Owners, UpdateInv, NEW p \in Paths, files[p] # NoBinary
               PROVE  \/ UpdateReaches(p) = owner[p]
                      \/ /\ UpdateReaches(p) \in Sites /\ Installed(UpdateReaches(p))
                         /\ LooksLike(p, UpdateReaches(p))
                      \/ UpdateReaches(p) = p
    BY DEF UpgradeReachesBinary
  <2> DEFINE found == FindWheelInstall(p)
             method == DetectInstallMethod(p)
  <2>1. CASE found.site # "none"
    <3>1. /\ found.site \in Sites /\ Installed(found.site) /\ LooksLike(p, found.site)
          /\ found.tool = "pipx" => found.site = "pipx"
          /\ found.tool = "uv-tool" => found.site = "uv"
          /\ found.tool \in {"", "pipx", "uv-tool"}
      BY <2>1, FoundWheel
    <3>2. method = WheelMethod(found)
      BY <2>1 DEF DetectInstallMethod
    <3> HIDE DEF found
    <3>3. \/ method = "pipx" /\ found.site = "pipx"
          \/ method = "uv-tool" /\ found.site = "uv"
          \/ method \in {"pip", "uv-pip", "uv-project"}
      BY <3>1, <3>2 DEF WheelMethod, ToolOf
    <3> HIDE DEF method
    <3>4. UpdateReaches(p) = found.site
      BY <3>3 DEF UpdateReaches, found, method
    <3> QED
      BY <3>1, <3>4
  <2>2. CASE found.site = "none"
    <3>1. CASE p \in {"cellar", "gobin"}
      BY <2>2, <3>1 DEF UpdateReaches, DetectInstallMethod
    <3>2. CASE p \notin {"cellar", "gobin"}
      <4>1. UpdateReaches(p) = "release"
        BY <2>2, <3>2 DEF UpdateReaches, DetectInstallMethod
      <4>2. owner[p] \notin Sites
        <5> SUFFICES ASSUME owner[p] \in Sites PROVE FALSE
          OBVIOUS
        <5>1. \A s \in Sites : ~RecordListsFile(s, p, FALSE)
          <6> SUFFICES ASSUME NEW s \in Sites, RecordListsFile(s, p, FALSE)
                       PROVE  FALSE
            OBVIOUS
          <6>1. {t \in Sites : RecordListsFile(t, p, FALSE)} # {}
            OBVIOUS
          <6>2. found.site \in {t \in Sites : RecordListsFile(t, p, FALSE)}
            BY <6>1 DEF FindWheelInstall
          <6> QED
            BY <2>2, <6>2 DEF Sites
        <5>2. found = CopyOf(p)
          BY <5>1 DEF FindWheelInstall
        <5>3. CopyOf(p).site = "none" =>
                /\ ~(InBin(p) /\ RecordListsFile("pipx", p, TRUE))
                /\ ~((InBin(p) \/ receipt = p) /\ RecordListsFile("uv", p, TRUE))
          BY DEF CopyOf
        <5>4. Owned(p, owner[p])
          BY DEF Owners
        <5> QED
          BY <2>2, <5>1, <5>2, <5>3, <5>4 DEF Owned, RecordListsFile, InBin
      <4>3. owner[p] = "release"
        <5>1. owner[p] \in Sites \cup {"cellar", "gobin", "release", "none"}
          BY DEF UpdateInv, MachineOK
        <5> QED
          BY <3>2, <4>2, <5>1 DEF Owners, Owned
      <4> QED
        BY <4>1, <4>3
    <3> QED
      BY <3>1, <3>2
  <2> QED
    BY <2>1, <2>2
<1> QED
  BY <1>1, OwnersInit, OwnersKept, InitHolds, NextKeeps, PTL DEF Spec
=============================================================================
