---------------------------- MODULE SandboxProofs ----------------------------
(***************************************************************************)
(* Proofs about sandboxes: what `start' and `create --console' wait for    *)
(* (Sandboxes), the questions to the ssh-agent that a console carries      *)
(* (SshAgentForward), and the blocks that `ssh-setup' writes (SshConfig);  *)
(* and about the wait of the connector for its next carrier                *)
(* (ConnectorService). The lemmas on numbers and sequences are in          *)
(* QueryProofs.                                                            *)
(*                                                                         *)
(* A run that polls may meet any status and miss others: what makes        *)
(* ReadyWasMet inductive is that no sandbox is ready while someone polls   *)
(* it who has not met that.  A question is on its way through five places; *)
(* what makes NoQuestionIsLost inductive is what each place implies of the *)
(* others: who reads a connection, that one is closed only after its       *)
(* channel was, and that a reader that ended said so.  A setup edits one   *)
(* block because the lines of boxes are always in blocks of three.         *)
(***************************************************************************)
EXTENDS Sandboxes, SshAgentForward, SshConfig, ConnectorService, QueryProofs

-----------------------------------------------------------------------------
(* The wait for a sandbox.                                                 *)

BoxStatus == {"absent", "provisioning", "ready", "failed", "stopped"}

WaitSteps == {"start", "poll", "ready", "done", "console", "failed"}

BoxesTyped ==
  /\ boxes \in [BoxNames -> [status : BoxStatus, life : Nat]]
  /\ lives \in Nat
  /\ cmds \in [Runs -> [pc : WaitSteps, name : BoxNames \cup {NoName}, opens : BOOLEAN,
                        met : SUBSET {"provisioning", "ready", "failed"}]]

\* Whoever polls a sandbox that is ready has met it so; whoever goes on has.
Met ==
  \A r \in Runs :
    /\ cmds[r].pc \in {"poll", "ready"} => cmds[r].name \in BoxNames
    /\ cmds[r].pc = "poll" /\ boxes[cmds[r].name].status = "ready" => "ready" \in cmds[r].met
    /\ cmds[r].pc = "ready" => "ready" \in cmds[r].met

WaitInv == BoxesTyped /\ Met

Cmd ==
  [pc : WaitSteps, name : BoxNames \cup {NoName}, opens : BOOLEAN,
   met : SUBSET {"provisioning", "ready", "failed"}]

Box == [status : BoxStatus, life : Nat]

\* A run goes on to k, and no sandbox becomes ready by that.
LEMMA BoxRunGoesOn ==
  ASSUME WaitInv, NEW r \in Runs, NEW k \in Cmd, cmds' = [cmds EXCEPT ![r] = k],
         boxes' \in [BoxNames -> Box], lives' \in Nat,
         \A n \in BoxNames : boxes'[n].status = "ready" => boxes[n].status = "ready",
         k.pc \in {"poll", "ready"} => k.name \in BoxNames,
         k.pc = "poll" /\ boxes'[k.name].status = "ready" => "ready" \in k.met,
         k.pc = "ready" => "ready" \in k.met
  PROVE  WaitInv'
<1>1. cmds \in [Runs -> Cmd]
  BY DEF WaitInv, BoxesTyped, Cmd
<1>2. cmds' \in [Runs -> Cmd] /\ \A q \in Runs : cmds'[q] = IF q = r THEN k ELSE cmds[q]
  BY <1>1
<1>3. BoxesTyped'
  BY <1>2 DEF BoxesTyped, Cmd, Box
<1>4. Met'
  BY <1>2 DEF Met, WaitInv
<1> QED
  BY <1>3, <1>4 DEF WaitInv

\* A run that ends waits for nothing.
LEMMA RunEnds ==
  ASSUME WaitInv, NEW r \in Runs, NEW outcome \in {"done", "console", "failed"}, EndRun(r, outcome),
         boxes' \in [BoxNames -> Box], lives' \in Nat,
         \A n \in BoxNames : boxes'[n].status = "ready" => boxes[n].status = "ready"
  PROVE  WaitInv'
<1> DEFINE k == [NotStartedYet EXCEPT !.pc = outcome]
<1>1. k \in Cmd /\ k.pc = outcome
  BY DEF NotStartedYet, Cmd, WaitSteps
<1>2. cmds' = [cmds EXCEPT ![r] = k]
  BY DEF EndRun
<1> HIDE DEF k
<1> QED
  BY <1>1, <1>2, BoxRunGoesOn

LEMMA BoxesTypes ==
  ASSUME WaitInv
  PROVE  boxes \in [BoxNames -> Box] /\ lives \in Nat /\ cmds \in [Runs -> Cmd]
  BY DEF WaitInv, BoxesTyped, Box, Cmd

\* The server: who polls a sandbox that becomes ready meets it so.
LEMMA ProvisionedKeeps ==
  ASSUME WaitInv, NEW n \in BoxNames, Provisioned(n)
  PROVE  WaitInv'
<1>1. boxes \in [BoxNames -> Box] /\ lives' \in Nat /\ cmds \in [Runs -> Cmd]
  BY BoxesTypes DEF Provisioned
<1>2. PICK status \in {"ready", "failed"} :
        /\ boxes' = [boxes EXCEPT ![n].status = status]
        /\ cmds' = [r \in Runs |-> IF r \in Polling(n) THEN [cmds[r] EXCEPT !.met = @ \cup {status}] ELSE cmds[r]]
  BY DEF Provisioned
<1>3. /\ boxes' \in [BoxNames -> Box]
      /\ \A m \in BoxNames : boxes'[m].status = IF m = n THEN status ELSE boxes[m].status
  BY <1>1, <1>2 DEF Box, BoxStatus
<1>4. ASSUME NEW r \in Runs
      PROVE  /\ cmds'[r] \in Cmd /\ cmds'[r].pc = cmds[r].pc /\ cmds'[r].name = cmds[r].name
             /\ cmds[r].met \subseteq cmds'[r].met
             /\ cmds[r].pc = "poll" /\ cmds[r].name = n => status \in cmds'[r].met
  BY <1>1, <1>2 DEF Cmd, Polling
<1>5. cmds' \in [Runs -> Cmd]
  BY <1>2, <1>4
<1>6. BoxesTyped'
  BY <1>1, <1>3, <1>5 DEF BoxesTyped, Box, Cmd
<1>7. Met'
  BY <1>3, <1>4 DEF Met, WaitInv
<1> QED
  BY <1>6, <1>7 DEF WaitInv

\* `create' makes a sandbox under a name nothing was under.
LEMMA CreateKeeps ==
  ASSUME WaitInv, NEW r \in Runs, NEW in, Create(r, in)
  PROVE  WaitInv'
<1>1. boxes \in [BoxNames -> Box] /\ lives \in Nat /\ lives' = lives + 1 /\ cmds \in [Runs -> Cmd]
  BY BoxesTypes DEF Create
<1>2. PICK n \in BoxNames :
        /\ boxes' = [boxes EXCEPT ![n] = [status |-> "provisioning", life |-> lives + 1]]
        /\ \/ cmds' = [cmds EXCEPT ![r] = [pc |-> "poll", name |-> n, opens |-> ~ConsoleFails(in), met |-> {"provisioning"}]]
           \/ EndRun(r, "done")
  BY DEF Create
<1>3. /\ boxes' \in [BoxNames -> Box] /\ boxes'[n].status = "provisioning"
      /\ \A m \in BoxNames : boxes'[m].status = "ready" => boxes[m].status = "ready"
  BY <1>1, <1>2 DEF Box, BoxStatus
<1>4. CASE EndRun(r, "done")
  BY <1>1, <1>3, <1>4, RunEnds
<1>5. CASE cmds' = [cmds EXCEPT ![r] = [pc |-> "poll", name |-> n, opens |-> ~ConsoleFails(in), met |-> {"provisioning"}]]
  <2> DEFINE k == [pc |-> "poll", name |-> n, opens |-> ~ConsoleFails(in), met |-> {"provisioning"}]
  <2>1. (~ConsoleFails(in)) = TRUE \/ (~ConsoleFails(in)) = FALSE
    BY Zenon
  <2>2. k \in Cmd /\ k.pc = "poll" /\ k.name = n
    BY <2>1 DEF Cmd, WaitSteps
  <2>3. cmds' = [cmds EXCEPT ![r] = k]
    BY <1>5
  <2> HIDE DEF k
  <2>4. boxes'[k.name].status # "ready" /\ k.pc # "ready" /\ k.name \in BoxNames /\ lives' \in Nat
    BY <1>1, <1>3, <2>2
  <2> QED
    BY <1>3, <2>2, <2>3, <2>4, BoxRunGoesOn
<1> QED
  BY <1>2, <1>4, <1>5

\* `start' asks for the sandbox and meets what the answer says.
LEMMA StartBoxKeeps ==
  ASSUME WaitInv, NEW r \in Runs, NEW in, StartBox(r, in)
  PROVE  WaitInv'
<1>1. boxes \in [BoxNames -> Box] /\ lives' \in Nat /\ cmds \in [Runs -> Cmd] /\ in.name \in BoxNames
  BY BoxesTypes DEF StartBox, BoxExists
<1> DEFINE status == IF boxes[in.name].status = "ready" THEN "ready" ELSE "provisioning"
           k == [pc |-> "poll", name |-> in.name, opens |-> FALSE, met |-> {status}]
<1>2. boxes' = [boxes EXCEPT ![in.name].status = status] /\ cmds' = [cmds EXCEPT ![r] = k]
  BY DEF StartBox
<1>3. /\ boxes' \in [BoxNames -> Box] /\ boxes'[in.name].status = status
      /\ \A m \in BoxNames : boxes'[m].status = "ready" => boxes[m].status = "ready"
  BY <1>1, <1>2 DEF Box, BoxStatus
<1>4. k \in Cmd /\ k.pc = "poll" /\ k.name = in.name /\ k.met = {status}
  BY <1>1 DEF Cmd, WaitSteps
<1> HIDE DEF k
<1>5. boxes'[k.name].status = "ready" => "ready" \in k.met
  BY <1>3, <1>4
<1> HIDE DEF status
<1> QED
  BY <1>1, <1>2, <1>3, <1>4, <1>5, BoxRunGoesOn

LEMMA PollBoxKeeps ==
  ASSUME WaitInv, NEW r \in Runs, PollBox(r)
  PROVE  WaitInv'
<1>1. boxes' \in [BoxNames -> Box] /\ boxes' = boxes /\ lives' \in Nat /\ cmds \in [Runs -> Cmd]
  BY BoxesTypes DEF PollBox
<1>2. CASE EndRun(r, "failed")
  BY <1>1, <1>2, RunEnds
<1>3. CASE boxes[cmds[r].name].status = "ready" /\ cmds' = [cmds EXCEPT ![r].pc = "ready"]
  <2> DEFINE k == [cmds[r] EXCEPT !.pc = "ready"]
  <2>1. cmds[r].name \in BoxNames /\ "ready" \in cmds[r].met
    BY <1>3 DEF PollBox, WaitInv, Met
  <2>2. k \in Cmd /\ k.pc = "ready" /\ k.name = cmds[r].name /\ k.met = cmds[r].met
    BY <1>1 DEF Cmd, WaitSteps
  <2>3. cmds' = [cmds EXCEPT ![r] = k]
    BY <1>1, <1>3
  <2> HIDE DEF k
  <2> QED
    BY <1>1, <2>1, <2>2, <2>3, BoxRunGoesOn
<1> QED
  BY <1>2, <1>3 DEF PollBox

\* The other commands end with their request.
LEMMA RequestEnds ==
  ASSUME WaitInv, NEW r \in Runs, NEW in,
         \/ Refused(r) \/ AfterWait(r)
         \/ UpdateBox(r, in) \/ StopBox(r, in) \/ DeleteBox(r, in)
         \/ OpenConsole(r, in) \/ Exec(r, in) \/ Tunnel(r, in) \/ ServiceURL(r, in) \/ DownloadURL(r, in)
         \/ CaptureSnapshot(r, in) \/ BuildSnapshot(r, in) \/ DeleteSnapshot(r, in)
  PROVE  WaitInv'
<1>1. boxes \in [BoxNames -> Box] /\ lives' \in Nat
  BY BoxesTypes DEF Refused, AfterWait, Requests, UpdateBox, StopBox, DeleteBox, OpenConsole, Exec,
     Tunnel, ServiceURL, DownloadURL, CaptureSnapshot, BuildSnapshot, DeleteSnapshot
<1>2. PICK outcome \in {"done", "console", "failed"} : EndRun(r, outcome)
  BY DEF Refused, AfterWait, Requests, UpdateBox, StopBox, DeleteBox, OpenConsole, Exec,
     Tunnel, ServiceURL, DownloadURL, CaptureSnapshot, BuildSnapshot, DeleteSnapshot
<1>3. \/ boxes' = boxes
      \/ \E n \in BoxNames : boxes' = [boxes EXCEPT ![n].status = "stopped"]
      \/ \E n \in BoxNames : boxes' = [boxes EXCEPT ![n] = NoBox]
  BY DEF Refused, AfterWait, Requests, UpdateBox, StopBox, DeleteBox, OpenConsole, Exec, BoxExists,
     Tunnel, ServiceURL, DownloadURL, CaptureSnapshot, BuildSnapshot, DeleteSnapshot
<1>4. boxes' \in [BoxNames -> Box]
      /\ \A m \in BoxNames : boxes'[m].status = "ready" => boxes[m].status = "ready"
  BY <1>1, <1>3 DEF Box, BoxStatus, NoBox
<1> QED
  BY <1>1, <1>2, <1>4, RunEnds

\* When `start' or `create --console' goes on, its sandbox was ready at some
\* time since the command's own request, whatever others did to it meanwhile.
THEOREM WaitsEndReady == BoxSpec => []ReadyWasMet
<1>1. BoxInit => WaitInv
  BY DEF BoxInit, WaitInv, BoxesTyped, Met, NoBox, NotStartedYet, BoxStatus, WaitSteps
<1>2. WaitInv /\ [BoxNext]_boxVars => WaitInv'
  <2> SUFFICES ASSUME WaitInv, [BoxNext]_boxVars PROVE WaitInv'
    OBVIOUS
  <2>1. ASSUME NEW n \in BoxNames, Provisioned(n) PROVE WaitInv'
    BY <2>1, ProvisionedKeeps
  <2>2. CASE UNCHANGED <<boxes, lives, cmds>>
    BY <2>2 DEF WaitInv, BoxesTyped, Met
  <2>3. ASSUME NEW r \in Runs, Refused(r) \/ PollBox(r) \/ AfterWait(r) PROVE WaitInv'
    BY <2>3, PollBoxKeeps, RequestEnds
  <2>4. ASSUME NEW r \in Runs, NEW in \in BoxInputs,
               \/ Create(r, in) \/ StartBox(r, in) \/ UpdateBox(r, in) \/ StopBox(r, in) \/ DeleteBox(r, in)
               \/ OpenConsole(r, in) \/ Exec(r, in) \/ Tunnel(r, in) \/ ServiceURL(r, in) \/ DownloadURL(r, in)
               \/ CaptureSnapshot(r, in) \/ BuildSnapshot(r, in) \/ DeleteSnapshot(r, in)
        PROVE  WaitInv'
    BY <2>4, CreateKeeps, StartBoxKeeps, RequestEnds
  <2> QED
    BY <2>1, <2>2, <2>3, <2>4 DEF BoxNext, SnapshotBuilt, boxVars
<1>3. WaitInv => ReadyWasMet
  BY DEF WaitInv, Met, ReadyWasMet
<1> QED
  BY <1>1, <1>2, <1>3, PTL DEF BoxSpec
-----------------------------------------------------------------------------
(* The questions to the ssh-agent.                                         *)

Conn == [listed : BOOLEAN, state : {"none", "open", "dead", "closed"}, question : BOOLEAN, answer : BOOLEAN]

AgentTypes ==
  /\ remote \in [Channels -> {"new", "waiting", "open", "closed"}]
  /\ toCli \in Seq(Message) /\ toBox \in Seq(Message)
  /\ callback \in Channels \cup {"none"}
  /\ conns \in [Channels -> Conn]
  /\ reader \in [Channels -> {"none", "reading", "sending", "done"}]

\* A program that waits for the ssh-agent does not wait for nothing.
OnItsWay(c) ==
  \/ Contains(toCli, Data(c)) \/ callback = c
  \/ conns[c].question \/ conns[c].answer
  \/ reader[c] = "sending"
  \/ reader[c] = "reading" /\ conns[c].state = "dead"
  \/ Contains(toBox, Data(c)) \/ Contains(toBox, Close(c))
  \/ c \in undialed

\* What the table, the connection and its reader say of each other.
ConnSound(c) ==
  /\ conns[c].question => conns[c].state = "open"
  /\ conns[c].listed => conns[c].state \in {"open", "dead"}
  /\ callback = c => conns[c].state # "none"
  /\ conns[c].state = "open" => reader[c] \in {"reading", "sending"}
  /\ conns[c].state = "dead" => reader[c] # "none"

\* What ends on one side of a channel ended on the other, or is told to it.
EndsAgree(c) ==
  /\ conns[c].state = "closed" => remote[c] = "closed"
  /\ Contains(toCli, Close(c)) => remote[c] = "closed"
  /\ reader[c] = "done" => remote[c] = "closed" \/ Contains(toBox, Close(c))

Followed(c) ==
  /\ ConnSound(c)
  /\ EndsAgree(c)
  /\ remote[c] = "waiting" => OnItsWay(c)

AgentInv == console # "ended" => AgentTypes /\ \A c \in Channels : Followed(c)

\* A stream that carries one message more, or whose first is taken.
LEMMA AppendContains ==
  ASSUME NEW S, NEW s \in Seq(S), NEW m \in S, NEW e
  PROVE  Append(s, m) \in Seq(S) /\ (Contains(Append(s, m), e) <=> Contains(s, e) \/ e = m)
<1>1. Append(s, m) \in Seq(S) /\ Len(Append(s, m)) = Len(s) + 1 /\ Len(s) \in Nat
  OBVIOUS
<1>2. \A i \in 1 .. Len(s) : Append(s, m)[i] = s[i]
  OBVIOUS
<1>3. Append(s, m)[Len(s) + 1] = m
  OBVIOUS
<1> DEFINE t == Append(s, m)
<1>4. 1 .. Len(t) = (1 .. Len(s)) \cup {Len(s) + 1}
  BY <1>1
<1> HIDE DEF t
<1>5. Contains(t, e) <=> \E i \in 1 .. Len(t) : t[i] = e
  BY DEF Contains
<1>6. Contains(s, e) <=> \E i \in 1 .. Len(s) : s[i] = e
  BY DEF Contains
<1>7. /\ \A i \in 1 .. Len(s) : t[i] = s[i]
      /\ t[Len(s) + 1] = m
  BY <1>2, <1>3 DEF t
<1>8. Contains(t, e) <=> Contains(s, e) \/ e = m
  BY <1>4, <1>5, <1>6, <1>7
<1> QED
  BY <1>1, <1>8 DEF t

LEMMA HeadTailContains ==
  ASSUME NEW S, NEW s \in Seq(S), s # <<>>, NEW e
  PROVE  Head(s) \in S /\ Tail(s) \in Seq(S) /\ (Contains(s, e) <=> Contains(Tail(s), e) \/ e = Head(s))
<1>1. Head(s) \in S /\ Tail(s) \in Seq(S) /\ Len(Tail(s)) = Len(s) - 1 /\ Len(s) \in Nat \ {0} /\ Head(s) = s[1]
  OBVIOUS
<1>2. \A i \in 1 .. Len(s) - 1 : Tail(s)[i] = s[i + 1]
  OBVIOUS
<1> DEFINE t == Tail(s)
<1>3. t \in Seq(S) /\ Len(t) = Len(s) - 1 /\ \A i \in 1 .. Len(t) : t[i] = s[i + 1]
  BY <1>1, <1>2
<1> HIDE DEF t
<1>4. Contains(t, e) <=> \E i \in 1 .. Len(t) : t[i] = e
  BY DEF Contains
<1>5. Contains(s, e) <=> \E i \in 1 .. Len(s) : s[i] = e
  BY DEF Contains
<1>6. ASSUME Contains(t, e) PROVE Contains(s, e)
  <2>1. PICK i \in 1 .. Len(t) : s[i + 1] = e
    BY <1>3, <1>4, <1>6
  <2>2. i + 1 \in 1 .. Len(s)
    BY <1>1, <1>3, <2>1
  <2> QED
    BY <1>5, <2>1, <2>2
<1>7. ASSUME Contains(s, e), e # Head(s) PROVE Contains(t, e)
  <2>1. PICK i \in 1 .. Len(s) : s[i] = e
    BY <1>5, <1>7
  <2>2. i # 1
    BY <1>1, <1>7, <2>1
  <2>3. i - 1 \in 1 .. Len(t) /\ t[i - 1] = s[(i - 1) + 1] /\ (i - 1) + 1 = i
    BY <1>1, <1>3, <2>1, <2>2
  <2> QED
    BY <1>4, <2>1, <2>3
<1>8. Head(s) = e => Contains(s, e)
  BY <1>1, <1>5
<1> QED
  BY <1>1, <1>6, <1>7, <1>8 DEF t

LEMMA Messages ==
  /\ \A c \in Channels : Data(c) \in Message /\ Close(c) \in Message
  /\ \A c, d \in Channels : Data(c) # Close(d) /\ (Data(c) = Data(d) <=> c = d) /\ (Close(c) = Close(d) <=> c = d)
  /\ \A m \in Message : m.on \in Channels /\ m.kind \in {"data", "close"}
       /\ m = IF m.kind = "data" THEN Data(m.on) ELSE Close(m.on)
<1>1. \A c \in Channels : Data(c) \in Message /\ Close(c) \in Message
  BY DEF Message, Data, Close
<1>2. ASSUME NEW c \in Channels, NEW d \in Channels
      PROVE  Data(c) # Close(d) /\ (Data(c) = Data(d) <=> c = d) /\ (Close(c) = Close(d) <=> c = d)
  <2>1. Data(c).kind = "data" /\ Close(d).kind = "close" /\ Data(c).on = c /\ Data(d).on = d
        /\ Close(c).on = c /\ Close(d).on = d
    BY DEF Data, Close
  <2> QED
    BY <2>1
<1>3. ASSUME NEW m \in Message
      PROVE  m.on \in Channels /\ m.kind \in {"data", "close"} /\ m = IF m.kind = "data" THEN Data(m.on) ELSE Close(m.on)
  BY DEF Message, Data, Close
<1> QED
  BY <1>1, <1>2, <1>3

\* The programs in the sandbox.
LEMMA AskKeeps ==
  ASSUME AgentInv, NEW c \in Channels, Ask(c)
  PROVE  AgentInv'
<1>1. AgentTypes /\ \A d \in Channels : Followed(d)
  BY DEF AgentInv, Ask
<1>2. /\ toCli' = Append(toCli, Data(c)) /\ toCli \in Seq(Message)
      /\ \A d \in Channels : remote'[d] = IF d = c THEN "waiting" ELSE remote[d]
      /\ remote' \in [Channels -> {"new", "waiting", "open", "closed"}]
  BY <1>1 DEF Ask, AgentTypes
<1>3. toCli' \in Seq(Message)
      /\ \A d \in Channels : /\ Contains(toCli', Data(d)) <=> Contains(toCli, Data(d)) \/ d = c
                             /\ Contains(toCli', Close(d)) <=> Contains(toCli, Close(d))
  BY <1>2, Messages, AppendContains
<1>4. AgentTypes'
  BY <1>1, <1>2, <1>3 DEF AgentTypes, Ask
<1>5. ASSUME NEW d \in Channels PROVE Followed(d)'
  <2>1. UNCHANGED <<toBox, callback, conns, reader, undialed>> /\ remote[c] # "closed"
    BY DEF Ask
  <2>2. Followed(d)
    BY <1>1
  <2>3. ConnSound(d)'
    BY <2>1, <2>2 DEF Followed, ConnSound
  <2>4. EndsAgree(d)'
    BY <1>2, <1>3, <2>1, <2>2 DEF Followed, EndsAgree
  <2>5. (remote[d] = "waiting" => OnItsWay(d))'
    BY <1>2, <1>3, <2>1, <2>2 DEF Followed, OnItsWay
  <2> QED
    BY <2>3, <2>4, <2>5 DEF Followed
<1> QED
  BY <1>4, <1>5 DEF AgentInv

LEMMA HangUpKeeps ==
  ASSUME AgentInv, NEW c \in Channels, HangUp(c)
  PROVE  AgentInv'
<1>1. AgentTypes /\ \A d \in Channels : Followed(d)
  BY DEF AgentInv, HangUp
<1>2. /\ toCli' = Append(toCli, Close(c)) /\ toCli \in Seq(Message)
      /\ \A d \in Channels : remote'[d] = IF d = c THEN "closed" ELSE remote[d]
      /\ remote' \in [Channels -> {"new", "waiting", "open", "closed"}]
  BY <1>1 DEF HangUp, AgentTypes
<1>3. toCli' \in Seq(Message)
      /\ \A d \in Channels : /\ Contains(toCli', Data(d)) <=> Contains(toCli, Data(d))
                             /\ Contains(toCli', Close(d)) <=> Contains(toCli, Close(d)) \/ d = c
  BY <1>2, Messages, AppendContains
<1>4. AgentTypes'
  BY <1>1, <1>2, <1>3 DEF AgentTypes, HangUp
<1>5. ASSUME NEW d \in Channels PROVE Followed(d)'
  <2>1. UNCHANGED <<toBox, callback, conns, reader, undialed>>
    BY DEF HangUp
  <2>2. Followed(d)
    BY <1>1
  <2>3. ConnSound(d)'
    BY <2>1, <2>2 DEF Followed, ConnSound
  <2>4. EndsAgree(d)'
    BY <1>2, <1>3, <2>1, <2>2 DEF Followed, EndsAgree
  <2>5. (remote[d] = "waiting" => OnItsWay(d))'
    BY <1>2, <1>3, <2>1, <2>2 DEF Followed, OnItsWay
  <2> QED
    BY <2>3, <2>4, <2>5 DEF Followed
<1> QED
  BY <1>4, <1>5 DEF AgentInv

LEMMA ReceiveKeeps ==
  ASSUME AgentInv, Receive
  PROVE  AgentInv'
<1> SUFFICES ASSUME console # "ended" PROVE AgentInv'
  BY DEF AgentInv, Receive
<1>1. AgentTypes /\ \A d \in Channels : Followed(d)
  BY DEF AgentInv
<1> DEFINE m == Head(toBox)
<1>2. toBox \in Seq(Message) /\ toBox # <<>> /\ toBox' = Tail(toBox)
  BY <1>1 DEF Receive, AgentTypes
<1>3. m \in Message /\ toBox' \in Seq(Message)
      /\ \A e : Contains(toBox, e) <=> Contains(toBox', e) \/ e = m
  BY <1>2, HeadTailContains
<1>4. remote' = [remote EXCEPT ![m.on] = IF m.kind = "close" THEN "closed" ELSE IF @ = "waiting" THEN "open" ELSE @]
  BY DEF Receive
<1>5. m.on \in Channels /\ m.kind \in {"data", "close"} /\ m = IF m.kind = "data" THEN Data(m.on) ELSE Close(m.on)
  BY <1>3, Messages
<1> HIDE DEF m
<1>6. /\ remote' \in [Channels -> {"new", "waiting", "open", "closed"}]
      /\ \A d \in Channels : /\ d # m.on => remote'[d] = remote[d]
                             /\ remote[d] = "closed" => remote'[d] = "closed"
      /\ m.kind = "close" => remote'[m.on] = "closed"
      /\ remote'[m.on] # "waiting"
  BY <1>1, <1>4, <1>5 DEF AgentTypes
<1>7. AgentTypes'
  BY <1>1, <1>3, <1>6 DEF AgentTypes, Receive
<1>8. ASSUME NEW d \in Channels PROVE Followed(d)'
  <2>1. UNCHANGED <<toCli, callback, conns, reader, undialed>>
    BY DEF Receive
  <2>2. Followed(d)
    BY <1>1
  <2>3. d # m.on => (Contains(toBox', Data(d)) <=> Contains(toBox, Data(d)))
                    /\ (Contains(toBox', Close(d)) <=> Contains(toBox, Close(d)))
    BY <1>3, <1>5, Messages
  <2>4. Contains(toBox, Close(d)) => Contains(toBox', Close(d)) \/ remote'[d] = "closed"
    <3>1. CASE Close(d) = m
      BY <1>5, <1>6, <3>1, Messages
    <3> QED
      BY <1>3, <3>1
  <2>5. ConnSound(d)'
    BY <2>1, <2>2 DEF Followed, ConnSound
  <2>6. EndsAgree(d)'
    BY <1>6, <2>1, <2>2, <2>4 DEF Followed, EndsAgree
  <2>7. (remote[d] = "waiting" => OnItsWay(d))'
    BY <1>5, <1>6, <2>1, <2>2, <2>3 DEF Followed, OnItsWay
  <2> QED
    BY <2>5, <2>6, <2>7 DEF Followed
<1> QED
  BY <1>7, <1>8 DEF AgentInv

\* The ssh-agent.
LEMMA AgentAnswersKeeps ==
  ASSUME AgentInv, NEW c \in Channels, AgentAnswers(c)
  PROVE  AgentInv'
<1> SUFFICES ASSUME console # "ended" PROVE AgentInv'
  BY DEF AgentInv, AgentAnswers
<1>1. AgentTypes /\ \A d \in Channels : Followed(d)
  BY DEF AgentInv
<1>2. conns' = [conns EXCEPT ![c].question = FALSE, ![c].answer = TRUE]
  BY DEF AgentAnswers
<1>3. /\ conns' \in [Channels -> Conn]
      /\ \A d \in Channels : d # c => conns'[d] = conns[d]
      /\ conns'[c].listed = conns[c].listed /\ conns'[c].state = conns[c].state
      /\ ~conns'[c].question /\ conns'[c].answer
  BY <1>1, <1>2 DEF AgentTypes, Conn
<1>4. AgentTypes'
  BY <1>1, <1>3 DEF AgentTypes, AgentAnswers
<1>5. ASSUME NEW d \in Channels PROVE Followed(d)'
  <2>1. UNCHANGED <<remote, toCli, toBox, callback, reader, undialed>>
    BY DEF AgentAnswers
  <2>2. Followed(d)
    BY <1>1
  <2>3. ConnSound(d)'
    BY <1>3, <2>1, <2>2 DEF Followed, ConnSound
  <2>4. EndsAgree(d)'
    BY <1>3, <2>1, <2>2 DEF Followed, EndsAgree
  <2>5. (remote[d] = "waiting" => OnItsWay(d))'
    BY <1>3, <2>1, <2>2 DEF Followed, OnItsWay
  <2> QED
    BY <2>3, <2>4, <2>5 DEF Followed
<1> QED
  BY <1>4, <1>5 DEF AgentInv

LEMMA AgentEndsKeeps ==
  ASSUME AgentInv, AgentEndsOrStarts
  PROVE  AgentInv'
<1> SUFFICES ASSUME console # "ended" PROVE AgentInv'
  BY DEF AgentInv, AgentEndsOrStarts
<1>1. AgentTypes /\ \A d \in Channels : Followed(d)
  BY DEF AgentInv
<1>2. conns' = [d \in Channels |-> IF agentUp /\ conns[d].state = "open"
                                   THEN [conns[d] EXCEPT !.state = "dead", !.question = FALSE] ELSE conns[d]]
  BY DEF AgentEndsOrStarts
<1>3. ASSUME NEW d \in Channels
      PROVE  /\ conns'[d] \in Conn
             /\ conns'[d].listed = conns[d].listed /\ conns'[d].answer = conns[d].answer
             /\ \/ conns'[d].state = conns[d].state /\ conns'[d].question = conns[d].question
                \/ conns[d].state = "open" /\ conns'[d].state = "dead" /\ ~conns'[d].question
  <2>1. conns[d] \in Conn
    BY <1>1 DEF AgentTypes
  <2>2. CASE agentUp /\ conns[d].state = "open"
    BY <1>2, <2>1, <2>2 DEF Conn
  <2>3. CASE ~(agentUp /\ conns[d].state = "open")
    BY <1>2, <2>1, <2>3 DEF Conn
  <2> QED
    BY <2>2, <2>3
<1>4. conns' \in [Channels -> Conn]
  BY <1>2, <1>3
<1>5. AgentTypes'
  BY <1>1, <1>4 DEF AgentTypes, AgentEndsOrStarts
<1>6. ASSUME NEW d \in Channels PROVE Followed(d)'
  <2>1. UNCHANGED <<remote, toCli, toBox, callback, reader, undialed>>
    BY DEF AgentEndsOrStarts
  <2>2. Followed(d)
    BY <1>1
  <2>3. ConnSound(d)'
    BY <1>3, <2>1, <2>2 DEF Followed, ConnSound
  <2>4. EndsAgree(d)'
    BY <1>3, <2>1, <2>2 DEF Followed, EndsAgree
  <2>5. (remote[d] = "waiting" => OnItsWay(d))'
    BY <1>3, <2>1, <2>2 DEF Followed, OnItsWay, ConnSound
  <2> QED
    BY <2>3, <2>4, <2>5 DEF Followed
<1> QED
  BY <1>5, <1>6 DEF AgentInv

\* The CLI's callbacks.
LEMMA HandleDataKeeps ==
  ASSUME AgentInv, HandleData
  PROVE  AgentInv'
<1>1. AgentTypes /\ \A d \in Channels : Followed(d)
  BY DEF AgentInv, HandleData
<1> DEFINE m == Head(toCli)  c == Head(toCli).on
<1>2. toCli \in Seq(Message) /\ toCli # <<>> /\ toCli' = Tail(toCli) /\ m.kind = "data"
  BY <1>1 DEF HandleData, AgentTypes
<1>3. m \in Message /\ toCli' \in Seq(Message)
      /\ \A e : Contains(toCli, e) <=> Contains(toCli', e) \/ e = m
  BY <1>2, HeadTailContains
<1>4. c \in Channels /\ m = Data(c)
  BY <1>2, <1>3, Messages
<1>5. \A d \in Channels : /\ d # c => (Contains(toCli', Data(d)) <=> Contains(toCli, Data(d)))
                          /\ Contains(toCli', Close(d)) <=> Contains(toCli, Close(d))
  BY <1>3, <1>4, Messages
<1>6. \/ conns[c].listed /\ callback' = c /\ UNCHANGED <<conns, reader, undialed>>
      \/ /\ callback' = c
         /\ conns' = [conns EXCEPT ![c] = [NoConn EXCEPT !.listed = TRUE, !.state = "open"]]
         /\ reader' = [reader EXCEPT ![c] = "reading"]
         /\ UNCHANGED undialed
      \/ undialed' = undialed \cup {c} /\ UNCHANGED <<conns, reader, callback>>
  BY DEF HandleData
<1>7. UNCHANGED <<console, remote, toBox>> /\ callback = "none"
  BY DEF HandleData
<1>8. PICK b \in Channels : b = c
  BY <1>4
<1> HIDE DEF c
<1>9. CASE conns[b].listed /\ callback' = b /\ UNCHANGED <<conns, reader, undialed>>
  <2>1. AgentTypes'
    BY <1>1, <1>3, <1>7, <1>9 DEF AgentTypes
  <2>2. ASSUME NEW d \in Channels PROVE Followed(d)'
    <3>1. Followed(d) /\ Followed(b)
      BY <1>1
    <3>2. ConnSound(d)'
      BY <1>7, <1>9, <3>1 DEF Followed, ConnSound
    <3>3. EndsAgree(d)'
      BY <1>5, <1>7, <1>9, <3>1 DEF Followed, EndsAgree
    <3>4. (remote[d] = "waiting" => OnItsWay(d))'
      <4>1. CASE d = b
        BY <1>9, <4>1 DEF OnItsWay
      <4>2. callback # d
        BY <1>7, ForwardAssumption
      <4> QED
        BY <1>5, <1>7, <1>8, <1>9, <3>1, <4>1, <4>2 DEF Followed, OnItsWay
    <3> QED
      BY <3>2, <3>3, <3>4 DEF Followed
  <2> QED
    BY <2>1, <2>2 DEF AgentInv
<1>10. CASE /\ callback' = b
            /\ conns' = [conns EXCEPT ![b] = [NoConn EXCEPT !.listed = TRUE, !.state = "open"]]
            /\ reader' = [reader EXCEPT ![b] = "reading"]
            /\ UNCHANGED undialed
  <2>1. /\ conns' \in [Channels -> Conn]
        /\ \A d \in Channels : d # b => conns'[d] = conns[d]
        /\ conns'[b].listed /\ conns'[b].state = "open" /\ ~conns'[b].question
        /\ reader' \in [Channels -> {"none", "reading", "sending", "done"}]
        /\ \A d \in Channels : reader'[d] = IF d = b THEN "reading" ELSE reader[d]
    BY <1>1, <1>10 DEF AgentTypes, Conn, NoConn
  <2>2. AgentTypes'
    BY <1>1, <1>3, <1>7, <1>10, <2>1 DEF AgentTypes
  <2>3. ASSUME NEW d \in Channels PROVE Followed(d)'
    <3>1. Followed(d)
      BY <1>1
    <3>2. ConnSound(d)'
      BY <1>7, <1>10, <2>1, <3>1 DEF Followed, ConnSound
    <3>3. EndsAgree(d)'
      BY <1>5, <1>7, <2>1, <3>1 DEF Followed, EndsAgree
    <3>4. (remote[d] = "waiting" => OnItsWay(d))'
      <4>1. CASE d = b
        BY <1>10, <4>1 DEF OnItsWay
      <4>2. callback # d
        BY <1>7, ForwardAssumption
      <4> QED
        BY <1>5, <1>7, <1>8, <1>10, <2>1, <3>1, <4>1, <4>2 DEF Followed, OnItsWay
    <3> QED
      BY <3>2, <3>3, <3>4 DEF Followed
  <2> QED
    BY <2>2, <2>3 DEF AgentInv
<1>11. CASE undialed' = undialed \cup {b} /\ UNCHANGED <<conns, reader, callback>>
  <2>1. AgentTypes'
    BY <1>1, <1>3, <1>7, <1>11 DEF AgentTypes
  <2>2. ASSUME NEW d \in Channels PROVE Followed(d)'
    <3>1. Followed(d)
      BY <1>1
    <3>2. ConnSound(d)'
      BY <1>7, <1>11, <3>1 DEF Followed, ConnSound
    <3>3. EndsAgree(d)'
      BY <1>5, <1>7, <1>11, <3>1 DEF Followed, EndsAgree
    <3>4. (remote[d] = "waiting" => OnItsWay(d))'
      BY <1>5, <1>7, <1>8, <1>11, <3>1 DEF Followed, OnItsWay
    <3> QED
      BY <3>2, <3>3, <3>4 DEF Followed
  <2> QED
    BY <2>1, <2>2 DEF AgentInv
<1> QED
  BY <1>6, <1>8, <1>9, <1>10, <1>11

LEMMA WriteKeeps ==
  ASSUME AgentInv, WriteToAgent
  PROVE  AgentInv'
<1>1. AgentTypes /\ \A d \in Channels : Followed(d)
  BY DEF AgentInv, WriteToAgent
<1>2. PICK c \in Channels : callback = c
  BY <1>1 DEF WriteToAgent, AgentTypes
<1>3. conns' = IF conns[c].state = "open" THEN [conns EXCEPT ![c].question = TRUE] ELSE conns
  BY <1>2 DEF WriteToAgent
<1>4. /\ conns' \in [Channels -> Conn]
      /\ \A d \in Channels : /\ conns'[d].listed = conns[d].listed /\ conns'[d].state = conns[d].state
                             /\ conns'[d].answer = conns[d].answer
                             /\ conns[d].question => conns'[d].question
                             /\ d # c => conns'[d] = conns[d]
      /\ conns[c].state = "open" => conns'[c].question
      /\ conns[c].state # "open" => conns'[c] = conns[c]
  <2>1. conns[c] \in Conn
    BY <1>1 DEF AgentTypes
  <2>2. CASE conns[c].state = "open"
    <3>1. \A d \in Channels : conns'[d] = IF d = c THEN [conns[c] EXCEPT !.question = TRUE] ELSE conns[d]
      BY <1>1, <1>3, <2>2 DEF AgentTypes
    <3> DEFINE k == [conns[c] EXCEPT !.question = TRUE]
    <3>2. /\ k \in Conn /\ k.question
          /\ k.listed = conns[c].listed /\ k.state = conns[c].state /\ k.answer = conns[c].answer
      BY <2>1 DEF Conn
    <3>3. conns' = [conns EXCEPT ![c] = k]
      BY <1>1, <1>3, <2>2 DEF AgentTypes
    <3> HIDE DEF k
    <3> QED
      BY <1>1, <2>2, <3>2, <3>3 DEF AgentTypes
  <2>3. CASE conns[c].state # "open"
    BY <1>1, <1>3, <2>3 DEF AgentTypes
  <2> QED
    BY <2>2, <2>3
<1>5. UNCHANGED <<console, remote, toCli, toBox, reader, undialed>> /\ callback' = "none"
  BY DEF WriteToAgent
<1>6. AgentTypes'
  BY <1>1, <1>4, <1>5 DEF AgentTypes
<1>7. ASSUME NEW d \in Channels PROVE Followed(d)'
  <2>1. Followed(d) /\ callback' # d
    BY <1>1, <1>5, ForwardAssumption
  <2>2. ConnSound(d)'
    BY <1>4, <1>5, <2>1 DEF Followed, ConnSound
  <2>3. EndsAgree(d)'
    BY <1>4, <1>5, <2>1 DEF Followed, EndsAgree
  <2>4. (remote[d] = "waiting" => OnItsWay(d))'
    <3>1. CASE d = c
      \* What is written to an open connection is a question; a dead one's reader says so.
      <4> SUFFICES ASSUME remote[d] = "waiting" PROVE OnItsWay(d)'
        BY <1>5
      <4>1. CASE conns[c].state = "open"
        BY <1>4, <3>1, <4>1 DEF OnItsWay
      <4>2. CASE conns[c].state = "dead"
        <5>1. conns'[d].state = "dead" /\ reader[d] \in {"reading", "sending", "done"}
          BY <1>1, <1>4, <2>1, <3>1, <4>2 DEF Followed, ConnSound, AgentTypes
        <5>2. reader[d] = "done" => Contains(toBox, Close(d))
          BY <2>1 DEF Followed, EndsAgree
        <5> QED
          BY <1>5, <5>1, <5>2 DEF OnItsWay
      <4>3. conns[c].state \in {"open", "dead"}
        BY <1>1, <1>2, <2>1, <3>1 DEF Followed, ConnSound, EndsAgree, AgentTypes, Conn
      <4> QED
        BY <4>1, <4>2, <4>3
    <3>2. CASE d # c
      BY <1>2, <1>4, <1>5, <2>1, <3>2 DEF Followed, OnItsWay
    <3> QED
      BY <3>1, <3>2
  <2> QED
    BY <2>2, <2>3, <2>4 DEF Followed
<1> QED
  BY <1>6, <1>7 DEF AgentInv

LEMMA CloseChannelKeeps ==
  ASSUME AgentInv, CloseChannel
  PROVE  AgentInv'
<1>1. AgentTypes /\ \A d \in Channels : Followed(d)
  BY DEF AgentInv, CloseChannel
<1> DEFINE m == Head(toCli)
<1>2. toCli \in Seq(Message) /\ toCli # <<>> /\ toCli' = Tail(toCli) /\ m.kind = "close"
  BY <1>1 DEF CloseChannel, AgentTypes
<1>3. m \in Message /\ toCli' \in Seq(Message)
      /\ \A e : Contains(toCli, e) <=> Contains(toCli', e) \/ e = m
  BY <1>2, HeadTailContains
<1>4. PICK c \in Channels : c = m.on /\ m = Close(c)
  BY <1>2, <1>3, Messages
<1>5. conns' = IF conns[c].listed
               THEN [conns EXCEPT ![c] = [@ EXCEPT !.listed = FALSE, !.state = "closed", !.question = FALSE, !.answer = FALSE]]
               ELSE conns
  BY <1>4 DEF CloseChannel
<1>6. UNCHANGED <<console, remote, toBox, callback, reader, undialed>> /\ callback = "none"
  BY DEF CloseChannel
<1> HIDE DEF m
<1>7. \A d \in Channels : /\ Contains(toCli', Data(d)) <=> Contains(toCli, Data(d))
                          /\ Contains(toCli', Close(d)) => Contains(toCli, Close(d))
  BY <1>3, <1>4, Messages
<1>8. remote[c] = "closed"
  BY <1>1, <1>3, <1>4 DEF Followed, EndsAgree
<1>9. /\ conns' \in [Channels -> Conn]
      /\ \A d \in Channels : d # c => conns'[d] = conns[d]
      /\ \/ conns'[c] = conns[c]
         \/ ~conns'[c].listed /\ conns'[c].state = "closed" /\ ~conns'[c].question
  <2> DEFINE k == [conns[c] EXCEPT !.listed = FALSE, !.state = "closed", !.question = FALSE, !.answer = FALSE]
  <2>1. k \in Conn /\ ~k.listed /\ k.state = "closed" /\ ~k.question
    BY <1>1 DEF AgentTypes, Conn
  <2>2. conns' = [conns EXCEPT ![c] = k] \/ conns' = conns
    BY <1>5
  <2> HIDE DEF k
  <2> QED
    BY <1>1, <2>1, <2>2 DEF AgentTypes
<1>10. AgentTypes'
  BY <1>1, <1>3, <1>6, <1>9 DEF AgentTypes
<1>11. ASSUME NEW d \in Channels PROVE Followed(d)'
  <2>1. Followed(d) /\ callback' # d
    BY <1>1, <1>6, ForwardAssumption
  <2>2. ConnSound(d)'
    BY <1>6, <1>9, <2>1 DEF Followed, ConnSound
  <2>3. EndsAgree(d)'
    BY <1>6, <1>7, <1>8, <1>9, <2>1 DEF Followed, EndsAgree
  <2>4. (remote[d] = "waiting" => OnItsWay(d))'
    BY <1>6, <1>7, <1>8, <1>9, <2>1 DEF Followed, OnItsWay
  <2> QED
    BY <2>2, <2>3, <2>4 DEF Followed
<1> QED
  BY <1>10, <1>11 DEF AgentInv

\* readResponses.
LEMMA ReadResponsesKeeps ==
  ASSUME AgentInv, NEW c \in Channels, ReadResponses(c)
  PROVE  AgentInv'
<1>1. AgentTypes /\ \A d \in Channels : Followed(d)
  BY DEF AgentInv, ReadResponses
<1>2. UNCHANGED <<console, remote, toCli, callback, undialed>> /\ toBox \in Seq(Message)
  BY <1>1 DEF ReadResponses, AgentTypes
<1>3. CASE /\ conns' = [conns EXCEPT ![c].answer = FALSE]
           /\ reader' = [reader EXCEPT ![c] = "sending"]
           /\ UNCHANGED toBox
  <2>1. /\ conns' \in [Channels -> Conn]
        /\ \A d \in Channels : d # c => conns'[d] = conns[d]
        /\ conns'[c].listed = conns[c].listed /\ conns'[c].state = conns[c].state
        /\ conns'[c].question = conns[c].question
        /\ reader' \in [Channels -> {"none", "reading", "sending", "done"}]
        /\ \A d \in Channels : reader'[d] = IF d = c THEN "sending" ELSE reader[d]
    BY <1>1, <1>3 DEF AgentTypes, Conn
  <2>2. AgentTypes'
    BY <1>1, <1>2, <1>3, <2>1 DEF AgentTypes
  <2>3. ASSUME NEW d \in Channels PROVE Followed(d)'
    <3>1. Followed(d)
      BY <1>1
    <3>2. ConnSound(d)'
      BY <1>2, <2>1, <3>1 DEF Followed, ConnSound
    <3>3. EndsAgree(d)'
      BY <1>2, <1>3, <2>1, <3>1 DEF Followed, EndsAgree
    <3>4. (remote[d] = "waiting" => OnItsWay(d))'
      BY <1>2, <1>3, <2>1, <3>1 DEF Followed, OnItsWay
    <3> QED
      BY <3>2, <3>3, <3>4 DEF Followed
  <2> QED
    BY <2>2, <2>3 DEF AgentInv
<1>4. CASE /\ reader[c] = "reading" /\ ~conns[c].answer /\ conns[c].state \in {"dead", "closed"}
           /\ toBox' = Append(toBox, Close(c))
           /\ reader' = [reader EXCEPT ![c] = "done"]
           /\ UNCHANGED conns
  <2>1. /\ reader' \in [Channels -> {"none", "reading", "sending", "done"}]
        /\ \A d \in Channels : reader'[d] = IF d = c THEN "done" ELSE reader[d]
    BY <1>1, <1>4 DEF AgentTypes
  <2>2. toBox' \in Seq(Message)
        /\ \A d \in Channels : /\ Contains(toBox', Data(d)) <=> Contains(toBox, Data(d))
                               /\ Contains(toBox', Close(d)) <=> Contains(toBox, Close(d)) \/ d = c
    BY <1>2, <1>4, Messages, AppendContains
  <2>3. AgentTypes'
    BY <1>1, <1>2, <1>4, <2>1, <2>2 DEF AgentTypes
  <2>4. ASSUME NEW d \in Channels PROVE Followed(d)'
    <3>1. Followed(d)
      BY <1>1
    <3>2. ConnSound(d)'
      BY <1>2, <1>4, <2>1, <3>1 DEF Followed, ConnSound
    <3>3. EndsAgree(d)'
      BY <1>2, <1>4, <2>1, <2>2, <3>1 DEF Followed, EndsAgree
    <3>4. (remote[d] = "waiting" => OnItsWay(d))'
      BY <1>2, <1>4, <2>1, <2>2, <3>1 DEF Followed, OnItsWay
    <3> QED
      BY <3>2, <3>3, <3>4 DEF Followed
  <2> QED
    BY <2>3, <2>4 DEF AgentInv
<1>5. CASE /\ reader[c] = "sending"
           /\ toBox' = Append(toBox, Data(c))
           /\ reader' = [reader EXCEPT ![c] = "reading"]
           /\ UNCHANGED conns
  <2>1. /\ reader' \in [Channels -> {"none", "reading", "sending", "done"}]
        /\ \A d \in Channels : reader'[d] = IF d = c THEN "reading" ELSE reader[d]
    BY <1>1, <1>5 DEF AgentTypes
  <2>2. toBox' \in Seq(Message)
        /\ \A d \in Channels : /\ Contains(toBox', Data(d)) <=> Contains(toBox, Data(d)) \/ d = c
                               /\ Contains(toBox', Close(d)) <=> Contains(toBox, Close(d))
    BY <1>2, <1>5, Messages, AppendContains
  <2>3. AgentTypes'
    BY <1>1, <1>2, <1>5, <2>1, <2>2 DEF AgentTypes
  <2>4. ASSUME NEW d \in Channels PROVE Followed(d)'
    <3>1. Followed(d)
      BY <1>1
    <3>2. ConnSound(d)'
      BY <1>2, <1>5, <2>1, <3>1 DEF Followed, ConnSound
    <3>3. EndsAgree(d)'
      BY <1>2, <1>5, <2>1, <2>2, <3>1 DEF Followed, EndsAgree
    <3>4. (remote[d] = "waiting" => OnItsWay(d))'
      BY <1>2, <1>5, <2>1, <2>2, <3>1 DEF Followed, OnItsWay
    <3> QED
      BY <3>2, <3>3, <3>4 DEF Followed
  <2> QED
    BY <2>3, <2>4 DEF AgentInv
<1> QED
  BY <1>3, <1>4, <1>5 DEF ReadResponses

\* A program in the sandbox that waits for the ssh-agent waits for a question,
\* an answer or an end that is on its way, unless no agent listened when it asked.
THEOREM QuestionsAreKept == AgentSpec => []NoQuestionIsLost
<1>1. AgentInit => AgentInv
  <2> SUFFICES ASSUME AgentInit PROVE AgentInv
    OBVIOUS
  <2>1. AgentTypes
    BY DEF AgentInit, AgentTypes, NoConn, Conn
  <2>2. ASSUME NEW c \in Channels PROVE Followed(c)
    <3>1. ConnSound(c)
      BY ForwardAssumption DEF AgentInit, ConnSound, NoConn
    <3>2. ~Contains(<<>>, Close(c))
      BY DEF Contains
    <3> QED
      BY <3>1, <3>2 DEF AgentInit, Followed, EndsAgree, NoConn
  <2> QED
    BY <2>1, <2>2 DEF AgentInv
<1>2. AgentInv /\ [AgentNext]_agentVars => AgentInv'
  <2> SUFFICES ASSUME AgentInv, [AgentNext]_agentVars PROVE AgentInv'
    OBVIOUS
  <2>1. CASE UNCHANGED agentVars \/ ConsoleStarts
    BY <2>1 DEF agentVars, ConsoleStarts, AgentInv, AgentTypes, Followed, ConnSound, EndsAgree, OnItsWay
  <2>2. CASE ConsoleEnds
    BY <2>2 DEF ConsoleEnds, AgentInv
  <2> QED
    BY <2>1, <2>2, AskKeeps, HangUpKeeps, ReceiveKeeps, AgentAnswersKeeps, AgentEndsKeeps, HandleDataKeeps,
       WriteKeeps, CloseChannelKeeps, ReadResponsesKeeps DEF AgentNext
<1>3. AgentInv => NoQuestionIsLost
  BY DEF AgentInv, Followed, OnItsWay, NoQuestionIsLost
<1> QED
  BY <1>1, <1>2, <1>3, PTL DEF AgentSpec

-----------------------------------------------------------------------------
(* The Host blocks that ssh-setup writes: its lines come in blocks of      *)
(* three, so that the edit takes out a block and no line of anyone else's. *)

\* f[n] is what is chosen of the first n lines.
ChosenBy(f, S, lines, places) ==
  /\ f[0] = <<>> /\ \A n \in 0 .. Len(lines) : f[n] \in Seq(S)
  /\ \A n \in 1 .. Len(lines) : f[n] = IF n \in places THEN Append(f[n - 1], lines[n]) ELSE f[n - 1]

LEMMA ChosenIs ==
  ASSUME NEW S, NEW lines \in Seq(S), NEW places
  PROVE  \E f : Chosen(lines, places) = f[Len(lines)] /\ ChosenBy(f, S, lines, places)
<1> DEFINE N == Len(lines)
           f == CHOOSE g : KeepsPlaces(lines, places, g, N)
<1>1. Chosen(lines, places) = f[N]
  BY DEF Chosen, KeepsPlaces
<1>2. N \in Nat /\ \A n \in 1 .. N : lines[n] \in S
  OBVIOUS
<1>3. KeepsPlaces(lines, places, f, N)
  <2>1. \E g : KeepsPlaces(lines, places, g, N)
    BY <1>2, KeepsExists
  <2> QED
    BY <2>1
<1> HIDE DEF f
<1>4. f[0] = <<>> /\ \A n \in 1 .. N : f[n] = IF n \in places THEN Append(f[n - 1], lines[n]) ELSE f[n - 1]
  <2> HIDE DEF N
  <2>1. \A n \in 0 .. N : f[n] = IF n = 0 THEN <<>> ELSE IF n \in places THEN Append(f[n - 1], lines[n]) ELSE f[n - 1]
    BY <1>3 DEF KeepsPlaces
  <2>2. 0 \in 0 .. N /\ \A n \in 1 .. N : n \in 0 .. N /\ n # 0
    BY ONLY <1>2
  <2> QED
    BY ONLY <2>1, <2>2
<1>5. \A n \in 0 .. N : f[n] \in Seq(S)
  <2> DEFINE T == {n \in 0 .. N : f[n] \notin Seq(S)}
  <2> SUFFICES ASSUME T # {} PROVE FALSE
    OBVIOUS
  <2>0. T \in SUBSET Nat /\ \A n \in 0 .. N : n \in T <=> f[n] \notin Seq(S)
    BY <1>2
  <2>1. \A n \in T : n \in 0 .. N
    OBVIOUS
  <2> HIDE DEF T
  <2>2. PICK m \in T : \A k \in T : m <= k
    BY <2>0, LeastIsThere
  <2>3. m # 0
    <3>1. <<>> \in Seq(S)
      OBVIOUS
    <3> QED
      BY <1>4, <2>0, <2>1, <3>1
  <2>4. m \in 1 .. N /\ m - 1 \in 0 .. N /\ ~(m <= m - 1)
    BY <1>2, <2>1, <2>3
  <2>5. f[m - 1] \in Seq(S)
    BY ONLY <2>0, <2>2, <2>4
  <2>6. lines[m] \in S /\ (f[m] = Append(f[m - 1], lines[m]) \/ f[m] = f[m - 1])
    BY ONLY <1>2, <1>4, <2>4
  <2>7. f[m] \in Seq(S)
    BY ONLY <2>5, <2>6
  <2> QED
    BY ONLY <2>0, <2>1, <2>7, m \in T
<1> QED
  BY <1>1, <1>4, <1>5 DEF ChosenBy

\* Nothing is chosen.
LEMMA NoneChosen ==
  ASSUME NEW S, NEW lines \in Seq(S), NEW places, \A n \in 1 .. Len(lines) : n \notin places
  PROVE  Chosen(lines, places) = <<>>
<1> DEFINE N == Len(lines)
<1>1. PICK f : Chosen(lines, places) = f[N] /\ ChosenBy(f, S, lines, places)
  BY ChosenIs
<1>2. f[0] = <<>> /\ \A n \in 1 .. N : f[n] = f[n - 1]
  BY <1>1 DEF ChosenBy
<1>3. N \in Nat
  OBVIOUS
<1> DEFINE T == {n \in 0 .. N : f[n] # <<>>}
<1> SUFFICES ASSUME T # {} PROVE FALSE
  BY <1>1, <1>3
<1>4. PICK m \in T : \A k \in T : m <= k
  <2>1. T \in SUBSET Nat
    BY <1>3
  <2> HIDE DEF T
  <2> QED
    BY <2>1, LeastIsThere
<1>5. m \in 1 .. N /\ m - 1 \in 0 .. N /\ ~(m <= m - 1)
  BY <1>2, <1>3
<1>6. f[m - 1] = <<>>
  BY ONLY <1>4, <1>5
<1> QED
  BY <1>2, <1>5, <1>6

AddsLast(x, y, e) == Append(x \o y, e) = x \o Append(y, e)

LEMMA OneMore ==
  ASSUME NEW S, NEW x \in Seq(S), NEW y \in Seq(S), NEW e \in S
  PROVE  AddsLast(x, y, e)
<1>1. x \o y \in Seq(S) /\ <<e>> \in Seq(S)
  BY ConcatProperties
<1>2. Append(x \o y, e) = (x \o y) \o <<e>>
  BY <1>1, AppendIsConcat
<1>3. Append(y, e) = y \o <<e>>
  BY AppendIsConcat
<1>4. (x \o y) \o <<e>> = x \o (y \o <<e>>)
  BY <1>1, ConcatAssociative
<1> QED
  BY <1>2, <1>3, <1>4 DEF AddsLast

\* The same places of a part, and those of a part that follows another.
SamePlaces(a, A, C) == \A n \in 1 .. Len(a) : n \in C <=> n \in A

PlacesAfter(a, b, B, C) == \A n \in 1 .. Len(b) : Len(a) + n \in C <=> n \in B

EachItsOwn(a, b, c, A, B, C) == Chosen(c, C) = Chosen(a, A) \o Chosen(b, B)

\* Of two parts, each chooses its own.
LEMMA BothChosen ==
  ASSUME NEW S, NEW a \in Seq(S), NEW b \in Seq(S), NEW c, c = a \o b, NEW A, NEW B, NEW C,
         SamePlaces(a, A, C), PlacesAfter(a, b, B, C)
  PROVE  EachItsOwn(a, b, c, A, B, C)
<1> DEFINE M == Len(a)
           N == Len(b)
<1>1. /\ c \in Seq(S) /\ Len(c) = M + N /\ M \in Nat /\ N \in Nat
      /\ \A n \in 1 .. M : c[n] = a[n]
      /\ \A n \in 1 .. N : c[M + n] = b[n]
  <2>1. Len(a) \in Nat /\ Len(b) \in Nat
    OBVIOUS
  <2> QED
    BY <2>1, ConcatIs
<1>2. PICK f : Chosen(a, A) = f[M] /\ ChosenBy(f, S, a, A)
  BY ChosenIs
<1>3. PICK g : Chosen(b, B) = g[N] /\ ChosenBy(g, S, b, B)
  BY ChosenIs
<1>4. PICK h : Chosen(c, C) = h[Len(c)] /\ ChosenBy(h, S, c, C)
  BY ONLY <1>1, ChosenIs
<1>5. /\ f[0] = <<>> /\ \A n \in 0 .. M : f[n] \in Seq(S)
      /\ \A n \in 1 .. M : f[n] = IF n \in A THEN Append(f[n - 1], a[n]) ELSE f[n - 1]
  BY <1>2 DEF ChosenBy
<1>6. /\ g[0] = <<>> /\ \A n \in 0 .. N : g[n] \in Seq(S)
      /\ \A n \in 1 .. N : g[n] = IF n \in B THEN Append(g[n - 1], b[n]) ELSE g[n - 1]
  BY <1>3 DEF ChosenBy
<1>7. h[0] = <<>> /\ \A n \in 1 .. M + N : h[n] = IF n \in C THEN Append(h[n - 1], c[n]) ELSE h[n - 1]
  BY <1>1, <1>4 DEF ChosenBy
<1>8. \A n \in 1 .. N : b[n] \in S
  OBVIOUS
<1>9. /\ \A n \in 1 .. M : n \in C <=> n \in A
      /\ \A n \in 1 .. N : M + n \in C <=> n \in B
  BY DEF SamePlaces, PlacesAfter
<1> HIDE DEF M, N
<1>10. \A n \in 0 .. M : h[n] = f[n]
  <2> DEFINE T == {n \in 0 .. M : h[n] # f[n]}
  <2> SUFFICES ASSUME T # {} PROVE FALSE
    OBVIOUS
  <2>1. PICK m \in T : \A k \in T : m <= k
    <3>1. T \in SUBSET Nat
      BY <1>1
    <3> HIDE DEF T
    <3> QED
      BY <3>1, LeastIsThere
  <2>2. m \in 1 .. M /\ m - 1 \in 0 .. M /\ ~(m <= m - 1) /\ m \in 1 .. M + N
    BY <1>1, <1>5, <1>7
  <2>3. h[m - 1] = f[m - 1]
    BY ONLY <2>1, <2>2
  <2>4. h[m] = f[m]
    BY ONLY <1>1, <1>5, <1>7, <1>9, <2>2, <2>3
  <2> QED
    BY <2>1, <2>4
<1> DEFINE x == f[M]
           Good(n) == h[M + n] = x \o g[n]
           T == {n \in 0 .. N : ~Good(n)}
<1>11. x \in Seq(S) /\ h[M] = x
  BY <1>1, <1>5, <1>10
<1> HIDE DEF x
<1>12. Good(0)
  <2>1. x \o <<>> = x
    BY ONLY <1>11, ConcatEmptySeq
  <2>2. M + 0 = M
    BY <1>1
  <2> QED
    BY ONLY <1>6, <1>11, <2>1, <2>2
<1>13. ASSUME NEW m \in 1 .. N, Good(m - 1) PROVE Good(m)
  <2>1. m - 1 \in 0 .. N /\ M + m \in 1 .. M + N /\ (M + m) - 1 = M + (m - 1)
    BY ONLY <1>1, m \in 1 .. N
  <2>2. g[m - 1] \in Seq(S) /\ b[m] \in S
    BY ONLY <1>6, <1>8, <2>1, m \in 1 .. N
  <2>3. CASE m \in B
    <3>1. g[m] = Append(g[m - 1], b[m])
      BY ONLY <1>6, <2>3, m \in 1 .. N
    <3>2. h[M + m] = Append(h[M + (m - 1)], b[m])
      BY ONLY <1>1, <1>7, <1>9, <2>1, <2>3, m \in 1 .. N
    <3>3. Append(x \o g[m - 1], b[m]) = x \o Append(g[m - 1], b[m])
      <4> DEFINE y == g[m - 1]
                 e == b[m]
      <4>1. y \in Seq(S) /\ e \in S
        BY ONLY <2>2
      <4> HIDE DEF y, e
      <4>2. AddsLast(x, y, e)
        BY ONLY <1>11, <4>1, OneMore
      <4> QED
        BY ONLY <4>2 DEF AddsLast, y, e
    <3> QED
      BY ONLY <1>13, <3>1, <3>2, <3>3
  <2>4. CASE m \notin B
    <3>1. g[m] = g[m - 1]
      BY ONLY <1>6, <2>4, m \in 1 .. N
    <3>2. h[M + m] = h[M + (m - 1)]
      BY ONLY <1>7, <1>9, <2>1, <2>4, m \in 1 .. N
    <3> QED
      BY ONLY <1>13, <3>1, <3>2
  <2> QED
    BY <2>3, <2>4
<1> HIDE DEF Good
<1>14. T = {}
  <2> SUFFICES ASSUME T # {} PROVE FALSE
    OBVIOUS
  <2>1. T \in SUBSET Nat
    BY <1>1
  <2>2. PICK m \in T : \A k \in T : m <= k
    <3> HIDE DEF T
    <3> QED
      BY <2>1, LeastIsThere
  <2>3. m # 0
    BY <1>12
  <2>4. m \in 1 .. N /\ m - 1 \in 0 .. N /\ ~(m <= m - 1)
    BY <1>1, <2>3
  <2>5. Good(m - 1)
    BY ONLY <2>2, <2>4
  <2> QED
    BY <1>13, <2>4, <2>5
<1>15. Good(N)
  BY <1>1, <1>14
<1> QED
  BY <1>1, <1>2, <1>3, <1>4, <1>15 DEF Good, x, EachItsOwn

\* Blocks: the lines of a box are three, its comment first.
BlockAt(lines, h) ==
  /\ h \in 1 .. Len(lines) /\ h + 1 \in 1 .. Len(lines) /\ h + 2 \in 1 .. Len(lines)
  /\ lines[h].word = "Added" /\ lines[h].of \in Boxes
  /\ lines[h + 1].word = "Host" /\ lines[h + 1].of = lines[h].of
  /\ lines[h + 2].word = "body" /\ lines[h + 2].of = lines[h].of

InBlock(lines, i) == \E h \in 1 .. Len(lines) : BlockAt(lines, h) /\ (i = h \/ i = h + 1 \/ i = h + 2)

InBlocks(lines) ==
  \A i \in 1 .. Len(lines) : lines[i].word = "Added" \/ lines[i].of # "user" => InBlock(lines, i)

\* Where parts follow each other, blocks are where they were.
Joined(a, b, c, M, N) ==
  /\ M \in Nat /\ N \in Nat /\ Len(a) = M /\ Len(b) = N /\ Len(c) = M + N
  /\ \A n \in 1 .. M : c[n] = a[n]
  /\ \A n \in 1 .. N : c[M + n] = b[n]

LEMMA JoinedAre ==
  ASSUME NEW S, NEW a \in Seq(S), NEW b \in Seq(S), NEW c, c = a \o b
  PROVE  c \in Seq(S) /\ Joined(a, b, c, Len(a), Len(b))
<1>1. Len(a) \in Nat /\ Len(b) \in Nat
  OBVIOUS
<1> QED
  BY <1>1, ConcatIs DEF Joined

LEMMA BlocksJoined ==
  ASSUME NEW a, NEW b, NEW c, NEW M, NEW N, Joined(a, b, c, M, N), InBlocks(a), InBlocks(b)
  PROVE  InBlocks(c)
<1>1. /\ M \in Nat /\ N \in Nat /\ Len(a) = M /\ Len(b) = N /\ Len(c) = M + N
      /\ \A n \in 1 .. M : c[n] = a[n]
      /\ \A n \in 1 .. N : c[M + n] = b[n]
  BY DEF Joined
<1> SUFFICES ASSUME NEW i \in 1 .. Len(c), c[i].word = "Added" \/ c[i].of # "user"
             PROVE  InBlock(c, i)
  BY DEF InBlocks
<1>2. CASE i \in 1 .. M
  <2>1. PICK h \in 1 .. M : BlockAt(a, h) /\ (i = h \/ i = h + 1 \/ i = h + 2)
    BY <1>1, <1>2 DEF InBlocks, InBlock
  <2>2. BlockAt(c, h) /\ h \in 1 .. Len(c)
    BY ONLY <1>1, <2>1 DEF BlockAt
  <2> QED
    BY <2>1, <2>2 DEF InBlock
<1>3. CASE i \notin 1 .. M
  <2> DEFINE j == i - M
  <2>1. j \in 1 .. N /\ M + j = i
    BY ONLY <1>1, <1>3, i \in 1 .. Len(c)
  <2> HIDE DEF j
  <2>2. c[i] = b[j]
    BY ONLY <1>1, <2>1
  <2>3. PICK h \in 1 .. N : BlockAt(b, h) /\ (j = h \/ j = h + 1 \/ j = h + 2)
    BY <1>1, <2>1, <2>2 DEF InBlocks, InBlock
  <2> DEFINE g == M + h
  <2>4. /\ h + 1 \in 1 .. N /\ h + 2 \in 1 .. N /\ M + (h + 1) = g + 1 /\ M + (h + 2) = g + 2
        /\ g \in 1 .. Len(c) /\ g + 1 \in 1 .. Len(c) /\ g + 2 \in 1 .. Len(c)
        /\ (i = g \/ i = g + 1 \/ i = g + 2)
    <3>1. h + 1 \in 1 .. N /\ h + 2 \in 1 .. N
      BY ONLY <1>1, <2>3 DEF BlockAt
    <3> QED
      BY ONLY <1>1, <2>1, <2>3, <3>1
  <2>5. c[g] = b[h] /\ c[g + 1] = b[h + 1] /\ c[g + 2] = b[h + 2]
    BY ONLY <1>1, <2>4
  <2> HIDE DEF g
  <2>6. BlockAt(c, g)
    BY ONLY <2>3, <2>4, <2>5 DEF BlockAt
  <2> QED
    BY <2>4, <2>6 DEF InBlock
<1> QED
  BY <1>2, <1>3

\* The part before a block.
LEMMA BlocksBefore ==
  ASSUME NEW a, NEW c, NEW M, M \in Nat, Len(a) = M, Len(c) \in Nat, M <= Len(c), \A n \in 1 .. M : a[n] = c[n],
         InBlocks(c), NEW h, h = M + 1, BlockAt(c, h) \/ (M + 1 = Len(c) /\ c[h].word = "")
  PROVE  InBlocks(a)
<1> SUFFICES ASSUME NEW i \in 1 .. M, a[i].word = "Added" \/ a[i].of # "user"
             PROVE  InBlock(a, i)
  BY DEF InBlocks
<1>1. i \in 1 .. Len(c) /\ a[i] = c[i]
  BY ONLY M \in Nat, Len(c) \in Nat, M <= Len(c), \A n \in 1 .. M : a[n] = c[n], i \in 1 .. M
<1>2. PICK g \in 1 .. Len(c) : BlockAt(c, g) /\ (i = g \/ i = g + 1 \/ i = g + 2)
  BY <1>1 DEF InBlocks, InBlock
<1>3. g \in Nat /\ i \in Nat /\ h \in Nat /\ g <= i /\ i < h /\ g < h
  BY ONLY <1>2, M \in Nat, Len(c) \in Nat, g \in 1 .. Len(c), i \in 1 .. M, h = M + 1
<1>4. c[h].word \in {"Added", ""} /\ c[g + 1].word = "Host" /\ c[g + 2].word = "body"
  BY <1>2 DEF BlockAt
<1>5. h # g + 1 /\ h # g + 2
  BY ONLY <1>4
<1>6. g + 2 \in 1 .. M /\ g + 1 \in 1 .. M /\ g \in 1 .. M
  BY ONLY <1>3, <1>5, h = M + 1, M \in Nat
<1>7. BlockAt(a, g)
  BY ONLY <1>2, <1>6, Len(a) = M, \A n \in 1 .. M : a[n] = c[n] DEF BlockAt
<1> QED
  BY <1>2, <1>6, <1>7 DEF InBlock

\* The part from a line on that begins a block or is the user's, where the line
\* before is in none or ends one.
LEMMA BlocksAfter ==
  ASSUME NEW b, NEW c, NEW M, NEW N, M \in Nat, N \in Nat, Len(b) = N, Len(c) = M + N, \A n \in 1 .. N : b[n] = c[M + n],
         InBlocks(c), N > 0 => c[M + 1].word \in {"Host", "Added"}, M \in 1 .. Len(c), c[M].word # "Added"
  PROVE  InBlocks(b)
<1> SUFFICES ASSUME NEW i \in 1 .. N, b[i].word = "Added" \/ b[i].of # "user"
             PROVE  InBlock(b, i)
  BY DEF InBlocks
<1> DEFINE k == M + i
<1>1. k \in 1 .. Len(c) /\ b[i] = c[k] /\ k = M + i /\ k > M
  OBVIOUS
<1> HIDE DEF k
<1>2. PICK g \in 1 .. Len(c) : BlockAt(c, g) /\ (k = g \/ k = g + 1 \/ k = g + 2)
  BY <1>1 DEF InBlocks, InBlock
<1>3. g \in Nat /\ k \in Nat /\ g <= k /\ k <= g + 2 /\ N > 0
  BY <1>1, <1>2
<1>4. c[g].word = "Added" /\ c[g + 2].word = "body" /\ c[M + 1].word # "body"
  BY <1>2, <1>3 DEF BlockAt
<1>5. M # g /\ M + 1 # g + 2
  BY ONLY <1>4, c[M].word # "Added"
<1>6. g > M
  BY ONLY <1>1, <1>3, <1>5, M \in Nat
<1> DEFINE h == g - M
<1>7. M + h = g /\ M + (h + 1) = g + 1 /\ M + (h + 2) = g + 2 /\ (i = h \/ i = h + 1 \/ i = h + 2)
  BY ONLY <1>1, <1>2, <1>6, M \in Nat, i \in 1 .. N
<1>8. M + h = g /\ M + (h + 1) = g + 1 /\ M + (h + 2) = g + 2 /\ h \in 1 .. N /\ h + 1 \in 1 .. N /\ h + 2 \in 1 .. N
  <2>1. g + 2 \in 1 .. Len(c)
    BY <1>2 DEF BlockAt
  <2> QED
    BY ONLY <1>6, <2>1, M \in Nat, N \in Nat, Len(c) = M + N, g \in 1 .. Len(c)
<1> HIDE DEF h
<1>9. BlockAt(b, h)
  <2>1. b[h] = c[g] /\ b[h + 1] = c[g + 1] /\ b[h + 2] = c[g + 2]
    BY ONLY <1>8, \A n \in 1 .. N : b[n] = c[M + n]
  <2> QED
    BY ONLY <1>2, <1>8, <2>1, Len(b) = N DEF BlockAt
<1> QED
  BY <1>7, <1>8, <1>9 DEF InBlock

\* The lines that begin a block.
IsHead(line) == line.word \in {"Host", "Added"}

\* What ssh reads a line under is a Host of the user.
LastIsOwn(lines, i) ==
  \E j \in 1 .. i : IsHead(lines[j]) /\ lines[j].of = "user" /\ \A k \in 1 .. i : IsHead(lines[k]) => k <= j

LEMMA UnderIs ==
  ASSUME NEW lines, NEW i \in Nat
  PROVE  UnderOwnHost(lines, i) <=> LastIsOwn(lines, i)
<1> DEFINE T == {j \in 1 .. i : lines[j].word \in {"Host", "Added"}}
           last == CHOOSE j \in T : \A k \in T : k <= j
<1>1. T \in SUBSET (1 .. i) /\ \A j \in 1 .. i : j \in T <=> IsHead(lines[j])
  BY DEF IsHead
<1>2. UnderOwnHost(lines, i) <=> T # {} /\ lines[last].of = "user"
  BY DEF UnderOwnHost
<1> HIDE DEF T
<1>3. CASE T = {}
  BY <1>1, <1>2, <1>3 DEF LastIsOwn
<1>4. CASE T # {}
  <2>1. last \in T /\ \A k \in T : k <= last
    <3>1. \E m \in T : \A k \in T : k <= m
      BY <1>1, <1>4, LastIsThere
    <3> QED
      BY ONLY <3>1
  <2> HIDE DEF last
  <2>2. \A j \in T : (\A k \in T : k <= j) => j = last
    BY ONLY <1>1, <2>1, i \in Nat
  <2>3. LastIsOwn(lines, i) <=> \E j \in T : lines[j].of = "user" /\ \A k \in T : k <= j
    <3>1. ASSUME LastIsOwn(lines, i) PROVE \E j \in T : lines[j].of = "user" /\ \A k \in T : k <= j
      BY ONLY <1>1, <3>1 DEF LastIsOwn
    <3>2. ASSUME NEW j \in T, lines[j].of = "user", \A k \in T : k <= j PROVE LastIsOwn(lines, i)
      BY ONLY <1>1, <3>2, j \in T DEF LastIsOwn
    <3> QED
      BY <3>1, <3>2
  <2> QED
    BY ONLY <1>2, <1>4, <2>1, <2>2, <2>3
<1> QED
  BY <1>3, <1>4

\* What follows does not change what a line is under.
LEMMA UnderBefore ==
  ASSUME NEW a, NEW b, NEW c, NEW M, NEW N, Joined(a, b, c, M, N)
  PROVE  \A i \in 1 .. M : UnderOwnHost(c, i) <=> UnderOwnHost(a, i)
<1>1. M \in Nat /\ \A n \in 1 .. M : c[n] = a[n]
  BY DEF Joined
<1> SUFFICES ASSUME NEW i \in 1 .. M PROVE UnderOwnHost(c, i) <=> UnderOwnHost(a, i)
  OBVIOUS
<1>2. i \in Nat /\ \A k \in 1 .. i : c[k] = a[k]
  BY ONLY <1>1, i \in 1 .. M
<1>3. LastIsOwn(c, i) <=> LastIsOwn(a, i)
  BY ONLY <1>2 DEF LastIsOwn
<1> QED
  BY <1>2, <1>3, UnderIs

\* Where a part opens with a line that begins a block, what is before it does not
\* change what its lines are under.
FirstIsHead(lines) == Len(lines) > 0 => IsHead(lines[1])

LEMMA UnderAfter ==
  ASSUME NEW a, NEW b, NEW c, NEW M, NEW N, Joined(a, b, c, M, N), FirstIsHead(b)
  PROVE  \A i \in 1 .. N : UnderOwnHost(c, M + i) <=> UnderOwnHost(b, i)
<1>1. /\ M \in Nat /\ N \in Nat /\ Len(b) = N /\ \A n \in 1 .. M : c[n] = a[n]
      /\ \A n \in 1 .. N : c[M + n] = b[n]
  BY DEF Joined
<1>2. ASSUME NEW i \in 1 .. N, NEW m, m = M + i PROVE UnderOwnHost(c, m) <=> UnderOwnHost(b, i)
  <2>1. /\ i \in Nat /\ m \in Nat /\ 1 \in 1 .. N /\ 1 \in 1 .. i
        /\ \A k \in 1 .. i : k \in 1 .. N /\ M + k \in 1 .. m /\ c[M + k] = b[k]
    BY ONLY <1>1, <1>2, i \in 1 .. N
  <2>2. IsHead(b[1])
    BY <1>1, <2>1 DEF FirstIsHead
  <2>3. ASSUME LastIsOwn(c, m) PROVE LastIsOwn(b, i)
    <3>1. PICK j \in 1 .. m : IsHead(c[j]) /\ c[j].of = "user" /\ \A k \in 1 .. m : IsHead(c[k]) => k <= j
      BY <2>3 DEF LastIsOwn
    <3>2. M + 1 <= j
      BY ONLY <2>1, <2>2, <3>1
    <3> DEFINE h == j - M
    <3>3. h \in 1 .. i /\ M + h = j
      BY ONLY <1>1, <1>2, <3>2, i \in 1 .. N, j \in 1 .. m
    <3> HIDE DEF h
    <3>4. ASSUME NEW k \in 1 .. i, IsHead(b[k]) PROVE k <= h
      <4>1. M + k <= j
        BY ONLY <2>1, <3>1, <3>4, k \in 1 .. i
      <4> QED
        BY ONLY <1>1, <3>3, <4>1, <2>1, k \in 1 .. i
    <3> QED
      BY ONLY <2>1, <3>1, <3>3, <3>4 DEF LastIsOwn
  <2>4. ASSUME LastIsOwn(b, i) PROVE LastIsOwn(c, m)
    <3>1. PICK h \in 1 .. i : IsHead(b[h]) /\ b[h].of = "user" /\ \A k \in 1 .. i : IsHead(b[k]) => k <= h
      BY <2>4 DEF LastIsOwn
    <3> DEFINE j == M + h
    <3>2. j \in 1 .. m /\ c[j] = b[h] /\ j = M + h
      BY ONLY <2>1, h \in 1 .. i
    <3> HIDE DEF j
    <3>3. ASSUME NEW k \in 1 .. m, IsHead(c[k]) PROVE k <= j
      <4>1. CASE k <= M
        BY ONLY <1>1, <3>2, <4>1, h \in 1 .. i, <2>1, k \in 1 .. m
      <4>2. CASE ~(k <= M)
        <5> DEFINE g == k - M
        <5>1. g \in 1 .. i /\ M + g = k
          BY ONLY <1>1, <1>2, <4>2, k \in 1 .. m, i \in 1 .. N
        <5> HIDE DEF g
        <5>2. g <= h
          BY ONLY <2>1, <3>1, <3>3, <5>1
        <5> QED
          BY ONLY <1>1, <3>2, <5>1, <5>2, <2>1, h \in 1 .. i
      <4> QED
        BY <4>1, <4>2
    <3> QED
      BY ONLY <3>1, <3>2, <3>3 DEF LastIsOwn
  <2> QED
    BY <2>1, <2>3, <2>4, UnderIs
<1> QED
  BY <1>2

OwnedInBoth(a, b, c, box) == Owned(c, box) = Owned(a, box) \o Owned(b, box)

\* What is chosen of lines that follow others is chosen after what is chosen of those.
LEMMA OwnedJoined ==
  ASSUME NEW S, NEW a \in Seq(S), NEW b \in Seq(S), NEW c, c = a \o b, NEW box
  PROVE  OwnedInBoth(a, b, c, box)
<1> DEFINE Of(l) == {i \in DOMAIN l : l[i].of = box /\ l[i].word # ""}
           A == Of(a)
           B == Of(b)
           C == Of(c)
           M == Len(a)
           N == Len(b)
<1>1. /\ M \in Nat /\ N \in Nat /\ DOMAIN a = 1 .. M /\ DOMAIN b = 1 .. N
      /\ c \in Seq(S) /\ Len(c) = M + N
      /\ \A n \in 1 .. M : c[n] = a[n]
      /\ \A n \in 1 .. N : c[M + n] = b[n]
  <2>1. M \in Nat /\ N \in Nat /\ DOMAIN a = 1 .. M /\ DOMAIN b = 1 .. N
    OBVIOUS
  <2> QED
    BY <2>1, ConcatIs
<1>2. DOMAIN c = 1 .. M + N /\ (\A n \in 1 .. M : n \in 1 .. M + N) /\ (\A n \in 1 .. N : M + n \in 1 .. M + N)
  <2>1. DOMAIN c = 1 .. Len(c)
    BY <1>1
  <2> HIDE DEF M, N
  <2> QED
    BY ONLY <1>1, <2>1
<1>3. /\ \A n \in 1 .. M : n \in C <=> n \in A
      /\ \A n \in 1 .. N : M + n \in C <=> n \in B
  <2> HIDE DEF M, N
  <2> QED
    BY ONLY <1>1, <1>2
<1>4. Owned(a, box) = Chosen(a, A) /\ Owned(b, box) = Chosen(b, B) /\ Owned(c, box) = Chosen(c, C)
  BY DEF Owned
<1> HIDE DEF A, B, C
<1>5. Chosen(c, C) = Chosen(a, A) \o Chosen(b, B)
  <2>1. SamePlaces(a, A, C) /\ PlacesAfter(a, b, B, C)
    BY <1>3 DEF SamePlaces, PlacesAfter
  <2>2. EachItsOwn(a, b, c, A, B, C)
    BY ONLY a \in Seq(S), b \in Seq(S), c = a \o b, <2>1, BothChosen
  <2> QED
    BY ONLY <2>2 DEF EachItsOwn
<1> QED
  BY ONLY <1>4, <1>5 DEF OwnedInBoth

LEMMA OwnedNone ==
  ASSUME NEW S, NEW a \in Seq(S), NEW box, \A n \in 1 .. Len(a) : a[n].of # box \/ a[n].word = ""
  PROVE  Owned(a, box) = <<>>
<1> DEFINE A == {i \in DOMAIN a : a[i].of = box /\ a[i].word # ""}
<1>1. Owned(a, box) = Chosen(a, A)
  BY DEF Owned
<1>2. \A n \in 1 .. Len(a) : n \notin A
  OBVIOUS
<1> HIDE DEF A
<1> QED
  BY <1>1, <1>2, NoneChosen

LEMMA HostsJoined ==
  ASSUME NEW S, NEW a \in Seq(S), NEW b \in Seq(S), NEW c, c = a \o b,
         FirstIsHead(b) \/ \A n \in 1 .. Len(b) : b[n].word = ""
  PROVE  UserHosts(c) = UserHosts(a) \o UserHosts(b)
<1> DEFINE Of(l) == {i \in DOMAIN l : UnderOwnHost(l, i) /\ l[i].word # ""}
           A == Of(a)
           B == Of(b)
           C == Of(c)
           M == Len(a)
           N == Len(b)
<1>1. M \in Nat /\ N \in Nat /\ DOMAIN a = 1 .. M /\ DOMAIN b = 1 .. N
  BY ONLY a \in Seq(S), b \in Seq(S)
<1>2. c \in Seq(S) /\ Joined(a, b, c, M, N)
  BY JoinedAre
<1> HIDE DEF M, N
<1>3. /\ DOMAIN c = 1 .. M + N
      /\ \A n \in 1 .. M : n \in 1 .. M + N /\ c[n] = a[n]
      /\ \A n \in 1 .. N : M + n \in 1 .. M + N /\ c[M + n] = b[n]
  <2>1. DOMAIN c = 1 .. Len(c)
    BY ONLY <1>2
  <2> QED
    BY ONLY <1>1, <1>2, <2>1 DEF Joined
<1>4. \A n \in 1 .. M : UnderOwnHost(c, n) <=> UnderOwnHost(a, n)
  BY ONLY <1>2, UnderBefore
<1>5. \A n \in 1 .. N : b[n].word = "" \/ (UnderOwnHost(c, M + n) <=> UnderOwnHost(b, n))
  <2>1. CASE FirstIsHead(b)
    BY ONLY <1>2, <2>1, UnderAfter
  <2> QED
    BY <2>1 DEF N
<1>6. \A n \in 1 .. M : n \in C <=> n \in A
  BY ONLY <1>1, <1>3, <1>4
<1>7. \A n \in 1 .. N : M + n \in C <=> n \in B
  BY ONLY <1>1, <1>3, <1>5
<1>8. UserHosts(a) = Chosen(a, A) /\ UserHosts(b) = Chosen(b, B) /\ UserHosts(c) = Chosen(c, C)
  BY DEF UserHosts
<1> HIDE DEF A, B, C
<1>9. Chosen(c, C) = Chosen(a, A) \o Chosen(b, B)
  <2>1. SamePlaces(a, A, C) /\ PlacesAfter(a, b, B, C)
    BY <1>6, <1>7 DEF SamePlaces, PlacesAfter, M, N
  <2>2. EachItsOwn(a, b, c, A, B, C)
    BY ONLY a \in Seq(S), b \in Seq(S), c = a \o b, <2>1, BothChosen
  <2> QED
    BY ONLY <2>2 DEF EachItsOwn
<1> QED
  BY ONLY <1>8, <1>9

LEMMA HostsNone ==
  ASSUME NEW S, NEW a \in Seq(S), \A n \in 1 .. Len(a) : ~(IsHead(a[n]) /\ a[n].of = "user")
  PROVE  UserHosts(a) = <<>>
<1> DEFINE A == {i \in DOMAIN a : UnderOwnHost(a, i) /\ a[i].word # ""}
<1>1. UserHosts(a) = Chosen(a, A)
  BY DEF UserHosts
<1>2. ASSUME NEW i \in 1 .. Len(a) PROVE ~UnderOwnHost(a, i)
  <2>1. i \in Nat /\ \A j \in 1 .. i : j \in 1 .. Len(a)
    OBVIOUS
  <2>2. ~LastIsOwn(a, i)
    BY <2>1 DEF LastIsOwn
  <2> QED
    BY <2>1, <2>2, UnderIs
<1>3. \A n \in 1 .. Len(a) : n \notin A
  BY <1>2
<1> HIDE DEF A
<1> QED
  BY <1>1, <1>3, NoneChosen

LEMMA FirstLineIs ==
  ASSUME NEW T \in SUBSET Nat, T # {}
  PROVE  FirstLine(T) \in T /\ \A k \in T : FirstLine(T) <= k
<1>1. \E m \in T : \A k \in T : m <= k
  BY LeastIsThere
<1> QED
  BY ONLY <1>1 DEF FirstLine

\* The first Host line of a box, after which comes what ssh obeys.
FirstHost(lines, box, i) ==
  /\ i \in 1 .. Len(lines) /\ lines[i].word = "Host" /\ lines[i].of = box
  /\ \A k \in 1 .. Len(lines) : lines[k].word = "Host" /\ lines[k].of = box => i <= k

LEMMA FirstHostIs ==
  ASSUME NEW S, NEW lines \in Seq(S), NEW box, HostLine(lines, box) # {}
  PROVE  FirstHost(lines, box, FirstLine(HostLine(lines, box)))
<1>1. Len(lines) \in Nat /\ DOMAIN lines = 1 .. Len(lines)
  OBVIOUS
<1> DEFINE T == HostLine(lines, box)
           i == FirstLine(T)
<1>2. T \in SUBSET Nat /\ \A k \in 1 .. Len(lines) : k \in T <=> lines[k].word = "Host" /\ lines[k].of = box
  BY <1>1 DEF HostLine
<1>3. \A k \in T : k \in 1 .. Len(lines)
  BY <1>1 DEF HostLine
<1> HIDE DEF T
<1>4. i \in T /\ \A k \in T : i <= k
  <2>1. T # {}
    BY DEF T
  <2> QED
    BY <1>2, <2>1, FirstLineIs
<1> QED
  BY ONLY <1>2, <1>3, <1>4 DEF FirstHost, T

LEMMA EffectiveIs ==
  ASSUME NEW S, NEW lines \in Seq(S), NEW box, NEW i, FirstHost(lines, box, i)
  PROVE  Effective(lines, box) = lines[i + 1].says
<1>1. i \in 1 .. Len(lines) /\ DOMAIN lines = 1 .. Len(lines) /\ Len(lines) \in Nat
  BY DEF FirstHost
<1>2. HostLine(lines, box) # {}
  BY <1>1 DEF HostLine, FirstHost
<1> DEFINE j == FirstLine(HostLine(lines, box))
<1>3. FirstHost(lines, box, j)
  BY <1>2, FirstHostIs
<1> HIDE DEF j
<1>4. j = i
  BY ONLY <1>1, <1>3, FirstHost(lines, box, i) DEF FirstHost
<1> QED
  BY <1>2, <1>4 DEF Effective, j

\* What ssh-setup takes for the block of a box: its three lines, and others of the
\* user up to the next that begins one.
TheBlock(c, box, h, e) ==
  /\ h \in Nat /\ e \in 1 .. Len(c) /\ h + 2 <= e
  /\ BlockAt(c, h) /\ c[h].of = box /\ FirstHost(c, box, h + 1)
  /\ \A j \in h + 2 .. e : ~IsHead(c[j])
  /\ \A j \in h + 3 .. e : c[j].of = "user"
  /\ e < Len(c) => IsHead(c[e + 1])

LEMMA BlockFound ==
  ASSUME NEW S, NEW c \in Seq(S), InBlocks(c), NEW box, box # "user", HostLine(c, box) # {},
         NEW i, i = FirstLine(HostLine(c, box)), NEW h, h = BlockStart(c, i), NEW e, e = BlockEnd(c, i)
  PROVE  TheBlock(c, box, h, e) /\ i = h + 1
<1> DEFINE N == Len(c)
<1>1. N \in Nat /\ DOMAIN c = 1 .. N
  OBVIOUS
<1>2. FirstHost(c, box, i)
  BY FirstHostIs
<1>3. i \in 1 .. N /\ c[i].word = "Host" /\ c[i].of = box
  BY <1>2 DEF FirstHost
<1>4. PICK g \in 1 .. N : BlockAt(c, g) /\ (i = g \/ i = g + 1 \/ i = g + 2)
  <2>1. c[i].of # "user"
    BY <1>3
  <2> QED
    BY <1>3, <2>1 DEF InBlocks, InBlock
<1>5. i = g + 1 /\ c[g].word = "Added" /\ c[g].of = box
  BY ONLY <1>3, <1>4 DEF BlockAt
<1>6. h = g
  <2>1. i > 1 /\ i - 1 = g
    BY ONLY <1>1, <1>5, g \in 1 .. N
  <2> QED
    BY ONLY <1>5, <2>1, h = BlockStart(c, i) DEF BlockStart
<1> DEFINE T == {j \in DOMAIN c : j > i /\ c[j].word \in {"Host", "Added"}}
<1>7. /\ T \in SUBSET Nat /\ \A j \in T : j \in 1 .. N /\ j > i /\ IsHead(c[j])
      /\ \A j \in 1 .. N : j > i /\ IsHead(c[j]) => j \in T
  BY <1>1 DEF IsHead
<1>8. e = IF T = {} THEN N ELSE FirstLine(T) - 1
  BY DEF BlockEnd
<1> HIDE DEF T, N
<1>9. /\ e \in 1 .. N /\ i <= e
      /\ \A j \in 1 .. N : i < j /\ j <= e => ~IsHead(c[j])
      /\ e < N => IsHead(c[e + 1])
  <2>1. CASE T = {}
    BY ONLY <1>1, <1>3, <1>7, <1>8, <2>1
  <2>2. CASE T # {}
    <3> DEFINE f == FirstLine(T)
    <3>1. f \in T /\ \A k \in T : f <= k
      BY <1>7, <2>2, FirstLineIs
    <3> HIDE DEF f
    <3>2. e = f - 1 /\ f \in 1 .. N /\ f > i /\ IsHead(c[f])
      BY ONLY <1>7, <1>8, <2>2, <3>1 DEF f
    <3>3. e \in 1 .. N /\ i <= e /\ e + 1 = f
      BY ONLY <1>1, <1>3, <3>2
    <3>4. ASSUME NEW j \in 1 .. N, i < j, j <= e, IsHead(c[j]) PROVE FALSE
      <4>1. f <= j
        BY ONLY <1>7, <3>1, <3>4, j \in 1 .. N
      <4> QED
        BY ONLY <1>1, <3>2, <3>4, <4>1, j \in 1 .. N
    <3> QED
      BY ONLY <3>2, <3>3, <3>4
  <2> QED
    BY <2>1, <2>2
<1>10. g + 2 \in 1 .. N /\ c[g + 2].word = "body"
  BY <1>4 DEF BlockAt, N
<1>11. h \in Nat /\ h + 2 <= e
  <2>1. e # i
    <3> SUFFICES ASSUME e = i PROVE FALSE
      OBVIOUS
    <3>1. e < N /\ e + 1 = g + 2
      BY ONLY <1>1, <1>3, <1>5, <1>10, e = i, g \in 1 .. N
    <3>2. IsHead(c[g + 2])
      BY ONLY <1>9, <3>1
    <3> QED
      BY ONLY <1>10, <3>2 DEF IsHead
  <2> QED
    BY ONLY <1>1, <1>3, <1>5, <1>6, <1>9, <2>1, g \in 1 .. N
<1>12. \A j \in h + 2 .. e : j \in 1 .. N /\ i < j /\ ~IsHead(c[j])
  <2>1. \A j \in h + 2 .. e : j \in 1 .. N /\ i < j /\ j <= e
    BY ONLY <1>1, <1>5, <1>6, <1>9, <1>11
  <2> QED
    BY ONLY <1>9, <2>1
<1>13. ASSUME NEW j \in h + 3 .. e, c[j].of # "user" PROVE FALSE
  <2>1. j \in 1 .. N /\ j - 1 \in h + 2 .. e /\ j \in h + 2 .. e
    BY ONLY <1>1, <1>9, <1>11, j \in h + 3 .. e
  <2>2. PICK k \in 1 .. N : BlockAt(c, k) /\ (j = k \/ j = k + 1 \/ j = k + 2)
    BY <1>13, <2>1 DEF InBlocks, InBlock, N
  <2>3. IsHead(c[k]) /\ IsHead(c[k + 1])
    BY ONLY <2>2 DEF BlockAt, IsHead
  <2>4. j # k /\ j # k + 1
    BY ONLY <1>12, <2>1, <2>3
  <2>5. j - 1 = k + 1
    BY ONLY <2>1, <2>2, <2>4, <1>1, k \in 1 .. N
  <2> QED
    BY ONLY <1>12, <2>1, <2>3, <2>5
<1>14. BlockAt(c, h) /\ c[h].of = box /\ FirstHost(c, box, h + 1) /\ i = h + 1
  BY ONLY <1>2, <1>4, <1>5, <1>6
<1> QED
  BY ONLY <1>9, <1>11, <1>12, <1>13, <1>14 DEF TheBlock, N

\* A config is what is before a block, the block and what follows.
PartsOf(c, h, e, p, m, q) ==
  /\ p \in Seq(ConfigLine) /\ m \in Seq(ConfigLine) /\ q \in Seq(ConfigLine) /\ c = (p \o m) \o q
  /\ Len(p) = h - 1 /\ Len(m) = e - h + 1 /\ Len(q) = Len(c) - e
  /\ \A n \in 1 .. Len(p) : p[n] = c[n]
  /\ \A n \in 1 .. Len(m) : m[n] = c[h + n - 1]
  /\ \A n \in 1 .. Len(q) : q[n] = c[e + n]

LEMMA PartsAre ==
  ASSUME NEW c \in Seq(ConfigLine), NEW h \in 1 .. Len(c), NEW e \in h .. Len(c)
  PROVE  PartsOf(c, h, e, SubSeq(c, 1, h - 1), SubSeq(c, h, e), SubSeq(c, e + 1, Len(c)))
<1> DEFINE N == Len(c)
           p == SubSeq(c, 1, h - 1)
           m == SubSeq(c, h, e)
           q == SubSeq(c, e + 1, N)
<1>1. N \in Nat /\ \A n \in 1 .. N : c[n] \in ConfigLine
  OBVIOUS
<1>2. h \in Nat /\ e \in Nat /\ 1 <= h /\ h <= e /\ e <= N /\ h - 1 \in Int /\ e + 1 \in Int /\ 1 \in Int /\ N \in Int
  BY <1>1
<1> HIDE DEF N
<1>3. /\ p \in Seq(ConfigLine) /\ Len(p) = h - 1 /\ \A n \in 1 .. h - 1 : p[n] = c[n]
  <2> DEFINE k == h - 1
  <2>1. k \in Int /\ \A n \in 1 .. k : c[n] \in ConfigLine
    BY ONLY <1>1, <1>2
  <2>2. (IF 1 <= k THEN k - 1 + 1 ELSE 0) = k /\ k - 1 + 1 = k /\ \A n \in 1 .. k : 1 + n - 1 = n
    BY ONLY <1>2
  <2> HIDE DEF k
  <2>3. /\ SubSeq(c, 1, k) \in Seq(ConfigLine) /\ Len(SubSeq(c, 1, k)) = IF 1 <= k THEN k - 1 + 1 ELSE 0
        /\ \A n \in 1 .. k - 1 + 1 : SubSeq(c, 1, k)[n] = c[1 + n - 1]
    BY <1>2, <2>1, SubSeqProperties
  <2>4. SubSeq(c, 1, k) \in Seq(ConfigLine) /\ Len(SubSeq(c, 1, k)) = k /\ \A n \in 1 .. k : SubSeq(c, 1, k)[n] = c[n]
    BY ONLY <2>2, <2>3
  <2> QED
    BY ONLY <2>4 DEF k
<1>4. /\ m \in Seq(ConfigLine) /\ Len(m) = e - h + 1 /\ \A n \in 1 .. e - h + 1 : m[n] = c[h + n - 1]
  <2>1. \A n \in h .. e : c[n] \in ConfigLine
    BY ONLY <1>1, <1>2
  <2>2. h \in Int /\ e \in Int /\ h <= e
    BY ONLY <1>2
  <2> QED
    BY <2>1, <2>2, SubSeqProperties
<1>5. /\ q \in Seq(ConfigLine) /\ Len(q) = N - e /\ \A n \in 1 .. N - e : q[n] = c[e + n]
  <2> DEFINE k == e + 1
  <2>1. k \in Int /\ \A n \in k .. N : c[n] \in ConfigLine
    BY ONLY <1>1, <1>2
  <2>2. (IF k <= N THEN N - k + 1 ELSE 0) = N - e /\ N - k + 1 = N - e /\ \A n \in 1 .. N - e : k + n - 1 = e + n
    BY ONLY <1>1, <1>2
  <2> HIDE DEF k
  <2>3. /\ SubSeq(c, k, N) \in Seq(ConfigLine) /\ Len(SubSeq(c, k, N)) = IF k <= N THEN N - k + 1 ELSE 0
        /\ \A n \in 1 .. N - k + 1 : SubSeq(c, k, N)[n] = c[k + n - 1]
    BY <1>2, <2>1, SubSeqProperties
  <2>4. SubSeq(c, k, N) \in Seq(ConfigLine) /\ Len(SubSeq(c, k, N)) = N - e /\ \A n \in 1 .. N - e : SubSeq(c, k, N)[n] = c[e + n]
    BY ONLY <2>2, <2>3
  <2> QED
    BY ONLY <2>4 DEF k
<1>6. p \o m = SubSeq(c, 1, e)
  <2> DEFINE k == h - 1
  <2>1. k + 1 = h /\ 1 \in 1 .. N + 1 /\ k \in 1 - 1 .. N /\ e \in k .. N
    BY ONLY <1>1, <1>2
  <2> HIDE DEF k
  <2>2. SubSeq(c, 1, k) \o SubSeq(c, k + 1, e) = SubSeq(c, 1, e)
    BY <2>1, ConcatAdjacentSubSeq DEF N
  <2> QED
    BY ONLY <2>1, <2>2 DEF k
<1>7. SubSeq(c, 1, e) \o q = c
  <2>1. 1 \in 1 .. N + 1 /\ e \in 1 - 1 .. N /\ N \in e .. N
    BY ONLY <1>1, <1>2
  <2>2. SubSeq(c, 1, e) \o SubSeq(c, e + 1, N) = SubSeq(c, 1, N)
    BY <2>1, ConcatAdjacentSubSeq DEF N
  <2>3. SubSeq(c, 1, N) = c
    BY SubSeqFull DEF N
  <2> QED
    BY ONLY <2>2, <2>3
<1> QED
  BY ONLY <1>3, <1>4, <1>5, <1>6, <1>7 DEF PartsOf, N

\* A block of a box: no line of it is of another box, and none is under a Host of
\* the user.
BlockOf(m, box) ==
  /\ FirstIsHead(m)
  /\ \A n \in 1 .. Len(m) : m[n].of = box \/ m[n].of = "user"
  /\ \A n \in 1 .. Len(m) : IsHead(m[n]) => m[n].of # "user"

SameOthers(c, d, box) == UserHosts(d) = UserHosts(c) /\ \A b \in Boxes \ {box} : Owned(d, b) = Owned(c, b)

\* What is in the place of a block does not matter to the others.
LEMMA OtherBlock ==
  ASSUME NEW p \in Seq(ConfigLine), NEW m \in Seq(ConfigLine), NEW n \in Seq(ConfigLine), NEW q \in Seq(ConfigLine),
         NEW box, BlockOf(m, box), BlockOf(n, box), FirstIsHead(q),
         NEW c, c = (p \o m) \o q, NEW d, d = (p \o n) \o q
  PROVE  SameOthers(c, d, box)
<1> DEFINE pm == p \o m
           pn == p \o n
<1>1. pm \in Seq(ConfigLine) /\ pn \in Seq(ConfigLine)
  BY ConcatProperties
<1>2. c = pm \o q /\ d = pn \o q /\ pm = p \o m /\ pn = p \o n
  OBVIOUS
<1> HIDE DEF pm, pn
<1>3. FirstIsHead(m) /\ FirstIsHead(n)
  BY DEF BlockOf
<1>4. UserHosts(m) = <<>> /\ UserHosts(n) = <<>>
  BY HostsNone DEF BlockOf
<1>5. UserHosts(pm) = UserHosts(p) \o UserHosts(m) /\ UserHosts(pn) = UserHosts(p) \o UserHosts(n)
  BY <1>2, <1>3, HostsJoined
<1>6. UserHosts(c) = UserHosts(pm) \o UserHosts(q)
  BY <1>1, <1>2, HostsJoined
<1>7. UserHosts(d) = UserHosts(pn) \o UserHosts(q)
  BY <1>1, <1>2, HostsJoined
<1>8. ASSUME NEW b \in Boxes \ {box} PROVE Owned(d, b) = Owned(c, b)
  <2>1. b # "user" /\ b # box
    BY SshAssumption
  <2>2. Owned(m, b) = <<>> /\ Owned(n, b) = <<>>
    BY <2>1, OwnedNone DEF BlockOf
  <2>3. OwnedInBoth(p, m, pm, b) /\ OwnedInBoth(p, n, pn, b)
    BY <1>2, OwnedJoined
  <2>4. OwnedInBoth(pm, q, c, b) /\ OwnedInBoth(pn, q, d, b)
    BY <1>1, <1>2, OwnedJoined
  <2> QED
    BY ONLY <2>2, <2>3, <2>4 DEF OwnedInBoth
<1> QED
  BY ONLY <1>4, <1>5, <1>6, <1>7, <1>8 DEF SameOthers

Full(line) == line.word # ""

\* The third line of a block says what ssh obeys, and is not trimmed.
LEMMA TrimIs ==
  ASSUME NEW S, NEW m \in Seq(S), Len(m) >= 3, Full(m[1]), Full(m[3])
  PROVE  TrimLines(m)[3] = m[3]
<1> DEFINE N == Len(m)
           T == {i \in DOMAIN m : Full(m[i])}
           f == FirstLine(T)
           l == CHOOSE i \in T : \A j \in T : j <= i
<1>1. N \in Nat /\ DOMAIN m = 1 .. N /\ N >= 3 /\ \A n \in 1 .. N : m[n] \in S
  OBVIOUS
<1>2. T \in SUBSET (1 .. N) /\ 1 \in T /\ 3 \in T
  BY <1>1
<1>3. TrimLines(m) = SubSeq(m, f, l)
  <2>1. T = {i \in DOMAIN m : m[i].word # ""}
    BY DEF Full
  <2>2. T # {}
    BY <1>2
  <2> QED
    BY ONLY <2>1, <2>2 DEF TrimLines
<1> HIDE DEF T, N
<1>4. f = 1
  <2>1. T \in SUBSET Nat /\ T # {} /\ \A k \in T : 1 <= k /\ k \in Nat
    BY ONLY <1>1, <1>2
  <2>2. f \in T /\ \A k \in T : f <= k
    BY <2>1, FirstLineIs
  <2> HIDE DEF f
  <2>3. f <= 1 /\ 1 <= f /\ f \in Nat
    BY ONLY <1>2, <2>1, <2>2
  <2> QED
    BY ONLY <2>3
<1>5. l \in 3 .. N
  <2>1. \E i \in T : \A j \in T : j <= i
    BY <1>1, <1>2, LastIsThere
  <2>2. l \in T /\ \A j \in T : j <= l
    BY ONLY <2>1
  <2> HIDE DEF l
  <2>3. 3 <= l /\ l \in 1 .. N
    BY ONLY <1>2, <2>2
  <2> QED
    BY ONLY <1>1, <2>3
<1> HIDE DEF f, l
<1>6. SubSeq(m, 1, l)[3] = m[3]
  <2>1. /\ 1 \in Int /\ l \in Int /\ 3 \in 1 .. l - 1 + 1 /\ 1 + 3 - 1 = 3
        /\ \A i \in 1 .. l : m[i] \in S
    BY ONLY <1>1, <1>5
  <2>2. \A i \in 1 .. l - 1 + 1 : SubSeq(m, 1, l)[i] = m[1 + i - 1]
    BY <2>1, SubSeqProperties
  <2> QED
    BY ONLY <2>1, <2>2
<1> QED
  BY ONLY <1>3, <1>4, <1>6

\* The block that is written.
NewBlock(m, box, v) ==
  /\ m \in Seq(ConfigLine) /\ Len(m) = 4
  /\ m[1].word = "Added" /\ m[2].word = "Host" /\ m[3].word = "body" /\ m[4] = Blank
  /\ m[1].of = box /\ m[2].of = box /\ m[3].of = box /\ m[3].says = v
  /\ BlockOf(m, box) /\ InBlocks(m)

LEMMA BlankTyped == Blank \in ConfigLine
  BY DEF Blank, SshLine, ConfigLine

LEMMA BlankIs == Blank.word = "" /\ Blank.of = "user"
  BY DEF Blank, SshLine

LEMMA NewBlockIs ==
  ASSUME NEW box \in Boxes, NEW v \in Versions
  PROVE  NewBlock(Block(box, v), box, v)
<1> DEFINE x == SshLine("Added", box, v)
           y == SshLine("Host", box, "-")
           z == SshLine("body", box, v)
           m == Block(box, v)
<1>1. /\ x \in ConfigLine /\ y \in ConfigLine /\ z \in ConfigLine
      /\ x.word = "Added" /\ y.word = "Host" /\ z.word = "body"
      /\ x.of = box /\ y.of = box /\ z.of = box /\ z.says = v
  BY DEF SshLine, ConfigLine
<1>2. m = <<x, y, z, Blank>>
  BY DEF Block
<1> HIDE DEF x, y, z, m
<1>3. /\ m \in Seq(ConfigLine) /\ Len(m) = 4 /\ m[1] = x /\ m[2] = y /\ m[3] = z /\ m[4] = Blank
  <2> DEFINE w == Blank
  <2>1. w \in ConfigLine /\ m = <<x, y, z, w>>
    BY ONLY <1>2, BlankTyped
  <2> HIDE DEF w
  <2>2. m \in Seq(ConfigLine) /\ Len(m) = 4 /\ m[1] = x /\ m[2] = y /\ m[3] = z /\ m[4] = w
    <3>1. x \in ConfigLine /\ y \in ConfigLine /\ z \in ConfigLine
      BY ONLY <1>1
    <3> QED
      BY ONLY <2>1, <3>1
  <2> QED
    BY ONLY <2>2 DEF w
<1>4. box # "user"
  BY SshAssumption
<1>5. \A n \in 1 .. 4 : n = 1 \/ n = 2 \/ n = 3 \/ n = 4
  OBVIOUS
<1>6. BlockOf(m, box)
  BY ONLY <1>1, <1>3, <1>4, <1>5, BlankIs DEF BlockOf, FirstIsHead, IsHead
<1>7. BlockAt(m, 1)
  <2>1. 1 \in 1 .. 4 /\ 1 + 1 = 2 /\ 1 + 2 = 3 /\ 2 \in 1 .. 4 /\ 3 \in 1 .. 4
    OBVIOUS
  <2> QED
    BY ONLY <1>1, <1>3, <2>1, box \in Boxes DEF BlockAt
<1>8. InBlocks(m)
  <2>1. 1 \in 1 .. 4 /\ 1 + 1 = 2 /\ 1 + 2 = 3
    OBVIOUS
  <2> QED
    BY ONLY <1>1, <1>3, <1>5, <1>7, <2>1, BlankIs DEF InBlocks, InBlock
<1> QED
  BY ONLY <1>1, <1>3, <1>6, <1>8 DEF NewBlock, m

\* The configs there are: lines of boxes are in blocks, and once there is one the
\* file ends in a newline.
Ended(c) == c[Len(c)] = Blank

OnlyUser(c) == \A n \in 1 .. Len(c) : c[n].of = "user" /\ c[n].word # "Added"

GoodConfig(c) == c \in Seq(ConfigLine) /\ Len(c) > 0 /\ InBlocks(c) /\ (Ended(c) \/ OnlyUser(c))

LEMMA EndedJoined ==
  ASSUME NEW a, NEW b, NEW c, NEW M, NEW N, Joined(a, b, c, M, N), IF N = 0 THEN M > 0 /\ Ended(a) ELSE Ended(b)
  PROVE  Ended(c) /\ Len(c) > 0
<1>1. CASE N = 0
  <2>1. M \in 1 .. M /\ M + N = M
    BY <1>1 DEF Joined
  <2> QED
    BY <1>1, <2>1 DEF Joined, Ended
<1>2. CASE N # 0
  <2>1. N \in 1 .. N /\ M + N > 0
    BY <1>2 DEF Joined
  <2> QED
    BY <1>2, <2>1 DEF Joined, Ended
<1> QED
  BY <1>1, <1>2

\* What a setup writes is for its box only.
LocalEdit(c, d, box, v) == Effective(d, box) = v /\ SameOthers(c, d, box)

LEMMA BlankNotHost == ~IsHead(Blank)
  BY BlankIs DEF IsHead

\* A block that is replaced leaves the rest as it was.
LEMMA ReplacedIs ==
  ASSUME NEW c, GoodConfig(c), NEW box \in Boxes, NEW v \in Versions, HostLine(c, box) # {}
  PROVE  /\ GoodConfig(Replaced(c, box, v)) /\ Ended(Replaced(c, box, v)) /\ Ended(c)
         /\ LocalEdit(c, Replaced(c, box, v), box, v)
<1> DEFINE i == FirstLine(HostLine(c, box))
           h == BlockStart(c, i)
           e == BlockEnd(c, i)
           p == SubSeq(c, 1, h - 1)
           m == SubSeq(c, h, e)
           q == SubSeq(c, e + 1, Len(c))
           n == Block(box, v)
           d == (p \o n) \o q
<1>1. c \in Seq(ConfigLine) /\ InBlocks(c) /\ Len(c) \in Nat /\ box # "user"
  BY SshAssumption DEF GoodConfig
<1>2. TheBlock(c, box, h, e)
  BY <1>1, BlockFound
<1>3. NewBlock(n, box, v)
  BY NewBlockIs
<1>4. Replaced(c, box, v) = IF TrimLines(m) = TrimLines(n) THEN c ELSE d
  BY DEF Replaced
<1> HIDE DEF i, h, e
<1>5. h \in Nat /\ h \in 1 .. Len(c) /\ e \in h .. Len(c) /\ h + 2 <= e /\ h + 1 \in 1 .. Len(c)
  <2>1. h \in 1 .. Len(c) /\ e \in 1 .. Len(c) /\ h + 2 <= e /\ h \in Nat /\ h + 1 \in 1 .. Len(c)
    BY ONLY <1>2 DEF TheBlock, BlockAt
  <2> QED
    BY ONLY <1>1, <2>1
<1>6. PartsOf(c, h, e, p, m, q)
  BY <1>1, <1>5, PartsAre
<1> HIDE DEF p, m, q, n
<1>7. Ended(c)
  <2>1. c[h].word = "Added"
    BY <1>2 DEF TheBlock, BlockAt
  <2> QED
    BY <1>5, <2>1 DEF GoodConfig, OnlyUser
<1>8. /\ p \in Seq(ConfigLine) /\ m \in Seq(ConfigLine) /\ n \in Seq(ConfigLine) /\ q \in Seq(ConfigLine)
      /\ c = (p \o m) \o q /\ Len(n) = 4
      /\ Len(p) = h - 1 /\ Len(m) = e - h + 1 /\ Len(q) = Len(c) - e
      /\ \A k \in 1 .. Len(p) : p[k] = c[k]
      /\ \A k \in 1 .. Len(m) : m[k] = c[h + k - 1]
      /\ \A k \in 1 .. Len(q) : q[k] = c[e + k]
  BY ONLY <1>3, <1>6 DEF PartsOf, NewBlock
<1>9. m[1] = c[h] /\ m[2] = c[h + 1] /\ m[3] = c[h + 2] /\ Len(m) >= 3
  <2>1. /\ 1 \in 1 .. Len(m) /\ 2 \in 1 .. Len(m) /\ 3 \in 1 .. Len(m) /\ Len(m) >= 3
        /\ h + 1 - 1 = h /\ h + 2 - 1 = h + 1 /\ h + 3 - 1 = h + 2
    BY ONLY <1>1, <1>5, <1>8
  <2> QED
    BY ONLY <1>8, <2>1
<1>10. /\ c[h].word = "Added" /\ c[h + 1].word = "Host" /\ c[h + 2].word = "body"
       /\ c[h].of = box /\ c[h + 1].of = box /\ c[h + 2].of = box
  BY ONLY <1>2 DEF TheBlock, BlockAt
<1>11. BlockOf(m, box)
  <2>1. \A k \in 1 .. Len(m) : k = 1 \/ k = 2 \/ k = 3 \/ h + k - 1 \in h + 3 .. e
    BY ONLY <1>1, <1>5, <1>8
  <2>2. \A k \in h + 3 .. e : c[k].of = "user" /\ ~IsHead(c[k])
    <3>1. \A k \in h + 3 .. e : k \in h + 2 .. e
      BY ONLY <1>1, <1>5
    <3> QED
      BY ONLY <1>2, <3>1 DEF TheBlock
  <2>3. \A k \in 1 .. Len(m) : m[k].of = box \/ (m[k].of = "user" /\ ~IsHead(m[k]))
    BY ONLY <1>8, <1>9, <1>10, <2>1, <2>2
  <2>4. FirstIsHead(m)
    BY ONLY <1>9, <1>10 DEF FirstIsHead, IsHead
  <2> QED
    BY ONLY <1>1, <2>3, <2>4 DEF BlockOf
<1>12. BlockOf(n, box) /\ InBlocks(n) /\ n[1].word = "Added" /\ n[4] = Blank
  BY ONLY <1>3 DEF NewBlock
<1>13. FirstIsHead(q)
  <2>1. ASSUME Len(q) > 0 PROVE IsHead(q[1])
    <3>1. 1 \in 1 .. Len(q) /\ e < Len(c)
      BY ONLY <1>1, <1>5, <1>8, <2>1
    <3> QED
      BY ONLY <1>2, <1>8, <3>1 DEF TheBlock
  <2> QED
    BY <2>1 DEF FirstIsHead
<1>14. SameOthers(c, d, box)
  <2> HIDE DEF d
  <2>1. /\ p \in Seq(ConfigLine) /\ m \in Seq(ConfigLine) /\ n \in Seq(ConfigLine) /\ q \in Seq(ConfigLine)
        /\ BlockOf(m, box) /\ BlockOf(n, box) /\ FirstIsHead(q)
    BY ONLY <1>8, <1>11, <1>12, <1>13
  <2>2. c = (p \o m) \o q /\ d = (p \o n) \o q
    BY <1>8 DEF d
  <2> QED
    BY ONLY <2>1, <2>2, OtherBlock
<1> DEFINE pn == p \o n
<1>15. pn \in Seq(ConfigLine) /\ Joined(p, n, pn, h - 1, 4)
  <2>1. pn \in Seq(ConfigLine) /\ Joined(p, n, pn, Len(p), Len(n))
    BY <1>8, JoinedAre
  <2> QED
    BY ONLY <1>8, <2>1
<1>16. d \in Seq(ConfigLine) /\ Joined(pn, q, d, Len(pn), Len(q))
  <2>1. d = pn \o q
    OBVIOUS
  <2> HIDE DEF d, pn
  <2> QED
    BY <1>8, <1>15, <2>1, JoinedAre
<1> HIDE DEF d, pn
<1>17. Len(pn) = h + 3
  BY ONLY <1>5, <1>15 DEF Joined
<1>18. InBlocks(p)
  <2> DEFINE M == h - 1
  <2>1. M \in Nat /\ Len(p) = M /\ M <= Len(c) /\ h = M + 1 /\ \A k \in 1 .. M : p[k] = c[k]
    BY ONLY <1>1, <1>5, <1>8
  <2>2. BlockAt(c, h)
    BY <1>2 DEF TheBlock
  <2> HIDE DEF M
  <2> QED
    BY ONLY <1>1, <2>1, <2>2, BlocksBefore
<1>19. InBlocks(q)
  <2> DEFINE N == Len(q)
  <2>1. N \in Nat /\ e \in Nat /\ Len(c) = e + N /\ e \in 1 .. Len(c) /\ \A k \in 1 .. N : q[k] = c[e + k]
    BY ONLY <1>1, <1>5, <1>8
  <2>2. N > 0 => c[e + 1].word \in {"Host", "Added"}
    <3>1. N > 0 => e < Len(c)
      BY ONLY <2>1
    <3> QED
      BY ONLY <1>2, <3>1 DEF TheBlock, IsHead
  <2>3. c[e].word # "Added"
    <3>1. e \in h + 2 .. e
      BY ONLY <1>5, <2>1
    <3>2. ~IsHead(c[e])
      BY ONLY <1>2, <3>1 DEF TheBlock
    <3> QED
      BY ONLY <3>2 DEF IsHead
  <2> HIDE DEF N
  <2>4. Len(q) = N
    BY DEF N
  <2> QED
    BY ONLY <1>1, <2>1, <2>2, <2>3, <2>4, BlocksAfter
<1>20. InBlocks(d)
  <2>1. InBlocks(pn)
    BY ONLY <1>12, <1>15, <1>18, BlocksJoined
  <2> QED
    BY ONLY <1>16, <1>19, <2>1, BlocksJoined
<1>21. Ended(d) /\ Len(d) > 0
  <2>1. Len(pn) > 0 /\ Ended(pn)
    <3>1. h + 3 = (h - 1) + 4 /\ h + 3 > 0 /\ 4 \in 1 .. 4
      BY ONLY <1>5
    <3>2. pn[h + 3] = n[4]
      BY ONLY <1>15, <3>1 DEF Joined
    <3> QED
      BY ONLY <1>12, <1>17, <3>1, <3>2 DEF Ended
  <2>2. ASSUME Len(q) # 0 PROVE Ended(q)
    <3>1. Len(q) \in 1 .. Len(q) /\ e + Len(q) = Len(c)
      <4>1. Len(q) = Len(c) - e /\ Len(c) \in Nat /\ e \in h .. Len(c) /\ h \in Nat
        BY ONLY <1>1, <1>5, <1>8
      <4> QED
        BY ONLY <2>2, <4>1
    <3> QED
      BY ONLY <1>7, <1>8, <3>1 DEF Ended
  <2> QED
    BY ONLY <1>16, <2>1, <2>2, EndedJoined
<1>22. Effective(d, box) = v
  <2>1. d[h + 1] = n[2] /\ d[h + 2] = n[3] /\ d[h] = n[1] /\ \A k \in 1 .. h - 1 : d[k] = c[k]
    <3>1. /\ h = (h - 1) + 1 /\ h + 1 = (h - 1) + 2 /\ h + 2 = (h - 1) + 3
          /\ 1 \in 1 .. 4 /\ 2 \in 1 .. 4 /\ 3 \in 1 .. 4
          /\ h \in 1 .. h + 3 /\ h + 1 \in 1 .. h + 3 /\ h + 2 \in 1 .. h + 3
          /\ \A k \in 1 .. h - 1 : k \in 1 .. h + 3
      BY ONLY <1>5
    <3>2. \A k \in 1 .. h + 3 : d[k] = pn[k]
      BY ONLY <1>16, <1>17 DEF Joined
    <3>3. pn[h] = n[1] /\ pn[h + 1] = n[2] /\ pn[h + 2] = n[3] /\ \A k \in 1 .. h - 1 : pn[k] = p[k]
      BY ONLY <1>15, <3>1 DEF Joined
    <3> QED
      BY ONLY <1>8, <3>1, <3>2, <3>3
  <2>2. n[2].word = "Host" /\ n[2].of = box /\ n[3].says = v /\ n[1].word = "Added"
    BY ONLY <1>3 DEF NewBlock
  <2>3. h + 1 \in 1 .. Len(d)
    <3>1. Len(d) = (h + 3) + Len(q) /\ Len(q) \in Nat
      BY ONLY <1>16, <1>17 DEF Joined
    <3> QED
      BY ONLY <1>5, <3>1
  <2>4. ASSUME NEW k \in 1 .. Len(d), d[k].word = "Host", d[k].of = box, ~(h + 1 <= k) PROVE FALSE
    <3>1. k = h \/ (k \in 1 .. h - 1 /\ k \in 1 .. Len(c))
      BY ONLY <1>1, <1>5, <2>4, k \in 1 .. Len(d)
    <3>2. k # h
      BY ONLY <2>1, <2>2, <2>4
    <3>3. c[k].word = "Host" /\ c[k].of = box
      BY ONLY <2>1, <2>4, <3>1, <3>2
    <3>4. FirstHost(c, box, h + 1)
      BY ONLY <1>2 DEF TheBlock
    <3> QED
      BY ONLY <2>4, <3>1, <3>2, <3>3, <3>4 DEF FirstHost
  <2>5. FirstHost(d, box, h + 1)
    BY ONLY <2>1, <2>2, <2>3, <2>4 DEF FirstHost
  <2>6. Effective(d, box) = d[h + 1 + 1].says
    <3> DEFINE f == h + 1
    <3>1. FirstHost(d, box, f)
      BY <2>5
    <3> HIDE DEF f
    <3>2. Effective(d, box) = d[f + 1].says
      BY ONLY <1>16, <3>1, EffectiveIs
    <3> QED
      BY ONLY <3>2 DEF f
  <2>7. h + 1 + 1 = h + 2
    BY ONLY <1>5
  <2> QED
    BY ONLY <2>1, <2>2, <2>6, <2>7
<1>23. CASE TrimLines(m) = TrimLines(n)
  <2>1. Full(m[1]) /\ Full(m[3])
    BY ONLY <1>9, <1>10 DEF Full
  <2>2. TrimLines(m)[3] = m[3]
    BY ONLY <1>8, <1>9, <2>1, TrimIs
  <2>3. Full(n[1]) /\ Full(n[3]) /\ n[3].says = v
    BY ONLY <1>3 DEF Full, NewBlock
  <2>4. Len(n) >= 3
    BY ONLY <1>8
  <2>5. TrimLines(n)[3] = n[3]
    BY ONLY <1>8, <2>3, <2>4, TrimIs
  <2>6. c[h + 2].says = v
    BY ONLY <1>9, <1>23, <2>2, <2>3, <2>5
  <2>7. Effective(c, box) = v
    <3> DEFINE f == h + 1
    <3>1. FirstHost(c, box, f)
      BY <1>2 DEF TheBlock
    <3>2. f + 1 = h + 2
      BY ONLY <1>5
    <3> HIDE DEF f
    <3>3. Effective(c, box) = c[f + 1].says
      BY ONLY <1>1, <3>1, EffectiveIs
    <3> QED
      BY ONLY <2>6, <3>2, <3>3
  <2> QED
    BY ONLY <1>4, <1>7, <1>23, <2>7, GoodConfig(c) DEF LocalEdit, SameOthers
<1>24. CASE TrimLines(m) # TrimLines(n)
  <2>1. Replaced(c, box, v) = d
    BY ONLY <1>4, <1>24
  <2> QED
    BY ONLY <1>7, <1>14, <1>16, <1>20, <1>21, <1>22, <2>1 DEF LocalEdit, GoodConfig
<1> QED
  BY ONLY <1>23, <1>24

\* Nothing of a box is in lines of the user.
LEMMA UserLinesAre ==
  ASSUME NEW c, OnlyUser(c)
  PROVE  InBlocks(c)
BY DEF OnlyUser, InBlocks

\* What comes before the last line, if that is empty.
LEMMA FrontIs ==
  ASSUME NEW c, GoodConfig(c), Ended(c)
  PROVE  /\ Front(c) \in Seq(ConfigLine) /\ InBlocks(Front(c))
         /\ c = Front(c) \o <<Blank>>
<1> DEFINE N == Len(c)
           M == N - 1
           f == SubSeq(c, 1, M)
<1>1. c \in Seq(ConfigLine) /\ N \in Nat /\ N > 0 /\ InBlocks(c) /\ c[N] = Blank
  BY DEF GoodConfig, Ended
<1>2. \A n \in 1 .. N : c[n] \in ConfigLine
  BY <1>1
<1>3. Front(c) = f
  BY DEF Front
<1>4. /\ M \in Nat /\ M \in Int /\ 1 \in Int /\ N = M + 1 /\ M <= N /\ \A n \in 1 .. M : n \in 1 .. N
      /\ (IF 1 <= M THEN M - 1 + 1 ELSE 0) = M /\ M - 1 + 1 = M /\ \A n \in 1 .. M : 1 + n - 1 = n
  <2>1. M \in Nat /\ M \in Int /\ 1 \in Int /\ N = M + 1 /\ M <= N
    BY ONLY <1>1
  <2> HIDE DEF M, N
  <2>2. (\A n \in 1 .. M : n \in 1 .. N) /\ (IF 1 <= M THEN M - 1 + 1 ELSE 0) = M
    BY ONLY <2>1
  <2>3. M - 1 + 1 = M /\ \A n \in 1 .. M : 1 + n - 1 = n
    BY ONLY <2>1
  <2> QED
    BY ONLY <2>1, <2>2, <2>3
<1>5. f \in Seq(ConfigLine) /\ Len(f) = M /\ \A n \in 1 .. M : f[n] = c[n]
  <2> HIDE DEF M, N
  <2>1. \A n \in 1 .. M : c[n] \in ConfigLine
    BY ONLY <1>2, <1>4
  <2>2. /\ SubSeq(c, 1, M) \in Seq(ConfigLine) /\ Len(SubSeq(c, 1, M)) = IF 1 <= M THEN M - 1 + 1 ELSE 0
        /\ \A n \in 1 .. M - 1 + 1 : SubSeq(c, 1, M)[n] = c[1 + n - 1]
    BY <1>4, <2>1, SubSeqProperties
  <2> QED
    BY ONLY <1>4, <2>2
<1>6. InBlocks(f)
  <2>1. c[N].word = ""
    BY <1>1, BlankIs
  <2>2. M + 1 = Len(c) /\ c[N].word = "" /\ Len(c) \in Nat /\ M <= Len(c) /\ N = M + 1
    BY <1>1, <1>4, <2>1
  <2> HIDE DEF f, M
  <2>3. \A n \in 1 .. M : f[n] = c[n]
    BY ONLY <1>5
  <2> HIDE DEF N
  <2> QED
    BY ONLY <1>1, <1>4, <1>5, <2>2, <2>3, BlocksBefore
<1>7. c = f \o <<Blank>>
  <2>1. SubSeq(c, 1, N) = SubSeq(c, 1, N - 1) \o <<c[N]>>
    <3>1. 1 \in 1 .. Len(c) /\ N \in 1 .. Len(c)
      BY <1>1
    <3> HIDE DEF N
    <3> QED
      BY <1>1, <3>1, SubSeqRecursiveSecond
  <2>2. SubSeq(c, 1, N) = c
    BY <1>1, SubSeqFull
  <2> QED
    BY ONLY <1>1, <2>1, <2>2
<1> QED
  BY ONLY <1>3, <1>5, <1>6, <1>7

LEMMA ChosenSeq ==
  ASSUME NEW S, NEW lines \in Seq(S), NEW places
  PROVE  Chosen(lines, places) \in Seq(S)
<1>1. PICK f : Chosen(lines, places) = f[Len(lines)] /\ ChosenBy(f, S, lines, places)
  BY ChosenIs
<1>2. Len(lines) \in 0 .. Len(lines)
  OBVIOUS
<1> QED
  BY <1>1, <1>2 DEF ChosenBy

\* A config and that to which something is appended: the last line, if it is
\* empty, makes no difference.
BaseOf(c, f) ==
  /\ f \in Seq(ConfigLine) /\ InBlocks(f) /\ Len(f) \in Nat /\ Len(f) <= Len(c) /\ \A k \in 1 .. Len(f) : f[k] = c[k]
  /\ UserHosts(c) = UserHosts(f) /\ \A b \in Boxes : Owned(c, b) = Owned(f, b)

LEMMA BlankAdds ==
  ASSUME NEW c \in Seq(ConfigLine), NEW f \in Seq(ConfigLine), InBlocks(f), c = f \o <<Blank>>
  PROVE  BaseOf(c, f)
<1> DEFINE w == <<Blank>>
<1>1. w \in Seq(ConfigLine) /\ Len(w) = 1 /\ w[1] = Blank
  BY BlankTyped
<1>2. \A n \in 1 .. Len(w) : w[n] = Blank
  BY ONLY <1>1
<1>3. c = f \o w
  OBVIOUS
<1> HIDE DEF w
<1>4. UserHosts(c) = UserHosts(f) \o UserHosts(w)
  <2>1. \A n \in 1 .. Len(w) : w[n].word = ""
    BY ONLY <1>2, BlankIs
  <2> QED
    BY ONLY f \in Seq(ConfigLine), <1>1, <1>3, <2>1, HostsJoined
<1>5. UserHosts(w) = <<>>
  <2>1. \A n \in 1 .. Len(w) : ~(IsHead(w[n]) /\ w[n].of = "user")
    BY ONLY <1>2, BlankNotHost
  <2> QED
    BY ONLY <1>1, <2>1, HostsNone
<1>6. UserHosts(f) \in Seq(ConfigLine) /\ \A b : Owned(f, b) \in Seq(ConfigLine)
  BY ChosenSeq DEF UserHosts, Owned
<1>7. UserHosts(f) \o <<>> = UserHosts(f) /\ \A b : Owned(f, b) \o <<>> = Owned(f, b)
  BY ONLY <1>6, ConcatEmptySeq
<1>8. ASSUME NEW b PROVE Owned(c, b) = Owned(f, b)
  <2>1. OwnedInBoth(f, w, c, b)
    BY ONLY f \in Seq(ConfigLine), <1>1, <1>3, OwnedJoined
  <2>2. Owned(w, b) = <<>>
    <3>1. \A n \in 1 .. Len(w) : w[n].of # b \/ w[n].word = ""
      BY ONLY <1>2, BlankIs
    <3> QED
      BY ONLY <1>1, <3>1, OwnedNone
  <2> QED
    BY ONLY <1>7, <2>1, <2>2 DEF OwnedInBoth
<1>9. Len(f) \in Nat /\ Len(f) <= Len(c) /\ \A k \in 1 .. Len(f) : f[k] = c[k]
  <2>1. Joined(f, w, c, Len(f), Len(w))
    BY ONLY f \in Seq(ConfigLine), <1>1, <1>3, JoinedAre
  <2> QED
    BY ONLY <1>1, <2>1 DEF Joined
<1> QED
  BY <1>4, <1>5, <1>7, <1>8, <1>9 DEF BaseOf

LEMMA BaseIs ==
  ASSUME NEW c, GoodConfig(c)
  PROVE  BaseOf(c, IF Ended(c) THEN Front(c) ELSE c) /\ BaseOf(c, c)
<1>1. c \in Seq(ConfigLine) /\ InBlocks(c)
  BY DEF GoodConfig
<1>2. BaseOf(c, c)
  BY <1>1 DEF BaseOf
<1>3. Ended(c) => BaseOf(c, Front(c))
  BY <1>1, FrontIs, BlankAdds
<1> QED
  BY <1>2, <1>3

\* What is appended in blocks keeps a config good.
LEMMA AppendedGood ==
  ASSUME NEW c, NEW f, BaseOf(c, f), NEW n \in Seq(ConfigLine), Len(n) > 0, InBlocks(n), Ended(n),
         NEW d, d = f \o n
  PROVE  GoodConfig(d) /\ Ended(d)
<1>1. f \in Seq(ConfigLine) /\ InBlocks(f)
  BY DEF BaseOf
<1>2. d \in Seq(ConfigLine) /\ Joined(f, n, d, Len(f), Len(n))
  BY <1>1, JoinedAre
<1>3. InBlocks(d)
  BY ONLY <1>1, <1>2, InBlocks(n), BlocksJoined
<1>4. Len(n) # 0
  OBVIOUS
<1>5. Ended(d) /\ Len(d) > 0
  BY ONLY <1>2, <1>4, Ended(n), EndedJoined
<1> QED
  BY <1>2, <1>3, <1>5 DEF GoodConfig

\* A block that is appended leaves the rest as it was.
LEMMA AppendedLocal ==
  ASSUME NEW c \in Seq(ConfigLine), NEW f, BaseOf(c, f), NEW box \in Boxes, NEW v \in Versions, HostLine(c, box) = {},
         NEW n, NewBlock(n, box, v), NEW d, d = f \o n
  PROVE  LocalEdit(c, d, box, v)
<1> DEFINE M == Len(f)
<1>1. /\ f \in Seq(ConfigLine) /\ M \in Nat /\ M <= Len(c) /\ \A k \in 1 .. M : f[k] = c[k]
      /\ UserHosts(c) = UserHosts(f) /\ \A b \in Boxes : Owned(c, b) = Owned(f, b)
  BY DEF BaseOf
<1>2. /\ n \in Seq(ConfigLine) /\ Len(n) = 4 /\ n[1].word = "Added" /\ n[2].word = "Host" /\ n[2].of = box
      /\ n[3].says = v /\ BlockOf(n, box)
  BY DEF NewBlock
<1>3. d \in Seq(ConfigLine) /\ Joined(f, n, d, M, 4)
  <2>1. d \in Seq(ConfigLine) /\ Joined(f, n, d, Len(f), Len(n))
    BY <1>1, <1>2, JoinedAre
  <2> QED
    BY <1>2, <2>1
<1>4. UserHosts(d) = UserHosts(c)
  <2>1. FirstIsHead(n) /\ \A k \in 1 .. Len(n) : ~(IsHead(n[k]) /\ n[k].of = "user")
    BY ONLY <1>2 DEF BlockOf
  <2>2. UserHosts(d) = UserHosts(f) \o UserHosts(n)
    BY ONLY <1>1, <1>2, <2>1, d = f \o n, HostsJoined
  <2>3. UserHosts(n) = <<>>
    BY ONLY <1>2, <2>1, HostsNone
  <2>4. UserHosts(f) \in Seq(ConfigLine)
    BY <1>1, ChosenSeq DEF UserHosts
  <2>5. UserHosts(f) \o <<>> = UserHosts(f)
    BY ONLY <2>4, ConcatEmptySeq
  <2> QED
    BY ONLY <1>1, <2>2, <2>3, <2>5
<1>5. ASSUME NEW b \in Boxes \ {box} PROVE Owned(d, b) = Owned(c, b)
  <2>1. b # "user" /\ b # box
    BY SshAssumption
  <2>2. OwnedInBoth(f, n, d, b)
    BY ONLY <1>1, <1>2, d = f \o n, OwnedJoined
  <2>3. Owned(n, b) = <<>>
    <3>1. \A k \in 1 .. Len(n) : n[k].of # b \/ n[k].word = ""
      BY ONLY <1>2, <2>1 DEF BlockOf
    <3> QED
      BY ONLY <1>2, <3>1, OwnedNone
  <2>4. Owned(f, b) \in Seq(ConfigLine)
    BY <1>1, ChosenSeq DEF Owned
  <2>5. Owned(f, b) \o <<>> = Owned(f, b)
    BY ONLY <2>4, ConcatEmptySeq
  <2> QED
    BY ONLY <1>1, b \in Boxes \ {box}, <2>2, <2>3, <2>5 DEF OwnedInBoth
<1>6. Effective(d, box) = v
  <2> DEFINE i == M + 2
  <2>1. Len(d) = M + 4 /\ (\A k \in 1 .. M : d[k] = f[k]) /\ \A k \in 1 .. 4 : d[M + k] = n[k]
    BY ONLY <1>2, <1>3 DEF Joined
  <2>2. 1 \in 1 .. 4 /\ 2 \in 1 .. 4 /\ 3 \in 1 .. 4 /\ M + 3 = i + 1 /\ i \in 1 .. Len(d) /\ i = M + 2
        /\ \A k \in 1 .. Len(d) : i <= k \/ k = M + 1 \/ (k \in 1 .. M /\ k \in 1 .. Len(c))
    BY ONLY <1>1, <2>1
  <2>3. d[M + 1] = n[1] /\ d[i] = n[2] /\ d[i + 1] = n[3]
    BY ONLY <2>1, <2>2
  <2> HIDE DEF i
  <2>4. \A k \in 1 .. Len(c) : ~(c[k].word = "Host" /\ c[k].of = box)
    BY DEF HostLine
  <2>5. ASSUME NEW k \in 1 .. Len(d), d[k].word = "Host", d[k].of = box, ~(i <= k) PROVE FALSE
    <3>1. k # M + 1
      BY ONLY <1>2, <2>3, <2>5
    <3>2. k \in 1 .. M /\ k \in 1 .. Len(c)
      BY ONLY <2>2, <2>5, <3>1, k \in 1 .. Len(d)
    <3> QED
      BY ONLY <1>1, <2>1, <2>4, <2>5, <3>2
  <2>6. FirstHost(d, box, i)
    BY ONLY <1>2, <2>2, <2>3, <2>5 DEF FirstHost
  <2>7. Effective(d, box) = d[i + 1].says
    BY ONLY <1>3, <2>6, EffectiveIs
  <2> QED
    BY ONLY <1>2, <2>3, <2>7
<1> QED
  BY <1>4, <1>5, <1>6 DEF LocalEdit, SameOthers

\* What an appending setup writes.
LEMMA AppendedIs ==
  ASSUME NEW c, GoodConfig(c), NEW seen, GoodConfig(seen), Ended(seen) => Ended(c), NEW box \in Boxes, NEW v \in Versions
  PROVE  /\ GoodConfig(Appended(c, seen, box, v)) /\ Ended(Appended(c, seen, box, v))
         /\ HostLine(c, box) = {} => LocalEdit(c, Appended(c, seen, box, v), box, v)
<1> DEFINE f == IF Ended(seen) THEN Front(c) ELSE c
           n == Block(box, v)
           d == f \o n
<1>1. c \in Seq(ConfigLine) /\ Len(c) \in Nat /\ Len(c) > 0
  BY DEF GoodConfig
<1>2. BaseOf(c, f)
  BY BaseIs
<1>3. NewBlock(n, box, v)
  BY NewBlockIs
<1>4. Appended(c, seen, box, v) = d
  <2>1. CASE Ended(seen)
    BY <2>1 DEF Appended, Ended, Last
  <2>2. CASE ~Ended(seen)
    <3> DEFINE w == <<Blank>>
               a == c \o w
    <3>1. w \in Seq(ConfigLine) /\ Append(c, Blank) = a
      BY <1>1, BlankTyped, AppendIsConcat
    <3>2. Len(w) = 1
      OBVIOUS
    <3> HIDE DEF w
    <3>3. Len(a) = Len(c) + 1
      BY ONLY <1>1, <3>1, <3>2, ConcatProperties
    <3>4. Len(a) - 1 = Len(c) /\ 1 \in 1 .. Len(c) /\ Len(c) \in 1 .. Len(c)
      BY ONLY <1>1, <3>3
    <3>5. SubSeq(a, 1, Len(c)) = SubSeq(c, 1, Len(c))
      BY ONLY <1>1, <3>1, <3>4, SubSeqOfConcat1
    <3>6. SubSeq(c, 1, Len(c)) = c
      BY ONLY <1>1, SubSeqFull
    <3> HIDE DEF a
    <3>7. Front(a) = c
      BY ONLY <3>4, <3>5, <3>6 DEF Front
    <3>8. Appended(c, seen, box, v) = Front(a) \o n
      BY ONLY <2>2, <3>1 DEF Appended, Ended, Last, n
    <3> QED
      BY <2>2, <3>7, <3>8
  <2> QED
    BY <2>1, <2>2
<1> HIDE DEF f, n
<1>5. GoodConfig(d) /\ Ended(d)
  <2>1. n \in Seq(ConfigLine) /\ Len(n) > 0 /\ InBlocks(n) /\ Ended(n)
    BY <1>3 DEF NewBlock, Ended
  <2> QED
    BY <1>2, <2>1, AppendedGood
<1>6. ASSUME HostLine(c, box) = {} PROVE LocalEdit(c, d, box, v)
  BY ONLY <1>1, <1>2, <1>3, <1>6, box \in Boxes, v \in Versions, AppendedLocal
<1> QED
  BY ONLY <1>4, <1>5, <1>6

\* A run knows its box, and from its reading of the config whether that has one.
HostMap == [Boxes -> Versions \cup {"none"}]

SetupRun ==
  [pc : {"start", "known", "read", "append", "replace", "ended"}, box : Boxes \cup {"user"},
   says : Versions \cup {"-"}, seen : Seq(ConfigLine), hosts : HostMap]

SetupKnows(r, c) ==
  /\ r.pc \in {"known", "read", "append", "replace"} => r.box \in Boxes /\ r.says \in Versions
  /\ r.pc \in {"append", "replace"} => GoodConfig(r.seen) /\ (Ended(r.seen) => Ended(c))
  /\ r.pc = "append" => HostLine(r.seen, r.box) = {}
  /\ r.pc = "replace" => HostLine(r.seen, r.box) # {}

SshInv ==
  /\ GoodConfig(config) /\ known \in HostMap /\ edits \in 0 .. UserEdits
  /\ setup \in [Setups -> SetupRun]
  /\ \A s \in Setups : SetupKnows(setup[s], config)

LEMMA StartIsTyped == NotStarted \in SetupRun /\ NotStarted.pc = "start" /\ NoHosts \in HostMap
<1>1. NoHosts \in HostMap
  BY DEF NoHosts, HostMap
<1>2. <<Blank>> \in Seq(ConfigLine)
  BY BlankTyped
<1> QED
  BY <1>1, <1>2 DEF NotStarted, SetupRun

\* A block of the user.
LEMMA LinesOfUser ==
  /\ \A word \in {"Host", "body", "comment", "Match"} :
       /\ SshLine(word, "user", "-") \in ConfigLine /\ SshLine(word, "user", "-").of = "user"
       /\ SshLine(word, "user", "-").word # "Added"
  /\ Blank.of = "user" /\ Blank.word # "Added"
BY BlankIs DEF SshLine, ConfigLine

\* What the user adds.
UserAdds(more) ==
  more \in Seq(ConfigLine) /\ Len(more) > 0 /\ OnlyUser(more)

LEMMA OneLine ==
  ASSUME NEW x \in ConfigLine, x.of = "user", x.word # "Added", NEW m, m = <<x>>
  PROVE  UserAdds(m)
<1>1. m \in Seq(ConfigLine) /\ Len(m) = 1 /\ m[1] = x /\ \A n \in 1 .. 1 : n = 1
  OBVIOUS
<1> QED
  BY <1>1 DEF UserAdds, OnlyUser

LEMMA TwoLines ==
  ASSUME NEW x \in ConfigLine, NEW y \in ConfigLine, x.of = "user", x.word # "Added", y.of = "user", y.word # "Added",
         NEW m, m = <<x, y>>
  PROVE  UserAdds(m)
<1>1. m \in Seq(ConfigLine) /\ Len(m) = 2 /\ m[1] = x /\ m[2] = y /\ \A n \in 1 .. 2 : n = 1 \/ n = 2
  OBVIOUS
<1> QED
  BY <1>1 DEF UserAdds, OnlyUser

LEMMA ThenBlank ==
  ASSUME NEW more, UserAdds(more), NEW m, m = Append(more, Blank)
  PROVE  UserAdds(m) /\ Ended(m)
<1> DEFINE N == Len(more)
           w == Blank
<1>1. more \in Seq(ConfigLine) /\ N \in Nat /\ \A n \in 1 .. N : more[n].of = "user" /\ more[n].word # "Added"
  BY DEF UserAdds, OnlyUser
<1>2. w \in ConfigLine /\ w.of = "user" /\ w.word # "Added"
  BY BlankTyped, LinesOfUser
<1>3. m = Append(more, w)
  OBVIOUS
<1> HIDE DEF w
<1>4. m \in Seq(ConfigLine) /\ Len(m) = N + 1 /\ m[N + 1] = w /\ \A n \in 1 .. N : m[n] = more[n]
  BY ONLY <1>1, <1>2, <1>3, AppendProperties
<1> HIDE DEF N
<1>5. \A n \in 1 .. N + 1 : n = N + 1 \/ n \in 1 .. N
  BY <1>1
<1>6. \A n \in 1 .. N + 1 : m[n].of = "user" /\ m[n].word # "Added"
  BY ONLY <1>1, <1>2, <1>4, <1>5
<1> QED
  BY ONLY <1>1, <1>4, <1>6 DEF UserAdds, OnlyUser, Ended, w

LEMMA UserBlockIs == UserAdds(UserBlock)
<1> DEFINE x == SshLine("Host", "user", "-")
           y == SshLine("body", "user", "-")
<1>1. UserBlock = <<x, y>>
  BY DEF UserBlock
<1>2. x \in ConfigLine /\ x.of = "user" /\ x.word # "Added" /\ y \in ConfigLine /\ y.of = "user" /\ y.word # "Added"
  BY LinesOfUser
<1> HIDE DEF x, y
<1> QED
  BY <1>1, <1>2, TwoLines

LEMMA UserGood ==
  ASSUME NEW c, UserAdds(c)
  PROVE  GoodConfig(c)
BY UserLinesAre DEF UserAdds, GoodConfig

LEMMA SshStarts == SshInit => SshInv
<1> SUFFICES ASSUME SshInit PROVE SshInv
  OBVIOUS
<1>1. GoodConfig(config)
  <2>1. GoodConfig(<<Blank>>)
    <3>1. Blank.of = "user" /\ Blank.word # "Added" /\ Blank \in ConfigLine
      BY BlankTyped, LinesOfUser
    <3> QED
      BY <3>1, OneLine, UserGood
  <2>2. GoodConfig(UserBlock) /\ GoodConfig(Append(UserBlock, Blank))
    BY UserBlockIs, ThenBlank, UserGood
  <2> QED
    BY <2>1, <2>2 DEF SshInit, StartingConfigs
<1>2. setup \in [Setups -> SetupRun] /\ \A s \in Setups : setup[s].pc = "start"
  BY StartIsTyped DEF SshInit
<1>3. known \in HostMap /\ edits \in 0 .. UserEdits
  BY StartIsTyped, SshAssumption DEF SshInit
<1> QED
  BY <1>1, <1>2, <1>3 DEF SshInv, SetupKnows

LEMMA StillKnows ==
  ASSUME NEW r, NEW c, NEW d, SetupKnows(r, c), Ended(c) => Ended(d)
  PROVE  SetupKnows(r, d)
BY DEF SetupKnows

\* The files before the config is read.
LEMMA UploadKeeps ==
  ASSUME SshInv, NEW s \in Setups, UploadKey(s)
  PROVE  SshInv' /\ \A t \in Setups : setup'[t].pc = "ended" => setup[t].pc \notin {"append", "replace"}
<1>1. /\ GoodConfig(config) /\ known \in HostMap /\ edits \in 0 .. UserEdits
      /\ setup \in [Setups -> SetupRun] /\ \A t \in Setups : SetupKnows(setup[t], config)
  BY DEF SshInv
<1>2. UNCHANGED <<config, known, edits>> /\ setup[s].pc = "start"
  BY DEF UploadKey
<1>3. PICK r \in SetupRun : /\ setup' = [setup EXCEPT ![s] = r]
                            /\ (r.pc \in {"known", "read"} /\ r.box \in Boxes /\ r.says \in Versions) \/ r.pc = "ended"
  <2>1. CASE EndSetup(s)
    <3> DEFINE r == [NotStarted EXCEPT !.pc = "ended"]
    <3>1. r \in SetupRun /\ r.pc = "ended"
      BY StartIsTyped DEF SetupRun
    <3> QED
      BY <2>1, <3>1 DEF EndSetup
  <2>2. ASSUME NEW box \in Boxes, NEW version \in Versions, NEW pc \in {"known", "read"},
               setup' = [setup EXCEPT ![s] = [NotStarted EXCEPT !.pc = pc, !.box = box, !.says = version,
                                                      !.hosts = IF pc = "known" THEN known ELSE NoHosts]]
        PROVE  \E r \in SetupRun : /\ setup' = [setup EXCEPT ![s] = r]
                                   /\ (r.pc \in {"known", "read"} /\ r.box \in Boxes /\ r.says \in Versions) \/ r.pc = "ended"
    <3> DEFINE hosts == IF pc = "known" THEN known ELSE NoHosts
               r == [NotStarted EXCEPT !.pc = pc, !.box = box, !.says = version, !.hosts = hosts]
    <3>1. hosts \in HostMap
      BY <1>1, StartIsTyped
    <3>2. setup' = [setup EXCEPT ![s] = r]
      BY <2>2
    <3> HIDE DEF hosts
    <3>3. r \in SetupRun /\ r.pc = pc /\ r.box = box /\ r.says = version
      BY <3>1, StartIsTyped DEF SetupRun
    <3> QED
      BY <3>2, <3>3
  <2> QED
    BY <2>1, <2>2 DEF UploadKey
<1>4. setup' \in [Setups -> SetupRun] /\ setup'[s] = r /\ \A t \in Setups : t # s => setup'[t] = setup[t]
  BY <1>1, <1>3
<1>5. SetupKnows(r, config)
  BY <1>3 DEF SetupKnows
<1>6. ASSUME NEW t \in Setups PROVE SetupKnows(setup'[t], config)
  BY <1>1, <1>4, <1>5
<1>7. ASSUME NEW t \in Setups, setup'[t].pc = "ended" PROVE setup[t].pc \notin {"append", "replace"}
  <2>1. CASE t = s
    BY <1>2, <2>1
  <2>2. CASE t # s
    BY <1>4, <1>7, <2>2
  <2> QED
    BY <2>1, <2>2
<1> QED
  BY <1>1, <1>2, <1>4, <1>6, <1>7 DEF SshInv

LEMMA KnownHostKeeps ==
  ASSUME SshInv, NEW s \in Setups, EnsureKnownHost(s)
  PROVE  SshInv' /\ \A t \in Setups : setup'[t].pc = "ended" => setup[t].pc \notin {"append", "replace"}
<1>1. /\ GoodConfig(config) /\ known \in HostMap /\ edits \in 0 .. UserEdits
      /\ setup \in [Setups -> SetupRun] /\ \A t \in Setups : SetupKnows(setup[t], config)
  BY DEF SshInv
<1> DEFINE r == [setup[s] EXCEPT !.pc = "read", !.hosts = NoHosts]
<1>2. UNCHANGED <<config, edits>> /\ setup[s].pc = "known" /\ setup' = [setup EXCEPT ![s] = r]
  BY <1>1 DEF EnsureKnownHost
<1>3. setup[s] \in SetupRun /\ setup[s].box \in Boxes /\ setup[s].says \in Versions
  BY <1>1, <1>2 DEF SetupKnows
<1>4. r \in SetupRun /\ r.pc = "read" /\ r.box \in Boxes /\ r.says \in Versions
  BY <1>3, StartIsTyped DEF SetupRun
<1>5. known' \in HostMap
  BY <1>1, <1>3 DEF EnsureKnownHost, HostMap, SetupRun
<1> HIDE DEF r
<1>6. setup' \in [Setups -> SetupRun] /\ setup'[s] = r /\ \A t \in Setups : t # s => setup'[t] = setup[t]
  BY <1>1, <1>2, <1>4
<1>7. SetupKnows(r, config)
  BY <1>4 DEF SetupKnows
<1>8. ASSUME NEW t \in Setups PROVE SetupKnows(setup'[t], config)
  BY <1>1, <1>6, <1>7
<1>9. ASSUME NEW t \in Setups, setup'[t].pc = "ended" PROVE setup[t].pc \notin {"append", "replace"}
  BY <1>4, <1>6, <1>9
<1> QED
  BY <1>1, <1>2, <1>5, <1>6, <1>8, <1>9 DEF SshInv

LEMMA ReadKeeps ==
  ASSUME SshInv, NEW s \in Setups, ReadConfig(s)
  PROVE  SshInv' /\ \A t \in Setups : setup'[t].pc = "ended" => setup[t].pc \notin {"append", "replace"}
<1>1. /\ GoodConfig(config) /\ known \in HostMap /\ edits \in 0 .. UserEdits
      /\ setup \in [Setups -> SetupRun] /\ \A t \in Setups : SetupKnows(setup[t], config)
  BY DEF SshInv
<1> DEFINE pc == IF HostLine(config, setup[s].box) = {} THEN "append" ELSE "replace"
           r == [setup[s] EXCEPT !.seen = config, !.pc = pc]
<1>2. UNCHANGED <<config, known, edits>> /\ setup[s].pc = "read" /\ setup' = [setup EXCEPT ![s] = r]
  BY <1>1 DEF ReadConfig
<1>3. setup[s] \in SetupRun /\ setup[s].box \in Boxes /\ setup[s].says \in Versions
  BY <1>1, <1>2 DEF SetupKnows
<1>4. /\ pc \in {"append", "replace"} /\ (pc = "append" => HostLine(config, setup[s].box) = {})
      /\ (pc = "replace" => HostLine(config, setup[s].box) # {})
  OBVIOUS
<1> HIDE DEF pc
<1>5. r \in SetupRun /\ r.pc = pc /\ r.box = setup[s].box /\ r.says = setup[s].says /\ r.seen = config
  BY <1>1, <1>3, <1>4 DEF SetupRun, GoodConfig
<1> HIDE DEF r
<1>6. setup' \in [Setups -> SetupRun] /\ setup'[s] = r /\ \A t \in Setups : t # s => setup'[t] = setup[t]
  BY <1>1, <1>2, <1>5
<1>7. SetupKnows(r, config)
  BY <1>1, <1>3, <1>4, <1>5 DEF SetupKnows
<1>8. ASSUME NEW t \in Setups PROVE SetupKnows(setup'[t], config)
  BY <1>1, <1>6, <1>7
<1>9. ASSUME NEW t \in Setups, setup'[t].pc = "ended" PROVE setup[t].pc \notin {"append", "replace"}
  BY <1>4, <1>5, <1>6, <1>9
<1> QED
  BY <1>1, <1>2, <1>6, <1>8, <1>9 DEF SshInv

\* What is written is for the run's own box, if the config is what was read.
LEMMA WriteIs ==
  ASSUME SshInv, NEW s \in Setups, WriteConfig(s)
  PROVE  /\ GoodConfig(config') /\ (Ended(config) => Ended(config'))
         /\ setup[s].seen = config => LocalEdit(config, config', setup[s].box, setup[s].says)
<1> DEFINE r == setup[s]
<1>1. GoodConfig(config) /\ SetupKnows(r, config)
  BY DEF SshInv
<1> HIDE DEF r
<1>2. CASE r.pc = "append" /\ config' = Appended(config, r.seen, r.box, r.says)
  <2>1. r.box \in Boxes /\ r.says \in Versions /\ GoodConfig(r.seen) /\ (Ended(r.seen) => Ended(config)) /\ HostLine(r.seen, r.box) = {}
    BY ONLY <1>1, <1>2 DEF SetupKnows
  <2> DEFINE seen == r.seen
             box == r.box
             v == r.says
             d == Appended(config, seen, box, v)
  <2>2. GoodConfig(seen) /\ (Ended(seen) => Ended(config)) /\ box \in Boxes /\ v \in Versions /\ HostLine(seen, box) = {} /\ config' = d
    BY <1>2, <2>1
  <2> HIDE DEF seen, box, v
  <2>3. GoodConfig(d) /\ Ended(d) /\ (HostLine(config, box) = {} => LocalEdit(config, d, box, v))
    BY <1>1, <2>2, AppendedIs
  <2>4. r.seen = seen /\ r.box = box /\ r.says = v
    BY DEF seen, box, v
  <2> HIDE DEF d
  <2> QED
    BY <2>2, <2>3, <2>4 DEF r
<1>3. CASE r.pc = "replace" /\ config' = (IF Replaced(r.seen, r.box, r.says) = r.seen THEN config
                                           ELSE Replaced(r.seen, r.box, r.says))
  <2>1. r.box \in Boxes /\ r.says \in Versions /\ GoodConfig(r.seen) /\ HostLine(r.seen, r.box) # {}
    BY ONLY <1>1, <1>3 DEF SetupKnows
  <2> DEFINE seen == r.seen
             box == r.box
             v == r.says
             d == Replaced(seen, box, v)
  <2>2. GoodConfig(seen) /\ box \in Boxes /\ v \in Versions /\ HostLine(seen, box) # {} /\ config' = IF d = seen THEN config ELSE d
    BY <1>3, <2>1
  <2> HIDE DEF seen, box, v
  <2>3. GoodConfig(d) /\ Ended(d) /\ LocalEdit(seen, d, box, v)
    BY <2>2, ReplacedIs
  <2>4. r.seen = seen /\ r.box = box /\ r.says = v
    BY DEF seen, box, v
  <2> HIDE DEF d
  <2> QED
    BY <1>1, <2>2, <2>3, <2>4 DEF r
<1> QED
  BY <1>2, <1>3 DEF WriteConfig, r

LEMMA WriteConfigKeeps ==
  ASSUME SshInv, NEW s \in Setups, WriteConfig(s)
  PROVE  SshInv' /\ \A t \in Setups : setup'[t].pc = "ended" /\ setup[t].pc \in {"append", "replace"} => t = s
<1>1. /\ known \in HostMap /\ edits \in 0 .. UserEdits
      /\ setup \in [Setups -> SetupRun] /\ \A t \in Setups : SetupKnows(setup[t], config)
  BY DEF SshInv
<1>2. GoodConfig(config') /\ (Ended(config) => Ended(config'))
  BY WriteIs
<1> DEFINE r == [NotStarted EXCEPT !.pc = "ended"]
<1>3. UNCHANGED <<known, edits>> /\ setup' = [setup EXCEPT ![s] = r]
  BY DEF WriteConfig, EndSetup
<1>4. r \in SetupRun /\ r.pc = "ended"
  BY StartIsTyped DEF SetupRun
<1> HIDE DEF r
<1>5. setup' \in [Setups -> SetupRun] /\ setup'[s] = r /\ \A t \in Setups : t # s => setup'[t] = setup[t]
  BY <1>1, <1>3, <1>4
<1>6. ASSUME NEW t \in Setups PROVE SetupKnows(setup'[t], config')
  <2>1. CASE t = s
    BY <1>4, <1>5, <2>1 DEF SetupKnows
  <2>2. CASE t # s
    BY <1>1, <1>2, <1>5, <2>2, StillKnows
  <2> QED
    BY <2>1, <2>2
<1>7. ASSUME NEW t \in Setups, setup'[t].pc = "ended", setup[t].pc \in {"append", "replace"}, t # s PROVE FALSE
  BY <1>5, <1>7
<1> QED
  BY <1>1, <1>2, <1>3, <1>5, <1>6, <1>7 DEF SshInv

LEMMA UserKeeps ==
  ASSUME SshInv, UserEdit
  PROVE  SshInv' /\ setup' = setup
<1>1. /\ GoodConfig(config) /\ known \in HostMap /\ edits \in 0 .. UserEdits
      /\ setup \in [Setups -> SetupRun] /\ \A t \in Setups : SetupKnows(setup[t], config)
  BY DEF SshInv
<1>2. UNCHANGED <<known, setup>> /\ edits' \in 0 .. UserEdits
  <2>1. edits > 0 /\ edits' = edits - 1 /\ UNCHANGED <<known, setup>>
    BY DEF UserEdit
  <2> QED
    BY ONLY <1>1, <2>1, SshAssumption
<1> DEFINE x == SshLine("comment", "user", "-")
           y == SshLine("Match", "user", "-")
           z == SshLine("body", "user", "-")
           f == IF Ended(config) THEN Front(config) ELSE config
<1>3. /\ x \in ConfigLine /\ x.of = "user" /\ x.word # "Added" /\ y \in ConfigLine /\ y.of = "user" /\ y.word # "Added"
      /\ z \in ConfigLine /\ z.of = "user" /\ z.word # "Added"
  BY LinesOfUser
<1>4. PICK more \in {UserBlock, <<x>>, <<y, z>>} : config' = f \o Append(more, Blank)
  BY DEF UserEdit, Ended, Last
<1> HIDE DEF x, y, z
<1>5. UserAdds(more)
  BY <1>3, <1>4, OneLine, TwoLines, UserBlockIs
<1> DEFINE n == Append(more, Blank)
<1>6. UserAdds(n) /\ Ended(n)
  BY <1>5, ThenBlank
<1>7. BaseOf(config, f)
  BY <1>1, BaseIs
<1> HIDE DEF f, n
<1>8. GoodConfig(config') /\ Ended(config')
  <2>1. config' = f \o n
    BY <1>4 DEF n
  <2>2. n \in Seq(ConfigLine) /\ Len(n) > 0 /\ InBlocks(n) /\ Ended(n)
    BY <1>6, UserLinesAre DEF UserAdds
  <2> DEFINE d == config'
  <2>3. d = f \o n
    BY <2>1
  <2> HIDE DEF d
  <2>4. GoodConfig(d) /\ Ended(d)
    BY ONLY <1>7, <2>2, <2>3, AppendedGood
  <2> QED
    BY <2>4 DEF d
<1>9. ASSUME NEW t \in Setups PROVE SetupKnows(setup[t], config')
  BY <1>1, <1>8, StillKnows
<1> QED
  BY <1>1, <1>2, <1>8, <1>9 DEF SshInv

LEMMA SshInvariant == SshSpec => []SshInv
<1>1. SshInv /\ [SshNext]_sshVars => SshInv'
  <2>1. SshInv /\ SshNext => SshInv'
    BY UploadKeeps, KnownHostKeeps, ReadKeeps, WriteConfigKeeps, UserKeeps DEF SshNext
  <2>2. SshInv /\ UNCHANGED sshVars => SshInv'
    BY DEF SshInv, sshVars
  <2> QED
    BY <2>1, <2>2
<1> QED
  BY SshStarts, <1>1, PTL DEF SshSpec

\* The state of ssh-setup keeps its shape.
THEOREM SetupTypesHold == SshSpec => []SshTypeOK
<1>1. SshInv => SshTypeOK
  <2> SUFFICES ASSUME SshInv PROVE SshTypeOK
    OBVIOUS
  <2>1. config \in Seq(ConfigLine) /\ config # <<>>
    BY DEF SshInv, GoodConfig
  <2>2. \A s \in Setups : setup[s] \in SetupRun
    BY DEF SshInv
  <2> QED
    BY <2>1, <2>2 DEF SshInv, SshTypeOK, SetupRun, HostMap
<1> QED
  BY <1>1, SshInvariant, PTL

\* A setup that nobody interferes with between its reading and its writing changes
\* the config only for its own box (ensureSSHConfig).
THEOREM SetupStaysLocal == SshSpec => SetupIsLocal
<1> DEFINE Local == \A s \in Setups :
       LET r == setup[s]
       IN  setup'[s].pc = "ended" /\ r.pc \in {"append", "replace"} /\ r.seen = config =>
             /\ Effective(config', r.box) = r.says
             /\ \A b \in Boxes \ {r.box} : Owned(config', b) = Owned(config, b)
             /\ UserHosts(config') = UserHosts(config)
<1>1. SshInv /\ SshNext => Local
  <2> SUFFICES ASSUME SshInv, SshNext, NEW s \in Setups, setup'[s].pc = "ended", setup[s].pc \in {"append", "replace"},
                      setup[s].seen = config
               PROVE  LocalEdit(config, config', setup[s].box, setup[s].says)
    BY DEF LocalEdit, SameOthers
  <2>1. setup' # setup
    OBVIOUS
  <2>2. PICK t \in Setups : WriteConfig(t)
    BY <2>1, UploadKeeps, KnownHostKeeps, ReadKeeps, UserKeeps DEF SshNext
  <2>3. t = s
    BY <2>2, WriteConfigKeeps
  <2> QED
    BY <2>2, <2>3, WriteIs
<1>2. SshInv /\ [SshNext]_sshVars => [Local]_sshVars
  BY <1>1
<1> QED
  BY <1>2, SshInvariant, PTL DEF SshSpec, SetupIsLocal

-----------------------------------------------------------------------------
(* `connector run': the wait that comes next is the one that the carriers  *)
(* so far ask for, and the settings are those of the file and environment. *)

Carriers == [uptime : Nat, wait : Nat]

\* The last of the healthy ones, which Max takes.
LastHealthy(n) == Healthy(n) # {} => Max(Healthy(n)) \in Healthy(n) /\ \A i \in Healthy(n) : i <= Max(Healthy(n))

ConnectorInv ==
  /\ given \in [file : ConnectorFiles, env : ConnectorEnvs]
  /\ service \in {"load", "carrier", "waiting", "stopped", "error"}
  /\ service \in {"carrier", "waiting", "stopped"} =>
       settings = ResolvedSettings(given.file, given.env) /\ ~SettingsFail(given.file, given.env)
  /\ history \in Seq(Carriers)
  /\ backoff \in Nat
  /\ \A n \in DOMAIN history : LastHealthy(n)
  /\ WaitsFollowFailures
  /\ service = "load" => history = <<>> /\ backoff = InitialBackoff
  /\ service = "carrier" => backoff = WaitAfter(FailuresSince(Len(history)) + 1)
  /\ service = "waiting" => history # <<>> /\ backoff = WaitAfter(FailuresSince(Len(history)))

LEMMA WaitsDouble ==
  ASSUME NEW k \in Nat
  PROVE  /\ WaitAfter(k) \in Nat /\ WaitAfter(0) = InitialBackoff
         /\ Min({2 * WaitAfter(k), MaxBackoff}) = WaitAfter(k + 1)
<1>1. \A a, b \in Nat : Min({a, b}) = IF a <= b THEN a ELSE b
  <2> SUFFICES ASSUME NEW a \in Nat, NEW b \in Nat
               PROVE  Min({a, b}) = IF a <= b THEN a ELSE b
    OBVIOUS
  <2> DEFINE low == IF a <= b THEN a ELSE b
  <2>1. low \in {a, b} /\ \A x \in {a, b} : low <= x
    OBVIOUS
  <2>2. \A m \in {a, b} : (\A x \in {a, b} : m <= x) => m = low
    OBVIOUS
  <2> QED
    BY <2>1, <2>2 DEF Min
<1>2. WaitAfter(k) = IF k = 0 THEN 1 ELSE IF k = 1 THEN 2 ELSE IF k = 2 THEN 4 ELSE IF k = 3 THEN 8
                     ELSE IF k = 4 THEN 16 ELSE 30
  BY DEF WaitAfter, Waits, MaxBackoff
<1>3. WaitAfter(k + 1) = IF k = 0 THEN 2 ELSE IF k = 1 THEN 4 ELSE IF k = 2 THEN 8 ELSE IF k = 3 THEN 16 ELSE 30
  BY DEF WaitAfter, Waits, MaxBackoff
<1>4. WaitAfter(0) = InitialBackoff
  BY DEF WaitAfter, Waits, InitialBackoff
<1> QED
  BY <1>1, <1>2, <1>3, <1>4 DEF MaxBackoff

\* A carrier that is added leaves the failures before it, and counts itself.
LEMMA FailuresCount ==
  ASSUME history \in Seq(Carriers), \A n \in DOMAIN history : LastHealthy(n),
         NEW broken \in Carriers, history' = Append(history, broken),
         NEW last, last = Len(history) + 1
  PROVE  /\ Len(history') = last /\ DOMAIN history' = DOMAIN history \cup {last} /\ history'[last] = broken
         /\ history' \in Seq(Carriers) /\ last \notin DOMAIN history
         /\ \A n \in DOMAIN history : history'[n] = history[n] /\ FailuresSince(n)' = FailuresSince(n)
         /\ \A n \in DOMAIN history' : LastHealthy(n)'
         /\ FailuresSince(last)' = IF broken.uptime >= HealthyUptime THEN 0 ELSE FailuresSince(Len(history)) + 1
<1>1. /\ Len(history') = last /\ DOMAIN history' = DOMAIN history \cup {last} /\ history'[last] = broken
      /\ history' \in Seq(Carriers) /\ Len(history) \in Nat /\ DOMAIN history = 1 .. Len(history) /\ last \in Nat
      /\ \A n \in DOMAIN history : history'[n] = history[n]
  OBVIOUS
<1>2. \A n \in 0 .. Len(history) : Healthy(n)' = Healthy(n)
  BY <1>1 DEF Healthy
<1>3. \A n \in DOMAIN history : FailuresSince(n)' = FailuresSince(n) /\ LastHealthy(n)'
  BY <1>1, <1>2 DEF FailuresSince, LastHealthy
<1>4. CASE broken.uptime >= HealthyUptime
  <2>1. last \in Healthy(last)' /\ \A i \in Healthy(last)' : i \in Nat /\ i <= last
    BY <1>1, <1>4 DEF Healthy
  <2>2. Max(Healthy(last)') = last
    <3>1. \A m \in Healthy(last)' : (\A i \in Healthy(last)' : m >= i) => m = last
      BY <1>1, <2>1
    <3>2. \A i \in Healthy(last)' : last >= i
      BY <1>1, <2>1
    <3> QED
      BY <2>1, <3>1, <3>2 DEF Max
  <2>3. LastHealthy(last)' /\ FailuresSince(last)' = last - last
    BY <2>1, <2>2 DEF LastHealthy, FailuresSince
  <2> QED
    BY <1>1, <1>3, <1>4, <2>3
<1>5. CASE ~(broken.uptime >= HealthyUptime)
  <2>1. Healthy(last)' = Healthy(Len(history))
    BY <1>1, <1>5 DEF Healthy
  <2>2. Healthy(Len(history)) # {} => Len(history) \in DOMAIN history
    BY <1>1 DEF Healthy
  <2>3. LastHealthy(last)'
    BY <2>1, <2>2 DEF LastHealthy
  <2>4. FailuresSince(last)' = FailuresSince(Len(history)) + 1
    <3>1. Healthy(Len(history)) # {} => Max(Healthy(Len(history))) \in Nat
      <4> SUFFICES ASSUME Healthy(Len(history)) # {}
                   PROVE  Max(Healthy(Len(history))) \in Nat
        OBVIOUS
      <4>1. Max(Healthy(Len(history))) \in Healthy(Len(history))
        BY <2>2 DEF LastHealthy
      <4> QED
        BY <4>1, <1>1 DEF Healthy
    <3>2. CASE Healthy(Len(history)) = {}
      BY <1>1, <2>1, <3>2 DEF FailuresSince
    <3>3. CASE Healthy(Len(history)) # {}
      BY <1>1, <2>1, <3>1, <3>3 DEF FailuresSince
    <3> QED
      BY <3>2, <3>3
  <2> QED
    BY <1>1, <1>3, <1>5, <2>3, <2>4
<1> QED
  BY <1>4, <1>5

\* Settings that do not fail have exactly one way to the key.
LEMMA SettingsHaveOneKey ==
  ASSUME NEW file \in FileConfig, NEW env \in Environment, ~SettingsFail(file, env)
  PROVE  LET resolved == ResolvedSettings(file, env)
         IN  /\ (resolved.key = NotGiven) # (resolved.keyFile = NotGiven)
             /\ Trimmed(env.key) # NotGiven \/ env.keyFile # NotGiven => "file" \notin {resolved.key, resolved.keyFile}
<1> DEFINE setting == KeySetting(file, env)
<1>1. "env" # "file" /\ NotGiven # "file" /\ NotGiven # "env" /\ Spaces # "file" /\ Spaces # NotGiven
  BY DEF NotGiven, Spaces
<1> HIDE DEF NotGiven, Spaces
<1>2. /\ file.key \in {NotGiven, "file", Spaces} /\ file.keyFile \in {NotGiven, "file"}
      /\ env.key \in {NotGiven, "env", Spaces} /\ env.keyFile \in {NotGiven, "env"}
  BY DEF FileConfig, Environment
<1>3. setting # [key |-> NotGiven, keyFile |-> NotGiven]
  BY Zenon DEF SettingsFail
<1>4. CASE Trimmed(env.key) # NotGiven
  <2>1. setting = [key |-> env.key, keyFile |-> NotGiven] /\ env.key = "env"
    BY <1>1, <1>2, <1>4 DEF KeySetting, Trimmed
  <2> QED
    BY <1>1, <2>1 DEF ResolvedSettings
<1>5. CASE Trimmed(env.key) = NotGiven /\ env.keyFile # NotGiven
  <2>1. setting = [key |-> NotGiven, keyFile |-> env.keyFile] /\ env.keyFile = "env"
    BY <1>1, <1>2, <1>5 DEF KeySetting
  <2> QED
    BY <1>1, <2>1 DEF ResolvedSettings
<1>6. CASE Trimmed(env.key) = NotGiven /\ env.keyFile = NotGiven
  <2>1. \/ setting = [key |-> file.key, keyFile |-> NotGiven] /\ file.key # NotGiven
        \/ setting = [key |-> NotGiven, keyFile |-> file.keyFile]
    BY <1>1, <1>2, <1>6 DEF KeySetting, Trimmed
  <2>2. (setting.key = NotGiven) # (setting.keyFile = NotGiven)
    BY <1>3, <2>1
  <2> QED
    BY <1>6, <2>2 DEF ResolvedSettings
<1> QED
  BY <1>4, <1>5, <1>6

LEMMA ConnectorStarts == ConnectorInit => ConnectorInv
BY DEF ConnectorInit, ConnectorInv, InitialBackoff, WaitsFollowFailures

LEMMA ConnectorKeeps == ConnectorInv /\ [ConnectorNext]_connectorVars => ConnectorInv'
<1> SUFFICES ASSUME ConnectorInv, [ConnectorNext]_connectorVars
             PROVE  ConnectorInv'
  OBVIOUS
<1>1. /\ history \in Seq(Carriers) /\ backoff \in Nat /\ WaitsFollowFailures
      /\ \A n \in DOMAIN history : LastHealthy(n)
      /\ Len(history) \in Nat /\ DOMAIN history = 1 .. Len(history)
  BY DEF ConnectorInv
<1>2. ASSUME UNCHANGED history
      PROVE  /\ \A n : LastHealthy(n)' = LastHealthy(n) /\ FailuresSince(n)' = FailuresSince(n)
             /\ WaitsFollowFailures'
  BY <1>1, <1>2 DEF LastHealthy, FailuresSince, Healthy, WaitsFollowFailures
<1>3. CASE UNCHANGED connectorVars
  BY <1>2, <1>3 DEF connectorVars, ConnectorInv
<1>4. CASE LoadConfig
  <2>1. history = <<>> /\ backoff = InitialBackoff
    BY <1>4 DEF LoadConfig, ConnectorInv
  <2>2. FailuresSince(Len(history)) + 1 = 0
    BY <2>1 DEF FailuresSince, Healthy
  <2>3. backoff = WaitAfter(FailuresSince(Len(history)) + 1)
    BY <2>1, <2>2, WaitsDouble
  <2> QED
    BY <1>2, <1>4, <2>3 DEF LoadConfig, ConnectorInv
<1>5. ASSUME NEW uptime \in Uptimes, CarrierBreaks(uptime)
      PROVE  ConnectorInv'
  <2> DEFINE broken == [uptime |-> uptime, wait |-> backoff']
  <2>1. PICK last \in Nat : last = Len(history) + 1
    BY <1>1
  <2>2. /\ service = "carrier" /\ service' = "waiting" /\ UNCHANGED <<given, settings>>
        /\ history' = Append(history, broken)
        /\ backoff' = IF uptime >= HealthyUptime THEN InitialBackoff ELSE backoff
    BY <1>5 DEF CarrierBreaks
  <2>3. broken \in Carriers /\ broken.uptime = uptime /\ broken.wait = backoff' /\ backoff' \in Nat
    BY <1>1, <2>2, ConnectorAssumption DEF Carriers, InitialBackoff
  <2> HIDE DEF broken
  <2>4. /\ Len(history') = last /\ DOMAIN history' = DOMAIN history \cup {last} /\ history'[last] = broken
        /\ history' \in Seq(Carriers) /\ last \notin DOMAIN history
        /\ \A n \in DOMAIN history : history'[n] = history[n] /\ FailuresSince(n)' = FailuresSince(n)
        /\ \A n \in DOMAIN history' : LastHealthy(n)'
        /\ FailuresSince(last)' = IF uptime >= HealthyUptime THEN 0 ELSE FailuresSince(Len(history)) + 1
    BY <1>1, <2>1, <2>2, <2>3, FailuresCount
  <2>5. backoff = WaitAfter(FailuresSince(Len(history)) + 1)
    BY <2>2 DEF ConnectorInv
  <2>6. backoff' = WaitAfter(FailuresSince(last)')
    BY <2>2, <2>4, <2>5, WaitsDouble
  <2>7. WaitsFollowFailures'
    BY <1>1, <2>3, <2>4, <2>6 DEF WaitsFollowFailures
  <2>8. FailuresSince(Len(history))' = FailuresSince(last)'
    BY <2>4 DEF FailuresSince, Healthy
  <2> QED
    BY <2>2, <2>3, <2>4, <2>6, <2>7, <2>8 DEF ConnectorInv
<1>6. CASE Reconnect
  <2>1. /\ service = "waiting" /\ service' = "carrier" /\ UNCHANGED <<given, settings, history>>
        /\ backoff' = Min({2 * backoff, MaxBackoff})
    BY <1>6 DEF Reconnect
  <2>2. history # <<>> /\ backoff = WaitAfter(FailuresSince(Len(history)))
    BY <2>1 DEF ConnectorInv
  <2>3. FailuresSince(Len(history)) \in Nat
    <3>1. Len(history) \in DOMAIN history /\ Len(history) - 1 \in Nat
      BY <1>1, <2>2
    <3>2. LastHealthy(Len(history))
      BY <1>1, <3>1
    <3> QED
      BY <1>1, <3>1, <3>2 DEF FailuresSince, LastHealthy, Healthy
  <2>4. backoff' = WaitAfter(FailuresSince(Len(history)) + 1) /\ backoff' \in Nat
    <3>1. PICK k \in Nat : k = FailuresSince(Len(history))
      BY <2>3
    <3>2. backoff = WaitAfter(k)
      BY <2>2, <3>1
    <3>3. backoff' = Min({2 * WaitAfter(k), MaxBackoff})
      BY <2>1, <3>2
    <3>4. Min({2 * WaitAfter(k), MaxBackoff}) = WaitAfter(k + 1)
      BY WaitsDouble
    <3>5. \A n \in Nat : WaitAfter(n) \in Nat
      BY WaitsDouble
    <3>6. k + 1 \in Nat
      OBVIOUS
    <3> QED
      BY <3>1, <3>3, <3>4, <3>5, <3>6
  <2> QED
    BY <1>2, <2>1, <2>4 DEF ConnectorInv
<1>7. CASE StopConnector
  BY <1>2, <1>7 DEF StopConnector, ConnectorInv
<1> QED
  BY <1>3, <1>4, <1>5, <1>6, <1>7 DEF ConnectorNext

\* The connector waits between two carriers as long as the ones that broke ask
\* for, whatever mixture of short and healthy ones there was, and runs with one
\* key, which the environment decides if it has one.
THEOREM ConnectorStaysSound == ConnectorSpec => []ConnectorIsSound
<1>1. ConnectorInv => OneKey
  <2> SUFFICES ASSUME ConnectorInv, service \in {"carrier", "waiting", "stopped"}
               PROVE  /\ (settings.key = NotGiven) # (settings.keyFile = NotGiven)
                      /\ Trimmed(given.env.key) # NotGiven \/ given.env.keyFile # NotGiven
                           => "file" \notin {settings.key, settings.keyFile}
    BY DEF OneKey
  <2>1. given.file \in FileConfig /\ given.env \in Environment
    BY ConnectorAssumption DEF ConnectorInv
  <2>2. settings = ResolvedSettings(given.file, given.env) /\ ~SettingsFail(given.file, given.env)
    BY DEF ConnectorInv
  <2> QED
    BY <2>1, <2>2, SettingsHaveOneKey
<1>2. ConnectorInv => ConnectorIsSound
  BY <1>1 DEF ConnectorInv, ConnectorIsSound
<1> QED
  BY <1>2, ConnectorStarts, ConnectorKeeps, PTL DEF ConnectorSpec
=============================================================================
