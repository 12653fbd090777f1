-------------------------- MODULE SshAgentForward ---------------------------
(***************************************************************************)
(* `sandboxes console --forward-ssh-agent': programs in the sandbox open   *)
(* channels, what they ask comes over the console's stream, and the CLI    *)
(* carries it to the local ssh-agent over one connection per channel and   *)
(* the answers back (runConsole and consoleAgentForwarder in               *)
(* internal/cmd/sandbox_console.go).                                       *)
(*                                                                         *)
(* The SDK calls the callbacks one at a time, in the order of the stream;  *)
(* each connection has a goroutine that reads it. The sandbox does not use *)
(* a channel identifier twice, and a channel asks one thing at a time.     *)
(***************************************************************************)
EXTENDS Integers, Sequences, SequencesExt

CONSTANTS
  Channels,   \* the identifiers of channels
  MaxQuestions  \* bound on what the programs in the sandbox ask

ASSUME ForwardAssumption == MaxQuestions \in Nat /\ "none" \notin Channels

VARIABLES
  console,   \* "starting", "open" or "ended"
  remote,    \* each channel in the sandbox
  toCli,     \* the stream from the sandbox
  toBox,     \* the stream to the sandbox
  callback,  \* the channel whose data is about to be written, or "none"
  conns,     \* the connection of each channel, and its place in the table
  reader,    \* the goroutine that reads it
  agentUp,   \* whether the ssh-agent listens
  undialed,  \* channels whose data was dropped as the agent did not listen
  asked      \* how many questions were asked

agentVars == <<console, remote, toCli, toBox, callback, conns, reader, agentUp, undialed, asked>>

Message == [kind : {"data", "close"}, on : Channels]

Data(c) == [kind |-> "data", on |-> c]

Close(c) == [kind |-> "close", on |-> c]

NoConn == [listed |-> FALSE, state |-> "none", question |-> FALSE, answer |-> FALSE]

AgentInit ==
  /\ console = "starting"
  /\ remote = [c \in Channels |-> "new"]
  /\ toCli = <<>> /\ toBox = <<>>
  /\ callback = "none"
  /\ conns = [c \in Channels |-> NoConn]
  /\ reader = [c \in Channels |-> "none"]
  /\ agentUp = TRUE
  /\ undialed = {}
  /\ asked = 0

-----------------------------------------------------------------------------
\* The programs in the sandbox.

Ask(c) ==
  /\ console # "ended" /\ remote[c] \in {"new", "open"} /\ asked < MaxQuestions
  /\ asked' = asked + 1
  /\ remote' = [remote EXCEPT ![c] = "waiting"]
  /\ toCli' = Append(toCli, Data(c))
  /\ UNCHANGED <<console, toBox, callback, conns, reader, agentUp, undialed>>

HangUp(c) ==
  /\ console # "ended" /\ remote[c] \in {"waiting", "open"}
  /\ remote' = [remote EXCEPT ![c] = "closed"]
  /\ toCli' = Append(toCli, Close(c))
  /\ UNCHANGED <<console, toBox, callback, conns, reader, agentUp, undialed, asked>>

Receive ==
  /\ toBox # <<>>
  /\ LET m == Head(toBox)
     IN  remote' = [remote EXCEPT ![m.on] = IF m.kind = "close" THEN "closed"
                                            ELSE IF @ = "waiting" THEN "open" ELSE @]
  /\ toBox' = Tail(toBox)
  /\ UNCHANGED <<console, toCli, callback, conns, reader, agentUp, undialed, asked>>

-----------------------------------------------------------------------------
\* The ssh-agent.

AgentAnswers(c) ==
  /\ conns[c].state = "open" /\ conns[c].question /\ agentUp
  /\ conns' = [conns EXCEPT ![c].question = FALSE, ![c].answer = TRUE]
  /\ UNCHANGED <<console, remote, toCli, toBox, callback, reader, agentUp, undialed, asked>>

\* It ends and all its connections with it, or is started again.
AgentEndsOrStarts ==
  /\ agentUp' = ~agentUp
  /\ conns' = [c \in Channels |->
       IF agentUp /\ conns[c].state = "open"
       THEN [conns[c] EXCEPT !.state = "dead", !.question = FALSE] ELSE conns[c]]
  /\ UNCHANGED <<console, remote, toCli, toBox, callback, reader, undialed, asked>>

-----------------------------------------------------------------------------
\* The CLI.

\* StartCommandWithCallbacks returns: only now does the callback for data go on.
ConsoleStarts ==
  /\ console = "starting"
  /\ console' \in {"open", "ended"}
  /\ UNCHANGED <<remote, toCli, toBox, callback, conns, reader, agentUp, undialed, asked>>

\* HandleData, as far as the lock: the connection is looked up, or dialed and
\* its reader started. Without an agent the data is dropped.
HandleData ==
  /\ console = "open" /\ callback = "none" /\ toCli # <<>> /\ Head(toCli).kind = "data"
  /\ toCli' = Tail(toCli)
  /\ LET c == Head(toCli).on
     IN  \/ /\ conns[c].listed
            /\ callback' = c
            /\ UNCHANGED <<conns, reader, undialed>>
         \/ /\ ~conns[c].listed /\ agentUp
            /\ callback' = c
            /\ conns' = [conns EXCEPT ![c] = [NoConn EXCEPT !.listed = TRUE, !.state = "open"]]
            /\ reader' = [reader EXCEPT ![c] = "reading"]
            /\ UNCHANGED undialed
         \/ /\ ~conns[c].listed /\ ~agentUp
            /\ undialed' = undialed \cup {c}
            /\ UNCHANGED <<conns, reader, callback>>
  /\ UNCHANGED <<console, remote, toBox, agentUp, asked>>

\* The write follows outside the lock; its error is ignored.
WriteToAgent ==
  /\ console = "open" /\ callback # "none"
  /\ conns' = IF conns[callback].state = "open" THEN [conns EXCEPT ![callback].question = TRUE] ELSE conns
  /\ callback' = "none"
  /\ UNCHANGED <<console, remote, toCli, toBox, reader, agentUp, undialed, asked>>

\* CloseChannel.
CloseChannel ==
  /\ console # "ended" /\ callback = "none" /\ toCli # <<>> /\ Head(toCli).kind = "close"
  /\ LET c == Head(toCli).on
     IN  conns' = IF conns[c].listed
                  THEN [conns EXCEPT ![c] = [@ EXCEPT !.listed = FALSE, !.state = "closed",
                                                      !.question = FALSE, !.answer = FALSE]]
                  ELSE conns
  /\ toCli' = Tail(toCli)
  /\ UNCHANGED <<console, remote, toBox, callback, reader, agentUp, undialed, asked>>

\* readResponses: an answer is read, what was read is sent; an error closes the
\* channel in the sandbox (the table keeps its entry).
ReadResponsesM(c) ==
  /\ console = "open"
  /\ \/ /\ reader[c] = "reading" /\ conns[c].answer
        /\ conns' = [conns EXCEPT ![c].answer = FALSE]
        /\ reader' = [reader EXCEPT ![c] = "sending"]
        /\ UNCHANGED toBox
     \/ /\ reader[c] = "reading" /\ ~conns[c].answer /\ conns[c].state \in {"dead", "closed"}
        /\ reader' = [reader EXCEPT ![c] = "done"]
        /\ UNCHANGED <<toBox, conns>>
     \/ /\ reader[c] = "sending"
        /\ toBox' = Append(toBox, Data(c))
        /\ reader' = [reader EXCEPT ![c] = "reading"]
        /\ UNCHANGED conns
  /\ UNCHANGED <<console, remote, toCli, callback, agentUp, undialed, asked>>

ReadResponses(c) ==
  /\ console = "open"
  /\ \/ /\ reader[c] = "reading" /\ conns[c].answer
        /\ conns' = [conns EXCEPT ![c].answer = FALSE]
        /\ reader' = [reader EXCEPT ![c] = "sending"]
        /\ UNCHANGED toBox
     \/ /\ reader[c] = "reading" /\ ~conns[c].answer /\ conns[c].state \in {"dead", "closed"}
        /\ toBox' = Append(toBox, Close(c))
        /\ reader' = [reader EXCEPT ![c] = "done"]
        /\ UNCHANGED conns
     \/ /\ reader[c] = "sending"
        /\ toBox' = Append(toBox, Data(c))
        /\ reader' = [reader EXCEPT ![c] = "reading"]
        /\ UNCHANGED conns
  /\ UNCHANGED <<console, remote, toCli, callback, agentUp, undialed, asked>>

\* The shell ends or the command is interrupted: agent.Close, then handle.Close.
ConsoleEnds ==
  /\ console = "open"
  /\ console' = "ended"
  /\ conns' = [c \in Channels |-> NoConn]
  /\ reader' = [c \in Channels |-> "none"]
  /\ callback' = "none" /\ toCli' = <<>> /\ toBox' = <<>>
  /\ remote' = [c \in Channels |-> "closed"]
  /\ UNCHANGED <<agentUp, undialed, asked>>

AgentNext ==
  \/ \E c \in Channels : Ask(c) \/ HangUp(c) \/ AgentAnswers(c) \/ ReadResponses(c)
  \/ Receive \/ AgentEndsOrStarts
  \/ ConsoleStarts \/ HandleData \/ WriteToAgent \/ CloseChannel \/ ConsoleEnds

AgentSpec == AgentInit /\ [][AgentNext]_agentVars

-----------------------------------------------------------------------------
\* Properties.

AgentTypeOK ==
  /\ console \in {"starting", "open", "ended"}
  /\ remote \in [Channels -> {"new", "waiting", "open", "closed"}]
  /\ toCli \in Seq(Message) /\ toBox \in Seq(Message)
  /\ callback \in Channels \cup {"none"}
  /\ conns \in [Channels -> [listed : BOOLEAN, state : {"none", "open", "dead", "closed"},
                             question : BOOLEAN, answer : BOOLEAN]]
  /\ reader \in [Channels -> {"none", "reading", "sending", "done"}]
  /\ agentUp \in BOOLEAN /\ undialed \subseteq Channels /\ asked \in 0 .. MaxQuestions

(***************************************************************************)
(* A program in the sandbox that waits for the ssh-agent does not wait for *)
(* nothing: its question, an answer or the closing of its channel is still *)
(* on the way, unless no agent listened when its question came             *)
(* (consoleAgentForwarder; HandleData drops such a question silently).     *)
(***************************************************************************)
NoQuestionIsLost ==
  \A c \in Channels : remote[c] = "waiting" /\ console = "open" =>
    \/ Contains(toCli, Data(c)) \/ callback = c
    \/ conns[c].question \/ conns[c].answer
    \/ reader[c] = "sending"
    \/ reader[c] = "reading" /\ conns[c].state = "dead"
    \/ Contains(toBox, Data(c)) \/ Contains(toBox, Close(c))
    \/ c \in undialed
=============================================================================
