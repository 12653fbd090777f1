----------------------------- MODULE TraceMessages -----------------------------
(***************************************************************************)
(* `trace messages' (internal/cmd/message.go): the conversations of many   *)
(* traces, read page by page, with the previews of their root runs, and    *)
(* told in two views: a thin trajectory, to be scanned over all traces,    *)
(* and a digest, to be read for one.                                       *)
(*                                                                         *)
(* Servers differ in the largest page they accept, and a request may reach *)
(* an older or a newer one while a deployment is rolled out.               *)
(***************************************************************************)
EXTENDS Integers, Sequences, SequencesExt, FiniteSetsExt

CONSTANTS
  MessageInputs,  \* what commands are given: [limit, since, paged]
  Conversations,  \* the lists of traces that may match: see Group
  LargePage,      \* the largest page of a newer server, and
  SmallPage,      \* of an older one
  MaxLimit,       \* the largest --limit
  MaxMessageCalls \* bound on the calls that follow each other's cursor

ASSUME MessageAssumption ==
  /\ SmallPage \in Nat \ {0} /\ LargePage \in Nat /\ SmallPage < LargePage /\ MaxLimit \in Nat /\ MaxMessageCalls \in Nat
  /\ MessageInputs \subseteq [limit : Nat, since : BOOLEAN, paged : BOOLEAN]

VARIABLES
  matches,   \* the groups of each trace that matches, the latest first
  messages,  \* the command that runs
  told       \* what it, or the chain of commands with --cursor, has printed

messageVars == <<matches, messages, told>>

\* A message has its role and content: "none", "text", "failure" for text that looks
\* like an error, or "block" for a structured one without any text. The calls of a
\* tool have a name and a result.
Group(type, role, content, calls) == [type |-> type, role |-> role, content |-> content, calls |-> calls]

ToolCall(name, result) == [name |-> name, result |-> result]

\* No tool has the name that stands for none.
Groups ==
  [type : STRING, role : STRING, content : STRING, calls : Seq([name : STRING \ {"none"}, result : STRING])]

ASSUME ConversationAssumption == Conversations \subseteq Seq(Seq(Groups))

Resting == [pc |-> "idle", in |-> CHOOSE in \in MessageInputs : TRUE, cursor |-> 0, maxPage |-> LargePage,
            remaining |-> 0, got |-> <<>>, previews |-> {}]

MessageInit ==
  /\ matches \in Conversations
  /\ messages = Resting
  /\ told = [of |-> "none", traces |-> <<>>, limit |-> 0, resume |-> 0, calls |-> 0]

-----------------------------------------------------------------------------
\* The items that are kept, in their order.
Picked(items, keep) ==
  LET places == {i \in DOMAIN items : items[i] \in keep}
      kept[i \in 0 .. Len(items)] ==
        IF i = 0 THEN <<>> ELSE IF i \in places THEN Append(kept[i - 1], items[i]) ELSE kept[i - 1]
  IN  kept[Len(items)]

\* The two views of a trace.

\* msgChars counts text only, coerceContent renders every content.
MsgChars(content) == IF content \in {"text", "failure"} THEN 1 ELSE 0

TrajectoryStep(role, tool, chars) == [role |-> role, tool |-> tool, chars |-> chars]

GroupSteps(group) ==
  CASE group.type = "message" -> <<TrajectoryStep(group.role, "none", MsgChars(group.content))>>
    [] group.type = "tool_interaction" ->
         <<TrajectoryStep(group.role, "none", MsgChars(group.content))>>
         \o [k \in DOMAIN group.calls |-> TrajectoryStep("tool", group.calls[k].name, MsgChars(group.calls[k].result))]
    [] OTHER -> <<>>

BuildTraceTrajectory(groups) == FlattenSeq([i \in DOMAIN groups |-> GroupSteps(groups[i])])

\* The text of a group of an unknown type is not looked at.
DigestGroup(group) ==
  [text   |-> group.type \in {"message", "tool_interaction"} /\ group.content # "none",
   role   |-> IF group.type = "message" THEN group.role ELSE "none",
   tools  |-> IF group.type = "tool_interaction" THEN [k \in DOMAIN group.calls |-> group.calls[k].name] ELSE <<>>,
   failed |-> group.type = "tool_interaction" /\ \E k \in DOMAIN group.calls : group.calls[k].result = "failure"]

\* The first words of a human and the last of the model, as the number of their
\* group: 0 where no group has them, and the previews of the root are taken.
BuildTraceDigest(groups) ==
  LET Says(i, role) == DigestGroup(groups[i]).text /\ groups[i].type = "message" /\ groups[i].role = role
      human == {i \in DOMAIN groups : Says(i, "human")}
      ai    == {i \in DOMAIN groups : Says(i, "ai") \/ (groups[i].type = "tool_interaction" /\ DigestGroup(groups[i]).text)}
  IN  [index |-> [i \in DOMAIN groups |-> DigestGroup(groups[i])],
       human |-> IF human = {} THEN 0 ELSE Min(human), ai |-> IF ai = {} THEN 0 ELSE Max(ai)]

-----------------------------------------------------------------------------
\* A limit of 0 is the default one, which is one page of the older servers.
RefusesMessages(in) == in.limit > MaxLimit \/ ~in.since

MessageLimit(in) == IF in.limit = 0 THEN SmallPage ELSE in.limit

\* With --cursor the command reads one page, from the cursor of the last one.
StartMessages(in) ==
  /\ messages.pc = "idle" /\ told.calls < MaxMessageCalls
  /\ told.calls > 0 => in.paged /\ told.of = "page" /\ told.resume > 0
  /\ IF RefusesMessages(in)
     THEN UNCHANGED messages /\ told' = [told EXCEPT !.calls = MaxMessageCalls]
     ELSE /\ messages' = [Resting EXCEPT !.pc = "page", !.in = in, !.remaining = MessageLimit(in),
                                         !.cursor = IF in.paged THEN told.resume ELSE 0]
          /\ told' = [told EXCEPT !.calls = @ + 1]
  /\ UNCHANGED matches

PageAsked(run) == IF run.in.paged THEN run.remaining ELSE Min({run.maxPage, run.remaining})

\* The server: a page may be shorter than asked and still have a cursor.
ServerPage(run, size) == SubSeq(matches, run.cursor + 1, Min({Len(matches), run.cursor + size}))

\* What follows a page: the limit is less what came, not what was asked for.
AfterBatch(run, page, next) ==
  LET left == run.remaining - Len(page)
  IN  [run EXCEPT !.got = @ \o page, !.remaining = left, !.cursor = next,
                  !.pc = IF run.in.paged \/ next = 0 \/ left <= 0 THEN "previews" ELSE "page"]

FetchBatch ==
  /\ messages.pc = "page"
  /\ \E size \in 1 .. PageAsked(messages) :
       LET page == ServerPage(messages, size)
           seen == messages.cursor + Len(page)
           next == IF seen < Len(matches) THEN seen ELSE 0
       IN  messages' = AfterBatch(messages, [i \in DOMAIN page |-> messages.cursor + i], next)
  /\ UNCHANGED <<matches, told>>

\* An older server refuses the page: a walk goes on with smaller ones, and starts
\* no page anew that it has. Only a walk does.
RefusedBatch ==
  /\ messages.pc = "page" /\ PageAsked(messages) > SmallPage
  /\ messages' = IF messages.in.paged THEN [messages EXCEPT !.pc = "failed"] ELSE [messages EXCEPT !.maxPage = SmallPage]
  /\ UNCHANGED <<matches, told>>

\* Any other error ends the command, with nothing printed.
FailBatch ==
  /\ messages.pc = "page"
  /\ messages' = [messages EXCEPT !.pc = "failed"]
  /\ UNCHANGED <<matches, told>>

\* attachRootIO: a lookup that fails, or misses a root, leaves traces without a
\* preview.
FetchRootPreviews ==
  /\ messages.pc = "previews"
  /\ \E missed \in {messages.got, <<>>} \cup {<<n>> : n \in ToSet(messages.got)} :
       messages' = [messages EXCEPT !.pc = "print", !.previews = ToSet(messages.got) \ ToSet(missed)]
  /\ UNCHANGED <<matches, told>>

TraceTold(n, previews) ==
  [trace |-> n, preview |-> n \in previews, trajectory |-> BuildTraceTrajectory(matches[n]),
   digest |-> BuildTraceDigest(matches[n])]

\* A walk prints no more than its limit, and no cursor; a page has the server's.
PrintMessages ==
  /\ messages.pc = "print"
  /\ LET kept == SubSeq(messages.got, 1, Min({MessageLimit(messages.in), Len(messages.got)}))
         out  == [i \in DOMAIN kept |-> TraceTold(kept[i], messages.previews)]
     IN  told' = [told EXCEPT !.of = IF messages.in.paged THEN "page" ELSE "walk", !.traces = @ \o out,
                              !.limit = MessageLimit(messages.in),
                              !.resume = IF messages.in.paged THEN messages.cursor ELSE 0]
  /\ messages' = Resting
  /\ UNCHANGED matches

MessageNext ==
  \/ \E in \in MessageInputs : StartMessages(in)
  \/ FetchBatch \/ RefusedBatch \/ FailBatch \/ FetchRootPreviews \/ PrintMessages

MessageSpec == MessageInit /\ [][MessageNext]_messageVars

-----------------------------------------------------------------------------
\* Properties.

\* The state keeps its shape.
MessageTypeOK ==
  /\ messages.pc \in {"idle", "page", "previews", "print", "failed"}
  /\ messages.cursor \in 0 .. Len(matches) /\ told.resume \in 0 .. Len(matches)
  /\ messages.maxPage \in {SmallPage, LargePage}

\* A walk tells the latest traces that match, as many as its limit, each once and
\* in their order, however pages are cut short and whenever a server makes it take
\* smaller ones; pages that follow each other's cursor tell a prefix of the list.
\* And the two views of a trace, built apart, agree: the tools of the digest, group
\* by group, are those of the trajectory in its order, every step with text belongs
\* to a group that has some, and no group the digest shows is missing in between.
TracesAreTold ==
  LET numbers == [i \in DOMAIN told.traces |-> told.traces[i].trace]
      Tools(steps) == Picked(steps, {step \in ToSet(steps) : step.tool # "none"})
  IN  /\ numbers = [i \in 1 .. Len(numbers) |-> i]
      /\ told.of = "walk" => Len(numbers) = Min({told.limit, Len(matches)})
      /\ told.of = "page" /\ told.resume = 0 => Len(numbers) = Len(matches)
      /\ \A t \in ToSet(told.traces) :
           LET tools  == Tools(t.trajectory)
               listed == FlattenSeq([i \in DOMAIN t.digest.index |-> t.digest.index[i].tools])
           IN  /\ [k \in DOMAIN tools |-> tools[k].tool] = listed
               /\ (\E step \in ToSet(t.trajectory) : step.chars > 0 /\ step.role \in {"human", "ai"})
                    => \E i \in DOMAIN t.digest.index : t.digest.index[i].text
               /\ Len(t.digest.index) = Len(matches[t.trace])
=============================================================================
