----------------------------- MODULE ThreadMessages -----------------------------
(***************************************************************************)
(* `thread messages' (internal/cmd/thread.go): the turns of a thread, page *)
(* by page, read from a stream of server-sent events that is parsed once   *)
(* it has ended, whatever its end.                                         *)
(***************************************************************************)
EXTENDS TraceMessages

CONSTANTS
  ThreadInputs,   \* what a reader gives: [limit, trace], 0 where nothing is
  Thread,         \* the turns: the numbers of the groups of each, in order
  ServerTurns,    \* the turns of a page at most
  MaxThreadCalls  \* bound on the commands of a reader

ASSUME ThreadAssumption ==
  /\ ServerTurns \in Nat \ {0} /\ MaxThreadCalls \in Nat
  /\ ThreadInputs \subseteq [limit : Nat, trace : Nat]
  /\ Thread \in Seq(Seq(Nat))
  /\ LET all == FlattenSeq(Thread) IN \A i, j \in DOMAIN all : i < j => all[i] < all[j]

VARIABLES
  threadRun,   \* the command
  stream,      \* the lines of the response
  threadTold   \* what a reader, who goes on at the cursor, has been told

threadVars == <<threadRun, stream, threadTold>>

\* What is after "data: ": a group with its number, the cursors of the page (0 for
\* none), an error that is stated or not, or "broken", which is no JSON.
Datum(is, n, next) == [is |-> is, n |-> n, next |-> next]

NoDatum == Datum("none", 0, 0)

\* A line is an "event", a "data", a "blank" one, or any other. An event may be
\* unnamed.
StreamLine(kind, event, datum) == [kind |-> kind, event |-> event, datum |-> datum]

NoThreadRun == [pc |-> "idle", in |-> CHOOSE in \in ThreadInputs : TRUE, cursor |-> 0, answer |-> "none"]

ThreadInit ==
  /\ threadRun = NoThreadRun
  /\ stream = <<>>
  /\ threadTold = [calls |-> 0, groups |-> <<>>, resume |-> 0, answers |-> {}, from |-> 1]

-----------------------------------------------------------------------------
\* parseSSE: an event ends at a blank line, and at the end of the stream. Of several
\* lines of data the last one is kept. The mutant keeps the data of the last event.
NoEvent == [events |-> <<>>, event |-> "unnamed", datum |-> NoDatum]

EndEventM(parsed) ==
  IF parsed.event = "unnamed" /\ parsed.datum = NoDatum THEN parsed
  ELSE [parsed EXCEPT !.events = Append(@, [event |-> parsed.event, datum |-> parsed.datum]), !.event = "unnamed"]

EndEvent(parsed) ==
  IF parsed.event = "unnamed" /\ parsed.datum = NoDatum THEN parsed
  ELSE [NoEvent EXCEPT !.events = Append(parsed.events, [event |-> parsed.event, datum |-> parsed.datum])]

ParseLine(parsed, line) ==
  CASE line.kind = "blank" -> EndEvent(parsed)
    [] line.kind = "event" -> [parsed EXCEPT !.event = line.event]
    [] line.kind = "data"  -> [parsed EXCEPT !.datum = line.datum]
    [] OTHER -> parsed

Parsed(lines) ==
  LET parsed[n \in 0 .. Len(lines)] == IF n = 0 THEN NoEvent ELSE ParseLine(parsed[n - 1], lines[n])
  IN  parsed[Len(lines)]

ParseSSE(lines) == EndEvent(Parsed(lines)).events

\* parseSSEGroups: anything that is JSON is a group, unless its event says otherwise.
ParseSSEGroups(lines) ==
  LET events   == ParseSSE(lines)
      Named(names) == Picked(events, {e \in ToSet(events) : e.event \in names /\ e.datum.is \notin {"none", "broken"}})
      metadata == Named({"metadata"})
  IN  [groups |-> [i \in DOMAIN Named({"data", "unnamed"}) |-> Named({"data", "unnamed"})[i].datum],
       next   |-> IF metadata = <<>> THEN 0 ELSE Last(metadata).datum.next,
       failed |-> \E e \in ToSet(Named({"error"})) : e.datum.is = "stated"]

-----------------------------------------------------------------------------
\* The server.

EventLines(event, datum) ==
  (IF event = "unnamed" THEN <<>> ELSE <<StreamLine("event", event, NoDatum)>>)
  \o <<StreamLine("data", "unnamed", datum), StreamLine("blank", "unnamed", NoDatum)>>

FirstTurn(run) == IF run.cursor > 0 THEN run.cursor ELSE IF run.in.trace > 0 THEN run.in.trace ELSE 1

LastTurn(run) ==
  LET size == IF run.in.limit = 0 THEN ServerTurns ELSE Min({run.in.limit, ServerTurns})
  IN  Min({FirstTurn(run) + size - 1, Len(Thread)})

GroupLines(run, event) ==
  LET groups == FlattenSeq(SubSeq(Thread, FirstTurn(run), LastTurn(run)))
  IN  FlattenSeq([i \in DOMAIN groups |-> EventLines(event, Datum("group", groups[i], 0))])

\* The whole stream of a page, after a comment that keeps the connection open.
PageLines(run, event) ==
  <<StreamLine("other", "unnamed", NoDatum), StreamLine("blank", "unnamed", NoDatum)>> \o GroupLines(run, event)
  \o EventLines("metadata", Datum("cursors", FirstTurn(run), IF LastTurn(run) < Len(Thread) THEN LastTurn(run) + 1 ELSE 0))

\* A request that is refused has a status and some JSON on a line. Any stream may
\* end early, in the middle of a line even.
Answers(run, event) ==
  {[answer |-> "page", lines |-> PageLines(run, event)],
   [answer |-> "refused", lines |-> <<StreamLine("other", "unnamed", NoDatum)>>]}
  \cup {[answer |-> "cut", lines |-> SubSeq(PageLines(run, event), 1, n)] : n \in 0 .. Len(PageLines(run, event)) - 2}
  \cup {[answer |-> "cut", lines |-> SubSeq(PageLines(run, event), 1, n) \o <<StreamLine("data", "unnamed", Datum("broken", 0, 0))>>] :
          n \in {k \in 1 .. Len(PageLines(run, event)) - 1 : PageLines(run, event)[k + 1].kind = "data"}}
  \cup {[answer |-> error, lines |-> SubSeq(GroupLines(run, event), 1, n) \o EventLines("error", Datum(error, 0, 0))] :
          n \in {k \in 0 .. Len(GroupLines(run, event)) : k = 0 \/ GroupLines(run, event)[k].kind = "blank"},
          error \in {"stated", "unstated"}}

-----------------------------------------------------------------------------
\* The first command starts at a turn or at the first; others at the last cursor.
StartThread(in) ==
  /\ threadRun.pc = "idle" /\ threadTold.calls < MaxThreadCalls
  /\ threadTold.calls > 0 => threadTold.resume > 0
  /\ threadRun' = [NoThreadRun EXCEPT !.pc = "request", !.in = in, !.cursor = threadTold.resume]
  /\ threadTold' = [threadTold EXCEPT !.calls = @ + 1,
                      !.from = IF threadTold.calls = 0 THEN FirstTurn(threadRun') ELSE @]
  /\ UNCHANGED stream

\* RawDo fails if there is no response, or it breaks; never for its status.
FailThread ==
  /\ threadRun.pc = "request"
  /\ threadRun' = [threadRun EXCEPT !.pc = "failed"]
  /\ UNCHANGED <<stream, threadTold>>

AnswerThread ==
  /\ threadRun.pc = "request"
  /\ \E answer \in Answers(threadRun, "data") \cup Answers(threadRun, "unnamed") :
       /\ stream' = answer.lines
       /\ threadRun' = [threadRun EXCEPT !.pc = "print", !.answer = answer.answer]
  /\ UNCHANGED threadTold

\* An error that says what it is ends the command. Any other answer is printed.
PrintThread ==
  /\ threadRun.pc = "print"
  /\ LET parsed == ParseSSEGroups(stream)
     IN  IF parsed.failed
         THEN threadRun' = [threadRun EXCEPT !.pc = "failed"] /\ UNCHANGED threadTold
         ELSE /\ threadRun' = NoThreadRun
              /\ threadTold' = [threadTold EXCEPT !.groups = @ \o parsed.groups, !.resume = parsed.next,
                                                  !.answers = @ \cup {threadRun.answer}]
  /\ stream' = <<>>

ThreadNext ==
  \/ \E in \in ThreadInputs : StartThread(in)
  \/ FailThread \/ AnswerThread \/ PrintThread

ThreadSpec == ThreadInit /\ [][ThreadNext]_threadVars

-----------------------------------------------------------------------------
\* Properties.

\* The state keeps its shape.
ThreadTypeOK ==
  /\ threadRun.pc \in {"idle", "request", "print", "failed"}
  /\ threadTold.calls \in 0 .. MaxThreadCalls /\ threadTold.resume \in 0 .. Len(Thread)

\* A reader who goes on at each cursor is told groups of the thread only, each once
\* and in their order, however the streams end. If no stream ended early and no
\* request was refused, none is missing in between, and once there is no cursor all
\* are told from the turn the reader began with. After an error the server states,
\* nothing of that answer is told.
ThreadIsTold ==
  LET groups == threadTold.groups
      wanted == FlattenSeq(SubSeq(Thread, threadTold.from, Len(Thread)))
  IN  /\ \A i \in DOMAIN groups : groups[i].is = "group" /\ (i > 1 => groups[i - 1].n < groups[i].n)
      /\ "stated" \notin threadTold.answers
      /\ threadTold.answers = {"page"} =>
           /\ IsPrefix([i \in DOMAIN groups |-> groups[i].n], wanted)
           /\ threadTold.resume = 0 => Len(groups) = Len(wanted)

\* Conversations are told as they were: those of many traces, and those of a thread.
ConversationsAreTold == TracesAreTold /\ ThreadIsTold
=============================================================================
