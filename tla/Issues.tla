-------------------------------- MODULE Issues --------------------------------
(***************************************************************************)
(* The issues of a project (internal/cmd/issues.go): list, update, the     *)
(* runs linked to an issue as evidence and the regression examples that    *)
(* are proposed for it. People on the board, and the agent that opens      *)
(* issues, change the same issues. An answer may be lost on its way: the   *)
(* command has then failed, and is given again.                            *)
(***************************************************************************)
EXTENDS Integers, Sequences, SequencesExt, FiniteSetsExt

CONSTANTS
  IssueInputs,    \* what commands are given: see IssueInput
  MaxIssues,      \* bound on the issues of the board
  MaxAssertions,  \* how many assertions an example may have
  ServerIssuePage, \* how many issues the server sends at most
  MaxIssueEdits   \* bound on the changes

ASSUME IssueAssumption ==
  MaxIssues \in Nat /\ MaxAssertions \in Nat /\ ServerIssuePage \in Nat \ {0} /\ MaxIssueEdits \in Nat

VARIABLES
  board,      \* the issues, the latest first
  evidence,   \* the runs linked to each issue, with their comments
  proposed,   \* the examples proposed for each, and whose assertions
  statuses,    \* the changes of status: the issue, its new status and the reason
  reading,    \* the reader of the board: a list command after the other
  issueEdits, \* how many changes there were
  lastGiven   \* what each field of an issue was last given, by anyone

issueVars == <<board, evidence, proposed, statuses, reading, issueEdits, lastGiven>>

IssueFields == {"name", "description", "fix", "status", "evaluator"}

IssueIds == 1 .. MaxIssues

\* Flags that are not given, and for --evaluator none.
NoFlag == ""

NoSuggestion == [type |-> NoFlag, named |-> FALSE, session |-> NoFlag, rate |-> NoFlag]

IssueInput(cmd, id) ==
  [cmd |-> cmd, id |-> id, name |-> NoFlag, description |-> NoFlag, fix |-> NoFlag, status |-> NoFlag,
   reason |-> NoFlag, evaluator |-> NoSuggestion, run |-> NoFlag, at |-> NoFlag, comment |-> NoFlag,
   assertions |-> <<>>]

NewIssue(id, status) ==
  [id |-> id, name |-> "found", description |-> "found", fix |-> NoFlag, status |-> status, evaluator |-> NoSuggestion]

NotReading == [status |-> NoFlag, limit |-> 0, offset |-> 0, rows |-> <<>>, alone |-> TRUE, ended |-> FALSE]

IssueInit ==
  /\ \E n \in 0 .. MaxIssues : board = [i \in 1 .. n |-> NewIssue(n + 1 - i, IF i = 2 THEN "ignored" ELSE "open")]
  /\ evidence = {} /\ proposed = {} /\ statuses = <<>>
  /\ reading = NotReading
  /\ issueEdits = 0
  /\ lastGiven = [id \in IssueIds |-> NewIssue(id, IF \E i \in DOMAIN board : board[i].id = id /\ i = 2 THEN "ignored" ELSE "open")]

-----------------------------------------------------------------------------
\* projects issues list. A reader takes one page after the other, as the help of
\* the command says: the next offset is a limit further, until a page is short.

IssueStatuses == {"open", "fixing", "watching", "completed", "ignored"}

\* A status or priority that is not one of them is refused before any request.
ListRefused(status) == status \notin IssueStatuses \cup {NoFlag}

\* The server: the issues of a status, and the page of them at an offset; a limit
\* of 0 is not sent.
OfStatus(issues, status) ==
  LET kept == {i \in DOMAIN issues : status \in {NoFlag, issues[i].status}}
      of[i \in 0 .. Len(issues)] ==
        IF i = 0 THEN <<>> ELSE IF i \in kept THEN Append(of[i - 1], issues[i]) ELSE of[i - 1]
  IN  of[Len(issues)]

IssuePage(status, limit, offset) ==
  LET all  == OfStatus(board, status)
      size == IF limit = 0 THEN ServerIssuePage ELSE Min({limit, ServerIssuePage})
  IN  SubSeq(all, offset + 1, Min({Len(all), offset + size}))

\* The mutant gives the number of the page as the offset.
NextOffsetM(read) == read.offset + 1

NextOffset(read) == read.offset + read.limit

ListIssues(status, limit) ==
  /\ ~reading.ended /\ ~ListRefused(status)
  /\ reading.limit = 0 \/ (reading.limit = limit /\ reading.status = status)
  /\ LET read == [reading EXCEPT !.status = status, !.limit = limit]
         page == IssuePage(status, limit, read.offset)
     IN  reading' = [read EXCEPT !.rows = @ \o [i \in DOMAIN page |-> page[i].id], !.offset = NextOffset(read),
                                 !.ended = Len(page) < limit]
  /\ UNCHANGED <<board, evidence, proposed, statuses, issueEdits, lastGiven>>

Disturbs == [reading EXCEPT !.alone = reading.limit = 0]

-----------------------------------------------------------------------------
\* projects issues update.

\* The evaluator as the action that would create its rule.
ActionOf(evaluator) ==
  [evaluator EXCEPT !.session = IF @ = NoFlag THEN "{{session_id}}" ELSE @, !.rate = IF @ = NoFlag THEN "1.0" ELSE @]

IsGiven(in, field) == IF field = "evaluator" THEN in.evaluator # NoSuggestion ELSE in[field] # NoFlag

UpdateRefused(in) ==
  \/ \A field \in IssueFields : ~IsGiven(in, field)
  \/ in.status \notin IssueStatuses \cup {NoFlag}
  \/ in.reason # NoFlag /\ in.status = NoFlag
  \/ in.evaluator # NoSuggestion /\ (in.evaluator.type \notin {"llm", "code"} \/ ~in.evaluator.named)

\* The fields of the request: only flags that are given.
PatchedFields(in) == {field \in IssueFields : IsGiven(in, field)}

PatchedTo(in, field) == IF field = "evaluator" THEN ActionOf(in.evaluator) ELSE in[field]

IssueAt(id) == {i \in DOMAIN board : board[i].id = id}

\* The server changes the fields of the request; who may make which change of
\* status it decides, and may refuse.
UpdateIssue(in) ==
  /\ in.cmd = "update" /\ ~UpdateRefused(in) /\ issueEdits < MaxIssueEdits
  /\ \E i \in IssueAt(in.id) :
       /\ board' = [board EXCEPT ![i] =
            [f \in DOMAIN @ |-> IF f \in PatchedFields(in) THEN PatchedTo(in, f) ELSE @[f]]]
       /\ lastGiven' = [lastGiven EXCEPT ![in.id] =
            [f \in DOMAIN @ |-> IF f # "id" /\ IsGiven(in, f) THEN PatchedTo(in, f) ELSE @[f]]]
  /\ statuses' = IF in.status = NoFlag THEN statuses ELSE Append(statuses, [id |-> in.id, to |-> in.status, reason |-> in.reason])
  /\ issueEdits' = issueEdits + 1
  /\ reading' = Disturbs
  /\ UNCHANGED <<evidence, proposed>>

\* People change a field of an issue.
EditOnBoard ==
  /\ issueEdits < MaxIssueEdits /\ issueEdits' = issueEdits + 1
  /\ \E i \in DOMAIN board, f \in {"description", "status"} :
       /\ board' = [board EXCEPT ![i][f] = IF f = "status" THEN "fixing" ELSE "edited"]
       /\ lastGiven' = [lastGiven EXCEPT ![board[i].id][f] = IF f = "status" THEN "fixing" ELSE "edited"]
       /\ statuses' = IF f = "status" THEN Append(statuses, [id |-> board[i].id, to |-> "fixing", reason |-> NoFlag]) ELSE statuses
  /\ reading' = Disturbs
  /\ UNCHANGED <<evidence, proposed>>

\* The agent opens one.
OpenIssue ==
  /\ issueEdits < MaxIssueEdits /\ issueEdits' = issueEdits + 1
  /\ Len(board) < MaxIssues
  /\ board' = <<NewIssue(Len(board) + 1, "open")>> \o board
  /\ lastGiven' = [lastGiven EXCEPT ![Len(board) + 1] = NewIssue(Len(board) + 1, "open")]
  /\ reading' = Disturbs
  /\ UNCHANGED <<evidence, proposed, statuses>>

-----------------------------------------------------------------------------
\* Evidence and examples.

\* A run that is linked keeps its comment unless there is a new one.
LinkRun(in) ==
  /\ in.cmd = "runs add" /\ in.run # NoFlag /\ in.at # NoFlag /\ issueEdits < MaxIssueEdits
  /\ IssueAt(in.id) # {}
  /\ LET old == {link \in evidence : link.id = in.id /\ link.run = in.run}
     IN  evidence' = IF in.comment = NoFlag /\ old # {} THEN evidence
                     ELSE (evidence \ old) \cup {[id |-> in.id, run |-> in.run, comment |-> in.comment]}
  /\ issueEdits' = issueEdits + 1
  /\ UNCHANGED <<board, proposed, statuses, reading, lastGiven>>

UnlinkRun(in) ==
  /\ in.cmd = "runs remove" /\ issueEdits < MaxIssueEdits
  /\ \E link \in evidence : link.id = in.id /\ link.run = in.run /\ evidence' = evidence \ {link}
  /\ issueEdits' = issueEdits + 1
  /\ UNCHANGED <<board, proposed, statuses, reading, lastGiven>>

\* An assertion is split at its first "=", and both parts are trimmed.
AssertionFails(assertion) == ~assertion.split \/ assertion.key = NoFlag \/ assertion.comment = NoFlag

ProposeRefused(in) ==
  \/ in.run = NoFlag
  \/ Len(in.assertions) \notin 1 .. MaxAssertions
  \/ \E k \in DOMAIN in.assertions : AssertionFails(in.assertions[k])
  \/ \E k, l \in DOMAIN in.assertions : k < l /\ in.assertions[k].key = in.assertions[l].key

\* A server that does not know of start times accepts runs that are linked.
ProposeExample(in) ==
  /\ in.cmd = "examples propose" /\ ~ProposeRefused(in) /\ issueEdits < MaxIssueEdits
  /\ IssueAt(in.id) # {}
  /\ in.at # NoFlag \/ \E link \in evidence : link.id = in.id /\ link.run = in.run
  /\ proposed' = proposed \cup {[id |-> in.id, run |-> in.run, assertions |-> in.assertions]}
  /\ issueEdits' = issueEdits + 1
  /\ UNCHANGED <<board, evidence, statuses, reading, lastGiven>>

IssueNext ==
  \/ \E in \in IssueInputs : UpdateIssue(in) \/ LinkRun(in) \/ UnlinkRun(in) \/ ProposeExample(in)
  \/ \E status \in {NoFlag, "open"}, limit \in 1 .. ServerIssuePage : ListIssues(status, limit)
  \/ EditOnBoard \/ OpenIssue

IssueSpec == IssueInit /\ [][IssueNext]_issueVars

-----------------------------------------------------------------------------
\* Properties.

\* The state keeps its shape.
IssueTypeOK ==
  /\ \A i, j \in DOMAIN board : board[i].id = board[j].id => i = j
  /\ \A i \in DOMAIN board : board[i].status \in IssueStatuses
  /\ issueEdits \in 0 .. MaxIssueEdits

\* Whatever commands and people change, and in whatever order, every field of
\* every issue has the value it was last given, an update given again or next to
\* another one included; the status is the last of its statuses and has no other's
\* reason; a run is linked once; and a reader who follows the help of `list' over
\* a board that nobody changes has read every issue of a status once.
BoardIsTrue ==
  /\ \A i \in DOMAIN board : board[i] = lastGiven[board[i].id]
  /\ \A n \in DOMAIN statuses :
       (\A m \in n + 1 .. Len(statuses) : statuses[m].id # statuses[n].id) =>
         \E i \in IssueAt(statuses[n].id) : board[i].status = statuses[n].to
  /\ \A a, b \in evidence : a.id = b.id /\ a.run = b.run => a = b
  /\ reading.alone /\ reading.ended =>
       LET all == OfStatus(board, reading.status)
       IN  reading.rows = [i \in DOMAIN all |-> all[i].id]
=============================================================================
