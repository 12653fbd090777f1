--------------------------------- MODULE RawApi ---------------------------------
(***************************************************************************)
(* `langsmith api' (internal/cmd/api: api.go, request.go, fields.go,       *)
(* resolve.go, block_delete.go): one request, put together from flags and  *)
(* sent as it is. A request to the configured host goes through the SDK,   *)
(* with its credentials and retries; one to another host has neither.      *)
(*                                                                         *)
(* A JSON object is a function from the paths of its nodes to what is      *)
(* there: "{}", "[]" or a value; the items of an array are "#1", "#2"...   *)
(***************************************************************************)
EXTENDS Integers, Sequences, SequencesExt, FiniteSetsExt, TLC

CONSTANTS
  ApiInputs,   \* what the command is given: see ApiInput
  SDKRetries   \* how often the SDK tries again

ASSUME ApiAssumption == SDKRetries \in Nat /\ ApiInputs # {}

VARIABLES
  call,     \* the command
  stdin,    \* whether its standard input has been read
  arrived   \* the requests that were sent, and how each was answered

apiVars == <<call, stdin, arrived>>

\* What is not given.
NoWord == ""

\* As a body or an input, the standard input.
Stdin == "-"

\* A field has keys, of which NoWord stands for [], and a value, NoWord for none; a
\* typed one may be "null" or "@-", the standard input.
Field(keys, value, typed) == [keys |-> keys, value |-> value, typed |-> typed]

\* host is that of the endpoint; body and input may be Stdin.
ApiInput(method, host, route, body, input, fields) ==
  [method |-> method, host |-> host, route |-> route, body |-> body, input |-> input, fields |-> fields,
   include |-> FALSE, jq |-> FALSE]

EmptyObject == <<>> :> "{}"

NoCall == [pc |-> "idle", in |-> CHOOSE in \in ApiInputs : TRUE, method |-> NoWord, params |-> EmptyObject, body |-> NoWord, tries |-> 0]

ApiInit == call = NoCall /\ stdin = "unread" /\ arrived = <<>>

-----------------------------------------------------------------------------
\* parseFields: each field in turn; the first that fails ends it. A field walks
\* down from the root to the object at path `at', whose key `sub' it is to set.

Walk(object) == [object |-> object, at |-> <<>>, sub |-> NoWord, array |-> FALSE, fails |-> NoWord]

FieldItem(n) == "#" \o ToString(n)

Items(object, path) ==
  Cardinality({p \in DOMAIN object : Len(p) = Len(path) + 1 /\ IsPrefix(path, p)})

PutNode(walk, path, value) == [walk EXCEPT !.object = (path :> value) @@ @]

AddFieldMap(walk) ==
  LET path == Append(walk.at, walk.sub)
  IN  IF path \notin DOMAIN walk.object THEN [PutNode(walk, path, "{}") EXCEPT !.at = path]
      ELSE IF walk.object[path] = "{}" THEN [walk EXCEPT !.at = path]
      ELSE [walk EXCEPT !.fails = "expected object"]

\* The last object of the array, if the new key is not in it or is an array; asking
\* for the kind of a null there crashes the command.
AddFieldSlice(walk, key) ==
  LET path == Append(walk.at, walk.sub)
      n    == Items(walk.object, path)
      last == Append(path, FieldItem(n))
      old  == Append(last, key)
      next == Append(path, FieldItem(n + 1))
  IN  IF path \notin DOMAIN walk.object
      THEN [PutNode(PutNode(walk, path, "[]"), Append(path, FieldItem(1)), "{}") EXCEPT !.at = Append(path, FieldItem(1))]
      ELSE IF walk.object[path] # "[]" THEN [walk EXCEPT !.fails = "expected array"]
      ELSE IF n > 0 /\ walk.object[last] = "{}" /\ old \in DOMAIN walk.object /\ walk.object[old] = "null"
           THEN [walk EXCEPT !.fails = "crash"]
      ELSE IF n > 0 /\ walk.object[last] = "{}" /\ (old \notin DOMAIN walk.object \/ walk.object[old] = "[]")
           THEN [walk EXCEPT !.at = last]
      ELSE [PutNode(walk, next, "{}") EXCEPT !.at = next]

WalkKey(walk, key) ==
  IF walk.fails # NoWord THEN walk
  ELSE IF key = NoWord THEN [walk EXCEPT !.array = TRUE]
  ELSE IF walk.sub = NoWord THEN [walk EXCEPT !.sub = key]
  ELSE [(IF walk.array THEN AddFieldSlice(walk, key) ELSE AddFieldMap(walk)) EXCEPT !.sub = key, !.array = FALSE]

\* The array is emptied by a field without a value.
SetFieldValue(walk, value) ==
  LET path == Append(walk.at, walk.sub)
      kept == {p \in DOMAIN walk.object : ~IsPrefix(path, p)}
  IN  IF walk.fails # NoWord THEN walk
      ELSE IF walk.array /\ value \in {NoWord, "null"}
           THEN [walk EXCEPT !.object = [p \in kept |-> walk.object[p]] @@ (path :> "[]")]
      ELSE IF walk.array /\ path \in DOMAIN walk.object /\ walk.object[path] # "[]"
           THEN [walk EXCEPT !.fails = "expected array"]
      ELSE IF walk.array
           THEN PutNode(PutNode(walk, path, "[]"), Append(path, FieldItem(Items(walk.object, path) + 1)), value)
      ELSE IF path \in DOMAIN walk.object THEN [walk EXCEPT !.fails = "override"]
      ELSE PutNode(walk, path, value)

\* A raw field has its value as it is, also "null": it is then no null.
ParseField(walk, field) ==
  IF walk.fails # NoWord THEN walk
  ELSE IF field.keys = <<>> \/ field.keys[1] = NoWord \/ (field.value = NoWord /\ Last(field.keys) # NoWord)
  THEN [walk EXCEPT !.fails = "invalid field"]
  ELSE LET value == IF field.value = "null" /\ ~field.typed THEN "text null" ELSE field.value
       IN  SetFieldValue(FoldLeft(WalkKey, Walk(walk.object), field.keys), value)

\* Raw fields come before typed ones, whatever their order on the command line.
ParseFields(fields) ==
  FoldLeft(ParseField, Walk(EmptyObject),
           SelectSeq(fields, LAMBDA f : ~f.typed) \o SelectSeq(fields, LAMBDA f : f.typed))

ReadsStdin(fields) == \E k \in DOMAIN fields : fields[k].typed /\ fields[k].value = "@-"

-----------------------------------------------------------------------------
\* The request.

\* Without a method, something to send makes it POST.
MethodOf(in) ==
  IF in.method # NoWord THEN in.method
  ELSE IF in.fields # <<>> \/ in.input # NoWord \/ in.body # NoWord THEN "POST" ELSE "GET"

\* Projects are deleted by a command of their own.
BlockRawDelete(in) == MethodOf(in) = "DELETE" /\ in.host = "own" /\ in.route \in {"sessions", "sessions/id"}

BodyRefused(in) ==
  \/ in.input # NoWord /\ in.body # NoWord
  \/ in.input # NoWord /\ in.fields # <<>> /\ MethodOf(in) # "GET"

\* resolveRequestBody: the input or the body, and otherwise the fields, which a GET
\* has in its URL; next to a body, they are not sent. Standard input that a field
\* has read is empty.
BodyOf(in) ==
  LET given == IF in.input # NoWord THEN in.input ELSE in.body
  IN  IF given = Stdin /\ ReadsStdin(in.fields) THEN "empty"
      ELSE IF given # NoWord THEN given
      ELSE IF MethodOf(in) # "GET" /\ in.fields # <<>> THEN "fields"
      ELSE NoWord

StartCall(in) ==
  /\ call.pc = "idle"
  /\ LET parsed == ParseFields(in.fields)
         fails  == parsed.fails # NoWord \/ BlockRawDelete(in) \/ (in.include /\ in.jq) \/ BodyRefused(in)
     IN  /\ call' = [NoCall EXCEPT !.in = in, !.method = MethodOf(in), !.params = parsed.object,
                                   !.body = BodyOf(in), !.pc = IF fails THEN "failed" ELSE "send"]
         /\ stdin' = IF ReadsStdin(in.fields) \/ (~fails /\ Stdin \in {in.body, in.input}) THEN "read" ELSE "unread"
  /\ UNCHANGED arrived

\* What an attempt sends: the body was read once. The mutant reads it again.
AttemptBodyM(run) == IF run.body = Stdin /\ run.tries > 0 THEN "empty" ELSE run.body

AttemptBody(run) == run.body

Sent(run, answer) ==
  [host |-> run.in.host, key |-> run.in.host = "own", method |-> run.method, route |-> run.in.route,
   body |-> AttemptBody(run), params |-> run.params, answer |-> answer]

\* The SDK tries again after 408, 409, 429, 5xx and a connection that breaks.
Retriable(answer) == answer \in {"busy", "lost"}

Arrives(answer, again) ==
  /\ arrived' = Append(arrived, Sent(call, answer))
  /\ call' = [call EXCEPT !.tries = @ + 1, !.pc = IF again THEN "send" ELSE "print"]
  /\ UNCHANGED stdin

Attempt ==
  /\ call.pc = "send" /\ call.in.host = "own"
  /\ \E answer \in {"ok", "refused", "busy", "lost"} : Arrives(answer, Retriable(answer) /\ call.tries < SDKRetries)

\* A client without credentials or retries, for another host.
AttemptElsewhere ==
  /\ call.pc = "send" /\ call.in.host # "own"
  /\ \E answer \in {"ok", "refused", "busy", "lost"} : Arrives(answer, FALSE)

\* The last response that came, if any did, is printed whatever its status; --jq
\* fails where it is no JSON. Any status from 400 on is the command's failure.
PrintResponse ==
  /\ call.pc = "print"
  /\ LET answers  == {i \in DOMAIN arrived : arrived[i].answer # "lost"}
         response == IF answers = {} THEN "lost" ELSE arrived[Max(answers)].answer
     IN  \E json \in BOOLEAN :
           call' = [call EXCEPT !.pc = IF response = "ok" /\ (call.in.jq => json) THEN "done" ELSE "failed"]
  /\ UNCHANGED <<stdin, arrived>>

ApiNext == (\E in \in ApiInputs : StartCall(in)) \/ Attempt \/ AttemptElsewhere \/ PrintResponse

ApiSpec == ApiInit /\ [][ApiNext]_apiVars

-----------------------------------------------------------------------------
\* Properties.

\* The state keeps its shape: every node of an object but the root has a parent.
ApiTypeOK ==
  /\ call.pc \in {"idle", "send", "print", "done", "failed"} /\ stdin \in {"unread", "read"}
  /\ call.tries = Len(arrived) /\ call.tries <= SDKRetries + 1
  /\ \A p \in DOMAIN call.params : p # <<>> => Front(p) \in DOMAIN call.params /\ call.params[Front(p)] \in {"{}", "[]"}

\* However often the SDK tries, every attempt sends the same request: what was
\* given, with what came from the standard input and cannot be read again, to the
\* host that was named. Only the configured host is sent a key or asked twice, no
\* project is deleted this way, and a command that succeeds had its last request
\* answered.
AttemptsAreOne ==
  /\ \A i, j \in DOMAIN arrived : arrived[i].body = arrived[j].body
  /\ \A i \in DOMAIN arrived :
       /\ arrived[i].host = call.in.host /\ (arrived[i].key \/ i > 1 => arrived[i].host = "own")
       /\ Stdin \in {call.in.input, call.in.body} /\ ~ReadsStdin(call.in.fields) => arrived[i].body = Stdin
       /\ ~(arrived[i].key /\ arrived[i].method = "DELETE" /\ arrived[i].route \in {"sessions", "sessions/id"})
  /\ call.pc = "done" => Last(arrived).answer = "ok"

\* A field with a value is in the object, unless a later one empties its array.
FieldsAreSent ==
  call.pc \in {"send", "print", "done"} =>
    \A f \in ToSet(call.in.fields) : f.value \notin {NoWord, "null"} =>
      \/ \E p \in DOMAIN call.params : call.params[p] = f.value /\ ToSet(f.keys) \ {NoWord} \subseteq ToSet(p)
      \/ \E g \in ToSet(call.in.fields) : g.value \in {NoWord, "null"} /\ Last(g.keys) = NoWord /\ g.keys[1] = f.keys[1]

\* The request that is sent, as often as it is, is the one that was asked for.
RequestsAreAsGiven == AttemptsAreOne /\ FieldsAreSent
=============================================================================
