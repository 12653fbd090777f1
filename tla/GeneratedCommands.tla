-------------------------- MODULE GeneratedCommands --------------------------
(***************************************************************************)
(* The commands of the generated tree: internal/cmd/generated.go,          *)
(* generated_project.go and generated_jq.go. First its resources are       *)
(* mounted among the hand-written commands. Then the arguments of one      *)
(* invocation are read twice: by the CLI, which knows a few flags, takes   *)
(* out its own and asks before it deletes, and by the generated tree,         *)
(* which knows all flags of its operations and runs one of them.           *)
(***************************************************************************)
EXTENDS Integers, Sequences, SequencesExt, FiniteSets, FiniteSetsExt

CONSTANTS
  Trees,       \* hand-written commands with resources to mount: see Tree
  Resource,    \* the resource that is invoked, its path
  Operations,  \* its operations, a function: see GenOperation
  RootValues,  \* flags of the generated root that take a value
  RootBools,   \* and those that take none
  Plain,       \* arguments that are no flags
  ProjectIds,  \* the IDs of the server's projects, a function of their names
  GenInputs    \* what an invocation is given: see GenInput

VARIABLES
  catalog,    \* what is mounted
  nodes,      \* the commands
  unmounted,  \* resources still to mount
  gen         \* the invocation

genVars == <<catalog, nodes, unmounted, gen>>

\* An argument: a word, or a flag, with the value joined to it or "".
Arg(name, value) == [name |-> name, value |-> value]

Dashes == Arg("--", "")

Dashed(arg) == arg.name \notin Plain

Alone(arg) == arg.value = ""

\* What an operation does and takes: does it delete, or page through a list; its
\* flags with a value; those of them that are parameters of the path, in order; the
\* one for a project, "" for none, and whether it needs one; and old flag names.
GenOperation(deletes, pages, values, paths, project, needed, renames) ==
  [deletes |-> deletes, pages |-> pages, values |-> values, paths |-> paths, project |-> project,
   needed |-> needed, renames |-> renames]

\* Flags of the CLI's own: the global ones, and those of a project.
GlobalFlags == {"--api-key", "--api-url", "--base-url", "--profile", "--workspace", "--workspace-id", "--tenant-id"}

ProjectFlags == {"--project", "--project-id"}

\* Commands: the names from the root, other names for the last of them, and
\* whose it is: ByHand, a group's, or that of the resource with this path.
ByHand == <<"hand">>

AGroup == <<"group">>

Node(path, aliases, by) == [path |-> path, aliases |-> aliases, by |-> by]

\* A resource has a path of names, and operations with their aliases.
Tree(hand, resources) == [hand |-> hand, resources |-> resources]

\* $LANGSMITH_PROJECT, and whether stdin may hold a request.
GenInput(args, env, piped) == [args |-> args, env |-> env, piped |-> piped]

\* Operations are named by words, and flags are none; a word is joined to nothing.
\* A flag is not renamed to one that the CLI reads itself.
ASSUME ArgsAssumption ==
  /\ DOMAIN Operations \subseteq Plain
  /\ Plain \cap (RootValues \cup GlobalFlags \cup ProjectFlags \cup {"--", "--jq", "--format", "--raw-output"}) = {}
  /\ RootValues \cap ({"--"} \cup ProjectFlags) = {}
  /\ \A op \in DOMAIN Operations :
       /\ Operations[op].project \notin Plain
       /\ \A old \in DOMAIN Operations[op].renames : Operations[op].renames[old] \notin Plain \cup {"--yes", "--help", "-h"}
  /\ \A in \in GenInputs : /\ in.args \in Seq([name : STRING, value : STRING])
                           /\ \A i \in DOMAIN in.args : ~Dashed(in.args[i]) => Alone(in.args[i])

NotInvoked ==
  [at |-> "start", in |-> GenInput(<<>>, "", FALSE), rest |-> <<>>, jq |-> "", help |-> FALSE, confirmed |-> FALSE,
   out |-> <<>>, filtered |-> <<>>]

GenInit ==
  /\ catalog \in Trees
  /\ nodes = catalog.hand
  /\ unmounted = catalog.resources
  /\ gen = NotInvoked

-----------------------------------------------------------------------------
\* Mounting.

\* subcommand.
Subcommand(all, parent, name) ==
  {node \in all : /\ Len(node.path) = Len(parent) + 1 /\ IsPrefix(parent, node.path)
                  /\ Last(node.path) = name \/ name \in node.aliases}

Generated(node) == node.by \notin {ByHand, AGroup}

\* mountPoint, from where a descent has come; below a generated command it panics.
MountPoint(descent, name) ==
  LET found == Subcommand(descent.nodes, descent.at, name)
      path  == Append(descent.at, name)
  IN  IF descent.clash THEN descent
      ELSE IF found = {} THEN [descent EXCEPT !.nodes = @ \cup {Node(path, {}, AGroup)}, !.at = path]
      ELSE LET node == CHOOSE n \in found : TRUE
           IN  [descent EXCEPT !.at = node.path, !.clash = Generated(node)]

\* One operation of a resource in its group; hand-written commands win.
MountOperation(descent, op, by) ==
  LET found == Subcommand(descent.nodes, descent.at, op.name)
  IN  IF descent.clash THEN descent
      ELSE IF found = {} THEN [descent EXCEPT !.nodes = @ \cup {Node(Append(descent.at, op.name), op.aliases, by)}]
      ELSE [descent EXCEPT !.clash = \E node \in found : Generated(node)]

\* Two operations whose SDK names read badly.
OperationCommandName(path, op) ==
  CASE path = <<"queues">> /\ op.name = "queues"          -> [op EXCEPT !.name = "create"]
    [] path = <<"queues">> /\ op.name = "retrieve-queues" -> [op EXCEPT !.name = "list"]
    [] OTHER -> op

\* A resource without others below it becomes one command if its name is free,
\* and otherwise a group of its operations.
IsParent(path) == \E r \in catalog.resources : r.path # path /\ IsPrefix(path, r.path)

MountGenerated(r) ==
  LET above == FoldLeft(MountPoint, [nodes |-> nodes, at |-> <<>>, clash |-> FALSE], Front(r.path))
      below == MountPoint(above, Last(r.path))
  IN  IF ~above.clash /\ Subcommand(above.nodes, above.at, Last(r.path)) = {} /\ ~IsParent(r.path)
      THEN [above EXCEPT !.nodes = @ \cup {Node(Append(above.at, Last(r.path)), {}, r.path)}]
      ELSE FoldLeft(LAMBDA descent, op : MountOperation(descent, OperationCommandName(r.path, op), r.path), below, r.ops)

\* Resources come in any order. A panic ends the program.
MountResource ==
  /\ gen.at = "start"
  /\ \E r \in unmounted :
       /\ nodes' = MountGenerated(r).nodes
       /\ unmounted' = unmounted \ {r}
       /\ gen' = IF MountGenerated(r).clash THEN [gen EXCEPT !.at = "panic"] ELSE gen
  /\ UNCHANGED catalog

-----------------------------------------------------------------------------
\* Reading arguments.

\* What each argument is to a reader who knows that these flags take a value:
\* "flag" for one of them, "value" for the argument that follows one without a
\* joined value, "rest" for any other, and "end" for all from "--" on.
Roles(args, flags) ==
  LET role[i \in 0 .. Len(args)] ==
        IF i = 0 THEN "rest"
        ELSE IF role[i - 1] = "end" THEN "end"
        ELSE IF role[i - 1] = "flag" /\ Alone(args[i - 1]) THEN "value"
        ELSE IF args[i] = Dashes THEN "end"
        ELSE IF args[i].name \in flags THEN "flag" ELSE "rest"
  IN  role

\* A flag with neither a joined value nor an argument after it.
Dangling(args, flags) == args # <<>> /\ Roles(args, flags)[Len(args)] = "flag" /\ Alone(Last(args))

Those(args, indices) ==
  LET kept[n \in 0 .. Len(args)] ==
        IF n = 0 THEN <<>> ELSE IF n \in indices THEN Append(kept[n - 1], args[n]) ELSE kept[n - 1]
  IN  kept[Len(args)]

\* extractValueFlag and translateGlobalFlags: what is left without these flags, and
\* the last of their values.
Without(args, flags) == Those(args, {i \in DOMAIN args : Roles(args, flags)[i] \in {"rest", "end"}})

LastValue(args, flags) ==
  LET of == {i \in DOMAIN args : Roles(args, flags)[i] = "flag"}
  IN  IF of = {} THEN "" ELSE IF args[Max(of)].value # "" THEN args[Max(of)].value ELSE args[Max(of) + 1].name

Words(args, flags) == {i \in DOMAIN args : Roles(args, flags)[i] = "rest" /\ ~Dashed(args[i])}

\* firstPositional and operationName.
FirstPositional(args, flags) == IF Words(args, flags) = {} THEN "" ELSE args[Min(Words(args, flags))].name

OperationName(args, flags) == IF FirstPositional(args, flags) \in DOMAIN Operations THEN FirstPositional(args, flags) ELSE ""

CountPositional(args, flags) ==
  Cardinality(Words(args, flags)) + Max({0} \cup {Cardinality({i \in DOMAIN args : Roles(args, flags)[i] = "end"}) - 1})

\* These three look at every argument.
HasValueFlag(args, flag) == \E i \in DOMAIN args : args[i].name = flag

HasHelpFlag(args) == \E i \in DOMAIN args : args[i] \in {Arg("--help", ""), Arg("-h", "")}

YesFlags == {Arg("--yes", ""), Arg("--yes", "true")}

\* extractFlag, for --yes.
WithoutYes(args) == Those(args, {i \in DOMAIN args : args[i] \notin YesFlags})

\* An operation that cannot be told counts as every one that is named.
IsDeleteInvocationM(args) ==
  LET op == OperationName(args, RootValues) IN op # "" /\ Operations[op].deletes

IsDeleteInvocation(args) ==
  LET op == OperationName(args, RootValues)
  IN  IF op # "" THEN Operations[op].deletes
      ELSE \E i \in DOMAIN args : Alone(args[i]) /\ args[i].name \in DOMAIN Operations /\ Operations[args[i].name].deletes

IsHelpInvocation(args) == HasHelpFlag(args) \/ FirstPositional(args, RootValues) \in {"", "help"}

-----------------------------------------------------------------------------
\* The generated tree: it looks for an operation among its own flags, then reads
\* the rest as that operation's; it refuses flags it does not know, a flag without
\* its value, and more words than parameters are left. After "--" all is words, of
\* which the first may still name the operation.

NotFlags(args, flags) ==
  LET afterEnd == {i \in DOMAIN args : Roles(args, flags)[i] = "end"}
  IN  Those(args, Words(args, flags) \cup (afterEnd \ {Min(afterEnd \cup {Len(args) + 1})}))

Understands(args, flags) ==
  /\ ~Dangling(args, flags)
  /\ \A i \in DOMAIN args : Roles(args, flags)[i] = "rest" /\ Dashed(args[i]) => args[i].name \in RootBools

OperationAt(args) ==
  LET inOrder == Words(args, RootValues)
      afterEnd == {i \in DOMAIN args : Roles(args, RootValues)[i] = "end"}
  IN  IF inOrder # {} THEN Min(inOrder) ELSE IF Cardinality(afterEnd) > 1 THEN Min(afterEnd) + 1 ELSE 0

OperationArgs(args) == SubSeq(args, OperationAt(args) + 1, Len(args))

ParameterFlag(op, args, flag) ==
  LET roles == Roles(args, RootValues \cup Operations[op].values)
      of    == {i \in DOMAIN args : roles[i] = "flag" /\ args[i].name = flag}
  IN  IF of = {} THEN "" ELSE IF args[Max(of)].value # "" THEN args[Max(of)].value ELSE args[Max(of) + 1].name

\* Words go to the parameters of the path that no flag has set, in order.
Parameter(op, args, flag) ==
  LET words == NotFlags(args, RootValues \cup Operations[op].values)
      unset == SelectSeq(Operations[op].paths, LAMBDA p : ParameterFlag(op, args, p) = "")
      place == {n \in DOMAIN unset : unset[n] = flag /\ n <= Len(words)}
  IN  IF ParameterFlag(op, args, flag) # "" \/ place = {} THEN ParameterFlag(op, args, flag) ELSE words[Max(place)].name

\* The operation the tree runs, or "".
TreeRuns(args) ==
  LET at == OperationAt(args)
      op == IF at = 0 THEN "" ELSE args[at].name
      of == OperationArgs(args)
  IN  IF /\ op \in DOMAIN Operations
         /\ Understands(SubSeq(args, 1, at - 1), RootValues)
         /\ Understands(of, RootValues \cup Operations[op].values)
         /\ Len(NotFlags(of, RootValues \cup Operations[op].values))
              <= Len(SelectSeq(Operations[op].paths, LAMBDA p : ParameterFlag(op, of, p) = ""))
      THEN op ELSE ""

-----------------------------------------------------------------------------
\* An invocation.

\* renameGeneratedFlags, up to the first "--".
RenamedFlags(args) ==
  LET op    == OperationName(args, RootValues)
      until == Min({i \in DOMAIN args : args[i] = Dashes} \cup {Len(args) + 1})
  IN  IF op = "" THEN args
      ELSE [i \in DOMAIN args |->
             IF i < until /\ args[i].name \in DOMAIN Operations[op].renames
             THEN Arg(Operations[op].renames[args[i].name], args[i].value) ELSE args[i]]

\* The arguments in which the CLI looks for an operation.
Asked(args) == Without(RenamedFlags(Without(args, GlobalFlags)), {"--jq"})

\* All resources are mounted, also the one to be invoked.
IsMounted == gen.at = "start" /\ unmounted = {} /\ \E node \in nodes : node.by = Resource

\* forwardGenerated.
ForwardGenerated(in) ==
  /\ ~Dangling(in.args, GlobalFlags)
  /\ LET named == RenamedFlags(Without(in.args, GlobalFlags))
         rest  == Asked(in.args)
         asks  == IsDeleteInvocation(rest)
         left  == IF asks THEN WithoutYes(rest) ELSE rest
     IN  /\ ~Dangling(named, {"--jq"})
         /\ gen' = [gen EXCEPT !.in = in, !.rest = left, !.jq = LastValue(named, {"--jq"}),
                               !.at = IF asks /\ left = rest /\ ~HasHelpFlag(left) THEN "confirm" ELSE "resolve"]
  /\ UNCHANGED <<catalog, nodes, unmounted>>

\* A yes to confirmDelete; anything else ends the command.
ConfirmGenerated ==
  /\ gen.at = "confirm"
  /\ gen' = [gen EXCEPT !.at = "resolve", !.confirmed = TRUE]
  /\ UNCHANGED <<catalog, nodes, unmounted>>

\* An argument that is no flag and no value, an unknown expression, credentials
\* that are missing, a project that is not found, an error of the tree.
GenFails ==
  /\ IsMounted \/ gen.at \in {"confirm", "resolve", "run", "filter"}
  /\ gen' = [NotInvoked EXCEPT !.at = "failed"]
  /\ UNCHANGED <<catalog, nodes, unmounted>>

\* A word may be the project, after those that go to parameters before it.
PositionalFillsFlag(op, args, flags) ==
  LET paths  == Operations[op].paths
      before == {n \in DOMAIN paths : /\ \E m \in DOMAIN paths : n < m /\ paths[m] = Operations[op].project
                                      /\ ~HasValueFlag(args, paths[n])}
  IN  /\ Operations[op].project \in Range(paths)
      /\ CountPositional(args, flags \cup Operations[op].values) > Cardinality(before) + 1

\* resolveGeneratedProject for an operation with a flag for the project: what is
\* left of the arguments, or nothing after an error.
WithProject(op, args, in) ==
  LET target  == Operations[op].project
      taken   == IF target = "--session-id" THEN {"--project-id"} ELSE {}
      rest    == Without(Without(args, {"--project"}), taken)
      project == LastValue(args, {"--project"})
      id      == LastValue(Without(args, {"--project"}), taken)
      given   == HasValueFlag(rest, target)
      default == /\ ~given /\ Operations[op].needed /\ ~in.piped
                 /\ ~PositionalFillsFlag(op, rest, RootValues \cup ProjectFlags)
      found   == IF project # "" THEN project ELSE IF default THEN in.env ELSE ""
      fails   == \/ Dangling(args, {"--project"}) \/ Dangling(Without(args, {"--project"}), taken)
                 \/ project # "" /\ id # ""
                 \/ (project # "" \/ id # "") /\ given
                 \/ id # "" /\ id \notin Range(ProjectIds)
                 \/ id = "" /\ found # "" /\ found \notin DOMAIN ProjectIds
  IN  IF fails THEN {}
      ELSE IF id # "" THEN {Append(rest, Arg(target, id))}
      ELSE IF found # "" THEN {Append(rest, Arg(target, ProjectIds[found]))}
      ELSE {rest}

ResolveGeneratedProject(args, in) ==
  LET op == OperationName(args, RootValues \cup ProjectFlags)
  IN  IF op = "" \/ Operations[op].project = "" THEN {args} ELSE WithProject(op, args, in)

\* The flags go before any "--", after the user's own.
WithJQOutputFlags(args) ==
  LET until == Min({i \in DOMAIN args : args[i] = Dashes} \cup {Len(args) + 1})
  IN  InsertAt(InsertAt(args, until, Arg("--raw-output", "false")), until, Arg("--format", "jsonl"))

\* What runGenerated does before it runs the tree; help needs no credentials.
ResolveGenerated ==
  /\ gen.at = "resolve"
  /\ LET help == IsHelpInvocation(gen.rest) IN
     \E rest \in IF help THEN {gen.rest} ELSE ResolveGeneratedProject(gen.rest, gen.in) :
       gen' = [gen EXCEPT !.at = "run", !.help = help, !.jq = IF help THEN "" ELSE @,
                          !.rest = IF help \/ gen.jq = "" THEN rest ELSE WithJQOutputFlags(rest)]
  /\ UNCHANGED <<catalog, nodes, unmounted>>

\* isGeneratedListOperation.
IsGeneratedListOperation(args) ==
  LET op == OperationName(args, RootValues) IN op # "" /\ Operations[op].pages

\* What the tree prints: the items of a list or one answer, each on a line in the
\* format jsonl, and otherwise in a form that is no JSON.
RunGenerated ==
  /\ gen.at = "run" /\ TreeRuns(gen.rest) # ""
  /\ LET op == TreeRuns(gen.rest)
         lines == IF Operations[op].pages THEN {<<>>, <<"a">>, <<"b", "a">>} ELSE {<<"a">>}
     IN  \E out \in IF gen.jq = "" \/ ParameterFlag(op, gen.rest, "--format") = "jsonl" THEN lines ELSE {<<"text">>} :
           gen' = [gen EXCEPT !.at = IF gen.jq = "" THEN "done" ELSE "filter", !.out = out]
  /\ UNCHANGED <<catalog, nodes, unmounted>>

\* jqModel: an array of all lines, or the one there is.
FilterGenerated ==
  /\ gen.at = "filter" /\ gen.out # <<"text">>
  /\ LET list == IsGeneratedListOperation(gen.rest)
     IN  gen' = [gen EXCEPT !.at = "done",
                            !.filtered = IF list \/ Len(gen.out) > 1 THEN <<"array", gen.out>>
                                         ELSE IF gen.out = <<>> THEN <<"null">> ELSE <<"value", Head(gen.out)>>]
  /\ UNCHANGED <<catalog, nodes, unmounted>>

GenNext ==
  \/ MountResource
  \/ IsMounted /\ \E in \in GenInputs : ForwardGenerated(in)
  \/ ConfirmGenerated \/ GenFails \/ ResolveGenerated \/ RunGenerated \/ FilterGenerated

GenSpec == GenInit /\ [][GenNext]_genVars

-----------------------------------------------------------------------------
\* Properties.

\* The state keeps its shape: resources are mounted at most once, no two commands
\* share their names, and only what ran was filtered.
GenTypeOK ==
  /\ unmounted \subseteq catalog.resources
  /\ \A m, n \in nodes : m.path = n.path => m = n
  /\ gen.at \in {"start", "panic", "confirm", "resolve", "run", "filter", "done", "failed"}
  /\ gen.filtered # <<>> => gen.jq # "" /\ gen.at = "done"

\* The commands that names lead to, by name or alias.
Reached(all, names) ==
  FoldLeft(LAMBDA at, name : UNION {Subcommand(all, node.path, name) : node \in at}, {Node(<<>>, {}, AGroup)}, names)

CommandPath(r, op) == Append(r.path, OperationCommandName(r.path, op).name)

\* An operation has the name of a resource below its own, and no hand-written
\* command hides it.
Clashing ==
  \E r, s \in catalog.resources : \E n \in DOMAIN r.ops :
    /\ IsPrefix(CommandPath(r, r.ops[n]), s.path)
    /\ Reached(catalog.hand, CommandPath(r, r.ops[n])) = {}

\* In whatever order resources are mounted: every hand-written command is kept and
\* wins, every other operation of every resource can be reached at its path, and
\* the program panics if an operation and a resource clash, only then.
MountIsSound ==
  /\ gen.at = "panic" => Clashing
  /\ unmounted = {} /\ gen.at # "panic" =>
       /\ ~Clashing /\ catalog.hand \subseteq nodes
       /\ \A r \in catalog.resources : \A n \in DOMAIN r.ops :
            LET handWritten == Reached(catalog.hand, CommandPath(r, r.ops[n]))
            IN  IF handWritten # {} THEN Reached(nodes, CommandPath(r, r.ops[n])) = handWritten
                ELSE \E node \in Reached(nodes, r.path) \cup Reached(nodes, CommandPath(r, r.ops[n])) : node.by = r.path

\* The operation that runs, has run or is filtered.
Executed == IF gen.at \in {"run", "filter", "done"} THEN TreeRuns(gen.rest) ELSE ""

\* The CLI looks for the operation before it knows the flags of a project. It is
\* misled by a project that is named like an operation or like a flag, and by a
\* project's flag where the value of another flag should be.
ProjectHidesOperation(args) ==
  LET roles == Roles(args, RootValues \cup ProjectFlags)
  IN  \E i \in DOMAIN args : /\ roles[i] = "value"
                             /\ \/ args[i].name \in ProjectFlags
                                \/ args[i - 1].name \in ProjectFlags /\ (Dashed(args[i]) \/ args[i].name \in DOMAIN Operations)

\* However its arguments are written, no operation that deletes runs unless the
\* user has said yes, before or when asked; but "--help", even as the value of a
\* flag, is taken for a question, and a project may hide the operation.
DeletesAreConfirmed ==
  Executed # "" /\ Operations[Executed].deletes /\ ~HasHelpFlag(gen.in.args) /\ ~ProjectHidesOperation(Asked(gen.in.args)) =>
    gen.confirmed \/ \E i \in DOMAIN gen.in.args : gen.in.args[i] \in YesFlags

\* No "--", and no flag for a value.
Straight(args) ==
  LET flags == GlobalFlags \cup ProjectFlags \cup {"--jq"} \cup RootValues \cup UNION {Operations[op].values : op \in DOMAIN Operations}
  IN  \A i \in DOMAIN args : args[i] # Dashes /\ (Roles(args, flags)[i] = "value" => ~Dashed(args[i]))

\* The project of an operation is the one its flag, --project or --project-id says,
\* else the word that would be its parameter, else, if it needs one that stdin
\* cannot have, that of the environment; the words go to the same other parameters
\* as without that default, and what would run without it still runs.
ProjectIsMeant ==
  LET op      == OperationName(gen.in.args, GlobalFlags \cup RootValues \cup {"--jq"} \cup ProjectFlags)
      flag    == Operations[op].project
      own     == SelectSeq(RenamedFlags(Without(gen.in.args, GlobalFlags \cup {"--jq", "--project"} \cup
                                                            IF flag = "--session-id" THEN {"--project-id"} ELSE {})),
                           LAMBDA arg : arg \notin YesFlags \/ ~Operations[op].deletes)
      asked(f) == Parameter(op, OperationArgs(own), f)
      runs(f)  == Parameter(op, OperationArgs(gen.rest), f)
      project == LastValue(gen.in.args, {"--project"})
      id      == IF flag = "--session-id" THEN LastValue(gen.in.args, {"--project-id"}) ELSE ""
  IN  gen.at = "run" /\ op # "" /\ flag # "" /\ Straight(gen.in.args) =>
        /\ project = "" /\ id = "" => Executed = TreeRuns(own)
        /\ Executed # "" =>
             IF project # "" THEN runs(flag) = ProjectIds[project]
             ELSE IF id # "" THEN runs(flag) = id
             ELSE   /\ runs(flag) = IF asked(flag) # "" THEN asked(flag)
                                    ELSE IF Operations[op].needed /\ ~gen.in.piped /\ gen.in.env # "" THEN ProjectIds[gen.in.env]
                                    ELSE ""
                    /\ \A n \in DOMAIN Operations[op].paths :
                         LET f == Operations[op].paths[n] IN f # flag => runs(f) = asked(f)

\* An expression is applied to an array of all items of a list, even of one or of
\* none, and to the answer itself of any other operation, whatever format was asked for.
FilterSeesWhole ==
  Executed # "" /\ gen.filtered # <<>> /\ Straight(gen.in.args) =>
    gen.filtered = IF Operations[Executed].pages THEN <<"array", gen.out>> ELSE <<"value", "a">>

\* Generated commands are found where they should be, and do what their arguments
\* say, deleting only after a yes.
GeneratedRunsAsTold == MountIsSound /\ DeletesAreConfirmed /\ ProjectIsMeant /\ FilterSeesWhole
=============================================================================
