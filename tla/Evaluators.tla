------------------------------ MODULE Evaluators ------------------------------
(***************************************************************************)
(* Evaluators and the rules that attach them to projects and datasets:     *)
(* internal/cmd/evaluator.go, evaluator_llm.go and evaluator_rule.go.      *)
(*                                                                         *)
(* A rule has a name of its own, which does not follow the name of its     *)
(* evaluator, and settings. `upload' and `create-llm' list the rules of a  *)
(* target, ask, and then change or add one: what they send was read        *)
(* before the question. Meanwhile others edit the rules in the UI.         *)
(***************************************************************************)
EXTENDS Integers, FiniteSets

CONSTANTS
  Uploads,       \* runs of the commands
  EvalInputs,    \* what they are given: see EvalInput
  MaxRules,      \* bound on the rules and the evaluators created
  MaxRuleEdits   \* bound on what others do


VARIABLES
  rules,       \* the rules, numbered as created, or NoRule
  evaluators,  \* the evaluators, with the number of the rule they came with
  uploads,     \* each run
  made,        \* how many rules were created: no number is used again
  ruleEdits    \* how many edits others made

evalVars == <<rules, evaluators, uploads, made, ruleEdits>>

EvalNames == {"m", "n"}
Targets   == {"project", "dataset"}
NoText    == ""

\* A flag is "unset", "off" (empty) or "new"; what the code is its name tells.
EvalInput ==
  [cmd : {"upload", "create-llm", "delete rule", "delete evaluator"}, name : EvalNames, target : Targets, code : EvalNames,
   replace : BOOLEAN, yes : BOOLEAN, rate : {"unset", "off", "new"}, traceFilter : {"unset", "off", "new"},
   byId : BOOLEAN, deleteRules : BOOLEAN]

ASSUME RulesAssumption == MaxRules \in Nat /\ MaxRuleEdits \in Nat /\ EvalInputs \subseteq EvalInput

\* What a PATCH replaces: "off" is what the server makes of one that is left out.
\* Of the filters, the queue and the dataset of a rule one stands for all.
RuleSettings == {"sampling_rate", "trace_filter", "filter", "is_enabled", "webhooks"}

AllOff == [s \in RuleSettings |-> "off"]

NoRule      == [name |-> NoText, target |-> NoText, evaluator |-> 0, alerts |-> FALSE, set |-> AllOff]
NoEvaluator == [name |-> NoText, code |-> NoText]

RuleIds == 1 .. MaxRules

EvalIdle == [pc |-> "start", name |-> NoText, target |-> NoText, code |-> NoText, payload |-> AllOff, rule |-> 0,
            found |-> NoRule, passed |-> {}]

EvalInit ==
  /\ rules = [id \in RuleIds |-> NoRule]
  /\ evaluators = [id \in RuleIds |-> NoEvaluator]
  /\ uploads = [r \in Uploads |-> EvalIdle]
  /\ made = 0
  /\ ruleEdits = 0

-----------------------------------------------------------------------------
\* Which rules a name means.

Rules == {id \in RuleIds : rules[id] # NoRule}

IsEvaluatorRule(id) == rules[id].evaluator # 0

EvaluatorName(id) == IF IsEvaluatorRule(id) THEN evaluators[rules[id].evaluator].name ELSE NoText

\* findRuleForReplace: the name of the rule, or that of its evaluator.
RulesForReplace(name, target) ==
  {id \in Rules : IsEvaluatorRule(id) /\ rules[id].target = target /\ name \in {rules[id].name, EvaluatorName(id)}}

\* findRuleByName: the name of the rule only.
RulesByName(name, target) ==
  {id \in Rules : IsEvaluatorRule(id) /\ rules[id].target = target /\ rules[id].name = name}

-----------------------------------------------------------------------------
\* What upload and create-llm send.

\* The settings of a rule that is new.
NewRuleSettings(in) ==
  [AllOff EXCEPT !.sampling_rate = IF in.rate = "unset" THEN "off" ELSE in.rate,
                 !.trace_filter = IF in.traceFilter = "unset" THEN "off" ELSE in.traceFilter,
                 !.is_enabled = "on"]

PassedFlags(in) ==
  {s \in {"sampling_rate", "trace_filter"} : (IF s = "sampling_rate" THEN in.rate ELSE in.traceFilter) # "unset"}

\* keepRuleSettings. The mutant forgets the filter of the tree, the queue or
\* the dataset.
KeepRuleSettingsM(in, rule) ==
  [s \in RuleSettings |->
     IF s \in PassedFlags(in) THEN NewRuleSettings(in)[s] ELSE IF s = "filter" THEN "off" ELSE rule.set[s]]

KeepRuleSettings(in, rule) ==
  [s \in RuleSettings |-> IF s \in PassedFlags(in) THEN NewRuleSettings(in)[s] ELSE rule.set[s]]

EndUpload(r, outcome) == uploads' = [uploads EXCEPT ![r] = [EvalIdle EXCEPT !.pc = outcome]]

\* A file, a target or a flag that is refused, a request that fails (a rule or
\* an evaluator that is gone by now), or an answer of no: nothing is changed.
UploadFails(r) ==
  /\ uploads[r].pc \notin {"done", "failed"}
  /\ EndUpload(r, "failed")
  /\ UNCHANGED <<rules, evaluators, made, ruleEdits>>

\* findRuleToReplace. Two rules that match are an error, and so is one that
\* matches without --replace, or that has alerts, which a PATCH would drop.
FindRule(r, in) ==
  /\ uploads[r].pc = "start"
  /\ LET found == RulesForReplace(in.name, in.target)
         run   == [EvalIdle EXCEPT !.name = in.name, !.target = in.target, !.code = in.code, !.passed = PassedFlags(in)]
     IN  \/ /\ found = {}
            /\ uploads' = [uploads EXCEPT ![r] = [run EXCEPT !.pc = "send", !.payload = NewRuleSettings(in)]]
         \/ /\ in.replace
            /\ \E id \in found :
                 /\ found = {id} /\ ~rules[id].alerts
                 /\ uploads' = [uploads EXCEPT ![r] =
                      [run EXCEPT !.pc = IF in.yes THEN "send" ELSE "confirm", !.rule = id,
                                  !.found = rules[id], !.payload = KeepRuleSettings(in, rules[id])]]
  /\ UNCHANGED <<rules, evaluators, made, ruleEdits>>

\* `upload' takes a function out of a file for the code, `create-llm' a prompt and
\* a schema, or a reference to the hub, and a model. Both are prepared before the
\* rules are looked at.
UploadEvaluator(r, in) == in.cmd = "upload" /\ FindRule(r, in)

CreateLLM(r, in) == in.cmd = "create-llm" /\ FindRule(r, in)

Confirmed(r) ==
  /\ uploads[r].pc = "confirm"
  /\ uploads' = [uploads EXCEPT ![r].pc = "send"]
  /\ UNCHANGED <<rules, evaluators, made, ruleEdits>>

\* POST /runs/rules: a rule and an evaluator of that name. Its answer may be lost.
PostRule(r) ==
  /\ uploads[r].pc = "send" /\ uploads[r].rule = 0 /\ made < MaxRules
  /\ made' = made + 1
  /\ rules' = [rules EXCEPT ![made'] = [NoRule EXCEPT !.name = uploads[r].name, !.target = uploads[r].target,
                                                      !.evaluator = made', !.set = uploads[r].payload]]
  /\ evaluators' = [evaluators EXCEPT ![made'] = [name |-> uploads[r].name, code |-> uploads[r].code]]
  /\ \E outcome \in {"done", "failed"} : EndUpload(r, outcome)
  /\ UNCHANGED ruleEdits

\* PATCH /runs/rules/{id}: the rule is replaced by what is sent, its name too;
\* the evaluator has the new code wherever it is attached.
PatchRule(r) ==
  /\ uploads[r].pc = "send" /\ uploads[r].rule \in Rules
  /\ LET id == uploads[r].rule
     IN  /\ rules' = [rules EXCEPT ![id] = [@ EXCEPT !.name = uploads[r].found.name, !.set = uploads[r].payload,
                                                     !.alerts = FALSE]]
         /\ evaluators' = [evaluators EXCEPT ![rules[id].evaluator].code = uploads[r].code]
  /\ \E outcome \in {"done", "failed"} : EndUpload(r, outcome)
  /\ UNCHANGED <<made, ruleEdits>>

-----------------------------------------------------------------------------
\* Deletions: what is looked up is shown, and what is shown goes by its ID.

\* `rule delete' of an ID, or of a name that one rule has.
FindRuleToDelete(r, in) ==
  /\ uploads[r].pc = "start" /\ in.cmd = "delete rule"
  /\ \E id \in Rules :
       /\ IsEvaluatorRule(id)
       /\ in.byId \/ RulesByName(in.name, in.target) = {id}
       /\ uploads' = [uploads EXCEPT ![r] = [EvalIdle EXCEPT !.pc = "delete rule", !.rule = id, !.found = rules[id]]]
  /\ UNCHANGED <<rules, evaluators, made, ruleEdits>>

DeleteRule(r) ==
  /\ uploads[r].pc = "delete rule" /\ uploads[r].rule \in Rules
  /\ rules' = [rules EXCEPT ![uploads[r].rule] = NoRule]
  /\ EndUpload(r, "done")
  /\ UNCHANGED <<evaluators, made, ruleEdits>>

AttachedTo(e) == {id \in Rules : rules[id].evaluator = e}

\* `evaluator delete' of an ID: one that is attached only with --delete-rules.
FindEvaluatorToDelete(r, in) ==
  /\ uploads[r].pc = "start" /\ in.cmd = "delete evaluator"
  /\ \E e \in RuleIds :
       /\ evaluators[e] # NoEvaluator /\ (AttachedTo(e) = {} \/ in.deleteRules)
       /\ uploads' = [uploads EXCEPT ![r] = [EvalIdle EXCEPT !.pc = "delete evaluator", !.rule = e,
                                              !.passed = IF in.deleteRules THEN {"delete rules"} ELSE {}]]
  /\ UNCHANGED <<rules, evaluators, made, ruleEdits>>

\* The server refuses one that is attached by now, unless the rules may go.
DeleteEvaluator(r) ==
  /\ uploads[r].pc = "delete evaluator"
  /\ LET e == uploads[r].rule
     IN  /\ evaluators[e] # NoEvaluator
         /\ AttachedTo(e) = {} \/ "delete rules" \in uploads[r].passed
         /\ rules' = [id \in RuleIds |-> IF id \in AttachedTo(e) THEN NoRule ELSE rules[id]]
         /\ evaluators' = [evaluators EXCEPT ![e] = NoEvaluator]
  /\ EndUpload(r, "done")
  /\ UNCHANGED <<made, ruleEdits>>

-----------------------------------------------------------------------------
\* Others, in the UI: they rename an evaluator, change a rule, or attach an
\* evaluator to another target.

EditInUI ==
  /\ ruleEdits < MaxRuleEdits
  /\ ruleEdits' = ruleEdits + 1
  /\ \/ /\ \E e \in RuleIds, name \in EvalNames :
             /\ evaluators[e] # NoEvaluator
             /\ evaluators' = [evaluators EXCEPT ![e].name = name]
        /\ UNCHANGED <<rules, made>>
     \/ /\ \E id \in Rules, s \in {"sampling_rate", "filter", "webhooks"} :
             rules' = [rules EXCEPT ![id].set[s] = "own"]
        /\ UNCHANGED <<evaluators, made>>
     \/ /\ \E id \in Rules : rules' = [rules EXCEPT ![id].alerts = TRUE]
        /\ UNCHANGED <<evaluators, made>>
     \/ /\ made < MaxRules
        /\ made' = made + 1
        /\ \E e \in RuleIds, target \in Targets :
             /\ evaluators[e] # NoEvaluator
             /\ rules' = [rules EXCEPT ![made'] = [NoRule EXCEPT !.name = evaluators[e].name, !.target = target,
                                                                 !.evaluator = e]]
        /\ UNCHANGED evaluators
  /\ UNCHANGED uploads

EvalNext ==
  \/ \E r \in Uploads, in \in EvalInputs :
       \/ UploadEvaluator(r, in) \/ CreateLLM(r, in) \/ FindRuleToDelete(r, in) \/ FindEvaluatorToDelete(r, in)
  \/ \E r \in Uploads : UploadFails(r) \/ Confirmed(r) \/ PostRule(r) \/ PatchRule(r) \/ DeleteRule(r) \/ DeleteEvaluator(r)
  \/ EditInUI

EvalSpec == EvalInit /\ [][EvalNext]_evalVars

-----------------------------------------------------------------------------
\* Properties.

EvalTypeOK ==
  /\ DOMAIN rules = RuleIds /\ \A id \in Rules : rules[id].target \in Targets /\ rules[id].name \in EvalNames
  /\ \A id \in Rules : IsEvaluatorRule(id) => evaluators[rules[id].evaluator] # NoEvaluator
  /\ made \in 0 .. MaxRules /\ ruleEdits \in 0 .. MaxRuleEdits

(***************************************************************************)
(* `upload --replace' and `create-llm --replace' of a rule that nobody     *)
(* edited since it was read, before the question, change the evaluator and *)
(* the settings passed as flags and keep the rule's name, its alerts and   *)
(* every other setting, though the server clears what it is not sent.      *)
(***************************************************************************)
ReplaceKeepsSettings ==
  [][\A r \in Uploads :
       LET id == uploads[r].rule
       IN  PatchRule(r) /\ rules[id] = uploads[r].found =>
             /\ rules'[id].name = rules[id].name /\ rules'[id].alerts = rules[id].alerts
             /\ \A s \in RuleSettings \ uploads[r].passed : rules'[id].set[s] = rules[id].set[s]]_evalVars
=============================================================================
