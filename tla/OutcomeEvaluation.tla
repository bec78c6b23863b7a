-------------------------- MODULE OutcomeEvaluation --------------------------
(***************************************************************************)
(* DeterministicEvaluator over the workspace that the tools work in: the   *)
(* criteria of the goal are checked one after the other, each with calls   *)
(* to the environment, while processes left behind go on changing files.   *)
(***************************************************************************)
EXTENDS ToolInvocation, Subsequences

CONSTANTS
  Goals             \* sets of a goal's criteria: structured ones and lines of prose

VerifiableCriterion == [kind : STRING, path : Seq(STRING), extra : STRING, status : Nat]

(* Of a file's JSON, "array" stands for every value that is not an
   object; only an object has keys. *)
ASSUME GoalsAssumption ==
  /\ \A g \in Goals :
       g.structured \in Seq(VerifiableCriterion) /\ g.prose \in Seq(VerifiableCriterion)
  /\ \A c \in Contents :
       c.json \in {"invalid", "array", "object"} /\ (c.json # "object" => c.keys = {})

VARIABLES
  goal,
  evaluation        \* the evaluation: where it is, the checks made, the verdict

evaluationVars == <<goal, evaluation>>

\* No marker, no key, no tool is named.
NoExtra == ""

\* The names of the properties that an object has by its prototype.
InheritedKeys ==
  {"constructor", "hasOwnProperty", "isPrototypeOf", "propertyIsEnumerable",
   "toLocaleString", "toString", "valueOf", "__proto__"}

Unparsed == [kind |-> "none", path |-> << >>, extra |-> NoExtra, status |-> 0]

(* parseVerifiableCriterion; a path or a command may be missing, and so may a marker. *)
ParseCriterion(line) ==
  CASE line.kind \in {"file_exists", "command_exits_zero"} /\ line.path # << >> -> line
    [] line.kind = "file_contains" /\ line.path # << >> /\ line.extra # NoExtra -> line
    [] line.kind = "json_file" /\ line.path # << >> -> line
    [] line.kind = "http_status" /\ line.status \in 100 .. 599 -> line
    [] line.kind = "tool_succeeded" -> line
    [] OTHER -> Unparsed

(* collectCriteria *)
Criteria ==
  LET parsed == [i \in DOMAIN goal.prose |-> ParseCriterion(goal.prose[i])]
  IN goal.structured \o Subsequence(parsed, {i \in DOMAIN parsed : parsed[i] # Unparsed})

VerdictFromDecisive(passed, total) ==
  CASE total = 0 -> "inconclusive"
    [] total > 0 /\ passed = total -> "success"
    [] total > 0 /\ passed = 0 -> "failure"
    [] OTHER -> "partial"

NoEvaluation == [step |-> "idle", checks |-> << >>, ever |-> << >>, verdict |-> "none"]

EvaluationInit == goal \in Goals /\ evaluation = NoEvaluation

-----------------------------------------------------------------------------
\* A mutant: any JSON value has the keys.
JsonHolds_AnyValue(criterion, content) == content.json # "invalid"

(* JSON.parse, and the keys if some are required: only an object has any, and `in` finds the
   inherited ones too. *)
JsonHolds(criterion, content) ==
  /\ content.json \in {"array", "object"}
  /\ criterion.extra # NoExtra =>
       content.json = "object" /\ criterion.extra \in content.keys \cup InheritedKeys

(* httpStatus and toolSucceeded look at the latest observation, of which a failed call has no
   output. *)
ResultHolds(criterion) ==
  /\ result.status = "ok"
  /\ CASE criterion.kind = "http_status" -> result.http = criterion.status
       [] OTHER -> criterion.extra \in {NoExtra, result.tool}

NextCriterion == Criteria[Len(evaluation.checks) + 1]
CriteriaLeft == Len(evaluation.checks) < Len(Criteria)

(* What held of the criteria whose subject is a file, in a state with these files: for the
   properties, told by another definition than the checks. *)
FileHolds(criterion, fs) ==
  \/ criterion.kind = "file_exists" /\ criterion.path = Root
  \/ /\ criterion.path \in Files /\ fs[criterion.path] # Absent
     /\ CASE criterion.kind = "file_contains" -> fs[criterion.path].marked
          [] criterion.kind = "json_file" ->
               /\ fs[criterion.path].json # "invalid"
               /\ \/ criterion.extra \in {NoExtra} \cup fs[criterion.path].keys
                  \/ fs[criterion.path].json = "object" /\ criterion.extra \in InheritedKeys
          [] OTHER -> TRUE

FileKinds == {"file_exists", "file_contains", "json_file"}

(* What each criterion has been since the evaluation began: a set of truth values. *)
Witnessed(fs) ==
  [i \in DOMAIN evaluation.ever |->
     evaluation.ever[i] \cup
       (IF Criteria[i].kind \in FileKinds THEN {FileHolds(Criteria[i], fs)} ELSE {})]

(* The check of the next criterion passes or fails; `step` is where the evaluation goes on. *)
Checked(holds, fs) ==
  LET index == Len(evaluation.checks) + 1
  IN evaluation' = [evaluation EXCEPT
       !.step = "checking", !.checks = Append(@, holds),
       !.ever = [Witnessed(fs) EXCEPT ![index] = @ \cup
                   IF Criteria[index].kind = "command_exits_zero" THEN {holds} ELSE {}]]

(* The runtime evaluates a task after a tool call, or the goal when the model claims to be done. *)
BeginEvaluation ==
  /\ evaluation.step = "idle" /\ At("idle")
  /\ evaluation' = [NoEvaluation EXCEPT
       !.step = "checking",
       !.ever = [i \in 1 .. Len(Criteria) |->
                   IF Criteria[i].kind \in FileKinds THEN {FileHolds(Criteria[i], files)}
                   ELSE IF Criteria[i].kind = "command_exits_zero" THEN {}
                   ELSE {ResultHolds(Criteria[i])}]]
  /\ UNCHANGED <<goal, toolVars>>

(* fileExists: of the criterion, or before the file is read. *)
CheckExists ==
  /\ evaluation.step = "checking" /\ CriteriaLeft /\ NextCriterion.kind \in FileKinds
  /\ IF NextCriterion.kind = "file_exists" \/ ~Exists(NextCriterion.path)
     THEN Checked(Exists(NextCriterion.path), files)
     ELSE evaluation' = [evaluation EXCEPT !.step = "reading"]
  /\ UNCHANGED <<goal, toolVars>>

(* readFile; a file that has gone since fileExists makes the evaluation throw. *)
CheckContent ==
  /\ evaluation.step = "reading"
  /\ IF NextCriterion.path \in Files /\ Exists(NextCriterion.path)
     THEN LET content == files[NextCriterion.path]
          IN Checked(IF NextCriterion.kind = "file_contains" THEN content.marked
                     ELSE JsonHolds(NextCriterion, content), files)
     ELSE evaluation' = [evaluation EXCEPT !.step = "threw"]
  /\ UNCHANGED <<goal, toolVars>>

(* runCommand, without a timeout of its own: it may change what was checked before. *)
CheckCommand(exit) ==
  /\ evaluation.step = "checking" /\ CriteriaLeft
  /\ NextCriterion.kind = "command_exits_zero"
  /\ CommandEffect
  /\ Checked(exit = 0, files')
  /\ UNCHANGED <<goal, call, events, scratch, touched, result>>

CheckResult ==
  /\ evaluation.step = "checking" /\ CriteriaLeft
  /\ NextCriterion.kind \in {"http_status", "tool_succeeded"}
  /\ Checked(ResultHolds(NextCriterion), files)
  /\ UNCHANGED <<goal, toolVars>>

(* A call to the environment throws: nothing catches it before AgentRuntime.run. *)
EvaluationThrows ==
  /\ \/ evaluation.step = "reading"
     \/ evaluation.step = "checking" /\ CriteriaLeft
        /\ NextCriterion.kind \in FileKinds \cup {"command_exits_zero"}
  /\ evaluation' = [evaluation EXCEPT !.step = "threw"]
  /\ UNCHANGED <<goal, toolVars>>

(* The tool status is recorded and decides nothing; every other check does. *)
Conclude ==
  /\ evaluation.step = "checking" /\ ~CriteriaLeft
  /\ evaluation' = [evaluation EXCEPT
       !.step = "done",
       !.verdict = VerdictFromDecisive(
          Cardinality({i \in DOMAIN evaluation.checks : evaluation.checks[i]}), Len(Criteria))]
  /\ UNCHANGED <<goal, toolVars>>

EvaluationStep ==
  \/ BeginEvaluation \/ CheckExists \/ CheckContent \/ CheckResult \/ EvaluationThrows \/ Conclude
  \/ \E exit \in {0, 1} : CheckCommand(exit)

-----------------------------------------------------------------------------
Init == ToolInit /\ EvaluationInit

(* A tool is invoked while nothing is evaluated; after an evaluation the run goes on, or has
   ended where it threw. *)
UseTool == evaluation.step = "idle" /\ ToolStep /\ UNCHANGED evaluationVars

Leftover ==
  /\ LeftoverActs
  /\ evaluation' = [evaluation EXCEPT !.ever = Witnessed(files')]
  /\ UNCHANGED goal

RunGoesOn ==
  /\ evaluation.step = "done" /\ evaluation' = NoEvaluation
  /\ UNCHANGED <<goal, toolVars>>

Next == UseTool \/ Leftover \/ EvaluationStep \/ RunGoesOn

Spec == Init /\ [][Next]_<<toolVars, evaluationVars>>
=============================================================================
