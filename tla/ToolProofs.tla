----------------------------- MODULE ToolProofs -----------------------------
(***************************************************************************)
(* Proofs that the tools stay inside the workspace and announce what they  *)
(* do, that a text which is not whole says so, and that a verdict rests on *)
(* its criteria: for every root, cap, goal and input, with processes left  *)
(* behind and failing calls at any moment.                                 *)
(***************************************************************************)
EXTENDS ToolProperties, SubsequenceTheorems, FiniteSetTheorems

\* The steps of each tool.
ToolSteps ==
  {<<"fs.read", "reading">>, <<"fs.list", "listing">>, <<"fs.delete", "deleting">>,
   <<"fs.write", "looking">>, <<"fs.write", "writing">>,
   <<"code.run", "saving">>, <<"code.run", "running">>,
   <<"shell.run", "running">>, <<"git", "running">>, <<"web.search", "searching">>,
   <<"http.request", "staging">>, <<"http.request", "requesting">>,
   <<"web.fetch", "requesting">>}

\* A call under way is of a tool that its input was validated for, at one of its steps.
CallInv ==
  \/ call = NoCall
  \/ /\ <<call.tool, call.step>> \in ToolSteps
     /\ call.raw \in RawInputs /\ Parses(call.tool, call.raw)

\* What a call under way has announced and done before its last step.
UnderWayInv ==
  ~At("idle") =>
    /\ result = NoResult
    /\ scratch = IF At("requesting") THEN scratch \cap {"request"} ELSE {}
    /\ IF ~At("running") THEN events = << >> /\ touched = {}
       ELSE IF call.tool = "code.run"
       THEN /\ events = <<Event("FILE_CREATED", CodeFile), Event("COMMAND_STARTED", Root)>>
            /\ touched = {Event("written", CodeFile)}
       ELSE events = <<Event("COMMAND_STARTED", Target)>> /\ touched = {}

EventTypes == {"FILE_CREATED", "FILE_CHANGED", "FILE_DELETED",
               "COMMAND_STARTED", "COMMAND_OUTPUT", "COMMAND_FINISHED"}
\* Normalised paths.
Segments == (STRING \cup {".agent", "code"}) \ {".."}

EventsInv == events \in Seq([type : EventTypes, path : Seq(Segments)])

\* The checks made are each what their criterion was at some moment.
ChecksInv ==
  /\ goal \in Goals
  /\ evaluation.step \in {"idle", "checking", "reading", "done", "threw"}
  /\ evaluation.checks \in Seq(BOOLEAN) /\ Len(evaluation.checks) <= Len(Criteria)
  /\ evaluation.step # "idle" =>
       /\ evaluation.ever \in [1 .. Len(Criteria) -> SUBSET BOOLEAN]
       /\ \A i \in 1 .. Len(Criteria) :
            Criteria[i].kind \notin FileKinds \cup {"command_exits_zero"} =>
              ResultHolds(Criteria[i]) \in evaluation.ever[i]
       /\ \A i \in 1 .. Len(evaluation.checks) : evaluation.checks[i] \in evaluation.ever[i]
  /\ evaluation.step = "reading" =>
       CriteriaLeft /\ NextCriterion.kind \in {"file_contains", "json_file"}
  /\ IF evaluation.step # "done" THEN evaluation.verdict = "none"
     ELSE /\ Len(evaluation.checks) = Len(Criteria)
          /\ evaluation.verdict = VerdictFromDecisive(
               Cardinality({i \in DOMAIN evaluation.checks : evaluation.checks[i]}), Len(Criteria))

-----------------------------------------------------------------------------
\* What one segment makes of the path resolved so far.
NormalStep(segments, f, i) ==
  IF i = 0 THEN << >>
  ELSE IF segments[i] \in Skipped \/ (segments[i] = ".." /\ f[i - 1] = << >>)
       THEN f[i - 1]
  ELSE IF segments[i] = ".." THEN Front(f[i - 1])
  ELSE Append(f[i - 1], segments[i])

IsNormalUpTo(segments, n, f) == f = [i \in 0 .. n |-> NormalStep(segments, f, i)]

\* The recursive function Normalise is defined by does exist.
LEMMA NormalExists ==
  ASSUME NEW segments, NEW len \in Nat
  PROVE  \E f : IsNormalUpTo(segments, len, f)
<1> DEFINE Bad == {n \in 0 .. len : ~ \E f : IsNormalUpTo(segments, n, f)}
<1>1. SUFFICES ASSUME Bad # {} PROVE FALSE
  <2>1. len \in 0 .. len
    OBVIOUS
  <2> QED
    BY <2>1
<1>2. PICK n \in Bad : \A m \in Bad : n <= m
  <2>1. Bad \in SUBSET Nat
    OBVIOUS
  <2> HIDE DEF Bad
  <2> QED
    BY <1>1, <2>1, LeastNatural
<1>3. n # 0
  <2>1. IsNormalUpTo(segments, 0, [i \in 0 .. 0 |-> << >>])
    BY DEF NormalStep, IsNormalUpTo
  <2> QED
    BY <2>1
<1>4. n - 1 \in 0 .. len /\ n \in 1 .. len
  BY <1>3
<1>5. PICK f : IsNormalUpTo(segments, n - 1, f)
  <2>1. n - 1 \notin Bad
    BY <1>2, <1>4
  <2> QED
    BY <2>1, <1>4
<1> DEFINE g == [i \in 0 .. n |-> IF i = n THEN NormalStep(segments, f, n) ELSE f[i]]
<1>6. ASSUME NEW i \in 0 .. n
      PROVE  g[i] = NormalStep(segments, g, i)
  <2>1. CASE i = n
    <3>1. g[n - 1] = f[n - 1]
      BY <1>4
    <3> QED
      BY <2>1, <3>1, <1>4 DEF NormalStep
  <2>2. CASE i # n
    <3>1. i \in 0 .. n - 1
      BY <2>2, <1>4
    <3>2. f[i] = NormalStep(segments, f, i)
      BY <3>1, <1>5 DEF IsNormalUpTo
    <3>3. i # 0 => g[i - 1] = f[i - 1]
      BY <3>1, <1>4
    <3> QED
      BY <3>1, <3>2, <3>3, <2>2 DEF NormalStep
  <2> QED
    BY <2>1, <2>2
<1>7. g = [i \in 0 .. n |-> NormalStep(segments, g, i)]
  <2>1. g = [i \in 0 .. n |-> g[i]]
    OBVIOUS
  <2> HIDE DEF g
  <2> QED
    BY <2>1, <1>6
<1> QED
  BY <1>7 DEF IsNormalUpTo

\* A normalised path has no segment that is empty, "." or ".." (normalisePosix).
LEMMA NormaliseClean ==
  ASSUME NEW S, NEW segments \in Seq(S)
  PROVE  Normalise(segments) \in Seq(S \ (Skipped \cup {".."}))
<1> DEFINE done == CHOOSE f : IsNormalUpTo(segments, Len(segments), f)
           Clean == S \ (Skipped \cup {".."})
<1>1. IsNormalUpTo(segments, Len(segments), done)
  BY NormalExists
<1>2. Normalise(segments) = done[Len(segments)]
  BY DEF Normalise, IsNormalUpTo, NormalStep
<1> HIDE DEF done
<1> DEFINE Bad == {n \in 0 .. Len(segments) : done[n] \notin Seq(Clean)}
<1>3. SUFFICES ASSUME Bad # {} PROVE FALSE
  <2>1. Len(segments) \in 0 .. Len(segments)
    OBVIOUS
  <2> QED
    BY <2>1, <1>2
<1>4. PICK n \in Bad : \A m \in Bad : n <= m
  <2>1. Bad \in SUBSET Nat
    OBVIOUS
  <2> HIDE DEF Bad
  <2> QED
    BY <1>3, <2>1, LeastNatural
<1>5. \A i \in 0 .. Len(segments) : done[i] = NormalStep(segments, done, i)
  BY <1>1 DEF IsNormalUpTo
<1>6. n # 0
  <2>1. done[0] = << >>
    BY <1>5 DEF NormalStep
  <2> HIDE DEF Clean
  <2>2. done[0] \in Seq(Clean)
    BY <2>1
  <2> QED
    BY <2>2
<1>7. n - 1 \in 0 .. Len(segments) /\ n \in 1 .. Len(segments)
  BY <1>6
<1>8. done[n - 1] \in Seq(Clean)
  <2>1. n - 1 \notin Bad
    BY <1>4, <1>7
  <2> QED
    BY <2>1, <1>7
<1>9. PICK r : r = done[n - 1]
  OBVIOUS
<1>10. segments[n] \in S
  BY <1>7
<1>11. done[n] \in Seq(Clean)
  <2>1. done[n] = NormalStep(segments, done, n)
    BY <1>5, <1>7
  <2>2. CASE segments[n] \in Skipped \/ (segments[n] = ".." /\ r = << >>)
    BY <1>6, <1>8, <1>9, <2>1, <2>2 DEF NormalStep
  <2>3. CASE segments[n] = ".." /\ r # << >>
    <3> ".." \notin Skipped
      BY Zenon DEF Skipped
    <3>1. done[n] = Front(r)
      BY <1>6, <1>9, <2>1, <2>3 DEF NormalStep
    <3>2. r \in Seq(Clean) /\ Len(r) \in Nat
      BY <1>8, <1>9
    <3>3. SubSeq(r, 1, Len(r) - 1) \in Seq(Clean)
      <4> HIDE DEF Clean
      <4> QED
        BY <2>3, <3>2
    <3> QED
      BY <3>1, <3>3 DEF Front
  <2>4. CASE segments[n] \notin Skipped \cup {".."}
    <3>1. done[n] = Append(r, segments[n])
      BY <1>6, <1>9, <2>1, <2>4 DEF NormalStep
    <3>2. r \in Seq(Clean) /\ segments[n] \in Clean
      BY <1>8, <1>9, <1>10, <2>4
    <3> QED
      <4> HIDE DEF Clean
      <4> QED
        BY <3>1, <3>2
  <2> QED
    BY <2>2, <2>3, <2>4
<1> QED
  BY <1>7, <1>11

-----------------------------------------------------------------------------
\* The positions of the events of a type, their paths, and how many they are.
PositionsIn(es, type) == {i \in DOMAIN es : es[i].type = type}
AnnouncedIn(es, type) == {es[i].path : i \in PositionsIn(es, type)}
TimesIn(es, type) == Cardinality(PositionsIn(es, type))

LEMMA NothingTold ==
  ASSUME NEW type
  PROVE  AnnouncedIn(<< >>, type) = {} /\ TimesIn(<< >>, type) = 0
<1>1. PositionsIn(<< >>, type) = {}
  BY DEF PositionsIn
<1> QED
  BY <1>1, FS_EmptySet DEF AnnouncedIn, TimesIn

\* What one more event adds (the `emit` of a tool's context).
LEMMA OneMoreTold ==
  ASSUME NEW S, NEW es \in Seq(S), NEW e \in S, NEW type
  PROVE  /\ TimesIn(es, type) \in Nat
         /\ e.type = type =>
              /\ AnnouncedIn(Append(es, e), type) = AnnouncedIn(es, type) \cup {e.path}
              /\ TimesIn(Append(es, e), type) = TimesIn(es, type) + 1
         /\ e.type # type =>
              /\ AnnouncedIn(Append(es, e), type) = AnnouncedIn(es, type)
              /\ TimesIn(Append(es, e), type) = TimesIn(es, type)
<1> DEFINE before == PositionsIn(es, type)
           after == PositionsIn(Append(es, e), type)
           last == Len(es) + 1
<1>1. /\ Append(es, e) \in Seq(S)
      /\ Len(Append(es, e)) = last
      /\ \A k \in 1 .. Len(es) : Append(es, e)[k] = es[k]
      /\ Append(es, e)[last] = e
  BY AppendProperties
<1>2. DOMAIN es = 1 .. Len(es) /\ DOMAIN Append(es, e) = 1 .. last /\ Len(es) \in Nat
  BY <1>1
<1>3. 1 .. last = (1 .. Len(es)) \cup {last} /\ last \notin 1 .. Len(es)
  BY <1>2
<1>4. IsFiniteSet(before)
  <2>1. before \subseteq 1 .. Len(es)
    BY <1>2 DEF PositionsIn
  <2>2. IsFiniteSet(1 .. Len(es))
    BY <1>2, FS_Interval
  <2> HIDE DEF before
  <2> QED
    BY <2>1, <2>2, FS_Subset
<1>5. TimesIn(es, type) \in Nat
  BY <1>4, FS_CardinalityType DEF TimesIn
<1>6. ASSUME e.type = type
      PROVE  /\ AnnouncedIn(Append(es, e), type) = AnnouncedIn(es, type) \cup {e.path}
             /\ TimesIn(Append(es, e), type) = TimesIn(es, type) + 1
  <2>1. after = before \cup {last} /\ last \notin before
    BY <1>1, <1>2, <1>3, <1>6 DEF PositionsIn
  <2>2. \A i \in before : Append(es, e)[i] = es[i]
    BY <1>1, <1>2 DEF PositionsIn
  <2>3. Cardinality(after) = Cardinality(before) + 1
    <3> HIDE DEF before, after, last
    <3> QED
      BY <2>1, <1>4, FS_AddElement
  <2>4. {Append(es, e)[i].path : i \in after} = {es[i].path : i \in before} \cup {e.path}
    <3> HIDE DEF before, after
    <3> QED
      BY <1>1, <2>1, <2>2
  <2> QED
    BY <2>3, <2>4 DEF AnnouncedIn, TimesIn
<1>7. ASSUME e.type # type
      PROVE  /\ AnnouncedIn(Append(es, e), type) = AnnouncedIn(es, type)
             /\ TimesIn(Append(es, e), type) = TimesIn(es, type)
  <2>1. after = before
    BY <1>1, <1>2, <1>3, <1>7 DEF PositionsIn
  <2>2. \A i \in before : Append(es, e)[i] = es[i]
    BY <1>1, <1>2 DEF PositionsIn
  <2> QED
    BY <2>1, <2>2 DEF AnnouncedIn, TimesIn
<1> QED
  BY <1>5, <1>6, <1>7

\* What one event comes to.
LEMMA ToldInOne ==
  ASSUME NEW a, NEW type
  PROVE  /\ TimesIn(<<a>>, type) = IF a.type = type THEN 1 ELSE 0
         /\ AnnouncedIn(<<a>>, type) = IF a.type = type THEN {a.path} ELSE {}
<1>1. << >> \in Seq({a}) /\ a \in {a} /\ <<a>> = Append(<< >>, a)
  OBVIOUS
<1>2. PICK none : none = << >>
  OBVIOUS
<1>3. /\ a.type = type =>
           /\ AnnouncedIn(Append(none, a), type) = AnnouncedIn(none, type) \cup {a.path}
           /\ TimesIn(Append(none, a), type) = TimesIn(none, type) + 1
      /\ a.type # type =>
           /\ AnnouncedIn(Append(none, a), type) = AnnouncedIn(none, type)
           /\ TimesIn(Append(none, a), type) = TimesIn(none, type)
  <2>1. none \in Seq({a}) /\ a \in {a}
    BY <1>1, <1>2
  <2> QED
    BY <2>1, OneMoreTold
<1>4. TimesIn(none, type) = 0 /\ AnnouncedIn(none, type) = {}
  BY <1>2, NothingTold
<1>5. <<a>> = Append(none, a)
  BY <1>1, <1>2
<1> DEFINE times == TimesIn(none, type)
           announced == AnnouncedIn(none, type)
<1>6. times + 1 = 1 /\ announced \cup {a.path} = {a.path}
  BY <1>4
<1>7. CASE a.type = type
  BY <1>3, <1>5, <1>6, <1>7, Zenon
<1>8. CASE a.type # type
  BY <1>3, <1>4, <1>5, <1>8, Zenon
<1> QED
  BY <1>7, <1>8

-----------------------------------------------------------------------------
Told == ChangesAnnounced /\ CommandsClosed /\ ScratchCleared /\ TruncationTold

TypesInv ==
  /\ files \in [Files -> Contents \cup {Absent}]
  /\ leftover \in BOOLEAN
  /\ scratch \subseteq {"request", "response"}
  /\ result.status \in {"none", "ok", "error"}
  /\ result.status = "error" <=> result.error # "none"

LEMMA PathsInside ==
  /\ Root \in Seq(Segments) /\ CodeFile \in Seq(Segments)
  /\ \A raw \in RawInputs : Resolved(raw.path) \in Seq(Segments)
<1>1. Root \in Seq(Segments)
  <2>1. \A k \in 1 .. Len(Root) : Root[k] \in Segments
    BY ToolOptionsAssumption DEF Segments
  <2> QED
    BY <2>1, ToolOptionsAssumption
<1>2. CodeFile \in Seq(Segments)
  <2>1. <<".agent", "code">> \in Seq(Segments)
    BY DEF Segments
  <2> QED
    BY <1>1, <2>1 DEF CodeFile
<1>3. ASSUME NEW raw \in RawInputs
      PROVE  Resolved(raw.path) \in Seq(Segments)
  <2>1. PICK segments : segments = IF raw.path.absolute THEN raw.path.segments
                                   ELSE Root \o raw.path.segments
    OBVIOUS
  <2>2. segments \in Seq(STRING)
    <3>1. raw.path.segments \in Seq(STRING) /\ Root \in Seq(STRING)
      BY ToolsAssumption, ToolOptionsAssumption, Zenon
    <3>2. Root \o raw.path.segments \in Seq(STRING)
      BY <3>1
    <3> QED
      BY <2>1, <3>1, <3>2, Zenon
  <2>3. Normalise(segments) \in Seq(STRING \ (Skipped \cup {".."}))
    BY <2>2, NormaliseClean
  <2>4. STRING \ (Skipped \cup {".."}) \subseteq Segments
    BY DEF Segments
  <2>5. Normalise(segments) \in Seq(Segments)
    BY <2>3, <2>4
  <2> QED
    BY <2>1, <2>5 DEF Resolved
<1> QED
  BY <1>1, <1>2, <1>3

TypedEvent == [type : EventTypes, path : Seq(Segments)]

\* Every event a tool emits is one of these, about a path inside.
LEMMA EventsTyped ==
  ASSUME NEW type \in EventTypes, NEW path \in Seq(Segments)
  PROVE  Event(type, path) \in TypedEvent /\ Event(type, path).type = type
           /\ Event(type, path).path = path
BY DEF Event, TypedEvent

\* What a command's end adds to what was announced (runObservedCommand).
LEMMA NarrationTold ==
  ASSUME NEW es \in Seq(TypedEvent), NEW exit, NEW length
  PROVE  LET after == es \o Narration(exit, length)
         IN  /\ after \in Seq(TypedEvent)
             /\ TimesIn(after, "COMMAND_FINISHED") = TimesIn(es, "COMMAND_FINISHED") + 1
             /\ TimesIn(after, "COMMAND_STARTED") = TimesIn(es, "COMMAND_STARTED")
             /\ \A type \in {"FILE_CREATED", "FILE_CHANGED", "FILE_DELETED"} :
                  AnnouncedIn(after, type) = AnnouncedIn(es, type)
<1> DEFINE output == Event("COMMAND_OUTPUT", Root)
           finished == Event("COMMAND_FINISHED", Root)
<1>1. /\ output \in TypedEvent /\ output.type = "COMMAND_OUTPUT"
      /\ finished \in TypedEvent /\ finished.type = "COMMAND_FINISHED"
  BY PathsInside, EventsTyped DEF EventTypes
<1>2. \/ es \o Narration(exit, length) = Append(es, finished)
      \/ es \o Narration(exit, length) = Append(Append(es, output), finished)
  <2> HIDE DEF output, finished
  <2>1. es \o (<< >> \o <<finished>>) = Append(es, finished)
    OBVIOUS
  <2>2. es \o (<<output>> \o <<finished>>) = Append(Append(es, output), finished)
    BY <1>1
  <2> QED
    BY <2>1, <2>2 DEF Narration, output, finished
<1>3. PICK told : /\ told \in {es, Append(es, output)}
                  /\ es \o Narration(exit, length) = Append(told, finished)
  BY <1>2
<1> HIDE DEF output, finished
<1>4. /\ told \in Seq(TypedEvent)
      /\ \A type \in {"FILE_CREATED", "FILE_CHANGED", "FILE_DELETED"} :
           AnnouncedIn(told, type) = AnnouncedIn(es, type)
      /\ \A type \in {"COMMAND_STARTED", "COMMAND_FINISHED"} :
           TimesIn(told, type) = TimesIn(es, type)
  <2>1. CASE told = es
    BY <2>1
  <2>2. CASE told = Append(es, output)
    BY <1>1, <2>2, OneMoreTold
  <2> QED
    BY <1>3, <2>1, <2>2
<1>5. /\ Append(told, finished) \in Seq(TypedEvent)
      /\ \A type \in {"FILE_CREATED", "FILE_CHANGED", "FILE_DELETED"} :
           AnnouncedIn(Append(told, finished), type) = AnnouncedIn(told, type)
      /\ TimesIn(Append(told, finished), "COMMAND_STARTED") = TimesIn(told, "COMMAND_STARTED")
      /\ TimesIn(Append(told, finished), "COMMAND_FINISHED")
           = TimesIn(told, "COMMAND_FINISHED") + 1
  <2>1. told \in Seq(TypedEvent) /\ finished \in TypedEvent
    BY <1>1, <1>4
  <2>2. ASSUME NEW type, finished.type # type
        PROVE  /\ AnnouncedIn(Append(told, finished), type) = AnnouncedIn(told, type)
               /\ TimesIn(Append(told, finished), type) = TimesIn(told, type)
    BY <2>1, <2>2, OneMoreTold
  <2>3. TimesIn(Append(told, finished), "COMMAND_FINISHED")
          = TimesIn(told, "COMMAND_FINISHED") + 1
    BY <1>1, <2>1, OneMoreTold
  <2>4. Append(told, finished) \in Seq(TypedEvent)
    BY <2>1
  <2> QED
    BY <1>1, <2>2, <2>3, <2>4
<1> QED
  BY <1>3, <1>4, <1>5

FileEvents == {"FILE_CREATED", "FILE_CHANGED", "FILE_DELETED"}

\* The program that code.run saves is announced as soon as it is there, and nothing else is
\* announced of a file before the call is settled; no command is announced as finished.
LEMMA BeforeTheEnd ==
  ASSUME CallInv, UnderWayInv, ~At("idle")
  PROVE  /\ events \in Seq(TypedEvent)
         /\ TimesIn(events, "COMMAND_FINISHED") = 0
         /\ TimesIn(events, "COMMAND_STARTED") = IF At("running") THEN 1 ELSE 0
         /\ \E saved \in SUBSET {CodeFile} :
              /\ touched = {Event("written", path) : path \in saved}
              /\ AnnouncedIn(events, "FILE_CREATED") = saved
              /\ saved # {} <=> At("running") /\ call.tool = "code.run"
         /\ AnnouncedIn(events, "FILE_CHANGED") = {} /\ AnnouncedIn(events, "FILE_DELETED") = {}
<1>1. CASE ~At("running")
  <2>1. events = << >> /\ touched = {}
    BY <1>1 DEF UnderWayInv
  <2>2. \A type : AnnouncedIn(events, type) = {} /\ TimesIn(events, type) = 0
    BY <2>1, NothingTold
  <2>3. events \in Seq(TypedEvent)
    BY <2>1
  <2>4. /\ touched = {Event("written", path) : path \in {}}
        /\ {} \in SUBSET {CodeFile}
    BY <2>1
  <2> QED
    BY <1>1, <2>2, <2>3, <2>4, Zenon
<1>2. CASE At("running") /\ call.tool # "code.run"
  <2>1. events = <<Event("COMMAND_STARTED", Target)>> /\ touched = {}
    BY <1>2 DEF UnderWayInv
  <2>2. Event("COMMAND_STARTED", Target) \in TypedEvent
        /\ Event("COMMAND_STARTED", Target).type = "COMMAND_STARTED"
    <3>1. call.raw \in RawInputs
      BY <1>2 DEF CallInv, NoCall, At
    <3>2. Target \in Seq(Segments)
      BY <3>1, PathsInside DEF Target
    <3>3. "COMMAND_STARTED" \in EventTypes
      BY DEF EventTypes
    <3> QED
      BY <3>2, <3>3, EventsTyped
  <2>3. PICK e : e = Event("COMMAND_STARTED", Target)
    OBVIOUS
  <2>4. /\ TimesIn(<<e>>, "COMMAND_FINISHED") = 0
        /\ TimesIn(<<e>>, "COMMAND_STARTED") = 1
        /\ \A type \in FileEvents : AnnouncedIn(<<e>>, type) = {}
    <3>1. e.type = "COMMAND_STARTED"
      BY <2>2, <2>3
    <3>2. TimesIn(<<e>>, "COMMAND_FINISHED") = 0 /\ TimesIn(<<e>>, "COMMAND_STARTED") = 1
      BY <3>1, ToldInOne
    <3>3. ASSUME NEW type \in FileEvents
          PROVE  AnnouncedIn(<<e>>, type) = {}
      <4>1. e.type # type
        BY <3>1, <3>3 DEF FileEvents
      <4> QED
        BY <4>1, ToldInOne
    <3> QED
      BY <3>2, <3>3
  <2>5. events = <<e>> /\ events \in Seq(TypedEvent)
    BY <2>1, <2>2, <2>3
  <2>6. /\ touched = {Event("written", path) : path \in {}}
        /\ {} \in SUBSET {CodeFile}
    BY <2>1
  <2>7. FileEvents = {"FILE_CREATED", "FILE_CHANGED", "FILE_DELETED"}
    BY DEF FileEvents
  <2> QED
    BY <1>2, <2>4, <2>5, <2>6, <2>7
<1>3. CASE At("running") /\ call.tool = "code.run"
  <2>1. /\ events = <<Event("FILE_CREATED", CodeFile), Event("COMMAND_STARTED", Root)>>
        /\ touched = {Event("written", CodeFile)}
    BY <1>3 DEF UnderWayInv
  <2>2. PICK c, e : c = Event("FILE_CREATED", CodeFile) /\ e = Event("COMMAND_STARTED", Root)
    OBVIOUS
  <2>3. /\ c \in TypedEvent /\ c.type = "FILE_CREATED" /\ c.path = CodeFile
        /\ e \in TypedEvent /\ e.type = "COMMAND_STARTED"
    BY <2>2, PathsInside, EventsTyped DEF EventTypes
  <2>4. events = Append(<<c>>, e) /\ <<c>> \in Seq(TypedEvent) /\ events \in Seq(TypedEvent)
    BY <2>1, <2>2, <2>3
  <2>5. /\ TimesIn(<<c>>, "COMMAND_FINISHED") = 0 /\ TimesIn(<<c>>, "COMMAND_STARTED") = 0
        /\ AnnouncedIn(<<c>>, "FILE_CREATED") = {CodeFile}
        /\ AnnouncedIn(<<c>>, "FILE_CHANGED") = {} /\ AnnouncedIn(<<c>>, "FILE_DELETED") = {}
    BY <2>3, ToldInOne
  <2>6. PICK told : told = <<c>>
    OBVIOUS
  <2>7. /\ TimesIn(events, "COMMAND_FINISHED") = TimesIn(told, "COMMAND_FINISHED")
        /\ TimesIn(events, "COMMAND_STARTED") = TimesIn(told, "COMMAND_STARTED") + 1
        /\ \A type \in FileEvents : AnnouncedIn(events, type) = AnnouncedIn(told, type)
    <3>1. told \in Seq(TypedEvent) /\ events = Append(told, e)
      BY <2>4, <2>6
    <3> QED
      BY <3>1, <2>3, OneMoreTold DEF FileEvents
  <2>8. /\ touched = {Event("written", path) : path \in {CodeFile}}
        /\ {CodeFile} \in SUBSET {CodeFile}
    BY <2>1
  <2>9. /\ TimesIn(events, "COMMAND_FINISHED") = 0
        /\ TimesIn(events, "COMMAND_STARTED") = 1
    BY <2>5, <2>6, <2>7
  <2>10. /\ AnnouncedIn(events, "FILE_CREATED") = {CodeFile}
         /\ AnnouncedIn(events, "FILE_CHANGED") = {} /\ AnnouncedIn(events, "FILE_DELETED") = {}
    BY <2>5, <2>6, <2>7 DEF FileEvents
  <2>11. {CodeFile} # {}
    OBVIOUS
  <2> QED
    BY <1>3, <2>4, <2>8, <2>9, <2>10, <2>11, Zenon
<1> QED
  BY <1>1, <1>2, <1>3

\* A call that fails closes with an error, whatever it has done on the way (invokeTool).
LEMMA FailingTells ==
  ASSUME TypesInv, CallInv, UnderWayInv, ~At("idle"),
         NEW cause \in EnvironmentErrors \cup {"transport"}, Fails(cause),
         events' = events, touched \subseteq touched'
  PROVE  /\ result'.status = "error" /\ result'.error # "none"
         /\ CallInv' /\ UnderWayInv' /\ EventsInv' /\ Told'
<1>1. result'.status = "error" /\ result'.error # "none"
  BY DEF Fails, NoResult, ToolError, EnvironmentErrors
<1>2. call' = NoCall
  BY DEF Fails
<1>3. CallInv' /\ UnderWayInv'
  BY <1>2 DEF CallInv, UnderWayInv, NoCall, At
<1>4. EventsInv'
  BY BeforeTheEnd DEF EventsInv, TypedEvent
<1>5. ChangesAnnounced'
  <2>1. PICK saved \in SUBSET {CodeFile} :
          /\ touched = {Event("written", path) : path \in saved}
          /\ AnnouncedIn(events, "FILE_CREATED") = saved
    BY BeforeTheEnd
  <2>2. saved \subseteq {t.path : t \in {u \in touched' : u.type = "written"}}
    <3>1. ASSUME NEW path \in saved
          PROVE  path \in {t.path : t \in {u \in touched' : u.type = "written"}}
      <4>1. Event("written", path) \in touched'
        BY <2>1
      <4>2. Event("written", path).type = "written" /\ Event("written", path).path = path
        BY DEF Event
      <4> QED
        BY <4>1, <4>2
    <3> QED
      BY <3>1
  <2>3. Announced("FILE_CREATED")' = saved
    BY <2>1 DEF Announced, AnnouncedIn, PositionsIn
  <2>4. Announced("FILE_CHANGED")' = {} /\ Announced("FILE_DELETED")' = {}
    <3>1. AnnouncedIn(events, "FILE_CHANGED") = {} /\ AnnouncedIn(events, "FILE_DELETED") = {}
      BY BeforeTheEnd
    <3> QED
      BY <3>1 DEF Announced, AnnouncedIn, PositionsIn
  <2> QED
    BY <1>1, <2>2, <2>3, <2>4 DEF ChangesAnnounced, Did
<1>6. CommandsClosed'
  <2>1. Times("COMMAND_FINISHED")' = 0 /\ Times("COMMAND_STARTED")' \in Nat
    BY BeforeTheEnd DEF Times, TimesIn, PositionsIn
  <2> QED
    BY <1>1, <2>1 DEF CommandsClosed
<1>7. ScratchCleared' /\ TruncationTold'
  BY <1>1 DEF ScratchCleared, TruncationTold
<1> QED
  BY <1>1, <1>3, <1>4, <1>5, <1>6, <1>7 DEF Told

-----------------------------------------------------------------------------
\* A text has no more units than bytes (parseCurlOutput).
LEMMA UnitsBound ==
  ASSUME NEW bytes \in Nat, NEW width \in 1 .. 4
  PROVE  Units(bytes, width) \in Nat /\ Units(bytes, width) <= bytes
<1>1. CASE width = 1
  BY <1>1 DEF Units
<1>2. CASE width = 2
  BY <1>2 DEF Units
<1>3. CASE width = 3
  BY <1>3 DEF Units
<1>4. CASE width = 4
  BY <1>4 DEF Units
<1> QED
  BY <1>1, <1>2, <1>3, <1>4

LEMMA CapType ==
  ASSUME NEW proposed \in Nat
  PROVE  Cap(proposed) \in Nat \ {0}
BY ToolOptionsAssumption DEF Cap

\* A text that capText does not mark is shown whole.
LEMMA CapTextWhole ==
  ASSUME NEW length \in Nat, NEW cap \in Nat
  PROVE  LET text == CapText(length, cap)
         IN  /\ text.shown \in Nat /\ text.total = length
             /\ ~text.truncated => text.shown = length
<1>1. /\ CapText(length, cap).shown = IF length <= cap THEN length ELSE cap
      /\ CapText(length, cap).total = length
  BY DEF CapText
<1>2. ~CapText(length, cap).truncated => ~(length > cap)
  BY Zenon DEF CapText
<1>3. ~(length > cap) => length <= cap
  OBVIOUS
<1> QED
  BY <1>1, <1>2, <1>3

\* A body that is not marked is all that curl received: the cut at four bytes for a character
\* cannot hide in the cut at the cap, for characters of any width (curlRequest).
LEMMA BodyWhole ==
  ASSUME NEW response \in Responses, NEW cap \in Nat \ {0}
  PROVE  LET body == Body(response, cap)
         IN  /\ body.shown \in Nat /\ body.total \in Nat
             /\ ~body.truncated => body.shown = body.total
<1>1. response.chars \in Nat /\ response.width \in 1 .. 4
  BY ToolsAssumption
<1>2. PICK bytes : bytes = response.chars * response.width
  OBVIOUS
<1>3. PICK cut : cut = IF bytes > 4 * cap THEN 4 * cap ELSE bytes
  OBVIOUS
<1>4. PICK read, total : read = Units(cut, response.width) /\ total = Units(bytes, response.width)
  OBVIOUS
<1>5. bytes \in Nat
  <2>1. \A n \in Nat, w \in 1 .. 4 : n * w \in Nat
    OBVIOUS
  <2> QED
    BY <1>1, <1>2, <2>1
<1>6. cut \in Nat
  BY <1>3, <1>5
<1>7. /\ read \in Nat /\ read <= cut /\ total \in Nat
  BY <1>1, <1>4, <1>5, <1>6, UnitsBound
<1>8. bytes <= read => read = total
  BY <1>3, <1>4, <1>5, <1>6, <1>7
<1>9. Body(response, cap) = [shown |-> CapText(read, cap).shown, total |-> total,
                             truncated |-> CapText(read, cap).truncated \/ bytes > read]
  BY <1>2, <1>3, <1>4 DEF Body
<1>10. /\ CapText(read, cap).shown \in Nat 
       /\ ~CapText(read, cap).truncated => CapText(read, cap).shown = read
  BY <1>7, CapTextWhole
<1>11. ~(bytes > read) => read = total
  BY <1>5, <1>7, <1>8
<1>12. /\ Body(response, cap).shown = CapText(read, cap).shown
       /\ Body(response, cap).total = total
  BY <1>9
<1>13. ~Body(response, cap).truncated => ~CapText(read, cap).truncated /\ ~(bytes > read)
  <2> DEFINE marked == CapText(read, cap).truncated \/ bytes > read
  <2>1. Body(response, cap).truncated = marked
    <3>1. Body(response, cap) = [shown |-> CapText(read, cap).shown, total |-> total,
                                 truncated |-> marked]
      BY <1>9
    <3> HIDE DEF marked
    <3> QED
      BY <3>1
  <2> QED
    BY <2>1, Zenon
<1> QED
  BY <1>7, <1>10, <1>11, <1>12, <1>13

\* The text of a page that is not marked is all of the page (web.fetch).
LEMMA PageWhole ==
  ASSUME NEW response \in Responses, NEW cap \in Nat \ {0}
  PROVE  ~Page(response, cap).truncated =>
           Page(response, cap).shown = Page(response, cap).total
<1>1. response.markup \in Nat \ {0} /\ 8 * cap \in Nat \ {0}
  BY ToolsAssumption
<1>2. PICK body : body = Body(response, 8 * cap)
  OBVIOUS
<1>3. /\ body.shown \in Nat /\ body.total \in Nat
      /\ ~body.truncated => body.shown = body.total
  BY <1>1, <1>2, BodyWhole
<1>4. PICK text : text = body.shown \div response.markup
  OBVIOUS
<1>5. text \in Nat
  BY <1>1, <1>3, <1>4
<1>6. ~CapText(text, cap).truncated => CapText(text, cap).shown = text
  BY <1>5, CapTextWhole
<1>7. Page(response, cap) =
        [shown |-> CapText(text, cap).shown, total |-> body.total \div response.markup,
         truncated |-> CapText(text, cap).truncated \/ body.truncated]
  BY <1>2, <1>4 DEF Page
<1>8. /\ Page(response, cap).shown = CapText(text, cap).shown
      /\ Page(response, cap).total = body.total \div response.markup
  BY <1>7
<1>9. ~Page(response, cap).truncated => ~CapText(text, cap).truncated /\ ~body.truncated
  <2> DEFINE marked == CapText(text, cap).truncated \/ body.truncated
  <2>1. Page(response, cap).truncated = marked
    <3>1. Page(response, cap) = [shown |-> CapText(text, cap).shown,
                                 total |-> body.total \div response.markup,
                                 truncated |-> marked]
      BY <1>7
    <3> HIDE DEF marked
    <3> QED
      BY <3>1
  <2> QED
    BY <2>1, Zenon
<1> QED
  BY <1>3, <1>4, <1>6, <1>8, <1>9

-----------------------------------------------------------------------------
\* A call that only read something, and is settled.
LEMMA ReadingTells ==
  ASSUME CallInv, UnderWayInv,
         call.step \in {"reading", "listing", "searching", "requesting"},
         call' = NoCall, events' = events, touched' = touched, scratch' = {},
         result'.status = "ok", result'.tool = call.tool, result'.artifacts = {},
         ~result'.output.truncated => result'.output.shown = result'.output.total
  PROVE  CallInv' /\ UnderWayInv' /\ EventsInv' /\ Told'
<1>1. ~At("idle") /\ ~At("running") /\ call # NoCall
  BY DEF At, NoCall
<1>2. call.tool \notin {"shell.run", "git", "code.run"}
  BY <1>1 DEF CallInv, ToolSteps
<1>3. CallInv' /\ UnderWayInv'
  BY DEF CallInv, UnderWayInv, NoCall, At
<1>4. events = << >> /\ touched = {}
  BY <1>1 DEF UnderWayInv
<1>5. EventsInv'
  BY <1>4 DEF EventsInv
<1>6. \A type : AnnouncedIn(events, type) = {} /\ TimesIn(events, type) = 0
  BY <1>4, NothingTold
<1>7. ChangesAnnounced'
  <2>1. /\ Announced("FILE_CREATED")' = {} /\ Announced("FILE_CHANGED")' = {}
        /\ Announced("FILE_DELETED")' = {}
    <3>1. /\ AnnouncedIn(events, "FILE_CREATED") = {} /\ AnnouncedIn(events, "FILE_CHANGED") = {}
          /\ AnnouncedIn(events, "FILE_DELETED") = {}
      BY <1>6
    <3> QED
      BY <3>1 DEF Announced, AnnouncedIn, PositionsIn
  <2>2. Did("written")' = {} /\ Did("deleted")' = {}
    BY <1>4 DEF Did
  <2> QED
    BY <2>1, <2>2 DEF ChangesAnnounced
<1>8. CommandsClosed'
  <2>1. Times("COMMAND_FINISHED")' = 0 /\ Times("COMMAND_STARTED")' = 0
    BY <1>6 DEF Times, TimesIn, PositionsIn
  <2> QED
    BY <1>2, <2>1 DEF CommandsClosed
<1>9. ScratchCleared' /\ TruncationTold'
  BY DEF ScratchCleared, TruncationTold
<1> QED
  BY <1>3, <1>5, <1>7, <1>8, <1>9 DEF Told

\* What holds of a step of a tool, whichever it is.
ToolsKeep == TypesInv' /\ CallInv' /\ UnderWayInv' /\ EventsInv' /\ Told'

LEMMA ReadFileKeeps ==
  ASSUME TypesInv, CallInv, UnderWayInv, ReadFile
  PROVE  ToolsKeep
<1>1. /\ At("reading") /\ Target \in Files /\ call' = NoCall
      /\ result' = [Ok EXCEPT !.output = CapText(files[Target].length, Cap(call.raw.cap))]
      /\ UNCHANGED <<files, leftover, events, scratch, touched>>
  BY DEF ReadFile, Settles
<1>2. /\ result'.status = "ok" /\ result'.error = "none" /\ result'.tool = call.tool
      /\ result'.artifacts = {}
      /\ result'.output = CapText(files[Target].length, Cap(call.raw.cap))
  BY <1>1 DEF Ok, NoResult
<1>3. files[Target].length \in Nat
  BY <1>1, ToolsAssumption DEF TypesInv, Absent
<1>4. Cap(call.raw.cap) \in Nat
  <2>1. call.raw.cap \in Nat
    BY <1>1, ToolsAssumption DEF CallInv, NoCall, At
  <2> QED
    BY <2>1, CapType
<1>5. ~result'.output.truncated => result'.output.shown = result'.output.total
  BY <1>2, <1>3, <1>4, CapTextWhole
<1>6. scratch' = {}
  BY <1>1 DEF UnderWayInv, At
<1>7. CallInv' /\ UnderWayInv' /\ EventsInv' /\ Told'
  BY <1>1, <1>2, <1>5, <1>6, ReadingTells DEF At
<1>8. TypesInv'
  BY <1>1, <1>2 DEF TypesInv
<1> QED
  BY <1>7, <1>8 DEF ToolsKeep

LEMMA ListDirectoryKeeps ==
  ASSUME TypesInv, CallInv, UnderWayInv, ListDirectory
  PROVE  ToolsKeep
<1> DEFINE listed == {f \in Files : Exists(f)}
<1>1. /\ At("listing") /\ call' = NoCall
      /\ result' = [Ok EXCEPT !.output = CapText(Cardinality(listed), MaxListEntries)]
      /\ UNCHANGED <<files, leftover, events, scratch, touched>>
  BY DEF ListDirectory, Settles
<1>2. Cardinality(listed) \in Nat
  BY ToolsAssumption, FS_Subset, FS_CardinalityType
<1> HIDE DEF listed
<1>3. /\ result'.status = "ok" /\ result'.error = "none" /\ result'.tool = call.tool
      /\ result'.artifacts = {}
      /\ result'.output = CapText(Cardinality(listed), MaxListEntries)
  BY <1>1 DEF Ok, NoResult
<1>4. ~result'.output.truncated => result'.output.shown = result'.output.total
  BY <1>2, <1>3, ToolOptionsAssumption, CapTextWhole
<1>5. scratch' = {}
  BY <1>1 DEF UnderWayInv, At
<1>6. CallInv' /\ UnderWayInv' /\ EventsInv' /\ Told'
  BY <1>1, <1>3, <1>4, <1>5, ReadingTells DEF At
<1>7. TypesInv'
  BY <1>1, <1>3 DEF TypesInv
<1> QED
  BY <1>6, <1>7 DEF ToolsKeep

LEMMA SearchReturnsKeeps ==
  ASSUME TypesInv, CallInv, UnderWayInv, SearchReturns
  PROVE  ToolsKeep
<1>1. /\ At("searching") /\ call' = NoCall /\ result' = Ok
      /\ UNCHANGED <<files, leftover, events, scratch, touched>>
  BY DEF SearchReturns, Settles
<1>2. /\ result'.status = "ok" /\ result'.error = "none" /\ result'.tool = call.tool
      /\ result'.artifacts = {} /\ result'.output.shown = result'.output.total
  BY <1>1 DEF Ok, NoResult, NoOutput
<1>3. scratch' = {}
  BY <1>1 DEF UnderWayInv, At
<1>4. CallInv' /\ UnderWayInv' /\ EventsInv' /\ Told'
  BY <1>1, <1>2, <1>3, ReadingTells DEF At
<1>5. TypesInv'
  BY <1>1, <1>2 DEF TypesInv
<1> QED
  BY <1>4, <1>5 DEF ToolsKeep

LEMMA CurlReturnsKeeps ==
  ASSUME TypesInv, CallInv, UnderWayInv, NEW response \in Responses, CurlReturns(response)
  PROVE  ToolsKeep
<1>1. /\ At("requesting") /\ scratch' = scratch \ ScriptRemoves
      /\ UNCHANGED <<files, leftover, events, touched>>
  BY DEF CurlReturns
<1>2. CASE TransportFailed(response)
  <2>1. Fails("transport")
    BY <1>2 DEF CurlReturns
  <2>2. /\ result'.status = "error" /\ result'.error # "none"
        /\ CallInv' /\ UnderWayInv' /\ EventsInv' /\ Told'
    BY <1>1, <2>1, FailingTells DEF At
  <2>3. TypesInv'
    BY <1>1, <2>2 DEF TypesInv
  <2> QED
    BY <2>2, <2>3 DEF ToolsKeep
<1>3. CASE ~TransportFailed(response)
  <2> DEFINE text == IF call.tool = "web.fetch" THEN Page(response, Cap(call.raw.cap))
                     ELSE Body(response, Cap(call.raw.cap))
  <2>1. /\ call' = NoCall
        /\ result' = [Ok EXCEPT !.http = response.status, !.exit = response.exit, !.output = text]
    BY <1>3 DEF CurlReturns, Settles
  <2>2. Cap(call.raw.cap) \in Nat \ {0}
    <3>1. call.raw.cap \in Nat
      BY <1>1, ToolsAssumption DEF CallInv, NoCall, At
    <3> QED
      BY <3>1, CapType
  <2>3. ~text.truncated => text.shown = text.total
    BY <2>2, PageWhole, BodyWhole
  <2> HIDE DEF text
  <2>4. /\ result'.status = "ok" /\ result'.error = "none" /\ result'.tool = call.tool
        /\ result'.artifacts = {} /\ result'.output = text
    BY <2>1 DEF Ok, NoResult
  <2>5. scratch' = {}
    BY <1>1 DEF UnderWayInv, At, ScriptRemoves
  <2>6. CallInv' /\ UnderWayInv' /\ EventsInv' /\ Told'
    BY <1>1, <2>1, <2>3, <2>4, <2>5, ReadingTells DEF At
  <2>7. TypesInv'
    BY <1>1, <2>4, <2>5 DEF TypesInv
  <2> QED
    BY <2>6, <2>7 DEF ToolsKeep
<1> QED
  BY <1>2, <1>3

LEMMA CurlTimesOutKeeps ==
  ASSUME TypesInv, CallInv, UnderWayInv, CurlTimesOut
  PROVE  ToolsKeep
<1>1. /\ At("requesting") /\ scratch' \in {scratch, scratch \cup {"response"}}
      /\ Fails("transport") /\ UNCHANGED <<files, leftover, events, touched>>
  BY DEF CurlTimesOut
<1>2. /\ result'.status = "error" /\ result'.error # "none"
      /\ CallInv' /\ UnderWayInv' /\ EventsInv' /\ Told'
  BY <1>1, FailingTells DEF At
<1>3. TypesInv'
  BY <1>1, <1>2 DEF TypesInv
<1> QED
  BY <1>2, <1>3 DEF ToolsKeep

LEMMA NotFoundKeeps ==
  ASSUME TypesInv, CallInv, UnderWayInv, NotFound
  PROVE  ToolsKeep
<1>1. PICK cause \in {"not_found", "internal"} : Fails(cause)
  BY DEF NotFound
<1>2. /\ call.step \in {"reading", "listing", "deleting"}
      /\ UNCHANGED <<files, leftover, events, scratch, touched>>
  BY DEF NotFound, At
<1>3. cause \in EnvironmentErrors
  BY DEF EnvironmentErrors
<1>4. /\ result'.status = "error" /\ result'.error # "none"
      /\ CallInv' /\ UnderWayInv' /\ EventsInv' /\ Told'
  BY <1>1, <1>2, <1>3, FailingTells DEF At
<1>5. TypesInv'
  BY <1>2, <1>4 DEF TypesInv
<1> QED
  BY <1>4, <1>5 DEF ToolsKeep

LEMMA CallFailsKeeps ==
  ASSUME TypesInv, CallInv, UnderWayInv,
         NEW cause \in EnvironmentErrors \ {"not_found"}, CallFails(cause)
  PROVE  ToolsKeep
<1>1. ~At("idle") /\ Fails(cause) /\ UNCHANGED <<leftover, events>>
  BY DEF CallFails
<1>2. touched \subseteq touched'
  <2>1. At("saving") => touched = {}
    BY DEF UnderWayInv, At
  <2> QED
    BY <2>1 DEF CallFails
<1>3. /\ result'.status = "error" /\ result'.error # "none"
      /\ CallInv' /\ UnderWayInv' /\ EventsInv' /\ Told'
  BY <1>1, <1>2, FailingTells
<1>4. call.raw.content \in Contents
  BY <1>1, ToolsAssumption DEF CallInv, NoCall, At
<1>5. scratch' \subseteq {"request", "response"} /\ files' \in [Files -> Contents \cup {Absent}]
  BY <1>4 DEF CallFails, TypesInv
<1>6. TypesInv'
  BY <1>1, <1>3, <1>5 DEF TypesInv
<1> QED
  BY <1>3, <1>6 DEF ToolsKeep

\* A call that was not told of anything yet, and is not settled.
LEMMA GoingOnTells ==
  ASSUME ~At("idle"), ~At("running"), TypesInv, CallInv, UnderWayInv,
         events' = events, result' = result
  PROVE  EventsInv' /\ Told'
<1>1. events = << >> /\ touched = {} /\ result = NoResult
  BY DEF UnderWayInv
<1>2. /\ AnnouncedIn(events, "FILE_CREATED") = {} /\ AnnouncedIn(events, "FILE_CHANGED") = {}
      /\ AnnouncedIn(events, "FILE_DELETED") = {}
      /\ TimesIn(events, "COMMAND_FINISHED") = 0 /\ TimesIn(events, "COMMAND_STARTED") = 0
  BY <1>1, NothingTold
<1>3. /\ Announced("FILE_CREATED")' = {} /\ Announced("FILE_CHANGED")' = {}
      /\ Announced("FILE_DELETED")' = {}
  BY <1>2 DEF Announced, AnnouncedIn, PositionsIn
<1>4. Times("COMMAND_FINISHED")' = 0 /\ Times("COMMAND_STARTED")' = 0
  BY <1>2 DEF Times, TimesIn, PositionsIn
<1>5. result'.status # "ok"
  BY <1>1 DEF NoResult
<1>6. ChangesAnnounced' /\ CommandsClosed'
  BY <1>3, <1>4, <1>5 DEF ChangesAnnounced, CommandsClosed
<1>7. EventsInv' /\ ScratchCleared' /\ TruncationTold'
  BY <1>1, <1>5 DEF EventsInv, ScratchCleared, TruncationTold
<1> QED
  BY <1>6, <1>7 DEF Told

LEMMA LookForFileKeeps ==
  ASSUME TypesInv, CallInv, UnderWayInv, LookForFile
  PROVE  ToolsKeep
<1>1. /\ At("looking") /\ call' = [call EXCEPT !.step = "writing", !.existed = Exists(Target)]
      /\ UNCHANGED <<files, leftover, events, scratch, touched, result>>
  BY DEF LookForFile
<1>2. call # NoCall /\ ~At("idle") /\ ~At("running") /\ ~At("requesting")
  BY <1>1 DEF NoCall, At
<1>3. EventsInv' /\ Told'
  BY <1>1, <1>2, GoingOnTells
<1>4. call'.tool = call.tool /\ call'.raw = call.raw /\ call'.step = "writing"
  BY <1>1, <1>2 DEF CallInv
<1>5. CallInv'
  BY <1>1, <1>2, <1>4 DEF CallInv, ToolSteps, At
<1>6. UnderWayInv'
  BY <1>1, <1>2, <1>4 DEF UnderWayInv, At
<1>7. TypesInv'
  BY <1>1 DEF TypesInv
<1> QED
  BY <1>3, <1>5, <1>6, <1>7 DEF ToolsKeep

LEMMA StageRequestKeeps ==
  ASSUME TypesInv, CallInv, UnderWayInv, StageRequest
  PROVE  ToolsKeep
<1>1. /\ At("staging") /\ scratch' = {"request"} /\ call' = [call EXCEPT !.step = "requesting"]
      /\ UNCHANGED <<files, leftover, events, touched, result>>
  BY DEF StageRequest, Goes
<1>2. call # NoCall /\ ~At("idle") /\ ~At("running")
  BY <1>1 DEF NoCall, At
<1>3. EventsInv' /\ Told'
  BY <1>1, <1>2, GoingOnTells
<1>4. call'.tool = call.tool /\ call'.raw = call.raw /\ call'.step = "requesting"
  BY <1>1, <1>2 DEF CallInv
<1>5. CallInv'
  BY <1>1, <1>2, <1>4 DEF CallInv, ToolSteps, At
<1>6. UnderWayInv'
  BY <1>1, <1>2, <1>4 DEF UnderWayInv, At
<1>7. TypesInv'
  BY <1>1 DEF TypesInv
<1> QED
  BY <1>3, <1>5, <1>6, <1>7 DEF ToolsKeep

LEMMA SaveProgramKeeps ==
  ASSUME TypesInv, CallInv, UnderWayInv, SaveProgram
  PROVE  ToolsKeep
<1>1. /\ At("saving") /\ touched' = {Event("written", CodeFile)}
      /\ events' = <<Event("FILE_CREATED", CodeFile), Event("COMMAND_STARTED", Root)>>
      /\ call' = [call EXCEPT !.step = "running"]
      /\ UNCHANGED <<files, leftover, scratch, result>>
  BY DEF SaveProgram, Goes
<1>2. call # NoCall /\ ~At("idle") /\ ~At("running") /\ ~At("requesting") /\ CodeFile' = CodeFile
  BY <1>1 DEF NoCall, At, CodeFile
<1>3. /\ call.tool = "code.run"
      /\ call'.tool = call.tool /\ call'.raw = call.raw /\ call'.step = "running"
  BY <1>1, <1>2 DEF CallInv, ToolSteps, At
<1>4. CallInv'
  BY <1>1, <1>2, <1>3 DEF CallInv, ToolSteps
<1>5. UnderWayInv'
  BY <1>1, <1>2, <1>3 DEF UnderWayInv, At
<1>6. TypesInv'
  BY <1>1 DEF TypesInv
<1>7. ~At("idle")'
  BY <1>3 DEF At
<1>8. result'.status = "none"
  BY <1>1, <1>2 DEF UnderWayInv, NoResult
<1>9. EventsInv' /\ ChangesAnnounced' /\ CommandsClosed'
  <2>1. PICK c, e : c = Event("FILE_CREATED", CodeFile) /\ e = Event("COMMAND_STARTED", Root)
    OBVIOUS
  <2>2. /\ c \in TypedEvent /\ c.type = "FILE_CREATED" /\ c.path = CodeFile
        /\ e \in TypedEvent /\ e.type = "COMMAND_STARTED"
    BY <2>1, PathsInside, EventsTyped DEF EventTypes
  <2>3. PICK told : told = <<c>>
    OBVIOUS
  <2>4. events' = Append(told, e) /\ told \in Seq(TypedEvent) /\ events' \in Seq(TypedEvent)
    BY <1>1, <2>1, <2>2, <2>3
  <2>5. /\ TimesIn(told, "COMMAND_FINISHED") = 0 /\ TimesIn(told, "COMMAND_STARTED") = 0
        /\ AnnouncedIn(told, "FILE_CREATED") = {CodeFile}
        /\ AnnouncedIn(told, "FILE_CHANGED") = {} /\ AnnouncedIn(told, "FILE_DELETED") = {}
    BY <2>2, <2>3, ToldInOne
  <2>6. /\ TimesIn(events', "COMMAND_FINISHED") = 0
        /\ TimesIn(events', "COMMAND_STARTED") = 1
        /\ AnnouncedIn(events', "FILE_CREATED") = {CodeFile}
        /\ AnnouncedIn(events', "FILE_CHANGED") = {} /\ AnnouncedIn(events', "FILE_DELETED") = {}
    BY <2>2, <2>4, <2>5, OneMoreTold
  <2>7. /\ Announced("FILE_CREATED")' = {CodeFile}
        /\ Announced("FILE_CHANGED")' = {} /\ Announced("FILE_DELETED")' = {}
    BY <2>6 DEF Announced, AnnouncedIn, PositionsIn
  <2>8. CodeFile \in Did("written")'
    <3>1. /\ Event("written", CodeFile) \in touched'
          /\ Event("written", CodeFile).type = "written"
          /\ Event("written", CodeFile).path = CodeFile
      BY <1>1 DEF Event
    <3> QED
      BY <3>1, Zenon DEF Did
  <2>9. Times("COMMAND_FINISHED")' = 0 /\ Times("COMMAND_STARTED")' = 1
    BY <2>6 DEF Times, TimesIn, PositionsIn
  <2>10. ChangesAnnounced'
    BY <1>8, <2>7, <2>8 DEF ChangesAnnounced
  <2>11. CommandsClosed'
    BY <1>8, <2>9 DEF CommandsClosed
  <2> QED
    BY <2>4, <2>10, <2>11 DEF EventsInv, TypedEvent
<1>10. ScratchCleared' /\ TruncationTold'
  BY <1>8 DEF ScratchCleared, TruncationTold
<1> QED
  BY <1>4, <1>5, <1>6, <1>9, <1>10 DEF ToolsKeep, Told

\* A call that changed one file, announced it and is settled (fs.write, fs.delete).
LEMMA ChangingTells ==
  ASSUME CallInv, UnderWayInv, ~At("idle"), ~At("running"), ~At("requesting"),
         call.tool \in FileTools, NEW type \in FileEvents, NEW what \in {"written", "deleted"},
         what = "deleted" <=> type = "FILE_DELETED",
         call' = NoCall, scratch' = scratch,
         touched' = touched \cup {Event(what, Target)},
         events' = Append(events, Event(type, Target)),
         result'.status = "ok", result'.tool = call.tool,
         result'.artifacts = IF what = "written" THEN {Target} ELSE {},
         result'.output.shown = result'.output.total
  PROVE  CallInv' /\ UnderWayInv' /\ EventsInv' /\ Told'
<1>1. call # NoCall
  BY DEF At, NoCall
<1>2. CallInv' /\ UnderWayInv'
  BY DEF CallInv, UnderWayInv, NoCall, At
<1>3. events = << >> /\ touched = {} /\ scratch = {}
  BY DEF UnderWayInv
<1>4. PICK path : path = Target
  OBVIOUS
<1>5. path \in Seq(Segments)
  BY <1>1, <1>4, PathsInside DEF CallInv, Target
<1>6. PICK e : e = Event(type, path)
  OBVIOUS
<1>7. e \in TypedEvent /\ e.type = type /\ e.path = path /\ events' = <<e>>
  <2>1. type \in EventTypes
    BY DEF FileEvents, EventTypes
  <2> QED
    BY <1>3, <1>4, <1>5, <1>6, <2>1, EventsTyped
<1>8. EventsInv'
  BY <1>7 DEF EventsInv, TypedEvent
<1>9. /\ TimesIn(<<e>>, "COMMAND_FINISHED") = 0 /\ TimesIn(<<e>>, "COMMAND_STARTED") = 0
      /\ AnnouncedIn(<<e>>, "FILE_CREATED") = IF type = "FILE_CREATED" THEN {path} ELSE {}
      /\ AnnouncedIn(<<e>>, "FILE_CHANGED") = IF type = "FILE_CHANGED" THEN {path} ELSE {}
      /\ AnnouncedIn(<<e>>, "FILE_DELETED") = IF type = "FILE_DELETED" THEN {path} ELSE {}
  BY <1>7, ToldInOne DEF FileEvents
<1>10. /\ Announced("FILE_CREATED")' = IF type = "FILE_CREATED" THEN {path} ELSE {}
       /\ Announced("FILE_CHANGED")' = IF type = "FILE_CHANGED" THEN {path} ELSE {}
       /\ Announced("FILE_DELETED")' = IF type = "FILE_DELETED" THEN {path} ELSE {}
  BY <1>7, <1>9 DEF Announced, AnnouncedIn, PositionsIn
<1>11. /\ Did("written")' = IF what = "written" THEN {path} ELSE {}
       /\ Did("deleted")' = IF what = "deleted" THEN {path} ELSE {}
  <2>1. touched' = {Event(what, path)}
    BY <1>3, <1>4
  <2>2. Event(what, path).type = what /\ Event(what, path).path = path
    BY DEF Event
  <2> QED
    BY <2>1, <2>2 DEF Did
<1>12. ChangesAnnounced'
  <2>1. result'.artifacts = IF what = "written" THEN {path} ELSE {}
    BY <1>4
  <2> QED
    BY <1>10, <1>11, <2>1 DEF ChangesAnnounced, FileEvents
<1>13. CommandsClosed'
  <2>1. Times("COMMAND_FINISHED")' = 0 /\ Times("COMMAND_STARTED")' = 0
    BY <1>7, <1>9 DEF Times, TimesIn, PositionsIn
  <2> QED
    BY <2>1 DEF CommandsClosed, FileTools
<1>14. ScratchCleared' /\ TruncationTold'
  BY <1>3 DEF ScratchCleared, TruncationTold
<1> QED
  BY <1>2, <1>8, <1>12, <1>13, <1>14 DEF Told

LEMMA WriteFileKeeps ==
  ASSUME TypesInv, CallInv, UnderWayInv, WriteFile
  PROVE  ToolsKeep
<1> DEFINE type == IF call.existed THEN "FILE_CHANGED" ELSE "FILE_CREATED"
<1>1. /\ At("writing") /\ Target \in Files /\ files' = [files EXCEPT ![Target] = call.raw.content]
      /\ touched' = touched \cup {Event("written", Target)}
      /\ events' = Append(events, Event(type, Target))
      /\ result' = [Ok EXCEPT !.created = ~call.existed, !.artifacts = {Target}]
      /\ call' = NoCall /\ UNCHANGED <<leftover, scratch>>
  BY DEF WriteFile, Settles
<1>2. type \in FileEvents /\ type # "FILE_DELETED"
  BY DEF FileEvents
<1> HIDE DEF type
<1>3. call # NoCall /\ ~At("idle") /\ ~At("running") /\ ~At("requesting")
  BY <1>1 DEF NoCall, At
<1>4. call.tool \in FileTools /\ call.raw \in RawInputs
  BY <1>1, <1>3 DEF CallInv, ToolSteps, FileTools, At
<1>5. /\ result'.status = "ok" /\ result'.error = "none" /\ result'.tool = call.tool
      /\ result'.artifacts = {Target} /\ result'.output.shown = result'.output.total
  BY <1>1 DEF Ok, NoResult, NoOutput
<1>6. CallInv' /\ UnderWayInv' /\ EventsInv' /\ Told'
  BY <1>1, <1>2, <1>3, <1>4, <1>5, ChangingTells
<1>7. files' \in [Files -> Contents \cup {Absent}]
  BY <1>1, <1>4, ToolsAssumption DEF TypesInv
<1>8. TypesInv'
  BY <1>1, <1>5, <1>7 DEF TypesInv
<1> QED
  BY <1>6, <1>8 DEF ToolsKeep

LEMMA DeleteFileKeeps ==
  ASSUME TypesInv, CallInv, UnderWayInv, DeleteFile
  PROVE  ToolsKeep
<1>1. /\ At("deleting") /\ Target \in Files /\ files' = [files EXCEPT ![Target] = Absent]
      /\ touched' = touched \cup {Event("deleted", Target)}
      /\ events' = Append(events, Event("FILE_DELETED", Target))
      /\ result' = Ok /\ call' = NoCall /\ UNCHANGED <<leftover, scratch>>
  BY DEF DeleteFile, Settles
<1>2. "FILE_DELETED" \in FileEvents
  BY DEF FileEvents
<1>3. call # NoCall /\ ~At("idle") /\ ~At("running") /\ ~At("requesting")
  BY <1>1 DEF NoCall, At
<1>4. call.tool \in FileTools
  BY <1>1, <1>3 DEF CallInv, ToolSteps, FileTools, At
<1>5. /\ result'.status = "ok" /\ result'.error = "none" /\ result'.tool = call.tool
      /\ result'.artifacts = {} /\ result'.output.shown = result'.output.total
  BY <1>1 DEF Ok, NoResult, NoOutput
<1>6. CallInv' /\ UnderWayInv' /\ EventsInv' /\ Told'
  BY <1>1, <1>2, <1>3, <1>4, <1>5, ChangingTells
<1>7. files' \in [Files -> Contents \cup {Absent}]
  BY <1>1 DEF TypesInv
<1>8. TypesInv'
  BY <1>1, <1>5, <1>7 DEF TypesInv
<1> QED
  BY <1>6, <1>8 DEF ToolsKeep

LEMMA CommandReturnsKeeps ==
  ASSUME TypesInv, CallInv, UnderWayInv,
         NEW exit, NEW length \in Nat, CommandReturns(exit, length)
  PROVE  ToolsKeep
<1>1. /\ At("running") /\ CommandEffect /\ events' = events \o Narration(exit, length)
      /\ call' = NoCall
      /\ result' = [Ok EXCEPT !.exit = exit, !.output = CapText(length, MaxOutput),
                              !.artifacts = IF call.tool = "code.run" THEN {CodeFile} ELSE {}]
      /\ UNCHANGED <<scratch, touched>>
  BY DEF CommandReturns, Settles
<1>2. ~At("idle") /\ ~At("requesting") /\ scratch = {}
  BY <1>1 DEF UnderWayInv, At
<1>3. /\ result'.status = "ok" /\ result'.error = "none" /\ result'.tool = call.tool
      /\ result'.artifacts = IF call.tool = "code.run" THEN {CodeFile} ELSE {}
      /\ result'.output = CapText(length, MaxOutput)
  BY <1>1 DEF Ok, NoResult
<1>4. result'.output.shown = result'.output.total \/ result'.output.truncated
  BY <1>3, ToolOptionsAssumption, CapTextWhole
<1>5. CallInv' /\ UnderWayInv'
  BY <1>1 DEF CallInv, UnderWayInv, NoCall, At
<1>6. PICK saved \in SUBSET {CodeFile} :
        /\ touched = {Event("written", path) : path \in saved}
        /\ AnnouncedIn(events, "FILE_CREATED") = saved
        /\ saved # {} <=> At("running") /\ call.tool = "code.run"
  BY <1>2, BeforeTheEnd
<1>7. /\ events \in Seq(TypedEvent)
      /\ TimesIn(events, "COMMAND_FINISHED") = 0 /\ TimesIn(events, "COMMAND_STARTED") = 1
      /\ AnnouncedIn(events, "FILE_CHANGED") = {} /\ AnnouncedIn(events, "FILE_DELETED") = {}
  BY <1>1, <1>2, BeforeTheEnd
<1>8. /\ events' \in Seq(TypedEvent)
      /\ TimesIn(events', "COMMAND_FINISHED") = 1 /\ TimesIn(events', "COMMAND_STARTED") = 1
      /\ AnnouncedIn(events', "FILE_CREATED") = saved
      /\ AnnouncedIn(events', "FILE_CHANGED") = {} /\ AnnouncedIn(events', "FILE_DELETED") = {}
  BY <1>1, <1>6, <1>7, NarrationTold
<1>9. ChangesAnnounced'
  <2>1. /\ Announced("FILE_CREATED")' = saved
        /\ Announced("FILE_CHANGED")' = {} /\ Announced("FILE_DELETED")' = {}
    BY <1>8 DEF Announced, AnnouncedIn, PositionsIn
  <2>2. \A path : Event("written", path).type = "written" /\ Event("written", path).path = path
    BY DEF Event
  <2>3. Did("written")' = saved /\ Did("deleted")' = {}
    <3>1. touched' = touched
      BY <1>1
    <3>2. CASE saved = {}
      BY <1>6, <3>1, <3>2 DEF Did
    <3>3. CASE saved = {CodeFile}
      <4>1. touched' = {Event("written", CodeFile)}
        BY <1>6, <3>1, <3>3
      <4> QED
        BY <2>2, <3>3, <4>1 DEF Did
    <3> QED
      BY <3>2, <3>3
  <2>4. result'.artifacts = saved
    BY <1>1, <1>3, <1>6
  <2> QED
    BY <2>1, <2>3, <2>4 DEF ChangesAnnounced
<1>10. CommandsClosed'
  <2>1. Times("COMMAND_FINISHED")' = 1 /\ Times("COMMAND_STARTED")' = 1
    BY <1>8 DEF Times, TimesIn, PositionsIn
  <2> QED
    BY <2>1 DEF CommandsClosed
<1>11. EventsInv' /\ ScratchCleared' /\ TruncationTold'
  BY <1>1, <1>2, <1>4, <1>8 DEF EventsInv, ScratchCleared, TruncationTold, TypedEvent
<1>12. files' \in [Files -> Contents \cup {Absent}] /\ leftover' \in BOOLEAN
  BY <1>1 DEF TypesInv, CommandEffect
<1>13. TypesInv'
  BY <1>1, <1>3, <1>12 DEF TypesInv
<1> QED
  BY <1>5, <1>9, <1>10, <1>11, <1>13 DEF ToolsKeep, Told

LEMMA InvokeKeeps ==
  ASSUME TypesInv, CallInv, NEW tool \in ToolNames \cup {"unknown"}, NEW raw \in RawInputs,
         Invoke(tool, raw)
  PROVE  ToolsKeep
<1>1. At("idle") /\ scratch' = {} /\ touched' = {} /\ UNCHANGED <<files, leftover>>
  BY DEF Invoke
<1>2. CASE tool \in Registered /\ Parses(tool, raw)
  <2> DEFINE target == Resolved(raw.path)
  <2>1. /\ call' = [tool |-> tool, raw |-> raw, step |-> FirstStep(tool, raw), existed |-> FALSE]
        /\ events' = IF tool \in {"shell.run", "git"}
                     THEN <<Event("COMMAND_STARTED", target)>> ELSE << >>
        /\ result' = NoResult
    BY <1>2 DEF Invoke
  <2>2. call'.tool = tool /\ call'.raw = raw /\ call'.step = FirstStep(tool, raw)
    BY <2>1
  <2>3. <<tool, FirstStep(tool, raw)>> \in ToolSteps
    BY <1>2 DEF Registered, ToolNames, FileTools, HttpTools, FirstStep, ToolSteps
  <2>4. CallInv'
    BY <1>2, <2>2, <2>3 DEF CallInv
  <2>5. /\ FirstStep(tool, raw) # "idle"
        /\ FirstStep(tool, raw) = "running" <=> tool \in {"shell.run", "git"}
    BY <1>2 DEF Registered, ToolNames, FileTools, HttpTools, FirstStep
  <2>6. UnderWayInv'
    BY <1>1, <2>1, <2>2, <2>5 DEF UnderWayInv, At, Target
  <2>7. TypesInv'
    BY <1>1, <2>1 DEF TypesInv, NoResult
  <2>8. /\ events' \in Seq(TypedEvent)
        /\ TimesIn(events', "COMMAND_FINISHED") = 0 /\ TimesIn(events', "COMMAND_STARTED") \in Nat
        /\ AnnouncedIn(events', "FILE_CREATED") = {}
        /\ AnnouncedIn(events', "FILE_CHANGED") = {} /\ AnnouncedIn(events', "FILE_DELETED") = {}
    <3>1. CASE tool \in {"shell.run", "git"}
      <4>1. PICK e : e = Event("COMMAND_STARTED", target)
        OBVIOUS
      <4>2. e \in TypedEvent /\ e.type = "COMMAND_STARTED"
        BY <4>1, PathsInside, EventsTyped DEF EventTypes
      <4>3. events' = <<e>>
        BY <2>1, <3>1, <4>1
      <4>4. events' \in Seq(TypedEvent)
        BY <4>2, <4>3
      <4>5. TimesIn(<<e>>, "COMMAND_FINISHED") = 0 /\ TimesIn(<<e>>, "COMMAND_STARTED") = 1
        BY <4>2, ToldInOne
      <4>6. /\ AnnouncedIn(<<e>>, "FILE_CREATED") = {}
            /\ AnnouncedIn(<<e>>, "FILE_CHANGED") = {} /\ AnnouncedIn(<<e>>, "FILE_DELETED") = {}
        BY <4>2, ToldInOne
      <4> QED
        BY <4>3, <4>4, <4>5, <4>6
    <3>2. CASE tool \notin {"shell.run", "git"}
      <4>1. events' = << >>
        BY <2>1, <3>2
      <4> QED
        BY <4>1, NothingTold
    <3> QED
      BY <3>1, <3>2
  <2>9. result'.status = "none"
    BY <2>1 DEF NoResult
  <2>10. ChangesAnnounced'
    <3>1. /\ Announced("FILE_CREATED")' = {}
          /\ Announced("FILE_CHANGED")' = {} /\ Announced("FILE_DELETED")' = {}
      BY <2>8 DEF Announced, AnnouncedIn, PositionsIn
    <3> QED
      BY <2>9, <3>1 DEF ChangesAnnounced
  <2>11. CommandsClosed'
    <3>1. Times("COMMAND_FINISHED")' = 0 /\ Times("COMMAND_STARTED")' \in Nat
      BY <2>8 DEF Times, TimesIn, PositionsIn
    <3> QED
      BY <2>9, <3>1 DEF CommandsClosed
  <2>12. EventsInv' /\ ScratchCleared' /\ TruncationTold'
    BY <2>8, <2>9 DEF EventsInv, ScratchCleared, TruncationTold, TypedEvent
  <2> QED
    BY <2>4, <2>6, <2>7, <2>10, <2>11, <2>12 DEF ToolsKeep, Told
<1>3. CASE tool \notin Registered \/ ~Parses(tool, raw)
  <2>1. /\ events' = << >> /\ call' = call
        /\ result'.status = "error" /\ result'.error # "none"
    BY <1>3 DEF Invoke, NoResult
  <2>2. CallInv' /\ UnderWayInv'
    BY <1>1, <2>1 DEF CallInv, UnderWayInv, At
  <2>3. TypesInv'
    BY <1>1, <2>1 DEF TypesInv
  <2>4. /\ TimesIn(events', "COMMAND_FINISHED") = 0 /\ TimesIn(events', "COMMAND_STARTED") = 0
        /\ AnnouncedIn(events', "FILE_CREATED") = {}
        /\ AnnouncedIn(events', "FILE_CHANGED") = {} /\ AnnouncedIn(events', "FILE_DELETED") = {}
    BY <2>1, NothingTold
  <2>5. ChangesAnnounced'
    <3>1. /\ Announced("FILE_CREATED")' = {}
          /\ Announced("FILE_CHANGED")' = {} /\ Announced("FILE_DELETED")' = {}
      BY <2>4 DEF Announced, AnnouncedIn, PositionsIn
    <3> QED
      BY <2>1, <3>1 DEF ChangesAnnounced
  <2>6. CommandsClosed'
    <3>1. Times("COMMAND_FINISHED")' = 0 /\ Times("COMMAND_STARTED")' = 0
      BY <2>4 DEF Times, TimesIn, PositionsIn
    <3> QED
      BY <2>1, <3>1 DEF CommandsClosed
  <2>7. EventsInv' /\ ScratchCleared' /\ TruncationTold'
    BY <2>1 DEF EventsInv, ScratchCleared, TruncationTold
  <2> QED
    BY <2>2, <2>3, <2>5, <2>6, <2>7 DEF ToolsKeep, Told
<1> QED
  BY <1>2, <1>3

LEMMA ToolsUntouched ==
  ASSUME TypesInv, CallInv, UnderWayInv, EventsInv, Told,
         UNCHANGED <<call, events, scratch, touched, result>>,
         files' \in [Files -> Contents \cup {Absent}], leftover' \in BOOLEAN
  PROVE  ToolsKeep
<1>1. TypesInv' /\ CallInv' /\ EventsInv'
  BY DEF TypesInv, CallInv, EventsInv
<1>2. UnderWayInv'
  BY DEF UnderWayInv, At, Target
<1>3. ChangesAnnounced'
  <2>1. /\ Announced("FILE_CREATED")' = Announced("FILE_CREATED")
        /\ Announced("FILE_CHANGED")' = Announced("FILE_CHANGED")
        /\ Announced("FILE_DELETED")' = Announced("FILE_DELETED")
    BY DEF Announced
  <2>2. Did("written")' = Did("written") /\ Did("deleted")' = Did("deleted")
    BY DEF Did
  <2>3. ChangesAnnounced /\ result' = result
    BY DEF Told
  <2> QED
    BY <2>1, <2>2, <2>3 DEF ChangesAnnounced
<1>4. CommandsClosed'
  BY DEF Told, CommandsClosed, Times
<1>5. ScratchCleared' /\ TruncationTold'
  BY DEF Told, ScratchCleared, TruncationTold
<1> QED
  BY <1>1, <1>2, <1>3, <1>4, <1>5 DEF ToolsKeep, Told

LEMMA ToolStepKeeps ==
  ASSUME TypesInv, CallInv, UnderWayInv, EventsInv, ToolStep
  PROVE  ToolsKeep
<1>1. ASSUME NEW tool \in ToolNames \cup {"unknown"}, NEW raw \in RawInputs, Invoke(tool, raw)
      PROVE  ToolsKeep
  BY <1>1, InvokeKeeps
<1>2. ASSUME NEW cause \in EnvironmentErrors \ {"not_found"}, CallFails(cause)
      PROVE  ToolsKeep
  BY <1>2, CallFailsKeeps
<1>3. ASSUME NEW exit \in {0, 1, -1}, NEW length \in OutputLengths, CommandReturns(exit, length)
      PROVE  ToolsKeep
  <2>1. length \in Nat
    BY ToolsAssumption
  <2> QED
    BY <1>3, <2>1, CommandReturnsKeeps
<1>4. ASSUME NEW response \in Responses, CurlReturns(response)
      PROVE  ToolsKeep
  BY <1>4, CurlReturnsKeeps
<1> QED
  BY <1>1, <1>2, <1>3, <1>4, ReadFileKeeps, ListDirectoryKeeps, NotFoundKeeps, LookForFileKeeps,
     WriteFileKeeps, DeleteFileKeeps, SaveProgramKeeps, StageRequestKeeps, CurlTimesOutKeeps,
     SearchReturnsKeeps
  DEF ToolStep

-----------------------------------------------------------------------------
LEMMA CriteriaListed ==
  ASSUME goal \in Goals
  PROVE  Len(Criteria) \in Nat /\ DOMAIN Criteria = 1 .. Len(Criteria)
<1> DEFINE S == VerifiableCriterion \cup {ParseCriterion(line) : line \in VerifiableCriterion}
           parsed == [i \in DOMAIN goal.prose |-> ParseCriterion(goal.prose[i])]
           keep == {i \in DOMAIN parsed : parsed[i] # Unparsed}
<1>1. goal.structured \in Seq(VerifiableCriterion) /\ goal.prose \in Seq(VerifiableCriterion)
  BY GoalsAssumption
<1>2. parsed \in Seq(S)
  <2>1. \A i \in DOMAIN goal.prose : goal.prose[i] \in VerifiableCriterion
    BY <1>1
  <2>2. DOMAIN parsed = 1 .. Len(goal.prose) /\ Len(goal.prose) \in Nat
    BY <1>1
  <2>3. \A i \in DOMAIN goal.prose : parsed[i] \in S
    BY <2>1
  <2> HIDE DEF S
  <2>4. parsed \in [1 .. Len(goal.prose) -> S]
    BY <2>2, <2>3
  <2> HIDE DEF parsed
  <2> QED
    BY <2>2, <2>4
<1>3. goal.structured \in Seq(S)
  BY <1>1
<1> HIDE DEF S, parsed, keep
<1>4. Subsequence(parsed, keep) \in Seq(S)
  BY <1>2, SubsequenceContent DEF KeptPrefix
<1>5. Criteria \in Seq(S)
  <2>1. goal.structured \o Subsequence(parsed, keep) \in Seq(S)
    BY <1>3, <1>4
  <2> QED
    BY <2>1, Zenon DEF Criteria, parsed, keep
<1> QED
  BY <1>5

LEMMA FileHoldsType ==
  ASSUME NEW criterion, NEW fs
  PROVE  FileHolds(criterion, fs) \in BOOLEAN
BY DEF FileHolds

LEMMA ResultHoldsType ==
  ASSUME NEW criterion
  PROVE  ResultHolds(criterion) \in BOOLEAN
BY DEF ResultHolds

\* What was seen of a criterion is not forgotten, and what its file is like now is added.
LEMMA WitnessedFacts ==
  ASSUME ChecksInv, evaluation.step # "idle", NEW fs
  PROVE  /\ Witnessed(fs) \in [1 .. Len(Criteria) -> SUBSET BOOLEAN]
         /\ \A i \in 1 .. Len(Criteria) :
              /\ evaluation.ever[i] \subseteq Witnessed(fs)[i]
              /\ Criteria[i].kind \in FileKinds => FileHolds(Criteria[i], fs) \in Witnessed(fs)[i]
<1> DEFINE all == 1 .. Len(Criteria)
           seen(i) == IF Criteria[i].kind \in FileKinds THEN {FileHolds(Criteria[i], fs)} ELSE {}
<1>1. evaluation.ever \in [all -> SUBSET BOOLEAN]
  BY DEF ChecksInv
<1>2. \A i \in all : seen(i) \subseteq BOOLEAN
  BY FileHoldsType
<1>3. \A i \in all : Criteria[i].kind \in FileKinds => FileHolds(Criteria[i], fs) \in seen(i)
  OBVIOUS
<1>4. Witnessed(fs) = [i \in all |-> evaluation.ever[i] \cup seen(i)]
  BY <1>1, Zenon DEF Witnessed
<1> HIDE DEF all, seen
<1>5. /\ Witnessed(fs) \in [all -> SUBSET BOOLEAN]
      /\ \A i \in all : Witnessed(fs)[i] = evaluation.ever[i] \cup seen(i)
  BY <1>1, <1>2, <1>4
<1> QED
  BY <1>3, <1>5, Zenon DEF all

\* The check of the next criterion is what the criterion is, or was when the evaluation began.
LEMMA CheckedKeeps ==
  ASSUME ChecksInv, evaluation.step \in {"checking", "reading"}, CriteriaLeft,
         goal' = goal, result' = result,
         NEW holds \in BOOLEAN, NEW fs, Checked(holds, fs),
         \/ NextCriterion.kind = "command_exits_zero"
         \/ NextCriterion.kind \in FileKinds /\ FileHolds(NextCriterion, fs) = holds
         \/ /\ NextCriterion.kind \notin FileKinds \cup {"command_exits_zero"}
            /\ ResultHolds(NextCriterion) = holds
  PROVE  ChecksInv'
<1> DEFINE index == Len(evaluation.checks) + 1
           all == 1 .. Len(Criteria)
           extra == IF Criteria[index].kind = "command_exits_zero" THEN {holds} ELSE {}
           seen == Witnessed(fs)
<1>1. /\ evaluation.checks \in Seq(BOOLEAN) /\ Len(evaluation.checks) \in Nat
      /\ evaluation.step # "idle" /\ evaluation.verdict = "none"
      /\ \A i \in 1 .. Len(evaluation.checks) : evaluation.checks[i] \in evaluation.ever[i]
      /\ goal \in Goals
  BY DEF ChecksInv
<1>2. Len(Criteria) \in Nat /\ index \in all
  BY <1>1, CriteriaListed DEF CriteriaLeft
<1>3. seen \in [all -> SUBSET BOOLEAN] /\ \A i \in all : evaluation.ever[i] \subseteq seen[i]
  BY <1>1, WitnessedFacts
<1>4. /\ evaluation'.step = "checking" /\ evaluation'.checks = Append(evaluation.checks, holds)
      /\ evaluation'.verdict = evaluation.verdict
      /\ evaluation'.ever = [seen EXCEPT ![index] = seen[index] \cup extra]
  BY DEF Checked
<1>5. holds \in seen[index] \cup extra
  <2>1. NextCriterion = Criteria[index]
    BY DEF NextCriterion
  <2>2. CASE NextCriterion.kind = "command_exits_zero"
    BY <2>1, <2>2
  <2>3. CASE NextCriterion.kind \in FileKinds /\ FileHolds(NextCriterion, fs) = holds
    <3>1. FileHolds(Criteria[index], fs) \in seen[index]
      BY <1>1, <1>2, <2>1, <2>3, WitnessedFacts
    <3> QED
      BY <2>1, <2>3, <3>1
  <2>4. CASE /\ NextCriterion.kind \notin FileKinds \cup {"command_exits_zero"}
             /\ ResultHolds(NextCriterion) = holds
    <3>1. ResultHolds(Criteria[index]) \in evaluation.ever[index]
      BY <1>1, <1>2, <2>1, <2>4 DEF ChecksInv
    <3> QED
      BY <1>2, <1>3, <2>1, <2>4, <3>1
  <2> QED
    BY <2>2, <2>3, <2>4
<1>6. Criteria' = Criteria
  BY DEF Criteria
<1>7. extra \subseteq BOOLEAN
  OBVIOUS
<1> HIDE DEF extra, seen
<1>8. /\ evaluation'.ever \in [all -> SUBSET BOOLEAN]
      /\ \A i \in all : evaluation.ever[i] \subseteq evaluation'.ever[i]
      /\ evaluation'.ever[index] = seen[index] \cup extra
  BY <1>2, <1>3, <1>4, <1>7
<1>9. /\ evaluation'.checks \in Seq(BOOLEAN) /\ Len(evaluation'.checks) = index
      /\ evaluation'.checks[index] = holds
      /\ \A i \in 1 .. Len(evaluation.checks) : evaluation'.checks[i] = evaluation.checks[i]
  BY <1>1, <1>4, AppendProperties
<1>10. ASSUME NEW i \in 1 .. Len(evaluation'.checks)
       PROVE  evaluation'.checks[i] \in evaluation'.ever[i]
  <2>1. CASE i = index
    BY <1>5, <1>8, <1>9, <2>1
  <2>2. CASE i # index
    <3>1. i \in 1 .. Len(evaluation.checks) /\ i \in all
      BY <1>1, <1>2, <1>9, <2>2
    <3> QED
      BY <1>1, <1>8, <1>9, <3>1
  <2> QED
    BY <2>1, <2>2
<1>11. ASSUME NEW i \in all, Criteria[i].kind \notin FileKinds \cup {"command_exits_zero"}
       PROVE  ResultHolds(Criteria[i])' \in evaluation'.ever[i]
  <2>1. ResultHolds(Criteria[i]) \in evaluation.ever[i]
    BY <1>1, <1>11 DEF ChecksInv
  <2>2. ResultHolds(Criteria[i])' = ResultHolds(Criteria[i])
    BY <1>6 DEF ResultHolds
  <2> QED
    BY <1>8, <2>1, <2>2
<1>12. /\ evaluation'.step = "checking" /\ evaluation'.verdict = "none"
       /\ Len(evaluation'.checks) <= Len(Criteria) /\ goal' \in Goals
  BY <1>1, <1>2, <1>4, <1>9
<1> QED
  BY <1>6, <1>8, <1>9, <1>10, <1>11, <1>12 DEF ChecksInv

\* Where what was checked stays.
LEMMA ChecksUntouched ==
  ASSUME ChecksInv, goal' = goal, evaluation.step # "idle" => result' = result,
         evaluation'.checks = evaluation.checks, evaluation'.verdict = evaluation.verdict,
         \/ evaluation'.step = evaluation.step
         \/ evaluation.step \in {"checking", "reading"} /\ evaluation'.step = "threw"
         \/ /\ evaluation.step = "checking" /\ evaluation'.step = "reading"
            /\ CriteriaLeft /\ NextCriterion.kind \in {"file_contains", "json_file"},
         evaluation.step # "idle" =>
           /\ evaluation'.ever \in [1 .. Len(Criteria) -> SUBSET BOOLEAN]
           /\ \A i \in 1 .. Len(Criteria) : evaluation.ever[i] \subseteq evaluation'.ever[i]
  PROVE  ChecksInv'
<1>1. Criteria' = Criteria
  BY DEF Criteria
<1>2. /\ goal' \in Goals
      /\ evaluation'.step \in {"idle", "checking", "reading", "done", "threw"}
      /\ evaluation'.checks \in Seq(BOOLEAN) /\ Len(evaluation'.checks) <= Len(Criteria)
  BY DEF ChecksInv
<1>3. ASSUME evaluation'.step # "idle"
      PROVE  /\ evaluation'.ever \in [1 .. Len(Criteria) -> SUBSET BOOLEAN]
             /\ \A i \in 1 .. Len(Criteria) :
                  Criteria[i].kind \notin FileKinds \cup {"command_exits_zero"} =>
                    ResultHolds(Criteria[i])' \in evaluation'.ever[i]
             /\ \A i \in 1 .. Len(evaluation'.checks) : evaluation'.checks[i] \in evaluation'.ever[i]
  <2>1. evaluation.step # "idle" /\ result' = result
    BY <1>3
  <2>2. /\ evaluation'.ever \in [1 .. Len(Criteria) -> SUBSET BOOLEAN]
        /\ \A i \in 1 .. Len(Criteria) : evaluation.ever[i] \subseteq evaluation'.ever[i]
    BY <2>1
  <2>3. ASSUME NEW i \in 1 .. Len(Criteria),
               Criteria[i].kind \notin FileKinds \cup {"command_exits_zero"}
        PROVE  ResultHolds(Criteria[i])' \in evaluation'.ever[i]
    <3>1. ResultHolds(Criteria[i]) \in evaluation.ever[i]
      BY <2>1, <2>3 DEF ChecksInv
    <3>2. ResultHolds(Criteria[i])' = ResultHolds(Criteria[i])
      BY <1>1, <2>1 DEF ResultHolds
    <3> QED
      BY <2>2, <3>1, <3>2
  <2>4. ASSUME NEW i \in 1 .. Len(evaluation.checks)
        PROVE  evaluation.checks[i] \in evaluation'.ever[i]
    <3>1. i \in 1 .. Len(Criteria) /\ evaluation.checks[i] \in evaluation.ever[i]
      <4>1. /\ Len(evaluation.checks) \in Nat /\ Len(evaluation.checks) <= Len(Criteria)
            /\ Len(Criteria) \in Nat
        BY CriteriaListed DEF ChecksInv
      <4> QED
        BY <2>1, <4>1 DEF ChecksInv
    <3> QED
      BY <2>2, <3>1
  <2> QED
    BY <2>2, <2>3, <2>4
<1>4. evaluation'.step = "reading" =>
        CriteriaLeft' /\ NextCriterion'.kind \in {"file_contains", "json_file"}
  <2>1. CriteriaLeft' = CriteriaLeft /\ NextCriterion' = NextCriterion
    BY <1>1 DEF CriteriaLeft, NextCriterion
  <2> QED
    BY <2>1 DEF ChecksInv
<1>5. IF evaluation'.step # "done" THEN evaluation'.verdict = "none"
      ELSE /\ Len(evaluation'.checks) = Len(Criteria)
           /\ evaluation'.verdict = VerdictFromDecisive(
                Cardinality({i \in DOMAIN evaluation'.checks : evaluation'.checks[i]}), Len(Criteria))
  BY DEF ChecksInv
<1> QED
  BY <1>1, <1>2, <1>3, <1>4, <1>5 DEF ChecksInv

LEMMA BeginEvaluationKeeps ==
  ASSUME ChecksInv, BeginEvaluation
  PROVE  ChecksInv'
<1> DEFINE Seen(i) == IF Criteria[i].kind \in FileKinds THEN {FileHolds(Criteria[i], files)}
                      ELSE IF Criteria[i].kind = "command_exits_zero" THEN {}
                      ELSE {ResultHolds(Criteria[i])}
<1>1. /\ goal \in Goals /\ goal' = goal /\ result' = result
      /\ evaluation' = [NoEvaluation EXCEPT !.step = "checking",
                                            !.ever = [i \in 1 .. Len(Criteria) |-> Seen(i)]]
  BY DEF BeginEvaluation, ChecksInv, toolVars
<1>2. \A i \in 1 .. Len(Criteria) : Seen(i) \in SUBSET BOOLEAN
  BY FileHoldsType, ResultHoldsType
<1>3. Criteria' = Criteria
  BY <1>1 DEF Criteria
<1>4. ASSUME NEW i \in 1 .. Len(Criteria), Criteria[i].kind \notin FileKinds \cup {"command_exits_zero"}
      PROVE  ResultHolds(Criteria[i])' \in Seen(i)
  <2>1. ResultHolds(Criteria[i])' = ResultHolds(Criteria[i])
    BY <1>1, <1>3 DEF ResultHolds
  <2> QED
    BY <1>4, <2>1
<1> HIDE DEF Seen
<1>5. /\ evaluation'.step = "checking" /\ evaluation'.checks = << >>
      /\ evaluation'.verdict = "none"
      /\ evaluation'.ever = [i \in 1 .. Len(Criteria) |-> Seen(i)]
  BY <1>1 DEF NoEvaluation
<1>6. Len(Criteria) \in Nat
  BY <1>1, CriteriaListed
<1>7. /\ evaluation'.ever \in [1 .. Len(Criteria) -> SUBSET BOOLEAN]
      /\ \A i \in 1 .. Len(Criteria) : evaluation'.ever[i] = Seen(i)
  BY <1>2, <1>5
<1>8. /\ evaluation'.checks \in Seq(BOOLEAN) /\ Len(evaluation'.checks) = 0
      /\ Len(evaluation'.checks) <= Len(Criteria) /\ 1 .. Len(evaluation'.checks) = {}
  BY <1>5, <1>6
<1> QED
  BY <1>1, <1>3, <1>4, <1>5, <1>7, <1>8 DEF ChecksInv

LEMMA ExistsType ==
  ASSUME NEW path
  PROVE  Exists(path) \in BOOLEAN
BY DEF Exists

LEMMA CheckExistsKeeps ==
  ASSUME ChecksInv, CheckExists
  PROVE  ChecksInv'
<1> DEFINE next == NextCriterion
<1>1. /\ evaluation.step = "checking" /\ CriteriaLeft /\ next.kind \in FileKinds
      /\ goal' = goal /\ result' = result
  BY DEF CheckExists, toolVars
<1>2. CASE next.kind = "file_exists" \/ ~Exists(next.path)
  <2>1. Checked(Exists(next.path), files)
    BY <1>2 DEF CheckExists
  <2>2. FileHolds(next, files) <=> Exists(next.path)
    <3>1. next.kind \in {"file_exists", "file_contains", "json_file"}
      BY <1>1 DEF FileKinds
    <3>2. CASE next.kind = "file_exists"
      BY <3>2 DEF FileHolds, Exists
    <3>3. CASE next.kind # "file_exists"
      BY <1>2, <3>3 DEF FileHolds, Exists
    <3> QED
      BY <3>2, <3>3
  <2>3. FileHolds(next, files) = Exists(next.path)
    BY <2>2, FileHoldsType, ExistsType
  <2> QED
    BY <1>1, <2>1, <2>3, ExistsType, CheckedKeeps
<1>3. CASE ~(next.kind = "file_exists" \/ ~Exists(next.path))
  <2>1. evaluation' = [evaluation EXCEPT !.step = "reading"]
    BY <1>3 DEF CheckExists
  <2>2. next.kind \in {"file_contains", "json_file"}
    BY <1>1, <1>3 DEF FileKinds
  <2>3. /\ evaluation'.step = "reading" /\ evaluation'.checks = evaluation.checks
        /\ evaluation'.verdict = evaluation.verdict /\ evaluation'.ever = evaluation.ever
    BY <2>1
  <2>4. evaluation.ever \in [1 .. Len(Criteria) -> SUBSET BOOLEAN]
    BY <1>1 DEF ChecksInv
  <2> QED
    BY <1>1, <2>2, <2>3, <2>4, ChecksUntouched
<1> QED
  BY <1>2, <1>3

LEMMA EvaluationThrowsKeeps ==
  ASSUME ChecksInv, evaluation.step \in {"checking", "reading"},
         evaluation' = [evaluation EXCEPT !.step = "threw"], goal' = goal, result' = result
  PROVE  ChecksInv'
<1>1. /\ evaluation'.step = "threw" /\ evaluation'.checks = evaluation.checks
      /\ evaluation'.verdict = evaluation.verdict /\ evaluation'.ever = evaluation.ever
  OBVIOUS
<1>2. evaluation.ever \in [1 .. Len(Criteria) -> SUBSET BOOLEAN]
  BY DEF ChecksInv
<1> QED
  BY <1>1, <1>2, ChecksUntouched

\* What jsonFile finds is what the file is like.
LEMMA JsonFound ==
  ASSUME NEW criterion, NEW content \in Contents
  PROVE  JsonHolds(criterion, content) <=>
           /\ content.json # "invalid"
           /\ \/ criterion.extra \in {NoExtra} \cup content.keys
              \/ content.json = "object" /\ criterion.extra \in InheritedKeys
<1>1. /\ content.json \in {"invalid", "array", "object"}
      /\ content.json # "object" => content.keys = {}
  BY GoalsAssumption
<1> QED
  BY <1>1 DEF JsonHolds

LEMMA CheckContentKeeps ==
  ASSUME TypesInv, ChecksInv, CheckContent
  PROVE  ChecksInv'
<1> DEFINE next == NextCriterion
           content == files[NextCriterion.path]
           found == IF next.kind = "file_contains" THEN content.marked
                    ELSE JsonHolds(next, content)
<1>1. /\ evaluation.step = "reading" /\ goal' = goal /\ result' = result
      /\ CriteriaLeft /\ next.kind \in {"file_contains", "json_file"}
  BY DEF CheckContent, toolVars, ChecksInv
<1>2. CASE next.path \in Files /\ Exists(next.path)
  <2>1. Checked(found, files)
    BY <1>2 DEF CheckContent
  <2>2. content \in Contents /\ content # Absent /\ content.marked \in BOOLEAN
    BY <1>2, ToolsAssumption DEF Exists, TypesInv
  <2>3. JsonHolds(next, content) \in BOOLEAN
    BY DEF JsonHolds
  <2>4. FileHolds(next, files) <=> found
    <3>1. CASE next.kind = "file_contains"
      BY <1>2, <2>2, <3>1 DEF FileHolds
    <3>2. CASE next.kind = "json_file"
      <4>1. JsonHolds(next, content) <=>
              /\ content.json # "invalid"
              /\ \/ next.extra \in {NoExtra} \cup content.keys
                 \/ content.json = "object" /\ next.extra \in InheritedKeys
        BY <2>2, JsonFound
      <4> QED
        BY <1>2, <2>2, <3>2, <4>1 DEF FileHolds
    <3> QED
      BY <1>1, <3>1, <3>2
  <2>5. found \in BOOLEAN
    BY <2>2, <2>3
  <2>6. FileHolds(next, files) = found
    BY <2>4, <2>5, FileHoldsType
  <2> HIDE DEF found
  <2> QED
    BY <1>1, <2>1, <2>5, <2>6, CheckedKeeps DEF FileKinds
<1>3. CASE ~(next.path \in Files /\ Exists(next.path))
  <2>1. evaluation' = [evaluation EXCEPT !.step = "threw"]
    BY <1>3 DEF CheckContent
  <2> QED
    BY <1>1, <2>1, EvaluationThrowsKeeps
<1> QED
  BY <1>2, <1>3

LEMMA CheckResultKeeps ==
  ASSUME ChecksInv, CheckResult
  PROVE  ChecksInv'
<1>1. /\ evaluation.step = "checking" /\ CriteriaLeft
      /\ NextCriterion.kind \in {"http_status", "tool_succeeded"}
      /\ Checked(ResultHolds(NextCriterion), files) /\ goal' = goal /\ result' = result
  BY DEF CheckResult, toolVars
<1>2. NextCriterion.kind \notin FileKinds \cup {"command_exits_zero"}
  BY <1>1 DEF FileKinds
<1> QED
  BY <1>1, <1>2, ResultHoldsType, CheckedKeeps

LEMMA CheckCommandKeeps ==
  ASSUME ChecksInv, NEW exit \in {0, 1}, CheckCommand(exit)
  PROVE  ChecksInv'
<1>1. /\ evaluation.step = "checking" /\ CriteriaLeft
      /\ NextCriterion.kind = "command_exits_zero"
      /\ Checked(exit = 0, files') /\ goal' = goal /\ result' = result
  BY DEF CheckCommand
<1>2. PICK fs, holds : fs = files' /\ holds = (exit = 0)
  OBVIOUS
<1>3. holds \in BOOLEAN
  BY <1>2
<1>4. Checked(holds, fs)
  BY <1>1, <1>2
<1> QED
  BY <1>1, <1>3, <1>4, CheckedKeeps

LEMMA ConcludeKeeps ==
  ASSUME ChecksInv, Conclude
  PROVE  ChecksInv'
<1> DEFINE verdict == VerdictFromDecisive(
              Cardinality({i \in DOMAIN evaluation.checks : evaluation.checks[i]}), Len(Criteria))
<1>1. /\ evaluation.step = "checking" /\ ~CriteriaLeft /\ goal' = goal /\ result' = result
      /\ evaluation' = [evaluation EXCEPT !.step = "done", !.verdict = verdict]
  BY DEF Conclude, toolVars
<1> HIDE DEF verdict
<1>2. /\ evaluation'.step = "done" /\ evaluation'.verdict = verdict
      /\ evaluation'.checks = evaluation.checks /\ evaluation'.ever = evaluation.ever
  BY <1>1
<1>3. Criteria' = Criteria
  BY <1>1 DEF Criteria
<1>4. Len(evaluation.checks) = Len(Criteria)
  <2>1. /\ Len(evaluation.checks) \in Nat /\ Len(Criteria) \in Nat
        /\ Len(evaluation.checks) <= Len(Criteria)
    BY CriteriaListed DEF ChecksInv
  <2> QED
    BY <1>1, <2>1 DEF CriteriaLeft
<1>5. ASSUME NEW i \in 1 .. Len(Criteria)
      PROVE  ResultHolds(Criteria[i])' = ResultHolds(Criteria[i])
  BY <1>1, <1>3 DEF ResultHolds
<1> QED
  BY <1>1, <1>2, <1>3, <1>4, <1>5 DEF ChecksInv, verdict


\* A run of a tool happens while nothing is evaluated.
ToolsInv == TypesInv /\ CallInv /\ UnderWayInv /\ EventsInv /\ Told /\ ChecksInv

LEMMA InitTools == Init => ToolsInv
<1> SUFFICES ASSUME Init PROVE ToolsInv
  OBVIOUS
<1>1. /\ files = [f \in Files |-> Absent] /\ leftover = FALSE /\ call = NoCall
      /\ events = << >> /\ scratch = {} /\ touched = {} /\ result = NoResult
      /\ goal \in Goals /\ evaluation = NoEvaluation
  BY DEF Init, ToolInit, EvaluationInit
<1>2. TypesInv /\ CallInv /\ UnderWayInv /\ EventsInv
  <2>1. TypesInv
    BY <1>1 DEF TypesInv, NoResult
  <2>2. CallInv
    BY <1>1 DEF CallInv
  <2>3. UnderWayInv
    BY <1>1 DEF UnderWayInv, At, NoCall
  <2>4. EventsInv
    BY <1>1 DEF EventsInv
  <2> QED
    BY <2>1, <2>2, <2>3, <2>4
<1>3. /\ AnnouncedIn(events, "FILE_CREATED") = {} /\ AnnouncedIn(events, "FILE_CHANGED") = {}
      /\ AnnouncedIn(events, "FILE_DELETED") = {}
      /\ TimesIn(events, "COMMAND_FINISHED") = 0 /\ TimesIn(events, "COMMAND_STARTED") = 0
  BY <1>1, NothingTold
<1>4. result.status = "none"
  BY <1>1 DEF NoResult
<1>5. ChangesAnnounced
  <2>1. /\ Announced("FILE_CREATED") = {} /\ Announced("FILE_CHANGED") = {}
        /\ Announced("FILE_DELETED") = {}
    BY <1>3 DEF Announced, AnnouncedIn, PositionsIn
  <2> QED
    BY <1>4, <2>1 DEF ChangesAnnounced
<1>6. CommandsClosed
  <2>1. Times("COMMAND_FINISHED") = 0 /\ Times("COMMAND_STARTED") = 0
    BY <1>3 DEF Times, TimesIn, PositionsIn
  <2> QED
    BY <1>4, <2>1 DEF CommandsClosed
<1>7. ScratchCleared /\ TruncationTold
  BY <1>4 DEF ScratchCleared, TruncationTold
<1>8. ChecksInv
  <2>1. /\ evaluation.step = "idle" /\ evaluation.checks = << >> /\ evaluation.verdict = "none"
    BY <1>1 DEF NoEvaluation
  <2>2. 0 <= Len(Criteria)
    BY <1>1, CriteriaListed
  <2> QED
    BY <1>1, <2>1, <2>2 DEF ChecksInv
<1> QED
  BY <1>2, <1>5, <1>6, <1>7, <1>8 DEF ToolsInv, Told

LEMMA NextTools == ToolsInv /\ [Next]_<<toolVars, evaluationVars>> => ToolsInv'
<1> SUFFICES ASSUME ToolsInv, [Next]_<<toolVars, evaluationVars>> PROVE ToolsInv'
  OBVIOUS
<1>1. TypesInv /\ CallInv /\ UnderWayInv /\ EventsInv /\ Told /\ ChecksInv
  BY DEF ToolsInv
<1>2. /\ files \in [Files -> Contents \cup {Absent}] /\ leftover \in BOOLEAN
  BY <1>1 DEF TypesInv
<1>3. ASSUME toolVars' = toolVars
      PROVE  ToolsKeep
  BY <1>1, <1>2, <1>3, ToolsUntouched DEF toolVars
<1>4. CASE UseTool
  <2>1. ToolsKeep
    BY <1>1, <1>4, ToolStepKeeps DEF UseTool
  <2>2. evaluation.step = "idle" /\ evaluation' = evaluation /\ goal' = goal
    BY <1>4 DEF UseTool, evaluationVars
  <2>3. ChecksInv'
    BY <1>1, <2>2, ChecksUntouched
  <2> QED
    BY <2>1, <2>3 DEF ToolsInv, ToolsKeep
<1>5. CASE Leftover
  <2>1. /\ UNCHANGED <<leftover, call, events, scratch, touched, result>>
        /\ files' \in [Files -> Contents \cup {Absent}]
        /\ goal' = goal /\ evaluation' = [evaluation EXCEPT !.ever = Witnessed(files')]
    BY <1>2, <1>5 DEF Leftover, LeftoverActs
  <2>2. ToolsKeep
    BY <1>1, <1>2, <2>1, ToolsUntouched
  <2>3. PICK fs : fs = files'
    OBVIOUS
  <2>4. /\ evaluation'.step = evaluation.step /\ evaluation'.checks = evaluation.checks
        /\ evaluation'.verdict = evaluation.verdict /\ evaluation'.ever = Witnessed(fs)
    BY <2>1, <2>3
  <2>5. ASSUME evaluation.step # "idle"
        PROVE  /\ Witnessed(fs) \in [1 .. Len(Criteria) -> SUBSET BOOLEAN]
               /\ \A i \in 1 .. Len(Criteria) : evaluation.ever[i] \subseteq Witnessed(fs)[i]
    BY <1>1, <2>5, WitnessedFacts
  <2>6. ChecksInv'
    BY <1>1, <2>1, <2>4, <2>5, ChecksUntouched
  <2> QED
    BY <2>2, <2>6 DEF ToolsInv, ToolsKeep
<1>6. CASE EvaluationStep
  <2>1. ASSUME NEW exit \in {0, 1}, CheckCommand(exit)
        PROVE  ToolsInv'
    <3>1. ToolsKeep
      BY <1>1, <1>2, <2>1, ToolsUntouched DEF CheckCommand, CommandEffect
    <3>2. ChecksInv'
      BY <1>1, <2>1, CheckCommandKeeps
    <3> QED
      BY <3>1, <3>2 DEF ToolsInv, ToolsKeep
  <2>2. CASE BeginEvaluation \/ CheckExists \/ CheckContent \/ CheckResult \/ EvaluationThrows
              \/ Conclude
    <3>1. ToolsKeep
      BY <1>3, <2>2 DEF BeginEvaluation, CheckExists, CheckContent, CheckResult,
                        EvaluationThrows, Conclude
    <3>2. EvaluationThrows => ChecksInv'
      BY <1>1, EvaluationThrowsKeeps DEF EvaluationThrows, toolVars
    <3>3. ChecksInv'
      BY <1>1, <2>2, <3>2, BeginEvaluationKeeps, CheckExistsKeeps, CheckContentKeeps,
         CheckResultKeeps, ConcludeKeeps
    <3> QED
      BY <3>1, <3>3 DEF ToolsInv, ToolsKeep
  <2> QED
    BY <1>6, <2>1, <2>2 DEF EvaluationStep
<1>7. CASE RunGoesOn
  <2>1. evaluation' = NoEvaluation /\ goal' = goal /\ toolVars' = toolVars
    BY <1>7 DEF RunGoesOn
  <2>2. ToolsKeep
    BY <1>3, <2>1
  <2>3. ChecksInv'
    <3>1. /\ evaluation'.step = "idle" /\ evaluation'.checks = << >>
          /\ evaluation'.verdict = "none"
      BY <2>1 DEF NoEvaluation
    <3>2. goal' \in Goals /\ Criteria' = Criteria /\ 0 <= Len(Criteria)
      BY <1>1, <2>1, CriteriaListed DEF ChecksInv, Criteria
    <3> QED
      BY <3>1, <3>2 DEF ChecksInv
  <2> QED
    BY <2>2, <2>3 DEF ToolsInv, ToolsKeep
<1>8. CASE UNCHANGED <<toolVars, evaluationVars>>
  <2>1. toolVars' = toolVars /\ evaluation' = evaluation /\ goal' = goal /\ result' = result
    BY <1>8 DEF evaluationVars, toolVars
  <2>2. ToolsKeep
    BY <1>3, <2>1
  <2>3. evaluation.step # "idle" => evaluation.ever \in [1 .. Len(Criteria) -> SUBSET BOOLEAN]
    BY <1>1 DEF ChecksInv
  <2>4. ChecksInv'
    BY <1>1, <2>1, <2>3, ChecksUntouched
  <2> QED
    BY <2>2, <2>4 DEF ToolsInv, ToolsKeep
<1> QED
  BY <1>4, <1>5, <1>6, <1>7, <1>8 DEF Next

LEMMA ToolsInvariant == Spec => []ToolsInv
BY InitTools, NextTools, PTL DEF Spec

-----------------------------------------------------------------------------
\* What a tool announces and leaves behind is what it did, however its calls to the environment
\* ended: every announced change has happened, an ok result stands for announced changes only,
\* and every command that was announced is closed (invokeTool, runObservedCommand, curlRequest).
THEOREM ToolsTellWhatTheyDid == Spec => []ToolInv
<1>1. ToolsInv => ToolInv
  <2> SUFFICES ASSUME ToolsInv PROVE ToolInv
    OBVIOUS
  <2>1. TypesInv /\ CallInv /\ Told /\ ChecksInv
    BY DEF ToolsInv
  <2>2. call.tool \in ToolNames \cup {"none"} /\ (call.tool = "none" <=> At("idle"))
    <3>1. CASE call = NoCall
      BY <3>1 DEF NoCall, At
    <3>2. CASE <<call.tool, call.step>> \in ToolSteps
      <4>1. call.tool \in ToolNames /\ call.tool # "none" /\ call.step # "idle"
        BY <3>2 DEF ToolSteps, ToolNames, FileTools, HttpTools
      <4> QED
        BY <4>1 DEF At
    <3> QED
      BY <2>1, <3>1, <3>2 DEF CallInv
  <2>3. /\ evaluation.step \in {"idle", "checking", "reading", "done", "threw"}
        /\ evaluation.verdict \in {"none", "success", "failure", "partial", "inconclusive"}
    BY <2>1 DEF ChecksInv, VerdictFromDecisive
  <2>4. ToolTypeOK
    BY <2>1, <2>2, <2>3 DEF ToolTypeOK, TypesInv
  <2> QED
    BY <2>1, <2>4 DEF ToolInv, Told
<1> QED
  BY <1>1, ToolsInvariant, PTL

\* Whatever path a proposal holds, the tools only touch, run in and announce what is inside the
\* workspace, and never delete its root (resolveWorkspacePath, normalisePosix).
THEOREM ToolsStayInside == Spec => []WorkspaceOnly
<1>1. ToolsInv => WorkspaceOnly
  <2> SUFFICES ASSUME ToolsInv PROVE WorkspaceOnly
    OBVIOUS
  <2>1. CallInv /\ EventsInv
    BY DEF ToolsInv
  <2>2. ~At("idle") => <<call.tool, call.step>> \in ToolSteps /\ Parses(call.tool, call.raw)
    BY <2>1 DEF CallInv, NoCall, At
  <2>3. ~At("idle") /\ call.tool \in FileTools \cup {"shell.run", "git"} => IsPrefix(Root, Target)
    BY <2>2 DEF Parses, StaysInside, Target
  <2>4. At("deleting") => Target # Root
    <3>1. At("deleting") => ~At("idle")
      BY DEF At
    <3>2. At("deleting") /\ <<call.tool, call.step>> \in ToolSteps => call.tool = "fs.delete"
      BY DEF At, ToolSteps
    <3> QED
      BY <2>2, <3>1, <3>2 DEF Parses, Target
  <2>5. ASSUME NEW i \in DOMAIN events
        PROVE  ".." \notin {events[i].path[k] : k \in DOMAIN events[i].path}
    <3>1. events[i] \in TypedEvent
      <4>1. events \in Seq(TypedEvent)
        BY <2>1 DEF EventsInv, TypedEvent
      <4> QED
        BY <2>5, <4>1
    <3>2. PICK path : path = events[i].path
      OBVIOUS
    <3>3. path \in Seq(Segments)
      BY <3>1, <3>2 DEF TypedEvent
    <3>4. \A k \in DOMAIN path : path[k] \in Segments
      BY <3>3
    <3>5. ".." \notin Segments
      BY DEF Segments
    <3> QED
      BY <3>2, <3>4, <3>5
  <2> QED
    BY <2>3, <2>4, <2>5 DEF WorkspaceOnly
<1> QED
  BY <1>1, ToolsInvariant, PTL

\* A text that is not marked truncated is all of what the sandbox received, for every cap and
\* characters of every width (support/output.ts, curlRequest, web.fetch).
THEOREM CutsAreTold == Spec => []TruncationTold
<1>1. ToolsInv => TruncationTold
  BY DEF ToolsInv, Told
<1> QED
  BY <1>1, ToolsInvariant, PTL

\* A verdict rests on the criteria, each as it was at some moment of the evaluation, whatever
\* the processes left behind do to the files meanwhile (DeterministicEvaluator.evaluate).
THEOREM VerdictsAreJustified == Spec => []VerdictJustified
<1>1. ToolsInv => VerdictJustified
  <2> SUFFICES ASSUME ToolsInv, evaluation.verdict # "none" PROVE VerdictJustified
    <3>1. evaluation.verdict = "none" => VerdictJustified
      BY DEF VerdictJustified
    <3> QED
      BY <3>1
  <2>0. PICK n : n = Len(Criteria)
    OBVIOUS
  <2> DEFINE passed == {i \in DOMAIN evaluation.checks : evaluation.checks[i]}
             Been(value) == {i \in DOMAIN evaluation.ever : value \in evaluation.ever[i]}
  <2>1. /\ evaluation.step = "done" /\ Len(evaluation.checks) = n
        /\ evaluation.verdict = VerdictFromDecisive(Cardinality(passed), n)
        /\ evaluation.checks \in Seq(BOOLEAN)
        /\ evaluation.ever \in [1 .. n -> SUBSET BOOLEAN]
        /\ \A i \in 1 .. n : evaluation.checks[i] \in evaluation.ever[i]
        /\ goal \in Goals
    <3>1. ChecksInv /\ evaluation.step = "done" /\ goal \in Goals
      BY DEF ToolsInv, ChecksInv
    <3>2. Len(evaluation.checks) = n
      BY <2>0, <3>1 DEF ChecksInv
    <3> QED
      BY <2>0, <3>1, <3>2 DEF ChecksInv
  <2>2. n \in Nat /\ DOMAIN Criteria = 1 .. n /\ DOMAIN evaluation.checks = 1 .. n
        /\ DOMAIN evaluation.ever = 1 .. n
    BY <2>0, <2>1, CriteriaListed
  <2>3. IsFiniteSet(1 .. n) /\ Cardinality(1 .. n) = n
    BY <2>2, FS_Interval
  <2>4. passed \subseteq 1 .. n
    BY <2>2
  <2>5. \A i \in 1 .. n : (i \in passed => i \in Been(TRUE)) /\ (i \notin passed => i \in Been(FALSE))
    BY <2>1, <2>2
  <2>6. Been(TRUE) \subseteq 1 .. n /\ Been(FALSE) \subseteq 1 .. n
    BY <2>2
  <2> HIDE DEF passed
  <2>7. /\ IsFiniteSet(passed) /\ Cardinality(passed) \in Nat
        /\ Cardinality(passed) = n => passed = 1 .. n
        /\ Cardinality(passed) = 0 => passed = {}
    BY <2>3, <2>4, FS_Subset, FS_CardinalityType, FS_EmptySet
  <2> DEFINE all == 1 .. n
  <2>8. all = {} <=> n = 0
    BY <2>2
  <2>9. CASE n = 0
    <3>1. evaluation.verdict = "inconclusive"
      BY <2>1, <2>9 DEF VerdictFromDecisive
    <3> QED
      BY <2>2, <2>8, <2>9, <3>1 DEF VerdictJustified
  <2>10. CASE n > 0 /\ Cardinality(passed) = n
    <3>1. evaluation.verdict = "success"
      BY <2>1, <2>10 DEF VerdictFromDecisive
    <3>2. Been(TRUE) = all /\ all # {}
      <4>1. passed = all /\ all # {}
        BY <2>7, <2>8, <2>10
      <4>2. Been(TRUE) \subseteq all
        BY <2>6
      <4>3. all \subseteq Been(TRUE)
        <5> HIDE DEF Been
        <5> QED
          BY <2>5, <4>1
      <4> HIDE DEF Been, all
      <4> QED
        BY <4>1, <4>2, <4>3
    <3> QED
      BY <2>2, <3>1, <3>2 DEF VerdictJustified
  <2>11. CASE n > 0 /\ Cardinality(passed) = 0
    <3>1. evaluation.verdict = "failure"
      BY <2>1, <2>11 DEF VerdictFromDecisive
    <3>2. Been(FALSE) = all /\ all # {}
      <4>1. passed = {} /\ all # {}
        BY <2>7, <2>8, <2>11
      <4>2. Been(FALSE) \subseteq all
        BY <2>6
      <4>3. all \subseteq Been(FALSE)
        <5> HIDE DEF Been
        <5> QED
          BY <2>5, <4>1
      <4> HIDE DEF Been, all
      <4> QED
        BY <4>1, <4>2, <4>3
    <3> QED
      BY <2>2, <3>1, <3>2 DEF VerdictJustified
  <2>12. CASE n > 0 /\ Cardinality(passed) # n /\ Cardinality(passed) # 0
    <3>1. evaluation.verdict = "partial"
      BY <2>1, <2>12 DEF VerdictFromDecisive
    <3>2. PICK i \in all : i \in passed
      <4>1. passed # {}
        BY <2>12, FS_EmptySet
      <4> QED
        BY <2>4, <4>1
    <3>3. PICK j \in all : j \notin passed
      <4>1. passed # all
        BY <2>3, <2>12
      <4> QED
        BY <2>4, <4>1
    <3>4. i \in Been(TRUE) /\ j \in Been(FALSE) /\ i # j
      BY <2>5, <3>2, <3>3
    <3> QED
      BY <3>1, <3>4 DEF VerdictJustified
  <2> QED
    BY <2>2, <2>9, <2>10, <2>11, <2>12
<1> QED
  BY <1>1, ToolsInvariant, PTL
=============================================================================
