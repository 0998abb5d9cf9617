-------------------------------- MODULE Queries --------------------------------
(***************************************************************************)
(* Questions about the captures (query.rs).  A request names a text, a     *)
(* kind and a limit; a language model outside the program may turn its     *)
(* question into a plan, which the program cuts out of the text the model  *)
(* answered with.  The answer is computed from the records of the capture  *)
(* engine, newest first.  A text matches a record that has it among its    *)
(* words; letter case and surrounding blanks are gone before matching.     *)
(***************************************************************************)
EXTENDS Integers, Sequences, FiniteSets

CONSTANTS
  Words,        \* texts asked for
  Requests,     \* what users ask: question, text, kind and limit
  Plans,        \* what the planner makes of it: text, kind, limit and time range
  RecordKinds,  \* kinds of records
  DefaultLimit, MaxAnswers,  \* records in an answer
  DayLength,    \* time units in a day
  Strings,      \* JSON strings the planner writes, as characters
  MaxRecords, MaxNow, MaxText, MaxProse  \* bounds: records, the clock, the planner's text, its prose

Characters == {"other", "quote", "backslash", "open", "close"}
\* The inside of a JSON string: what follows a backslash is escaped, quotes are,
\* and the quote that ends the string is not.
IsJsonString(s) ==
  \E escaped \in SUBSET DOMAIN s :
    LET escapes(i) == s[i] = "backslash" /\ i \notin escaped
    IN /\ \A i \in DOMAIN s : i \in escaped <=> i > 1 /\ escapes(i - 1)
       /\ \A i \in DOMAIN s : s[i] = "quote" => i \in escaped
       /\ s # <<>> => ~escapes(Len(s))

ASSUME QueryAssumption ==
  /\ DefaultLimit \in 1..MaxAnswers /\ MaxAnswers \in Nat /\ DayLength \in Nat \ {0}
  /\ MaxRecords \in Nat /\ MaxNow \in Nat /\ MaxText \in Nat /\ MaxProse \in Nat
  /\ "blank" \notin Words /\ "none" \notin Words
  /\ \A q \in Requests \cup Plans : q.limit \in Int
  /\ Strings \subseteq Seq(Characters) /\ \A s \in Strings : IsJsonString(s)

VARIABLES
  time,     \* the clock
  captures, \* the records of the captures, newest first
  reply,    \* the text of the planner so far
  depth,    \* open braces in it
  begun,    \* where the object begins in it, 0 if it does not yet
  object    \* the object, once it is whole

queryVars == <<time, captures, reply, depth, begun, object>>

Nothing == <<>>
Unasked == {"blank", "none"}

-----------------------------------------------------------------------------
(* Answering.  An answer is in the order of the records, so that the places *)
(* of its records tell it.                                                  *)

\* record_matches_text and the kind filter; a blank filter is no filter.
Matches(r, text, kind) ==
  /\ text \in Unasked \/ text \in r.words
  /\ kind \in Unasked \/ kind = r.kind

\* -1 stands for no limit.
Clamp(limit) == IF limit = -1 THEN DefaultLimit
                ELSE IF limit < 1 THEN 1 ELSE IF limit > MaxAnswers THEN MaxAnswers ELSE limit

Take(places, n) == {i \in places : Cardinality({j \in places : j < i}) < n}

InRange(r, range) ==
  /\ r.at >= (IF range.from = -1 THEN 0 ELSE range.from)
  /\ r.at <= (IF range.to = -1 THEN time ELSE range.to)

BugTwoDays(request) == LET start == time - (time % DayLength) - DayLength
                 IN Take({i \in DOMAIN captures : captures[i].at >= start /\ captures[i].at <= time},
                         Clamp(request.limit))
\* run_today_summary: the text and the kind of the request play no part.
Today(request) ==
  LET start == time - (time % DayLength)
  IN Take({i \in DOMAIN captures : captures[i].at >= start /\ captures[i].at <= time},
          Clamp(request.limit))

\* run_query_at
RunQuery(request) ==
  IF request.question = "today" THEN Today(request)
  ELSE Take({i \in DOMAIN captures : Matches(captures[i], request.text, request.kind)},
            Clamp(request.limit))

\* run_structured_query_at: the time range is applied to what the limit left.
RunStructured(plan) ==
  {i \in RunQuery([question |-> "none", text |-> plan.text, kind |-> plan.kind,
                   limit |-> plan.limit]) :
     plan.range = Nothing \/ InRange(captures[i], plan.range)}

HasBound(plan) == plan.range # Nothing /\ (plan.range.from # -1 \/ plan.range.to # -1)
HasEffectiveFilter(plan) == plan.text \notin Unasked \/ plan.kind \notin Unasked \/ HasBound(plan)

\* run_query_with_optional_plan_at: a plan that failed (Nothing) or filters
\* nothing leaves the request as it is; what a plan leaves out is the request's.
Answer(request, plan) ==
  IF plan = Nothing THEN RunQuery(request)
  ELSE IF ~HasEffectiveFilter(plan) THEN RunQuery(request)
  ELSE RunStructured(
         [text |-> IF plan.text = "none" THEN request.text ELSE plan.text,
          kind |-> IF plan.kind = "none" THEN request.kind ELSE plan.kind,
          limit |-> IF plan.limit = -1 THEN request.limit ELSE plan.limit,
          range |-> plan.range])

-----------------------------------------------------------------------------
(* Cutting the plan out of the planner's text.                              *)

BugNoEscapes(s, c) == [s EXCEPT !.string = (c # "quote")]
\* A character inside a string.
InString(s, c) ==
  IF s.escaped THEN [s EXCEPT !.escaped = FALSE]
  ELSE [s EXCEPT !.escaped = (c = "backslash"), !.string = (c # "quote")]

Scanned(s, c, i) ==
  CASE s.end > 0 -> s
    [] s.start = 0 /\ s.end = 0 -> IF c = "open" THEN [s EXCEPT !.start = i, !.depth = 1] ELSE s
    [] s.start > 0 /\ s.end = 0 /\ s.string -> InString(s, c)
    [] s.start > 0 /\ s.end = 0 /\ ~s.string ->
         CASE c = "quote" -> [s EXCEPT !.string = TRUE]
           [] c = "open" -> [s EXCEPT !.depth = @ + 1]
           [] c = "close" -> [s EXCEPT !.depth = IF @ = 0 THEN 0 ELSE @ - 1,
                                   !.end = IF s.depth <= 1 THEN i ELSE 0]
           [] OTHER -> s

Unscanned == [start |-> 0, end |-> 0, depth |-> 0, string |-> FALSE, escaped |-> FALSE]

\* extract_first_json_object: one pass over the characters.
Scans(text) ==
  LET scan[n \in 0..Len(text)] == IF n = 0 THEN Unscanned ELSE Scanned(scan[n - 1], text[n], n)
  IN scan
ExtractFirst(text) ==
  LET s == Scans(text)[Len(text)]
  IN IF s.end = 0 THEN Nothing ELSE SubSeq(text, s.start, s.end)

-----------------------------------------------------------------------------
QueryInit ==
  /\ time = 0 /\ captures = <<>>
  /\ reply = <<>> /\ depth = 0 /\ begun = 0 /\ object = Nothing

\* The capture engine records something now.
Record(kind, words) ==
  /\ Len(captures) < MaxRecords
  /\ captures' = <<[kind |-> kind, words |-> words, at |-> time]>> \o captures
  /\ UNCHANGED <<time, reply, depth, begun, object>>

QueryTick ==
  /\ time < MaxNow /\ time' = time + 1
  /\ UNCHANGED <<captures, reply, depth, begun, object>>

Write(chars) ==
  /\ Len(reply) + Len(chars) <= MaxText /\ reply' = reply \o chars
  /\ UNCHANGED <<time, captures>>

\* External: the planner writes an object of braces and strings, and prose before
\* and after it in which any character may stand.
Prose ==
  /\ depth = 0 /\ Len(reply) - Len(object) < MaxProse
  /\ \E c \in Characters : Write(<<c>>) /\ UNCHANGED <<depth, begun, object>>
OpenBrace ==
  /\ object = Nothing /\ Write(<<"open">>) /\ depth' = depth + 1
  /\ begun' = IF depth = 0 THEN Len(reply') ELSE begun
  /\ UNCHANGED object
QuoteString(s) == depth > 0 /\ Write(<<"quote">> \o s \o <<"quote">>) /\ UNCHANGED <<depth, begun, object>>
CloseBrace ==
  /\ depth > 0 /\ Write(<<"close">>) /\ depth' = depth - 1 /\ UNCHANGED begun
  /\ object' = IF depth = 1 THEN SubSeq(reply', begun, Len(reply')) ELSE object

Capturing == QueryTick \/ \E kind \in RecordKinds, words \in SUBSET Words : Record(kind, words)
Planning == Prose \/ OpenBrace \/ CloseBrace \/ \E s \in Strings : QuoteString(s)

QuerySpec == QueryInit /\ [][Capturing \/ Planning]_queryVars

-----------------------------------------------------------------------------
Followed(plan) == plan # Nothing /\ HasEffectiveFilter(plan)

\* What a question or its plan asks for, apart from a time range.
Sought(r, request, plan) ==
  LET ask(p, q) == IF p = "none" THEN q ELSE p
  IN IF Followed(plan) THEN Matches(r, ask(plan.text, request.text), ask(plan.kind, request.kind))
     ELSE IF request.question = "today" THEN r.at \div DayLength = time \div DayLength
     ELSE Matches(r, request.text, request.kind)
Ranged(plan) == Followed(plan) /\ plan.range # Nothing
Fits(r, request, plan) == Sought(r, request, plan) /\ (Ranged(plan) => InRange(r, plan.range))

\* An answer holds only captures that fit the question or its plan, the newest
\* ones.  It misses one that fits only if it is full, or if the plan has a time
\* range and more captures than the limit match it but for that range: the range
\* is applied to what the limit left.
AnswersFit ==
  \A request \in Requests, plan \in Plans \cup {Nothing} :
    LET answer == Answer(request, plan)
        sought == {i \in DOMAIN captures : Sought(captures[i], request, plan)}
        fitting == {i \in DOMAIN captures : Fits(captures[i], request, plan)}
        limit == Clamp(IF Followed(plan) /\ plan.limit # -1 THEN plan.limit ELSE request.limit)
    IN /\ answer \subseteq fitting /\ \A i \in answer, j \in fitting \ answer : i < j
       /\ answer = fitting \/ Cardinality(answer) = limit
          \/ (Ranged(plan) /\ Cardinality(sought) > limit)

\* An opening brace in the prose before the object: the scan takes it for the
\* object's, so that nothing or something else is cut out.
Stray == \E i \in DOMAIN reply : reply[i] = "open" /\ (begun = 0 \/ i < begun)

\* The plan is cut out whole: braces and quotes inside its strings do not end it,
\* whatever stands behind it, and whatever but an opening brace stands before it.
PlanCutWhole == Stray \/ ExtractFirst(reply) = object

\* A question is answered by the captures it asks for, and by the whole plan of a
\* planner that opens no brace before it.
QuestionsAnswered == AnswersFit /\ PlanCutWhole

=============================================================================
