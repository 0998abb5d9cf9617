--------------------------------- MODULE Forth ---------------------------------
(* The Forth interpreter that keeps itself inside the machine (aeon-vm/src/
   forth.rs): a source is compiled to a dictionary of words and the tokens of the
   main program, both saved in files of the machine; a step loads the files, obeys
   one token and saves the runtime, unless it failed. The values are on a stack in
   the heap, which a step that fails may have changed already.

   Abstracted: a source is its tokens, its comments gone; the kinds of errors; the
   bound of 100 000 steps of run, which no source here needs.                    *)
EXTENDS Integers, SequencesExt

CONSTANTS
  Sources,     \* the sources: see SourceText
  Numbers,     \* the tokens that are numbers, with their values
  Cell,        \* 2^64: the number of values of a cell
  MaxCells     \* cells of the stack

VARIABLES
  source,      \* the source
  words,       \* the file of the dictionary
  runtime,     \* the file of the runtime
  cells,       \* the stack
  outcome      \* what the last call reported

forthVars == <<source, words, runtime, cells, outcome>>

(* Compilation.                                                               *)

MaxDepth == 16
Refused == [ok |-> FALSE, words |-> <<>>, main |-> <<>>]

RECURSIVE CompileInto(_, _, _, _)
CompileInto(files, text, made, depth) ==
  LET rest(n) == SubSeq(text, n + 1, Len(text))
      end == SelectInSubSeq(text, 3, Len(text), LAMBDA t : t = ";")
      first == text[1]
  IN IF ~made.ok \/ depth > MaxDepth THEN Refused
     ELSE IF text = <<>> THEN made
     ELSE CASE first = "include" /\ Len(text) > 1 /\ text[2] \in DOMAIN files ->
                 CompileInto(files, rest(2), CompileInto(files, files[text[2]], made, depth + 1), depth)
            [] first = ":" /\ end > 0 ->
                 CompileInto(files, rest(end),
                   [made EXCEPT !.words = (text[2] :> SubSeq(text, 3, end - 1)) @@ @], depth)
            [] first \notin {"include", ":", ";"} ->
                 CompileInto(files, rest(1), [made EXCEPT !.main = Append(@, first)], depth)
            [] OTHER -> Refused

Compiled(files, text) ==
  CompileInto(files, text, [ok |-> TRUE, words |-> <<>>, main |-> <<>>], 0)

(* One step, of a machine [rt, stack, ok].                                    *)

Failing(m) == [m EXCEPT !.ok = FALSE]

\* The n cells on top, the highest last; they give way to values, one after the other.
Top(m, n) == SubSeq(m.stack, Len(m.stack) - n + 1, Len(m.stack))
Replace(m, n, values) ==
  LET depth == Len(m.stack) IN
  IF depth < n THEN Failing([m EXCEPT !.stack = <<>>])
  ELSE LET new == SubSeq(m.stack, 1, depth - n) \o values
       IN [m EXCEPT !.stack = SubSeq(new, 1, IF Len(new) < MaxCells THEN Len(new) ELSE MaxCells),
                    !.ok = Len(new) <= MaxCells]
Push(m, v) == Replace(m, 0, <<v>>)

Truth(b) == IF b THEN 1 ELSE 0
Arity == [t \in {"+", "-", "*", "=", "<", ">", "swap", "over"} |-> 2] @@
         [t \in {"dup", "drop"} |-> 1] @@ [t \in {"depth"} |-> 0]
Operate(m, t) ==
  LET top == Top(m, Arity[t]) IN
  Replace(m, Arity[t],
    CASE t = "+" -> <<(top[1] + top[2]) % Cell>>
      [] t = "-" -> <<(top[1] - top[2]) % Cell>>
      [] t = "*" -> <<(top[1] * top[2]) % Cell>>
      [] t = "=" -> <<Truth(top[1] = top[2])>>
      [] t = "<" -> <<Truth(top[1] < top[2])>>
      [] t = ">" -> <<Truth(top[1] > top[2])>>
      [] t = "swap" -> <<top[2], top[1]>>
      [] t = "over" -> <<top[1], top[2], top[1]>>
      [] t = "dup" -> <<top[1], top[1]>>
      [] t = "drop" -> <<>>
      [] t = "depth" -> <<Len(m.stack)>>)

BugFlat(rt, open, close) == SelectInSubSeq(rt.tokens, rt.ip + 1, Len(rt.tokens), LAMBDA t : t = close)
\* skip_to: the place of the close that matches an open before rt.ip, or 0.
Matching(rt, open, close) ==
  LET count(i, t) == Cardinality({j \in rt.ip + 1 .. i : rt.tokens[j] = t})
      ends == {i \in rt.ip + 1 .. Len(rt.tokens) :
                 rt.tokens[i] = close /\ count(i, close) = count(i, open) + 1}
  IN IF ends = {} THEN 0 ELSE CHOOSE i \in ends : \A j \in ends : i <= j
SkipTo(m, open, close) ==
  LET end == Matching(m.rt, open, close) IN
  IF end = 0 THEN Failing(m) ELSE [m EXCEPT !.rt.ip = end]

\* The names a word declared are forgotten when it returns.
Return(rt) ==
  IF rt.frames = <<>> THEN [rt EXCEPT !.halted = TRUE]
  ELSE [rt EXCEPT !.tokens = Last(rt.frames).tokens, !.ip = Last(rt.frames).ip,
                  !.frames = Front(@), !.envs = IF Len(@) > 1 THEN Front(@) ELSE @]
CallWord(rt, body) ==
  [rt EXCEPT !.frames = Append(@, [tokens |-> rt.tokens, ip |-> rt.ip]), !.tokens = body, !.ip = 0,
             !.envs = Append(@, <<>>)]

\* The environment of the innermost call that knows the name, or 0.
Holder(envs, name) == SelectLastInSeq(envs, LAMBDA env : name \in DOMAIN env)
Declare(rt, name) ==
  [rt EXCEPT !.envs[Len(rt.envs)] = @ @@ (name :> 0)]
SetVar(rt, name, v) ==
  LET held == Holder(rt.envs, name) IN
  [rt EXCEPT !.envs[IF held = 0 THEN Len(rt.envs) ELSE held] = (name :> v) @@ @]
\* var, set and get take the next token for a name.
Named(m, t) ==
  IF m.rt.ip = Len(m.rt.tokens) THEN Failing(m)
  ELSE LET name == m.rt.tokens[m.rt.ip + 1]
           n == [m EXCEPT !.rt.ip = @ + 1]
       IN CASE t = "var" -> [n EXCEPT !.rt = Declare(@, name)]
            [] t = "set" -> IF n.stack = <<>> THEN Failing(n)
                            ELSE [n EXCEPT !.rt = SetVar(@, name, Last(n.stack)), !.stack = Front(@)]
            [] t = "get" -> IF Holder(n.rt.envs, name) = 0 THEN Failing(n)
                            ELSE Push(n, n.rt.envs[Holder(n.rt.envs, name)][name])

\* loop: whether the body is obeyed for this index.
Again(index, limit) == index < limit
Loop(rt) ==
  LET l == Last(rt.loops)
      index == (l.index + 1) % Cell
  IN IF Again(index, l.limit)
     THEN [rt EXCEPT !.loops[Len(rt.loops)].index = index, !.ip = l.start]
     ELSE [rt EXCEPT !.loops = Front(@)]

Controls == {"if", "then", "do", "i", "loop", "."}
Control(m, t) ==
  LET top == Last(m.stack) IN
  CASE t = "then" -> m
    [] t = "." -> IF m.stack = <<>> THEN Failing(m)
                  ELSE [m EXCEPT !.stack = Front(@), !.rt.output = Append(@, top)]
    [] t = "if" -> IF m.stack = <<>> THEN Failing(m)
                   ELSE LET n == [m EXCEPT !.stack = Front(@)] IN
                        IF top = 0 THEN SkipTo(n, "if", "then") ELSE n
    [] t = "do" -> LET n == Replace(m, 2, <<>>)
                       limit == m.stack[Len(m.stack) - 1]
                   IN IF ~n.ok THEN n
                      ELSE IF top >= limit THEN SkipTo(n, "do", "loop")
                      ELSE [n EXCEPT !.rt.loops =
                              Append(@, [start |-> n.rt.ip, index |-> top, limit |-> limit])]
    [] t = "i" -> IF m.rt.loops = <<>> THEN Failing(m) ELSE Push(m, Last(m.rt.loops).index)
    [] t = "loop" -> IF m.rt.loops = <<>> THEN Failing(m) ELSE [m EXCEPT !.rt = Loop(@)]

StepOnce(m) ==
  IF m.rt.ip >= Len(m.rt.tokens) THEN [m EXCEPT !.rt = Return(@)]
  ELSE LET t == m.rt.tokens[m.rt.ip + 1]
           n == [m EXCEPT !.rt.ip = @ + 1]
       IN CASE t \in DOMAIN Arity -> Operate(n, t)
            [] t \in {"var", "set", "get"} -> Named(n, t)
            [] t \in Controls -> Control(n, t)
            [] OTHER -> IF t \in DOMAIN words THEN [n EXCEPT !.rt = CallWord(@, words[t])]
                        ELSE IF t \in DOMAIN Numbers THEN Push(n, Numbers[t])
                        ELSE Failing(n)

(* The calls.                                                                 *)

NoRuntime == [tokens |-> <<>>, ip |-> 0, frames |-> <<>>, loops |-> <<>>, envs |-> << <<>> >>,
              output |-> <<>>, halted |-> FALSE]

(* The sources: trees of nodes, [k |-> "token", t], [k |-> "name", t, name] and
   [k |-> "if" or "do", body], for the main program and the words, laid out one
   way or another.                                                              *)

RECURSIVE TokensOf(_)
TokensOf(tree) ==
  IF tree = <<>> THEN <<>>
  ELSE LET n == Head(tree) IN
       (CASE n.k = "token" -> <<n.t>>
          [] n.k = "name" -> <<n.t, n.name>>
          [] n.k = "if" -> <<"if">> \o TokensOf(n.body) \o <<"then">>
          [] n.k = "do" -> <<"do">> \o TokensOf(n.body) \o <<"loop">>) \o TokensOf(Tail(tree))
Definitions(s) ==
  FlattenSeq([i \in DOMAIN s.words |-> <<":", s.words[i].name>> \o TokensOf(s.words[i].body) \o <<";">>])

Whole == {"before", "after", "included"}
SourceText(s) ==
  LET main == TokensOf(s.main)  defs == Definitions(s) IN
  CASE s.layout = "before" -> defs \o main
    [] s.layout = "after" -> main \o defs
    [] s.layout = "unclosed" -> main \o Front(defs)
    [] s.layout = "stray" -> main \o defs \o <<";">>
    [] s.layout = "absent" -> main \o <<"include", "nowhere">>
    [] s.layout \in {"included", "endless"} -> <<"include", "library">> \o main
Files(s) ==
  [path \in {"library"} |-> IF s.layout = "endless" THEN SourceText(s) ELSE Definitions(s)]

ForthInit ==
  /\ source \in Sources
  /\ words = <<>> /\ runtime = NoRuntime /\ cells = <<>> /\ outcome = "idle"

StartForth ==
  LET made == Compiled(Files(source), SourceText(source)) IN
  /\ outcome = "idle"
  /\ outcome' = IF made.ok THEN "running" ELSE "refused"
  /\ words' = made.words
  /\ runtime' = [NoRuntime EXCEPT !.tokens = made.main]
  /\ cells' = <<>>
  /\ UNCHANGED source

RunSteps ==
  LET m == StepOnce([rt |-> runtime, stack |-> cells, ok |-> TRUE]) IN
  /\ outcome = "running"
  /\ cells' = m.stack
  /\ runtime' = IF m.ok THEN m.rt ELSE runtime
  /\ outcome' = IF ~m.ok THEN "failed" ELSE IF m.rt.halted THEN "halted" ELSE "running"
  /\ UNCHANGED <<source, words>>

\* run is called again after an error.
RunAgain == outcome = "failed" /\ outcome' = "running" /\ UNCHANGED <<source, words, runtime, cells>>

ForthNext == StartForth \/ RunSteps \/ RunAgain

(* What a source means: its tree, evaluated. A state is [stack, output, known,
   local, indexes, ok]: known gives the visible names their values, local holds
   those of the call that is running.                                           *)

RECURSIVE Meaning(_, _), Turns(_, _, _, _)
Called(body, s) ==
  LET r == Meaning(body, [s EXCEPT !.local = {}]) IN
  [r EXCEPT !.local = s.local,
            !.known = [x \in DOMAIN s.known \cup (DOMAIN r.known \ r.local) |->
                         IF x \in r.local THEN s.known[x] ELSE r.known[x]]]
Turns(body, s, index, limit) ==
  IF index >= limit \/ ~s.ok THEN s
  ELSE LET r == Meaning(body, [s EXCEPT !.indexes = Append(@, index)]) IN
       Turns(body, [r EXCEPT !.indexes = s.indexes], index + 1, limit)
Meaning(tree, s) ==
  IF tree = <<>> \/ ~s.ok THEN s
  ELSE LET n == Head(tree)
           enough(k) == Len(s.stack) >= k
           low == Failing([s EXCEPT !.stack = <<>>])
           top == Last(s.stack)
           one == [s EXCEPT !.stack = Front(@)]
           r == CASE n.k = "if" -> IF ~enough(1) THEN low ELSE IF top = 0 THEN one ELSE Meaning(n.body, one)
                  [] n.k = "do" -> IF ~enough(2) THEN low
                                   ELSE Turns(n.body, [s EXCEPT !.stack = Front(Front(@))],
                                              top, s.stack[Len(s.stack) - 1])
                  [] n.k = "name" /\ n.t = "get" ->
                       IF n.name \in DOMAIN s.known THEN Push(s, s.known[n.name]) ELSE Failing(s)
                  [] n.k = "name" /\ n.t = "var" ->
                       IF n.name \in s.local THEN s
                       ELSE [s EXCEPT !.known = (n.name :> 0) @@ @, !.local = @ \cup {n.name}]
                  [] n.k = "name" /\ n.t = "set" ->
                       IF ~enough(1) THEN low
                       ELSE [one EXCEPT !.known = (n.name :> top) @@ @,
                                        !.local = IF n.name \in DOMAIN s.known THEN @ ELSE @ \cup {n.name}]
                  [] n.k = "token" ->
                       IF n.t = "." THEN (IF enough(1) THEN [one EXCEPT !.output = Append(@, top)] ELSE low)
                       ELSE IF n.t = "i" THEN (IF s.indexes = <<>> THEN Failing(s) ELSE Push(s, Last(s.indexes)))
                       ELSE IF n.t \in DOMAIN Arity THEN Operate(s, n.t)
                       ELSE IF n.t \in DOMAIN Numbers THEN Push(s, Numbers[n.t])
                       ELSE LET w == SelectLastInSeq(source.words, LAMBDA d : d.name = n.t) IN
                            IF w = 0 THEN Failing(s) ELSE Called(source.words[w].body, s)
       IN Meaning(Tail(tree), r)

\* A source is refused exactly when a definition, an include or a semicolon of it
\* is broken. Interpreted token by token, with its jumps, frames and environments,
\* it ends as its tree evaluates to: the same output and stack, or an error at the
\* same place, also when it is run again after that.
ForthAgrees ==
  LET meant == Meaning(source.main, [stack |-> <<>>, output |-> <<>>, known |-> <<>>, local |-> {},
                                     indexes |-> <<>>, ok |-> TRUE])
  IN /\ outcome # "idle" => (outcome = "refused" <=> source.layout \notin Whole)
     /\ outcome \in {"halted", "failed"} =>
          /\ runtime.output = meant.output /\ cells = meant.stack /\ meant.ok = (outcome = "halted")
=============================================================================
