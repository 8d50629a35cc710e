----------------------------- MODULE StreamPull -----------------------------
(* async/stream.ts: the operators that pull.  Each is a generator that asks the *)
(* one before it for an item at a time, so that a pipeline is run item by item  *)
(* from its end; an operator is here what it keeps between two items, what it   *)
(* yields for an item, and whether it breaks off.  An item is a Result.         *)
(*                                                                              *)
(* A pipeline has two operators and what runs it: collect(), first(), reduce()  *)
(* or groupBy().  User functions are one of a kind each: add one, is even.      *)
EXTENDS Integers, Sequences, FiniteSets, SequencesExt

CONSTANTS Values,     \* numbers in the source
          MaxLength,  \* bound on the items of a source
          Other,      \* the items of the stream that is concatenated or zipped
          Pipelines   \* triples of operators

VARIABLES source,  \* what the source will yield
          pulled,  \* how many items of it have been pulled
          stages,  \* the operators with what they keep
          ended    \* whether the pipeline has

pullVars == <<source, pulled, stages, ended>>

Ok(v) == [isOk |-> TRUE, value |-> v]
Err(e) == [isOk |-> FALSE, value |-> e]

Sources == UNION {[1..n -> {Ok(v) : v \in Values} \cup {Err(0)}] : n \in 0..MaxLength}

IsEven(v) == v % 2 = 0
Inner(v) == IF IsEven(v) THEN <<Ok(v), Ok(v + 10)>> ELSE <<>>

\* An operator before its first item.  "n" is its number, "kept" what it keeps.
Fresh(op) ==
  [op EXCEPT !.kept =
     CASE op.name \in {"chunk", "window", "distinctUntilChanged", "collect", "first", "groupBy"} -> <<>>
       [] op.name \in {"zip", "concat"} -> Other
       [] op.name = "throttle" -> -op.n
       [] OTHER -> 0]

PullInit ==
  /\ source \in Sources /\ pulled = 0
  /\ \E p \in Pipelines : stages = [i \in 1..3 |-> Fresh(p[i])]
  /\ ended = FALSE
-----------------------------------------------------------------------------
Yields(stage, kept, items) == [stage |-> [stage EXCEPT !.kept = kept], out |-> items, stop |-> FALSE]
Breaks(stage) == [stage |-> stage, out |-> <<>>, stop |-> TRUE]
Passes(stage, item) == Yields(stage, stage.kept, <<item>>)

\* What map(), filter(), flatMap(), take(), drop(), takeWhile() do with an Ok.
Sifted(stage, item) ==
  LET kept == stage.kept
  IN  CASE stage.name = "map" -> Passes(stage, Ok(item.value + 1))
        [] stage.name = "filter" -> Yields(stage, kept, IF IsEven(item.value) THEN <<item>> ELSE <<>>)
        [] stage.name = "flatMap" -> Yields(stage, kept, Inner(item.value))
        [] stage.name = "take" -> IF kept >= stage.n THEN Breaks(stage) ELSE Yields(stage, kept + 1, <<item>>)
        [] stage.name = "drop" -> IF kept < stage.n THEN Yields(stage, kept + 1, <<>>) ELSE Passes(stage, item)
        [] stage.name = "takeWhile" -> IF IsEven(item.value) THEN Passes(stage, item) ELSE Breaks(stage)

Chunked(stage, v) ==
  LET all == Append(stage.kept, v)
  IN  IF Len(all) >= stage.n THEN Yields(stage, <<>>, <<Ok(all)>>) ELSE Yields(stage, all, <<>>)

Windowed(stage, v) ==
  LET all == Append(stage.kept, v)
  IN  IF Len(all) >= stage.n THEN Yields(stage, Tail(all), <<Ok(all)>>) ELSE Yields(stage, all, <<>>)

Scanned(stage, v) == Yields(stage, stage.kept + v, <<Ok(stage.kept + v)>>)

Throttled(stage, item, now) ==
  IF now - stage.kept >= stage.n THEN Yields(stage, now, <<item>>) ELSE Yields(stage, stage.kept, <<>>)

Changed(stage, item) ==
  IF stage.kept = <<item.value>> THEN Yields(stage, stage.kept, <<>>) ELSE Yields(stage, <<item.value>>, <<item>>)

\* What runs a pipeline, with an Ok: collect(), forEach(), reduce() and first().
Run(stage, v) ==
  CASE stage.name = "collect" -> Yields(stage, Append(stage.kept, v), <<>>)
    [] stage.name = "reduce" -> Yields(stage, stage.kept + v, <<>>)
    [] stage.name = "first" -> [stage |-> [stage EXCEPT !.kept = <<v>>], out |-> <<>>, stop |-> TRUE]

Grouped(stage, v) ==
  LET key == IF IsEven(v) THEN "even" ELSE "odd"
      old == IF key \in DOMAIN stage.kept THEN stage.kept[key] ELSE <<>>
  IN  Yields(stage, [k \in {key} \cup DOMAIN stage.kept |-> IF k = key THEN Append(old, v) ELSE stage.kept[k]], <<>>)

\* What an operator does with an Ok.  "now" is when it gets it.
Taken(stage, item, now) ==
  CASE stage.name \in {"map", "filter", "flatMap", "take", "drop", "takeWhile"} -> Sifted(stage, item)
    [] stage.name \in {"mapErr", "concat"} -> Passes(stage, item)
    [] stage.name = "chunk" -> Chunked(stage, item.value)
    [] stage.name = "window" -> Windowed(stage, item.value)
    [] stage.name = "scan" -> Scanned(stage, item.value)
    [] stage.name = "throttle" -> Throttled(stage, item, now)
    [] stage.name = "distinctUntilChanged" -> Changed(stage, item)
    [] stage.name = "groupBy" -> Grouped(stage, item.value)
    [] OTHER -> Run(stage, item.value)

\* zip() has pulled an item of each stream, and gives up both if one is an error.
Zipped(stage, item) ==
  IF stage.kept = <<>> THEN Breaks(stage)
  ELSE LET other == Head(stage.kept) IN
       Yields(stage, Tail(stage.kept),
              IF ~item.isOk THEN <<item>> ELSE IF ~other.isOk THEN <<other>> ELSE <<Ok(<<item.value, other.value>>)>>)

Runs(stage) == stage.name \in {"collect", "first", "reduce", "groupBy"}

\* An error goes through everything, ahead of what is kept, except that take() looks at its
\* count first; what runs the pipeline answers with the first.
Failed(stage, item) ==
  CASE stage.name = "take" /\ stage.kept >= stage.n -> Breaks(stage)
    [] stage.name = "mapErr" -> Passes(stage, Err(item.value + 1))
    [] Runs(stage) -> [stage |-> [stage EXCEPT !.kept = item], out |-> <<>>, stop |-> TRUE]
    [] OTHER -> Passes(stage, item)

\* Mutant of Step: take() and drop() count errors.
StepCountsErrors(stage, item, now) ==
  CASE stage.name = "zip" -> Zipped(stage, item)
    [] item.isOk \/ stage.name \in {"take", "drop"} -> Taken(stage, item, now)
    [] OTHER -> Failed(stage, item)

\* One item.
Step(stage, item, now) ==
  CASE stage.name = "zip" -> Zipped(stage, item)
    [] item.isOk -> Taken(stage, item, now)
    [] OTHER -> Failed(stage, item)

\* What is yielded after the last item.
Rest(stage) ==
  CASE stage.name = "chunk" /\ stage.kept # <<>> -> <<Ok(stage.kept)>>
    [] stage.name = "concat" -> stage.kept
    [] OTHER -> <<>>

\* Items one after the other, until the operator breaks off.
Feed(stage, items, now) ==
  FoldLeft(LAMBDA acc, item :
             IF acc.stop THEN acc
             ELSE LET s == Step(acc.stage, item, now) IN [s EXCEPT !.out = acc.out \o s.out],
           Yields(stage, stage.kept, <<>>), items)

\* The items the first operator has yielded, on their way through the other two.  When an
\* operator breaks off, what follows has no more items.
Through(first, items, stop, now) ==
  LET second == Feed(stages[2], items, now)
      last == stop \/ second.stop
      third == Feed(stages[3], IF last /\ ~second.stop THEN second.out \o Rest(second.stage) ELSE second.out, now)
  IN  /\ stages' = <<first, second.stage, third.stage>>
      /\ ended' = (last \/ third.stop)

\* When second breaks off it has no rest: only chunk() and concat() have, which never do.
Pull ==
  /\ ~ended /\ pulled < Len(source)
  /\ pulled' = pulled + 1
  /\ LET now == pulled' IN LET first == Step(stages[1], source[now], now) IN
       Through(first.stage, first.out, first.stop, now)
  /\ UNCHANGED source

End ==
  /\ ~ended /\ pulled = Len(source)
  /\ Through(stages[1], Rest(stages[1]), TRUE, pulled)
  /\ UNCHANGED <<source, pulled>>

PullNext == Pull \/ End
PullSpec == PullInit /\ [][PullNext]_pullVars
-----------------------------------------------------------------------------
(* What an operator makes of a whole sequence, item by item of that.            *)

Values0(s) == LET oks == SelectSeq(s, LAMBDA r : r.isOk) IN [i \in 1..Len(oks) |-> oks[i].value]
Rank(s, i) == Len(SelectSeq(SubSeq(s, 1, i), LAMBDA r : r.isOk))
Total(vs) == FoldLeft(LAMBDA a, b : a + b, 0, vs)
Cut(vs, from, to) == SubSeq(vs, from, to)
Until(s, Fails(_)) == SelectInSeq(s, LAMBDA r : r.isOk /\ Fails(r.value))

\* The Oks that throttle() lets through: those with no other let through shortly before.
Spaced(s, n) ==
  CHOOSE E \in SUBSET {i \in 1..Len(s) : s[i].isOk} :
    \A i \in 1..Len(s) : s[i].isOk => (i \in E <=> \A e \in E : e >= i \/ i - e >= n)

At(op, s, i) ==
  LET r == Rank(s, i)
      vs == Values0(s)
      v == s[i].value
  IN  CASE op.name = "mapErr" /\ ~s[i].isOk -> <<Err(v + 1)>>
        [] ~s[i].isOk \/ op.name = "mapErr" -> <<s[i]>>
        [] op.name = "map" -> <<Ok(v + 1)>>
        [] op.name = "filter" -> IF IsEven(v) THEN <<s[i]>> ELSE <<>>
        [] op.name = "flatMap" -> Inner(v)
        [] op.name = "drop" -> IF r > op.n THEN <<s[i]>> ELSE <<>>
        [] op.name = "chunk" -> IF r % op.n = 0 THEN <<Ok(Cut(vs, r - op.n + 1, r))>> ELSE <<>>
        [] op.name = "window" -> IF r >= op.n THEN <<Ok(Cut(vs, r - op.n + 1, r))>> ELSE <<>>
        [] op.name = "scan" -> <<Ok(Total(Cut(vs, 1, r)))>>
        [] op.name = "throttle" -> IF i \in Spaced(s, op.n) THEN <<s[i]>> ELSE <<>>
        [] op.name = "distinctUntilChanged" -> IF r > 1 /\ vs[r - 1] = v THEN <<>> ELSE <<s[i]>>

Made(op, s) ==
  CASE op.name = "take" -> SubSeq(s, 1, Cardinality({i \in 1..Len(s) : Rank(s, i - 1) < op.n}))
    [] op.name = "takeWhile" ->
         LET at == Until(s, LAMBDA v : ~IsEven(v)) IN IF at = 0 THEN s ELSE SubSeq(s, 1, at - 1)
    [] op.name = "concat" -> s \o Other
    [] op.name = "zip" ->
         [i \in 1..(IF Len(s) < Len(Other) THEN Len(s) ELSE Len(Other)) |->
            IF ~s[i].isOk THEN s[i] ELSE IF ~Other[i].isOk THEN Other[i] ELSE Ok(<<s[i].value, Other[i].value>>)]
    [] OTHER ->
         FlattenSeq([i \in 1..Len(s) |-> At(op, s, i)])
           \o (LET left == Rank(s, Len(s)) % op.n IN
               IF op.name = "chunk" /\ left > 0
               THEN <<Ok(Cut(Values0(s), Rank(s, Len(s)) - left + 1, Rank(s, Len(s))))>> ELSE <<>>)

Answer(op, s) ==
  LET vs == Values0(s)
      bad == SelectInSeq(s, LAMBDA r : ~r.isOk)
  IN  CASE s # <<>> /\ op.name = "first" -> IF s[1].isOk THEN <<s[1].value>> ELSE s[1]
        [] bad # 0 -> s[bad]
        [] op.name = "reduce" -> Total(vs)
        [] op.name = "groupBy" ->
             LET evens == SelectSeq(vs, IsEven)
                 odds == SelectSeq(vs, LAMBDA v : ~IsEven(v))
             IN  [k \in (IF evens = <<>> THEN {} ELSE {"even"}) \cup (IF odds = <<>> THEN {} ELSE {"odd"}) |->
                    IF k = "even" THEN evens ELSE odds]
        [] OTHER -> vs

\* A pipeline that is run item by item, and that breaks off, gives what its operators make
\* of whole sequences one after the other: errors that overtake what chunk() and window()
\* keep included.
PipelineIsComposition ==
  ended => LET first == Made(stages[1], source) IN
           LET second == Made(stages[2], first) IN
             stages[3].kept = Answer(stages[3], second)
=============================================================================
