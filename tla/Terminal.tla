------------------------------ MODULE Terminal ------------------------------
(* io/terminal.ts and runtime/adapters/stdin.ts: a program that reads lines,    *)
(* passwords and answers from its standard input, one call at a time, each      *)
(* with a timeout or without, on Deno and on Node.                              *)
(*                                                                              *)
(* The input comes in chunks of characters, as the terminal hands them on; of   *)
(* those that count, "abort", "eof" and "bell" are ^C, ^D and ^G.  A read is    *)
(* what is below a call, and may outlive it.                                    *)
EXTENDS Naturals, FiniteSets, Sequences, SequencesExt

CONSTANTS Scripts,  \* what is typed: sequences of chunks
          MaxCalls

VARIABLES runtime, \* "deno" or "node"
          tty,     \* isTTY
          typed,   \* the whole input
          input,   \* the chunks that have not been read
          raw,     \* raw mode
          stream,  \* of Node's stdin: "paused", "flows" or "ended"
          reads,   \* the reads that are pending: [kind, call, chars]
          calls    \* the calls, with their answers

terminalVars == <<runtime, tty, typed, input, raw, stream, reads, calls>>

None == [none |-> TRUE]
Some(x) == [some |-> x]
Pending == [pending |-> TRUE]

\* What a read has by now, and its answer if it has one.
Reading(chars) == [chars |-> chars, answer |-> Pending]
Answers(answer) == [chars |-> <<>>, answer |-> answer]

EndsIn(s, c) == s # <<>> /\ s[Len(s)] = c

\* denoReadLine() with one chunk: what comes after the end of the line goes.
TakeLine(chars, chunk) ==
  LET ends == {i \in DOMAIN chunk : chunk[i] = "nl"}
      line == chars \o SubSeq(chunk, 1, Min(ends) - 1)
  IN  IF ends = {} THEN Reading(chars \o chunk)
      ELSE Answers(Some(IF EndsIn(line, "cr") THEN Front(line) ELSE line))

\* classifyChar() and applyCharAction().
TakeChar(chars, c) ==
  CASE c = "abort" -> Answers(None)
    [] c = "eof" -> Answers(IF chars = <<>> THEN None ELSE Some(chars))
    [] c \in {"nl", "cr"} -> Answers(Some(chars))
    [] c = "del" -> Reading(IF chars = <<>> THEN chars ELSE Front(chars))
    [] c = "bell" -> Reading(chars)
    [] OTHER -> Reading(Append(chars, c))

\* A loop over the characters of a chunk until one answers.
TakeAll(Step(_, _), chars, chunk) ==
  FoldLeft(LAMBDA r, c : IF r.answer = Pending THEN Step(r.chars, c) ELSE r, Reading(chars), chunk)

\* rawPasswordRaw() and rawPasswordEvent().
TakePassword(chars, chunk) == TakeAll(TakeChar, chars, chunk)

\* Node's interface on a terminal reads keys, in raw mode: ^D is for an empty line only, and
\* deletes what is to the right of the cursor otherwise.
TakeKey(chars, c) == IF c = "eof" /\ chars # <<>> THEN Reading(chars) ELSE TakeChar(chars, c)

\* Anywhere else it splits lines.
TakeSplit(chars, c) == IF c \in {"nl", "cr"} THEN Answers(Some(chars)) ELSE Reading(Append(chars, c))

\* Either answers with the first line, and is closed with the rest of the chunk.
Keys == runtime = "node" /\ tty
TakeQuestion(chars, chunk) == IF Keys THEN TakeAll(TakeKey, chars, chunk) ELSE TakeAll(TakeSplit, chars, chunk)

Take(kind, chars, chunk) ==
  CASE kind = "line" -> IF runtime = "deno" THEN TakeLine(chars, chunk) ELSE TakeQuestion(chars, chunk)
    [] kind = "password" -> TakePassword(chars, chunk)
    [] kind = "all" -> Reading(chars \o chunk)

\* The end of the input: Node has no event for what waits for data, and closes a question
\* without giving it what there is of a line.
TakeEnd(kind, chars) ==
  CASE kind = "all" -> Answers(Some(chars))
    [] runtime = "deno" /\ kind # "all" -> Answers(IF chars = <<>> THEN None ELSE Some(chars))
    [] runtime = "node" /\ kind = "line" -> Answers(None)
    [] runtime = "node" /\ kind = "password" -> Reading(chars)

\* parseYesNo()
YesNo(line) == CASE line = <<"y">> -> Some(TRUE) [] line = <<"n">> -> Some(FALSE) [] OTHER -> None
-----------------------------------------------------------------------------
Busy == calls # <<>> /\ calls[Len(calls)].answer = Pending
Current == Len(calls)
ReadOf(kind) == [kind |-> kind, call |-> Current + 1, chars |-> <<>>]

\* stdin.resume() and stdin.pause(), of Node: what has ended does not end again.
Resumed == IF runtime = "node" /\ stream = "paused" THEN "flows" ELSE stream
Paused == IF runtime = "node" /\ stream = "flows" THEN "paused" ELSE stream

\* A call of Terminal: readPassword() wants a terminal, and readAll() none.  The interface
\* that is created for a question turns raw mode on if it is on a terminal.
Call(kind) ==
  /\ ~Busy /\ Len(calls) < MaxCalls
  /\ LET refused == (kind = "password" /\ ~tty) \/ (kind = "all" /\ tty)
     IN  /\ calls' = Append(calls, [kind |-> kind, late |-> FALSE, asked |-> 1,
                                    answer |-> IF ~refused THEN Pending ELSE IF kind = "all" THEN Some(<<>>) ELSE None])
         /\ reads' = IF refused THEN reads ELSE Append(reads, ReadOf(IF kind = "confirm" THEN "line" ELSE kind))
         /\ raw' = (raw \/ (~refused /\ (kind = "password" \/ Keys)))
         /\ stream' = IF refused THEN stream ELSE Resumed
  /\ UNCHANGED <<runtime, tty, typed, input>>

\* Of the read of the current call: the answer of the call, or, for confirm(), of a line
\* that is neither yes nor no on a terminal, a new question.
Answered(line) ==
  IF calls[Current].kind # "confirm" THEN line
  ELSE IF line = None THEN Some(FALSE)
  ELSE IF YesNo(line.some) # None THEN YesNo(line.some)
  ELSE IF tty THEN Pending ELSE Some(FALSE)

\* Which of the reads get a chunk: on Deno the one that asked first, on Node all that
\* listen.
Takers == IF runtime = "deno" THEN {1} \cap DOMAIN reads ELSE DOMAIN reads
Flows == reads # <<>> /\ stream = "flows"

\* What is left of the reads: those that go on read again, on Deno after the others.
Left(fed) ==
  LET kept == SelectSeq([i \in DOMAIN reads |-> IF i \in Takers THEN [reads[i] EXCEPT !.chars = fed[i].chars] ELSE reads[i]],
                        LAMBDA r : \A i \in Takers : r.call = reads[i].call => fed[i].answer = Pending)
  IN  IF runtime = "deno" /\ fed[1].answer = Pending THEN Append(Tail(kept), Head(kept)) ELSE kept

\* An answer of a read whose call has timed out is nobody's.  The close() of a question on
\* Node, whoever's it was, and the finally of readPassword() end raw mode and pause stdin.
Deliver(fed, over) ==
  LET done == {i \in Takers : fed[i].answer # Pending}
      mine == {i \in done : reads[i].call = Current /\ Busy}
      answer == Answered(fed[CHOOSE i \in mine : TRUE].answer)
      again == mine # {} /\ answer = Pending
      stops == \/ runtime = "node" /\ \E i \in done : reads[i].kind = "line"
               \/ mine # {} /\ calls[Current].kind = "password"
  IN  /\ reads' = IF again THEN Append(Left(fed), [kind |-> "line", call |-> Current, chars |-> <<>>]) ELSE Left(fed)
      /\ calls' = IF mine = {} THEN calls
                  ELSE IF again THEN [calls EXCEPT ![Current].asked = @ + 1]
                  ELSE [calls EXCEPT ![Current].answer = answer]
      /\ raw' = IF again THEN Keys ELSE raw /\ ~stops
      /\ stream' = IF over /\ runtime = "node" THEN "ended"
                   ELSE IF again THEN Resumed ELSE IF stops THEN Paused ELSE stream

Arrives ==
  /\ input # <<>> /\ Flows
  /\ input' = Tail(input)
  /\ Deliver([i \in DOMAIN reads |-> Take(reads[i].kind, reads[i].chars, Head(input))], FALSE)
  /\ UNCHANGED <<runtime, tty, typed>>

Ends ==
  /\ input = <<>> /\ Flows
  /\ Deliver([i \in DOMAIN reads |-> TakeEnd(reads[i].kind, reads[i].chars)], TRUE)
  /\ UNCHANGED <<runtime, tty, typed, input>>

\* withTimeout(): the call has its answer, and the read goes on.  Only readPassword() says
\* what there is to do: of a question on Node the interface stays open, and the terminal raw.
TimesOut ==
  /\ Busy /\ calls[Current].kind # "all"
  /\ calls' = [calls EXCEPT ![Current].answer = IF calls[Current].kind = "confirm" THEN Some(FALSE) ELSE None,
                            ![Current].late = TRUE]
  /\ IF calls[Current].kind = "password" THEN raw' = FALSE /\ stream' = Paused ELSE UNCHANGED <<raw, stream>>
  /\ UNCHANGED <<runtime, tty, typed, input, reads>>

TerminalInit ==
  /\ runtime \in {"deno", "node"} /\ tty \in BOOLEAN
  /\ typed \in Scripts
  /\ input = typed
  /\ raw = FALSE /\ reads = <<>> /\ calls = <<>>
  /\ stream = IF runtime = "deno" THEN "flows" ELSE "paused"

TerminalNext ==
  \/ \E kind \in {"line", "password", "confirm", "all"} : Call(kind)
  \/ Arrives \/ Ends \/ TimesOut

TerminalSpec == TerminalInit /\ [][TerminalNext]_terminalVars
-----------------------------------------------------------------------------
\* terminal.ts:320, stdin.ts:106: the terminal is raw while a password is read, unless its
\* input has ended, although close() of a question that is still open turns it off, and, but
\* for passwords, only while Node has a question open, which one that has timed out still is.
RawModeEnds ==
  LET password == Busy /\ calls[Current].kind = "password"
  IN  /\ password /\ stream # "ended" => raw
      /\ raw => password \/ (Keys /\ \E i \in DOMAIN reads : reads[i].kind = "line")
      /\ Keys /\ Busy /\ ~password /\ stream # "ended" => raw

Chars == FlattenSeq(typed)

\* Where the line that begins at i ends, and what it is, if it comes in one chunk.
LineFrom(kind, i, j) == Take(kind, <<>>, SubSeq(Chars, i, j))
EndOf(kind, i) ==
  LET ends == {j \in i .. Len(Chars) : LineFrom(kind, i, j).answer # Pending}
  IN  IF ends = {} THEN Len(Chars) ELSE Min(ends)

LineAt(kind, i) ==
  LET line == LineFrom(kind, i, EndOf(kind, i))
  IN  IF line.answer # Pending THEN line.answer ELSE TakeEnd(kind, line.chars).answer

StartOf(n) == FoldLeft(LAMBDA i, call : EndOf(call.kind, i) + 1, 1, SubSeq(calls, 1, n - 1))

\* A line ends where a chunk does.
ChunkEnds == {Len(FlattenSeq(SubSeq(typed, 1, n))) : n \in DOMAIN typed}
Tidy == \A n \in DOMAIN calls : EndOf(calls[n].kind, StartOf(n)) \in ChunkEnds

\* The n-th call is answered with the n-th line that was typed, whatever the chunks it came
\* in and whatever the reads before: as long as no call has timed out, no chunk goes on
\* after the end of a line, and the calls are for lines or passwords.
LinesAreAnswered ==
  (\A n \in DOMAIN calls : ~calls[n].late /\ (calls[n].kind = "line" \/ (tty /\ calls[n].kind = "password"))) /\ Tidy
    => \A n \in DOMAIN calls :
         calls[n].answer # Pending => calls[n].answer = LineAt(calls[n].kind, StartOf(n))

\* What the instance checks of all of this.
TerminalIsFaithful == RawModeEnds /\ LinesAreAnswered
=============================================================================
