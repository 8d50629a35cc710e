------------------------------- MODULE Records -------------------------------
(* data/record.ts and data/internals.ts: records that set(), update(),        *)
(* merge() and produce() make new ones of, and the recording of the path that *)
(* an accessor reads.                                                         *)
(*                                                                            *)
(* A recipe writes to a draft: what it writes is logged and replayed on the   *)
(* record when it is done, except what it writes into an object that it has   *)
(* itself assigned, which changes in place.  A frozen object is a value, so   *)
(* that sharing it is not told apart from copying it.                         *)
EXTENDS Values

CONSTANTS Bases,      \* the records to begin with
          Paths,      \* what is written to
          Written,    \* what is written
          MaxWrites,  \* in one recipe
          MaxSteps,   \* records made one from another
          MaxNesting, \* accessors running inside one another
          MaxTouches  \* reads of one accessor

VARIABLES
  record,   \* _raw
  earlier,  \* the record that it was made from
  log,      \* mutations
  direct,   \* what the writes make of a copy that they are made to in place
  recipe,   \* one is running
  writes,   \* how often it has written
  made      \* records so far

VARIABLES
  pathRecording,  \* _pathRecording
  pathBuf,        \* _pathBuf
  accessors,      \* the running ones, the innermost last: whether it uses the buffer, the
                  \* path of its own that it records otherwise, and what it has read
  recorded        \* the last path that was returned, and what its accessor had read

recordVars == <<record, earlier, log, direct, recipe, writes, made>>
pathVars == <<pathRecording, pathBuf, accessors, recorded>>

With(v, key, x) == Object([k \in {key} |-> x] @@ Spread(v))

RECURSIVE SetByPath(_, _, _), DeepEqual(_, _)

\* getByPath(): also where there is nothing.
GetByPath(v, path) == FoldLeft(Item, v, path)

\* setByPath(): copies what is on the path.  An array on it is looked for one key ahead,
\* and none is where a path begins.
SetByPath(v, path, x) ==
  IF path = <<>> THEN x
  ELSE LET child == Item(v, path[1])
       IN  IF IsA(child, "list") /\ Len(path) > 1 /\ IsIndex(path[2])
           THEN LET i == IndexOf(path[2])
                    item == SetByPath(Item(child, path[2]), SubSeq(path, 3, Len(path)), x)
                IN  With(v, path[1], List([j \in DOMAIN child.list \cup {i} |-> IF j = i THEN item ELSE child.list[j]]))
           ELSE With(v, path[1], SetByPath(child, Tail(path), x))

\* deepEqual(): that the second is an array is asked only if the first is one, and what
\* has no keys is equal to whatever has none.
DeepEqual(a, b) ==
  \/ a = b
  \/ /\ {"object", "list"} \cap DOMAIN a # {} /\ {"object", "list"} \cap DOMAIN b # {}
     /\ IsA(a, "list") => IsA(b, "list")
     /\ Cardinality(Keys(a)) = Cardinality(Keys(b))
     /\ \A k \in Keys(a) : k \in Keys(b) /\ DeepEqual(Item(a, k), Item(b, k))

\* What writing in place does: the reference.
RECURSIVE Write(_, _, _), Erase(_, _)
Write(v, path, x) ==
  IF path = <<>> THEN x
  ELSE LET inner == Write(Item(v, path[1]), Tail(path), x)
       IN  IF IsA(v, "list")
           THEN List([j \in DOMAIN v.list \cup {IndexOf(path[1])} |-> IF j = IndexOf(path[1]) THEN inner ELSE v.list[j]])
           ELSE With(v, path[1], inner)

Erase(v, path) ==
  IF Len(path) = 1 THEN Object([k \in Keys(v) \ {path[1]} |-> Item(v, k)])
  ELSE Write(v, <<path[1]>>, Erase(Item(v, path[1]), Tail(path)))

\* A path can be written to where its parent has keys, and a list grows at its end only.
Writable(v, path) ==
  LET parent == GetByPath(v, Front(path))
  IN  \/ IsA(parent, "object")
      \/ IsA(parent, "list") /\ IsIndex(Last(path)) /\ IndexOf(Last(path)) <= Len(parent.list) + 1

RecordInit ==
  /\ record \in Bases
  /\ earlier = record /\ direct = record
  /\ log = <<>> /\ recipe = FALSE /\ writes = 0 /\ made = 0

Makes(raw) ==
  /\ record' = raw /\ earlier' = record /\ made' = made + 1
  /\ log' = <<>> /\ recipe' = FALSE /\ writes' = 0

Set(path, x) ==
  /\ ~recipe /\ made < MaxSteps /\ Writable(record, path)
  /\ Makes(SetByPath(record, path, x))
  /\ direct' = Write(record, path, x)

\* update(), of a number.
Update(path) ==
  /\ ~recipe /\ made < MaxSteps /\ Writable(record, path) /\ IsA(GetByPath(record, path), "number")
  /\ LET x == Num((GetByPath(record, path).number + 1) % 10)
     IN  Makes(SetByPath(record, path, x)) /\ direct' = Write(record, path, x)

Merge(key, x) ==
  /\ ~recipe /\ made < MaxSteps
  /\ Makes(With(record, key, x))
  /\ direct' = Write(record, <<key>>, x)

Produce ==
  /\ ~recipe /\ made < MaxSteps
  /\ recipe' = TRUE /\ direct' = record
  /\ UNCHANGED <<record, earlier, log, writes, made>>

\* findMutationValue(): the latest for just this path.
FindMutation(path) == LET at == {i \in DOMAIN log : log[i].path = path} IN IF at = {} THEN 0 ELSE Max(at)

\* Walking down a draft: how far down the first that has been assigned is, or 0.
Assigned(path) ==
  LET at == {d \in DOMAIN path : FindMutation(SubSeq(path, 1, d)) # 0}
  IN  IF at = {} THEN 0 ELSE Min(at)

Read(path) ==
  LET d == Assigned(path)
  IN  IF d = 0 THEN GetByPath(record, path)
      ELSE GetByPath(log[FindMutation(SubSeq(path, 1, d))].value, SubSeq(path, d + 1, Len(path)))

\* The traps set and deleteProperty of a draft, or the assigned object itself.
Logged(path, x, Change(_, _)) ==
  LET d == Assigned(Front(path))
      i == FindMutation(SubSeq(path, 1, d))
  IN  log' = IF d = 0 THEN Append(log, [path |-> path, value |-> x])
             ELSE [log EXCEPT ![i].value = Change(@, SubSeq(path, d + 1, Len(path)))]

Assign(path, x) ==
  /\ recipe /\ writes < MaxWrites /\ Writable(direct, path)
  /\ Logged(path, x, LAMBDA v, rest : Write(v, rest, x))
  /\ direct' = Write(direct, path, x)
  /\ writes' = writes + 1
  /\ UNCHANGED <<record, earlier, recipe, made>>

Delete(path) ==
  /\ recipe /\ writes < MaxWrites
  /\ IsA(GetByPath(direct, Front(path)), "object") /\ Last(path) \in Keys(GetByPath(direct, Front(path)))
  /\ Logged(path, Undefined, Erase)
  /\ direct' = Erase(direct, path)
  /\ writes' = writes + 1
  /\ UNCHANGED <<record, earlier, recipe, made>>

\* Mutant of ApplyMutations: the later writes are replayed first.
ApplyBackwards(v, mutations) == FoldRight(LAMBDA m, acc : SetByPath(acc, m.path, m.value), mutations, v)

ApplyMutations(v, mutations) == FoldLeft(LAMBDA acc, m : SetByPath(acc, m.path, m.value), v, mutations)

Finish == recipe /\ Makes(ApplyMutations(record, log)) /\ UNCHANGED direct

RecordNext ==
  \/ \E path \in Paths, x \in Written : Set(path, x)
  \/ \E path \in Paths : Update(path)
  \/ \E path \in Paths, x \in Written : Len(path) = 1 /\ Merge(path[1], x)
  \/ Produce
  \/ \E path \in Paths, x \in Written : Assign(path, x)
  \/ \E path \in Paths : Delete(path)
  \/ Finish

RecordSpec == RecordInit /\ [][RecordNext]_recordVars

-----------------------------------------------------------------------------
\* A record without the fields that are undefined, as toJSON() is printed: a field that a
\* recipe deletes is there still, and undefined.
RECURSIVE Printed(_)
Printed(v) ==
  IF IsA(v, "object") THEN Object([k \in {k \in Keys(v) : Item(v, k) # Undefined} |-> Printed(v.object[k])])
  ELSE IF IsA(v, "list") THEN List([i \in DOMAIN v.list |-> Printed(v.list[i])])
  ELSE v

\* "Batch mutations via a mutable-looking draft": the record that a recipe makes is what
\* its writes make of a copy, in whatever order they come and however they overlap, and
\* so are the ones that set(), update() and merge() make.
ProduceIsMutation == ~recipe => Printed(record) = Printed(direct)

\* A recipe reads what it wrote.
ReadsSeeWrites ==
  recipe => \A path \in Paths : Writable(direct, path) /\ {"object", "list"} \cap DOMAIN GetByPath(direct, path) = {} =>
              Read(path) = GetByPath(direct, path)

\* equals() of records, lists and what has no parts: "Structural deep equality."
EqualsIsStructural == DeepEqual(record, earlier) <=> record = earlier

-----------------------------------------------------------------------------
PathInit == pathRecording = FALSE /\ pathBuf = <<>> /\ accessors = <<>> /\ recorded = [path |-> <<>>, reads |-> <<>>]

\* recordPath() up to the call of the accessor; another one is running if this one was
\* called by it, and then a path of its own is recorded.
RecordPath ==
  /\ Len(accessors) < MaxNesting
  /\ accessors' = Append(accessors, [shared |-> ~pathRecording, path |-> <<>>, reads |-> <<>>])
  /\ IF pathRecording THEN UNCHANGED <<pathRecording, pathBuf>>
     ELSE pathRecording' = TRUE /\ pathBuf' = <<>>
  /\ UNCHANGED recorded

\* The get trap: of the innermost accessor's object, or of one around it.
Touch(i, key) ==
  /\ i \in DOMAIN accessors /\ Len(accessors[i].reads) < MaxTouches
  /\ IF accessors[i].shared
     THEN /\ pathBuf' = Append(pathBuf, key)
          /\ accessors' = [accessors EXCEPT ![i].reads = Append(@, key)]
     ELSE /\ accessors' = [accessors EXCEPT ![i].reads = Append(@, key), ![i].path = Append(@, key)]
          /\ UNCHANGED pathBuf
  /\ UNCHANGED <<pathRecording, recorded>>

\* The accessor returns, and so does recordPath() or recordPathSlow().
Recorded ==
  /\ accessors # <<>>
  /\ LET a == Last(accessors)
     IN  /\ recorded' = [path |-> IF a.shared THEN pathBuf ELSE a.path, reads |-> a.reads]
         /\ IF a.shared THEN pathBuf' = <<>> /\ pathRecording' = FALSE ELSE UNCHANGED <<pathBuf, pathRecording>>
  /\ accessors' = Front(accessors)

\* It throws: nothing is put back, and every path after that is recorded the slow way.
AccessorThrows ==
  /\ accessors # <<>>
  /\ accessors' = Front(accessors)
  /\ UNCHANGED <<pathRecording, pathBuf, recorded>>

PathNext ==
  \/ RecordPath
  \/ \E i \in 1..MaxNesting, key \in {"x", "y"} : Touch(i, key)
  \/ Recorded
  \/ AccessorThrows

PathSpec == PathInit /\ [][PathNext]_pathVars

\* The path that is written to is the one that this accessor read, whatever the accessors
\* around it and in it read, and whichever threw.
PathsAreOwn == recorded.path = recorded.reads

RecordsAreFaithful == ProduceIsMutation /\ ReadsSeeWrites /\ EqualsIsStructural /\ PathsAreOwn
=============================================================================
