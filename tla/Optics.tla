------------------------------- MODULE Optics -------------------------------
(* core/lens.ts: lenses, optionals, prisms, isos and traversals, and what       *)
(* composing them makes of their getters and setters, on a document that is set *)
(* and modified through them.                                                   *)
(*                                                                              *)
(* An optic is a leaf or two optics composed.  The document is a record with a  *)
(* list of cells and a field that may be null; a cell is of one of two          *)
(* variants; the iso is the successor of numbers up to Limit.  What may be      *)
(* absent is a sequence of no element or one.                                   *)
EXTENDS Integers, Sequences

CONSTANTS Limit,      \* numbers are below
          Documents,  \* those to begin with
          OpticSet    \* the composed optics that the document is changed through

VARIABLE document

opticVars == <<document>>

NullField == -1
Numbers0 == 0..(Limit - 1)
Succ(n) == (n + 1) % Limit
Pred(n) == (n + Limit - 1) % Limit

Prop(k) == [kind |-> "prop", key |-> k]
Nullable(k) == [kind |-> "nullable", key |-> k]
Index(i) == [kind |-> "index", at |-> i]
Prism == [kind |-> "prism"]
Iso == [kind |-> "iso"]
Reversed == [kind |-> "reversed"]
Id == [kind |-> "id"]
Compose(first, second) == [kind |-> "compose", first |-> first, second |-> second]

RECURSIVE GetOption(_, _), SetTo(_, _, _), ReverseGet(_, _), Builds(_)

\* A prism or an iso, or such composed: reverseGet() needs no source.
Builds(o) == o.kind \in {"prism", "iso", "reversed"} \/ (o.kind = "compose" /\ Builds(o.first) /\ Builds(o.second))

\* LensOptional.index(): where an index is that may count from the end, or 0.
Position(i, s) ==
  LET n == IF i < 0 THEN Len(s) + i ELSE i
  IN  IF n >= 0 /\ n < Len(s) THEN n + 1 ELSE 0

\* get() and getOption() of the leaves.
LeafGet(o, s) ==
  CASE o.kind = "prop" -> <<s[o.key]>>
    [] o.kind = "nullable" -> IF s[o.key] = NullField THEN <<>> ELSE <<s[o.key]>>
    [] o.kind = "index" -> IF Position(o.at, s) = 0 THEN <<>> ELSE <<s[Position(o.at, s)]>>
    [] o.kind = "prism" -> IF s.tag = "ok" THEN <<s.value>> ELSE <<>>
    [] o.kind = "iso" -> <<Succ(s)>>
    [] o.kind = "reversed" -> <<Pred(s)>>
    [] o.kind = "id" -> <<s>>

ReverseGet(o, a) ==
  CASE o.kind = "prism" -> [tag |-> "ok", value |-> a]
    [] o.kind = "iso" -> Pred(a)
    [] o.kind = "reversed" -> Succ(a)
    [] o.kind = "compose" -> ReverseGet(o.first, ReverseGet(o.second, a))

\* set() of the leaves.  toOptional() and toLens() forget the source; an index that is not
\* there is left alone, a field that is null is not.
LeafSet(o, a, s) ==
  CASE o.kind \in {"prop", "nullable"} -> [s EXCEPT ![o.key] = a]
    [] o.kind = "index" -> IF Position(o.at, s) = 0 THEN s ELSE [s EXCEPT ![Position(o.at, s)] = a]
    [] o.kind = "id" -> a
    [] OTHER -> ReverseGet(o, a)

\* compose(): the second in what the first has.
GetOption(o, s) ==
  IF o.kind # "compose" THEN LeafGet(o, s)
  ELSE LET a == GetOption(o.first, s) IN IF a = <<>> THEN <<>> ELSE GetOption(o.second, a[1])

\* Prism.compose() builds from the value alone; the others set the second in what the
\* first has, and that in the source, or leave the source alone.
SetTo(o, b, s) ==
  IF o.kind # "compose" THEN LeafSet(o, b, s)
  ELSE IF Builds(o) THEN ReverseGet(o, b)
  ELSE LET a == GetOption(o.first, s)
       IN  IF a = <<>> THEN s ELSE SetTo(o.first, SetTo(o.second, b, a[1]), s)

\* modify(): nothing if there is nothing.
Modify(o, F(_), s) == LET a == GetOption(o, s) IN IF a = <<>> THEN s ELSE SetTo(o, F(a[1]), s)

\* Traversal.fromArray(): every cell.
ModifyAll(F(_), s) == [i \in DOMAIN s |-> F(s[i])]

OpticInit == document \in Documents

Changes(o) ==
  \/ \E n \in Numbers0 : document' = SetTo(o, n, document)
  \/ document' = Modify(o, Succ, document)

\* All cells through a traversal that is set into its field.
ChangesAll ==
  \E tag \in {"ok", "err"} :
    document' = Modify(Prop("cells"), LAMBDA s : ModifyAll(LAMBDA c : [c EXCEPT !.tag = tag], s), document)

OpticNext == ChangesAll \/ \E o \in OpticSet : Changes(o)
OpticSpec == OpticInit /\ [][OpticNext]_opticVars
-----------------------------------------------------------------------------
RECURSIVE Leaves(_)
Leaves(o) == IF o.kind = "compose" THEN Leaves(o.first) \o Leaves(o.second) ELSE <<o>>

RECURSIVE LeftNested(_), RightNested(_)
LeftNested(ls) == IF Len(ls) = 1 THEN ls[1] ELSE Compose(LeftNested(SubSeq(ls, 1, Len(ls) - 1)), ls[Len(ls)])
RightNested(ls) == IF Len(ls) = 1 THEN ls[1] ELSE Compose(ls[1], RightNested(Tail(ls)))

Steps(o) == SelectSeq(Leaves(o), LAMBDA l : l # Id)
Fields == {"prop", "nullable"}

\* Two optics part at a field or at an index.
Apart(o, p) == \E i \in DOMAIN Steps(o) \cap DOMAIN Steps(p) :
  /\ \A j \in 1..(i - 1) : Steps(o)[j] = Steps(p)[j]
  /\ \/ {Steps(o)[i].kind, Steps(p)[i].kind} \subseteq Fields /\ Steps(o)[i].key # Steps(p)[i].key
     \/ {Steps(o)[i].kind, Steps(p)[i].kind} = {"index"} /\ {Steps(o)[i].at, Steps(p)[i].at} = {0, 1}

\* Whatever the document, an optic composed of lawful ones is lawful: to set what is there
\* changes nothing, what has been set is there if anything was, the last set() counts, and
\* what lies elsewhere stays.  How it is nested matters to set() only when there is no
\* focus: it may then leave the document alone, or make the focus if it ends in a nullable
\* field, or in a prism with what was composed with that prism before.
OpticsAreLawful ==
  \A o \in OpticSet :
    LET a == GetOption(o, document)
        left == LeftNested(Leaves(o))
        right == RightNested(Leaves(o))
    IN  /\ a = GetOption(left, document) /\ a = GetOption(right, document)
        /\ a # <<>> => SetTo(o, a[1], document) = document
        /\ Modify(o, LAMBDA n : Pred(Succ(n)), document) = document
        /\ \A b, c \in Numbers0 :
             LET set == SetTo(o, b, document)
             IN  /\ GetOption(o, set) = <<b>> \/ (a = <<>> /\ set = document)
                 /\ a = <<>> /\ set # document => \E i \in DOMAIN Leaves(o) : Leaves(o)[i].kind \in {"prism", "nullable"}
                 /\ a # <<>> => set = SetTo(left, b, document) /\ set = SetTo(right, b, document)
                 /\ SetTo(o, c, set) = SetTo(o, c, document)
                 /\ \A p \in OpticSet : Apart(o, p) => GetOption(p, set) = GetOption(p, document)
=============================================================================
