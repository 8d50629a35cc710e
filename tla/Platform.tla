------------------------------ MODULE Platform ------------------------------
(* runtime/platform.ts (Path) and runtime/process.ts (parseArgs).             *)
(* A path is a sequence of tokens: the two separators, and the names between  *)
(* them. No two names follow each other.                                      *)
EXTENDS Naturals, Sequences, SequencesExt, TLC

CONSTANTS Systems,      \* of {"posix", "windows"}
          PathInputs,   \* the paths that are given
          Drives,       \* those of their names that are a drive, as "C:"
          Cwd,          \* the working directory of each system
          ArgLists,     \* the command lines that are given
          Fields,       \* the fields of the shape they are parsed against, in order
          Accepts       \* the words that each accepts

VARIABLES paths, \* the arguments of a call: [system, from, to]
          argv   \* those of the program

POSIX_SEP == "/"
WIN_SEP == "\\"
Sep(system) == IF system = "windows" THEN WIN_SEP ELSE POSIX_SEP

Forward(path) == [i \in DOMAIN path |-> IF path[i] = WIN_SEP THEN "/" ELSE path[i]]
Native(path, sep) == [i \in DOMAIN path |-> IF path[i] = "/" THEN sep ELSE path[i]]

\* Both separators are one, runs of it are collapsed, the last one goes unless it is the root.
NormalizeSlashes(path, sep) ==
  LET collapsed == FoldLeft(LAMBDA done, t : IF t = "/" /\ done # <<>> /\ Last(done) = "/" THEN done ELSE Append(done, t),
                            <<>>, Forward(path))
      trimmed == IF Len(collapsed) > 1 /\ Last(collapsed) = "/" THEN Front(collapsed) ELSE collapsed
  IN  Native(trimmed, sep)

JoinTokens(parts, sep) == FoldLeft(LAMBDA done, part : IF done = <<>> THEN part ELSE done \o <<sep>> \o part, <<>>, parts)

Join(segments, system) ==
  NormalizeSlashes(JoinTokens(SelectSeq(segments, LAMBDA s : s # <<>>), Sep(system)), Sep(system))

\* The place of the last slash, 0 with none.
LastSlash(path) == LET at == {i \in DOMAIN path : Forward(path)[i] = "/"} IN IF at = {} THEN 0 ELSE CHOOSE i \in at : \A j \in at : j <= i

Basename(path) == SubSeq(Forward(path), LastSlash(path) + 1, Len(path))

Dirname(path, system) ==
  CASE LastSlash(path) = 0 -> <<".">>
    [] LastSlash(path) = 1 -> <<"/">>
    [] OTHER -> Native(SubSeq(Forward(path), 1, LastSlash(path) - 1), Sep(system))

HasDrive(path) == Len(path) > 1 /\ path[1] \in Drives /\ path[2] \in {"/", WIN_SEP}

IsAbsolute(path, system) ==
  /\ path # <<>>
  /\ \/ Head(path) = "/"
     \/ system = "windows" /\ HasDrive(path)
     \/ system = "windows" /\ Len(path) > 1 /\ SubSeq(path, 1, 2) = <<WIN_SEP, WIN_SEP>>

ProcessDotSegment(resolved, seg, isAbs) ==
  CASE seg = "." -> resolved
    [] seg = ".." -> IF resolved # <<>> /\ Last(resolved) # ".." THEN Front(resolved)
                     ELSE IF isAbs THEN resolved ELSE Append(resolved, seg)
    [] OTHER -> Append(resolved, seg)

FormatResolved(segments, sep, isAbs) ==
  LET joined == JoinTokens([i \in DOMAIN segments |-> <<segments[i]>>], sep)
  IN  IF isAbs THEN <<sep>> \o joined ELSE IF joined = <<>> THEN <<".">> ELSE joined

SplitSegments(path) == SelectSeq(Forward(path), LAMBDA t : t # "/")

ResolveDotSegments(path, sep) ==
  LET isAbs == path # <<>> /\ Head(Forward(path)) = "/"
  IN  FormatResolved(FoldLeft(LAMBDA resolved, seg : ProcessDotSegment(resolved, seg, isAbs), <<>>, SplitSegments(path)),
                     sep, isAbs)

\* From the right, up to the first that is absolute; else from the working directory.
Resolve(segments, system) ==
  LET taken(i) == segments[i] # <<>> /\ \A j \in i + 1 .. Len(segments) : ~IsAbsolute(segments[j], system)
      resolved == FoldLeft(LAMBDA done, i : IF ~taken(i) THEN done ELSE IF done = <<>> THEN segments[i]
                                            ELSE done \o <<"/">> \o segments[i],
                           <<>>, [i \in DOMAIN segments |-> i])
      whole == IF IsAbsolute(resolved, system) THEN resolved ELSE Cwd[system] \o <<"/">> \o resolved
  IN  ResolveDotSegments(NormalizeSlashes(whole, Sep(system)), Sep(system))

Relative(from, to, system) ==
  LET normal(path) == SplitSegments(ResolveDotSegments(NormalizeSlashes(path, "/"), "/"))
      normFrom == normal(from)
      normTo == normal(to)
      common == Len(LongestCommonPrefix({normFrom, normTo}))
      parts == [i \in 1 .. Len(normFrom) - common |-> <<"..">>]
               \o [i \in 1 .. Len(normTo) - common |-> <<normTo[common + i]>>]
  IN  IF parts = <<>> THEN <<".">> ELSE JoinTokens(parts, Sep(system))

\* The root, the directory and the base of Path.parse; the extension is a part of the base.
Parse(path, system) ==
  [base |-> Basename(path), dir |-> Dirname(path, system),
   root |-> IF path # <<>> /\ Head(Forward(path)) = "/" THEN <<Sep(system)>>
            ELSE IF system = "windows" /\ HasDrive(path) THEN <<Head(path), WIN_SEP>> ELSE <<>>]
-----------------------------------------------------------------------------
\* The command line: an argument is a word, [word], a flag, [flag], or one with its value,
\* [flag, value].
IsFlag(arg) == "flag" \in DOMAIN arg

\* parseArgv(): the loop skips the word that it has taken for a flag; a flag that comes again
\* replaces what it was.
ParseArgv(args) ==
  LET takes(i) == "value" \notin DOMAIN args[i] /\ i < Len(args) /\ ~IsFlag(args[i + 1])
      value(i) == IF "value" \in DOMAIN args[i] THEN args[i].value ELSE IF takes(i) THEN args[i + 1].word ELSE "true"
      step(s, i) == IF s.skip \/ ~IsFlag(args[i]) THEN [s EXCEPT !.skip = FALSE]
                    ELSE [skip |-> takes(i), parsed |-> (args[i].flag :> value(i)) @@ s.parsed]
  IN  FoldLeft(step, [skip |-> FALSE, parsed |-> <<>>], [i \in DOMAIN args |-> i]).parsed

\* parseArgs() for fields that each accept a set of words, where "undefined" stands for none.
ParseArgs(fields, accepts, args) ==
  LET parsed == ParseArgv(args)
      raw(key) == IF key \in DOMAIN parsed THEN parsed[key] ELSE "undefined"
      wrong == SelectSeq(fields, LAMBDA key : raw(key) \notin accepts[key])
  IN  IF wrong # <<>> THEN [err |-> Head(wrong), received |-> raw(Head(wrong))]
      ELSE [ok |-> [key \in ToSet(fields) |-> raw(key)]]
-----------------------------------------------------------------------------
PathsInit == /\ paths \in [system : Systems, from : {<<>>}, to : {<<>>}]
             /\ argv = <<>>
PathsNext == /\ paths.from = <<>>
             /\ \E from, to \in PathInputs : paths' = [paths EXCEPT !.from = from, !.to = to]
             /\ UNCHANGED argv

ArgsInit == /\ argv = <<>>
            /\ paths = [system |-> "posix", from |-> <<>>, to |-> <<>>]
ArgsNext == argv = <<>> /\ argv' \in ArgLists /\ UNCHANGED paths
-----------------------------------------------------------------------------
System == paths.system
Settled(path) == Resolve(<<path>>, System)
Same(a, b) == Settled(a) = Settled(b)
Stays(path) == IsAbsolute(path, System) /\ IsAbsolute(Settled(path), System)

OnOneDrive(a, b) == (HasDrive(a) <=> HasDrive(b)) /\ (HasDrive(a) => Head(a) = Head(b))

\* platform.ts:100-122: what normalize() returns is normal and names the same place, the
\* directory and the base make up the path again, and relative() leads from one absolute path
\* to another of the same drive.  What resolve() promises ("a normalized absolute path") it
\* keeps on POSIX only: on Windows resolveDotSegments() knows no drive.
PathsAgree ==
  LET from == paths.from
      to == paths.to
      normal == NormalizeSlashes(from, Sep(System))
  IN  /\ NormalizeSlashes(normal, Sep(System)) = normal
      /\ SplitSegments(normal) = SplitSegments(from)
      /\ from # <<>> => LET p == Parse(from, System)
                       IN  /\ Same(Join(<<p.dir, p.base>>, System), normal)
                           /\ IsAbsolute(normal, System) => p.root # <<>> /\ IsPrefix(p.root, normal)
      /\ Stays(from) /\ Stays(to) /\ OnOneDrive(from, to) => Same(Resolve(<<from, Relative(from, to, System)>>, System), to)
      /\ System = "posix" =>
           /\ Resolve(<<from, to>>, System) = IF IsAbsolute(to, System) THEN Settled(to)
                                              ELSE Settled(Join(<<Settled(from), to>>, System))
           /\ Settled(Settled(from)) = Settled(from)

\* process.ts:96 "Parse command-line arguments against a schema shape.": of a field, the last
\* flag that has its name counts, with its own value, else with the word that follows, else
\* "true"; the error names the first field that is not as it should be.
ArgsAreTaken ==
  LET flags == {i \in DOMAIN argv : IsFlag(argv[i])}
      of(key) == {i \in flags : argv[i].flag = key}
      said(i) == CASE "value" \in DOMAIN argv[i] -> argv[i].value
                   [] i + 1 \in DOMAIN argv \ flags -> argv[i + 1].word
                   [] OTHER -> "true"
      field(key) == IF of(key) = {} THEN "undefined" ELSE said(CHOOSE i \in of(key) : \A j \in of(key) : j <= i)
      answer == ParseArgs(Fields, Accepts, argv)
      right(key) == field(key) \in Accepts[key]
  IN  IF "ok" \in DOMAIN answer THEN \A key \in ToSet(Fields) : right(key) /\ answer.ok[key] = field(key)
      ELSE /\ ~right(answer.err) /\ answer.received = field(answer.err)
           /\ \A i \in DOMAIN Fields : Fields[i] = answer.err => \A j \in 1 .. i - 1 : right(Fields[j])
=============================================================================
