------------------------------- MODULE Release -------------------------------
(* scripts/release.mjs: a maintainer's clone, origin and GitHub, with runs of   *)
(* the script that fail anywhere and are started again, while others push.      *)
(*                                                                              *)
(* A version is a number.  What the script asks CI, the test matrix, npm and    *)
(* the maintainer may always be answered by giving up: that is Fail.            *)
EXTENDS Integers, SequencesExt, FiniteSetsExt

CONSTANTS MaxVersion, MaxCommits,
          ByHand    \* commits made by hand: the versions that each leaves in the manifests

ASSUME ByHandAssumption == ByHand \subseteq [pkg : Int, jsr : Int, bump : {FALSE}]

VARIABLES commits,     \* all commits made: version in package.json and in jsr.json, made by the script or not
          local,       \* the clone's main, a sequence of commits
          origin,      \* origin's main
          work,        \* working tree: the versions, and whether another file has changed
          localTags, remoteTags,  \* version -> commit
          releases,    \* GitHub releases: version -> the commits in its notes
          script,      \* the run of the script: its step and its variables
          ahead        \* history: commits that only the clone had when a run began

releaseVars == <<commits, local, origin, work, localTags, remoteTags, releases, script, ahead>>
repository == <<commits, local, origin, work, localTags, remoteTags, releases>>

Versions == 1..MaxVersion
Fresh == Len(commits) + 1
\* One name more, or another thing under one that is there.
Named(names, v, what) == [name \in DOMAIN names \cup {v} |-> IF name = v THEN what ELSE names[name]]
Tip(branch) == branch[Len(branch)]
Clean == work = [pkg |-> commits[Tip(local)].pkg, jsr |-> commits[Tip(local)].jsr, docs |-> FALSE]
NoRun == [step |-> "none"]

ReleaseInit ==
  /\ commits = <<[pkg |-> 1, jsr |-> 1, bump |-> FALSE]>>
  /\ local = <<1>> /\ origin = <<1>>
  /\ work = [pkg |-> 1, jsr |-> 1, docs |-> FALSE]
  /\ localTags = <<>> /\ remoteTags = <<>> /\ releases = <<>>
  /\ script = NoRun
  /\ ahead = {}
-----------------------------------------------------------------------------
(* The script.                                                                  *)

\* The commits before place n of a branch that its notes list: those after the
\* nearest tag of an earlier commit, but for the script's own.
NotesUpTo(branch, n) ==
  LET tagged == {i \in 1..(n - 1) : branch[i] \in Range(localTags)}
      from == IF tagged = {} THEN 0 ELSE Max(tagged)
  IN  {branch[i] : i \in {j \in (from + 1)..n : ~commits[branch[j]].bump}}

Goto(step) == script' = [script EXCEPT !.step = step]

\* Pre-flight, without a version argument or with one that gives version v, which
\* the working tree may have.  A published release is refused, and a tag that is
\* not on the way to HEAD; a tag alone is what an earlier run has left.  (A tag that
\* only origin has cannot be resolved, and the script throws.)
Preflight(v, dryRun) ==
  /\ script = NoRun
  /\ Clean \/ dryRun
  /\ v \notin DOMAIN releases
  /\ v \in DOMAIN localTags => localTags[v] \in Range(local)
  /\ v \in DOMAIN remoteTags => v \in DOMAIN localTags
  /\ LET at == IF v \in DOMAIN localTags THEN SelectInSeq(local, LAMBDA c : c = localTags[v]) ELSE Len(local)
     IN  script' = [step |-> "bump", version |-> v, dryRun |-> dryRun,
                    localTagExists |-> v \in DOMAIN localTags, remoteTagExists |-> v \in DOMAIN remoteTags,
                    notes |-> NotesUpTo(local, at), staged |-> FALSE]
  /\ ahead' = ahead \cup (Range(local) \ Range(origin))
  /\ UNCHANGED repository

\* writeMut() and runMut(): in a dry run nothing happens.
Writes(step, next, effect) ==
  /\ script.step = step
  /\ IF script.dryRun THEN UNCHANGED work ELSE work' = effect
  /\ Goto(next)
  /\ UNCHANGED <<commits, local, origin, localTags, remoteTags, releases, ahead>>

BumpPackage == Writes("bump", IF script.version = work.pkg THEN "docs" ELSE "jsr", [work EXCEPT !.pkg = script.version])
BumpJsr == Writes("jsr", "docs", [work EXCEPT !.jsr = script.version])
\* The badge, SECURITY.md and CHANGELOG.md, each of which may be as it should.
UpdateDocs == \E changes \in BOOLEAN : Writes("docs", "commit", [work EXCEPT !.docs = changes])

Commit ==
  /\ script.step = "commit"
  /\ LET staged == ~script.dryRun /\ ~Clean
     IN  /\ script' = [script EXCEPT !.step = "tag", !.staged = staged]
         /\ staged => Fresh <= MaxCommits
         /\ commits' = IF staged THEN Append(commits, [pkg |-> work.pkg, jsr |-> work.jsr, bump |-> TRUE]) ELSE commits
         /\ local' = IF staged THEN Append(local, Fresh) ELSE local
         /\ work' = IF staged THEN [work EXCEPT !.docs = FALSE] ELSE work
  /\ UNCHANGED <<origin, localTags, remoteTags, releases, ahead>>

Tag ==
  /\ script.step = "tag"
  /\ localTags' = IF script.localTagExists \/ script.dryRun THEN localTags
                  ELSE Named(localTags, script.version, Tip(local))
  /\ Goto("pushMain")
  /\ UNCHANGED <<commits, local, origin, work, remoteTags, releases, ahead>>

\* Mutant of PushMain: a refusal is not noticed.
PushMainUnnoticed ==
  /\ script.step = "pushMain"
  /\ origin' = IF script.staged /\ IsPrefix(origin, local) THEN local ELSE origin
  /\ Goto("pushTag")
  /\ UNCHANGED <<commits, local, work, localTags, remoteTags, releases, ahead>>

\* git push origin HEAD:refs/heads/main, which fails unless it is fast-forward.
PushMain ==
  /\ script.step = "pushMain"
  /\ script.staged => IsPrefix(origin, local)
  /\ origin' = IF script.staged THEN local ELSE origin
  /\ Goto("pushTag")
  /\ UNCHANGED <<commits, local, work, localTags, remoteTags, releases, ahead>>

PushTag ==
  /\ script.step = "pushTag"
  /\ remoteTags' = IF script.remoteTagExists \/ script.dryRun THEN remoteTags
                   ELSE Named(remoteTags, script.version, localTags[script.version])
  /\ Goto("release")
  /\ UNCHANGED <<commits, local, origin, work, localTags, releases, ahead>>

CreateRelease ==
  /\ script.step = "release"
  /\ releases' = IF script.dryRun THEN releases ELSE Named(releases, script.version, script.notes)
  /\ script' = NoRun
  /\ UNCHANGED <<commits, local, origin, work, localTags, remoteTags, ahead>>

\* die(), a command that fails, an answer of No, an interrupt.
Fail ==
  /\ script # NoRun
  /\ script' = NoRun
  /\ UNCHANGED ahead
  /\ UNCHANGED repository
-----------------------------------------------------------------------------
(* The maintainer between two runs, and others.                                 *)

\* git checkout . after a run that has left its changes.
Restore ==
  /\ script = NoRun /\ ~Clean
  /\ work' = [pkg |-> commits[Tip(local)].pkg, jsr |-> commits[Tip(local)].jsr, docs |-> FALSE]
  /\ UNCHANGED <<commits, local, origin, localTags, remoteTags, releases, script, ahead>>

\* The maintainer commits something, and may push it.  It may be a version, which is what the
\* script without an argument releases, in both manifests or in one.
OwnCommit(c) ==
  /\ script = NoRun /\ Clean
  /\ Fresh <= MaxCommits
  /\ commits' = Append(commits, c)
  /\ local' = Append(local, Fresh)
  /\ work' = [pkg |-> c.pkg, jsr |-> c.jsr, docs |-> FALSE]
  /\ UNCHANGED <<origin, localTags, remoteTags, releases, script, ahead>>

OwnPush ==
  /\ script = NoRun
  /\ IsStrictPrefix(origin, local)
  /\ origin' = local
  /\ UNCHANGED <<commits, local, work, localTags, remoteTags, releases, script, ahead>>

\* Somebody pushes a commit, while a run is under way or not.
OtherPush(c) ==
  /\ Fresh <= MaxCommits
  /\ commits' = Append(commits, c)
  /\ origin' = Append(origin, Fresh)
  /\ UNCHANGED <<local, work, localTags, remoteTags, releases, script, ahead>>

\* git pull, which is a fast-forward or nothing.
Pull ==
  /\ script = NoRun /\ Clean
  /\ IsStrictPrefix(local, origin)
  /\ local' = origin
  /\ work' = [pkg |-> commits[Tip(origin)].pkg, jsr |-> commits[Tip(origin)].jsr, docs |-> FALSE]
  /\ UNCHANGED <<commits, origin, localTags, remoteTags, releases, script, ahead>>

\* git reset --hard origin/main: the commits of a failed run are given up, its tag is not.
ResetToOrigin ==
  /\ script = NoRun
  /\ local # origin
  /\ local' = origin
  /\ work' = [pkg |-> commits[Tip(origin)].pkg, jsr |-> commits[Tip(origin)].jsr, docs |-> FALSE]
  /\ UNCHANGED <<commits, origin, localTags, remoteTags, releases, script, ahead>>

ScriptNext ==
  \/ \E v \in Versions, dryRun \in BOOLEAN : Preflight(v, dryRun)
  \/ BumpPackage \/ BumpJsr \/ UpdateDocs \/ Commit \/ Tag \/ PushMain \/ PushTag \/ CreateRelease \/ Fail

ReleaseNext ==
  \/ ScriptNext \/ Restore \/ OwnPush \/ Pull \/ ResetToOrigin
  \/ \E c \in ByHand : OwnCommit(c) \/ OtherPush(c)

ReleaseSpec == ReleaseInit /\ [][ReleaseNext]_releaseVars
-----------------------------------------------------------------------------
\* Somebody has put the version into package.json by hand, and not into jsr.json, which the
\* script then does not look at.
HalfBumped(v) == \E c \in DOMAIN commits : ~commits[c].bump /\ commits[c].pkg = v /\ commits[c].jsr # v

\* A version is published as a whole if its tag's commit says it in both manifests and is
\* on origin's main.  Only what the clone had ahead of origin when a run began may be
\* published without being pushed: the script pushes main if it has committed something itself.
IsWhole(v) ==
  /\ v \in DOMAIN remoteTags
  /\ LET c == remoteTags[v]
     IN  /\ commits[c].pkg = v
         /\ commits[c].jsr = v \/ HalfBumped(v)
         /\ c \in Range(origin) \cup ahead

\* --dry-run changes neither files nor refs nor origin nor GitHub.
DryRunChangesNothing ==
  [][script # NoRun /\ script.dryRun /\ script' # script => UNCHANGED repository]_releaseVars

\* Every published version is there as a whole, whatever runs were interrupted before and
\* whatever is committed by hand, and a dry run leaves nothing behind.
ReleaseHolds == [](\A v \in DOMAIN releases : IsWhole(v)) /\ DryRunChangesNothing
=============================================================================
