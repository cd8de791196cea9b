------------------------------ MODULE StopList ------------------------------
(***************************************************************************)
(* The stop list (scripts/stop_list.py): which of the commands that are    *)
(* hard to take back a segment of a shell command is, before it runs.  A   *)
(* segment is a record of what its words come to; splitting and matching   *)
(* words is left out.  What a push will write is asked of git, in queries  *)
(* each of which may fail.                                                 *)
(***************************************************************************)
EXTENDS GitPush

CONSTANT Publisher   \* commands that publish a package, or might be listed as such

StopIds == {"stop-force-push", "stop-default-branch", "stop-release", "stop-publish"}

ASSUME StopNames == None \notin StopIds

\* What the hook asks git about a push: the branch checked out, once for the remote
\* ("head") and once for the refs ("branch"), settings, and what refs there are.
Query == {"head", "pushRemote", "pushDefault", "tracks", "branch", "follow", "pushes",
          "mode", "merge", "tags", "commit", "tagged", "remoteHead"}

\* _git_out: a query that fails or takes too long (one in out) has no answer, which
\* its callers take for what is not set.
GitOut(out, query, answer, unset) == IF query \in out THEN unset ELSE answer

\* `gh release create|upload|edit|delete`, a write to a releases endpoint through
\* `gh api`, and anything else of gh.
GhAction == {"release write", "release read", "api write", "api read", "other"}

\* How git reads its options before the subcommand.
GitGlobals(p) == [mode |-> p.mode, opaque |-> p.hidden # None]

ParsePush(p) ==
  [repo |-> p.to, refs |-> p.refs,
   force |-> "--force" \in p.opts \/ \E r \in p.refs : r.plus,
   tags |-> "--tags" \in p.opts,
   all |-> p.opts \cap {"--all", "--mirror"} # {},
   follow |-> IF "--follow-tags" \in p.opts THEN "yes"
              ELSE IF "--no-follow-tags" \in p.opts THEN "no" ELSE "unset"]

\* Bug: the branch's own remote is asked before its push remote.
PushRemote_TracksFirst(g, out) ==
  IF g.head # None /\ g.tracks # None THEN g.tracks
  ELSE IF g.pushDefault # None THEN g.pushDefault ELSE Origin

\* The remote of a push that names none; the settings of a branch count on it only.
PushRemote(g, out) ==
  LET head == GitOut(out, "head", g.head, None)
      pushRemote == GitOut(out, "pushRemote", g.pushRemote, None)
      pushDefault == GitOut(out, "pushDefault", g.pushDefault, None)
      tracks == GitOut(out, "tracks", g.tracks, None)
  IN IF head # None /\ pushRemote # None THEN pushRemote
     ELSE IF pushDefault # None THEN pushDefault
     ELSE IF head # None /\ tracks # None THEN tracks
     ELSE Origin

\* None for a URL: it has no settings.
RemoteName(g, out, a) ==
  IF a.repo = None THEN PushRemote(g, out) ELSE IF a.repo = Url THEN None ELSE a.repo

\* With no refspec on the command line git uses remote.<name>.push, else push.default.
RefspecsInForce(g, out, a, remote, mode) ==
  LET configured == IF remote = None THEN {} ELSE GitOut(out, "pushes", g.pushes[remote], {})
      current == GitOut(out, "branch", g.head, None)
      merge == IF current = None THEN None ELSE GitOut(out, "merge", g.upstream[current], None)
  IN IF a.refs # {} \/ a.all \/ a.tags THEN a.refs
     ELSE IF configured # {} THEN configured
     ELSE CASE mode = "matching" -> {Matching}
            [] mode = "upstream" /\ merge # None -> {HeadTo(merge)}
            [] mode = "nothing" -> {}
            [] OTHER -> {HeadItself}

\* A destination is a tag when it says so in full, or a tag of that name exists here.
ToTag(g, out, r) ==
  LET dst == IF r.at = "same" THEN r.src ELSE r.dst
  IN r.at = "tags" \/ (r.at \in {"same", "bare"} /\ dst \in GitOut(out, "tags", g.tags, {}))

\* The branch that any other destination is taken for.  One from tags/ on is taken
\* for a branch of that name, which is none of Branch.
TargetBranch(r) == IF r.at = "same" THEN r.src ELSE IF r.at = "tags/" THEN None ELSE r.dst

\* _follow_tags_can_write: an annotated tag is reachable from a source, or the
\* source cannot be resolved; with wildcards, or no source, any tag counts.
FollowTagsCanWrite(g, out, refs, all) ==
  LET sources == {r.src : r \in {q \in refs : q.kind = "ref"}} \ {None}
      tip(s) == IF s = HEAD /\ g.head # None THEN g.head ELSE s
      tagged == GitOut(out, "tagged", g.tagged, {})
  IN IF all \/ sources = {} THEN tagged # {}
     ELSE \E s \in sources : "commit" \in out \/ s \in Tag \ g.tags \/ tip(s) \in tagged

\* (branches written, writes tags, may write any branch).
PushTargets(g, out, a, remote, mode) ==
  LET current == GitOut(out, "branch", g.head, None)
      refs == RefspecsInForce(g, out, a, remote, mode)
      single == {r \in refs : r.kind = "ref"}
      toHead == {r \in single : r.at = "same" /\ r.src = HEAD}
      toTag == {r \in single \ toHead : ToTag(g, out, r)}
      all == a.all \/ refs # single \/ (toHead # {} /\ current = None)
      follow == IF a.follow = "unset" THEN GitOut(out, "follow", g.follow, FALSE)
                ELSE a.follow = "yes"
  IN [branches |-> {TargetBranch(r) : r \in single \ (toHead \cup toTag)}
                     \cup (IF toHead = {} THEN {} ELSE {current} \ {None}),
      tags |-> a.tags \/ toTag # {} \/ (follow /\ FollowTagsCanWrite(g, out, refs, all)),
      all |-> all]

\* check_push: the stop that a push is, or None.
CheckPush(g, out, p, protected, disabled) ==
  LET a == ParsePush(p)
      globals == GitGlobals(p)
      remote == RemoteName(g, out, a)
      mode == GitOut(out, "mode", IF globals.mode = None THEN g.mode ELSE globals.mode, "simple")
      t == PushTargets(g, out, a, remote, mode)
      remoteHead == IF remote = None THEN None
                    ELSE GitOut(out, "remoteHead", g.remoteHead[remote], None)
      defaults == protected \cup ({remoteHead} \ {None})
  IN IF a.force /\ "stop-force-push" \notin disabled THEN "stop-force-push"
     ELSE IF globals.opaque
     THEN IF "stop-default-branch" \notin disabled THEN "stop-default-branch"
          ELSE IF "stop-release" \notin disabled THEN "stop-release" ELSE None
     ELSE IF t.tags /\ "stop-release" \notin disabled THEN "stop-release"
     ELSE IF "stop-default-branch" \notin disabled /\ (t.all \/ t.branches \cap defaults # {})
     THEN "stop-default-branch"
     ELSE None

CheckGh(act, disabled) ==
  IF "stop-release" \notin disabled /\ act \in {"release write", "api write"}
  THEN "stop-release" ELSE None

CheckPublish(seg, publishes, disabled) ==
  IF "stop-publish" \notin disabled /\ ~seg.dry /\ seg.cmd \in publishes
  THEN "stop-publish" ELSE None

\* What evaluate finds in one segment.
Stop(g, out, seg, conf) ==
  CASE seg.kind = "push" -> CheckPush(g, out, seg.push, conf.protected, conf.disabled)
    [] seg.kind = "gh" -> CheckGh(seg.act, conf.disabled)
    [] seg.kind = "publish" -> CheckPublish(seg, conf.publish, conf.disabled)
    [] OTHER -> None
=============================================================================
