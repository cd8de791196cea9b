------------------------- MODULE GuardEngineProofs -------------------------
(***************************************************************************)
(* Proofs about GuardEngine, for all repositories, pushes, rules, files    *)
(* and environments.  The lemmas up to PushIsPredicted compare what        *)
(* check_push foresees with what git writes.                               *)
(***************************************************************************)
EXTENDS GuardEngine, TLAPS

\* Where git says so, the remote that the hook looks at is the one that git
\* pushes to.
LEMMA SameRemote ==
  ASSUME NEW g \in Repository, NEW p \in Push, NEW out
  PROVE  /\ RemoteOf(g, p) \in Remote \cup {Url}
         /\ p.to # None \/ out \cap {"head", "pushRemote", "pushDefault", "tracks"} = {} =>
              RemoteName(g, out, ParsePush(p))
                = IF RemoteOf(g, p) = Url THEN None ELSE RemoteOf(g, p)
<1>1. RemoteOf(g, p) \in Remote \cup {Url}
  BY PushNames DEF RemoteOf, Repository, Push
<1>2. CASE p.to # None
  BY <1>1, <1>2, PushNames DEF RemoteOf, RemoteName, ParsePush, Push
<1>3. CASE p.to = None /\ out \cap {"head", "pushRemote", "pushDefault", "tracks"} = {}
  <2>1. /\ \A a : GitOut(out, "head", a, None) = a /\ GitOut(out, "pushRemote", a, None) = a
        /\ \A a : GitOut(out, "pushDefault", a, None) = a /\ GitOut(out, "tracks", a, None) = a
    BY <1>3 DEF GitOut
  <2>2. RemoteName(g, out, ParsePush(p)) = PushRemote(g, out)
    BY <1>3 DEF RemoteName, ParsePush
  <2> QED  BY <1>1, <1>3, <2>1, <2>2, PushNames DEF RemoteOf, PushRemote, Repository, Push
<1> QED  BY <1>1, <1>2, <1>3

\* What check_push takes for push.default.
Mode(g, out, p) ==
  GitOut(out, "mode", IF GitGlobals(p).mode = None THEN g.mode ELSE GitGlobals(p).mode, "simple")

\* What check_push works with.
InForceRefs(g, out, p) ==
  RefspecsInForce(g, out, ParsePush(p), RemoteName(g, out, ParsePush(p)), Mode(g, out, p))

Targets(g, out, p) ==
  PushTargets(g, out, ParsePush(p), RemoteName(g, out, ParsePush(p)), Mode(g, out, p))

Defaults(g, out, p, protected) ==
  LET remote == RemoteName(g, out, ParsePush(p))
      remoteHead == IF remote = None THEN None
                    ELSE GitOut(out, "remoteHead", g.remoteHead[remote], None)
  IN protected \cup ({remoteHead} \ {None})

\* Unless an environment variable or a failing query hides a setting, every
\* refspec that git uses is among those that the hook takes to be in force, or
\* the hook does not know the branch checked out and git pushes that branch to
\* its upstream.
LEMMA RefsCovered ==
  ASSUME NEW g \in Repository, NEW p \in Push, p.hidden = None, NEW out, ~OtherRefs(p, out)
  PROVE  \/ RefsOf(g, p) \subseteq InForceRefs(g, out, p)
         \/ /\ GitOut(out, "branch", g.head, None) = None
            /\ HeadItself \in InForceRefs(g, out, p)
            /\ \A r \in RefsOf(g, p) : r.kind = "ref" /\ r.at = "heads"
<1>1. CASE ~NamesNothing(p)
  BY <1>1 DEF RefsOf, InForceRefs, RefspecsInForce, ParsePush
<1>2. CASE NamesNothing(p)
  <2> DEFINE remote == RemoteName(g, out, ParsePush(p))
             configured == IF remote = None THEN {} ELSE GitOut(out, "pushes", g.pushes[remote], {})
             current == GitOut(out, "branch", g.head, None)
             merge == IF current = None THEN None
                      ELSE GitOut(out, "merge", g.upstream[current], None)
  <2>1. RefsOf(g, p) = Implied(g, p)
    BY <1>2 DEF RefsOf
  <2>2. /\ ParsePush(p).refs = {} /\ ~ParsePush(p).all /\ ~ParsePush(p).tags
    BY <1>2 DEF NamesNothing, ParsePush
  <2>3. /\ ~OtherRemote(p, out)
        /\ \A a, u : GitOut(out, "pushes", a, u) = a /\ GitOut(out, "mode", a, u) = a
        /\ \A a, u : GitOut(out, "merge", a, u) = a
    BY <1>2 DEF OtherRefs, GitOut
  <2>4. Mode(g, out, p) = ModeOf(g, p)
    BY <2>3 DEF Mode, ModeOf, GitGlobals
  <2>5. ModeOf(g, p) \in PushDefault
    BY DEF ModeOf, Repository, Push
  <2>6. remote = (IF RemoteOf(g, p) = Url THEN None ELSE RemoteOf(g, p))
          /\ RemoteOf(g, p) \in Remote \cup {Url}
    BY <2>3, SameRemote DEF OtherRemote
  <2>7. configured = IF RemoteOf(g, p) = Url THEN {} ELSE g.pushes[RemoteOf(g, p)]
    BY <2>3, <2>6, PushNames
  <2>8. InForceRefs(g, out, p) =
          IF configured # {} THEN configured
          ELSE CASE ModeOf(g, p) = "matching" -> {Matching}
                 [] ModeOf(g, p) = "upstream" /\ merge # None -> {HeadTo(merge)}
                 [] ModeOf(g, p) = "nothing" -> {}
                 [] OTHER -> {HeadItself}
    BY <2>2, <2>4 DEF InForceRefs, RefspecsInForce
  <2> HIDE DEF configured, merge, remote
  <2>9. CASE configured # {}
    BY <2>1, <2>7, <2>8, <2>9 DEF Implied
  <2>10. CASE configured = {}
    <3>1. CASE ModeOf(g, p) = "matching"
      BY <2>1, <2>7, <2>8, <2>10, <3>1 DEF Implied
    <3>2. CASE ModeOf(g, p) = "nothing"
      BY <2>1, <2>7, <2>8, <2>10, <3>2 DEF Implied
    <3>3. CASE ModeOf(g, p) = "simple"
      BY <2>1, <2>7, <2>8, <2>10, <3>3 DEF Implied
    <3>4. CASE ModeOf(g, p) = "upstream"
      <4> DEFINE track == IF g.head = None THEN None ELSE g.upstream[g.head]
      <4>1. RefsOf(g, p) = IF track = None THEN {} ELSE {HeadTo(track)}
        BY <2>1, <2>7, <2>10, <3>4 DEF Implied
      <4>2. CASE current = None
        <5>1. merge = None
          BY <4>2 DEF merge
        <5>2. InForceRefs(g, out, p) = {HeadItself}
          BY <2>8, <2>10, <3>4, <5>1
        <5>3. \A r \in RefsOf(g, p) : r.kind = "ref" /\ r.at = "heads"
          BY <4>1 DEF HeadTo, HeadItself
        <5> QED  BY <4>2, <5>2, <5>3
      <4>3. CASE current # None
        <5>1. current = g.head
          BY <4>3 DEF GitOut
        <5>2. merge = track
          BY <2>3, <4>3, <5>1 DEF merge
        <5> QED  BY <2>8, <2>10, <3>4, <4>1, <5>2
      <4> QED  BY <4>2, <4>3
    <3> QED  BY <2>5, <3>1, <3>2, <3>3, <3>4 DEF PushDefault
  <2> QED  BY <2>9, <2>10
<1> QED  BY <1>1, <1>2

LEMMA RefsTyped ==
  ASSUME NEW g \in Repository, NEW p \in Push
  PROVE  RefsOf(g, p) \subseteq Refspec
<1>1. p.refs \subseteq Refspec /\ \A r \in Remote : g.pushes[r] \subseteq Refspec
  BY DEF Push, Repository
<1>2. /\ HeadItself \in Refspec /\ Matching \in Refspec
      /\ \A b \in Branch : HeadTo(b) \in Refspec
  BY PushNames DEF HeadItself, HeadTo, Matching, Refspec, Name
<1>3. ModeOf(g, p) \in PushDefault
  BY DEF ModeOf, Repository, Push
<1>4. g.head # None => g.upstream[g.head] \in Branch \cup {None}
  BY DEF Repository
<1>5. Implied(g, p) \subseteq Refspec
  BY <1>1, <1>2, <1>3, <1>4, SameRemote DEF Implied, PushDefault
<1> QED  BY <1>1, <1>5 DEF RefsOf

\* What a push may name, by what _push_targets makes of its refspecs.
LEMMA TargetsOf ==
  ASSUME NEW g, NEW out, NEW p
  PROVE  LET refs == InForceRefs(g, out, p)
             t == Targets(g, out, p)
             a == ParsePush(p)
             current == GitOut(out, "branch", g.head, None)
             toHead(r) == r.at = "same" /\ r.src = HEAD
         IN /\ a.all => t.all
            /\ a.tags => t.tags
            /\ \A r \in refs : r.kind # "ref" => t.all
            /\ \A r \in refs : r.kind = "ref" /\ toHead(r) =>
                 IF current = None THEN t.all ELSE current \in t.branches
            /\ \A r \in refs : r.kind = "ref" /\ ~toHead(r) =>
                 IF ToTag(g, out, r) THEN t.tags ELSE TargetBranch(r) \in t.branches
            /\ (IF a.follow = "unset" THEN GitOut(out, "follow", g.follow, FALSE)
                ELSE a.follow = "yes")
                 /\ FollowTagsCanWrite(g, out, refs, t.all) => t.tags
<1> DEFINE refs == InForceRefs(g, out, p)
           a == ParsePush(p)
           t == Targets(g, out, p)
           current == GitOut(out, "branch", g.head, None)
           single == {r \in refs : r.kind = "ref"}
           toHead == {r \in single : r.at = "same" /\ r.src = HEAD}
           toTag == {r \in single \ toHead : ToTag(g, out, r)}
           all == a.all \/ refs # single \/ (toHead # {} /\ current = None)
           follow == IF a.follow = "unset" THEN GitOut(out, "follow", g.follow, FALSE)
                     ELSE a.follow = "yes"
<1>1. t = [branches |-> {TargetBranch(r) : r \in single \ (toHead \cup toTag)}
                     \cup (IF toHead = {} THEN {} ELSE {current} \ {None}),
           tags |-> a.tags \/ toTag # {} \/ (follow /\ FollowTagsCanWrite(g, out, refs, all)),
           all |-> all]
  BY DEF Targets, PushTargets, InForceRefs
<1>2. /\ t.all = all
      /\ t.tags = (a.tags \/ toTag # {} \/ (follow /\ FollowTagsCanWrite(g, out, refs, all)))
      /\ t.branches = {TargetBranch(r) : r \in single \ (toHead \cup toTag)}
                        \cup (IF toHead = {} THEN {} ELSE {current} \ {None})
  BY <1>1
<1> HIDE DEF a, t, refs, current
<1>3. \A r \in refs : r.kind # "ref" => t.all
  BY <1>2
<1>4. ASSUME NEW r \in refs, r.kind = "ref", r.at = "same", r.src = HEAD
      PROVE  IF current = None THEN t.all ELSE current \in t.branches
  <2>1. r \in toHead
    BY <1>4
  <2> QED  BY <1>2, <2>1
<1>5. ASSUME NEW r \in refs, r.kind = "ref", ~(r.at = "same" /\ r.src = HEAD)
      PROVE  IF ToTag(g, out, r) THEN t.tags ELSE TargetBranch(r) \in t.branches
  <2>1. r \in single \ toHead
    BY <1>5
  <2>2. CASE ToTag(g, out, r)
    BY <1>2, <2>1, <2>2
  <2>3. CASE ~ToTag(g, out, r)
    BY <1>2, <2>1, <2>3
  <2> QED  BY <2>2, <2>3
<1>6. (a.all => t.all) /\ (a.tags => t.tags)
        /\ (follow /\ FollowTagsCanWrite(g, out, refs, t.all) => t.tags)
  BY <1>2
<1> QED  BY <1>3, <1>4, <1>5, <1>6 DEF a, t, refs, current

\* What it takes for a push to pass unasked.
LEMMA Passes ==
  ASSUME NEW g, NEW out, NEW p, NEW protected, NEW disabled,
         CheckPush(g, out, p, protected, disabled) = None
  PROVE  LET t == Targets(g, out, p) IN
         /\ "stop-force-push" \in disabled \/ ~ParsePush(p).force
         /\ "stop-release" \in disabled \/ (p.hidden = None /\ ~t.tags)
         /\ "stop-default-branch" \in disabled
              \/ (p.hidden = None /\ ~t.all /\ t.branches \cap Defaults(g, out, p, protected) = {})
<1>1. /\ "stop-force-push" # None /\ "stop-release" # None /\ "stop-default-branch" # None
  BY StopNames DEF StopIds
<1>2. CheckPush(g, out, p, protected, disabled) =
        IF ParsePush(p).force /\ "stop-force-push" \notin disabled THEN "stop-force-push"
        ELSE IF p.hidden # None
        THEN IF "stop-default-branch" \notin disabled THEN "stop-default-branch"
             ELSE IF "stop-release" \notin disabled THEN "stop-release" ELSE None
        ELSE IF Targets(g, out, p).tags /\ "stop-release" \notin disabled THEN "stop-release"
        ELSE IF "stop-default-branch" \notin disabled
                  /\ (Targets(g, out, p).all
                       \/ Targets(g, out, p).branches \cap Defaults(g, out, p, protected) # {})
        THEN "stop-default-branch"
        ELSE None
  BY DEF CheckPush, Targets, Mode, GitGlobals, Defaults
<1> QED  BY <1>1, <1>2

\* A forced update that is not asked about, whatever queries fail.
LEMMA NoForce ==
  ASSUME NEW g \in Repository, NEW out, NEW p \in Push, NEW protected, NEW disabled,
         CheckPush(g, out, p, protected, disabled) = None,
         WritesByForce(g, p), "stop-force-push" \notin disabled
  PROVE  "stop-force-push" \in Overlooked(g, p, disabled)
<1>1. "--force" \notin p.opts /\ \A r \in p.refs : ~r.plus
  BY Passes DEF ParsePush
<1>2. CASE \E r \in RefsOf(g, p) : r.plus
  <2>1. NamesNothing(p) /\ \E r \in Implied(g, p) : r.plus
    BY <1>1, <1>2 DEF RefsOf
  <2> QED  BY <2>1 DEF Overlooked
<1>3. CASE p.refs = {} /\ RemoteOf(g, p) \in g.mirrors
  BY <1>3 DEF Overlooked, StopIds
<1>4. CASE "--mirror" \in p.opts
  <2>1. ParsePush(p).all
    BY <1>4 DEF ParsePush
  <2>2. Targets(g, out, p).all
    BY <2>1, TargetsOf
  <2>3. "stop-default-branch" \in disabled
    BY <2>2, Passes
  <2> QED  BY <1>4, <2>3 DEF Overlooked
<1> QED  BY <1>1, <1>2, <1>3, <1>4 DEF WritesByForce, Mirrors

LEMMA WriteOf ==
  ASSUME NEW g, NEW p, NEW w, w \in WritesTo(g, p)
  PROVE  \/ \E r \in RefsOf(g, p) : w \in Written(g, p, r)
         \/ ("--all" \in p.opts \/ Mirrors(g, p)) /\ w \in Heads(Branch)
         \/ ("--tags" \in p.opts \/ Mirrors(g, p)) /\ w \in Tags(g.tags)
         \/ Follows(g, p) /\ w \in Tags({None})
<1>1. w \in UNION {Written(g, p, r) : r \in RefsOf(g, p)}
        \/ w \in (IF "--all" \in p.opts \/ Mirrors(g, p) THEN Heads(Branch) ELSE {})
        \/ w \in (IF "--tags" \in p.opts \/ Mirrors(g, p) THEN Tags(g.tags) ELSE {})
        \/ w \in (IF Follows(g, p) THEN Tags({None}) ELSE {})
  BY DEF WritesTo
<1> QED  BY <1>1, Zenon

\* Unless a failing query has hidden the refs, a branch that a push writes is among
\* those that the hook foresees, or it foresees all.
LEMMA BranchForeseen ==
  ASSUME NEW g \in Repository, NEW out, NEW p \in Push, p.hidden = None, ~OtherRefs(p, out),
         ~(p.refs = {} /\ RemoteOf(g, p) \in g.mirrors),
         NEW w \in WritesTo(g, p), w.ns = "heads", w.name \in Branch
  PROVE  Targets(g, out, p).all \/ w.name \in Targets(g, out, p).branches
<1> DEFINE refs == InForceRefs(g, out, p)
           t == Targets(g, out, p)
           current == GitOut(out, "branch", g.head, None)
<1> SUFFICES ASSUME ~t.all PROVE w.name \in t.branches
  OBVIOUS
<1>1. /\ \A r \in refs : r.kind = "ref"
      /\ HeadItself \in refs => current # None
      /\ \A r \in refs : r.kind = "ref" /\ r.at = "same" /\ r.src = HEAD => current \in t.branches
      /\ \A r \in refs : r.kind = "ref" /\ ~(r.at = "same" /\ r.src = HEAD) /\ ~ToTag(g, out, r)
           => TargetBranch(r) \in t.branches
  BY TargetsOf DEF HeadItself
<1>2. "--all" \notin p.opts /\ "--mirror" \notin p.opts
  BY TargetsOf DEF ParsePush
<1>3. RefsOf(g, p) \subseteq refs
  BY <1>1, RefsCovered
<1>4. current = None \/ current = g.head
  BY DEF GitOut
<1>5. \A r \in refs : r.kind = "ref" /\ r.at = "same" /\ r.src = HEAD => current # None
  BY TargetsOf
<1> HIDE DEF refs, t, current
<1>6. PICK r \in RefsOf(g, p) : w \in Written(g, p, r)
  <2>1. w \notin Tags(g.tags) /\ w \notin Tags({None})
    BY DEF Tags
  <2>2. ~Mirrors(g, p)
    BY <1>2 DEF Mirrors
  <2> QED  BY <1>2, <2>1, <2>2, WriteOf
<1>7. r \in refs /\ r \in Refspec /\ r.kind = "ref"
  BY <1>1, <1>3, RefsTyped
<1>8. w \in Destination(g, p, r)
  BY <1>6, <1>7 DEF Written
<1>9. g.tags \cap Branch = {} /\ GitOut(out, "tags", g.tags, {}) \cap Branch = {}
  BY PushNames DEF Repository, GitOut
<1>10. CASE r.at = "same" /\ r.src = HEAD
  <2>1. current = g.head /\ g.head # None
    BY <1>4, <1>5, <1>7, <1>10
  <2>2. w.name = g.head
    BY <1>8, <1>10, <2>1, PushNames DEF Destination, SourceOf, Heads, Tags
  <2> QED  BY <1>1, <1>7, <1>10, <2>1, <2>2
<1>11. CASE r.at = "same" /\ r.src # HEAD
  <2>1. w.name = r.src
    BY <1>8, <1>11 DEF Destination, SourceOf, Heads, Tags
  <2>2. ~ToTag(g, out, r)
    BY <1>9, <1>11, <2>1 DEF ToTag
  <2> QED  BY <1>1, <1>7, <1>11, <2>1, <2>2 DEF TargetBranch
<1>12. CASE r.at \in {"heads", "bare"}
  <2>1. w.name = r.dst
    BY <1>8, <1>12 DEF Destination, Heads, Tags
  <2>2. ~ToTag(g, out, r)
    BY <1>9, <1>12, <2>1 DEF ToTag
  <2> QED  BY <1>1, <1>7, <1>12, <2>1, <2>2 DEF TargetBranch
<1>13. CASE r.at = "tags"
  BY <1>8, <1>13 DEF Destination, Heads, Tags
<1>14. CASE r.at = "tags/"
  <2>1. w \in Tags({r.dst}) \/ w \in Heads({None})
    BY <1>8, <1>14 DEF Destination
  <2> QED  BY <2>1, PushNames DEF Heads, Tags
<1> QED  BY <1>7, <1>10, <1>11, <1>12, <1>13, <1>14 DEF Refspec

\* A write to a default branch that is not asked about.
LEMMA NoDefaultBranch ==
  ASSUME NEW g \in Repository, NEW out, NEW p \in Push,
         NEW protected \in SUBSET Branch, NEW disabled,
         CheckPush(g, out, p, protected, disabled) = None,
         NEW w \in WritesTo(g, p), w.ns = "heads",
         w.name \in protected
           \cup (IF RemoteOf(g, p) = Url THEN {} ELSE {g.remoteHead[RemoteOf(g, p)]} \ {None}),
         "stop-default-branch" \notin disabled
  PROVE  "stop-default-branch" \in Overlooked(g, p, disabled) \cup Unanswered(g, p, protected, out)
<1>1. /\ p.hidden = None /\ ~Targets(g, out, p).all
      /\ Targets(g, out, p).branches \cap Defaults(g, out, p, protected) = {}
  BY Passes
<1>2. CASE p.refs = {} /\ RemoteOf(g, p) \in g.mirrors
  BY <1>2 DEF Overlooked, StopIds
<1>3. CASE OtherRefs(p, out)
  BY <1>3 DEF Unanswered
<1>4. CASE ~(p.refs = {} /\ RemoteOf(g, p) \in g.mirrors) /\ ~OtherRefs(p, out)
  <2>1. \A v \in WritesTo(g, p) : v.ns = "heads" /\ v.name \in Branch =>
          v.name \notin Defaults(g, out, p, protected)
    BY <1>1, <1>4, BranchForeseen
  <2>2. ~ToProtected(g, p, protected)
    BY <2>1 DEF ToProtected, Defaults
  <2>3. RemoteOf(g, p) # Url /\ w.name = g.remoteHead[RemoteOf(g, p)] /\ w.name # None
    BY <2>2 DEF ToProtected
  <2>4. w.name \in Branch
    BY <2>3, SameRemote DEF Repository
  <2>5. OtherRemote(p, out) \/ "remoteHead" \in out
    <3>1. SUFFICES ASSUME ~OtherRemote(p, out), "remoteHead" \notin out PROVE FALSE
      OBVIOUS
    <3>2. RemoteName(g, out, ParsePush(p)) = RemoteOf(g, p) /\ RemoteOf(g, p) # None
      BY <2>3, <3>1, SameRemote, PushNames DEF OtherRemote
    <3>3. w.name \in Defaults(g, out, p, protected)
      BY <2>3, <3>1, <3>2 DEF Defaults, GitOut
    <3> QED  BY <2>1, <2>4, <3>3
  <2> QED  BY <2>2, <2>5 DEF Unanswered
<1> QED  BY <1>2, <1>3, <1>4

\* A written tag that is not asked about.
LEMMA NoTag ==
  ASSUME NEW g \in Repository, NEW out, NEW p \in Push, NEW protected, NEW disabled,
         CheckPush(g, out, p, protected, disabled) = None,
         NEW w \in WritesTo(g, p), w.ns = "tags", "stop-release" \notin disabled
  PROVE  "stop-release" \in Overlooked(g, p, disabled) \cup Unanswered(g, p, protected, out)
<1> DEFINE refs == InForceRefs(g, out, p)
           t == Targets(g, out, p)
           a == ParsePush(p)
<1>1. p.hidden = None /\ ~t.tags
  BY Passes
<1>2. t.all => "stop-default-branch" \in disabled
  BY Passes
<1>3. /\ a.all => t.all
      /\ a.tags => t.tags
      /\ \A r \in refs : r.kind # "ref" => t.all
      /\ GitOut(out, "branch", g.head, None) = None /\ HeadItself \in refs => t.all
      /\ \A r \in refs : r.kind = "ref" /\ ~(r.at = "same" /\ r.src = HEAD) /\ ToTag(g, out, r) => t.tags
      /\ (IF a.follow = "unset" THEN GitOut(out, "follow", g.follow, FALSE) ELSE a.follow = "yes")
           /\ FollowTagsCanWrite(g, out, refs, t.all) => t.tags
  BY TargetsOf DEF HeadItself
<1>4. \A r \in p.refs : r \in Refspec /\ (NamesNothing(p) \/ r \in refs)
  BY DEF InForceRefs, RefspecsInForce, ParsePush, Push, NamesNothing
<1>5. CASE p.refs = {} /\ RemoteOf(g, p) \in g.mirrors
  BY <1>5 DEF Overlooked, StopIds
<1>6. CASE "--mirror" \in p.opts
  BY <1>2, <1>3, <1>6 DEF ParsePush, Overlooked
<1>7. CASE OtherRefs(p, out)
  BY <1>7 DEF Unanswered
<1>8. CASE out \cap {"follow", "tags", "tagged"} # {}
  <2>1. ~SaysTags(p)
    <3>1. "--tags" \notin p.opts
      BY <1>1, <1>3 DEF ParsePush
    <3>2. ASSUME NEW r \in p.refs, r.kind = "ref", r.at = "tags" PROVE FALSE
      <4>1. r \in refs
        BY <1>4, <3>2 DEF NamesNothing
      <4>2. ToTag(g, out, r)
        BY <3>2 DEF ToTag
      <4> QED  BY <1>1, <1>3, <3>2, <4>1, <4>2
    <3> QED  BY <3>1, <3>2 DEF SaysTags
  <2> QED  BY <1>8, <2>1 DEF Unanswered
<1>9. CASE /\ ~(p.refs = {} /\ RemoteOf(g, p) \in g.mirrors) /\ "--mirror" \notin p.opts
           /\ ~OtherRefs(p, out) /\ out \cap {"follow", "tags", "tagged"} = {}
  <2>1. \/ RefsOf(g, p) \subseteq refs
        \/ t.all /\ \A r \in RefsOf(g, p) : r.kind = "ref" /\ r.at = "heads"
    BY <1>1, <1>3, <1>9, RefsCovered
  <2>2. \A x, u : /\ GitOut(out, "follow", x, u) = x /\ GitOut(out, "tags", x, u) = x
                  /\ GitOut(out, "tagged", x, u) = x
    BY <1>9 DEF GitOut
  <2> HIDE DEF refs, t
  <2>3. ~Follows(g, p)
    <3>1. SUFFICES ASSUME Follows(g, p) PROVE FALSE
      OBVIOUS
    <3>2. IF a.follow = "unset" THEN g.follow ELSE a.follow = "yes"
      BY <3>1 DEF Follows, ParsePush
    <3>3. ~FollowTagsCanWrite(g, out, refs, t.all)
      BY <1>1, <1>3, <2>2, <3>2
    <3>4. PICK b : b \in g.tagged /\ (t.all \/ \E r \in refs : r.kind = "ref" /\ b = SourceOf(g, r))
      BY <1>3, <2>1, <3>1 DEF Follows, ParsePush
    <3>5. ~t.all
      BY <2>2, <3>3, <3>4 DEF FollowTagsCanWrite
    <3>6. PICK r \in refs : r.kind = "ref" /\ b = SourceOf(g, r)
      BY <3>4, <3>5
    <3>7. b # None
      BY <3>4, PushNames DEF Repository, Name
    <3>8. r.src # None
      BY <3>6, <3>7, PushNames DEF SourceOf
    <3> QED  BY <2>2, <3>3, <3>4, <3>6, <3>8 DEF FollowTagsCanWrite, SourceOf
  <2>4. "--tags" \notin p.opts
    BY <1>1, <1>3 DEF ParsePush
  <2>5. PICK r \in RefsOf(g, p) : w \in Written(g, p, r)
    <3>1. w \notin Heads(Branch)
      BY DEF Heads
    <3> QED  BY <1>9, <2>3, <2>4, <3>1, WriteOf DEF Mirrors
  <2>6. r \in Refspec
    BY RefsTyped
  <2>7. CASE r.kind = "tags/*"
    BY <1>2, <1>3, <2>1, <2>7 DEF Overlooked
  <2>8. CASE r.kind \in {"heads/*", ":"}
    BY <2>5, <2>8 DEF Written, Heads
  <2>9. CASE r.kind = "ref"
    <3>1. w \in Destination(g, p, r)
      BY <2>5, <2>9 DEF Written
    <3>2. r.at # "heads"
      BY <3>1 DEF Destination, Heads
    <3>3. (r.at = "same" /\ r.src = HEAD) \/ ~ToTag(g, out, r)
      BY <1>1, <1>3, <2>1, <2>9, <3>2
    <3>4. r.dst \in Name \cup {None} /\ (r.at = "same" <=> r.dst = None)
      BY <2>6 DEF Refspec
    <3>5. {r.src, r.dst} \cap (Tag \ g.tags) # {} \/ r.at = "tags/"
            => "stop-release" \in Overlooked(g, p, disabled)
      BY DEF Overlooked
    <3>6. CASE r.at = "same"
      <4>1. SourceOf(g, r) \in Tag
        BY <3>1, <3>6, PushNames DEF Destination, Heads, Tags
      <4>2. r.src # HEAD /\ r.src \in Tag
        BY <4>1, PushNames DEF SourceOf, Repository
      <4> QED  BY <2>2, <3>3, <3>5, <3>6, <4>2 DEF ToTag
    <3>7. CASE r.at = "tags"
      BY <3>3, <3>7 DEF ToTag
    <3>8. CASE r.at = "bare"
      <4>1. r.dst \in Tag
        <5>1. r.dst \notin Branch
          BY <3>1, <3>8 DEF Destination, Heads
        <5> QED  BY <3>4, <3>8, <5>1 DEF Name
      <4> QED  BY <2>2, <3>3, <3>5, <3>8, <4>1 DEF ToTag
    <3> QED  BY <2>6, <3>2, <3>5, <3>6, <3>7, <3>8 DEF Refspec
  <2> QED  BY <2>6, <2>7, <2>8, <2>9 DEF Refspec
<1> QED  BY <1>5, <1>6, <1>7, <1>8, <1>9

\* check_push foresees what git writes: of a push that passes unasked, whatever the
\* repository's settings and whatever queries fail, every effect on the stop list
\* is turned off, overlooked, or something that a failed query would have told.
LEMMA PushIsPredicted ==
  ASSUME NEW g \in Repository, NEW out, NEW seg, seg.kind = "push", seg.push \in Push,
         NEW lists, lists.protected \in SUBSET Branch, NEW disabled,
         CheckPush(g, out, seg.push, lists.protected, disabled) = None
  PROVE  StopsIn(g, seg, lists) \subseteq
           disabled \cup Overlooked(g, seg.push, disabled)
                    \cup Unanswered(g, seg.push, lists.protected, out)
<1> DEFINE p == seg.push
           excused == disabled \cup Overlooked(g, p, disabled) \cup Unanswered(g, p, lists.protected, out)
<1>1. /\ CheckPush(g, out, p, lists.protected, disabled) = None
      /\ p \in Push /\ p = seg.push
  OBVIOUS
<1> HIDE DEF p
<1>2. WritesByForce(g, p) => "stop-force-push" \in excused
  BY <1>1, NoForce
<1>3. (\E w \in WritesTo(g, p) : w.ns = "heads"
          /\ w.name \in lists.protected
               \cup (IF RemoteOf(g, p) = Url THEN {} ELSE {g.remoteHead[RemoteOf(g, p)]} \ {None}))
        => "stop-default-branch" \in excused
  BY <1>1, NoDefaultBranch
<1>4. (\E w \in WritesTo(g, p) : w.ns = "tags") => "stop-release" \in excused
  BY <1>1, NoTag
<1> HIDE DEF excused
<1>5. StopsIn(g, seg, lists) \subseteq
         (IF WritesByForce(g, p) THEN {"stop-force-push"} ELSE {})
           \cup (IF \E w \in WritesTo(g, p) : w.ns = "heads"
                      /\ w.name \in lists.protected
                           \cup (IF RemoteOf(g, p) = Url THEN {}
                                 ELSE {g.remoteHead[RemoteOf(g, p)]} \ {None})
                 THEN {"stop-default-branch"} ELSE {})
           \cup (IF \E w \in WritesTo(g, p) : w.ns = "tags" THEN {"stop-release"} ELSE {})
  BY <1>1 DEF StopsIn
<1>6. StopsIn(g, seg, lists) \subseteq excused
  BY <1>2, <1>3, <1>4, <1>5
<1> QED  BY <1>1, <1>6 DEF excused

-----------------------------------------------------------------------------
\* What load_config hands on is a configuration, whatever the file.
LEMMA LoadedTyped ==
  /\ NoConfig \in Config
  /\ \A file \in Configs \cup {Absent, Malformed} :
       Loaded(file) \in Config /\ Loaded(file) = IF file \in Configs THEN file ELSE NoConfig
<1>1. NoConfig \in Config
  BY GuardInputs DEF NoConfig, Config, Rule
<1> QED  BY <1>1, GuardInputs DEF Loaded

LEMMA CallTyped ==
  ASSUME NEW c \in Calls
  PROVE  /\ c.tool \in Tool /\ c.text \in Text /\ c.segs \in Seq(Segment)
         /\ c # NoCall
<1>1. c \in Call
  BY GuardInputs
<1>2. c.tool \in Tool /\ c.text \in Text /\ c.segs \in Seq(Segment)
  BY <1>1 DEF Call
<1>3. DOMAIN c = {"tool", "text", "segs", "parses"}
  BY <1>1 DEF Call
<1>4. DOMAIN NoCall = {"tool"}
  BY DEF NoCall
<1> QED  BY <1>2, <1>3, <1>4

LEMMA SegmentTyped ==
  ASSUME NEW c \in Calls, NEW i \in 1 .. Len(c.segs)
  PROVE  c.segs[i] \in Segment
  BY CallTyped

LEMMA SessionTyped ==
  ASSUME NEW s \in Sessions
  PROVE  /\ s = [env |-> s.env, wired |-> s.wired]
         /\ s.env \in Environment /\ s.wired \in BOOLEAN
  BY GuardInputs

\* A call of `git switch` leaves a repository.
LEMMA SwitchTyped ==
  ASSUME NEW g \in Repository, NEW b \in Branch
  PROVE  [g EXCEPT !.head = b] \in Repository
  BY DEF Repository

\* Every value is of its type: the repository stays one, the configuration that a
\* hook works with is valid whatever the file holds, and a call is under way
\* except when idle.
THEOREM Typing == Spec => []TypeOK
<1>1. Init => TypeOK
  <2> SUFFICES ASSUME Init PROVE TypeOK
    OBVIOUS
  <2>1. PICK s \in Sessions : env = s.env /\ wired = s.wired
    BY DEF Init
  <2>2. [env |-> env, wired |-> wired] \in Sessions
    BY <2>1, SessionTyped
  <2>3. repo \in Repository /\ conf \in Config
    BY LoadedTyped, GuardInputs DEF Init
  <2>4. guards \in Configs \cup {Absent, Malformed} /\ pc = "idle" /\ call = NoCall
    BY DEF Init
  <2>5. asked \in BOOLEAN /\ blind \in BOOLEAN /\ fresh \in BOOLEAN /\ baseline = NoBaseline
    BY Zenon DEF Init
  <2>7. lost \in Outages
    BY GuardInputs DEF Init
  <2>6. next \in Nat \ {0}
    BY DEF Init
  <2> QED  BY <2>2, <2>3, <2>4, <2>5, <2>6, <2>7, Zenon DEF TypeOK
<1>2. TypeOK /\ [Next]_vars => TypeOK'
  <2> SUFFICES ASSUME TypeOK, [Next]_vars PROVE TypeOK'
    OBVIOUS
  <2> USE DEF TypeOK
  <2>1. ASSUME Dismiss, UNCHANGED <<guards, env, wired, repo, fresh, baseline>> PROVE TypeOK'
    <3>1. pc' = "idle" /\ call' = NoCall /\ conf' \in Config /\ next' \in Nat \ {0}
      BY <2>1, LoadedTyped DEF Dismiss
    <3>2. asked' \in BOOLEAN /\ blind' \in BOOLEAN
      BY <2>1, Zenon DEF Dismiss
    <3>4. lost' \in Outages
      BY <2>1, GuardInputs DEF Dismiss
    <3>3. guards' \in Configs \cup {Absent, Malformed} /\ repo' \in Repository
            /\ [env |-> env, wired |-> wired]' \in Sessions
            /\ fresh' \in BOOLEAN /\ (baseline # NoBaseline
                  => baseline.file \in Configs \cup {Absent, Malformed})'
      BY <2>1
    <3> QED  BY <3>1, <3>2, <3>3, <3>4, Zenon
  <2>2. CASE Request
    BY <2>2 DEF Request
  <2>3. CASE Load
    BY <2>3, LoadedTyped DEF Load
  <2>4. CASE CheckRules
    <3> PICK result \in RuleResults(Applicable(conf, env, call), call.text) :
           IF result \in {"hit", "timeout"}
           THEN Dismiss
           ELSE pc' = "judge" /\ blind' = (result = "failed") /\ UNCHANGED <<call, conf, asked, next, lost>>
      BY <2>4 DEF CheckRules
    <3>1. UNCHANGED <<guards, env, wired, repo, fresh, baseline>> /\ pc = "rules"
      BY <2>4 DEF CheckRules
    <3> QED  BY <2>1, <3>1
  <2>5. CASE Judge
    <3>1. lost' \in Outages
      BY <2>5, GuardInputs DEF Judge
    <3> QED  BY <2>5, <3>1 DEF Judge
  <2>6. CASE Confirm
    BY <2>1, <2>6 DEF Confirm
  <2>7. CASE RunSegment
    <3>1. next \in 1 .. Len(call.segs) /\ call \in Calls
      BY <2>7, CallTyped DEF RunSegment
    <3>2. call.segs[next] \in Segment
      BY <3>1, SegmentTyped
    <3>3. repo' \in Repository
      BY <2>7, <3>2, SwitchTyped DEF RunSegment, Segment
    <3> QED  BY <2>7, <3>3 DEF RunSegment
  <2>8. CASE Finish
    BY <2>1, <2>8 DEF Finish
  <2>9. CASE EditGuards
    BY <2>9 DEF EditGuards, hookVars
  <2>10. CASE Elsewhere
    BY <2>10, SwitchTyped DEF Elsewhere, hookVars
  <2>11. CASE NewSession
    BY <2>11, SessionTyped DEF NewSession, hookVars
  <2>12. CASE Selfcheck
    BY <2>12 DEF Selfcheck, hookVars
  <2>13. CASE UNCHANGED vars
    BY <2>13 DEF vars
  <2> QED  BY <2>2, <2>3, <2>4, <2>5, <2>6, <2>7, <2>8, <2>9, <2>10, <2>11, <2>12, <2>13 DEF Next
<1> QED  BY <1>1, <1>2, PTL DEF Spec

-----------------------------------------------------------------------------
\* What a hook has established when the call is at pc.
Guarded ==
  /\ pc = "load" => wired /\ call.tool \in Matcher
  /\ pc \in {"rules", "judge", "confirm"} => Hooked
  /\ pc \in {"rules", "judge", "confirm", "run"} /\ Hooked => conf = InForce
  /\ pc \in {"judge", "confirm", "run"} /\ Hooked /\ ~blind =>
       ~Hit(Applicable(conf, env, call), call.text)
  /\ pc = "confirm" => asked
  /\ pc = "run" /\ Hooked /\ ~asked /\ fresh => ~Asks(conf, env, repo, lost, call)

\* The configuration that a hook loads is what the project says.
LEMMA LoadedInForce ==
  ASSUME TypeOK  PROVE Loaded(guards) = InForce
  BY LoadedTyped DEF TypeOK, InForce

\* Rules that run out of time or match deny; only a failed worker lets a hit pass.
LEMMA RulesPass ==
  ASSUME NEW rules, NEW text, NEW result \in RuleResults(rules, text),
         result \notin {"hit", "timeout"}, result # "failed"
  PROVE  ~Hit(rules, text)
  BY DEF RuleResults

LEMMA Guarding == Spec => []Guarded
<1>1. Init => Guarded
  BY DEF Init, Guarded
<1>2. TypeOK /\ Guarded /\ [Next]_vars => Guarded'
  <2> SUFFICES ASSUME TypeOK, Guarded, [Next]_vars PROVE Guarded'
    OBVIOUS
  <2>1. ASSUME pc' = "idle" PROVE Guarded'
    BY <2>1 DEF Guarded
  <2>2. CASE Request
    <3>1. pc' = IF wired' /\ call'.tool \in Matcher THEN "load" ELSE "run"
      BY <2>2 DEF Request
    <3> QED  BY <3>1 DEF Guarded, Hooked
  <2>3. CASE Load
    <3>1. UNCHANGED <<guards, env, wired, repo, call>> /\ pc = "load"
      BY <2>3 DEF Load
    <3>2. wired /\ call.tool \in Matcher
      BY <3>1 DEF Guarded
    <3>3. CASE env.bypass
      <4>1. pc' = "run" /\ ~Hooked'
        BY <2>3, <3>1, <3>3 DEF Load, Hooked
      <4> QED  BY <4>1 DEF Guarded
    <3>4. CASE ~env.bypass
      <4>1. pc' = "rules" /\ conf' = InForce' /\ Hooked'
        BY <2>3, <3>1, <3>2, <3>4, LoadedInForce DEF Load, Hooked, InForce
      <4> QED  BY <4>1 DEF Guarded
    <3> QED  BY <3>3, <3>4
  <2>4. CASE CheckRules
    <3> PICK result \in RuleResults(Applicable(conf, env, call), call.text) :
           IF result \in {"hit", "timeout"}
           THEN Dismiss
           ELSE pc' = "judge" /\ blind' = (result = "failed") /\ UNCHANGED <<call, conf, asked, next, lost>>
      BY <2>4 DEF CheckRules
    <3>1. UNCHANGED <<guards, env, wired, repo>> /\ pc = "rules"
      BY <2>4 DEF CheckRules
    <3>2. CASE result \in {"hit", "timeout"}
      BY <2>1, <3>2 DEF Dismiss
    <3>3. CASE result \notin {"hit", "timeout"}
      <4>1. pc' = "judge" /\ blind' = (result = "failed") /\ UNCHANGED <<call, conf>>
        BY <3>3
      <4>2. ~blind' => ~Hit(Applicable(conf, env, call), call.text)
        BY <3>3, <4>1, RulesPass
      <4>3. Hooked' /\ conf' = InForce'
        BY <3>1, <4>1 DEF Guarded, Hooked, InForce
      <4>4. ~blind' => ~Hit(Applicable(conf, env, call), call.text)'
        BY <3>1, <4>1, <4>2 DEF Hit, Applicable
      <4> QED  BY <4>1, <4>3, <4>4 DEF Guarded
    <3> QED  BY <3>2, <3>3
  <2>5. CASE Judge
    <3>1. UNCHANGED <<guards, env, wired, repo, call, conf, blind, fresh>> /\ pc = "judge"
      BY <2>5 DEF Judge
    <3>2. IF Asks(conf, env, repo, lost', call) THEN asked' = TRUE /\ pc' = "confirm"
          ELSE pc' = "run" /\ asked' = asked
      BY <2>5 DEF Judge
    <3>3. Hooked' /\ conf' = InForce' /\ (~blind' => ~Hit(Applicable(conf, env, call), call.text)')
      BY <3>1 DEF Guarded, Hooked, InForce, Hit, Applicable
    <3>4. Asks(conf, env, repo, lost, call)' = Asks(conf, env, repo, lost', call)
      BY <3>1
    <3> QED  BY <3>2, <3>3, <3>4 DEF Guarded
  <2>6. CASE Confirm
    <3>1. CASE Dismiss
      BY <2>1, <3>1 DEF Dismiss
    <3>2. CASE pc' = "run" /\ UNCHANGED <<call, conf, asked, next, blind, lost>>
      <4>1. UNCHANGED <<guards, env, wired>> /\ pc = "confirm"
        BY <2>6 DEF Confirm
      <4>2. Hooked' /\ conf' = InForce' /\ (~blind' => ~Hit(Applicable(conf, env, call), call.text)')
        BY <3>2, <4>1 DEF Guarded, Hooked, InForce, Hit, Applicable
      <4>3. asked'
        BY <3>2, <4>1 DEF Guarded
      <4> QED  BY <3>2, <4>2, <4>3 DEF Guarded
    <3> QED  BY <2>6, <3>1, <3>2 DEF Confirm
  <2>7. CASE RunSegment \/ Elsewhere \/ Selfcheck \/ UNCHANGED vars
    <3>1. UNCHANGED <<guards, env, wired, pc, call, conf, asked, blind, lost>> /\ (fresh' => fresh /\ repo' = repo)
      <4>1. CASE RunSegment
        BY <4>1, Zenon DEF RunSegment
      <4>2. CASE Elsewhere
        BY <4>2, Zenon DEF Elsewhere, hookVars
      <4>3. CASE Selfcheck
        BY <4>3, Zenon DEF Selfcheck, hookVars
      <4>4. CASE UNCHANGED vars
        BY <4>4, Zenon DEF vars
      <4> QED  BY <2>7, <4>1, <4>2, <4>3, <4>4
    <3>2. /\ Hooked' = Hooked /\ InForce' = InForce
          /\ Hit(Applicable(conf, env, call), call.text)' = Hit(Applicable(conf, env, call), call.text)
      BY <3>1 DEF Hooked, InForce, Hit, Applicable
    <3>3. fresh' => fresh /\ Asks(conf, env, repo, lost, call)' = Asks(conf, env, repo, lost, call)
      BY <3>1
    <3> QED  BY <3>1, <3>2, <3>3 DEF Guarded
  <2>8. CASE Finish \/ EditGuards \/ NewSession
    BY <2>1, <2>8 DEF Finish, Dismiss, EditGuards, NewSession, hookVars
  <2> QED  BY <2>2, <2>3, <2>4, <2>5, <2>6, <2>7, <2>8 DEF Next
<1> QED  BY <1>1, <1>2, Typing, PTL DEF Spec

\* For every set of rules, whatever their regexes do to the worker short of failing
\* it, and whatever the stop list and the user say: a call that a rule of the
\* project forbids does not run under the hook.
THEOREM ForbiddenStops == Spec => []ForbiddenNeverRuns
<1>1. Guarded => ForbiddenNeverRuns
  <2> SUFFICES ASSUME Guarded, pc = "run", Hooked, ~blind,
                      NEW r \in InForce.block, call.tool \in r.tools, call.text \in r.hits,
                      r.bypass \notin env.vars
               PROVE  FALSE
    BY DEF ForbiddenNeverRuns
  <2>1. conf = InForce /\ ~Hit(Applicable(conf, env, call), call.text)
    BY DEF Guarded
  <2>2. r \in Applicable(conf, env, call)
    BY <2>1 DEF Applicable
  <2> QED  BY <2>1, <2>2 DEF Hit
<1> QED  BY <1>1, Guarding, PTL

\* Outside of pushes the stop list looks at what it is about.
LEMMA OtherIsPredicted ==
  ASSUME NEW g, NEW out, NEW seg \in Segment, seg.kind # "push", NEW lists, NEW disabled,
         lists.disabled = disabled, Stop(g, out, seg, lists) = None,
         seg.kind = "skip permissions" => SkipPermissions \in disabled
  PROVE  StopsIn(g, seg, lists) \subseteq disabled
<1>1. "stop-release" # None /\ "stop-publish" # None
  BY StopNames DEF StopIds
<1>2. CASE seg.kind = "gh"
  BY <1>1, <1>2 DEF Stop, CheckGh, StopsIn
<1>3. CASE seg.kind = "publish"
  BY <1>1, <1>3 DEF Stop, CheckPublish, StopsIn
<1>4. CASE seg.kind = "skip permissions"
  BY <1>4 DEF StopsIn
<1>5. CASE seg.kind \in {"other", "switch"}
  BY <1>5 DEF StopsIn
<1> QED  BY <1>2, <1>3, <1>4, <1>5 DEF Segment

\* For every repository, with any refs, remotes and settings, every push, and
\* whatever queries of git fail: a segment that the hook could see, and that runs
\* unasked in the repository that the hook saw, does nothing on the stop list but
\* what the project turned off, Overlooked names, or a failed query would have told.
THEOREM UnaskedIsSafe == Spec => []UnaskedIsHarmless
<1>1. TypeOK /\ Guarded => UnaskedIsHarmless
  <2> DEFINE seg == call.segs[next]
  <2> SUFFICES ASSUME TypeOK, Guarded, pc = "run", Hooked, call.tool = "Bash",
                      ~asked, ~env.off, fresh, next \in Expanded(call)
               PROVE  StopsIn(repo, seg, Lists(InForce)) \subseteq
                        InForce.disabled
                          \cup (IF seg.kind = "push"
                                THEN Overlooked(repo, seg.push, InForce.disabled)
                                       \cup Unanswered(repo, seg.push, InForce.protected, lost)
                                ELSE {})
    BY DEF UnaskedIsHarmless
  <2>1. conf = InForce /\ conf \in Config /\ repo \in Repository /\ call \in Calls
    BY DEF Guarded, TypeOK
  <2>2. ~Asks(conf, env, repo, lost, call)
    BY DEF Guarded
  <2>3. /\ seg.kind = "skip permissions" => SkipPermissions \in conf.disabled
        /\ Stop(repo, lost, seg, Lists(conf)) = None
    BY <2>2 DEF Asks
  <2>4. next \in 1 .. Len(call.segs)
    BY <2>1, CallTyped DEF Expanded
  <2>5. seg \in Segment
    BY <2>1, <2>4, SegmentTyped
  <2>6. /\ Lists(conf).protected = conf.protected /\ conf.protected \in SUBSET Branch
        /\ Lists(conf).disabled = conf.disabled
    BY <2>1 DEF Lists, Config
  <2> HIDE DEF seg
  <2>7. CASE seg.kind = "push"
    <3>1. seg.push \in Push
      BY <2>5, <2>7 DEF Segment
    <3>2. CheckPush(repo, lost, seg.push, Lists(conf).protected, conf.disabled) = None
      BY <2>3, <2>6, <2>7 DEF Stop
    <3>3. StopsIn(repo, seg, Lists(conf)) \subseteq
            conf.disabled \cup Overlooked(repo, seg.push, conf.disabled)
                          \cup Unanswered(repo, seg.push, conf.protected, lost)
      BY <2>1, <2>6, <2>7, <3>1, <3>2, PushIsPredicted
    <3> QED  BY <2>1, <2>7, <3>3
  <2>8. CASE seg.kind # "push"
    <3>1. StopsIn(repo, seg, Lists(conf)) \subseteq conf.disabled
      BY <2>3, <2>5, <2>6, <2>8, OtherIsPredicted
    <3> QED  BY <2>1, <3>1
  <2> QED  BY <2>7, <2>8
<1> QED  BY <1>1, Typing, Guarding, PTL

-----------------------------------------------------------------------------
\* The stop list depends on the ids of the stops that are turned off, not on
\* whatever else the list of the disabled holds.
LEMMA StopDepends ==
  ASSUME NEW g, NEW out, NEW seg, NEW k, NEW l, k.protected = l.protected, k.publish = l.publish,
         \A id \in StopIds : id \in k.disabled <=> id \in l.disabled
  PROVE  Stop(g, out, seg, k) = Stop(g, out, seg, l)
<1>1. /\ "stop-force-push" \in k.disabled <=> "stop-force-push" \in l.disabled
      /\ "stop-default-branch" \in k.disabled <=> "stop-default-branch" \in l.disabled
      /\ "stop-release" \in k.disabled <=> "stop-release" \in l.disabled
      /\ "stop-publish" \in k.disabled <=> "stop-publish" \in l.disabled
  BY DEF StopIds
<1>2. ASSUME NEW p 
      PROVE  CheckPush(g, out, p, k.protected, k.disabled) = CheckPush(g, out, p, l.protected, l.disabled)
  BY <1>1, Zenon DEF CheckPush
<1>3. ASSUME NEW a PROVE CheckGh(a, k.disabled) = CheckGh(a, l.disabled)
  BY <1>1 DEF CheckGh
<1>4. CheckPublish(seg, k.publish, k.disabled) = CheckPublish(seg, l.publish, l.disabled)
  BY <1>1 DEF CheckPublish
<1> QED  BY <1>2, <1>3, <1>4 DEF Stop

LEMMA AllDisabled ==
  ASSUME NEW g, NEW out, NEW seg, NEW l, StopIds \subseteq l.disabled
  PROVE  Stop(g, out, seg, l) = None
<1>1. /\ "stop-force-push" \in l.disabled /\ "stop-default-branch" \in l.disabled
      /\ "stop-release" \in l.disabled /\ "stop-publish" \in l.disabled
  BY DEF StopIds
<1> QED  BY <1>1 DEF Stop, CheckPush, CheckGh, CheckPublish

\* Two configurations under which no call is asked about differently.
LEMMA AsksDepends ==
  ASSUME NEW k \in Config, NEW l \in Config, NEW d \in Environment, NEW e \in Environment,
         k.protected = l.protected, k.publish = l.publish,
         (~d.off /\ SkipPermissions \notin k.disabled) = (~e.off /\ SkipPermissions \notin l.disabled),
         (IF d.off THEN {} ELSE StopIds \ k.disabled) = (IF e.off THEN {} ELSE StopIds \ l.disabled),
         NEW g, NEW out, NEW c
  PROVE  Asks(k, d, g, out, c) <=> Asks(l, e, g, out, c)
<1>1. /\ Lists(k).protected = Lists(l).protected /\ Lists(k).publish = Lists(l).publish
      /\ Lists(k).disabled = k.disabled /\ Lists(l).disabled = l.disabled
  BY DEF Lists, Config
<1>2. CASE d.off /\ e.off
  BY <1>2 DEF Asks
<1>3. CASE d.off /\ ~e.off
  <2>1. StopIds \subseteq l.disabled /\ SkipPermissions \in l.disabled
    BY <1>3
  <2> QED  BY <1>1, <1>3, <2>1, AllDisabled DEF Asks
<1>4. CASE ~d.off /\ e.off
  <2>1. StopIds \subseteq k.disabled /\ SkipPermissions \in k.disabled
    BY <1>4
  <2> QED  BY <1>1, <1>4, <2>1, AllDisabled DEF Asks
<1>5. CASE ~d.off /\ ~e.off
  <2>1. /\ SkipPermissions \notin k.disabled <=> SkipPermissions \notin l.disabled
        /\ \A id \in StopIds : id \in k.disabled <=> id \in l.disabled
    BY <1>5
  <2>2. \A seg : Stop(g, out, seg, Lists(k)) = Stop(g, out, seg, Lists(l))
    BY <1>1, <2>1, StopDepends
  <2> QED  BY <1>5, <2>1, <2>2 DEF Asks
<1> QED  BY <1>2, <1>3, <1>4, <1>5

\* The snapshot is the guard set of what it was taken of.
Anchored ==
  baseline # NoBaseline =>
    /\ baseline.set = ActiveGuardSet(baseline.file, baseline.env, baseline.wired)
    /\ [env |-> baseline.env, wired |-> baseline.wired] \in Sessions

LEMMA Anchoring == Spec => []Anchored
<1>1. Init => Anchored
  BY DEF Init, Anchored
<1>2. TypeOK /\ Anchored /\ [Next]_vars => Anchored'
  <2> SUFFICES ASSUME TypeOK, Anchored, [Next]_vars PROVE Anchored'
    OBVIOUS
  <2>1. CASE Selfcheck
    <3>1. baseline' = [set |-> ActiveGuardSet(guards, env, wired),
                       file |-> guards, env |-> env, wired |-> wired]
      BY <2>1 DEF Selfcheck
    <3>2. [env |-> env, wired |-> wired] \in Sessions
      BY DEF TypeOK
    <3> QED  BY <3>1, <3>2 DEF Anchored
  <2>2. CASE ~Selfcheck
    <3>1. baseline' = baseline
      BY <2>2 DEF Next, Request, Load, CheckRules, Judge, Confirm, RunSegment, Finish,
                  EditGuards, Elsewhere, NewSession, vars
    <3> QED  BY <3>1 DEF Anchored
  <2> QED  BY <2>1, <2>2
<1> QED  BY <1>1, <1>2, Typing, PTL DEF Spec

\* For every two files and environments: the guard set that --assert-guard-set
\* compares determines how every call fares, but for the publish commands, the
\* switches of single rules, and an unknown registration of the hook.
THEOREM IntactIsEnough == Spec => []DriftIsSeen
<1>1. TypeOK /\ Anchored => DriftIsSeen
  <2> DEFINE b == baseline
             k == Loaded(guards)
             l == Loaded(baseline.file)
  <2> SUFFICES ASSUME TypeOK, Anchored, GuardSetIntact, k.publish = l.publish,
                      env.vars = b.env.vars, env.root \/ wired = b.wired, NEW c \in Calls,
                      NEW out \in Outages
               PROVE  Outcomes(guards, env, wired, repo, out, c)
                        = Outcomes(b.file, b.env, b.wired, repo, out, c)
    BY DEF DriftIsSeen
  <2>1. baseline # NoBaseline /\ guards # Malformed
    BY DEF GuardSetIntact
  <2>2. ActiveGuardSet(guards, env, wired) = ActiveGuardSet(b.file, b.env, b.wired)
    BY <2>1 DEF GuardSetIntact, Anchored
  <2>3. /\ (~env.off /\ SkipPermissions \notin k.disabled)
              = (~b.env.off /\ SkipPermissions \notin l.disabled)
        /\ (IF env.off THEN {} ELSE StopIds \ k.disabled)
              = (IF b.env.off THEN {} ELSE StopIds \ l.disabled)
        /\ k.protected = l.protected /\ k.block = l.block
        /\ (IF env.root THEN wired ELSE None) = (IF b.env.root THEN b.wired ELSE None)
        /\ env.bypass = b.env.bypass
    BY <2>2, Zenon DEF ActiveGuardSet
  <2>4. /\ env \in Environment /\ wired \in BOOLEAN
        /\ b.env \in Environment /\ b.wired \in BOOLEAN
    <3>1. /\ [env |-> env, wired |-> wired] \in Sessions
          /\ [env |-> b.env, wired |-> b.wired] \in Sessions
      BY <2>1 DEF TypeOK, Anchored
    <3> QED  BY <3>1, SessionTyped
  <2>5. k \in Config /\ l \in Config
    BY <2>1, LoadedTyped DEF TypeOK
  <2>6. wired = b.wired
    <3>1. None \notin BOOLEAN
      BY GuardInputs
    <3> QED  BY <2>3, <2>4, <3>1, Zenon
  <2> HIDE DEF b, k, l
  <2>7. Asks(k, env, repo, out, c) <=> Asks(l, b.env, repo, out, c)
    BY <2>3, <2>4, <2>5, AsksDepends
  <2>8. Applicable(k, env, c) = Applicable(l, b.env, c)
    BY <2>3 DEF Applicable
  <2> QED  BY <2>3, <2>6, <2>7, <2>8 DEF Outcomes, b, k, l
<1> QED  BY <1>1, Typing, Anchoring, PTL
=============================================================================
