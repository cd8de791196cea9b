---------------------------- MODULE GuardEngine -----------------------------
(***************************************************************************)
(* The PreToolUse hook (scripts/guard_engine.py) around one tool call: the *)
(* hook reads .goodfellow/guards.json, matches the project's rules, judges *)
(* the command by what git says at that moment, and says deny, ask or      *)
(* nothing; the user confirms or not; the command runs segment by segment. *)
(* In between, the file and the repository may change.  Beside the hook,   *)
(* a session takes a snapshot of the guard set and later compares with it. *)
(***************************************************************************)
EXTENDS StopList, Naturals, Sequences

CONSTANTS
  Text,             \* what a rule is matched against
  Tool, Matcher,    \* the tools, and those that hooks.json names
  EnvVar,           \* names that a rule's bypass_env may have
  Configs,          \* the valid contents of guards.json
  Sessions,         \* the environments a session may have, and whether it has the hook
  Absent, Malformed,\* no such file; a file that load_config refuses
  Calls,            \* the tool calls an agent makes
  Repositories,     \* the states a repository starts in
  DefaultProtected, DefaultPublish,
  Outages,          \* bound: sets of git queries that may fail in one run of the hook
  Snapshots         \* bound: repositories in which snapshots are followed

SkipPermissions == "dangerous-skip-permissions"

\* A rule of "block".  On a text in slow its regex backtracks for ever.
Rule == [regex : BOOLEAN, tools : SUBSET STRING, bypass : EnvVar \cup {None},
         hits : SUBSET Text, slow : SUBSET Text]

\* publish is None where the file says nothing.
Config == [disabled : SUBSET (StopIds \cup {SkipPermissions}), protected : SUBSET Branch,
           publish : (SUBSET Publisher) \cup {None}, block : SUBSET Rule]

Environment == [bypass : BOOLEAN, off : BOOLEAN, vars : SUBSET EnvVar, root : BOOLEAN]

\* parses: shlex can split it.  depth: how many `sh -c` a segment is in.
Segment == [kind : {"push"}, push : Push, depth : Nat]
             \cup [kind : {"gh"}, act : GhAction, depth : Nat]
             \cup [kind : {"publish"}, cmd : Publisher, dry : BOOLEAN, depth : Nat]
             \cup [kind : {"skip permissions", "other"}, depth : Nat]
             \cup [kind : {"switch"}, branch : Branch, depth : Nat]

Call == [tool : Tool, text : Text, segs : Seq(Segment), parses : BOOLEAN]

ASSUME GuardInputs ==
  /\ Configs \subseteq Config
  /\ Sessions \subseteq [env : Environment, wired : BOOLEAN]
  /\ {Absent, Malformed} \cap Config = {}
  /\ Calls \subseteq Call
  /\ Repositories \subseteq Repository
  /\ DefaultProtected \subseteq Branch /\ DefaultPublish \subseteq Publisher
  /\ Matcher \subseteq Tool /\ Tool \subseteq STRING
  /\ Outages \subseteq SUBSET Query /\ {} \in Outages
  /\ None \notin EnvVar \cup BOOLEAN

VARIABLES
  guards,   \* .goodfellow/guards.json
  env,      \* the environment of the session
  wired,    \* the hook is registered
  repo,     \* the git repository
  pc,       \* where the call is
  call,     \* the call in progress
  conf,     \* the configuration that its hook has loaded
  asked,    \* the hook has asked the user to confirm
  next,     \* the segment to run next
  blind,    \* the worker that matches the rules has failed
  lost,     \* ghost: the git queries that failed
  fresh,    \* ghost: the repository is as when the hook started
  baseline  \* the snapshot, and as a ghost what it was taken of

vars == <<guards, env, wired, repo, pc, call, conf, asked, next, blind, lost, fresh, baseline>>
hookVars == <<pc, call, conf, asked, next, blind, lost>>

NoConfig == [disabled |-> {}, protected |-> DefaultProtected, publish |-> None, block |-> {}]
NoCall == [tool |-> "none"]
NoBaseline == [set |-> None]

\* load_config, and decide's way out of its errors: the built-ins and the stop
\* list go on with their defaults.
Loaded(file) == IF file \in {Absent, Malformed} THEN NoConfig ELSE file

\* The lists that the stop list works with.
Lists(cfg) == [cfg EXCEPT !.publish = IF @ = None THEN DefaultPublish ELSE @]

\* The rules for the tool of the call, without those whose switch is set.
Applicable(cfg, e, c) ==
  {r \in cfg.block : c.tool \in r.tools /\ (r.bypass = None \/ r.bypass \notin e.vars)}

Hit(rules, text) == \E r \in rules : text \in r.hits

\* What check_user_rules may come to: substrings are matched inline; a regex
\* takes a worker, which may end, run out of time, or fail.
RuleResults(rules, text) ==
  IF \A r \in rules : ~r.regex
  THEN {IF Hit(rules, text) THEN "hit" ELSE "miss"}
  ELSE {"timeout", "failed"}
         \cup (IF Hit(rules, text) THEN {"hit"}
               ELSE IF \E r \in rules : r.regex /\ text \in r.slow THEN {} ELSE {"miss"})

MaxNestDepth == 4

\* expand_segments: nested programs down to a depth.
Expanded(c) == IF c.parses THEN {i \in DOMAIN c.segs : c.segs[i].depth <= MaxNestDepth} ELSE {}

\* evaluate_builtins and evaluate_stop_list: is there a reason to ask, if the git
\* queries in out fail?
Asks(cfg, e, g, out, c) ==
  /\ c.tool = "Bash" /\ ~e.off
  /\ \E i \in Expanded(c) :
       \/ c.segs[i].kind = "skip permissions" /\ SkipPermissions \notin cfg.disabled
       \/ Stop(g, out, c.segs[i], Lists(cfg)) # None

Init ==
  /\ guards \in Configs \cup {Absent, Malformed}
  /\ \E s \in Sessions : env = s.env /\ wired = s.wired
  /\ repo \in Repositories
  /\ pc = "idle" /\ call = NoCall /\ conf = NoConfig
  /\ asked = FALSE /\ next = 1 /\ blind = FALSE /\ lost = {}
  /\ fresh = TRUE
  /\ baseline = NoBaseline

\* The call is over.
Dismiss ==
  /\ pc' = "idle" /\ call' = NoCall /\ conf' = NoConfig
  /\ asked' = FALSE /\ next' = 1 /\ blind' = FALSE /\ lost' = {}

\* The agent makes a call.  Claude Code runs the hook for the tools that the
\* matcher names.
Request ==
  /\ pc = "idle" /\ baseline = NoBaseline
  /\ call' \in Calls
  /\ pc' = IF wired /\ call'.tool \in Matcher THEN "load" ELSE "run"
  /\ fresh' = TRUE
  /\ UNCHANGED <<guards, env, wired, repo, conf, asked, next, blind, lost, baseline>>

\* Bug: the stop list comes before the rules, and an ask is the decision.
Load_AsksFirst ==
  /\ pc = "load"
  /\ IF env.bypass THEN pc' = "run" /\ UNCHANGED <<conf, asked>>
     ELSE /\ conf' = Loaded(guards)
          /\ IF Asks(conf', env, repo, {}, call) THEN pc' = "confirm" /\ asked' = TRUE
             ELSE pc' = "rules" /\ UNCHANGED asked
  /\ UNCHANGED <<guards, env, wired, repo, call, next, blind, lost, fresh, baseline>>

\* decide, up to the rules.
Load ==
  /\ pc = "load"
  /\ IF env.bypass THEN pc' = "run" /\ UNCHANGED conf
     ELSE pc' = "rules" /\ conf' = Loaded(guards)
  /\ UNCHANGED <<guards, env, wired, repo, call, asked, next, blind, lost, fresh, baseline>>

\* check_user_rules.  Running out of time denies; a worker that cannot be
\* started, or that dies, is skipped.
CheckRules ==
  /\ pc = "rules"
  /\ \E result \in RuleResults(Applicable(conf, env, call), call.text) :
       IF result \in {"hit", "timeout"}
       THEN Dismiss
       ELSE pc' = "judge" /\ blind' = (result = "failed") /\ UNCHANGED <<call, conf, asked, next, lost>>
  /\ UNCHANGED <<guards, env, wired, repo, fresh, baseline>>

\* The hook asks git something.
AsksGit(e, c) == c.tool = "Bash" /\ ~e.off /\ \E i \in Expanded(c) : c.segs[i].kind = "push"

\* The built-in and the stop list.  Queries of one kind fail together.
Judge ==
  /\ pc = "judge"
  /\ lost' \in (IF AsksGit(env, call) THEN Outages ELSE {{}})
  /\ IF Asks(conf, env, repo, lost', call) THEN asked' = TRUE /\ pc' = "confirm"
     ELSE pc' = "run" /\ UNCHANGED asked
  /\ UNCHANGED <<guards, env, wired, repo, call, conf, next, blind, fresh, baseline>>

\* The user says yes or no.
Confirm ==
  /\ pc = "confirm"
  /\ \/ pc' = "run" /\ UNCHANGED <<call, conf, asked, next, blind, lost>>
     \/ Dismiss
  /\ UNCHANGED <<guards, env, wired, repo, fresh, baseline>>

\* A segment runs.  Of its effects, `git switch` matters to a later push.
RunSegment ==
  /\ pc = "run" /\ next <= Len(call.segs)
  /\ LET seg == call.segs[next] IN
       repo' = IF seg.kind = "switch" THEN [repo EXCEPT !.head = seg.branch] ELSE repo
  /\ fresh' = (fresh /\ repo' = repo)
  /\ next' = next + 1
  /\ UNCHANGED <<guards, env, wired, pc, call, conf, asked, blind, lost, baseline>>

Finish ==
  /\ pc = "run" /\ next > Len(call.segs)
  /\ Dismiss
  /\ UNCHANGED <<guards, env, wired, repo, fresh, baseline>>

\* Another session, or a person, edits the file.  The hook reads it once, so an
\* edit during a call is the same to the call as one before or after it.
EditGuards ==
  /\ pc = "idle"
  /\ guards' \in (Configs \cup {Absent, Malformed}) \ {guards}
  /\ UNCHANGED <<env, wired, repo, hookVars, fresh, baseline>>

\* Another session, or a person, checks out another branch, at any moment.
Elsewhere ==
  /\ \E b \in Branch \ {repo.head} : repo' = [repo EXCEPT !.head = b]
  /\ fresh' = FALSE
  /\ UNCHANGED <<guards, env, wired, hookVars, baseline>>

\* A new session has its own environment, and may lack the hook.
NewSession ==
  /\ pc = "idle"
  /\ \E s \in Sessions : env' = s.env /\ wired' = s.wired
  /\ UNCHANGED <<guards, repo, hookVars, fresh, baseline>>

\* Bug: the set tells what the file enables, whatever the environment says.
ActiveGuardSet_FileOnly(file, e, w) ==
  [skip |-> SkipPermissions \notin Loaded(file).disabled, stops |-> StopIds \ Loaded(file).disabled,
   protected |-> Loaded(file).protected, rules |-> Loaded(file).block,
   hook |-> IF e.root THEN w ELSE None, broken |-> file = Malformed, bypass |-> e.bypass]

\* active_guard_set: a digest of every rule, which is the rule itself here.
ActiveGuardSet(file, e, w) ==
  [skip |-> ~e.off /\ SkipPermissions \notin Loaded(file).disabled,
   stops |-> IF e.off THEN {} ELSE StopIds \ Loaded(file).disabled,
   protected |-> Loaded(file).protected,
   rules |-> Loaded(file).block,
   hook |-> IF e.root THEN w ELSE None,
   broken |-> file = Malformed,
   bypass |-> e.bypass]

\* --selfcheck into a file.
Selfcheck ==
  /\ pc = "idle" /\ baseline = NoBaseline /\ repo \in Snapshots
  /\ baseline' = [set |-> ActiveGuardSet(guards, env, wired),
                  file |-> guards, env |-> env, wired |-> wired]
  /\ UNCHANGED <<guards, env, wired, repo, hookVars, fresh>>

\* --assert-guard-set finds nothing changed.
GuardSetIntact ==
  /\ baseline # NoBaseline
  /\ guards # Malformed
  /\ ActiveGuardSet(guards, env, wired) = baseline.set

Next ==
  \/ Request \/ Load \/ CheckRules \/ Judge \/ Confirm \/ RunSegment \/ Finish
  \/ EditGuards \/ Elsewhere \/ NewSession \/ Selfcheck

Spec == Init /\ [][Next]_vars

-----------------------------------------------------------------------------
TypeOK ==
  /\ guards \in Configs \cup {Absent, Malformed}
  /\ [env |-> env, wired |-> wired] \in Sessions
  /\ repo \in Repository
  /\ pc \in {"idle", "load", "rules", "judge", "confirm", "run"}
  /\ call \in Calls \cup {NoCall} /\ (pc # "idle" => call \in Calls)
  /\ conf \in Config
  /\ next \in Nat \ {0}
  /\ asked \in BOOLEAN /\ blind \in BOOLEAN /\ lost \in Outages /\ fresh \in BOOLEAN
  /\ baseline # NoBaseline => baseline.file \in Configs \cup {Absent, Malformed}

\* The call in progress is one that the hook sees.
Hooked == wired /\ call.tool \in Matcher /\ ~env.bypass

\* What the project says, and the defaults where the file cannot be read.
InForce == IF guards \in Configs THEN guards ELSE NoConfig

\* "a stop that would ask must never turn an action the project forbids into a
\* confirmation": a call that a rule forbids does not run, whatever the stop
\* list and the user say, unless the worker that matches the rules failed.
ForbiddenNeverRuns ==
  pc = "run" /\ Hooked /\ ~blind =>
    \A r \in InForce.block :
      call.tool \in r.tools /\ call.text \in r.hits => r.bypass \in env.vars

\* What running a segment comes to, of the things the stop list is about.
StopsIn(g, seg, lists) ==
  CASE seg.kind = "push" ->
         LET refs == WritesTo(g, seg.push)
             remote == RemoteOf(g, seg.push)
             defaults == lists.protected \cup (IF remote = Url THEN {} ELSE {g.remoteHead[remote]} \ {None})
         IN (IF refs # {} /\ WritesByForce(g, seg.push) THEN {"stop-force-push"} ELSE {})
              \cup (IF \E r \in refs : r.ns = "heads" /\ r.name \in defaults
                    THEN {"stop-default-branch"} ELSE {})
              \cup (IF \E r \in refs : r.ns = "tags" THEN {"stop-release"} ELSE {})
    [] seg.kind = "gh" -> IF seg.act \in {"release write", "api write"} THEN {"stop-release"} ELSE {}
    [] seg.kind = "publish" -> IF seg.cmd \in lists.publish /\ ~seg.dry THEN {"stop-publish"} ELSE {}
    [] seg.kind = "skip permissions" -> {SkipPermissions}
    [] OTHER -> {}

\* What the hook does not see: a remote set up as a mirror, a `+` in the configured
\* refspecs, a short destination that is a tag only for the remote, a destination
\* from tags/ on, and, where pushes to the default branch are not asked about, what else a wildcard writes.
Overlooked(g, p, disabled) ==
  (IF p.refs = {} /\ RemoteOf(g, p) \in g.mirrors THEN StopIds ELSE {})
    \cup (IF NamesNothing(p) /\ \E r \in Implied(g, p) : r.plus THEN {"stop-force-push"} ELSE {})
    \cup (IF \E r \in RefsOf(g, p) : r.at = "tags/" \/ {r.src, r.dst} \cap (Tag \ g.tags) # {}
          THEN {"stop-release"} ELSE {})
    \cup (IF "stop-default-branch" \in disabled
               /\ ("--mirror" \in p.opts \/ \E r \in RefsOf(g, p) : r.kind = "tags/*")
          THEN {"stop-force-push", "stop-release"} ELSE {})

\* Failing queries may leave the hook with another remote than git's, or with other
\* refs for a push that names none.
OtherRemote(p, out) ==
  p.to = None /\ out \cap {"head", "pushRemote", "pushDefault", "tracks"} # {}
OtherRefs(p, out) ==
  NamesNothing(p) /\ (OtherRemote(p, out) \/ out \cap {"pushes", "mode", "merge"} # {})

ToProtected(g, p, protected) == \E w \in WritesTo(g, p) : w.ns = "heads" /\ w.name \in protected
SaysTags(p) == "--tags" \in p.opts \/ \E r \in p.refs : r.kind = "ref" /\ r.at = "tags"

\* What failing queries keep from the hook: the refs of a push that names none,
\* the default branch that only the remote knows of, and tags that the command
\* line does not call tags.  Not that a push is forced, that it names a protected
\* branch, or that it says --tags or refs/tags.
Unanswered(g, p, protected, out) ==
  (IF OtherRefs(p, out)
        \/ ((OtherRemote(p, out) \/ "remoteHead" \in out) /\ ~ToProtected(g, p, protected))
   THEN {"stop-default-branch"} ELSE {})
    \cup (IF OtherRefs(p, out) \/ (out \cap {"follow", "tags", "tagged"} # {} /\ ~SaysTags(p))
          THEN {"stop-release"} ELSE {})

\* The stop list over-approximates git: a segment that the hook could see, and
\* that runs unasked in the repository that the hook saw, does nothing on the
\* list but what the project turned off, Overlooked names, or a query that
\* failed would have told.  A file that cannot be read turns nothing off.
UnaskedIsHarmless ==
  pc = "run" /\ Hooked /\ call.tool = "Bash" /\ ~asked /\ ~env.off /\ fresh
    /\ next \in Expanded(call)
    => LET seg == call.segs[next] IN
       StopsIn(repo, seg, Lists(InForce)) \subseteq
         InForce.disabled
           \cup (IF seg.kind = "push"
                 THEN Overlooked(repo, seg.push, InForce.disabled)
                        \cup Unanswered(repo, seg.push, InForce.protected, lost)
                 ELSE {})

\* What may come of a call, if the git queries in out fail: it is denied, asked
\* about, or goes on.
Outcomes(file, e, w, g, out, c) ==
  IF ~w \/ e.bypass \/ c.tool \notin Matcher THEN {"go on"}
  ELSE {IF r \in {"hit", "timeout"} THEN "deny"
        ELSE IF Asks(Loaded(file), e, g, out, c) THEN "ask" ELSE "go on" :
          r \in RuleResults(Applicable(Loaded(file), e, c), c.text)}

\* "assert governance survived the boundary": when --assert-guard-set finds the set
\* intact, every call fares as it would have at the snapshot.  The set does not
\* tell the publish commands, the switches of single rules, the tools that the hook
\* is registered for (the same all along here), nor, where the plugin's directory is
\* unknown, whether it is.
DriftIsSeen ==
  GuardSetIntact
    /\ Loaded(guards).publish = Loaded(baseline.file).publish
    /\ env.vars = baseline.env.vars /\ (env.root \/ wired = baseline.wired)
    => \A c \in Calls, out \in Outages :
         Outcomes(guards, env, wired, repo, out, c)
           = Outcomes(baseline.file, baseline.env, baseline.wired, repo, out, c)
=============================================================================
