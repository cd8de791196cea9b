------------------------------ MODULE GitPush -------------------------------
(***************************************************************************)
(* Which refs of the remote a `git push` may write: git's own rules, which *)
(* scripts/stop_list.py predicts before the command runs.  External to the *)
(* repository.  A push that git refuses writes less than is said here.     *)
(***************************************************************************)

CONSTANTS
  Branch,   \* names of branches; each exists here and on the remote
  Tag,      \* names of tags
  Remote,   \* the remotes with a name
  Origin,   \* the one called origin
  Url,      \* the target of a push to a URL, which has no settings
  HEAD,     \* HEAD as a source
  None

ASSUME PushNames ==
  /\ Branch \cap Tag = {}
  /\ Origin \in Remote /\ Url \notin Remote
  /\ HEAD \notin Branch \cup Tag
  /\ None \notin Branch \cup Tag \cup Remote \cup {HEAD, Url}

Name == Branch \cup Tag

\* push.default; "tracking" is an old name of "upstream", "current" writes the
\* same as "simple".
PushDefault == {"simple", "upstream", "matching", "nothing"}

\* A refspec is a wildcard over branches or tags, the matching one (":"), or one
\* source with a destination: in full (or from heads/ on), in short ("bare"), from
\* tags/ on, or the source's own.  `tags/v1` alone is v1 to tags/v1.
Refspec ==
  {r \in [kind : {"heads/*", "tags/*", ":", "ref"}, src : Name \cup {HEAD, None},
          at : {"same", "bare", "heads", "tags", "tags/"}, dst : Name \cup {None}, plus : BOOLEAN] :
     (r.at = "same" <=> r.dst = None) /\ (r.src = None => r.dst # None)}

HeadItself == [kind |-> "ref", src |-> HEAD, at |-> "same", dst |-> None, plus |-> FALSE]
HeadTo(b)  == [HeadItself EXCEPT !.at = "heads", !.dst = b]
Matching   == [HeadItself EXCEPT !.kind = ":"]

PushOption == {"--force", "--force-with-lease", "--tags", "--all", "--mirror", "--delete",
               "--follow-tags", "--no-follow-tags"}

\* A push: options, remote, refspecs, and push.default as `-c` sets it, or as
\* --config-env does from an environment variable.
Push == [opts : SUBSET PushOption, to : Remote \cup {Url, None}, refs : SUBSET Refspec,
         mode : PushDefault \cup {None}, hidden : PushDefault \cup {None}]

\* What a push depends on: the branch checked out (None: detached), the tags here
\* and on the remote, from where an annotated tag can be reached, and settings.
Repository ==
  [head : Branch \cup {None}, tags : SUBSET Tag, theirs : SUBSET Tag,
   tagged : SUBSET (Name \cup {HEAD}), mode : PushDefault,
   upstream : [Branch -> Branch \cup {None}], pushes : [Remote -> SUBSET Refspec],
   mirrors : SUBSET Remote, remoteHead : [Remote -> Branch \cup {None}], follow : BOOLEAN,
   pushRemote : Remote \cup {None}, pushDefault : Remote \cup {None},
   tracks : Remote \cup {None}]

RemoteOf(g, p) ==
  CASE p.to # None -> p.to
    [] p.to = None /\ g.head # None /\ g.pushRemote # None -> g.pushRemote
    [] p.to = None /\ (g.head = None \/ g.pushRemote = None) /\ g.pushDefault # None -> g.pushDefault
    [] OTHER -> IF g.head # None /\ g.tracks # None THEN g.tracks ELSE Origin

ModeOf(g, p) ==
  IF p.hidden # None THEN p.hidden ELSE IF p.mode # None THEN p.mode ELSE g.mode

\* The refspecs of a push that names none.
Implied(g, p) ==
  LET configured == IF RemoteOf(g, p) = Url THEN {} ELSE g.pushes[RemoteOf(g, p)]
      track == IF g.head = None THEN None ELSE g.upstream[g.head]
  IN IF configured # {} THEN configured
     ELSE CASE ModeOf(g, p) = "matching" -> {Matching}
            [] ModeOf(g, p) = "nothing" -> {}
            [] ModeOf(g, p) = "upstream" -> IF track = None THEN {} ELSE {HeadTo(track)}
            [] ModeOf(g, p) = "simple" -> {HeadItself}

NamesNothing(p) == p.refs = {} /\ p.opts \cap {"--tags", "--all", "--mirror", "--delete"} = {}

RefsOf(g, p) == IF NamesNothing(p) THEN Implied(g, p) ELSE p.refs

\* remote.<name>.mirror makes a plain push a mirror.
Mirrors(g, p) == "--mirror" \in p.opts \/ (p.refs = {} /\ RemoteOf(g, p) \in g.mirrors)

\* HEAD is the branch checked out.
SourceOf(g, r) == IF r.src = HEAD /\ g.head # None THEN g.head ELSE r.src

Heads(names) == [ns : {"heads"}, name : names]
Tags(names)  == [ns : {"tags"}, name : names]

\* A destination that is not in full is looked up on the remote; a new one gets the
\* kind of its source, so a branch to a new tags/x is a branch of that name, which
\* None stands for.  A source that does not exist, or a detached HEAD without a
\* destination, is refused.
Destination(g, p, r) ==
  LET src == SourceOf(g, r)
      known == src \in Branch \cup (IF "--delete" \in p.opts THEN g.theirs ELSE g.tags) \cup {HEAD, None}
  IN CASE ~known -> {}
       [] known /\ r.at = "heads" -> Heads({r.dst})
       [] known /\ r.at = "tags" -> Tags({r.dst})
       [] known /\ r.at = "same" ->
            IF src \in Branch THEN Heads({src}) ELSE IF src \in Tag THEN Tags({src}) ELSE {}
       [] known /\ r.at = "bare" ->
            IF r.dst \in Branch \/ (src \in Branch /\ r.dst \notin g.theirs) THEN Heads({r.dst})
            ELSE IF r.dst \in g.theirs \/ src \in Tag THEN Tags({r.dst}) ELSE {}
       [] known /\ r.at = "tags/" ->
            IF r.dst \in g.theirs \/ src \in Tag THEN Tags({r.dst})
            ELSE IF src \in Branch THEN Heads({None}) ELSE {}

Written(g, p, r) ==
  CASE r.kind \in {"heads/*", ":"} -> Heads(Branch)
    [] r.kind = "tags/*" -> Tags(g.tags)
    [] r.kind = "ref" -> Destination(g, p, r)

\* Annotated tags reachable from what is pushed go along.
Follows(g, p) ==
  /\ "--delete" \notin p.opts
  /\ "--follow-tags" \in p.opts \/ (g.follow /\ "--no-follow-tags" \notin p.opts)
  /\ \/ "--all" \in p.opts /\ g.tagged \cap Branch # {}
     \/ \E r \in RefsOf(g, p) :
          \/ r.kind \in {"heads/*", ":"} /\ g.tagged \cap Branch # {}
          \/ r.kind = "ref" /\ SourceOf(g, r) \in g.tagged

WritesTo(g, p) ==
  (UNION {Written(g, p, r) : r \in RefsOf(g, p)})
    \cup (IF "--all" \in p.opts \/ Mirrors(g, p) THEN Heads(Branch) ELSE {})
    \cup (IF "--tags" \in p.opts \/ Mirrors(g, p) THEN Tags(g.tags) ELSE {})
    \cup (IF Follows(g, p) THEN Tags({None}) ELSE {})

WritesByForce(g, p) ==
  \/ "--force" \in p.opts \/ Mirrors(g, p)
  \/ \E r \in RefsOf(g, p) : r.plus
=============================================================================
