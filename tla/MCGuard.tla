------------------------------ MODULE MCGuard -------------------------------
(* Small instances of GuardEngine for TLC. *)
EXTENDS GuardEngine

CONSTANTS main, topic, v1, v2, origin, fork, npm, helm, bad, odd, fine, var

\* A clone with nothing unusual about it, and single settings that matter to a push.
Plain ==
  [head |-> topic, tags |-> {v1}, theirs |-> {}, tagged |-> {}, mode |-> "simple",
   upstream |-> [b \in Branch |-> b], pushes |-> [r \in Remote |-> {}], mirrors |-> {},
   remoteHead |-> [r \in Remote |-> IF r = origin THEN main ELSE topic], follow |-> FALSE,
   pushRemote |-> None, pushDefault |-> None, tracks |-> origin]

Ref(s) == [HeadItself EXCEPT !.src = s]
To(s, at, d) == [HeadItself EXCEPT !.src = s, !.at = at, !.dst = d]
Forced(r) == [r EXCEPT !.plus = TRUE]
Wild(k) == [HeadItself EXCEPT !.kind = k]

MCRepositories ==
  {[Plain EXCEPT !.theirs = {v1, v2}], [Plain EXCEPT !.tagged = {topic}],
   [Plain EXCEPT !.tagged = {topic}, !.follow = TRUE],
   [Plain EXCEPT !.tagged = {main, v1}, !.follow = TRUE],
   [Plain EXCEPT !.upstream = [b \in Branch |-> main], !.mode = "upstream"],
   [Plain EXCEPT !.upstream = [b \in Branch |-> None], !.mode = "upstream"],
   [Plain EXCEPT !.remoteHead[origin] = topic]}
    \cup {[Plain EXCEPT !.mode = m] : m \in PushDefault}
    \cup {[Plain EXCEPT !.head = None], [Plain EXCEPT !.head = None, !.tagged = {HEAD}, !.follow = TRUE]}
    \cup {[Plain EXCEPT !.pushes[origin] = {r}] :
            r \in {HeadTo(main), Forced(HeadItself), Wild("heads/*"), Ref(v1)}}
    \cup {[Plain EXCEPT !.mirrors = {origin}]}
    \cup {[g EXCEPT !.pushes[fork] = {HeadTo(main)}] :
            g \in {[Plain EXCEPT !.pushRemote = fork], [Plain EXCEPT !.pushDefault = fork],
                   [Plain EXCEPT !.tracks = fork]}}

PlainPush == [opts |-> {}, to |-> None, refs |-> {}, mode |-> None, hidden |-> None]

MCPushes ==
  {[PlainPush EXCEPT !.opts = o] : o \in {{x} : x \in PushOption} \cup {{}}}
    \cup {[PlainPush EXCEPT !.to = r] : r \in Remote}
    \cup {[PlainPush EXCEPT !.to = r, !.refs = {HeadTo(b)}] : r \in {Url, fork}, b \in {main, topic}}
    \cup {[PlainPush EXCEPT !.mode = m] : m \in {"matching", "simple"}}
    \cup {[PlainPush EXCEPT !.hidden = m] : m \in {"matching", "upstream"}}
    \cup {[PlainPush EXCEPT !.to = origin, !.refs = rs] :
            rs \in {{Ref(s)} : s \in {HEAD, main, topic, v1}}
                     \cup {{To(s, "bare", d)} : s \in {HEAD, v1, None}, d \in {main, v1, v2}}
                     \cup {{To(s, "heads", d)} : s \in {HEAD, v1}, d \in {main, topic}}
                     \cup {{To(s, "tags/", d)} : s \in {topic, v1}, d \in {v1, v2}}
                     \cup {{To(topic, "tags", v2)}, {Forced(Ref(topic))}, {Wild("heads/*")},
                           {Wild("tags/*")}, {Matching}, {Ref(topic), Ref(main)}}}
    \cup {[PlainPush EXCEPT !.to = origin, !.opts = {"--delete"}, !.refs = {Ref(s)}] :
            s \in {topic, v1, v2}}
    \cup {[PlainPush EXCEPT !.to = origin, !.opts = {"--follow-tags"}, !.refs = {r}] :
            r \in {Ref(topic), Ref(main), To(v1, "heads", topic), To(None, "bare", topic)}}

Bash(segs) == [tool |-> "Bash", text |-> fine, segs |-> segs, parses |-> TRUE]
PushSeg(p) == [kind |-> "push", push |-> p, depth |-> 0]
Other == [kind |-> "other", depth |-> 0]

MCCalls ==
  {Bash(<<PushSeg(p)>>) : p \in MCPushes}
    \cup {Bash(<<[kind |-> "gh", act |-> a, depth |-> 0]>>) : a \in GhAction}
    \cup {Bash(<<Other, [kind |-> "publish", cmd |-> c, dry |-> d, depth |-> 1]>>) :
            c \in Publisher, d \in BOOLEAN}
    \cup {Bash(<<[kind |-> "skip permissions", depth |-> d]>>) : d \in {0, MaxNestDepth, MaxNestDepth + 1}}
    \cup {Bash(<<[kind |-> "switch", branch |-> main, depth |-> 0], PushSeg(PlainPush)>>)}
    \cup {[Bash(<<PushSeg([PlainPush EXCEPT !.refs = {Ref(main)}])>>) EXCEPT !.text = t, !.parses = b] :
            t \in Text, b \in BOOLEAN}
    \cup {[tool |-> u, text |-> t, segs |-> <<Other>>, parses |-> TRUE] :
            u \in {"Write", "Task"}, t \in Text}

Empty == [disabled |-> {}, protected |-> {main}, publish |-> None, block |-> {}]
Forbid == [regex |-> FALSE, tools |-> {"Bash", "Task"}, bypass |-> None, hits |-> {bad}, slow |-> {}]
Pattern == [Forbid EXCEPT !.regex = TRUE, !.tools = {"Bash", "Write"}, !.bypass = var, !.slow = {odd}]

MCConfigs ==
  {[Empty EXCEPT !.disabled = d] :
     d \in {{"stop-force-push"}, {"stop-default-branch"}, {"stop-release"},
            {"stop-default-branch", "stop-release"}, {"stop-publish", SkipPermissions}}}
    \cup {[Empty EXCEPT !.protected = {topic}], [Empty EXCEPT !.publish = {helm}]}
    \cup {[Empty EXCEPT !.block = b] : b \in {{Forbid}, {Pattern}, {Forbid, Pattern}}}

Usual == [bypass |-> FALSE, off |-> FALSE, vars |-> {}, root |-> TRUE]
MCSessions ==
  {[env |-> e, wired |-> TRUE] :
     e \in {Usual, [Usual EXCEPT !.bypass = TRUE], [Usual EXCEPT !.off = TRUE],
            [Usual EXCEPT !.vars = {var}], [Usual EXCEPT !.root = FALSE]}}
    \cup {[env |-> e, wired |-> FALSE] : e \in {Usual, [Usual EXCEPT !.root = FALSE]}}

MCSnapshots == {Plain}

\* Any one query fails, or none, or those about the remote, or all.
MCOutages ==
  {{}, Query, {"head", "pushRemote", "pushDefault", "tracks", "remoteHead"}} \cup {{q} : q \in Query}
=============================================================================
