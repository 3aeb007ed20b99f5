------------------------------- MODULE Toolbox -------------------------------
(***************************************************************************)
(* The tools an agent acts with, and their composition: reading and        *)
(* writing files of the tenant's workspace, fetching a URL, rendering a    *)
(* page in a browser behind a proxy, and running a program in a sandbox.   *)
(* Calls of several runs and tenants interleave at every await.            *)
(*                                                                         *)
(* Not in the code and modelled from its use: DNS, the hosts and their     *)
(* redirects, the pages, the programs, docker and the file system.  A URL  *)
(* is its host and whether it parses, has a permitted scheme and carries   *)
(* no credentials.  A path is the sequence of what it is split into, and   *)
(* each of these segments the sequence of names it holds once decoded:     *)
(* more than one, when what it decodes to has separators of its own.       *)
(* `did', what a call did outside the process, `requests' and `reached',   *)
(* the hosts it and its page sent requests to, and `lookups' and `program' *)
(* are history.                                                            *)
(***************************************************************************)
EXTENDS Integers, SequencesExt, FiniteSets

CONSTANTS Call, Namespace, Host,
          Policies,      \* the hosts each tenant with an entry is allowed
          Paths,         \* paths of a permitted shape, or Nothing
          Urls,          \* what a model or a page gives as a URL, or Nothing
          Contents,      \* what files hold
          Oversized,     \* the contents too long to write
          MaxRedirects,
          Nothing

Url == [host : Host, wellFormed : BOOLEAN]

ASSUME ToolboxAssumption ==
    /\ MaxRedirects \in Nat
    /\ Namespace \subseteq STRING \ {"", ".", ".."} /\ DOMAIN Policies \subseteq Namespace
    /\ Oversized \subseteq Contents
    /\ \A url \in Urls : url = Nothing \/ url \in Url
    /\ \A path \in Paths : path = Nothing \/ path \in Seq(Seq(STRING))

\* How a program in the sandbox may end.
Programs == [killedFor : {"none", "time", "output"}, printed : {"little", "much"},
             started : BOOLEAN, looksLikeDocker : BOOLEAN]

\* The sandbox of the browser is always a shared kernel.
SandboxDecision(isolation, devMode) == isolation = "microvm" \/ devMode

Offers(settings) ==
    {"read_file", "write_file", "fetch_url"}
    \cup (IF SandboxDecision(settings.isolation, settings.devMode) THEN {"run_shell"} ELSE {})
    \cup (IF SandboxDecision("shared-kernel", settings.devMode) THEN {"render_page"} ELSE {})

EgressFor(namespace) == IF namespace \in DOMAIN Policies THEN Policies[namespace] ELSE {}

PermitHost(url, namespace) == url.wellFormed /\ url.host \in EgressFor(namespace)

Climbs == <<<<"..">>>>

\* A segment is judged as a whole, also one that holds several names.
Entering(done, segment) ==
    IF done = Climbs \/ segment \in {<<"">>, <<".">>} THEN done
    ELSE IF segment # <<"..">> THEN Append(done, segment)
    ELSE IF done = <<>> THEN Climbs ELSE Front(done)

\* Segments resolved one after the other; Climbs once they leave the root.
Resolve(segments) == FoldLeft(Entering, <<>>, segments)

\* The names of segments, one after the other.
Joined(segments) == FoldLeft(\o, <<>>, segments)

\* Fault: only a path that starts by climbing is refused, and none is resolved.
SafePathUnresolved(namespace, path) ==
    IF path = <<>> \/ Head(path) = <<"..">> THEN Nothing ELSE <<namespace>> \o Joined(path)

\* safePath below the tenant's workspaceRoot: Nothing when the path is empty or climbs out.
SafePath(namespace, path) ==
    IF Resolve(path) \in {Climbs, <<>>} THEN Nothing ELSE <<namespace>> \o Joined(Resolve(path))

Walking(place, name) ==
    IF name \in {"", "."} THEN place
    ELSE IF name = ".." /\ place # <<>> /\ Last(place) # ".." THEN Front(place)
    ELSE Append(place, name)

\* What the file system makes of names below the base directory, name by name; a
\* place that begins with ".." is outside of it.
Place(names) == FoldLeft(Walking, <<>>, names)

\* The directories on the way.
Parents(names) == {Place(SubSeq(names, 1, i)) : i \in 1 .. Len(names) - 1}

\* What DockerCodeExecutor.execute answers once the child has exited.
Execute(program) ==
    CASE program.printed = "much"                       -> "output-too-large"
      [] program.printed = "little" /\ program.killedFor # "none" -> "timed-out"
      [] program.printed = "little" /\ program.killedFor = "none"
         /\ (~program.started \/ program.looksLikeDocker) -> "sandbox-unavailable"
      [] OTHER                                          -> "ok"

\* maxBuffer kills what prints too much, and what docker did not start printed nothing.
CanHappen(program) ==
    /\ program.killedFor = "output" => program.printed = "much"
    /\ ~program.started => program.printed = "little" /\ program.killedFor = "none"
    /\ program.looksLikeDocker => program.printed = "little" /\ program.killedFor = "none"
-----------------------------------------------------------------------------
VARIABLES settings,   \* what the process was composed with
          disk,       \* files by place, in a workspace the tenant's namespace being the first name
          dirs,       \* directories
          calls       \* the tool calls

toolVars == <<settings, disk, dirs, calls>>

Idle == [phase |-> "idle", tool |-> Nothing, namespace |-> Nothing, path |-> Nothing,
         target |-> Nothing, contents |-> Nothing, hop |-> 0, pending |-> {}, refused |-> {},
         lookups |-> {}, requests |-> <<>>, reached |-> {}, did |-> {}, program |-> Nothing,
         result |-> Nothing]

ToolsInit ==
    /\ settings \in [isolation : {"microvm", "shared-kernel"}, devMode : BOOLEAN]
    /\ disk = [p \in {} |-> Nothing]
    /\ dirs = {}
    /\ calls = [c \in Call |-> Idle]

Moved(c, call) == calls' = [calls EXCEPT ![c] = call]

Ended(call, kind, committed) ==
    [call EXCEPT !.phase = "done", !.result = [kind |-> kind, committed |-> committed]]

Acted(call, committed) == Ended(call, "acted", committed)
Invalid(call) == Ended(call, "invalid-arguments", {})
Failed(call) == Ended(call, "execution-failed", {})
\* An exception nothing in the tool catches.
Threw(call) == Ended(call, "threw", {})

Called(c, tool, n, target) ==
    [calls[c] EXCEPT !.tool = tool, !.namespace = n, !.target = target]

Calls(c, tool) == calls[c].phase = "idle" /\ tool \in Offers(settings)

\* The tools that take a URL resolve it only when its host is allowed.
Asked(call, url) ==
    IF url # Nothing /\ PermitHost(url, call.namespace) THEN [call EXCEPT !.phase = "lookup"]
                                                      ELSE Invalid(call)

CallFetch(c, n, url) ==
    /\ Calls(c, "fetch_url")
    /\ Moved(c, Asked(Called(c, "fetch_url", n, url), url))
    /\ UNCHANGED <<settings, disk, dirs>>

CallRender(c, n, url) ==
    /\ Calls(c, "render_page")
    /\ Moved(c, Asked(Called(c, "render_page", n, url), url))
    /\ UNCHANGED <<settings, disk, dirs>>

\* With a public address the request of a fetch leaves in the same step.
Proceeds(call, host) ==
    IF call.tool = "fetch_url"
      THEN [call EXCEPT !.phase = "sent", !.requests = Append(@, host)]
      ELSE [call EXCEPT !.phase = "rendering", !.did = {<<"rendered", host>>}]

\* dns.lookup answers with an address, a public one or not, or with none.
Lookup(c, answer) ==
    LET host == calls[c].target.host
        call == [calls[c] EXCEPT !.lookups = @ \cup {host}]
    IN  /\ calls[c].phase = "lookup"
        /\ Moved(c, CASE answer = "none"    -> Failed(call)
                      [] answer = "private" -> Invalid(call)
                      [] answer = "public"  -> Proceeds(call, host))
        /\ UNCHANGED <<settings, disk, dirs>>

\* The request fails or runs into its timeout, or, as an exception, its body does.
FetchFails(c) ==
    /\ calls[c].phase = "sent"
    /\ \/ Moved(c, Failed(calls[c]))
       \/ Moved(c, Threw(calls[c]))
    /\ UNCHANGED <<settings, disk, dirs>>

\* The call goes on to a redirect's target.
Hopped(call, url) == [call EXCEPT !.target = url, !.hop = @ + 1]

\* Fault: the next hop is not put to the policy.
RedirectUnchecked(c, url) ==
    LET call == calls[c] IN
    /\ call.phase = "sent"
    /\ Moved(c, IF url = Nothing THEN Threw(call)
                ELSE IF call.hop = MaxRedirects THEN Failed(call)
                ELSE [Hopped(call, url) EXCEPT !.phase = "lookup"])
    /\ UNCHANGED <<settings, disk, dirs>>

\* A redirect: an unparseable location throws, and one hop too many fails.
Redirect(c, url) ==
    LET call == calls[c] IN
    /\ call.phase = "sent"
    /\ Moved(c, IF url = Nothing THEN Threw(call)
                ELSE IF call.hop = MaxRedirects THEN Failed(call)
                ELSE Asked(Hopped(call, url), url))
    /\ UNCHANGED <<settings, disk, dirs>>

\* Fault: the receipt names the host the model asked for.
BodyOfFirst(c) ==
    /\ calls[c].phase = "sent"
    /\ Moved(c, Acted(calls[c], {<<"requested", Head(calls[c].requests)>>}))
    /\ UNCHANGED <<settings, disk, dirs>>

Body(c) ==
    /\ calls[c].phase = "sent"
    /\ Moved(c, Acted(calls[c], {<<"requested", calls[c].target.host>>}))
    /\ UNCHANGED <<settings, disk, dirs>>
-----------------------------------------------------------------------------
(* The browser: every request of the page is one of its proxy.             *)

PageRequests(c, url) ==
    LET call == calls[c] IN
    /\ call.phase = "rendering"
    /\ Moved(c, IF PermitHost(url, call.namespace)
                  THEN [call EXCEPT !.pending = @ \cup {url.host}]
                  ELSE [call EXCEPT !.refused = @ \cup {url.host}])
    /\ UNCHANGED <<settings, disk, dirs>>

\* The lookup of a page's request may be answered when the call is over.
ProxyForwards(c, host, answer) ==
    LET call == [calls[c] EXCEPT !.pending = @ \ {host}, !.lookups = @ \cup {host}] IN
    /\ host \in calls[c].pending
    /\ Moved(c, CASE answer = "public"  -> [call EXCEPT !.reached = @ \cup {host}]
                  [] answer = "private" -> [call EXCEPT !.refused = @ \cup {host}]
                  [] answer = "none"    -> call)
    /\ UNCHANGED <<settings, disk, dirs>>

\* The browser ends or is killed, or, as an exception, docker cannot be spawned.
RenderEnds(c) ==
    LET call == calls[c] IN
    /\ call.phase = "rendering"
    /\ \/ Moved(c, Failed(call))
       \/ Moved(c, Threw(call))
       \/ Moved(c, Acted(call, {<<"rendered", call.target.host>>} \cup
                      (IF call.refused = {} THEN {} ELSE {<<"refused", Cardinality(call.refused)>>})))
    /\ UNCHANGED <<settings, disk, dirs>>
-----------------------------------------------------------------------------
CallShell(c, n, valid) ==
    LET call == Called(c, "run_shell", n, Nothing) IN
    /\ Calls(c, "run_shell")
    /\ Moved(c, IF valid THEN [call EXCEPT !.phase = "running"] ELSE Invalid(call))
    /\ UNCHANGED <<settings, disk, dirs>>

\* The program ends, or, as an exception, its source cannot be piped to it.
ProgramEnds(c, program) ==
    LET outcome == Execute(program)
        ran     == {<<"ran", "program">>}
        begun   == [calls[c] EXCEPT !.did = IF program.started THEN ran ELSE {}]
        call    == [begun EXCEPT !.program = program]
    IN  /\ calls[c].phase = "running" /\ CanHappen(program)
        /\ \/ Moved(c, IF outcome = "ok" THEN Acted(call, ran) ELSE Ended(call, outcome, {}))
           \/ Moved(c, Threw(begun))
        /\ UNCHANGED <<settings, disk, dirs>>
-----------------------------------------------------------------------------
\* A file tool is called with a path, which is resolved first.
AtPath(c, tool, n, path) ==
    [Called(c, tool, n, IF path = Nothing THEN Nothing ELSE SafePath(n, path))
        EXCEPT !.path = path]

IsDirectory(place) == place \in dirs \/ ToSet(place) \subseteq {".."}

CallRead(c, n, path) ==
    LET call == AtPath(c, "read_file", n, path) IN
    /\ Calls(c, "read_file")
    /\ Moved(c, IF call.target = Nothing THEN Invalid(call) ELSE [call EXCEPT !.phase = "exists"])
    /\ UNCHANGED <<settings, disk, dirs>>

IsFile(names) ==
    Place(names) \in DOMAIN disk /\ \A parent \in Parents(names) : IsDirectory(parent)

\* Whether there is a file, and then what it holds.
Exists(c) ==
    LET call == calls[c] IN
    /\ call.phase = "exists"
    /\ Moved(c, IF IsFile(call.target) THEN [call EXCEPT !.phase = "reading"] ELSE Acted(call, {}))
    /\ UNCHANGED <<settings, disk, dirs>>

ReadText(c) ==
    /\ calls[c].phase = "reading"
    /\ Moved(c, [Acted(calls[c], {}) EXCEPT !.contents = disk[Place(calls[c].target)]])
    /\ UNCHANGED <<settings, disk, dirs>>

CallWrite(c, n, path, contents) ==
    LET call == [AtPath(c, "write_file", n, path) EXCEPT !.contents = contents] IN
    /\ Calls(c, "write_file")
    /\ Moved(c, IF call.target = Nothing \/ contents \in Oversized
                  THEN Invalid(call)
                  ELSE [call EXCEPT !.phase = "mkdir"])
    /\ UNCHANGED <<settings, disk, dirs>>

\* mkdir of the parent: an exception when a file is in the way.
MakeParents(c) ==
    LET parents == Parents(calls[c].target) IN
    /\ calls[c].phase = "mkdir"
    /\ IF parents \cap DOMAIN disk # {}
         THEN Moved(c, Threw(calls[c])) /\ UNCHANGED dirs
         ELSE Moved(c, [calls[c] EXCEPT !.phase = "writing"]) /\ dirs' = dirs \cup parents
    /\ UNCHANGED <<settings, disk>>

\* Bun.write: an exception when there is a directory of that name.
Write(c) ==
    LET call  == calls[c]
        place == Place(call.target)
    IN  /\ call.phase = "writing"
        /\ IF IsDirectory(place)
             THEN Moved(c, Threw(call)) /\ UNCHANGED disk
             ELSE /\ Moved(c, [Acted(call, {<<"wrote", call.path>>})
                                 EXCEPT !.did = {<<"wrote", place>>}])
                  /\ disk' = [p \in DOMAIN disk \cup {place} |->
                                IF p = place THEN call.contents ELSE disk[p]]
        /\ UNCHANGED <<settings, dirs>>
-----------------------------------------------------------------------------
Answers == {"public", "private", "none"}

ToolsNext ==
    \E c \in Call :
       \/ \E n \in Namespace, url \in Urls : CallFetch(c, n, url) \/ CallRender(c, n, url)
       \/ \E answer \in Answers : Lookup(c, answer) \/ \E h \in Host : ProxyForwards(c, h, answer)
       \/ \E url \in Urls : Redirect(c, url) \/ (url # Nothing /\ PageRequests(c, url))
       \/ FetchFails(c) \/ Body(c) \/ RenderEnds(c)
       \/ \E n \in Namespace, valid \in BOOLEAN : CallShell(c, n, valid)
       \/ \E program \in Programs : ProgramEnds(c, program)
       \/ \E n \in Namespace, path \in Paths :
             CallRead(c, n, path) \/ \E contents \in Contents : CallWrite(c, n, path, contents)
       \/ Exists(c) \/ ReadText(c) \/ MakeParents(c) \/ Write(c)

ToolsSpec == ToolsInit /\ [][ToolsNext]_toolVars
-----------------------------------------------------------------------------
\* Nothing is asked of a host, nor of DNS about one, that the tenant of the call
\* is not allowed, however the call came to it: by its argument, by a redirect,
\* or by what a page requests; and a fetch sends a bounded number of requests
\* (web-fetch-tool.ts, egress-proxy.ts).
OnlyAllowedHostsAreAsked ==
    \A c \in Call :
        LET call == calls[c] IN
        /\ call.lookups \cup call.reached \cup ToSet(call.requests) \subseteq EgressFor(call.namespace)
        /\ call.tool = "fetch_url" => Len(call.requests) <= MaxRedirects + 1

\* Every segment of a path holds one name.
Plain(path) == \A i \in DOMAIN path : Len(path[i]) = 1

\* The file a call is at is in its tenant's workspace.
AtHome(call) == Place(call.target) # <<>> /\ Place(call.target)[1] = call.namespace

\* A file changes only by a call that writes to where its path leads, and a call
\* whose path is plain writes and reads in the workspace of its tenant alone,
\* however the path climbs or aliases.  Of a path with a segment that decodes to
\* several names the second is not so, although the comment on safePath says of
\* every answer that it never rises above the root (workspace-path.ts:41-45): the
\* path is split before it is decoded, and such a segment is judged as one name
\* (workspace-path.ts:58-71).
WorkspacesAreSeparate ==
    [][/\ \A p \in DOMAIN disk' :
            p \notin DOMAIN disk \/ disk'[p] # disk[p] =>
               \E c \in Call : /\ calls[c].phase = "writing" /\ calls'[c].phase = "done"
                               /\ p = Place(calls[c].target)
                               /\ Plain(calls[c].path) => AtHome(calls[c])
       /\ \A c \in Call :
             calls[c].phase = "reading" /\ Plain(calls[c].path) => AtHome(calls[c])]_toolVars

\* What was done by what a receipt says: of a write it names the path as it was
\* given (file-tools.ts:144), which is to say the place that the path leads to.
Told(namespace, committed) ==
    {IF d[1] = "wrote" THEN <<"wrote", Place(SafePath(namespace, d[2]))>> ELSE d : d \in committed}

\* What a receipt commits to was done, and of what was done to a file or with a
\* program, and of the request that was answered, nothing is left out; a call
\* that does not succeed has written nothing (tool.ts:21-32).
ReceiptIsTrue(call) ==
    LET found == {<<"refused", n>> : n \in 1 .. Cardinality(call.refused)}
        last  == IF call.tool = "fetch_url" /\ call.requests # <<>>
                   THEN {<<"requested", Last(call.requests)>>} ELSE {}
        told  == Told(call.namespace, call.result.committed)
    IN  call.phase = "done" =>
          IF call.result.kind = "acted"
            THEN told \subseteq call.did \cup found \cup last /\ call.did \cup last \subseteq told
            ELSE call.result.committed = {} /\ ~\E d \in call.did : d[1] = "wrote"

\* The limit a failed program is reported to have hit is the one it hit, and no
\* program's own answer is taken for docker's, nor docker's for a program's, but
\* for a program that exits and complains the way docker does
\* (docker-code-executor.ts:105-122).
TheLimitReportedIsTheOneHit(call) ==
    LET p == call.program
    IN  call.tool = "run_shell" /\ p # Nothing =>
          /\ call.result.kind = "output-too-large" <=> p.printed = "much"
          /\ call.result.kind = "timed-out" => p.killedFor = "time"
          /\ p.killedFor = "time" => call.result.kind \in {"timed-out", "output-too-large"}
          /\ call.result.kind = "acted" => p.started /\ p.killedFor = "none"
          /\ call.result.kind = "sandbox-unavailable" => ~p.started \/ p.looksLikeDocker

\* What a call reports, as a receipt or as a failure, is what happened.
ReportIsTrue ==
    \A c \in Call : ReceiptIsTrue(calls[c]) /\ TheLimitReportedIsTheOneHit(calls[c])
=============================================================================
