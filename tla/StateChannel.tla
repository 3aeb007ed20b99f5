---------------------------- MODULE StateChannel ----------------------------
(***************************************************************************)
(* The channel on which the states of agent runs reach the people watching *)
(* them: the WebSocket handlers and the publisher of agentStateChannel,    *)
(* the topic of a run, and the parsers on both sides of the wire.          *)
(*                                                                         *)
(* The server object (subscriptions, publish), the credential check and    *)
(* the viewer's program are not in the code: publish drops or queues a     *)
(* frame for each subscriber by itself, a connection delivers what it      *)
(* queued in order, and a viewer shows the last frame it could parse and   *)
(* compares sequence numbers, which is what state-frame.ts provides them   *)
(* for.  A value on the wire is a tagged tuple; a string is empty or one   *)
(* of a few, and a number an integer, a fraction or NaN.                   *)
(***************************************************************************)
EXTENDS Integers, Sequences, FiniteSets, Functions

CONSTANTS Viewer,       \* connections
          Namespace,
          RunId,
          Scripts,      \* what a run may announce: sequences of times and states
          Message,      \* what a viewer's program may send
          MaxTotal,     \* bound: frames announced in all
          MaxSent,      \* bound: messages a viewer sends
          None, Rejected

Text(s) == <<"string", s>>
Number(n) == <<"number", n>>
Fraction == <<"fraction">>
NaN == <<"nan">>
Bool(b) == <<"boolean", b>>
List(s) == <<"list", s>>
Undefined == <<"undefined">>
Null == <<"null">>
Malformed == <<"malformed">>
Untold == {Undefined, Null}

\* parseToolName, parseRunId and Date.parse on the strings used here.
ToolNames == {"kb_search", "send_mail"}
BadStamps == {Text(""), Text("yesterday")}

\* Fault: the topic of a run is the same for every tenant.
TopicOfRunId(namespace, runId) == <<"run", runId>>

\* No part of a topic can hold its delimiter, so that it is as good as a pair.
TopicForRun(namespace, runId) == <<namespace, runId>>

-----------------------------------------------------------------------------
(* The wire.                                                               *)

\* JSON.stringify of a flat object: undefined is left out, NaN becomes null.
Stringify(object) ==
    [f \in {g \in DOMAIN object : object[g] # Undefined} |->
        IF object[f] = NaN THEN Null ELSE object[f]]

FrameToWire(frame) == [frame EXCEPT !.state = Stringify(frame.state)]

Field(object, f) == IF f \in DOMAIN object THEN object[f] ELSE Undefined

IsOk(reader, v) ==
    CASE reader = "string"  -> v[1] = "string" /\ v # Text("")
      [] reader = "tool"    -> v[1] = "string" /\ v[2] \in ToolNames
      [] reader = "count"   -> v[1] = "number" /\ v[2] >= 0
      [] reader = "boolean" -> v[1] = "boolean"
      [] reader = "strings" -> v[1] = "list" /\ \A i \in DOMAIN v[2] : v[2][i] # ""

\* Fault: an optional field that is malformed reads as one that is not set.
ReadLeniently(reader, optional, v) ==
    CASE optional /\ ~IsOk(reader, v) -> Undefined
      [] IsOk(reader, v)              -> v
      [] OTHER                        -> Malformed

\* The readers of wire-value.ts; absent and null both read as undefined.
Read(reader, optional, v) ==
    CASE optional /\ v \in Untold -> Undefined
      [] IsOk(reader, v)          -> v
      [] OTHER                    -> Malformed

\* What each state has to tell, and the reader of each field.
Parsers ==
    [queued     |-> [position |-> "count", expectedStartAt |-> "string"],
     thinking   |-> [objective |-> "string"],
     acting     |-> [tool |-> "tool", subject |-> "string", scope |-> "string"],
     awaiting   |-> [onApproval |-> "string", onRejection |-> "string", decideBy |-> "string"],
     streaming  |-> [partial |-> "string"],
     recovering |-> [attempt |-> "count", ofAttempts |-> "count", costReincurred |-> "boolean"],
     failed     |-> [whatFailed |-> "string", atStep |-> "string",
                     alreadyCommitted |-> "strings", nextAction |-> "string"]]

Optional == {"position", "expectedStartAt", "decideBy"}

\* The type AgentState, which every announced state of a known kind has: all its
\* fields, and only an optional one may be undefined.
Tags ==
    [string |-> {"string"}, tool |-> {"string"}, count |-> {"number", "fraction", "nan"},
     boolean |-> {"boolean"}, strings |-> {"list"}]

IsAgentState(state) ==
    LET kind == state["kind"][2] IN
    /\ state = [f \in DOMAIN state |-> state[f]]
    /\ state["kind"] = Text(kind)
    /\ kind \in DOMAIN Parsers =>
          /\ DOMAIN state = {"kind"} \cup DOMAIN Parsers[kind]
          /\ \A f \in DOMAIN Parsers[kind] :
                \/ state[f][1] \in Tags[Parsers[kind][f]]
                \/ f \in Optional /\ state[f] = Undefined

ASSUME ChannelAssumption ==
    /\ MaxSent \in Nat /\ MaxTotal \in Nat /\ None \notin Namespace
    /\ \A script \in Scripts :
          /\ script \in Seq(Range(script))
          /\ \A i \in DOMAIN script : IsAgentState(script[i].state)

ParseFields(kind, wire) ==
    [f \in DOMAIN Parsers[kind] |-> Read(Parsers[kind][f], f \in Optional, Field(wire, f))]

ParseAgentState(wire) ==
    LET kind == Field(wire, "kind")[2] IN
    IF Field(wire, "kind")[1] # "string" \/ kind \notin DOMAIN Parsers THEN Rejected
    ELSE LET fields == ParseFields(kind, wire)
             read   == [f \in DOMAIN fields \cup {"kind"} |->
                          IF f = "kind" THEN Text(kind) ELSE fields[f]]
         IN IF \/ \E f \in DOMAIN fields : fields[f] = Malformed
               \/ kind = "queued" /\ \A f \in DOMAIN fields : fields[f] = Undefined
              THEN Rejected
              ELSE read

ParseStateFrame(wire) ==
    LET state == ParseAgentState(wire.state) IN
    IF wire.runId \in RunId /\ wire.sequence >= 0 /\ wire.at \notin BadStamps /\ state # Rejected
      THEN [wire EXCEPT !.state = state]
      ELSE Rejected

\* A message is not text, or it is text that is not a JSON object, or one with
\* a verb and a run id that may each be missing or wrong.
ParseViewerRequest(message) ==
    IF message.json /\ message.kind \in {"watch", "unwatch"} /\ message.runId \in RunId
      THEN [kind |-> message.kind, runId |-> message.runId]
      ELSE Rejected
-----------------------------------------------------------------------------
VARIABLES conn,        \* none, open, or the code it was refused or closed with
          data,        \* ws.data: the namespace the connection was admitted for
          topics,      \* the server's subscriptions
          inbox,       \* messages on their way to the server
          outbox,      \* frames queued on a connection
          announced,   \* by tenant and run: what was announced, in order
          shown,       \* by connection and run: the frame the viewer last rendered
          noticed,     \* the runs a viewer noticed a gap in
          asked,       \* history: the requests of each viewer, in order
          rendered     \* history: all the frames a viewer rendered

vars == <<conn, data, topics, inbox, outbox, announced, shown, noticed, asked, rendered>>
viewerVars == <<shown, noticed, rendered>>

Init ==
    /\ conn = [v \in Viewer |-> "none"]
    /\ data = [v \in Viewer |-> None]
    /\ topics = [v \in Viewer |-> {}]
    /\ inbox = [v \in Viewer |-> <<>>]
    /\ outbox = [v \in Viewer |-> <<>>]
    /\ announced = [n \in Namespace |-> [r \in RunId |-> <<>>]]
    /\ shown = [v \in Viewer |-> [r \in RunId |-> None]]
    /\ noticed = [v \in Viewer |-> {}]
    /\ asked = [v \in Viewer |-> <<>>]
    /\ rendered = [v \in Viewer |-> {}]

\* upgrade: refused without a namespace, and when it is no WebSocket request.
Upgrade(v, admitted, isUpgrade) ==
    /\ conn[v] = "none"
    /\ conn' = [conn EXCEPT ![v] = IF admitted = None THEN "401"
                                   ELSE IF isUpgrade THEN "open" ELSE "400"]
    /\ data' = [data EXCEPT ![v] = IF isUpgrade THEN admitted ELSE None]
    /\ UNCHANGED <<topics, inbox, outbox, announced, asked, viewerVars>>

\* The viewer's program sends a message.
Send(v, message) ==
    /\ conn[v] = "open"
    /\ Len(asked[v]) < MaxSent
    /\ inbox' = [inbox EXCEPT ![v] = Append(@, message)]
    /\ asked' = [asked EXCEPT ![v] = Append(@, message)]
    /\ UNCHANGED <<conn, data, topics, outbox, announced, viewerVars>>

\* A closed connection hears nothing more, and what it had queued may be lost.
Closed(v, code) ==
    /\ conn' = [conn EXCEPT ![v] = code]
    /\ topics' = [topics EXCEPT ![v] = {}]
    /\ inbox' = [inbox EXCEPT ![v] = <<>>]
    /\ outbox' = [outbox EXCEPT ![v] = <<>>]

Subscribed(v, request) ==
    LET topic == TopicForRun(data[v], request.runId) IN
    /\ topics' = [topics EXCEPT ![v] = IF request.kind = "watch" THEN @ \cup {topic} ELSE @ \ {topic}]
    /\ inbox' = [inbox EXCEPT ![v] = Tail(@)]
    /\ UNCHANGED <<conn, outbox>>

\* Fault: a request that cannot be read is dropped and the connection kept.
HandleQuietly(v) ==
    /\ conn[v] = "open" /\ inbox[v] # <<>>
    /\ LET request == ParseViewerRequest(Head(inbox[v])) IN
         IF request = Rejected
           THEN inbox' = [inbox EXCEPT ![v] = Tail(@)] /\ UNCHANGED <<conn, topics, outbox>>
           ELSE Subscribed(v, request)
    /\ UNCHANGED <<data, announced, asked, viewerVars>>

\* The message handler.
Handle(v) ==
    /\ conn[v] = "open" /\ inbox[v] # <<>>
    /\ LET message == Head(inbox[v])
           request == ParseViewerRequest(message)
       IN  CASE ~message.text      -> Closed(v, "1003")
             [] message.text /\ request = Rejected -> Closed(v, "1008")
             [] OTHER              -> Subscribed(v, request)
    /\ UNCHANGED <<data, announced, asked, viewerVars>>

\* Frames announced in all, which MaxTotal bounds.
Total == FoldFunction(+, 0, [p \in Namespace \X RunId |-> Len(announced[p[1]][p[2]])])

Begins(s, script) == Len(s) < Len(script) /\ s = SubSeq(script, 1, Len(s))

Said(frames) == [i \in DOMAIN frames |-> [at |-> frames[i].at, state |-> frames[i].state]]

\* announce: for each subscriber the frame is queued or dropped; whether it was
\* is not looked at.
Announce(n, r, script) ==
    LET past  == announced[n][r]
        next  == script[Len(past) + 1]
        frame == [runId |-> r, sequence |-> Len(past) + 1, at |-> next.at, state |-> next.state]
        heard == {v \in Viewer : TopicForRun(n, r) \in topics[v]}
    IN  /\ Begins(Said(past), script)
        /\ Total < MaxTotal
        /\ announced' = [announced EXCEPT ![n][r] = Append(@, frame)]
        /\ \E queued \in SUBSET heard :
             outbox' = [v \in Viewer |-> IF v \in queued THEN Append(outbox[v], FrameToWire(frame))
                                         ELSE outbox[v]]
        /\ UNCHANGED <<conn, data, topics, inbox, asked, viewerVars>>

\* The viewer receives a frame.
Receive(v) ==
    /\ conn[v] = "open" /\ outbox[v] # <<>>
    /\ outbox' = [outbox EXCEPT ![v] = Tail(@)]
    /\ LET frame == ParseStateFrame(Head(outbox[v])) IN
         IF frame = Rejected THEN UNCHANGED viewerVars
         ELSE LET last == shown[v][frame.runId] IN
              /\ shown' = [shown EXCEPT ![v][frame.runId] = frame]
              /\ rendered' = [rendered EXCEPT ![v] = @ \cup {frame}]
              /\ noticed' = IF last # None /\ frame.sequence # last.sequence + 1
                              THEN [noticed EXCEPT ![v] = @ \cup {frame.runId}]
                              ELSE noticed
    /\ UNCHANGED <<conn, data, topics, inbox, announced, asked>>

Disconnect(v) ==
    /\ conn[v] = "open"
    /\ Closed(v, "gone")
    /\ UNCHANGED <<data, announced, asked, viewerVars>>

Next ==
    \/ \E v \in Viewer :
          \/ \E n \in Namespace \cup {None}, isUpgrade \in BOOLEAN : Upgrade(v, n, isUpgrade)
          \/ \E message \in Message : Send(v, message)
          \/ Handle(v) \/ Receive(v) \/ Disconnect(v)
    \/ \E n \in Namespace, r \in RunId, script \in Scripts : Announce(n, r, script)

Spec == Init /\ [][Next]_vars
-----------------------------------------------------------------------------
TypeOK ==
    /\ conn \in [Viewer -> {"none", "open", "400", "401", "1003", "1008", "gone"}]
    /\ data \in [Viewer -> Namespace \cup {None}]
    /\ \A v \in Viewer : /\ topics[v] \subseteq {TopicForRun(n, r) : n \in Namespace, r \in RunId}
                         /\ noticed[v] \subseteq RunId
                         /\ conn[v] # "open" => topics[v] = {} /\ inbox[v] = <<>> /\ outbox[v] = <<>>
                         /\ Len(asked[v]) <= MaxSent
    /\ \A n \in Namespace, r \in RunId :
          \A i \in DOMAIN announced[n][r] : announced[n][r][i].runId = r /\ announced[n][r][i].sequence = i

\* A viewer renders frames of runs it asked for, and of its own tenant's runs
\* only, even when another tenant has a run of the same id (state-topic.ts).
ViewersSeeTheirOwnRuns ==
    \A v \in Viewer : \A frame \in rendered[v] :
        /\ \E i \in DOMAIN asked[v] :
              ParseViewerRequest(asked[v][i]) = [kind |-> "watch", runId |-> frame.runId]
        /\ frame.sequence \in DOMAIN announced[data[v]][frame.runId]
        /\ frame.at = announced[data[v]][frame.runId][frame.sequence].at

\* A state as it arrives: as it was announced, or a queue position that is not a
\* number as one that is not set, beside a start time.
Arrives(got, sent) ==
    \/ got = sent
    \/ /\ sent["kind"] = Text("queued") /\ sent["position"] = NaN
       /\ got = [sent EXCEPT !["position"] = Undefined]
       /\ got["expectedStartAt"] # Undefined

\* A frame is rendered as it was announced or it is not rendered: no field is
\* lost, altered or made up on the wire.  The one exception is a queue position
\* that is not a number, which JSON has no form for: it arrives as not set, and
\* only beside a start time (wire-value.ts, state-frame.ts).
FramesArriveAsAnnounced ==
    \A v \in Viewer : \A frame \in rendered[v] :
        Arrives(frame.state, announced[data[v]][frame.runId][frame.sequence].state)

\* A viewer is never left to believe that it watches what it does not: once its
\* messages are handled, an open connection hears exactly the runs its last
\* requests name, and it has sent nothing the server could not read
\* (agent-state-channel.ts:40-46).
NoRequestIsDroppedInSilence ==
    \A v \in Viewer :
        LET requests == [i \in DOMAIN asked[v] |-> ParseViewerRequest(asked[v][i])]
            about(r) == {i \in DOMAIN requests : requests[i] # Rejected /\ requests[i].runId = r}
        IN  conn[v] = "open" /\ inbox[v] = <<>> =>
              /\ \A i \in DOMAIN requests : requests[i] # Rejected
              /\ topics[v] = {TopicForRun(data[v], r) : r \in
                    {s \in RunId : \E i \in about(s) : /\ requests[i].kind = "watch"
                                                       /\ \A j \in about(s) : j <= i}}
=============================================================================
