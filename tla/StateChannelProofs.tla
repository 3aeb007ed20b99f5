------------------------- MODULE StateChannelProofs -------------------------
(***************************************************************************)
(* Viewers see runs of their own tenant that they asked for, each state as *)
(* it was announced, and are left in no doubt about what they watch, for   *)
(* any number of viewers, tenants, runs and requests, and whatever well    *)
(* typed states are announced.                                             *)
(*                                                                         *)
(* The argument: the requests of an open connection are handled in order,  *)
(* so that its subscriptions are what the last request for each run says;  *)
(* a frame is queued for subscribers only, and the tenant of a connection  *)
(* does not change while it is open.  A field that the parser on the other *)
(* side accepts is the one that was written, field by field, from which    *)
(* the round trip of a whole state follows.                                *)
(***************************************************************************)
EXTENDS StateChannel, SequenceTheorems, TLAPS

\* The frames that may be announced, and what is sent of them.
Frames == {[runId |-> r, sequence |-> k, at |-> script[i].at, state |-> script[i].state] :
              r \in RunId, k \in Nat, script \in Scripts, i \in Nat}

Wires == {FrameToWire(f) : f \in Frames}

\* The last of the first p of some messages that is about a run asks to watch it.
Watches(messages, p, r) ==
    \E i \in 1 .. p :
        /\ ParseViewerRequest(messages[i]) = [kind |-> "watch", runId |-> r]
        /\ \A j \in 1 .. p :
              /\ ParseViewerRequest(messages[j]) # Rejected
              /\ ParseViewerRequest(messages[j]).runId = r
              => j <= i

AskedFor(messages, r) ==
    \E i \in DOMAIN messages : ParseViewerRequest(messages[i]) = [kind |-> "watch", runId |-> r]

\* What is so of one connection: its state, ...
Codes == {"none", "open", "400", "401", "1003", "1008", "gone"}

Sound(code, n, subscribed, in, out, said, seen) ==
    /\ code \in Codes /\ n \in Namespace \cup {None}
    /\ in \in Seq(Message) /\ said \in Seq(Message) /\ out \in Seq(Wires)
    /\ Len(said) <= MaxSent
    /\ code = "open" => n \in Namespace
    /\ code # "open" => subscribed = {} /\ in = <<>> /\ out = <<>>
    /\ code = "none" => said = <<>>
    /\ n \notin Namespace \/ code = "none" => seen = {}

\* ... its subscriptions once all but the last messages, still in, are handled, ...
Heard(n, subscribed, in, said) ==
    LET p == Len(said) - Len(in) IN
    /\ p \in Nat
    /\ \A i \in 1 .. Len(in) : in[i] = said[p + i]
    /\ \A i \in 1 .. p : ParseViewerRequest(said[i]) # Rejected
    /\ subscribed \subseteq {TopicForRun(n, r) : r \in RunId}
    /\ \A r \in RunId : TopicForRun(n, r) \in subscribed <=> Watches(said, p, r)

\* ... and the frames on their way to it and rendered.
Queued(n, out, said, frames) ==
    \A i \in 1 .. Len(out) : \E r \in RunId :
        /\ AskedFor(said, r)
        /\ \E k \in DOMAIN frames[n][r] : out[i] = FrameToWire(frames[n][r][k])

Seen(n, seen, said, frames) ==
    \A frame \in seen :
        /\ AskedFor(said, frame.runId)
        /\ frame.runId \in RunId
        /\ frame.sequence \in DOMAIN frames[n][frame.runId]
        /\ frame.at = frames[n][frame.runId][frame.sequence].at
        /\ Arrives(frame.state, frames[n][frame.runId][frame.sequence].state)

\* Announcements are numbered as they are made.
Numbered(frames) ==
    /\ frames \in [Namespace -> [RunId -> Seq(Frames)]]
    /\ \A n \in Namespace, r \in RunId : \A k \in DOMAIN frames[n][r] :
          /\ frames[n][r][k].runId = r /\ frames[n][r][k].sequence = k
          /\ IsAgentState(frames[n][r][k].state)

ByViewer ==
    /\ conn = [v \in Viewer |-> conn[v]] /\ data = [v \in Viewer |-> data[v]]
    /\ topics = [v \in Viewer |-> topics[v]] /\ inbox = [v \in Viewer |-> inbox[v]]
    /\ outbox = [v \in Viewer |-> outbox[v]] /\ asked = [v \in Viewer |-> asked[v]]
    /\ rendered = [v \in Viewer |-> rendered[v]] /\ noticed \in [Viewer -> SUBSET RunId]

ViewerInv(v) ==
    /\ Sound(conn[v], data[v], topics[v], inbox[v], outbox[v], asked[v], rendered[v])
    /\ conn[v] = "open" => Heard(data[v], topics[v], inbox[v], asked[v])
    /\ Queued(data[v], outbox[v], asked[v], announced)
    /\ Seen(data[v], rendered[v], asked[v], announced)

IInv == Numbered(announced) /\ ByViewer /\ \A v \in Viewer : ViewerInv(v)
-----------------------------------------------------------------------------
\* What parseViewerRequest accepts is one of two verbs for a run.
LEMMA Parsed ==
    ASSUME NEW message, ParseViewerRequest(message) # Rejected
    PROVE  /\ ParseViewerRequest(message).runId \in RunId
           /\ ParseViewerRequest(message).kind \in {"watch", "unwatch"}
           /\ ParseViewerRequest(message) = [kind |-> ParseViewerRequest(message).kind,
                                             runId |-> ParseViewerRequest(message).runId]
BY DEF ParseViewerRequest

\* One more request decides for its own run and for no other.
LEMMA OneMore ==
    ASSUME NEW messages, NEW p \in Nat, NEW r \in RunId,
           ParseViewerRequest(messages[p + 1]) # Rejected
    PROVE  Watches(messages, p + 1, r) <=>
              IF ParseViewerRequest(messages[p + 1]).runId = r
                THEN ParseViewerRequest(messages[p + 1]).kind = "watch"
                ELSE Watches(messages, p, r)
<1> DEFINE q == ParseViewerRequest(messages[p + 1])
<1>1. q.kind \in {"watch", "unwatch"} /\ q = [kind |-> q.kind, runId |-> q.runId]
  BY Parsed
<1>2. 1 .. (p + 1) = (1 .. p) \cup {p + 1} /\ \A i \in 1 .. p : i < p + 1 /\ i <= p
  OBVIOUS
<1>3. \A i \in 1 .. p : i # p + 1 /\ ~(p + 1 <= i) /\ i <= p + 1
  OBVIOUS
<1>4. CASE q.runId = r
  <2>1. ASSUME Watches(messages, p + 1, r) PROVE q.kind = "watch"
    <3>1. PICK i \in 1 .. (p + 1) :
             /\ ParseViewerRequest(messages[i]) = [kind |-> "watch", runId |-> r]
             /\ p + 1 <= i
      BY <1>2, <1>4, <2>1 DEF Watches
    <3>2. i = p + 1
      BY <1>2, <1>3, <3>1
    <3> QED BY <3>1, <3>2
  <2>2. ASSUME q.kind = "watch" PROVE Watches(messages, p + 1, r)
    <3>1. q = [kind |-> "watch", runId |-> r] /\ p + 1 \in 1 .. (p + 1)
      BY <1>1, <1>4, <2>2
    <3>2. \A j \in 1 .. (p + 1) : j <= p + 1
      OBVIOUS
    <3> QED BY <3>1, <3>2 DEF Watches
  <2> QED BY <1>4, <2>1, <2>2
<1>5. CASE q.runId # r
  <2>1. q # [kind |-> "watch", runId |-> r]
    BY <1>5
  <2>2. ASSUME Watches(messages, p + 1, r) PROVE Watches(messages, p, r)
    BY <1>2, <2>1, <2>2 DEF Watches
  <2>3. ASSUME Watches(messages, p, r) PROVE Watches(messages, p + 1, r)
    BY <1>2, <1>5, <2>3 DEF Watches
  <2> QED BY <1>5, <2>2, <2>3
<1> QED BY <1>4, <1>5

\* A message more leaves what the earlier ones say.
LEMMA SaidMore ==
    ASSUME NEW said \in Seq(Message), NEW message \in Message
    PROVE  /\ Append(said, message) \in Seq(Message)
           /\ \A i \in 1 .. Len(said) : Append(said, message)[i] = said[i]
           /\ \A p \in 0 .. Len(said), r \in RunId :
                 Watches(Append(said, message), p, r) <=> Watches(said, p, r)
           /\ \A r : AskedFor(said, r) => AskedFor(Append(said, message), r)
<1> DEFINE more == Append(said, message)
<1>1. /\ more \in Seq(Message) /\ Len(more) = Len(said) + 1 /\ Len(said) \in Nat
      /\ \A i \in 1 .. Len(said) : more[i] = said[i]
      /\ DOMAIN said = 1 .. Len(said) /\ DOMAIN more = 1 .. Len(more)
  OBVIOUS
<1> HIDE DEF more
<1>2. ASSUME NEW p \in 0 .. Len(said), NEW r \in RunId
      PROVE  Watches(more, p, r) <=> Watches(said, p, r)
  <2>1. \A i \in 1 .. p : more[i] = said[i]
    BY <1>1
  <2> QED BY <2>1 DEF Watches
<1>3. ASSUME NEW r, AskedFor(said, r) PROVE AskedFor(more, r)
  BY <1>1, <1>3 DEF AskedFor
<1> QED BY <1>1, <1>2, <1>3 DEF more

\* Who watches a run has asked for it.
LEMMA WatchersAsked ==
    ASSUME NEW said \in Seq(Message), NEW p \in 0 .. Len(said), NEW r \in RunId,
           Watches(said, p, r)
    PROVE  AskedFor(said, r)
<1>1. 1 .. p \subseteq DOMAIN said
  OBVIOUS
<1> QED BY <1>1 DEF Watches, AskedFor
-----------------------------------------------------------------------------
\* Announcements only grow.
Extends(frames, more) ==
    \A n \in Namespace, r \in RunId : \A k \in DOMAIN frames[n][r] :
        k \in DOMAIN more[n][r] /\ more[n][r][k] = frames[n][r][k]

\* What was queued and seen stays what was announced.
LEMMA FramesStay ==
    ASSUME NEW frames, NEW more, Extends(frames, more), NEW n \in Namespace,
           NEW out, NEW seen, NEW said, Queued(n, out, said, frames), Seen(n, seen, said, frames)
    PROVE  Queued(n, out, said, more) /\ Seen(n, seen, said, more)
<1>1. Queued(n, out, said, more)
  <2> SUFFICES ASSUME NEW i \in 1 .. Len(out)
               PROVE  \E r \in RunId :
                         /\ AskedFor(said, r)
                         /\ \E k \in DOMAIN more[n][r] : out[i] = FrameToWire(more[n][r][k])
    BY DEF Queued
  <2>1. PICK r \in RunId :
           /\ AskedFor(said, r)
           /\ \E k \in DOMAIN frames[n][r] : out[i] = FrameToWire(frames[n][r][k])
    BY DEF Queued
  <2>2. PICK k \in DOMAIN frames[n][r] : out[i] = FrameToWire(frames[n][r][k])
    BY <2>1
  <2>3. k \in DOMAIN more[n][r] /\ more[n][r][k] = frames[n][r][k]
    BY DEF Extends
  <2> QED BY <2>1, <2>2, <2>3
<1>2. Seen(n, seen, said, more)
  BY DEF Seen, Extends
<1> QED BY <1>1, <1>2

\* A viewer to whom nothing happens but that more is announced.
LEMMA Others ==
    ASSUME IInv, NEW u \in Viewer, Extends(announced, announced'),
           conn'[u] = conn[u], data'[u] = data[u], topics'[u] = topics[u],
           inbox'[u] = inbox[u], outbox'[u] = outbox[u], asked'[u] = asked[u],
           rendered'[u] = rendered[u]
    PROVE  ViewerInv(u)'
<1>1. ViewerInv(u)
  BY DEF IInv
<1>2. CASE data[u] \in Namespace
  <2>1. /\ Queued(data[u], outbox[u], asked[u], announced')
        /\ Seen(data[u], rendered[u], asked[u], announced')
    BY <1>1, <1>2, FramesStay DEF ViewerInv
  <2> QED BY <1>1, <2>1 DEF ViewerInv
<1>3. CASE data[u] \notin Namespace
  <2>1. Sound(conn[u], data[u], topics[u], inbox[u], outbox[u], asked[u], rendered[u])
    BY <1>1 DEF ViewerInv
  <2>2. rendered[u] = {} /\ outbox[u] = <<>>
    BY <1>3, <2>1 DEF Sound
  <2>3. /\ Queued(data[u], outbox[u], asked[u], announced')
        /\ Seen(data[u], rendered[u], asked[u], announced')
    BY <2>2 DEF Queued, Seen
  <2> QED BY <1>1, <2>3 DEF ViewerInv
<1> QED BY <1>2, <1>3

\* Nothing at all is announced.
LEMMA Stays == Extends(announced, announced)
BY DEF Extends

\* A step of one viewer leaves the invariant to be shown of that viewer.
LEMMA StepOf ==
    ASSUME IInv, NEW v \in Viewer, announced' = announced, ByViewer',
           \A u \in Viewer : u # v =>
              /\ conn'[u] = conn[u] /\ data'[u] = data[u] /\ topics'[u] = topics[u]
              /\ inbox'[u] = inbox[u] /\ outbox'[u] = outbox[u] /\ asked'[u] = asked[u]
              /\ rendered'[u] = rendered[u],
           ViewerInv(v)'
    PROVE  IInv'
<1>1. \A u \in Viewer : u # v => ViewerInv(u)'
  BY Others, Stays
<1> QED BY <1>1 DEF IInv

\* An upgrade opens a connection with nothing on it, or refuses it.
LEMMA UpgradeStep ==
    ASSUME IInv, NEW v \in Viewer, NEW n \in Namespace \cup {None}, NEW upgrade \in BOOLEAN,
           Upgrade(v, n, upgrade)
    PROVE  IInv'
<1> DEFINE code == IF n = None THEN "401" ELSE IF upgrade THEN "open" ELSE "400"
           tenant == IF upgrade THEN n ELSE None
<1>1. /\ conn[v] = "none" /\ conn' = [conn EXCEPT ![v] = code] /\ data' = [data EXCEPT ![v] = tenant]
      /\ UNCHANGED <<topics, inbox, outbox, announced, asked, shown, noticed, rendered>>
  BY DEF Upgrade, viewerVars
<1>2. ByViewer /\ ViewerInv(v)
  BY DEF IInv
<1>3. code \in Codes /\ tenant \in Namespace \cup {None} /\ (code = "open" => tenant \in Namespace)
      /\ code # "none"
  BY DEF Codes
<1> HIDE DEF code, tenant
<1>4. /\ topics[v] = {} /\ inbox[v] = <<>> /\ outbox[v] = <<>> /\ asked[v] = <<>> /\ rendered[v] = {}
      /\ MaxSent \in Nat
  BY <1>1, <1>2, ChannelAssumption DEF ViewerInv, Sound
<1>5. /\ conn' = [u \in Viewer |-> conn'[u]] /\ data' = [u \in Viewer |-> data'[u]]
      /\ conn'[v] = code /\ data'[v] = tenant
      /\ \A u \in Viewer : u # v => conn'[u] = conn[u] /\ data'[u] = data[u]
  BY <1>1, <1>2 DEF ByViewer
<1>6. Sound(code, tenant, {}, <<>>, <<>>, <<>>, {})
  BY <1>3, <1>4 DEF Sound
<1>7. Heard(tenant, {}, <<>>, <<>>)
  BY DEF Heard, Watches
<1>8. Queued(tenant, <<>>, <<>>, announced) /\ Seen(tenant, {}, <<>>, announced)
  BY DEF Queued, Seen
<1>9. ViewerInv(v)'
  BY <1>1, <1>4, <1>5, <1>6, <1>7, <1>8 DEF ViewerInv
<1>10. ByViewer'
  BY <1>1, <1>2, <1>5 DEF ByViewer
<1> QED BY <1>1, <1>5, <1>9, <1>10, StepOf

\* A message sent joins what is on its way and what was asked.
LEMMA SendStep ==
    ASSUME IInv, NEW v \in Viewer, NEW message \in Message, Send(v, message)
    PROVE  IInv'
<1> DEFINE in == Append(inbox[v], message)
           said == Append(asked[v], message)
<1>1. /\ conn[v] = "open" /\ Len(asked[v]) < MaxSent
      /\ inbox' = [inbox EXCEPT ![v] = in] /\ asked' = [asked EXCEPT ![v] = said]
      /\ UNCHANGED <<conn, data, topics, outbox, announced, shown, noticed, rendered>>
  BY DEF Send, viewerVars
<1>2. ByViewer /\ ViewerInv(v) /\ MaxSent \in Nat
  BY ChannelAssumption DEF IInv
<1>3. /\ inbox' = [u \in Viewer |-> inbox'[u]] /\ asked' = [u \in Viewer |-> asked'[u]]
      /\ inbox'[v] = in /\ asked'[v] = said
      /\ \A u \in Viewer : u # v => inbox'[u] = inbox[u] /\ asked'[u] = asked[u]
  BY <1>1, <1>2 DEF ByViewer
<1>4. /\ inbox[v] \in Seq(Message) /\ asked[v] \in Seq(Message)
      /\ Heard(data[v], topics[v], inbox[v], asked[v])
  BY <1>1, <1>2 DEF ViewerInv, Sound
<1>5. /\ in \in Seq(Message) /\ Len(in) = Len(inbox[v]) + 1 /\ in[Len(inbox[v]) + 1] = message
      /\ \A i \in 1 .. Len(inbox[v]) : in[i] = inbox[v][i]
      /\ said \in Seq(Message) /\ Len(said) = Len(asked[v]) + 1 /\ said[Len(asked[v]) + 1] = message
      /\ \A i \in 1 .. Len(asked[v]) : said[i] = asked[v][i]
      /\ Len(inbox[v]) \in Nat /\ Len(asked[v]) \in Nat
  BY <1>4
<1>6. /\ \A p \in 0 .. Len(asked[v]), r \in RunId : Watches(said, p, r) <=> Watches(asked[v], p, r)
      /\ \A r : AskedFor(asked[v], r) => AskedFor(said, r)
  BY <1>4, SaidMore
<1> HIDE DEF in, said
<1>7. Sound(conn[v], data[v], topics[v], in, outbox[v], said, rendered[v])
  BY <1>1, <1>2, <1>5 DEF ViewerInv, Sound
<1>8. Heard(data[v], topics[v], in, said)
  <2> DEFINE n == Len(asked[v])
             m == Len(inbox[v])
             p == n - m
  <2>1. /\ n \in Nat /\ m \in Nat /\ p \in Nat /\ Len(said) = n + 1 /\ Len(in) = m + 1
        /\ \A i \in 1 .. m : inbox[v][i] = asked[v][p + i]
        /\ \A i \in 1 .. p : ParseViewerRequest(asked[v][i]) # Rejected
        /\ topics[v] \subseteq {TopicForRun(data[v], r) : r \in RunId}
        /\ \A r \in RunId : TopicForRun(data[v], r) \in topics[v] <=> Watches(asked[v], p, r)
    BY <1>4, <1>5 DEF Heard
  <2>2. /\ \A i \in 1 .. m : in[i] = inbox[v][i]
        /\ \A i \in 1 .. n : said[i] = asked[v][i]
        /\ in[m + 1] = message /\ said[n + 1] = message
        /\ \A k \in 0 .. n, r \in RunId : Watches(said, k, r) <=> Watches(asked[v], k, r)
    BY <1>5, <1>6
  <2>3. p = n - m
    OBVIOUS
  <2> HIDE DEF n, m, p
  <2>4. /\ p = Len(said) - Len(in) /\ p \in 0 .. n /\ p + (m + 1) = n + 1
        /\ \A i \in 1 .. m : p + i \in 1 .. n
        /\ \A i \in 1 .. p : i \in 1 .. n
        /\ \A i \in 1 .. (m + 1) : i \in 1 .. m \/ i = m + 1
    BY <2>1, <2>3
  <2>5. \A i \in 1 .. (m + 1) : in[i] = said[p + i]
    BY <2>1, <2>2, <2>4
  <2>6. \A i \in 1 .. p : ParseViewerRequest(said[i]) # Rejected
    BY <2>1, <2>2, <2>4
  <2> QED BY <2>1, <2>2, <2>4, <2>5, <2>6 DEF Heard
<1>9. Queued(data[v], outbox[v], said, announced) /\ Seen(data[v], rendered[v], said, announced)
  <2>1. Queued(data[v], outbox[v], asked[v], announced) /\ Seen(data[v], rendered[v], asked[v], announced)
    BY <1>2 DEF ViewerInv
  <2> QED BY <1>6, <2>1 DEF Queued, Seen
<1>10. ViewerInv(v)'
  BY <1>1, <1>3, <1>7, <1>8, <1>9 DEF ViewerInv
<1>11. ByViewer'
  BY <1>1, <1>2, <1>3 DEF ByViewer
<1> QED BY <1>1, <1>3, <1>10, <1>11, StepOf

\* A connection that is closed hears nothing more.
LEMMA ClosedStep ==
    ASSUME IInv, NEW v \in Viewer, NEW code \in Codes \ {"none", "open"}, conn[v] = "open",
           Closed(v, code), UNCHANGED <<data, announced, asked, viewerVars>>
    PROVE  IInv'
<1>1. /\ conn' = [conn EXCEPT ![v] = code] /\ topics' = [topics EXCEPT ![v] = {}]
      /\ inbox' = [inbox EXCEPT ![v] = <<>>] /\ outbox' = [outbox EXCEPT ![v] = <<>>]
      /\ UNCHANGED <<data, announced, asked, shown, noticed, rendered>>
  BY DEF Closed, viewerVars
<1>2. ByViewer /\ ViewerInv(v)
  BY DEF IInv
<1>3. /\ conn' = [u \in Viewer |-> conn'[u]] /\ topics' = [u \in Viewer |-> topics'[u]]
      /\ inbox' = [u \in Viewer |-> inbox'[u]] /\ outbox' = [u \in Viewer |-> outbox'[u]]
      /\ conn'[v] = code /\ topics'[v] = {} /\ inbox'[v] = <<>> /\ outbox'[v] = <<>>
      /\ \A u \in Viewer : u # v => /\ conn'[u] = conn[u] /\ topics'[u] = topics[u]
                                    /\ inbox'[u] = inbox[u] /\ outbox'[u] = outbox[u]
  BY <1>1, <1>2 DEF ByViewer
<1>4. Sound(code, data[v], {}, <<>>, <<>>, asked[v], rendered[v])
  BY <1>2 DEF ViewerInv, Sound
<1>5. Queued(data[v], <<>>, asked[v], announced)
  BY DEF Queued
<1>6. ViewerInv(v)'
  BY <1>1, <1>2, <1>3, <1>4, <1>5 DEF ViewerInv
<1>7. ByViewer'
  BY <1>1, <1>2, <1>3 DEF ByViewer
<1> QED BY <1>1, <1>3, <1>6, <1>7, StepOf

\* A request that was read is done: the first message on its way is handled.
LEMMA HeardOne ==
    ASSUME NEW n, NEW subscribed, NEW in \in Seq(Message), NEW said \in Seq(Message),
           in # <<>>, Heard(n, subscribed, in, said),
           ParseViewerRequest(Head(in)) # Rejected
    PROVE  LET request == ParseViewerRequest(Head(in))
               topic   == TopicForRun(n, request.runId)
           IN  Heard(n, IF request.kind = "watch" THEN subscribed \cup {topic}
                                                  ELSE subscribed \ {topic}, Tail(in), said)
<1> DEFINE l == Len(said)
           m == Len(in)
           p == l - m
           request == ParseViewerRequest(Head(in))
           topic == TopicForRun(n, request.runId)
           now == IF request.kind = "watch" THEN subscribed \cup {topic} ELSE subscribed \ {topic}
           rest == Tail(in)
<1>1. /\ l \in Nat /\ m \in Nat /\ m >= 1 /\ p \in Nat /\ rest \in Seq(Message)
      /\ Len(rest) = m - 1 /\ \A i \in 1 .. (m - 1) : rest[i] = in[i + 1]
      /\ Head(in) = in[1]
  BY DEF Heard
<1>2. /\ \A i \in 1 .. m : in[i] = said[p + i]
      /\ \A i \in 1 .. p : ParseViewerRequest(said[i]) # Rejected
      /\ subscribed \subseteq {TopicForRun(n, r) : r \in RunId}
      /\ \A r \in RunId : TopicForRun(n, r) \in subscribed <=> Watches(said, p, r)
  BY DEF Heard
<1>3. request = ParseViewerRequest(in[1]) /\ request # Rejected
  BY <1>1
<1>4. request.runId \in RunId /\ request.kind \in {"watch", "unwatch"}
  BY <1>3, Parsed
<1>5. p = l - m
  OBVIOUS
<1> HIDE DEF l, m, p, request, topic, now, rest
<1>6. /\ p + 1 = l - (m - 1) /\ p + 1 \in Nat /\ 1 \in 1 .. m
      /\ \A i \in 1 .. (m - 1) : i + 1 \in 1 .. m /\ p + (i + 1) = (p + 1) + i
      /\ \A i \in 1 .. (p + 1) : i \in 1 .. p \/ i = p + 1
  BY <1>1, <1>5
<1>7. l = Len(said) /\ m - 1 = Len(rest)
  BY <1>1 DEF l
<1>8. in[1] = said[p + 1]
  BY <1>2, <1>6
<1>9. \A i \in 1 .. Len(rest) : rest[i] = said[(p + 1) + i]
  BY <1>1, <1>2, <1>6
<1>10. \A i \in 1 .. (p + 1) : ParseViewerRequest(said[i]) # Rejected
  BY <1>2, <1>3, <1>6, <1>8
<1>11. now \subseteq {TopicForRun(n, r) : r \in RunId}
  BY <1>2, <1>4 DEF now, topic
<1>12. ASSUME NEW r \in RunId
       PROVE  TopicForRun(n, r) \in now <=> Watches(said, p + 1, r)
  <2>1. Watches(said, p + 1, r) <=>
           IF request.runId = r THEN request.kind = "watch" ELSE Watches(said, p, r)
    BY <1>1, <1>3, <1>8, OneMore
  <2>2. TopicForRun(n, r) = topic <=> r = request.runId
    BY DEF topic, TopicForRun
  <2> QED BY <1>2, <1>4, <2>1, <2>2 DEF now
<1>13. Heard(n, now, rest, said)
  BY <1>6, <1>7, <1>9, <1>10, <1>11, <1>12 DEF Heard
<1> QED BY <1>13 DEF now, topic, request, rest

\* A message is handled: it closes the connection or changes what is subscribed.
LEMMA HandleStep ==
    ASSUME IInv, NEW v \in Viewer, Handle(v)
    PROVE  IInv'
<1> DEFINE message == Head(inbox[v])
           request == ParseViewerRequest(message)
<1>1. /\ conn[v] = "open" /\ inbox[v] # <<>>
      /\ UNCHANGED <<data, announced, asked, viewerVars>>
  BY DEF Handle
<1>2. \/ Closed(v, "1003")
      \/ request = Rejected /\ Closed(v, "1008")
      \/ request # Rejected /\ Subscribed(v, request)
  BY DEF Handle
<1>3. "1003" \in Codes \ {"none", "open"} /\ "1008" \in Codes \ {"none", "open"}
  BY DEF Codes
<1>4. CASE Closed(v, "1003") \/ Closed(v, "1008")
  BY <1>1, <1>3, <1>4, ClosedStep
<1>5. CASE request # Rejected /\ Subscribed(v, request)
  <2> DEFINE topic == TopicForRun(data[v], request.runId)
             now == IF request.kind = "watch" THEN topics[v] \cup {topic} ELSE topics[v] \ {topic}
             rest == Tail(inbox[v])
  <2>1. /\ topics' = [topics EXCEPT ![v] = now] /\ inbox' = [inbox EXCEPT ![v] = rest]
        /\ UNCHANGED <<conn, outbox, data, announced, asked, shown, noticed, rendered>>
    BY <1>1, <1>5 DEF Subscribed, viewerVars
  <2>2. ByViewer /\ ViewerInv(v)
    BY DEF IInv
  <2>3. /\ inbox[v] \in Seq(Message) /\ asked[v] \in Seq(Message)
        /\ Heard(data[v], topics[v], inbox[v], asked[v])
    BY <1>1, <2>2 DEF ViewerInv, Sound
  <2>4. rest \in Seq(Message)
    BY <1>1, <2>3
  <2>5. Heard(data[v], now, rest, asked[v])
    BY <1>1, <1>5, <2>3, HeardOne
  <2> HIDE DEF now, rest
  <2>6. /\ topics' = [u \in Viewer |-> topics'[u]] /\ inbox' = [u \in Viewer |-> inbox'[u]]
        /\ topics'[v] = now /\ inbox'[v] = rest
        /\ \A u \in Viewer : u # v => topics'[u] = topics[u] /\ inbox'[u] = inbox[u]
    BY <2>1, <2>2 DEF ByViewer
  <2>7. Sound(conn[v], data[v], now, rest, outbox[v], asked[v], rendered[v])
    BY <1>1, <2>2, <2>4 DEF ViewerInv, Sound
  <2>8. ViewerInv(v)'
    BY <2>1, <2>2, <2>5, <2>6, <2>7 DEF ViewerInv
  <2>9. ByViewer'
    BY <2>1, <2>2, <2>6 DEF ByViewer
  <2> QED BY <2>1, <2>6, <2>8, <2>9, StepOf
<1> QED BY <1>2, <1>4, <1>5

\* A connection is gone.
LEMMA DisconnectStep ==
    ASSUME IInv, NEW v \in Viewer, Disconnect(v)
    PROVE  IInv'
<1>1. "gone" \in Codes \ {"none", "open"}
  BY DEF Codes
<1> QED BY <1>1, ClosedStep DEF Disconnect

\* A field that can be read on the other side is the one that was written; only a
\* number may be lost, and only where it may be missing.
LEMMA FieldArrives ==
    ASSUME NEW state, NEW f \in DOMAIN state, NEW reader \in DOMAIN Tags, NEW optional \in BOOLEAN,
           state[f][1] \in Tags[reader] \/ (optional /\ state[f] = Undefined),
           Read(reader, optional, Field(Stringify(state), f)) # Malformed
    PROVE  \/ Read(reader, optional, Field(Stringify(state), f)) = state[f]
           \/ /\ reader = "count" /\ optional /\ state[f] = NaN
              /\ Read(reader, optional, Field(Stringify(state), f)) = Undefined
<1> DEFINE wire == Stringify(state)
<1>1. \A x \in {"string", "number", "fraction", "nan", "boolean", "list"} : x # "undefined" /\ x # "null"
  OBVIOUS
<1>2. state[f] # Undefined => f \in DOMAIN wire /\ wire[f] = IF state[f] = NaN THEN Null ELSE state[f]
  BY DEF Stringify
<1>3. state[f] = Undefined => Field(wire, f) = Undefined
  BY DEF Stringify, Field
<1>4. state[f] # Undefined => Field(wire, f) = IF state[f] = NaN THEN Null ELSE state[f]
  BY <1>2 DEF Field
<1> HIDE DEF wire
<1>5. Undefined[1] = "undefined" /\ Null[1] = "null" /\ NaN[1] = "nan"
  BY DEF Undefined, Null, NaN
<1>6. CASE state[f] = Undefined
  <2>1. optional
    BY <1>5, <1>6 DEF Tags
  <2> QED BY <1>3, <1>6, <2>1 DEF Read, Untold, wire
<1>7. CASE state[f] # Undefined /\ state[f] # NaN
  <2>1. Field(wire, f) = state[f] /\ state[f] # Null
    BY <1>4, <1>5, <1>7 DEF Tags
  <2> QED BY <1>7, <2>1 DEF Read, Untold, wire
<1>8. CASE state[f] = NaN
  <2>1. state[f] # Undefined
    BY <1>5, <1>8
  <2>2. Field(wire, f) = Null /\ reader = "count"
    BY <1>4, <1>5, <1>8, <2>1 DEF Tags
  <2>3. ~IsOk(reader, Null)
    BY <1>5, <2>2 DEF IsOk
  <2> QED BY <1>8, <2>2, <2>3 DEF Read, Untold, wire
<1> QED BY <1>6, <1>7, <1>8

\* The one number that may be missing is the position in the queue.
LEMMA OnlyThePosition ==
    ASSUME NEW kind \in DOMAIN Parsers, NEW f \in DOMAIN Parsers[kind],
           Parsers[kind][f] = "count", f \in Optional
    PROVE  kind = "queued" /\ f = "position"
BY DEF Parsers, Optional

\* What the two parsers agree on: a state that is read on the other side is the
\* one that was announced.
LEMMA RoundTrip ==
    ASSUME NEW state, IsAgentState(state), ParseAgentState(Stringify(state)) # Rejected
    PROVE  Arrives(ParseAgentState(Stringify(state)), state)
<1> DEFINE kind == state["kind"][2]
           wire == Stringify(state)
           fields == ParseFields(kind, wire)
           got == [f \in DOMAIN fields \cup {"kind"} |-> IF f = "kind" THEN Text(kind) ELSE fields[f]]
<1>1. state["kind"] = Text(kind) /\ state = [f \in DOMAIN state |-> state[f]]
  BY DEF IsAgentState
<1>2. Text(kind) # Undefined /\ Text(kind) # NaN /\ Text(kind)[1] = "string" /\ Text(kind)[2] = kind
  <2>1. Text(kind)[1] = "string" /\ Undefined[1] = "undefined" /\ NaN[1] = "nan" /\ Text(kind)[2] = kind
    BY DEF Text, Undefined, NaN
  <2> QED BY <2>1
<1>3. Field(wire, "kind") = Text(kind) \/ "kind" \notin DOMAIN wire
  BY <1>1, <1>2 DEF Stringify, Field
<1>4. "kind" \in DOMAIN wire
  <2>1. ParseAgentState(wire) # Rejected
    OBVIOUS
  <2>2. Undefined[1] # "string"
    BY DEF Undefined
  <2>3. Field(wire, "kind")[1] = "string"
    BY <2>1 DEF ParseAgentState
  <2> QED BY <2>2, <2>3 DEF Field
<1>5. Field(wire, "kind")[1] = "string" /\ Field(wire, "kind")[2] = kind
  BY <1>2, <1>3, <1>4
<1> HIDE DEF kind, wire
<1>6. /\ kind \in DOMAIN Parsers
      /\ \A f \in DOMAIN fields : fields[f] # Malformed
      /\ ~(kind = "queued" /\ \A f \in DOMAIN fields : fields[f] = Undefined)
      /\ ParseAgentState(wire) = got
  BY <1>5 DEF ParseAgentState, wire
<1>7. /\ DOMAIN state = {"kind"} \cup DOMAIN Parsers[kind]
      /\ \A f \in DOMAIN Parsers[kind] :
            state[f][1] \in Tags[Parsers[kind][f]] \/ (f \in Optional /\ state[f] = Undefined)
  BY <1>6 DEF IsAgentState, kind
<1>8. DOMAIN fields = DOMAIN Parsers[kind] /\ "kind" \notin DOMAIN Parsers[kind]
  BY <1>6 DEF ParseFields, Parsers
<1>9. \A f \in DOMAIN Parsers[kind] : Parsers[kind][f] \in DOMAIN Tags
  BY <1>6 DEF Parsers, Tags
<1>10. ASSUME NEW f \in DOMAIN Parsers[kind]
       PROVE  \/ got[f] = state[f]
              \/ /\ Parsers[kind][f] = "count" /\ f \in Optional /\ state[f] = NaN
                 /\ got[f] = Undefined
  <2>1. fields[f] = Read(Parsers[kind][f], f \in Optional, Field(Stringify(state), f))
    BY <1>8 DEF ParseFields, wire
  <2>2. got[f] = fields[f] /\ fields[f] # Malformed /\ f \in DOMAIN state
    BY <1>6, <1>7, <1>8
  <2> DEFINE reader == Parsers[kind][f]
             optional == f \in Optional
  <2>3. /\ reader \in DOMAIN Tags /\ optional \in BOOLEAN
        /\ state[f][1] \in Tags[reader] \/ (optional /\ state[f] = Undefined)
    BY <1>7, <1>9
  <2> HIDE DEF fields, got, reader, optional
  <2>4. Read(reader, optional, Field(Stringify(state), f)) # Malformed
    BY <2>1, <2>2 DEF reader, optional
  <2>5. \/ Read(reader, optional, Field(Stringify(state), f)) = state[f]
        \/ /\ reader = "count" /\ optional /\ state[f] = NaN
           /\ Read(reader, optional, Field(Stringify(state), f)) = Undefined
    BY <2>2, <2>3, <2>4, FieldArrives
  <2> QED BY <2>1, <2>2, <2>5 DEF reader, optional
<1>11. got["kind"] = state["kind"] /\ DOMAIN got = DOMAIN state
  BY <1>1, <1>7, <1>8 DEF kind
<1>12. got = [f \in DOMAIN got |-> got[f]]
  OBVIOUS
<1>13. CASE \A f \in DOMAIN Parsers[kind] : got[f] = state[f]
  <2>1. \A f \in DOMAIN state : got[f] = state[f]
    BY <1>7, <1>11, <1>13
  <2>2. got = state
    BY <1>1, <1>11, <1>12, <2>1
  <2> QED BY <1>6, <2>2 DEF Arrives, wire
<1>14. CASE \E f \in DOMAIN Parsers[kind] : got[f] # state[f]
  <2>1. PICK f \in DOMAIN Parsers[kind] : got[f] # state[f]
    BY <1>14
  <2>2. kind = "queued" /\ f = "position" /\ state["position"] = NaN /\ got["position"] = Undefined
    BY <1>6, <1>10, <2>1, OnlyThePosition
  <2>3. \A g \in DOMAIN Parsers[kind] : g # "position" => got[g] = state[g]
    BY <1>6, <1>10, OnlyThePosition
  <2>4. DOMAIN Parsers["queued"] = {"position", "expectedStartAt"}
    BY DEF Parsers
  <2>5. DOMAIN state = {"kind", "position", "expectedStartAt"}
    BY <1>7, <2>2, <2>4
  <2>6. got = [state EXCEPT !["position"] = Undefined]
    <3> DEFINE lost == [state EXCEPT !["position"] = Undefined]
    <3>1. DOMAIN lost = DOMAIN state /\ lost = [g \in DOMAIN state |-> lost[g]]
      BY <1>1
    <3>2. \A g \in DOMAIN state : lost[g] = got[g]
      BY <1>1, <1>11, <2>2, <2>3, <2>4, <2>5
    <3> HIDE DEF lost, got
    <3>3. got = lost
      BY <1>11, <1>12, <3>1, <3>2
    <3> QED BY <3>3 DEF lost
  <2>7. got["expectedStartAt"] # Undefined
    <3>1. \A g \in DOMAIN fields : got[g] = fields[g]
      BY <1>8
    <3> QED BY <1>6, <1>8, <2>2, <2>4, <3>1
  <2> QED BY <1>1, <1>6, <2>2, <2>6, <2>7 DEF Arrives, wire, kind
<1> QED BY <1>13, <1>14

\* A frame that can be read is the one that was sent, but for its state.
LEMMA FrameRead ==
    ASSUME NEW frame \in Frames, ParseStateFrame(FrameToWire(frame)) # Rejected
    PROVE  LET read == ParseStateFrame(FrameToWire(frame)) IN
           /\ read.runId = frame.runId /\ read.runId \in RunId
           /\ read.sequence = frame.sequence /\ read.at = frame.at
           /\ read.state = ParseAgentState(Stringify(frame.state)) /\ read.state # Rejected
<1>1. PICK r \in RunId, k \in Nat, script \in Scripts, i \in Nat :
         frame = [runId |-> r, sequence |-> k, at |-> script[i].at, state |-> script[i].state]
  BY DEF Frames
<1> DEFINE wire == [runId |-> r, sequence |-> k, at |-> script[i].at, state |-> Stringify(script[i].state)]
           read == [runId |-> r, sequence |-> k, at |-> script[i].at, state |-> ParseAgentState(wire.state)]
<1>2. FrameToWire(frame) = wire
  BY <1>1 DEF FrameToWire
<1>3. ParseStateFrame(wire) = read /\ read.state # Rejected
  BY <1>2 DEF ParseStateFrame
<1>4. read.state = ParseAgentState(Stringify(frame.state))
  BY <1>1
<1> HIDE DEF wire, read
<1>5. read.runId = frame.runId /\ read.runId \in RunId /\ read.sequence = frame.sequence
      /\ read.at = frame.at
  BY <1>1 DEF read
<1> QED BY <1>2, <1>3, <1>4, <1>5

\* A frame that is received was announced for a run that was asked for.
LEMMA ReceiveStep ==
    ASSUME IInv, NEW v \in Viewer, Receive(v)
    PROVE  IInv'
<1> DEFINE frame == ParseStateFrame(Head(outbox[v]))
           rest == Tail(outbox[v])
<1>1. /\ conn[v] = "open" /\ outbox[v] # <<>>
      /\ outbox' = [outbox EXCEPT ![v] = rest]
      /\ UNCHANGED <<conn, data, topics, inbox, announced, asked>>
  BY DEF Receive
<1>2. \/ UNCHANGED <<shown, noticed, rendered>>
      \/ /\ frame # Rejected
         /\ rendered' = [rendered EXCEPT ![v] = @ \cup {frame}]
         /\ \/ noticed' = [noticed EXCEPT ![v] = @ \cup {frame.runId}]
            \/ noticed' = noticed
  BY DEF Receive, viewerVars
<1>3. ByViewer /\ ViewerInv(v) /\ Numbered(announced)
  BY DEF IInv
<1>4. /\ outbox[v] \in Seq(Wires) /\ data[v] \in Namespace
      /\ Queued(data[v], outbox[v], asked[v], announced)
      /\ Seen(data[v], rendered[v], asked[v], announced)
  BY <1>1, <1>3 DEF ViewerInv, Sound
<1>5. /\ rest \in Seq(Wires) /\ 1 \in 1 .. Len(outbox[v]) /\ Head(outbox[v]) = outbox[v][1]
      /\ \A i \in 1 .. Len(rest) : i + 1 \in 1 .. Len(outbox[v]) /\ rest[i] = outbox[v][i + 1]
  BY <1>1, <1>4
<1>6. PICK r \in RunId : /\ AskedFor(asked[v], r)
                         /\ \E k \in DOMAIN announced[data[v]][r] :
                               Head(outbox[v]) = FrameToWire(announced[data[v]][r][k])
  BY <1>4, <1>5 DEF Queued
<1>7. PICK k \in DOMAIN announced[data[v]][r] :
         Head(outbox[v]) = FrameToWire(announced[data[v]][r][k])
  BY <1>6
<1> DEFINE sent == announced[data[v]][r][k]
<1>8. sent \in Frames /\ sent.runId = r /\ sent.sequence = k /\ IsAgentState(sent.state)
  BY <1>3, <1>4, <1>7 DEF Numbered
<1>9. ASSUME frame # Rejected
      PROVE  /\ frame.runId = r /\ frame.sequence = k /\ frame.at = sent.at
             /\ Arrives(frame.state, sent.state)
  <2>1. /\ frame.runId = r /\ frame.sequence = k /\ frame.at = sent.at
        /\ frame.state = ParseAgentState(Stringify(sent.state)) /\ frame.state # Rejected
    BY <1>7, <1>8, <1>9, FrameRead
  <2> QED BY <1>8, <2>1, RoundTrip
<1> HIDE DEF frame, rest
<1>10. Queued(data[v], rest, asked[v], announced)
  BY <1>4, <1>5 DEF Queued
<1>11. /\ outbox' = [u \in Viewer |-> outbox'[u]] /\ outbox'[v] = rest
       /\ \A u \in Viewer : u # v => outbox'[u] = outbox[u]
  BY <1>1, <1>3 DEF ByViewer
<1>12. /\ rendered' = [u \in Viewer |-> rendered'[u]]
       /\ \A u \in Viewer : u # v => rendered'[u] = rendered[u]
       /\ \/ rendered'[v] = rendered[v]
          \/ frame # Rejected /\ rendered'[v] = rendered[v] \cup {frame}
  BY <1>2, <1>3 DEF ByViewer
<1>13. noticed' \in [Viewer -> SUBSET RunId]
  <2>1. noticed \in [Viewer -> SUBSET RunId]
    BY <1>3 DEF ByViewer
  <2>2. CASE noticed' = noticed
    BY <2>1, <2>2
  <2>3. CASE frame # Rejected /\ noticed' = [noticed EXCEPT ![v] = @ \cup {frame.runId}]
    <3>1. frame.runId \in RunId
      BY <1>9, <2>3
    <3>2. noticed[v] \cup {frame.runId} \in SUBSET RunId
      BY <2>1, <3>1
    <3> QED BY <2>1, <2>3, <3>2
  <2> QED BY <1>2, <2>2, <2>3
<1>14. Seen(data[v], rendered[v] \cup {frame}, asked[v], announced) \/ frame = Rejected
  <2> SUFFICES ASSUME frame # Rejected
               PROVE  Seen(data[v], rendered[v] \cup {frame}, asked[v], announced)
    OBVIOUS
  <2>1. /\ AskedFor(asked[v], frame.runId) /\ frame.runId \in RunId
        /\ frame.sequence \in DOMAIN announced[data[v]][frame.runId]
        /\ frame.at = announced[data[v]][frame.runId][frame.sequence].at
        /\ Arrives(frame.state, announced[data[v]][frame.runId][frame.sequence].state)
    BY <1>6, <1>7, <1>9
  <2> QED BY <1>4, <2>1 DEF Seen
<1>15. Seen(data[v], rendered'[v], asked[v], announced)
  BY <1>4, <1>12, <1>14
<1>16. PICK seen : seen = rendered'[v]
  OBVIOUS
<1>17. Sound(conn[v], data[v], topics[v], inbox[v], rest, asked[v], seen)
  BY <1>1, <1>3, <1>4, <1>5 DEF ViewerInv, Sound
<1>18. ViewerInv(v)'
  BY <1>1, <1>3, <1>10, <1>11, <1>15, <1>16, <1>17 DEF ViewerInv
<1>19. ByViewer'
  BY <1>1, <1>3, <1>11, <1>12, <1>13 DEF ByViewer
<1> QED BY <1>1, <1>11, <1>12, <1>18, <1>19, StepOf

\* Only who watches a run of the tenant is subscribed to its topic.
LEMMA SubscribersWatch ==
    ASSUME IInv, NEW v \in Viewer, NEW n \in Namespace, NEW r \in RunId,
           TopicForRun(n, r) \in topics[v]
    PROVE  conn[v] = "open" /\ data[v] = n /\ AskedFor(asked[v], r)
<1>1. ViewerInv(v)
  BY DEF IInv
<1>2. conn[v] = "open"
  BY <1>1 DEF ViewerInv, Sound
<1>3. /\ asked[v] \in Seq(Message) /\ inbox[v] \in Seq(Message)
      /\ Heard(data[v], topics[v], inbox[v], asked[v])
  BY <1>1, <1>2 DEF ViewerInv, Sound
<1>4. PICK s \in RunId : TopicForRun(n, r) = TopicForRun(data[v], s)
  BY <1>3 DEF Heard
<1>5. data[v] = n
  BY <1>4 DEF TopicForRun
<1>6. /\ Len(asked[v]) - Len(inbox[v]) \in 0 .. Len(asked[v])
      /\ Watches(asked[v], Len(asked[v]) - Len(inbox[v]), r)
  <2>1. Watches(asked[v], Len(asked[v]) - Len(inbox[v]), r)
    BY <1>3, <1>5 DEF Heard
  <2>2. /\ Len(asked[v]) \in Nat /\ Len(inbox[v]) \in Nat
        /\ Len(asked[v]) - Len(inbox[v]) \in Nat
    BY <1>3 DEF Heard
  <2>3. \A l, m \in Nat : l - m \in Nat => l - m \in 0 .. l
    OBVIOUS
  <2> QED BY <2>1, <2>2, <2>3
<1> QED BY <1>2, <1>3, <1>5, <1>6, WatchersAsked

\* An announcement is the next of its run and is queued for subscribers only.
LEMMA AnnounceStep ==
    ASSUME IInv, NEW n \in Namespace, NEW r \in RunId, NEW script \in Scripts,
           Announce(n, r, script)
    PROVE  IInv'
<1> DEFINE past == announced[n][r]
           k == Len(past) + 1
           frame == [runId |-> r, sequence |-> k, at |-> script[k].at, state |-> script[k].state]
           wire == FrameToWire(frame)
           grown == Append(past, frame)
<1>1. Numbered(announced) /\ ByViewer
  BY DEF IInv
<1>2. /\ announced' = [announced EXCEPT ![n][r] = grown]
      /\ UNCHANGED <<conn, data, topics, inbox, asked, shown, noticed, rendered>>
      /\ \E queued \in SUBSET {v \in Viewer : TopicForRun(n, r) \in topics[v]} :
            outbox' = [v \in Viewer |-> IF v \in queued THEN Append(outbox[v], wire) ELSE outbox[v]]
  BY DEF Announce, viewerVars
<1>3. /\ past \in Seq(Frames) /\ k \in Nat /\ DOMAIN past = 1 .. Len(past)
      /\ \A j \in DOMAIN past :
            past[j].runId = r /\ past[j].sequence = j /\ IsAgentState(past[j].state)
  BY <1>1 DEF Numbered
<1>4. frame \in Frames /\ frame.runId = r /\ frame.sequence = k /\ IsAgentState(frame.state)
  <2>1. script \in Seq(Range(script)) /\ \A i \in DOMAIN script : IsAgentState(script[i].state)
    BY ChannelAssumption
  <2>2. Len(Said(past)) = Len(past) /\ Len(past) < Len(script)
    <3>1. DOMAIN Said(past) = 1 .. Len(past)
      BY <1>3 DEF Said
    <3>2. Len(Said(past)) < Len(script)
      BY DEF Announce, Begins
    <3>3. Len(Said(past)) = Len(past)
      BY <1>3, <3>1, IsASeq DEF Said
    <3> QED BY <3>2, <3>3
  <2>3. k \in DOMAIN script
    BY <1>3, <2>1, <2>2
  <2> QED BY <1>3, <2>1, <2>3 DEF Frames
<1>5. wire \in Wires
  BY <1>4 DEF Wires
<1> HIDE DEF frame, wire
<1>6. /\ grown \in Seq(Frames) /\ DOMAIN grown = (DOMAIN past) \cup {k} /\ grown[k] = frame
      /\ \A j \in DOMAIN past : grown[j] = past[j]
  BY <1>3, <1>4
<1> HIDE DEF grown
<1>7. /\ announced' \in [Namespace -> [RunId -> Seq(Frames)]]
      /\ announced'[n][r] = grown
      /\ \A m \in Namespace, s \in RunId :
            m # n \/ s # r => announced'[m][s] = announced[m][s]
  <2>1. announced \in [Namespace -> [RunId -> Seq(Frames)]]
    BY <1>1 DEF Numbered
  <2>2. [announced[n] EXCEPT ![r] = grown] \in [RunId -> Seq(Frames)]
    BY <2>1, <1>6
  <2>3. announced' = [announced EXCEPT ![n] = [announced[n] EXCEPT ![r] = grown]]
    BY <1>2, <2>1
  <2> QED BY <2>1, <2>2, <2>3
<1>8. Numbered(announced')
  <2> SUFFICES ASSUME NEW m \in Namespace, NEW s \in RunId, NEW j \in DOMAIN announced'[m][s]
               PROVE  /\ announced'[m][s][j].runId = s /\ announced'[m][s][j].sequence = j
                      /\ IsAgentState(announced'[m][s][j].state)
    BY <1>7 DEF Numbered
  <2>1. CASE m = n /\ s = r
    <3>1. announced'[m][s] = grown /\ j \in (DOMAIN past) \cup {k}
      BY <2>1, <1>6, <1>7
    <3>2. CASE j \in DOMAIN past
      BY <2>1, <3>1, <3>2, <1>3, <1>6
    <3>3. CASE j = k
      BY <2>1, <3>1, <3>3, <1>4, <1>6
    <3> QED BY <3>1, <3>2, <3>3
  <2>2. CASE m # n \/ s # r
    BY <2>2, <1>1, <1>7 DEF Numbered
  <2> QED BY <2>1, <2>2
<1>9. Extends(announced, announced')
  <2> SUFFICES ASSUME NEW m \in Namespace, NEW s \in RunId, NEW j \in DOMAIN announced[m][s]
               PROVE  j \in DOMAIN announced'[m][s] /\ announced'[m][s][j] = announced[m][s][j]
    BY DEF Extends
  <2>1. CASE m = n /\ s = r
    BY <2>1, <1>6, <1>7
  <2>2. CASE m # n \/ s # r
    BY <2>2, <1>7
  <2> QED BY <2>1, <2>2
<1>10. PICK queued \in SUBSET {v \in Viewer : TopicForRun(n, r) \in topics[v]} :
          outbox' = [v \in Viewer |-> IF v \in queued THEN Append(outbox[v], wire) ELSE outbox[v]]
  BY <1>2
<1>11. ByViewer'
  BY <1>1, <1>2, <1>10 DEF ByViewer
<1>12. ASSUME NEW v \in Viewer PROVE ViewerInv(v)'
  <2>1. CASE v \notin queued
    <3>1. outbox'[v] = outbox[v]
      BY <1>10, <2>1
    <3> QED BY <1>2, <1>9, <3>1, Others
  <2>2. CASE v \in queued
    <3> DEFINE out == Append(outbox[v], wire)
    <3>1. outbox'[v] = out
      BY <1>10, <2>2
    <3>2. conn[v] = "open" /\ data[v] = n /\ AskedFor(asked[v], r)
      BY <2>2, SubscribersWatch
    <3>3. ViewerInv(v)
      BY DEF IInv
    <3>4. outbox[v] \in Seq(Wires)
      BY <3>3 DEF ViewerInv, Sound
    <3>5. /\ out \in Seq(Wires) /\ out[Len(out)] = wire
          /\ \A i \in 1 .. Len(out) : i \in 1 .. Len(outbox[v]) \/ i = Len(out)
          /\ \A i \in 1 .. Len(outbox[v]) : out[i] = outbox[v][i]
      BY <1>5, <3>4
    <3> HIDE DEF out
    <3>6. Sound(conn[v], data[v], topics[v], inbox[v], out, asked[v], rendered[v])
      BY <3>2, <3>3, <3>5 DEF ViewerInv, Sound
    <3>7. Queued(n, outbox[v], asked[v], announced') /\ Seen(n, rendered[v], asked[v], announced')
      BY <1>9, <3>2, <3>3, FramesStay DEF ViewerInv
    <3>8. Queued(n, out, asked[v], announced')
      <4> SUFFICES ASSUME NEW i \in 1 .. Len(out)
                   PROVE  \E s \in RunId :
                             /\ AskedFor(asked[v], s)
                             /\ \E j \in DOMAIN announced'[n][s] :
                                   out[i] = FrameToWire(announced'[n][s][j])
        BY DEF Queued
      <4>1. CASE i \in 1 .. Len(outbox[v])
        BY <4>1, <3>5, <3>7 DEF Queued
      <4>2. CASE i = Len(out)
        <5>1. k \in DOMAIN announced'[n][r] /\ out[i] = FrameToWire(announced'[n][r][k])
          BY <1>6, <1>7, <3>5, <4>2 DEF wire
        <5> QED BY <3>2, <5>1
      <4> QED BY <3>5, <4>1, <4>2
    <3> QED BY <1>2, <3>1, <3>2, <3>3, <3>6, <3>7, <3>8 DEF ViewerInv
  <2> QED BY <2>1, <2>2
<1> QED BY <1>8, <1>11, <1>12 DEF IInv
-----------------------------------------------------------------------------
\* Nothing is announced and nobody is connected at first.
LEMMA InitInv == Init => IInv
<1> SUFFICES ASSUME Init PROVE IInv
  OBVIOUS
<1>1. Numbered(announced)
  <2>1. <<>> \in Seq(Frames)
    OBVIOUS
  <2> QED BY <2>1 DEF Init, Numbered
<1>2. ByViewer
  BY DEF Init, ByViewer
<1>3. ASSUME NEW v \in Viewer PROVE ViewerInv(v)
  <2>1. /\ conn[v] = "none" /\ data[v] = None /\ topics[v] = {} /\ inbox[v] = <<>>
        /\ outbox[v] = <<>> /\ asked[v] = <<>> /\ rendered[v] = {}
    BY DEF Init
  <2>2. Sound("none", None, {}, <<>>, <<>>, <<>>, {})
    BY ChannelAssumption DEF Sound, Codes
  <2>3. Queued(None, <<>>, <<>>, announced) /\ Seen(None, {}, <<>>, announced)
    BY DEF Queued, Seen
  <2> QED BY <2>1, <2>2, <2>3 DEF ViewerInv
<1> QED BY <1>1, <1>2, <1>3 DEF IInv

\* Every step keeps the invariant.
LEMMA StepInv == IInv /\ [Next]_vars => IInv'
<1> SUFFICES ASSUME IInv, [Next]_vars PROVE IInv'
  OBVIOUS
<1>1. ASSUME NEW v \in Viewer, NEW n \in Namespace \cup {None}, NEW isUpgrade \in BOOLEAN,
             Upgrade(v, n, isUpgrade)
      PROVE  IInv'
  BY <1>1, UpgradeStep
<1>2. ASSUME NEW v \in Viewer, NEW message \in Message, Send(v, message) PROVE IInv'
  BY <1>2, SendStep
<1>3. ASSUME NEW v \in Viewer, Handle(v) PROVE IInv'
  BY <1>3, HandleStep
<1>4. ASSUME NEW v \in Viewer, Receive(v) PROVE IInv'
  BY <1>4, ReceiveStep
<1>5. ASSUME NEW v \in Viewer, Disconnect(v) PROVE IInv'
  BY <1>5, DisconnectStep
<1>6. ASSUME NEW n \in Namespace, NEW r \in RunId, NEW script \in Scripts, Announce(n, r, script)
      PROVE  IInv'
  BY <1>6, AnnounceStep
<1>7. CASE UNCHANGED vars
  <2>1. ByViewer'
    BY <1>7 DEF IInv, ByViewer, vars
  <2>2. \A v \in Viewer : ViewerInv(v)'
    BY <1>7 DEF IInv, ViewerInv, vars
  <2>3. Numbered(announced')
    BY <1>7 DEF IInv, vars
  <2> QED BY <2>1, <2>2, <2>3 DEF IInv
<1> QED BY <1>1, <1>2, <1>3, <1>4, <1>5, <1>6, <1>7 DEF Next

\* The invariant holds throughout.
LEMMA Invariance == Spec => []IInv
BY InitInv, StepInv, PTL DEF Spec
-----------------------------------------------------------------------------
\* A closed connection has no subscriptions and nothing on its way, an open
\* one belongs to a tenant's topics only, and frames are numbered as announced.
THEOREM TypeCorrect == Spec => []TypeOK
<1>1. IInv => TypeOK
  <2> SUFFICES ASSUME IInv PROVE TypeOK
    OBVIOUS
  <2>1. Numbered(announced) /\ ByViewer /\ \A v \in Viewer : ViewerInv(v)
    BY DEF IInv
  <2>2. conn \in [Viewer -> Codes] /\ data \in [Viewer -> Namespace \cup {None}]
    <3>1. \A v \in Viewer : conn[v] \in Codes /\ data[v] \in Namespace \cup {None}
      BY <2>1 DEF ViewerInv, Sound
    <3> QED BY <2>1, <3>1 DEF ByViewer
  <2>3. ASSUME NEW v \in Viewer
        PROVE  /\ topics[v] \subseteq {TopicForRun(n, r) : n \in Namespace, r \in RunId}
               /\ noticed[v] \subseteq RunId
               /\ conn[v] # "open" => topics[v] = {} /\ inbox[v] = <<>> /\ outbox[v] = <<>>
               /\ Len(asked[v]) <= MaxSent
    <3>1. Sound(conn[v], data[v], topics[v], inbox[v], outbox[v], asked[v], rendered[v])
      BY <2>1 DEF ViewerInv
    <3>2. topics[v] \subseteq {TopicForRun(n, r) : n \in Namespace, r \in RunId}
      <4>1. CASE conn[v] = "open"
        <5>1. data[v] \in Namespace
          BY <3>1, <4>1 DEF Sound
        <5>2. topics[v] \subseteq {TopicForRun(data[v], r) : r \in RunId}
          BY <2>1, <4>1 DEF ViewerInv, Heard
        <5> QED BY <5>1, <5>2
      <4>2. CASE conn[v] # "open"
        BY <3>1, <4>2 DEF Sound
      <4> QED BY <4>1, <4>2
    <3> QED BY <2>1, <3>1, <3>2 DEF Sound, ByViewer
  <2>4. \A n \in Namespace, r \in RunId : \A i \in DOMAIN announced[n][r] :
           announced[n][r][i].runId = r /\ announced[n][r][i].sequence = i
    BY <2>1 DEF Numbered
  <2> QED BY <2>2, <2>3, <2>4 DEF TypeOK, Codes
<1> QED BY <1>1, Invariance, PTL

\* Whoever is connected, whatever is announced and however frames are dropped,
\* a viewer renders frames of its own tenant's runs only, of runs it asked for,
\* each at the time and place it was announced.
THEOREM OwnRuns == Spec => []ViewersSeeTheirOwnRuns
<1>1. IInv => ViewersSeeTheirOwnRuns
  BY DEF IInv, ViewerInv, Seen, AskedFor, ViewersSeeTheirOwnRuns
<1> QED BY <1>1, Invariance, PTL

\* Whatever is announced, a state is rendered as it was announced or not at all,
\* but for a queue position that is not a number.
THEOREM AsAnnounced == Spec => []FramesArriveAsAnnounced
<1>1. IInv => FramesArriveAsAnnounced
  BY DEF IInv, ViewerInv, Seen, FramesArriveAsAnnounced
<1> QED BY <1>1, Invariance, PTL

\* A connection that stays open has had all its messages read, and hears what
\* the last of them for each run says: none is dropped without closing it.
THEOREM NoneDropped == Spec => []NoRequestIsDroppedInSilence
<1>1. IInv => NoRequestIsDroppedInSilence
  <2> SUFFICES ASSUME IInv, NEW v \in Viewer, conn[v] = "open", inbox[v] = <<>>
               PROVE  LET requests == [i \in DOMAIN asked[v] |-> ParseViewerRequest(asked[v][i])]
                          about(r) == {i \in DOMAIN requests :
                                          requests[i] # Rejected /\ requests[i].runId = r}
                      IN  /\ \A i \in DOMAIN requests : requests[i] # Rejected
                          /\ topics[v] = {TopicForRun(data[v], r) : r \in
                                {s \in RunId : \E i \in about(s) : /\ requests[i].kind = "watch"
                                                                   /\ \A j \in about(s) : j <= i}}
    BY DEF NoRequestIsDroppedInSilence
  <2> DEFINE requests == [i \in DOMAIN asked[v] |-> ParseViewerRequest(asked[v][i])]
             about(r) == {i \in DOMAIN requests : requests[i] # Rejected /\ requests[i].runId = r}
             watched(s) == \E i \in about(s) : /\ requests[i].kind = "watch"
                                               /\ \A j \in about(s) : j <= i
             l == Len(asked[v])
  <2>1. /\ asked[v] \in Seq(Message)
        /\ Heard(data[v], topics[v], <<>>, asked[v])
    BY DEF IInv, ViewerInv, Sound
  <2>2. DOMAIN requests = 1 .. l /\ l \in Nat /\ l - Len(<<>>) = l
    BY <2>1
  <2>3. /\ \A i \in 1 .. l : ParseViewerRequest(asked[v][i]) # Rejected
        /\ topics[v] \subseteq {TopicForRun(data[v], r) : r \in RunId}
        /\ \A r \in RunId : TopicForRun(data[v], r) \in topics[v] <=> Watches(asked[v], l, r)
    BY <2>1, <2>2 DEF Heard
  <2>4. \A i \in 1 .. l : requests[i] = ParseViewerRequest(asked[v][i]) /\ requests[i] # Rejected
    BY <2>2, <2>3
  <2>5. ASSUME NEW s \in RunId PROVE watched(s) <=> Watches(asked[v], l, s)
    <3>1. about(s) = {i \in 1 .. l : ParseViewerRequest(asked[v][i]).runId = s}
      BY <2>2, <2>4
    <3>2. \A i \in 1 .. l : ParseViewerRequest(asked[v][i]) = [kind |-> "watch", runId |-> s] <=>
             i \in about(s) /\ requests[i].kind = "watch"
      <4> SUFFICES ASSUME NEW i \in 1 .. l
                   PROVE  ParseViewerRequest(asked[v][i]) = [kind |-> "watch", runId |-> s] <=>
                             i \in about(s) /\ requests[i].kind = "watch"
        OBVIOUS
      <4> DEFINE q == ParseViewerRequest(asked[v][i])
      <4>1. q = [kind |-> q.kind, runId |-> q.runId] /\ requests[i] = q
        BY <2>4, Parsed
      <4>2. i \in about(s) <=> q.runId = s
        BY <3>1
      <4> QED BY <4>1, <4>2
    <3>3. \A j \in 1 .. l : /\ ParseViewerRequest(asked[v][j]) # Rejected
                            /\ ParseViewerRequest(asked[v][j]).runId = s
                            <=> j \in about(s)
      BY <2>3, <3>1
    <3> QED BY <3>1, <3>2, <3>3 DEF Watches
  <2> HIDE DEF watched
  <2>6. topics[v] = {TopicForRun(data[v], r) : r \in {s \in RunId : watched(s)}}
    <3>1. \A t \in topics[v] : \E r \in {s \in RunId : watched(s)} : t = TopicForRun(data[v], r)
      BY <2>3, <2>5
    <3>2. \A r \in {s \in RunId : watched(s)} : TopicForRun(data[v], r) \in topics[v]
      BY <2>3, <2>5
    <3> QED BY <3>1, <3>2
  <2> QED BY <2>2, <2>4, <2>6 DEF watched
<1> QED BY <1>1, Invariance, PTL
=============================================================================
