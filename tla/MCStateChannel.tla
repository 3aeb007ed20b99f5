--------------------------- MODULE MCStateChannel ---------------------------
\* Instances of StateChannel.
EXTENDS StateChannel

CONSTANTS v1, acme, globex, r1, r2

Noon == Text("noon")

At(at, state) == [at |-> at, state |-> state]

Thinking == [kind |-> Text("thinking"), objective |-> Text("find it")]
Silent == [kind |-> Text("thinking"), objective |-> Text("")]
Queued(position, start) ==
    [kind |-> Text("queued"), position |-> position, expectedStartAt |-> start]
Acting(tool) == [kind |-> Text("acting"), tool |-> Text(tool), subject |-> Text("it"),
                 scope |-> Text("read")]
Awaiting == [kind |-> Text("awaiting"), onApproval |-> Text("runs"),
             onRejection |-> Text("stops"), decideBy |-> Undefined]
Streaming == [kind |-> Text("streaming"), partial |-> Text("so far")]
Recovering(attempt) == [kind |-> Text("recovering"), attempt |-> attempt,
                        ofAttempts |-> Number(2), costReincurred |-> Bool(TRUE)]
Failed(committed) == [kind |-> Text("failed"), whatFailed |-> Text("it"), atStep |-> Text("acting"),
                      alreadyCommitted |-> List(committed), nextAction |-> Text("retry")]

Run(first, second, third) == <<At(Noon, first), At(Noon, second), At(Noon, third)>>

\* States of every kind, well-formed, malformed, and with nothing to tell; and a
\* frame at a time that is none.
MCScripts ==
    {Run(Thinking, Silent, Failed(<<>>)),
     Run(Queued(Number(-1), Noon), Acting("kb_search"), Failed(<<"">>)),
     Run(Queued(Undefined, Undefined), Acting("KB Search"), Awaiting),
     Run(Queued(NaN, Noon), Recovering(Fraction), Streaming),
     Run(Queued(Number(0), Undefined), [kind |-> Text("paused")], Recovering(Number(1))),
     <<At(Text("yesterday"), Thinking), At(Noon, Failed(<<"sent a mail">>))>>}

Request(kind, runId) == [text |-> TRUE, json |-> TRUE, kind |-> kind, runId |-> runId]

Requests == {Request(k, r) : k \in {"watch", "unwatch"}, r \in RunId}

MCMessages ==
    Requests \cup {Request("subscribe", r1), Request("watch", None),
                   [text |-> TRUE, json |-> FALSE, kind |-> "watch", runId |-> None],
                   [text |-> FALSE, json |-> FALSE, kind |-> "watch", runId |-> None]}
=============================================================================
