------------------------------ MODULE MCServe ------------------------------
\* Instances of ServeCompletion.  Two deliveries of one request are enough for a
\* holder and either a redelivery inside its window or a successor whose claim
\* the first holder outlives.
EXTENDS ServeCompletion

CONSTANTS d1, d2, r1, p1, p2, p3, p4, p5, eu, us

AllFor1 == [d \in Delivery |-> r1]
InEU == [r \in Request |-> eu]

Started == [kind |-> "run-started"]
Finished == [kind |-> "run-finished"]

Served(p) == <<[kind |-> "model-invoked", provider |-> p],
               [kind |-> "usage-recorded", invocationSeq |-> 1]>>

\* A first turn, a later turn, and the logs a closed run leaves behind.
AnyLogs == {<<>>, <<Started>> \o Served(p2), <<Finished>>,
            <<Started>> \o Served(p1) \o <<Finished>>}

BothInEU == [p \in Provider |-> eu]

\* Two usable providers and one without an adapter, among one stored abroad and
\* one without zero retention: the attempts run out before the candidates do in
\* some health snapshots, and the candidates before the attempts in others.
MixedProviders == <<p4, p1, p5, p2, p3>>
AllButP3 == Provider \ {p3}
AllButP5 == Provider \ {p5}
OneStoredAbroad == [p \in Provider |-> IF p = p4 THEN us ELSE eu]
SomeHealth == {Provider, Provider \ {p1}, {p1, p4}, {p4, p5}}
=============================================================================
