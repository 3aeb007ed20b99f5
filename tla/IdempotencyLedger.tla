------------------------- MODULE IdempotencyLedger -------------------------
(***************************************************************************)
(* The durable claim ledger of the serving component: one row per          *)
(* (namespace, request hash), written before any provider is called and    *)
(* completed with an outcome later.  A row is what a redelivery reads.     *)
(*                                                                         *)
(* Every operation of the store is one BEGIN IMMEDIATE transaction, so it  *)
(* is one operator here, from the table before it to the table after it.   *)
(* A Request stands for the pair (namespace, hash): the namespace only     *)
(* derives from a verified tenant claim, and is part of the key.           *)
(* The sealed body of an outcome is the execution that produced it.        *)
(***************************************************************************)
EXTENDS Integers

CONSTANTS Request,    \* (namespace, request hash) pairs: the table's key
          Execution,  \* whoever may run the work of a request
          ClaimTtl,   \* CLAIM_TTL_MS, in clock ticks
          NoClaim,    \* no row
          NoOutcome   \* outcome IS NULL: the claim is in flight

Outcome == [status : {"succeeded", "failed"}, by : Execution]

Row == [claimedAt : Nat, expiresAt : Nat, outcome : Outcome \cup {NoOutcome}]

ASSUME LedgerAssumption ==
    /\ ClaimTtl \in Nat \ {0}
    /\ NoClaim \notin Row
    /\ NoOutcome \notin Outcome

Ledger == [Request -> Row \cup {NoClaim}]

EmptyLedger == [r \in Request |-> NoClaim]

\* Faults: slips in the two operators below, kept to show which property
\* notices them.  The first forgets that a claim in flight is a claim; the
\* second counts the lifetime one tick short.
AnswersOnceSettled(ledger, r, at) ==
    /\ ledger[r] # NoClaim
    /\ at < ledger[r].expiresAt
    /\ ledger[r].outcome # NoOutcome

ClaimedShort(ledger, r, at) ==
    [ledger EXCEPT ![r] = [claimedAt |-> at, expiresAt |-> at + ClaimTtl - 1,
                           outcome |-> NoOutcome]]

\* An expired claim is not a claim, whether or not it has been swept.
Answers(ledger, r, at) ==
    /\ ledger[r] # NoClaim
    /\ at < ledger[r].expiresAt

\* INSERT OR REPLACE: a stale outcome never survives under a fresh claim.
Claimed(ledger, r, at) ==
    [ledger EXCEPT ![r] = [claimedAt |-> at, expiresAt |-> at + ClaimTtl,
                           outcome |-> NoOutcome]]

\* UPDATE by key: nothing here asks which execution holds the row, or whether
\* the row has expired.  With no row the failure is "unknown-claim".
Completed(ledger, r, outcome) ==
    IF ledger[r] = NoClaim
      THEN ledger
      ELSE [ledger EXCEPT ![r].outcome = outcome]

Swept(ledger, at) ==
    [r \in Request |->
        IF ledger[r] # NoClaim /\ ledger[r].expiresAt <= at
          THEN NoClaim
          ELSE ledger[r]]
=============================================================================
