------------------------------ MODULE Retention ------------------------------
(***************************************************************************)
(* The retention schedule and two things it disposes of: the content of    *)
(* execution logs, sealed under one key a month, with the proofs that such *)
(* a key was destroyed; and cached completions.  The clock counts days.    *)
(*                                                                         *)
(* Operations are atomic here; how those on keys interleave is the subject *)
(* of KeyCustody.  Content is known by the generation of the bucket key it *)
(* was sealed under.  What calls the redaction and the cache is not in the *)
(* code: the calls come in any order, the redaction's with any day of the  *)
(* month it is to dispose of.  `destroyedOn', `current' and `served' are   *)
(* history variables.                                                      *)
(***************************************************************************)
EXTENDS Integers, FiniteSets

CONSTANTS Days,          \* RETENTION_SCHEDULE: days by class, where a clock disposes
          DaysInMonth,
          Namespace, Prompt,
          LastDay,       \* bound: the clock stops here
          MaxGen,        \* bound: a bucket's key is created this often
          None

Class == {"prompts-and-completions", "execution-log-metadata",
          "execution-log-content", "billing-records", "agent-memory", "backups"}

ASSUME RetentionAssumption ==
    /\ Days \in [Class -> Nat]
    /\ DaysInMonth \in Nat \ {0}
    /\ LastDay \in Nat /\ MaxGen \in Nat

Day == 0 .. LastDay

ExpiresAt(class, writtenAt) == writtenAt + Days[class]

\* Fault: due a day early.
DueEarly(class, writtenAt, now) == now >= writtenAt + Days[class] - 1

IsDueForDisposal(class, writtenAt, now) == now >= ExpiresAt(class, writtenAt)

DisposalCutoff(class, now) == now - Days[class]

\* bucketFor: the month of a date; one class is all that is bucketed here.
BucketFor(at) == at \div DaysInMonth

Bucket == {BucketFor(d) : d \in Day}

Sealed == [at : Day, gen : 1 .. MaxGen]

CacheKey == [namespace : Namespace, prompt : Prompt]

VARIABLES today,
          content,      \* the execution-log content sealed so far
          keys,         \* the bucket keys: how often created, and whether alive
          proofs,       \* the deletion registry: the day a bucket was destroyed
          destroyedOn,  \* history: the day each content stopped being readable
          cache,        \* InMemoryResponseCache: the day an answer was stored
          current,      \* history: the day of the last answer stored and not invalidated
          served        \* history: the answer the cache last gave, and when

contentVars == <<content, keys, proofs, destroyedOn>>
cacheVars == <<cache, current, served>>
retentionVars == <<today, contentVars, cacheVars>>

RetentionInit ==
    /\ today = 0
    /\ content = {}
    /\ keys = [b \in Bucket |-> [gen |-> 0, live |-> FALSE]]
    /\ proofs = [b \in Bucket |-> None]
    /\ destroyedOn = [c \in {} |-> 0]
    /\ cache = [k \in CacheKey |-> None]
    /\ current = [k \in CacheKey |-> None]
    /\ served = None

Opens(c) ==
    LET key == keys[BucketFor(c.at)] IN key.live /\ key.gen = c.gen
-----------------------------------------------------------------------------
\* seal of today's content; issuing a data key creates the key when there is none.
Seal ==
    LET b   == BucketFor(today)
        gen == IF keys[b].live THEN keys[b].gen ELSE keys[b].gen + 1
    IN  /\ gen <= MaxGen
        /\ keys' = [keys EXCEPT ![b] = [gen |-> gen, live |-> TRUE]]
        /\ content' = content \cup {[at |-> today, gen |-> gen]}
        /\ UNCHANGED <<today, proofs, destroyedOn, cacheVars>>

\* redactExpiredContent for a day of the month to dispose of: refused before its
\* period has run; answered from the registry when the bucket was destroyed
\* before, and otherwise destroying it and recording that.
RedactExpiredContent(writtenAt) ==
    LET b == BucketFor(writtenAt) IN
    /\ IsDueForDisposal("execution-log-content", writtenAt, today)
    /\ proofs[b] = None
    /\ keys' = [keys EXCEPT ![b].live = FALSE]
    /\ proofs' = [proofs EXCEPT ![b] = today]
    /\ destroyedOn' = [c \in DOMAIN destroyedOn \cup {o \in content : Opens(o) /\ BucketFor(o.at) = b}
                         |-> IF c \in DOMAIN destroyedOn THEN destroyedOn[c] ELSE today]
    /\ UNCHANGED <<today, content, cacheVars>>

\* disposeExpired of the deletion registry.
DisposeProofs ==
    LET cutoff == DisposalCutoff("execution-log-metadata", today) IN
    /\ proofs' = [b \in Bucket |->
                    IF proofs[b] # None /\ proofs[b] <= cutoff THEN None ELSE proofs[b]]
    /\ UNCHANGED <<today, content, keys, destroyedOn, cacheVars>>
-----------------------------------------------------------------------------
CacheSet(k) ==
    /\ cache' = [cache EXCEPT ![k] = today]
    /\ current' = [current EXCEPT ![k] = today]
    /\ UNCHANGED <<today, contentVars, served>>

\* Past its period an entry is dropped on read and not served.
CacheGet(k) ==
    /\ cache[k] # None
    /\ IF IsDueForDisposal("prompts-and-completions", cache[k], today)
         THEN cache' = [cache EXCEPT ![k] = None] /\ served' = None
         ELSE served' = [key |-> k, storedAt |-> cache[k], on |-> today] /\ UNCHANGED cache
    /\ UNCHANGED <<today, contentVars, current>>

\* Fault: the invalidation stops at the first entry it finds.
InvalidateOne(n) ==
    /\ \E k \in CacheKey : k.namespace = n /\ cache' = [cache EXCEPT ![k] = None]
    /\ current' = [k \in CacheKey |-> IF k.namespace = n THEN None ELSE current[k]]
    /\ UNCHANGED <<today, contentVars, served>>

InvalidateNamespace(n) ==
    /\ cache' = [k \in CacheKey |-> IF k.namespace = n THEN None ELSE cache[k]]
    /\ current' = [k \in CacheKey |-> IF k.namespace = n THEN None ELSE current[k]]
    /\ UNCHANGED <<today, contentVars, served>>
-----------------------------------------------------------------------------
NextDay ==
    /\ today < LastDay
    /\ today' = today + 1
    /\ UNCHANGED <<contentVars, cacheVars>>

RetentionNext ==
    \/ Seal
    \/ \E d \in Day : RedactExpiredContent(d)
    \/ DisposeProofs
    \/ \E k \in CacheKey : CacheSet(k) \/ CacheGet(k)
    \/ \E n \in Namespace : InvalidateNamespace(n)
    \/ NextDay

RetentionSpec == RetentionInit /\ [][RetentionNext]_retentionVars
-----------------------------------------------------------------------------
TypeOK ==
    /\ today \in Day
    /\ content \subseteq Sealed
    /\ keys \in [Bucket -> [gen : 0 .. MaxGen, live : BOOLEAN]]
    /\ proofs \in [Bucket -> Day \cup {None}]
    /\ DOMAIN destroyedOn \subseteq content /\ \A c \in DOMAIN destroyedOn : destroyedOn[c] \in Day
    /\ cache \in [CacheKey -> Day \cup {None}] /\ current \in [CacheKey -> Day \cup {None}]

\* Redaction destroys content of a month only when some day of that month is a
\* whole period past, and it destroys all there is of it: what can be opened of
\* a month with a proof was sealed after the destruction (redact-expired-content.ts).
RedactionKeepsToTheSchedule ==
    /\ \A c \in DOMAIN destroyedOn :
          /\ ~Opens(c)
          /\ \E d \in Day : /\ BucketFor(d) = BucketFor(c.at)
                            /\ d + Days["execution-log-content"] <= destroyedOn[c]
    /\ \A c \in content :
          /\ ~Opens(c) => c \in DOMAIN destroyedOn
          /\ Opens(c) /\ proofs[BucketFor(c.at)] # None => c.at >= proofs[BucketFor(c.at)]

\* What the cache serves is the answer last stored for that tenant and prompt,
\* within its period and not invalidated since (response-cache.ts:37-47).
CachedAnswerIsCurrent ==
    [][served' # served /\ served' # None =>
          /\ served'.storedAt = current[served'.key]
          /\ today - served'.storedAt < Days["prompts-and-completions"]]_retentionVars

\* Content is readable for its whole period before redaction destroys it:
\* "retained 30 days and then redacted" (redact-expired-content.ts:19).
ContentIsKeptForItsPeriod ==
    \A c \in DOMAIN destroyedOn :
        destroyedOn[c] >= ExpiresAt("execution-log-content", c.at)
=============================================================================
