---------------------------- MODULE RecordProofs ----------------------------
(***************************************************************************)
(* What is kept, and what is read out of it.                               *)
(*                                                                         *)
(* First the retention schedule: redaction and the response cache keep to  *)
(* it whatever the periods, the length of a month and the number of tenants*)
(* are.  The argument is about generations: content was sealed under a     *)
(* generation its bucket key has had, so a key that is created again opens *)
(* nothing sealed before, and what does not open was destroyed by a        *)
(* redaction that was due.                                                 *)
(*                                                                         *)
(* Then the readings of a log of any length: damage is located, the spans  *)
(* tell the states, reconciliation finds the source that went wrong, no two*)
(* readings disagree, and none is contradicted by a later one.  The first  *)
(* rests on how the entries of a log commit to each other, the second on an*)
(* induction over the log, the third on the sums of the three sources over *)
(* every period at once, the others on sums over parts of the settlements. *)
(***************************************************************************)
EXTENDS Retention, CostReconciliation, SequenceTheorems, FiniteSetTheorems,
        WellFoundedInduction, TLAPS

\* What has been sealed and recorded lies in the past of the clock, and of the key.
PastInv ==
    /\ \A c \in content : c.at <= today /\ c.gen <= keys[BucketFor(c.at)].gen
    /\ \A b \in Bucket : /\ keys[b].live => keys[b].gen > 0
                         /\ proofs[b] # None => proofs[b] <= today

\* The cache holds nothing but the current answers.
CacheInv == \A k \in CacheKey : cache[k] # None => cache[k] = current[k]

IInv == TypeOK /\ PastInv /\ CacheInv /\ RedactionKeepsToTheSchedule

\* Every day lies in a bucket.
LEMMA DayBucket == \A d \in Day : BucketFor(d) \in Bucket
BY DEF Bucket

\* The initial state satisfies the invariant.
LEMMA InitInv == RetentionInit => IInv
BY RetentionAssumption, SMTT(20)
   DEF RetentionInit, IInv, TypeOK, PastInv, CacheInv, RedactionKeepsToTheSchedule, Opens, Day, Sealed

\* Sealing under the live key, or under one created for it, opens nothing older.
LEMMA SealInv == IInv /\ Seal => IInv'
<1> SUFFICES ASSUME IInv, Seal PROVE IInv'
  OBVIOUS
<1> DEFINE b == BucketFor(today)
           gen == IF keys[b].live THEN keys[b].gen ELSE keys[b].gen + 1
           new == [at |-> today, gen |-> gen]
<1>1. /\ today \in Day /\ b \in Bucket /\ content \subseteq Sealed
      /\ keys \in [Bucket -> [gen : 0 .. MaxGen, live : BOOLEAN]]
  BY DayBucket DEF IInv, TypeOK
<1>2. /\ keys' = [keys EXCEPT ![b] = [gen |-> gen, live |-> TRUE]]
      /\ content' = content \cup {new} /\ gen <= MaxGen
      /\ UNCHANGED <<today, proofs, destroyedOn, cache, current, served>>
  BY DEF Seal, cacheVars
<1>3. /\ keys[b].live \in BOOLEAN /\ keys[b].gen \in 0 .. MaxGen
      /\ keys[b].live => keys[b].gen > 0
  BY <1>1 DEF IInv, PastInv
<1>4. gen \in 1 .. MaxGen
  <2>1. CASE keys[b].live = FALSE
    BY <1>2, <1>3, <2>1, RetentionAssumption
  <2>2. CASE keys[b].live = TRUE
    BY <1>2, <1>3, <2>2, RetentionAssumption
  <2> QED BY <1>3, <2>1, <2>2
<1>5. gen = keys[b].gen \/ (~keys[b].live /\ gen = keys[b].gen + 1)
  OBVIOUS
<1>6. new.at = today /\ new.gen = gen
  OBVIOUS
<1>7. new \in Sealed
  BY <1>1, <1>4 DEF Sealed
<1>8. \A a \in Bucket : keys'[a] = IF a = b THEN [gen |-> gen, live |-> TRUE] ELSE keys[a]
  BY <1>1, <1>2
<1> HIDE DEF gen, new
<1>9. \A c \in content : /\ c \in Sealed /\ BucketFor(c.at) \in Bucket
                         /\ c.at \in Day /\ c.gen \in 1 .. MaxGen
  BY <1>1, DayBucket DEF Sealed
<1>10. \A c \in content : Opens(c)' => Opens(c)
  <2> SUFFICES ASSUME NEW c \in content, Opens(c)' PROVE Opens(c)
    OBVIOUS
  <2>1. c.gen <= keys[BucketFor(c.at)].gen /\ c.gen \in Nat
    BY <1>9 DEF IInv, PastInv
  <2>2. CASE BucketFor(c.at) = b
    <3>1. c.gen = gen
      BY <1>8, <1>1, <2>2 DEF Opens
    <3>2. ~(gen = keys[b].gen + 1)
      BY <1>3, <2>1, <2>2, <3>1
    <3>3. keys[b].live \/ gen = keys[b].gen
      BY <1>5, <3>2
    <3>4. keys[b].live
      BY <1>5, <3>2, <3>3, <1>3, <1>4 DEF gen
    <3> QED BY <2>2, <3>1, <3>2, <3>4, <1>5 DEF Opens
  <2>3. CASE BucketFor(c.at) # b
    BY <1>8, <1>9, <2>3 DEF Opens
  <2> QED BY <2>2, <2>3
<1>11. \A c \in content : Opens(c) => Opens(c)'
  <2> SUFFICES ASSUME NEW c \in content, Opens(c) PROVE Opens(c)'
    OBVIOUS
  <2>1. BucketFor(c.at) = b => gen = keys[b].gen
    BY DEF Opens, gen
  <2> QED BY <1>8, <1>9, <2>1 DEF Opens
<1>12. PICK fresh \in Sealed : fresh = new
  BY <1>7
<1>17. Opens(fresh)'
  BY <1>1, <1>2, <1>6, <1>8, <1>12 DEF Opens
<1>13. TypeOK'
  <2>1. keys' \in [Bucket -> [gen : 0 .. MaxGen, live : BOOLEAN]]
    BY <1>1, <1>2, <1>4
  <2>2. DOMAIN destroyedOn' \subseteq content'
    BY <1>2 DEF IInv, TypeOK
  <2> QED BY <1>2, <1>7, <2>1, <2>2 DEF IInv, TypeOK
<1>14. PastInv'
  <2>1. ASSUME NEW c \in content' PROVE c.at <= today' /\ c.gen <= keys'[BucketFor(c.at)].gen
    <3>1. CASE c = new
      BY <3>1, <1>1, <1>2, <1>4, <1>6, <1>8 DEF Day
    <3>2. CASE c \in content
      <4>1. c.at <= today /\ c.gen <= keys[BucketFor(c.at)].gen
        BY <3>2 DEF IInv, PastInv
      <4>2. CASE BucketFor(c.at) = b
        BY <4>1, <4>2, <3>2, <1>2, <1>3, <1>4, <1>5, <1>8, <1>9
      <4>3. CASE BucketFor(c.at) # b
        BY <4>1, <4>3, <3>2, <1>2, <1>8, <1>9
      <4> QED BY <4>2, <4>3
    <3> QED BY <2>1, <3>1, <3>2, <1>2
  <2>2. ASSUME NEW a \in Bucket
        PROVE /\ keys'[a].live => keys'[a].gen > 0
              /\ proofs'[a] # None => proofs'[a] <= today'
    BY <1>2, <1>4, <1>8 DEF IInv, PastInv
  <2> QED BY <2>1, <2>2 DEF PastInv
<1>15. CacheInv'
  BY <1>2 DEF IInv, CacheInv
<1>16. RedactionKeepsToTheSchedule'
  <2>1. ASSUME NEW c \in DOMAIN destroyedOn'
        PROVE /\ ~Opens(c)'
              /\ \E d \in Day : /\ BucketFor(d) = BucketFor(c.at)
                                /\ d + Days["execution-log-content"] <= destroyedOn'[c]
    <3>1. c \in DOMAIN destroyedOn /\ c \in content
      BY <1>2, <2>1 DEF IInv, TypeOK
    <3> QED BY <3>1, <1>2, <1>10 DEF IInv, RedactionKeepsToTheSchedule
  <2>2. ASSUME NEW c \in content'
        PROVE /\ ~Opens(c)' => c \in DOMAIN destroyedOn'
              /\ Opens(c)' /\ proofs'[BucketFor(c.at)] # None => c.at >= proofs'[BucketFor(c.at)]
    <3>1. CASE c = fresh
      BY <3>1, <1>1, <1>2, <1>6, <1>12, <1>17 DEF IInv, PastInv, Day
    <3>2. CASE c \in content
      BY <3>2, <1>2, <1>10, <1>11 DEF IInv, RedactionKeepsToTheSchedule
    <3> QED BY <2>2, <3>1, <3>2, <1>2, <1>12
  <2> QED BY <2>1, <2>2 DEF RedactionKeepsToTheSchedule
<1> QED BY <1>13, <1>14, <1>15, <1>16 DEF IInv

\* A redaction that is due destroys what could be opened of the month, and only that.
LEMMA RedactInv == ASSUME IInv, NEW w \in Day, RedactExpiredContent(w) PROVE IInv'
<1> DEFINE b == BucketFor(w)
           lost == {o \in content : Opens(o) /\ BucketFor(o.at) = b}
<1>1. /\ b \in Bucket /\ content \subseteq Sealed /\ today \in Day
      /\ keys \in [Bucket -> [gen : 0 .. MaxGen, live : BOOLEAN]]
      /\ proofs \in [Bucket -> Day \cup {None}]
  BY DayBucket DEF IInv, TypeOK
<1>2. /\ w + Days["execution-log-content"] <= today
      /\ keys' = [keys EXCEPT ![b].live = FALSE]
      /\ proofs' = [proofs EXCEPT ![b] = today]
      /\ destroyedOn' = [c \in DOMAIN destroyedOn \cup lost
                           |-> IF c \in DOMAIN destroyedOn THEN destroyedOn[c] ELSE today]
      /\ UNCHANGED <<today, content, cache, current, served>>
  <2>1. Days["execution-log-content"] \in Nat
    BY RetentionAssumption DEF Class
  <2> QED BY <1>1, <2>1 DEF RedactExpiredContent, IsDueForDisposal, ExpiresAt, cacheVars, Day
<1>3. \A a \in Bucket : /\ keys'[a].live = IF a = b THEN FALSE ELSE keys[a].live
                        /\ keys'[a].gen = keys[a].gen
  BY <1>1, <1>2
<1>4. \A c \in content : BucketFor(c.at) \in Bucket /\ c.at \in Day
  BY <1>1, DayBucket DEF Sealed
<1>5. \A c \in content : Opens(c)' <=> Opens(c) /\ c \notin lost
  BY <1>3, <1>4 DEF Opens
<1>6. \A c \in content : Opens(c)' => BucketFor(c.at) # b
  BY <1>3, <1>4 DEF Opens
<1>7. DOMAIN destroyedOn \subseteq content /\ \A c \in DOMAIN destroyedOn : destroyedOn[c] \in Day
  BY DEF IInv, TypeOK
<1>8. /\ DOMAIN destroyedOn' = DOMAIN destroyedOn \cup lost
      /\ \A c \in DOMAIN destroyedOn : destroyedOn'[c] = destroyedOn[c]
      /\ \A c \in lost : c \notin DOMAIN destroyedOn => destroyedOn'[c] = today
  BY <1>2
<1>9. TypeOK'
  <2>1. keys' \in [Bucket -> [gen : 0 .. MaxGen, live : BOOLEAN]]
    BY <1>1, <1>2
  <2>2. proofs' \in [Bucket -> Day \cup {None}]
    BY <1>1, <1>2
  <2>3. /\ DOMAIN destroyedOn' \subseteq content'
        /\ \A c \in DOMAIN destroyedOn' : destroyedOn'[c] \in Day
    BY <1>1, <1>2, <1>7, <1>8
  <2> QED BY <1>2, <2>1, <2>2, <2>3 DEF IInv, TypeOK
<1>10. PastInv'
  <2>1. \A c \in content' : c.at <= today' /\ c.gen <= keys'[BucketFor(c.at)].gen
    BY <1>2, <1>3, <1>4 DEF IInv, PastInv
  <2>2. ASSUME NEW a \in Bucket
        PROVE /\ keys'[a].live => keys'[a].gen > 0
              /\ proofs'[a] # None => proofs'[a] <= today'
    BY <1>1, <1>2, <1>3 DEF IInv, PastInv, Day
  <2> QED BY <2>1, <2>2 DEF PastInv
<1>11. CacheInv'
  BY <1>2 DEF IInv, CacheInv
<1>12. RedactionKeepsToTheSchedule'
  <2>1. ASSUME NEW c \in DOMAIN destroyedOn'
        PROVE /\ ~Opens(c)'
              /\ \E d \in Day : /\ BucketFor(d) = BucketFor(c.at)
                                /\ d + Days["execution-log-content"] <= destroyedOn'[c]
    <3>1. CASE c \in DOMAIN destroyedOn
      BY <3>1, <1>5, <1>7, <1>8 DEF IInv, RedactionKeepsToTheSchedule
    <3>2. CASE c \in lost /\ c \notin DOMAIN destroyedOn
      BY <3>2, <1>2, <1>5, <1>8
    <3> QED BY <2>1, <3>1, <3>2, <1>8
  <2>2. ASSUME NEW c \in content'
        PROVE /\ ~Opens(c)' => c \in DOMAIN destroyedOn'
              /\ Opens(c)' /\ proofs'[BucketFor(c.at)] # None => c.at >= proofs'[BucketFor(c.at)]
    <3>1. c \in content
      BY <1>2
    <3>2. ~Opens(c)' => c \in DOMAIN destroyedOn'
      BY <3>1, <1>5, <1>8 DEF IInv, RedactionKeepsToTheSchedule
    <3>3. ASSUME Opens(c)' PROVE proofs'[BucketFor(c.at)] = proofs[BucketFor(c.at)] /\ Opens(c)
      BY <3>1, <3>3, <1>1, <1>2, <1>4, <1>5, <1>6
    <3> QED BY <3>1, <3>2, <3>3 DEF IInv, RedactionKeepsToTheSchedule
  <2> QED BY <2>1, <2>2 DEF RedactionKeepsToTheSchedule
<1> QED BY <1>9, <1>10, <1>11, <1>12 DEF IInv

\* Disposing of a proof takes nothing back but the proof.
LEMMA DisposeInv == IInv /\ DisposeProofs => IInv'
<1> SUFFICES ASSUME IInv, DisposeProofs PROVE IInv'
  OBVIOUS
<1>1. /\ \A b \in Bucket : proofs'[b] = proofs[b] \/ proofs'[b] = None
      /\ proofs' \in [Bucket -> Day \cup {None}]
      /\ UNCHANGED <<today, content, keys, destroyedOn, cache, current, served>>
  <2> DEFINE P(b) == IF proofs[b] # None /\ proofs[b] <= DisposalCutoff("execution-log-metadata", today)
                       THEN None ELSE proofs[b]
  <2>1. proofs' = [b \in Bucket |-> P(b)]
    BY DEF DisposeProofs
  <2>2. \A b \in Bucket : P(b) = proofs[b] \/ P(b) = None
    OBVIOUS
  <2>3. proofs \in [Bucket -> Day \cup {None}]
    BY DEF IInv, TypeOK
  <2> HIDE DEF P
  <2>4. \A b \in Bucket : P(b) \in Day \cup {None}
    BY <2>2, <2>3
  <2>5. UNCHANGED <<today, content, keys, destroyedOn, cache, current, served>>
    BY DEF DisposeProofs, cacheVars
  <2> QED BY <2>1, <2>2, <2>4, <2>5
<1>2. \A c \in content : BucketFor(c.at) \in Bucket
  BY DayBucket DEF IInv, TypeOK, Sealed
<1>3. TypeOK'
  BY <1>1 DEF IInv, TypeOK
<1>4. PastInv'
  BY <1>1 DEF IInv, PastInv
<1>5. CacheInv'
  BY <1>1 DEF IInv, CacheInv
<1>6. \A c : Opens(c)' <=> Opens(c)
  BY <1>1 DEF Opens
<1>7. RedactionKeepsToTheSchedule'
  BY <1>1, <1>2, <1>6 DEF IInv, RedactionKeepsToTheSchedule
<1> QED BY <1>3, <1>4, <1>5, <1>7 DEF IInv

\* What leaves the content and the keys alone keeps their part of the invariant.
LEMMA ContentStays ==
    ASSUME IInv, UNCHANGED <<content, keys, proofs, destroyedOn>>,
           today' \in Day, today' >= today,
           cache' \in [CacheKey -> Day \cup {None}], current' \in [CacheKey -> Day \cup {None}],
           CacheInv'
    PROVE  IInv'
<1>1. TypeOK'
  BY DEF IInv, TypeOK
<1>2. PastInv'
  <2>1. \A c \in content : c.at \in Day /\ c.at <= today
    BY DEF IInv, TypeOK, PastInv, Sealed
  <2>2. \A b \in Bucket : proofs[b] # None => proofs[b] \in Day /\ proofs[b] <= today
    BY DEF IInv, TypeOK, PastInv
  <2>3. today \in Day
    BY DEF IInv, TypeOK
  <2>4. \A c \in content : c.at <= today'
    BY <2>1, <2>3 DEF Day
  <2>5. \A b \in Bucket : proofs[b] # None => proofs[b] <= today'
    BY <2>2, <2>3 DEF Day
  <2> QED BY <2>4, <2>5 DEF IInv, PastInv
<1>3. \A c : Opens(c)' <=> Opens(c)
  BY DEF Opens
<1>4. RedactionKeepsToTheSchedule'
  BY <1>3 DEF IInv, RedactionKeepsToTheSchedule
<1> QED BY <1>1, <1>2, <1>4 DEF IInv

\* A step of the cache keeps the invariant.
LEMMA CacheStepInv ==
    ASSUME IInv,
           \/ \E k \in CacheKey : CacheSet(k) \/ CacheGet(k)
           \/ \E n \in Namespace : InvalidateNamespace(n)
    PROVE  IInv'
<1>1. /\ today \in Day /\ today >= today
      /\ cache \in [CacheKey -> Day \cup {None}] /\ current \in [CacheKey -> Day \cup {None}]
      /\ CacheInv
  BY DEF IInv, TypeOK, Day
<1>2. CASE \E k \in CacheKey : CacheSet(k)
  <2> PICK k \in CacheKey : CacheSet(k)
    BY <1>2
  <2>1. /\ UNCHANGED <<today, content, keys, proofs, destroyedOn>>
        /\ cache' = [cache EXCEPT ![k] = today] /\ current' = [current EXCEPT ![k] = today]
    BY DEF CacheSet, contentVars
  <2>2. CacheInv'
    BY <1>1, <2>1 DEF CacheInv
  <2>3. cache' \in [CacheKey -> Day \cup {None}] /\ current' \in [CacheKey -> Day \cup {None}]
    BY <1>1, <2>1
  <2> QED BY <1>1, <2>1, <2>2, <2>3, ContentStays
<1>3. CASE \E k \in CacheKey : CacheGet(k)
  <2> PICK k \in CacheKey : CacheGet(k)
    BY <1>3
  <2>1. /\ UNCHANGED <<today, content, keys, proofs, destroyedOn, current>>
        /\ cache' = [cache EXCEPT ![k] = None] \/ cache' = cache
    BY DEF CacheGet, contentVars
  <2>2. CacheInv'
    BY <1>1, <2>1 DEF CacheInv
  <2>3. cache' \in [CacheKey -> Day \cup {None}]
    BY <1>1, <2>1
  <2> QED BY <1>1, <2>1, <2>2, <2>3, ContentStays
<1>4. CASE \E n \in Namespace : InvalidateNamespace(n)
  <2> PICK n \in Namespace : InvalidateNamespace(n)
    BY <1>4
  <2>1. /\ UNCHANGED <<today, content, keys, proofs, destroyedOn>>
        /\ cache' = [k \in CacheKey |-> IF k.namespace = n THEN None ELSE cache[k]]
        /\ current' = [k \in CacheKey |-> IF k.namespace = n THEN None ELSE current[k]]
    BY DEF InvalidateNamespace, contentVars
  <2>2. CacheInv'
    BY <1>1, <2>1 DEF CacheInv
  <2>3. cache' \in [CacheKey -> Day \cup {None}] /\ current' \in [CacheKey -> Day \cup {None}]
    BY <1>1, <2>1
  <2> QED BY <1>1, <2>1, <2>2, <2>3, ContentStays
<1> QED BY <1>2, <1>3, <1>4

\* Every step, and every step that changes nothing, keeps the invariant.
LEMMA StepInv == IInv /\ [RetentionNext]_retentionVars => IInv'
<1> SUFFICES ASSUME IInv, [RetentionNext]_retentionVars PROVE IInv'
  OBVIOUS
<1>1. CASE Seal
  BY <1>1, SealInv
<1>2. CASE \E d \in Day : RedactExpiredContent(d)
  BY <1>2, RedactInv
<1>3. CASE DisposeProofs
  BY <1>3, DisposeInv
<1>4. CASE \/ \E k \in CacheKey : CacheSet(k) \/ CacheGet(k)
           \/ \E n \in Namespace : InvalidateNamespace(n)
  BY <1>4, CacheStepInv
<1>5. /\ today \in Day
      /\ cache \in [CacheKey -> Day \cup {None}] /\ current \in [CacheKey -> Day \cup {None}]
      /\ CacheInv
  BY DEF IInv, TypeOK
<1>6. CASE NextDay
  <2>1. /\ today' = today + 1 /\ today < LastDay
        /\ UNCHANGED <<content, keys, proofs, destroyedOn, cache, current>>
    BY <1>6 DEF NextDay, contentVars, cacheVars
  <2>2. today' \in Day /\ today' >= today
    BY <1>5, <2>1, RetentionAssumption DEF Day
  <2>3. CacheInv'
    BY <1>5, <2>1 DEF CacheInv
  <2> QED BY <1>5, <2>1, <2>2, <2>3, ContentStays
<1>7. CASE UNCHANGED retentionVars
  <2>1. UNCHANGED <<today, content, keys, proofs, destroyedOn, cache, current>>
    BY <1>7 DEF retentionVars, contentVars, cacheVars
  <2>2. today' \in Day /\ today' >= today
    BY <1>5, <2>1 DEF Day
  <2>3. CacheInv'
    BY <1>5, <2>1 DEF CacheInv
  <2> QED BY <1>5, <2>1, <2>2, <2>3, ContentStays
<1> QED BY <1>1, <1>2, <1>3, <1>4, <1>6, <1>7 DEF RetentionNext

\* The invariant holds in every reachable state.
LEMMA Invariance == RetentionSpec => []IInv
<1> QED BY InitInv, StepInv, PTL DEF RetentionSpec

\* Content, keys, proofs and cached answers keep their types (Retention.tla).
THEOREM TypeCorrect == RetentionSpec => []TypeOK
<1>1. IInv => TypeOK
  BY DEF IInv
<1> QED BY <1>1, Invariance, PTL

\* No redaction is early for its whole month or leaves something of it behind
\* (redact-expired-content.ts), for any periods and any length of a month.
THEOREM OnSchedule == RetentionSpec => []RedactionKeepsToTheSchedule
<1>1. IInv => RedactionKeepsToTheSchedule
  BY DEF IInv
<1> QED BY <1>1, Invariance, PTL

\* The cache serves the current answer within its period (response-cache.ts).
THEOREM CacheIsCurrent == RetentionSpec => CachedAnswerIsCurrent
<1> DEFINE Current == served' # served /\ served' # None =>
                        /\ served'.storedAt = current[served'.key]
                        /\ today - served'.storedAt < Days["prompts-and-completions"]
<1>1. IInv /\ [RetentionNext]_retentionVars => [Current]_retentionVars
  <2> SUFFICES ASSUME IInv, [RetentionNext]_retentionVars, served' # served, served' # None
               PROVE /\ served'.storedAt = current[served'.key]
                     /\ today - served'.storedAt < Days["prompts-and-completions"]
    OBVIOUS
  <2>1. PICK k \in CacheKey : CacheGet(k)
    BY DEF RetentionNext, retentionVars, cacheVars, contentVars, Seal, RedactExpiredContent, DisposeProofs,
           CacheSet, InvalidateNamespace, NextDay
  <2>2. /\ cache[k] # None
        /\ ~IsDueForDisposal("prompts-and-completions", cache[k], today)
        /\ served' = [key |-> k, storedAt |-> cache[k], on |-> today]
    BY <2>1 DEF CacheGet
  <2>3. cache[k] = current[k] /\ cache[k] \in Day /\ today \in Day
    BY <2>2 DEF IInv, TypeOK, CacheInv
  <2>4. Days["prompts-and-completions"] \in Nat
    BY RetentionAssumption DEF Class
  <2>5. today - cache[k] < Days["prompts-and-completions"]
    BY <2>2, <2>3, <2>4 DEF IsDueForDisposal, ExpiresAt, Day
  <2> QED BY <2>2, <2>3, <2>5
<1> HIDE DEF Current
<1>2. RetentionSpec => [][Current]_retentionVars
  BY <1>1, Invariance, PTL DEF RetentionSpec
<1> QED BY <1>2 DEF Current, CachedAnswerIsCurrent
-----------------------------------------------------------------------------
(* What a fold over a log gives, entry by entry.                           *)

\* Induction over the naturals, for the set of the numbers a claim holds of.
LEMMA SetInduction ==
    ASSUME NEW S, 0 \in S, \A n \in Nat : n \in S => n + 1 \in S
    PROVE  Nat \subseteq S
<1> SUFFICES ASSUME Nat \ S # {} PROVE FALSE
  OBVIOUS
<1> DEFINE R == OpToRel(<, Nat)
           U == Nat \ S
<1>1. IsWellFoundedOn(R, Nat)
  BY NatLessThanWellFounded
<1>2. \E x \in U : \A y \in U : <<y, x>> \notin R
  <2>1. U \subseteq Nat /\ U # {}
    OBVIOUS
  <2> HIDE DEF R, U
  <2> QED BY <1>1, <2>1, WFMin
<1>3. PICK x \in Nat \ S : \A y \in Nat \ S : ~(y < x)
  BY <1>2 DEF OpToRel
<1>4. x # 0 /\ x - 1 \in Nat /\ (x - 1) + 1 = x /\ x - 1 < x
  OBVIOUS
<1> QED BY <1>3, <1>4

\* The reading before any entry.
Unread == [recovering |-> FALSE, spans |-> <<>>]

\* The function by which a fold reads the entries of s at a set of positions.
Reads(g, n, s) ==
    g = [u \in SUBSET (1 .. n) |->
           IF u = {} THEN Unread ELSE Stepped(g[u \ {Max(u)}], s[Max(u)])]

\* The least and the greatest of some numbers.
LEMMA MinIs ==
    ASSUME NEW S \in SUBSET Int, NEW m \in S, \A x \in S : m <= x
    PROVE  Min(S) = m
<1>1. \A x \in S : (\A y \in S : x =< y) => x = m
  <2> TAKE x \in S
  <2> HAVE \A y \in S : x =< y
  <2>1. x <= m /\ m <= x /\ x \in Int /\ m \in Int
    OBVIOUS
  <2> QED BY <2>1
<1> QED BY <1>1 DEF Min

\* The greatest likewise.
LEMMA MaxIs ==
    ASSUME NEW S \in SUBSET Int, NEW m \in S, \A x \in S : x <= m
    PROVE  Max(S) = m
<1>1. \A x \in S : (\A y \in S : x >= y) => x = m
  <2> TAKE x \in S
  <2> HAVE \A y \in S : x >= y
  <2>1. x <= m /\ m <= x /\ x \in Int /\ m \in Int
    OBVIOUS
  <2> QED BY <2>1
<1> QED BY <1>1 DEF Max

\* There is such a function.
LEMMA ReadsExists == ASSUME NEW s, NEW m \in Nat PROVE \E g : Reads(g, m, s)
<1> DEFINE S == {n \in Nat : \E g : Reads(g, n, s)}
<1>1. 0 \in S
  <2> DEFINE g == [u \in SUBSET (1 .. 0) |-> Unread]
  <2>1. \A u \in SUBSET (1 .. 0) : u = {}
    OBVIOUS
  <2>2. Reads(g, 0, s)
    BY <2>1 DEF Reads
  <2> QED BY <2>2
<1>2. ASSUME NEW n \in Nat, n \in S PROVE n + 1 \in S
  <2>1. PICK g : Reads(g, n, s)
    BY <1>2
  <2> DEFINE next(u) == IF n + 1 \in u THEN Stepped(g[u \ {n + 1}], s[n + 1]) ELSE g[u]
             h == [u \in SUBSET (1 .. n + 1) |-> next(u)]
             read(u) == IF u = {} THEN Unread
                                  ELSE Stepped(h[u \ {Max(u)}], s[Max(u)])
  <2>2. \A u \in SUBSET (1 .. n) : u \in SUBSET (1 .. n + 1) /\ n + 1 \notin u /\ h[u] = g[u]
    OBVIOUS
  <2>3. ASSUME NEW u \in SUBSET (1 .. n + 1) PROVE next(u) = read(u)
    <3>1. CASE n + 1 \in u
      <4>1. Max(u) = n + 1 /\ u # {}
        BY <3>1, MaxIs
      <4>2. u \ {n + 1} \in SUBSET (1 .. n)
        OBVIOUS
      <4>3. h[u \ {n + 1}] = g[u \ {n + 1}]
        BY <2>2, <4>2
      <4> QED BY <3>1, <4>1, <4>3
    <3>2. CASE n + 1 \notin u
      <4>0. \A x \in u : x \in 1 .. n
        BY <3>2
      <4>1. u \in SUBSET (1 .. n) /\ u \ {Max(u)} \in SUBSET (1 .. n)
        BY <4>0
      <4>2. g[u] = IF u = {} THEN Unread ELSE Stepped(g[u \ {Max(u)}], s[Max(u)])
        BY <2>1, <4>1 DEF Reads
      <4>3. h[u \ {Max(u)}] = g[u \ {Max(u)}]
        BY <2>2, <4>1
      <4> QED BY <3>2, <4>2, <4>3
    <3> QED BY <3>1, <3>2
  <2>4. h = [u \in SUBSET (1 .. n + 1) |-> read(u)]
    BY <2>3
  <2>5. Reads(h, n + 1, s)
    BY <2>4 DEF Reads
  <2> QED BY <2>5
<1>3. Nat \subseteq S
  <2> HIDE DEF S
  <2> QED BY <1>1, <1>2, SetInduction
<1> QED BY <1>3

\* The last of some entries is read after the others.
LEMMA ReadsLast ==
    ASSUME NEW s, NEW m \in Nat, NEW g, Reads(g, m, s), NEW k \in Nat, k + 1 <= m
    PROVE  g[1 .. k + 1] = Stepped(g[1 .. k], s[k + 1])
<1> DEFINE u == 1 .. k + 1
<1>1. u \in SUBSET (1 .. m) /\ k + 1 \in u /\ u # {} /\ u \ {k + 1} = 1 .. k
  OBVIOUS
<1>2. Max(u) = k + 1
  <2>1. u \in SUBSET Int /\ \A x \in u : x <= k + 1
    OBVIOUS
  <2> HIDE DEF u
  <2> QED BY <1>1, <2>1, MaxIs
<1> HIDE DEF u
<1>3. g[u] = IF u = {} THEN Unread ELSE Stepped(g[u \ {Max(u)}], s[Max(u)])
  BY <1>1 DEF Reads
<1>4. g[u] = Stepped(g[1 .. k], s[k + 1])
  BY <1>1, <1>2, <1>3
<1> QED BY <1>4 DEF u

\* The entries up to a position are read the same way in a longer sequence.
LEMMA ReadsAgree ==
    ASSUME NEW s, NEW t, NEW n \in Nat, NEW m \in Nat, n <= m,
           \A i \in 1 .. n : s[i] = t[i],
           NEW g, Reads(g, n, s), NEW h, Reads(h, m, t)
    PROVE  \A k \in 0 .. n : g[1 .. k] = h[1 .. k]
<1> DEFINE S == {k \in Nat : k <= n => g[1 .. k] = h[1 .. k]}
<1>1. 0 \in S
  <2>1. 1 .. 0 = {} /\ {} \in SUBSET (1 .. n) /\ {} \in SUBSET (1 .. m)
    OBVIOUS
  <2>2. g[{}] = Unread /\ h[{}] = Unread
    BY <2>1 DEF Reads
  <2> QED BY <2>1, <2>2
<1>2. ASSUME NEW k \in Nat, k \in S PROVE k + 1 \in S
  <2> SUFFICES ASSUME k + 1 <= n PROVE g[1 .. k + 1] = h[1 .. k + 1]
    OBVIOUS
  <2>1. k + 1 <= m /\ k + 1 \in 1 .. n
    OBVIOUS
  <2>4. g[1 .. k + 1] = Stepped(g[1 .. k], s[k + 1])
    <3>1. Reads(g, n, s) /\ k + 1 <= n
      OBVIOUS
    <3> HIDE DEF S
    <3> QED BY <3>1, ReadsLast
  <2>5. h[1 .. k + 1] = Stepped(h[1 .. k], t[k + 1])
    BY <2>1, ReadsLast
  <2>6. g[1 .. k] = h[1 .. k] /\ s[k + 1] = t[k + 1]
    BY <1>2, <2>1
  <2> QED BY <2>4, <2>5, <2>6
<1>3. Nat \subseteq S
  <2> HIDE DEF S
  <2> QED BY <1>1, <1>2, SetInduction
<1> QED BY <1>3

\* What is read of no entries, and of one more.
LEMMA ReadsMore ==
    ASSUME NEW S, NEW s \in Seq(S), NEW e \in S,
           NEW g, Reads(g, Len(s), s),
           NEW h, Reads(h, Len(Append(s, e)), Append(s, e))
    PROVE  h[1 .. Len(Append(s, e))] = Stepped(g[1 .. Len(s)], e)
<1> DEFINE n == Len(s)
           t == Append(s, e)
<1>1. /\ n \in Nat /\ Len(t) = n + 1 /\ t[n + 1] = e
      /\ \A i \in 1 .. n : s[i] = t[i]
  BY AppendProperties
<1> HIDE DEF n, t
<1>2. Reads(g, n, s) /\ Reads(h, n + 1, t)
  BY <1>1 DEF n, t
<1>3. g[1 .. n] = h[1 .. n]
  <2>1. n <= n + 1 /\ n \in 0 .. n /\ n + 1 \in Nat
    BY <1>1
  <2>2. \A k \in 0 .. n : g[1 .. k] = h[1 .. k]
    BY <1>1, <1>2, <2>1, ReadsAgree
  <2> QED BY <2>1, <2>2
<1>4. h[1 .. n + 1] = Stepped(h[1 .. n], t[n + 1])
  <2>1. n + 1 <= n + 1 /\ n + 1 \in Nat
    BY <1>1
  <2> QED BY <1>1, <1>2, <2>1, ReadsLast
<1> QED BY <1>1, <1>3, <1>4 DEF n, t

\* What is read of no entries.
LEMMA ReadsNone ==
    ASSUME NEW g, Reads(g, Len(<<>>), <<>>)
    PROVE  g[1 .. Len(<<>>)] = Unread
<1>1. Len(<<>>) = 0 /\ 1 .. 0 = {} /\ {} \in SUBSET (1 .. 0)
  OBVIOUS
<1> QED BY <1>1 DEF Reads
-----------------------------------------------------------------------------
(* The readings of a log, of any length and of any events.                 *)

IsEntry(e) ==
    e = [seq |-> e.seq, at |-> e.at, event |-> e.event,
         previousHash |-> e.previousHash, hash |-> e.hash]

\* A log as appendEntry makes it.
Chained(entries) ==
    /\ \E S : entries \in Seq(S)
    /\ \A i \in 1 .. Len(entries) :
          /\ IsEntry(entries[i])
          /\ entries[i].seq = i - 1
          /\ entries[i].previousHash = HashBefore(entries, i)
          /\ entries[i].hash = Hash(entries[i])
    /\ \A i \in 1 .. Len(entries) - 1 : entries[i].event.kind # "run-finished"

Edited(e) == [e EXCEPT !.event = [kind |-> "human-intervened"]]

Rehashed(e) == [Edited(e) EXCEPT !.hash = Hash(Edited(e))]

\* What is read, when it is not what was written.
Damaged(entries, intact) ==
    \E i \in 1 .. Len(intact) :
        entries \in {[intact EXCEPT ![i] = Edited(intact[i])],
                     [intact EXCEPT ![i] = Rehashed(intact[i])],
                     RemoveAt(intact, i)}

LogInv == Chained(written) /\ (log = written \/ Damaged(log, written))

\* What an edited entry keeps, and what it does not.
LEMMA EditedFacts ==
    ASSUME NEW e, IsEntry(e)
    PROVE  /\ IsEntry(Edited(e)) /\ IsEntry(Rehashed(e))
           /\ Edited(e).seq = e.seq /\ Edited(e).previousHash = e.previousHash
           /\ Edited(e).hash = e.hash /\ Edited(e).event = [kind |-> "human-intervened"]
           /\ Rehashed(e).seq = e.seq /\ Rehashed(e).previousHash = e.previousHash
           /\ Rehashed(e).event = [kind |-> "human-intervened"]
           /\ Rehashed(e).hash = Hash(Rehashed(e))
           /\ Edited(e).at = e.at /\ Rehashed(e).at = e.at
<1>1. Edited(e) = [seq |-> e.seq, at |-> e.at, event |-> [kind |-> "human-intervened"],
                   previousHash |-> e.previousHash, hash |-> e.hash]
  BY DEF Edited, IsEntry
<1>2. Rehashed(e) = [seq |-> e.seq, at |-> e.at, event |-> [kind |-> "human-intervened"],
                     previousHash |-> e.previousHash, hash |-> Hash(Edited(e))]
  BY <1>1 DEF Rehashed
<1>3. Hash(Edited(e)) = Hash(Rehashed(e))
  BY <1>1, <1>2 DEF Hash
<1> QED BY <1>1, <1>2, <1>3 DEF IsEntry

\* An entry that is edited is another when its hash says so.
LEMMA HashTells ==
    ASSUME NEW e, NEW f, IsEntry(e), IsEntry(f), Hash(e) = Hash(f), e.hash = f.hash
    PROVE  e = f
<1>1. e.seq = f.seq /\ e.at = f.at /\ e.event = f.event /\ e.previousHash = f.previousHash
  BY DEF Hash
<1> QED BY <1>1 DEF IsEntry

\* What is left of a log without one of its entries.
LEMMA RemovedFacts ==
    ASSUME NEW S, NEW s \in Seq(S), NEW i \in 1 .. Len(s)
    PROVE  /\ RemoveAt(s, i) \in Seq(S) /\ Len(RemoveAt(s, i)) = Len(s) - 1
           /\ \A j \in 1 .. Len(s) - 1 : RemoveAt(s, i)[j] = IF j < i THEN s[j] ELSE s[j + 1]
<1> DEFINE front == SubSeq(s, 1, i - 1)
           back == SubSeq(s, i + 1, Len(s))
           n == Len(s)
<1>1. n \in Nat /\ i \in 1 .. n
  OBVIOUS
<1>2. front \in Seq(S) /\ Len(front) = i - 1 /\ \A j \in 1 .. i - 1 : front[j] = s[j]
  <2>1. 1 \in 1 .. n + 1 /\ i - 1 \in 0 .. n /\ \A j \in 1 .. i - 1 : j \in 1 .. n /\ 1 + j - 1 = j
    BY <1>1
  <2> QED BY <1>1, <2>1
<1>3. back \in Seq(S) /\ Len(back) = n - i /\ \A j \in 1 .. n - i : back[j] = s[i + j]
  <2>1. /\ i + 1 \in 1 .. n + 1 /\ n - (i + 1) + 1 = n - i
        /\ \A j \in 1 .. n - i : i + j \in 1 .. n /\ (i + 1) + j - 1 = i + j
    BY <1>1
  <2>2. \A j \in i + 1 .. n : s[j] \in S
    BY <1>1
  <2> QED BY <1>1, <2>1, <2>2
<1> HIDE DEF front, back, n
<1>4. /\ front \o back \in Seq(S) /\ Len(front \o back) = n - 1
      /\ \A j \in 1 .. n - 1 : (front \o back)[j] = IF j < i THEN front[j] ELSE back[j - (i - 1)]
  <2>1. /\ front \o back \in Seq(S) /\ Len(front \o back) = Len(front) + Len(back)
        /\ \A j \in 1 .. Len(front) + Len(back) :
              (front \o back)[j] = IF j <= Len(front) THEN front[j] ELSE back[j - Len(front)]
    BY <1>2, <1>3, ConcatProperties
  <2>2. Len(front) + Len(back) = n - 1 /\ \A j \in 1 .. n - 1 : j <= Len(front) <=> j < i
    BY <1>1, <1>2, <1>3
  <2>3. Len(front) = i - 1
    BY <1>2
  <2> QED BY <2>1, <2>2, <2>3
<1>5. ASSUME NEW j \in 1 .. n - 1 PROVE (front \o back)[j] = IF j < i THEN s[j] ELSE s[j + 1]
  <2>1. CASE j < i
    BY <1>1, <1>2, <1>4, <2>1
  <2>2. CASE ~(j < i)
    <3>1. j - (i - 1) \in 1 .. n - i /\ i + (j - (i - 1)) = j + 1
      BY <1>1, <2>2
    <3>2. (front \o back)[j] = back[j - (i - 1)]
      BY <1>4, <2>2
    <3> QED BY <1>3, <2>2, <3>1, <3>2
  <2> QED BY <2>1, <2>2
<1> QED BY <1>4, <1>5 DEF RemoveAt, front, back, n

\* An entry more.
LEMMA AppendedFacts ==
    ASSUME NEW entries, Chained(entries), ~Ended(entries), NEW event, NEW at
    PROVE  Chained(Appended(entries, event, at))
<1> DEFINE n == Len(entries)
           e == [seq |-> n, at |-> at, event |-> event,
                 previousHash |-> HashBefore(entries, n + 1),
                 hash |-> Hash([seq |-> n, at |-> at, event |-> event,
                                previousHash |-> HashBefore(entries, n + 1)])]
           more == Append(entries, e)
<1>1. PICK S : entries \in Seq(S)
  BY DEF Chained
<1>2. more = Appended(entries, event, at)
  BY DEF Appended
<1>3. /\ n \in Nat /\ more \in Seq(S \cup {e}) /\ Len(more) = n + 1 /\ more[n + 1] = e
      /\ \A i \in 1 .. n : more[i] = entries[i]
  <2>1. entries \in Seq(S \cup {e}) /\ e \in S \cup {e}
    BY <1>1, SeqMonotonic
  <2> HIDE DEF e
  <2> QED BY <2>1, AppendProperties
<1>4. /\ IsEntry(e) /\ e.seq = n /\ e.event = event /\ e.hash = Hash(e)
      /\ e.previousHash = HashBefore(entries, n + 1)
  BY DEF IsEntry, Hash
<1> HIDE DEF e, more
<1>5. \A i \in 1 .. n + 1 : HashBefore(more, i) = HashBefore(entries, i)
  BY <1>3 DEF HashBefore
<1>6. ASSUME NEW i \in 1 .. n + 1
      PROVE  /\ IsEntry(more[i]) /\ more[i].seq = i - 1
             /\ more[i].previousHash = HashBefore(more, i) /\ more[i].hash = Hash(more[i])
  <2>1. CASE i = n + 1
    BY <1>3, <1>4, <1>5, <2>1
  <2>2. CASE i \in 1 .. n
    BY <1>3, <1>5, <2>2 DEF Chained
  <2> QED BY <1>3, <2>1, <2>2
<1>7. ASSUME NEW i \in 1 .. n PROVE more[i].event.kind # "run-finished"
  <2>1. CASE i = n
    <3>1. entries # <<>>
      BY <1>3
    <3> QED BY <1>3, <2>1, <3>1 DEF Ended, Last
  <2>2. CASE i \in 1 .. n - 1
    BY <1>3, <2>2 DEF Chained
  <2> QED BY <1>3, <2>1, <2>2
<1>8. Chained(more)
  <2>1. n + 1 - 1 = n
    BY <1>3
  <2> QED BY <1>3, <1>6, <1>7, <2>1 DEF Chained
<1> QED BY <1>2, <1>8

\* An entry is added to an intact log only; damage is done to one.
LEMMA LogInvHolds == Spec => []LogInv
<1>1. Init => LogInv
  <2> SUFFICES ASSUME Init PROVE LogInv
    OBVIOUS
  <2>1. written = <<>> /\ log = written /\ <<>> \in Seq({}) /\ Len(<<>>) = 0
    BY DEF Init
  <2> QED BY <2>1 DEF LogInv, Chained
<1>2. LogInv /\ [Next]_vars => LogInv'
  <2> SUFFICES ASSUME LogInv, [Next]_vars PROVE LogInv'
    OBVIOUS
  <2>1. ASSUME UNCHANGED <<log, written>> PROVE LogInv'
    BY <2>1 DEF LogInv, Chained, Damaged, HashBefore
  <2>2. ASSUME NEW event, Write(event) PROVE LogInv'
    <3>1. log = written /\ log' = Appended(written, event, now) /\ written' = log'
      BY <2>2 DEF Write
    <3>2. Chained(written')
      BY <2>2, <3>1, AppendedFacts DEF LogInv, Write
    <3> QED BY <3>1, <3>2 DEF LogInv
  <2>3. ASSUME NEW i \in DOMAIN log, Damage(i) PROVE LogInv'
    <3>1. PICK S : written \in Seq(S)
      BY DEF LogInv, Chained
    <3>2. i \in 1 .. Len(written) /\ written' = written /\ log = written
      BY <2>3, <3>1 DEF Damage
    <3>3. Damaged(log', written')
      BY <2>3, <3>2 DEF Damage, Damaged, Edited, Rehashed
    <3> QED BY <3>2, <3>3 DEF LogInv, Chained, HashBefore
  <2>4. ASSUME NEW seq, NEW usage,
               \/ Settle(seq, usage) \/ SettleUnrecorded(seq, usage) \/ SettleStray(seq, usage)
               \/ SettleMisposted(seq, usage) \/ SettleMisdated(seq, usage)
        PROVE  LogInv'
    <3>1. UNCHANGED <<log, written>> \/ \E event : Write(event)
      BY <2>4 DEF Settle, SettleUnrecorded, SettleStray, SettleMisposted, SettleMisdated
    <3> QED BY <2>1, <2>2, <3>1
  <2>5. ASSUME NEW event, Log(event) PROVE LogInv'
    BY <2>2, <2>5 DEF Log
  <2>6. ASSUME Tick \/ UNCHANGED vars PROVE LogInv'
    BY <2>1, <2>6 DEF Tick, vars
  <2> QED BY <2>3, <2>4, <2>5, <2>6 DEF Next
<1> QED BY <1>1, <1>2, PTL DEF Spec

\* Where a log is not what was written.
Differing(entries, intact) ==
    {i \in DOMAIN intact : i \notin DOMAIN entries \/ entries[i] # intact[i]}

\* Every entry of an intact log verifies.
LEMMA IntactVerifies ==
    ASSUME NEW entries, Chained(entries)
    PROVE  \A i \in 1 .. Len(entries) : Flaw(entries, i) = "none"
BY DEF Chained, Flaw

\* An entry that is edited fails to verify, or the one after it does.
LEMMA EditLocated ==
    ASSUME NEW entries, Chained(entries), NEW i \in 1 .. Len(entries), NEW e,
           e = Edited(entries[i]) \/ e = Rehashed(entries[i]), e # entries[i],
           NEW l, l = [entries EXCEPT ![i] = e]
    PROVE  /\ Differing(l, entries) = {i}
           /\ \/ Integrity(l).kind = "verified" /\ i = Len(entries)
              \/ Integrity(l).kind # "verified" /\ Integrity(l).seq + 1 \in {i, i + 1}
<1> DEFINE n == Len(entries)
           old == entries[i]
           flawed == {j \in DOMAIN l : Flaw(l, j) # "none"}
<1>1. PICK S : entries \in Seq(S)
  BY DEF Chained
<1>2. /\ n \in Nat /\ DOMAIN entries = 1 .. n /\ DOMAIN l = 1 .. n
      /\ l[i] = e /\ \A j \in 1 .. n : j # i => l[j] = entries[j]
  BY <1>1
<1>3. IsEntry(old) /\ old.seq = i - 1 /\ old.previousHash = HashBefore(entries, i) /\ old.hash = Hash(old)
  BY DEF Chained
<1>4. IsEntry(e) /\ e.seq = i - 1 /\ e.previousHash = HashBefore(entries, i) /\ e.event # old.event
  <2>1. /\ IsEntry(e) /\ e.seq = i - 1 /\ e.previousHash = HashBefore(entries, i)
        /\ e.event = [kind |-> "human-intervened"] /\ e.at = old.at
        /\ e.hash = old.hash \/ e.hash = Hash(e)
    BY <1>3, EditedFacts
  <2>2. CASE e.event = old.event
    <3>1. Hash(e) = Hash(old)
      BY <1>3, <2>1, <2>2 DEF Hash
    <3>2. e = old
      BY <1>3, <2>1, <3>1, HashTells
    <3> QED BY <3>2
  <2> QED BY <2>1, <2>2
<1>5. Hash(e) # Hash(old)
  BY <1>4 DEF Hash
<1> HIDE DEF old
<1>6. HashBefore(l, i) = HashBefore(entries, i)
  BY <1>2 DEF HashBefore
<1>7. \A j \in 1 .. n : j # i /\ j # i + 1 => HashBefore(l, j) = HashBefore(entries, j)
  BY <1>2 DEF HashBefore
<1>8. \A j \in 1 .. n : j # i /\ j # i + 1 => Flaw(l, j) = "none"
  <2> TAKE j \in 1 .. n
  <2> HAVE j # i /\ j # i + 1
  <2>1. Flaw(l, j) = Flaw(entries, j)
    BY <1>2, <1>7 DEF Flaw
  <2> QED BY <2>1, IntactVerifies
<1>9. Differing(l, entries) = {i}
  BY <1>2 DEF Differing
<1>10. ASSUME e.hash = Hash(e)
       PROVE  /\ Flaw(l, i) = "none"
              /\ i + 1 \in 1 .. n => Flaw(l, i + 1) # "none"
  <2>1. Flaw(l, i) = "none"
    BY <1>2, <1>4, <1>6, <1>10 DEF Flaw
  <2>2. ASSUME i + 1 \in 1 .. n PROVE Flaw(l, i + 1) # "none"
    <3>1. HashBefore(l, i + 1) = e.hash /\ HashBefore(entries, i + 1) = old.hash
      BY <1>2, <2>2 DEF HashBefore, old
    <3>2. l[i + 1] = entries[i + 1] /\ entries[i + 1].previousHash = old.hash
      BY <1>2, <2>2, <3>1 DEF Chained
    <3>3. l[i + 1].previousHash # HashBefore(l, i + 1)
      BY <1>3, <1>5, <1>10, <3>1, <3>2
    <3> QED BY <3>3 DEF Flaw
  <2> QED BY <2>1, <2>2
<1>11. ASSUME e.hash # Hash(e) PROVE Flaw(l, i) # "none"
  BY <1>2, <1>4, <1>6, <1>11 DEF Flaw
<1>12. flawed \subseteq {i, i + 1} /\ flawed \in SUBSET Int
  <2>1. \A j \in flawed : j \in 1 .. n /\ Flaw(l, j) # "none"
    BY <1>2
  <2> HIDE DEF flawed
  <2>2. ASSUME NEW j \in flawed PROVE j \in {i, i + 1} /\ j \in Int
    <3>1. j \in 1 .. n /\ ~(j # i /\ j # i + 1)
      BY <1>8, <2>1
    <3>2. 1 .. n \subseteq Int
      BY <1>2
    <3> QED BY <3>1, <3>2
  <2> QED BY <2>2
<1>13. CASE flawed = {}
  <2>1. i = n
    <3>1. \A j \in 1 .. n : Flaw(l, j) = "none"
      BY <1>2, <1>13
    <3>2. e.hash = Hash(e)
      BY <1>11, <3>1
    <3>3. i + 1 \notin 1 .. n
      BY <1>10, <3>1, <3>2
    <3>4. n \in Nat /\ i \in 1 .. n
      BY <1>2
    <3> HIDE DEF n, flawed
    <3> QED BY <3>3, <3>4
  <2>2. Integrity(l).kind = "verified"
    BY <1>13 DEF Integrity
  <2> QED BY <1>9, <2>1, <2>2
<1>14. CASE flawed # {}
  <2>0. i \in Int /\ i + 1 \in Int /\ i < i + 1
    BY <1>2
  <2>1. Min(flawed) \in {i, i + 1}
    <3> HIDE DEF flawed
    <3>1. CASE i \in flawed
      <4>1. \A x \in flawed : i <= x
        BY <1>12, <2>0
      <4>2. Min(flawed) = i
        BY <1>12, <3>1, <4>1, MinIs
      <4> QED BY <4>2
    <3>2. CASE i \notin flawed
      <4>1. flawed = {i + 1}
        BY <1>12, <1>14, <3>2
      <4>2. i + 1 \in flawed /\ \A x \in flawed : i + 1 <= x
        BY <2>0, <4>1
      <4>3. Min(flawed) = i + 1
        BY <1>12, <4>2, MinIs
      <4> QED BY <4>3
    <3> QED BY <3>1, <3>2
  <2>2. Integrity(l) = [kind |-> Flaw(l, Min(flawed)), seq |-> Min(flawed) - 1]
    BY <1>14 DEF Integrity
  <2>3. Flaw(l, Min(flawed)) # "verified"
    BY DEF Flaw
  <2>4. Min(flawed) - 1 + 1 \in {i, i + 1}
    BY <2>1
  <2> HIDE DEF flawed
  <2>5. Integrity(l).kind # "verified" /\ Integrity(l).seq = Min(flawed) - 1
    <3> DEFINE kind == Flaw(l, Min(flawed))
               seq == Min(flawed) - 1
               found == Integrity(l)
    <3>0. found = [kind |-> kind, seq |-> seq]
      BY <2>2
    <3> HIDE DEF kind, seq, found
    <3>1. found.kind = kind /\ found.seq = seq
      BY ONLY <3>0
    <3> USE DEF kind, seq, found
    <3> QED BY <2>3, <3>1
  <2>6. Integrity(l).seq + 1 \in {i, i + 1}
    BY <2>4, <2>5
  <2> QED BY <1>9, <2>5, <2>6
<1> QED BY <1>13, <1>14

\* An entry that is lost from the middle leaves a gap in its place.
LEMMA LossLocated ==
    ASSUME NEW entries, Chained(entries), NEW i \in 1 .. Len(entries),
           NEW l, l = RemoveAt(entries, i)
    PROVE  /\ Min(Differing(l, entries)) = i /\ Differing(l, entries) # {}
           /\ \/ Integrity(l).kind = "verified" /\ Differing(l, entries) = {Len(entries)}
              \/ Integrity(l).kind # "verified" /\ Integrity(l).seq + 1 = i
<1> DEFINE n == Len(entries)
           differing == Differing(l, entries)
           flawed == {j \in DOMAIN l : Flaw(l, j) # "none"}
<1>1. PICK S : entries \in Seq(S)
  BY DEF Chained
<1>2. n \in Nat /\ i \in 1 .. n /\ DOMAIN entries = 1 .. n
  BY <1>1
<1>3. /\ DOMAIN l = 1 .. n - 1
      /\ \A j \in 1 .. n - 1 : l[j] = IF j < i THEN entries[j] ELSE entries[j + 1]
  <2>1. /\ l \in Seq(S) /\ Len(l) = n - 1
        /\ \A j \in 1 .. n - 1 : l[j] = IF j < i THEN entries[j] ELSE entries[j + 1]
    BY <1>1, RemovedFacts
  <2> QED BY <2>1
<1>4. \A j \in 1 .. n : entries[j].seq = j - 1
  BY DEF Chained
<1>5. \A j \in 1 .. n : Flaw(entries, j) = "none"
  BY IntactVerifies
<1> HIDE DEF n
<1>6. differing = i .. n
  <2>1. ASSUME NEW j \in 1 .. n PROVE (j \notin DOMAIN l \/ l[j] # entries[j]) <=> i <= j
    <3>1. CASE j < i
      <4>1. j \in 1 .. n - 1 /\ ~(i <= j)
        BY <1>2, <3>1
      <4> QED BY <1>3, <3>1, <4>1
    <3>2. CASE i <= j /\ j = n
      <4>1. j \notin 1 .. n - 1
        BY <1>2, <3>2
      <4> QED BY <1>3, <3>2, <4>1
    <3>3. CASE i <= j /\ j # n
      <4>1. j \in 1 .. n - 1 /\ j + 1 \in 1 .. n /\ ~(j < i) /\ j + 1 - 1 # j - 1
        BY <1>2, <3>3
      <4>2. l[j] = entries[j + 1] /\ entries[j + 1].seq = j + 1 - 1 /\ entries[j].seq = j - 1
        BY <1>3, <1>4, <4>1
      <4>3. l[j] # entries[j]
        BY <4>1, <4>2
      <4> QED BY <3>3, <4>3
    <3> QED BY <1>2, <3>1, <3>2, <3>3
  <2>2. differing = {j \in 1 .. n : i <= j}
    BY <1>2, <2>1 DEF Differing
  <2> QED BY <1>2, <2>2
<1>7. flawed = i .. n - 1
  <2>1. ASSUME NEW j \in 1 .. n - 1 PROVE Flaw(l, j) # "none" <=> i <= j
    <3>1. CASE j < i
      <4>1. l[j] = entries[j] /\ j \in 1 .. n
        BY <1>2, <1>3, <3>1
      <4>2. HashBefore(l, j) = HashBefore(entries, j)
        BY <1>2, <1>3, <3>1 DEF HashBefore
      <4>3. Flaw(l, j) = Flaw(entries, j)
        BY <4>1, <4>2 DEF Flaw
      <4>4. ~(i <= j)
        BY <1>2, <3>1
      <4> QED BY <1>5, <4>1, <4>3, <4>4
    <3>2. CASE i <= j
      <4>1. j + 1 \in 1 .. n /\ ~(j < i) /\ j + 1 - 1 # j - 1
        BY <1>2, <3>2
      <4>2. l[j].seq # j - 1
        BY <1>3, <1>4, <4>1
      <4> QED BY <3>2, <4>2 DEF Flaw
    <3> QED BY <1>2, <3>1, <3>2
  <2>2. flawed = {j \in 1 .. n - 1 : i <= j}
    BY <1>3, <2>1
  <2> QED BY <1>2, <2>2
<1> HIDE DEF differing, flawed
<1>8. i \in differing /\ Min(differing) = i
  <2>1. i \in differing /\ differing \in SUBSET Int /\ \A x \in differing : i <= x
    BY <1>2, <1>6
  <2> QED BY <2>1, MinIs
<1>9. CASE i = n
  <2>1. flawed = {} /\ differing = {n}
    BY <1>2, <1>6, <1>7, <1>9
  <2>2. Integrity(l).kind = "verified"
    BY <2>1 DEF Integrity, flawed
  <2> QED BY <1>8, <2>1, <2>2 DEF n, differing
<1>10. CASE i # n
  <2>1. i \in flawed /\ flawed \in SUBSET Int /\ \A x \in flawed : i <= x
    BY <1>2, <1>7, <1>10
  <2>2. Min(flawed) = i /\ flawed # {}
    BY <2>1, MinIs
  <2>3. Integrity(l) = [kind |-> Flaw(l, Min(flawed)), seq |-> Min(flawed) - 1]
    BY <2>2 DEF Integrity, flawed
  <2>4. Flaw(l, Min(flawed)) # "verified"
    BY DEF Flaw
  <2>5. Integrity(l).kind # "verified" /\ Integrity(l).seq + 1 = i
    BY <1>2, <2>2, <2>3, <2>4
  <2> QED BY <1>8, <2>5 DEF differing
<1> QED BY <1>9, <1>10

\* Verification passes what was written, or what differs from it in the last entry
\* at most, and locates any other damage, for logs of any length and any events
\* (verify-run-log.ts).
THEOREM DamageIsLocated == Spec => []IntegrityLocatesTheDamage
<1>1. LogInv => IntegrityLocatesTheDamage
  <2> SUFFICES ASSUME LogInv PROVE IntegrityLocatesTheDamage
    OBVIOUS
  <2> DEFINE differing == Differing(log, written)
             flaw == Integrity(log)
  <2>1. Chained(written) /\ (log = written \/ Damaged(log, written))
    BY DEF LogInv
  <2>2. PICK S : written \in Seq(S)
    BY <2>1 DEF Chained
  <2>3. CASE log = written
    <3>1. differing = {}
      BY <2>3 DEF Differing
    <3>2. {i \in DOMAIN log : Flaw(log, i) # "none"} = {}
      BY <2>1, <2>2, <2>3, IntactVerifies
    <3>3. flaw.kind = "verified"
      BY <3>2 DEF Integrity
    <3> QED BY <3>1, <3>3 DEF IntegrityLocatesTheDamage, Differing
  <2>4. CASE log # written
    <3>1. PICK i \in 1 .. Len(written) :
             log \in {[written EXCEPT ![i] = Edited(written[i])],
                      [written EXCEPT ![i] = Rehashed(written[i])],
                      RemoveAt(written, i)}
      BY <2>1, <2>4 DEF Damaged
    <3>2. CASE log = RemoveAt(written, i)
      <4>1. /\ Min(differing) = i /\ differing # {}
            /\ \/ flaw.kind = "verified" /\ differing = {Len(written)}
               \/ flaw.kind # "verified" /\ flaw.seq + 1 = i
        BY <2>1, <3>2, LossLocated
      <4> HIDE DEF differing, flaw
      <4>2. IF flaw.kind = "verified" THEN differing \subseteq {Len(written)}
            ELSE differing # {} /\ flaw.seq + 1 \in {Min(differing), Min(differing) + 1}
        BY <4>1
      <4> QED BY <4>2 DEF IntegrityLocatesTheDamage, Differing, differing, flaw
    <3>3. ASSUME NEW e, e = Edited(written[i]) \/ e = Rehashed(written[i]),
                 log = [written EXCEPT ![i] = e]
          PROVE  IntegrityLocatesTheDamage
      <4>1. e # written[i]
        BY <2>2, <2>4, <3>3
      <4>2. /\ differing = {i}
            /\ \/ flaw.kind = "verified" /\ i = Len(written)
               \/ flaw.kind # "verified" /\ flaw.seq + 1 \in {i, i + 1}
        BY <2>1, <3>3, <4>1, EditLocated
      <4>3. Min(differing) = i
        <5>1. {i} \in SUBSET Int /\ i \in {i} /\ \A x \in {i} : i <= x
          BY <2>2
        <5>2. Min({i}) = i
          BY <5>1, MinIs
        <5> QED BY <4>2, <5>2
      <4> HIDE DEF differing, flaw
      <4>4. IF flaw.kind = "verified" THEN differing \subseteq {Len(written)}
            ELSE differing # {} /\ flaw.seq + 1 \in {Min(differing), Min(differing) + 1}
        BY <4>2, <4>3
      <4> QED BY <4>4 DEF IntegrityLocatesTheDamage, Differing, differing, flaw
    <3> QED BY <3>1, <3>2, <3>3
  <2> QED BY <2>3, <2>4
<1> QED BY <1>1, LogInvHolds, PTL
-----------------------------------------------------------------------------
(* The spans of a log, entry by entry.                                     *)

\* What the projection needs to know of a log, intact or damaged.
Readable(entries) ==
    /\ \E S : entries \in Seq(S)
    /\ \A i \in 1 .. Len(entries) :
          /\ entries[i].seq \in Nat
          /\ \A j \in 1 .. i - 1 : entries[j].seq < entries[i].seq
    /\ \A i \in 1 .. Len(entries) - 1 : entries[i].event.kind # "run-finished"

\* The recovery and the state that follow from the entries before the i-th and
\* from that entry.
Called(s, i) == {j \in 1 .. i - 1 : s[j].event.kind = "tool-called"}

Faulty(s, i) == Called(s, i) # {} /\ s[Max(Called(s, i))].event.status = "failed"

StateAt(s, i) ==
    IF Faulty(s, i) /\ BaseState(s[i].event) \in {"thinking", "acting"}
      THEN "recovering" ELSE BaseState(s[i].event)

IsSpan(x, seq) ==
    /\ x = [state |-> x.state, at |-> x.at, fromSeq |-> x.fromSeq, toSeq |-> x.toSeq]
    /\ x.fromSeq \in Nat /\ x.toSeq \in Nat
    /\ x.fromSeq <= x.toSeq /\ x.toSeq <= seq

Within(entry, x) == x.fromSeq <= entry.seq /\ entry.seq <= x.toSeq

\* A span begins and ends with an entry that puts the run in its state.
Marked(s, n, x) ==
    /\ \E i \in 1 .. n : s[i].seq = x.fromSeq /\ StateAt(s, i) = x.state
    /\ \E i \in 1 .. n : s[i].seq = x.toSeq /\ StateAt(s, i) = x.state

\* The spans after n entries of s.
Spans(s, n, spans) ==
    /\ \E S : spans \in Seq(S)
    /\ n = 0 => spans = <<>>
    /\ \A k \in 1 .. Len(spans) : IsSpan(spans[k], s[n].seq)
    /\ \A k \in 1 .. Len(spans) : Marked(s, n, spans[k])
    /\ \A i \in 1 .. n :
          StateAt(s, i) # "none" =>
              \E k \in 1 .. Len(spans) : Within(s[i], spans[k]) /\ spans[k].state = StateAt(s, i)
    /\ \A k \in 1 .. Len(spans) - 1 :
          spans[k].toSeq < spans[k + 1].fromSeq /\ spans[k].state # spans[k + 1].state

Tells(s, n, reading) ==
    /\ reading.recovering \in BOOLEAN
    /\ n < Len(s) => (reading.recovering <=> Faulty(s, n + 1))
    /\ Spans(s, n, reading.spans)

\* Whether a run is recovering after one entry more.
LEMMA RecoveryStep ==
    ASSUME NEW s, Readable(s), NEW n \in Nat, n + 1 < Len(s),
           NEW recovering \in BOOLEAN, recovering <=> Faulty(s, n + 1)
    PROVE  NextRecovering(recovering, s[n + 1].event) <=> Faulty(s, n + 2)
<1> DEFINE e == s[n + 1].event
<1>0. Len(s) \in Nat
  <2>1. PICK S : s \in Seq(S)
    BY DEF Readable
  <2> QED BY <2>1
<1>1. n + 1 \in 1 .. Len(s) - 1
  BY <1>0
<1>2. e.kind # "run-finished"
  BY <1>1 DEF Readable
<1>3. n + 2 - 1 = n + 1 /\ n + 1 - 1 = n
  OBVIOUS
<1>4. CASE e.kind = "tool-called"
  <2> DEFINE calls == Called(s, n + 2)
  <2>1. calls \in SUBSET Int /\ n + 1 \in calls /\ \A x \in calls : x <= n + 1
    BY <1>3, <1>4 DEF Called
  <2> HIDE DEF calls
  <2>2. Max(calls) = n + 1 /\ calls # {}
    BY <2>1, MaxIs
  <2>3. Faulty(s, n + 2) <=> e.status = "failed"
    BY <2>2 DEF Faulty, calls
  <2>4. NextRecovering(recovering, e) = (e.status = "failed")
    BY <1>4 DEF NextRecovering
  <2> QED BY <2>3, <2>4
<1>5. CASE e.kind # "tool-called"
  <2>1. Called(s, n + 2) = Called(s, n + 1)
    <3>1. 1 .. n + 1 = (1 .. n) \cup {n + 1}
      OBVIOUS
    <3> QED BY <1>3, <1>5, <3>1 DEF Called
  <2>2. NextRecovering(recovering, e) = recovering
    BY <1>2, <1>5 DEF NextRecovering
  <2> QED BY <2>1, <2>2 DEF Faulty
<1> QED BY <1>4, <1>5

\* The spans after an entry that puts the run in a state.
LEMMA ExtendedFacts ==
    ASSUME NEW s, Readable(s), NEW n \in Nat, n + 1 <= Len(s),
           NEW spans, Spans(s, n, spans), StateAt(s, n + 1) # "none"
    PROVE  Spans(s, n + 1, Extended(spans, StateAt(s, n + 1), s[n + 1]))
<1> DEFINE e == s[n + 1]
           state == StateAt(s, n + 1)
           new == [state |-> state, at |-> e.at, fromSeq |-> e.seq, toSeq |-> e.seq]
           more == Extended(spans, state, e)
           m == Len(spans)
<1>0. Len(s) \in Nat /\ n + 1 \in 1 .. Len(s) /\ 1 .. n + 1 = (1 .. n) \cup {n + 1}
  <2>1. PICK S : s \in Seq(S)
    BY DEF Readable
  <2> QED BY <2>1
<1>1. e.seq \in Nat /\ \A i \in 1 .. n : s[i].seq \in Nat /\ s[i].seq < e.seq
  <2>1. \A i \in 1 .. n : i \in 1 .. Len(s) /\ i \in 1 .. (n + 1) - 1
    BY <1>0
  <2> QED BY <1>0, <2>1 DEF Readable
<1>2. PICK S : spans \in Seq(S)
  BY DEF Spans
<1>3. /\ m \in Nat
      /\ \A k \in 1 .. m : IsSpan(spans[k], e.seq) /\ spans[k].toSeq < e.seq
  <2>1. m \in Nat
    BY <1>2
  <2>2. ASSUME NEW k \in 1 .. m PROVE IsSpan(spans[k], e.seq) /\ spans[k].toSeq < e.seq
    <3>1. n # 0
      <4>1. n = 0 => spans = <<>>
        BY DEF Spans
      <4>2. spans # <<>>
        BY <2>1
      <4> QED BY <4>1, <4>2
    <3>2. n \in 1 .. n
      BY <3>1
    <3>3. s[n].seq \in Nat /\ s[n].seq < e.seq
      BY <1>1, <3>2
    <3>4. IsSpan(spans[k], s[n].seq)
      BY DEF Spans
    <3> HIDE DEF e
    <3> QED BY <1>1, <3>3, <3>4 DEF IsSpan
  <2> QED BY <2>1, <2>2
<1> HIDE DEF e, state, m, more
<1>4. CASE spans # <<>> /\ Last(spans).state = state
  <2> DEFINE last == [spans[m] EXCEPT !.toSeq = e.seq]
  <2>1. m \in 1 .. m /\ spans[m].state = state
    BY <1>2, <1>3, <1>4 DEF Last, m
  <2>2. /\ last.state = state /\ last.fromSeq = spans[m].fromSeq /\ last.toSeq = e.seq
        /\ last.at = spans[m].at /\ IsSpan(last, e.seq)
    <3> DEFINE x == spans[m]
    <3>1. /\ x = [state |-> x.state, at |-> x.at, fromSeq |-> x.fromSeq, toSeq |-> x.toSeq]
          /\ x.fromSeq \in Nat /\ x.toSeq \in Nat /\ x.fromSeq <= x.toSeq /\ x.toSeq <= e.seq
      BY <1>3, <2>1 DEF IsSpan
    <3>2. x.state = state
      BY <2>1
    <3> HIDE DEF x
    <3>3. [x EXCEPT !.toSeq = e.seq]
          = [state |-> x.state, at |-> x.at, fromSeq |-> x.fromSeq, toSeq |-> e.seq]
      BY <3>1
    <3>4. x.fromSeq <= e.seq
      BY <1>1, <3>1
    <3>5. last = [state |-> x.state, at |-> x.at, fromSeq |-> x.fromSeq, toSeq |-> e.seq]
      BY <3>3 DEF x
    <3> HIDE DEF last
    <3> QED BY <1>1, <3>1, <3>2, <3>4, <3>5 DEF IsSpan, x
  <2>3. more = [spans EXCEPT ![m] = last]
    BY <1>4 DEF more, Extended, m
  <2> HIDE DEF last
  <2>4. /\ \E T : more \in Seq(T)
        /\ Len(more) = m /\ more[m] = last /\ \A k \in 1 .. m : k # m => more[k] = spans[k]
    <3>1. spans \in Seq(S \cup {last}) /\ last \in S \cup {last}
      BY <1>2, SeqMonotonic
    <3> QED BY <2>1, <2>3, <3>1, ExceptSeq DEF m
  <2>5. ASSUME NEW k \in 1 .. m
        PROVE  IsSpan(more[k], e.seq) /\ more[k].state = spans[k].state
               /\ more[k].fromSeq = spans[k].fromSeq /\ more[k].toSeq >= spans[k].toSeq
    <3>1. spans[k].toSeq \in Nat /\ spans[k].toSeq < e.seq
      BY <1>3 DEF IsSpan
    <3> QED BY <1>1, <1>3, <2>1, <2>2, <2>4, <3>1
  <2>6. ASSUME NEW i \in 1 .. n + 1, StateAt(s, i) # "none"
        PROVE  \E k \in 1 .. m : Within(s[i], more[k]) /\ more[k].state = StateAt(s, i)
    <3>1. CASE i = n + 1
      <4>1. spans[m].fromSeq <= e.seq
        <5>1. IsSpan(last, e.seq)
          BY <2>2
        <5> QED BY <1>1, <2>2, <5>1 DEF IsSpan
      <4>2. Within(s[i], more[m]) /\ more[m].state = StateAt(s, i)
        BY <1>1, <2>2, <2>4, <3>1, <4>1 DEF Within, e, state
      <4> QED BY <2>1, <4>2
    <3>2. CASE i \in 1 .. n
      <4>1. PICK k \in 1 .. m : Within(s[i], spans[k]) /\ spans[k].state = StateAt(s, i)
        BY <2>6, <3>2 DEF Spans, m
      <4>2. Within(s[i], more[k])
        <5>1. /\ spans[k].toSeq \in Nat /\ more[k].toSeq \in Nat /\ s[i].seq \in Nat
              /\ more[k].fromSeq = spans[k].fromSeq /\ more[k].toSeq >= spans[k].toSeq
          BY <1>1, <1>3, <2>5, <3>2 DEF IsSpan
        <5> QED BY <4>1, <5>1 DEF Within
      <4> QED BY <2>5, <4>1, <4>2
    <3> QED BY <1>0, <3>1, <3>2
  <2>7. ASSUME NEW k \in 1 .. m - 1
        PROVE  more[k].toSeq < more[k + 1].fromSeq /\ more[k].state # more[k + 1].state
    <3>1. k \in 1 .. m /\ k + 1 \in 1 .. m /\ k # m
      BY <1>3
    <3>2. spans[k].toSeq < spans[k + 1].fromSeq /\ spans[k].state # spans[k + 1].state
      BY DEF Spans, m
    <3> QED BY <2>4, <2>5, <3>1, <3>2
  <2>8. n + 1 # 0
    OBVIOUS
  <2>9. ASSUME NEW k \in 1 .. m PROVE Marked(s, n + 1, more[k])
    <3>1. Marked(s, n, spans[k])
      BY DEF Spans, m
    <3>2. CASE k = m
      <4>1. more[k].fromSeq = spans[k].fromSeq /\ more[k].state = state /\ more[k].toSeq = e.seq
            /\ spans[k].state = state
        BY <2>1, <2>2, <2>4, <3>2
      <4>2. \E i \in 1 .. n + 1 : s[i].seq = more[k].fromSeq /\ StateAt(s, i) = more[k].state
        BY <1>0, <3>1, <4>1 DEF Marked
      <4>3. s[n + 1].seq = more[k].toSeq /\ StateAt(s, n + 1) = more[k].state
        BY <4>1 DEF e, state
      <4>4. n + 1 \in 1 .. n + 1
        BY <1>0
      <4> QED BY <4>2, <4>3, <4>4 DEF Marked
    <3>3. CASE k # m
      BY <1>0, <2>4, <3>1, <3>3 DEF Marked
    <3> QED BY <3>2, <3>3
  <2> QED BY <2>4, <2>5, <2>6, <2>7, <2>8, <2>9 DEF Spans, more, e, state
<1>5. CASE ~(spans # <<>> /\ Last(spans).state = state)
  <2>1. more = Append(spans, new)
    BY <1>5 DEF more, Extended
  <2>2. IsSpan(new, e.seq) /\ new.state = state /\ new.fromSeq = e.seq /\ new.toSeq = e.seq
    BY <1>1 DEF IsSpan
  <2> HIDE DEF new
  <2>3. /\ \E T : more \in Seq(T)
        /\ Len(more) = m + 1 /\ more[m + 1] = new /\ \A k \in 1 .. m : more[k] = spans[k]
    <3>1. spans \in Seq(S \cup {new}) /\ new \in S \cup {new}
      BY <1>2, SeqMonotonic
    <3> QED BY <2>1, <3>1, AppendProperties DEF m
  <2>4. 1 .. m + 1 = (1 .. m) \cup {m + 1} /\ m + 1 - 1 = m /\ m + 1 \in 1 .. m + 1
    BY <1>3
  <2>5. \A k \in 1 .. m + 1 : IsSpan(more[k], e.seq)
    BY <1>3, <2>2, <2>3, <2>4
  <2>6. ASSUME NEW i \in 1 .. n + 1, StateAt(s, i) # "none"
        PROVE  \E k \in 1 .. m + 1 : Within(s[i], more[k]) /\ more[k].state = StateAt(s, i)
    <3>1. CASE i = n + 1
      <4>1. Within(s[i], more[m + 1]) /\ more[m + 1].state = StateAt(s, i)
        BY <1>1, <2>2, <2>3, <3>1 DEF Within, e, state
      <4> QED BY <2>4, <4>1
    <3>2. CASE i \in 1 .. n
      <4>1. PICK k \in 1 .. m : Within(s[i], spans[k]) /\ spans[k].state = StateAt(s, i)
        BY <2>6, <3>2 DEF Spans, m
      <4> QED BY <2>3, <2>4, <4>1
    <3> QED BY <1>0, <3>1, <3>2
  <2>7. ASSUME NEW k \in 1 .. m
        PROVE  more[k].toSeq < more[k + 1].fromSeq /\ more[k].state # more[k + 1].state
    <3>1. CASE k = m
      <4>1. spans # <<>>
        BY <1>2, <1>3, <3>1 DEF m
      <4>2. spans[m].state # state
        BY <1>5, <4>1 DEF Last, m
      <4>3. spans[m].toSeq < e.seq
        BY <1>3, <3>1
      <4> QED BY <2>2, <2>3, <3>1, <4>2, <4>3
    <3>2. CASE k \in 1 .. m - 1
      <4>1. k \in 1 .. m /\ k + 1 \in 1 .. m
        BY <1>3, <3>2
      <4>2. spans[k].toSeq < spans[k + 1].fromSeq /\ spans[k].state # spans[k + 1].state
        BY <3>2 DEF Spans, m
      <4> QED BY <2>3, <4>1, <4>2
    <3> QED BY <1>3, <3>1, <3>2
  <2>8. n + 1 # 0 /\ Len(more) - 1 = m
    BY <1>3, <2>3
  <2>9. ASSUME NEW k \in 1 .. m + 1 PROVE Marked(s, n + 1, more[k])
    <3>1. CASE k = m + 1
      <4>1. s[n + 1].seq = more[k].fromSeq /\ s[n + 1].seq = more[k].toSeq
            /\ StateAt(s, n + 1) = more[k].state
        BY <2>2, <2>3, <3>1 DEF e, state
      <4>2. n + 1 \in 1 .. n + 1
        BY <1>0
      <4> QED BY <4>1, <4>2 DEF Marked
    <3>2. CASE k \in 1 .. m
      <4>1. Marked(s, n, spans[k]) /\ more[k] = spans[k]
        BY <2>3, <3>2 DEF Spans, m
      <4> QED BY <1>0, <4>1 DEF Marked
    <3> QED BY <2>4, <3>1, <3>2
  <2>10. Spans(s, n + 1, more)
    BY <2>3, <2>5, <2>6, <2>7, <2>8, <2>9 DEF Spans, e
  <2> QED BY <2>10 DEF more, e, state
<1> QED BY <1>4, <1>5 DEF more, e, state

\* A reading tells the states of the entries read, and of one entry more.
LEMMA ToldStep ==
    ASSUME NEW s, Readable(s), NEW n \in Nat, n + 1 <= Len(s), NEW reading, Tells(s, n, reading)
    PROVE  Tells(s, n + 1, Stepped(reading, s[n + 1]))
<1> DEFINE e == s[n + 1]
           base == BaseState(e.event)
           state == IF reading.recovering /\ base \in {"thinking", "acting"}
                      THEN "recovering" ELSE base
           next == Stepped(reading, e)
<1>0. Len(s) \in Nat
  <2>1. PICK S : s \in Seq(S)
    BY DEF Readable
  <2> QED BY <2>1
<1>1. n < Len(s) /\ reading.recovering \in BOOLEAN /\ (reading.recovering <=> Faulty(s, n + 1))
  BY <1>0 DEF Tells
<1>2. state = StateAt(s, n + 1)
  BY <1>1 DEF StateAt
<1>3. /\ next.recovering = NextRecovering(reading.recovering, e.event)
      /\ next.spans = IF state = "none" THEN reading.spans ELSE Extended(reading.spans, state, e)
  BY DEF Stepped
<1> HIDE DEF next, state, base
<1>4. next.recovering \in BOOLEAN
  BY <1>1, <1>3 DEF NextRecovering
<1>5. n + 1 < Len(s) => (next.recovering <=> Faulty(s, n + 2))
  BY <1>1, <1>3, RecoveryStep
<1>6. Spans(s, n + 1, next.spans)
  <2>0. Spans(s, n, reading.spans)
    BY DEF Tells
  <2>1. CASE state = "none"
    <3> DEFINE spans == reading.spans
    <3>1. next.spans = spans /\ Spans(s, n, spans) /\ StateAt(s, n + 1) = "none"
      BY <1>2, <1>3, <2>0, <2>1
    <3> HIDE DEF spans
    <3>2. PICK S : spans \in Seq(S)
      BY <3>1 DEF Spans
    <3>3. ASSUME NEW k \in 1 .. Len(spans) PROVE IsSpan(spans[k], e.seq)
      <4>1. n # 0
        BY <3>1, <3>2 DEF Spans
      <4>2. n \in 1 .. Len(s) /\ n + 1 \in 1 .. Len(s) /\ n \in 1 .. (n + 1) - 1
        BY <1>0, <4>1
      <4>3. s[n].seq \in Nat /\ e.seq \in Nat /\ s[n].seq < e.seq
        BY <4>2 DEF Readable
      <4>4. IsSpan(spans[k], s[n].seq)
        BY <3>1 DEF Spans
      <4> HIDE DEF e
      <4> QED BY <4>3, <4>4 DEF IsSpan
    <3>4. \A i \in 1 .. n + 1 : StateAt(s, i) # "none" => i \in 1 .. n
      <4>1. 1 .. n + 1 = (1 .. n) \cup {n + 1}
        OBVIOUS
      <4> QED BY <3>1, <4>1
    <3>5. n + 1 # 0
      OBVIOUS
    <3>6. ASSUME NEW k \in 1 .. Len(spans) PROVE Marked(s, n + 1, spans[k])
      <4>1. Marked(s, n, spans[k])
        BY <3>1 DEF Spans
      <4>2. 1 .. n + 1 = (1 .. n) \cup {n + 1}
        OBVIOUS
      <4> QED BY <4>1, <4>2 DEF Marked
    <3>7. Spans(s, n + 1, spans)
      BY <3>1, <3>3, <3>4, <3>5, <3>6 DEF Spans
    <3> QED BY <3>1, <3>7
  <2>2. CASE state # "none"
    BY <1>2, <1>3, <2>0, <2>2, ExtendedFacts
  <2> QED BY <2>1, <2>2
<1>7. n + 1 + 1 = n + 2
  OBVIOUS
<1> QED BY <1>4, <1>5, <1>6, <1>7 DEF Tells, next

\* The spans of a log tell its states.
LEMMA StatesTell ==
    ASSUME NEW s, Readable(s)
    PROVE  Spans(s, Len(s), States(s))
<1> DEFINE n == Len(s)
           read == CHOOSE g : Reads(g, n, s)
<1>1. PICK S : s \in Seq(S)
  BY DEF Readable
<1>2. n \in Nat /\ DOMAIN s = 1 .. n
  BY <1>1
<1>3. Reads(read, n, s) /\ States(s) = read[1 .. n].spans
  <2>1. \E g : Reads(g, n, s)
    BY <1>2, ReadsExists
  <2>2. States(s) = read[1 .. n].spans
    BY <1>2 DEF States, FoldLeft, MapThenFoldSet, Reads, Unread
  <2> QED BY <2>1, <2>2
<1> HIDE DEF read, n
<1> DEFINE T == {k \in Nat : k <= n => Tells(s, k, read[1 .. k])}
<1>4. 0 \in T
  <2>1. read[1 .. 0] = Unread
    <3>1. 1 .. 0 = {} /\ {} \in SUBSET (1 .. n)
      OBVIOUS
    <3> QED BY <1>3, <3>1 DEF Reads
  <2>2. Spans(s, 0, <<>>)
    <3>1. <<>> \in Seq({}) /\ Len(<<>>) = 0 /\ 1 .. 0 = {} /\ 1 .. 0 - 1 = {}
      OBVIOUS
    <3> QED BY <3>1 DEF Spans
  <2>3. ~Faulty(s, 0 + 1)
    BY DEF Faulty, Called
  <2>4. Tells(s, 0, Unread)
    BY <2>2, <2>3 DEF Tells, Unread
  <2> QED BY <2>1, <2>4
<1>5. ASSUME NEW k \in Nat, k \in T PROVE k + 1 \in T
  <2> SUFFICES ASSUME k + 1 <= n PROVE Tells(s, k + 1, read[1 .. k + 1])
    OBVIOUS
  <2>1. Tells(s, k, read[1 .. k])
    BY <1>2, <1>5
  <2>2. read[1 .. k + 1] = Stepped(read[1 .. k], s[k + 1])
    BY <1>2, <1>3, ReadsLast
  <2> HIDE DEF T
  <2>3. Tells(s, k + 1, Stepped(read[1 .. k], s[k + 1]))
    BY <2>1, ToldStep DEF n
  <2> QED BY <2>2, <2>3
<1>6. n \in T
  <2> HIDE DEF T
  <2>1. Nat \subseteq T
    BY <1>4, <1>5, SetInduction
  <2> QED BY <1>2, <2>1
<1>7. Spans(s, n, read[1 .. n].spans)
  BY <1>2, <1>6 DEF Tells
<1> QED BY <1>3, <1>7 DEF n

\* A log that was appended to, and perhaps damaged, can be read.
LEMMA LogIsReadable == ASSUME LogInv PROVE Readable(log)
<1> DEFINE n == Len(written)
<1>0. Chained(written) /\ (log = written \/ Damaged(log, written))
  BY DEF LogInv
<1>1. PICK S : written \in Seq(S)
  BY <1>0 DEF Chained
<1>2. /\ n \in Nat
      /\ \A i \in 1 .. n : IsEntry(written[i]) /\ written[i].seq = i - 1
      /\ \A i \in 1 .. n - 1 : written[i].event.kind # "run-finished"
  BY <1>0, <1>1 DEF Chained
<1>3. ASSUME NEW entries, \E T : entries \in Seq(T), Len(entries) = n,
             \A i \in 1 .. n : /\ entries[i].seq = i - 1
                               /\ \/ entries[i].event = written[i].event
                                  \/ entries[i].event.kind = "human-intervened"
      PROVE  Readable(entries)
  <2>1. \A i \in 1 .. n : /\ entries[i].seq \in Nat
                          /\ \A j \in 1 .. i - 1 : j \in 1 .. n /\ j - 1 < i - 1
    BY <1>2, <1>3
  <2>2. \A i \in 1 .. n - 1 : i \in 1 .. n
    BY <1>2
  <2> HIDE DEF n
  <2>3. \A i \in 1 .. n : \A j \in 1 .. i - 1 : entries[j].seq < entries[i].seq
    BY <1>3, <2>1
  <2>4. \A i \in 1 .. n - 1 : entries[i].event.kind # "run-finished"
    BY <1>2, <1>3, <2>2
  <2> QED BY <1>3, <2>1, <2>3, <2>4 DEF Readable
<1>4. CASE log = written
  BY <1>1, <1>2, <1>3, <1>4
<1>5. ASSUME NEW i \in 1 .. n, NEW e, e = Edited(written[i]) \/ e = Rehashed(written[i]),
             log = [written EXCEPT ![i] = e]
      PROVE  Readable(log)
  <2>1. e.seq = i - 1 /\ e.event.kind = "human-intervened"
    BY <1>2, <1>5, EditedFacts
  <2>2. /\ \E T : log \in Seq(T)
        /\ Len(log) = n /\ log[i] = e /\ \A j \in 1 .. n : j # i => log[j] = written[j]
    <3>1. written \in Seq(S \cup {e}) /\ e \in S \cup {e}
      BY <1>1, SeqMonotonic
    <3> QED BY <1>5, <3>1, ExceptSeq
  <2>3. \A j \in 1 .. n : /\ log[j].seq = j - 1
                          /\ \/ log[j].event = written[j].event
                             \/ log[j].event.kind = "human-intervened"
    BY <1>2, <2>1, <2>2
  <2> HIDE DEF n
  <2> QED BY <1>3, <2>2, <2>3
<1>6. ASSUME NEW i \in 1 .. n, log = RemoveAt(written, i)
      PROVE  Readable(log)
  <2>1. /\ log \in Seq(S) /\ Len(log) = n - 1
        /\ \A j \in 1 .. n - 1 : log[j] = IF j < i THEN written[j] ELSE written[j + 1]
    BY <1>1, <1>6, RemovedFacts
  <2> HIDE DEF n
  <2>2. ASSUME NEW j \in 1 .. n - 1
        PROVE  log[j].seq = IF j < i THEN j - 1 ELSE j
    <3>1. j \in 1 .. n /\ j + 1 \in 1 .. n /\ j + 1 - 1 = j
      BY <1>2
    <3> QED BY <1>2, <2>1, <3>1
  <2>3. ASSUME NEW j \in 1 .. n - 1, NEW k \in 1 .. j - 1 PROVE log[k].seq < log[j].seq
    <3>1. k \in 1 .. n - 1 /\ k < j
      BY <1>2
    <3>2. log[k].seq = (IF k < i THEN k - 1 ELSE k) /\ log[j].seq = (IF j < i THEN j - 1 ELSE j)
      BY <2>2, <3>1
    <3> QED BY <1>2, <3>1, <3>2
  <2>4. ASSUME NEW j \in 1 .. n - 1 - 1 PROVE log[j].event.kind # "run-finished"
    <3>1. j \in 1 .. n - 1 /\ j + 1 \in 1 .. n - 1
      BY <1>2
    <3> QED BY <1>2, <2>1, <3>1
  <2>5. \A j \in 1 .. n - 1 : log[j].seq \in Nat
    BY <1>2, <2>2
  <2> QED BY <2>1, <2>3, <2>4, <2>5 DEF Readable
<1>7. CASE log # written
  <2>1. PICK i \in 1 .. n : log \in {[written EXCEPT ![i] = Edited(written[i])],
                                     [written EXCEPT ![i] = Rehashed(written[i])],
                                     RemoveAt(written, i)}
    BY <1>0, <1>7 DEF Damaged
  <2> QED BY <1>5, <1>6, <2>1
<1> QED BY <1>4, <1>7

\* The spans of a log, intact or damaged, tell for every entry the state that
\* follows from it and the last tool call before it, each from an entry of its
\* state to one, in order, and no two neighbours say the same
\* (project-run-timeline.ts).
THEOREM StatesAreTold == Spec => []SpansTellTheStates
<1>1. LogInv => SpansTellTheStates
  <2> SUFFICES ASSUME LogInv PROVE SpansTellTheStates
    OBVIOUS
  <2>1. Readable(log)
    BY LogIsReadable
  <2>2. PICK S : log \in Seq(S)
    BY <2>1 DEF Readable
  <2>3. Spans(log, Len(log), States(log))
    BY <2>1, StatesTell
  <2>4. PICK T : States(log) \in Seq(T)
    BY <2>3 DEF Spans
  <2>5. DOMAIN log = 1 .. Len(log) /\ DOMAIN States(log) = 1 .. Len(States(log))
    BY <2>2, <2>4
  <2> QED BY <2>3, <2>5 DEF Spans, Marked, SpansTellTheStates, StateAt, Faulty, Called, Within
<1> QED BY <1>1, LogInvHolds, PTL
-----------------------------------------------------------------------------
(* Sums over finite sets, of numbers of micros and of tokens.              *)

\* The function by which the values of f at subsets of S are summed.
Adds(g, f, S) ==
    g = [u \in S |->
           IF u = {} THEN 0
           ELSE LET x == CHOOSE y \in u : TRUE IN f[x] + g[u \ {x}]]

Small(S, k) == {u \in SUBSET S : Cardinality(u) <= k}

\* One element fewer makes a set smaller, and there is one unless it is empty.
LEMMA Smaller ==
    ASSUME NEW S, IsFiniteSet(S), NEW k \in Nat, NEW u \in Small(S, k + 1), u # {}
    PROVE  LET x == CHOOSE y \in u : TRUE IN x \in u /\ u \ {x} \in Small(S, k)
<1> DEFINE x == CHOOSE y \in u : TRUE
<1>1. x \in u
  OBVIOUS
<1> HIDE DEF x
<1>2. IsFiniteSet(u) /\ Cardinality(u) \in Nat /\ Cardinality(u) <= k + 1
  BY FS_Subset, FS_CardinalityType DEF Small
<1>3. Cardinality(u \ {x}) = Cardinality(u) - 1
  BY <1>1, <1>2, FS_RemoveElement
<1>4. u \ {x} \in SUBSET S /\ Cardinality(u \ {x}) <= k
  BY <1>2, <1>3 DEF Small
<1> QED BY <1>1, <1>4 DEF Small, x

\* The sets of no elements, and of all.
LEMMA SmallSets ==
    ASSUME NEW S, IsFiniteSet(S)
    PROVE  /\ Small(S, 0) = {{}}
           /\ Cardinality(S) \in Nat /\ Small(S, Cardinality(S)) = SUBSET S
           /\ \A k \in Nat : Small(S, k) \subseteq Small(S, k + 1)
<1>1. \A u \in SUBSET S : IsFiniteSet(u) /\ Cardinality(u) \in Nat /\ Cardinality(u) <= Cardinality(S)
  BY FS_Subset, FS_CardinalityType
<1>2. Cardinality(S) \in Nat /\ Small(S, Cardinality(S)) = SUBSET S
  BY <1>1, FS_CardinalityType DEF Small
<1>3. Small(S, 0) = {{}}
  <2>1. \A u \in SUBSET S : Cardinality(u) <= 0 <=> u = {}
    BY <1>1, FS_EmptySet
  <2> QED BY <2>1 DEF Small
<1>4. \A k \in Nat : Small(S, k) \subseteq Small(S, k + 1)
  BY <1>1 DEF Small
<1> QED BY <1>2, <1>3, <1>4

\* There is such a function for a finite set.
LEMMA AddsExists ==
    ASSUME NEW S, IsFiniteSet(S), NEW f
    PROVE  \E g : Adds(g, f, SUBSET S)
<1> DEFINE T == {k \in Nat : \E g : Adds(g, f, Small(S, k))}
<1>1. 0 \in T
  <2> DEFINE g == [u \in Small(S, 0) |-> 0]
  <2>1. Adds(g, f, Small(S, 0))
    BY SmallSets DEF Adds
  <2> QED BY <2>1
<1>2. ASSUME NEW k \in Nat, k \in T PROVE k + 1 \in T
  <2>1. PICK g : Adds(g, f, Small(S, k))
    BY <1>2
  <2> DEFINE pick(u) == CHOOSE y \in u : TRUE
             h == [u \in Small(S, k + 1) |-> IF u = {} THEN 0 ELSE f[pick(u)] + g[u \ {pick(u)}]]
  <2>2. ASSUME NEW u \in Small(S, k + 1), u # {} PROVE h[u \ {pick(u)}] = g[u \ {pick(u)}]
    <3> DEFINE v == u \ {pick(u)}
    <3>1. v \in Small(S, k) /\ v \in Small(S, k + 1)
      BY <2>2, Smaller, SmallSets
    <3> HIDE DEF v
    <3>2. h[v] = IF v = {} THEN 0 ELSE f[pick(v)] + g[v \ {pick(v)}]
      BY <3>1
    <3>3. g[v] = IF v = {} THEN 0 ELSE f[pick(v)] + g[v \ {pick(v)}]
      BY <2>1, <3>1 DEF Adds
    <3>4. h[v] = g[v]
      BY ONLY <3>2, <3>3
    <3> QED BY <3>4 DEF v
  <2> DEFINE read(u) == IF u = {} THEN 0 ELSE f[pick(u)] + h[u \ {pick(u)}]
  <2>3. \A u \in Small(S, k + 1) : h[u] = read(u)
    <3> TAKE u \in Small(S, k + 1)
    <3>1. h[u] = IF u = {} THEN 0 ELSE f[pick(u)] + g[u \ {pick(u)}]
      OBVIOUS
    <3> HIDE DEF h, pick
    <3> QED BY <2>2, <3>1
  <2>4. h = [u \in Small(S, k + 1) |-> read(u)]
    <3>1. DOMAIN h = Small(S, k + 1) /\ h = [u \in DOMAIN h |-> h[u]]
      OBVIOUS
    <3> HIDE DEF h, read
    <3> QED BY <2>3, <3>1
  <2>5. Adds(h, f, Small(S, k + 1))
    BY <2>4 DEF Adds
  <2> QED BY <2>5
<1>3. Nat \subseteq T
  <2> HIDE DEF T
  <2> QED BY <1>1, <1>2, SetInduction
<1>4. Cardinality(S) \in T
  BY <1>3, SmallSets
<1>5. PICK g : Adds(g, f, Small(S, Cardinality(S)))
  BY <1>4
<1>6. Small(S, Cardinality(S)) = SUBSET S
  BY SmallSets
<1>7. Adds(g, f, SUBSET S)
  BY ONLY <1>5, <1>6
<1> QED BY <1>7

\* What holds of no elements, and of one more, holds of every subset.
LEMMA SubsetInduction ==
    ASSUME NEW S, IsFiniteSet(S), NEW T, {} \in T,
           \A u \in SUBSET S : u \in T => \A x \in S \ u : u \cup {x} \in T
    PROVE  SUBSET S \subseteq T
<1> DEFINE N == {k \in Nat : Small(S, k) \subseteq T}
<1>1. 0 \in N
  BY SmallSets
<1>2. ASSUME NEW k \in Nat, k \in N PROVE k + 1 \in N
  <2> SUFFICES ASSUME NEW u \in Small(S, k + 1) PROVE u \in T
    OBVIOUS
  <2> SUFFICES ASSUME u # {} PROVE u \in T
    OBVIOUS
  <2> DEFINE x == CHOOSE y \in u : TRUE
             v == u \ {x}
  <2>1. x \in u /\ v \in Small(S, k)
    BY Smaller
  <2>2. v \in T /\ v \in SUBSET S /\ x \in S \ v /\ u = v \cup {x}
    BY <1>2, <2>1 DEF Small
  <2> HIDE DEF x, v
  <2> QED BY <2>2
<1>3. Nat \subseteq N
  <2> HIDE DEF N
  <2> QED BY <1>1, <1>2, SetInduction
<1>4. Cardinality(S) \in N
  BY <1>3, SmallSets
<1> QED BY <1>4, SmallSets

Counts(f, S) == \A x \in S : f[x] \in Nat

Picks(p, f, S) == \A u \in SUBSET S : p[u] \in Nat /\ \A x \in u : p[u] = f[x] + p[u \ {x}]

\* A sum does not depend on the order in which it is taken.
LEMMA AddsPick ==
    ASSUME NEW S, IsFiniteSet(S), NEW f, Counts(f, S), NEW p, Adds(p, f, SUBSET S)
    PROVE  Picks(p, f, S)
<1> DEFINE T == {k \in Nat : \A u \in Small(S, k) :
                    p[u] \in Nat /\ \A x \in u : p[u] = f[x] + p[u \ {x}]}
<1>0. p[{}] = 0
  BY DEF Adds
<1>1. 0 \in T
  <2>1. \A u \in Small(S, 0) : u = {}
    BY SmallSets
  <2>2. p[{}] \in Nat /\ \A x \in {} : p[{}] = f[x] + p[{} \ {x}]
    BY <1>0
  <2> QED BY <2>1, <2>2
<1>2. ASSUME NEW k \in Nat, k \in T PROVE k + 1 \in T
  <2> SUFFICES ASSUME NEW u \in Small(S, k + 1)
               PROVE  p[u] \in Nat /\ \A x \in u : p[u] = f[x] + p[u \ {x}]
    OBVIOUS
  <2>1. CASE u = {}
    BY <1>0, <2>1
  <2>2. CASE u # {}
    <3> DEFINE y == CHOOSE z \in u : TRUE
    <3>1. y \in u /\ u \ {y} \in Small(S, k) /\ u \in SUBSET S
      BY <2>2, Smaller DEF Small
    <3>2. p[u] = f[y] + p[u \ {y}]
      BY <2>2, <3>1 DEF Adds
    <3> HIDE DEF y
    <3>3. \A x \in u : f[x] \in Nat
      BY <3>1 DEF Counts
    <3>4. p[u \ {y}] \in Nat /\ \A x \in u \ {y} : p[u \ {y}] = f[x] + p[(u \ {y}) \ {x}]
      BY <1>2, <3>1
    <3>5. p[u] \in Nat
      BY <3>1, <3>2, <3>3, <3>4
    <3>6. ASSUME NEW x \in u, x # y PROVE p[u] = f[x] + p[u \ {x}]
      <4> DEFINE v == u \ {x}
                 w == (u \ {y}) \ {x}
      <4>1. v \in Small(S, k)
        <5>1. IsFiniteSet(u) /\ Cardinality(u) \in Nat /\ Cardinality(u) <= k + 1
          BY FS_Subset, FS_CardinalityType DEF Small
        <5>2. Cardinality(v) = Cardinality(u) - 1
          BY <5>1, FS_RemoveElement
        <5> QED BY <3>1, <5>1, <5>2 DEF Small
      <4>2. y \in v /\ v \ {y} = w /\ x \in u \ {y} /\ w \in Small(S, k)
        <5>1. y \in v /\ v \ {y} = w /\ x \in u \ {y}
          BY <3>1, <3>6
        <5>2. IsFiniteSet(v) /\ w \in SUBSET v /\ v \in SUBSET S
              /\ Cardinality(v) \in Nat /\ Cardinality(v) <= k
          BY <4>1, FS_Subset, FS_CardinalityType DEF Small
        <5>3. Cardinality(w) \in Nat /\ Cardinality(w) <= Cardinality(v)
          BY <5>2, FS_Subset, FS_CardinalityType
        <5> QED BY <5>1, <5>2, <5>3 DEF Small
      <4>3. p[v] = f[y] + p[w] /\ p[v] \in Nat /\ p[w] \in Nat
        <5>1. \A z \in v : p[v] = f[z] + p[v \ {z}]
          BY <1>2, <4>1
        <5>2. p[v] \in Nat /\ p[w] \in Nat
          BY <1>2, <4>1, <4>2
        <5> HIDE DEF v, w, T
        <5> QED BY <4>2, <5>1, <5>2
      <4>4. p[u \ {y}] = f[x] + p[w]
        BY <3>4, <4>2
      <4> HIDE DEF T
      <4>5. f[x] \in Nat /\ f[y] \in Nat
        BY <3>1, <3>3
      <4>6. p[u] = f[x] + p[v]
        <5> HIDE DEF v, w
        <5> QED BY <3>2, <4>3, <4>4, <4>5
      <4> QED BY <4>6
    <3> HIDE DEF T
    <3> QED BY <3>2, <3>5, <3>6
  <2> QED BY <2>1, <2>2
<1>3. Nat \subseteq T
  <2> HIDE DEF T
  <2> QED BY <1>1, <1>2, SetInduction
<1>4. Cardinality(S) \in T /\ Small(S, Cardinality(S)) = SUBSET S
  BY <1>3, SmallSets
<1> QED BY <1>4 DEF Picks

\* The sum of the values of f over a set.
Over(f, u) == SumFunction([x \in u |-> f[x]])

\* What is known of the sums over the subsets of a set.
Tallies(f, S) ==
    /\ Over(f, {}) = 0
    /\ \A u \in SUBSET S :
          /\ Over(f, u) \in Nat
          /\ \A x \in S \ u : Over(f, u \cup {x}) = f[x] + Over(f, u)

\* The sum over no elements, and over one more.
LEMMA SumFacts ==
    ASSUME NEW S, IsFiniteSet(S), NEW f, Counts(f, S)
    PROVE  Tallies(f, S)
<1>1. PICK p : Adds(p, f, SUBSET S)
  BY AddsExists
<1>2. ASSUME NEW u \in SUBSET S PROVE Over(f, u) = p[u]
  <2> DEFINE h == [x \in u |-> f[x]]
             q == CHOOSE g : Adds(g, h, SUBSET u)
             T == {w \in SUBSET u : q[w] = p[w]}
  <2>1. IsFiniteSet(u) /\ Counts(h, u)
    BY FS_Subset DEF Counts
  <2>2. Adds(q, h, SUBSET u)
    BY <2>1, AddsExists
  <2>3. Over(f, u) = q[u]
    BY DEF Over, SumFunction, SumFunctionOnSet, FoldFunctionOnSet, MapThenFoldSet, Adds
  <2>4. \A x \in u : h[x] = f[x]
    OBVIOUS
  <2> HIDE DEF h, q
  <2>5. Picks(p, f, S) /\ Picks(q, h, u)
    BY <1>1, <2>1, <2>2, AddsPick
  <2>6. {} \in T
    BY <1>1, <2>2 DEF Adds
  <2>7. ASSUME NEW w \in SUBSET u, w \in T, NEW x \in u \ w PROVE w \cup {x} \in T
    <3> DEFINE v == w \cup {x}
    <3>1. v \in SUBSET S /\ v \in SUBSET u /\ x \in v /\ v \ {x} = w /\ h[x] = f[x]
      BY <2>4, <2>7
    <3>2. p[v] = f[x] + p[v \ {x}] /\ q[v] = h[x] + q[v \ {x}]
      <4> HIDE DEF v, T
      <4> QED BY <2>5, <3>1 DEF Picks
    <3>3. q[v] = p[v]
      BY <2>7, <3>1, <3>2
    <3> QED BY <3>1, <3>3
  <2>8. SUBSET u \subseteq T
    <3> HIDE DEF T
    <3> QED BY <2>1, <2>6, <2>7, SubsetInduction
  <2> QED BY <2>3, <2>8
<1>3. p[{}] = 0
  BY <1>1 DEF Adds
<1>4. \A u \in SUBSET S : p[u] \in Nat /\ \A x \in u : p[u] = f[x] + p[u \ {x}]
  <2>1. Picks(p, f, S)
    BY <1>1, AddsPick
  <2> QED BY <2>1 DEF Picks
<1>5. ASSUME NEW u \in SUBSET S, NEW x \in S \ u PROVE p[u \cup {x}] = f[x] + p[u]
  <2> DEFINE v == u \cup {x}
  <2>1. v \in SUBSET S /\ x \in v /\ v \ {x} = u
    OBVIOUS
  <2> HIDE DEF v
  <2>2. p[v] = f[x] + p[v \ {x}]
    BY <1>4, <2>1
  <2> QED BY <2>1, <2>2 DEF v
<1>6. {} \in SUBSET S /\ \A u \in SUBSET S : \A x \in S \ u : u \cup {x} \in SUBSET S
  OBVIOUS
<1> HIDE DEF Over
<1> QED BY <1>2, <1>3, <1>4, <1>5, <1>6 DEF Tallies


\* The sum depends on the values only.
LEMMA SumSame ==
    ASSUME NEW f, NEW h, NEW u, \A x \in u : h[x] = f[x]
    PROVE  Over(h, u) = Over(f, u)
<1>1. [x \in u |-> h[x]] = [x \in u |-> f[x]]
  OBVIOUS
<1> QED BY <1>1 DEF Over

\* The sum over two sets that have nothing in common,
LEMMA SumSplit ==
    ASSUME NEW S, IsFiniteSet(S), NEW f, Counts(f, S),
           NEW u \in SUBSET S, NEW v \in SUBSET S, u \cap v = {}
    PROVE  Over(f, u \cup v) = Over(f, u) + Over(f, v)
<1> DEFINE T == {w \in SUBSET v : Over(f, u \cup w) = Over(f, u) + Over(f, w)}
<1>1. Tallies(f, S)
  BY SumFacts
<1>2. IsFiniteSet(v)
  BY FS_Subset
<1>3. {} \in T
  <2>1. u \cup {} = u
    OBVIOUS
  <2>2. Over(f, u) = Over(f, u) + Over(f, {})
    BY <1>1 DEF Tallies
  <2>3. Over(f, u \cup {}) = Over(f, u) + Over(f, {})
    BY ONLY <2>1, <2>2
  <2> QED BY <2>3
<1>4. ASSUME NEW w \in SUBSET v, w \in T, NEW x \in v \ w PROVE w \cup {x} \in T
  <2> DEFINE a == u \cup w
             b == u \cup (w \cup {x})
  <2>1. /\ a \in SUBSET S /\ w \in SUBSET S /\ x \in S \ a /\ x \in S \ w
        /\ b = a \cup {x} /\ Over(f, a) = Over(f, u) + Over(f, w)
    BY <1>4
  <2> HIDE DEF a, b, T
  <2>2. /\ Over(f, a \cup {x}) = f[x] + Over(f, a) /\ Over(f, w \cup {x}) = f[x] + Over(f, w)
        /\ Over(f, u) \in Nat /\ Over(f, w) \in Nat /\ f[x] \in Nat
    BY <1>1, <2>1 DEF Tallies, Counts
  <2>3. Over(f, b) = Over(f, u) + Over(f, w \cup {x})
    BY <2>1, <2>2
  <2>4. w \cup {x} \in SUBSET v
    OBVIOUS
  <2> QED BY <2>3, <2>4 DEF T, b
<1>5. SUBSET v \subseteq T
  <2> HIDE DEF T
  <2> QED BY <1>2, <1>3, <1>4, SubsetInduction
<1>6. v \in T
  BY <1>5
<1> QED BY <1>6

\* ... over more elements,
LEMMA SumGrows ==
    ASSUME NEW S, IsFiniteSet(S), NEW f, Counts(f, S), NEW v \in SUBSET S, NEW u \in SUBSET v
    PROVE  Over(f, u) \in Nat /\ Over(f, v) \in Nat /\ Over(f, u) <= Over(f, v)
<1> DEFINE w == v \ u
<1>1. u \in SUBSET S /\ w \in SUBSET S /\ u \cap w = {} /\ u \cup w = v
  OBVIOUS
<1> HIDE DEF w
<1>2. Over(f, v) = Over(f, u) + Over(f, w)
  BY <1>1, SumSplit
<1>3. Over(f, u) \in Nat /\ Over(f, w) \in Nat
  <2>1. Tallies(f, S)
    BY SumFacts
  <2> QED BY <1>1, <2>1 DEF Tallies
<1> QED BY <1>2, <1>3

\* ... of nothing,
LEMMA SumNone ==
    ASSUME NEW S, IsFiniteSet(S), NEW f, \A x \in S : f[x] = 0
    PROVE  Over(f, S) = 0
<1> DEFINE T == {u \in SUBSET S : Over(f, u) = 0}
<1>1. Counts(f, S)
  BY DEF Counts
<1>2. Tallies(f, S)
  BY <1>1, SumFacts
<1>3. {} \in T
  BY <1>2 DEF Tallies
<1>4. ASSUME NEW u \in SUBSET S, u \in T, NEW x \in S \ u PROVE u \cup {x} \in T
  <2>1. Over(f, u \cup {x}) = 0 + Over(f, u) /\ Over(f, u) = 0 /\ u \cup {x} \in SUBSET S
    BY <1>2, <1>4 DEF Tallies
  <2> QED BY <2>1
<1>5. SUBSET S \subseteq T
  <2> HIDE DEF T
  <2> QED BY <1>3, <1>4, SubsetInduction
<1> QED BY <1>5

\* h is f, and c more at x; its sums are c more when x is among the elements.
Raised(h, f, S, x, c) ==
    /\ f \in [S -> Nat] /\ h \in [S -> Nat]
    /\ \A y \in S : h[y] = f[y] + (IF y = x THEN c ELSE 0)

RaisedSums(h, f, S, x, c) ==
    \A v \in SUBSET S :
        Over(f, v) \in Nat /\ Over(h, v) = Over(f, v) + (IF x \in v THEN c ELSE 0)

\* ... and of a function that is more at one element, if it is one of them.
LEMMA SumMore ==
    ASSUME NEW S, IsFiniteSet(S), NEW f, NEW x, NEW c \in Nat, NEW h, Raised(h, f, S, x, c)
    PROVE  RaisedSums(h, f, S, x, c)
<1> DEFINE more(u) == IF x \in u THEN c ELSE 0
           T == {u \in SUBSET S : Over(h, u) = Over(f, u) + more(u)}
<1>1. Counts(f, S) /\ Counts(h, S)
  BY DEF Counts, Raised
<1>2. Tallies(f, S) /\ Tallies(h, S)
  BY <1>1, SumFacts
<1>3. {} \in T
  BY <1>2 DEF Tallies
<1>4. ASSUME NEW u \in SUBSET S, u \in T, NEW y \in S \ u PROVE u \cup {y} \in T
  <2> DEFINE w == u \cup {y}
  <2>1. /\ Over(f, w) = f[y] + Over(f, u) /\ Over(h, w) = h[y] + Over(h, u)
        /\ Over(f, u) \in Nat /\ Over(h, u) = Over(f, u) + more(u)
    BY <1>2, <1>4 DEF Tallies
  <2>2. f[y] \in Nat /\ h[y] = f[y] + (IF y = x THEN c ELSE 0)
    BY DEF Raised
  <2>3. more(w) = more(u) + (IF y = x THEN c ELSE 0)
    OBVIOUS
  <2>4. more(u) \in Nat /\ (IF y = x THEN c ELSE 0) \in Nat /\ w \in SUBSET S
    OBVIOUS
  <2> HIDE DEF more, w
  <2>5. Over(h, w) = Over(f, w) + more(w)
    BY <2>1, <2>2, <2>3, <2>4
  <2> QED BY <2>4, <2>5 DEF w
<1>5. SUBSET S \subseteq T
  <2> HIDE DEF T
  <2> QED BY <1>3, <1>4, SubsetInduction
<1>6. \A v \in SUBSET S : Over(f, v) \in Nat
  BY <1>2 DEF Tallies
<1> QED BY <1>5, <1>6 DEF RaisedSums

\* g sums f over the parts of a set.
Parts(g, f, part, R, S) ==
    /\ \A r \in R : part[r] \subseteq S /\ g[r] = Over(f, part[r])
    /\ \A r \in R : \A t \in R : r # t => part[r] \cap part[t] = {}

\* The sums over the parts add up to the sum over the whole.
LEMMA SumNested ==
    ASSUME NEW S, IsFiniteSet(S), NEW f, Counts(f, S), NEW R, IsFiniteSet(R),
           NEW part, NEW g, Parts(g, f, part, R, S)
    PROVE  Over(g, R) = Over(f, UNION {part[r] : r \in R})
<1> DEFINE all(u) == UNION {part[r] : r \in u}
           T == {u \in SUBSET R : Over(g, u) = Over(f, all(u))}
<1>1. Tallies(f, S)
  BY SumFacts
<1>2. \A r \in R : part[r] \in SUBSET S /\ g[r] = Over(f, part[r]) /\ g[r] \in Nat
  BY <1>1 DEF Parts, Tallies
<1>3. Counts(g, R)
  BY <1>2 DEF Counts
<1>4. Tallies(g, R)
  BY <1>3, SumFacts
<1>5. {} \in T
  <2>1. all({}) = {}
    OBVIOUS
  <2>2. Over(g, {}) = 0 /\ Over(f, {}) = 0
    BY <1>1, <1>4 DEF Tallies
  <2>3. Over(g, {}) = Over(f, all({}))
    BY ONLY <2>1, <2>2
  <2> QED BY <2>3
<1>6. ASSUME NEW u \in SUBSET R, u \in T, NEW r \in R \ u PROVE u \cup {r} \in T
  <2>1. all(u \cup {r}) = all(u) \cup part[r]
    OBVIOUS
  <2>2. all(u) \in SUBSET S /\ part[r] \in SUBSET S
    BY <1>2
  <2>3. all(u) \cap part[r] = {}
    BY DEF Parts
  <2>4. Over(g, u \cup {r}) = g[r] + Over(g, u) /\ Over(g, u) = Over(f, all(u))
    BY <1>4, <1>6 DEF Tallies
  <2> HIDE DEF all
  <2>5. Over(f, all(u) \cup part[r]) = Over(f, all(u)) + Over(f, part[r])
    BY <2>2, <2>3, SumSplit
  <2>6. Over(f, all(u)) \in Nat /\ g[r] = Over(f, part[r]) /\ g[r] \in Nat
    BY <1>1, <1>2, <2>2 DEF Tallies
  <2>7. Over(g, u \cup {r}) = Over(f, all(u) \cup part[r])
    BY <2>4, <2>5, <2>6
  <2>8. Over(g, u \cup {r}) = Over(f, all(u \cup {r}))
    BY ONLY <2>1, <2>7
  <2> QED BY <2>8
<1>7. SUBSET R \subseteq T
  <2> HIDE DEF T
  <2> QED BY <1>5, <1>6, SubsetInduction
<1>8. R \in T
  BY <1>7
<1> QED BY <1>8
-----------------------------------------------------------------------------
(* What is billed, metered and posted over a period.                       *)

Window(start, end) == {u \in Instant : start <= u /\ u < end}

\* A period has finitely many instants, and its sum is one over them.
LEMMA WindowFacts ==
    ASSUME NEW start, NEW end
    PROVE  /\ IsFiniteSet(Instant) /\ Window(start, end) \in SUBSET Instant
           /\ \A byInstant : Summed(byInstant, start, end) = Over(byInstant, Window(start, end))
<1>1. IsFiniteSet(Instant)
  BY ReconciliationAssumption, FS_Interval DEF Instant
<1> QED BY <1>1 DEF Window, Summed, Over

\* The sum of a source over a period, when a cost is added at an instant.
LEMMA SummedMore ==
    ASSUME NEW byInstant, NEW raised, NEW x, NEW c \in Nat, Raised(raised, byInstant, Instant, x, c),
           NEW start, NEW end
    PROVE  /\ Summed(byInstant, start, end) \in Nat
           /\ Summed(raised, start, end)
              = Summed(byInstant, start, end) + (IF x \in Window(start, end) THEN c ELSE 0)
<1> DEFINE S == Window(start, end)
<1>1. /\ IsFiniteSet(Instant) /\ S \in SUBSET Instant
      /\ Summed(byInstant, start, end) = Over(byInstant, S)
      /\ Summed(raised, start, end) = Over(raised, S)
  BY WindowFacts
<1> HIDE DEF S
<1>2. Over(byInstant, S) \in Nat
      /\ Over(raised, S) = Over(byInstant, S) + (IF x \in S THEN c ELSE 0)
  <2>1. RaisedSums(raised, byInstant, Instant, x, c)
    BY <1>1, SumMore
  <2> QED BY <1>1, <2>1 DEF RaisedSums
<1> QED BY <1>1, <1>2 DEF S

\* The sum of a source over a period is a number of micros.
LEMMA SummedIsNat ==
    ASSUME NEW byInstant \in [Instant -> Nat], NEW start, NEW end
    PROVE  Summed(byInstant, start, end) \in Nat
<1>1. 0 \in Instant
  BY ReconciliationAssumption DEF Instant
<1>2. Raised(byInstant, byInstant, Instant, 0, 0)
  BY DEF Raised
<1> QED BY <1>1, <1>2, SummedMore

\* Of nothing, the sum is nothing.
LEMMA SummedNone ==
    ASSUME NEW start, NEW end
    PROVE  Summed([t \in Instant |-> 0], start, end) = 0
<1> DEFINE S == Window(start, end)
           f == [t \in Instant |-> 0]
<1>1. IsFiniteSet(Instant) /\ S \in SUBSET Instant /\ Summed(f, start, end) = Over(f, S)
  BY WindowFacts
<1>2. IsFiniteSet(S) /\ \A t \in S : f[t] = 0
  BY <1>1, FS_Subset
<1> HIDE DEF S, f
<1>3. Over(f, S) = 0
  BY <1>2, SumNone
<1> QED BY <1>1, <1>3 DEF f

\* The settlements a log records, what they cost, and those of a period.
Recorded(entries) == At(entries, "usage-recorded")

Costs(entries) == [i \in Recorded(entries) |-> entries[i].event.costMicros]

Dated(entries, start, end) ==
    {i \in Recorded(entries) : entries[i].at >= start /\ entries[i].at < end}

\* What is metered is the sum of what the settlements of a period cost.
LEMMA MeteredFacts ==
    ASSUME NEW entries, NEW start, NEW end
    PROVE  /\ Dated(entries, start, end) \in SUBSET Recorded(entries)
           /\ Metered(MeterEvents(entries), start, end) = Over(Costs(entries), Dated(entries, start, end))
<1> DEFINE events == MeterEvents(entries)
           window == {j \in DOMAIN events : events[j].at >= start /\ events[j].at < end}
<1>1. DOMAIN events = Recorded(entries)
  BY DEF MeterEvents, Recorded
<1>2. \A i \in Recorded(entries) :
         events[i].at = entries[i].at /\ events[i].costMicros = Costs(entries)[i]
  BY DEF MeterEvents, Recorded, Costs
<1> HIDE DEF events
<1>3. window = Dated(entries, start, end)
  BY <1>1, <1>2 DEF Dated
<1>4. [i \in window |-> events[i].costMicros] = [i \in window |-> Costs(entries)[i]]
  BY <1>1, <1>2
<1>5. Metered(events, start, end) = Over(Costs(entries), window)
  BY <1>4 DEF Metered, Over
<1>6. Dated(entries, start, end) \in SUBSET Recorded(entries)
  BY DEF Dated
<1> QED BY <1>3, <1>5, <1>6 DEF events

\* The settlements are finitely many.
LEMMA RecordedFinite ==
    ASSUME NEW S, NEW entries \in Seq(S)
    PROVE  /\ Recorded(entries) \subseteq 1 .. Len(entries)
           /\ \A u \in SUBSET (1 .. Len(entries)) : IsFiniteSet(u)
<1>1. Len(entries) \in Nat /\ DOMAIN entries = 1 .. Len(entries)
  OBVIOUS
<1>2. IsFiniteSet(1 .. Len(entries))
  BY <1>1, FS_Interval
<1> QED BY <1>1, <1>2, FS_Subset DEF Recorded, At

\* What is metered when an entry more is read.
LEMMA MeteredMore ==
    ASSUME NEW S, NEW entries \in Seq(S), NEW e \in S, Counts(Costs(entries), Recorded(entries)),
           e.event.kind = "usage-recorded" => e.event.costMicros \in Nat,
           NEW start, NEW end
    PROVE  /\ Counts(Costs(Append(entries, e)), Recorded(Append(entries, e)))
           /\ Metered(MeterEvents(entries), start, end) \in Nat
           /\ Metered(MeterEvents(Append(entries, e)), start, end)
              = IF e.event.kind = "usage-recorded" /\ e.at >= start /\ e.at < end
                  THEN Metered(MeterEvents(entries), start, end) + e.event.costMicros
                  ELSE Metered(MeterEvents(entries), start, end)
<1> DEFINE n == Len(entries)
           more == Append(entries, e)
           new == IF e.event.kind = "usage-recorded" THEN {n + 1} ELSE {}
           u == Dated(entries, start, end)
           c == Costs(entries)
           d == Costs(more)
<1>1. /\ n \in Nat /\ more \in Seq(S) /\ DOMAIN more = 1 .. n + 1 /\ DOMAIN entries = 1 .. n
      /\ more[n + 1] = e /\ \A i \in 1 .. n : more[i] = entries[i]
  OBVIOUS
<1>2. n + 1 \notin 1 .. n /\ 1 .. n + 1 = (1 .. n) \cup {n + 1}
  BY <1>1
<1> HIDE DEF n, more
<1>3. Recorded(more) = Recorded(entries) \cup new
  BY <1>1, <1>2 DEF Recorded, At
<1>4. \A i \in Recorded(entries) : i \in 1 .. n /\ i \in Recorded(more) /\ d[i] = c[i] /\ c[i] \in Nat
  BY <1>1, <1>3 DEF Recorded, At, Costs, Counts
<1>5. \A i \in new : i = n + 1 /\ i \in Recorded(more) /\ d[i] = e.event.costMicros /\ d[i] \in Nat
  BY <1>1, <1>3 DEF Costs
<1>6. Counts(d, Recorded(more))
  BY <1>3, <1>4, <1>5 DEF Counts
<1>7. IsFiniteSet(Recorded(more)) /\ IsFiniteSet(Recorded(entries))
  BY <1>1, RecordedFinite DEF more, n
<1>8. /\ u \in SUBSET Recorded(entries)
      /\ Metered(MeterEvents(entries), start, end) = Over(c, u)
      /\ Metered(MeterEvents(more), start, end) = Over(d, Dated(more, start, end))
  BY MeteredFacts
<1>9. Over(d, u) = Over(c, u)
  <2>1. \A i \in u : d[i] = c[i]
    BY <1>4, <1>8
  <2> HIDE DEF c, d, u
  <2> QED BY <2>1, SumSame
<1>10. Tallies(d, Recorded(more)) /\ u \in SUBSET Recorded(more)
  BY <1>3, <1>6, <1>7, <1>8, SumFacts
<1>11. Over(c, u) \in Nat
  <2>1. Over(d, u) \in Nat
    BY <1>10 DEF Tallies
  <2> QED BY <1>9, <2>1
<1>12. \A i \in 1 .. n : more[i] = entries[i]
  BY <1>1
<1>13. CASE e.event.kind = "usage-recorded" /\ e.at >= start /\ e.at < end
  <2>1. Dated(more, start, end) = u \cup {n + 1}
    BY <1>1, <1>3, <1>4, <1>13 DEF Dated
  <2>2. n + 1 \in Recorded(more) \ u /\ d[n + 1] = e.event.costMicros
    BY <1>2, <1>3, <1>4, <1>5, <1>8, <1>13
  <2> HIDE DEF d, u, new, c
  <2>3. Over(d, u \cup {n + 1}) = d[n + 1] + Over(d, u)
    BY <1>10, <2>2 DEF Tallies
  <2>4. e.event.costMicros \in Nat
    BY <1>13
  <2> QED BY <1>6, <1>8, <1>9, <1>11, <1>13, <2>1, <2>2, <2>3, <2>4 DEF d, more
<1>14. CASE ~(e.event.kind = "usage-recorded" /\ e.at >= start /\ e.at < end)
  <2>1. Dated(more, start, end) = u
    BY <1>1, <1>3, <1>4, <1>5, <1>14 DEF Dated
  <2> HIDE DEF d, u, new, c
  <2> QED BY <1>6, <1>8, <1>9, <1>11, <1>14, <2>1 DEF d, more
<1> QED BY <1>13, <1>14

Apart(a, b) == Difference(a, b) > Tolerance

\* The source that is off over a period: one that went wrong at one instant of it.
OffOver(cause, start, end) ==
    IF cause # NoSlip /\ \E t \in Instant : cause.at \cap Window(start, end) = {t}
      THEN cause.source ELSE "none"

Balanced(billed, metered, posted, off) ==
    CASE off = "none"             -> billed = metered /\ posted = metered
      [] off = "provider-invoice" -> posted = metered /\ Apart(billed, metered)
      [] off = "meter-events"     -> posted = billed /\ Apart(billed, metered)
      [] off = "internal-ledger"  -> billed = metered /\ Apart(posted, metered)

SlipInv ==
    \/ slip = NoSlip
    \/ \E t \in Instant : \E u \in Instant \ {t} :
          slip = [source |-> "provider-invoice", at |-> {t, u}]
    \/ \E t \in Instant, source \in {"meter-events", "internal-ledger"} :
          slip = [source |-> source, at |-> {t}]

\* What an event may be that follows n entries: a call of a known model, or the
\* usage of an entry before it, at the price of the model when that one is a call.
Accounted(entries, event, n) ==
    /\ event.kind = "model-invoked" => event.snapshot \in Model
    /\ event.kind = "usage-recorded" =>
          /\ event.usage \in Usage /\ event.costMicros \in Nat
          /\ event.invocationSeq \in 0 .. n - 1
          /\ LET call == entries[event.invocationSeq + 1].event
             IN  call.kind = "model-invoked" =>
                    event.costMicros = Priced(event.usage, call.snapshot, Price)

\* What a log was written of.
CallsInv ==
    /\ Chained(written)
    /\ \A i \in 1 .. Len(written) :
          written[i].at \in Instant /\ Accounted(written, written[i].event, i - 1)

BooksInv ==
    /\ now \in Instant
    /\ invoice \in [Instant -> Nat] /\ ledger \in [Instant -> Nat]
    /\ SlipInv
    /\ CallsInv
    /\ \A start \in Nat, end \in Nat :
          LET metered == Metered(MeterEvents(written), start, end)
          IN  /\ metered \in Nat
              /\ Balanced(Summed(invoice, start, end), metered, Summed(ledger, start, end),
                          OffOver(slip, start, end))

\* A price is a number of micros.
LEMMA PriceIsNat ==
    ASSUME NEW usage \in Usage, NEW model \in Model
    PROVE  Priced(usage, model, Price) \in Nat
<1>1. usage.input \in Nat /\ usage.output \in Nat
  BY TimelineAssumption
<1>2. Price[model].input \in Nat /\ Price[model].output \in Nat
  BY TimelineAssumption
<1>3. \A a \in Nat, b \in Nat, c \in Nat, d \in Nat : a * b + c * d \in Nat
  OBVIOUS
<1> QED BY <1>1, <1>2, <1>3 DEF Priced

\* A call costs its tokens at the prices of the model it named.
LEMMA CallCost ==
    ASSUME CallsInv, log = written, NEW seq \in InvocationSeqs(log), NEW usage \in Usage
    PROVE  /\ CostOf(seq, usage) \in Nat
           /\ \E model \in Model : CostOf(seq, usage) = Priced(usage, model, Price)
           /\ Accounted(written, UsageOf(seq, usage, CostOf(seq, usage)), Len(written))
<1>1. PICK S : written \in Seq(S)
  BY DEF CallsInv, Chained
<1>2. PICK i \in 1 .. Len(written) : written[i].event.kind = "model-invoked" /\ seq = written[i].seq
  BY <1>1 DEF InvocationSeqs, At
<1>3. seq + 1 = i /\ seq \in 0 .. Len(written) - 1
  BY <1>1, <1>2 DEF CallsInv, Chained
<1>4. log[seq + 1].event.snapshot \in Model
  BY <1>2, <1>3 DEF CallsInv, Accounted
<1>5. CostOf(seq, usage) = Priced(usage, log[seq + 1].event.snapshot, Price)
  BY DEF CostOf
<1>6. CostOf(seq, usage) \in Nat
  BY <1>4, <1>5, PriceIsNat
<1>7. Accounted(written, UsageOf(seq, usage, CostOf(seq, usage)), Len(written))
  BY <1>3, <1>5, <1>6 DEF Accounted, UsageOf
<1> QED BY <1>4, <1>5, <1>6, <1>7

\* A settlement that names another entry than a call may cost anything.
LEMMA StrayCost ==
    ASSUME CallsInv, log = written, NEW seq \in 0 .. Len(log) - 1, seq \notin InvocationSeqs(log),
           NEW usage \in Usage, NEW cost \in Nat
    PROVE  Accounted(written, UsageOf(seq, usage, cost), Len(written))
<1>1. PICK S : written \in Seq(S)
  BY DEF CallsInv, Chained
<1>2. seq + 1 \in 1 .. Len(written) /\ written[seq + 1].seq = seq
  BY <1>1 DEF CallsInv, Chained
<1>3. written[seq + 1].event.kind # "model-invoked"
  BY <1>1, <1>2 DEF InvocationSeqs, At
<1> QED BY <1>3 DEF Accounted, UsageOf

\* What was accounted for stays so when an entry more is read.
LEMMA AccountedMore ==
    ASSUME NEW entries, NEW more, NEW event, NEW n \in Nat,
           \A i \in 1 .. n : more[i] = entries[i], Accounted(entries, event, n)
    PROVE  Accounted(more, event, n)
<1> SUFFICES ASSUME event.kind = "usage-recorded"
             PROVE  more[event.invocationSeq + 1] = entries[event.invocationSeq + 1]
  BY DEF Accounted
<1>1. event.invocationSeq + 1 \in 1 .. n
  BY DEF Accounted
<1> QED BY <1>1

\* What the settlements of a log cost.
LEMMA CostsCount == ASSUME CallsInv PROVE Counts(Costs(written), Recorded(written))
<1>1. PICK S : written \in Seq(S)
  BY DEF CallsInv, Chained
<1>2. \A i \in Recorded(written) : i \in 1 .. Len(written) /\ written[i].event.kind = "usage-recorded"
  BY <1>1 DEF Recorded, At
<1>3. \A i \in Recorded(written) : written[i].event.costMicros \in Nat
  BY <1>2 DEF CallsInv, Accounted
<1> QED BY <1>3 DEF Counts, Costs

\* What one entry more does to what is metered.
LEMMA WriteMeters ==
    ASSUME CallsInv, NEW event, Write(event), now \in Instant,
           Accounted(written, event, Len(written)), NEW start, NEW end
    PROVE  /\ CallsInv'
           /\ Metered(MeterEvents(written'), start, end)
              = IF event.kind = "usage-recorded" /\ now >= start /\ now < end
                  THEN Metered(MeterEvents(written), start, end) + event.costMicros
                  ELSE Metered(MeterEvents(written), start, end)
<1> DEFINE n == Len(written)
           e == [seq |-> n, at |-> now, event |-> event,
                 previousHash |-> HashBefore(written, n + 1),
                 hash |-> Hash([seq |-> n, at |-> now, event |-> event,
                                previousHash |-> HashBefore(written, n + 1)])]
<1>1. PICK S : written \in Seq(S)
  BY DEF CallsInv, Chained
<1>2. written' = Append(written, e) /\ e.event = event /\ e.at = now
  BY DEF Write, Appended
<1>3. Chained(written')
  BY AppendedFacts DEF CallsInv, Write
<1> HIDE DEF e
<1>4. written \in Seq(S \cup {e}) /\ e \in S \cup {e}
  BY <1>1, SeqMonotonic
<1>5. /\ Len(written') = n + 1 /\ n \in Nat /\ written'[n + 1] = e
      /\ \A i \in 1 .. n : written'[i] = written[i]
  BY <1>2, <1>4, AppendProperties
<1>6. ASSUME NEW i \in 1 .. n + 1
      PROVE  written'[i].at \in Instant /\ Accounted(written', written'[i].event, i - 1)
  <2>1. CASE i = n + 1
    <3>1. Accounted(written', event, n)
      BY <1>5, AccountedMore
    <3> QED BY <1>2, <1>5, <2>1, <3>1
  <2>2. CASE i \in 1 .. n
    <3>1. Accounted(written, written[i].event, i - 1) /\ written[i].at \in Instant
      BY <2>2 DEF CallsInv
    <3>2. i - 1 \in Nat /\ \A j \in 1 .. i - 1 : written'[j] = written[j]
      BY <1>5, <2>2
    <3>3. Accounted(written', written[i].event, i - 1)
      BY <3>1, <3>2, AccountedMore
    <3> QED BY <1>5, <2>2, <3>1, <3>3
  <2> QED BY <1>5, <2>1, <2>2
<1>7. CallsInv'
  BY <1>3, <1>5, <1>6 DEF CallsInv, Instant
<1>8. Counts(Costs(written), Recorded(written))
  BY CostsCount
<1>9. e.event.kind = "usage-recorded" => e.event.costMicros \in Nat
  BY <1>2 DEF Accounted
<1> HIDE DEF n
<1> QED BY <1>2, <1>4, <1>7, <1>8, <1>9, MeteredMore

\* A cause is some source and some instants.
LEMMA CauseFacts ==
    ASSUME NEW source \in Source, NEW at \in SUBSET Instant
    PROVE  /\ [source |-> source, at |-> at] # NoSlip
           /\ [source |-> source, at |-> at].at = at /\ [source |-> source, at |-> at].source = source
<1>1. Instant \subseteq Nat
  BY ReconciliationAssumption DEF Instant
<1>2. [source |-> source, at |-> at] \in [source : Source, at : SUBSET Nat]
  BY <1>1
<1> QED BY <1>2, ReconciliationAssumption

\* What a cause makes of a period: one at an instant,
LEMMA OffOnce ==
    ASSUME NEW start, NEW end, NEW source \in Source, NEW t \in Instant
    PROVE  OffOver([source |-> source, at |-> {t}], start, end)
           = IF t \in Window(start, end) THEN source ELSE "none"
<1> DEFINE W == Window(start, end)
<1>1. (\E v \in Instant : {t} \cap W = {v}) <=> t \in W
  OBVIOUS
<1> HIDE DEF W
<1> QED BY <1>1, CauseFacts DEF OffOver, W

\* ... and one that puts a cost at one instant instead of another.
LEMMA OffTwice ==
    ASSUME NEW start, NEW end, NEW source \in Source, NEW t \in Instant, NEW u \in Instant \ {t}
    PROVE  OffOver([source |-> source, at |-> {t, u}], start, end)
           = IF t \in Window(start, end) <=> u \in Window(start, end) THEN "none" ELSE source
<1> DEFINE W == Window(start, end)
           cause == [source |-> source, at |-> {t, u}]
<1>0. cause # NoSlip /\ cause.at = {t, u} /\ cause.source = source
  BY CauseFacts
<1> HIDE DEF W, cause
<1>1. (\E v \in Instant : {t, u} \cap W = {v}) <=> ~(t \in W <=> u \in W)
  <2>1. CASE t \in W /\ u \in W
    <3>1. t \in {t, u} \cap W /\ u \in {t, u} \cap W /\ t # u
      BY <2>1
    <3> QED BY <2>1, <3>1
  <2>2. CASE t \in W /\ u \notin W
    <3>1. {t, u} \cap W = {t}
      BY <2>2
    <3> QED BY <2>2, <3>1
  <2>3. CASE t \notin W /\ u \in W
    <3>1. {t, u} \cap W = {u}
      BY <2>3
    <3> QED BY <2>3, <3>1
  <2>4. CASE t \notin W /\ u \notin W
    <3>1. {t, u} \cap W = {}
      BY <2>4
    <3> QED BY <2>4, <3>1
  <2> QED BY <2>1, <2>2, <2>3, <2>4
<1>2. OffOver(cause, start, end) = IF t \in W <=> u \in W THEN "none" ELSE source
  BY <1>0, <1>1 DEF OffOver, W
<1> QED BY <1>2 DEF W, cause

\* What billing and posting a call do to the sums.
LEMMA BillSums ==
    ASSUME now \in Instant, invoice \in [Instant -> Nat], ledger \in [Instant -> Nat],
           NEW cost \in Nat, NEW at \in Instant, NEW postings \in {0, 1, 2},
           Bill(cost, at, postings), NEW start, NEW end
    PROVE  /\ invoice' \in [Instant -> Nat] /\ ledger' \in [Instant -> Nat]
           /\ Summed(invoice, start, end) \in Nat /\ Summed(ledger, start, end) \in Nat
           /\ Summed(invoice', start, end)
              = Summed(invoice, start, end) + (IF at \in Window(start, end) THEN cost ELSE 0)
           /\ Summed(ledger', start, end)
              = Summed(ledger, start, end)
                + (IF now \in Window(start, end) THEN postings * cost ELSE 0)
<1> DEFINE posted == postings * cost
<1>1. posted \in Nat
  OBVIOUS
<1> HIDE DEF posted
<1>2. Raised(invoice', invoice, Instant, at, cost) /\ Raised(ledger', ledger, Instant, now, posted)
  BY <1>1 DEF Bill, posted, Raised
<1>3. invoice' \in [Instant -> Nat] /\ ledger' \in [Instant -> Nat]
  BY <1>2 DEF Raised
<1>4. /\ Summed(invoice, start, end) \in Nat
      /\ Summed(invoice', start, end)
         = Summed(invoice, start, end) + (IF at \in Window(start, end) THEN cost ELSE 0)
  BY <1>2, SummedMore
<1>5. /\ Summed(ledger, start, end) \in Nat
      /\ Summed(ledger', start, end)
         = Summed(ledger, start, end) + (IF now \in Window(start, end) THEN posted ELSE 0)
  BY <1>1, <1>2, SummedMore
<1> QED BY <1>3, <1>4, <1>5 DEF posted

Off == Source \cup {"none"}

\* A cost that every source has, or one that a source lacks or has once more.
LEMMA CostFacts ==
    ASSUME NEW b \in Nat, NEW m \in Nat, NEW p \in Nat, NEW c \in Nat, c > Tolerance, NEW off \in Off,
           Balanced(b, m, p, off)
    PROVE  /\ Balanced(b + c, m + c, p + c, off)
           /\ off = "none" =>
                 /\ Balanced(b + c, m, p + c, "meter-events") /\ Balanced(b, m + c, p, "meter-events")
                 /\ \A k \in {0, 2} : Balanced(b + c, m + c, p + k * c, "internal-ledger")
                 /\ Balanced(b + c, m, p, "provider-invoice")
                 /\ Balanced(b, m + c, p + c, "provider-invoice")
<1>1. Tolerance \in Nat
  BY ReconciliationAssumption
<1>2. Balanced(b + c, m + c, p + c, off)
  <2>1. \A x \in Nat, y \in Nat : Apart(x, y) => Apart(x + c, y + c)
    BY <1>1 DEF Apart, Difference
  <2>2. off \in {"none", "provider-invoice", "meter-events", "internal-ledger"}
    BY DEF Off, Source
  <2>3. CASE off = "none"
    BY <2>3 DEF Balanced
  <2>4. CASE off = "provider-invoice"
    BY <2>1, <2>4 DEF Balanced
  <2>5. CASE off = "meter-events"
    BY <2>1, <2>5 DEF Balanced
  <2>6. CASE off = "internal-ledger"
    BY <2>1, <2>6 DEF Balanced
  <2> QED BY <2>2, <2>3, <2>4, <2>5, <2>6
<1>3. ASSUME off = "none"
      PROVE  /\ Balanced(b + c, m, p + c, "meter-events") /\ Balanced(b, m + c, p, "meter-events")
             /\ \A k \in {0, 2} : Balanced(b + c, m + c, p + k * c, "internal-ledger")
             /\ Balanced(b + c, m, p, "provider-invoice")
             /\ Balanced(b, m + c, p + c, "provider-invoice")
  <2>1. b = m /\ p = m
    BY <1>3 DEF Balanced
  <2>2. \A x \in Nat : Apart(x + c, x) /\ Apart(x, x + c)
    BY <1>1 DEF Apart, Difference
  <2>3. \A k \in {0, 2} : Apart(m + k * c, m + c)
    <3>1. 0 * c = 0 /\ 2 * c = c + c
      OBVIOUS
    <3> QED BY <1>1, <3>1 DEF Apart, Difference
  <2> QED BY <2>1, <2>2, <2>3 DEF Balanced
<1> QED BY <1>2, <1>3

\* What is off over a period is a source, or nothing.
LEMMA OffIsSource == ASSUME SlipInv, NEW start, NEW end PROVE OffOver(slip, start, end) \in Off
<1>1. CASE slip = NoSlip
  BY <1>1 DEF OffOver, Off
<1>2. CASE slip # NoSlip
  <2>1. slip.source \in Source
    BY <1>2 DEF SlipInv, Source
  <2> QED BY <2>1 DEF OffOver, Off
<1> QED BY <1>1, <1>2

\* Every call costs more than the tolerance.
CallsCost == \A usage \in Usage, model \in Model : Priced(usage, model, Price) > Tolerance

\* What billing a cost, and what recording it, does to the sums over a period.
Sums(cost, at, postings, start, end) ==
    /\ Summed(invoice, start, end) \in Nat /\ Summed(ledger, start, end) \in Nat
    /\ Summed(invoice', start, end)
       = IF at \in Window(start, end) THEN Summed(invoice, start, end) + cost
                                      ELSE Summed(invoice, start, end)
    /\ Summed(ledger', start, end)
       = IF now \in Window(start, end) THEN Summed(ledger, start, end) + postings * cost
                                       ELSE Summed(ledger, start, end)

Meters(cost, start, end) ==
    Metered(MeterEvents(written'), start, end)
    = IF now \in Window(start, end) THEN Metered(MeterEvents(written), start, end) + cost
                                    ELSE Metered(MeterEvents(written), start, end)

\* What a step that records the usage of a call, and bills it, does to the books.
LEMMA RecordedStep ==
    ASSUME BooksInv, NEW seq \in 0 .. MaxLog, NEW usage \in Usage, NEW cost \in Nat,
           Write(UsageOf(seq, usage, cost)),
           Accounted(written, UsageOf(seq, usage, cost), Len(written))
    PROVE  /\ CallsInv'
           /\ \A start \in Nat, end \in Nat : Meters(cost, start, end)
<1> DEFINE event == UsageOf(seq, usage, cost)
<1>1. event.kind = "usage-recorded" /\ event.costMicros = cost
  BY DEF UsageOf
<1> HIDE DEF event
<1>2. Write(event) /\ Accounted(written, event, Len(written))
  BY DEF event
<1>3. ASSUME NEW start \in Nat, NEW end \in Nat PROVE CallsInv' /\ Meters(cost, start, end)
  <2>1. Metered(MeterEvents(written), start, end) \in Nat /\ CallsInv /\ now \in Instant
    BY DEF BooksInv
  <2> QED BY <1>1, <1>2, <2>1, WriteMeters DEF Meters, Window
<1>4. 0 \in Nat
  OBVIOUS
<1> QED BY <1>3, <1>4

\* What a step that bills a cost, and posts it some times, does to the books.
LEMMA BilledStep ==
    ASSUME BooksInv, NEW cost \in Nat, NEW at \in Instant, NEW postings \in {0, 1, 2},
           Bill(cost, at, postings)
    PROVE  /\ invoice' \in [Instant -> Nat] /\ ledger' \in [Instant -> Nat]
           /\ \A start \in Nat, end \in Nat : Sums(cost, at, postings, start, end)
<1>1. now \in Instant /\ invoice \in [Instant -> Nat] /\ ledger \in [Instant -> Nat]
  BY DEF BooksInv
<1>2. invoice' \in [Instant -> Nat] /\ ledger' \in [Instant -> Nat]
  BY <1>1, BillSums
<1>3. ASSUME NEW start \in Nat, NEW end \in Nat PROVE Sums(cost, at, postings, start, end)
  <2>1. postings * cost \in Nat
    OBVIOUS
  <2> QED BY <1>1, <2>1, BillSums DEF Sums
<1> QED BY <1>2, <1>3

\* The books after a step, when they balance over every period.
LEMMA BooksStep ==
    ASSUME CallsCost, BooksInv, [Next]_vars
    PROVE  BooksInv'
<1> DEFINE b(start, end) == Summed(invoice, start, end)
           m(start, end) == Metered(MeterEvents(written), start, end)
           p(start, end) == Summed(ledger, start, end)
           off(start, end) == OffOver(slip, start, end)
<1>1. ASSUME NEW start \in Nat, NEW end \in Nat
      PROVE  /\ m(start, end) \in Nat /\ off(start, end) \in Off
             /\ Balanced(b(start, end), m(start, end), p(start, end), off(start, end))
  BY <1>1, OffIsSource DEF BooksInv
<1>2. /\ now \in Instant /\ SlipInv /\ CallsInv
      /\ invoice \in [Instant -> Nat] /\ ledger \in [Instant -> Nat]
  BY DEF BooksInv
<1>3. ASSUME UNCHANGED <<written, invoice, ledger, slip>>, now' \in Instant PROVE BooksInv'
  BY <1>3 DEF BooksInv, SlipInv, CallsInv, Accounted, Chained, HashBefore, Balanced
<1>4. ASSUME NEW event, Write(event), Accounted(written, event, Len(written)),
             event.kind # "usage-recorded", UNCHANGED <<now, invoice, ledger, slip>>
      PROVE  BooksInv'
  <2>1. ASSUME NEW start \in Nat, NEW end \in Nat
        PROVE  CallsInv' /\ Metered(MeterEvents(written'), start, end) = m(start, end)
    BY <1>1, <1>2, <1>4, WriteMeters
  <2>2. 0 \in Nat /\ SlipInv'
    BY <1>2, <1>4 DEF SlipInv
  <2>3. ASSUME NEW start \in Nat, NEW end \in Nat
        PROVE  /\ b(start, end)' = b(start, end) /\ p(start, end)' = p(start, end)
               /\ m(start, end)' = m(start, end) /\ off(start, end)' = off(start, end)
    BY <1>4, <2>1
  <2> HIDE DEF b, m, p, off
  <2>4. ASSUME NEW start \in Nat, NEW end \in Nat
        PROVE  /\ m(start, end)' \in Nat
               /\ Balanced(b(start, end)', m(start, end)', p(start, end)', off(start, end)')
    BY <1>1, <2>3
  <2> QED BY <1>2, <1>4, <2>1, <2>2, <2>4 DEF BooksInv, b, m, p, off
<1>5. ASSUME CallsInv', SlipInv', now' = now,
             invoice' \in [Instant -> Nat], ledger' \in [Instant -> Nat],
             \A start \in Nat, end \in Nat :
                /\ m(start, end)' \in Nat
                /\ Balanced(b(start, end)', m(start, end)', p(start, end)', off(start, end)')
      PROVE  BooksInv'
  BY <1>2, <1>5 DEF BooksInv
<1>6. ASSUME NEW seq \in InvocationSeqs(log), NEW usage \in Usage, log = written
      PROVE  /\ CostOf(seq, usage) \in Nat /\ CostOf(seq, usage) > Tolerance
             /\ Accounted(written, UsageOf(seq, usage, CostOf(seq, usage)), Len(written))
  BY <1>2, <1>6, CallCost DEF CallsCost
<1>7. ASSUME slip = NoSlip, NEW start \in Nat, NEW end \in Nat PROVE off(start, end) = "none"
  BY <1>7 DEF OffOver
<1>8. ASSUME NEW source \in {"meter-events", "internal-ledger"}, Slips(source, {now})
      PROVE  /\ SlipInv'
             /\ \A start \in Nat, end \in Nat :
                   /\ off(start, end) = "none"
                   /\ off(start, end)' = IF now \in Window(start, end) THEN source ELSE "none"
  <2>1. slip' = [source |-> source, at |-> {now}]
    BY <1>8 DEF Slips
  <2>2. SlipInv'
    BY <1>2, <2>1 DEF SlipInv
  <2>3. ASSUME NEW start \in Nat, NEW end \in Nat
        PROVE  OffOver([source |-> source, at |-> {now}], start, end)
               = IF now \in Window(start, end) THEN source ELSE "none"
    BY <1>2, OffOnce DEF Source
  <2> QED BY <1>7, <1>8, <2>1, <2>2, <2>3 DEF Slips, OffOver, Window
<1>9. ASSUME NEW seq \in 0 .. MaxLog, NEW usage \in Usage, Settle(seq, usage)
      PROVE  BooksInv'
  <2> DEFINE c == CostOf(seq, usage)
  <2>1. /\ seq \in InvocationSeqs(log) /\ log = written
        /\ Write(UsageOf(seq, usage, c)) /\ Bill(c, now, 1) /\ UNCHANGED <<now, slip>>
    BY <1>9 DEF Settle, Write
  <2>2. c \in Nat /\ c > Tolerance /\ Accounted(written, UsageOf(seq, usage, c), Len(written))
    BY <1>6, <2>1
  <2> HIDE DEF c
  <2>3. /\ invoice' \in [Instant -> Nat] /\ ledger' \in [Instant -> Nat]
        /\ \A start \in Nat, end \in Nat : Sums(c, now, 1, start, end)
    BY <1>2, <2>1, <2>2, BilledStep
  <2>4. CallsInv' /\ \A start \in Nat, end \in Nat : Meters(c, start, end)
    BY <2>1, <2>2, RecordedStep
  <2>5. SlipInv'
    BY <1>2, <2>1 DEF SlipInv
  <2>6. ASSUME NEW start \in Nat, NEW end \in Nat
        PROVE  /\ m(start, end)' \in Nat
               /\ Balanced(b(start, end)', m(start, end)', p(start, end)', off(start, end)')
    <3>1. Sums(c, now, 1, start, end) /\ Meters(c, start, end) /\ off(start, end)' = off(start, end)
      BY <2>1, <2>3, <2>4 DEF OffOver, Window
    <3>2. /\ b(start, end) \in Nat /\ p(start, end) \in Nat /\ m(start, end) \in Nat
          /\ off(start, end) \in Off
      BY <1>1, <3>1 DEF Sums
    <3>3. IF now \in Window(start, end)
            THEN /\ b(start, end)' = b(start, end) + c /\ m(start, end)' = m(start, end) + c
                 /\ p(start, end)' = p(start, end) + c
            ELSE /\ b(start, end)' = b(start, end) /\ m(start, end)' = m(start, end)
                 /\ p(start, end)' = p(start, end)
      BY <2>2, <3>1 DEF Sums, Meters
    <3> HIDE DEF b, m, p, off
    <3>4. Balanced(b(start, end), m(start, end), p(start, end), off(start, end))
      BY <1>1
    <3>5. Balanced(b(start, end) + c, m(start, end) + c, p(start, end) + c, off(start, end))
      BY <2>2, <3>2, <3>4, CostFacts
    <3>6. CASE now \in Window(start, end)
      BY <2>2, <3>1, <3>2, <3>3, <3>5, <3>6
    <3>7. CASE now \notin Window(start, end)
      BY <3>1, <3>2, <3>3, <3>4, <3>7
    <3> QED BY <3>6, <3>7
  <2> HIDE DEF b, m, p, off
  <2> QED BY <1>5, <2>1, <2>3, <2>4, <2>5, <2>6
<1>10. ASSUME NEW seq \in 0 .. MaxLog, NEW usage \in Usage, SettleUnrecorded(seq, usage)
       PROVE  BooksInv'
  <2> DEFINE c == CostOf(seq, usage)
  <2>1. /\ seq \in InvocationSeqs(log) /\ log = written /\ Bill(c, now, 1)
        /\ Slips("meter-events", {now}) /\ UNCHANGED <<now, log, written>>
    BY <1>10 DEF SettleUnrecorded
  <2>2. c \in Nat /\ c > Tolerance
    BY <1>6, <2>1
  <2> HIDE DEF c
  <2>3. /\ invoice' \in [Instant -> Nat] /\ ledger' \in [Instant -> Nat]
        /\ \A start \in Nat, end \in Nat : Sums(c, now, 1, start, end)
    BY <1>2, <2>1, <2>2, BilledStep
  <2>4. CallsInv'
    BY <1>2, <2>1 DEF CallsInv, Accounted, Chained, HashBefore, Instant
  <2>5. ASSUME NEW start \in Nat, NEW end \in Nat
        PROVE  /\ m(start, end)' \in Nat
               /\ Balanced(b(start, end)', m(start, end)', p(start, end)', off(start, end)')
    <3>1. /\ Sums(c, now, 1, start, end) /\ m(start, end)' = m(start, end)
          /\ off(start, end) = "none"
          /\ off(start, end)' = IF now \in Window(start, end) THEN "meter-events" ELSE "none"
      BY <1>8, <2>1, <2>3
    <3>2. b(start, end) \in Nat /\ p(start, end) \in Nat /\ m(start, end) \in Nat
      BY <1>1, <3>1 DEF Sums
    <3>3. IF now \in Window(start, end)
            THEN b(start, end)' = b(start, end) + c /\ p(start, end)' = p(start, end) + c
            ELSE b(start, end)' = b(start, end) /\ p(start, end)' = p(start, end)
      BY <2>2, <3>1 DEF Sums
    <3> HIDE DEF b, m, p, off
    <3>4. Balanced(b(start, end), m(start, end), p(start, end), "none")
      BY <1>1, <3>1
    <3>5. Balanced(b(start, end) + c, m(start, end), p(start, end) + c, "meter-events")
      BY <2>2, <3>2, <3>4, CostFacts DEF Off
    <3>6. CASE now \in Window(start, end)
      BY <3>1, <3>2, <3>3, <3>5, <3>6
    <3>7. CASE now \notin Window(start, end)
      BY <3>1, <3>2, <3>3, <3>4, <3>7
    <3> QED BY <3>6, <3>7
  <2>6. SlipInv'
    BY <1>8, <2>1
  <2> HIDE DEF b, m, p, off
  <2> QED BY <1>5, <2>1, <2>3, <2>4, <2>5, <2>6
<1>11. ASSUME NEW seq \in 0 .. MaxLog, NEW usage \in Usage, SettleStray(seq, usage)
       PROVE  BooksInv'
  <2>1. PICK model \in Model : Write(UsageOf(seq, usage, Priced(usage, model, Price)))
    BY <1>11 DEF SettleStray
  <2> DEFINE c == Priced(usage, model, Price)
  <2>2. Write(UsageOf(seq, usage, c)) /\ Slips("meter-events", {now})
        /\ UNCHANGED <<now, invoice, ledger>>
    BY <1>11, <2>1 DEF SettleStray
  <2>3. c \in Nat /\ c > Tolerance /\ Accounted(written, UsageOf(seq, usage, c), Len(written))
    <3>1. c \in Nat /\ c > Tolerance
      BY PriceIsNat DEF CallsCost
    <3>2. seq \in 0 .. Len(log) - 1 /\ seq \notin InvocationSeqs(log) /\ log = written
      BY <1>11, <2>2 DEF SettleStray, Write
    <3> QED BY <1>2, <3>1, <3>2, StrayCost
  <2> HIDE DEF c
  <2>4. CallsInv' /\ \A start \in Nat, end \in Nat : Meters(c, start, end)
    BY <2>2, <2>3, RecordedStep
  <2>5. ASSUME NEW start \in Nat, NEW end \in Nat
        PROVE  /\ m(start, end)' \in Nat
               /\ Balanced(b(start, end)', m(start, end)', p(start, end)', off(start, end)')
    <3>1. /\ b(start, end)' = b(start, end) /\ p(start, end)' = p(start, end)
          /\ off(start, end) = "none"
          /\ off(start, end)' = IF now \in Window(start, end) THEN "meter-events" ELSE "none"
      BY <1>8, <2>2
    <3>2. b(start, end) = m(start, end) /\ p(start, end) = m(start, end) /\ m(start, end) \in Nat
      BY <1>1, <3>1 DEF Balanced
    <3>3. IF now \in Window(start, end) THEN m(start, end)' = m(start, end) + c
                                        ELSE m(start, end)' = m(start, end)
      BY <2>3, <2>4 DEF Meters
    <3> HIDE DEF b, m, p, off
    <3>4. Balanced(b(start, end), m(start, end), p(start, end), "none")
      BY <1>1, <3>1
    <3>5. Balanced(b(start, end), m(start, end) + c, p(start, end), "meter-events")
      BY <2>3, <3>2, <3>4, CostFacts DEF Off
    <3>6. CASE now \in Window(start, end)
      BY <2>3, <3>1, <3>2, <3>3, <3>5, <3>6
    <3>7. CASE now \notin Window(start, end)
      BY <3>1, <3>2, <3>3, <3>4, <3>7
    <3> QED BY <3>6, <3>7
  <2>6. SlipInv' /\ invoice' \in [Instant -> Nat] /\ ledger' \in [Instant -> Nat]
    BY <1>2, <1>8, <2>2
  <2> HIDE DEF b, m, p, off
  <2> QED BY <1>5, <2>2, <2>4, <2>5, <2>6
<1>12. ASSUME NEW seq \in 0 .. MaxLog, NEW usage \in Usage, SettleMisposted(seq, usage)
       PROVE  BooksInv'
  <2> DEFINE c == CostOf(seq, usage)
  <2>1. PICK postings \in {0, 2} : Bill(c, now, postings)
    BY <1>12 DEF SettleMisposted
  <2>2. /\ seq \in InvocationSeqs(log) /\ log = written /\ Write(UsageOf(seq, usage, c))
        /\ Slips("internal-ledger", {now}) /\ UNCHANGED now
    BY <1>12 DEF SettleMisposted, Write
  <2>3. c \in Nat /\ c > Tolerance /\ Accounted(written, UsageOf(seq, usage, c), Len(written))
    BY <1>6, <2>2
  <2> HIDE DEF c
  <2>4. /\ invoice' \in [Instant -> Nat] /\ ledger' \in [Instant -> Nat]
        /\ \A start \in Nat, end \in Nat : Sums(c, now, postings, start, end)
    BY <1>2, <2>1, <2>3, BilledStep
  <2>5. CallsInv' /\ \A start \in Nat, end \in Nat : Meters(c, start, end)
    BY <2>2, <2>3, RecordedStep
  <2>6. ASSUME NEW start \in Nat, NEW end \in Nat
        PROVE  /\ m(start, end)' \in Nat
               /\ Balanced(b(start, end)', m(start, end)', p(start, end)', off(start, end)')
    <3>1. /\ Sums(c, now, postings, start, end) /\ Meters(c, start, end)
          /\ off(start, end) = "none"
          /\ off(start, end)' = IF now \in Window(start, end) THEN "internal-ledger" ELSE "none"
      BY <1>8, <2>2, <2>4, <2>5
    <3>2. b(start, end) \in Nat /\ p(start, end) \in Nat /\ m(start, end) \in Nat
      BY <1>1, <3>1 DEF Sums
    <3>3. IF now \in Window(start, end)
            THEN /\ b(start, end)' = b(start, end) + c /\ m(start, end)' = m(start, end) + c
                 /\ p(start, end)' = p(start, end) + postings * c
            ELSE /\ b(start, end)' = b(start, end) /\ m(start, end)' = m(start, end)
                 /\ p(start, end)' = p(start, end)
      BY <3>1 DEF Sums, Meters
    <3> HIDE DEF b, m, p, off
    <3>4. Balanced(b(start, end), m(start, end), p(start, end), "none")
      BY <1>1, <3>1
    <3>5. Balanced(b(start, end) + c, m(start, end) + c, p(start, end) + postings * c,
                   "internal-ledger")
      BY <2>3, <3>2, <3>4, CostFacts DEF Off
    <3>6. CASE now \in Window(start, end)
      BY <2>3, <3>1, <3>2, <3>3, <3>5, <3>6
    <3>7. CASE now \notin Window(start, end)
      BY <3>1, <3>2, <3>3, <3>4, <3>7
    <3> QED BY <3>6, <3>7
  <2>7. SlipInv'
    BY <1>8, <2>2
  <2> HIDE DEF b, m, p, off
  <2> QED BY <1>5, <2>2, <2>4, <2>5, <2>6, <2>7
<1>13. ASSUME NEW seq \in 0 .. MaxLog, NEW usage \in Usage, SettleMisdated(seq, usage)
       PROVE  BooksInv'
  <2> DEFINE c == CostOf(seq, usage)
  <2>1. PICK at \in Instant \ {now} : Bill(c, at, 1) /\ Slips("provider-invoice", {now, at})
    BY <1>13 DEF SettleMisdated
  <2>2. /\ seq \in InvocationSeqs(log) /\ log = written /\ Write(UsageOf(seq, usage, c))
        /\ UNCHANGED now
    BY <1>13 DEF SettleMisdated, Write
  <2>3. c \in Nat /\ c > Tolerance /\ Accounted(written, UsageOf(seq, usage, c), Len(written))
    BY <1>6, <2>2
  <2> HIDE DEF c
  <2>4. /\ invoice' \in [Instant -> Nat] /\ ledger' \in [Instant -> Nat]
        /\ \A start \in Nat, end \in Nat : Sums(c, at, 1, start, end)
    BY <1>2, <2>1, <2>3, BilledStep
  <2>5. CallsInv' /\ \A start \in Nat, end \in Nat : Meters(c, start, end)
    BY <2>2, <2>3, RecordedStep
  <2>6. slip = NoSlip /\ slip' = [source |-> "provider-invoice", at |-> {now, at}]
    BY <2>1 DEF Slips
  <2>7. ASSUME NEW start \in Nat, NEW end \in Nat
        PROVE  /\ m(start, end)' \in Nat
               /\ Balanced(b(start, end)', m(start, end)', p(start, end)', off(start, end)')
    <3>0. OffOver([source |-> "provider-invoice", at |-> {now, at}], start, end)
          = IF now \in Window(start, end) <=> at \in Window(start, end)
              THEN "none" ELSE "provider-invoice"
      <4>1. "provider-invoice" \in Source /\ now \in Instant
        BY <1>2 DEF Source
      <4> QED BY <4>1, OffTwice
    <3>1. /\ Sums(c, at, 1, start, end) /\ Meters(c, start, end)
          /\ off(start, end) = "none"
          /\ off(start, end)' = IF now \in Window(start, end) <=> at \in Window(start, end)
                                  THEN "none" ELSE "provider-invoice"
      BY <1>7, <2>4, <2>5, <2>6, <3>0 DEF OffOver, Window
    <3>2. b(start, end) \in Nat /\ p(start, end) \in Nat /\ m(start, end) \in Nat
      BY <1>1, <3>1 DEF Sums
    <3>3. /\ b(start, end)' = b(start, end) + (IF at \in Window(start, end) THEN c ELSE 0)
          /\ m(start, end)' = m(start, end) + (IF now \in Window(start, end) THEN c ELSE 0)
          /\ p(start, end)' = p(start, end) + (IF now \in Window(start, end) THEN c ELSE 0)
      BY <2>3, <3>1, <3>2 DEF Sums, Meters
    <3> HIDE DEF b, m, p, off
    <3>4. Balanced(b(start, end), m(start, end), p(start, end), "none")
      BY <1>1, <3>1
    <3>5. /\ Balanced(b(start, end) + c, m(start, end) + c, p(start, end) + c, "none")
          /\ Balanced(b(start, end) + c, m(start, end), p(start, end), "provider-invoice")
          /\ Balanced(b(start, end), m(start, end) + c, p(start, end) + c, "provider-invoice")
      BY <2>3, <3>2, <3>4, CostFacts DEF Off
    <3>6. m(start, end)' \in Nat
      BY <2>3, <3>2, <3>3
    <3>7. CASE now \in Window(start, end) /\ at \in Window(start, end)
      BY <3>1, <3>3, <3>5, <3>6, <3>7
    <3>8. CASE now \in Window(start, end) /\ at \notin Window(start, end)
      BY <3>1, <3>2, <3>3, <3>5, <3>6, <3>8
    <3>9. CASE now \notin Window(start, end) /\ at \in Window(start, end)
      BY <3>1, <3>2, <3>3, <3>5, <3>6, <3>9
    <3>10. CASE now \notin Window(start, end) /\ at \notin Window(start, end)
      BY <3>1, <3>2, <3>3, <3>4, <3>6, <3>10
    <3> QED BY <3>7, <3>8, <3>9, <3>10
  <2>8. SlipInv'
    BY <1>2, <2>6 DEF SlipInv
  <2> HIDE DEF b, m, p, off
  <2> QED BY <1>5, <2>2, <2>4, <2>5, <2>7, <2>8
<1> HIDE DEF b, m, p, off
<1>14. ASSUME NEW event \in Quiet, Log(event) PROVE BooksInv'
  <2>1. /\ Write(event) /\ UNCHANGED <<now, invoice, ledger, slip>>
        /\ event \in Event /\ event.kind # "usage-recorded"
    BY <1>14, ReconciliationAssumption DEF Log
  <2>2. Accounted(written, event, Len(written))
    BY <2>1 DEF Event, Accounted
  <2> QED BY <1>4, <2>1, <2>2
<1>15. ASSUME NEW i \in DOMAIN log, Damage(i) PROVE BooksInv'
  BY <1>2, <1>3, <1>15 DEF Damage
<1>16. ASSUME Tick PROVE BooksInv'
  <2>1. now' \in Instant
    BY <1>2, <1>16, ReconciliationAssumption DEF Tick, Instant
  <2> QED BY <1>3, <1>16, <2>1 DEF Tick
<1>17. ASSUME UNCHANGED vars PROVE BooksInv'
  BY <1>2, <1>3, <1>17 DEF vars
<1> QED BY <1>9, <1>10, <1>11, <1>12, <1>13, <1>14, <1>15, <1>16, <1>17 DEF Next

\* At first there is nothing on the books.
LEMMA BooksInit == Init => BooksInv
<1> SUFFICES ASSUME Init PROVE BooksInv
  OBVIOUS
<1>1. /\ now = 0 /\ written = <<>> /\ slip = NoSlip
      /\ invoice = [t \in Instant |-> 0] /\ ledger = [t \in Instant |-> 0]
  BY DEF Init
<1>2. CallsInv /\ written \in Seq({})
  <2>1. <<>> \in Seq({}) /\ Len(<<>>) = 0 /\ 1 .. 0 = {} /\ 1 .. 0 - 1 = {}
    OBVIOUS
  <2> QED BY <1>1, <2>1 DEF CallsInv, Chained
<1>3. ASSUME NEW start \in Nat, NEW end \in Nat
      PROVE  /\ Metered(MeterEvents(written), start, end) = 0
             /\ Summed(invoice, start, end) = 0 /\ Summed(ledger, start, end) = 0
             /\ OffOver(slip, start, end) = "none"
  <2>1. Recorded(written) = {} /\ IsFiniteSet({})
    BY <1>1, FS_EmptySet DEF Recorded, At
  <2>2. Dated(written, start, end) = {}
    BY <2>1, MeteredFacts
  <2>3. Metered(MeterEvents(written), start, end) = Over(Costs(written), {})
    BY <2>2, MeteredFacts
  <2>4. Over(Costs(written), {}) = 0
    BY <2>1, SumNone
  <2> QED BY <1>1, <2>3, <2>4, SummedNone DEF OffOver
<1>4. /\ now \in Instant /\ invoice \in [Instant -> Nat] /\ ledger \in [Instant -> Nat]
      /\ SlipInv
  BY <1>1, ReconciliationAssumption DEF Instant, SlipInv
<1>5. Balanced(0, 0, 0, "none")
  BY DEF Balanced
<1> QED BY <1>2, <1>3, <1>4, <1>5 DEF BooksInv

\* What a period's totals say of any two sources.
LEMMA BalanceFacts ==
    ASSUME NEW micros, micros["provider-invoice"] \in Nat, micros["meter-events"] \in Nat,
           micros["internal-ledger"] \in Nat, NEW off \in Off,
           Balanced(micros["provider-invoice"], micros["meter-events"],
                    micros["internal-ledger"], off),
           NEW x \in Source, NEW y \in Source, x # y
    PROVE  Difference(micros[x], micros[y]) > Tolerance <=> off \in {x, y}
<1>1. Tolerance \in Nat
  BY ReconciliationAssumption
<1>2. \A a \in Nat, b \in Nat : Apart(a, b) <=> Apart(b, a)
  BY <1>1 DEF Apart, Difference
<1>3. \A a \in Nat : ~Apart(a, a)
  BY <1>1 DEF Apart, Difference
<1>4. /\ x \in {"provider-invoice", "meter-events", "internal-ledger"}
      /\ y \in {"provider-invoice", "meter-events", "internal-ledger"}
  BY DEF Source
<1>5. Apart(micros[x], micros[y]) <=> off \in {x, y}
  <2>1. CASE off = "none"
    BY <1>2, <1>3, <1>4, <2>1 DEF Balanced
  <2>2. CASE off = "provider-invoice"
    BY <1>2, <1>3, <1>4, <2>2 DEF Balanced
  <2>3. CASE off = "meter-events"
    BY <1>2, <1>3, <1>4, <2>3 DEF Balanced
  <2>4. CASE off = "internal-ledger"
    BY <1>2, <1>3, <1>4, <2>4 DEF Balanced
  <2> QED BY <2>1, <2>2, <2>3, <2>4 DEF Off, Source
<1> QED BY <1>5 DEF Apart

\* Three totals of one period, one of every source.
Periodic(totals, start, end, micros) ==
    /\ totals \in Seq({Total(source, start, end, "utc", micros[source]) : source \in Source})
    /\ Len(totals) = 3
    /\ \A i \in 1 .. 3 :
          /\ totals[i].source \in Source /\ totals[i].totalMicros = micros[totals[i].source]
          /\ totals[i].start = <<start, "utc">> /\ totals[i].end = <<end, "utc">>
          /\ \A j \in 1 .. 3 : i # j => totals[i].source # totals[j].source

\* ... in any order.
LEMMA OrderFacts ==
    ASSUME NEW start, NEW end, NEW micros,
           NEW totals \in SetToSeqs({Total(source, start, end, "utc", micros[source])
                                       : source \in Source})
    PROVE  Periodic(totals, start, end, micros)
<1> DEFINE S == {Total(source, start, end, "utc", micros[source]) : source \in Source}
<1>1. S = {Total("provider-invoice", start, end, "utc", micros["provider-invoice"]),
           Total("meter-events", start, end, "utc", micros["meter-events"]),
           Total("internal-ledger", start, end, "utc", micros["internal-ledger"])}
  BY DEF Source
<1>2. \A t \in S :
         /\ t.source \in Source /\ t.totalMicros = micros[t.source]
         /\ t.start = <<start, "utc">> /\ t.end = <<end, "utc">>
         /\ t = Total(t.source, start, end, "utc", micros[t.source])
  BY DEF Total
<1>3. Cardinality(S) = 3
  <2> DEFINE a == Total("provider-invoice", start, end, "utc", micros["provider-invoice"])
             b == Total("meter-events", start, end, "utc", micros["meter-events"])
             c == Total("internal-ledger", start, end, "utc", micros["internal-ledger"])
  <2>1. a # b /\ b # c /\ a # c
    BY DEF Total
  <2> HIDE DEF a, b, c
  <2>2. IsFiniteSet({}) /\ Cardinality({}) = 0
    BY FS_EmptySet
  <2>3. IsFiniteSet({a}) /\ Cardinality({a}) = 1
    BY FS_Singleton
  <2>4. IsFiniteSet({a, b}) /\ Cardinality({a, b}) = 2
    <3> DEFINE one == {a}
    <3>1. {a, b} = one \cup {b} /\ b \notin one
      BY <2>1
    <3>2. IsFiniteSet(one) /\ Cardinality(one) = 1
      BY <2>3
    <3> HIDE DEF one
    <3>3. IsFiniteSet(one \cup {b}) /\ Cardinality(one \cup {b}) = Cardinality(one) + 1
      BY <3>1, <3>2, FS_AddElement
    <3> QED BY <3>1, <3>2, <3>3
  <2>5. Cardinality({a, b, c}) = 3
    <3> DEFINE two == {a, b}
    <3>1. {a, b, c} = two \cup {c} /\ c \notin two
      BY <2>1
    <3>2. IsFiniteSet(two) /\ Cardinality(two) = 2
      BY <2>4
    <3> HIDE DEF two
    <3>3. IsFiniteSet(two \cup {c}) /\ Cardinality(two \cup {c}) = Cardinality(two) + 1
      BY <3>1, <3>2, FS_AddElement
    <3> QED BY <3>1, <3>2, <3>3
  <2> QED BY <1>1, <2>5 DEF a, b, c
<1> HIDE DEF S
<1>4. /\ totals \in [1 .. 3 -> S]
      /\ \A i \in 1 .. 3, j \in 1 .. 3 : i # j => totals[i] # totals[j]
  BY <1>3 DEF SetToSeqs, S
<1>5. totals \in Seq(S) /\ Len(totals) = 3
  <2>1. totals \in Seq(S)
    BY <1>4, SeqDef
  <2> QED BY <1>4, <2>1, LenProperties
<1> QED BY <1>2, <1>4, <1>5 DEF Periodic, S

\* Of the three totals, reconcile names the pairs that hold the source that is
\* off, or finds that all agree.
LEMMA ReconcileTells ==
    ASSUME NEW start, NEW end, NEW micros, NEW totals, Periodic(totals, start, end, micros),
           micros["provider-invoice"] \in Nat, micros["meter-events"] \in Nat,
           micros["internal-ledger"] \in Nat, NEW off \in Off,
           Balanced(micros["provider-invoice"], micros["meter-events"],
                    micros["internal-ledger"], off)
    PROVE  Reconcile(totals, Tolerance)
           = IF off = "none"
               THEN [kind |-> "reconciled", totalMicros |-> micros["provider-invoice"]]
               ELSE [kind |-> "alert",
                     discrepancies |-> {{off, other} : other \in Source \ {off}}]
<1> DEFINE src(i) == totals[i].source
           disc == {q \in PairsOf(totals) :
                      Difference(totals[q[1]].totalMicros, totals[q[2]].totalMicros) > Tolerance}
<1>1. /\ DOMAIN totals = 1 .. 3
      /\ \A i \in 1 .. 3 :
            /\ src(i) \in Source /\ totals[i].totalMicros = micros[src(i)]
            /\ totals[i].start = <<start, "utc">> /\ totals[i].end = <<end, "utc">>
            /\ \A j \in 1 .. 3 : i # j => src(i) # src(j)
  <2>1. DOMAIN totals = 1 .. 3
    BY LenProperties DEF Periodic
  <2> QED BY <2>1 DEF Periodic
<1> HIDE DEF src
<1>2. Source = {src(1), src(2), src(3)}
  <2>1. 1 \in 1 .. 3 /\ 2 \in 1 .. 3 /\ 3 \in 1 .. 3
    OBVIOUS
  <2>2. /\ src(1) \in Source /\ src(2) \in Source /\ src(3) \in Source
        /\ src(1) # src(2) /\ src(1) # src(3) /\ src(2) # src(3)
    BY <1>1, <2>1
  <2> QED BY <2>2 DEF Source
<1>3. Source \subseteq {src(i) : i \in 1 .. 3}
  BY <1>2
<1>4. \A q \in (1 .. 3) \X (1 .. 3) :
         q \in disc <=> q[1] < q[2] /\ off \in {src(q[1]), src(q[2])}
  <2> TAKE q \in (1 .. 3) \X (1 .. 3)
  <2>1. q[1] \in 1 .. 3 /\ q[2] \in 1 .. 3
    OBVIOUS
  <2>2. q \in disc <=> q[1] < q[2] /\ Difference(micros[src(q[1])], micros[src(q[2])]) > Tolerance
    BY <1>1, <2>1 DEF PairsOf
  <2>3. q[1] < q[2] => src(q[1]) \in Source /\ src(q[2]) \in Source /\ src(q[1]) # src(q[2])
    BY <1>1, <2>1
  <2> HIDE DEF disc
  <2> QED BY <2>2, <2>3, BalanceFacts
<1>5. disc \subseteq (1 .. 3) \X (1 .. 3)
  BY <1>1 DEF PairsOf
<1>6. Reconcile(totals, Tolerance)
      = IF disc # {}
          THEN [kind |-> "alert", discrepancies |-> {{src(q[1]), src(q[2])} : q \in disc}]
          ELSE [kind |-> "reconciled", totalMicros |-> totals[1].totalMicros]
  BY <1>1, <1>3 DEF Reconcile, src
<1> HIDE DEF disc
<1>7. CASE off = "none"
  <2>1. off \notin Source
    BY <1>7 DEF Source
  <2>2. disc = {}
    BY <1>1, <1>4, <1>5, <2>1
  <2>3. totals[1].totalMicros = micros["provider-invoice"]
    <3>1. /\ micros["meter-events"] = micros["provider-invoice"]
          /\ micros["internal-ledger"] = micros["provider-invoice"]
      BY <1>7 DEF Balanced
    <3> QED BY <1>1, <3>1 DEF Source
  <2> QED BY <1>6, <1>7, <2>2, <2>3
<1>8. CASE off # "none"
  <2>1. off \in Source
    BY <1>8 DEF Off
  <2>2. PICK i \in 1 .. 3 : src(i) = off
    BY <1>2, <2>1
  <2>3. ASSUME NEW j \in 1 .. 3, j # i
        PROVE  \E q \in disc : {src(q[1]), src(q[2])} = {off, src(j)}
    <3>1. CASE i < j
      <4>1. <<i, j>> \in disc
        BY <1>4, <2>2, <3>1
      <4> QED BY <2>2, <4>1
    <3>2. CASE j < i
      <4>1. <<j, i>> \in disc
        BY <1>4, <2>2, <3>2
      <4> QED BY <2>2, <4>1
    <3> QED BY <2>3, <3>1, <3>2
  <2>4. ASSUME NEW other \in Source \ {off}
        PROVE  {off, other} \in {{src(q[1]), src(q[2])} : q \in disc}
    <3>1. PICK j \in 1 .. 3 : src(j) = other
      BY <1>2, <2>4
    <3>2. j # i
      BY <2>2, <2>4, <3>1
    <3> QED BY <2>3, <3>1, <3>2
  <2>5. ASSUME NEW q \in disc
        PROVE  \E other \in Source \ {off} : {src(q[1]), src(q[2])} = {off, other}
    <3>1. q[1] \in 1 .. 3 /\ q[2] \in 1 .. 3 /\ q[1] < q[2] /\ off \in {src(q[1]), src(q[2])}
      BY <1>4, <1>5
    <3>2. src(q[1]) \in Source /\ src(q[2]) \in Source /\ src(q[1]) # src(q[2])
      BY <1>1, <3>1
    <3> QED BY <3>1, <3>2
  <2>6. {{src(q[1]), src(q[2])} : q \in disc} = {{off, other} : other \in Source \ {off}}
    BY <2>4, <2>5
  <2>7. disc # {}
    <3>1. \E j \in 1 .. 3 : j # i
      OBVIOUS
    <3> QED BY <2>3, <3>1
  <2> QED BY <1>6, <1>8, <2>6, <2>7
<1> QED BY <1>7, <1>8

\* It compares nothing when a source is missing, or when two spell a bound
\* differently.
LEMMA NothingCompared ==
    ASSUME NEW start, NEW end, NEW micros, NEW totals, Periodic(totals, start, end, micros)
    PROVE  /\ Reconcile(Front(totals), Tolerance).kind = "not-comparable"
           /\ Reconcile([totals EXCEPT ![1].end = <<end, "offset">>], Tolerance).kind
              = "not-comparable"
<1>1. /\ DOMAIN totals = 1 .. 3
      /\ \A i \in 1 .. 3 :
            /\ totals[i].source \in Source /\ totals[i].end = <<end, "utc">>
            /\ \A j \in 1 .. 3 : i # j => totals[i].source # totals[j].source
  <2>1. DOMAIN totals = 1 .. 3
    BY LenProperties DEF Periodic
  <2> QED BY <2>1 DEF Periodic
<1>2. Reconcile(Front(totals), Tolerance).kind = "not-comparable"
  <2> DEFINE front == Front(totals)
  <2>1. DOMAIN front = 1 .. 2 /\ \A i \in 1 .. 2 : front[i] = totals[i]
    <3>1. front = SubSeq(totals, 1, 2)
      BY DEF Front, Periodic
    <3>2. PICK T : totals \in Seq(T)
      BY DEF Periodic
    <3>3. \A i \in 1 .. 2 : totals[i] \in T
      <4>1. Len(totals) = 3 /\ \A i \in 1 .. 2 : i \in 1 .. 3
        BY DEF Periodic
      <4> QED BY <3>2, <4>1, ElementOfSeq
    <3>4. front \in Seq(T) /\ Len(front) = 2 /\ \A i \in 1 .. 2 : front[i] = totals[1 + i - 1]
      BY <3>1, <3>3, SubSeqProperties
    <3> QED BY <3>4, LenProperties
  <2> HIDE DEF front
  <2>2. totals[3].source \in Source /\ totals[3].source \notin {front[i].source : i \in DOMAIN front}
    BY <1>1, <2>1
  <2> QED BY <2>2 DEF Reconcile, front
<1>3. Reconcile([totals EXCEPT ![1].end = <<end, "offset">>], Tolerance).kind = "not-comparable"
  <2> DEFINE other == [totals EXCEPT ![1].end = <<end, "offset">>]
  <2>1. \E source \in Source : totals[1] = Total(source, start, end, "utc", micros[source])
    <3> DEFINE T == {Total(source, start, end, "utc", micros[source]) : source \in Source}
    <3>1. totals \in Seq(T) /\ Len(totals) = 3 /\ 1 \in 1 .. 3
      BY DEF Periodic
    <3> HIDE DEF T
    <3>2. totals[1] \in T
      BY <3>1, ElementOfSeq
    <3> QED BY <3>2 DEF T
  <2>2. other[1].end = <<end, "offset">> /\ other[2].end = <<end, "utc">>
    BY <1>1, <2>1 DEF Total
  <2>3. DOMAIN other = 1 .. 3 /\ 2 \in 1 .. 3 /\ other[2].end # other[1].end
    BY <1>1, <2>2
  <2> HIDE DEF other
  <2> QED BY <2>3 DEF Reconcile, other
<1> QED BY <1>2, <1>3

\* The instants of a cause inside a period, one of them or none or both.
LEMMA InsideFacts ==
    ASSUME now \in Instant, SlipInv, NEW start \in Nat, NEW end \in Nat, slip # NoSlip
    PROVE  Cardinality(slip.at \cap (start .. end - 1)) = 1
           <=> \E t \in Instant : slip.at \cap Window(start, end) = {t}
<1>1. slip.at \subseteq Instant
  BY DEF SlipInv
<1>2. Instant \subseteq Nat
  BY ReconciliationAssumption DEF Instant
<1>3. slip.at \cap (start .. end - 1) = slip.at \cap Window(start, end)
  BY <1>1, <1>2 DEF Window
<1> DEFINE inside == slip.at \cap Window(start, end)
<1>4. inside \subseteq Instant
  BY <1>1
<1>5. IsFiniteSet(inside)
  <2>1. IsFiniteSet(Instant)
    BY ReconciliationAssumption, FS_Interval DEF Instant
  <2> QED BY <1>4, <2>1, FS_Subset
<1> HIDE DEF inside
<1>6. Cardinality(inside) = 1 <=> \E t : inside = {t}
  BY <1>5, FS_Singleton
<1>7. (\E t : inside = {t}) <=> \E t \in Instant : inside = {t}
  BY <1>4
<1> QED BY <1>3, <1>6, <1>7 DEF inside

\* When every call costs more than the tolerance, reconcile alerts over a period
\* exactly when something went wrong inside it, and names the source that did
\* against both others; otherwise it reconciles, in whatever order the totals come;
\* and it compares nothing when a source is missing or two spell the bounds
\* differently (reconcile.ts:70-112).
THEOREM SlipIsFound == ASSUME CallsCost PROVE Spec => []ReconcileFindsTheSlip
<1>1. Init => BooksInv
  BY BooksInit
<1>2. BooksInv /\ [Next]_vars => BooksInv'
  BY BooksStep
<1>3. BooksInv => ReconcileFindsTheSlip
  <2> SUFFICES ASSUME BooksInv, log = written, NEW start \in Instant, NEW end \in 1 .. MaxTime + 1,
                      start < end, NEW totals \in Totals(start, end)
               PROVE  LET inside == IF slip = NoSlip THEN {} ELSE slip.at \cap (start .. end - 1)
                          expected ==
                              IF Cardinality(inside) = 1
                                THEN [kind |-> "alert",
                                      discrepancies |-> {{slip.source, other} :
                                                           other \in Source \ {slip.source}}]
                                ELSE [kind |-> "reconciled",
                                      totalMicros |-> Summed(invoice, start, end)]
                      IN  /\ Reconcile(totals, Tolerance) = expected
                          /\ \A other \in {Front(totals),
                                           [totals EXCEPT ![1].end = <<end, "offset">>]} :
                                Reconcile(other, Tolerance).kind = "not-comparable"
    BY DEF ReconcileFindsTheSlip
  <2> DEFINE inside == IF slip = NoSlip THEN {} ELSE slip.at \cap (start .. end - 1)
             off == OffOver(slip, start, end)
             micros == [source \in Source |->
                          CASE source = "provider-invoice" -> Summed(invoice, start, end)
                            [] source = "meter-events" -> Metered(MeterEvents(log), start, end)
                            [] source = "internal-ledger" -> Summed(ledger, start, end)]
  <2>1. start \in Nat /\ end \in Nat
    BY ReconciliationAssumption DEF Instant
  <2>2. /\ Summed(invoice, start, end) \in Nat /\ Summed(ledger, start, end) \in Nat
        /\ Metered(MeterEvents(log), start, end) \in Nat
        /\ Balanced(Summed(invoice, start, end), Metered(MeterEvents(log), start, end),
                    Summed(ledger, start, end), off)
    <3>1. /\ invoice \in [Instant -> Nat] /\ ledger \in [Instant -> Nat]
      BY DEF BooksInv
    <3>2. /\ Summed(invoice, start, end) \in Nat /\ Summed(ledger, start, end) \in Nat
      BY <3>1, SummedIsNat
    <3> QED BY <2>1, <3>2 DEF BooksInv
  <2>3. /\ micros["provider-invoice"] = Summed(invoice, start, end)
        /\ micros["meter-events"] = Metered(MeterEvents(log), start, end)
        /\ micros["internal-ledger"] = Summed(ledger, start, end)
    BY DEF Source
  <2> HIDE DEF micros
  <2>4. totals \in SetToSeqs({Total(source, start, end, "utc", micros[source]) : source \in Source})
    <3>1. {Total(source, start, end, "utc", micros[source]) : source \in Source}
          = {Total("provider-invoice", start, end, "utc", Summed(invoice, start, end)),
             Total("meter-events", start, end, "utc", Metered(MeterEvents(log), start, end)),
             Total("internal-ledger", start, end, "utc", Summed(ledger, start, end))}
      BY <2>3 DEF Source
    <3> QED BY <3>1 DEF Totals
  <2>5. Periodic(totals, start, end, micros)
    BY <2>4, OrderFacts
  <2>6. off \in Off
    BY OffIsSource DEF BooksInv
  <2>7. Reconcile(totals, Tolerance)
        = IF off = "none"
            THEN [kind |-> "reconciled", totalMicros |-> micros["provider-invoice"]]
            ELSE [kind |-> "alert", discrepancies |-> {{off, other} : other \in Source \ {off}}]
    BY <2>2, <2>3, <2>5, <2>6, ReconcileTells
  <2>8. Cardinality(inside) = 1 <=> off # "none"
    <3>1. CASE slip = NoSlip
      BY <3>1, FS_EmptySet DEF OffOver
    <3>2. CASE slip # NoSlip
      <4>1. Cardinality(inside) = 1 <=> \E t \in Instant : slip.at \cap Window(start, end) = {t}
        BY <2>1, <3>2, InsideFacts DEF BooksInv
      <4>2. slip.source # "none"
        <5>1. SlipInv
          BY DEF BooksInv
        <5>2. slip.source \in {"provider-invoice", "meter-events", "internal-ledger"}
          BY <3>2, <5>1 DEF SlipInv
        <5> QED BY <5>2
      <4> QED BY <3>2, <4>1, <4>2 DEF OffOver
    <3> QED BY <3>1, <3>2
  <2>9. off # "none" => off = slip.source
    BY DEF OffOver
  <2> HIDE DEF off, inside
  <2>10. Reconcile(totals, Tolerance)
         = IF Cardinality(inside) = 1
             THEN [kind |-> "alert",
                   discrepancies |-> {{slip.source, other} : other \in Source \ {slip.source}}]
             ELSE [kind |-> "reconciled", totalMicros |-> Summed(invoice, start, end)]
    BY <2>3, <2>7, <2>8, <2>9
  <2>11. \A other \in {Front(totals), [totals EXCEPT ![1].end = <<end, "offset">>]} :
            Reconcile(other, Tolerance).kind = "not-comparable"
    <3>1. Reconcile(Front(totals), Tolerance).kind = "not-comparable"
      BY <2>5, NothingCompared
    <3>2. Reconcile([totals EXCEPT ![1].end = <<end, "offset">>], Tolerance).kind
          = "not-comparable"
      BY <2>5, NothingCompared
    <3> QED BY <3>1, <3>2
  <2> QED BY <2>10, <2>11 DEF inside
<1> QED BY <1>1, <1>2, <1>3, PTL DEF Spec
-----------------------------------------------------------------------------
(* The readings of what a run cost.                                        *)

\* The settlements of a log are those of its calls and those of none.
Attributed(entries) == Recorded(entries) \ Unattributed(entries)

RowParts(entries) ==
    [i \in At(entries, "model-invoked") |-> Settlements(entries, entries[i].seq)]

RowCosts(entries) ==
    [i \in At(entries, "model-invoked") |-> Micros(entries, Settlements(entries, entries[i].seq))]

\* What settlements add up to is a sum of what they cost.
LEMMA MicrosIs ==
    ASSUME NEW entries, NEW u \in SUBSET Recorded(entries)
    PROVE  Micros(entries, u) = Over(Costs(entries), u)
<1>1. [i \in u |-> entries[i].event.costMicros] = [i \in u |-> Costs(entries)[i]]
  BY DEF Costs
<1> QED BY <1>1 DEF Micros, Over

\* A log is written of calls, of what settles them and of other events.
LEMMA CallsStep ==
    ASSUME CallsInv, now \in Instant, [Next]_vars
    PROVE  CallsInv' /\ now' \in Instant
<1>1. ASSUME written' = written PROVE CallsInv'
  BY <1>1 DEF CallsInv, Accounted, Chained, HashBefore, Instant
<1>2. ASSUME NEW event, Write(event), Accounted(written, event, Len(written)) PROVE CallsInv'
  BY <1>2, WriteMeters
<1>3. ASSUME NEW event \in Quiet, Log(event) PROVE CallsInv' /\ now' \in Instant
  <2>1. Write(event) /\ now' = now /\ event \in Event /\ event.kind # "usage-recorded"
    BY <1>3, ReconciliationAssumption DEF Log
  <2>2. Accounted(written, event, Len(written))
    BY <2>1 DEF Event, Accounted
  <2> QED BY <1>2, <2>1, <2>2
<1>4. ASSUME NEW seq \in 0 .. MaxLog, NEW usage \in Usage,
             \/ Settle(seq, usage) \/ SettleMisposted(seq, usage) \/ SettleMisdated(seq, usage)
      PROVE  CallsInv' /\ now' \in Instant
  <2>1. /\ seq \in InvocationSeqs(log) /\ log = written /\ now' = now
        /\ Write(UsageOf(seq, usage, CostOf(seq, usage)))
    BY <1>4 DEF Settle, SettleMisposted, SettleMisdated, Write
  <2>2. Accounted(written, UsageOf(seq, usage, CostOf(seq, usage)), Len(written))
    BY <2>1, CallCost
  <2> QED BY <1>2, <2>1, <2>2
<1>5. ASSUME NEW seq \in 0 .. MaxLog, NEW usage \in Usage, SettleStray(seq, usage)
      PROVE  CallsInv' /\ now' \in Instant
  <2>1. PICK model \in Model : Write(UsageOf(seq, usage, Priced(usage, model, Price)))
    BY <1>5 DEF SettleStray
  <2>2. /\ seq \in 0 .. Len(log) - 1 /\ seq \notin InvocationSeqs(log) /\ log = written /\ now' = now
        /\ Priced(usage, model, Price) \in Nat
    BY <1>5, PriceIsNat DEF SettleStray, Write
  <2>3. Accounted(written, UsageOf(seq, usage, Priced(usage, model, Price)), Len(written))
    BY <2>2, StrayCost
  <2> QED BY <1>2, <2>1, <2>2, <2>3
<1>6. ASSUME \/ \E seq \in 0 .. MaxLog, usage \in Usage : SettleUnrecorded(seq, usage)
             \/ \E i \in DOMAIN log : Damage(i)
             \/ UNCHANGED vars
      PROVE  CallsInv' /\ now' \in Instant
  BY <1>1, <1>6 DEF SettleUnrecorded, Damage, vars, Instant
<1>7. ASSUME Tick PROVE CallsInv' /\ now' \in Instant
  <2>1. now' \in Instant
    BY <1>7, ReconciliationAssumption DEF Tick, Instant
  <2> QED BY <1>1, <1>7, <2>1 DEF Tick
<1> QED BY <1>3, <1>4, <1>5, <1>6, <1>7 DEF Next

\* What is known of a log that reads well: its places, instants and settlements.
Kept(entries) ==
    /\ \E S : entries \in Seq(S)
    /\ \A i \in 1 .. Len(entries) :
          /\ entries[i].seq = i - 1 /\ entries[i].at \in Instant
          /\ Accounted(entries, entries[i].event, i - 1)

\* What the settlements of such a log cost.
LEMMA KeptCosts ==
    ASSUME NEW entries, Kept(entries) PROVE Counts(Costs(entries), Recorded(entries))
<1>1. PICK S : entries \in Seq(S)
  BY DEF Kept
<1>2. \A i \in Recorded(entries) : i \in 1 .. Len(entries) /\ entries[i].event.kind = "usage-recorded"
  BY <1>1 DEF Recorded, At
<1>3. \A i \in Recorded(entries) : entries[i].event.costMicros \in Nat
  BY <1>2 DEF Kept, Accounted
<1> QED BY <1>3 DEF Counts, Costs

\* A log that verification passes reads well: it is what was written, or lacks the
\* last entry of that, or has another in the last place, one that settles nothing.
LEMMA VerifiedIsKept ==
    ASSUME CallsInv, LogInv, Integrity(log).kind = "verified"
    PROVE  Kept(log)
<1>1. PICK S : written \in Seq(S)
  BY DEF CallsInv, Chained
<1>2. Kept(written)
  BY DEF CallsInv, Chained, Kept
<1>3. CASE log = written
  BY <1>2, <1>3
<1>4. CASE log # written
  <2> DEFINE n == Len(written)
  <2>1. PICK i \in 1 .. Len(written) :
           log \in {[written EXCEPT ![i] = Edited(written[i])],
                    [written EXCEPT ![i] = Rehashed(written[i])],
                    RemoveAt(written, i)}
    BY <1>4 DEF LogInv, Damaged
  <2>2. n \in Nat /\ Chained(written) /\ IsEntry(written[i])
    BY <1>1, <2>1 DEF CallsInv, Chained
  <2>3. CASE log = RemoveAt(written, i)
    <3>1. i = n
      <4>1. Min(Differing(log, written)) = i /\ Differing(log, written) = {n}
        BY <2>2, <2>3, LossLocated
      <4>2. {n} \in SUBSET Int /\ n \in {n} /\ \A x \in {n} : n <= x
        BY <2>2
      <4>3. Min({n}) = n
        BY <4>2, MinIs
      <4> QED BY <4>1, <4>3
    <3>2. /\ log \in Seq(S) /\ Len(log) = n - 1
          /\ \A j \in 1 .. n - 1 : log[j] = written[j]
      <4>1. /\ log \in Seq(S) /\ Len(log) = n - 1
            /\ \A j \in 1 .. n - 1 : log[j] = IF j < i THEN written[j] ELSE written[j + 1]
        BY <1>1, <2>3, RemovedFacts
      <4> QED BY <2>2, <3>1, <4>1
    <3>3. ASSUME NEW j \in 1 .. n - 1
          PROVE  /\ log[j].seq = j - 1 /\ log[j].at \in Instant
                 /\ Accounted(log, log[j].event, j - 1)
      <4>1. /\ j \in 1 .. n /\ j - 1 \in Nat /\ \A m \in 1 .. j - 1 : log[m] = written[m]
            /\ log[j] = written[j]
        BY <2>2, <3>2
      <4>2. /\ written[j].seq = j - 1 /\ written[j].at \in Instant
            /\ Accounted(written, written[j].event, j - 1)
        BY <1>2, <4>1 DEF Kept
      <4> QED BY <4>1, <4>2, AccountedMore
    <3> HIDE DEF n
    <3> QED BY <3>2, <3>3 DEF Kept
  <2>4. ASSUME NEW e, e = Edited(written[i]) \/ e = Rehashed(written[i]),
               log = [written EXCEPT ![i] = e]
        PROVE  Kept(log)
    <3>1. e # written[i]
      BY <1>1, <1>4, <2>4
    <3>2. i = n
      BY <2>2, <2>4, <3>1, EditLocated
    <3>3. e.seq = written[i].seq /\ e.at = written[i].at /\ e.event = [kind |-> "human-intervened"]
      BY <2>2, <2>4, EditedFacts
    <3>4. /\ log \in Seq(S \cup {e}) /\ Len(log) = n /\ log[n] = e
          /\ \A j \in 1 .. n - 1 : log[j] = written[j]
      <4>1. written \in Seq(S \cup {e})
        BY <1>1, SeqMonotonic
      <4> HIDE DEF n
      <4> QED BY <1>1, <2>1, <2>2, <2>4, <3>2, <4>1 DEF n
    <3>5. ASSUME NEW j \in 1 .. n
          PROVE  /\ log[j].seq = j - 1 /\ log[j].at \in Instant
                 /\ Accounted(log, log[j].event, j - 1)
      <4>1. /\ written[j].seq = j - 1 /\ written[j].at \in Instant
            /\ Accounted(written, written[j].event, j - 1)
        BY <1>2 DEF Kept
      <4>2. CASE j = n
        BY <3>2, <3>3, <3>4, <4>1, <4>2 DEF Accounted
      <4>3. CASE j # n
        <5>1. /\ j \in 1 .. n - 1 /\ j - 1 \in Nat
              /\ \A m \in 1 .. j - 1 : log[m] = written[m] /\ log[j] = written[j]
          BY <2>2, <3>4, <4>3
        <5>2. log[j] = written[j]
          BY <3>4, <5>1
        <5> QED BY <4>1, <5>1, <5>2, AccountedMore
      <4> QED BY <4>2, <4>3
    <3> HIDE DEF n
    <3> QED BY <3>4, <3>5 DEF Kept
  <2> QED BY <2>1, <2>3, <2>4
<1> QED BY <1>3, <1>4

\* What the calls of a log are, and what settles them.
LEMMA RowFacts ==
    ASSUME NEW entries, Kept(entries)
    PROVE  /\ IsFiniteSet(At(entries, "model-invoked")) /\ IsFiniteSet(Recorded(entries))
           /\ Attributed(entries) \in SUBSET Recorded(entries)
           /\ Unattributed(entries) \in SUBSET Recorded(entries)
           /\ Parts(RowCosts(entries), Costs(entries), RowParts(entries),
                    At(entries, "model-invoked"), Recorded(entries))
           /\ UNION {RowParts(entries)[i] : i \in At(entries, "model-invoked")} = Attributed(entries)
<1> DEFINE calls == At(entries, "model-invoked")
           recorded == Recorded(entries)
<1>1. PICK S : entries \in Seq(S)
  BY DEF Kept
<1>2. calls \in SUBSET (1 .. Len(entries)) /\ recorded \in SUBSET (1 .. Len(entries))
  BY <1>1 DEF At, Recorded
<1>3. IsFiniteSet(calls) /\ IsFiniteSet(recorded)
  BY <1>1, <1>2, RecordedFinite
<1>4. \A i \in calls : entries[i].seq = i - 1
  BY <1>2 DEF Kept
<1>5. InvocationSeqs(entries) = {entries[i].seq : i \in calls}
  BY DEF InvocationSeqs
<1>6. /\ \A seq : Settlements(entries, seq)
                  = {j \in recorded : entries[j].event.invocationSeq = seq}
      /\ Unattributed(entries)
         = {j \in recorded : entries[j].event.invocationSeq \notin InvocationSeqs(entries)}
  BY DEF Settlements, Unattributed, Recorded
<1>7. \A i \in calls : RowParts(entries)[i] = Settlements(entries, entries[i].seq)
  BY DEF RowParts
<1> HIDE DEF calls, recorded
<1>8. UNION {RowParts(entries)[i] : i \in calls} = Attributed(entries)
  BY <1>5, <1>6, <1>7 DEF Attributed, recorded
<1>9. Parts(RowCosts(entries), Costs(entries), RowParts(entries), calls, recorded)
  <2>1. ASSUME NEW i \in calls
        PROVE  /\ RowParts(entries)[i] \subseteq recorded
               /\ RowCosts(entries)[i] = Over(Costs(entries), RowParts(entries)[i])
    <3>1. RowParts(entries)[i] \in SUBSET recorded
      BY <1>6, <1>7
    <3>2. RowCosts(entries)[i] = Micros(entries, RowParts(entries)[i])
      BY <1>7 DEF RowCosts, calls
    <3> QED BY <3>1, <3>2, MicrosIs DEF recorded
  <2>2. ASSUME NEW i \in calls, NEW j \in calls, i # j
        PROVE  RowParts(entries)[i] \cap RowParts(entries)[j] = {}
    <3>1. entries[i].seq # entries[j].seq
      BY <1>2, <1>4, <2>2
    <3> QED BY <1>6, <1>7, <3>1
  <2> QED BY <2>1, <2>2 DEF Parts
<1> QED BY <1>3, <1>6, <1>8, <1>9 DEF calls, recorded, Attributed

\* The total is what the rows and the unattributed settlements add up to.
LEMMA RowsAddUp ==
    ASSUME NEW entries, Kept(entries)
    PROVE  /\ Over(RowCosts(entries), At(entries, "model-invoked"))
              = Over(Costs(entries), Attributed(entries))
           /\ Micros(entries, Recorded(entries))
              = Over(Costs(entries), Attributed(entries)) + Micros(entries, Unattributed(entries))
<1> DEFINE f == Costs(entries)
           U == Recorded(entries)
           A == Attributed(entries)
           B == Unattributed(entries)
           C == At(entries, "model-invoked")
           g == RowCosts(entries)
           part == RowParts(entries)
<1>1. Counts(f, U)
  BY KeptCosts
<1>2. /\ IsFiniteSet(C) /\ IsFiniteSet(U) /\ A \in SUBSET U /\ B \in SUBSET U
      /\ Parts(g, f, part, C, U) /\ UNION {part[i] : i \in C} = A
  BY RowFacts
<1>3. A \cap B = {} /\ A \cup B = U
  BY <1>2 DEF Attributed
<1>4. Micros(entries, U) = Over(f, U) /\ Micros(entries, B) = Over(f, B)
  BY <1>2, MicrosIs
<1> HIDE DEF f, U, A, B, C, g, part
<1>5. Over(g, C) = Over(f, UNION {part[i] : i \in C})
  BY <1>1, <1>2, SumNested
<1>6. Over(f, A \cup B) = Over(f, A) + Over(f, B)
  BY <1>1, <1>2, <1>3, SumSplit
<1>7. Over(g, C) = Over(f, A)
  BY ONLY <1>2, <1>5
<1>8. Over(f, U) = Over(f, A) + Over(f, B)
  BY ONLY <1>3, <1>6
<1> QED BY <1>4, <1>7, <1>8 DEF f, U, A, B, C, g

\* The meter's totals of two windows that meet, over all the time there is.
LEMMA WindowsAddUp ==
    ASSUME NEW entries, Kept(entries), NEW cut \in Instant
    PROVE  Micros(entries, Recorded(entries))
           = Metered(MeterEvents(entries), 0, cut) + Metered(MeterEvents(entries), cut, MaxTime + 1)
<1> DEFINE f == Costs(entries)
           U == Recorded(entries)
           A == Dated(entries, 0, cut)
           B == Dated(entries, cut, MaxTime + 1)
<1>1. Counts(f, U) /\ IsFiniteSet(U)
  BY KeptCosts, RowFacts
<1>2. /\ A \in SUBSET U /\ B \in SUBSET U
      /\ Metered(MeterEvents(entries), 0, cut) = Over(f, A)
      /\ Metered(MeterEvents(entries), cut, MaxTime + 1) = Over(f, B)
  BY MeteredFacts
<1>3. \A i \in U : entries[i].at \in Instant
  <2>1. PICK S : entries \in Seq(S)
    BY DEF Kept
  <2> QED BY <2>1 DEF Kept, Recorded, At
<1>4. A \cap B = {} /\ A \cup B = U
  <2>1. \A t \in Instant : /\ (t >= 0 /\ t < cut) \/ (t >= cut /\ t < MaxTime + 1)
                           /\ ~(t < cut /\ t >= cut)
    BY ReconciliationAssumption DEF Instant
  <2> QED BY <1>2, <1>3, <2>1 DEF Dated
<1>5. Micros(entries, U) = Over(f, U)
  BY MicrosIs
<1> HIDE DEF f, U, A, B
<1>6. Over(f, A \cup B) = Over(f, A) + Over(f, B)
  BY <1>1, <1>2, <1>4, SumSplit
<1>7. Over(f, U) = Over(f, A) + Over(f, B)
  BY ONLY <1>4, <1>6
<1> QED BY <1>2, <1>5, <1>7 DEF U

\* Replaying the attributed usage gives what it was recorded to cost.
LEMMA ReplayAgrees ==
    ASSUME NEW entries, Kept(entries), NEW models \in SUBSET Model,
           NEW records, records = [i \in Attributed(entries) |->
                                     [usage |-> entries[i].event.usage,
                                      model |-> entries[entries[i].event.invocationSeq + 1].event.snapshot]],
           NEW table, table = [m \in models |-> Price[m]],
           Replay(records, table).kind = "priced"
    PROVE  Replay(records, table).total = Over(Costs(entries), Attributed(entries))
<1> DEFINE A == Attributed(entries)
<1>1. PICK S : entries \in Seq(S)
  BY DEF Kept
<1>2. DOMAIN records = A /\ DOMAIN table = models
  OBVIOUS
<1>3. (\A i \in A : records[i].model \in models)
      /\ Replay(records, table).total
         = SumFunction([i \in A |-> Priced(records[i].usage, records[i].model, table)])
  BY <1>2 DEF Replay
<1>4. ASSUME NEW i \in A
      PROVE  Priced(records[i].usage, records[i].model, table) = Costs(entries)[i]
  <2> DEFINE e == entries[i].event
             call == entries[e.invocationSeq + 1].event
  <2>1. /\ i \in Recorded(entries) /\ i \in 1 .. Len(entries) /\ e.kind = "usage-recorded"
        /\ e.invocationSeq \in InvocationSeqs(entries)
    BY <1>1 DEF Attributed, Unattributed, Recorded, At
  <2>2. PICK j \in 1 .. Len(entries) :
           entries[j].event.kind = "model-invoked" /\ e.invocationSeq = entries[j].seq
    <3>1. \A seq \in InvocationSeqs(entries) : \E j \in 1 .. Len(entries) :
             entries[j].event.kind = "model-invoked" /\ seq = entries[j].seq
      BY <1>1 DEF InvocationSeqs, At
    <3> HIDE DEF e
    <3> QED BY <2>1, <3>1
  <2>3. entries[j].seq = j - 1
    BY DEF Kept
  <2>4. call.kind = "model-invoked"
    BY <2>2, <2>3
  <2>5. e.costMicros = Priced(e.usage, call.snapshot, Price)
    BY <2>1, <2>4 DEF Kept, Accounted
  <2>6. records[i].usage = e.usage /\ records[i].model = call.snapshot
    OBVIOUS
  <2>7. table[call.snapshot] = Price[call.snapshot]
    BY <1>3, <2>6
  <2>8. Costs(entries)[i] = e.costMicros
    BY <2>1 DEF Costs
  <2> HIDE DEF e, call
  <2> QED BY <2>5, <2>6, <2>7, <2>8 DEF Priced
<1>5. [i \in A |-> Priced(records[i].usage, records[i].model, table)] = [i \in A |-> Costs(entries)[i]]
  BY <1>4
<1> QED BY <1>3, <1>5 DEF Over

\* No two readings of a log that verification passes disagree.
LEMMA AgreeHolds == ASSUME CallsInv, LogInv PROVE ReadingsAgree
<1> SUFFICES ASSUME Integrity(log).kind = "verified" PROVE ReadingsAgree
  BY DEF ReadingsAgree
<1>0. Kept(log)
  BY VerifiedIsKept
<1> DEFINE cost      == Cost(log)
           rows      == cost.perInvocation
           meter     == MeterEvents(log)
           records   == [i \in At(log, "usage-recorded") \ Unattributed(log) |->
                            [usage |-> log[i].event.usage,
                             model |-> log[log[i].event.invocationSeq + 1].event.snapshot]]
           replayed(models) == Replay(records, [m \in models |-> Price[m]])
           total     == SumFunction([i \in DOMAIN rows |-> rows[i].costMicros])
           calls     == At(log, "model-invoked")
<1>1. /\ DOMAIN rows = calls
      /\ \A i \in calls : LET settled == Settlements(log, log[i].seq)
                          IN  /\ rows[i].costMicros = Micros(log, settled)
                              /\ rows[i].settlements = Cardinality(settled)
                              /\ rows[i].tokens = Tokens(log, settled)
      /\ cost.totalMicros = Micros(log, Recorded(log))
      /\ cost.unattributedMicros = Micros(log, Unattributed(log))
  BY DEF Cost, Recorded
<1>2. total = Over(Costs(log), Attributed(log))
  <2>1. [i \in DOMAIN rows |-> rows[i].costMicros] = [i \in calls |-> RowCosts(log)[i]]
    BY <1>1 DEF RowCosts
  <2>2. total = Over(RowCosts(log), calls)
    BY <2>1 DEF Over
  <2> QED BY <1>0, <2>2, RowsAddUp
<1>3. cost.totalMicros = total + cost.unattributedMicros
  BY <1>0, <1>1, <1>2, RowsAddUp
<1>4. \A cut \in Instant : cost.totalMicros = Metered(meter, 0, cut) + Metered(meter, cut, MaxTime + 1)
  BY <1>0, <1>1, WindowsAddUp
<1>5. ASSUME NEW models \in SUBSET Model, replayed(models).kind = "priced"
      PROVE  replayed(models).total = total
  <2> DEFINE table == [m \in models |-> Price[m]]
  <2>1. records = [i \in Attributed(log) |->
                     [usage |-> log[i].event.usage,
                      model |-> log[log[i].event.invocationSeq + 1].event.snapshot]]
    BY DEF Attributed, Recorded
  <2>2. Replay(records, table).kind = "priced"
    BY <1>5
  <2> HIDE DEF records, table
  <2>3. Replay(records, table).total = Over(Costs(log), Attributed(log))
    BY <1>0, <2>1, <2>2, ReplayAgrees DEF table
  <2> QED BY <1>2, <2>3 DEF table
<1>6. \A i \in calls : Telemetry(log)[i].tokens = IF rows[i].settlements = 0 THEN {} ELSE {rows[i].tokens}
  <2> TAKE i \in calls
  <2> DEFINE settled == Settlements(log, log[i].seq)
  <2>1. Telemetry(log)[i].tokens = IF settled = {} THEN {} ELSE {Tokens(log, settled)}
    BY DEF Telemetry
  <2>2. IsFiniteSet(settled)
    <3>1. settled \in SUBSET Recorded(log)
      BY DEF Settlements, Recorded
    <3> QED BY <1>0, <3>1, RowFacts, FS_Subset
  <2>3. Cardinality(settled) = 0 <=> settled = {}
    BY <2>2, FS_EmptySet
  <2> QED BY <1>1, <2>1, <2>3
<1> HIDE DEF rows, calls, replayed, total, meter
<1>7. /\ cost.totalMicros = total + cost.unattributedMicros
      /\ \A cut \in Instant :
            cost.totalMicros = Metered(meter, 0, cut) + Metered(meter, cut, MaxTime + 1)
      /\ \A models \in SUBSET Model :
            replayed(models).kind = "priced" => replayed(models).total = total
      /\ \A i \in DOMAIN rows :
            Telemetry(log)[i].tokens = IF rows[i].settlements = 0 THEN {} ELSE {rows[i].tokens}
  BY <1>1, <1>3, <1>4, <1>5, <1>6
<1> QED BY <1>7 DEF ReadingsAgree, rows, replayed, total, meter

\* Of a log that verification passes no two readings disagree: the total, the rows
\* and the unattributed settlements, the meter, the replay and the telemetry.  It
\* passes what was written and what lacks the last entry of that, or has it edited
\* and its hash computed anew; of other damage it says where, or one entry on
\* (run-timeline.ts, replay-usage.ts, metering-export.ts, verify-run-log.ts).
THEOREM ReadingsAreSound == Spec => []ReadingIsSound
<1> DEFINE Inv == CallsInv /\ now \in Instant
<1>1. Init => Inv
  BY BooksInit DEF BooksInv
<1>2. Inv /\ [Next]_vars => Inv'
  BY CallsStep
<1>3. Inv /\ LogInv => ReadingsAgree
  BY AgreeHolds
<1>4. Spec => []IntegrityLocatesTheDamage
  BY DamageIsLocated
<1> HIDE DEF Inv
<1> QED BY <1>1, <1>2, <1>3, <1>4, LogInvHolds, PTL DEF Spec, ReadingIsSound
-----------------------------------------------------------------------------
(* What a later reading of a log says of an earlier one.                   *)

\* What a log is that was read before, and perhaps written on since.
Longer(s, more) ==
    /\ \E S : s \in Seq(S) /\ more \in Seq(S)
    /\ Len(s) <= Len(more)
    /\ \A i \in 1 .. Len(s) : more[i] = s[i]

\* A sequence that is longer begins as the shorter one.
LEMMA PrefixIs == ASSUME NEW s, NEW more, Longer(s, more) PROVE IsPrefix(s, more)
<1> DEFINE n == Len(s)
<1>1. PICK S : s \in Seq(S) /\ more \in Seq(S)
  BY DEF Longer
<1>2. n \in Nat /\ n <= Len(more) /\ \A i \in 1 .. n : s[i] \in S /\ more[i] \in S /\ more[i] = s[i]
  BY <1>1, ElementOfSeq DEF Longer
<1> HIDE DEF n
<1> DEFINE a == SubSeq(s, 1, n)
           b == SubSeq(more, 1, n)
<1>3. 1 \in Int /\ n \in Int /\ n - 1 + 1 = n
  BY <1>2
<1>4. a \in Seq(S) /\ Len(a) = n /\ \A i \in 1 .. n : a[i] = s[i]
  BY <1>2, <1>3, SubSeqProperties
<1>5. b \in Seq(S) /\ Len(b) = n /\ \A i \in 1 .. n : b[i] = more[i]
  BY <1>2, <1>3, SubSeqProperties
<1> HIDE DEF a, b
<1>6. a = b
  <2>1. Len(a) = Len(b) /\ \A i \in 1 .. Len(a) : a[i] = b[i]
    BY <1>2, <1>4, <1>5
  <2> QED BY <1>4, <1>5, <2>1, SeqEqual
<1> QED BY <1>2, <1>6 DEF IsPrefix, a, b, n

\* All but the last of some spans.
LEMMA FrontIs ==
    ASSUME NEW S, NEW s \in Seq(S), Len(s) > 0
    PROVE  /\ Front(s) \in Seq(S) /\ Len(Front(s)) = Len(s) - 1
           /\ \A i \in 1 .. Len(s) - 1 : Front(s)[i] = s[i]
<1> DEFINE n == Len(s) - 1
<1>1. n \in Nat /\ 1 \in Int /\ n \in Int /\ \A i \in 1 .. n : s[i] \in S
  BY ElementOfSeq
<1> HIDE DEF n
<1>2. n - 1 + 1 = n /\ (1 <= n \/ n = 0)
  <2>1. n \in Nat
    BY <1>1
  <2> QED BY ONLY <2>1
<1>3. /\ SubSeq(s, 1, n) \in Seq(S) /\ Len(SubSeq(s, 1, n)) = n
      /\ \A i \in 1 .. n : SubSeq(s, 1, n)[i] = s[i]
  BY <1>1, <1>2, SubSeqProperties
<1> QED BY <1>3 DEF Front, n

\* Closed spans stay and the open one only grows.
SpansLater(before, after) ==
    LET n == Len(before)
    IN  n > 0 => /\ IsPrefix(Front(before), after)
                 /\ after[n] = [before[n] EXCEPT !.toSeq = after[n].toSeq]
                 /\ after[n].toSeq >= before[n].toSeq

\* ... when an entry is read, whatever the state it puts the run in.
LEMMA SpansGrow ==
    ASSUME NEW S, NEW spans \in Seq(S), NEW last \in Nat,
           \A k \in 1 .. Len(spans) : IsSpan(spans[k], last),
           NEW entry, entry.seq \in Nat, last < entry.seq, NEW state, NEW after,
           after = spans \/ after = Extended(spans, state, entry)
    PROVE  SpansLater(spans, after)
<1> DEFINE n == Len(spans)
<1> SUFFICES ASSUME n > 0
             PROVE  /\ IsPrefix(Front(spans), after)
                    /\ after[n] = [spans[n] EXCEPT !.toSeq = after[n].toSeq]
                    /\ after[n].toSeq >= spans[n].toSeq
  BY DEF SpansLater
<1>1. n \in 1 .. n /\ n \in Nat /\ n - 1 \in Nat /\ n - 1 <= n /\ 1 .. n - 1 \subseteq 1 .. n /\ n \notin 1 .. n - 1
  OBVIOUS
<1> DEFINE open == spans[n]
<1>2. /\ open = [state |-> open.state, at |-> open.at, fromSeq |-> open.fromSeq, toSeq |-> open.toSeq]
      /\ open.toSeq \in Nat /\ open.toSeq <= entry.seq
  <2>1. IsSpan(open, last)
    BY <1>1
  <2> HIDE DEF open
  <2> QED BY <2>1 DEF IsSpan
<1>3. Front(spans) \in Seq(S) /\ Len(Front(spans)) = n - 1 /\ \A i \in 1 .. n - 1 : Front(spans)[i] = spans[i]
  BY FrontIs
<1>4. ASSUME NEW T, after \in Seq(T), S \subseteq T, n <= Len(after),
             \A i \in 1 .. n - 1 : after[i] = spans[i]
      PROVE  IsPrefix(Front(spans), after)
  <2>1. Front(spans) \in Seq(T)
    BY <1>3, <1>4, SeqMonotonic
  <2>2. Len(Front(spans)) <= Len(after)
    BY <1>1, <1>3, <1>4
  <2>3. \A i \in 1 .. Len(Front(spans)) : after[i] = Front(spans)[i]
    BY <1>3, <1>4
  <2> HIDE DEF n, open
  <2>4. Longer(Front(spans), after)
    BY <1>4, <2>1, <2>2, <2>3 DEF Longer
  <2> QED BY <2>4, PrefixIs
<1>5. CASE after = spans
  <2>1. after[n] = open /\ IsPrefix(Front(spans), after)
    BY <1>1, <1>4, <1>5
  <2> QED BY <1>2, <2>1
<1>6. CASE after # spans /\ Last(spans).state = state
  <2> DEFINE grown == [open EXCEPT !.toSeq = entry.seq]
  <2>1. after = [spans EXCEPT ![n] = grown]
    <3>1. spans # <<>>
      BY <1>1
    <3> QED BY <1>6, <3>1 DEF Extended
  <2>2. grown.toSeq = entry.seq
    BY <1>2
  <2>3. /\ after \in Seq(S \cup {grown}) /\ Len(after) = n
        /\ after[n] = grown /\ \A i \in 1 .. n - 1 : after[i] = spans[i]
    <3>1. spans \in Seq(S \cup {grown}) /\ grown \in S \cup {grown}
      BY SeqMonotonic
    <3> HIDE DEF grown
    <3> QED BY <1>1, <2>1, <3>1, ExceptSeq
  <2>4. IsPrefix(Front(spans), after)
    BY <1>1, <1>4, <2>3
  <2>5. after[n] = [open EXCEPT !.toSeq = after[n].toSeq]
    BY <2>2, <2>3
  <2> QED BY <1>2, <2>2, <2>3, <2>4, <2>5
<1>7. CASE after # spans /\ Last(spans).state # state
  <2> DEFINE new == [state |-> state, at |-> entry.at, fromSeq |-> entry.seq, toSeq |-> entry.seq]
  <2>1. after = Append(spans, new)
    BY <1>7 DEF Extended
  <2> HIDE DEF new
  <2>2. /\ after \in Seq(S \cup {new}) /\ Len(after) = n + 1
        /\ \A i \in 1 .. n : after[i] = spans[i]
    <3>1. spans \in Seq(S \cup {new}) /\ new \in S \cup {new}
      BY SeqMonotonic
    <3> QED BY <2>1, <3>1, AppendProperties
  <2>3. after[n] = open /\ IsPrefix(Front(spans), after)
    BY <1>1, <1>4, <2>2
  <2> QED BY <1>2, <2>3
<1> QED BY <1>5, <1>6, <1>7

\* The spans of a log, and of one entry more.
LEMMA StatesMore ==
    ASSUME NEW S, NEW s \in Seq(S), NEW e \in S
    PROVE  \E state : States(Append(s, e)) \in {States(s), Extended(States(s), state, e)}
<1> DEFINE read(t) == CHOOSE g : Reads(g, Len(t), t)
<1>1. ASSUME NEW t \in Seq(S)
      PROVE  Reads(read(t), Len(t), t) /\ States(t) = read(t)[1 .. Len(t)].spans
  <2>1. Len(t) \in Nat /\ DOMAIN t = 1 .. Len(t)
    OBVIOUS
  <2>2. \E g : Reads(g, Len(t), t)
    BY <2>1, ReadsExists
  <2>3. States(t) = read(t)[1 .. Len(t)].spans
    BY <2>1 DEF States, FoldLeft, MapThenFoldSet, Reads, Unread
  <2> QED BY <2>2, <2>3
<1> HIDE DEF read
<1> DEFINE reading == read(s)[1 .. Len(s)]
<1>2. Append(s, e) \in Seq(S)
  OBVIOUS
<1>3. read(Append(s, e))[1 .. Len(Append(s, e))] = Stepped(reading, e)
  BY <1>1, <1>2, ReadsMore
<1>4. States(Append(s, e)) = Stepped(reading, e).spans /\ States(s) = reading.spans
  BY <1>1, <1>2, <1>3
<1> HIDE DEF reading
<1>5. \E state : Stepped(reading, e).spans \in {reading.spans, Extended(reading.spans, state, e)}
  BY DEF Stepped
<1> QED BY <1>4, <1>5

\* What costs were told of an earlier reading hold of a later one.
CostLater(before, after) ==
    /\ after.totalMicros >= before.totalMicros
    /\ before.unattributedSeqs \subseteq after.unattributedSeqs
    /\ \A i \in DOMAIN before.perInvocation :
          LET row == before.perInvocation[i]  grown == after.perInvocation[i]
          IN  /\ grown.invocationSeq = row.invocationSeq
              /\ grown.settlements >= row.settlements /\ grown.costMicros >= row.costMicros

\* Totals and rows grow, and what names no call now names none later.
LEMMA CostGrows ==
    ASSUME NEW s, NEW more, Longer(s, more),
           \A i \in 1 .. Len(more) : more[i].seq = i - 1,
           Counts(Costs(more), Recorded(more)),
           \A i \in Recorded(s) : s[i].event.invocationSeq \in 0 .. Len(s) - 1
    PROVE  CostLater(Cost(s), Cost(more))
<1> DEFINE n == Len(s)
<1>1. PICK S : s \in Seq(S) /\ more \in Seq(S)
  BY DEF Longer
<1>2. /\ n \in Nat /\ Len(more) \in Nat /\ n <= Len(more)
      /\ DOMAIN s = 1 .. n /\ DOMAIN more = 1 .. Len(more)
      /\ \A i \in 1 .. n : i \in 1 .. Len(more) /\ more[i] = s[i]
  BY <1>1 DEF Longer
<1>3. IsFiniteSet(Recorded(more)) /\ IsFiniteSet(Recorded(s))
  BY <1>1, RecordedFinite
<1> HIDE DEF n
<1>4. \A kind : /\ At(s, kind) \subseteq At(more, kind) /\ At(s, kind) \subseteq 1 .. n
                /\ \A i \in At(more, kind) : i \in 1 .. n => i \in At(s, kind)
  BY <1>2 DEF At
<1>5. Recorded(s) \subseteq Recorded(more) /\ Recorded(s) \subseteq 1 .. n
  BY <1>4 DEF Recorded
<1>6. \A i \in Recorded(s) : Costs(more)[i] = Costs(s)[i]
  BY <1>2, <1>5 DEF Costs
<1>7. ASSUME NEW v \in SUBSET Recorded(more), NEW u \in SUBSET v, u \subseteq Recorded(s)
      PROVE  Micros(more, v) >= Micros(s, u)
  <2>1. Micros(more, v) = Over(Costs(more), v) /\ Micros(s, u) = Over(Costs(s), u)
    BY <1>7, MicrosIs
  <2>2. Over(Costs(more), u) = Over(Costs(s), u)
    <3>1. \A i \in u : Costs(more)[i] = Costs(s)[i]
      BY <1>6, <1>7
    <3> QED BY <3>1, SumSame
  <2>3. /\ Over(Costs(more), u) \in Nat /\ Over(Costs(more), v) \in Nat
        /\ Over(Costs(more), u) <= Over(Costs(more), v)
    BY <1>3, SumGrows
  <2> QED BY <2>1, <2>2, <2>3
<1>8. ASSUME NEW seq
      PROVE  /\ Settlements(s, seq) \subseteq Settlements(more, seq)
             /\ Settlements(s, seq) \subseteq Recorded(s)
             /\ Settlements(more, seq) \subseteq Recorded(more)
  BY <1>2, <1>5 DEF Settlements, Recorded
<1>9. ASSUME NEW i \in Unattributed(s) PROVE i \in Unattributed(more)
  <2> DEFINE seq == s[i].event.invocationSeq
  <2>1. /\ i \in Recorded(s) /\ i \in Recorded(more) /\ i \in 1 .. n /\ more[i] = s[i]
        /\ seq \notin InvocationSeqs(s)
    BY <1>2, <1>5 DEF Unattributed, Recorded
  <2>2. seq \in 0 .. n - 1
    BY <2>1 DEF n
  <2> HIDE DEF seq
  <2>3. ASSUME NEW j \in At(more, "model-invoked"), seq = more[j].seq PROVE FALSE
    <3>1. j \in 1 .. Len(more) /\ more[j].seq = j - 1
      BY <1>2 DEF At
    <3>2. j \in 1 .. n
      BY <1>2, <2>2, <2>3, <3>1
    <3>3. j \in At(s, "model-invoked") /\ s[j] = more[j]
      BY <1>2, <1>4, <3>2
    <3>4. seq \in InvocationSeqs(s)
      BY <2>3, <3>3 DEF InvocationSeqs
    <3> QED BY <2>1, <3>4
  <2>4. seq \notin InvocationSeqs(more)
    BY <2>3 DEF InvocationSeqs
  <2> QED BY <2>1, <2>4 DEF Unattributed, Recorded, seq
<1>10. Cost(more).totalMicros >= Cost(s).totalMicros
  <2>1. Micros(more, Recorded(more)) >= Micros(s, Recorded(s))
    BY <1>5, <1>7
  <2> QED BY <2>1 DEF Cost, Recorded
<1>11. Cost(s).unattributedSeqs \subseteq Cost(more).unattributedSeqs
  <2>1. \A i \in Unattributed(s) : i \in Unattributed(more) /\ s[i].seq = more[i].seq
    BY <1>2, <1>5, <1>9 DEF Unattributed, Recorded
  <2>2. {s[i].seq : i \in Unattributed(s)} \subseteq {more[i].seq : i \in Unattributed(more)}
    BY <2>1
  <2> QED BY <2>2 DEF Cost
<1>12. ASSUME NEW i \in At(s, "model-invoked")
       PROVE  LET row == Cost(s).perInvocation[i]  grown == Cost(more).perInvocation[i]
              IN  /\ grown.invocationSeq = row.invocationSeq
                  /\ grown.settlements >= row.settlements /\ grown.costMicros >= row.costMicros
  <2> DEFINE seq == s[i].seq
             u == Settlements(s, seq)
             v == Settlements(more, seq)
  <2>1. i \in At(more, "model-invoked") /\ more[i] = s[i]
    BY <1>2, <1>4
  <2>2. /\ Cost(s).perInvocation[i].invocationSeq = seq
        /\ Cost(s).perInvocation[i].settlements = Cardinality(u)
        /\ Cost(s).perInvocation[i].costMicros = Micros(s, u)
    BY DEF Cost
  <2>3. /\ Cost(more).perInvocation[i].invocationSeq = seq
        /\ Cost(more).perInvocation[i].settlements = Cardinality(v)
        /\ Cost(more).perInvocation[i].costMicros = Micros(more, v)
    BY <2>1 DEF Cost
  <2> HIDE DEF seq, u, v
  <2>4. u \subseteq v /\ u \subseteq Recorded(s) /\ v \subseteq Recorded(more)
    BY <1>8 DEF u, v
  <2>5. Micros(more, v) >= Micros(s, u)
    BY <1>7, <2>4
  <2>6. Cardinality(v) >= Cardinality(u)
    <3>1. IsFiniteSet(v)
      BY <1>3, <2>4, FS_Subset
    <3>2. Cardinality(u) \in Nat /\ Cardinality(v) \in Nat /\ Cardinality(u) <= Cardinality(v)
      BY <2>4, <3>1, FS_Subset, FS_CardinalityType
    <3> QED BY <3>2
  <2> QED BY <2>2, <2>3, <2>5, <2>6
<1>13. DOMAIN Cost(s).perInvocation = At(s, "model-invoked")
  BY DEF Cost
<1> QED BY <1>10, <1>11, <1>12, <1>13 DEF CostLater

Steps(entries) == [i \in DOMAIN entries |-> entries[i].event.kind]

\* The kinds of the entries of a log are a sequence.
LEMMA StepsAre ==
    ASSUME NEW S, NEW entries \in Seq(S), NEW K,
           \A i \in 1 .. Len(entries) : entries[i].event.kind \in K
    PROVE  /\ Steps(entries) \in Seq(K) /\ Len(Steps(entries)) = Len(entries)
           /\ \A i \in 1 .. Len(entries) : Steps(entries)[i] = entries[i].event.kind
<1> DEFINE n == Len(entries)
           f == [i \in 1 .. n |-> entries[i].event.kind]
<1>1. n \in Nat /\ DOMAIN entries = 1 .. n
  OBVIOUS
<1>2. f \in Seq(K) /\ Len(f) = n
  OBVIOUS
<1>3. Steps(entries) = f
  BY <1>1 DEF Steps
<1> QED BY <1>2, <1>3

\* What was read of an intact log holds of every later reading of it.
LEMMA LaterHolds ==
    ASSUME NEW s, NEW more, Longer(s, more), Chained(s), Chained(more), more = s \/ ~Ended(s),
           SpansLater(States(s), States(more)), CostLater(Cost(s), Cost(more))
    PROVE  LaterReading(Timeline(s), Timeline(more))
<1> DEFINE before == Timeline(s)
           after == Timeline(more)
           n == Len(before.states)
<1>1. PICK S : s \in Seq(S) /\ more \in Seq(S)
  BY DEF Longer
<1>2. /\ DOMAIN s = 1 .. Len(s) /\ DOMAIN more = 1 .. Len(more)
      /\ Len(s) \in Nat /\ Len(more) \in Nat /\ Len(s) <= Len(more)
      /\ \A i \in 1 .. Len(s) : i \in 1 .. Len(more) /\ more[i] = s[i]
  BY <1>1 DEF Longer
<1>3. after.integrity = before.integrity
  <2>1. Integrity(s) = [kind |-> "verified"] /\ Integrity(more) = [kind |-> "verified"]
    <3>1. /\ {i \in DOMAIN s : Flaw(s, i) # "none"} = {}
          /\ {i \in DOMAIN more : Flaw(more, i) # "none"} = {}
      BY <1>2, IntactVerifies
    <3> QED BY <3>1 DEF Integrity
  <2> QED BY <2>1 DEF Timeline
<1>4. before.outcome # "in-flight" => after.outcome = before.outcome
  BY DEF Timeline, Outcome
<1>5. before.subjects \subseteq after.subjects
  <2>1. \A kind : At(s, kind) \subseteq At(more, kind) /\ At(s, kind) \subseteq 1 .. Len(s)
    BY <1>2 DEF At
  <2>2. Subjects(s) \subseteq Subjects(more)
    <3> SUFFICES ASSUME NEW i \in At(s, "run-started") \cup At(s, "tool-called")
                 PROVE  s[i].event.subject \in Subjects(more)
      BY DEF Subjects
    <3>1. i \in At(more, "run-started") \cup At(more, "tool-called") /\ s[i] = more[i]
      BY <1>2, <2>1
    <3> QED BY <3>1 DEF Subjects
  <2> QED BY <2>2 DEF Timeline
<1>6. IsPrefix(before.steps, after.steps)
  <2> DEFINE K == {more[i].event.kind : i \in 1 .. Len(more)}
  <2>1. /\ \A i \in 1 .. Len(s) : s[i].event.kind \in K
        /\ \A i \in 1 .. Len(more) : more[i].event.kind \in K
    BY <1>2
  <2> HIDE DEF K
  <2>2. /\ Steps(s) \in Seq(K) /\ Len(Steps(s)) = Len(s)
        /\ \A i \in 1 .. Len(s) : Steps(s)[i] = s[i].event.kind
    BY <1>1, <2>1, StepsAre
  <2>3. /\ Steps(more) \in Seq(K) /\ Len(Steps(more)) = Len(more)
        /\ \A i \in 1 .. Len(more) : Steps(more)[i] = more[i].event.kind
    BY <1>1, <2>1, StepsAre
  <2>4. Longer(Steps(s), Steps(more))
    BY <1>2, <2>2, <2>3 DEF Longer
  <2>5. before.steps = Steps(s) /\ after.steps = Steps(more)
    BY DEF Timeline, Steps
  <2> QED BY <2>4, <2>5, PrefixIs
<1>7. /\ before.states = States(s) /\ after.states = States(more)
      /\ before.cost = Cost(s) /\ after.cost = Cost(more)
  BY DEF Timeline
<1>8. n > 0 => /\ IsPrefix(Front(before.states), after.states)
               /\ after.states[n] = [before.states[n] EXCEPT !.toSeq = after.states[n].toSeq]
               /\ after.states[n].toSeq >= before.states[n].toSeq
  <2> HIDE DEF before, after
  <2> QED BY <1>7 DEF SpansLater
<1>9. CostLater(before.cost, after.cost)
  <2> HIDE DEF before, after
  <2> QED BY <1>7
<1> HIDE DEF before, after
<1>10. LaterReading(before, after)
  BY <1>3, <1>4, <1>5, <1>6, <1>8, <1>9 DEF LaterReading, CostLater
<1> QED BY <1>10 DEF before, after

\* What an intact log tells of its spans, and of the settlements it records.
LEMMA IntactFacts ==
    ASSUME CallsInv
    PROVE  /\ \E S : States(written) \in Seq(S)
           /\ written = <<>> => States(written) = <<>>
           /\ \A i \in 1 .. Len(written) : written[i].seq = i - 1
           /\ \A k \in 1 .. Len(States(written)) : IsSpan(States(written)[k], Len(written) - 1)
           /\ \A i \in Recorded(written) : written[i].event.invocationSeq \in 0 .. Len(written) - 1
<1> DEFINE n == Len(written)
<1>1. PICK S : written \in Seq(S)
  BY DEF CallsInv, Chained
<1>2. n \in Nat /\ \A i \in 1 .. n : written[i].seq = i - 1
  BY <1>1 DEF CallsInv, Chained
<1>3. Readable(written)
  <2>1. \A i \in 1 .. n : written[i].seq \in Nat /\ \A j \in 1 .. i - 1 : j \in 1 .. n /\ j - 1 < i - 1
    BY <1>2
  <2>2. \A i \in 1 .. n : \A j \in 1 .. i - 1 : written[j].seq < written[i].seq
    BY <1>2, <2>1
  <2> QED BY <1>1, <2>1, <2>2 DEF Readable, CallsInv, Chained
<1>4. Spans(written, n, States(written))
  BY <1>3, StatesTell
<1>5. written = <<>> => States(written) = <<>>
  BY <1>4 DEF Spans
<1>6. \A k \in 1 .. Len(States(written)) : IsSpan(States(written)[k], n - 1)
  <2>1. CASE n = 0
    <3>1. States(written) = <<>> /\ Len(<<>>) = 0 /\ 1 .. 0 = {}
      BY <1>4, <2>1 DEF Spans
    <3> QED BY <3>1
  <2>2. CASE n # 0
    <3>1. written[n].seq = n - 1
      BY <1>2, <2>2
    <3> QED BY <1>4, <3>1 DEF Spans
  <2> QED BY <2>1, <2>2
<1>7. \A i \in Recorded(written) : written[i].event.invocationSeq \in 0 .. n - 1
  <2> TAKE i \in Recorded(written)
  <2>1. i \in 1 .. n /\ written[i].event.kind = "usage-recorded"
    BY <1>1 DEF Recorded, At
  <2>2. written[i].event.invocationSeq \in 0 .. i - 1 - 1
    BY <2>1 DEF CallsInv, Accounted
  <2> QED BY <1>2, <2>1, <2>2
<1>8. \E T : States(written) \in Seq(T)
  BY <1>4 DEF Spans
<1> QED BY <1>2, <1>5, <1>6, <1>7, <1>8

\* What projectRunTimeline shows of a run, intact so far, holds of every later
\* reading of it: closed spans stay, the open one only grows, totals, subjects and
\* settled rows only grow, and an outcome once told is the outcome.
THEOREM LaterReadingsExtend == Spec => TimelineOnlyExtends
<1> DEFINE Inv == CallsInv /\ now \in Instant
           Later == log = written /\ log' = written' => LaterReading(Timeline(log), Timeline(log'))
<1>1. Init => Inv
  BY BooksInit DEF BooksInv
<1>2. Inv /\ [Next]_vars => Inv'
  BY CallsStep
<1>3. Inv /\ [Next]_vars => Later
  <2> SUFFICES ASSUME Inv, [Next]_vars, log = written, log' = written'
               PROVE  LaterReading(Timeline(written), Timeline(written'))
    OBVIOUS
  <2> DEFINE s == written
             more == written'
             n == Len(s)
  <2>1. Chained(s) /\ Counts(Costs(s), Recorded(s)) /\ Chained(more)
    BY <1>2, CostsCount DEF CallsInv
  <2>2. PICK S : s \in Seq(S)
    BY <2>1 DEF Chained
  <2>3. PICK T : States(s) \in Seq(T)
    BY IntactFacts
  <2>4. n \in Nat /\ (\A i \in 1 .. n : s[i].seq = i - 1)
        /\ (\A k \in 1 .. Len(States(s)) : IsSpan(States(s)[k], n - 1))
        /\ (\A i \in Recorded(s) : s[i].event.invocationSeq \in 0 .. n - 1)
    BY <2>2, IntactFacts
  <2>5. CASE more = s
    <3>1. Longer(s, s)
      BY <2>2, <2>4 DEF Longer
    <3>2. CostLater(Cost(s), Cost(s))
      BY <2>1, <2>4, <3>1, CostGrows
    <3>3. SpansLater(States(s), States(s))
      <4>1. CASE n = 0
        <5>1. States(s) = <<>> /\ Len(<<>>) = 0
          BY <2>2, <4>1, IntactFacts
        <5> QED BY <5>1 DEF SpansLater
      <4>2. CASE n # 0
        <5> DEFINE entry == [seq |-> n]
        <5>1. n - 1 \in Nat /\ entry.seq \in Nat /\ n - 1 < entry.seq
          BY <2>4, <4>2
        <5> HIDE DEF entry, n
        <5> QED BY <2>3, <2>4, <5>1, SpansGrow
      <4> QED BY <4>1, <4>2
    <3> QED BY <2>1, <2>5, <3>1, <3>2, <3>3, LaterHolds
  <2>6. CASE more # s
    <3>1. PICK event : Write(event) /\ Accounted(written, event, Len(written))
      <4>1. \/ \E event \in Quiet : Log(event)
            \/ \E seq \in 0 .. MaxLog, usage \in Usage :
                  \/ Settle(seq, usage) \/ SettleStray(seq, usage)
                  \/ SettleMisposted(seq, usage) \/ SettleMisdated(seq, usage)
        BY <2>6 DEF Next, vars, SettleUnrecorded, Damage, Tick
      <4>2. CASE \E event \in Quiet : Log(event)
        BY <4>2, ReconciliationAssumption DEF Log, Accounted, Event
      <4>3. ASSUME NEW seq \in 0 .. MaxLog, NEW usage \in Usage,
                   \/ Settle(seq, usage) \/ SettleMisposted(seq, usage) \/ SettleMisdated(seq, usage)
            PROVE  \E event : Write(event) /\ Accounted(written, event, Len(written))
        <5>1. seq \in InvocationSeqs(log) /\ Write(UsageOf(seq, usage, CostOf(seq, usage)))
          BY <4>3 DEF Settle, SettleMisposted, SettleMisdated
        <5> QED BY <5>1, CallCost
      <4>4. ASSUME NEW seq \in 0 .. MaxLog, NEW usage \in Usage, SettleStray(seq, usage)
            PROVE  \E event : Write(event) /\ Accounted(written, event, Len(written))
        <5>1. PICK model \in Model : Write(UsageOf(seq, usage, Priced(usage, model, Price)))
          BY <4>4 DEF SettleStray
        <5>2. seq \in 0 .. Len(log) - 1 /\ seq \notin InvocationSeqs(log)
              /\ Priced(usage, model, Price) \in Nat
          BY <4>4, PriceIsNat DEF SettleStray
        <5> QED BY <5>1, <5>2, StrayCost
      <4> QED BY <4>1, <4>2, <4>3, <4>4
    <3>2. PICK e : more = Append(s, e) /\ e.event = event /\ e.seq = n /\ ~Ended(s)
      BY <3>1 DEF Write, Appended
    <3>3. s \in Seq(S \cup {e}) /\ e \in S \cup {e}
      BY <2>2, SeqMonotonic
    <3>4. /\ more \in Seq(S \cup {e}) /\ Len(more) = n + 1 /\ more[n + 1] = e
          /\ \A i \in 1 .. n : more[i] = s[i]
      BY <3>2, <3>3, AppendProperties
    <3> HIDE DEF more, s
    <3>5. Longer(s, more)
      BY <2>4, <3>3, <3>4 DEF Longer, n
    <3>6. Counts(Costs(more), Recorded(more))
      <4>1. e.event.kind = "usage-recorded" => e.event.costMicros \in Nat
        BY <3>1, <3>2 DEF Accounted
      <4>2. more = Append(s, e)
        BY <3>2
      <4>3. Counts(Costs(Append(s, e)), Recorded(Append(s, e)))
        BY <2>1, <3>3, <4>1, MeteredMore
      <4> QED BY ONLY <4>2, <4>3
    <3>7. \A i \in 1 .. Len(more) : more[i].seq = i - 1
      <4>1. ASSUME NEW i \in 1 .. n + 1 PROVE more[i].seq = i - 1
        BY <2>4, <3>2, <3>4 DEF n
      <4> QED BY <3>4, <4>1
    <3>8. CostLater(Cost(s), Cost(more))
      BY <2>4, <3>5, <3>6, <3>7, CostGrows DEF n
    <3>9. SpansLater(States(s), States(more))
      <4>1. PICK state : States(more) = States(s) \/ States(more) = Extended(States(s), state, e)
        <5>1. \E state : States(Append(s, e)) \in {States(s), Extended(States(s), state, e)}
          BY <3>3, StatesMore
        <5>2. more = Append(s, e)
          BY <3>2
        <5>3. \E state : States(more) \in {States(s), Extended(States(s), state, e)}
          BY ONLY <5>1, <5>2
        <5> QED BY <5>3
      <4>2. CASE n = 0
        <5>1. States(s) = <<>> /\ Len(<<>>) = 0
          BY <2>2, <4>2, IntactFacts DEF s, n
        <5> QED BY <5>1 DEF SpansLater
      <4>3. CASE n # 0
        <5>1. n - 1 \in Nat /\ e.seq \in Nat /\ n - 1 < e.seq
          BY <2>4, <3>2, <4>3
        <5> HIDE DEF n
        <5> QED BY <2>3, <2>4, <4>1, <5>1, SpansGrow
      <4> QED BY <4>2, <4>3
    <3>10. LaterReading(Timeline(s), Timeline(more))
      BY <2>1, <3>2, <3>5, <3>8, <3>9, LaterHolds
    <3> QED BY <3>10 DEF s, more
  <2> QED BY <2>5, <2>6
<1>4. Spec => [][Later]_vars
  <2> HIDE DEF Inv, Later
  <2> QED BY <1>1, <1>2, <1>3, PTL DEF Spec
<1> QED BY <1>4 DEF TimelineOnlyExtends

=============================================================================
