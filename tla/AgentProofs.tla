---------------------------- MODULE AgentProofs ----------------------------
(***************************************************************************)
(* What a run leaves behind and what it tells, for any tools, findings,    *)
(* costs and limits, wherever the process dies or the store fails; and     *)
(* what its tools ask, touch and report, for any hosts, policies, paths    *)
(* and number of calls under way.                                          *)
(*                                                                         *)
(* The argument about the loop: between turns the store holds the whole    *)
(* log, and within one the log gains one charge and at most one tool call; *)
(* the counters of the loop are what the log says of turns and charges;    *)
(* and what a tool owned up to is in the log, or in the result about to be *)
(* logged.  About the tools: everything a call does is decided by the call *)
(* alone, so that it is enough to say, phase by phase, when one is sound.  *)
(***************************************************************************)
EXTENDS AgentRun, Toolbox, SequenceTheorems, FiniteSetTheorems, WellFoundedInduction, TLAPS

\* A turn that was served and has not come to its end.
InTurn == {"parsing", "approving", "denying", "executing", "returning"}

\* Rows that say what a log says.
Says(stored, entries) ==
    /\ Len(stored) <= Len(entries)
    /\ \A i \in 1 .. Len(stored) : stored[i] = RowOf(entries, i)

\* The store has the beginning of the log, and between turns all of it.
Stored ==
    /\ Says(rows, log)
    /\ pc \in {"start", "turn"} => Len(rows) = Len(log)

\* What the store misses is of one turn.
Unsaved(kind) == {k \in At(log, kind) : k > Len(rows)}

OneTurn ==
    /\ \A kind \in {"usage-recorded", "tool-called"} : \A i, j \in Unsaved(kind) : i = j
    /\ pc \in InTurn \cup {"closing"} => Unsaved("tool-called") = {}

\* A run has no end before it has ended, and means to record what it means to tell.
Ends ==
    /\ pc # "ended" => At(log, "run-finished") = {}
    /\ pc = "closing" => ending.outcome = Meaning(ending.copy)
    /\ pc = "start" => log = <<>>
    /\ told # None => pc = "ended"
    /\ ToldIsRecorded

\* The counters of the loop are what the log says.
Verifiable == \A j \in At(log, "tool-called") : log[j].status = "succeeded"

Limited ==
    /\ StopsAtItsLimits
    /\ pc \in {"start", "turn", "persisting"} =>
          /\ Cardinality(At(log, "usage-recorded")) = state.iteration
          /\ Metered(log) = state.cost
          /\ state.verified => Verifiable
    /\ pc \in InTurn =>
          /\ Cardinality(At(log, "usage-recorded")) = state.iteration + 1
          /\ Metered(log) = state.cost + cost
          /\ Verifiable

\* What a tool owned up to is in the log or about to be.
Owned ==
    /\ pc \notin {"returning", "crashed"} => reported \subseteq CommittedIn(log)
    /\ pc = "returning" =>
          /\ reported \subseteq CommittedIn(log) \cup result.committed
          /\ ~result.ok => result.committed = {}
    /\ pc = "ended" /\ ~storeFailed => Len(rows) = Len(log)

IInv == TypeOK /\ Stored /\ OneTurn /\ Ends /\ Limited /\ RailHolds /\ Owned
-----------------------------------------------------------------------------
(* What a fold over a log or over findings gives, entry by entry.           *)

\* Induction over the naturals, for the set of the numbers a claim holds of.
LEMMA SetInduction ==
    ASSUME NEW S, 0 \in S, \A n \in Nat : n \in S => n + 1 \in S
    PROVE  Nat \subseteq S
<1> SUFFICES ASSUME Nat \ S # {} PROVE FALSE
  OBVIOUS
<1> DEFINE R == OpToRel(<, Nat)
           U == Nat \ S
<1>1. IsWellFoundedOn(R, Nat)
  BY NatLessThanWellFounded
<1>2. \E x \in U : \A y \in U : <<y, x>> \notin R
  <2>1. U \subseteq Nat /\ U # {}
    OBVIOUS
  <2> HIDE DEF R, U
  <2> QED BY <1>1, <2>1, WFMin
<1>3. PICK x \in Nat \ S : \A y \in Nat \ S : ~(y < x)
  BY <1>2 DEF OpToRel
<1>4. x # 0 /\ x - 1 \in Nat /\ (x - 1) + 1 = x /\ x - 1 < x
  OBVIOUS
<1> QED BY <1>3, <1>4

\* The folds of the loop and of the tools.
Folding(fold, sofar, e) ==
    CASE fold = "charge" -> Charging(sofar, e)
      [] fold = "block"  -> Blocking(sofar, e)
      [] fold = "admit"  -> Admitting(sofar, e)
      [] fold = "enter"  -> Entering(sofar, e)
      [] fold = "join"   -> sofar \o e
      [] fold = "walk"   -> Walking(sofar, e)

Base(fold) == IF fold = "charge" THEN 0 ELSE <<>>

\* The function by which a fold reads the entries of s at a set of positions.
Reads(fold, g, n, s) ==
    g = [u \in SUBSET (1 .. n) |->
           IF u = {} THEN Base(fold) ELSE Folding(fold, g[u \ {Max(u)}], s[Max(u)])]

\* The greatest position is the last.
LEMMA MaxIsLast ==
    ASSUME NEW n \in Nat, NEW u \in SUBSET (1 .. n + 1), n + 1 \in u
    PROVE  Max(u) = n + 1
<1>1. \A y \in u : n + 1 >= y
  OBVIOUS
<1>2. \A x \in u : (\A y \in u : x >= y) => x = n + 1
  <2> TAKE x \in u
  <2>1. x \in 1 .. n + 1
    OBVIOUS
  <2> QED BY <2>1
<1> QED BY <1>1, <1>2 DEF Max

\* There is such a function.
LEMMA ReadsExists == ASSUME NEW fold, NEW s, NEW m \in Nat PROVE \E g : Reads(fold, g, m, s)
<1> DEFINE S == {n \in Nat : \E g : Reads(fold, g, n, s)}
<1>1. 0 \in S
  <2> DEFINE g == [u \in SUBSET (1 .. 0) |-> Base(fold)]
  <2>1. \A u \in SUBSET (1 .. 0) : u = {}
    OBVIOUS
  <2>2. Reads(fold, g, 0, s)
    BY <2>1 DEF Reads
  <2> QED BY <2>2
<1>2. ASSUME NEW n \in Nat, n \in S PROVE n + 1 \in S
  <2>1. PICK g : Reads(fold, g, n, s)
    BY <1>2
  <2> DEFINE next(u) == IF n + 1 \in u THEN Folding(fold, g[u \ {n + 1}], s[n + 1]) ELSE g[u]
             h == [u \in SUBSET (1 .. n + 1) |-> next(u)]
             read(u) == IF u = {} THEN Base(fold)
                                  ELSE Folding(fold, h[u \ {Max(u)}], s[Max(u)])
  <2>2. \A u \in SUBSET (1 .. n) : u \in SUBSET (1 .. n + 1) /\ n + 1 \notin u /\ h[u] = g[u]
    OBVIOUS
  <2>3. ASSUME NEW u \in SUBSET (1 .. n + 1) PROVE next(u) = read(u)
    <3>1. CASE n + 1 \in u
      <4>1. Max(u) = n + 1 /\ u # {}
        BY <3>1, MaxIsLast
      <4>2. u \ {n + 1} \in SUBSET (1 .. n)
        OBVIOUS
      <4>3. h[u \ {n + 1}] = g[u \ {n + 1}]
        BY <2>2, <4>2
      <4> QED BY <3>1, <4>1, <4>3
    <3>2. CASE n + 1 \notin u
      <4>0. \A x \in u : x \in 1 .. n
        BY <3>2
      <4>1. u \in SUBSET (1 .. n) /\ u \ {Max(u)} \in SUBSET (1 .. n)
        BY <4>0
      <4>2. g[u] = IF u = {} THEN Base(fold) ELSE Folding(fold, g[u \ {Max(u)}], s[Max(u)])
        BY <2>1, <4>1 DEF Reads
      <4>3. h[u \ {Max(u)}] = g[u \ {Max(u)}]
        BY <2>2, <4>1
      <4> QED BY <3>2, <4>2, <4>3
    <3> QED BY <3>1, <3>2
  <2>4. h = [u \in SUBSET (1 .. n + 1) |-> read(u)]
    BY <2>3
  <2>5. Reads(fold, h, n + 1, s)
    BY <2>4 DEF Reads
  <2> QED BY <2>5
<1>3. Nat \subseteq S
  <2> HIDE DEF S
  <2> QED BY <1>1, <1>2, SetInduction
<1> QED BY <1>3

\* The last of some entries is read after the others.
LEMMA ReadsLast ==
    ASSUME NEW fold, NEW s, NEW m \in Nat, NEW g, Reads(fold, g, m, s), NEW k \in Nat, k + 1 <= m
    PROVE  g[1 .. k + 1] = Folding(fold, g[1 .. k], s[k + 1])
<1> DEFINE u == 1 .. k + 1
<1>1. u \in SUBSET (1 .. m) /\ k + 1 \in u /\ u # {} /\ u \ {k + 1} = 1 .. k
  OBVIOUS
<1>2. Max(u) = k + 1
  BY <1>1, MaxIsLast
<1> HIDE DEF u
<1>3. g[u] = IF u = {} THEN Base(fold) ELSE Folding(fold, g[u \ {Max(u)}], s[Max(u)])
  BY <1>1 DEF Reads
<1>4. g[u] = Folding(fold, g[1 .. k], s[k + 1])
  BY <1>1, <1>2, <1>3
<1> QED BY <1>4 DEF u

\* The entries up to a position are read the same way in a longer sequence.
LEMMA ReadsAgree ==
    ASSUME NEW fold, NEW s, NEW t, NEW n \in Nat, NEW m \in Nat, n <= m,
           \A i \in 1 .. n : s[i] = t[i],
           NEW g, Reads(fold, g, n, s), NEW h, Reads(fold, h, m, t)
    PROVE  \A k \in 0 .. n : g[1 .. k] = h[1 .. k]
<1> DEFINE S == {k \in Nat : k <= n => g[1 .. k] = h[1 .. k]}
<1>1. 0 \in S
  <2>1. 1 .. 0 = {} /\ {} \in SUBSET (1 .. n) /\ {} \in SUBSET (1 .. m)
    OBVIOUS
  <2>2. g[{}] = Base(fold) /\ h[{}] = Base(fold)
    BY <2>1 DEF Reads
  <2> QED BY <2>1, <2>2
<1>2. ASSUME NEW k \in Nat, k \in S PROVE k + 1 \in S
  <2> SUFFICES ASSUME k + 1 <= n PROVE g[1 .. k + 1] = h[1 .. k + 1]
    OBVIOUS
  <2>1. k + 1 <= m /\ k + 1 \in 1 .. n
    OBVIOUS
  <2>4. g[1 .. k + 1] = Folding(fold, g[1 .. k], s[k + 1])
    <3>1. Reads(fold, g, n, s) /\ k + 1 <= n
      OBVIOUS
    <3> HIDE DEF S
    <3> QED BY <3>1, ReadsLast
  <2>5. h[1 .. k + 1] = Folding(fold, h[1 .. k], t[k + 1])
    BY <2>1, ReadsLast
  <2>6. g[1 .. k] = h[1 .. k] /\ s[k + 1] = t[k + 1]
    BY <1>2, <2>1
  <2> QED BY <2>4, <2>5, <2>6
<1>3. Nat \subseteq S
  <2> HIDE DEF S
  <2> QED BY <1>1, <1>2, SetInduction
<1> QED BY <1>3

\* What is read of no entries, and of one more.
LEMMA ReadsMore ==
    ASSUME NEW fold, NEW S, NEW s \in Seq(S), NEW e \in S,
           NEW g, Reads(fold, g, Len(s), s),
           NEW h, Reads(fold, h, Len(Append(s, e)), Append(s, e))
    PROVE  h[1 .. Len(Append(s, e))] = Folding(fold, g[1 .. Len(s)], e)
<1> DEFINE n == Len(s)
           t == Append(s, e)
<1>1. /\ n \in Nat /\ Len(t) = n + 1 /\ t[n + 1] = e
      /\ \A i \in 1 .. n : s[i] = t[i]
  BY AppendProperties
<1> HIDE DEF n, t
<1>2. Reads(fold, g, n, s) /\ Reads(fold, h, n + 1, t)
  BY <1>1 DEF n, t
<1>3. g[1 .. n] = h[1 .. n]
  <2>1. n <= n + 1 /\ n \in 0 .. n /\ n + 1 \in Nat
    BY <1>1
  <2>2. \A k \in 0 .. n : g[1 .. k] = h[1 .. k]
    BY <1>1, <1>2, <2>1, ReadsAgree
  <2> QED BY <2>1, <2>2
<1>4. h[1 .. n + 1] = Folding(fold, h[1 .. n], t[n + 1])
  <2>1. n + 1 <= n + 1 /\ n + 1 \in Nat
    BY <1>1
  <2> QED BY <1>1, <1>2, <2>1, ReadsLast
<1> QED BY <1>1, <1>3, <1>4 DEF n, t

\* What is read of no entries.
LEMMA ReadsNone ==
    ASSUME NEW fold, NEW g, Reads(fold, g, Len(<<>>), <<>>)
    PROVE  g[1 .. Len(<<>>)] = Base(fold)
<1>1. Len(<<>>) = 0 /\ 1 .. 0 = {} /\ {} \in SUBSET (1 .. 0)
  OBVIOUS
<1> QED BY <1>1 DEF Reads

\* Nothing is metered of an empty log, and an entry more adds its charge.
LEMMA MeteredFacts ==
    /\ Metered(<<>>) = 0
    /\ \A s \in Seq(LogEntry), e \in LogEntry :
          Metered(Append(s, e)) = Charging(Metered(s), e)
<1> DEFINE read(s) == CHOOSE g : Reads("charge", g, Len(s), s)
<1>1. ASSUME NEW s \in Seq(LogEntry)
      PROVE  Reads("charge", read(s), Len(s), s) /\ Metered(s) = read(s)[1 .. Len(s)]
  <2>1. Len(s) \in Nat /\ DOMAIN s = 1 .. Len(s)
    OBVIOUS
  <2>2. \E g : Reads("charge", g, Len(s), s)
    BY <2>1, ReadsExists
  <2>3. Metered(s) = read(s)[1 .. Len(s)]
    BY <2>1 DEF Metered, FoldLeft, MapThenFoldSet, Reads, Folding, Base
  <2> QED BY <2>2, <2>3
<1> HIDE DEF read
<1>2. Metered(<<>>) = 0
  <2>1. <<>> \in Seq(LogEntry)
    OBVIOUS
  <2> QED BY <1>1, <2>1, ReadsNone DEF Base
<1>3. ASSUME NEW s \in Seq(LogEntry), NEW e \in LogEntry
      PROVE  Metered(Append(s, e)) = Charging(Metered(s), e)
  <2>1. Append(s, e) \in Seq(LogEntry)
    OBVIOUS
  <2>2. /\ Reads("charge", read(s), Len(s), s)
        /\ Reads("charge", read(Append(s, e)), Len(Append(s, e)), Append(s, e))
        /\ Metered(s) = read(s)[1 .. Len(s)]
        /\ Metered(Append(s, e)) = read(Append(s, e))[1 .. Len(Append(s, e))]
    BY <1>1, <2>1
  <2>3. Metered(Append(s, e)) = Folding("charge", Metered(s), e)
    BY <2>2, ReadsMore
  <2> QED BY <2>3 DEF Folding
<1> QED BY <1>2, <1>3

\* The rail blocks nothing of no findings, and of one more what is poisoned.
LEMMA BlockedFacts ==
    /\ Blocked(<<>>) = <<>>
    /\ \A s \in Seq(Chunk), e \in Chunk :
          Blocked(Append(s, e)) = Blocking(Blocked(s), e)
<1> DEFINE read(s) == CHOOSE g : Reads("block", g, Len(s), s)
<1>1. ASSUME NEW s \in Seq(Chunk)
      PROVE  Reads("block", read(s), Len(s), s) /\ Blocked(s) = read(s)[1 .. Len(s)]
  <2>1. Len(s) \in Nat /\ DOMAIN s = 1 .. Len(s)
    OBVIOUS
  <2>2. \E g : Reads("block", g, Len(s), s)
    BY <2>1, ReadsExists
  <2>3. Blocked(s) = read(s)[1 .. Len(s)]
    BY <2>1 DEF Blocked, FoldLeft, MapThenFoldSet, Reads, Folding, Base
  <2> QED BY <2>2, <2>3
<1> HIDE DEF read
<1>2. Blocked(<<>>) = <<>>
  <2>1. <<>> \in Seq(Chunk)
    OBVIOUS
  <2> QED BY <1>1, <2>1, ReadsNone DEF Base
<1>3. ASSUME NEW s \in Seq(Chunk), NEW e \in Chunk
      PROVE  Blocked(Append(s, e)) = Blocking(Blocked(s), e)
  <2>1. Append(s, e) \in Seq(Chunk)
    OBVIOUS
  <2>2. /\ Reads("block", read(s), Len(s), s)
        /\ Reads("block", read(Append(s, e)), Len(Append(s, e)), Append(s, e))
        /\ Blocked(s) = read(s)[1 .. Len(s)]
        /\ Blocked(Append(s, e)) = read(Append(s, e))[1 .. Len(Append(s, e))]
    BY <1>1, <2>1
  <2>3. Blocked(Append(s, e)) = Folding("block", Blocked(s), e)
    BY <2>2, ReadsMore
  <2> QED BY <2>3 DEF Folding
<1> QED BY <1>2, <1>3

\* The rail admits nothing of no findings, and of one more what is clean.
LEMMA AdmittedFacts ==
    /\ Admitted(<<>>) = <<>>
    /\ \A s \in Seq(Chunk), e \in Chunk :
          Admitted(Append(s, e)) = Admitting(Admitted(s), e)
<1> DEFINE read(s) == CHOOSE g : Reads("admit", g, Len(s), s)
<1>1. ASSUME NEW s \in Seq(Chunk)
      PROVE  Reads("admit", read(s), Len(s), s) /\ Admitted(s) = read(s)[1 .. Len(s)]
  <2>1. Len(s) \in Nat /\ DOMAIN s = 1 .. Len(s)
    OBVIOUS
  <2>2. \E g : Reads("admit", g, Len(s), s)
    BY <2>1, ReadsExists
  <2>3. Admitted(s) = read(s)[1 .. Len(s)]
    BY <2>1 DEF Admitted, FoldLeft, MapThenFoldSet, Reads, Folding, Base
  <2> QED BY <2>2, <2>3
<1> HIDE DEF read
<1>2. Admitted(<<>>) = <<>>
  <2>1. <<>> \in Seq(Chunk)
    OBVIOUS
  <2> QED BY <1>1, <2>1, ReadsNone DEF Base
<1>3. ASSUME NEW s \in Seq(Chunk), NEW e \in Chunk
      PROVE  Admitted(Append(s, e)) = Admitting(Admitted(s), e)
  <2>1. Append(s, e) \in Seq(Chunk)
    OBVIOUS
  <2>2. /\ Reads("admit", read(s), Len(s), s)
        /\ Reads("admit", read(Append(s, e)), Len(Append(s, e)), Append(s, e))
        /\ Admitted(s) = read(s)[1 .. Len(s)]
        /\ Admitted(Append(s, e)) = read(Append(s, e))[1 .. Len(Append(s, e))]
    BY <1>1, <2>1
  <2>3. Admitted(Append(s, e)) = Folding("admit", Admitted(s), e)
    BY <2>2, ReadsMore
  <2> QED BY <2>3 DEF Folding
<1> QED BY <1>2, <1>3

\* What a fold makes of a sequence.
Read(fold, s) == (CHOOSE g : Reads(fold, g, Len(s), s))[1 .. Len(s)]

\* The same, of no entries and of one more.
LEMMA ReadFacts ==
    ASSUME NEW fold, NEW S
    PROVE  /\ Read(fold, <<>>) = Base(fold)
           /\ \A s \in Seq(S), e \in S : Read(fold, Append(s, e)) = Folding(fold, Read(fold, s), e)
<1> DEFINE read(s) == CHOOSE g : Reads(fold, g, Len(s), s)
<1>1. ASSUME NEW s \in Seq(S)
      PROVE  Reads(fold, read(s), Len(s), s) /\ Read(fold, s) = read(s)[1 .. Len(s)]
  <2>1. Len(s) \in Nat
    OBVIOUS
  <2>2. \E g : Reads(fold, g, Len(s), s)
    BY <2>1, ReadsExists
  <2>3. Read(fold, s) = read(s)[1 .. Len(s)]
    BY DEF Read
  <2> QED BY <2>2, <2>3
<1> HIDE DEF read
<1>2. Read(fold, <<>>) = Base(fold)
  <2>1. <<>> \in Seq(S)
    OBVIOUS
  <2> QED BY <1>1, <2>1, ReadsNone
<1>3. ASSUME NEW s \in Seq(S), NEW e \in S
      PROVE  Read(fold, Append(s, e)) = Folding(fold, Read(fold, s), e)
  <2>1. Append(s, e) \in Seq(S)
    OBVIOUS
  <2>2. /\ Reads(fold, read(s), Len(s), s)
        /\ Reads(fold, read(Append(s, e)), Len(Append(s, e)), Append(s, e))
        /\ Read(fold, s) = read(s)[1 .. Len(s)]
        /\ Read(fold, Append(s, e)) = read(Append(s, e))[1 .. Len(Append(s, e))]
    BY <1>1, <2>1
  <2> QED BY <2>2, ReadsMore
<1> QED BY <1>2, <1>3

-----------------------------------------------------------------------------
(* What a longer log has in common with a shorter one.                      *)

GrewBy(old, new, kinds) ==
    /\ new \in Seq(LogEntry) /\ Len(old) <= Len(new)
    /\ \A i \in 1 .. Len(old) : new[i] = old[i]
    /\ \A i \in Len(old) + 1 .. Len(new) : new[i].kind \in kinds

\* A sequence is its front and its last element.
LEMMA FrontFacts ==
    ASSUME NEW S, NEW n \in Nat, NEW s \in Seq(S), Len(s) = n + 1
    PROVE  /\ SubSeq(s, 1, n) \in Seq(S) /\ Len(SubSeq(s, 1, n)) = n
           /\ \A i \in 1 .. n : SubSeq(s, 1, n)[i] = s[i]
           /\ s[n + 1] \in S
           /\ s = Append(SubSeq(s, 1, n), s[n + 1])
<1> DEFINE front == SubSeq(s, 1, n)
<1>1. \A i \in 1 .. n : s[i] \in S
  BY ElementOfSeq
<1>2. front \in Seq(S) /\ Len(front) = n /\ \A i \in 1 .. n : front[i] = s[i]
  BY <1>1, SubSeqProperties
<1>3. s[n + 1] \in S
  BY ElementOfSeq
<1> HIDE DEF front
<1>4. /\ Append(front, s[n + 1]) \in Seq(S) /\ Len(Append(front, s[n + 1])) = n + 1
      /\ \A i \in 1 .. n : Append(front, s[n + 1])[i] = front[i]
      /\ Append(front, s[n + 1])[n + 1] = s[n + 1]
  BY <1>2, <1>3, AppendProperties
<1>5. \A i \in 1 .. Len(s) : s[i] = Append(front, s[n + 1])[i]
  BY <1>2, <1>4
<1>6. s = Append(front, s[n + 1])
  BY <1>4, <1>5, SeqEqual
<1> QED BY <1>2, <1>3, <1>6 DEF front

\* A beginning of a sequence.
LEMMA BeginningFacts ==
    ASSUME NEW S, NEW s \in Seq(S), NEW n \in 0 .. Len(s)
    PROVE  /\ SubSeq(s, 1, n) \in Seq(S) /\ Len(SubSeq(s, 1, n)) = n
           /\ \A i \in 1 .. n : SubSeq(s, 1, n)[i] = s[i]
<1>1. Len(s) \in Nat /\ \A i \in 1 .. n : s[i] \in S
  BY LenProperties, ElementOfSeq
<1> QED BY <1>1, SubSeqProperties

\* One entry more.
LEMMA GrewByOne ==
    ASSUME NEW old \in Seq(LogEntry), NEW e \in LogEntry
    PROVE  GrewBy(old, Append(old, e), {e.kind})
<1>1. /\ Len(old) \in Nat
      /\ Append(old, e) \in Seq(LogEntry) /\ Len(Append(old, e)) = Len(old) + 1
      /\ \A i \in 1 .. Len(old) : Append(old, e)[i] = old[i]
      /\ Append(old, e)[Len(old) + 1] = e
  BY AppendProperties
<1> QED BY <1>1 DEF GrewBy

\* What a log begins with stays its beginning.
LEMMA GrewBeginning ==
    ASSUME NEW old \in Seq(LogEntry), NEW new, NEW kinds, GrewBy(old, new, kinds),
           NEW n \in 0 .. Len(old)
    PROVE  SubSeq(new, 1, n) = SubSeq(old, 1, n)
<1>1. Len(old) \in Nat /\ new \in Seq(LogEntry) /\ n \in 0 .. Len(new)
  BY LenProperties DEF GrewBy
<1>2. /\ SubSeq(new, 1, n) \in Seq(LogEntry) /\ Len(SubSeq(new, 1, n)) = n
      /\ \A i \in 1 .. n : SubSeq(new, 1, n)[i] = new[i]
  BY <1>1, BeginningFacts
<1>3. /\ SubSeq(old, 1, n) \in Seq(LogEntry) /\ Len(SubSeq(old, 1, n)) = n
      /\ \A i \in 1 .. n : SubSeq(old, 1, n)[i] = old[i]
  BY BeginningFacts
<1>4. \A i \in 1 .. n : SubSeq(new, 1, n)[i] = SubSeq(old, 1, n)[i]
  BY <1>1, <1>2, <1>3 DEF GrewBy
<1> QED BY <1>2, <1>3, <1>4, SeqEqual

\* Positions of a kind are finitely many, and an entry more is one at its end.
LEMMA AtFacts ==
    ASSUME NEW s \in Seq(LogEntry), NEW kind
    PROVE  /\ IsFiniteSet(At(s, kind)) /\ Cardinality(At(s, kind)) \in Nat
           /\ \A i \in At(s, kind) : i \in 1 .. Len(s) /\ s[i] \in LogEntry /\ s[i].kind = kind
<1>1. Len(s) \in Nat /\ At(s, kind) \subseteq 1 .. Len(s)
  BY LenProperties DEF At
<1>2. IsFiniteSet(1 .. Len(s))
  BY <1>1, FS_Interval
<1>3. IsFiniteSet(At(s, kind)) /\ Cardinality(At(s, kind)) \in Nat
  BY <1>1, <1>2, FS_Subset, FS_CardinalityType
<1> QED BY <1>3, ElementOfSeq DEF At

\* A kind that was not added stands where it stood.
LEMMA GrewAt ==
    ASSUME NEW old \in Seq(LogEntry), NEW new, NEW kinds, GrewBy(old, new, kinds),
           NEW kind, kind \notin kinds
    PROVE  At(new, kind) = At(old, kind)
<1>1. Len(old) \in Nat /\ Len(new) \in Nat /\ Len(old) <= Len(new)
  BY LenProperties DEF GrewBy
<1>2. \A i \in 1 .. Len(new) : i \in 1 .. Len(old) \/ i \in Len(old) + 1 .. Len(new)
  BY <1>1
<1>3. \A i \in 1 .. Len(old) : i \in 1 .. Len(new)
  BY <1>1
<1> QED BY <1>2, <1>3 DEF At, GrewBy

\* Any kind still stands where it stood.
LEMMA GrewKeeps ==
    ASSUME NEW old \in Seq(LogEntry), NEW new, NEW kinds, GrewBy(old, new, kinds), NEW kind
    PROVE  /\ At(old, kind) \subseteq At(new, kind)
           /\ \A i \in At(new, kind) : i \in At(old, kind) \/ (i > Len(old) /\ kind \in kinds)
           /\ \A i \in At(old, kind) : new[i] = old[i]
<1>1. Len(old) \in Nat /\ Len(new) \in Nat /\ Len(old) <= Len(new)
  BY LenProperties DEF GrewBy
<1>2. \A i \in 1 .. Len(new) : i \in 1 .. Len(old) \/ (i \in Len(old) + 1 .. Len(new) /\ i > Len(old))
  BY <1>1
<1>3. \A i \in 1 .. Len(old) : i \in 1 .. Len(new)
  BY <1>1
<1> QED BY <1>2, <1>3 DEF At, GrewBy

\* An entry of a kind adds its position.
LEMMA AtAppend ==
    ASSUME NEW s \in Seq(LogEntry), NEW e \in LogEntry
    PROVE  /\ At(Append(s, e), e.kind) = At(s, e.kind) \cup {Len(s) + 1}
           /\ Cardinality(At(Append(s, e), e.kind)) = Cardinality(At(s, e.kind)) + 1
<1>1. /\ Len(s) \in Nat
      /\ Append(s, e) \in Seq(LogEntry) /\ Len(Append(s, e)) = Len(s) + 1
      /\ \A i \in 1 .. Len(s) : Append(s, e)[i] = s[i]
      /\ Append(s, e)[Len(s) + 1] = e
  BY AppendProperties
<1>2. 1 .. Len(s) + 1 = (1 .. Len(s)) \cup {Len(s) + 1} /\ Len(s) + 1 \notin 1 .. Len(s)
  BY <1>1
<1>3. At(Append(s, e), e.kind) = At(s, e.kind) \cup {Len(s) + 1}
  BY <1>1, <1>2 DEF At
<1>4. IsFiniteSet(At(s, e.kind)) /\ Len(s) + 1 \notin At(s, e.kind)
  BY <1>2, AtFacts
<1> QED BY <1>3, <1>4, FS_AddElement

\* What is metered is a number, ...
LEMMA MeteredType == \A s \in Seq(LogEntry) : Metered(s) \in Nat
<1> DEFINE S == {n \in Nat : \A s \in Seq(LogEntry) : Len(s) = n => Metered(s) \in Nat}
<1>1. 0 \in S
  <2>1. \A s \in Seq(LogEntry) : Len(s) = 0 => s = <<>>
    BY EmptySeq
  <2> QED BY <2>1, MeteredFacts
<1>2. ASSUME NEW n \in Nat, n \in S PROVE n + 1 \in S
  <2> SUFFICES ASSUME NEW s \in Seq(LogEntry), Len(s) = n + 1 PROVE Metered(s) \in Nat
    OBVIOUS
  <2> DEFINE front == SubSeq(s, 1, n)
             e == s[n + 1]
  <2>1. front \in Seq(LogEntry) /\ Len(front) = n /\ e \in LogEntry /\ s = Append(front, e)
    BY FrontFacts
  <2>2. Metered(front) \in Nat
    BY <1>2, <2>1
  <2>3. e.kind = "usage-recorded" => e.cost \in Nat
    BY <2>1, RunAssumption DEF LogEntry
  <2>4. Metered(s) = Charging(Metered(front), e)
    BY <2>1, MeteredFacts
  <2> HIDE DEF front, e
  <2> QED BY <2>2, <2>3, <2>4 DEF Charging
<1>3. Nat \subseteq S
  <2> HIDE DEF S
  <2> QED BY <1>1, <1>2, SetInduction
<1> QED BY <1>3, LenProperties

\* ... and stays what it was while nothing is charged.
LEMMA GrewMetered ==
    ASSUME NEW old \in Seq(LogEntry), NEW new, NEW kinds, GrewBy(old, new, kinds),
           "usage-recorded" \notin kinds
    PROVE  Metered(new) = Metered(old)
<1> DEFINE S == {n \in Nat : \A s : GrewBy(old, s, kinds) /\ Len(s) = n => Metered(s) = Metered(old)}
<1>0. Len(old) \in Nat
  BY LenProperties
<1>1. ASSUME NEW s, GrewBy(old, s, kinds), Len(s) = Len(old) PROVE Metered(s) = Metered(old)
  <2>1. s = old
    BY <1>1, SeqEqual DEF GrewBy
  <2> QED BY <2>1
<1>2. 0 \in S
  <2> SUFFICES ASSUME NEW s, GrewBy(old, s, kinds), Len(s) = 0 PROVE Metered(s) = Metered(old)
    OBVIOUS
  <2>1. Len(s) = Len(old)
    BY <1>0 DEF GrewBy
  <2> QED BY <1>1, <2>1
<1>3. ASSUME NEW n \in Nat, n \in S PROVE n + 1 \in S
  <2> SUFFICES ASSUME NEW s, GrewBy(old, s, kinds), Len(s) = n + 1, Len(s) # Len(old)
               PROVE  Metered(s) = Metered(old)
    BY <1>1
  <2> DEFINE front == SubSeq(s, 1, n)
             e == s[n + 1]
  <2>1. /\ front \in Seq(LogEntry) /\ Len(front) = n /\ e \in LogEntry /\ s = Append(front, e)
        /\ \A i \in 1 .. n : front[i] = s[i]
    BY FrontFacts DEF GrewBy
  <2> HIDE DEF front
  <2>2. Len(old) <= n
    BY <1>0 DEF GrewBy
  <2>3. GrewBy(old, front, kinds)
    BY <1>0, <2>1, <2>2 DEF GrewBy
  <2>4. e.kind \in kinds
    BY <1>0, <2>2 DEF GrewBy
  <2> HIDE DEF e
  <2>5. Metered(front) = Metered(old)
    BY <1>3, <2>1, <2>3
  <2> QED BY <2>1, <2>4, <2>5, MeteredFacts DEF Charging
<1>4. Nat \subseteq S
  <2> HIDE DEF S
  <2> QED BY <1>2, <1>3, SetInduction
<1>5. new \in Seq(LogEntry) /\ Len(new) \in Nat
  BY LenProperties DEF GrewBy
<1> QED BY <1>4, <1>5

\* What was committed stays on record.
LEMMA GrewCommitted ==
    ASSUME NEW old \in Seq(LogEntry), NEW new, NEW kinds, GrewBy(old, new, kinds)
    PROVE  CommittedIn(old) \subseteq CommittedIn(new)
BY GrewKeeps DEF CommittedIn

\* One entry of a tool call adds what it committed.
LEMMA CommittedMore ==
    ASSUME NEW old \in Seq(LogEntry), NEW e \in LogEntry, e.kind = "tool-called"
    PROVE  CommittedIn(Append(old, e)) = CommittedIn(old) \cup e.committed
<1> DEFINE new == Append(old, e)
<1>1. At(new, "tool-called") = At(old, "tool-called") \cup {Len(old) + 1} /\ new[Len(old) + 1] = e
  BY AtAppend, AppendProperties
<1>2. \A i \in At(old, "tool-called") : new[i] = old[i]
  BY GrewByOne, GrewKeeps
<1> QED BY <1>1, <1>2 DEF CommittedIn
-----------------------------------------------------------------------------
(* What the store makes of a log.                                           *)

\* The row of an entry is a row, and it is the same in a longer log.
LEMMA RowFacts ==
    ASSUME NEW entries \in Seq(LogEntry), NEW i \in 1 .. Len(entries)
    PROVE  /\ RowOf(entries, i) \in Row /\ RowOf(entries, i) # LostRow
           /\ RowOf(entries, i).body = entries[i]
           /\ RowOf(entries, i).previousHash = SubSeq(entries, 1, i - 1)
           /\ RowOf(entries, i).hash = SubSeq(entries, 1, i)
<1>1. Len(entries) \in Nat /\ i - 1 \in 0 .. Len(entries) /\ i \in 0 .. Len(entries)
  BY LenProperties
<1>2. SubSeq(entries, 1, i - 1) \in Seq(LogEntry) /\ SubSeq(entries, 1, i) \in Seq(LogEntry)
  BY <1>1, BeginningFacts
<1>3. entries[i] \in LogEntry
  BY ElementOfSeq
<1>4. RowOf(entries, i) \in Row
  BY <1>2, <1>3 DEF RowOf, Row
<1> QED BY <1>4, RunAssumption DEF RowOf

\* What the rows of a log say, those of a longer log say too.
LEMMA SaysMore ==
    ASSUME NEW old \in Seq(LogEntry), NEW new, NEW kinds, GrewBy(old, new, kinds),
           NEW stored \in Seq(Row), Says(stored, old)
    PROVE  Says(stored, new)
<1>1. Len(old) \in Nat /\ Len(stored) \in Nat /\ Len(new) \in Nat
  BY LenProperties DEF GrewBy
<1>2. ASSUME NEW i \in 1 .. Len(stored) PROVE RowOf(new, i) = RowOf(old, i)
  <2>1. i \in 1 .. Len(old) /\ i \in 0 .. Len(old) /\ i - 1 \in 0 .. Len(old)
    BY <1>1 DEF Says
  <2>2. SubSeq(new, 1, i) = SubSeq(old, 1, i) /\ SubSeq(new, 1, i - 1) = SubSeq(old, 1, i - 1)
    BY <2>1, GrewBeginning
  <2> QED BY <2>1, <2>2 DEF RowOf, GrewBy
<1> QED BY <1>1, <1>2 DEF Says, GrewBy

\* After a write the rows are those of the whole log.
LEMMA AppendedSays ==
    ASSUME NEW entries \in Seq(LogEntry), NEW stored \in Seq(Row), Says(stored, entries)
    PROVE  /\ Appended(stored, entries) \in Seq(Row)
           /\ Says(Appended(stored, entries), entries)
           /\ Len(Appended(stored, entries)) = Len(entries)
<1> DEFINE n == Len(entries) - Len(stored)
           new == [i \in 1 .. n |-> RowOf(entries, Len(stored) + i)]
           all == stored \o new
<1>1. Len(entries) \in Nat /\ Len(stored) \in Nat /\ n \in Nat
  BY LenProperties DEF Says
<1>2. \A i \in 1 .. n : Len(stored) + i \in 1 .. Len(entries)
  BY <1>1
<1>3. new \in [1 .. n -> Row]
  BY <1>2, RowFacts
<1>4. \A i \in 1 .. n : new[i] = RowOf(entries, Len(stored) + i)
  OBVIOUS
<1>5. Appended(stored, entries) = all
  BY DEF Appended
<1> HIDE DEF new
<1>6. new \in Seq(Row) /\ Len(new) = n
  BY <1>1, <1>3
<1>7. /\ all \in Seq(Row) /\ Len(all) = Len(stored) + Len(new)
      /\ \A i \in 1 .. Len(stored) + Len(new) : all[i] =
            IF i <= Len(stored) THEN stored[i] ELSE new[i - Len(stored)]
  BY <1>6, ConcatProperties
<1>8. Len(all) = Len(entries)
  BY <1>1, <1>6, <1>7
<1>9. ASSUME NEW i \in 1 .. Len(entries) PROVE all[i] = RowOf(entries, i)
  <2>1. CASE i <= Len(stored)
    <3>1. i \in 1 .. Len(stored)
      BY <1>1, <2>1
    <3> QED BY <1>1, <1>6, <1>7, <1>8, <2>1, <3>1 DEF Says
  <2>2. CASE ~(i <= Len(stored))
    <3>1. i - Len(stored) \in 1 .. n /\ Len(stored) + (i - Len(stored)) = i
      BY <1>1, <2>2
    <3>2. all[i] = new[i - Len(stored)]
      BY <1>1, <1>6, <1>7, <2>2
    <3> QED BY <1>4, <3>1, <3>2
  <2> QED BY <2>1, <2>2
<1> HIDE DEF all
<1> QED BY <1>1, <1>5, <1>7, <1>8, <1>9 DEF Says

\* Rows that say what a log says verify, and read back as its beginning.
LEMMA SaysReads ==
    ASSUME NEW entries \in Seq(LogEntry), NEW stored \in Seq(Row), Says(stored, entries)
    PROVE  /\ Verified(stored)
           /\ Bodies(stored) = SubSeq(entries, 1, Len(stored))
           /\ Len(Bodies(stored)) = Len(stored)
           /\ \A i \in 1 .. Len(stored) : Bodies(stored)[i] = entries[i] /\ stored[i].body = entries[i]
<1>1. /\ Len(entries) \in Nat /\ Len(stored) \in 0 .. Len(entries)
      /\ \A i \in 1 .. Len(stored) : i \in 1 .. Len(entries)
  BY LenProperties DEF Says
<1>2. \A i \in 1 .. Len(stored) :
         /\ stored[i] # LostRow /\ stored[i].body = entries[i]
         /\ stored[i].previousHash = SubSeq(entries, 1, i - 1)
         /\ stored[i].hash = SubSeq(entries, 1, i)
  BY <1>1, RowFacts DEF Says
<1>3. /\ SubSeq(entries, 1, Len(stored)) \in Seq(LogEntry)
      /\ Len(SubSeq(entries, 1, Len(stored))) = Len(stored)
      /\ \A i \in 1 .. Len(stored) : SubSeq(entries, 1, Len(stored))[i] = entries[i]
  BY <1>1, BeginningFacts
<1>4. /\ Bodies(stored) \in Seq(LogEntry) /\ Len(Bodies(stored)) = Len(stored)
      /\ \A i \in 1 .. Len(stored) : Bodies(stored)[i] = entries[i]
  <2>1. \A i \in 1 .. Len(stored) : stored[i].body \in LogEntry
    BY <1>1, <1>2, ElementOfSeq
  <2> QED BY <1>1, <1>2, <2>1, IsASeq DEF Bodies
<1>5. Bodies(stored) = SubSeq(entries, 1, Len(stored))
  BY <1>3, <1>4, SeqEqual
<1>6. Verified(stored)
  <2> SUFFICES ASSUME NEW i \in 1 .. Len(stored)
               PROVE  /\ stored[i] # LostRow
                      /\ stored[i].previousHash = (IF i = 1 THEN <<>> ELSE stored[i - 1].hash)
                      /\ Append(stored[i].previousHash, stored[i].body) = stored[i].hash
    BY DEF Verified, Hash
  <2>1. stored[i].previousHash = (IF i = 1 THEN <<>> ELSE stored[i - 1].hash)
    <3>1. CASE i = 1
      <4>1. SubSeq(entries, 1, 0) = <<>>
        BY SubSeqEmpty
      <4> QED BY <1>2, <3>1, <4>1
    <3>2. CASE i # 1
      <4>1. i - 1 \in 1 .. Len(stored)
        BY <1>1, <3>2
      <4> QED BY <1>2, <3>2, <4>1
    <3> QED BY <3>1, <3>2
  <2>2. Append(SubSeq(entries, 1, i - 1), entries[i]) = SubSeq(entries, 1, i)
    <3> DEFINE n == i - 1
               s == SubSeq(entries, 1, i)
    <3>1. n \in Nat /\ i \in 0 .. Len(entries) /\ n + 1 = i /\ n \in 0 .. Len(entries)
          /\ i \in 1 .. i
      BY <1>1
    <3>2. s \in Seq(LogEntry) /\ Len(s) = n + 1 /\ \A j \in 1 .. i : s[j] = entries[j]
      BY <3>1, BeginningFacts
    <3>3. s = Append(SubSeq(s, 1, n), s[n + 1]) /\ s[n + 1] = entries[i]
      <4>1. s[n + 1] = entries[i]
        BY <3>1, <3>2
      <4> HIDE DEF s, n
      <4> QED BY <3>1, <3>2, <4>1, FrontFacts
    <3>4. SubSeq(s, 1, n) = SubSeq(entries, 1, n)
      <4>1. /\ SubSeq(s, 1, n) \in Seq(LogEntry) /\ Len(SubSeq(s, 1, n)) = n
            /\ \A j \in 1 .. n : SubSeq(s, 1, n)[j] = s[j]
        <5> HIDE DEF s, n
        <5> QED BY <3>1, <3>2, FrontFacts
      <4>2. /\ SubSeq(entries, 1, n) \in Seq(LogEntry) /\ Len(SubSeq(entries, 1, n)) = n
            /\ \A j \in 1 .. n : SubSeq(entries, 1, n)[j] = entries[j]
        <5> HIDE DEF s, n
        <5> QED BY <3>1, BeginningFacts
      <4>3. \A j \in 1 .. n : SubSeq(s, 1, n)[j] = SubSeq(entries, 1, n)[j]
        BY <3>1, <3>2, <4>1, <4>2
      <4> HIDE DEF s, n
      <4> QED BY <4>1, <4>2, <4>3, SeqEqual
    <3> QED BY <3>3, <3>4
  <2> QED BY <1>2, <2>1, <2>2
<1> QED BY <1>2, <1>4, <1>5, <1>6
-----------------------------------------------------------------------------
(* What the steps of a run add to its log.                                  *)

\* The kinds of entries there are.
Kinds == {"run-started", "model-invoked", "usage-recorded", "guardrail-evaluated",
          "record-retrieved", "tool-called", "run-finished"}

Calling == {"run-started", "model-invoked"}
Railing == {"guardrail-evaluated", "record-retrieved"}

\* Growth of growth.
LEMMA GrewTwice ==
    ASSUME NEW a \in Seq(LogEntry), NEW b, NEW c, NEW kinds, NEW more, NEW all,
           GrewBy(a, b, kinds), GrewBy(b, c, more), kinds \subseteq all, more \subseteq all
    PROVE  GrewBy(a, c, all)
<1>1. Len(a) \in Nat /\ Len(b) \in Nat /\ Len(c) \in Nat /\ Len(a) <= Len(b) /\ Len(b) <= Len(c)
  BY LenProperties DEF GrewBy
<1>2. \A i \in 1 .. Len(a) : i \in 1 .. Len(b) /\ c[i] = a[i]
  BY <1>1 DEF GrewBy
<1>3. ASSUME NEW i \in Len(a) + 1 .. Len(c) PROVE c[i].kind \in all
  <2>1. CASE i \in Len(a) + 1 .. Len(b)
    <3>1. i \in 1 .. Len(b) /\ c[i] = b[i]
      BY <1>1, <2>1 DEF GrewBy
    <3> QED BY <2>1, <3>1 DEF GrewBy
  <2>2. CASE i \in Len(b) + 1 .. Len(c)
    BY <2>2 DEF GrewBy
  <2> QED BY <1>1, <2>1, <2>2
<1> QED BY <1>1, <1>2, <1>3 DEF GrewBy

\* Growth by a sequence of entries.
LEMMA GrewByConcat ==
    ASSUME NEW old \in Seq(LogEntry), NEW tail \in Seq(LogEntry), NEW kinds,
           \A i \in 1 .. Len(tail) : tail[i].kind \in kinds
    PROVE  /\ GrewBy(old, old \o tail, kinds)
           /\ \A i \in 1 .. Len(tail) : /\ Len(old) + i \in 1 .. Len(old \o tail)
                                        /\ (old \o tail)[Len(old) + i] = tail[i]
<1> DEFINE all == old \o tail
<1>1. /\ Len(old) \in Nat /\ Len(tail) \in Nat
      /\ all \in Seq(LogEntry) /\ Len(all) = Len(old) + Len(tail)
      /\ \A i \in 1 .. Len(old) + Len(tail) :
            all[i] = IF i <= Len(old) THEN old[i] ELSE tail[i - Len(old)]
  BY ConcatProperties, LenProperties
<1> HIDE DEF all
<1>2. \A i \in 1 .. Len(old) : i \in 1 .. Len(old) + Len(tail) /\ all[i] = old[i]
  BY <1>1
<1>3. \A i \in 1 .. Len(tail) : Len(old) + i \in 1 .. Len(all) /\ all[Len(old) + i] = tail[i]
  <2> TAKE i \in 1 .. Len(tail)
  <2>1. Len(old) + i \in 1 .. Len(old) + Len(tail) /\ ~(Len(old) + i <= Len(old))
        /\ (Len(old) + i) - Len(old) = i
    BY <1>1
  <2> QED BY <1>1, <2>1
<1>4. ASSUME NEW i \in Len(old) + 1 .. Len(all) PROVE all[i].kind \in kinds
  <2>1. i - Len(old) \in 1 .. Len(tail) /\ Len(old) + (i - Len(old)) = i
    BY <1>1
  <2> QED BY <1>3, <2>1
<1>5. GrewBy(old, all, kinds)
  BY <1>1, <1>2, <1>4 DEF GrewBy
<1> QED BY <1>3, <1>5 DEF all

\* A turn's calls are logged behind the start of the run.
LEMMA InvokedGrows ==
    ASSUME log \in Seq(LogEntry), NEW n \in Nat
    PROVE  GrewBy(log, InvokedTimes(n), Calling)
<1>1. Started \in LogEntry /\ Started.kind = "run-started"
      /\ Invoked \in LogEntry /\ Invoked.kind = "model-invoked"
  BY DEF Started, Invoked, LogEntry
<1>2. Opened \in Seq(LogEntry) /\ GrewBy(log, Opened, Calling)
  <2>1. CASE Opened = Append(log, Started)
    <3>1. GrewBy(log, Append(log, Started), {"run-started"})
      BY <1>1, GrewByOne
    <3>2. Len(log) \in Nat /\ {"run-started"} \subseteq Calling
      BY LenProperties DEF Calling
    <3> QED BY <2>1, <3>1, <3>2 DEF GrewBy
  <2>2. CASE Opened = log
    <3>1. Len(log) \in Nat /\ Len(log) + 1 .. Len(log) = {}
      BY LenProperties
    <3> QED BY <2>2, <3>1 DEF GrewBy
  <2> QED BY <2>1, <2>2 DEF Opened
<1> DEFINE invoked == [i \in 1 .. n |-> Invoked]
<1>3. invoked \in Seq(LogEntry) /\ Len(invoked) = n /\ \A i \in 1 .. n : invoked[i] = Invoked
  BY <1>1
<1> HIDE DEF invoked
<1>4. GrewBy(Opened, Opened \o invoked, Calling)
  BY <1>1, <1>2, <1>3, GrewByConcat DEF Calling
<1>5. GrewBy(log, Opened \o invoked, Calling)
  BY <1>2, <1>4, GrewTwice
<1> QED BY <1>5 DEF InvokedTimes, invoked

\* What the rail blocks and admits are chunks, and what it admits is clean.
LEMMA ScreenedFacts ==
    \A s \in Seq(Chunk) :
        /\ Blocked(s) \in Seq(Chunk) /\ Admitted(s) \in Seq(Chunk)
        /\ \A i \in 1 .. Len(Admitted(s)) : ~Admitted(s)[i].poisoned
<1> DEFINE Fine(s) == /\ Blocked(s) \in Seq(Chunk) /\ Admitted(s) \in Seq(Chunk)
                      /\ \A i \in 1 .. Len(Admitted(s)) : ~Admitted(s)[i].poisoned
           S == {n \in Nat : \A s \in Seq(Chunk) : Len(s) = n => Fine(s)}
<1>1. 0 \in S
  <2>1. \A s \in Seq(Chunk) : Len(s) = 0 => s = <<>>
    BY EmptySeq
  <2>2. Fine(<<>>)
    <3>1. <<>> \in Seq(Chunk) /\ Len(<<>>) = 0 /\ 1 .. 0 = {}
      OBVIOUS
    <3> QED BY <3>1, BlockedFacts, AdmittedFacts
  <2> QED BY <2>1, <2>2
<1>2. ASSUME NEW n \in Nat, n \in S PROVE n + 1 \in S
  <2> SUFFICES ASSUME NEW s \in Seq(Chunk), Len(s) = n + 1 PROVE Fine(s)
    OBVIOUS
  <2> DEFINE front == SubSeq(s, 1, n)
             c == s[n + 1]
  <2>1. front \in Seq(Chunk) /\ Len(front) = n /\ c \in Chunk /\ s = Append(front, c)
    BY FrontFacts
  <2>2. Fine(front)
    BY <1>2, <2>1
  <2>3. Blocked(s) = Blocking(Blocked(front), c) /\ Admitted(s) = Admitting(Admitted(front), c)
    BY <2>1, BlockedFacts, AdmittedFacts
  <2> HIDE DEF front, c
  <2>4. Blocked(s) \in Seq(Chunk)
    BY <2>1, <2>2, <2>3 DEF Blocking
  <2>5. CASE c.poisoned
    BY <2>2, <2>3, <2>4, <2>5 DEF Admitting
  <2>6. CASE ~c.poisoned
    <3> DEFINE old == Admitted(front)
               new == Append(old, c)
    <3>1. old \in Seq(Chunk) /\ Len(old) \in Nat /\ \A i \in 1 .. Len(old) : ~old[i].poisoned
      BY <2>2
    <3> HIDE DEF old
    <3>2. /\ new \in Seq(Chunk) /\ Len(new) = Len(old) + 1 /\ new[Len(old) + 1] = c
          /\ \A i \in 1 .. Len(old) : new[i] = old[i]
      BY <2>1, <3>1, AppendProperties
    <3> HIDE DEF new
    <3>3. \A i \in 1 .. Len(new) : ~new[i].poisoned
      <4> TAKE i \in 1 .. Len(new)
      <4>1. i \in 1 .. Len(old) \/ i = Len(old) + 1
        BY <3>1, <3>2
      <4> QED BY <2>6, <3>1, <3>2, <4>1
    <3>4. Admitted(s) = new
      BY <2>3, <2>6 DEF Admitting, old, new
    <3> QED BY <2>4, <3>2, <3>3, <3>4
  <2> QED BY <2>5, <2>6
<1>3. Nat \subseteq S
  <2> HIDE DEF S
  <2> QED BY <1>1, <1>2, SetInduction
<1> QED BY <1>3, LenProperties

\* The events of a tool's success: its rail's verdicts and records, then the call.
LEMMA EventsGrow ==
    ASSUME log \in Seq(LogEntry), tool \in Tool,
           NEW found \in Seq(Chunk), NEW committed \in SUBSET Nat
    PROVE  \E mid : /\ GrewBy(log, mid, Railing)
                    /\ log \o RetrievalEvents(found, committed)
                          = Append(mid, ToolCalled(tool, "succeeded", committed))
                    /\ \A i \in 1 .. Len(Admitted(found)) : \E k \in 1 .. Len(mid) :
                          mid[k] = Retrieved(Admitted(found)[i].record)
<1> DEFINE blocks == [i \in 1 .. Len(Blocked(found)) |-> Evaluated("blocked")]
           allows == [i \in 1 .. Len(Admitted(found)) |-> Evaluated("allowed")]
           records == [i \in 1 .. Len(Admitted(found)) |-> Retrieved(Admitted(found)[i].record)]
           call == ToolCalled(tool, "succeeded", committed)
           ins == (blocks \o allows) \o records
           mid == log \o ins
<1>1. /\ Len(Blocked(found)) \in Nat /\ Len(Admitted(found)) \in Nat
      /\ \A i \in 1 .. Len(Admitted(found)) : Admitted(found)[i] \in Chunk
  BY ScreenedFacts, LenProperties, ElementOfSeq
<1>2. /\ Evaluated("blocked") \in LogEntry /\ Evaluated("allowed") \in LogEntry
      /\ Evaluated("blocked").kind \in Railing /\ Evaluated("allowed").kind \in Railing
      /\ \A i \in 1 .. Len(Admitted(found)) :
            /\ Retrieved(Admitted(found)[i].record) \in LogEntry
            /\ Retrieved(Admitted(found)[i].record).kind \in Railing
  BY <1>1 DEF Evaluated, Retrieved, LogEntry, Railing, Chunk
<1>3. call \in LogEntry
  BY DEF ToolCalled, LogEntry
<1>4. /\ blocks \in Seq(LogEntry) /\ Len(blocks) = Len(Blocked(found))
      /\ \A i \in 1 .. Len(blocks) : blocks[i].kind \in Railing
  BY <1>1, <1>2
<1>5. /\ allows \in Seq(LogEntry) /\ Len(allows) = Len(Admitted(found))
      /\ \A i \in 1 .. Len(allows) : allows[i].kind \in Railing
  BY <1>1, <1>2
<1>6. /\ records \in Seq(LogEntry) /\ Len(records) = Len(Admitted(found))
      /\ \A i \in 1 .. Len(records) : records[i].kind \in Railing
      /\ \A i \in 1 .. Len(records) : records[i] = Retrieved(Admitted(found)[i].record)
  BY <1>1, <1>2
<1>7. RetrievalEvents(found, committed) = ins \o <<call>>
  BY DEF RetrievalEvents
<1> HIDE DEF blocks, allows, records, call
<1> DEFINE pair == blocks \o allows
<1>8. /\ pair \in Seq(LogEntry) /\ \A i \in 1 .. Len(pair) : pair[i].kind \in Railing
  <2>1. GrewBy(blocks, pair, Railing)
    BY <1>4, <1>5, GrewByConcat
  <2>2. Len(blocks) \in Nat
    BY <1>4, LenProperties
  <2> HIDE DEF pair
  <2> QED BY <1>4, <2>1, <2>2 DEF GrewBy
<1>9. /\ ins \in Seq(LogEntry) /\ \A i \in 1 .. Len(ins) : ins[i].kind \in Railing
      /\ \A i \in 1 .. Len(records) : \E k \in 1 .. Len(ins) : ins[k] = records[i]
  <2> HIDE DEF pair
  <2>1. /\ GrewBy(pair, pair \o records, Railing)
        /\ \A i \in 1 .. Len(records) : /\ Len(pair) + i \in 1 .. Len(pair \o records)
                                        /\ (pair \o records)[Len(pair) + i] = records[i]
    BY <1>6, <1>8, GrewByConcat
  <2>2. Len(pair) \in Nat /\ Len(records) \in Nat
    BY <1>6, <1>8, LenProperties
  <2>3. ins = pair \o records
    BY DEF pair
  <2> HIDE DEF ins
  <2>4. \A i \in 1 .. Len(ins) : i \in 1 .. Len(pair) \/ i \in Len(pair) + 1 .. Len(ins)
    BY <2>1, <2>2, <2>3 DEF GrewBy
  <2>5. \A i \in 1 .. Len(ins) : ins[i].kind \in Railing
    BY <1>8, <2>1, <2>3, <2>4 DEF GrewBy
  <2>6. ins \in Seq(LogEntry)
    BY <2>1, <2>3 DEF GrewBy
  <2> QED BY <2>1, <2>3, <2>5, <2>6
<1> HIDE DEF ins
<1>10. /\ GrewBy(log, mid, Railing)
       /\ \A i \in 1 .. Len(ins) : \E k \in 1 .. Len(mid) : mid[k] = ins[i]
  BY <1>9, GrewByConcat
<1>11. log \o RetrievalEvents(found, committed) = Append(mid, call)
  <2>1. <<call>> \in Seq(LogEntry)
    BY <1>3
  <2>2. log \o (ins \o <<call>>) = mid \o <<call>>
    BY <1>9, <2>1, ConcatAssociative
  <2>3. mid \in Seq(LogEntry)
    BY <1>10 DEF GrewBy
  <2> HIDE DEF mid
  <2>4. mid \o <<call>> = Append(mid, call)
    BY <1>3, <2>3, AppendIsConcat
  <2> QED BY <1>7, <2>2, <2>4
<1> HIDE DEF mid
<1>12. \A i \in 1 .. Len(Admitted(found)) : \E k \in 1 .. Len(mid) :
          mid[k] = Retrieved(Admitted(found)[i].record)
  BY <1>6, <1>9, <1>10
<1> QED BY <1>10, <1>11, <1>12 DEF call
-----------------------------------------------------------------------------
\* A turn is served or fails only below every limit.
LEMMA HaltingFacts ==
    /\ Halting = {} => /\ state.verified /\ ~(state.cost >= CostCeiling)
                       /\ ~(state.iteration >= MaxIterations)
    /\ Halting \subseteq HaltReason
<1>1. Halting \subseteq HaltReason
  BY DEF Halting, HaltReason
<1>2. ASSUME NEW j \in 1 .. 4, Reached[j] PROVE Halting # {}
  <2>1. \E i \in 1 .. 4 : Reached[i] /\ \A h \in 1 .. i - 1 : ~Reached[h]
    <3>1. CASE Reached[1]
      <4>1. 1 .. 1 - 1 = {}
        OBVIOUS
      <4> QED BY <3>1, <4>1
    <3>2. CASE ~Reached[1] /\ Reached[2]
      <4>1. 1 .. 2 - 1 = {1}
        OBVIOUS
      <4> QED BY <3>2, <4>1
    <3>3. CASE ~Reached[1] /\ ~Reached[2] /\ Reached[3]
      <4>1. 1 .. 3 - 1 = {1, 2}
        OBVIOUS
      <4> QED BY <3>3, <4>1
    <3>4. CASE ~Reached[1] /\ ~Reached[2] /\ ~Reached[3] /\ Reached[4]
      <4>1. 1 .. 4 - 1 = {1, 2, 3}
        OBVIOUS
      <4> QED BY <3>4, <4>1
    <3>5. j = 1 \/ j = 2 \/ j = 3 \/ j = 4
      OBVIOUS
    <3> QED BY <1>2, <3>1, <3>2, <3>3, <3>4, <3>5
  <2> QED BY <2>1 DEF Halting
<1>3. ASSUME Halting = {} PROVE \A j \in 1 .. 4 : ~Reached[j]
  BY <1>2, <1>3
<1>4. /\ state.verified \/ Reached[1]
      /\ state.cost >= CostCeiling => Reached[2]
      /\ state.iteration >= MaxIterations => Reached[4]
  BY DEF Reached
<1> QED BY <1>1, <1>3, <1>4

\* The counters after a step.
LEMMA AdvancedFacts ==
    ASSUME TypeOK, NEW effect
    PROVE  /\ Advanced(effect) \in [iteration : Nat, idle : Nat, cost : Nat, verified : BOOLEAN]
           /\ Advanced(effect).iteration = state.iteration + 1
           /\ Advanced(effect).cost = state.cost + cost
           /\ Advanced(effect).verified = (effect # "tool-failed")
BY DEF TypeOK, Advanced, Stepped

\* A turn that is served logs calls and a charge.
LEMMA ServeLogs ==
    ASSUME TypeOK, Serve
    PROVE  \E mid \in Seq(LogEntry), c \in Cost :
              /\ GrewBy(log, mid, Calling)
              /\ Usage(c) \in LogEntry /\ log' = Append(mid, Usage(c)) /\ cost' = c
<1>1. PICK n \in Attempts, c \in Cost : log' = Append(InvokedTimes(n), Usage(c)) /\ cost' = c
  BY DEF Serve
<1>2. n \in Nat /\ log \in Seq(LogEntry)
  BY RunAssumption DEF TypeOK
<1>3. GrewBy(log, InvokedTimes(n), Calling)
  BY <1>2, InvokedGrows
<1>4. InvokedTimes(n) \in Seq(LogEntry)
  BY <1>3 DEF GrewBy
<1>5. Usage(c) \in LogEntry
  BY DEF Usage, LogEntry
<1> QED BY <1>1, <1>3, <1>4, <1>5

\* A turn that is not served logs calls at most.
LEMMA FailureLogs ==
    ASSUME TypeOK, ServeFails
    PROVE  GrewBy(log, log', Calling)
<1>1. log \in Seq(LogEntry)
  BY DEF TypeOK
<1>2. GrewBy(log, log, Calling)
  <2>1. Len(log) \in Nat /\ Len(log) + 1 .. Len(log) = {}
    BY <1>1, LenProperties
  <2> QED BY <1>1, <2>1 DEF GrewBy
<1>3. \E n \in Attempts \cup {0} : log' = InvokedTimes(n) \/ log' = log
  BY DEF ServeFails
<1>4. \A n \in Attempts \cup {0} : n \in Nat
  BY RunAssumption
<1> QED BY <1>1, <1>2, <1>3, <1>4, InvokedGrows

\* A failed or denied tool logs its call.
LEMMA ToolFailureLogs ==
    ASSUME TypeOK, Denied \/ ToolFailed
    PROVE  \E e \in LogEntry :
              /\ e.kind = "tool-called" /\ e.committed = {} /\ log' = Append(log, e)
<1>1. tool \in Tool
  BY DEF TypeOK, Denied, ToolFailed
<1>2. \A status \in {"denied", "failed"} :
         /\ ToolCalled(tool, status, {}) \in LogEntry
         /\ ToolCalled(tool, status, {}).kind = "tool-called"
         /\ ToolCalled(tool, status, {}).committed = {}
  BY <1>1 DEF ToolCalled, LogEntry
<1>3. \E status \in {"denied", "failed"} : log' = Append(log, ToolCalled(tool, status, {}))
  BY DEF Denied, ToolFailed
<1> QED BY <1>2, <1>3

\* A tool that succeeded logs what the rail said, what it retrieved, and its call.
LEMMA SuccessLogs ==
    ASSUME TypeOK, ToolSucceeded
    PROVE  \E mid \in Seq(LogEntry), e \in LogEntry :
              /\ GrewBy(log, mid, Railing)
              /\ e.kind = "tool-called" /\ e.status = "succeeded"
              /\ e.committed = result.committed /\ log' = Append(mid, e)
              /\ \A i \in 1 .. Len(Admitted(result.found)) : \E k \in 1 .. Len(mid) :
                    mid[k] = Retrieved(Admitted(result.found)[i].record)
<1>1. /\ log \in Seq(LogEntry) /\ tool \in Tool
      /\ result.found \in Seq(Chunk) /\ result.committed \in SUBSET Nat
  <2>1. pc = "returning" /\ result \in Result
    BY DEF ToolSucceeded, TypeOK
  <2> QED BY <2>1 DEF TypeOK, Result
<1>2. PICK mid : /\ GrewBy(log, mid, Railing)
                 /\ log \o RetrievalEvents(result.found, result.committed)
                       = Append(mid, ToolCalled(tool, "succeeded", result.committed))
                 /\ \A i \in 1 .. Len(Admitted(result.found)) : \E k \in 1 .. Len(mid) :
                       mid[k] = Retrieved(Admitted(result.found)[i].record)
  BY <1>1, EventsGrow
<1>3. mid \in Seq(LogEntry)
  BY <1>2 DEF GrewBy
<1> DEFINE e == ToolCalled(tool, "succeeded", result.committed)
<1>4. /\ e \in LogEntry /\ e.kind = "tool-called" /\ e.status = "succeeded"
      /\ e.committed = result.committed
  BY <1>1 DEF ToolCalled, LogEntry
<1>5. log' = Append(mid, e)
  BY <1>2 DEF ToolSucceeded
<1> QED BY <1>2, <1>3, <1>4, <1>5

\* The end of a run is logged.
LEMMA EndLogs ==
    ASSUME TypeOK, Finish \/ FinishFails
    PROVE  /\ RunFinished(ending.outcome) \in LogEntry
           /\ RunFinished(ending.outcome).kind = "run-finished"
           /\ RunFinished(ending.outcome).outcome = ending.outcome
           /\ log' = Append(log, RunFinished(ending.outcome))
<1>1. pc = "closing" /\ log' = Append(log, RunFinished(ending.outcome))
  BY DEF Finish, FinishFails
<1>2. ending.outcome \in RunOutcome
  BY <1>1 DEF TypeOK
<1> QED BY <1>1, <1>2 DEF RunFinished, LogEntry

\* The steps that leave the log and the store alone.
QuietStep ==
    \/ Start \/ StartFails \/ Halt \/ Unparseable \/ Answer
    \/ \E t \in Tool : UseTool(t)
    \/ \E verdict \in {"approved", "rejected", "timed-out"} : Approval(verdict)
    \/ SealFails \/ Retrieves \/ Acts \/ ExecutionFails \/ PersistFails \/ Crash
    \/ UNCHANGED vars

Loud == Serve \/ ServeFails \/ Denied \/ ToolFailed \/ ToolSucceeded \/ Finish \/ FinishFails

\* Every step is one of these, or the write between two turns.
LEMMA StepKinds == [Next]_vars => QuietStep \/ Loud \/ PersistTurn
BY DEF Next, QuietStep, Loud

\* They only move the run on.
LEMMA QuietFacts ==
    ASSUME QuietStep
    PROVE  /\ log' = log /\ rows' = rows /\ shown' = shown
           /\ pc' = "start" => pc = "start" /\ state' = state
           /\ pc' = "turn" => pc \in {"start", "turn"} /\ state' = state
           /\ pc' \in InTurn => pc \in InTurn /\ state' = state /\ cost' = cost
           /\ pc' = "persisting" => \/ pc = "parsing" /\ state' = Advanced("step-unparseable")
                                    \/ pc = "persisting" /\ state' = state
           /\ pc' = "closing" => pc \in InTurn \cup {"turn", "closing"}
<1>1. CASE Start
  BY <1>1 DEF Start, InTurn
<1>2. CASE StartFails
  BY <1>2 DEF StartFails, InTurn
<1>3. CASE Halt
  BY <1>3 DEF Halt, Close, InTurn
<1>4. CASE Unparseable
  BY <1>4 DEF Unparseable, Persist, InTurn
<1>5. CASE Answer
  BY <1>5 DEF Answer, Close, InTurn
<1>6. CASE \E t \in Tool : UseTool(t)
  BY <1>6 DEF UseTool, InTurn
<1>7. CASE \E verdict \in {"approved", "rejected", "timed-out"} : Approval(verdict)
  BY <1>7 DEF Approval, InTurn
<1>8. CASE SealFails
  BY <1>8 DEF SealFails, Close, InTurn
<1>9. CASE Retrieves \/ Acts \/ ExecutionFails
  <2>1. PICK answer, effects : Executes(answer, effects)
    BY <1>9 DEF Retrieves, Acts, ExecutionFails
  <2> QED BY <2>1 DEF Executes, InTurn
<1>10. CASE PersistFails
  BY <1>10 DEF PersistFails, InTurn
<1>11. CASE Crash
  BY <1>11 DEF Crash, InTurn
<1>12. CASE UNCHANGED vars
  BY <1>12 DEF vars, InTurn
<1> QED BY <1>1, <1>2, <1>3, <1>4, <1>5, <1>6, <1>7, <1>8, <1>9, <1>10, <1>11, <1>12 DEF QuietStep

\* The log only grows.
LEMMA LogGrows ==
    ASSUME TypeOK, [Next]_vars
    PROVE  GrewBy(log, log', Kinds)
<1>1. log \in Seq(LogEntry)
  BY DEF TypeOK
<1>2. GrewBy(log, log, Kinds)
  <2>1. Len(log) \in Nat /\ Len(log) + 1 .. Len(log) = {}
    BY <1>1, LenProperties
  <2> QED BY <1>1, <2>1 DEF GrewBy
<1>3. ASSUME NEW mid, NEW e \in LogEntry, GrewBy(log, mid, Kinds), log' = Append(mid, e)
      PROVE  GrewBy(log, log', Kinds)
  <2>1. mid \in Seq(LogEntry) /\ e.kind \in Kinds
    BY <1>3 DEF GrewBy, LogEntry, Kinds
  <2>2. GrewBy(mid, log', {e.kind})
    BY <1>3, <2>1, GrewByOne
  <2>3. {e.kind} \subseteq Kinds /\ Kinds \subseteq Kinds
    BY <2>1
  <2> QED BY <1>1, <1>3, <2>2, <2>3, GrewTwice
<1>4. ASSUME NEW mid, NEW kinds, kinds \subseteq Kinds, GrewBy(log, mid, kinds)
      PROVE  GrewBy(log, mid, Kinds)
  BY <1>4 DEF GrewBy
<1>5. Calling \subseteq Kinds /\ Railing \subseteq Kinds
  BY DEF Calling, Railing, Kinds
<1>6. CASE QuietStep \/ PersistTurn
  <2>1. log' = log
    BY <1>6, QuietFacts DEF PersistTurn
  <2> QED BY <1>2, <2>1
<1>7. CASE Serve
  BY <1>3, <1>4, <1>5, <1>7, ServeLogs
<1>8. CASE ServeFails
  BY <1>4, <1>5, <1>8, FailureLogs
<1>9. CASE Denied \/ ToolFailed
  BY <1>2, <1>3, <1>9, ToolFailureLogs
<1>10. CASE ToolSucceeded
  BY <1>3, <1>4, <1>5, <1>10, SuccessLogs
<1>11. CASE Finish \/ FinishFails
  BY <1>2, <1>3, <1>11, EndLogs
<1> QED BY <1>6, <1>7, <1>8, <1>9, <1>10, <1>11, StepKinds DEF Loud
-----------------------------------------------------------------------------
\* A write leaves the whole log in the store, anything else leaves the rows.
LEMMA StoreMoves ==
    ASSUME TypeOK, Stored, [Next]_vars
    PROVE  /\ rows' \in Seq(Row) /\ Says(rows', log')
           /\ rows' = rows \/ ((PersistTurn \/ Finish) /\ Len(rows') = Len(log'))
<1>1. log \in Seq(LogEntry) /\ rows \in Seq(Row) /\ Says(rows, log)
  BY DEF TypeOK, Stored
<1>2. log' \in Seq(LogEntry) /\ GrewBy(log, log', Kinds)
  BY LogGrows DEF GrewBy
<1>3. Says(rows, log')
  BY <1>1, <1>2, SaysMore
<1>4. CASE rows' = rows
  BY <1>1, <1>3, <1>4
<1>5. CASE PersistTurn \/ Finish
  <2>1. rows' = Appended(rows, log')
    BY <1>5 DEF PersistTurn, Finish
  <2> QED BY <1>1, <1>2, <1>3, <1>5, <2>1, AppendedSays
<1>6. rows' = rows \/ PersistTurn \/ Finish
  <2>1. QuietStep => rows' = rows
    BY QuietFacts
  <2>2. Loud => rows' = rows \/ Finish
    BY DEF Loud, Serve, ServeFails, Denied, ToolFailed, ToolSucceeded, FinishFails
  <2> QED BY <2>1, <2>2, StepKinds
<1> QED BY <1>4, <1>5, <1>6

\* What a tool's execution leaves in hand.
LEMMA ExecutesTypes ==
    ASSUME TypeOK, Retrieves \/ Acts \/ ExecutionFails
    PROVE  \E answer \in Result, effects \in SUBSET Nat :
              /\ Executes(answer, effects) /\ IsFiniteSet(effects)
              /\ answer.committed \subseteq effects
              /\ ~answer.ok => answer.committed = {}
<1>1. NewEffect \in Nat
  BY FS_CardinalityType DEF TypeOK, NewEffect
<1>2. IsFiniteSet({}) /\ IsFiniteSet({NewEffect}) /\ {} \in SUBSET Nat /\ {NewEffect} \in SUBSET Nat
  BY <1>1, FS_EmptySet, FS_Singleton
<1>3. CASE Retrieves
  <2>1. PICK found \in Findings : Executes([ok |-> TRUE, found |-> found, committed |-> {}], {})
    BY <1>3 DEF Retrieves
  <2>2. [ok |-> TRUE, found |-> found, committed |-> {}] \in Result
    BY RunAssumption DEF Result
  <2> QED BY <1>2, <2>1, <2>2
<1>4. CASE Acts
  <2>0. tool \in Tool
    BY <1>4 DEF Acts, Executes, TypeOK
  <2>1. PICK poisoned \in BOOLEAN, effects \in {{}, {NewEffect}} :
           Executes([ok |-> TRUE, committed |-> effects,
                     found |-> <<[record |-> OutputRecord[tool], poisoned |-> poisoned]>>], effects)
    BY <1>4 DEF Acts
  <2>2. [record |-> OutputRecord[tool], poisoned |-> poisoned] \in Chunk
    BY <2>0, RunAssumption DEF Chunk
  <2>3. <<[record |-> OutputRecord[tool], poisoned |-> poisoned]>> \in Seq(Chunk)
    BY <2>2
  <2>4. [ok |-> TRUE, committed |-> effects,
         found |-> <<[record |-> OutputRecord[tool], poisoned |-> poisoned]>>] \in Result
    BY <1>2, <2>3 DEF Result
  <2> QED BY <1>2, <2>1, <2>4
<1>5. CASE ExecutionFails
  <2>1. PICK effects \in {{}, {NewEffect}} :
           Executes([ok |-> FALSE, found |-> <<>>, committed |-> {}], effects)
    BY <1>5 DEF ExecutionFails
  <2>2. [ok |-> FALSE, found |-> <<>>, committed |-> {}] \in Result
    BY DEF Result
  <2> QED BY <1>2, <2>1, <2>2
<1> QED BY <1>3, <1>4, <1>5

\* The variables stay in their types.
LEMMA TypeStep ==
    ASSUME TypeOK, Stored, [Next]_vars
    PROVE  TypeOK'
<1>1. log' \in Seq(LogEntry) /\ rows' \in Seq(Row)
  BY LogGrows, StoreMoves DEF GrewBy
<1>2. CASE Start
  BY <1>1, <1>2 DEF Start, TypeOK
<1>3. CASE StartFails
  BY <1>1, <1>3 DEF StartFails, TypeOK, Copy
<1>4. CASE Halt
  <2>1. PICK reason \in HaltReason : Close("halted", reason)
    BY <1>4, HaltingFacts DEF Halt
  <2>2. Ending("halted", reason) \in [outcome : RunOutcome, copy : Copy]
    BY DEF Ending, RunOutcome, Copy
  <2> QED BY <1>1, <1>4, <2>1, <2>2 DEF Halt, Close, TypeOK
<1>5. CASE Serve
  <2>1. cost' \in Nat
    BY <1>5, ServeLogs, RunAssumption
  <2> QED BY <1>1, <1>5, <2>1 DEF Serve, TypeOK
<1>6. CASE ServeFails
  <2>1. ending' \in [outcome : RunOutcome, copy : Copy] /\ pc' = "closing"
    <3>1. \A kind \in Failures : kind \in {"already-served", "refused", "failed", "unopened"}
      BY DEF Failures
    <3> QED BY <1>6, <3>1 DEF ServeFails, Close, Ending, RunOutcome, Copy
  <2> QED BY <1>1, <1>6, <2>1 DEF ServeFails, TypeOK
<1>7. CASE Unparseable
  <2>1. state' \in [iteration : Nat, idle : Nat, cost : Nat, verified : BOOLEAN]
    BY <1>7, AdvancedFacts DEF Unparseable
  <2> QED BY <1>1, <1>7, <2>1 DEF Unparseable, Persist, TypeOK
<1>8. CASE Answer
  <2>1. Ending("succeeded", "answered") \in [outcome : RunOutcome, copy : Copy]
    BY DEF Ending, RunOutcome, Copy
  <2> QED BY <1>1, <1>8, <2>1 DEF Answer, Close, TypeOK
<1>9. CASE \E t \in Tool : UseTool(t)
  BY <1>1, <1>9 DEF UseTool, TypeOK
<1>10. CASE \E verdict \in {"approved", "rejected", "timed-out"} : Approval(verdict)
  BY <1>1, <1>10 DEF Approval, TypeOK
<1>11. CASE SealFails
  <2>1. Ending("failed", "failed") \in [outcome : RunOutcome, copy : Copy]
    BY DEF Ending, RunOutcome, Copy
  <2> QED BY <1>1, <1>11, <2>1 DEF SealFails, Close, TypeOK
<1>12. CASE Denied \/ ToolFailed \/ ToolSucceeded
  <2>1. state' \in [iteration : Nat, idle : Nat, cost : Nat, verified : BOOLEAN]
    BY <1>12, AdvancedFacts DEF Denied, ToolFailed, ToolSucceeded
  <2>2. seen' \subseteq Record /\ shown' \subseteq Chunk
    <3>1. CASE Denied \/ ToolFailed
      BY <3>1 DEF Denied, ToolFailed, TypeOK
    <3>2. CASE ToolSucceeded
      <4>1. result.found \in Seq(Chunk)
        BY <3>2 DEF ToolSucceeded, TypeOK, Result
      <4>2. \A i \in 1 .. Len(Admitted(result.found)) : Admitted(result.found)[i] \in Chunk
        BY <4>1, ScreenedFacts, ElementOfSeq
      <4>3. RecordsOf(Admitted(result.found)) \subseteq Record
        BY <4>2 DEF RecordsOf, Chunk
      <4>4. /\ seen' = seen \cup RecordsOf(Admitted(result.found))
            /\ \/ shown' = shown
               \/ shown' = shown \cup {Admitted(result.found)[i] : i \in 1 .. Len(Admitted(result.found))}
        BY <3>2 DEF ToolSucceeded
      <4> QED BY <4>2, <4>3, <4>4 DEF TypeOK
    <3> QED BY <1>12, <3>1, <3>2
  <2>3. /\ pc' = "persisting" /\ ending' = ending
        /\ UNCHANGED <<tool, cost, result, claimed, storeFailed, world, reported, told>>
    BY <1>12 DEF Denied, ToolFailed, ToolSucceeded, Persist
  <2> QED BY <1>1, <2>1, <2>2, <2>3 DEF TypeOK
<1>13. CASE Retrieves \/ Acts \/ ExecutionFails
  <2>1. PICK answer \in Result, effects \in SUBSET Nat :
           Executes(answer, effects) /\ IsFiniteSet(effects) /\ answer.committed \subseteq effects
    BY <1>13, ExecutesTypes
  <2>2. IsFiniteSet(world \cup effects)
    BY <2>1, FS_Union DEF TypeOK
  <2> QED BY <1>1, <2>1, <2>2 DEF Executes, TypeOK
<1>14. CASE PersistTurn
  BY <1>1, <1>14 DEF PersistTurn, TypeOK
<1>15. CASE PersistFails
  BY <1>1, <1>15 DEF PersistFails, TypeOK, Copy
<1>16. CASE Finish
  BY <1>1, <1>16 DEF Finish, TypeOK
<1>17. CASE FinishFails
  BY <1>1, <1>17 DEF FinishFails, TypeOK, Copy
<1>18. CASE Crash
  BY <1>1, <1>18 DEF Crash, TypeOK
<1>19. CASE UNCHANGED vars
  BY <1>19 DEF vars, TypeOK
<1> QED BY <1>2, <1>3, <1>4, <1>5, <1>6, <1>7, <1>8, <1>9, <1>10, <1>11, <1>12, <1>13, <1>14,
           <1>15, <1>16, <1>17, <1>18, <1>19 DEF Next

\* The store keeps the beginning of the log, and all of it between turns.
LEMMA StoredStep ==
    ASSUME TypeOK, Stored, [Next]_vars
    PROVE  Stored'
<1>1. Says(rows', log') /\ (rows' = rows \/ ((PersistTurn \/ Finish) /\ Len(rows') = Len(log')))
  BY StoreMoves
<1>2. ASSUME pc' \in {"start", "turn"} PROVE Len(rows') = Len(log')
  <2>1. CASE QuietStep
    <3>1. log' = log /\ rows' = rows /\ pc \in {"start", "turn"}
      BY <1>2, <2>1, QuietFacts
    <3> QED BY <3>1 DEF Stored
  <2>2. CASE Loud
    <3>1. pc' \in {"parsing", "closing", "persisting", "ended"}
      BY <2>2 DEF Loud, Serve, ServeFails, Denied, ToolFailed, ToolSucceeded, Finish, FinishFails,
                  Persist, Close
    <3> QED BY <1>2, <3>1
  <2>3. CASE PersistTurn
    <3>1. rows' = Appended(rows, log) /\ log' = log
      BY <2>3 DEF PersistTurn
    <3> QED BY <3>1, AppendedSays DEF TypeOK, Stored
  <2> QED BY <2>1, <2>2, <2>3, StepKinds
<1> QED BY <1>1, <1>2 DEF Stored
-----------------------------------------------------------------------------
\* A log that gained no entry of a kind misses no more of it.
LEMMA UnsavedStays ==
    ASSUME TypeOK, NEW kinds, GrewBy(log, log', kinds), NEW kind, kind \notin kinds, rows' = rows
    PROVE  Unsaved(kind)' = Unsaved(kind)
<1>1. At(log', kind) = At(log, kind)
  BY GrewAt DEF TypeOK
<1> QED BY <1>1 DEF Unsaved

\* What is written is not missing.
LEMMA UnsavedWritten ==
    ASSUME TypeOK', Len(rows') = Len(log'), NEW kind
    PROVE  Unsaved(kind)' = {}
<1>1. Len(log') \in Nat
  BY LenProperties DEF TypeOK
<1>2. \A k \in At(log', kind) : k \in 1 .. Len(log')
  BY DEF At
<1> QED BY <1>1, <1>2 DEF Unsaved

\* Between two writes the log gains one charge and one tool call at most.
LEMMA OneTurnStep ==
    ASSUME TypeOK, Stored, OneTurn, TypeOK', Stored', [Next]_vars
    PROVE  OneTurn'
<1> DEFINE Single(kind) == \A i, j \in Unsaved(kind)' : i = j
<1>0. log \in Seq(LogEntry) /\ log' \in Seq(LogEntry)
  BY DEF TypeOK
<1>1. pc \in {"start", "turn"} => \A kind : Unsaved(kind) = {}
  <2>1. Len(log) \in Nat /\ \A kind : \A k \in At(log, kind) : k \in 1 .. Len(log)
    BY <1>0, LenProperties DEF At
  <2> QED BY <2>1 DEF Stored, Unsaved
<1>2. CASE QuietStep
  <2>1. \A kind : Unsaved(kind)' = Unsaved(kind)
    BY <1>2, QuietFacts DEF Unsaved
  <2>2. pc' \in InTurn \cup {"closing"} => pc \in InTurn \cup {"closing", "turn"}
    BY <1>2, QuietFacts
  <2> QED BY <1>1, <2>1, <2>2 DEF OneTurn
<1>3. CASE Serve
  <2>1. PICK mid \in Seq(LogEntry), c \in Cost :
           GrewBy(log, mid, Calling) /\ Usage(c) \in LogEntry /\ log' = Append(mid, Usage(c))
    BY <1>3, ServeLogs
  <2>2. Usage(c).kind = "usage-recorded" /\ pc = "turn" /\ rows' = rows /\ pc' = "parsing"
    BY <1>3 DEF Usage, Serve
  <2>3. GrewBy(log, log', Calling \cup {"usage-recorded"})
    <3>1. GrewBy(mid, log', {"usage-recorded"})
      BY <2>1, <2>2, GrewByOne
    <3> QED BY <1>0, <2>1, <3>1, GrewTwice
  <2>4. "tool-called" \notin Calling \cup {"usage-recorded"} /\ "usage-recorded" \notin Calling
    BY DEF Calling
  <2>5. Unsaved("tool-called")' = {}
    BY <1>1, <2>2, <2>3, <2>4, UnsavedStays
  <2>6. At(log', "usage-recorded") = At(log, "usage-recorded") \cup {Len(mid) + 1}
    <3>1. At(mid, "usage-recorded") = At(log, "usage-recorded")
      BY <1>0, <2>1, <2>4, GrewAt
    <3> QED BY <2>1, <2>2, <3>1, AtAppend
  <2>7. \A k \in Unsaved("usage-recorded")' : k = Len(mid) + 1
    BY <1>1, <2>2, <2>6 DEF Unsaved
  <2> QED BY <2>5, <2>7 DEF OneTurn
<1>4. CASE ServeFails
  <2>1. GrewBy(log, log', Calling) /\ rows' = rows /\ pc = "turn"
    BY <1>4, FailureLogs DEF ServeFails
  <2>2. "tool-called" \notin Calling /\ "usage-recorded" \notin Calling
    BY DEF Calling
  <2>3. Unsaved("tool-called")' = {} /\ Unsaved("usage-recorded")' = {}
    BY <1>1, <2>1, <2>2, UnsavedStays
  <2> QED BY <2>3 DEF OneTurn
<1>5. CASE Denied \/ ToolFailed \/ ToolSucceeded
  <2>1. \E mid \in Seq(LogEntry), e \in LogEntry :
           /\ GrewBy(log, mid, Railing) /\ e.kind = "tool-called" /\ log' = Append(mid, e)
    <3>1. GrewBy(log, log, Railing)
      <4>1. Len(log) \in Nat /\ Len(log) + 1 .. Len(log) = {}
        BY <1>0, LenProperties
      <4> QED BY <1>0, <4>1 DEF GrewBy
    <3>2. CASE Denied \/ ToolFailed
      BY <1>0, <3>1, <3>2, ToolFailureLogs
    <3>3. CASE ToolSucceeded
      BY <3>3, SuccessLogs
    <3> QED BY <1>5, <3>2, <3>3
  <2>2. PICK mid \in Seq(LogEntry), e \in LogEntry :
           /\ GrewBy(log, mid, Railing) /\ e.kind = "tool-called" /\ log' = Append(mid, e)
    BY <2>1
  <2>3. rows' = rows /\ pc \in {"denying", "returning"} /\ pc' = "persisting"
    BY <1>5 DEF Denied, ToolFailed, ToolSucceeded, Persist
  <2>4. Unsaved("tool-called") = {}
    BY <2>3 DEF OneTurn, InTurn
  <2>5. GrewBy(log, log', Railing \cup {"tool-called"})
    <3>1. GrewBy(mid, log', {"tool-called"})
      BY <2>2, GrewByOne
    <3> QED BY <1>0, <2>2, <3>1, GrewTwice
  <2>6. "usage-recorded" \notin Railing \cup {"tool-called"} /\ "tool-called" \notin Railing
    BY DEF Railing
  <2>7. Unsaved("usage-recorded")' = Unsaved("usage-recorded")
    BY <2>3, <2>5, <2>6, UnsavedStays
  <2>8. At(log', "tool-called") = At(log, "tool-called") \cup {Len(mid) + 1}
    <3>1. At(mid, "tool-called") = At(log, "tool-called")
      BY <1>0, <2>2, <2>6, GrewAt
    <3> QED BY <2>2, <3>1, AtAppend
  <2>9. \A k \in Unsaved("tool-called")' : k = Len(mid) + 1
    BY <2>3, <2>4, <2>8 DEF Unsaved
  <2>10. "persisting" \notin InTurn \cup {"closing"}
    BY DEF InTurn
  <2> QED BY <2>3, <2>7, <2>9, <2>10 DEF OneTurn
<1>6. CASE PersistTurn \/ Finish
  <2>1. Len(rows') = Len(log')
    <3>1. rows' = Appended(rows, log')
      BY <1>6 DEF PersistTurn, Finish
    <3>2. Says(rows, log')
      BY <1>0, LogGrows, SaysMore DEF TypeOK, Stored
    <3> QED BY <1>0, <3>1, <3>2, AppendedSays DEF TypeOK
  <2>2. \A kind : Unsaved(kind)' = {}
    BY <2>1, UnsavedWritten
  <2> QED BY <2>2 DEF OneTurn
<1>7. CASE FinishFails
  <2>1. GrewBy(log, log', {"run-finished"}) /\ rows' = rows /\ pc' = "ended"
    BY <1>0, <1>7, EndLogs, GrewByOne DEF FinishFails
  <2>2. /\ Unsaved("tool-called")' = Unsaved("tool-called")
        /\ Unsaved("usage-recorded")' = Unsaved("usage-recorded")
    BY <2>1, UnsavedStays
  <2>3. "ended" \notin InTurn \cup {"closing"}
    BY DEF InTurn
  <2> QED BY <2>1, <2>2, <2>3 DEF OneTurn
<1> QED BY <1>2, <1>3, <1>4, <1>5, <1>6, <1>7, StepKinds DEF Loud

\* A log that ends as told, or that has no end to tell of.
LEMMA ClosedFacts ==
    ASSUME NEW entries \in Seq(LogEntry)
    PROVE  /\ Closed(entries) => Len(entries) \in At(entries, "run-finished")
           /\ Len(entries) \in At(entries, "run-finished") => Closed(entries)
<1>1. Len(entries) \in Nat /\ (entries # <<>> <=> Len(entries) \in 1 .. Len(entries))
  BY EmptySeq, LenProperties
<1> QED BY <1>1 DEF Closed, At, Last

\* The rows of a log without an end are not closed.
LEMMA NotClosed ==
    ASSUME NEW entries \in Seq(LogEntry), NEW stored \in Seq(Row), Says(stored, entries),
           At(entries, "run-finished") = {}
    PROVE  ~Closed(Bodies(stored))
<1>1. /\ Bodies(stored) = SubSeq(entries, 1, Len(stored)) /\ Len(Bodies(stored)) = Len(stored)
      /\ \A i \in 1 .. Len(stored) : Bodies(stored)[i] = entries[i]
  BY SaysReads
<1>2. Len(stored) \in 0 .. Len(entries)
  BY LenProperties DEF Says
<1>3. Bodies(stored) \in Seq(LogEntry)
  BY <1>1, <1>2, BeginningFacts
<1>4. \A i \in 1 .. Len(stored) : i \in 1 .. Len(entries)
  BY <1>2
<1>5. At(Bodies(stored), "run-finished") = {}
  BY <1>1, <1>4 DEF At
<1> QED BY <1>3, <1>5, ClosedFacts

\* What is told was recorded, or the store was lost, or there was nothing to record.
LEMMA EndsStep ==
    ASSUME TypeOK, Stored, Ends, TypeOK', Stored', [Next]_vars
    PROVE  Ends'
<1>0. log \in Seq(LogEntry) /\ log' \in Seq(LogEntry) /\ rows \in Seq(Row) /\ rows' \in Seq(Row)
      /\ Says(rows, log) /\ Says(rows', log')
  BY DEF TypeOK, Stored
<1>1. pc # "ended" => told = None /\ At(log, "run-finished") = {}
  BY DEF Ends
<1>2. CASE pc = "ended"
  <2>1. UNCHANGED vars
    BY <1>2 DEF Next, Start, StartFails, Halt, Serve, ServeFails, Unparseable, Answer, UseTool,
                Approval, SealFails, Denied, Retrieves, Acts, ExecutionFails, Executes, ToolFailed,
                ToolSucceeded, PersistTurn, PersistFails, Finish, FinishFails, Crash
  <2> QED BY <2>1 DEF vars, Ends, ToldIsRecorded, At
<1>3. CASE pc # "ended" /\ pc' # "ended"
  <2>1. \E kinds : GrewBy(log, log', kinds) /\ "run-finished" \notin kinds
    <3>1. GrewBy(log, log, {})
      <4>1. Len(log) \in Nat /\ Len(log) + 1 .. Len(log) = {}
        BY <1>0, LenProperties
      <4> QED BY <1>0, <4>1 DEF GrewBy
    <3>2. CASE QuietStep \/ PersistTurn
      BY <3>1, <3>2, QuietFacts DEF PersistTurn
    <3>3. CASE ServeFails
      BY <3>3, FailureLogs DEF Calling
    <3>4. ASSUME NEW mid \in Seq(LogEntry), NEW e \in LogEntry, NEW kinds, GrewBy(log, mid, kinds),
                 "run-finished" \notin kinds, e.kind # "run-finished", log' = Append(mid, e)
          PROVE  GrewBy(log, log', kinds \cup {e.kind}) /\ "run-finished" \notin kinds \cup {e.kind}
      <4>1. GrewBy(mid, log', {e.kind})
        BY <3>4, GrewByOne
      <4>2. kinds \subseteq kinds \cup {e.kind} /\ {e.kind} \subseteq kinds \cup {e.kind}
        OBVIOUS
      <4> QED BY <1>0, <3>4, <4>1, <4>2, GrewTwice
    <3>5. CASE Serve
      <4>1. PICK mid \in Seq(LogEntry), c \in Cost :
               GrewBy(log, mid, Calling) /\ Usage(c) \in LogEntry /\ log' = Append(mid, Usage(c))
        BY <3>5, ServeLogs
      <4>2. Usage(c).kind # "run-finished" /\ "run-finished" \notin Calling
        BY DEF Usage, Calling
      <4> QED BY <3>4, <4>1, <4>2
    <3>6. CASE Denied \/ ToolFailed
      <4>1. PICK e \in LogEntry : e.kind = "tool-called" /\ log' = Append(log, e)
        BY <3>6, ToolFailureLogs
      <4>2. e.kind # "run-finished"
        BY <4>1
      <4> QED BY <1>0, <3>1, <3>4, <4>1, <4>2
    <3>7. CASE ToolSucceeded
      <4>1. PICK mid \in Seq(LogEntry), e \in LogEntry :
               GrewBy(log, mid, Railing) /\ e.kind = "tool-called" /\ log' = Append(mid, e)
        BY <3>7, SuccessLogs
      <4>2. e.kind # "run-finished" /\ "run-finished" \notin Railing
        BY <4>1 DEF Railing
      <4> QED BY <3>4, <4>1, <4>2
    <3>8. ~Finish /\ ~FinishFails
      BY <1>3 DEF Finish, FinishFails
    <3> QED BY <3>2, <3>3, <3>5, <3>6, <3>7, <3>8, StepKinds DEF Loud
  <2>2. At(log', "run-finished") = {}
    BY <1>0, <1>1, <1>3, <2>1, GrewAt
  <2>3. told' = None
    <3>1. told' = told
      BY <1>3 DEF Next, Start, StartFails, Halt, Serve, ServeFails, Unparseable, Answer, UseTool,
                  Approval, SealFails, Denied, Retrieves, Acts, ExecutionFails, Executes, ToolFailed,
                  ToolSucceeded, PersistTurn, PersistFails, Finish, FinishFails, Crash, vars
    <3> QED BY <1>1, <1>3, <3>1
  <2>4. pc' = "closing" => ending'.outcome = Meaning(ending'.copy)
    <3>1. CASE Halt
      <4>1. PICK reason \in HaltReason : Close("halted", reason)
        BY <3>1, HaltingFacts DEF Halt
      <4>2. Meaning(reason) = "halted"
        BY DEF Meaning, HaltReason, HaltOrder
      <4>3. ending'.outcome = "halted" /\ ending'.copy = reason
        BY <4>1 DEF Close, Ending
      <4>4. Meaning(ending'.copy) = Meaning(reason)
        BY <4>3 DEF Meaning
      <4> QED BY <4>2, <4>3, <4>4
    <3>2. CASE Answer
      <4>1. ending'.outcome = "succeeded" /\ ending'.copy = "answered"
        BY <3>2 DEF Answer, Close, Ending
      <4> QED BY <4>1 DEF Meaning, HaltReason, HaltOrder
    <3>3. CASE SealFails
      BY <3>3 DEF SealFails, Close, Ending, Meaning, HaltReason, HaltOrder
    <3>4. CASE ServeFails
      <4>1. PICK kind \in {"already-served", "refused", "failed", "unopened"} :
               ending' = Ending(IF kind = "refused" THEN "refused" ELSE "failed",
                                IF kind = "unopened" THEN "failed" ELSE kind)
        BY <3>4 DEF ServeFails, Close, Failures
      <4> QED BY <4>1 DEF Ending, Meaning, HaltReason, HaltOrder
    <3>5. CASE UNCHANGED vars
      BY <3>5 DEF vars, Ends
    <3>6. pc' = "closing" => Halt \/ Answer \/ SealFails \/ ServeFails \/ UNCHANGED vars
      BY DEF Next, Start, StartFails, Serve, Unparseable, UseTool, Approval, Denied, Retrieves,
             Acts, ExecutionFails, Executes, ToolFailed, ToolSucceeded, PersistTurn, PersistFails,
             Finish, FinishFails, Crash, Persist
    <3> QED BY <3>1, <3>2, <3>3, <3>4, <3>5, <3>6
  <2>5. pc' = "start" => log' = <<>>
    <3>1. pc' = "start" => UNCHANGED vars
      BY DEF Next, Start, StartFails, Halt, Serve, ServeFails, Unparseable, Answer, UseTool,
             Approval, SealFails, Denied, Retrieves, Acts, ExecutionFails, Executes, ToolFailed,
             ToolSucceeded, PersistTurn, PersistFails, Finish, FinishFails, Crash, Persist, Close
    <3> QED BY <3>1 DEF vars, Ends
  <2> QED BY <1>3, <2>2, <2>3, <2>4, <2>5 DEF Ends, ToldIsRecorded
<1>4. CASE pc # "ended" /\ pc' = "ended"
  <2>1. StartFails \/ PersistFails \/ Finish \/ FinishFails
    BY <1>4 DEF Next, Start, Halt, Serve, ServeFails, Unparseable, Answer, UseTool,
                Approval, SealFails, Denied, Retrieves, Acts, ExecutionFails, Executes, ToolFailed,
                ToolSucceeded, PersistTurn, Crash, Persist, Close, vars
  <2>2. ToldIsRecorded'
    <3>1. CASE StartFails
      <4>1. told' = "failed" /\ log' = <<>> /\ log' = log /\ rows' = rows
        BY <3>1 DEF StartFails, Ends
      <4> QED BY <1>0, <1>1, <1>4, <4>1, NotClosed DEF ToldIsRecorded
    <3>2. CASE PersistFails
      <4>1. told' = "failed" /\ storeFailed' /\ rows' = rows
        BY <3>2 DEF PersistFails
      <4> QED BY <1>0, <1>1, <1>4, <4>1, NotClosed DEF ToldIsRecorded
    <3>3. CASE FinishFails
      <4>1. told' = "failed" /\ storeFailed' /\ rows' = rows
        BY <3>3 DEF FinishFails
      <4> QED BY <1>0, <1>1, <1>4, <4>1, NotClosed DEF ToldIsRecorded
    <3>4. CASE Finish
      <4> DEFINE e == RunFinished(ending.outcome)
      <4>1. /\ e \in LogEntry /\ e.kind = "run-finished" /\ e.outcome = ending.outcome
            /\ log' = Append(log, e) /\ told' = ending.copy /\ ending.outcome = Meaning(ending.copy)
            /\ rows' = Appended(rows, log')
        BY <3>4, EndLogs DEF Finish, Ends
      <4> HIDE DEF e
      <4>2. Len(log) \in Nat /\ Len(log') = Len(log) + 1 /\ log'[Len(log) + 1] = e
        BY <1>0, <4>1, AppendProperties, LenProperties
      <4>3. Len(rows') = Len(log')
        <5>1. Says(rows, log')
          BY <1>0, LogGrows, SaysMore
        <5> QED BY <1>0, <4>1, <5>1, AppendedSays
      <4>4. /\ Len(Bodies(rows')) = Len(log') /\ Bodies(rows')[Len(log')] = e
            /\ rows'[Len(rows')].body = e /\ Bodies(rows') \in Seq(LogEntry)
        <5>1. /\ Bodies(rows') = SubSeq(log', 1, Len(rows')) /\ Len(Bodies(rows')) = Len(rows')
              /\ \A i \in 1 .. Len(rows') : Bodies(rows')[i] = log'[i] /\ rows'[i].body = log'[i]
          BY <1>0, SaysReads
        <5>2. Len(log') \in 1 .. Len(rows') /\ Len(rows') \in 0 .. Len(log')
          BY <4>2, <4>3
        <5>3. Bodies(rows') \in Seq(LogEntry)
          BY <1>0, <5>1, <5>2, BeginningFacts
        <5> QED BY <4>2, <4>3, <5>1, <5>2, <5>3
      <4>5. Closed(Bodies(rows')) /\ Last(rows').body.outcome = Meaning(told')
        <5>1. Len(Bodies(rows')) \in At(Bodies(rows'), "run-finished")
          BY <4>1, <4>2, <4>4 DEF At
        <5> QED BY <4>1, <4>4, <5>1, ClosedFacts DEF Last
      <4> QED BY <4>5 DEF ToldIsRecorded
    <3> QED BY <2>1, <3>1, <3>2, <3>3, <3>4
  <2> QED BY <1>4, <2>2 DEF Ends
<1> QED BY <1>2, <1>3, <1>4
-----------------------------------------------------------------------------
\* A call at this position was within the limits.
Allowed(entries, i) ==
    /\ Metered(SubSeq(entries, 1, i - 1)) < CostCeiling
    /\ \A j \in 1 .. i - 1 : entries[j].kind = "tool-called" => entries[j].status = "succeeded"

\* What a step that serves no turn adds to the log.
LEMMA AddedKinds ==
    ASSUME TypeOK, [Next]_vars, ~Serve
    PROVE  \E kinds :
              /\ GrewBy(log, log', kinds) /\ "usage-recorded" \notin kinds
              /\ ServeFails \/ "model-invoked" \notin kinds
              /\ Denied \/ ToolFailed \/ ToolSucceeded \/ "tool-called" \notin kinds
<1>0. log \in Seq(LogEntry)
  BY DEF TypeOK
<1>1. GrewBy(log, log, {})
  <2>1. Len(log) \in Nat /\ Len(log) + 1 .. Len(log) = {}
    BY <1>0, LenProperties
  <2> QED BY <1>0, <2>1 DEF GrewBy
<1>2. CASE QuietStep \/ PersistTurn
  <2>1. log' = log
    BY <1>2, QuietFacts DEF PersistTurn
  <2> QED BY <1>1, <2>1
<1>3. CASE ServeFails
  <2>1. "usage-recorded" \notin Calling /\ "tool-called" \notin Calling
    BY DEF Calling
  <2> QED BY <1>3, <2>1, FailureLogs
<1>4. CASE Denied \/ ToolFailed
  <2>1. GrewBy(log, log', {"tool-called"})
    BY <1>0, <1>4, ToolFailureLogs, GrewByOne
  <2> QED BY <1>4, <2>1
<1>5. CASE ToolSucceeded
  <2>1. PICK mid \in Seq(LogEntry), e \in LogEntry :
           GrewBy(log, mid, Railing) /\ e.kind = "tool-called" /\ log' = Append(mid, e)
    BY <1>5, SuccessLogs
  <2>2. GrewBy(mid, log', {"tool-called"})
    BY <2>1, GrewByOne
  <2>3. GrewBy(log, log', Railing \cup {"tool-called"})
    BY <1>0, <2>1, <2>2, GrewTwice
  <2>4. /\ "usage-recorded" \notin Railing \cup {"tool-called"}
        /\ "model-invoked" \notin Railing \cup {"tool-called"}
    BY DEF Railing
  <2> QED BY <1>5, <2>3, <2>4
<1>6. CASE Finish \/ FinishFails
  <2>1. GrewBy(log, log', {"run-finished"})
    BY <1>0, <1>6, EndLogs, GrewByOne
  <2> QED BY <2>1
<1> QED BY <1>2, <1>3, <1>4, <1>5, <1>6, StepKinds DEF Loud

\* A call within the limits is so in a longer log.
LEMMA AllowedKept ==
    ASSUME NEW old \in Seq(LogEntry), NEW new, NEW kinds, GrewBy(old, new, kinds),
           NEW i \in 1 .. Len(old), Allowed(old, i)
    PROVE  Allowed(new, i)
<1>1. Len(old) \in Nat /\ i - 1 \in 0 .. Len(old)
  BY LenProperties
<1>2. SubSeq(new, 1, i - 1) = SubSeq(old, 1, i - 1)
  BY <1>1, GrewBeginning
<1>3. \A j \in 1 .. i - 1 : new[j] = old[j]
  BY <1>1 DEF GrewBy
<1> QED BY <1>2, <1>3 DEF Allowed

\* Calls behind a log that is within the limits are within them.
LEMMA CallsAllowed ==
    ASSUME NEW old \in Seq(LogEntry), NEW new, GrewBy(old, new, Calling),
           Metered(old) < CostCeiling, \A j \in At(old, "tool-called") : old[j].status = "succeeded",
           NEW i \in 1 .. Len(new), i > Len(old)
    PROVE  Allowed(new, i)
<1>1. new \in Seq(LogEntry) /\ Len(old) \in Nat /\ Len(new) \in Nat /\ i - 1 \in 0 .. Len(new)
  BY LenProperties DEF GrewBy
<1> DEFINE before == SubSeq(new, 1, i - 1)
<1>2. before \in Seq(LogEntry) /\ Len(before) = i - 1 /\ \A j \in 1 .. i - 1 : before[j] = new[j]
  BY <1>1, BeginningFacts
<1> HIDE DEF before
<1>3. GrewBy(old, before, Calling)
  <2>1. Len(old) <= Len(before)
    BY <1>1, <1>2
  <2>2. \A j \in 1 .. Len(old) : before[j] = old[j]
    BY <1>1, <1>2 DEF GrewBy
  <2>3. \A j \in Len(old) + 1 .. Len(before) : before[j].kind \in Calling
    BY <1>1, <1>2 DEF GrewBy
  <2> QED BY <1>2, <2>1, <2>2, <2>3 DEF GrewBy
<1>4. "usage-recorded" \notin Calling /\ "tool-called" \notin Calling
  BY DEF Calling
<1>5. Metered(before) = Metered(old)
  BY <1>3, <1>4, GrewMetered
<1>6. At(new, "tool-called") = At(old, "tool-called")
      /\ \A j \in At(old, "tool-called") : new[j] = old[j]
  BY <1>4, GrewAt, GrewKeeps
<1>7. ASSUME NEW j \in 1 .. i - 1, new[j].kind = "tool-called" PROVE new[j].status = "succeeded"
  <2>1. j \in At(new, "tool-called")
    BY <1>1, <1>7 DEF At
  <2> QED BY <1>6, <2>1
<1> QED BY <1>5, <1>7 DEF Allowed, before

\* No turn is served or tried beyond the limits.
LEMMA AllowedStep ==
    ASSUME TypeOK, Limited, TypeOK', [Next]_vars
    PROVE  \A i \in At(log', "model-invoked") : Allowed(log', i)
<1>0. log \in Seq(LogEntry) /\ log' \in Seq(LogEntry) /\ GrewBy(log, log', Kinds)
  BY LogGrows DEF TypeOK
<1>1. ASSUME NEW i \in At(log, "model-invoked") PROVE Allowed(log', i)
  <2>1. i \in 1 .. Len(log) /\ log[i].kind = "model-invoked"
    BY DEF At
  <2>2. Allowed(log, i)
    BY <2>1 DEF Limited, StopsAtItsLimits, Allowed
  <2> QED BY <1>0, <2>1, <2>2, AllowedKept
<1>2. Serve \/ ServeFails => Metered(log) < CostCeiling /\ Verifiable
  <2>1. Serve \/ ServeFails => pc = "turn" /\ Halting = {}
    BY DEF Serve, ServeFails
  <2>2. state.cost \in Nat /\ CostCeiling \in Nat
    BY RunAssumption DEF TypeOK
  <2> QED BY <2>1, <2>2, HaltingFacts DEF Limited
<1>3. ASSUME Serve \/ ServeFails, NEW new, GrewBy(log, new, Calling), NEW i \in At(new, "model-invoked")
      PROVE  i \in At(log, "model-invoked") \/ Allowed(new, i)
  <2>1. i \in At(log, "model-invoked") \/ i > Len(log)
    BY <1>0, <1>3, GrewKeeps
  <2>2. i \in 1 .. Len(new)
    BY DEF At
  <2> QED BY <1>0, <1>2, <1>3, <2>1, <2>2, CallsAllowed DEF Verifiable
<1>4. CASE Serve
  <2>1. PICK mid \in Seq(LogEntry), c \in Cost :
           GrewBy(log, mid, Calling) /\ Usage(c) \in LogEntry /\ log' = Append(mid, Usage(c))
    BY <1>4, ServeLogs
  <2>2. Usage(c).kind = "usage-recorded"
    BY DEF Usage
  <2>3. GrewBy(mid, log', {"usage-recorded"})
    BY <2>1, <2>2, GrewByOne
  <2>4. At(log', "model-invoked") = At(mid, "model-invoked")
    BY <2>3, GrewAt
  <2>5. ASSUME NEW i \in At(mid, "model-invoked") PROVE Allowed(log', i)
    <3>1. i \in At(log, "model-invoked") \/ Allowed(mid, i)
      BY <1>3, <1>4, <2>1
    <3>2. i \in 1 .. Len(mid)
      BY DEF At
    <3> QED BY <1>1, <2>3, <3>1, <3>2, AllowedKept
  <2> QED BY <2>4, <2>5
<1>5. CASE ServeFails
  BY <1>1, <1>3, <1>5, FailureLogs
<1>6. CASE ~Serve /\ ~ServeFails
  <2>1. PICK kinds : GrewBy(log, log', kinds) /\ "model-invoked" \notin kinds
    BY <1>6, AddedKinds
  <2>2. At(log', "model-invoked") = At(log, "model-invoked")
    BY <1>0, <2>1, GrewAt
  <2> QED BY <1>1, <2>2
<1> QED BY <1>4, <1>5, <1>6

\* The counters stay what the log says, and the limits what it keeps to.
LEMMA LimitedStep ==
    ASSUME TypeOK, Limited, TypeOK', [Next]_vars
    PROVE  Limited'
<1>0. log \in Seq(LogEntry) /\ log' \in Seq(LogEntry)
  BY DEF TypeOK
<1> DEFINE turns == Cardinality(At(log, "usage-recorded"))
<1>1. turns \in Nat /\ Metered(log) \in Nat /\ state.iteration \in Nat /\ state.cost \in Nat
      /\ cost \in Nat /\ MaxIterations \in Nat /\ turns <= MaxIterations
  BY <1>0, AtFacts, MeteredType, RunAssumption DEF TypeOK, Limited, StopsAtItsLimits
<1> DEFINE Between == /\ turns' = state'.iteration /\ Metered(log') = state'.cost
                      /\ state'.verified => Verifiable'
           Within == /\ turns' = state'.iteration + 1 /\ Metered(log') = state'.cost + cost'
                     /\ Verifiable'
<1>2. SUFFICES /\ turns' <= MaxIterations
               /\ pc' \in {"start", "turn", "persisting"} => Between
               /\ pc' \in InTurn => Within
  <2>1. \A i \in 1 .. Len(log') : log'[i].kind = "model-invoked" => i \in At(log', "model-invoked")
    BY DEF At
  <2> QED BY <2>1, AllowedStep DEF Limited, StopsAtItsLimits, Allowed
<1>3. ASSUME ~Serve PROVE turns' = turns /\ Metered(log') = Metered(log)
  <2>1. PICK kinds : GrewBy(log, log', kinds) /\ "usage-recorded" \notin kinds
    BY <1>3, AddedKinds
  <2> QED BY <1>0, <2>1, GrewAt, GrewMetered
<1>4. ASSUME NEW kinds, GrewBy(log, log', kinds), "tool-called" \notin kinds, Verifiable
      PROVE  Verifiable'
  <2>1. At(log', "tool-called") = At(log, "tool-called")
        /\ \A j \in At(log, "tool-called") : log'[j] = log[j]
    BY <1>0, <1>4, GrewAt, GrewKeeps
  <2> QED BY <1>4, <2>1 DEF Verifiable
<1>5. ASSUME pc \in InTurn
      PROVE  turns = state.iteration + 1 /\ Metered(log) = state.cost + cost /\ Verifiable
  BY <1>5 DEF Limited
<1>6. pc \in {"start", "turn", "persisting"} =>
         turns = state.iteration /\ Metered(log) = state.cost /\ (state.verified => Verifiable)
  BY DEF Limited
<1> HIDE DEF turns
<1>7. CASE QuietStep
  <2>1. log' = log /\ turns' = turns /\ (Verifiable' <=> Verifiable)
    BY <1>7, QuietFacts DEF turns, Verifiable
  <2>2. pc' \in {"start", "turn"} => Between
    BY <1>6, <1>7, <2>1, QuietFacts
  <2>3. pc' \in InTurn => Within
    BY <1>5, <1>7, <2>1, QuietFacts
  <2>4. pc' = "persisting" => Between
    <3>1. CASE pc = "parsing" /\ state' = Advanced("step-unparseable")
      BY <1>1, <1>5, <2>1, <3>1, AdvancedFacts DEF InTurn
    <3>2. CASE pc = "persisting" /\ state' = state
      BY <1>6, <2>1, <3>2
    <3> QED BY <1>7, <3>1, <3>2, QuietFacts
  <2> QED BY <1>1, <2>1, <2>2, <2>3, <2>4
<1>8. CASE Serve
  <2>1. PICK mid \in Seq(LogEntry), c \in Cost :
           /\ GrewBy(log, mid, Calling) /\ Usage(c) \in LogEntry /\ log' = Append(mid, Usage(c))
           /\ cost' = c
    BY <1>8, ServeLogs
  <2>2. Usage(c).kind = "usage-recorded" /\ Usage(c).cost = c
    BY DEF Usage
  <2>3. pc = "turn" /\ Halting = {} /\ pc' = "parsing" /\ state' = state
    BY <1>8 DEF Serve
  <2>4. state.verified /\ ~(state.iteration >= MaxIterations)
    BY <2>3, HaltingFacts
  <2>5. "usage-recorded" \notin Calling /\ "tool-called" \notin Calling \cup {"usage-recorded"}
    BY DEF Calling
  <2>6. Metered(log') = Metered(log) + c
    <3>1. Metered(mid) = Metered(log)
      BY <1>0, <2>1, <2>5, GrewMetered
    <3> QED BY <2>1, <2>2, <3>1, MeteredFacts DEF Charging
  <2>7. turns' = turns + 1
    <3>1. At(mid, "usage-recorded") = At(log, "usage-recorded")
      BY <1>0, <2>1, <2>5, GrewAt
    <3> QED BY <2>1, <2>2, <3>1, AtAppend DEF turns
  <2>8. Verifiable'
    <3>1. GrewBy(mid, log', {"usage-recorded"})
      BY <2>1, <2>2, GrewByOne
    <3>2. GrewBy(log, log', Calling \cup {"usage-recorded"})
      BY <1>0, <2>1, <3>1, GrewTwice
    <3> QED BY <1>4, <1>6, <2>3, <2>4, <2>5, <3>2
  <2>9. pc' \notin {"start", "turn", "persisting"}
    BY <2>3
  <2> QED BY <1>1, <1>6, <2>1, <2>3, <2>4, <2>6, <2>7, <2>8, <2>9
<1>9. CASE ServeFails \/ Finish \/ FinishFails
  <2>1. pc' \in {"closing", "ended"} /\ ~Serve
    BY <1>9 DEF ServeFails, Close, Finish, FinishFails, Serve
  <2>2. pc' \notin InTurn \cup {"start", "turn", "persisting"}
    BY <2>1 DEF InTurn
  <2> QED BY <1>1, <1>3, <2>1, <2>2
<1>10. CASE Denied \/ ToolFailed
  <2>1. pc' = "persisting" /\ pc \in InTurn /\ state' = Advanced("tool-failed") /\ ~Serve
    BY <1>10 DEF Denied, ToolFailed, Persist, InTurn, Serve
  <2>2. pc' \notin InTurn
    BY <2>1 DEF InTurn
  <2>3. state'.iteration = state.iteration + 1 /\ state'.cost = state.cost + cost /\ ~state'.verified
    BY <2>1, AdvancedFacts
  <2> QED BY <1>1, <1>3, <1>5, <2>1, <2>2, <2>3
<1>11. CASE ToolSucceeded
  <2>1. /\ pc' = "persisting" /\ pc \in InTurn /\ ~Serve
        /\ \E effect : state' = Advanced(effect)
    BY <1>11 DEF ToolSucceeded, Persist, InTurn, Serve
  <2>2. pc' \notin InTurn
    BY <2>1 DEF InTurn
  <2>3. state'.iteration = state.iteration + 1 /\ state'.cost = state.cost + cost
    BY <2>1, AdvancedFacts
  <2>4. PICK mid \in Seq(LogEntry), e \in LogEntry :
           /\ GrewBy(log, mid, Railing) /\ e.kind = "tool-called" /\ e.status = "succeeded"
           /\ log' = Append(mid, e)
    BY <1>11, SuccessLogs
  <2>5. Verifiable'
    <3>1. At(log', "tool-called") = At(mid, "tool-called") \cup {Len(mid) + 1}
          /\ log'[Len(mid) + 1] = e
      BY <2>4, AtAppend, AppendProperties
    <3>2. "tool-called" \notin Railing
      BY DEF Railing
    <3>3. At(mid, "tool-called") = At(log, "tool-called")
          /\ \A j \in At(log, "tool-called") : mid[j] = log[j]
      BY <1>0, <2>4, <3>2, GrewAt, GrewKeeps
    <3>4. \A j \in At(mid, "tool-called") : log'[j] = mid[j]
      <4>1. GrewBy(mid, log', {"tool-called"})
        BY <2>4, GrewByOne
      <4> QED BY <4>1, GrewKeeps
    <3> QED BY <1>5, <2>1, <2>4, <3>1, <3>3, <3>4 DEF Verifiable
  <2> QED BY <1>1, <1>3, <1>5, <2>1, <2>2, <2>3, <2>5
<1>12. CASE PersistTurn
  <2>1. pc = "persisting" /\ pc' = "turn" /\ log' = log /\ state' = state
    BY <1>12 DEF PersistTurn
  <2>2. pc' \notin InTurn /\ turns' = turns /\ (Verifiable' <=> Verifiable)
    BY <2>1 DEF InTurn, turns, Verifiable
  <2> QED BY <1>1, <1>6, <2>1, <2>2
<1> QED BY <1>7, <1>8, <1>9, <1>10, <1>11, <1>12, StepKinds DEF Loud

\* What is shown was admitted, and is on record as retrieved.
LEMMA RailStep ==
    ASSUME TypeOK, RailHolds, [Next]_vars
    PROVE  RailHolds'
<1>0. log \in Seq(LogEntry) /\ GrewBy(log, log', Kinds)
  BY LogGrows DEF TypeOK
<1>1. Len(log) \in Nat /\ \A i \in 1 .. Len(log) : i \in 1 .. Len(log') /\ log'[i] = log[i]
  BY <1>0, LenProperties DEF GrewBy
<1>2. \A chunk \in shown : /\ ~chunk.poisoned
                           /\ \E i \in 1 .. Len(log') : log'[i] = Retrieved(chunk.record)
  BY <1>1 DEF RailHolds
<1>3. CASE ToolSucceeded
  <2>1. PICK mid \in Seq(LogEntry), e \in LogEntry :
           /\ log' = Append(mid, e)
           /\ \A i \in 1 .. Len(Admitted(result.found)) : \E k \in 1 .. Len(mid) :
                 mid[k] = Retrieved(Admitted(result.found)[i].record)
    BY <1>3, SuccessLogs
  <2>2. /\ Len(mid) \in Nat /\ Len(log') = Len(mid) + 1
        /\ \A k \in 1 .. Len(mid) : k \in 1 .. Len(log') /\ log'[k] = mid[k]
    BY <2>1, AppendProperties, LenProperties
  <2>3. result.found \in Seq(Chunk)
    BY <1>3 DEF ToolSucceeded, TypeOK, Result
  <2>4. \A i \in 1 .. Len(Admitted(result.found)) : ~Admitted(result.found)[i].poisoned
    BY <2>3, ScreenedFacts
  <2>5. \A i \in 1 .. Len(Admitted(result.found)) : \E k \in 1 .. Len(log') :
           log'[k] = Retrieved(Admitted(result.found)[i].record)
    BY <2>1, <2>2
  <2>6. \/ shown' = shown
        \/ shown' = shown \cup {Admitted(result.found)[i] : i \in 1 .. Len(Admitted(result.found))}
    BY <1>3 DEF ToolSucceeded
  <2> QED BY <1>2, <2>4, <2>5, <2>6 DEF RailHolds, Retrieved
<1>4. CASE ~ToolSucceeded
  <2>1. shown' = shown
    <3>1. QuietStep => shown' = shown
      BY QuietFacts
    <3>2. Loud => shown' = shown
      BY <1>4 DEF Loud, Serve, ServeFails, Denied, ToolFailed, Finish, FinishFails
    <3>3. PersistTurn => shown' = shown
      BY DEF PersistTurn
    <3> QED BY <3>1, <3>2, <3>3, StepKinds
  <2> QED BY <1>2, <2>1 DEF RailHolds, Retrieved
<1> QED BY <1>3, <1>4

\* What a tool owned up to is logged with its call, before the turn is over.
LEMMA OwnedStep ==
    ASSUME TypeOK, Stored, Owned, TypeOK', Stored', [Next]_vars
    PROVE  Owned'
<1>0. log \in Seq(LogEntry) /\ log' \in Seq(LogEntry) /\ CommittedIn(log) \subseteq CommittedIn(log')
  BY LogGrows, GrewCommitted DEF TypeOK
<1>1. CASE Retrieves \/ Acts \/ ExecutionFails
  <2>1. PICK answer \in Result, effects \in SUBSET Nat :
           Executes(answer, effects) /\ (~answer.ok => answer.committed = {})
    BY <1>1, ExecutesTypes
  <2>2. /\ pc = "executing" /\ pc' = "returning" /\ log' = log /\ result' = answer
        /\ reported' = reported \cup answer.committed
    BY <2>1 DEF Executes
  <2> QED BY <2>1, <2>2 DEF Owned
<1>2. CASE Serve \/ ServeFails \/ Denied \/ ToolFailed
  <2>1. /\ pc \in {"turn", "denying", "returning"} /\ (pc = "returning" => ~result.ok)
        /\ pc' \in {"parsing", "closing", "persisting"} /\ reported' = reported
    BY <1>2 DEF Serve, ServeFails, Denied, ToolFailed, Close, Persist
  <2>2. reported \subseteq CommittedIn(log)
    BY <2>1 DEF Owned
  <2> QED BY <1>0, <2>1, <2>2 DEF Owned
<1>3. CASE ToolSucceeded
  <2>1. PICK mid \in Seq(LogEntry), e \in LogEntry :
           /\ GrewBy(log, mid, Railing) /\ e.kind = "tool-called"
           /\ e.committed = result.committed /\ log' = Append(mid, e)
    BY <1>3, SuccessLogs
  <2>2. CommittedIn(log') = CommittedIn(mid) \cup result.committed
    BY <2>1, CommittedMore
  <2>3. CommittedIn(log) \subseteq CommittedIn(mid)
    BY <1>0, <2>1, GrewCommitted
  <2>4. pc = "returning" /\ pc' = "persisting" /\ reported' = reported
    BY <1>3 DEF ToolSucceeded, Persist
  <2> QED BY <2>2, <2>3, <2>4 DEF Owned
<1>4. CASE PersistTurn
  <2>1. pc = "persisting" /\ pc' = "turn" /\ reported' = reported
    BY <1>4 DEF PersistTurn
  <2> QED BY <1>0, <2>1 DEF Owned
<1>5. CASE Finish
  <2>1. pc = "closing" /\ pc' = "ended" /\ reported' = reported /\ rows' = Appended(rows, log')
    BY <1>5 DEF Finish
  <2>2. Len(rows') = Len(log')
    <3>1. Says(rows, log')
      BY <1>0, LogGrows, SaysMore DEF TypeOK, Stored
    <3> QED BY <1>0, <2>1, <3>1, AppendedSays DEF TypeOK
  <2> QED BY <1>0, <2>1, <2>2 DEF Owned
<1>6. CASE FinishFails \/ PersistFails
  <2>1. pc \in {"closing", "persisting"} /\ pc' = "ended" /\ reported' = reported /\ storeFailed' = TRUE
    BY <1>6 DEF FinishFails, PersistFails
  <2> QED BY <1>0, <2>1 DEF Owned
<1>7. CASE StartFails
  <2>1. pc = "start" /\ pc' = "ended" /\ reported' = reported /\ rows' = rows /\ log' = log
    BY <1>7 DEF StartFails
  <2> QED BY <1>0, <2>1 DEF Owned, Stored
<1>8. CASE Crash
  BY <1>8 DEF Crash, Owned
<1>9. CASE UNCHANGED vars
  BY <1>0, <1>9 DEF vars, Owned
<1>10. CASE \/ Start \/ Halt \/ Unparseable \/ Answer
            \/ \E t \in Tool : UseTool(t)
            \/ \E verdict \in {"approved", "rejected", "timed-out"} : Approval(verdict)
            \/ SealFails
  <2>1. /\ pc \in {"start", "turn", "parsing", "approving", "denying", "executing"}
        /\ pc' \notin {"returning", "crashed", "ended"} /\ reported' = reported
    BY <1>10 DEF Start, Halt, Unparseable, Answer, UseTool, Approval, SealFails, Close, Persist
  <2> QED BY <1>0, <2>1 DEF Owned
<1> QED BY <1>1, <1>2, <1>3, <1>4, <1>5, <1>6, <1>7, <1>8, <1>9, <1>10, StepKinds DEF Loud, QuietStep
-----------------------------------------------------------------------------
\* A run begins with nothing in hand, on record or told.
LEMMA InitInv == Init => IInv
<1> SUFFICES ASSUME Init PROVE IInv
  OBVIOUS
<1>1. /\ pc = "start" /\ log = <<>> /\ rows = <<>> /\ told = None /\ shown = {}
      /\ reported = {} /\ state = [iteration |-> 0, idle |-> 0, cost |-> 0, verified |-> TRUE]
  BY DEF Init
<1>2. log \in Seq(LogEntry) /\ rows \in Seq(Row) /\ Len(log) = 0 /\ Len(rows) = 0 /\ 1 .. 0 = {}
  BY <1>1
<1>3. \A kind : At(log, kind) = {}
  BY <1>2 DEF At
<1>4. TypeOK
  BY <1>2, FS_EmptySet DEF Init, TypeOK
<1>5. Stored
  BY <1>2 DEF Stored, Says
<1>6. OneTurn
  BY <1>3 DEF OneTurn, Unsaved
<1>7. Ends
  BY <1>1, <1>3 DEF Ends, ToldIsRecorded
<1>8. Limited
  <2>1. Metered(log) = 0 /\ Cardinality(At(log, "usage-recorded")) = 0
    BY <1>1, <1>3, MeteredFacts, FS_EmptySet
  <2>2. StopsAtItsLimits
    BY <1>2, <2>1, RunAssumption DEF StopsAtItsLimits
  <2>3. Verifiable
    BY <1>3 DEF Verifiable
  <2>4. "start" \notin InTurn
    BY DEF InTurn
  <2> QED BY <1>1, <2>1, <2>2, <2>3, <2>4 DEF Limited
<1>9. RailHolds
  BY <1>1 DEF RailHolds
<1>10. Owned
  BY <1>1 DEF Owned
<1> QED BY <1>4, <1>5, <1>6, <1>7, <1>8, <1>9, <1>10 DEF IInv

\* The invariant holds throughout.
LEMMA Inductive == Spec => []IInv
<1>1. IInv /\ [Next]_vars => IInv'
  <2> SUFFICES ASSUME IInv, [Next]_vars PROVE IInv'
    OBVIOUS
  <2>1. TypeOK /\ Stored /\ OneTurn /\ Ends /\ Limited /\ RailHolds /\ Owned
    BY DEF IInv
  <2>2. TypeOK' /\ Stored'
    BY <2>1, TypeStep, StoredStep
  <2>3. OneTurn' /\ Ends'
    BY <2>1, <2>2, OneTurnStep, EndsStep
  <2>4. Limited' /\ RailHolds'
    BY <2>1, <2>2, LimitedStep, RailStep
  <2>5. Owned'
    BY <2>1, <2>2, OwnedStep
  <2> QED BY <2>2, <2>3, <2>4, <2>5 DEF IInv
<1> QED BY <1>1, InitInv, PTL DEF Spec

\* The variables of a run keep their types.
THEOREM TypeCorrect == Spec => []TypeOK
<1>1. IInv => TypeOK
  BY DEF IInv
<1> QED BY <1>1, Inductive, PTL

\* Wherever the process dies, the store holds a log that verifies, that is the
\* beginning of what happened and that misses one turn at most.
THEOREM OneTurnIsLost == Spec => []CrashLosesOneTurn
<1>1. IInv => CrashLosesOneTurn
  BY SaysReads DEF IInv, TypeOK, Stored, OneTurn, Unsaved, CrashLosesOneTurn
<1> QED BY <1>1, Inductive, PTL

\* The outcome a caller is told is the one on record, unless the store was lost or
\* the run never began.
THEOREM WhatIsToldIsRecorded == Spec => []ToldIsRecorded
<1>1. IInv => ToldIsRecorded
  BY DEF IInv, Ends
<1> QED BY <1>1, Inductive, PTL

\* No turn is served beyond the limits on turns, on cost and on unverified actions.
THEOREM LoopStops == Spec => []StopsAtItsLimits
<1>1. IInv => StopsAtItsLimits
  BY DEF IInv, Limited
<1> QED BY <1>1, Inductive, PTL

\* The model is shown only what the rail let through, and all of it is on record.
THEOREM OnlyAdmittedIsShown == Spec => []RailHolds
<1>1. IInv => RailHolds
  BY DEF IInv
<1> QED BY <1>1, Inductive, PTL

\* What a tool owned up to is on record before the next turn is planned and before
\* the caller hears of it.
THEOREM EffectsAreOnRecord == Spec => []EffectsAreRecorded
<1>1. ASSUME IInv, pc = "turn" \/ (told # None /\ ~storeFailed)
      PROVE  reported \subseteq CommittedIn(Bodies(rows))
  <2>1. log \in Seq(LogEntry) /\ rows \in Seq(Row) /\ Says(rows, log)
    BY <1>1 DEF IInv, TypeOK, Stored
  <2>2. pc \in {"turn", "ended"} /\ Len(rows) = Len(log)
    BY <1>1 DEF IInv, Stored, Ends, Owned
  <2>3. reported \subseteq CommittedIn(log)
    BY <1>1, <2>2 DEF IInv, Owned
  <2>4. Bodies(rows) = SubSeq(log, 1, Len(log))
    BY <2>1, <2>2, SaysReads
  <2>5. SubSeq(log, 1, Len(log)) = log
    BY <2>1, SubSeqFull
  <2> QED BY <2>3, <2>4, <2>5
<1>2. IInv => EffectsAreRecorded
  BY <1>1 DEF EffectsAreRecorded
<1> QED BY <1>2, Inductive, PTL
-----------------------------------------------------------------------------
(* The tools.                                                              *)

Phases == {"idle", "lookup", "sent", "rendering", "running", "exists", "reading",
           "mkdir", "writing", "done"}

Tools == {"read_file", "write_file", "fetch_url", "run_shell", "render_page"}

\* The names of a path; the provers have to be told that these are strings.
Name == STRING \cup {"", ".", ".."}

Segment == Seq(Name)

\* What a call does, or a receipt says it did.
Deed == ({"requested", "rendered"} \X Host) \cup ({"refused"} \X Nat)
        \cup ({"wrote"} \X (Seq(Name) \cup Seq(Segment))) \cup {<<"ran", "program">>}

ResultKinds == {"acted", "invalid-arguments", "execution-failed", "threw", "output-too-large",
                "timed-out", "sandbox-unavailable", "ok"}

ToolResult == [kind : ResultKinds, committed : SUBSET Deed]

ToolCall ==
    [phase : Phases, tool : Tools \cup {Nothing}, namespace : Namespace \cup {Nothing},
     path : Paths \cup {Nothing},
     target : Url \cup Seq(Name) \cup {Nothing}, contents : Contents \cup {Nothing}, hop : Nat,
     pending : SUBSET Host, refused : SUBSET Host, lookups : SUBSET Host,
     requests : Seq(Host), reached : SUBSET Host, did : SUBSET Deed,
     program : Programs \cup {Nothing}, result : ToolResult \cup {Nothing}]

\* What tool is at work in a phase.
ToolOf ==
    [lookup |-> {"fetch_url", "render_page"}, sent |-> {"fetch_url"},
     rendering |-> {"render_page"}, running |-> {"run_shell"}, exists |-> {"read_file"},
     reading |-> {"read_file"}, mkdir |-> {"write_file"}, writing |-> {"write_file"}]

\* The hosts a call has to do with are its tenant's, ...
Within(call) ==
    call.lookups \cup call.reached \cup call.pending \cup ToSet(call.requests)
       \subseteq EgressFor(call.namespace)

\* ... the one it is about to ask included.
Asking(call) ==
    call.phase \in {"lookup", "sent", "rendering"} =>
       call.target \in Url /\ call.target.host \in EgressFor(call.namespace)

\* A fetch sends a bounded number of requests and nothing else sends any: ...
Bounded(call) ==
    /\ call.hop <= MaxRedirects /\ Len(call.requests) <= MaxRedirects + 1
    /\ call.tool # "fetch_url" => call.requests = <<>>

\* ... one a hop, the last one to the host it is at.
Counted(call) ==
    /\ call.phase = "lookup" /\ call.tool = "fetch_url" => Len(call.requests) = call.hop
    /\ call.phase = "sent" =>
          Len(call.requests) = call.hop + 1 /\ Last(call.requests) = call.target.host

\* What a call under way has done, and that it has a tool.
Underway(call) ==
    /\ call.phase = "idle" => call = Idle
    /\ call.phase \in DOMAIN ToolOf => call.tool \in ToolOf[call.phase]
    /\ call.phase # "done" => call.program = Nothing
    /\ call.phase = "rendering" => call.did = {<<"rendered", call.target.host>>}
    /\ call.phase \notin {"rendering", "done"} => call.did = {}
    /\ IsFiniteSet(call.refused)

\* A call at a file is at what its path was resolved to, and has contents to write.
\* The file is in its tenant's own workspace when the path is plain, not otherwise.
Housed(call) ==
    /\ call.phase \in {"exists", "reading", "mkdir", "writing"} =>
          /\ call.path \in Paths \ {Nothing}
          /\ call.target \in Seq(Name) /\ call.target = SafePath(call.namespace, call.path)
          /\ Plain(call.path) => AtHome(call)
    /\ call.phase \in {"mkdir", "writing"} => call.contents \in Contents

SoundCall(call) ==
    /\ Within(call) /\ Asking(call) /\ Bounded(call) /\ Counted(call)
    /\ Underway(call) /\ Housed(call)
    /\ ReceiptIsTrue(call) /\ TheLimitReportedIsTheOneHit(call)

ToolsTypeOK ==
    /\ calls \in [Call -> ToolCall]
    /\ \E places \in SUBSET Seq(Name) : disk \in [places -> Contents]

\* What is being read is there: no tool removes a file.
ReadsFiles == \A c \in Call : calls[c].phase = "reading" => Place(calls[c].target) \in DOMAIN disk

ToolsInv == ToolsTypeOK /\ ReadsFiles /\ \A c \in Call : SoundCall(calls[c])

-----------------------------------------------------------------------------
\* What a fold makes of a sequence is of its kind when each entry leaves it so.
LEMMA ReadStays ==
    ASSUME NEW fold, NEW S, NEW T, Base(fold) \in T,
           \A y \in T, e \in S : Folding(fold, y, e) \in T
    PROVE  \A s \in Seq(S) : Read(fold, s) \in T
<1> DEFINE K == {n \in Nat : \A s \in Seq(S) : Len(s) = n => Read(fold, s) \in T}
<1>1. 0 \in K
  <2>1. \A s \in Seq(S) : Len(s) = 0 => s = <<>>
    OBVIOUS
  <2>2. Read(fold, <<>>) \in T
    BY ReadFacts
  <2> QED BY <2>1, <2>2
<1>2. ASSUME NEW n \in Nat, n \in K PROVE n + 1 \in K
  <2> SUFFICES ASSUME NEW s \in Seq(S), Len(s) = n + 1 PROVE Read(fold, s) \in T
    OBVIOUS
  <2> DEFINE front == SubSeq(s, 1, n)
             e     == s[n + 1]
  <2>1. front \in Seq(S) /\ Len(front) = n /\ e \in S /\ s = Append(front, e)
    BY FrontFacts
  <2>2. Read(fold, front) \in T
    BY <1>2, <2>1
  <2> HIDE DEF front, e, K
  <2>3. Read(fold, s) = Folding(fold, Read(fold, front), e)
    BY <2>1, ReadFacts
  <2> QED BY <2>1, <2>2, <2>3
<1>3. Nat \subseteq K
  <2> HIDE DEF K
  <2> QED BY <1>1, <1>2, SetInduction
<1> QED BY <1>3

\* Resolving, joining and following a path are folds.
LEMMA PathFolds ==
    /\ \A s \in Seq(Segment) : Resolve(s) = Read("enter", s) /\ Joined(s) = Read("join", s)
    /\ \A s \in Seq(Name) : Place(s) = Read("walk", s)
<1>1. ASSUME NEW s \in Seq(Segment)
      PROVE  Resolve(s) = Read("enter", s) /\ Joined(s) = Read("join", s)
  <2>1. Len(s) \in Nat /\ DOMAIN s = 1 .. Len(s)
    OBVIOUS
  <2>2. Resolve(s) = Read("enter", s)
    BY <2>1 DEF Resolve, FoldLeft, MapThenFoldSet, Read, Reads, Folding, Base
  <2>3. Joined(s) = Read("join", s)
    BY <2>1 DEF Joined, FoldLeft, MapThenFoldSet, Read, Reads, Folding, Base
  <2> QED BY <2>2, <2>3
<1>2. ASSUME NEW s \in Seq(Name) PROVE Place(s) = Read("walk", s)
  <2>1. Len(s) \in Nat /\ DOMAIN s = 1 .. Len(s)
    OBVIOUS
  <2> QED BY <2>1 DEF Place, FoldLeft, MapThenFoldSet, Read, Reads, Folding, Base
<1> QED BY <1>1, <1>2

\* What segments resolve to are segments, their names are names, and so is a place.
LEMMA PathTypes ==
    /\ \A s \in Seq(Segment) : Resolve(s) \in Seq(Segment) /\ Joined(s) \in Seq(Name)
    /\ \A s \in Seq(Name) : Place(s) \in Seq(Name)
<1>1. Base("enter") \in Seq(Segment) /\ Base("join") \in Seq(Name) /\ Base("walk") \in Seq(Name)
  BY EmptySeq DEF Base
<1>2. ASSUME NEW done \in Seq(Segment), NEW e \in Segment
      PROVE  Folding("enter", done, e) \in Seq(Segment)
  <2>1. Append(done, e) \in Seq(Segment) /\ (done # <<>> => Front(done) \in Seq(Segment))
    BY DEF Front
  <2>2. <<"..">> \in Segment
    <3>1. ".." \in Name
      BY DEF Name
    <3> HIDE DEF Name
    <3> QED BY <3>1 DEF Segment
  <2>3. Climbs \in Seq(Segment)
    BY <2>2 DEF Climbs
  <2> QED BY <2>1, <2>3 DEF Folding, Entering
<1>3. ASSUME NEW done \in Seq(Name), NEW e \in Segment
      PROVE  Folding("join", done, e) \in Seq(Name)
  BY ConcatProperties DEF Folding, Segment
<1>4. ASSUME NEW place \in Seq(Name), NEW e \in Name
      PROVE  Folding("walk", place, e) \in Seq(Name)
  <2>1. Append(place, e) \in Seq(Name) /\ (place # <<>> => Front(place) \in Seq(Name))
    BY DEF Front
  <2> QED BY <2>1 DEF Folding, Walking
<1>5. \A s \in Seq(Segment) : Read("enter", s) \in Seq(Segment) /\ Read("join", s) \in Seq(Name)
  BY <1>1, <1>2, <1>3, ReadStays
<1>6. \A s \in Seq(Name) : Read("walk", s) \in Seq(Name)
  BY <1>1, <1>4, ReadStays
<1> QED BY <1>5, <1>6, PathFolds

\* A path that is not refused is joined to names below the tenant's root.
LEMMA SafePathFacts ==
    ASSUME NEW n \in Namespace, NEW path \in Paths, path # Nothing, SafePath(n, path) # Nothing
    PROVE  /\ path \in Seq(Segment) /\ n \in Name
           /\ SafePath(n, path) = <<n>> \o Joined(Resolve(path))
           /\ SafePath(n, path) \in Seq(Name) /\ Resolve(path) # Climbs
<1>1. path \in Seq(Seq(STRING)) /\ n \in STRING
  BY ToolboxAssumption
<1>2. STRING \subseteq Name
  BY DEF Name
<1>3. path \in Seq(Segment) /\ n \in Name
  <2>1. Seq(STRING) \subseteq Segment
    BY <1>2, SeqMonotonic DEF Segment
  <2> QED BY <1>1, <1>2, <2>1, SeqMonotonic
<1>4. SafePath(n, path) = <<n>> \o Joined(Resolve(path)) /\ Resolve(path) # Climbs
  BY DEF SafePath
<1>5. Joined(Resolve(path)) \in Seq(Name) /\ <<n>> \in Seq(Name)
  BY <1>3, PathTypes
<1>6. <<n>> \o Joined(Resolve(path)) \in Seq(Name)
  BY <1>5, ConcatProperties
<1> QED BY <1>3, <1>4, <1>6

\* Names that are neither empty nor point elsewhere, and segments of one of them.
ProperName == Name \ {"", ".", ".."}

Single == {<<x>> : x \in ProperName}

\* Proper names lead where they say.
LEMMA ProperPlace == \A s \in Seq(ProperName) : Place(s) = s
<1> DEFINE K == {n \in Nat : \A s \in Seq(ProperName) : Len(s) = n => Read("walk", s) = s}
<1>1. 0 \in K
  <2>1. \A s \in Seq(ProperName) : Len(s) = 0 => s = <<>>
    OBVIOUS
  <2>2. Read("walk", <<>>) = <<>>
    BY ReadFacts DEF Base
  <2> QED BY <2>1, <2>2
<1>2. ASSUME NEW n \in Nat, n \in K PROVE n + 1 \in K
  <2> SUFFICES ASSUME NEW s \in Seq(ProperName), Len(s) = n + 1 PROVE Read("walk", s) = s
    OBVIOUS
  <2> DEFINE front == SubSeq(s, 1, n)
             e     == s[n + 1]
  <2>1. front \in Seq(ProperName) /\ Len(front) = n /\ e \in ProperName /\ s = Append(front, e)
    BY FrontFacts
  <2>2. Read("walk", front) = front
    BY <1>2, <2>1
  <2> HIDE DEF front, e, K
  <2>3. Read("walk", s) = Folding("walk", front, e)
    <3>1. Read("walk", Append(front, e)) = Folding("walk", Read("walk", front), e)
      BY <2>1, ReadFacts
    <3> QED BY <2>1, <2>2, <3>1
  <2>4. Folding("walk", front, e) = Append(front, e)
    BY <2>1 DEF Folding, Walking, ProperName
  <2> QED BY <2>1, <2>3, <2>4
<1>3. Nat \subseteq K
  <2> HIDE DEF K
  <2> QED BY <1>1, <1>2, SetInduction
<1>4. Seq(ProperName) \subseteq Seq(Name)
  BY SeqMonotonic DEF ProperName
<1> QED BY <1>3, <1>4, PathFolds

\* A plain path resolves to segments of one proper name each, or climbs out.
LEMMA PlainResolve ==
    ASSUME NEW path \in Seq(Segment), Plain(path)
    PROVE  Resolve(path) \in Seq(Single) \cup {Climbs}
<1> DEFINE One == {<<x>> : x \in Name}
<1>1. path \in Seq(One)
  <2>1. ASSUME NEW i \in 1 .. Len(path) PROVE path[i] \in One
    <3>1. path[i] \in Seq(Name) /\ Len(path[i]) = 1
      BY ElementOfSeq DEF Plain, Segment
    <3>2. path[i] = <<path[i][1]>> /\ path[i][1] \in Name
      BY <3>1
    <3> QED BY <3>2
  <2>2. Len(path) \in Nat /\ path = [i \in 1 .. Len(path) |-> path[i]]
    OBVIOUS
  <2> HIDE DEF One
  <2> QED BY <2>1, <2>2, IsASeq
<1>2. Base("enter") \in Seq(Single) \cup {Climbs}
  BY EmptySeq DEF Base
<1>3. ASSUME NEW done \in Seq(Single) \cup {Climbs}, NEW e \in One
      PROVE  Folding("enter", done, e) \in Seq(Single) \cup {Climbs}
  <2>1. PICK x \in Name : e = <<x>>
    OBVIOUS
  <2>2. CASE done = Climbs \/ x \in {"", "."}
    BY <2>1, <2>2 DEF Folding, Entering
  <2>3. CASE done # Climbs /\ x = ".."
    <3>1. done \in Seq(Single) /\ (done # <<>> => Front(done) \in Seq(Single))
      BY <2>3 DEF Front
    <3>2. Entering(done, e) \in {done, Climbs, Front(done)} /\ (done = <<>> => Entering(done, e) \in {done, Climbs})
      BY <2>1, <2>3 DEF Entering
    <3> QED BY <3>1, <3>2 DEF Folding
  <2>4. CASE done # Climbs /\ x \notin {"", ".", ".."}
    <3>1. done \in Seq(Single) /\ e \in Single
      BY <2>1, <2>4 DEF Single, ProperName
    <3>2. e \notin {<<"">>, <<".">>, <<"..">>}
      BY <2>1, <2>4
    <3>3. Entering(done, e) = Append(done, e)
      BY <2>4, <3>2 DEF Entering
    <3> QED BY <3>1, <3>3 DEF Folding
  <2> QED BY <2>2, <2>3, <2>4
<1>4. Read("enter", path) \in Seq(Single) \cup {Climbs}
  <2> HIDE DEF One
  <2> QED BY <1>1, <1>2, <1>3, ReadStays
<1> QED BY <1>4, PathFolds

\* Where a plain path leads is in the workspace of the tenant it was resolved for.
LEMMA PlainStaysHome ==
    ASSUME NEW n \in Namespace, NEW path \in Paths, path # Nothing, SafePath(n, path) # Nothing,
           Plain(path)
    PROVE  Place(SafePath(n, path)) # <<>> /\ Place(SafePath(n, path))[1] = n
<1> DEFINE resolved == Resolve(path)
           names    == Joined(resolved)
<1>1. /\ path \in Seq(Segment) /\ SafePath(n, path) = <<n>> \o names /\ resolved # Climbs
  BY SafePathFacts
<1>2. resolved \in Seq(Single)
  BY <1>1, PlainResolve
<1> HIDE DEF resolved
<1>3. names \in Seq(ProperName)
  <2>1. Base("join") \in Seq(ProperName)
    BY EmptySeq DEF Base
  <2>2. ASSUME NEW done \in Seq(ProperName), NEW e \in Single
        PROVE  Folding("join", done, e) \in Seq(ProperName)
    <3>1. PICK x \in ProperName : e = <<x>>
      BY DEF Single
    <3> HIDE DEF ProperName
    <3>2. <<x>> \in Seq(ProperName)
      OBVIOUS
    <3> QED BY <3>1, <3>2, ConcatProperties DEF Folding
  <2>3. Read("join", resolved) \in Seq(ProperName)
    BY <1>2, <2>1, <2>2, ReadStays
  <2>4. resolved \in Seq(Segment)
    <3>1. ASSUME NEW e \in Single PROVE e \in Segment
      <4>1. PICK x \in Name : e = <<x>>
        BY DEF Single, ProperName
      <4> HIDE DEF Name
      <4>2. <<x>> \in Seq(Name)
        OBVIOUS
      <4> QED BY <4>1, <4>2 DEF Segment
    <3>2. Single \subseteq Segment
      BY <3>1
    <3> QED BY <1>2, <3>2, SeqMonotonic
  <2> QED BY <2>3, <2>4, PathFolds
<1> HIDE DEF names
<1>4. n \in ProperName
  BY ToolboxAssumption DEF ProperName, Name
<1>5. <<n>> \in Seq(ProperName) /\ Len(<<n>>) = 1 /\ <<n>>[1] = n
  BY <1>4
<1>6. /\ <<n>> \o names \in Seq(ProperName) /\ Len(<<n>> \o names) = 1 + Len(names)
      /\ (<<n>> \o names)[1] = n
  BY <1>3, <1>5, ConcatProperties
<1>7. <<n>> \o names # <<>>
  <2>1. Len(names) \in Nat
    BY <1>3
  <2> QED BY <1>6, <2>1, EmptySeq
<1> QED BY <1>1, <1>6, <1>7, ProperPlace

\* The hops of a fetch are counted.
LEMMA RedirectsAreCounted == MaxRedirects \in Nat
BY ToolboxAssumption

\* A call stays one when a field of it gets a value of its kind.
LEMMA CallFields ==
    ASSUME NEW call \in ToolCall
    PROVE  /\ \A phase \in Phases : [call EXCEPT !.phase = phase] \in ToolCall
           /\ \A requests \in Seq(Host) : [call EXCEPT !.requests = requests] \in ToolCall
           /\ \A did \in SUBSET Deed : [call EXCEPT !.did = did] \in ToolCall
           /\ \A contents \in Contents \cup {Nothing} :
                 [call EXCEPT !.contents = contents] \in ToolCall
<1>1. ASSUME NEW phase \in Phases PROVE [call EXCEPT !.phase = phase] \in ToolCall
  BY DEF ToolCall
<1>2. ASSUME NEW requests \in Seq(Host) PROVE [call EXCEPT !.requests = requests] \in ToolCall
  BY DEF ToolCall
<1>3. ASSUME NEW did \in SUBSET Deed PROVE [call EXCEPT !.did = did] \in ToolCall
  BY DEF ToolCall
<1>4. ASSUME NEW contents \in Contents \cup {Nothing}
      PROVE  [call EXCEPT !.contents = contents] \in ToolCall
  BY DEF ToolCall
<1> QED BY <1>1, <1>2, <1>3, <1>4

\* One request more.
LEMMA OneRequestMore ==
    ASSUME NEW s \in Seq(Host), NEW h \in Host
    PROVE  /\ Append(s, h) \in Seq(Host) /\ Len(Append(s, h)) = Len(s) + 1
           /\ Last(Append(s, h)) = h /\ ToSet(Append(s, h)) = ToSet(s) \cup {h}
           /\ Append(s, h) # <<>>
<1>1. /\ Len(s) \in Nat /\ DOMAIN s = 1 .. Len(s)
      /\ Append(s, h) \in Seq(Host) /\ Len(Append(s, h)) = Len(s) + 1
      /\ DOMAIN Append(s, h) = 1 .. Len(s) + 1
      /\ \A i \in 1 .. Len(s) : Append(s, h)[i] = s[i]
      /\ Append(s, h)[Len(s) + 1] = h
  BY AppendProperties, LenProperties
<1>2. 1 .. Len(s) + 1 = (1 .. Len(s)) \cup {Len(s) + 1}
  BY <1>1
<1>3. ToSet(Append(s, h)) = ToSet(s) \cup {h}
  BY <1>1, <1>2 DEF ToSet
<1>4. Append(s, h) # <<>>
  BY <1>1, EmptySeq
<1> QED BY <1>1, <1>3, <1>4 DEF Last

\* A call that moves from one sound state to another keeps every call sound.
LEMMA MovedKeeps ==
    ASSUME ToolsInv, NEW c \in Call, NEW call \in ToolCall, SoundCall(call), Moved(c, call),
           call.phase = "reading" => Place(call.target) \in DOMAIN disk',
           DOMAIN disk \subseteq DOMAIN disk',
           \E places \in SUBSET Seq(Name) : disk' \in [places -> Contents]
    PROVE  ToolsInv'
<1>1. calls \in [Call -> ToolCall] /\ calls' = [calls EXCEPT ![c] = call]
  BY DEF ToolsInv, ToolsTypeOK, Moved
<1>2. calls' \in [Call -> ToolCall] /\ calls'[c] = call
  BY <1>1
<1>3. \A d \in Call : d # c => calls'[d] = calls[d]
  BY <1>1
<1>4. \A d \in Call : SoundCall(calls'[d])
  BY <1>2, <1>3 DEF ToolsInv
<1>5. ReadsFiles'
  BY <1>2, <1>3 DEF ToolsInv, ReadsFiles
<1> QED BY <1>2, <1>4, <1>5 DEF ToolsInv, ToolsTypeOK

\* The same, of a step that writes no file.
LEMMA MovedAlone ==
    ASSUME ToolsInv, NEW c \in Call, NEW call \in ToolCall, SoundCall(call), Moved(c, call),
           UNCHANGED disk, call.phase # "reading"
    PROVE  ToolsInv'
<1>1. \E places \in SUBSET Seq(Name) : disk' \in [places -> Contents]
  BY DEF ToolsInv, ToolsTypeOK
<1> QED BY <1>1, MovedKeeps

\* A call with other fields at its end.
LEMMA EndedFacts ==
    ASSUME NEW call \in ToolCall, NEW kind \in ResultKinds, NEW committed \in SUBSET Deed
    PROVE  LET e == Ended(call, kind, committed) IN
           /\ e \in ToolCall /\ e.phase = "done"
           /\ e.result = [kind |-> kind, committed |-> committed]
           /\ e.tool = call.tool /\ e.namespace = call.namespace /\ e.target = call.target
           /\ e.hop = call.hop /\ e.pending = call.pending /\ e.refused = call.refused
           /\ e.lookups = call.lookups /\ e.requests = call.requests /\ e.reached = call.reached
           /\ e.did = call.did /\ e.program = call.program /\ e.contents = call.contents
           /\ e.path = call.path
<1>1. [kind |-> kind, committed |-> committed] \in ToolResult
  BY DEF ToolResult
<1>2. "done" \in Phases
  BY DEF Phases
<1> QED BY <1>1, <1>2 DEF Ended, ToolCall

\* A call that ends with a report that is true ends soundly.
LEMMA EndsSoundly ==
    ASSUME NEW call \in ToolCall, Within(call), Bounded(call), IsFiniteSet(call.refused),
           NEW kind \in ResultKinds, NEW committed \in SUBSET Deed,
           ReceiptIsTrue(Ended(call, kind, committed)),
           TheLimitReportedIsTheOneHit(Ended(call, kind, committed))
    PROVE  Ended(call, kind, committed) \in ToolCall /\ SoundCall(Ended(call, kind, committed))
<1> DEFINE e == Ended(call, kind, committed)
<1>1. /\ e \in ToolCall /\ e.phase = "done"
      /\ e.tool = call.tool /\ e.namespace = call.namespace
      /\ e.hop = call.hop /\ e.pending = call.pending /\ e.refused = call.refused
      /\ e.lookups = call.lookups /\ e.requests = call.requests /\ e.reached = call.reached
  BY EndedFacts
<1>2. ReceiptIsTrue(e) /\ TheLimitReportedIsTheOneHit(e)
  OBVIOUS
<1> HIDE DEF e
<1>3. Within(e) /\ Asking(e)
  BY <1>1 DEF Within, Asking
<1>4. Bounded(e) /\ Counted(e)
  BY <1>1 DEF Bounded, Counted
<1>5. Underway(e) /\ Housed(e)
  BY <1>1 DEF Underway, ToolOf, Housed
<1>6. e \in ToolCall /\ SoundCall(e)
  BY <1>1, <1>2, <1>3, <1>4, <1>5 DEF SoundCall
<1> QED BY <1>6 DEF e

\* A call that has written nothing may fail at any point.
LEMMA FailsSoundly ==
    ASSUME NEW call \in ToolCall, Within(call), Bounded(call), IsFiniteSet(call.refused),
           call.program = Nothing, \A d \in call.did : d[1] # "wrote",
           NEW kind \in ResultKinds \ {"acted"}
    PROVE  Ended(call, kind, {}) \in ToolCall /\ SoundCall(Ended(call, kind, {}))
<1> DEFINE e == Ended(call, kind, {})
<1>1. {} \in SUBSET Deed
  OBVIOUS
<1>2. /\ e.result = [kind |-> kind, committed |-> {}]
      /\ e.did = call.did /\ e.program = call.program
  BY <1>1, EndedFacts
<1> HIDE DEF e
<1>3. ReceiptIsTrue(e)
  BY <1>2 DEF ReceiptIsTrue
<1>4. TheLimitReportedIsTheOneHit(e)
  BY <1>2 DEF TheLimitReportedIsTheOneHit
<1> QED BY <1>1, <1>3, <1>4, EndsSoundly DEF e

\* A call of a tool, before anything is known of it.
LEMMA CalledFacts ==
    ASSUME ToolsInv, NEW c \in Call, calls[c].phase = "idle",
           NEW name \in Tools, NEW n \in Namespace,
           NEW target \in Url \cup Seq(Name) \cup {Nothing}
    PROVE  LET call == Called(c, name, n, target) IN
           /\ call \in ToolCall /\ call.phase = "idle"
           /\ call.tool = name /\ call.namespace = n /\ call.target = target
           /\ call.hop = 0 /\ call.requests = <<>> /\ call.did = {} /\ call.program = Nothing
           /\ call.refused = {} /\ Within(call) /\ Bounded(call) /\ IsFiniteSet(call.refused)
<1> DEFINE call == Called(c, name, n, target)
<1>1. calls[c] = Idle /\ calls[c] \in ToolCall
  BY DEF ToolsInv, ToolsTypeOK, SoundCall, Underway
<1>2. /\ call \in ToolCall /\ call.phase = "idle"
      /\ call.tool = name /\ call.namespace = n /\ call.target = target
      /\ call.hop = 0 /\ call.requests = <<>> /\ call.did = {} /\ call.program = Nothing
      /\ call.refused = {} /\ call.lookups = {} /\ call.reached = {} /\ call.pending = {}
  <2> DEFINE old == calls[c]
  <2>1. /\ old \in ToolCall /\ old.phase = "idle" /\ old.hop = 0 /\ old.requests = <<>>
        /\ old.did = {} /\ old.program = Nothing /\ old.refused = {} /\ old.lookups = {}
        /\ old.reached = {} /\ old.pending = {}
    BY <1>1 DEF Idle
  <2>2. call = [old EXCEPT !.tool = name, !.namespace = n, !.target = target]
    BY DEF Called
  <2> HIDE DEF old, call
  <2>3. /\ call.phase = "idle" /\ call.tool = name /\ call.namespace = n /\ call.target = target
        /\ call.hop = 0 /\ call.requests = <<>> /\ call.did = {} /\ call.program = Nothing
        /\ call.refused = {} /\ call.lookups = {} /\ call.reached = {} /\ call.pending = {}
    BY <2>1, <2>2 DEF ToolCall
  <2>4. call \in ToolCall
    BY <2>1, <2>2 DEF ToolCall
  <2> QED BY <2>3, <2>4
<1> HIDE DEF call
<1>3. ToSet(<<>>) = {} /\ Len(<<>>) = 0
  BY DEF ToSet
<1>4. Within(call)
  BY <1>2, <1>3 DEF Within
<1>5. Bounded(call)
  BY <1>2, <1>3, RedirectsAreCounted DEF Bounded
<1>6. IsFiniteSet(call.refused)
  BY <1>2, FS_EmptySet
<1> QED BY <1>2, <1>4, <1>5, <1>6 DEF call

\* A tool that takes a URL is sound whether or not it goes on to resolve it.
LEMMA AskedSoundly ==
    ASSUME NEW call \in ToolCall, NEW url \in Urls,
           call.tool \in {"fetch_url", "render_page"}, call.target = url,
           Within(call), Bounded(call), IsFiniteSet(call.refused),
           call.tool = "fetch_url" => Len(call.requests) = call.hop,
           call.did = {}, call.program = Nothing
    PROVE  Asked(call, url) \in ToolCall /\ SoundCall(Asked(call, url))
<1>1. CASE url # Nothing /\ PermitHost(url, call.namespace)
  <2> DEFINE e == [call EXCEPT !.phase = "lookup"]
  <2>1. /\ e \in ToolCall /\ e.phase = "lookup"
        /\ e.tool = call.tool /\ e.namespace = call.namespace /\ e.target = url
        /\ e.hop = call.hop /\ e.pending = call.pending /\ e.refused = call.refused
        /\ e.lookups = call.lookups /\ e.requests = call.requests /\ e.reached = call.reached
        /\ e.did = {} /\ e.program = Nothing
    BY DEF ToolCall, Phases
  <2> HIDE DEF e
  <2>2. Within(e) /\ Asking(e)
    BY <1>1, <2>1, ToolboxAssumption DEF Within, Asking, PermitHost
  <2>3. Bounded(e) /\ Counted(e)
    BY <2>1 DEF Bounded, Counted
  <2>4. Underway(e) /\ Housed(e)
    BY <2>1 DEF Underway, ToolOf, Housed
  <2>5. ReceiptIsTrue(e) /\ TheLimitReportedIsTheOneHit(e)
    BY <2>1 DEF ReceiptIsTrue, TheLimitReportedIsTheOneHit
  <2>6. e \in ToolCall /\ SoundCall(e)
    BY <2>1, <2>2, <2>3, <2>4, <2>5 DEF SoundCall
  <2> QED BY <1>1, <2>6 DEF Asked, e
<1>2. CASE ~(url # Nothing /\ PermitHost(url, call.namespace))
  <2>1. "invalid-arguments" \in ResultKinds \ {"acted"}
    BY DEF ResultKinds
  <2> QED BY <1>2, <2>1, FailsSoundly DEF Asked, Invalid
<1> QED BY <1>1, <1>2

\* What is not a write is told as it is.
LEMMA ToldAsItIs ==
    ASSUME NEW n, NEW committed, \A d \in committed : d[1] # "wrote"
    PROVE  Told(n, committed) = committed
<1> QED BY DEF Told

\* What is known of a call under way.
LEMMA UnderwayFacts ==
    ASSUME ToolsInv, NEW c \in Call, calls[c].phase \in DOMAIN ToolOf
    PROVE  /\ calls[c] \in ToolCall /\ SoundCall(calls[c])
           /\ Within(calls[c]) /\ Bounded(calls[c]) /\ IsFiniteSet(calls[c].refused)
           /\ calls[c].program = Nothing /\ \A d \in calls[c].did : d[1] # "wrote"
           /\ calls[c].tool \in ToolOf[calls[c].phase]
           /\ calls[c].phase # "rendering" => calls[c].did = {}
<1>1. calls[c] \in ToolCall /\ SoundCall(calls[c])
  BY DEF ToolsInv, ToolsTypeOK
<1>2. calls[c].phase \notin {"idle", "done"}
  BY DEF ToolOf
<1> QED BY <1>1, <1>2 DEF SoundCall, Underway

\* A call goes on to a stretch that asks no host.
LEMMA StandsSoundly ==
    ASSUME NEW call \in ToolCall, Within(call), Bounded(call), IsFiniteSet(call.refused),
           call.did = {}, call.program = Nothing,
           NEW phase \in {"running", "exists", "reading", "mkdir", "writing"},
           call.tool \in ToolOf[phase], Housed([call EXCEPT !.phase = phase])
    PROVE  [call EXCEPT !.phase = phase] \in ToolCall /\ SoundCall([call EXCEPT !.phase = phase])
<1> DEFINE e == [call EXCEPT !.phase = phase]
<1>1. /\ e \in ToolCall /\ e.phase = phase
      /\ e.tool = call.tool /\ e.namespace = call.namespace
      /\ e.hop = call.hop /\ e.pending = call.pending /\ e.refused = call.refused
      /\ e.lookups = call.lookups /\ e.requests = call.requests /\ e.reached = call.reached
      /\ e.did = {} /\ e.program = Nothing
  BY DEF ToolCall, Phases
<1>2. Housed(e)
  OBVIOUS
<1> HIDE DEF e
<1>3. Within(e) /\ Asking(e)
  BY <1>1 DEF Within, Asking
<1>4. Bounded(e) /\ Counted(e)
  BY <1>1 DEF Bounded, Counted
<1>5. Underway(e)
  BY <1>1 DEF Underway
<1>6. ReceiptIsTrue(e) /\ TheLimitReportedIsTheOneHit(e)
  BY <1>1 DEF ReceiptIsTrue, TheLimitReportedIsTheOneHit
<1>7. e \in ToolCall /\ SoundCall(e)
  BY <1>1, <1>2, <1>3, <1>4, <1>5, <1>6 DEF SoundCall
<1> QED BY <1>7 DEF e

\* The kinds of a failure.
LEMMA FailureKinds == {"invalid-arguments", "execution-failed", "threw"} \subseteq ResultKinds \ {"acted"}
<1> QED BY DEF ResultKinds

-----------------------------------------------------------------------------
(* The steps of the tools that ask hosts.                                   *)

\* A fetch is asked for.
LEMMA CallFetchKeeps ==
    ASSUME ToolsInv, NEW c \in Call, NEW n \in Namespace, NEW url \in Urls, CallFetch(c, n, url)
    PROVE  ToolsInv'
<1> DEFINE call == Called(c, "fetch_url", n, url)
<1>1. calls[c].phase = "idle" /\ Moved(c, Asked(call, url)) /\ UNCHANGED disk
  BY DEF CallFetch, Calls
<1>2. "fetch_url" \in Tools /\ url \in Url \cup Seq(Name) \cup {Nothing}
  BY ToolboxAssumption DEF Tools
<1>3. /\ call \in ToolCall /\ call.phase = "idle" /\ call.tool = "fetch_url"
      /\ call.target = url /\ call.hop = 0 /\ call.requests = <<>> /\ call.did = {}
      /\ call.program = Nothing /\ Within(call) /\ Bounded(call) /\ IsFiniteSet(call.refused)
  BY <1>1, <1>2, CalledFacts
<1> HIDE DEF call
<1>4. Asked(call, url) \in ToolCall /\ SoundCall(Asked(call, url))
  BY <1>3, AskedSoundly
<1>5. Asked(call, url).phase # "reading"
  BY <1>3 DEF Asked, Invalid, Ended, ToolCall
<1> QED BY <1>1, <1>4, <1>5, MovedAlone

\* A rendering is asked for.
LEMMA CallRenderKeeps ==
    ASSUME ToolsInv, NEW c \in Call, NEW n \in Namespace, NEW url \in Urls, CallRender(c, n, url)
    PROVE  ToolsInv'
<1> DEFINE call == Called(c, "render_page", n, url)
<1>1. calls[c].phase = "idle" /\ Moved(c, Asked(call, url)) /\ UNCHANGED disk
  BY DEF CallRender, Calls
<1>2. "render_page" \in Tools /\ url \in Url \cup Seq(Name) \cup {Nothing}
  BY ToolboxAssumption DEF Tools
<1>3. /\ call \in ToolCall /\ call.phase = "idle" /\ call.tool = "render_page"
      /\ call.target = url /\ call.hop = 0 /\ call.requests = <<>> /\ call.did = {}
      /\ call.program = Nothing /\ Within(call) /\ Bounded(call) /\ IsFiniteSet(call.refused)
  BY <1>1, <1>2, CalledFacts
<1> HIDE DEF call
<1>4. Asked(call, url) \in ToolCall /\ SoundCall(Asked(call, url))
  BY <1>3, AskedSoundly
<1>5. Asked(call, url).phase # "reading"
  BY <1>3 DEF Asked, Invalid, Ended, ToolCall
<1> QED BY <1>1, <1>4, <1>5, MovedAlone

\* A call that has failed is over.
LEMMA FailedKeeps ==
    ASSUME ToolsInv, NEW c \in Call, NEW call \in ToolCall, Within(call), Bounded(call),
           IsFiniteSet(call.refused), call.program = Nothing, \A d \in call.did : d[1] # "wrote",
           UNCHANGED disk,
           Moved(c, Failed(call)) \/ Moved(c, Threw(call)) \/ Moved(c, Invalid(call))
    PROVE  ToolsInv'
<1>1. PICK kind \in {"invalid-arguments", "execution-failed", "threw"} :
         Moved(c, Ended(call, kind, {}))
  BY DEF Failed, Threw, Invalid
<1>2. kind \in ResultKinds \ {"acted"}
  BY FailureKinds
<1>3. Ended(call, kind, {}) \in ToolCall /\ SoundCall(Ended(call, kind, {}))
  BY <1>2, FailsSoundly
<1>4. Ended(call, kind, {}).phase # "reading"
  BY DEF Ended, ToolCall
<1> QED BY <1>1, <1>3, <1>4, MovedAlone

\* A name is resolved.
LEMMA LookupKeeps ==
    ASSUME ToolsInv, NEW c \in Call, NEW answer \in Answers, Lookup(c, answer)
    PROVE  ToolsInv'
<1> DEFINE old  == calls[c]
           host == old.target.host
           call == [old EXCEPT !.lookups = @ \cup {host}]
<1>1. old.phase = "lookup" /\ UNCHANGED disk
  BY DEF Lookup
<1>2. /\ old \in ToolCall /\ SoundCall(old) /\ Within(old) /\ Bounded(old)
      /\ IsFiniteSet(old.refused) /\ old.program = Nothing /\ old.did = {}
      /\ old.tool \in {"fetch_url", "render_page"}
  BY <1>1, UnderwayFacts DEF ToolOf
<1>3. old.target \in Url /\ host \in Host /\ host \in EgressFor(old.namespace)
      /\ (old.tool = "fetch_url" => Len(old.requests) = old.hop)
  BY <1>1, <1>2 DEF SoundCall, Asking, Counted, Url
<1>4. /\ answer = "none" => Moved(c, Failed(call))
      /\ answer = "private" => Moved(c, Invalid(call))
      /\ answer = "public" => Moved(c, Proceeds(call, host))
  BY DEF Lookup, Answers
<1> HIDE DEF host
<1>5. /\ call \in ToolCall /\ call.phase = "lookup" /\ call.tool = old.tool
      /\ call.namespace = old.namespace /\ call.target = old.target /\ call.hop = old.hop
      /\ call.pending = old.pending /\ call.refused = old.refused
      /\ call.lookups = old.lookups \cup {host} /\ call.requests = old.requests
      /\ call.reached = old.reached /\ call.did = {} /\ call.program = Nothing
  BY <1>1, <1>2, <1>3 DEF ToolCall
<1> HIDE DEF call, old
<1>6. Within(call) /\ Bounded(call) /\ IsFiniteSet(call.refused)
  BY <1>2, <1>3, <1>5 DEF Within, Bounded
<1>7. CASE answer \in {"none", "private"}
  BY <1>1, <1>4, <1>5, <1>6, <1>7, FailedKeeps
<1>8. CASE answer = "public"
  <2> DEFINE e == Proceeds(call, host)
  <2>1. /\ Append(call.requests, host) \in Seq(Host)
        /\ call.tool = "fetch_url" => Len(Append(call.requests, host)) = call.hop + 1
        /\ Last(Append(call.requests, host)) = host
        /\ ToSet(Append(call.requests, host)) = ToSet(call.requests) \cup {host}
    BY <1>2, <1>3, <1>5, OneRequestMore DEF ToolCall
  <2>2. <<"rendered", host>> \in Deed
    BY <1>3 DEF Deed
  <2>3. /\ e \in ToolCall /\ e.tool = call.tool /\ e.namespace = call.namespace
        /\ e.target = call.target /\ e.hop = call.hop /\ e.pending = call.pending
        /\ e.refused = call.refused /\ e.lookups = call.lookups /\ e.reached = call.reached
        /\ e.program = Nothing
        /\ IF call.tool = "fetch_url"
             THEN e.phase = "sent" /\ e.requests = Append(call.requests, host) /\ e.did = {}
             ELSE /\ e.phase = "rendering" /\ e.requests = call.requests
                  /\ e.did = {<<"rendered", host>>}
    <3>1. CASE call.tool = "fetch_url"
      <4>1. e = [call EXCEPT !.phase = "sent", !.requests = Append(@, host)]
        BY <3>1 DEF Proceeds
      <4> HIDE DEF e
      <4>2. e \in ToolCall
        <5> DEFINE more == Append(call.requests, host)
                   sent == [call EXCEPT !.phase = "sent"]
        <5>1. sent \in ToolCall
          BY <1>5, CallFields DEF Phases
        <5>3. e = [sent EXCEPT !.requests = more]
          BY <1>5, <4>1 DEF ToolCall
        <5>2. more \in Seq(Host)
          BY <2>1
        <5> HIDE DEF sent, more
        <5> QED BY <5>1, <5>2, <5>3, CallFields
      <4> QED BY <1>5, <3>1, <4>1, <4>2 DEF ToolCall
    <3>2. CASE call.tool # "fetch_url"
      <4>1. e = [call EXCEPT !.phase = "rendering", !.did = {<<"rendered", host>>}]
        BY <3>2 DEF Proceeds
      <4> HIDE DEF e
      <4>2. e \in ToolCall
        <5> DEFINE did       == {<<"rendered", host>>}
                   rendering == [call EXCEPT !.phase = "rendering"]
        <5>1. rendering \in ToolCall
          BY <1>5, CallFields DEF Phases
        <5>3. e = [rendering EXCEPT !.did = did]
          BY <1>5, <4>1 DEF ToolCall
        <5>2. did \in SUBSET Deed
          BY <2>2
        <5> HIDE DEF rendering, did
        <5> QED BY <5>1, <5>2, <5>3, CallFields
      <4> QED BY <1>5, <3>2, <4>1, <4>2 DEF ToolCall
    <3> QED BY <3>1, <3>2
  <2>4. call.hop \in Nat /\ call.target.host = host
    BY <1>5 DEF ToolCall, host, old
  <2> HIDE DEF e
  <2>5. Within(e)
    BY <1>3, <1>5, <1>6, <2>1, <2>3 DEF Within
  <2>6. Asking(e)
    <3>1. e.target = old.target /\ e.namespace = old.namespace
      BY <1>5, <2>3
    <3>2. e.target.host = host
      BY <1>5, <2>4, <3>1
    <3>3. e.target \in Url /\ e.target.host \in EgressFor(e.namespace)
      BY <1>3, <3>1, <3>2
    <3> QED BY <3>3 DEF Asking
  <2>7. Bounded(e) /\ Counted(e)
    <3>1. /\ call.hop \in Nat /\ call.hop <= MaxRedirects /\ MaxRedirects \in Nat
          /\ Len(call.requests) <= MaxRedirects + 1 /\ e.target.host = host
          /\ call.tool # "fetch_url" => call.requests = <<>>
      BY <1>6, <2>3, <2>4, ToolboxAssumption DEF Bounded
    <3>2. CASE call.tool = "fetch_url"
      <4>1. /\ e.phase = "sent" /\ e.hop = call.hop /\ e.tool = "fetch_url"
            /\ Len(e.requests) = call.hop + 1 /\ Last(e.requests) = host
        BY <2>1, <2>3, <3>2
      <4> QED BY <3>1, <4>1 DEF Bounded, Counted
    <3>3. CASE call.tool # "fetch_url"
      <4>1. /\ e.phase = "rendering" /\ e.hop = call.hop /\ e.tool # "fetch_url"
            /\ e.requests = call.requests
        BY <2>3, <3>3
      <4> QED BY <3>1, <3>3, <4>1 DEF Bounded, Counted
    <3> QED BY <3>2, <3>3
  <2>8. Underway(e) /\ Housed(e)
    BY <1>2, <1>5, <1>6, <2>3, <2>4 DEF Underway, ToolOf, Housed
  <2>9. ReceiptIsTrue(e) /\ TheLimitReportedIsTheOneHit(e)
    BY <2>3 DEF ReceiptIsTrue, TheLimitReportedIsTheOneHit
  <2>10. SoundCall(e) /\ Moved(c, e) /\ e.phase # "reading"
    BY <1>4, <1>8, <2>3, <2>5, <2>6, <2>7, <2>8, <2>9 DEF SoundCall, e
  <2> QED BY <1>1, <2>3, <2>10, MovedAlone
<1> QED BY <1>7, <1>8 DEF Answers

\* A request fails.
LEMMA FetchFailsKeeps ==
    ASSUME ToolsInv, NEW c \in Call, FetchFails(c)
    PROVE  ToolsInv'
<1>1. calls[c].phase \in DOMAIN ToolOf /\ UNCHANGED disk
      /\ (Moved(c, Failed(calls[c])) \/ Moved(c, Threw(calls[c])))
  BY DEF FetchFails, ToolOf
<1> QED BY <1>1, UnderwayFacts, FailedKeeps

\* What is known of a fetch that waits for its answer.
LEMMA SentFacts ==
    ASSUME ToolsInv, NEW c \in Call, calls[c].phase = "sent"
    PROVE  /\ calls[c] \in ToolCall /\ SoundCall(calls[c])
           /\ Within(calls[c]) /\ Bounded(calls[c]) /\ IsFiniteSet(calls[c].refused)
           /\ calls[c].program = Nothing /\ calls[c].did = {} /\ calls[c].tool = "fetch_url"
           /\ calls[c].hop \in Nat /\ calls[c].target.host \in Host
           /\ Len(calls[c].requests) = calls[c].hop + 1 /\ calls[c].requests # <<>>
           /\ Last(calls[c].requests) = calls[c].target.host
<1>1. calls[c].phase \in DOMAIN ToolOf /\ ToolOf[calls[c].phase] = {"fetch_url"}
  BY DEF ToolOf
<1>2. /\ calls[c] \in ToolCall /\ SoundCall(calls[c])
      /\ Within(calls[c]) /\ Bounded(calls[c]) /\ IsFiniteSet(calls[c].refused)
      /\ calls[c].program = Nothing /\ calls[c].did = {} /\ calls[c].tool = "fetch_url"
  BY <1>1, UnderwayFacts
<1>3. calls[c].target \in Url /\ calls[c].hop \in Nat
  BY <1>2 DEF SoundCall, Asking, ToolCall
<1>4. calls[c].target.host \in Host
  BY <1>3 DEF Url
<1>5. /\ Len(calls[c].requests) = calls[c].hop + 1
      /\ Last(calls[c].requests) = calls[c].target.host
  BY <1>2 DEF SoundCall, Counted
<1>6. calls[c].requests # <<>>
  BY <1>3, <1>5, EmptySeq
<1> QED BY <1>2, <1>3, <1>4, <1>5, <1>6

\* A redirect is followed, or not.
LEMMA RedirectKeeps ==
    ASSUME ToolsInv, NEW c \in Call, NEW url \in Urls, Redirect(c, url)
    PROVE  ToolsInv'
<1> DEFINE call == calls[c]
           next == Hopped(call, url)
<1>1. call.phase = "sent" /\ UNCHANGED disk
  BY DEF Redirect
<1>2. /\ call \in ToolCall /\ Within(call) /\ Bounded(call) /\ IsFiniteSet(call.refused)
      /\ call.program = Nothing /\ call.did = {} /\ call.tool = "fetch_url"
      /\ call.hop \in Nat /\ Len(call.requests) = call.hop + 1
  BY <1>1, SentFacts
<1>3. Moved(c, IF url = Nothing THEN Threw(call)
               ELSE IF call.hop = MaxRedirects THEN Failed(call) ELSE Asked(next, url))
  BY DEF Redirect
<1> HIDE DEF call
<1>4. CASE url = Nothing \/ call.hop = MaxRedirects
  <2>1. Moved(c, Threw(call)) \/ Moved(c, Failed(call))
    BY <1>3, <1>4
  <2> QED BY <1>1, <1>2, <2>1, FailedKeeps
<1>5. CASE ~(url = Nothing \/ call.hop = MaxRedirects)
  <2>1. url \in Url /\ MaxRedirects \in Nat
    BY <1>5, ToolboxAssumption
  <2>2. call.hop + 1 \in Nat /\ call.hop + 1 <= MaxRedirects
    BY <1>2, <1>5, <2>1 DEF Bounded
  <2>3. /\ next \in ToolCall /\ next.phase = "sent" /\ next.tool = call.tool
        /\ next.namespace = call.namespace /\ next.target = url /\ next.hop = call.hop + 1
        /\ next.pending = call.pending /\ next.refused = call.refused
        /\ next.lookups = call.lookups /\ next.requests = call.requests
        /\ next.reached = call.reached /\ next.did = {} /\ next.program = Nothing
    BY <1>1, <1>2, <2>1, <2>2 DEF Hopped, ToolCall, call
  <2> HIDE DEF next
  <2>4. Within(next) /\ Bounded(next)
    BY <1>2, <2>2, <2>3 DEF Within, Bounded
  <2>5. Asked(next, url) \in ToolCall /\ SoundCall(Asked(next, url))
    BY <1>2, <2>3, <2>4, AskedSoundly
  <2>6. Asked(next, url).phase # "reading"
    BY <2>3 DEF Asked, Invalid, Ended, ToolCall
  <2> QED BY <1>1, <1>3, <1>5, <2>5, <2>6, MovedAlone
<1> QED BY <1>4, <1>5

\* The body of an answer is read.
LEMMA BodyKeeps ==
    ASSUME ToolsInv, NEW c \in Call, Body(c)
    PROVE  ToolsInv'
<1> DEFINE call == calls[c]
           committed == {<<"requested", call.target.host>>}
           e == Ended(call, "acted", committed)
<1>1. call.phase = "sent" /\ UNCHANGED disk /\ Moved(c, e)
  BY DEF Body, Acted
<1>2. /\ call \in ToolCall /\ Within(call) /\ Bounded(call) /\ IsFiniteSet(call.refused)
      /\ call.program = Nothing /\ call.did = {} /\ call.tool = "fetch_url"
      /\ call.target.host \in Host
      /\ call.requests # <<>> /\ Last(call.requests) = call.target.host
  BY <1>1, SentFacts
<1> HIDE DEF call
<1>3. "acted" \in ResultKinds /\ committed \in SUBSET Deed
  BY <1>2 DEF ResultKinds, Deed
<1>4. /\ e.phase = "done" /\ e.result = [kind |-> "acted", committed |-> committed]
      /\ e.tool = "fetch_url" /\ e.requests = call.requests /\ e.did = {} /\ e.program = Nothing
  BY <1>2, <1>3, EndedFacts
<1> HIDE DEF e
<1>5. ReceiptIsTrue(e)
  <2>1. Told(e.namespace, committed) = committed
    BY ToldAsItIs
  <2>2. {<<"requested", Last(e.requests)>>} = committed
    BY <1>2, <1>4
  <2> HIDE DEF committed
  <2> QED BY <1>2, <1>4, <2>1, <2>2 DEF ReceiptIsTrue
<1>6. TheLimitReportedIsTheOneHit(e)
  BY <1>4 DEF TheLimitReportedIsTheOneHit
<1>7. e \in ToolCall /\ SoundCall(e)
  BY <1>2, <1>3, <1>5, <1>6, EndsSoundly DEF e
<1> QED BY <1>1, <1>4, <1>7, MovedAlone

\* A page's request is put to the policy.
LEMMA PageRequestsKeeps ==
    ASSUME ToolsInv, NEW c \in Call, NEW url \in Urls, url # Nothing, PageRequests(c, url)
    PROVE  ToolsInv'
<1> DEFINE call == calls[c]
           let_in == [call EXCEPT !.pending = @ \cup {url.host}]
           kept_out == [call EXCEPT !.refused = @ \cup {url.host}]
           e == IF PermitHost(url, call.namespace) THEN let_in ELSE kept_out
<1>1. call.phase = "rendering" /\ UNCHANGED disk /\ Moved(c, e)
  BY DEF PageRequests
<1>2. /\ call \in ToolCall /\ SoundCall(call) /\ Within(call) /\ Bounded(call)
      /\ IsFiniteSet(call.refused) /\ call.program = Nothing /\ call.tool = "render_page"
  BY <1>1, UnderwayFacts DEF ToolOf
<1>3. url.host \in Host
  BY ToolboxAssumption DEF Url
<1> HIDE DEF call
<1>4. /\ e \in ToolCall /\ e.phase = "rendering" /\ e.tool = call.tool
      /\ e.namespace = call.namespace /\ e.target = call.target /\ e.hop = call.hop
      /\ e.lookups = call.lookups /\ e.requests = call.requests /\ e.reached = call.reached
      /\ e.did = call.did /\ e.program = Nothing
      /\ \/ e.refused = call.refused \/ e.refused = call.refused \cup {url.host}
      /\ \/ e.pending = call.pending
         \/ e.pending = call.pending \cup {url.host} /\ url.host \in EgressFor(call.namespace)
  <2>1. CASE PermitHost(url, call.namespace)
    <3>1. e = let_in
      BY <2>1
    <3> HIDE DEF e
    <3> QED BY <1>1, <1>2, <1>3, <2>1, <3>1 DEF ToolCall, PermitHost
  <2>2. CASE ~PermitHost(url, call.namespace)
    <3>1. e = kept_out
      BY <2>2
    <3> HIDE DEF e
    <3> QED BY <1>1, <1>2, <1>3, <2>2, <3>1 DEF ToolCall
  <2> QED BY <2>1, <2>2
<1> HIDE DEF e
<1>5. Within(e) /\ Asking(e)
  BY <1>1, <1>2, <1>4 DEF Within, Asking, SoundCall
<1>6. Bounded(e) /\ Counted(e)
  BY <1>2, <1>4 DEF Bounded, Counted
<1>7. IsFiniteSet(e.refused)
  BY <1>2, <1>4, FS_AddElement
<1>8. Underway(e) /\ Housed(e)
  BY <1>1, <1>2, <1>4, <1>7 DEF Underway, Housed, ToolOf, SoundCall
<1>9. ReceiptIsTrue(e) /\ TheLimitReportedIsTheOneHit(e)
  BY <1>4 DEF ReceiptIsTrue, TheLimitReportedIsTheOneHit
<1>10. SoundCall(e) /\ e.phase # "reading"
  BY <1>4, <1>5, <1>6, <1>8, <1>9 DEF SoundCall
<1> QED BY <1>1, <1>4, <1>10, MovedAlone

\* More may be found refused than a receipt says.
LEMMA MoreFound ==
    ASSUME NEW S, IsFiniteSet(S), NEW T, IsFiniteSet(T), S \subseteq T
    PROVE  1 .. Cardinality(S) \subseteq 1 .. Cardinality(T)
<1>1. Cardinality(S) \in Nat /\ Cardinality(T) \in Nat /\ Cardinality(S) <= Cardinality(T)
  BY FS_CardinalityType, FS_Subset
<1> QED BY <1>1

\* The proxy forwards a request of a page, or does not, also when the call is over.
LEMMA ProxyForwardsKeeps ==
    ASSUME ToolsInv, NEW c \in Call, NEW host \in Host, NEW answer \in Answers,
           ProxyForwards(c, host, answer)
    PROVE  ToolsInv'
<1> DEFINE old  == calls[c]
           call == [old EXCEPT !.pending = @ \ {host}, !.lookups = @ \cup {host}]
           sent == [call EXCEPT !.reached = @ \cup {host}]
           kept == [call EXCEPT !.refused = @ \cup {host}]
<1>1. host \in old.pending /\ UNCHANGED disk
  BY DEF ProxyForwards
<1>2. old \in ToolCall /\ SoundCall(old)
  BY DEF ToolsInv, ToolsTypeOK
<1>3. PICK e \in {call, sent, kept} : Moved(c, e)
  BY DEF ProxyForwards, Answers
<1>4. old.phase = "reading" => Place(old.target) \in DOMAIN disk
  BY DEF ToolsInv, ReadsFiles
<1> HIDE DEF old
<1>5. /\ call \in ToolCall /\ call.phase = old.phase /\ call.tool = old.tool
      /\ call.namespace = old.namespace /\ call.target = old.target /\ call.hop = old.hop
      /\ call.pending = old.pending \ {host} /\ call.lookups = old.lookups \cup {host}
      /\ call.refused = old.refused /\ call.reached = old.reached
      /\ call.requests = old.requests /\ call.did = old.did /\ call.contents = old.contents
      /\ call.program = old.program /\ call.result = old.result /\ call.path = old.path
  BY <1>2 DEF ToolCall
<1> HIDE DEF call
<1>6. /\ e \in ToolCall /\ e.phase = old.phase /\ e.tool = old.tool
      /\ e.namespace = old.namespace /\ e.target = old.target /\ e.hop = old.hop
      /\ e.pending = old.pending \ {host} /\ e.lookups = old.lookups \cup {host}
      /\ e.requests = old.requests /\ e.did = old.did /\ e.contents = old.contents
      /\ e.program = old.program /\ e.result = old.result /\ e.path = old.path
      /\ e.reached \subseteq old.reached \cup {host}
      /\ e.refused = old.refused \/ e.refused = old.refused \cup {host}
  <2>1. CASE e = call
    BY <1>5, <2>1
  <2>2. CASE e = sent
    BY <1>5, <2>2 DEF ToolCall
  <2>3. CASE e = kept
    BY <1>5, <2>3 DEF ToolCall
  <2> QED BY <1>3, <2>1, <2>2, <2>3
<1> HIDE DEF sent, kept
<1>7. Within(old) /\ Asking(old) /\ Bounded(old) /\ Counted(old) /\ Underway(old) /\ Housed(old)
      /\ ReceiptIsTrue(old) /\ TheLimitReportedIsTheOneHit(old)
  BY <1>2 DEF SoundCall
<1>8. Within(e) /\ Asking(e)
  BY <1>1, <1>6, <1>7 DEF Within, Asking
<1>9. Bounded(e) /\ Counted(e)
  BY <1>6, <1>7 DEF Bounded, Counted
<1>10. IsFiniteSet(old.refused) /\ IsFiniteSet(e.refused)
  BY <1>6, <1>7, FS_AddElement DEF Underway
<1>11. old.phase # "idle"
  BY <1>1, <1>7 DEF Underway, Idle
<1>12. Underway(e) /\ Housed(e)
  BY <1>6, <1>7, <1>10, <1>11 DEF Underway, Housed, AtHome
<1>13. ReceiptIsTrue(e)
  <2>1. 1 .. Cardinality(old.refused) \subseteq 1 .. Cardinality(e.refused)
    BY <1>6, <1>10, MoreFound
  <2> DEFINE before == {<<"refused", n>> : n \in 1 .. Cardinality(old.refused)}
             after  == {<<"refused", n>> : n \in 1 .. Cardinality(e.refused)}
             last   == IF e.tool = "fetch_url" /\ e.requests # <<>>
                         THEN {<<"requested", Last(e.requests)>>} ELSE {}
             said   == Told(e.namespace, e.result.committed)
  <2>2. before \subseteq after
    BY <2>1
  <2>3. e.phase = "done" =>
          IF e.result.kind = "acted"
            THEN said \subseteq e.did \cup before \cup last /\ e.did \cup last \subseteq said
            ELSE e.result.committed = {} /\ ~\E d \in e.did : d[1] = "wrote"
    BY <1>6, <1>7 DEF ReceiptIsTrue
  <2>4. e.phase = "done" =>
          IF e.result.kind = "acted"
            THEN said \subseteq e.did \cup after \cup last /\ e.did \cup last \subseteq said
            ELSE e.result.committed = {} /\ ~\E d \in e.did : d[1] = "wrote"
    <3> HIDE DEF before, after, last, said
    <3> QED BY <2>2, <2>3
  <2> QED BY <2>4 DEF ReceiptIsTrue
<1>14. TheLimitReportedIsTheOneHit(e)
  BY <1>6, <1>7 DEF TheLimitReportedIsTheOneHit
<1>15. SoundCall(e)
  BY <1>8, <1>9, <1>12, <1>13, <1>14 DEF SoundCall
<1>16. /\ e.phase = "reading" => Place(e.target) \in DOMAIN disk'
       /\ DOMAIN disk \subseteq DOMAIN disk'
       /\ \E places \in SUBSET Seq(Name) : disk' \in [places -> Contents]
  BY <1>1, <1>4, <1>6 DEF ToolsInv, ToolsTypeOK
<1> QED BY <1>3, <1>6, <1>15, <1>16, MovedKeeps

\* A rendering ends.
LEMMA RenderEndsKeeps ==
    ASSUME ToolsInv, NEW c \in Call, RenderEnds(c)
    PROVE  ToolsInv'
<1> DEFINE call == calls[c]
           committed == {<<"rendered", call.target.host>>} \cup
                        (IF call.refused = {} THEN {} ELSE {<<"refused", Cardinality(call.refused)>>})
           e == Ended(call, "acted", committed)
<1>1. /\ call.phase = "rendering" /\ UNCHANGED disk
      /\ Moved(c, Failed(call)) \/ Moved(c, Threw(call)) \/ Moved(c, e)
  BY DEF RenderEnds, Acted
<1>2. /\ call \in ToolCall /\ SoundCall(call) /\ Within(call) /\ Bounded(call)
      /\ IsFiniteSet(call.refused) /\ call.program = Nothing
      /\ (\A d \in call.did : d[1] # "wrote") /\ call.tool = "render_page"
  BY <1>1, UnderwayFacts DEF ToolOf
<1>3. CASE Moved(c, Failed(call)) \/ Moved(c, Threw(call))
  BY <1>1, <1>2, <1>3, FailedKeeps
<1>4. CASE Moved(c, e)
  <2>1. call.target.host \in Host /\ call.did = {<<"rendered", call.target.host>>}
    BY <1>1, <1>2 DEF SoundCall, Asking, Underway, Url
  <2>2. /\ Cardinality(call.refused) \in Nat
        /\ call.refused # {} => Cardinality(call.refused) \in 1 .. Cardinality(call.refused)
    BY <1>2, FS_CardinalityType, FS_EmptySet
  <2> HIDE DEF call
  <2>3. "acted" \in ResultKinds /\ committed \in SUBSET Deed
    BY <2>1, <2>2 DEF ResultKinds, Deed
  <2>4. /\ e.phase = "done" /\ e.result = [kind |-> "acted", committed |-> committed]
        /\ e.tool = "render_page" /\ e.did = call.did /\ e.program = Nothing
        /\ e.refused = call.refused
    <3> HIDE DEF committed
    <3> QED BY <1>2, <2>3, EndedFacts
  <2> HIDE DEF e
  <2>5. ReceiptIsTrue(e)
    <3>1. Told(e.namespace, committed) = committed
      BY ToldAsItIs
    <3> QED BY <2>1, <2>2, <2>4, <3>1 DEF ReceiptIsTrue
  <2>6. TheLimitReportedIsTheOneHit(e)
    BY <2>4 DEF TheLimitReportedIsTheOneHit
  <2>7. e \in ToolCall /\ SoundCall(e)
    BY <1>2, <2>3, <2>5, <2>6, EndsSoundly DEF e
  <2> QED BY <1>1, <1>4, <2>4, <2>7, MovedAlone
<1> QED BY <1>1, <1>3, <1>4

-----------------------------------------------------------------------------
(* The steps of the tools that run programs and touch files.                *)

\* A program is asked for.
LEMMA CallShellKeeps ==
    ASSUME ToolsInv, NEW c \in Call, NEW n \in Namespace, NEW valid \in BOOLEAN,
           CallShell(c, n, valid)
    PROVE  ToolsInv'
<1> DEFINE call == Called(c, "run_shell", n, Nothing)
           e    == [call EXCEPT !.phase = "running"]
<1>1. calls[c].phase = "idle" /\ UNCHANGED disk /\ (Moved(c, e) \/ Moved(c, Invalid(call)))
  BY DEF CallShell, Calls
<1>2. "run_shell" \in Tools /\ Nothing \in Url \cup Seq(Name) \cup {Nothing}
  BY DEF Tools
<1>3. /\ call \in ToolCall /\ call.tool = "run_shell" /\ call.did = {}
      /\ call.program = Nothing /\ Within(call) /\ Bounded(call) /\ IsFiniteSet(call.refused)
  BY <1>1, <1>2, CalledFacts
<1> HIDE DEF call
<1>4. CASE Moved(c, Invalid(call))
  BY <1>1, <1>3, <1>4, FailedKeeps
<1>5. CASE Moved(c, e)
  <2>1. e.phase = "running"
    BY <1>3 DEF ToolCall
  <2>2. Housed(e) /\ call.tool \in ToolOf["running"]
    BY <1>3, <2>1 DEF Housed, ToolOf
  <2>3. e \in ToolCall /\ SoundCall(e)
    BY <1>3, <2>2, StandsSoundly
  <2> QED BY <1>1, <1>5, <2>1, <2>3, MovedAlone
<1> QED BY <1>1, <1>4, <1>5

\* A program ends, and what is answered is what happened.
LEMMA ProgramEndsKeeps ==
    ASSUME ToolsInv, NEW c \in Call, NEW program \in Programs, ProgramEnds(c, program)
    PROVE  ToolsInv'
<1> DEFINE old  == calls[c]
           ran  == {<<"ran", "program">>}
           begun == [old EXCEPT !.did = IF program.started THEN ran ELSE {}]
           call == [begun EXCEPT !.program = program]
           kind == IF Execute(program) = "ok" THEN "acted" ELSE Execute(program)
           committed == IF Execute(program) = "ok" THEN ran ELSE {}
           e    == Ended(call, kind, committed)
<1>1. /\ old.phase = "running" /\ UNCHANGED disk /\ CanHappen(program)
      /\ Moved(c, e) \/ Moved(c, Threw(begun))
  BY DEF ProgramEnds, Acted
<1>2. /\ old \in ToolCall /\ Within(old) /\ Bounded(old) /\ IsFiniteSet(old.refused)
      /\ old.tool = "run_shell" /\ old.requests = <<>> /\ old.program = Nothing
  BY <1>1, UnderwayFacts DEF ToolOf, Bounded
<1>3. /\ program.killedFor \in {"none", "time", "output"} /\ program.printed \in {"little", "much"}
      /\ program.started \in BOOLEAN /\ program.looksLikeDocker \in BOOLEAN
  BY DEF Programs
<1>4. /\ Execute(program) = "output-too-large" <=> program.printed = "much"
      /\ Execute(program) = "timed-out" <=> program.printed = "little" /\ program.killedFor # "none"
      /\ Execute(program) = "sandbox-unavailable"
            <=> /\ program.printed = "little" /\ program.killedFor = "none"
                /\ ~program.started \/ program.looksLikeDocker
      /\ Execute(program) = "ok"
            <=> /\ program.printed = "little" /\ program.killedFor = "none"
                /\ program.started /\ ~program.looksLikeDocker
  BY <1>3 DEF Execute
<1>5. Execute(program) \in {"output-too-large", "timed-out", "sandbox-unavailable", "ok"}
  BY <1>3 DEF Execute
<1>6. kind \in ResultKinds /\ committed \in SUBSET Deed /\ ran \in SUBSET Deed
  BY <1>5 DEF ResultKinds, Deed
<1> HIDE DEF old
<1>0. /\ begun \in ToolCall /\ begun.tool = "run_shell" /\ begun.namespace = old.namespace
      /\ begun.hop = old.hop /\ begun.pending = old.pending /\ begun.refused = old.refused
      /\ begun.lookups = old.lookups /\ begun.requests = old.requests
      /\ begun.reached = old.reached /\ begun.program = Nothing
      /\ begun.did = IF program.started THEN ran ELSE {}
  BY <1>2, <1>6 DEF ToolCall
<1>13. CASE Moved(c, Threw(begun))
  <2>1. Within(begun) /\ Bounded(begun) /\ IsFiniteSet(begun.refused)
    BY <1>0, <1>2 DEF Within, Bounded
  <2>2. \A d \in begun.did : d[1] # "wrote"
    BY <1>0
  <2> HIDE DEF begun
  <2> QED BY <1>0, <1>1, <1>13, <2>1, <2>2, FailedKeeps
<1> HIDE DEF begun
<1>7. /\ call \in ToolCall /\ call.tool = "run_shell" /\ call.namespace = old.namespace
      /\ call.hop = old.hop /\ call.pending = old.pending /\ call.refused = old.refused
      /\ call.lookups = old.lookups /\ call.requests = old.requests
      /\ call.reached = old.reached /\ call.program = program
      /\ call.did = IF program.started THEN ran ELSE {}
  BY <1>0 DEF ToolCall
<1> HIDE DEF call
<1>8. Within(call) /\ Bounded(call) /\ IsFiniteSet(call.refused)
  BY <1>2, <1>7 DEF Within, Bounded
<1>9. /\ e.phase = "done" /\ e.result = [kind |-> kind, committed |-> committed]
      /\ e.tool = "run_shell" /\ e.did = call.did /\ e.program = program
  <2> HIDE DEF kind, committed
  <2> QED BY <1>6, <1>7, EndedFacts
<1> HIDE DEF e
<1>10. ReceiptIsTrue(e)
  <2>1. Told(e.namespace, committed) = committed
    BY ToldAsItIs
  <2> QED BY <1>4, <1>5, <1>7, <1>9, <2>1 DEF ReceiptIsTrue
<1>11. TheLimitReportedIsTheOneHit(e)
  <2>1. e.result.kind = kind /\ kind \in {Execute(program), "acted"}
    BY <1>9
  <2>2. kind = "acted" <=> Execute(program) = "ok"
    BY <1>5
  <2>3. program.killedFor = "output" => program.printed = "much"
    BY <1>1 DEF CanHappen
  <2> HIDE DEF kind
  <2> QED BY <1>3, <1>4, <1>5, <1>9, <2>1, <2>2, <2>3 DEF TheLimitReportedIsTheOneHit
<1>12. e \in ToolCall /\ SoundCall(e)
  <2> HIDE DEF kind, committed
  <2> QED BY <1>6, <1>7, <1>8, <1>10, <1>11, EndsSoundly DEF e
<1> QED BY <1>1, <1>9, <1>12, <1>13, MovedAlone

\* A call of a file tool, before it goes to the file its path leads to.
LEMMA AtPathFacts ==
    ASSUME ToolsInv, NEW c \in Call, calls[c].phase = "idle",
           NEW name \in {"read_file", "write_file"}, NEW n \in Namespace, NEW path \in Paths
    PROVE  LET call == AtPath(c, name, n, path) IN
           /\ call \in ToolCall /\ call.tool = name /\ call.did = {} /\ call.program = Nothing
           /\ call.namespace = n /\ call.path = path
           /\ Within(call) /\ Bounded(call) /\ IsFiniteSet(call.refused)
           /\ call.target # Nothing =>
                 /\ path # Nothing /\ call.target = SafePath(n, path) /\ call.target \in Seq(Name)
                 /\ Plain(path) => AtHome(call)
<1> DEFINE target == IF path = Nothing THEN Nothing ELSE SafePath(n, path)
           bare   == Called(c, name, n, target)
           call   == AtPath(c, name, n, path)
<1>1. target # Nothing => /\ path # Nothing /\ target = SafePath(n, path) /\ target \in Seq(Name)
                          /\ Plain(path) => Place(target) # <<>> /\ Place(target)[1] = n
  BY SafePathFacts, PlainStaysHome
<1>2. call = [bare EXCEPT !.path = path]
  BY DEF AtPath
<1> HIDE DEF target
<1>3. name \in Tools /\ target \in Url \cup Seq(Name) \cup {Nothing}
  BY <1>1 DEF Tools
<1>4. /\ bare \in ToolCall /\ bare.tool = name /\ bare.did = {} /\ bare.target = target
      /\ bare.namespace = n /\ bare.program = Nothing
      /\ Within(bare) /\ Bounded(bare) /\ IsFiniteSet(bare.refused)
  BY <1>3, CalledFacts
<1> HIDE DEF bare, call
<1>5. /\ call \in ToolCall /\ call.tool = name /\ call.did = {} /\ call.target = target
      /\ call.namespace = n /\ call.program = Nothing /\ call.path = path
      /\ call.hop = bare.hop /\ call.pending = bare.pending /\ call.refused = bare.refused
      /\ call.lookups = bare.lookups /\ call.requests = bare.requests
      /\ call.reached = bare.reached
  BY <1>2, <1>4 DEF ToolCall
<1>6. Within(call) /\ Bounded(call) /\ IsFiniteSet(call.refused)
  BY <1>4, <1>5 DEF Within, Bounded
<1>7. call.target # Nothing =>
         /\ path # Nothing /\ call.target = SafePath(n, path) /\ call.target \in Seq(Name)
         /\ Plain(path) => AtHome(call)
  BY <1>1, <1>5 DEF AtHome
<1> QED BY <1>5, <1>6, <1>7 DEF call

\* A file is asked for.
LEMMA CallReadKeeps ==
    ASSUME ToolsInv, NEW c \in Call, NEW n \in Namespace, NEW path \in Paths, CallRead(c, n, path)
    PROVE  ToolsInv'
<1> DEFINE call == AtPath(c, "read_file", n, path)
           e    == [call EXCEPT !.phase = "exists"]
<1>1. /\ calls[c].phase = "idle" /\ UNCHANGED disk
      /\ Moved(c, IF call.target = Nothing THEN Invalid(call) ELSE e)
  BY DEF CallRead, Calls
<1>2. /\ call \in ToolCall /\ call.tool = "read_file" /\ call.did = {} /\ call.program = Nothing
      /\ call.namespace = n /\ call.path = path
      /\ Within(call) /\ Bounded(call) /\ IsFiniteSet(call.refused)
      /\ call.target # Nothing =>
            /\ path # Nothing /\ call.target = SafePath(n, path) /\ call.target \in Seq(Name)
            /\ Plain(path) => AtHome(call)
  BY <1>1, AtPathFacts
<1> HIDE DEF call
<1>3. CASE call.target = Nothing
  BY <1>1, <1>2, <1>3, FailedKeeps
<1>4. CASE call.target # Nothing
  <2>1. /\ e.phase = "exists" /\ e.target = call.target /\ e.namespace = n /\ e.path = path
    BY <1>2 DEF ToolCall
  <2>2. Housed(e) /\ call.tool \in ToolOf["exists"]
    BY <1>2, <1>4, <2>1 DEF Housed, AtHome, ToolOf
  <2>3. e \in ToolCall /\ SoundCall(e)
    BY <1>2, <2>2, StandsSoundly
  <2> QED BY <1>1, <1>4, <2>1, <2>3, MovedAlone
<1> QED BY <1>3, <1>4

\* What is known of a call that is at a file.
LEMMA AtFileFacts ==
    ASSUME ToolsInv, NEW c \in Call, calls[c].phase \in {"exists", "reading", "mkdir", "writing"}
    PROVE  /\ calls[c] \in ToolCall /\ Within(calls[c]) /\ Bounded(calls[c])
           /\ IsFiniteSet(calls[c].refused) /\ calls[c].program = Nothing /\ calls[c].did = {}
           /\ calls[c].tool \in ToolOf[calls[c].phase] /\ calls[c].tool \in {"read_file", "write_file"}
           /\ Housed(calls[c])
           /\ calls[c].target \in Seq(Name) /\ Place(calls[c].target) \in Seq(Name)
<1>1. calls[c].phase \in DOMAIN ToolOf
      /\ ToolOf[calls[c].phase] \subseteq {"read_file", "write_file"}
  BY DEF ToolOf
<1>2. /\ calls[c] \in ToolCall /\ SoundCall(calls[c]) /\ Within(calls[c]) /\ Bounded(calls[c])
      /\ IsFiniteSet(calls[c].refused) /\ calls[c].program = Nothing /\ calls[c].did = {}
      /\ calls[c].tool \in ToolOf[calls[c].phase]
  BY <1>1, UnderwayFacts
<1>3. Housed(calls[c])
  BY <1>2 DEF SoundCall
<1>4. calls[c].target \in Seq(Name)
  BY <1>3 DEF Housed
<1> QED BY <1>1, <1>2, <1>3, <1>4, PathTypes

\* A call goes on from one stretch at its file to the next.
LEMMA GoesOnSoundly ==
    ASSUME NEW call \in ToolCall, Within(call), Bounded(call), IsFiniteSet(call.refused),
           call.did = {}, call.program = Nothing, Housed(call),
           call.phase \in {"exists", "mkdir"},
           NEW phase \in {"reading", "writing"}, call.tool \in ToolOf[phase],
           phase = "writing" => call.phase = "mkdir",
           NEW e, e = [call EXCEPT !.phase = phase]
    PROVE  e \in ToolCall /\ SoundCall(e) /\ e.phase = phase /\ e.target = call.target
<1>1. /\ e.phase = phase /\ e.target = call.target /\ e.namespace = call.namespace
      /\ e.path = call.path /\ e.contents = call.contents
  BY DEF ToolCall
<1>2. Housed(e)
  BY <1>1 DEF Housed, AtHome
<1> QED BY <1>1, <1>2, StandsSoundly

\* A call of a file tool at its end.
Acting(call, committed, did, contents) ==
    [Acted(call, committed) EXCEPT !.did = did, !.contents = contents]

\* A call of a file tool ends with what it did.
LEMMA FileToolActs ==
    ASSUME NEW call \in ToolCall, Within(call), Bounded(call), IsFiniteSet(call.refused),
           call.program = Nothing, call.tool \in {"read_file", "write_file"},
           NEW committed \in SUBSET Deed, NEW did \in SUBSET Deed,
           Told(call.namespace, committed) = did,
           NEW contents \in Contents \cup {Nothing}
    PROVE  LET e == Acting(call, committed, did, contents)
           IN  e \in ToolCall /\ SoundCall(e) /\ e.phase = "done"
<1> DEFINE a == Acted(call, committed)
           e == Acting(call, committed, did, contents)
<1>1. "acted" \in ResultKinds
  BY DEF ResultKinds
<1>2. /\ a \in ToolCall /\ a.phase = "done"
      /\ a.result = [kind |-> "acted", committed |-> committed]
      /\ a.tool = call.tool /\ a.namespace = call.namespace /\ a.hop = call.hop
      /\ a.pending = call.pending /\ a.refused = call.refused /\ a.lookups = call.lookups
      /\ a.requests = call.requests /\ a.reached = call.reached /\ a.program = Nothing
  BY <1>1, EndedFacts DEF Acted
<1> HIDE DEF a
<1>3. e = [a EXCEPT !.did = did, !.contents = contents]
  BY DEF a, Acting
<1> HIDE DEF e
<1>4. /\ e \in ToolCall /\ e.phase = "done"
      /\ e.result = [kind |-> "acted", committed |-> committed]
      /\ e.tool = call.tool /\ e.namespace = call.namespace /\ e.hop = call.hop
      /\ e.pending = call.pending /\ e.refused = call.refused /\ e.lookups = call.lookups
      /\ e.requests = call.requests /\ e.reached = call.reached /\ e.program = Nothing
      /\ e.did = did
  <2> DEFINE over == [a EXCEPT !.did = did]
  <2>1. over \in ToolCall
    BY <1>2, CallFields
  <2>2. e = [over EXCEPT !.contents = contents]
    BY <1>2, <1>3 DEF ToolCall
  <2>3. e \in ToolCall
    <3> HIDE DEF over
    <3> QED BY <2>1, <2>2, CallFields
  <2> QED BY <1>2, <1>3, <2>3 DEF ToolCall
<1>5. Within(e) /\ Asking(e)
  BY <1>4 DEF Within, Asking
<1>6. Bounded(e) /\ Counted(e)
  BY <1>4 DEF Bounded, Counted
<1>7. Underway(e) /\ Housed(e)
  BY <1>4 DEF Underway, ToolOf, Housed
<1>8. ReceiptIsTrue(e)
  BY <1>4 DEF ReceiptIsTrue
<1>9. TheLimitReportedIsTheOneHit(e)
  BY <1>4 DEF TheLimitReportedIsTheOneHit
<1>10. e \in ToolCall /\ SoundCall(e) /\ e.phase = "done"
  BY <1>4, <1>5, <1>6, <1>7, <1>8, <1>9 DEF SoundCall
<1> QED BY <1>10 DEF e

\* A call of a file tool ends with nothing done.
LEMMA FileToolLooks ==
    ASSUME NEW call \in ToolCall, Within(call), Bounded(call), IsFiniteSet(call.refused),
           call.program = Nothing, call.did = {}, call.tool \in {"read_file", "write_file"},
           NEW contents \in Contents \cup {Nothing},
           NEW e, e = [Acted(call, {}) EXCEPT !.contents = contents]
    PROVE  e \in ToolCall /\ SoundCall(e) /\ e.phase = "done"
<1> DEFINE a == Acted(call, {})
<1>1. "acted" \in ResultKinds /\ {} \in SUBSET Deed
  BY DEF ResultKinds
<1>2. a \in ToolCall /\ a.did = {}
  BY <1>1, EndedFacts DEF Acted
<1> HIDE DEF a
<1>3. [a EXCEPT !.contents = contents] = [a EXCEPT !.did = {}, !.contents = contents]
  BY <1>2 DEF ToolCall
<1>4. e = Acting(call, {}, {}, contents)
  BY <1>3 DEF a, Acting
<1>5. Told(call.namespace, {}) = {}
  BY ToldAsItIs
<1> DEFINE none == {}
<1>6. none \in SUBSET Deed /\ Told(call.namespace, none) = none /\ e = Acting(call, none, none, contents)
  BY <1>1, <1>4, <1>5
<1> HIDE DEF none
<1>7. /\ Within(call) /\ Bounded(call) /\ IsFiniteSet(call.refused) /\ call.program = Nothing
      /\ call.tool \in {"read_file", "write_file"} /\ contents \in Contents \cup {Nothing}
  OBVIOUS
<1>8. LET f == Acting(call, none, none, contents)
      IN  f \in ToolCall /\ SoundCall(f) /\ f.phase = "done"
  BY ONLY call \in ToolCall, <1>6, <1>7, FileToolActs
<1> QED BY <1>6, <1>8

\* A file is found to be there, or not.
LEMMA ExistsKeeps ==
    ASSUME ToolsInv, NEW c \in Call, Exists(c)
    PROVE  ToolsInv'
<1> DEFINE call == calls[c]
           e    == [call EXCEPT !.phase = "reading"]
           a    == Acted(call, {})
<1>1. /\ call.phase = "exists" /\ UNCHANGED disk
      /\ Moved(c, IF IsFile(call.target) THEN e ELSE a)
  BY DEF Exists
<1>2. /\ call \in ToolCall /\ Within(call) /\ Bounded(call) /\ IsFiniteSet(call.refused)
      /\ call.program = Nothing /\ call.did = {} /\ call.tool = "read_file" /\ Housed(call)
  BY <1>1, AtFileFacts DEF ToolOf
<1> HIDE DEF call
<1>3. CASE IsFile(call.target)
  <2>1. e \in ToolCall /\ SoundCall(e) /\ e.target = call.target
    BY <1>1, <1>2, GoesOnSoundly DEF ToolOf
  <2>2. /\ Place(e.target) \in DOMAIN disk' /\ DOMAIN disk \subseteq DOMAIN disk' /\ Moved(c, e)
        /\ \E places \in SUBSET Seq(Name) : disk' \in [places -> Contents]
    BY <1>1, <1>3, <2>1 DEF IsFile, ToolsInv, ToolsTypeOK
  <2> QED BY <2>1, <2>2, MovedKeeps
<1>4. CASE ~IsFile(call.target)
  <2>1. a = [Acted(call, {}) EXCEPT !.contents = call.contents]
    <3>1. "acted" \in ResultKinds /\ {} \in SUBSET Deed
      BY DEF ResultKinds
    <3>2. a \in ToolCall /\ a.contents = call.contents
      BY <1>2, <3>1, EndedFacts DEF Acted
    <3> HIDE DEF a
    <3>3. a = [a EXCEPT !.contents = call.contents]
      BY <3>2 DEF ToolCall
    <3> QED BY <3>3 DEF a
  <2>2. call.contents \in Contents \cup {Nothing}
    BY <1>2 DEF ToolCall
  <2> HIDE DEF a
  <2>3. a \in ToolCall /\ SoundCall(a) /\ a.phase = "done"
    BY <1>2, <2>1, <2>2, FileToolLooks
  <2> QED BY <1>1, <1>4, <2>3, MovedAlone
<1> QED BY <1>3, <1>4

\* A file is read.
LEMMA ReadTextKeeps ==
    ASSUME ToolsInv, NEW c \in Call, ReadText(c)
    PROVE  ToolsInv'
<1> DEFINE call == calls[c]
           e    == [Acted(call, {}) EXCEPT !.contents = disk[Place(call.target)]]
<1>1. call.phase = "reading" /\ UNCHANGED disk /\ Moved(c, e)
  BY DEF ReadText
<1>2. /\ call \in ToolCall /\ Within(call) /\ Bounded(call) /\ IsFiniteSet(call.refused)
      /\ call.program = Nothing /\ call.did = {} /\ call.tool = "read_file"
  BY <1>1, AtFileFacts DEF ToolOf
<1>3. disk[Place(call.target)] \in Contents
  BY <1>1 DEF ToolsInv, ToolsTypeOK, ReadsFiles
<1> HIDE DEF call
<1>4. e \in ToolCall /\ SoundCall(e) /\ e.phase = "done"
  BY <1>2, <1>3, FileToolLooks
<1> QED BY <1>1, <1>4, MovedAlone

\* A file is to be written.
LEMMA CallWriteKeeps ==
    ASSUME ToolsInv, NEW c \in Call, NEW n \in Namespace, NEW path \in Paths,
           NEW contents \in Contents, CallWrite(c, n, path, contents)
    PROVE  ToolsInv'
<1> DEFINE bare == AtPath(c, "write_file", n, path)
           call == [bare EXCEPT !.contents = contents]
           e    == [call EXCEPT !.phase = "mkdir"]
<1>1. /\ calls[c].phase = "idle" /\ UNCHANGED disk
      /\ Moved(c, IF call.target = Nothing \/ contents \in Oversized THEN Invalid(call) ELSE e)
  BY DEF CallWrite, Calls
<1>2. /\ bare \in ToolCall /\ bare.tool = "write_file" /\ bare.did = {} /\ bare.program = Nothing
      /\ bare.namespace = n /\ bare.path = path
      /\ Within(bare) /\ Bounded(bare) /\ IsFiniteSet(bare.refused)
      /\ bare.target # Nothing =>
            /\ path # Nothing /\ bare.target = SafePath(n, path) /\ bare.target \in Seq(Name)
            /\ Plain(path) => AtHome(bare)
  BY <1>1, AtPathFacts
<1> HIDE DEF bare
<1>3. /\ call \in ToolCall /\ call.tool = "write_file" /\ call.did = {} /\ call.program = Nothing
      /\ call.namespace = n /\ call.path = path /\ call.target = bare.target
      /\ call.contents = contents
      /\ call.hop = bare.hop /\ call.pending = bare.pending /\ call.refused = bare.refused
      /\ call.lookups = bare.lookups /\ call.requests = bare.requests
      /\ call.reached = bare.reached
  BY <1>2 DEF ToolCall
<1> HIDE DEF call
<1>4. Within(call) /\ Bounded(call) /\ IsFiniteSet(call.refused)
  BY <1>2, <1>3 DEF Within, Bounded
<1>5. CASE call.target = Nothing \/ contents \in Oversized
  BY <1>1, <1>3, <1>4, <1>5, FailedKeeps
<1>6. CASE ~(call.target = Nothing \/ contents \in Oversized)
  <2>1. /\ e.phase = "mkdir" /\ e.target = bare.target /\ e.namespace = n /\ e.path = path
        /\ e.contents = contents
    BY <1>3 DEF ToolCall
  <2>2. Housed(e) /\ call.tool \in ToolOf["mkdir"]
    BY <1>2, <1>3, <1>6, <2>1 DEF Housed, AtHome, ToolOf
  <2>3. e \in ToolCall /\ SoundCall(e)
    BY <1>3, <1>4, <2>2, StandsSoundly
  <2> QED BY <1>1, <1>6, <2>1, <2>3, MovedAlone
<1> QED BY <1>5, <1>6

\* The parents of a file are made, or are in the way.
LEMMA MakeParentsKeeps ==
    ASSUME ToolsInv, NEW c \in Call, MakeParents(c)
    PROVE  ToolsInv'
<1> DEFINE call == calls[c]
           e    == [call EXCEPT !.phase = "writing"]
<1>1. call.phase = "mkdir" /\ UNCHANGED disk /\ (Moved(c, Threw(call)) \/ Moved(c, e))
  BY DEF MakeParents
<1>2. /\ call \in ToolCall /\ Within(call) /\ Bounded(call) /\ IsFiniteSet(call.refused)
      /\ call.program = Nothing /\ call.did = {} /\ call.tool = "write_file" /\ Housed(call)
  BY <1>1, AtFileFacts DEF ToolOf
<1> HIDE DEF call
<1>3. CASE Moved(c, Threw(call))
  BY <1>1, <1>2, <1>3, FailedKeeps
<1>4. CASE Moved(c, e)
  <2>1. e \in ToolCall /\ SoundCall(e) /\ e.phase = "writing"
    BY <1>1, <1>2, GoesOnSoundly DEF ToolOf
  <2> QED BY <1>1, <1>4, <2>1, MovedAlone
<1> QED BY <1>1, <1>3, <1>4

\* A file is written, or there is a directory of its name.
LEMMA WriteKeeps ==
    ASSUME ToolsInv, NEW c \in Call, Write(c)
    PROVE  ToolsInv'
<1> DEFINE call  == calls[c]
           place == Place(call.target)
           committed == {<<"wrote", call.path>>}
           did   == {<<"wrote", place>>}
           e     == [Acted(call, committed) EXCEPT !.did = did]
           over  == \/ Moved(c, Threw(call)) /\ UNCHANGED disk
                    \/ /\ Moved(c, e)
                       /\ disk' = [p \in DOMAIN disk \cup {place} |->
                                     IF p = place THEN call.contents ELSE disk[p]]
<1>1. call.phase = "writing" /\ over
  BY DEF Write
<1>2. /\ call \in ToolCall /\ Within(call) /\ Bounded(call) /\ IsFiniteSet(call.refused)
      /\ call.program = Nothing /\ call.did = {} /\ call.tool = "write_file"
      /\ place \in Seq(Name) /\ Housed(call)
  BY <1>1, AtFileFacts DEF ToolOf
<1>3. /\ call.contents \in Contents /\ call.path \in Paths /\ call.path # Nothing
      /\ call.target = SafePath(call.namespace, call.path)
  BY <1>1, <1>2 DEF Housed
<1>4. CASE Moved(c, Threw(call)) /\ UNCHANGED disk
  <2> HIDE DEF call
  <2> QED BY <1>1, <1>2, <1>4, FailedKeeps
<1>5. CASE /\ Moved(c, e)
           /\ disk' = [p \in DOMAIN disk \cup {place} |-> IF p = place THEN call.contents ELSE disk[p]]
  <2>1. call.path \in Seq(Segment)
    <3>1. call.path \in Seq(Seq(STRING))
      BY <1>3, ToolboxAssumption
    <3>2. Seq(STRING) \subseteq Segment
      BY SeqMonotonic DEF Segment, Name
    <3> QED BY <3>1, <3>2, SeqMonotonic
  <2>2. did \in SUBSET Deed /\ committed \in SUBSET Deed /\ call.contents \in Contents \cup {Nothing}
    BY <1>2, <1>3, <2>1 DEF Deed
  <2>3. Told(call.namespace, committed) = did
    BY <1>3 DEF Told
  <2>4. /\ DOMAIN disk \subseteq DOMAIN disk'
        /\ \E places \in SUBSET Seq(Name) : disk' \in [places -> Contents]
    <3>1. PICK places \in SUBSET Seq(Name) : disk \in [places -> Contents]
      BY DEF ToolsInv, ToolsTypeOK
    <3>2. places \cup {place} \in SUBSET Seq(Name)
      BY <1>2
    <3>3. disk' \in [places \cup {place} -> Contents] /\ DOMAIN disk' = DOMAIN disk \cup {place}
      BY <1>3, <1>5, <3>1
    <3> QED BY <3>2, <3>3
  <2> HIDE DEF call, did, committed
  <2>5. e = Acting(call, committed, did, call.contents)
    <3> DEFINE a == Acted(call, committed)
    <3>1. "acted" \in ResultKinds
      BY DEF ResultKinds
    <3>2. a \in ToolCall /\ a.contents = call.contents
      BY <1>2, <2>2, <3>1, EndedFacts DEF Acted
    <3> HIDE DEF a
    <3>3. [a EXCEPT !.did = did] = [a EXCEPT !.did = did, !.contents = call.contents]
      BY <3>2 DEF ToolCall
    <3> QED BY <3>3 DEF a, Acting
  <2> HIDE DEF e
  <2>6. e \in ToolCall /\ SoundCall(e) /\ e.phase = "done"
    BY <1>2, <2>2, <2>3, <2>5, FileToolActs
  <2> QED BY <1>5, <2>4, <2>6, MovedKeeps
<1> QED BY <1>1, <1>4, <1>5

-----------------------------------------------------------------------------
\* No call has begun when the process starts, and there is no file.
LEMMA ToolsInitInv == ToolsInit => ToolsInv
<1> SUFFICES ASSUME ToolsInit PROVE ToolsInv
  OBVIOUS
<1>1. /\ Idle.phase = "idle" /\ Idle.lookups = {} /\ Idle.reached = {} /\ Idle.pending = {}
      /\ Idle.requests = <<>> /\ Idle.refused = {} /\ Idle.did = {} /\ Idle.program = Nothing
      /\ Idle.hop = 0 /\ Idle.tool = Nothing
  BY DEF Idle
<1>2. ToSet(<<>>) = {} /\ Len(<<>>) = 0 /\ IsFiniteSet({})
  BY FS_EmptySet DEF ToSet
<1>3. <<>> \in Seq(Host) /\ "idle" \in Phases
  BY EmptySeq DEF Phases
<1>4. Idle \in ToolCall
  BY <1>3 DEF Idle, ToolCall
<1>5. SoundCall(Idle)
  <2> HIDE DEF Idle
  <2>1. Within(Idle) /\ Asking(Idle)
    BY <1>1, <1>2 DEF Within, Asking
  <2>2. Bounded(Idle) /\ Counted(Idle)
    BY <1>1, <1>2, RedirectsAreCounted DEF Bounded, Counted
  <2>3. Underway(Idle) /\ Housed(Idle)
    BY <1>1, <1>2 DEF Underway, ToolOf, Housed
  <2>4. ReceiptIsTrue(Idle) /\ TheLimitReportedIsTheOneHit(Idle)
    BY <1>1 DEF ReceiptIsTrue, TheLimitReportedIsTheOneHit
  <2> QED BY <2>1, <2>2, <2>3, <2>4 DEF SoundCall
<1>6. \A c \in Call : calls[c] = Idle
  BY DEF ToolsInit
<1>7. calls \in [Call -> ToolCall]
  BY <1>4 DEF ToolsInit
<1>8. disk \in [{} -> Contents] /\ {} \in SUBSET Seq(Name)
  BY DEF ToolsInit
<1>9. ReadsFiles
  BY <1>1, <1>6 DEF ReadsFiles
<1> QED BY <1>5, <1>6, <1>7, <1>8, <1>9 DEF ToolsInv, ToolsTypeOK

\* Every step of a tool keeps every call sound.
LEMMA ToolsNextInv == ToolsInv /\ [ToolsNext]_toolVars => ToolsInv'
<1> SUFFICES ASSUME ToolsInv, [ToolsNext]_toolVars PROVE ToolsInv'
  OBVIOUS
<1>1. CASE UNCHANGED toolVars
  BY <1>1 DEF toolVars, ToolsInv, ToolsTypeOK, ReadsFiles
<1>2. CASE ToolsNext
  <2> PICK c \in Call :
         \/ \E n \in Namespace, url \in Urls : CallFetch(c, n, url) \/ CallRender(c, n, url)
         \/ \E answer \in Answers : Lookup(c, answer) \/ \E h \in Host : ProxyForwards(c, h, answer)
         \/ \E url \in Urls : Redirect(c, url) \/ (url # Nothing /\ PageRequests(c, url))
         \/ FetchFails(c) \/ Body(c) \/ RenderEnds(c)
         \/ \E n \in Namespace, valid \in BOOLEAN : CallShell(c, n, valid)
         \/ \E program \in Programs : ProgramEnds(c, program)
         \/ \E n \in Namespace, path \in Paths :
               CallRead(c, n, path) \/ \E contents \in Contents : CallWrite(c, n, path, contents)
         \/ Exists(c) \/ ReadText(c) \/ MakeParents(c) \/ Write(c)
    BY <1>2 DEF ToolsNext
  <2>1. ASSUME NEW n \in Namespace, NEW url \in Urls, CallFetch(c, n, url) PROVE ToolsInv'
    BY <2>1, CallFetchKeeps
  <2>2. ASSUME NEW n \in Namespace, NEW url \in Urls, CallRender(c, n, url) PROVE ToolsInv'
    BY <2>2, CallRenderKeeps
  <2>3. ASSUME NEW answer \in Answers, Lookup(c, answer) PROVE ToolsInv'
    BY <2>3, LookupKeeps
  <2>4. ASSUME NEW answer \in Answers, NEW h \in Host, ProxyForwards(c, h, answer) PROVE ToolsInv'
    BY <2>4, ProxyForwardsKeeps
  <2>5. ASSUME NEW url \in Urls, Redirect(c, url) PROVE ToolsInv'
    BY <2>5, RedirectKeeps
  <2>6. ASSUME NEW url \in Urls, url # Nothing, PageRequests(c, url) PROVE ToolsInv'
    BY <2>6, PageRequestsKeeps
  <2>7. CASE FetchFails(c)
    BY <2>7, FetchFailsKeeps
  <2>8. CASE Body(c)
    BY <2>8, BodyKeeps
  <2>9. CASE RenderEnds(c)
    BY <2>9, RenderEndsKeeps
  <2>10. ASSUME NEW n \in Namespace, NEW valid \in BOOLEAN, CallShell(c, n, valid) PROVE ToolsInv'
    BY <2>10, CallShellKeeps
  <2>11. ASSUME NEW program \in Programs, ProgramEnds(c, program) PROVE ToolsInv'
    BY <2>11, ProgramEndsKeeps
  <2>12. ASSUME NEW n \in Namespace, NEW path \in Paths, CallRead(c, n, path) PROVE ToolsInv'
    BY <2>12, CallReadKeeps
  <2>13. ASSUME NEW n \in Namespace, NEW path \in Paths, NEW contents \in Contents,
                CallWrite(c, n, path, contents)
         PROVE  ToolsInv'
    BY <2>13, CallWriteKeeps
  <2>14. CASE Exists(c)
    BY <2>14, ExistsKeeps
  <2>15. CASE ReadText(c)
    BY <2>15, ReadTextKeeps
  <2>16. CASE MakeParents(c)
    BY <2>16, MakeParentsKeeps
  <2>17. CASE Write(c)
    BY <2>17, WriteKeeps
  <2> QED BY <2>1, <2>2, <2>3, <2>4, <2>5, <2>6, <2>7, <2>8, <2>9, <2>10, <2>11, <2>12, <2>13,
             <2>14, <2>15, <2>16, <2>17
<1> QED BY <1>1, <1>2

\* Every call is sound at every point of every behaviour.
THEOREM ToolsInductive == ToolsSpec => []ToolsInv
<1> QED BY ToolsInitInv, ToolsNextInv, PTL DEF ToolsSpec

\* No host is asked, and no name is looked up, that the tenant of the call is not
\* allowed, and a fetch follows no more redirects than it may.
THEOREM OnlyAllowedHosts == ToolsSpec => []OnlyAllowedHostsAreAsked
<1>1. ASSUME ToolsInv, NEW c \in Call
      PROVE  LET call == calls[c] IN
             /\ call.lookups \cup call.reached \cup ToSet(call.requests) \subseteq EgressFor(call.namespace)
             /\ call.tool = "fetch_url" => Len(call.requests) <= MaxRedirects + 1
  <2>1. Within(calls[c]) /\ Bounded(calls[c])
    BY <1>1 DEF ToolsInv, SoundCall
  <2> QED BY <2>1 DEF Within, Bounded
<1>2. ToolsInv => OnlyAllowedHostsAreAsked
  BY <1>1 DEF OnlyAllowedHostsAreAsked
<1> QED BY <1>2, ToolsInductive, PTL

\* What a call reports, as a receipt or as a failure, is what happened, whatever a
\* page requests of its proxy after the call is over.
THEOREM ReportsAreTrue == ToolsSpec => []ReportIsTrue
<1>1. ToolsInv => ReportIsTrue
  BY DEF ToolsInv, SoundCall, ReportIsTrue
<1> QED BY <1>1, ToolsInductive, PTL

\* A file changes only by a write.
LEMMA OnlyWriteWrites ==
    ASSUME ToolsNext
    PROVE  UNCHANGED disk \/ \E c \in Call : Write(c)
<1> PICK c \in Call :
       \/ \E n \in Namespace, url \in Urls : CallFetch(c, n, url) \/ CallRender(c, n, url)
       \/ \E answer \in Answers : Lookup(c, answer) \/ \E h \in Host : ProxyForwards(c, h, answer)
       \/ \E url \in Urls : Redirect(c, url) \/ (url # Nothing /\ PageRequests(c, url))
       \/ FetchFails(c) \/ Body(c) \/ RenderEnds(c)
       \/ \E n \in Namespace, valid \in BOOLEAN : CallShell(c, n, valid)
       \/ \E program \in Programs : ProgramEnds(c, program)
       \/ \E n \in Namespace, path \in Paths :
             CallRead(c, n, path) \/ \E contents \in Contents : CallWrite(c, n, path, contents)
       \/ Exists(c) \/ ReadText(c) \/ MakeParents(c) \/ Write(c)
  BY DEF ToolsNext
<1>1. ASSUME NEW n \in Namespace, NEW url \in Urls, CallFetch(c, n, url) \/ CallRender(c, n, url)
      PROVE  UNCHANGED disk
  BY <1>1 DEF CallFetch, CallRender
<1>2. ASSUME NEW answer \in Answers,
             Lookup(c, answer) \/ \E h \in Host : ProxyForwards(c, h, answer)
      PROVE  UNCHANGED disk
  BY <1>2 DEF Lookup, ProxyForwards
<1>3. ASSUME NEW url \in Urls, Redirect(c, url) \/ PageRequests(c, url)
      PROVE  UNCHANGED disk
  BY <1>3 DEF Redirect, PageRequests
<1>4. ASSUME FetchFails(c) \/ Body(c) \/ RenderEnds(c) \/ Exists(c) \/ ReadText(c) \/ MakeParents(c)
      PROVE  UNCHANGED disk
  BY <1>4 DEF FetchFails, Body, RenderEnds, Exists, ReadText, MakeParents
<1>5. ASSUME NEW n \in Namespace, NEW valid \in BOOLEAN, CallShell(c, n, valid)
      PROVE  UNCHANGED disk
  BY <1>5 DEF CallShell
<1>6. ASSUME NEW program \in Programs, ProgramEnds(c, program)
      PROVE  UNCHANGED disk
  BY <1>6 DEF ProgramEnds
<1>7. ASSUME NEW n \in Namespace, NEW path \in Paths,
             CallRead(c, n, path) \/ \E contents \in Contents : CallWrite(c, n, path, contents)
      PROVE  UNCHANGED disk
  BY <1>7 DEF CallRead, CallWrite
<1> QED BY <1>1, <1>2, <1>3, <1>4, <1>5, <1>6, <1>7

\* A file changes only by a write to where the writer's path leads, and a call whose
\* path is plain, without a segment that decodes to several names, writes and reads
\* in the workspace of its own tenant.
THEOREM WorkspacesStaySeparate == ToolsSpec => WorkspacesAreSeparate
<1> DEFINE Wrote(c, p) == /\ calls[c].phase = "writing" /\ calls'[c].phase = "done"
                          /\ p = Place(calls[c].target)
                          /\ Plain(calls[c].path) => AtHome(calls[c])
           Apart == /\ \A p \in DOMAIN disk' :
                         p \notin DOMAIN disk \/ disk'[p] # disk[p] => \E c \in Call : Wrote(c, p)
                    /\ \A c \in Call :
                         calls[c].phase = "reading" /\ Plain(calls[c].path) => AtHome(calls[c])
<1>1. ASSUME ToolsInv, ToolsNext PROVE Apart
  <2>1. \A c \in Call : calls[c].phase \in {"reading", "writing"} =>
           (Plain(calls[c].path) => AtHome(calls[c]))
    BY <1>1, AtFileFacts DEF Housed
  <2>2. ASSUME NEW c \in Call, Write(c), NEW p \in DOMAIN disk',
               p \notin DOMAIN disk \/ disk'[p] # disk[p]
        PROVE  Wrote(c, p)
    <3> DEFINE call  == calls[c]
               place == Place(call.target)
               e     == [Acted(call, {<<"wrote", call.path>>}) EXCEPT !.did = {<<"wrote", place>>}]
    <3>1. /\ call.phase = "writing"
          /\ \/ UNCHANGED disk
             \/ /\ Moved(c, e)
                /\ disk' = [q \in DOMAIN disk \cup {place} |->
                              IF q = place THEN call.contents ELSE disk[q]]
      BY <2>2 DEF Write
    <3>2. p = place /\ calls'[c] = e
      <4>1. Moved(c, e) /\ p = place
        BY <2>2, <3>1
      <4>2. calls \in [Call -> ToolCall]
        BY <1>1 DEF ToolsInv, ToolsTypeOK
      <4> QED BY <4>1, <4>2 DEF Moved
    <3>3. e.phase = "done"
      <4>1. call \in ToolCall
        BY <1>1 DEF ToolsInv, ToolsTypeOK
      <4> HIDE DEF call, place
      <4> QED BY <4>1 DEF Acted, Ended, ToolCall
    <3> QED BY <2>1, <3>1, <3>2, <3>3
  <2> QED BY <1>1, <2>1, <2>2, OnlyWriteWrites
<1>2. ToolsInv /\ [ToolsNext]_toolVars => [Apart]_toolVars
  BY <1>1
<1>3. ToolsSpec => [][Apart]_toolVars
  BY <1>2, ToolsInductive, PTL DEF ToolsSpec
<1> QED BY <1>3 DEF WorkspacesAreSeparate
=============================================================================
