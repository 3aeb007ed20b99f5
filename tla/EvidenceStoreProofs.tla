------------------------ MODULE EvidenceStoreProofs ------------------------
(***************************************************************************)
(* Proofs about EvidenceStore, for any number of runs and callers, any     *)
(* entries and any retention.  The inductive invariant says of each run    *)
(* that its rows, as far as they are left, were made from one history, and *)
(* that this history is the beginning of a log that some caller holds.     *)
(***************************************************************************)
EXTENDS EvidenceStore, SequenceTheorems, TLAPS

\* A row as it was made of entry i of a history, or altered since.
RowSays(row, h, i) ==
    /\ row \in Row
    /\ row.body \in {h[i], Garbled}
    /\ row.previousHash = SubSeq(h, 1, i - 1)
    /\ row.hash = SubSeq(h, 1, i)

Chained(rows, h) ==
    /\ rows \in Seq(Row \cup {LostRow})
    /\ h \in Seq(Entry)
    /\ Len(rows) = Len(h)
    /\ rows # <<>> => rows[Len(rows)] # LostRow
    /\ \A i \in 1 .. Len(rows) : rows[i] # LostRow => RowSays(rows[i], h, i)

Begins(h, log) == Len(h) <= Len(log) /\ h = SubSeq(log, 1, Len(h))

RunInv(k) ==
    /\ k \in disposed => runs[k] = <<>>
    /\ Chained(runs[k], TailHash(runs[k]))
    /\ runs[k] # <<>> => \E c \in Caller : KeyOf[c] = k /\ Begins(TailHash(runs[k]), logs[c])

IInv == TypeOK /\ \A k \in Key : RunInv(k)
-----------------------------------------------------------------------------
\* The tail row commits to the whole history.
LEMMA TailSays ==
    ASSUME NEW rows, NEW h, Chained(rows, h)
    PROVE  TailHash(rows) = h
<1>1. CASE rows = <<>>
  BY <1>1, EmptySeq DEF Chained, TailHash
<1>2. CASE rows # <<>>
  <2>1. Len(rows) \in Nat /\ Len(rows) # 0 /\ Len(rows) = Len(h) /\ h \in Seq(Entry)
    BY <1>2, EmptySeq, LenProperties DEF Chained
  <2>2. RowSays(rows[Len(rows)], h, Len(rows))
    BY <1>2, <2>1 DEF Chained
  <2>3. SubSeq(h, 1, Len(h)) = h
    BY <2>1, SubSeqFull
  <2> QED  BY <1>2, <2>1, <2>2, <2>3 DEF TailHash, RowSays
<1> QED  BY <1>1, <1>2

\* The beginning of a sequence, entry by entry.
LEMMA BeginningFacts ==
    ASSUME NEW S, NEW s \in Seq(S), NEW n \in 0 .. Len(s)
    PROVE  /\ SubSeq(s, 1, n) \in Seq(S)
           /\ Len(SubSeq(s, 1, n)) = n
           /\ \A i \in 1 .. n : SubSeq(s, 1, n)[i] = s[i]
<1>1. Len(s) \in Nat /\ \A i \in 1 .. n : s[i] \in S
  BY LenProperties, ElementOfSeq
<1> QED  BY <1>1, SubSeqProperties

\* The beginning of a beginning is a beginning.
LEMMA BeginningOfBeginning ==
    ASSUME NEW S, NEW s \in Seq(S), NEW n \in 0 .. Len(s), NEW m \in 0 .. n
    PROVE  SubSeq(SubSeq(s, 1, n), 1, m) = SubSeq(s, 1, m)
<1>1. Len(s) \in Nat /\ m \in 0 .. Len(s)
  BY LenProperties
<1>2. /\ SubSeq(s, 1, n) \in Seq(S) /\ Len(SubSeq(s, 1, n)) = n
      /\ \A i \in 1 .. n : SubSeq(s, 1, n)[i] = s[i]
  BY BeginningFacts
<1>3. /\ SubSeq(s, 1, m) \in Seq(S) /\ Len(SubSeq(s, 1, m)) = m
      /\ \A i \in 1 .. m : SubSeq(s, 1, m)[i] = s[i]
  BY <1>1, BeginningFacts
<1> DEFINE t == SubSeq(s, 1, n)
<1>4. /\ SubSeq(t, 1, m) \in Seq(S) /\ Len(SubSeq(t, 1, m)) = m
      /\ \A i \in 1 .. m : SubSeq(t, 1, m)[i] = t[i]
  BY <1>2, BeginningFacts
<1>5. \A i \in 1 .. m : SubSeq(t, 1, m)[i] = SubSeq(s, 1, m)[i]
  BY <1>2, <1>3, <1>4
<1> QED  BY <1>3, <1>4, <1>5, SeqEqual

\* What appendEntry makes of a log says what the log says.
LEMMA RowOfSays ==
    ASSUME RowAssumption, NEW log \in Seq(Entry), NEW i \in 1 .. Len(log)
    PROVE  RowSays(RowOf(log, i), log, i) /\ RowOf(log, i) # LostRow
<1>1. Len(log) \in Nat /\ i - 1 \in 0 .. Len(log) /\ i \in 0 .. Len(log)
  BY LenProperties
<1>2. SubSeq(log, 1, i - 1) \in Seq(Entry) /\ SubSeq(log, 1, i) \in Seq(Entry)
  BY <1>1, BeginningFacts
<1>3. log[i] \in Entry
  BY ElementOfSeq
<1> QED  BY <1>2, <1>3 DEF RowOf, RowSays, Row, RowAssumption

\* A function on 1 .. n is a sequence of length n.
LEMMA SequenceOf ==
    ASSUME NEW S, NEW n \in Nat, NEW f \in [1 .. n -> S]
    PROVE  f \in Seq(S) /\ Len(f) = n
  OBVIOUS

\* The rows appended: those of the entries that were not stored.
LEMMA AppendedRows ==
    ASSUME RowAssumption, NEW rows \in Seq(Row \cup {LostRow}), NEW log \in Seq(Entry),
           Len(rows) < Len(log)
    PROVE  /\ Appended(rows, log) \in Seq(Row \cup {LostRow})
           /\ Len(Appended(rows, log)) = Len(log)
           /\ \A i \in 1 .. Len(log) : Appended(rows, log)[i] =
                 IF i <= Len(rows) THEN rows[i] ELSE RowOf(log, i)
<1> DEFINE new == [i \in 1 .. Len(log) - Len(rows) |-> RowOf(log, Len(rows) + i)]
<1>1. Len(log) \in Nat /\ Len(rows) \in Nat /\ Len(log) - Len(rows) \in Nat
  BY LenProperties
<1>2. \A j \in 1 .. Len(log) : RowOf(log, j) \in Row
  BY RowOfSays DEF RowSays
<1>3. new \in [1 .. Len(log) - Len(rows) -> Row \cup {LostRow}]
  BY <1>1, <1>2
<1>4. \A i \in 1 .. Len(log) - Len(rows) : new[i] = RowOf(log, Len(rows) + i)
  OBVIOUS
<1>5. Appended(rows, log) = rows \o new
  BY DEF Appended
<1> HIDE DEF new
<1>6. new \in Seq(Row \cup {LostRow}) /\ Len(new) = Len(log) - Len(rows)
  BY <1>1, <1>3, SequenceOf
<1>7. /\ rows \o new \in Seq(Row \cup {LostRow})
      /\ Len(rows \o new) = Len(rows) + Len(new)
      /\ \A i \in 1 .. Len(rows) + Len(new) : (rows \o new)[i] =
            IF i <= Len(rows) THEN rows[i] ELSE new[i - Len(rows)]
  BY <1>6, ConcatProperties
<1>8. Len(rows) + Len(new) = Len(log)
  BY <1>1, <1>6
<1>9. ASSUME NEW i \in 1 .. Len(log), ~(i <= Len(rows))
      PROVE  new[i - Len(rows)] = RowOf(log, i)
  <2>1. i - Len(rows) \in 1 .. Len(log) - Len(rows) /\ Len(rows) + (i - Len(rows)) = i
    BY <1>1, <1>9
  <2> QED  BY <1>4, <2>1
<1> QED  BY <1>5, <1>7, <1>8, <1>9

\* A log as long as the stored run changes nothing; a longer one that continues
\* it becomes the history of the run.
LEMMA AppendedChained ==
    ASSUME RowAssumption, NEW rows, NEW h, Chained(rows, h), NEW log \in Seq(Entry),
           Continues(rows, log)
    PROVE  IF Len(log) = Len(rows)
             THEN Appended(rows, log) = rows
             ELSE /\ Len(rows) < Len(log) /\ h = SubSeq(log, 1, Len(rows))
                  /\ Chained(Appended(rows, log), log)
<1>1. /\ Len(log) \in Nat /\ Len(rows) \in Nat /\ rows \in Seq(Row \cup {LostRow})
      /\ h \in Seq(Entry) /\ Len(rows) = Len(h)
  BY LenProperties DEF Chained
<1>2. CASE Len(log) = Len(rows)
  <2>1. Len(log) - Len(rows) = 0 /\ 1 .. 0 = {}
    BY <1>1, <1>2
  <2>2. [i \in 1 .. Len(log) - Len(rows) |-> RowOf(log, Len(rows) + i)] = <<>>
    BY <2>1
  <2> QED  BY <1>1, <1>2, <2>2, ConcatEmptySeq DEF Appended
<1>3. CASE Len(log) # Len(rows)
  <2>1. Len(rows) < Len(log) /\ h = SubSeq(log, 1, Len(rows))
    BY <1>1, <1>3, TailSays DEF Continues
  <2> DEFINE all == Appended(rows, log)
  <2>2. /\ all \in Seq(Row \cup {LostRow})
        /\ Len(all) = Len(log)
        /\ \A i \in 1 .. Len(log) : all[i] = IF i <= Len(rows) THEN rows[i] ELSE RowOf(log, i)
    BY <1>1, <2>1, AppendedRows
  <2> HIDE DEF all
  <2>3. ASSUME NEW i \in 1 .. Len(log), all[i] # LostRow
        PROVE  RowSays(all[i], log, i)
    <3>1. CASE i <= Len(rows)
      <4>1. RowSays(rows[i], h, i)
        BY <1>1, <2>2, <2>3, <3>1 DEF Chained
      <4>2. h[i] = log[i]
        BY <1>1, <2>1, <3>1, BeginningFacts
      <4>3. SubSeq(h, 1, i - 1) = SubSeq(log, 1, i - 1)
        <5>1. i - 1 \in 0 .. Len(rows) /\ Len(rows) \in 0 .. Len(log)
          BY <1>1, <2>1, <3>1
        <5> QED  BY <2>1, <5>1, BeginningOfBeginning
      <4>4. SubSeq(h, 1, i) = SubSeq(log, 1, i)
        <5>1. i \in 0 .. Len(rows) /\ Len(rows) \in 0 .. Len(log)
          BY <1>1, <2>1, <3>1
        <5> QED  BY <2>1, <5>1, BeginningOfBeginning
      <4> QED  BY <2>2, <3>1, <4>1, <4>2, <4>3, <4>4 DEF RowSays
    <3>2. CASE ~(i <= Len(rows))
      <4>1. all[i] = RowOf(log, i)
        BY <2>2, <3>2
      <4> QED  BY <4>1, RowOfSays
    <3> QED  BY <3>1, <3>2
  <2>4. all[Len(log)] # LostRow
    <3>1. all[Len(log)] = RowOf(log, Len(log)) /\ Len(log) \in 1 .. Len(log)
      BY <1>1, <2>1, <2>2
    <3> QED  BY <3>1, RowOfSays
  <2>5. Chained(all, log)
    BY <2>2, <2>3, <2>4 DEF Chained
  <2> QED  BY <1>3, <2>1, <2>5 DEF all
<1> QED  BY <1>2, <1>3
-----------------------------------------------------------------------------
\* Decay leaves the rest of the chain as it was.
LEMMA AlteredChained ==
    ASSUME RowAssumption, NEW rows, NEW h, Chained(rows, h), NEW i \in 1 .. Len(rows),
           rows[i] # LostRow
    PROVE  Chained(Altered(rows, i), h)
<1> DEFINE row == [rows[i] EXCEPT !.body = Garbled]
<1>1. RowSays(rows[i], h, i) /\ rows \in Seq(Row \cup {LostRow})
  BY DEF Chained
<1>2. /\ row \in Row /\ row.body = Garbled
      /\ row.previousHash = rows[i].previousHash /\ row.hash = rows[i].hash
  BY <1>1 DEF RowSays, Row
<1>3. RowSays(row, h, i)
  BY <1>1, <1>2 DEF RowSays
<1>4. Altered(rows, i) = [rows EXCEPT ![i] = row]
  BY DEF Altered
<1> HIDE DEF row
<1>5. /\ Altered(rows, i) \in Seq(Row \cup {LostRow})
      /\ Len(Altered(rows, i)) = Len(rows)
      /\ \A j \in 1 .. Len(rows) : Altered(rows, i)[j] = IF j = i THEN row ELSE rows[j]
  BY <1>1, <1>2, <1>4, ExceptSeq
<1>6. row # LostRow /\ Len(rows) \in Nat /\ Len(rows) \in 1 .. Len(rows)
  BY <1>1, <1>2, LenProperties DEF RowAssumption
<1>7. rows # <<>>
  BY <1>6, EmptySeq
<1>8. Altered(rows, i)[Len(rows)] # LostRow
  BY <1>5, <1>6, <1>7 DEF Chained
<1> QED  BY <1>3, <1>5, <1>8 DEF Chained

\* A row lost from the middle leaves the others as they were made.
LEMMA LostChained ==
    ASSUME RowAssumption, NEW rows, NEW h, Chained(rows, h), NEW i \in 1 .. Len(rows) - 1
    PROVE  Chained(Lost(rows, i), h)
<1>1. /\ rows \in Seq(Row \cup {LostRow}) /\ Len(rows) \in Nat
      /\ i \in 1 .. Len(rows) /\ i # Len(rows)
  BY LenProperties DEF Chained
<1>2. /\ Lost(rows, i) \in Seq(Row \cup {LostRow})
      /\ Len(Lost(rows, i)) = Len(rows)
      /\ \A j \in 1 .. Len(rows) : Lost(rows, i)[j] = IF j = i THEN LostRow ELSE rows[j]
  BY <1>1, ExceptSeq DEF Lost
<1>3. rows # <<>> /\ Len(rows) \in 1 .. Len(rows)
  BY <1>1, EmptySeq
<1>4. Lost(rows, i)[Len(rows)] # LostRow
  BY <1>1, <1>2, <1>3 DEF Chained
<1> QED  BY <1>2, <1>4 DEF Chained

\* A run that loses its end keeps the beginning of its history.
LEMMA TruncatedChained ==
    ASSUME NEW rows, NEW h, Chained(rows, h), NEW n \in 0 .. Len(rows),
           n > 0 => rows[n] # LostRow
    PROVE  Chained(Truncated(rows, n), SubSeq(h, 1, n))
<1>1. /\ rows \in Seq(Row \cup {LostRow}) /\ Len(rows) \in Nat
      /\ h \in Seq(Entry) /\ Len(rows) = Len(h)
  BY LenProperties DEF Chained
<1> DEFINE left == Truncated(rows, n)
           g == SubSeq(h, 1, n)
<1>2. /\ left \in Seq(Row \cup {LostRow}) /\ Len(left) = n
      /\ \A i \in 1 .. n : left[i] = rows[i]
  BY <1>1, BeginningFacts DEF Truncated
<1>3. g \in Seq(Entry) /\ Len(g) = n /\ \A i \in 1 .. n : g[i] = h[i]
  BY <1>1, BeginningFacts
<1>4. ASSUME NEW i \in 1 .. n
      PROVE  SubSeq(g, 1, i) = SubSeq(h, 1, i) /\ SubSeq(g, 1, i - 1) = SubSeq(h, 1, i - 1)
  <2>1. i \in 0 .. n /\ i - 1 \in 0 .. n /\ n \in 0 .. Len(h)
    BY <1>1
  <2>2. SubSeq(g, 1, i) = SubSeq(h, 1, i)
    BY <1>1, <2>1, BeginningOfBeginning
  <2>3. SubSeq(g, 1, i - 1) = SubSeq(h, 1, i - 1)
    BY <1>1, <2>1, BeginningOfBeginning
  <2> QED  BY <2>2, <2>3
<1> HIDE DEF left, g
<1>5. ASSUME NEW i \in 1 .. n, left[i] # LostRow
      PROVE  RowSays(left[i], g, i)
  <2>1. RowSays(rows[i], h, i)
    BY <1>1, <1>2, <1>5 DEF Chained
  <2> QED  BY <1>2, <1>3, <1>4, <2>1 DEF RowSays
<1>6. left # <<>> => left[n] # LostRow
  <2>1. left # <<>> => n \in 1 .. n /\ n > 0
    BY <1>2, EmptySeq
  <2> QED  BY <1>2, <2>1
<1>7. Chained(left, g)
  BY <1>2, <1>3, <1>5, <1>6 DEF Chained
<1> QED  BY <1>7 DEF left, g

\* What verifies says exactly what its history says.
LEMMA VerifiedSays ==
    ASSUME RowAssumption, NEW rows, NEW h, Chained(rows, h), Verified(rows),
           NEW i \in 1 .. Len(rows)
    PROVE  rows[i] # LostRow /\ rows[i].body = h[i]
<1>1. /\ rows[i] # LostRow
      /\ Append(rows[i].previousHash, rows[i].body) = rows[i].hash
  BY DEF Verified, Hash
<1>2. RowSays(rows[i], h, i) /\ h \in Seq(Entry) /\ Len(rows) = Len(h)
  BY <1>1 DEF Chained
<1>3. Len(h) \in Nat /\ i \in 0 .. Len(h) /\ i - 1 \in 0 .. Len(h) /\ i \in 1 .. Len(h)
  BY <1>2, LenProperties
<1> DEFINE before == SubSeq(h, 1, i - 1)
           upto == SubSeq(h, 1, i)
<1>4. before \in Seq(Entry) /\ Len(before) = i - 1
  BY <1>2, <1>3, BeginningFacts
<1>5. Len(upto) = i /\ upto[i] = h[i]
  BY <1>2, <1>3, BeginningFacts
<1>6. rows[i].body \in Entry \cup {Garbled}
  BY <1>2 DEF RowSays, Row
<1>7. before \in Seq(Entry \cup {Garbled})
  <2>1. \A j \in 1 .. i - 1 : before[j] \in Entry
    BY <1>4, ElementOfSeq
  <2>2. before \in [1 .. i - 1 -> Entry \cup {Garbled}] /\ i - 1 \in Nat
    BY <1>3, <1>4, <2>1, LenProperties
  <2> QED  BY <2>2, SequenceOf
<1>8. Append(before, rows[i].body) = upto
  BY <1>1, <1>2 DEF RowSays
<1> HIDE DEF before, upto
<1>9. Append(before, rows[i].body)[Len(before) + 1] = rows[i].body
  BY <1>6, <1>7, AppendProperties
<1>10. Len(before) + 1 = i
  BY <1>3, <1>4
<1> QED  BY <1>1, <1>5, <1>8, <1>9, <1>10
-----------------------------------------------------------------------------
\* A run without rows is made from no history.
LEMMA EmptyChained == Chained(<<>>, TailHash(<<>>))
  BY EmptySeq DEF Chained, TailHash

\* A caller's log only grows: what it begins with stays its beginning.
LEMMA StillBegins ==
    ASSUME NEW h \in Seq(Entry), NEW log \in Seq(Entry), NEW e \in Entry, Begins(h, log)
    PROVE  Begins(h, Append(log, e))
<1> DEFINE more == Append(log, e)
           n == Len(h)
<1>1. /\ more \in Seq(Entry) /\ Len(more) = Len(log) + 1
      /\ \A i \in 1 .. Len(log) : more[i] = log[i]
  BY AppendProperties
<1>2. Len(log) \in Nat /\ n \in 0 .. Len(log) /\ n \in 0 .. Len(more) /\ h = SubSeq(log, 1, n)
  BY <1>1, LenProperties DEF Begins
<1>3. /\ SubSeq(more, 1, n) \in Seq(Entry) /\ Len(SubSeq(more, 1, n)) = n
      /\ \A i \in 1 .. n : SubSeq(more, 1, n)[i] = more[i]
  BY <1>1, <1>2, BeginningFacts
<1>4. \A i \in 1 .. n : h[i] = log[i]
  BY <1>2, BeginningFacts
<1>5. \A i \in 1 .. n : SubSeq(more, 1, n)[i] = h[i]
  BY <1>1, <1>2, <1>3, <1>4
<1>6. SubSeq(more, 1, n) = h
  BY <1>3, <1>5, SeqEqual
<1> QED  BY <1>1, <1>2, <1>6 DEF Begins

\* A shorter beginning of a log is a beginning too.
LEMMA ShorterBegins ==
    ASSUME NEW h \in Seq(Entry), NEW log \in Seq(Entry), Begins(h, log), NEW n \in 0 .. Len(h)
    PROVE  Begins(SubSeq(h, 1, n), log)
<1>1. Len(log) \in Nat /\ Len(h) \in 0 .. Len(log) /\ n <= Len(log) /\ h = SubSeq(log, 1, Len(h))
  BY LenProperties DEF Begins
<1>2. SubSeq(h, 1, n) = SubSeq(log, 1, n)
  BY <1>1, BeginningOfBeginning
<1>3. Len(SubSeq(h, 1, n)) = n
  BY BeginningFacts
<1> QED  BY <1>1, <1>2, <1>3 DEF Begins

\* A run a step leaves alone.
LEMMA SameRun ==
    ASSUME NEW k \in Key, RunInv(k), runs'[k] = runs[k], logs' = logs,
           k \in disposed' => k \in disposed
    PROVE  RunInv(k)'
  BY DEF RunInv

\* A run a step changes, and the history it then has.
LEMMA ChangedRun ==
    ASSUME NEW k \in Key, NEW h, Chained(runs'[k], h), logs' = logs,
           NEW c \in Caller, KeyOf[c] = k, Begins(h, logs[c]), k \notin disposed'
    PROVE  RunInv(k)'
<1>1. TailHash(runs'[k]) = h
  BY TailSays
<1> QED  BY <1>1 DEF RunInv

\* The invariant, of a run that has rows.
LEMMA RunFacts ==
    ASSUME NEW k \in Key, RunInv(k), runs[k] # <<>>
    PROVE  /\ k \notin disposed /\ Chained(runs[k], TailHash(runs[k]))
           /\ \E c \in Caller : KeyOf[c] = k /\ Begins(TailHash(runs[k]), logs[c])
  BY DEF RunInv
-----------------------------------------------------------------------------
\* Nothing is stored at first.
LEMMA InitIInv == Init => IInv
<1> SUFFICES ASSUME Init PROVE IInv
  OBVIOUS
<1>1. TypeOK
  BY EmptySeq DEF Init, TypeOK
<1>2. ASSUME NEW k \in Key PROVE RunInv(k)
  <2>1. runs[k] = <<>>
    BY DEF Init
  <2> QED  BY <2>1, EmptyChained DEF RunInv
<1> QED  BY <1>1, <1>2 DEF IInv

\* A caller extends its own log.
LEMMA AppendEntryStep ==
    ASSUME IInv, NEW c \in Caller, NEW e \in Entry, AppendEntry(c, e)
    PROVE  IInv'
<1>1. /\ TypeOK /\ logs[c] \in Seq(Entry) /\ Append(logs[c], e) \in Seq(Entry)
      /\ logs' = [logs EXCEPT ![c] = Append(@, e)]
      /\ now' = now /\ runs' = runs /\ disposed' = disposed
  BY AppendProperties DEF IInv, TypeOK, AppendEntry
<1>2. TypeOK'
  BY <1>1 DEF TypeOK
<1>3. ASSUME NEW k \in Key PROVE RunInv(k)'
  <2>1. RunInv(k)
    BY DEF IInv
  <2>2. CASE runs[k] = <<>>
    BY <1>1, <2>1, <2>2 DEF RunInv
  <2>3. CASE runs[k] # <<>>
    <3>1. PICK d \in Caller : KeyOf[d] = k /\ Begins(TailHash(runs[k]), logs[d])
      BY <2>1, <2>3 DEF RunInv
    <3>2. TailHash(runs[k]) \in Seq(Entry) /\ logs[d] \in Seq(Entry)
      BY <1>1, <2>1 DEF RunInv, Chained, TypeOK
    <3>3. Begins(TailHash(runs[k]), logs'[d])
      <4>1. CASE d = c
        <5>1. logs'[d] = Append(logs[d], e)
          BY <1>1, <4>1 DEF TypeOK
        <5> QED  BY <3>1, <3>2, <5>1, StillBegins
      <4>2. CASE d # c
        BY <1>1, <3>1, <4>2 DEF TypeOK
      <4> QED  BY <4>1, <4>2
    <3> QED  BY <1>1, <2>1, <3>1, <3>3 DEF RunInv
  <2> QED  BY <2>2, <2>3
<1> QED  BY <1>2, <1>3 DEF IInv

\* The actions that change one run give it rows that were made from one
\* history, the beginning of a caller's log.
LEMMA OneRunStep ==
    ASSUME IInv, NEW k \in Key, NEW rows \in Seq(Row \cup {LostRow}),
           runs' = [runs EXCEPT ![k] = rows], now' = now, disposed' = disposed, logs' = logs,
           \/ rows = runs[k]
           \/ /\ k \notin disposed
              /\ \E h \in Seq(Entry), c \in Caller :
                    Chained(rows, h) /\ KeyOf[c] = k /\ Begins(h, logs[c])
    PROVE  IInv'
<1>1. TypeOK /\ runs'[k] = rows /\ \A j \in Key : j # k => runs'[j] = runs[j]
  BY DEF IInv, TypeOK
<1>2. TypeOK'
  BY <1>1 DEF TypeOK
<1>3. ASSUME NEW j \in Key, j # k \/ rows = runs[k] PROVE RunInv(j)'
  <2>1. RunInv(j) /\ runs'[j] = runs[j]
    BY <1>1, <1>3 DEF IInv
  <2> QED  BY <2>1, SameRun
<1>4. CASE rows = runs[k]
  BY <1>2, <1>3, <1>4 DEF IInv
<1>5. CASE k \notin disposed /\ rows # runs[k]
  <2>1. PICK h \in Seq(Entry), c \in Caller :
               Chained(rows, h) /\ KeyOf[c] = k /\ Begins(h, logs[c])
    BY <1>5
  <2>2. RunInv(k)'
    BY <1>1, <1>5, <2>1, ChangedRun
  <2> QED  BY <1>2, <1>3, <2>2 DEF IInv
<1> QED  BY <1>4, <1>5

\* A log that continues the rows is stored behind them.
LEMMA StoreStep ==
    ASSUME IInv, NEW c \in Caller, Store(c)
    PROVE  IInv'
<1> USE RowAssumption, StoreAssumption
<1> DEFINE k == KeyOf[c]
           rows == Appended(runs[k], logs[c])
<1>1. /\ k \in Key /\ logs[c] \in Seq(Entry) /\ k \notin disposed
      /\ runs[k] \in Seq(Row \cup {LostRow})
      /\ Chained(runs[k], TailHash(runs[k])) /\ Continues(runs[k], logs[c])
  BY DEF IInv, TypeOK, RunInv, Store, StoreAssumption
<1>2. runs' = [runs EXCEPT ![k] = rows] /\ now' = now /\ disposed' = disposed /\ logs' = logs
  BY DEF Store
<1>3. CASE Len(logs[c]) = Len(runs[k])
  <2>1. rows = runs[k]
    BY <1>1, <1>3, AppendedChained
  <2> QED  BY <1>1, <1>2, <2>1, OneRunStep
<1>4. CASE Len(logs[c]) # Len(runs[k])
  <2>1. Chained(rows, logs[c])
    BY <1>1, <1>4, AppendedChained
  <2>2. rows \in Seq(Row \cup {LostRow})
    BY <2>1 DEF Chained
  <2>3. Begins(logs[c], logs[c])
    BY <1>1, LenProperties, SubSeqFull DEF Begins
  <2>4. \E h \in Seq(Entry), d \in Caller :
           Chained(rows, h) /\ KeyOf[d] = k /\ Begins(h, logs[d])
    BY <1>1, <2>1, <2>3
  <2> HIDE DEF k, rows
  <2> QED  BY <1>1, <1>2, <2>2, <2>4, OneRunStep
<1> QED  BY <1>3, <1>4

\* What happens underneath the store, one lemma for each way.
LEMMA UnderneathStep ==
    ASSUME IInv, NEW k \in Key, runs[k] # <<>>, NEW rows, NEW h \in Seq(Entry),
           Chained(rows, h), \A c \in Caller :
               Begins(TailHash(runs[k]), logs[c]) => Begins(h, logs[c]),
           runs' = [runs EXCEPT ![k] = rows], now' = now, disposed' = disposed, logs' = logs
    PROVE  IInv'
<1>1. RunInv(k) /\ rows \in Seq(Row \cup {LostRow})
  BY DEF IInv, Chained
<1>2. k \notin disposed /\ \E c \in Caller : KeyOf[c] = k /\ Begins(TailHash(runs[k]), logs[c])
  BY <1>1, RunFacts
<1>3. \E g \in Seq(Entry), c \in Caller :
         Chained(rows, g) /\ KeyOf[c] = k /\ Begins(g, logs[c])
  BY <1>2
<1> QED  BY <1>1, <1>2, <1>3, OneRunStep

\* A row altered underneath is still the row of its place.
LEMMA AlterRowStep ==
    ASSUME IInv, NEW k \in Key, NEW i \in 1 .. MaxLen, AlterRow(k, i)
    PROVE  IInv'
<1>1. /\ runs[k] \in Seq(Row \cup {LostRow}) /\ Chained(runs[k], TailHash(runs[k]))
      /\ TailHash(runs[k]) \in Seq(Entry)
      /\ i \in 1 .. Len(runs[k]) /\ runs[k][i] # LostRow
  BY DEF IInv, TypeOK, RunInv, Chained, AlterRow
<1>2. runs[k] # <<>>
  BY <1>1, EmptySeq
<1>3. Chained(Altered(runs[k], i), TailHash(runs[k]))
  BY <1>1, RowAssumption, AlteredChained
<1>4. /\ runs' = [runs EXCEPT ![k] = Altered(runs[k], i)]
      /\ now' = now /\ disposed' = disposed /\ logs' = logs
  BY DEF AlterRow
<1> QED  BY <1>1, <1>2, <1>3, <1>4, UnderneathStep

\* A row lost underneath leaves the others.
LEMMA LoseRowStep ==
    ASSUME IInv, NEW k \in Key, NEW i \in 1 .. MaxLen, LoseRow(k, i)
    PROVE  IInv'
<1>1. /\ runs[k] \in Seq(Row \cup {LostRow}) /\ Chained(runs[k], TailHash(runs[k]))
      /\ TailHash(runs[k]) \in Seq(Entry)
      /\ i \in 1 .. Len(runs[k]) - 1
  BY DEF IInv, TypeOK, RunInv, Chained, LoseRow
<1>2. runs[k] # <<>>
  BY <1>1, EmptySeq
<1>3. Chained(Lost(runs[k], i), TailHash(runs[k]))
  BY <1>1, RowAssumption, LostChained
<1>4. /\ runs' = [runs EXCEPT ![k] = Lost(runs[k], i)]
      /\ now' = now /\ disposed' = disposed /\ logs' = logs
  BY DEF LoseRow
<1> QED  BY <1>1, <1>2, <1>3, <1>4, UnderneathStep

\* Rows lost at the end leave the beginning of the same history.
LEMMA LoseTailStep ==
    ASSUME IInv, NEW k \in Key, NEW n \in 0 .. MaxLen, LoseTail(k, n)
    PROVE  IInv'
<1> DEFINE h == TailHash(runs[k])
<1>1. /\ runs[k] \in Seq(Row \cup {LostRow}) /\ Chained(runs[k], h)
      /\ h \in Seq(Entry) /\ Len(h) = Len(runs[k])
      /\ n \in 0 .. Len(runs[k]) - 1 /\ (n > 0 => runs[k][n] # LostRow)
      /\ logs \in [Caller -> Seq(Entry)]
  BY DEF IInv, TypeOK, RunInv, Chained, LoseTail
<1>2. runs[k] # <<>> /\ n \in 0 .. Len(runs[k]) /\ n \in 0 .. Len(h)
  BY <1>1, EmptySeq, LenProperties
<1>3. Chained(Truncated(runs[k], n), SubSeq(h, 1, n)) /\ SubSeq(h, 1, n) \in Seq(Entry)
  BY <1>1, <1>2, TruncatedChained, BeginningFacts
<1>4. \A c \in Caller : Begins(h, logs[c]) => Begins(SubSeq(h, 1, n), logs[c])
  BY <1>1, <1>2, ShorterBegins
<1>5. /\ runs' = [runs EXCEPT ![k] = Truncated(runs[k], n)]
      /\ now' = now /\ disposed' = disposed /\ logs' = logs
  BY DEF LoseTail
<1> QED  BY <1>1, <1>2, <1>3, <1>4, <1>5, UnderneathStep

\* A run whose retention is over is gone as a whole.
LEMMA DisposeStep ==
    ASSUME IInv, DisposeExpiredRuns
    PROVE  IInv'
<1>1. /\ TypeOK /\ now' = now /\ logs' = logs
      /\ runs' = [k \in Key |-> IF Due(k) THEN <<>> ELSE runs[k]]
      /\ disposed' = disposed \cup {k \in Key : Due(k)}
  BY DEF IInv, DisposeExpiredRuns
<1>2. TypeOK'
  BY <1>1, EmptySeq DEF TypeOK
<1>3. ASSUME NEW k \in Key PROVE RunInv(k)'
  <2>1. RunInv(k)
    BY DEF IInv
  <2>2. CASE Due(k)
    <3>1. runs'[k] = <<>>
      BY <1>1, <2>2
    <3> QED  BY <3>1, EmptyChained DEF RunInv
  <2>3. CASE ~Due(k)
    <3>1. runs'[k] = runs[k] /\ (k \in disposed' => k \in disposed)
      BY <1>1, <2>3
    <3> QED  BY <1>1, <2>1, <3>1, SameRun
  <2> QED  BY <2>2, <2>3
<1> QED  BY <1>2, <1>3 DEF IInv

\* Time passes over what is stored.
LEMMA UnchangedStep ==
    ASSUME IInv, now' \in Nat, runs' = runs, disposed' = disposed, logs' = logs
    PROVE  IInv'
  BY DEF IInv, TypeOK, RunInv

\* Every step keeps the invariant.
LEMMA NextIInv == IInv /\ [Next]_vars => IInv'
<1> SUFFICES ASSUME IInv, [Next]_vars PROVE IInv'
  OBVIOUS
<1>1. CASE \E c \in Caller, e \in Entry : AppendEntry(c, e)
  BY <1>1, AppendEntryStep
<1>2. CASE \E c \in Caller : Store(c)
  BY <1>2, StoreStep
<1>3. CASE DisposeExpiredRuns
  BY <1>3, DisposeStep
<1>4. CASE \E k \in Key, i \in 1 .. MaxLen : AlterRow(k, i)
  BY <1>4, AlterRowStep
<1>5. CASE \E k \in Key, i \in 1 .. MaxLen : LoseRow(k, i)
  BY <1>5, LoseRowStep
<1>6. CASE \E k \in Key, n \in 0 .. MaxLen : LoseTail(k, n)
  BY <1>6, LoseTailStep
<1>7. CASE Tick
  <2>1. now' \in Nat /\ runs' = runs /\ disposed' = disposed /\ logs' = logs
    BY <1>7 DEF Tick, IInv, TypeOK
  <2> QED  BY <2>1, UnchangedStep
<1>8. CASE UNCHANGED vars
  <2>1. now' \in Nat /\ runs' = runs /\ disposed' = disposed /\ logs' = logs
    BY <1>8 DEF vars, IInv, TypeOK
  <2> QED  BY <2>1, UnchangedStep
<1> QED  BY <1>1, <1>2, <1>3, <1>4, <1>5, <1>6, <1>7, <1>8 DEF Next
-----------------------------------------------------------------------------
\* The inductive invariant: however callers, sweeps and decay alternate, the rows
\* of a run were made from one history, and a caller holds a log it begins.
THEOREM Invariance == Spec => []IInv
<1>1. Init => IInv
  BY InitIInv
<1>2. IInv /\ [Next]_vars => IInv'
  BY NextIInv
<1> QED  BY <1>1, <1>2, PTL DEF Spec

\* Types.
THEOREM TypeCorrect == Spec => []TypeOK
<1>1. IInv => TypeOK
  BY DEF IInv
<1> QED  BY <1>1, Invariance, PTL

\* What read returns as data is the beginning of what one caller wrote, however
\* many callers there are and whatever became of the rows.
THEOREM Genuine == Spec => []ReadIsGenuine
<1>1. IInv => ReadIsGenuine
  <2> SUFFICES ASSUME IInv, NEW k \in Key, runs[k] # <<>>, Verified(runs[k])
               PROVE  \E c \in Caller :
                         /\ KeyOf[c] = k
                         /\ Len(runs[k]) <= Len(logs[c])
                         /\ \A i \in 1 .. Len(runs[k]) :
                               runs[k][i] # LostRow /\ runs[k][i].body = logs[c][i]
    BY DEF ReadIsGenuine
  <2> DEFINE h == TailHash(runs[k])
  <2>1. RunInv(k) /\ logs \in [Caller -> Seq(Entry)]
    BY DEF IInv, TypeOK
  <2>2. Chained(runs[k], h) /\ h \in Seq(Entry) /\ Len(runs[k]) = Len(h)
    BY <2>1 DEF RunInv, Chained
  <2>3. PICK c \in Caller : KeyOf[c] = k /\ Begins(h, logs[c])
    BY <2>1, RunFacts
  <2>4. logs[c] \in Seq(Entry) /\ Len(h) \in 0 .. Len(logs[c]) /\ h = SubSeq(logs[c], 1, Len(h))
    BY <2>1, <2>2, <2>3, LenProperties DEF Begins
  <2>5. \A i \in 1 .. Len(h) : h[i] = logs[c][i]
    BY <2>4, BeginningFacts
  <2>6. \A i \in 1 .. Len(runs[k]) : runs[k][i] # LostRow /\ runs[k][i].body = h[i]
    BY <2>2, RowAssumption, VerifiedSays
  <2> QED  BY <2>2, <2>3, <2>4, <2>5, <2>6
<1> QED  BY <1>1, Invariance, PTL

\* The rows of a run all belong to one history: the store never merges the logs
\* of two callers that disagree.
THEOREM NotMerged == Spec => []OneHistory
<1>1. IInv => OneHistory
  BY DEF IInv, RunInv, Chained, RowSays, OneHistory
<1> QED  BY <1>1, Invariance, PTL

\* A sweep disposes only of a run of which every row says what was written.
THEOREM NotBuried == Spec => DecayIsNotBuried
<1> DEFINE Box == \A k \in disposed' \ disposed :
                     \A i \in 1 .. Len(runs[k]) :
                        runs[k][i] # LostRow /\ runs[k][i].body = TailHash(runs[k])[i]
<1>1. ASSUME IInv, [Next]_vars PROVE [Box]_vars
  <2>1. CASE DisposeExpiredRuns
    <3>1. disposed' = disposed \cup {k \in Key : Due(k)}
      BY <2>1 DEF DisposeExpiredRuns
    <3>2. ASSUME NEW k \in disposed' \ disposed, NEW i \in 1 .. Len(runs[k])
          PROVE  runs[k][i] # LostRow /\ runs[k][i].body = TailHash(runs[k])[i]
      <4>1. k \in Key /\ Verified(runs[k])
        BY <3>1, <3>2 DEF Due
      <4>2. Chained(runs[k], TailHash(runs[k]))
        BY <1>1, <4>1 DEF IInv, RunInv
      <4> QED  BY <3>2, <4>1, <4>2, RowAssumption, VerifiedSays
    <3> QED  BY <3>2
  <2>2. CASE ~DisposeExpiredRuns
    <3>1. disposed' = disposed
      BY <1>1, <2>2 DEF Next, vars, AppendEntry, Store, AlterRow, LoseRow, LoseTail, Tick
    <3> QED  BY <3>1
  <2> QED  BY <2>1, <2>2
<1>2. [Box]_vars => [\A k \in disposed' \ disposed :
                        \A i \in 1 .. Len(runs[k]) :
                            /\ runs[k][i] # LostRow
                            /\ runs[k][i].body = TailHash(runs[k])[i]]_vars
  OBVIOUS
<1> HIDE DEF Box
<1>3. IInv /\ [Next]_vars => [Box]_vars
  BY <1>1
<1> QED  BY <1>2, <1>3, Invariance, PTL DEF Spec, DecayIsNotBuried
-----------------------------------------------------------------------------
\* A history and a beginning of it.
LEMMA PrefixFacts ==
    ASSUME NEW h \in Seq(Entry), NEW n \in 0 .. Len(h)
    PROVE  Log!IsPrefix(SubSeq(h, 1, n), h) /\ Log!IsPrefix(h, h)
<1>1. Len(h) \in Nat /\ Len(SubSeq(h, 1, n)) = n
  BY LenProperties, BeginningFacts
<1>2. SubSeq(SubSeq(h, 1, n), 1, n) = SubSeq(h, 1, n)
  BY <1>1, BeginningOfBeginning
<1> QED  BY <1>1, <1>2 DEF Log!IsPrefix

\* How one step changes the history of a run that is not disposed of.
LEMMA HistoryStep ==
    ASSUME IInv, [Next]_vars, NEW k \in Key, k \notin disposed'
    PROVE  \/ Log!IsPrefix(TailHash(runs[k]), TailHash(runs'[k]))
           \/ Log!IsPrefix(TailHash(runs'[k]), TailHash(runs[k]))
<1> DEFINE h == TailHash(runs[k])
<1>1. Chained(runs[k], h) /\ h \in Seq(Entry) /\ Len(h) = Len(runs[k]) /\ Len(h) \in Nat
  BY LenProperties DEF IInv, RunInv, Chained
<1>2. CASE runs'[k] = runs[k]
  BY <1>1, <1>2, PrefixFacts
<1>3. ASSUME NEW c \in Caller, Store(c), KeyOf[c] = k, runs'[k] # runs[k]
      PROVE  Log!IsPrefix(h, TailHash(runs'[k]))
  <2>1. /\ logs[c] \in Seq(Entry) /\ Continues(runs[k], logs[c])
        /\ runs'[k] = Appended(runs[k], logs[c])
    BY <1>3 DEF IInv, TypeOK, Store
  <2>2. /\ Len(runs[k]) < Len(logs[c]) /\ h = SubSeq(logs[c], 1, Len(runs[k]))
        /\ Chained(runs'[k], logs[c])
    BY <1>1, <1>3, <2>1, RowAssumption, AppendedChained
  <2>3. TailHash(runs'[k]) = logs[c] /\ Len(logs[c]) \in Nat /\ Len(runs[k]) \in 0 .. Len(logs[c])
    BY <1>1, <2>1, <2>2, TailSays, LenProperties
  <2> QED  BY <2>1, <2>2, <2>3, PrefixFacts
<1>4. ASSUME Chained(runs'[k], h)
      PROVE  Log!IsPrefix(h, TailHash(runs'[k]))
  <2>1. TailHash(runs'[k]) = h /\ Len(h) \in 0 .. Len(h)
    BY <1>1, <1>4, TailSays
  <2> QED  BY <1>1, <2>1, PrefixFacts
<1>5. CASE \E c \in Caller, e \in Entry : AppendEntry(c, e)
  BY <1>2, <1>5 DEF AppendEntry
<1>6. CASE \E c \in Caller : Store(c)
  <2>1. PICK c \in Caller : Store(c)
    BY <1>6
  <2>2. CASE KeyOf[c] = k
    BY <1>2, <1>3, <2>1, <2>2
  <2>3. CASE KeyOf[c] # k
    BY <1>2, <2>1, <2>3 DEF Store, IInv, TypeOK
  <2> QED  BY <2>2, <2>3
<1>7. CASE DisposeExpiredRuns
  BY <1>2, <1>7 DEF DisposeExpiredRuns
<1>8. CASE \E j \in Key, i \in 1 .. MaxLen : AlterRow(j, i)
  <2>1. PICK j \in Key, i \in 1 .. MaxLen : AlterRow(j, i)
    BY <1>8
  <2>2. CASE j = k
    <3>1. i \in 1 .. Len(runs[k]) /\ runs[k][i] # LostRow
      BY <2>1, <2>2 DEF AlterRow
    <3>2. runs'[k] = Altered(runs[k], i)
      BY <2>1, <2>2 DEF AlterRow, IInv, TypeOK
    <3> QED  BY <1>1, <1>4, <3>1, <3>2, RowAssumption, AlteredChained
  <2>3. CASE j # k
    BY <1>2, <2>1, <2>3 DEF AlterRow, IInv, TypeOK
  <2> QED  BY <2>2, <2>3
<1>9. CASE \E j \in Key, i \in 1 .. MaxLen : LoseRow(j, i)
  <2>1. PICK j \in Key, i \in 1 .. MaxLen : LoseRow(j, i)
    BY <1>9
  <2>2. CASE j = k
    <3>1. i \in 1 .. Len(runs[k]) - 1
      BY <2>1, <2>2 DEF LoseRow
    <3>2. runs'[k] = Lost(runs[k], i)
      BY <2>1, <2>2 DEF LoseRow, IInv, TypeOK
    <3> QED  BY <1>1, <1>4, <3>1, <3>2, RowAssumption, LostChained
  <2>3. CASE j # k
    BY <1>2, <2>1, <2>3 DEF LoseRow, IInv, TypeOK
  <2> QED  BY <2>2, <2>3
<1>10. CASE \E j \in Key, n \in 0 .. MaxLen : LoseTail(j, n)
  <2>1. PICK j \in Key, n \in 0 .. MaxLen : LoseTail(j, n)
    BY <1>10
  <2>2. CASE j = k
    <3>1. n \in 0 .. Len(runs[k]) /\ n \in 0 .. Len(h) /\ (n > 0 => runs[k][n] # LostRow)
      BY <1>1, <2>1, <2>2 DEF LoseTail
    <3>2. runs'[k] = Truncated(runs[k], n)
      BY <2>1, <2>2 DEF LoseTail, IInv, TypeOK
    <3>3. Chained(runs'[k], SubSeq(h, 1, n))
      BY <1>1, <3>1, <3>2, TruncatedChained
    <3>4. TailHash(runs'[k]) = SubSeq(h, 1, n)
      BY <3>3, TailSays
    <3> QED  BY <1>1, <3>1, <3>4, PrefixFacts
  <2>3. CASE j # k
    BY <1>2, <2>1, <2>3 DEF LoseTail, IInv, TypeOK
  <2> QED  BY <2>2, <2>3
<1>11. CASE Tick
  BY <1>2, <1>11 DEF Tick
<1>12. CASE UNCHANGED vars
  BY <1>2, <1>12 DEF vars
<1> QED  BY <1>5, <1>6, <1>7, <1>8, <1>9, <1>10, <1>11, <1>12 DEF Next

\* The store implements the log that only grows: whatever the callers hand
\* over and whatever happens underneath, the history the chain of a run commits
\* to is extended at its end, or loses its end, and once it is disposed of it
\* never comes back.
THEOREM AppendOnly == Spec => LogSpec
<1>1. Init => Log!Init
  <2> SUFFICES ASSUME Init PROVE HistoryOf = [k \in Key |-> <<>>]
    BY DEF Log!Init
  <2>1. \A k \in Key : runs[k] = <<>> /\ k \notin disposed
    BY DEF Init
  <2> QED  BY <2>1 DEF HistoryOf, TailHash
<1>2. IInv /\ IInv' /\ [Next]_vars => [Log!Next]_HistoryOf
  <2> SUFFICES ASSUME IInv, IInv', [Next]_vars, NEW k \in Key
               PROVE  Log!Grow(k) \/ Log!LoseEnd(k) \/ Log!Dispose(k)
    BY DEF Log!Next
  <2>1. RunInv(k) /\ RunInv(k)'
    BY DEF IInv
  <2>2. CASE k \in disposed'
    <3>1. runs'[k] = <<>>
      BY <2>1, <2>2 DEF RunInv
    <3>2. HistoryOf'[k] = Gone
      BY <2>2, <3>1 DEF HistoryOf
    <3> QED  BY <3>2 DEF Log!Dispose
  <2>3. CASE k \notin disposed'
    <3>1. k \notin disposed
      BY <2>3 DEF Next, vars, AppendEntry, Store, DisposeExpiredRuns, AlterRow, LoseRow,
                  LoseTail, Tick
    <3>2. HistoryOf[k] = TailHash(runs[k]) /\ HistoryOf'[k] = TailHash(runs'[k])
      BY <2>3, <3>1 DEF HistoryOf
    <3>3. TailHash(runs[k]) \in Seq(Entry) /\ TailHash(runs'[k]) \in Seq(Entry)
      BY <2>1 DEF RunInv, Chained
    <3>4. HistoryOf[k] # Gone /\ HistoryOf'[k] # Gone
      BY <3>2, <3>3, StoreAssumption DEF StoreAssumption
    <3> QED  BY <2>3, <3>2, <3>4, HistoryStep DEF Log!Grow, Log!LoseEnd
  <2> QED  BY <2>2, <2>3
<1> QED  BY <1>1, <1>2, Invariance, PTL DEF Spec, LogSpec, Log!Spec
=============================================================================
