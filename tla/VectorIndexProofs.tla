------------------------- MODULE VectorIndexProofs -------------------------
(***************************************************************************)
(* Theorems about VectorIndex.  The argument for erasure: a row nobody can *)
(* open stays so, since the generations of a key only go up; and a row     *)
(* that was deleted does not come back, since every boot writes each of    *)
(* its rows once.                                                          *)
(***************************************************************************)
EXTENDS VectorIndex, TLAPS

\* A sealed content names a boot and a generation that have been.
Known(c) == c.boot <= boots /\ c.generation <= keys[KeyOf[c.by]].generation

\* Process p, in its present boot, has yet to write document d.
Unwritten(p, d) ==
    \/ process[p].pc = "sealing"
    \/ process[p].pc = "indexing" /\ d > Documents - Len(process[p].sealed)

\* c was sealed in the present boot of p.
OfThisBoot(p, c) == c.by = p /\ c.boot = process[p].boot

\* A text is kept under the name its owner gave it.
TextsKeyed ==
    \A p \in Process, n \in Namespace, d \in Document :
        kb[p][<<n, d>>] # NoText =>
            n = HomeOf[p] /\ kb[p][<<n, d>>] = [namespace |-> n, document |-> d]

Seeding(p) ==
    /\ process[p].boot <= boots
    /\ process[p].pc # "off" => process[p].boot >= 1
    /\ process[p].pc = "sealing" => Len(process[p].sealed) < Documents
    /\ process[p].pc = "indexing" => Len(process[p].sealed) \in 1 .. Documents
    /\ \A i \in 1 .. Len(process[p].sealed) :
          OfThisBoot(p, process[p].sealed[i]) /\ Known(process[p].sealed[i])

TableInv ==
    \A n \in Namespace, d \in Document :
        table[n][d] # NoRow => HomeOf[table[n][d].by] = n /\ Known(table[n][d])

\* What a process has yet to write is nowhere to be found.
Fresh ==
    \A p \in Process, d \in Document :
        Unwritten(p, d) =>
            /\ \A n \in Namespace : table[n][d] # NoRow => ~ OfThisBoot(p, table[n][d])
            /\ \A s \in Search : \A row \in gone[s] :
                  row.document = d => ~ OfThisBoot(p, row.content)

SearchInv(s) ==
    /\ search[s].pc = "idle" => search[s] = Unused("idle")
    /\ \A row \in search[s].todo \cup search[s].scored :
          HomeOf[row.content.by] = search[s].namespace /\ Known(row.content)
    /\ \A row \in search[s].unreadable : Known(row.content) /\ ~ Opens(row.content)
    /\ \A hit \in search[s].found :
          /\ hit.text.namespace = search[s].namespace
          /\ hit.text.document = hit.row.document
          /\ HomeOf[hit.row.content.by] = search[s].namespace

\* The row in the place of a dead one is not that row whole again.
NotRestored(s, row) ==
    LET now == table[search[s].namespace][row.document] IN
    now # NoRow /\ now.by = row.content.by /\ now.boot = row.content.boot /\ now.intact =>
        row.content.intact

GoneInv(s) ==
    /\ \A row \in gone[s] :
          Known(row.content) /\ ~ Opens(row.content) /\ NotRestored(s, row)
    /\ search[s].pc = "querying" =>
          \A row \in gone[s] :
              /\ row \notin search[s].scored
              /\ \/ row \in search[s].todo \cup search[s].unreadable
                 \/ row \notin RowsOf(search[s].namespace)
    /\ search[s].pc = "answered" =>
          \A row \in gone[s] :
              /\ \A hit \in search[s].found : hit.row # row
              /\ row \notin RowsOf(search[s].namespace)
    /\ search[s].pc \notin {"querying", "answered"} => gone[s] = {}

IInv ==
    /\ TypeOK
    /\ \A k \in Key : keys[k].live => keys[k].generation >= 1
    /\ TextsKeyed
    /\ \A p \in Process : Seeding(p)
    /\ TableInv
    /\ Fresh
    /\ \A s \in Search : SearchInv(s) /\ GoneInv(s)
-----------------------------------------------------------------------------
SearchRecord ==
    [pc : {"idle", "querying", "answered", "refused", "lost"},
     by : Process, namespace : Namespace, todo : SUBSET Row,
     scored : SUBSET Row, unreadable : SUBSET Row,
     found : SUBSET [row : Row, text : Text]]

ProcessRecord ==
    [pc : {"off", "sealing", "indexing", "serving"},
     boot : 0 .. MaxBoots, sealed : Seq(Sealed)]

\* A search that holds nothing is a search record.
LEMMA UnusedType ==
    ASSUME NEW pc \in {"idle", "refused", "lost"}
    PROVE  Unused(pc) \in SearchRecord
<1>1. (CHOOSE p \in Process : TRUE) \in Process /\ (CHOOSE n \in Namespace : TRUE) \in Namespace
  BY IndexAssumption
<1> QED  BY <1>1 DEF Unused, SearchRecord

\* A row that is read is a row.
LEMMA RowsOfType ==
    ASSUME TypeOK, NEW n \in Namespace
    PROVE  /\ RowsOf(n) \subseteq Row
           /\ \A row \in Row : row \in RowsOf(n) <=> row.content = table[n][row.document]
<1>1. \A d \in Document : table[n][d] # NoRow => table[n][d] \in Sealed
  BY DEF TypeOK
<1>2. RowsOf(n) \subseteq Row
  BY <1>1 DEF RowsOf, Row
<1>3. ASSUME NEW row \in Row, row.content = table[n][row.document] PROVE row \in RowsOf(n)
  <2>1. row = [document |-> row.document, content |-> table[n][row.document]]
    BY <1>3 DEF Row
  <2>2. row.document \in Document /\ table[n][row.document] # NoRow
    BY <1>3, IndexAssumption DEF Row
  <2> QED  BY <2>1, <2>2 DEF RowsOf
<1>4. ASSUME NEW row \in Row, row \in RowsOf(n) PROVE row.content = table[n][row.document]
  BY <1>4 DEF RowsOf
<1> QED  BY <1>2, <1>3, <1>4

\* The state has its types at first.
LEMMA InitType == Init => TypeOK
<1> SUFFICES ASSUME Init PROVE TypeOK
  OBVIOUS
<1>1. keys \in [Key -> [generation : 0 .. MaxGeneration, live : BOOLEAN]]
  BY IndexAssumption DEF Init
<1>2. table \in [Namespace -> [Document -> Sealed \cup {NoRow}]]
  BY DEF Init
<1>3. boots \in 0 .. MaxBoots
  BY IndexAssumption DEF Init
<1>4. process \in [Process -> ProcessRecord]
  <2>1. <<>> \in Seq(Sealed)
    OBVIOUS
  <2> QED  BY <2>1, IndexAssumption DEF Init, ProcessRecord
<1>5. kb \in [Process -> [Namespace \X Document -> Text \cup {NoText}]]
  BY DEF Init, NoTexts
<1>6. search \in [Search -> SearchRecord] /\ gone \in [Search -> SUBSET Row]
  BY UnusedType DEF Init
<1> QED  BY <1>1, <1>2, <1>3, <1>4, <1>5, <1>6 DEF TypeOK, SearchRecord, ProcessRecord

\* TypeOK with its records by name.
LEMMA TypeFacts ==
    TypeOK <=>
      /\ keys \in [Key -> [generation : 0 .. MaxGeneration, live : BOOLEAN]]
      /\ table \in [Namespace -> [Document -> Sealed \cup {NoRow}]]
      /\ boots \in 0 .. MaxBoots
      /\ process \in [Process -> ProcessRecord]
      /\ kb \in [Process -> [Namespace \X Document -> Text \cup {NoText}]]
      /\ search \in [Search -> SearchRecord]
      /\ gone \in [Search -> SUBSET Row]
  BY DEF TypeOK, SearchRecord, ProcessRecord
-----------------------------------------------------------------------------
\* What a seeding process seals, and the key it seals under.
LEMMA SealFacts ==
    ASSUME IInv, NEW p \in Process, SealEmbedding(p)
    PROVE  /\ KeyOf[p] \in Key
           /\ Ensured(keys[KeyOf[p]]) \in [generation : 1 .. MaxGeneration, live : BOOLEAN]
           /\ Ensured(keys[KeyOf[p]]).live
           /\ Len(process[p].sealed) + 1 \in Document
           /\ Len(process[p].sealed) \in Nat /\ process[p].sealed \in Seq(Sealed)
           /\ [by |-> p, boot |-> process[p].boot,
               generation |-> Ensured(keys[KeyOf[p]]).generation,
               intact |-> TRUE] \in Sealed
<1>1. KeyOf[p] \in Key /\ MaxGeneration \in Nat /\ MaxBoots \in Nat /\ Documents \in Nat
  BY IndexAssumption
<1>2. keys[KeyOf[p]] \in [generation : 0 .. MaxGeneration, live : BOOLEAN]
  BY <1>1, TypeFacts DEF IInv
<1>3. keys[KeyOf[p]].live => keys[KeyOf[p]].generation >= 1
  BY <1>1 DEF IInv
<1>4. Ensured(keys[KeyOf[p]]).generation <= MaxGeneration
  BY DEF SealEmbedding
<1>5. /\ Ensured(keys[KeyOf[p]]) \in [generation : 1 .. MaxGeneration, live : BOOLEAN]
      /\ Ensured(keys[KeyOf[p]]).live
  <2> DEFINE key == keys[KeyOf[p]]
  <2>1. CASE key.live
    <3>1. Ensured(key) = key
      BY <2>1 DEF Ensured
    <3>2. key.generation \in 1 .. MaxGeneration
      BY <1>1, <1>2, <1>3, <2>1
    <3> QED  BY <1>2, <2>1, <3>1, <3>2
  <2>2. CASE ~ key.live
    <3>1. Ensured(key) = [generation |-> key.generation + 1, live |-> TRUE]
      BY <2>2 DEF Ensured
    <3>2. key.generation + 1 \in 1 .. MaxGeneration
      BY <1>1, <1>2, <1>4, <3>1
    <3> QED  BY <3>1, <3>2
  <2> QED  BY <2>1, <2>2
<1>6. process[p] \in ProcessRecord /\ process[p].pc = "sealing"
  BY TypeFacts DEF IInv, SealEmbedding
<1>7. process[p].boot \in 1 .. MaxBoots /\ process[p].sealed \in Seq(Sealed)
      /\ Len(process[p].sealed) < Documents
  BY <1>1, <1>6 DEF IInv, Seeding, ProcessRecord
<1>8. Len(process[p].sealed) \in Nat
  BY <1>7
<1>9. Len(process[p].sealed) + 1 \in Document
  BY <1>1, <1>7, <1>8 DEF Document
<1> QED  BY <1>1, <1>5, <1>7, <1>8, <1>9 DEF Sealed

\* What a seeding process writes into the table, and where.
LEMMA UpsertFacts ==
    ASSUME IInv, NEW p \in Process, Upsert(p)
    PROVE  /\ Documents - Len(process[p].sealed) + 1 \in Document
           /\ Len(process[p].sealed) \in 1 .. Documents
           /\ process[p].sealed \in Seq(Sealed)
           /\ Head(process[p].sealed) = process[p].sealed[1]
           /\ process[p].sealed[1] \in Sealed
           /\ HomeOf[p] \in Namespace
<1>1. process[p] \in ProcessRecord /\ process[p].pc = "indexing"
  BY TypeFacts DEF IInv, Upsert
<1>2. process[p].sealed \in Seq(Sealed) /\ Len(process[p].sealed) \in 1 .. Documents
  BY <1>1 DEF IInv, Seeding, ProcessRecord
<1>3. Head(process[p].sealed) = process[p].sealed[1] /\ process[p].sealed[1] \in Sealed
  BY <1>2
<1>4. Documents - Len(process[p].sealed) + 1 \in Document
  BY <1>2, IndexAssumption DEF Document
<1> QED  BY <1>2, <1>3, <1>4, IndexAssumption

\* The types of the keys, the table, the processes and the texts.
LEMMA SeedingType ==
    ASSUME IInv, [Next]_vars
    PROVE  /\ keys' \in [Key -> [generation : 0 .. MaxGeneration, live : BOOLEAN]]
           /\ table' \in [Namespace -> [Document -> Sealed \cup {NoRow}]]
           /\ boots' \in 0 .. MaxBoots
           /\ process' \in [Process -> ProcessRecord]
           /\ kb' \in [Process -> [Namespace \X Document -> Text \cup {NoText}]]
<1>1. /\ keys \in [Key -> [generation : 0 .. MaxGeneration, live : BOOLEAN]]
      /\ table \in [Namespace -> [Document -> Sealed \cup {NoRow}]]
      /\ boots \in 0 .. MaxBoots
      /\ process \in [Process -> ProcessRecord]
      /\ kb \in [Process -> [Namespace \X Document -> Text \cup {NoText}]]
      /\ search \in [Search -> SearchRecord]
  BY TypeFacts DEF IInv
<1>2. ASSUME NEW k \in Key, DestroyKey(k) PROVE keys' \in [Key -> [generation : 0 .. MaxGeneration, live : BOOLEAN]]
  BY <1>1, <1>2 DEF DestroyKey
<1>3. ASSUME NEW p \in Process, Boot(p)
      PROVE  boots' \in 0 .. MaxBoots /\ process' \in [Process -> ProcessRecord]
  <2>1. boots' \in 0 .. MaxBoots
    BY <1>1, <1>3, IndexAssumption DEF Boot
  <2>2. [pc |-> "sealing", boot |-> boots', sealed |-> <<>>] \in ProcessRecord
    BY <2>1 DEF ProcessRecord
  <2> QED  BY <1>1, <1>3, <2>1, <2>2 DEF Boot
<1>4. ASSUME NEW p \in Process, SealEmbedding(p)
      PROVE  /\ keys' \in [Key -> [generation : 0 .. MaxGeneration, live : BOOLEAN]]
             /\ process' \in [Process -> ProcessRecord]
             /\ kb' \in [Process -> [Namespace \X Document -> Text \cup {NoText}]]
  <2> DEFINE key == Ensured(keys[KeyOf[p]])
             c == [by |-> p, boot |-> process[p].boot, generation |-> key.generation, intact |-> TRUE]
             d == Len(process[p].sealed) + 1
             text == [namespace |-> HomeOf[p], document |-> d]
             next == IF d = Documents THEN "indexing" ELSE "sealing"
  <2>1. /\ key \in [generation : 1 .. MaxGeneration, live : BOOLEAN]
        /\ KeyOf[p] \in Key /\ c \in Sealed /\ d \in Document
        /\ process[p].sealed \in Seq(Sealed)
    BY <1>4, SealFacts
  <2>2. key \in [generation : 0 .. MaxGeneration, live : BOOLEAN]
    BY <2>1
  <2>3. /\ keys' = [keys EXCEPT ![KeyOf[p]] = key]
        /\ process' = [process EXCEPT ![p].sealed = Append(@, c), ![p].pc = next]
        /\ kb' = [kb EXCEPT ![p][kbDocumentKey(HomeOf[p], d)] = text]
    BY <1>4 DEF SealEmbedding
  <2> HIDE DEF key, c
  <2>4. Append(process[p].sealed, c) \in Seq(Sealed)
    BY <2>1
  <2>5. process' \in [Process -> ProcessRecord]
    BY <1>1, <2>3, <2>4 DEF ProcessRecord
  <2>6. text \in Text /\ <<HomeOf[p], d>> \in Namespace \X Document
    BY <2>1, IndexAssumption DEF Text
  <2>7. kb' \in [Process -> [Namespace \X Document -> Text \cup {NoText}]]
    BY <1>1, <2>3, <2>6 DEF kbDocumentKey
  <2> QED  BY <1>1, <2>1, <2>2, <2>3, <2>5, <2>7
<1>5. ASSUME NEW p \in Process, Upsert(p)
      PROVE  /\ table' \in [Namespace -> [Document -> Sealed \cup {NoRow}]]
             /\ process' \in [Process -> ProcessRecord]
  <2> DEFINE d == Documents - Len(process[p].sealed) + 1
             next == IF d = Documents THEN "serving" ELSE "indexing"
  <2>1. /\ d \in Document /\ HomeOf[p] \in Namespace /\ Head(process[p].sealed) \in Sealed
        /\ process[p].sealed \in Seq(Sealed) /\ process[p].sealed # <<>>
    BY <1>5, UpsertFacts
  <2>2. /\ table' = [table EXCEPT ![HomeOf[p]][d] = Head(process[p].sealed)]
        /\ process' = [process EXCEPT ![p].sealed = Tail(@), ![p].pc = next]
    BY <1>5 DEF Upsert
  <2>3. Tail(process[p].sealed) \in Seq(Sealed)
    BY <2>1
  <2>4. process' \in [Process -> ProcessRecord]
    BY <1>1, <2>2, <2>3 DEF ProcessRecord
  <2> QED  BY <1>1, <2>1, <2>2, <2>4
<1>6. ASSUME NEW p \in Process, Die(p)
      PROVE  /\ process' \in [Process -> ProcessRecord]
             /\ kb' \in [Process -> [Namespace \X Document -> Text \cup {NoText}]]
  <2>1. [pc |-> "off", boot |-> 0, sealed |-> <<>>] \in ProcessRecord
    BY IndexAssumption DEF ProcessRecord
  <2>2. NoTexts \in [Namespace \X Document -> Text \cup {NoText}]
    BY DEF NoTexts
  <2> QED  BY <1>1, <1>6, <2>1, <2>2 DEF Die
<1>7. ASSUME NEW s \in Search, NEW row \in search[s].unreadable, Drop(s, row)
      PROVE  table' \in [Namespace -> [Document -> Sealed \cup {NoRow}]]
  BY <1>1, <1>7 DEF Drop
<1>8. ASSUME NEW n \in Namespace, DropNamespace(n)
      PROVE  table' \in [Namespace -> [Document -> Sealed \cup {NoRow}]]
  BY <1>1, <1>8 DEF DropNamespace
<1>9. ASSUME NEW n \in Namespace, NEW d \in Document, Corrupt(n, d)
      PROVE  table' \in [Namespace -> [Document -> Sealed \cup {NoRow}]]
  <2>1. table[n][d] \in Sealed
    BY <1>1, <1>9 DEF Corrupt
  <2>2. [table[n][d] EXCEPT !.intact = FALSE] \in Sealed
    BY <2>1 DEF Sealed
  <2>3. table' = [table EXCEPT ![n][d] = [table[n][d] EXCEPT !.intact = FALSE]]
    BY <1>1, <1>9 DEF Corrupt
  <2> QED  BY <1>1, <2>2, <2>3
<1> QED
  BY <1>1, <1>2, <1>3, <1>4, <1>5, <1>6, <1>7, <1>8, <1>9
     DEF Next, vars, DestroyKey, Boot, SealEmbedding, Upsert, Die, RefuseSearch, FileFails,
         Answer, QueryReads, Unseal, CustodianUnreachable, Drop, DropNamespace, Corrupt

\* A search with one field set is a search.
LEMMA FieldTypes ==
    ASSUME NEW r \in SearchRecord
    PROVE  /\ \A pc \in {"idle", "querying", "answered", "refused", "lost"} :
                 [r EXCEPT !.pc = pc] \in SearchRecord
           /\ \A p \in Process : [r EXCEPT !.by = p] \in SearchRecord
           /\ \A n \in Namespace : [r EXCEPT !.namespace = n] \in SearchRecord
           /\ \A rows \in SUBSET Row :
                 /\ [r EXCEPT !.todo = rows] \in SearchRecord
                 /\ [r EXCEPT !.scored = rows] \in SearchRecord
                 /\ [r EXCEPT !.unreadable = rows] \in SearchRecord
           /\ \A hits \in SUBSET [row : Row, text : Text] :
                 [r EXCEPT !.found = hits] \in SearchRecord
<1>1. ASSUME NEW rows \in SUBSET Row PROVE [r EXCEPT !.todo = rows] \in SearchRecord
  BY <1>1 DEF SearchRecord
<1>2. ASSUME NEW rows \in SUBSET Row PROVE [r EXCEPT !.scored = rows] \in SearchRecord
  BY <1>2 DEF SearchRecord
<1>3. ASSUME NEW rows \in SUBSET Row PROVE [r EXCEPT !.unreadable = rows] \in SearchRecord
  BY <1>3 DEF SearchRecord
<1>4. ASSUME NEW hits \in SUBSET [row : Row, text : Text]
      PROVE  [r EXCEPT !.found = hits] \in SearchRecord
  BY <1>4 DEF SearchRecord
<1>5. ASSUME NEW pc \in {"idle", "querying", "answered", "refused", "lost"}
      PROVE  [r EXCEPT !.pc = pc] \in SearchRecord
  BY <1>5 DEF SearchRecord
<1>6. ASSUME NEW p \in Process PROVE [r EXCEPT !.by = p] \in SearchRecord
  BY <1>6 DEF SearchRecord
<1>7. ASSUME NEW n \in Namespace PROVE [r EXCEPT !.namespace = n] \in SearchRecord
  BY <1>7 DEF SearchRecord
<1> QED  BY <1>1, <1>2, <1>3, <1>4, <1>5, <1>6, <1>7

\* The types of the searches and of what they found dead.
LEMMA SearchType ==
    ASSUME IInv, [Next]_vars
    PROVE  search' \in [Search -> SearchRecord] /\ gone' \in [Search -> SUBSET Row]
<1>1. /\ search \in [Search -> SearchRecord] /\ gone \in [Search -> SUBSET Row]
      /\ kb \in [Process -> [Namespace \X Document -> Text \cup {NoText}]] /\ TypeOK
  BY TypeFacts DEF IInv
<1>2. /\ Unused("refused") \in SearchRecord /\ Unused("lost") \in SearchRecord
  BY UnusedType
<1>3. ASSUME NEW p \in Process, Die(p)
      PROVE  search' \in [Search -> SearchRecord] /\ gone' \in [Search -> SUBSET Row]
  BY <1>1, <1>2, <1>3 DEF Die
<1>4. ASSUME NEW s \in Search, RefuseSearch(s) PROVE search' \in [Search -> SearchRecord]
  BY <1>1, <1>4 DEF RefuseSearch, SearchRecord
<1>5. ASSUME NEW s \in Search, FileFails(s)
      PROVE  search' \in [Search -> SearchRecord] /\ gone' \in [Search -> SUBSET Row]
  BY <1>1, <1>2, <1>5 DEF FileFails
<1>6. ASSUME NEW s \in Search, NEW row \in search[s].todo, CustodianUnreachable(s, row)
      PROVE  search' \in [Search -> SearchRecord] /\ gone' \in [Search -> SUBSET Row]
  BY <1>1, <1>2, <1>6 DEF CustodianUnreachable
<1>7. ASSUME NEW s \in Search, NEW p \in Process, NEW n \in Namespace, QueryReads(s, p, n)
      PROVE  search' \in [Search -> SearchRecord] /\ gone' \in [Search -> SUBSET Row]
  <2>1. RowsOf(n) \subseteq Row
    BY <1>1, RowsOfType
  <2>2. search' \in [Search -> SearchRecord]
    <3> DEFINE r1 == [search[s] EXCEPT !.pc = "querying"]
               r2 == [r1 EXCEPT !.by = p]
               r3 == [r2 EXCEPT !.namespace = n]
               r4 == [r3 EXCEPT !.todo = RowsOf(n)]
    <3>1. search[s] \in SearchRecord
      BY <1>1
    <3>2. r1 \in SearchRecord
      BY <3>1, FieldTypes
    <3>3. r2 \in SearchRecord
      BY <3>2, FieldTypes
    <3>4. r3 \in SearchRecord
      BY <3>3, FieldTypes
    <3>5. r4 \in SearchRecord
      BY <2>1, <3>4, FieldTypes
    <3>6. search' = [search EXCEPT ![s] = r4]
      BY <1>1, <1>7, <3>1 DEF QueryReads, SearchRecord
    <3> HIDE DEF r4
    <3> QED  BY <1>1, <3>5, <3>6
  <2>3. {row \in RowsOf(n) : ~ Opens(row.content)} \in SUBSET Row
    BY <2>1
  <2> QED  BY <1>1, <1>7, <2>2, <2>3 DEF QueryReads
<1>8. ASSUME NEW s \in Search, NEW row \in search[s].todo, Unseal(s, row)
      PROVE  search' \in [Search -> SearchRecord]
  <2> DEFINE scored == IF Opens(row.content) THEN search[s].scored \cup {row}
                                            ELSE search[s].scored
             dead == IF Opens(row.content) THEN search[s].unreadable
                                          ELSE search[s].unreadable \cup {row}
             r1 == [search[s] EXCEPT !.todo = @ \ {row}]
             r2 == [r1 EXCEPT !.scored = scored]
             r3 == [r2 EXCEPT !.unreadable = dead]
  <2>1. /\ search[s] \in SearchRecord /\ search[s].todo \ {row} \in SUBSET Row
        /\ scored \in SUBSET Row /\ dead \in SUBSET Row
    <3>1. row \in Row /\ search[s].scored \in SUBSET Row /\ search[s].unreadable \in SUBSET Row
          /\ search[s] \in SearchRecord /\ search[s].todo \in SUBSET Row
      BY <1>1 DEF SearchRecord
    <3> QED  BY <3>1
  <2>2. search' = [search EXCEPT ![s] = r3]
    BY <1>1, <1>8, <2>1 DEF Unseal, SearchRecord
  <2> HIDE DEF scored, dead
  <2>3. r1 \in SearchRecord
    BY <2>1, FieldTypes
  <2>4. r2 \in SearchRecord
    BY <2>1, <2>3, FieldTypes
  <2>5. r3 \in SearchRecord
    BY <2>1, <2>4, FieldTypes
  <2> HIDE DEF r3
  <2> QED  BY <1>1, <2>2, <2>5
<1>9. ASSUME NEW s \in Search, NEW row \in search[s].unreadable, Drop(s, row)
      PROVE  search' \in [Search -> SearchRecord]
  BY <1>1, <1>9 DEF Drop, SearchRecord
<1>10. ASSUME NEW s \in Search, Answer(s) PROVE search' \in [Search -> SearchRecord]
  <2>1. PICK best \in SUBSET search[s].scored :
          search' = [search EXCEPT ![s].pc = "answered", ![s].scored = {},
                                  ![s].found = Hits(s, best)]
    BY <1>10 DEF Answer
  <2>2. best \subseteq Row /\ search[s].by \in Process /\ search[s].namespace \in Namespace
    BY <1>1 DEF SearchRecord
  <2>3. ASSUME NEW row \in best, TextOf(s, row) # NoText PROVE TextOf(s, row) \in Text
    <3>1. row.document \in Document
      BY <2>2 DEF Row
    <3> QED  BY <1>1, <2>2, <2>3, <3>1 DEF TextOf, kbDocumentKey
  <2>4. Hits(s, best) \in SUBSET [row : Row, text : Text]
    BY <2>2, <2>3 DEF Hits
  <2> DEFINE r1 == [search[s] EXCEPT !.pc = "answered"]
             r2 == [r1 EXCEPT !.scored = {}]
             r3 == [r2 EXCEPT !.found = Hits(s, best)]
  <2>5. r1 \in SearchRecord
    BY <1>1, FieldTypes
  <2>6. r2 \in SearchRecord
    BY <2>5, FieldTypes
  <2>7. r3 \in SearchRecord
    BY <2>4, <2>6, FieldTypes
  <2>8. search' = [search EXCEPT ![s] = r3]
    BY <1>1, <2>1 DEF SearchRecord
  <2> HIDE DEF r3
  <2> QED  BY <1>1, <2>7, <2>8
<1> QED
  BY <1>1, <1>3, <1>4, <1>5, <1>6, <1>7, <1>8, <1>9, <1>10
     DEF Next, vars, DestroyKey, Boot, SealEmbedding, Upsert, RefuseSearch,
         Answer, Unseal, Drop, DropNamespace, Corrupt

\* Every step keeps the types.
LEMMA NextType == IInv /\ [Next]_vars => TypeOK'
<1> SUFFICES ASSUME IInv, [Next]_vars PROVE TypeOK'
  OBVIOUS
<1> QED  BY SeedingType, SearchType DEF TypeOK, SearchRecord, ProcessRecord
-----------------------------------------------------------------------------
\* Boots are counted up; a key loses its life or gains a generation.
LEMMA KeysGrow ==
    ASSUME IInv, [Next]_vars
    PROVE  /\ boots' >= boots
           /\ \A k \in Key :
                 \/ keys'[k] = keys[k]
                 \/ ~ keys'[k].live /\ keys'[k].generation = keys[k].generation
                 \/ keys'[k].live /\ keys'[k].generation = keys[k].generation + 1
<1>1. /\ keys \in [Key -> [generation : 0 .. MaxGeneration, live : BOOLEAN]]
      /\ boots \in Nat
  BY TypeFacts, IndexAssumption DEF IInv
<1>2. ASSUME NEW k \in Key, DestroyKey(k)
      PROVE  \A j \in Key : \/ keys'[j] = keys[j]
                            \/ ~ keys'[j].live /\ keys'[j].generation = keys[j].generation
  BY <1>1, <1>2 DEF DestroyKey
<1>3. ASSUME NEW p \in Process, SealEmbedding(p)
      PROVE  \A j \in Key : \/ keys'[j] = keys[j]
                            \/ keys'[j].live /\ keys'[j].generation = keys[j].generation + 1
  <2>1. keys' = [keys EXCEPT ![KeyOf[p]] = Ensured(keys[KeyOf[p]])]
    BY <1>3 DEF SealEmbedding
  <2>2. Ensured(keys[KeyOf[p]]) \in {keys[KeyOf[p]],
            [generation |-> keys[KeyOf[p]].generation + 1, live |-> TRUE]}
    BY DEF Ensured
  <2> HIDE DEF Ensured
  <2> QED  BY <1>1, <2>1, <2>2
<1>4. boots' = boots \/ boots' = boots + 1
  BY DEF Next, vars, DestroyKey, Boot, SealEmbedding, Upsert, Die, RefuseSearch, FileFails,
         Answer, QueryReads, Unseal, CustodianUnreachable, Drop, DropNamespace, Corrupt
<1>5. \/ \E k \in Key : DestroyKey(k)
      \/ \E p \in Process : SealEmbedding(p)
      \/ keys' = keys
  BY DEF Next, vars, Boot, Upsert, Die, RefuseSearch, FileFails,
         Answer, QueryReads, Unseal, CustodianUnreachable, Drop, DropNamespace, Corrupt
<1> QED  BY <1>1, <1>2, <1>3, <1>4, <1>5

\* The same of a content in the next state.
KnownNext(c) == c.boot <= boots' /\ c.generation <= keys'[KeyOf[c.by]].generation
OpensNext(c) ==
    c.intact /\ keys'[KeyOf[c.by]].live /\ keys'[KeyOf[c.by]].generation = c.generation
OfNextBoot(p, c) == c.by = p /\ c.boot = process'[p].boot

\* What cannot be opened now never can be again.
LEMMA DeadStaysDead ==
    ASSUME IInv, [Next]_vars, NEW c \in Sealed, Known(c)
    PROVE  KnownNext(c) /\ (~ Opens(c) => ~ OpensNext(c))
<1> DEFINE k == KeyOf[c.by]
<1>1. /\ k \in Key /\ c.generation \in Nat /\ c.boot \in Nat
      /\ keys[k].generation \in Nat /\ boots \in Nat /\ boots' \in Nat
  BY TypeFacts, SeedingType, IndexAssumption DEF IInv, Sealed
<1>2. c.boot <= boots /\ c.generation <= keys[k].generation
  BY DEF Known
<1>3. boots' >= boots
  BY KeysGrow
<1>4. CASE keys'[k] = keys[k]
  BY <1>1, <1>2, <1>3, <1>4 DEF Known, Opens, KnownNext, OpensNext
<1>5. CASE ~ keys'[k].live /\ keys'[k].generation = keys[k].generation
  BY <1>1, <1>2, <1>3, <1>5 DEF Known, Opens, KnownNext, OpensNext
<1>6. CASE keys'[k].live /\ keys'[k].generation = keys[k].generation + 1
  BY <1>1, <1>2, <1>3, <1>6 DEF Known, Opens, KnownNext, OpensNext
<1> QED  BY <1>1, <1>4, <1>5, <1>6, KeysGrow

\* A living key has been created.
LEMMA LiveKeys ==
    ASSUME IInv, [Next]_vars
    PROVE  \A k \in Key : keys'[k].live => keys'[k].generation >= 1
<1>1. ASSUME NEW k \in Key, keys'[k].live PROVE keys'[k].generation >= 1
  <2>1. keys[k].generation \in Nat /\ (keys[k].live => keys[k].generation >= 1)
    BY TypeFacts DEF IInv
  <2> QED  BY <1>1, <2>1, KeysGrow
<1> QED  BY <1>1
-----------------------------------------------------------------------------
\* Every step keeps the texts on the keys they were sealed under.
LEMMA TextsStep == IInv /\ [Next]_vars => TextsKeyed'
<1> SUFFICES ASSUME IInv, [Next]_vars,
                    NEW q \in Process, NEW n \in Namespace, NEW e \in Document,
                    kb'[q][<<n, e>>] # NoText
             PROVE  n = HomeOf[q] /\ kb'[q][<<n, e>>] = [namespace |-> n, document |-> e]
  BY DEF TextsKeyed
<1>1. /\ kb \in [Process -> [Namespace \X Document -> Text \cup {NoText}]]
      /\ TextsKeyed /\ <<n, e>> \in Namespace \X Document
  BY TypeFacts DEF IInv
<1>2. ASSUME NEW p \in Process, SealEmbedding(p)
      PROVE  n = HomeOf[q] /\ kb'[q][<<n, e>>] = [namespace |-> n, document |-> e]
  <2> DEFINE d == Len(process[p].sealed) + 1
             text == [namespace |-> HomeOf[p], document |-> d]
  <2>1. d \in Document /\ HomeOf[p] \in Namespace
    BY <1>2, SealFacts, IndexAssumption
  <2>2. kb' = [kb EXCEPT ![p][<<HomeOf[p], d>>] = text]
    BY <1>2 DEF SealEmbedding, kbDocumentKey
  <2> HIDE DEF d
  <2>3. CASE q = p /\ n = HomeOf[p] /\ e = d
    BY <1>1, <2>1, <2>2, <2>3
  <2>4. CASE ~ (q = p /\ n = HomeOf[p] /\ e = d)
    <3>1. kb'[q][<<n, e>>] = kb[q][<<n, e>>]
      BY <1>1, <2>1, <2>2, <2>4
    <3> QED  BY <1>1, <3>1 DEF TextsKeyed
  <2> QED  BY <2>3, <2>4
<1>3. ASSUME NEW p \in Process, Die(p)
      PROVE  n = HomeOf[q] /\ kb'[q][<<n, e>>] = [namespace |-> n, document |-> e]
  <2>1. q # p
    BY <1>1, <1>3 DEF Die, NoTexts
  <2>2. kb'[q] = kb[q]
    BY <1>1, <1>3, <2>1 DEF Die
  <2> QED  BY <1>1, <2>2 DEF TextsKeyed
<1>4. CASE kb' = kb
  BY <1>1, <1>4 DEF TextsKeyed
<1> QED
  BY <1>2, <1>3, <1>4
     DEF Next, vars, DestroyKey, Boot, Upsert, RefuseSearch, FileFails,
         Answer, QueryReads, Unseal, CustodianUnreachable, Drop, DropNamespace, Corrupt

\* A step of another process, or of none, leaves the seeding of q alone.
LEMMA SameSeeding ==
    ASSUME IInv, [Next]_vars, NEW q \in Process, process'[q] = process[q]
    PROVE  Seeding(q)'
<1>1. /\ process[q] \in ProcessRecord /\ Seeding(q) /\ boots \in Nat /\ boots' \in Nat
  BY TypeFacts, SeedingType, IndexAssumption DEF IInv
<1>2. process[q].sealed \in Seq(Sealed) /\ process[q].boot \in Nat
  BY <1>1, IndexAssumption DEF ProcessRecord
<1>3. ASSUME NEW i \in 1 .. Len(process[q].sealed)
      PROVE  OfNextBoot(q, process[q].sealed[i]) /\ KnownNext(process[q].sealed[i])
  <2>1. process[q].sealed[i] \in Sealed
    BY <1>2
  <2>2. OfThisBoot(q, process[q].sealed[i]) /\ Known(process[q].sealed[i])
    BY <1>1 DEF Seeding
  <2>3. KnownNext(process[q].sealed[i])
    BY <2>1, <2>2, DeadStaysDead
  <2> QED  BY <2>2, <2>3 DEF OfThisBoot, OfNextBoot
<1>4. process'[q].boot <= boots'
  BY <1>1, <1>2, KeysGrow DEF Seeding
<1> QED  BY <1>1, <1>3, <1>4 DEF Seeding, OfThisBoot, OfNextBoot, Known, KnownNext

\* Every step keeps each seeding process between the documents it has done and
\* those it has still to do.
LEMMA SeedingStep == IInv /\ [Next]_vars => \A p \in Process : Seeding(p)'
<1> SUFFICES ASSUME IInv, [Next]_vars, NEW q \in Process PROVE Seeding(q)'
  OBVIOUS
<1>1. /\ process \in [Process -> ProcessRecord] /\ boots \in Nat /\ boots' \in Nat
      /\ Seeding(q) /\ boots' >= boots /\ Documents \in Nat \ {0} /\ process[q] \in ProcessRecord
  BY TypeFacts, SeedingType, KeysGrow, IndexAssumption DEF IInv
<1>2. process[q].sealed \in Seq(Sealed) /\ process[q].boot \in Nat
  BY <1>1, IndexAssumption DEF ProcessRecord
<1>3. ASSUME Boot(q) PROVE Seeding(q)'
  <2>1. process'[q] = [pc |-> "sealing", boot |-> boots', sealed |-> <<>>] /\ boots' = boots + 1
    BY <1>1, <1>3 DEF Boot
  <2> QED  BY <1>1, <2>1 DEF Seeding
<1>4. ASSUME Die(q) PROVE Seeding(q)'
  <2>1. process'[q] = [pc |-> "off", boot |-> 0, sealed |-> <<>>]
    BY <1>1, <1>4 DEF Die
  <2> QED  BY <1>1, <2>1 DEF Seeding
<1>5. ASSUME SealEmbedding(q) PROVE Seeding(q)'
  <2> DEFINE key == Ensured(keys[KeyOf[q]])
             c == [by |-> q, boot |-> process[q].boot, generation |-> key.generation, intact |-> TRUE]
             n == Len(process[q].sealed)
             next == IF n + 1 = Documents THEN "indexing" ELSE "sealing"
  <2>1. /\ key \in [generation : 1 .. MaxGeneration, live : BOOLEAN] /\ KeyOf[q] \in Key
        /\ c \in Sealed /\ n + 1 \in Document /\ n \in Nat
    BY <1>5, SealFacts
  <2>2. /\ keys' = [keys EXCEPT ![KeyOf[q]] = key] /\ boots' = boots
        /\ process' = [process EXCEPT ![q].sealed = Append(@, c), ![q].pc = next]
        /\ process[q].pc = "sealing"
    BY <1>5 DEF SealEmbedding
  <2>3. keys'[KeyOf[q]] = key
    BY <2>1, <2>2, TypeFacts DEF IInv
  <2>4. c.by = q /\ c.boot = process[q].boot /\ c.generation = key.generation
    OBVIOUS
  <2>5. key.generation \in Nat
    BY <2>1, IndexAssumption
  <2> HIDE DEF key, c
  <2>6. /\ process'[q].pc = next /\ process'[q].boot = process[q].boot
        /\ process'[q].sealed = Append(process[q].sealed, c)
    BY <1>1, <2>2 DEF ProcessRecord
  <2>7. Len(Append(process[q].sealed, c)) = n + 1
    BY <1>2, <2>1
  <2>8. ASSUME NEW i \in 1 .. n + 1
        PROVE  OfNextBoot(q, process'[q].sealed[i]) /\ KnownNext(process'[q].sealed[i])
    <3>1. CASE i = n + 1
      <4>1. process'[q].sealed[i] = c
        BY <1>2, <2>1, <2>6, <3>1
      <4>2. c.generation <= keys'[KeyOf[c.by]].generation /\ c.boot <= boots'
        BY <1>1, <1>2, <2>2, <2>3, <2>4, <2>5 DEF Seeding
      <4> QED  BY <2>4, <2>6, <4>1, <4>2 DEF OfThisBoot, OfNextBoot, Known, KnownNext
    <3>2. CASE i # n + 1
      <4>1. i \in 1 .. n
        BY <2>1, <3>2
      <4>2. process'[q].sealed[i] = process[q].sealed[i] /\ process[q].sealed[i] \in Sealed
        BY <1>2, <2>1, <2>6, <4>1
      <4>3. OfThisBoot(q, process[q].sealed[i]) /\ Known(process[q].sealed[i])
        BY <1>1, <4>1 DEF Seeding
      <4>4. KnownNext(process'[q].sealed[i])
        BY <4>2, <4>3, DeadStaysDead
      <4> QED  BY <2>6, <4>2, <4>3, <4>4 DEF OfThisBoot, OfNextBoot
    <3> QED  BY <3>1, <3>2
  <2>9. n < Documents
    BY <1>1, <2>2 DEF Seeding
  <2>10. process[q].boot >= 1 /\ process[q].boot <= boots
    BY <1>1, <2>2 DEF Seeding
  <2>11. /\ process'[q].pc = "sealing" => Len(process'[q].sealed) < Documents
         /\ process'[q].pc = "indexing" => Len(process'[q].sealed) \in 1 .. Documents
    BY <1>1, <2>1, <2>6, <2>7, <2>9
  <2> HIDE DEF next
  <2> QED  BY <2>2, <2>6, <2>7, <2>8, <2>10, <2>11 DEF Seeding, OfThisBoot, OfNextBoot, Known, KnownNext
<1>6. ASSUME Upsert(q) PROVE Seeding(q)'
  <2> DEFINE n == Len(process[q].sealed)
             d == Documents - n + 1
             next == IF d = Documents THEN "serving" ELSE "indexing"
  <2>1. n \in 1 .. Documents
    BY <1>6, UpsertFacts
  <2>2. /\ process' = [process EXCEPT ![q].sealed = Tail(@), ![q].pc = next]
        /\ process[q].pc = "indexing" /\ boots' = boots
    BY <1>6 DEF Upsert
  <2>3. /\ process'[q].pc = next /\ process'[q].boot = process[q].boot
        /\ process'[q].sealed = Tail(process[q].sealed)
    BY <1>1, <2>2 DEF ProcessRecord
  <2>4. Len(Tail(process[q].sealed)) = n - 1
    BY <1>1, <1>2, <2>1
  <2>5. ASSUME NEW i \in 1 .. n - 1
        PROVE  OfNextBoot(q, process'[q].sealed[i]) /\ KnownNext(process'[q].sealed[i])
    <3>1. i + 1 \in 1 .. n
      BY <1>1, <2>1
    <3>2. process'[q].sealed[i] = process[q].sealed[i + 1] /\ process[q].sealed[i + 1] \in Sealed
      BY <1>1, <1>2, <2>1, <2>3, <2>4, <3>1
    <3>3. OfThisBoot(q, process[q].sealed[i + 1]) /\ Known(process[q].sealed[i + 1])
      BY <1>1, <3>1 DEF Seeding
    <3>4. KnownNext(process'[q].sealed[i])
      BY <3>2, <3>3, DeadStaysDead
    <3> QED  BY <2>3, <3>2, <3>3, <3>4 DEF OfThisBoot, OfNextBoot
  <2>6. process[q].boot >= 1 /\ process[q].boot <= boots
    BY <1>1, <2>2 DEF Seeding
  <2>7. /\ process'[q].pc \in {"serving", "indexing"}
        /\ process'[q].pc = "indexing" => n - 1 \in 1 .. Documents
    BY <1>1, <2>1, <2>3
  <2> HIDE DEF next
  <2> QED  BY <2>2, <2>3, <2>4, <2>5, <2>6, <2>7 DEF Seeding, OfThisBoot, OfNextBoot, Known, KnownNext
<1>7. ASSUME NEW p \in Process, p # q, Boot(p) \/ SealEmbedding(p) \/ Upsert(p) \/ Die(p)
      PROVE  process'[q] = process[q]
  BY <1>1, <1>7 DEF Boot, SealEmbedding, Upsert, Die
<1>8. \/ \E p \in Process : Boot(p) \/ SealEmbedding(p) \/ Upsert(p) \/ Die(p)
      \/ process' = process
  BY DEF Next, vars, DestroyKey, RefuseSearch, FileFails,
         Answer, QueryReads, Unseal, CustodianUnreachable, Drop, DropNamespace, Corrupt
<1>9. CASE process'[q] = process[q]
  BY <1>9, SameSeeding
<1> QED  BY <1>3, <1>4, <1>5, <1>6, <1>7, <1>8, <1>9

\* Where a row of the table comes from: it was there, it decayed, or a process
\* has just written it.
LEMMA TableSource ==
    ASSUME IInv, [Next]_vars, NEW n \in Namespace, NEW e \in Document, table'[n][e] # NoRow
    PROVE  \/ table'[n][e] = table[n][e]
           \/ /\ table[n][e] \in Sealed /\ table[n][e].intact
              /\ table'[n][e] = [table[n][e] EXCEPT !.intact = FALSE]
           \/ \E p \in Process :
                 /\ Upsert(p) /\ n = HomeOf[p] /\ Unwritten(p, e)
                 /\ process'[p].pc = "indexing" => e <= Documents - Len(process'[p].sealed)
                 /\ table'[n][e] = process[p].sealed[1] /\ table'[n][e] \in Sealed
                 /\ OfThisBoot(p, table'[n][e]) /\ Known(process[p].sealed[1])
<1>1. table \in [Namespace -> [Document -> Sealed \cup {NoRow}]]
  BY TypeFacts DEF IInv
<1>2. ASSUME NEW p \in Process, Upsert(p), table'[n][e] # table[n][e]
      PROVE  /\ n = HomeOf[p] /\ Unwritten(p, e)
             /\ process'[p].pc = "indexing" => e <= Documents - Len(process'[p].sealed)
             /\ table'[n][e] = process[p].sealed[1] /\ table'[n][e] \in Sealed
             /\ OfThisBoot(p, table'[n][e]) /\ Known(process[p].sealed[1])
  <2> DEFINE len == Len(process[p].sealed)
             d == Documents - len + 1
             c == process[p].sealed[1]
  <2>1. /\ d \in Document /\ HomeOf[p] \in Namespace /\ Head(process[p].sealed) = c
        /\ c \in Sealed /\ len \in 1 .. Documents /\ process[p].sealed \in Seq(Sealed)
    BY <1>2, UpsertFacts
  <2>2. table' = [table EXCEPT ![HomeOf[p]][d] = c] /\ process[p].pc = "indexing"
    BY <1>2, <2>1 DEF Upsert
  <2>3. OfThisBoot(p, c) /\ Known(c)
    BY <2>1, IndexAssumption DEF IInv, Seeding
  <2>4. n = HomeOf[p] /\ e = d /\ table'[n][e] = c
    <3> HIDE DEF d, c
    <3> QED  BY <1>1, <1>2, <2>1, <2>2
  <2>5. Unwritten(p, e)
    BY <2>1, <2>2, <2>4, IndexAssumption DEF Unwritten
  <2>6. process'[p].sealed = Tail(process[p].sealed)
    <3>1. process[p] \in ProcessRecord /\ process \in [Process -> ProcessRecord]
      BY TypeFacts DEF IInv
    <3> QED  BY <1>2, <3>1 DEF Upsert, ProcessRecord
  <2>7. Len(process'[p].sealed) = len - 1
    BY <2>1, <2>6
  <2>8. e <= Documents - Len(process'[p].sealed)
    BY <2>1, <2>4, <2>7, IndexAssumption
  <2> QED  BY <2>1, <2>3, <2>4, <2>5, <2>8
<1>3. ASSUME NEW m \in Namespace, NEW d \in Document, Corrupt(m, d), table'[n][e] # table[n][e]
      PROVE  /\ table[n][e] \in Sealed /\ table[n][e].intact
             /\ table'[n][e] = [table[n][e] EXCEPT !.intact = FALSE]
  <2>1. table[m][d] \in Sealed /\ table[m][d].intact
    BY <1>1, <1>3 DEF Corrupt
  <2>2. table' = [table EXCEPT ![m][d] = [table[m][d] EXCEPT !.intact = FALSE]]
    BY <1>1, <1>3 DEF Corrupt
  <2>3. n = m /\ e = d
    BY <1>1, <1>3, <2>2
  <2> QED  BY <1>1, <2>1, <2>2, <2>3
<1>4. ASSUME NEW s \in Search, NEW row \in search[s].unreadable, Drop(s, row)
      PROVE  table'[n][e] = table[n][e]
  BY <1>1, <1>4 DEF Drop
<1>5. ASSUME NEW m \in Namespace, DropNamespace(m)
      PROVE  table'[n][e] = table[n][e]
  BY <1>1, <1>5 DEF DropNamespace
<1>6. \/ \E p \in Process : Upsert(p)
      \/ \E m \in Namespace, d \in Document : Corrupt(m, d)
      \/ \E s \in Search : \E row \in search[s].unreadable : Drop(s, row)
      \/ \E m \in Namespace : DropNamespace(m)
      \/ table' = table
  BY DEF Next, vars, DestroyKey, Boot, SealEmbedding, Die, RefuseSearch, FileFails,
         Answer, QueryReads, Unseal, CustodianUnreachable
<1> QED  BY <1>2, <1>3, <1>4, <1>5, <1>6

\* Every step keeps the rows of the table sealed for their own tenant.
LEMMA TableStep == IInv /\ [Next]_vars => TableInv'
<1> SUFFICES ASSUME IInv, [Next]_vars, NEW n \in Namespace, NEW e \in Document,
                    table'[n][e] # NoRow
             PROVE  HomeOf[table'[n][e].by] = n /\ KnownNext(table'[n][e])
  BY DEF TableInv, Known, KnownNext
<1>1. table \in [Namespace -> [Document -> Sealed \cup {NoRow}]] /\ TableInv
  BY TypeFacts DEF IInv
<1>2. CASE table'[n][e] = table[n][e]
  <2>1. table[n][e] \in Sealed /\ HomeOf[table[n][e].by] = n /\ Known(table[n][e])
    BY <1>1, <1>2 DEF TableInv
  <2> QED  BY <1>2, <2>1, DeadStaysDead
<1>3. CASE /\ table[n][e] \in Sealed
           /\ table'[n][e] = [table[n][e] EXCEPT !.intact = FALSE]
  <2>1. /\ table'[n][e].by = table[n][e].by /\ table'[n][e].boot = table[n][e].boot
        /\ table'[n][e].generation = table[n][e].generation
    BY <1>3 DEF Sealed
  <2>2. HomeOf[table[n][e].by] = n /\ KnownNext(table[n][e])
    BY <1>1, <1>3, IndexAssumption, DeadStaysDead DEF TableInv
  <2> QED  BY <2>1, <2>2 DEF KnownNext
<1>4. ASSUME NEW p \in Process, n = HomeOf[p], table'[n][e] = process[p].sealed[1],
             table'[n][e] \in Sealed, OfThisBoot(p, table'[n][e]), Known(process[p].sealed[1])
      PROVE  HomeOf[table'[n][e].by] = n /\ KnownNext(table'[n][e])
  BY <1>4, DeadStaysDead DEF OfThisBoot
<1> QED  BY <1>2, <1>3, <1>4, TableSource

\* Where a row found dead comes from.
LEMMA GoneSource ==
    ASSUME IInv, [Next]_vars, NEW s \in Search, NEW row \in gone'[s]
    PROVE  \/ row \in gone[s]
           \/ /\ table' = table /\ process' = process
              /\ \E n \in Namespace : row \in RowsOf(n)
<1>1. gone \in [Search -> SUBSET Row]
  BY TypeFacts DEF IInv
<1>2. ASSUME NEW p \in Process, Die(p) PROVE row \in gone[s]
  BY <1>1, <1>2 DEF Die
<1>3. ASSUME NEW z \in Search, FileFails(z) PROVE row \in gone[s]
  BY <1>1, <1>3 DEF FileFails
<1>4. ASSUME NEW z \in Search, NEW r \in search[z].todo, CustodianUnreachable(z, r)
      PROVE  row \in gone[s]
  BY <1>1, <1>4 DEF CustodianUnreachable
<1>5. ASSUME NEW z \in Search, NEW p \in Process, NEW n \in Namespace, QueryReads(z, p, n)
      PROVE  \/ row \in gone[s]
             \/ table' = table /\ process' = process /\ row \in RowsOf(n)
  BY <1>1, <1>5 DEF QueryReads
<1> QED
  BY <1>2, <1>3, <1>4, <1>5
     DEF Next, vars, DestroyKey, Boot, SealEmbedding, Upsert, RefuseSearch,
         Answer, Unseal, Drop, DropNamespace, Corrupt

\* What is yet to be written was yet to be written before, in the same boot.
LEMMA UnwrittenBefore ==
    ASSUME IInv, [Next]_vars, NEW p \in Process, NEW d \in Document, Unwritten(p, d)', ~ Boot(p)
    PROVE  Unwritten(p, d) /\ process'[p].boot = process[p].boot
<1>1. process \in [Process -> ProcessRecord] /\ process[p] \in ProcessRecord
  BY TypeFacts DEF IInv
<1>2. ASSUME SealEmbedding(p) PROVE Unwritten(p, d) /\ process'[p].boot = process[p].boot
  BY <1>1, <1>2 DEF SealEmbedding, Unwritten, ProcessRecord
<1>3. ASSUME Upsert(p) PROVE Unwritten(p, d) /\ process'[p].boot = process[p].boot
  <2>1. /\ Len(process[p].sealed) \in 1 .. Documents /\ process[p].sealed \in Seq(Sealed)
    BY <1>3, UpsertFacts
  <2>2. /\ process'[p].sealed = Tail(process[p].sealed) /\ process[p].pc = "indexing"
        /\ process'[p].pc \in {"serving", "indexing"} /\ process'[p].boot = process[p].boot
    BY <1>1, <1>3 DEF Upsert, ProcessRecord
  <2>3. Len(process'[p].sealed) = Len(process[p].sealed) - 1
    BY <2>1, <2>2
  <2>4. d > Documents - Len(process'[p].sealed)
    BY <2>2 DEF Unwritten
  <2>5. d > Documents - Len(process[p].sealed)
    <3> DEFINE n == Len(process[p].sealed)
               m == Len(process'[p].sealed)
    <3>1. n \in Nat /\ m = n - 1
      BY <2>1, <2>3, IndexAssumption
    <3>2. d \in Nat /\ Documents \in Nat
      BY IndexAssumption DEF Document
    <3>3. d > Documents - m
      BY <2>4
    <3> HIDE DEF n, m
    <3>4. d > Documents - n
      BY <3>1, <3>2, <3>3
    <3> QED  BY <3>4 DEF n
  <2> QED  BY <2>2, <2>5 DEF Unwritten
<1>4. ASSUME Die(p) PROVE FALSE
  BY <1>1, <1>4 DEF Die, Unwritten
<1>5. ASSUME NEW q \in Process, q # p, Boot(q) \/ SealEmbedding(q) \/ Upsert(q) \/ Die(q)
      PROVE  process'[p] = process[p]
  BY <1>1, <1>5 DEF Boot, SealEmbedding, Upsert, Die
<1>6. \/ \E q \in Process : Boot(q) \/ SealEmbedding(q) \/ Upsert(q) \/ Die(q)
      \/ process' = process
  BY DEF Next, vars, DestroyKey, RefuseSearch, FileFails,
         Answer, QueryReads, Unseal, CustodianUnreachable, Drop, DropNamespace, Corrupt
<1>7. CASE process'[p] = process[p]
  BY <1>7 DEF Unwritten
<1> QED  BY <1>2, <1>3, <1>4, <1>5, <1>6, <1>7

\* A boot that begins is later than all that is in the table or was found dead.
LEMMA NewBoot ==
    ASSUME IInv, NEW p \in Process, Boot(p), NEW c \in Sealed, Known(c)
    PROVE  ~ OfNextBoot(p, c)
<1>1. process'[p].boot = boots + 1 /\ boots \in Nat
  BY TypeFacts, IndexAssumption DEF IInv, Boot
<1>2. c.boot \in Nat /\ c.boot <= boots
  BY IndexAssumption DEF Sealed, Known
<1> QED  BY <1>1, <1>2 DEF OfNextBoot

\* Every step keeps what a process has yet to write out of the table and out of what
\* searches met.
LEMMA FreshStep == IInv /\ [Next]_vars => Fresh'
<1> SUFFICES ASSUME IInv, [Next]_vars, NEW p \in Process, NEW d \in Document, Unwritten(p, d)'
             PROVE  /\ \A n \in Namespace : table'[n][d] # NoRow => ~ OfNextBoot(p, table'[n][d])
                    /\ \A s \in Search : \A row \in gone'[s] :
                          row.document = d => ~ OfNextBoot(p, row.content)
  BY DEF Fresh, OfThisBoot, OfNextBoot
<1>1. /\ table \in [Namespace -> [Document -> Sealed \cup {NoRow}]]
      /\ gone \in [Search -> SUBSET Row] /\ TypeOK
  BY TypeFacts DEF IInv
<1>2. ASSUME NEW n \in Namespace, table[n][d] # NoRow PROVE ~ OfNextBoot(p, table[n][d])
  <2>1. table[n][d] \in Sealed /\ Known(table[n][d])
    BY <1>1, <1>2 DEF IInv, TableInv
  <2>2. CASE Boot(p)
    BY <2>1, <2>2, NewBoot
  <2>3. CASE ~ Boot(p)
    BY <1>2, <2>3, UnwrittenBefore DEF IInv, Fresh, OfThisBoot, OfNextBoot
  <2> QED  BY <2>2, <2>3
<1>3. ASSUME NEW n \in Namespace, table'[n][d] # NoRow PROVE ~ OfNextBoot(p, table'[n][d])
  <2>1. CASE table'[n][d] = table[n][d]
    BY <1>2, <1>3, <2>1
  <2>2. CASE /\ table[n][d] \in Sealed
             /\ table'[n][d] = [table[n][d] EXCEPT !.intact = FALSE]
    <3>1. table'[n][d].by = table[n][d].by /\ table'[n][d].boot = table[n][d].boot
      BY <2>2 DEF Sealed
    <3> QED  BY <1>2, <2>2, <3>1, IndexAssumption DEF OfNextBoot
  <2>3. ASSUME NEW q \in Process, Upsert(q), OfThisBoot(q, table'[n][d]),
               process'[q].pc = "indexing" => d <= Documents - Len(process'[q].sealed)
        PROVE  ~ OfNextBoot(p, table'[n][d])
    <3>1. CASE q = p
      <4>1. process[p] \in ProcessRecord /\ process \in [Process -> ProcessRecord]
        BY TypeFacts DEF IInv
      <4>2. process'[p].pc \in {"serving", "indexing"}
        BY <2>3, <3>1, <4>1 DEF Upsert, ProcessRecord
      <4>3. /\ Len(process[p].sealed) \in 1 .. Documents /\ process[p].sealed \in Seq(Sealed)
        BY <2>3, <3>1, UpsertFacts
      <4>4. process'[p].sealed = Tail(process[p].sealed)
        BY <2>3, <3>1, <4>1 DEF Upsert, ProcessRecord
      <4>5. Len(process'[p].sealed) \in Nat
        BY <4>3, <4>4
      <4>6. ~ Unwritten(p, d)'
        BY <2>3, <3>1, <4>2, <4>5, IndexAssumption DEF Unwritten, Document
      <4> QED  BY <4>6
    <3>2. CASE q # p
      BY <2>3, <3>2 DEF OfThisBoot, OfNextBoot
    <3> QED  BY <3>1, <3>2
  <2> QED  BY <1>3, <2>1, <2>2, <2>3, TableSource
<1>4. ASSUME NEW s \in Search, NEW row \in gone'[s], row.document = d
      PROVE  ~ OfNextBoot(p, row.content)
  <2>1. CASE row \in gone[s]
    <3>1. row.content \in Sealed /\ Known(row.content)
      BY <1>1, <2>1 DEF IInv, GoneInv, Row
    <3>2. CASE Boot(p)
      BY <3>1, <3>2, NewBoot
    <3>3. CASE ~ Boot(p)
      BY <1>4, <2>1, <3>3, UnwrittenBefore DEF IInv, Fresh, OfThisBoot, OfNextBoot
    <3> QED  BY <3>2, <3>3
  <2>2. ASSUME NEW n \in Namespace, row \in RowsOf(n)
        PROVE  ~ OfNextBoot(p, row.content)
    <3>1. row.content = table[n][d] /\ table[n][d] # NoRow
      <4>1. row \in Row
        BY <1>1, <2>2, RowsOfType
      <4>2. row.content = table[n][row.document] /\ row.content \in Sealed
        BY <1>1, <2>2, <4>1, RowsOfType DEF Row
      <4> QED  BY <1>4, <4>2, IndexAssumption
    <3> QED  BY <1>2, <3>1
  <2> QED  BY <2>1, <2>2, GoneSource
<1> QED  BY <1>3, <1>4
-----------------------------------------------------------------------------
\* A row found dead stays dead; once it is out of the table it stays out.
LEMMA DeadRow ==
    ASSUME IInv, [Next]_vars, NEW s \in Search, NEW row \in gone[s]
    PROVE  LET n == search[s].namespace
               now == table'[n][row.document]
           IN
           /\ KnownNext(row.content) /\ ~ OpensNext(row.content)
           /\ now # NoRow /\ now.by = row.content.by /\ now.boot = row.content.boot /\ now.intact =>
                 row.content.intact
           /\ row \notin RowsOf(n) => row.content # table'[n][row.document]
<1> DEFINE n == search[s].namespace
           d == row.document
           was == table[n][d]
           now == table'[n][d]
<1>1. /\ row \in Row /\ d \in Document /\ row.content \in Sealed /\ n \in Namespace /\ TypeOK
      /\ search[s] \in SearchRecord
  BY TypeFacts DEF IInv, Row, SearchRecord
<1>2. Known(row.content) /\ ~ Opens(row.content) /\ NotRestored(s, row)
  BY DEF IInv, GoneInv
<1>3. KnownNext(row.content) /\ ~ OpensNext(row.content)
  BY <1>1, <1>2, DeadStaysDead
<1>4. row \in RowsOf(n) <=> row.content = was
  BY <1>1, RowsOfType
<1>5. was # NoRow /\ was.by = row.content.by /\ was.boot = row.content.boot /\ was.intact =>
          row.content.intact
  BY <1>2 DEF NotRestored
<1> DEFINE Good == /\ now.by = row.content.by /\ now.boot = row.content.boot /\ now.intact =>
                         row.content.intact
                   /\ row \notin RowsOf(n) => row.content # now
<1>6. ASSUME now = was, now # NoRow PROVE Good
  BY <1>4, <1>5, <1>6
<1>7. ASSUME was \in Sealed, was.intact, now = [was EXCEPT !.intact = FALSE] PROVE Good
  <2>1. now.by = was.by /\ now.boot = was.boot /\ now.intact = FALSE
    BY <1>7 DEF Sealed
  <2>2. ASSUME row.content = now PROVE FALSE
    <3>1. row.content.by = was.by /\ row.content.boot = was.boot /\ row.content.intact = FALSE
      BY <2>1, <2>2
    <3>2. was # NoRow
      BY <1>7, IndexAssumption
    <3> QED  BY <1>5, <1>7, <3>1, <3>2
  <2> QED  BY <2>1, <2>2
<1>8. ASSUME NEW p \in Process, Unwritten(p, d), OfThisBoot(p, now) PROVE Good
  <2>1. ~ OfThisBoot(p, row.content)
    BY <1>1, <1>8 DEF IInv, Fresh
  <2> QED  BY <1>8, <2>1 DEF OfThisBoot
<1>9. now # NoRow => Good
  <2> SUFFICES ASSUME now # NoRow PROVE Good
    OBVIOUS
  <2> HIDE DEF Good
  <2> QED  BY <1>1, <1>6, <1>7, <1>8, TableSource
<1>10. now = NoRow => row.content # now
  BY <1>1, IndexAssumption
<1> QED  BY <1>3, <1>9, <1>10

\* The rows of the next state.
LEMMA NextRows ==
    ASSUME TypeOK', NEW n \in Namespace
    PROVE  \A row \in Row : row \in RowsOf(n)' <=> row.content = table'[n][row.document]
<1>1. \A d \in Document : table'[n][d] # NoRow => table'[n][d] \in Sealed
  BY DEF TypeOK
<1>2. ASSUME NEW row \in Row, row.content = table'[n][row.document] PROVE row \in RowsOf(n)'
  <2>1. row = [document |-> row.document, content |-> table'[n][row.document]]
    BY <1>2 DEF Row
  <2>2. row.document \in Document /\ table'[n][row.document] # NoRow
    BY <1>2, IndexAssumption DEF Row
  <2> QED  BY <2>1, <2>2 DEF RowsOf
<1>3. ASSUME NEW row \in Row, row \in RowsOf(n)' PROVE row.content = table'[n][row.document]
  BY <1>3 DEF RowsOf
<1> QED  BY <1>2, <1>3

\* What a step makes of a row found dead by a search that stays with its tenant.
LEMMA GoneRow ==
    ASSUME IInv, [Next]_vars, NEW s \in Search, NEW row \in gone[s],
           search'[s].namespace = search[s].namespace
    PROVE  /\ Known(row.content)' /\ ~ Opens(row.content)' /\ NotRestored(s, row)'
           /\ row \notin RowsOf(search[s].namespace) => row \notin RowsOf(search[s].namespace)'
<1>1. /\ TypeOK' /\ search[s].namespace \in Namespace /\ row \in Row
  BY TypeFacts, NextType DEF IInv, SearchRecord
<1>2. PICK n \in Namespace : n = search[s].namespace
  BY <1>1
<1>3. row \in RowsOf(n)' <=> row.content = table'[n][row.document]
  BY <1>1, NextRows
<1>4. /\ KnownNext(row.content) /\ ~ OpensNext(row.content)
      /\ row \notin RowsOf(n) => row \notin RowsOf(n)'
  BY <1>2, <1>3, DeadRow
<1>5. NotRestored(s, row)'
  BY DeadRow DEF NotRestored
<1>6. Known(row.content)' /\ ~ Opens(row.content)'
  BY <1>4 DEF Known, Opens, KnownNext, OpensNext
<1> QED  BY <1>2, <1>4, <1>5, <1>6

\* A search that does nothing keeps what it knows of its dead rows.
LEMMA SameGone ==
    ASSUME IInv, [Next]_vars, NEW s \in Search, search'[s] = search[s], gone'[s] = gone[s]
    PROVE  GoneInv(s)'
<1>1. GoneInv(s) /\ search'[s].namespace = search[s].namespace
  BY DEF IInv
<1> QED  BY <1>1, GoneRow DEF GoneInv

\* What a step may do to one search.
LEMMA SearchCases ==
    ASSUME IInv, [Next]_vars, NEW s \in Search
    PROVE  \/ search'[s] = search[s] /\ gone'[s] = gone[s]
           \/ search'[s] \in {Unused("refused"), Unused("lost")} /\ gone'[s] = {}
           \/ RefuseSearch(s)
           \/ \E p \in Process, n \in Namespace : QueryReads(s, p, n)
           \/ \E row \in search[s].todo : Unseal(s, row)
           \/ \E row \in search[s].unreadable : Drop(s, row)
           \/ Answer(s)
<1> DEFINE Same == search'[s] = search[s] /\ gone'[s] = gone[s]
           Ended == search'[s] \in {Unused("refused"), Unused("lost")} /\ gone'[s] = {}
<1>1. search \in [Search -> SearchRecord] /\ gone \in [Search -> SUBSET Row]
  BY TypeFacts DEF IInv
<1>2. ASSUME NEW p \in Process, Die(p) PROVE Same \/ Ended
  BY <1>1, <1>2 DEF Die
<1>3. ASSUME NEW z \in Search, FileFails(z) PROVE Same \/ Ended
  BY <1>1, <1>3 DEF FileFails
<1>4. ASSUME NEW z \in Search, NEW r \in search[z].todo, CustodianUnreachable(z, r)
      PROVE  Same \/ Ended
  BY <1>1, <1>4 DEF CustodianUnreachable
<1>5. ASSUME NEW z \in Search, z # s, RefuseSearch(z) PROVE Same
  BY <1>1, <1>5 DEF RefuseSearch
<1>6. ASSUME NEW z \in Search, z # s, NEW p \in Process, NEW n \in Namespace, QueryReads(z, p, n)
      PROVE  Same
  BY <1>1, <1>6 DEF QueryReads
<1>7. ASSUME NEW z \in Search, z # s, NEW r \in search[z].todo, Unseal(z, r) PROVE Same
  BY <1>1, <1>7 DEF Unseal
<1>8. ASSUME NEW z \in Search, z # s, NEW r \in search[z].unreadable, Drop(z, r) PROVE Same
  BY <1>1, <1>8 DEF Drop
<1>9. ASSUME NEW z \in Search, z # s, Answer(z) PROVE Same
  BY <1>1, <1>9 DEF Answer
<1>10. \/ \E p \in Process : Die(p)
       \/ \E z \in Search : RefuseSearch(z) \/ FileFails(z) \/ Answer(z)
       \/ \E z \in Search, p \in Process, n \in Namespace : QueryReads(z, p, n)
       \/ \E z \in Search : \E r \in search[z].todo : Unseal(z, r) \/ CustodianUnreachable(z, r)
       \/ \E z \in Search : \E r \in search[z].unreadable : Drop(z, r)
       \/ Same
  BY DEF Next, vars, DestroyKey, Boot, SealEmbedding, Upsert, DropNamespace, Corrupt
<1> HIDE DEF Same, Ended
<1>11. \/ Same \/ Ended \/ RefuseSearch(s) \/ Answer(s)
       \/ \E p \in Process, n \in Namespace : QueryReads(s, p, n)
       \/ \E row \in search[s].todo : Unseal(s, row)
       \/ \E row \in search[s].unreadable : Drop(s, row)
  BY <1>2, <1>3, <1>4, <1>5, <1>6, <1>7, <1>8, <1>9, <1>10
<1> QED  BY <1>11 DEF Same, Ended

\* The fields a search has after a step of its own.
LEMMA SearchFields ==
    ASSUME IInv, NEW s \in Search
    PROVE  /\ \A p \in Process, n \in Namespace : QueryReads(s, p, n) =>
                 /\ search'[s].pc = "querying" /\ search'[s].namespace = n
                 /\ search'[s].todo = RowsOf(n) /\ search'[s].scored = {}
                 /\ search'[s].unreadable = {} /\ search'[s].found = {}
                 /\ gone'[s] = {row \in RowsOf(n) : ~ Opens(row.content)}
           /\ \A row \in search[s].todo : Unseal(s, row) =>
                 /\ search[s].pc = "querying" /\ search'[s].pc = "querying"
                 /\ search'[s].namespace = search[s].namespace
                 /\ search'[s].todo = search[s].todo \ {row}
                 /\ search'[s].scored = IF Opens(row.content) THEN search[s].scored \cup {row}
                                                              ELSE search[s].scored
                 /\ search'[s].unreadable =
                       IF Opens(row.content) THEN search[s].unreadable
                                             ELSE search[s].unreadable \cup {row}
                 /\ search'[s].found = search[s].found /\ gone'[s] = gone[s]
           /\ \A row \in search[s].unreadable : Drop(s, row) =>
                 /\ search[s].pc = "querying" /\ search'[s].pc = "querying"
                 /\ search'[s].namespace = search[s].namespace
                 /\ search'[s].todo = search[s].todo /\ search'[s].scored = search[s].scored
                 /\ search'[s].unreadable = search[s].unreadable \ {row}
                 /\ search'[s].found = search[s].found /\ gone'[s] = gone[s]
           /\ Answer(s) =>
                 /\ search[s].pc = "querying" /\ search'[s].pc = "answered"
                 /\ search'[s].namespace = search[s].namespace
                 /\ search[s].todo = {} /\ search'[s].todo = {} /\ search'[s].scored = {}
                 /\ search[s].unreadable = {} /\ search'[s].unreadable = {}
                 /\ \E best \in SUBSET search[s].scored : search'[s].found = Hits(s, best)
                 /\ gone'[s] = gone[s]
<1>1. /\ search \in [Search -> SearchRecord] /\ gone \in [Search -> SUBSET Row]
      /\ search[s].pc = "idle" => search[s] = Unused("idle")
  BY TypeFacts DEF IInv, SearchInv
<1>2. ASSUME NEW p \in Process, NEW n \in Namespace, QueryReads(s, p, n)
      PROVE  /\ search'[s].pc = "querying" /\ search'[s].namespace = n
             /\ search'[s].todo = RowsOf(n) /\ search'[s].scored = {}
             /\ search'[s].unreadable = {} /\ search'[s].found = {}
             /\ gone'[s] = {row \in RowsOf(n) : ~ Opens(row.content)}
  <2>1. search[s].scored = {} /\ search[s].unreadable = {} /\ search[s].found = {}
    BY <1>1, <1>2 DEF QueryReads, Unused
  <2> QED  BY <1>1, <1>2, <2>1 DEF QueryReads, SearchRecord
<1>3. ASSUME NEW row \in search[s].todo, Unseal(s, row)
      PROVE  /\ search[s].pc = "querying" /\ search'[s].pc = "querying"
             /\ search'[s].namespace = search[s].namespace
             /\ search'[s].todo = search[s].todo \ {row}
             /\ search'[s].scored = IF Opens(row.content) THEN search[s].scored \cup {row}
                                                          ELSE search[s].scored
             /\ search'[s].unreadable =
                   IF Opens(row.content) THEN search[s].unreadable
                                         ELSE search[s].unreadable \cup {row}
             /\ search'[s].found = search[s].found /\ gone'[s] = gone[s]
  BY <1>1, <1>3 DEF Unseal, SearchRecord
<1>4. ASSUME NEW row \in search[s].unreadable, Drop(s, row)
      PROVE  /\ search[s].pc = "querying" /\ search'[s].pc = "querying"
             /\ search'[s].namespace = search[s].namespace
             /\ search'[s].todo = search[s].todo /\ search'[s].scored = search[s].scored
             /\ search'[s].unreadable = search[s].unreadable \ {row}
             /\ search'[s].found = search[s].found /\ gone'[s] = gone[s]
  BY <1>1, <1>4 DEF Drop, SearchRecord
<1>5. ASSUME Answer(s)
      PROVE  /\ search[s].pc = "querying" /\ search'[s].pc = "answered"
             /\ search'[s].namespace = search[s].namespace
             /\ search[s].todo = {} /\ search'[s].todo = {} /\ search'[s].scored = {}
             /\ search[s].unreadable = {} /\ search'[s].unreadable = {}
             /\ \E best \in SUBSET search[s].scored : search'[s].found = Hits(s, best)
             /\ gone'[s] = gone[s]
  <2>1. PICK best \in SUBSET search[s].scored :
          search' = [search EXCEPT ![s].pc = "answered", ![s].scored = {},
                                  ![s].found = Hits(s, best)]
    BY <1>5 DEF Answer
  <2>2. /\ search[s].pc = "querying" /\ search[s].todo = {} /\ search[s].unreadable = {}
        /\ gone'[s] = gone[s]
    BY <1>5 DEF Answer
  <2> QED  BY <1>1, <2>1, <2>2 DEF SearchRecord
<1> QED  BY <1>2, <1>3, <1>4, <1>5

\* Every step keeps the rows a search could not open unopened, and out of its scores.
LEMMA GoneStep == IInv /\ [Next]_vars => \A s \in Search : GoneInv(s)'
<1> SUFFICES ASSUME IInv, [Next]_vars, NEW s \in Search PROVE GoneInv(s)'
  OBVIOUS
<1>1. /\ GoneInv(s) /\ SearchInv(s) /\ TypeOK /\ TypeOK' /\ search[s] \in SearchRecord
      /\ gone[s] \subseteq Row /\ search[s].namespace \in Namespace
  BY TypeFacts, NextType DEF IInv, SearchRecord
<1>2. CASE search'[s] \in {Unused("refused"), Unused("lost")} /\ gone'[s] = {}
  <2>1. search'[s].pc \in {"refused", "lost"}
    BY <1>2 DEF Unused
  <2> QED  BY <1>2, <2>1 DEF GoneInv
<1>3. CASE RefuseSearch(s)
  <2>1. search[s].pc = "idle" /\ search'[s].pc = "refused" /\ gone'[s] = gone[s]
    BY <1>1, <1>3, TypeFacts DEF IInv, RefuseSearch, SearchRecord
  <2>2. gone'[s] = {}
    BY <1>1, <2>1 DEF GoneInv
  <2> QED  BY <2>1, <2>2 DEF GoneInv
<1>4. ASSUME NEW p \in Process, NEW n \in Namespace, QueryReads(s, p, n) PROVE GoneInv(s)'
  <2>1. /\ search'[s].pc = "querying" /\ search'[s].namespace = n
        /\ search'[s].todo = RowsOf(n) /\ search'[s].scored = {}
        /\ gone'[s] = {row \in RowsOf(n) : ~ Opens(row.content)}
    BY <1>4, SearchFields
  <2>2. keys' = keys /\ table' = table /\ boots' = boots
    BY <1>4 DEF QueryReads
  <2>3. ASSUME NEW row \in gone'[s]
        PROVE  Known(row.content)' /\ ~ Opens(row.content)' /\ NotRestored(s, row)'
    <3>1. row \in RowsOf(n) /\ ~ Opens(row.content) /\ row \in Row
      BY <1>1, <2>1, RowsOfType
    <3>2. /\ row.content = table[n][row.document] /\ row.content # NoRow
          /\ row.document \in Document
      BY <1>1, <3>1, RowsOfType, IndexAssumption DEF Row
    <3>3. Known(row.content)
      BY <3>2 DEF IInv, TableInv
    <3>4. NotRestored(s, row)'
      BY <2>1, <2>2, <3>2 DEF NotRestored
    <3> QED  BY <2>2, <3>1, <3>3, <3>4 DEF Known, Opens
  <2> QED  BY <2>1, <2>3 DEF GoneInv
<1>5. ASSUME NEW r \in search[s].todo, Unseal(s, r) PROVE GoneInv(s)'
  <2>1. /\ search[s].pc = "querying" /\ search'[s].pc = "querying"
        /\ search'[s].namespace = search[s].namespace
        /\ search'[s].todo = search[s].todo \ {r}
        /\ search'[s].scored = IF Opens(r.content) THEN search[s].scored \cup {r}
                                                   ELSE search[s].scored
        /\ search'[s].unreadable = IF Opens(r.content) THEN search[s].unreadable
                                                       ELSE search[s].unreadable \cup {r}
        /\ gone'[s] = gone[s]
    BY <1>5, SearchFields
  <2>2. ASSUME NEW row \in gone[s]
        PROVE  /\ row \notin search'[s].scored
               /\ \/ row \in search'[s].todo \cup search'[s].unreadable
                  \/ row \notin RowsOf(search[s].namespace)
    BY <1>1, <2>1 DEF GoneInv
  <2> QED  BY <2>1, <2>2, GoneRow DEF GoneInv
<1>6. ASSUME NEW r \in search[s].unreadable, Drop(s, r) PROVE GoneInv(s)'
  <2>1. /\ search[s].pc = "querying" /\ search'[s].pc = "querying"
        /\ search'[s].namespace = search[s].namespace
        /\ search'[s].todo = search[s].todo /\ search'[s].scored = search[s].scored
        /\ search'[s].unreadable = search[s].unreadable \ {r}
        /\ gone'[s] = gone[s]
    BY <1>6, SearchFields
  <2>2. PICK n \in Namespace : n = search[s].namespace
    BY <1>1
  <2>3. r \notin RowsOf(n)'
    <3>1. r \in Row /\ r.document \in Document /\ r.content # NoRow
      BY <1>1, <1>6, IndexAssumption DEF SearchRecord, Row
    <3>2. table'[n][r.document] = NoRow
      BY <1>1, <1>6, <2>2, <3>1, TypeFacts DEF Drop
    <3> QED  BY <1>1, <3>1, <3>2, NextRows
  <2>4. ASSUME NEW row \in gone[s]
        PROVE  /\ row \notin search'[s].scored
               /\ \/ row \in search'[s].todo \cup search'[s].unreadable
                  \/ row \notin RowsOf(search[s].namespace)'
    <3>1. /\ row \notin search[s].scored
          /\ \/ row \in search[s].todo \cup search[s].unreadable
             \/ row \notin RowsOf(search[s].namespace)
      BY <1>1, <2>1 DEF GoneInv
    <3>2. CASE row = r
      BY <2>1, <2>2, <2>3, <3>1, <3>2
    <3>3. CASE row # r
      BY <2>1, <3>1, <3>3, GoneRow
    <3> QED  BY <3>2, <3>3
  <2> QED  BY <2>1, <2>4, GoneRow DEF GoneInv
<1>7. CASE Answer(s)
  <2>1. /\ search[s].pc = "querying" /\ search'[s].pc = "answered"
        /\ search'[s].namespace = search[s].namespace
        /\ search[s].todo = {} /\ search[s].unreadable = {} /\ gone'[s] = gone[s]
    BY <1>7, SearchFields
  <2>2. PICK best \in SUBSET search[s].scored : search'[s].found = Hits(s, best)
    BY <1>7, SearchFields
  <2>3. ASSUME NEW row \in gone[s]
        PROVE  /\ \A hit \in search'[s].found : hit.row # row
               /\ row \notin RowsOf(search[s].namespace)
    <3>1. row \notin best /\ row \notin RowsOf(search[s].namespace)
      BY <1>1, <2>1, <2>2 DEF GoneInv
    <3>2. \A hit \in search'[s].found : hit.row \in best
      BY <2>2 DEF Hits
    <3> QED  BY <3>1, <3>2
  <2> QED  BY <2>1, <2>3, GoneRow DEF GoneInv
<1> QED  BY <1>2, <1>3, <1>4, <1>5, <1>6, <1>7, SameGone, SearchCases
-----------------------------------------------------------------------------
\* Every step keeps a search within its own tenant.
LEMMA SearchStep == IInv /\ [Next]_vars => \A s \in Search : SearchInv(s)'
<1> SUFFICES ASSUME IInv, [Next]_vars, NEW s \in Search PROVE SearchInv(s)'
  OBVIOUS
<1>1. /\ SearchInv(s) /\ TypeOK /\ search[s] \in SearchRecord /\ search[s].namespace \in Namespace
      /\ search[s].by \in Process
  BY TypeFacts DEF IInv, SearchRecord
<1>2. ASSUME NEW row \in search[s].unreadable
      PROVE  Known(row.content)' /\ ~ Opens(row.content)'
  <2>1. row.content \in Sealed /\ Known(row.content) /\ ~ Opens(row.content)
    BY <1>1 DEF SearchInv, SearchRecord, Row
  <2>2. KnownNext(row.content) /\ ~ OpensNext(row.content)
    BY <2>1, DeadStaysDead
  <2> QED  BY <2>2 DEF Known, Opens, KnownNext, OpensNext
<1>3. ASSUME NEW row \in search[s].todo \cup search[s].scored
       PROVE  HomeOf[row.content.by] = search[s].namespace /\ Known(row.content)'
  <2>1. row.content \in Sealed /\ Known(row.content)
    BY <1>1 DEF SearchInv, SearchRecord, Row
  <2>2. KnownNext(row.content)
    BY <2>1, DeadStaysDead
  <2> QED  BY <1>1, <2>2 DEF SearchInv, Known, KnownNext
<1>4. CASE search'[s] = search[s]
  BY <1>1, <1>2, <1>3, <1>4 DEF SearchInv, Unused
<1>5. CASE search'[s] \in {Unused("refused"), Unused("lost")}
  <2>1. /\ search'[s].pc \in {"refused", "lost"} /\ search'[s].todo = {} /\ search'[s].scored = {}
        /\ search'[s].unreadable = {} /\ search'[s].found = {}
    BY <1>5 DEF Unused
  <2> QED  BY <2>1 DEF SearchInv
<1>6. CASE RefuseSearch(s)
  <2>1. /\ search'[s].pc = "refused" /\ search'[s].todo = search[s].todo
        /\ search'[s].scored = search[s].scored /\ search'[s].found = search[s].found
        /\ search'[s].unreadable = search[s].unreadable
        /\ search'[s].namespace = search[s].namespace
    BY <1>1, <1>6, TypeFacts DEF RefuseSearch, SearchRecord
  <2> QED  BY <1>1, <1>2, <1>3, <2>1 DEF SearchInv
<1>7. ASSUME NEW p \in Process, NEW n \in Namespace, QueryReads(s, p, n) PROVE SearchInv(s)'
  <2>1. /\ search'[s].pc = "querying" /\ search'[s].namespace = n
        /\ search'[s].todo = RowsOf(n) /\ search'[s].scored = {}
        /\ search'[s].unreadable = {} /\ search'[s].found = {}
    BY <1>7, SearchFields
  <2>2. ASSUME NEW row \in RowsOf(n)
        PROVE  HomeOf[row.content.by] = n /\ Known(row.content)'
    <3>1. row \in Row
      BY <1>1, RowsOfType
    <3>2. /\ row.content = table[n][row.document] /\ row.content # NoRow
          /\ row.document \in Document
      BY <1>1, <3>1, RowsOfType, IndexAssumption DEF Row
    <3>3. HomeOf[row.content.by] = n /\ Known(row.content)
      BY <3>2 DEF IInv, TableInv
    <3> QED  BY <1>7, <3>3 DEF Known, QueryReads
  <2> QED  BY <2>1, <2>2 DEF SearchInv
<1>8. ASSUME NEW r \in search[s].todo, Unseal(s, r) PROVE SearchInv(s)'
  <2>1. /\ search'[s].pc = "querying"
        /\ search'[s].namespace = search[s].namespace
        /\ search'[s].todo = search[s].todo \ {r}
        /\ search'[s].scored = IF Opens(r.content) THEN search[s].scored \cup {r}
                                                   ELSE search[s].scored
        /\ search'[s].unreadable = IF Opens(r.content) THEN search[s].unreadable
                                                       ELSE search[s].unreadable \cup {r}
        /\ search'[s].found = search[s].found
    BY <1>8, SearchFields
  <2>2. \A row \in search'[s].todo \cup search'[s].scored :
           HomeOf[row.content.by] = search[s].namespace /\ Known(row.content)'
    BY <1>8, <1>3, <2>1
  <2>3. ASSUME ~ Opens(r.content) PROVE Known(r.content)' /\ ~ Opens(r.content)'
    <3>1. keys' = keys /\ boots' = boots
      BY <1>8 DEF Unseal
    <3>2. Known(r.content)
      BY <1>1, <1>8 DEF SearchInv
    <3> QED  BY <2>3, <3>1, <3>2 DEF Known, Opens
  <2>4. \A row \in search'[s].unreadable : Known(row.content)' /\ ~ Opens(row.content)'
    BY <1>2, <2>1, <2>3
  <2> QED  BY <1>1, <2>1, <2>2, <2>4 DEF SearchInv
<1>9. ASSUME NEW r \in search[s].unreadable, Drop(s, r) PROVE SearchInv(s)'
  <2>1. /\ search'[s].pc = "querying" /\ search'[s].namespace = search[s].namespace
        /\ search'[s].todo = search[s].todo /\ search'[s].scored = search[s].scored
        /\ search'[s].unreadable = search[s].unreadable \ {r}
        /\ search'[s].found = search[s].found
    BY <1>9, SearchFields
  <2> QED  BY <1>1, <1>2, <1>3, <2>1 DEF SearchInv
<1>10. CASE Answer(s)
  <2>1. /\ search'[s].pc = "answered" /\ search'[s].namespace = search[s].namespace
        /\ search'[s].todo = {} /\ search'[s].scored = {} /\ search'[s].unreadable = {}
    BY <1>10, SearchFields
  <2>2. PICK best \in SUBSET search[s].scored : search'[s].found = Hits(s, best)
    BY <1>10, SearchFields
  <2>3. ASSUME NEW hit \in search'[s].found
        PROVE  /\ hit.text.namespace = search[s].namespace
               /\ hit.text.document = hit.row.document
               /\ HomeOf[hit.row.content.by] = search[s].namespace
    <3>1. PICK row \in best : /\ hit = [row |-> row, text |-> TextOf(s, row)]
                              /\ TextOf(s, row) # NoText
      BY <2>2 DEF Hits
    <3>2. row.document \in Document /\ HomeOf[row.content.by] = search[s].namespace
      BY <1>1 DEF SearchInv, SearchRecord, Row
    <3>3. TextOf(s, row) = [namespace |-> search[s].namespace, document |-> row.document]
      BY <1>1, <3>1, <3>2 DEF IInv, TextsKeyed, TextOf, kbDocumentKey
    <3> QED  BY <3>1, <3>2, <3>3
  <2> QED  BY <2>1, <2>3 DEF SearchInv
<1> QED  BY <1>4, <1>5, <1>6, <1>7, <1>8, <1>9, <1>10, SearchCases
-----------------------------------------------------------------------------
\* The invariant holds at first.
LEMMA InitIInv == Init => IInv
<1> SUFFICES ASSUME Init PROVE IInv
  OBVIOUS
<1>1. TypeOK
  BY InitType
<1>2. /\ \A k \in Key : ~ keys[k].live
      /\ \A n \in Namespace, d \in Document : table[n][d] = NoRow
      /\ \A p \in Process : process[p] = [pc |-> "off", boot |-> 0, sealed |-> <<>>]
      /\ \A p \in Process : kb[p] = NoTexts
      /\ \A s \in Search : search[s] = Unused("idle") /\ gone[s] = {}
      /\ boots = 0
  BY DEF Init
<1>3. TextsKeyed
  BY <1>2 DEF TextsKeyed, NoTexts
<1>4. ASSUME NEW p \in Process PROVE Seeding(p)
  BY <1>2 DEF Seeding
<1>5. TableInv
  BY <1>2 DEF TableInv
<1>6. Fresh
  BY <1>2 DEF Fresh, Unwritten
<1>7. ASSUME NEW s \in Search PROVE SearchInv(s) /\ GoneInv(s)
  <2>1. search[s] = Unused("idle") /\ gone[s] = {}
    BY <1>2
  <2>2. /\ search[s].pc = "idle" /\ search[s].todo = {} /\ search[s].scored = {}
        /\ search[s].unreadable = {} /\ search[s].found = {}
    BY <2>1 DEF Unused
  <2> QED  BY <2>1, <2>2 DEF SearchInv, GoneInv
<1> QED  BY <1>1, <1>2, <1>3, <1>4, <1>5, <1>6, <1>7 DEF IInv

\* Every step keeps the invariant.
LEMMA NextIInv == IInv /\ [Next]_vars => IInv'
<1> SUFFICES ASSUME IInv, [Next]_vars PROVE IInv'
  OBVIOUS
<1> QED
  BY NextType, LiveKeys, TextsStep, SeedingStep, TableStep, FreshStep, SearchStep, GoneStep
     DEF IInv

\* The invariant holds throughout.
LEMMA Inductive == Spec => []IInv
  BY InitIInv, NextIInv, PTL DEF Spec

\* The keys, the shared table, the processes and the searches keep their types,
\* however many processes boot, crash, seed and search at the same time.
THEOREM TypeCorrect == Spec => []TypeOK
<1>1. IInv => TypeOK
  BY DEF IInv
<1> QED  BY Inductive, <1>1, PTL

\* Erasure reaches the index by the next search: for any number of processes,
\* searches and keys, a row that nobody could open when a query read it is
\* neither found by that query nor left in the table when it answers.
THEOREM ErasureReachesIndex == Spec => []ErasedIsNeitherFoundNorKept
<1>1. IInv => ErasedIsNeitherFoundNorKept
  BY DEF IInv, GoneInv, ErasedIsNeitherFoundNorKept
<1> QED  BY Inductive, <1>1, PTL

\* A text kb-search serves is the tenant's own and that of the row that
\* matched, although all tenants choose the same document ids and share the file.
THEOREM OwnText == Spec => []TextIsOwn
<1>1. IInv => TextIsOwn
  BY DEF IInv, SearchInv, TextIsOwn
<1> QED  BY Inductive, <1>1, PTL

\* The query's deletions cost no row that could still be opened: a row it read
\* and finds in place when it deletes is dead, an outage never sets one aside.
THEOREM OutageDropsNothing == Spec => AnOutageDropsNothing
<1> DEFINE Dropped == \A s \in Search : \A row \in search[s].unreadable :
             (Drop(s, row) /\ row \in RowsOf(search[s].namespace)) => ~ Opens(row.content)
<1>1. IInv => Dropped
  BY DEF IInv, SearchInv
<1>2. AnOutageDropsNothing <=> [][Dropped]_vars
  BY DEF AnOutageDropsNothing
<1> HIDE DEF Dropped
<1>3. IInv => [Dropped]_vars
  BY <1>1
<1> QED  BY Inductive, <1>2, <1>3, PTL
=============================================================================
