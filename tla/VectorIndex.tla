---------------------------- MODULE VectorIndex ----------------------------
(***************************************************************************)
(* The durable vector index of the knowledge component and the kb-search   *)
(* tool on top of it.  Processes share one file of sealed embeddings; each *)
(* seals and indexes the seed documents of its home tenant when it boots   *)
(* and keeps their texts in memory.  A query reads the rows of a tenant,   *)
(* awaits the unsealing of each and deletes those that can never be opened *)
(* again; meanwhile keys are destroyed and other processes boot.           *)
(***************************************************************************)
EXTENDS Naturals, Sequences, FiniteSets

CONSTANTS Process, Search,
          Namespace,
          Documents,         \* every tenant names its documents 1 .. Documents
          HomeOf,            \* the tenant a process seeds
          Key, KeyOf,        \* the custody key it seals under
          TopK,
          MaxBoots,          \* bound: so many boots of all processes
          MaxGeneration,     \* bound: a key is created so often
          NoRow, NoText

Document == 1 .. Documents
Sealed == [by : Process, boot : 1 .. MaxBoots,
           generation : 1 .. MaxGeneration, intact : BOOLEAN]
Row == [document : Document, content : Sealed]
Text == [namespace : Namespace, document : Document]

ASSUME IndexAssumption ==
    /\ Process # {} /\ HomeOf \in [Process -> Namespace]
    /\ KeyOf \in [Process -> Key]
    /\ Documents \in Nat \ {0} /\ TopK \in Nat \ {0}
    /\ MaxBoots \in Nat /\ MaxGeneration \in Nat
    /\ NoRow \notin Sealed /\ NoText \notin Text

VARIABLES keys,       \* the custodian: which generation of a key lives
          table,      \* the documents table, shared
          boots,      \* how many boots there were
          process,    \* how far a process is with seeding
          kb,         \* the text each process holds under a document key
          search,     \* one call of the tool
          gone        \* history: rows nobody could open when it read them

vars == <<keys, table, boots, process, kb, search, gone>>

NoTexts == [t \in Namespace \X Document |-> NoText]

Unused(pc) == [pc |-> pc, by |-> CHOOSE p \in Process : TRUE,
               namespace |-> CHOOSE n \in Namespace : TRUE,
               todo |-> {}, scored |-> {}, unreadable |-> {}, found |-> {}]

Init ==
    /\ keys = [k \in Key |-> [generation |-> 0, live |-> FALSE]]
    /\ table = [n \in Namespace |-> [d \in Document |-> NoRow]]
    /\ boots = 0
    /\ process = [p \in Process |-> [pc |-> "off", boot |-> 0, sealed |-> <<>>]]
    /\ kb = [p \in Process |-> NoTexts]
    /\ search = [s \in Search |-> Unused("idle")]
    /\ gone = [s \in Search |-> {}]

RowsOf(n) == {[document |-> d, content |-> table[n][d]] :
                 d \in {e \in Document : table[n][e] # NoRow}}

\* A data key opens under the generation that wrapped it and no other.
Opens(content) ==
    LET key == keys[KeyOf[content.by]] IN
    content.intact /\ key.live /\ key.generation = content.generation

\* Rows are read, and deleted, in the order of their primary key.
First(rows, row) == row \in rows /\ \A r \in rows : row.document <= r.document
-----------------------------------------------------------------------------
(* The custodian, modelled by what KeyCustody shows of it. *)

DestroyKey(k) ==
    /\ keys[k].live
    /\ keys' = [keys EXCEPT ![k].live = FALSE]
    /\ UNCHANGED <<table, boots, process, kb, search, gone>>

\* The key a seal uses: an absent one is created anew.
Ensured(key) ==
    IF key.live THEN key ELSE [generation |-> key.generation + 1, live |-> TRUE]
-----------------------------------------------------------------------------
(* Seeding, at boot. *)

Boot(p) ==
    /\ process[p].pc = "off" /\ boots < MaxBoots
    /\ boots' = boots + 1
    /\ process' = [process EXCEPT
                     ![p] = [pc |-> "sealing", boot |-> boots', sealed |-> <<>>]]
    /\ UNCHANGED <<keys, table, kb, search, gone>>

\* Fault: document ids are taken to be unique among all tenants.
KeyedByDocument(n, d) == <<CHOOSE m \in Namespace : TRUE, d>>

kbDocumentKey(n, d) == <<n, d>>

\* sealEmbedding, and the text goes into the process's map: one document
\* after the other.
SealEmbedding(p) ==
    LET key == Ensured(keys[KeyOf[p]])
        d == Len(process[p].sealed) + 1
    IN
    /\ process[p].pc = "sealing"
    /\ key.generation <= MaxGeneration
    /\ keys' = [keys EXCEPT ![KeyOf[p]] = key]
    /\ process' = [process EXCEPT
                     ![p].sealed = Append(@, [by |-> p, boot |-> process[p].boot,
                                              generation |-> key.generation,
                                              intact |-> TRUE]),
                     ![p].pc = IF d = Documents THEN "indexing" ELSE "sealing"]
    /\ kb' = [kb EXCEPT ![p][kbDocumentKey(HomeOf[p], d)] =
                [namespace |-> HomeOf[p], document |-> d]]
    /\ UNCHANGED <<table, boots, search, gone>>

Upsert(p) ==
    LET d == Documents - Len(process[p].sealed) + 1 IN
    /\ process[p].pc = "indexing"
    /\ table' = [table EXCEPT ![HomeOf[p]][d] = Head(process[p].sealed)]
    /\ process' = [process EXCEPT ![p].sealed = Tail(@),
                                  ![p].pc = IF d = Documents THEN "serving" ELSE "indexing"]
    /\ UNCHANGED <<keys, boots, kb, search, gone>>

\* A crash; also a boot that ends because the embedder, a seal or the file
\* fails it.
Die(p) ==
    /\ process[p].pc # "off"
    /\ process' = [process EXCEPT ![p] = [pc |-> "off", boot |-> 0, sealed |-> <<>>]]
    /\ kb' = [kb EXCEPT ![p] = NoTexts]
    /\ LET lost == {s \in Search : search[s].pc = "querying" /\ search[s].by = p} IN
       /\ search' = [s \in Search |-> IF s \in lost THEN Unused("lost") ELSE search[s]]
       /\ gone' = [s \in Search |-> IF s \in lost THEN {} ELSE gone[s]]
    /\ UNCHANGED <<keys, table, boots>>
-----------------------------------------------------------------------------
(* A search: the tool's execute around the index's query. *)

\* The arguments do not parse, or the embedder fails.
RefuseSearch(s) ==
    /\ search[s].pc = "idle"
    /\ search' = [search EXCEPT ![s].pc = "refused"]
    /\ UNCHANGED <<keys, table, boots, process, kb, gone>>

QueryReads(s, p, n) ==
    /\ search[s].pc = "idle" /\ process[p].pc = "serving"
    /\ search' = [search EXCEPT ![s].pc = "querying", ![s].by = p,
                                ![s].namespace = n, ![s].todo = RowsOf(n)]
    /\ gone' = [gone EXCEPT ![s] = {row \in RowsOf(n) : ~ Opens(row.content)}]
    /\ UNCHANGED <<keys, table, boots, process, kb>>

\* Fault: what does not open is passed over.
UnsealForgetting(s, row) ==
    /\ search[s].pc = "querying" /\ First(search[s].todo, row)
    /\ search' = [search EXCEPT
                    ![s].todo = @ \ {row},
                    ![s].scored = IF Opens(row.content) THEN @ \cup {row} ELSE @]
    /\ UNCHANGED <<keys, table, boots, process, kb, gone>>

\* Score what opens; set aside what never will.
Unseal(s, row) ==
    /\ search[s].pc = "querying" /\ First(search[s].todo, row)
    /\ search' = [search EXCEPT
                    ![s].todo = @ \ {row},
                    ![s].scored = IF Opens(row.content) THEN @ \cup {row} ELSE @,
                    ![s].unreadable = IF Opens(row.content) THEN @ ELSE @ \cup {row}]
    /\ UNCHANGED <<keys, table, boots, process, kb, gone>>

\* Fault: what could not be opened just now is set aside as well.
UnreachableIsErased(s, row) ==
    /\ search[s].pc = "querying" /\ First(search[s].todo, row)
    /\ search' = [search EXCEPT ![s].todo = @ \ {row},
                                ![s].unreadable = @ \cup {row}]
    /\ UNCHANGED <<keys, table, boots, process, kb, gone>>

\* The custodian cannot be reached: the whole query is refused.
CustodianUnreachable(s, row) ==
    /\ search[s].pc = "querying" /\ First(search[s].todo, row)
    /\ search' = [search EXCEPT ![s] = Unused("refused")]
    /\ gone' = [gone EXCEPT ![s] = {}]
    /\ UNCHANGED <<keys, table, boots, process, kb>>

\* One DELETE, by document id alone.
Drop(s, row) ==
    /\ search[s].pc = "querying" /\ search[s].todo = {}
    /\ First(search[s].unreadable, row)
    /\ table' = [table EXCEPT ![search[s].namespace][row.document] = NoRow]
    /\ search' = [search EXCEPT ![s].unreadable = @ \ {row}]
    /\ UNCHANGED <<keys, boots, process, kb, gone>>

\* The file fails a SELECT or a DELETE: the tool throws.
FileFails(s) ==
    /\ search[s].pc = "querying"
    /\ search' = [search EXCEPT ![s] = Unused("lost")]
    /\ gone' = [gone EXCEPT ![s] = {}]
    /\ UNCHANGED <<keys, table, boots, process, kb>>

\* The text the searching process holds for a row; its map may lack it.
TextOf(s, row) ==
    kb[search[s].by][kbDocumentKey(search[s].namespace, row.document)]

Hits(s, best) ==
    {[row |-> row, text |-> TextOf(s, row)] :
       row \in {r \in best : TextOf(s, r) # NoText}}

\* The best matches, whatever their scores, with their texts.
Answer(s) ==
    LET matches == search[s].scored IN
    /\ search[s].pc = "querying"
    /\ search[s].todo = {} /\ search[s].unreadable = {}
    /\ \E best \in SUBSET matches :
         /\ Cardinality(best) <= TopK
         /\ best # matches => Cardinality(best) = TopK
         /\ search' = [search EXCEPT ![s].pc = "answered", ![s].scored = {},
                                     ![s].found = Hits(s, best)]
    /\ UNCHANGED <<keys, table, boots, process, kb, gone>>
-----------------------------------------------------------------------------
\* Tenant offboarding.
DropNamespace(n) ==
    /\ RowsOf(n) # {}
    /\ table' = [table EXCEPT ![n] = [d \in Document |-> NoRow]]
    /\ UNCHANGED <<keys, boots, process, kb, search, gone>>

\* The file decays: a row no longer parses, or no longer decrypts.
Corrupt(n, d) ==
    /\ table[n][d] # NoRow /\ table[n][d].intact
    /\ table' = [table EXCEPT ![n][d].intact = FALSE]
    /\ UNCHANGED <<keys, boots, process, kb, search, gone>>
-----------------------------------------------------------------------------
Next ==
    \/ \E k \in Key : DestroyKey(k)
    \/ \E p \in Process : Boot(p) \/ SealEmbedding(p) \/ Upsert(p) \/ Die(p)
    \/ \E s \in Search : RefuseSearch(s) \/ FileFails(s) \/ Answer(s)
    \/ \E s \in Search, p \in Process, n \in Namespace : QueryReads(s, p, n)
    \/ \E s \in Search : \E row \in search[s].todo :
         Unseal(s, row) \/ CustodianUnreachable(s, row)
    \/ \E s \in Search : \E row \in search[s].unreadable : Drop(s, row)
    \/ \E n \in Namespace : DropNamespace(n)
    \/ \E n \in Namespace, d \in Document : Corrupt(n, d)

Spec == Init /\ [][Next]_vars
-----------------------------------------------------------------------------
\* The types of the index, the tool and the custodian's keys.
TypeOK ==
    /\ keys \in [Key -> [generation : 0 .. MaxGeneration, live : BOOLEAN]]
    /\ table \in [Namespace -> [Document -> Sealed \cup {NoRow}]]
    /\ process \in [Process -> [pc : {"off", "sealing", "indexing", "serving"},
                                boot : 0 .. MaxBoots, sealed : Seq(Sealed)]]
    /\ boots \in 0 .. MaxBoots
    /\ kb \in [Process -> [Namespace \X Document -> Text \cup {NoText}]]
    /\ search \in [Search ->
         [pc : {"idle", "querying", "answered", "refused", "lost"},
          by : Process, namespace : Namespace, todo : SUBSET Row,
          scored : SUBSET Row, unreadable : SUBSET Row,
          found : SUBSET [row : Row, text : Text]]]
    /\ gone \in [Search -> SUBSET Row]

\* Erasure reaches the index by the next search: once a query has answered,
\* a row that could not be opened when it began is neither among what it
\* found nor in the table, whatever was written or dropped meanwhile.
ErasedIsNeitherFoundNorKept ==
    \A s \in Search : search[s].pc = "answered" =>
      \A row \in gone[s] :
        /\ \A hit \in search[s].found : hit.row # row
        /\ row \notin RowsOf(search[s].namespace)

\* A text is served for the tenant that asked only if its own process wrote
\* it for that tenant, although tenants choose the same document ids and any
\* process may serve any of them; and it is the text of the row that matched.
TextIsOwn ==
    \A s \in Search : \A hit \in search[s].found :
      /\ hit.text.namespace = search[s].namespace
      /\ hit.text.document = hit.row.document
      /\ HomeOf[hit.row.content.by] = search[s].namespace

\* A query deletes a row only if that can never be opened again, or if it is
\* not the row the query had read: an outage of the custodian costs no row.
AnOutageDropsNothing ==
    [][\A s \in Search : \A row \in search[s].unreadable :
         (Drop(s, row) /\ row \in RowsOf(search[s].namespace)) => ~ Opens(row.content)]_vars

\* What the comment on the deletion says: the row that is deleted can never
\* become readable again.
OnlyTheDeadAreDropped ==
    [][\A s \in Search : \A row \in search[s].unreadable :
         Drop(s, row) =>
           \A now \in RowsOf(search[s].namespace) :
             now.document = row.document => ~ Opens(now.content)]_vars
=============================================================================
