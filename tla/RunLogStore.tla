---------------------------- MODULE RunLogStore ----------------------------
(***************************************************************************)
(* The rows the evidence component keeps of one run, and what one          *)
(* BEGIN IMMEDIATE transaction does with them.  A caller always hands over *)
(* the whole log of a run; the store decides what is new.                  *)
(*                                                                         *)
(* A hash commits to an entry and, through the previous hash, to all the   *)
(* entries before it: it is modelled as that history itself.  A row keeps  *)
(* the entry, the previous hash and its own hash; rows may be altered or   *)
(* lost underneath the store, their recorded hashes are then no longer     *)
(* those of their content.                                                 *)
(***************************************************************************)
EXTENDS Integers, Sequences

CONSTANTS Entry,     \* an event and its time: what a hash covers
          Garbled,   \* the content of a row that was edited or decayed
          LostRow    \* a row missing from the middle of a run

Row == [body : Entry \cup {Garbled}, previousHash : Seq(Entry), hash : Seq(Entry)]

ASSUME RowAssumption == Garbled \notin Entry /\ LostRow \notin Row

\* hasher.hash(hashableEntry(entry))
Hash(previousHash, body) == Append(previousHash, body)

\* The hash of the tail row; GENESIS_HASH is that of no entry.
TailHash(rows) == IF rows = <<>> THEN <<>> ELSE rows[Len(rows)].hash

\* What appendEntry makes of entry i of a log.
RowOf(log, i) ==
    [body |-> log[i], previousHash |-> SubSeq(log, 1, i - 1), hash |-> SubSeq(log, 1, i)]

\* validateAppend: a shorter log is a rewind; a longer one has to continue the
\* stored tail; of one as long as the stored run nothing is compared.
Continues(rows, log) ==
    \/ Len(log) = Len(rows)
    \/ Len(log) > Len(rows) /\ SubSeq(log, 1, Len(rows)) = TailHash(rows)

\* #appendLocked: only the entries that are new are inserted.
Appended(rows, log) ==
    rows \o [i \in 1 .. Len(log) - Len(rows) |-> RowOf(log, Len(rows) + i)]

\* The entries read back.
Bodies(rows) == [i \in 1 .. Len(rows) |-> rows[i].body]

\* Fault: every row is checked by itself, and not the chain.
VerifiedRowByRow(rows) ==
    \A i \in 1 .. Len(rows) :
        rows[i] # LostRow => Hash(rows[i].previousHash, rows[i].body) = rows[i].hash

\* parseStoredEntry of every row, and verifyRunLog over all of them: no gap in
\* the sequence, no broken link, no entry that is not what its hash says.
Verified(rows) ==
    \A i \in 1 .. Len(rows) :
        /\ rows[i] # LostRow
        /\ rows[i].previousHash = (IF i = 1 THEN <<>> ELSE rows[i - 1].hash)
        /\ Hash(rows[i].previousHash, rows[i].body) = rows[i].hash

\* What happens to rows underneath the store.
Altered(rows, i) == [rows EXCEPT ![i].body = Garbled]

Lost(rows, i) == [rows EXCEPT ![i] = LostRow]

Truncated(rows, n) == SubSeq(rows, 1, n)
=============================================================================
