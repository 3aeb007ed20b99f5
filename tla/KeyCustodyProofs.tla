-------------------------- MODULE KeyCustodyProofs --------------------------
(***************************************************************************)
(* Custody is truthful for any number of processes, subjects, buckets and  *)
(* operations: a proof an erasure signs is true, a reader is told of an    *)
(* erasure or an expiry only when there was one, and the unattended expiry *)
(* never takes a subject's key.                                            *)
(*                                                                         *)
(* The argument: keys only age.  A name is created again under a new       *)
(* generation, so that a data key which cannot be opened never can be, and *)
(* what was true when the 404 of a destruction arrived stays true.  And a  *)
(* subject nobody was admitted to erase has a key of the first generation. *)
(***************************************************************************)
EXTENDS KeyCustody, TLAPS

\* A key that lives has been created.
KeyInv == \A k \in Key : vault[k].live => vault[k].gen >= 1

\* Content is written once, under generations its keys have had.
SealInv ==
    \A o \in Sealer :
        /\ seal[o].at = "bucket" =>
              /\ seal[o].subjectGen >= 1
              /\ seal[o].subjectGen <= vault[SubjectKey(SubjectOf[o])].gen
        /\ sealed[o] # None =>
              /\ seal[o].pc = "done"
              /\ sealed[o].subjectGen <= vault[SubjectKey(SubjectOf[o])].gen
              /\ sealed[o].bucketGen <= vault[BucketKey(BucketOf[o])].gen

\* Nobody is at a subject's key who was not admitted.
AdmittedInv ==
    \A o \in Destroyer :
        destroy[o].pc \notin {"idle", "refused"} /\ TargetOf[o].kind = "subject" =>
            TargetOf[o].of \in admitted

\* The key of a subject nobody was admitted to erase is the first, or is to be.
FirstKeyInv ==
    \A s \in Subject :
        s \notin admitted =>
            /\ vault[SubjectKey(s)].gen <= 1
            /\ vault[SubjectKey(s)].gen = 1 => vault[SubjectKey(s)].live

\* What a destroyer that saw the 404 had found is out of reach.
ProofInv ==
    \A o \in Destroyer :
        /\ \A c \in before[o] : sealed[c] # None
        /\ destroy[o].pc = "gone" \/ (destroy[o].pc = "proved" /\ destroy[o].proof = o) =>
              \A c \in before[o] : Covers(o, c) => ~Recoverable(c)

\* The registry holds the proofs of those who signed them.
RegistryInv ==
    \A k \in Key : registry[k] # NoProof =>
        destroy[registry[k]].pc = "proved" /\ destroy[registry[k]].proof = registry[k]

\* A reader reads what was written.
ReaderInv == \A o \in Reader : read[o] # "idle" => sealed[ContentOf[o]] # None

IInv == /\ TypeOK /\ KeyInv /\ SealInv /\ AdmittedInv /\ FirstKeyInv
        /\ ProofInv /\ RegistryInv /\ ReaderInv /\ UnsealIsTruthful
-----------------------------------------------------------------------------
\* The names of subjects' and of buckets' keys are all different.
LEMMA Names ==
    /\ \A s \in Subject : SubjectKey(s) \in Key
    /\ \A b \in Bucket : BucketKey(b) \in Key
    /\ \A s, t \in Subject : SubjectKey(s) = SubjectKey(t) => s = t
    /\ \A s \in Subject, b \in Bucket : SubjectKey(s) # BucketKey(b)
BY DEF Key, SubjectKey, BucketKey

\* The keys of operations are keys.
LEMMA KeysOf ==
    /\ \A o \in Sealer : /\ SealKey(o) \in Key
                         /\ SubjectOf[o] \in Subject /\ BucketOf[o] \in Bucket
                         /\ SubjectKey(SubjectOf[o]) \in Key /\ BucketKey(BucketOf[o]) \in Key
    /\ \A o \in Destroyer : TargetKey(o) \in Key /\ TargetOf[o].kind \in {"subject", "bucket"}
    /\ \A o \in Destroyer : TargetOf[o].kind = "subject" =>
          TargetOf[o].of \in Subject /\ TargetKey(o) = SubjectKey(TargetOf[o].of)
    /\ \A o \in Destroyer : TargetOf[o].kind = "bucket" =>
          TargetOf[o].of \in Bucket /\ TargetKey(o) = BucketKey(TargetOf[o].of)
    /\ \A o \in Reader : ContentOf[o] \in Sealer
BY Names, CustodyAssumption DEF SealKey, TargetKey, Target

\* A key created again.
CreatedNew(k) == [gen |-> vault[k].gen + 1, live |-> TRUE, deletable |-> FALSE]

\* Sealing and reading change no key but by creating it or allowing its deletion;
\* what destroys one is a destroyer at that very key.
LEMMA VaultStep ==
    ASSUME TypeOK, [Next]_vars
    PROVE  \/ vault' = vault
           \/ \E k \in Key : /\ ~vault[k].live /\ vault[k].gen < MaxGen
                             /\ vault' = [vault EXCEPT ![k] = CreatedNew(k)]
           \/ \E k \in Key : vault' = [vault EXCEPT ![k].deletable = TRUE]
           \/ \E o \in Destroyer :
                 /\ destroy[o].pc = "delete"
                 /\ vault' = [vault EXCEPT ![TargetKey(o)].live = FALSE,
                                           ![TargetKey(o)].deletable = FALSE]
<1>1. ASSUME NEW o \in Sealer, Create(o)
      PROVE  \/ vault' = vault
             \/ \E k \in Key : /\ ~vault[k].live /\ vault[k].gen < MaxGen
                               /\ vault' = [vault EXCEPT ![k] = CreatedNew(k)]
  BY <1>1, KeysOf DEF Create, Created, CreatedNew
<1>2. ASSUME NEW o \in Sealer, Config(o)
      PROVE  vault' = vault \/ \E k \in Key : vault' = [vault EXCEPT ![k].deletable = TRUE]
  BY <1>2, KeysOf DEF Config
<1>3. ASSUME NEW o \in Destroyer, Delete(o)
      PROVE  \/ vault' = vault
             \/ /\ destroy[o].pc = "delete"
                /\ vault' = [vault EXCEPT ![TargetKey(o)].live = FALSE,
                                          ![TargetKey(o)].deletable = FALSE]
  BY <1>3 DEF Delete
<1>4. \/ vault' = vault
      \/ \E o \in Sealer : Create(o) \/ Config(o)
      \/ \E o \in Destroyer : Delete(o)
  BY DEF Next, vars, SealBegin, Issue, Ensured, DataKey, DataKeyFails, RequestErasure,
         ExpireBucket, Retry, Lookup, Confirm, Prove, DisposeProof, UnsealBegin,
         UnwrapBucket, UnwrapSubject, Crash
<1> QED BY <1>1, <1>2, <1>3, <1>4

\* Keys only age: a generation that ended, or has not lived, does not live again.
Aged ==
    \A k \in Key : /\ vault'[k].gen >= vault[k].gen
                   /\ vault'[k].gen = vault[k].gen /\ vault'[k].live => vault[k].live

\* Every step lets keys age and nothing else.
LEMMA KeysAge == ASSUME TypeOK, KeyInv, [Next]_vars
                 PROVE  vault' \in [Key -> VaultKey] /\ KeyInv' /\ Aged
<1>1. vault \in [Key -> VaultKey]
  BY DEF TypeOK
<1>2. \A k \in Key : vault[k].gen \in 0 .. MaxGen /\ vault[k].live \in BOOLEAN
                     /\ vault[k].deletable \in BOOLEAN
  BY <1>1 DEF VaultKey
<1>3. CASE vault' = vault
  BY <1>1, <1>2, <1>3 DEF KeyInv, Aged
<1>4. CASE \E k \in Key : /\ ~vault[k].live /\ vault[k].gen < MaxGen
                          /\ vault' = [vault EXCEPT ![k] = CreatedNew(k)]
  <2> PICK k \in Key : /\ ~vault[k].live /\ vault[k].gen < MaxGen
                       /\ vault' = [vault EXCEPT ![k] = CreatedNew(k)]
    BY <1>4
  <2>1. CreatedNew(k) \in VaultKey /\ CreatedNew(k).gen = vault[k].gen + 1
    BY <1>2, CustodyAssumption DEF VaultKey, CreatedNew
  <2>2. \A j \in Key : vault'[j] = IF j = k THEN CreatedNew(k) ELSE vault[j]
    BY <1>1
  <2>3. vault' \in [Key -> VaultKey]
    BY <1>1, <2>1
  <2> QED BY <1>2, <2>1, <2>2, <2>3 DEF KeyInv, Aged
<1>5. CASE \E k \in Key : vault' = [vault EXCEPT ![k].deletable = TRUE]
  <2> PICK k \in Key : vault' = [vault EXCEPT ![k].deletable = TRUE]
    BY <1>5
  <2>1. vault' \in [Key -> VaultKey]
    BY <1>1 DEF VaultKey
  <2>2. \A j \in Key : vault'[j].gen = vault[j].gen /\ vault'[j].live = vault[j].live
    BY <1>1
  <2> QED BY <1>2, <2>1, <2>2 DEF KeyInv, Aged
<1>6. CASE \E o \in Destroyer :
              /\ destroy[o].pc = "delete"
              /\ vault' = [vault EXCEPT ![TargetKey(o)].live = FALSE,
                                        ![TargetKey(o)].deletable = FALSE]
  <2> PICK o \in Destroyer :
              /\ destroy[o].pc = "delete"
              /\ vault' = [vault EXCEPT ![TargetKey(o)].live = FALSE,
                                        ![TargetKey(o)].deletable = FALSE]
    BY <1>6
  <2>1. TargetKey(o) \in Key
    BY KeysOf
  <2>2. \A j \in Key : vault'[j] = IF j = TargetKey(o)
                          THEN [[vault[j] EXCEPT !.live = FALSE] EXCEPT !.deletable = FALSE]
                          ELSE vault[j]
    BY <1>1, <2>1
  <2>3. \A j \in Key : vault'[j].gen = vault[j].gen /\ (vault'[j].live => vault[j].live)
    BY <1>1, <2>2 DEF VaultKey
  <2>4. vault' \in [Key -> VaultKey]
    <3>1. \A j \in Key : vault'[j] \in VaultKey
      BY <1>1, <2>2 DEF VaultKey
    <3> QED BY <1>1, <3>1
  <2> QED BY <1>2, <2>3, <2>4 DEF KeyInv, Aged
<1> QED BY <1>3, <1>4, <1>5, <1>6, VaultStep
-----------------------------------------------------------------------------
\* How sealing operations step: on, anew, or to the content.
Pc == {"idle", "issue", "create", "config", "configured", "datakey", "done", "failed"}

SealsOn == /\ sealed' = sealed /\ seal' = [o \in Sealer |-> seal'[o]]
           /\ \A o \in Sealer : \/ seal'[o] = seal[o]
                                \/ /\ seal[o].pc # "done"
                                   /\ \E pc \in Pc : seal'[o] = [seal[o] EXCEPT !.pc = pc]

SealsAnew == \E o \in Sealer :
    /\ seal[o].pc # "done" /\ sealed' = sealed
    /\ seal' = [seal EXCEPT ![o] = [pc |-> "issue", at |-> "subject", subjectGen |-> 0]]

\* Every step of a sealing operation is one of these.
LEMMA SealingStep == ASSUME TypeOK, [Next]_vars
                     PROVE  SealsOn \/ SealsAnew \/ \E o \in Sealer : DataKey(o)
<1>1. seal \in [Sealer -> SealState]
  BY DEF TypeOK
<1>2. ASSUME sealed' = sealed, seal' = seal PROVE SealsOn
  BY <1>1, <1>2 DEF SealsOn
<1>3. ASSUME NEW o \in Sealer, NEW pc \in Pc, seal[o].pc # "done", SealGoes(o, pc), sealed' = sealed
      PROVE  SealsOn
  BY <1>1, <1>3 DEF SealsOn, SealGoes
<1>4. CASE \E o \in Sealer : SealBegin(o)
  BY <1>4 DEF SealBegin, SealsAnew
<1>5. CASE \E o \in Sealer : Issue(o)
  <2> PICK o \in Sealer : Issue(o)
    BY <1>5
  <2>1. seal[o].pc # "done" /\ sealed' = sealed
    BY DEF Issue
  <2>2. SealGoes(o, "datakey") \/ SealGoes(o, "create")
    BY DEF Issue
  <2> QED BY <2>1, <2>2, <1>3 DEF Pc
<1>6. CASE \E o \in Sealer : Create(o)
  BY <1>3, <1>6 DEF Create, Pc
<1>7. CASE \E o \in Sealer : Config(o)
  BY <1>3, <1>7 DEF Config, Pc
<1>8. CASE \E o \in Sealer : Ensured(o)
  BY <1>3, <1>8 DEF Ensured, Pc
<1>9. CASE \E o \in Sealer : DataKeyFails(o)
  BY <1>3, <1>9 DEF DataKeyFails, Pc
<1>10. CASE \E h \in Host : Crash(h)
  <2> PICK h \in Host : Crash(h)
    BY <1>10
  <2>1. /\ sealed' = sealed /\ seal' = [o \in Sealer |-> seal'[o]]
        /\ \A o \in Sealer : \/ seal'[o] = seal[o]
                             \/ seal[o].pc # "done" /\ seal'[o] = [seal[o] EXCEPT !.pc = "failed"]
    BY DEF Crash
  <2> QED BY <2>1 DEF SealsOn, Pc
<1>11. CASE sealed' = sealed /\ seal' = seal
  BY <1>2, <1>11
<1> QED BY <1>4, <1>5, <1>6, <1>7, <1>8, <1>9, <1>10, <1>11
        DEF Next, vars, RequestErasure, ExpireBucket, Retry, Lookup, Delete, Confirm, Prove,
            DisposeProof, UnsealBegin, UnwrapBucket, UnwrapSubject

\* Content, once written, stays as it is.
Kept == \A o \in Sealer : sealed[o] # None => sealed'[o] = sealed[o]

\* Every step keeps what is so of sealing operations and their content.
LEMMA SealStep ==
    ASSUME TypeOK, KeyInv, SealInv, [Next]_vars
    PROVE  /\ seal' \in [Sealer -> SealState] /\ sealed' \in [Sealer -> Content \cup {None}]
           /\ SealInv' /\ Kept
<1>1. /\ seal \in [Sealer -> SealState] /\ sealed \in [Sealer -> Content \cup {None}]
      /\ vault \in [Key -> VaultKey] /\ vault' \in [Key -> VaultKey] /\ Aged
  BY KeysAge DEF TypeOK
<1>2. \A k \in Key : /\ vault[k].gen \in 0 .. MaxGen /\ vault'[k].gen \in 0 .. MaxGen
                     /\ vault'[k].gen >= vault[k].gen
  BY <1>1 DEF VaultKey, Aged
<1>3. \A o \in Sealer :
         /\ SubjectKey(SubjectOf[o]) \in Key /\ BucketKey(BucketOf[o]) \in Key
         /\ seal[o].subjectGen \in 0 .. MaxGen
         /\ sealed[o] # None => /\ sealed[o].subjectGen \in 1 .. MaxGen
                                /\ sealed[o].bucketGen \in 1 .. MaxGen
  BY <1>1, KeysOf DEF SealState, Content
\* What is so of one operation and its content.
<1> DEFINE Inv1(p, c, o, v) ==
             /\ p.at = "bucket" => /\ p.subjectGen >= 1
                                   /\ p.subjectGen <= v[SubjectKey(SubjectOf[o])].gen
             /\ c # None => /\ p.pc = "done"
                            /\ c.subjectGen <= v[SubjectKey(SubjectOf[o])].gen
                            /\ c.bucketGen <= v[BucketKey(BucketOf[o])].gen
<1>4. \A o \in Sealer : Inv1(seal[o], sealed[o], o, vault)
  BY DEF SealInv
<1>5. \A o \in Sealer : Inv1(seal[o], sealed[o], o, vault')
  BY <1>2, <1>3, <1>4, CustodyAssumption
<1>6. ASSUME \A o \in Sealer : Inv1(seal'[o], sealed'[o], o, vault') PROVE SealInv'
  BY <1>6 DEF SealInv
<1>7. CASE SealsOn
  <2>1. sealed' = sealed /\ seal' = [o \in Sealer |-> seal'[o]]
    BY <1>7 DEF SealsOn
  <2>2. \A o \in Sealer : seal'[o] \in SealState /\ Inv1(seal'[o], sealed'[o], o, vault')
    <3> SUFFICES ASSUME NEW o \in Sealer
                 PROVE  seal'[o] \in SealState /\ Inv1(seal'[o], sealed[o], o, vault')
      BY <2>1
    <3>1. CASE seal'[o] = seal[o]
      BY <3>1, <1>1, <1>5
    <3>2. CASE seal[o].pc # "done" /\ \E pc \in Pc : seal'[o] = [seal[o] EXCEPT !.pc = pc]
      <4>1. PICK pc \in Pc : seal'[o] = [seal[o] EXCEPT !.pc = pc]
        BY <3>2
      <4>2. seal[o] \in SealState /\ sealed[o] = None
        BY <1>1, <1>4, <3>2
      <4>3. seal'[o] \in SealState /\ seal'[o].at = seal[o].at /\ seal'[o].subjectGen = seal[o].subjectGen
        BY <4>1, <4>2 DEF SealState, Pc
      <4> QED BY <4>2, <4>3, <1>5
    <3> QED BY <3>1, <3>2, <1>7 DEF SealsOn
  <2>3. seal' \in [Sealer -> SealState]
    BY <2>1, <2>2
  <2> QED BY <2>1, <2>2, <2>3, <1>1, <1>6 DEF Kept
<1>8. CASE SealsAnew
  <2> PICK o \in Sealer :
         /\ seal[o].pc # "done" /\ sealed' = sealed
         /\ seal' = [seal EXCEPT ![o] = [pc |-> "issue", at |-> "subject", subjectGen |-> 0]]
    BY <1>8 DEF SealsAnew
  <2>1. [pc |-> "issue", at |-> "subject", subjectGen |-> 0] \in SealState
    BY CustodyAssumption DEF SealState
  <2>2. seal' \in [Sealer -> SealState]
    BY <1>1, <2>1
  <2>3. \A s \in Sealer : Inv1(seal'[s], sealed'[s], s, vault')
    BY <1>1, <1>4, <1>5
  <2> QED BY <2>2, <2>3, <1>1, <1>6 DEF Kept
<1>9. CASE \E o \in Sealer : DataKey(o)
  <2> PICK o \in Sealer : DataKey(o)
    BY <1>9
  <2>1. /\ vault' = vault /\ vault[SealKey(o)].live /\ seal[o].pc = "datakey"
        /\ SealKey(o) \in Key /\ vault[SealKey(o)].gen \in 1 .. MaxGen
    BY <1>2, KeysOf DEF DataKey, KeyInv
  <2>2. sealed[o] = None /\ seal[o] \in SealState
    BY <1>1, <1>4, <2>1
  <2>3. CASE seal[o].at = "subject"
    <3>1. /\ seal' = [seal EXCEPT ![o] = [pc |-> "issue", at |-> "bucket",
                                          subjectGen |-> vault[SealKey(o)].gen]]
          /\ sealed' = sealed /\ SealKey(o) = SubjectKey(SubjectOf[o])
      BY <2>3 DEF DataKey, SealKey
    <3>2. [pc |-> "issue", at |-> "bucket", subjectGen |-> vault[SealKey(o)].gen] \in SealState
      BY <2>1 DEF SealState
    <3>3. seal' \in [Sealer -> SealState]
      BY <1>1, <3>1, <3>2
    <3>4. \A s \in Sealer : Inv1(seal'[s], sealed'[s], s, vault')
      BY <1>1, <1>5, <2>1, <2>2, <3>1
    <3> QED BY <3>1, <3>3, <3>4, <1>1, <1>6 DEF Kept
  <2>4. CASE seal[o].at = "bucket"
    <3> DEFINE new == [subjectGen |-> seal[o].subjectGen, bucketGen |-> vault[SealKey(o)].gen]
    <3>1. /\ seal' = [seal EXCEPT ![o].pc = "done"] /\ sealed' = [sealed EXCEPT ![o] = new]
          /\ SealKey(o) = BucketKey(BucketOf[o])
      BY <2>4 DEF DataKey, SealKey, SealGoes
    <3>2. new \in Content
      BY <1>3, <1>4, <2>1, <2>4 DEF Content
    <3>3. seal' \in [Sealer -> SealState] /\ sealed' \in [Sealer -> Content \cup {None}]
      BY <1>1, <3>1, <3>2 DEF SealState
    <3>4. /\ seal'[o].pc = "done" /\ seal'[o].at = "bucket" /\ seal'[o].subjectGen = seal[o].subjectGen
          /\ sealed'[o] = new
      BY <1>1, <2>4, <3>1 DEF SealState
    <3>5. Inv1(seal'[o], sealed'[o], o, vault')
      BY <1>2, <1>3, <1>5, <2>1, <2>4, <3>1, <3>4
    <3>6. \A s \in Sealer : Inv1(seal'[s], sealed'[s], s, vault')
      BY <1>1, <1>5, <3>1, <3>5
    <3> QED BY <2>2, <3>1, <3>3, <3>6, <1>1, <1>6 DEF Kept
  <2> QED BY <2>2, <2>3, <2>4 DEF SealState
<1> QED BY <1>7, <1>8, <1>9, SealingStep
-----------------------------------------------------------------------------
\* What is out of reach stays out of reach.
LEMMA LostForGood ==
    ASSUME TypeOK, KeyInv, SealInv, [Next]_vars, NEW c \in Sealer, sealed[c] # None
    PROVE  /\ ~SubjectOpens(c) => ~SubjectOpens(c)'
           /\ ~BucketOpens(c) => ~BucketOpens(c)'
           /\ ~Recoverable(c) => ~Recoverable(c)'
<1>1. sealed'[c] = sealed[c] /\ Aged
  BY SealStep, KeysAge DEF Kept
<1>2. /\ SubjectKey(SubjectOf[c]) \in Key /\ BucketKey(BucketOf[c]) \in Key
      /\ sealed[c].subjectGen <= vault[SubjectKey(SubjectOf[c])].gen
      /\ sealed[c].bucketGen <= vault[BucketKey(BucketOf[c])].gen
      /\ sealed[c].subjectGen \in Nat /\ sealed[c].bucketGen \in Nat
  BY KeysOf DEF SealInv, TypeOK, Content
<1>3. \A k \in Key : vault[k].gen \in Nat
  BY DEF TypeOK, VaultKey
<1>4. ASSUME NEW k \in Key, NEW g \in Nat, g <= vault[k].gen, ~Opens(k, g)
      PROVE  ~(vault'[k].live /\ vault'[k].gen = g)
  BY <1>1, <1>3, <1>4 DEF Aged, Opens
<1>5. /\ ~SubjectOpens(c) => ~SubjectOpens(c)'
      /\ ~BucketOpens(c) => ~BucketOpens(c)'
  BY <1>1, <1>2, <1>4 DEF SubjectOpens, BucketOpens, Opens
<1> QED BY <1>1, <1>5 DEF Recoverable

\* The steps a destroyer takes that neither destroy nor prove.
Steps == {"lookup", "delete", "confirm", "failed", "refused"}

\* What is so of destroyers and of the registry.
DestroyInv == /\ destroy \in [Destroyer -> DestroyState] /\ before \in [Destroyer -> SUBSET Sealer]
              /\ admitted \in SUBSET Subject /\ registry \in [Key -> Destroyer \cup {NoProof}]
              /\ AdmittedInv /\ ProofInv /\ RegistryInv

\* Every step keeps what is so of destroyers and the registry, and takes no admission back.
LEMMA DestroyStep == ASSUME IInv, [Next]_vars PROVE DestroyInv' /\ admitted \subseteq admitted'
<1>1. /\ TypeOK /\ KeyInv /\ SealInv /\ AdmittedInv /\ ProofInv /\ RegistryInv
      /\ destroy \in [Destroyer -> DestroyState] /\ before \in [Destroyer -> SUBSET Sealer]
      /\ admitted \in SUBSET Subject /\ registry \in [Key -> Destroyer \cup {NoProof}]
  BY DEF IInv, TypeOK
<1> DEFINE Found(b) == \A c \in b : sealed'[c] # None
           True(b, o) == \A c \in b : Covers(o, c) => ~Recoverable(c)'
           Signed(d, o) == d.pc = "gone" \/ (d.pc = "proved" /\ d.proof = o)
           Begun(d, o) == d.pc \notin {"idle", "refused"} /\ TargetOf[o].kind = "subject"
<1>2. \A o \in Destroyer : /\ Found(before[o])
                           /\ Signed(destroy[o], o) => True(before[o], o)
  <2> SUFFICES ASSUME NEW o \in Destroyer, NEW c \in before[o]
               PROVE  /\ sealed'[c] # None
                      /\ Signed(destroy[o], o) /\ Covers(o, c) => ~Recoverable(c)'
    OBVIOUS
  <2>1. c \in Sealer /\ sealed[c] # None
    BY <1>1 DEF ProofInv
  <2>2. sealed'[c] = sealed[c]
    BY <1>1, <2>1, SealStep DEF Kept
  <2>3. Signed(destroy[o], o) /\ Covers(o, c) => ~Recoverable(c)
    BY <1>1 DEF ProofInv
  <2> QED BY <1>1, <2>1, <2>2, <2>3, LostForGood
<1>3. ASSUME \A o \in Destroyer :
                /\ Found(before'[o])
                /\ Signed(destroy'[o], o) => True(before'[o], o)
      PROVE  ProofInv'
  BY <1>3 DEF ProofInv, Covers
<1> HIDE DEF Found, True
\* A destroyer goes on; nothing else changes but who is admitted.
<1>4. ASSUME NEW o \in Destroyer, NEW pc \in Steps, DestroyGoes(o, pc),
             destroy[o].pc # "proved",
             before' = before \/ \E b \in SUBSET Sealer : before' = [before EXCEPT ![o] = b] /\ Found(b),
             registry' = registry, admitted' \in SUBSET Subject, admitted \subseteq admitted',
             pc # "refused" /\ TargetOf[o].kind = "subject" => TargetOf[o].of \in admitted'
      PROVE  DestroyInv'
  <2>1. destroy' = [destroy EXCEPT ![o].pc = pc]
    BY <1>4 DEF DestroyGoes
  <2>2. destroy' \in [Destroyer -> DestroyState]
    BY <1>1, <2>1, <1>4 DEF DestroyState, Steps
  <2>3. /\ destroy'[o].pc = pc /\ \A p \in Destroyer : p # o => destroy'[p] = destroy[p]
        /\ ~Signed(destroy'[o], o)
    BY <1>1, <2>1, <1>4 DEF DestroyState, Steps
  <2>4. before' \in [Destroyer -> SUBSET Sealer]
    BY <1>1, <1>4
  <2>5. ProofInv'
    BY <1>1, <1>2, <1>3, <1>4, <2>3
  <2>6. AdmittedInv'
    BY <1>1, <1>4, <2>3 DEF AdmittedInv
  <2>7. RegistryInv'
    BY <1>1, <1>4, <2>3 DEF RegistryInv
  <2> QED BY <1>1, <1>4, <2>2, <2>4, <2>5, <2>6, <2>7 DEF DestroyInv
\* Nothing of all this changes but that proofs may go.
<1>5. ASSUME destroy' = destroy, before' = before, admitted' = admitted,
             registry' = registry \/ \E k \in Key : registry' = [registry EXCEPT ![k] = NoProof]
      PROVE  DestroyInv' /\ admitted \subseteq admitted'
  <2>1. \A k \in Key : registry'[k] # NoProof => registry'[k] = registry[k]
    BY <1>1, <1>5
  <2>2. registry' \in [Key -> Destroyer \cup {NoProof}]
    BY <1>1, <1>5
  <2>3. ProofInv'
    BY <1>2, <1>3, <1>5
  <2>4. AdmittedInv'
    BY <1>1, <1>5 DEF AdmittedInv
  <2>5. RegistryInv'
    BY <1>1, <1>5, <2>1 DEF RegistryInv
  <2> QED BY <1>1, <1>5, <2>2, <2>3, <2>4, <2>5 DEF DestroyInv
<1>6. CASE \E o \in Destroyer : RequestErasure(o)
  <2> PICK o \in Destroyer : RequestErasure(o)
    BY <1>6
  <2>1. /\ destroy[o].pc # "proved" /\ before' = before /\ registry' = registry
        /\ TargetOf[o].kind = "subject"
        /\ \/ DestroyGoes(o, "lookup") /\ admitted' = admitted \cup {TargetOf[o].of}
           \/ DestroyGoes(o, "refused") /\ admitted' = admitted
    BY DEF RequestErasure
  <2>2. TargetOf[o].of \in Subject
    BY <2>1, KeysOf
  <2>3. CASE DestroyGoes(o, "lookup") /\ admitted' = admitted \cup {TargetOf[o].of}
    BY <1>1, <1>4, <2>1, <2>2, <2>3 DEF Steps
  <2>4. CASE DestroyGoes(o, "refused") /\ admitted' = admitted
    BY <1>1, <1>4, <2>1, <2>2, <2>4 DEF Steps
  <2> QED BY <2>1, <2>3, <2>4
<1>7. CASE \E o \in Destroyer : ExpireBucket(o) \/ Retry(o) \/ Delete(o)
  <2> PICK o \in Destroyer : ExpireBucket(o) \/ Retry(o) \/ Delete(o)
    BY <1>7
  <2>1. /\ destroy[o].pc # "proved" /\ before' = before /\ registry' = registry
        /\ admitted' = admitted
        /\ destroy[o].pc \in {"idle", "refused"} => TargetOf[o].kind = "bucket"
        /\ \E pc \in {"lookup", "confirm", "failed"} : DestroyGoes(o, pc)
    BY DEF ExpireBucket, Retry, Delete
  <2>2. TargetOf[o].kind = "subject" => TargetOf[o].of \in admitted'
    BY <1>1, <2>1 DEF AdmittedInv
  <2> QED BY <1>1, <1>4, <2>1, <2>2 DEF Steps
<1>8. CASE \E o \in Destroyer : Lookup(o)
  <2> PICK o \in Destroyer : Lookup(o)
    BY <1>8
  <2> DEFINE k == TargetKey(o)
             b == {c \in Sealer : sealed[c] # None}
  <2>1. /\ destroy[o].pc = "lookup" /\ before' = [before EXCEPT ![o] = b]
        /\ sealed' = sealed /\ registry' = registry /\ admitted' = admitted /\ k \in Key
    BY KeysOf DEF Lookup
  <2>2. b \in SUBSET Sealer /\ Found(b)
    BY <2>1 DEF Found
  <2>3. TargetOf[o].kind = "subject" => TargetOf[o].of \in admitted'
    BY <1>1, <2>1 DEF AdmittedInv
  <2>4. CASE registry[k] = NoProof
    <3>1. DestroyGoes(o, "delete")
      BY <2>4 DEF Lookup
    <3> QED BY <1>1, <1>4, <2>1, <2>2, <2>3, <3>1 DEF Steps
  <2>5. CASE registry[k] # NoProof
    <3> DEFINE q == [pc |-> "proved", proof |-> registry[k]]
    <3>1. destroy' = [destroy EXCEPT ![o] = q]
      BY <2>5 DEF Lookup
    <3>2. registry[k] \in Destroyer /\ registry[k] # o
      BY <1>1, <2>1, <2>5 DEF RegistryInv
    <3>3. q \in DestroyState /\ ~Signed(q, o) /\ q.pc \notin {"idle", "refused"}
      BY <3>2 DEF DestroyState
    <3>4. destroy'[o] = q /\ \A p \in Destroyer : p # o => destroy'[p] = destroy[p]
      BY <1>1, <3>1
    <3> HIDE DEF q
    <3>5. destroy' \in [Destroyer -> DestroyState] /\ before' \in [Destroyer -> SUBSET Sealer]
      BY <1>1, <2>1, <2>2, <3>1, <3>3
    <3>6. ProofInv'
      BY <1>1, <1>2, <1>3, <2>1, <2>2, <3>3, <3>4
    <3>7. AdmittedInv'
      BY <1>1, <2>1, <2>3, <3>4 DEF AdmittedInv
    <3>8. RegistryInv'
      <4>1. \A j \in Key : registry[j] # o \/ registry[j] = NoProof
        BY <1>1, <2>1 DEF RegistryInv
      <4> QED BY <1>1, <2>1, <3>4, <4>1 DEF RegistryInv
    <3> QED BY <1>1, <2>1, <3>5, <3>6, <3>7, <3>8 DEF DestroyInv
  <2> QED BY <2>1, <2>4, <2>5
<1>9. CASE \E o \in Destroyer : Confirm(o)
  <2> PICK o \in Destroyer : Confirm(o)
    BY <1>9
  <2>1. /\ destroy[o].pc = "confirm" /\ before' = before /\ registry' = registry
        /\ sealed' = sealed /\ vault' = vault /\ admitted' = admitted
    BY DEF Confirm
  <2>2. TargetOf[o].kind = "subject" => TargetOf[o].of \in admitted'
    BY <1>1, <2>1 DEF AdmittedInv
  <2>3. CASE DestroyGoes(o, "failed")
    BY <1>1, <1>4, <2>1, <2>2, <2>3 DEF Steps
  <2>4. CASE ~vault[TargetKey(o)].live /\ DestroyGoes(o, "gone")
    <3>1. destroy' = [destroy EXCEPT ![o].pc = "gone"]
      BY <2>4 DEF DestroyGoes
    <3>2. destroy' \in [Destroyer -> DestroyState]
      BY <1>1, <3>1 DEF DestroyState
    <3>3. destroy'[o].pc = "gone" /\ \A p \in Destroyer : p # o => destroy'[p] = destroy[p]
      BY <1>1, <3>1 DEF DestroyState
    <3>4. True(before[o], o)
      <4> SUFFICES ASSUME NEW c \in before[o], Covers(o, c) PROVE ~Recoverable(c)'
        BY DEF True
      <4>1. c \in Sealer
        BY <1>1
      <4>2. TargetKey(o) \in {SubjectKey(SubjectOf[c]), BucketKey(BucketOf[c])}
        BY KeysOf DEF Covers
      <4> QED BY <2>1, <2>4, <4>1, <4>2 DEF Recoverable, SubjectOpens, BucketOpens, Opens
    <3>5. ProofInv'
      BY <1>1, <1>2, <1>3, <2>1, <3>3, <3>4
    <3>6. AdmittedInv'
      BY <1>1, <2>1, <2>2, <3>3 DEF AdmittedInv
    <3>7. RegistryInv'
      BY <1>1, <2>1, <3>3 DEF RegistryInv
    <3> QED BY <1>1, <2>1, <3>2, <3>5, <3>6, <3>7 DEF DestroyInv
  <2> QED BY <2>3, <2>4 DEF Confirm
<1>10. CASE \E o \in Destroyer : Prove(o)
  <2> PICK o \in Destroyer : Prove(o)
    BY <1>10
  <2> DEFINE k == TargetKey(o)
             q == [pc |-> "proved", proof |-> o]
  <2>1. /\ destroy[o].pc = "gone" /\ destroy' = [destroy EXCEPT ![o] = q]
        /\ before' = before /\ admitted' = admitted /\ k \in Key
        /\ registry' = registry \/ registry' = [registry EXCEPT ![k] = o]
    BY KeysOf DEF Prove, Recorded
  <2>2. q \in DestroyState /\ q.pc = "proved" /\ q.proof = o
    BY DEF DestroyState
  <2>3. destroy'[o] = q /\ \A p \in Destroyer : p # o => destroy'[p] = destroy[p]
    BY <1>1, <2>1
  <2> HIDE DEF q
  <2>4. /\ destroy' \in [Destroyer -> DestroyState]
        /\ registry' \in [Key -> Destroyer \cup {NoProof}]
    BY <1>1, <2>1, <2>2
  <2>5. ProofInv'
    BY <1>1, <1>2, <1>3, <2>1, <2>3
  <2>6. AdmittedInv'
    BY <1>1, <2>1, <2>3 DEF AdmittedInv
  <2>7. RegistryInv'
    <3>1. \A j \in Key : registry'[j] = registry[j] \/ registry'[j] = o
      BY <1>1, <2>1
    <3> QED BY <1>1, <2>2, <2>3, <3>1 DEF RegistryInv
  <2> QED BY <1>1, <2>1, <2>4, <2>5, <2>6, <2>7 DEF DestroyInv
<1>11. CASE \E k \in Key : DisposeProof(k)
  BY <1>5, <1>11 DEF DisposeProof
<1>12. CASE \E h \in Host : Crash(h)
  <2> PICK h \in Host : Crash(h)
    BY <1>12
  <2>1. /\ before' = before /\ registry' = registry /\ admitted' = admitted
        /\ destroy' = [o \in Destroyer |-> destroy'[o]]
        /\ \A o \in Destroyer :
              \/ destroy'[o] = destroy[o]
              \/ /\ destroy[o].pc \in {"lookup", "delete", "confirm", "gone"}
                 /\ destroy'[o] = [destroy[o] EXCEPT !.pc = "failed"]
    BY DEF Crash
  <2>2. \A o \in Destroyer :
           /\ destroy'[o] \in DestroyState
           /\ \/ destroy'[o] = destroy[o]
              \/ destroy[o].pc \notin {"idle", "refused", "proved"} /\ destroy'[o].pc = "failed"
    BY <1>1, <2>1 DEF DestroyState
  <2>3. destroy' \in [Destroyer -> DestroyState]
    BY <2>1, <2>2
  <2>4. ProofInv'
    BY <1>2, <1>3, <2>1, <2>2
  <2>5. AdmittedInv'
    BY <1>1, <2>1, <2>2 DEF AdmittedInv
  <2>6. RegistryInv'
    BY <1>1, <2>1, <2>2 DEF RegistryInv
  <2> QED BY <1>1, <2>1, <2>3, <2>4, <2>5, <2>6 DEF DestroyInv
<1>13. CASE UNCHANGED <<destroy, before, admitted, registry>>
  BY <1>5, <1>13
<1> QED BY <1>6, <1>7, <1>8, <1>9, <1>10, <1>11, <1>12, <1>13
        DEF Next, vars, SealBegin, Issue, Create, Config, Ensured, DataKey, DataKeyFails,
            UnsealBegin, UnwrapBucket, UnwrapSubject
-----------------------------------------------------------------------------
\* Only a destroyer ends a key, and one of a subject's key was admitted.
LEMMA FirstKeyStep == ASSUME IInv, [Next]_vars PROVE FirstKeyInv'
<1>1. /\ TypeOK /\ KeyInv /\ AdmittedInv /\ FirstKeyInv /\ vault \in [Key -> VaultKey]
      /\ admitted \subseteq admitted'
  BY DestroyStep DEF IInv, TypeOK
<1> SUFFICES ASSUME NEW s \in Subject, s \notin admitted'
             PROVE  /\ vault'[SubjectKey(s)].gen <= 1
                    /\ vault'[SubjectKey(s)].gen = 1 => vault'[SubjectKey(s)].live
  BY DEF FirstKeyInv
<1> DEFINE j == SubjectKey(s)
<1>2. j \in Key /\ vault[j].gen \in Nat /\ vault[j].gen <= 1 /\ (vault[j].gen = 1 => vault[j].live)
  BY <1>1, Names DEF FirstKeyInv, VaultKey
<1> HIDE DEF j
<1>3. CASE vault' = vault
  BY <1>2, <1>3 DEF j
<1>4. CASE \E k \in Key : /\ ~vault[k].live /\ vault[k].gen < MaxGen
                          /\ vault' = [vault EXCEPT ![k] = CreatedNew(k)]
  <2> PICK k \in Key : /\ ~vault[k].live /\ vault[k].gen < MaxGen
                       /\ vault' = [vault EXCEPT ![k] = CreatedNew(k)]
    BY <1>4
  <2>1. CASE k = j
    <3>1. vault[j].gen = 0
      BY <1>2, <2>1
    <3>2. vault'[j] = CreatedNew(j)
      BY <1>1, <1>2, <2>1
    <3> QED BY <3>1, <3>2 DEF CreatedNew, j
  <2>2. CASE k # j
    BY <1>1, <1>2, <2>2 DEF j
  <2> QED BY <2>1, <2>2
<1>5. CASE \E k \in Key : vault' = [vault EXCEPT ![k].deletable = TRUE]
  <2>1. vault'[j].gen = vault[j].gen /\ vault'[j].live = vault[j].live
    BY <1>1, <1>2, <1>5
  <2> QED BY <1>2, <2>1 DEF j
<1>6. CASE \E o \in Destroyer :
              /\ destroy[o].pc = "delete"
              /\ vault' = [vault EXCEPT ![TargetKey(o)].live = FALSE,
                                        ![TargetKey(o)].deletable = FALSE]
  <2> PICK o \in Destroyer :
              /\ destroy[o].pc = "delete"
              /\ vault' = [vault EXCEPT ![TargetKey(o)].live = FALSE,
                                        ![TargetKey(o)].deletable = FALSE]
    BY <1>6
  <2>1. TargetOf[o].kind = "subject" => TargetOf[o].of \in admitted'
    BY <1>1 DEF AdmittedInv
  <2>2. TargetKey(o) # j
    BY <2>1, KeysOf, Names DEF j
  <2>3. vault'[j] = vault[j]
    BY <1>1, <1>2, <2>2
  <2> QED BY <1>2, <2>3 DEF j
<1> QED BY <1>1, <1>3, <1>4, <1>5, <1>6, VaultStep

\* No subject's key is lost but to an admitted erasure.
LEMMA OnlyAdmitted == IInv => OnlyErasureErases
<1> SUFFICES ASSUME IInv, NEW c \in Sealer, sealed[c] # None, SubjectOf[c] \notin admitted
             PROVE  SubjectOpens(c)
  BY DEF OnlyErasureErases
<1>1. /\ sealed[c].subjectGen \in 1 .. MaxGen
      /\ sealed[c].subjectGen <= vault[SubjectKey(SubjectOf[c])].gen
      /\ SubjectOf[c] \in Subject
  BY KeysOf DEF IInv, TypeOK, SealInv, Content
<1>2. /\ vault[SubjectKey(SubjectOf[c])].gen \in Nat /\ vault[SubjectKey(SubjectOf[c])].gen <= 1
      /\ vault[SubjectKey(SubjectOf[c])].gen = 1 => vault[SubjectKey(SubjectOf[c])].live
  BY <1>1, Names DEF IInv, TypeOK, FirstKeyInv, VaultKey
<1>3. sealed[c].subjectGen = 1 /\ vault[SubjectKey(SubjectOf[c])].gen = 1
  BY <1>1, <1>2, CustodyAssumption
<1> QED BY <1>2, <1>3 DEF SubjectOpens, Opens

\* A reader is told what is so, and what it was told stays so.
LEMMA ReaderStep ==
    ASSUME IInv, [Next]_vars
    PROVE  read' \in [Reader -> ReadState] /\ ReaderInv' /\ UnsealIsTruthful'
<1>1. /\ TypeOK /\ KeyInv /\ SealInv /\ ReaderInv /\ UnsealIsTruthful
      /\ read \in [Reader -> ReadState] /\ admitted \subseteq admitted' /\ Kept
  BY DestroyStep, SealStep DEF IInv, TypeOK
<1> DEFINE Told(r, o) ==
             /\ r \in ReadState
             /\ r # "idle" => sealed'[ContentOf[o]] # None
             /\ r = "bucket-expired" => ~BucketOpens(ContentOf[o])'
             /\ r = "subject-erased" => /\ ~SubjectOpens(ContentOf[o])'
                                        /\ SubjectOf[ContentOf[o]] \in admitted'
<1>2. \A o \in Reader : Told(read[o], o)
  <2> SUFFICES ASSUME NEW o \in Reader PROVE Told(read[o], o)
    OBVIOUS
  <2> DEFINE c == ContentOf[o]
  <2>1. c \in Sealer /\ read[o] \in ReadState /\ (read[o] # "idle" => sealed[c] # None)
    BY <1>1, KeysOf DEF ReaderInv
  <2>2. sealed[c] # None => sealed'[c] = sealed[c]
    BY <1>1, <2>1 DEF Kept
  <2>3. sealed[c] # None => /\ ~SubjectOpens(c) => ~SubjectOpens(c)'
                            /\ ~BucketOpens(c) => ~BucketOpens(c)'
    BY <1>1, <2>1, LostForGood
  <2>4. /\ read[o] = "bucket-expired" => ~BucketOpens(c)
        /\ read[o] = "subject-erased" => ~SubjectOpens(c) /\ SubjectOf[c] \in admitted
    BY <1>1 DEF UnsealIsTruthful
  <2> QED BY <1>1, <2>1, <2>2, <2>3, <2>4
<1>3. ASSUME \A o \in Reader : Told(read'[o], o) PROVE ReaderInv' /\ UnsealIsTruthful'
  BY <1>3 DEF ReaderInv, UnsealIsTruthful
<1>4. CASE read' = read
  BY <1>1, <1>2, <1>3, <1>4
<1>5. CASE \E o \in Reader : UnsealBegin(o)
  <2> PICK o \in Reader : UnsealBegin(o)
    BY <1>5
  <2>1. /\ read' = [read EXCEPT ![o] = "bucket"] /\ sealed' = sealed /\ sealed[ContentOf[o]] # None
    BY DEF UnsealBegin
  <2>2. Told("bucket", o)
    BY <2>1 DEF ReadState
  <2> QED BY <1>1, <1>2, <1>3, <2>1, <2>2
<1>6. CASE \E o \in Reader : UnwrapBucket(o) \/ UnwrapSubject(o)
  <2> PICK o \in Reader : UnwrapBucket(o) \/ UnwrapSubject(o)
    BY <1>6
  <2> DEFINE c == ContentOf[o]
  <2>1. /\ read[o] # "idle" /\ sealed' = sealed /\ vault' = vault /\ admitted' = admitted
        /\ c \in Sealer
    BY KeysOf DEF UnwrapBucket, UnwrapSubject
  <2>2. sealed[c] # None
    BY <1>1, <2>1 DEF ReaderInv
  <2>3. PICK told : /\ read' = [read EXCEPT ![o] = told]
                    /\ told \in {"subject", "opened", "unreachable", "bucket-expired", "subject-erased"}
                    /\ told = "bucket-expired" => ~BucketOpens(c)
                    /\ told = "subject-erased" => ~SubjectOpens(c)
    BY DEF UnwrapBucket, UnwrapSubject, Unwrapped
  <2>4. told = "subject-erased" => SubjectOf[c] \in admitted
    BY <2>1, <2>2, <2>3, OnlyAdmitted DEF OnlyErasureErases
  <2>5. (BucketOpens(c)' <=> BucketOpens(c)) /\ (SubjectOpens(c)' <=> SubjectOpens(c))
    BY <2>1 DEF BucketOpens, SubjectOpens, Opens
  <2>6. Told(told, o)
    BY <2>1, <2>2, <2>3, <2>4, <2>5 DEF ReadState
  <2> QED BY <1>1, <1>2, <1>3, <2>3, <2>6
<1>7. CASE \E h \in Host : Crash(h)
  <2> PICK h \in Host : Crash(h)
    BY <1>7
  <2>1. read' = [o \in Reader |-> IF HostOf[o] = h /\ read[o] \in {"bucket", "subject"}
                                    THEN "idle" ELSE read[o]]
    BY DEF Crash
  <2>2. \A o \in Reader : Told(read'[o], o)
    <3> SUFFICES ASSUME NEW o \in Reader PROVE Told(read'[o], o)
      OBVIOUS
    <3>1. read'[o] = "idle" \/ read'[o] = read[o]
      BY <2>1
    <3> QED BY <1>2, <3>1 DEF ReadState
  <2> QED BY <1>3, <2>1, <2>2
<1> QED BY <1>4, <1>5, <1>6, <1>7
        DEF Next, vars, SealBegin, Issue, Create, Config, Ensured, DataKey, DataKeyFails,
            RequestErasure, ExpireBucket, Retry, Lookup, Delete, Confirm, Prove, DisposeProof
-----------------------------------------------------------------------------
\* What each process remembers of keys are keys.
LEMMA EnsuredStep == ASSUME IInv, [Next]_vars PROVE ensured' \in [Host -> SUBSET Key]
<1>1. ensured \in [Host -> SUBSET Key]
  BY DEF IInv, TypeOK
<1>2. CASE \E o \in Sealer : Ensured(o)
  BY <1>1, <1>2, KeysOf, CustodyAssumption DEF Ensured
<1>3. CASE \E o \in Destroyer : Prove(o)
  BY <1>1, <1>3 DEF Prove
<1>4. CASE \E h \in Host : Crash(h)
  BY <1>1, <1>4 DEF Crash
<1>5. CASE ensured' = ensured
  BY <1>1, <1>5
<1> QED BY <1>2, <1>3, <1>4, <1>5
        DEF Next, vars, SealBegin, Issue, Create, Config, DataKey, DataKeyFails,
            RequestErasure, ExpireBucket, Retry, Lookup, Delete, Confirm, DisposeProof,
            UnsealBegin, UnwrapBucket, UnwrapSubject

\* The initial state satisfies the invariant.
LEMMA InitInv == Init => IInv
<1> SUFFICES ASSUME Init PROVE IInv
  OBVIOUS
<1>1. TypeOK
  <2>1. [gen |-> 0, live |-> FALSE, deletable |-> FALSE] \in VaultKey
    BY CustodyAssumption DEF VaultKey
  <2>2. [pc |-> "idle", at |-> "subject", subjectGen |-> 0] \in SealState
    BY CustodyAssumption DEF SealState
  <2>3. [pc |-> "idle", proof |-> NoProof] \in DestroyState
    BY DEF DestroyState
  <2> QED BY <2>1, <2>2, <2>3 DEF Init, TypeOK, ReadState
<1>2. KeyInv /\ FirstKeyInv
  BY Names DEF Init, KeyInv, FirstKeyInv
<1>3. SealInv
  BY DEF Init, SealInv
<1>4. AdmittedInv /\ ProofInv /\ RegistryInv /\ ReaderInv /\ UnsealIsTruthful
  BY DEF Init, AdmittedInv, ProofInv, RegistryInv, ReaderInv, UnsealIsTruthful
<1> QED BY <1>1, <1>2, <1>3, <1>4 DEF IInv

\* Every step keeps the invariant.
LEMMA StepInv == IInv /\ [Next]_vars => IInv'
<1> SUFFICES ASSUME IInv, [Next]_vars PROVE IInv'
  OBVIOUS
<1>1. vault' \in [Key -> VaultKey] /\ KeyInv'
  BY KeysAge DEF IInv
<1>2. /\ seal' \in [Sealer -> SealState] /\ sealed' \in [Sealer -> Content \cup {None}]
      /\ SealInv'
  BY SealStep DEF IInv
<1>3. DestroyInv'
  BY DestroyStep
<1>4. ensured' \in [Host -> SUBSET Key]
  BY EnsuredStep
<1>5. read' \in [Reader -> ReadState] /\ ReaderInv' /\ UnsealIsTruthful'
  BY ReaderStep
<1>6. FirstKeyInv'
  BY FirstKeyStep
<1>7. TypeOK'
  BY <1>1, <1>2, <1>3, <1>4, <1>5 DEF TypeOK, DestroyInv
<1> QED BY <1>1, <1>2, <1>3, <1>5, <1>6, <1>7 DEF IInv, DestroyInv

\* The invariant holds in every reachable state.
LEMMA Invariance == Spec => []IInv
<1> QED BY InitInv, StepInv, PTL DEF Spec

\* Keys, operations and the registry keep their types (KeyCustody.tla).
THEOREM TypeCorrect == Spec => []TypeOK
<1>1. IInv => TypeOK
  BY DEF IInv
<1> QED BY <1>1, Invariance, PTL

\* A proof its erasure signed is true for good: what was sealed when it looked
\* can no longer be opened (envelope-subject-key-store.ts:136-153).
THEOREM ProofsAreTrue == Spec => []SignedProofIsTrue
<1>1. IInv => SignedProofIsTrue
  BY DEF IInv, ProofInv, SignedProofIsTrue
<1> QED BY <1>1, Invariance, PTL

\* A reader told of an expiry or an erasure cannot have the content, and the
\* erasure was admitted (vault-transit-key-custodian.ts:87).
THEOREM ReadersAreToldTheTruth == Spec => []UnsealIsTruthful
<1>1. IInv => UnsealIsTruthful
  BY DEF IInv
<1> QED BY <1>1, Invariance, PTL

\* No subject's key is destroyed without an admitted erasure (key-custodian.ts:28).
THEOREM ExpirySparesSubjects == Spec => []OnlyErasureErases
<1> QED BY OnlyAdmitted, Invariance, PTL

\* The registry keeps the first proof until it disposes of it (sqlite-deletion-registry.ts).
THEOREM FirstProof == Spec => FirstProofStands
<1> DEFINE Stands == \A k \in Key : registry[k] # NoProof => registry'[k] \in {registry[k], NoProof}
<1>1. IInv /\ [Next]_vars => [Stands]_vars
  <2> SUFFICES ASSUME IInv, [Next]_vars PROVE Stands
    OBVIOUS
  <2>1. registry \in [Key -> Destroyer \cup {NoProof}]
    BY DEF IInv, TypeOK
  <2>2. CASE \E o \in Destroyer : Prove(o)
    BY <2>1, <2>2 DEF Prove, Recorded
  <2>3. CASE \E k \in Key : DisposeProof(k)
    BY <2>1, <2>3 DEF DisposeProof
  <2>4. CASE registry' = registry
    BY <2>4
  <2> QED BY <2>2, <2>3, <2>4
          DEF Next, vars, SealBegin, Issue, Create, Config, Ensured, DataKey, DataKeyFails,
              RequestErasure, ExpireBucket, Retry, Lookup, Delete, Confirm,
              UnsealBegin, UnwrapBucket, UnwrapSubject, Crash
<1> HIDE DEF Stands
<1>2. Spec => [][Stands]_vars
  BY <1>1, Invariance, PTL DEF Spec
<1> QED BY <1>2 DEF Stands, FirstProofStands
=============================================================================
