----------------------------- MODULE KeyCustody -----------------------------
(***************************************************************************)
(* Envelope custody: content is sealed under a subject key and a bucket    *)
(* key that live in a Vault, and is destroyed by destroying either key.    *)
(* Sealers, destroyers and readers are asynchronous operations of platform *)
(* processes; each Vault call is one step, which may not reach Vault or    *)
(* may lose its answer.  Content is known by the sealer that wrote it, and *)
(* a wrapped data key by the generation of the key it was wrapped under.   *)
(* `before' and `admitted' are history variables.                          *)
(***************************************************************************)
EXTENDS Integers

CONSTANTS Subject, Bucket, Host,
          Sealer, Destroyer, Reader, HostOf,
          SubjectOf, BucketOf,  \* what each sealer seals for
          TargetOf,             \* what each destroyer is to destroy the key of
          ContentOf,            \* the sealer whose content each reader reads
          Requests,             \* the erasure requests that may arrive
          MaxGen,               \* bound: a key is created this often
          NoProof, None

\* The names: subjects and buckets share one Vault mount, hence the prefixes.
SubjectKey(s) == <<"subject", s>>

\* Fault: a bucket is named like a subject.
BucketKeyUnprefixed(b) == <<"subject", b>>

BucketKey(b) == <<"bucket", b>>

Key == {SubjectKey(s) : s \in Subject} \cup {BucketKey(b) : b \in Bucket}

\* One key name in Vault: gen counts its creations.
VaultKey == [gen : 0..MaxGen, live : BOOLEAN, deletable : BOOLEAN]

\* Content is known by the generations of the keys it is wrapped under.
Content == [subjectGen : 1..MaxGen, bucketGen : 1..MaxGen]

Target == [kind : {"subject"}, of : Subject] \cup [kind : {"bucket"}, of : Bucket]

ErasureRequest == [identity : {"resolved", "ambiguous", "unresolved"},
                   held : BOOLEAN,     \* under a legal hold
                   mapped : BOOLEAN]   \* every location of the data map is covered

ASSUME CustodyAssumption ==
    /\ HostOf \in [Sealer \cup Destroyer \cup Reader -> Host]
    /\ SubjectOf \in [Sealer -> Subject] /\ BucketOf \in [Sealer -> Bucket]
    /\ TargetOf \in [Destroyer -> Target]
    /\ ContentOf \in [Reader -> Sealer]
    /\ Requests \subseteq ErasureRequest
    /\ MaxGen \in Nat
    /\ NoProof \notin Destroyer /\ None \notin Content

VARIABLES vault,     \* Vault's keys
          ensured,   \* #ensured of each process
          registry,  \* the deletion registry: whose proof it holds of a key
          seal,      \* the sealing operations
          sealed,    \* the content each has written
          destroy,   \* the destroying operations, and the proof each returned
          before,    \* history: the content there was when each looked up a proof
          admitted,  \* history: the subjects whose erasure was admitted
          read       \* where each reader is, or what it was told

vars == <<vault, ensured, registry, seal, sealed, destroy, before, admitted, read>>

SealState ==
    [pc : {"idle", "issue", "create", "config", "configured", "datakey", "done", "failed"},
     at : {"subject", "bucket"},
     subjectGen : 0..MaxGen]

DestroyState ==
    [pc : {"idle", "lookup", "delete", "confirm", "gone", "proved", "failed", "refused"},
     proof : Destroyer \cup {NoProof}]

ReadState == {"idle", "bucket", "subject",
              "opened", "bucket-expired", "subject-erased", "unreachable"}

Init ==
    /\ vault = [k \in Key |-> [gen |-> 0, live |-> FALSE, deletable |-> FALSE]]
    /\ ensured = [h \in Host |-> {}]
    /\ registry = [k \in Key |-> NoProof]
    /\ seal = [o \in Sealer |-> [pc |-> "idle", at |-> "subject", subjectGen |-> 0]]
    /\ sealed = [o \in Sealer |-> None]
    /\ destroy = [o \in Destroyer |-> [pc |-> "idle", proof |-> NoProof]]
    /\ before = [o \in Destroyer |-> {}]
    /\ admitted = {}
    /\ read = [o \in Reader |-> "idle"]

\* A wrapped data key is opened by the generation that wrapped it, while it lives.
Opens(k, gen) == vault[k].live /\ vault[k].gen = gen

SubjectOpens(o) == Opens(SubjectKey(SubjectOf[o]), sealed[o].subjectGen)
BucketOpens(o) == Opens(BucketKey(BucketOf[o]), sealed[o].bucketGen)

Recoverable(o) == sealed[o] # None /\ SubjectOpens(o) /\ BucketOpens(o)
-----------------------------------------------------------------------------
SealKey(o) == IF seal[o].at = "subject" THEN SubjectKey(SubjectOf[o])
                                        ELSE BucketKey(BucketOf[o])

SealGoes(o, pc) == seal' = [seal EXCEPT ![o].pc = pc]

\* seal, which a caller may try again when it failed.
SealBegin(o) ==
    /\ seal[o].pc \in {"idle", "failed"}
    /\ seal' = [seal EXCEPT ![o] = [pc |-> "issue", at |-> "subject", subjectGen |-> 0]]
    /\ UNCHANGED <<vault, ensured, registry, sealed, destroy, before, admitted, read>>

\* issueDataKey: #ensureKey asks Vault only for names this process has not seen.
Issue(o) ==
    /\ seal[o].pc = "issue"
    /\ SealGoes(o, IF SealKey(o) \in ensured[HostOf[o]] THEN "datakey" ELSE "create")
    /\ UNCHANGED <<vault, ensured, registry, sealed, destroy, before, admitted, read>>

\* POST keys/name: creating a key that exists changes nothing.
Created(k) ==
    IF vault[k].live
      THEN vault
      ELSE [vault EXCEPT ![k] = [gen |-> vault[k].gen + 1, live |-> TRUE, deletable |-> FALSE]]

Create(o) ==
    /\ seal[o].pc = "create"
    /\ vault[SealKey(o)].live \/ vault[SealKey(o)].gen < MaxGen
    /\ \/ vault' = Created(SealKey(o)) /\ SealGoes(o, "config")
       \/ vault' \in {vault, Created(SealKey(o))} /\ SealGoes(o, "failed")
    /\ UNCHANGED <<ensured, registry, sealed, destroy, before, admitted, read>>

\* POST keys/name/config, which Vault refuses for a key that is gone.
Config(o) ==
    /\ seal[o].pc = "config"
    /\ LET allowed == IF vault[SealKey(o)].live
                         THEN [vault EXCEPT ![SealKey(o)].deletable = TRUE]
                         ELSE vault
       IN \/ vault[SealKey(o)].live /\ vault' = allowed /\ SealGoes(o, "configured")
          \/ vault' \in {vault, allowed} /\ SealGoes(o, "failed")
    /\ UNCHANGED <<ensured, registry, sealed, destroy, before, admitted, read>>

\* Both answers are in: remembered only now.
Ensured(o) ==
    /\ seal[o].pc = "configured"
    /\ ensured' = [ensured EXCEPT ![HostOf[o]] = @ \cup {SealKey(o)}]
    /\ SealGoes(o, "datakey")
    /\ UNCHANGED <<vault, registry, sealed, destroy, before, admitted, read>>

\* POST datakey: first under the subject key, then under the bucket key, and with
\* the second the content is sealed.
DataKey(o) ==
    /\ seal[o].pc = "datakey"
    /\ vault[SealKey(o)].live
    /\ IF seal[o].at = "subject"
         THEN /\ seal' = [seal EXCEPT ![o] = [pc |-> "issue", at |-> "bucket",
                                              subjectGen |-> vault[SealKey(o)].gen]]
              /\ UNCHANGED sealed
         ELSE /\ sealed' = [sealed EXCEPT ![o] = [subjectGen |-> seal[o].subjectGen,
                                                  bucketGen |-> vault[SealKey(o)].gen]]
              /\ SealGoes(o, "done")
    /\ UNCHANGED <<vault, ensured, registry, destroy, before, admitted, read>>

\* No answer, or a key that is gone; #ensured is left as it is.
DataKeyFails(o) ==
    /\ seal[o].pc = "datakey"
    /\ SealGoes(o, "failed")
    /\ UNCHANGED <<vault, ensured, registry, sealed, destroy, before, admitted, read>>
-----------------------------------------------------------------------------
TargetKey(o) == IF TargetOf[o].kind = "subject" THEN SubjectKey(TargetOf[o].of)
                                                ELSE BucketKey(TargetOf[o].of)

DestroyGoes(o, pc) == destroy' = [destroy EXCEPT ![o].pc = pc]

\* runErasure up to step 5, in its order; the retention schedule's expireBucket
\* has no such steps.
Admits(request) ==
    request.identity = "resolved" /\ ~request.held /\ request.mapped

RequestErasure(o) ==
    /\ destroy[o].pc = "idle"
    /\ TargetOf[o].kind = "subject"
    /\ \E request \in Requests :
          IF Admits(request)
            THEN /\ DestroyGoes(o, "lookup")
                 /\ admitted' = admitted \cup {TargetOf[o].of}
            ELSE DestroyGoes(o, "refused") /\ UNCHANGED admitted
    /\ UNCHANGED <<vault, ensured, registry, seal, sealed, before, read>>

ExpireBucket(o) ==
    /\ destroy[o].pc = "idle"
    /\ TargetOf[o].kind = "bucket"
    /\ DestroyGoes(o, "lookup")
    /\ UNCHANGED <<vault, ensured, registry, seal, sealed, before, admitted, read>>

\* A failure is infrastructure, which the durable workflow retries.
Retry(o) ==
    /\ destroy[o].pc = "failed"
    /\ DestroyGoes(o, "lookup")
    /\ UNCHANGED <<vault, ensured, registry, seal, sealed, before, admitted, read>>

\* #destroy: a recorded proof is the answer, and nothing is destroyed.
Lookup(o) ==
    /\ destroy[o].pc = "lookup"
    /\ before' = [before EXCEPT ![o] = {c \in Sealer : sealed[c] # None}]
    /\ IF registry[TargetKey(o)] # NoProof
         THEN destroy' = [destroy EXCEPT ![o] = [pc |-> "proved",
                                                proof |-> registry[TargetKey(o)]]]
         ELSE DestroyGoes(o, "delete")
    /\ UNCHANGED <<vault, ensured, registry, seal, sealed, admitted, read>>

\* DELETE keys/name.  Vault refuses unless deletion is allowed; whatever happened,
\* the answer may be lost, and a standby or a proxy may say yes regardless.
Delete(o) ==
    /\ destroy[o].pc = "delete"
    /\ \/ UNCHANGED vault
       \/ /\ vault[TargetKey(o)].live /\ vault[TargetKey(o)].deletable
          /\ vault' = [vault EXCEPT ![TargetKey(o)].live = FALSE,
                                    ![TargetKey(o)].deletable = FALSE]
    /\ DestroyGoes(o, "confirm") \/ DestroyGoes(o, "failed")
    /\ UNCHANGED <<ensured, registry, seal, sealed, before, admitted, read>>

\* Fault: the answer to DELETE is believed.
ConfirmUnasked(o) ==
    /\ destroy[o].pc = "confirm"
    /\ DestroyGoes(o, "gone")
    /\ UNCHANGED <<vault, ensured, registry, seal, sealed, before, admitted, read>>

\* GET keys/name must answer 404.
Confirm(o) ==
    /\ destroy[o].pc = "confirm"
    /\ \/ ~vault[TargetKey(o)].live /\ DestroyGoes(o, "gone")
       \/ DestroyGoes(o, "failed")
    /\ UNCHANGED <<vault, ensured, registry, seal, sealed, before, admitted, read>>

\* Fault: INSERT OR REPLACE.
RecordedLast(k, proof) == [registry EXCEPT ![k] = proof]

\* INSERT OR IGNORE
Recorded(k, proof) ==
    IF registry[k] = NoProof THEN [registry EXCEPT ![k] = proof] ELSE registry

\* The 404 arrives: the name is forgotten, the proof minted, recorded, returned.
Prove(o) ==
    /\ destroy[o].pc = "gone"
    /\ ensured' = [ensured EXCEPT ![HostOf[o]] = @ \ {TargetKey(o)}]
    /\ registry' = Recorded(TargetKey(o), o)
    /\ destroy' = [destroy EXCEPT ![o] = [pc |-> "proved", proof |-> o]]
    /\ UNCHANGED <<vault, seal, sealed, before, admitted, read>>

\* The registry drops a proof after its two years, when nobody is at that key.
DisposeProof(k) ==
    /\ registry[k] # NoProof
    /\ \A o \in Destroyer :
          TargetKey(o) = k => destroy[o].pc \notin {"lookup", "delete", "confirm", "gone"}
    /\ registry' = [registry EXCEPT ![k] = NoProof]
    /\ UNCHANGED <<vault, ensured, seal, sealed, destroy, before, admitted, read>>
-----------------------------------------------------------------------------
\* unseal: the bucket key is asked for first, so that a retention period that has
\* run is not reported as an erasure.
UnsealBegin(o) ==
    /\ read[o] = "idle"
    /\ sealed[ContentOf[o]] # None
    /\ read' = [read EXCEPT ![o] = "bucket"]
    /\ UNCHANGED <<vault, ensured, registry, seal, sealed, destroy, before, admitted>>

\* Fault: every failure is a destroyed key.
UnwrappedOrGone(opens, next, gone) == IF opens THEN {next, gone} ELSE {gone}

\* What a reader makes of one decrypt call: only Vault's own "cannot open this"
\* is a destroyed key.
Unwrapped(opens, next, gone) == IF opens THEN {next, "unreachable"} ELSE {gone, "unreachable"}

UnwrapBucket(o) ==
    /\ read[o] = "bucket"
    /\ \E told \in Unwrapped(BucketOpens(ContentOf[o]), "subject", "bucket-expired") :
          read' = [read EXCEPT ![o] = told]
    /\ UNCHANGED <<vault, ensured, registry, seal, sealed, destroy, before, admitted>>

UnwrapSubject(o) ==
    /\ read[o] = "subject"
    /\ \E told \in Unwrapped(SubjectOpens(ContentOf[o]), "opened", "subject-erased") :
          read' = [read EXCEPT ![o] = told]
    /\ UNCHANGED <<vault, ensured, registry, seal, sealed, destroy, before, admitted>>

\* A process dies with its cache and everything it was doing.
Crash(h) ==
    /\ ensured' = [ensured EXCEPT ![h] = {}]
    /\ seal' = [o \in Sealer |->
          IF HostOf[o] = h /\ seal[o].pc \notin {"idle", "done"}
            THEN [seal[o] EXCEPT !.pc = "failed"]
            ELSE seal[o]]
    /\ destroy' = [o \in Destroyer |->
          IF HostOf[o] = h /\ destroy[o].pc \in {"lookup", "delete", "confirm", "gone"}
            THEN [destroy[o] EXCEPT !.pc = "failed"]
            ELSE destroy[o]]
    /\ read' = [o \in Reader |->
          IF HostOf[o] = h /\ read[o] \in {"bucket", "subject"} THEN "idle" ELSE read[o]]
    /\ UNCHANGED <<vault, registry, sealed, before, admitted>>

Next ==
    \/ \E o \in Sealer :
          \/ SealBegin(o) \/ Issue(o) \/ Create(o) \/ Config(o) \/ Ensured(o)
          \/ DataKey(o) \/ DataKeyFails(o)
    \/ \E o \in Destroyer :
          \/ RequestErasure(o) \/ ExpireBucket(o) \/ Retry(o)
          \/ Lookup(o) \/ Delete(o) \/ Confirm(o) \/ Prove(o)
    \/ \E k \in Key : DisposeProof(k)
    \/ \E o \in Reader : UnsealBegin(o) \/ UnwrapBucket(o) \/ UnwrapSubject(o)
    \/ \E h \in Host : Crash(h)

Spec == Init /\ [][Next]_vars
-----------------------------------------------------------------------------
\* Types, and nothing more.
TypeOK ==
    /\ vault \in [Key -> VaultKey]
    /\ ensured \in [Host -> SUBSET Key]
    /\ registry \in [Key -> Destroyer \cup {NoProof}]
    /\ seal \in [Sealer -> SealState]
    /\ sealed \in [Sealer -> Content \cup {None}]
    /\ destroy \in [Destroyer -> DestroyState]
    /\ before \in [Destroyer -> SUBSET Sealer]
    /\ admitted \in SUBSET Subject
    /\ read \in [Reader -> ReadState]

\* The content a destruction of this target is about.
Covers(o, c) == IF TargetOf[o].kind = "subject" THEN SubjectOf[c] = TargetOf[o].of
                                                ELSE BucketOf[c] = TargetOf[o].of

\* A proof a destroyer signed itself is true: nothing sealed under the key before
\* it began can be read again, whatever Vault, the network or a crash did.
SignedProofIsTrue ==
    \A o \in Destroyer :
        destroy[o].pc = "proved" /\ destroy[o].proof = o =>
            \A c \in before[o] : Covers(o, c) => ~Recoverable(c)

\* Nobody is reported erased, and no content expired, that still could be opened;
\* and no one is erased by anything but an admitted erasure.
UnsealIsTruthful ==
    \A o \in Reader :
        /\ read[o] = "bucket-expired" => ~BucketOpens(ContentOf[o])
        /\ read[o] = "subject-erased" =>
              ~SubjectOpens(ContentOf[o]) /\ SubjectOf[ContentOf[o]] \in admitted

\* The retention schedule runs unattended; it never destroys a subject's key.
OnlyErasureErases ==
    \A c \in Sealer :
        sealed[c] # None /\ ~SubjectOpens(c) => SubjectOf[c] \in admitted

\* The first proof of a destruction is the one that is kept.
FirstProofStands ==
    [][\A k \in Key : registry[k] # NoProof => registry'[k] \in {registry[k], NoProof}]_vars
=============================================================================
