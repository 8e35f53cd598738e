-------------------------- MODULE PanelStorageProofs --------------------------
(* Proofs about PanelStorage, for any installation and uploads, any bounds,  *)
(* and any number of crashes and failures: a restore is all or nothing, and, *)
(* in the second half, certificate and key are a pair at every start.        *)
EXTENDS PanelStorage, SequenceTheorems, TLAPS

-----------------------------------------------------------------------------
(* Disks. d is what is on the disk, s what the last serving panel left on it.*)

IsDisk(d) == d = [p \in Path |-> d[p]]
Marked(d) == d[<<"live", "applied">>] # {}
Cleared(d) == \A p \in In("pending") : d[p] = {}

\* A database whose secrets this server can read.
Good(x) ==
  /\ DOMAIN x = {"id", "tls", "headers", "acme"}
  /\ x.tls \in BOOLEAN /\ x.headers = Here /\ x.acme \in {NoToken, Here}

\* The database x is that of the file, or that with TLS given up.
SameAs(x, file) ==
  /\ Good(x)
  /\ \E y : file = {y} /\ Good(y) /\ x.id = y.id /\ x.acme = y.acme /\ (x.tls => y.tls)

\* What is staged, and what is left of it.
PendingShape(d) ==
  \/ Cleared(d)
  \/ /\ \E b \in BOOLEAN : d[<<"pending", "restore.json">>] = {b}
     /\ d[<<"pending", "db">>] # {} => \E y : d[<<"pending", "db">>] = {y} /\ Good(y)
PendingKept(d, s) ==
  \/ Cleared(d)
  \/ \A p \in In("pending") : d[p] = s[p] \/ (p = <<"pending", "db">> /\ d[p] = {})

ServedShape(s) ==
  /\ IsDisk(s) /\ PendingShape(s)
  /\ \E y : Good(y) /\ s[<<"live", "db">>] = {y} /\ s[<<"live", "wal">>] \subseteq {y.id}

\* old is the installation of before the restore, as it was served but for a
\* TLS setting given up and a log written since.
OldOK(s, old) ==
  /\ SameAs(old.db, s[<<"live", "db">>])
  /\ s[<<"live", "wal">>] \subseteq old.wal /\ old.wal \subseteq {old.db.id}
  /\ old.cert = s[<<"live", "cert">>] /\ old.key = s[<<"live", "key">>]

\* It is in place.
LiveIs(d, old) ==
  /\ d[<<"live", "db">>] = {old.db} /\ d[<<"live", "wal">>] = old.wal
  /\ d[<<"live", "cert">>] = old.cert /\ d[<<"live", "key">>] = old.key
DiskOld(d, s) == ~Marked(d) /\ \E old : OldOK(s, old) /\ LiveIs(d, old)

\* It is in the rollback directory. The TLS files are there if the restore
\* covers them, and where they were otherwise.
TLSIn(b, dir) == IF b THEN dir ELSE "live"
Stored(d, s, old) ==
  /\ d[<<"rollback", "db">>] = {old.db} /\ d[<<"rollback", "wal">>] = old.wal
  /\ \E b \in BOOLEAN :
       /\ s[<<"pending", "restore.json">>] = {b} /\ d[<<"rollback", "restore.json">>] = {b}
       /\ d[<<TLSIn(b, "rollback"), "cert">>] = old.cert
       /\ d[<<TLSIn(b, "rollback"), "key">>] = old.key
DiskStored(d, s) == \E old : OldOK(s, old) /\ Stored(d, s, old)

\* The staged installation is in place.
New(d, s) ==
  /\ \E b \in BOOLEAN :
       /\ s[<<"pending", "restore.json">>] = {b}
       /\ d[<<"live", "cert">>] = s[<<TLSIn(b, "pending"), "cert">>]
       /\ d[<<"live", "key">>] = s[<<TLSIn(b, "pending"), "key">>]
  /\ \E x : d[<<"live", "db">>] = {x} /\ SameAs(x, s[<<"pending", "db">>])
  /\ Cleared(d)
Opened(d) == \E x : Good(x) /\ d[<<"live", "db">>] = {x} /\ d[<<"live", "wal">>] = {x.id}
Paired(d) ==
  \A x \in d[<<"live", "db">>] :
    x.tls => d[<<"live", "cert">>] # {} /\ d[<<"live", "cert">>] = d[<<"live", "key">>]

Settled(d, s) == ~Marked(d) /\ (DiskOld(d, s) \/ (New(d, s) /\ Opened(d) /\ Paired(d)))
Replaced(d, s) == Marked(d) /\ DiskStored(d, s) /\ New(d, s)

-----------------------------------------------------------------------------
(* Steps left to do.                                                         *)

IsSeq(todo) == \E W : todo \in Seq(W)
Touched(todo, p) == \E k \in DOMAIN todo : p \in DOMAIN todo[k].change

\* What the file will be when the steps are done.
Leaves(d, todo, p, v) ==
  \/ d[p] = v /\ ~Touched(todo, p)
  \/ \E k \in DOMAIN todo :
       /\ p \in DOMAIN todo[k].change /\ todo[k].change[p] = v
       /\ \A m \in DOMAIN todo : m > k => p \notin DOMAIN todo[m].change

\* A rollback: the files of the old installation first, then both directories.
RollingStep(step) ==
  /\ step.part = "rollingBack" /\ step.can
  /\ \A p \in In("pending") : p \notin DOMAIN step.change
CleaningStep(at, step) ==
  /\ step.part = "cleaning" /\ step.can
  /\ step.change = Removed(In("rollback")) \/ step.change = Removed(In("pending"))
  /\ at = "undoing" => ~step.must
RollingSteps(at, todo) ==
  /\ IsSeq(todo)
  /\ \A k \in DOMAIN todo : RollingStep(todo[k]) \/ CleaningStep(at, todo[k])
  /\ \A k, m \in DOMAIN todo : k < m /\ RollingStep(todo[m]) => RollingStep(todo[k])
LeavesOld(d, todo, old) ==
  /\ Leaves(d, todo, <<"live", "db">>, {old.db}) /\ Leaves(d, todo, <<"live", "wal">>, old.wal)
  /\ Leaves(d, todo, <<"live", "cert">>, old.cert) /\ Leaves(d, todo, <<"live", "key">>, old.key)
Rolling(at, d, s, todo) ==
  /\ RollingSteps(at, todo)
  /\ Leaves(d, todo, <<"live", "applied">>, {})
  /\ \E old : OldOK(s, old) /\ LeavesOld(d, todo, old)

\* A restore: the copies first, then the marker, then what is staged.
CopyingStep(step) ==
  /\ step.part \in {"copying", "copyingTLS"} /\ step.can /\ step.must
  /\ \A p \in DOMAIN step.change : p \in In("rollback")
IsMark(step) == step.change = Only(<<"live", "applied">>, {TRUE})
ReplacingStep(b, step) ==
  /\ step.part = "replacing" /\ step.must
  /\ \A p \in DOMAIN step.change : p \notin In("rollback") /\ (p \in In("pending") => step.change[p] = {})
  /\ <<"live", "applied">> \in DOMAIN step.change => IsMark(step)
  /\ ~b => <<"live", "cert">> \notin DOMAIN step.change /\ <<"live", "key">> \notin DOMAIN step.change
  /\ \/ \A p \in In("pending") : p \in DOMAIN step.change
     \/ \A p \in In("pending") : p \in DOMAIN step.change => p = <<"pending", "db">>
ApplyingSteps(b, todo) ==
  /\ IsSeq(todo)
  /\ \A k \in DOMAIN todo : CopyingStep(todo[k]) \/ ReplacingStep(b, todo[k])
  /\ \A k, m \in DOMAIN todo : k < m /\ CopyingStep(todo[m]) => CopyingStep(todo[k])
MarksFirst(marked, b, todo) ==
  \A k \in DOMAIN todo :
    IF marked THEN ReplacingStep(b, todo[k])
    ELSE CopyingStep(todo[k]) \/ \E m \in DOMAIN todo : m <= k /\ IsMark(todo[m])
BacksUp(b, d, old, todo) ==
  /\ Leaves(d, todo, <<"rollback", "db">>, {old.db}) /\ Leaves(d, todo, <<"rollback", "wal">>, old.wal)
  /\ Leaves(d, todo, <<"rollback", "restore.json">>, {b})
  /\ IF b THEN /\ Leaves(d, todo, <<"rollback", "cert">>, old.cert)
               /\ Leaves(d, todo, <<"rollback", "key">>, old.key)
          ELSE d[<<"live", "cert">>] = old.cert /\ d[<<"live", "key">>] = old.key
Replaces(b, d, s, todo) ==
  /\ \E y : Good(y) /\ s[<<"pending", "db">>] = {y} /\ Leaves(d, todo, <<"live", "db">>, {y})
  /\ Leaves(d, todo, <<"live", "cert">>, s[<<TLSIn(b, "pending"), "cert">>])
  /\ Leaves(d, todo, <<"live", "key">>, s[<<TLSIn(b, "pending"), "key">>])
  /\ Leaves(d, todo, <<"live", "applied">>, {TRUE})
  /\ \A p \in In("pending") : Leaves(d, todo, p, {})
Applying(d, s, todo) ==
  \E b \in BOOLEAN :
    /\ s[<<"pending", "restore.json">>] = {b}
    /\ ApplyingSteps(b, todo)
    /\ MarksFirst(Marked(d), b, todo)
    /\ \E old : OldOK(s, old) /\ BacksUp(b, d, old, todo) /\ (~Marked(d) => LiveIs(d, old))
    /\ (\A k \in DOMAIN todo : todo[k].can) => Replaces(b, d, s, todo)

\* The end of a restore: the marker first.
FinalizingStep(step) ==
  /\ step.must /\ step.can
  /\ step.change = Only(<<"live", "applied">>, {}) \/ step.change = Removed(In("rollback"))
Finalizing(d, todo) ==
  /\ IsSeq(todo)
  /\ \A k \in DOMAIN todo : FinalizingStep(todo[k])
  /\ Leaves(d, todo, <<"live", "applied">>, {})
  /\ Marked(d) => todo # <<>> /\ Head(todo).change = Only(<<"live", "applied">>, {})

-----------------------------------------------------------------------------
(* The inductive invariant: what is on the disk wherever main may be.        *)

Resting == {"down", "opening", "reopening", "checking", "listening", "serving"}
Working == {"recovering", "undoing", "reverting", "applying", "finalizing"}

ByPlace(at, todo, r, d, s) ==
  /\ at = "down" => Settled(d, s) \/ (Marked(d) /\ DiskStored(d, s))
  /\ at \in {"recovering", "undoing", "reverting"} => Rolling(at, d, s, todo)
  /\ at = "applying" => Applying(d, s, todo)
  /\ at = "opening" => IF r THEN Replaced(d, s) ELSE Settled(d, s)
  /\ at = "reopening" => DiskOld(d, s)
  /\ at \in {"checking", "listening", "finalizing", "serving"} => Opened(d)
  /\ at = "checking" => Settled(d, s) \/ (r /\ Replaced(d, s))
  /\ at = "listening" => Settled(d, s) \/ (r /\ Replaced(d, s) /\ Paired(d))
  /\ at = "finalizing" => Finalizing(d, todo) /\ (Settled(d, s) \/ (Replaced(d, s) /\ Paired(d)))
  /\ at = "serving" => ~Marked(d) /\ PendingShape(d)
InPlace(at, todo, r, d, s) ==
  /\ IsDisk(d) /\ ServedShape(s)
  /\ at \in Resting \union Working /\ (at \in Resting => todo = <<>>)
  /\ r \in BOOLEAN
  /\ r => at \in {"opening", "checking", "listening", "finalizing", "reverting", "reopening"}
  /\ at # "serving" => PendingKept(d, s)
  /\ ByPlace(at, todo, r, d, s)


-----------------------------------------------------------------------------
(* The serving panel.                                                        *)

\* A backup whose secrets can be read with the keys that came with it.
GoodArchive(a) ==
  /\ DOMAIN a = {"db", "tls", "cert", "key", "enabled"} /\ a.tls \in BOOLEAN
  /\ DOMAIN a.db = {"id", "tls", "headers", "acme"}
  /\ a.db.tls \in BOOLEAN /\ a.db.acme \in {NoToken, a.db.headers}

\* Installing and restoring write TLS files and nothing else.
TLSStep(step) ==
  \A p \in DOMAIN step.change : p \in {<<"live", "cert">>, <<"live", "key">>, <<"live", "enabled">>}
TLSSteps(todo) == IsSeq(todo) /\ \A k \in DOMAIN todo : TLSStep(todo[k])
IssuerOK(x) ==
  \/ x.at \notin {"installing", "restoring"}
  \/ \E c, k, t : x = [at |-> "installing", certificate |-> c, kept |-> k, todo |-> t] /\ TLSSteps(t)
  \/ \E t : x = [at |-> "restoring", todo |-> t] /\ TLSSteps(t)
ExporterOK(x) ==
  \/ x = NotExporting
  \/ \E n, a : x = [at |-> n, archive |-> a] /\ n \in 1..3 /\ GoodArchive(a)
HandlersOK ==
  /\ \A a \in archives : GoodArchive(a)
  /\ ExporterOK(exporter)
  /\ issuer = [i \in Issuer |-> issuer[i]] /\ \A i \in Issuer : IssuerOK(issuer[i])

ServingOK(d) == IsDisk(d) /\ ~Marked(d) /\ PendingShape(d) /\ Opened(d)
-----------------------------------------------------------------------------
(* Sequences of steps.                                                       *)

\* What is left after the first step.
LEMMA Rest ==
  ASSUME NEW todo, IsSeq(todo), todo # <<>>
  PROVE  /\ IsSeq(Tail(todo))
         /\ Head(todo) = todo[1] /\ 1 \in DOMAIN todo
         /\ \A k \in DOMAIN Tail(todo) : k \in Nat /\ k > 0 /\ k + 1 \in DOMAIN todo /\ Tail(todo)[k] = todo[k + 1]
         /\ \A k \in DOMAIN todo : k \in Nat /\ k > 0 /\ (k > 1 => k - 1 \in DOMAIN Tail(todo))
<1>1. PICK W : todo \in Seq(W) BY DEF IsSeq
<1>2. Tail(todo) \in Seq(W) BY <1>1
<1>3. /\ Len(todo) \in Nat /\ Len(todo) > 0 /\ DOMAIN todo = 1..Len(todo)
      /\ Len(Tail(todo)) = Len(todo) - 1 /\ DOMAIN Tail(todo) = 1..Len(Tail(todo))
  BY <1>1, <1>2
<1>4. \A k \in DOMAIN Tail(todo) : Tail(todo)[k] = todo[k + 1] BY <1>1, <1>3
<1>5. Head(todo) = todo[1] BY <1>1
<1> QED BY <1>2, <1>3, <1>4, <1>5 DEF IsSeq

\* The first step done, or one dropped that does not concern the file.
LEMMA LeavesStep ==
  ASSUME NEW d, NEW e, NEW todo, IsSeq(todo), todo # <<>>, NEW p, NEW v,
         e[p] = IF p \in DOMAIN Head(todo).change THEN Head(todo).change[p] ELSE d[p],
         Leaves(d, todo, p, v)
  PROVE  Leaves(e, Tail(todo), p, v)
<1> DEFINE rest == Tail(todo)
<1>1. /\ Head(todo) = todo[1] /\ 1 \in DOMAIN todo
      /\ \A k \in DOMAIN rest : k \in Nat /\ k > 0 /\ k + 1 \in DOMAIN todo /\ rest[k] = todo[k + 1]
      /\ \A k \in DOMAIN todo : k \in Nat /\ k > 0 /\ (k > 1 => k - 1 \in DOMAIN rest)
  BY Rest
<1> HIDE DEF rest
<1>2. CASE d[p] = v /\ ~Touched(todo, p)
  <2>1. e[p] = v BY <1>1, <1>2 DEF Touched
  <2>2. ~Touched(rest, p) BY <1>1, <1>2 DEF Touched
  <2> QED BY <2>1, <2>2 DEF Leaves, rest
<1>3. CASE \E k \in DOMAIN todo :
             /\ p \in DOMAIN todo[k].change /\ todo[k].change[p] = v
             /\ \A m \in DOMAIN todo : m > k => p \notin DOMAIN todo[m].change
  <2>1. PICK k \in DOMAIN todo :
             /\ p \in DOMAIN todo[k].change /\ todo[k].change[p] = v
             /\ \A m \in DOMAIN todo : m > k => p \notin DOMAIN todo[m].change
    BY <1>3
  <2>2. k \in Nat /\ k > 0 BY <1>1
  <2>3. \A m \in DOMAIN rest : m > k - 1 => p \notin DOMAIN rest[m].change
    <3>1. TAKE m \in DOMAIN rest
    <3>2. m \in Nat /\ m + 1 \in DOMAIN todo /\ rest[m] = todo[m + 1] BY <1>1
    <3>3. m > k - 1 => m + 1 > k BY <3>2, <2>2
    <3> QED BY <3>2, <3>3, <2>1
  <2>4. CASE k = 1
    <3>1. e[p] = v BY <2>1, <2>4, <1>1
    <3>2. ~Touched(rest, p) BY <2>3, <2>4, <1>1 DEF Touched
    <3> QED BY <3>1, <3>2 DEF Leaves, rest
  <2>5. CASE k > 1
    <3>1. k - 1 \in DOMAIN rest BY <2>5, <1>1
    <3>2. rest[k - 1] = todo[k - 1 + 1] /\ k - 1 + 1 = k BY <3>1, <2>2, <1>1
    <3> QED BY <3>1, <3>2, <2>1, <2>3 DEF Leaves, rest
  <2> QED BY <2>2, <2>4, <2>5
<1> QED BY <1>2, <1>3 DEF Leaves

\* Nothing left to do, or nothing that concerns the file.
LEMMA LeavesDone ==
  ASSUME NEW d, NEW todo, NEW p, NEW v, ~Touched(todo, p), Leaves(d, todo, p, v)
  PROVE  d[p] = v
BY DEF Leaves, Touched

LEMMA NothingTouched ==
  ASSUME NEW p PROVE ~Touched(<<>>, p)
BY DEF Touched

LEMMA LeavesUntouched ==
  ASSUME NEW d, NEW todo, NEW p, ~Touched(todo, p)
  PROVE  Leaves(d, todo, p, d[p])
BY DEF Leaves

\* One list of steps after another.
LEMMA ConcatFacts ==
  ASSUME NEW a, NEW b, IsSeq(a), IsSeq(b)
  PROVE  /\ IsSeq(a \o b)
         /\ Len(a) \in Nat /\ Len(b) \in Nat /\ DOMAIN a = 1..Len(a) /\ DOMAIN b = 1..Len(b)
         /\ DOMAIN (a \o b) = 1..(Len(a) + Len(b))
         /\ \A k \in DOMAIN a : (a \o b)[k] = a[k]
         /\ \A k \in DOMAIN b : (a \o b)[Len(a) + k] = b[k]
<1>1. PICK V : a \in Seq(V) BY DEF IsSeq
<1>2. PICK W : b \in Seq(W) BY DEF IsSeq
<1>3. a \in Seq(V \union W) /\ b \in Seq(V \union W) BY <1>1, <1>2
<1>4. a \o b \in Seq(V \union W) BY <1>3
<1>5. /\ Len(a) \in Nat /\ Len(b) \in Nat /\ DOMAIN a = 1..Len(a) /\ DOMAIN b = 1..Len(b)
      /\ Len(a \o b) = Len(a) + Len(b) /\ DOMAIN (a \o b) = 1..(Len(a) + Len(b))
  BY <1>3, <1>4
<1>6. \A k \in DOMAIN a : (a \o b)[k] = a[k] BY <1>3, <1>5
<1>7. \A k \in DOMAIN b : (a \o b)[Len(a) + k] = b[k] BY <1>3, <1>5
<1> QED BY <1>4, <1>5, <1>6, <1>7 DEF IsSeq

LEMMA ConcatPlaces ==
  ASSUME NEW a, NEW b, IsSeq(a), IsSeq(b)
  PROVE  \A k \in DOMAIN (a \o b) :
           \/ k \in DOMAIN a /\ (a \o b)[k] = a[k]
           \/ k - Len(a) \in DOMAIN b /\ k > Len(a) /\ (a \o b)[k] = b[k - Len(a)]
<1>1. TAKE k \in DOMAIN (a \o b)
<1>2. /\ Len(a) \in Nat /\ Len(b) \in Nat /\ DOMAIN a = 1..Len(a) /\ DOMAIN b = 1..Len(b)
      /\ DOMAIN (a \o b) = 1..(Len(a) + Len(b))
      /\ \A j \in DOMAIN a : (a \o b)[j] = a[j]
      /\ \A j \in DOMAIN b : (a \o b)[Len(a) + j] = b[j]
  BY ConcatFacts
<1>3. CASE k <= Len(a)
  BY <1>1, <1>2, <1>3
<1>4. CASE k > Len(a)
  <2>1. k - Len(a) \in DOMAIN b /\ Len(a) + (k - Len(a)) = k BY <1>1, <1>2, <1>4
  <2> QED BY <2>1, <1>2, <1>4
<1> QED BY <1>1, <1>2, <1>3, <1>4

LEMMA TouchedConcat ==
  ASSUME NEW a, NEW b, IsSeq(a), IsSeq(b), NEW p
  PROVE  Touched(a \o b, p) <=> Touched(a, p) \/ Touched(b, p)
<1>1. /\ Len(a) \in Nat /\ Len(b) \in Nat /\ DOMAIN a = 1..Len(a) /\ DOMAIN b = 1..Len(b)
      /\ DOMAIN (a \o b) = 1..(Len(a) + Len(b))
      /\ \A j \in DOMAIN a : (a \o b)[j] = a[j]
      /\ \A j \in DOMAIN b : (a \o b)[Len(a) + j] = b[j]
  BY ConcatFacts
<1>2. ASSUME Touched(a \o b, p) PROVE Touched(a, p) \/ Touched(b, p)
  <2>1. PICK k \in DOMAIN (a \o b) : p \in DOMAIN (a \o b)[k].change BY <1>2 DEF Touched
  <2> QED BY <2>1, ConcatPlaces DEF Touched
<1>3. ASSUME Touched(a, p) PROVE Touched(a \o b, p)
  <2>1. PICK k \in DOMAIN a : p \in DOMAIN a[k].change BY <1>3 DEF Touched
  <2>2. k \in DOMAIN (a \o b) BY <1>1
  <2> QED BY <2>1, <2>2, <1>1 DEF Touched
<1>4. ASSUME Touched(b, p) PROVE Touched(a \o b, p)
  <2>1. PICK k \in DOMAIN b : p \in DOMAIN b[k].change BY <1>4 DEF Touched
  <2>2. Len(a) + k \in DOMAIN (a \o b) BY <1>1
  <2> QED BY <2>1, <2>2, <1>1 DEF Touched
<1> QED BY <1>2, <1>3, <1>4

\* The later list decides, if it touches the file at all.
LEMMA LeavesLater ==
  ASSUME NEW d, NEW a, NEW b, IsSeq(a), IsSeq(b), NEW p, NEW v,
         Leaves(d, b, p, v), Touched(b, p) \/ ~Touched(a, p)
  PROVE  Leaves(d, a \o b, p, v)
<1>1. /\ Len(a) \in Nat /\ Len(b) \in Nat /\ DOMAIN a = 1..Len(a) /\ DOMAIN b = 1..Len(b)
      /\ DOMAIN (a \o b) = 1..(Len(a) + Len(b))
      /\ \A j \in DOMAIN a : (a \o b)[j] = a[j]
      /\ \A j \in DOMAIN b : (a \o b)[Len(a) + j] = b[j]
  BY ConcatFacts
<1>2. CASE d[p] = v /\ ~Touched(b, p)
  BY <1>2, TouchedConcat DEF Leaves
<1>3. CASE \E k \in DOMAIN b :
             /\ p \in DOMAIN b[k].change /\ b[k].change[p] = v
             /\ \A m \in DOMAIN b : m > k => p \notin DOMAIN b[m].change
  <2>1. PICK k \in DOMAIN b :
             /\ p \in DOMAIN b[k].change /\ b[k].change[p] = v
             /\ \A m \in DOMAIN b : m > k => p \notin DOMAIN b[m].change
    BY <1>3
  <2>2. Len(a) + k \in DOMAIN (a \o b) /\ (a \o b)[Len(a) + k] = b[k] BY <1>1
  <2>3. ASSUME NEW m \in DOMAIN (a \o b), m > Len(a) + k PROVE p \notin DOMAIN (a \o b)[m].change
    <3>1. m \in Nat /\ k \in Nat /\ k > 0 BY <1>1
    <3>2. m \notin DOMAIN a /\ m - Len(a) > k BY <3>1, <2>3, <1>1
    <3>3. m - Len(a) \in DOMAIN b /\ (a \o b)[m] = b[m - Len(a)] BY <3>2, ConcatPlaces
    <3> QED BY <3>2, <3>3, <2>1
  <2> QED BY <2>1, <2>2, <2>3 DEF Leaves
<1> QED BY <1>2, <1>3 DEF Leaves

\* It leaves the file alone otherwise.
LEMMA LeavesEarlier ==
  ASSUME NEW d, NEW a, NEW b, IsSeq(a), IsSeq(b), NEW p, NEW v,
         Leaves(d, a, p, v), ~Touched(b, p)
  PROVE  Leaves(d, a \o b, p, v)
<1>1. /\ Len(a) \in Nat /\ Len(b) \in Nat /\ DOMAIN a = 1..Len(a) /\ DOMAIN b = 1..Len(b)
      /\ DOMAIN (a \o b) = 1..(Len(a) + Len(b))
      /\ \A j \in DOMAIN a : (a \o b)[j] = a[j]
  BY ConcatFacts
<1>2. CASE d[p] = v /\ ~Touched(a, p)
  BY <1>2, TouchedConcat DEF Leaves
<1>3. CASE \E k \in DOMAIN a :
             /\ p \in DOMAIN a[k].change /\ a[k].change[p] = v
             /\ \A m \in DOMAIN a : m > k => p \notin DOMAIN a[m].change
  <2>1. PICK k \in DOMAIN a :
             /\ p \in DOMAIN a[k].change /\ a[k].change[p] = v
             /\ \A m \in DOMAIN a : m > k => p \notin DOMAIN a[m].change
    BY <1>3
  <2>2. k \in DOMAIN (a \o b) /\ (a \o b)[k] = a[k] BY <1>1
  <2>3. ASSUME NEW m \in DOMAIN (a \o b), m > k PROVE p \notin DOMAIN (a \o b)[m].change
    <3>1. CASE m \in DOMAIN a BY <3>1, <2>1, <2>3, <1>1
    <3>2. CASE m - Len(a) \in DOMAIN b /\ (a \o b)[m] = b[m - Len(a)] BY <3>2 DEF Touched
    <3> QED BY <3>1, <3>2, ConcatPlaces
  <2> QED BY <2>1, <2>2, <2>3 DEF Leaves
<1> QED BY <1>2, <1>3 DEF Leaves

\* Lists of one step, two, three and four.
LEMMA OneStep ==
  ASSUME NEW x
  PROVE  /\ IsSeq(<<x>>)
         /\ \A p : Touched(<<x>>, p) <=> p \in DOMAIN x.change
         /\ \A d, p, v : p \in DOMAIN x.change /\ x.change[p] = v => Leaves(d, <<x>>, p, v)
         /\ \A k \in DOMAIN <<x>> : <<x>>[k] = x
<1>1. <<x>> \in Seq({x}) OBVIOUS
<1>2. DOMAIN <<x>> = {1} /\ <<x>>[1] = x OBVIOUS
<1>3. IsSeq(<<x>>) BY <1>1 DEF IsSeq
<1>4. \A p : Touched(<<x>>, p) <=> p \in DOMAIN x.change BY <1>2 DEF Touched
<1>5. \A d, p, v : p \in DOMAIN x.change /\ x.change[p] = v => Leaves(d, <<x>>, p, v)
  BY <1>2 DEF Leaves
<1> QED BY <1>2, <1>3, <1>4, <1>5

\* The last of two steps that touch a file decides; a later step that does not
\* is of no account.
LEMMA TwoSteps ==
  ASSUME NEW x, NEW y
  PROVE  /\ IsSeq(<<x, y>>)
         /\ \A p : Touched(<<x, y>>, p) <=> p \in DOMAIN x.change \/ p \in DOMAIN y.change
         /\ \A d, p, v : p \in DOMAIN y.change /\ y.change[p] = v => Leaves(d, <<x, y>>, p, v)
         /\ \A d, p, v : p \notin DOMAIN y.change /\ p \in DOMAIN x.change /\ x.change[p] = v
              => Leaves(d, <<x, y>>, p, v)
         /\ \A k \in DOMAIN <<x, y>> : <<x, y>>[k] \in {x, y}
<1>1. <<x, y>> \in Seq({x, y}) /\ DOMAIN <<x, y>> = {1, 2} /\ <<x, y>>[1] = x /\ <<x, y>>[2] = y
  OBVIOUS
<1>2. IsSeq(<<x, y>>) BY <1>1 DEF IsSeq
<1>3. \A p : Touched(<<x, y>>, p) <=> p \in DOMAIN x.change \/ p \in DOMAIN y.change
  BY <1>1 DEF Touched
<1>4. \A d, p, v : p \in DOMAIN y.change /\ y.change[p] = v => Leaves(d, <<x, y>>, p, v)
  BY <1>1 DEF Leaves
<1>5. \A d, p, v : p \notin DOMAIN y.change /\ p \in DOMAIN x.change /\ x.change[p] = v
              => Leaves(d, <<x, y>>, p, v)
  BY <1>1 DEF Leaves
<1> QED BY <1>1, <1>2, <1>3, <1>4, <1>5

LEMMA ThreeSteps ==
  ASSUME NEW x, NEW y, NEW z
  PROVE  /\ IsSeq(<<x, y, z>>)
         /\ \A p : Touched(<<x, y, z>>, p) <=> p \in DOMAIN x.change \/ p \in DOMAIN y.change \/ p \in DOMAIN z.change
         /\ \A d, p, v : p \in DOMAIN z.change /\ z.change[p] = v => Leaves(d, <<x, y, z>>, p, v)
         /\ \A d, p, v : p \notin DOMAIN z.change /\ p \in DOMAIN y.change /\ y.change[p] = v
              => Leaves(d, <<x, y, z>>, p, v)
         /\ \A d, p, v : p \notin DOMAIN z.change /\ p \notin DOMAIN y.change /\ p \in DOMAIN x.change /\ x.change[p] = v
              => Leaves(d, <<x, y, z>>, p, v)
         /\ \A k \in DOMAIN <<x, y, z>> : <<x, y, z>>[k] \in {x, y, z}
<1> DEFINE t == <<x, y, z>>
<1>1. t \in Seq({x, y, z}) /\ DOMAIN t = {1, 2, 3} /\ t[1] = x /\ t[2] = y /\ t[3] = z OBVIOUS
<1> HIDE DEF t
<1>2. IsSeq(t) BY <1>1 DEF IsSeq
<1>3. \A p : Touched(t, p) <=> p \in DOMAIN x.change \/ p \in DOMAIN y.change \/ p \in DOMAIN z.change
  BY <1>1 DEF Touched
<1>4. \A d, p, v : p \in DOMAIN z.change /\ z.change[p] = v => Leaves(d, t, p, v)
  BY <1>1 DEF Leaves
<1>5. \A d, p, v : p \notin DOMAIN z.change /\ p \in DOMAIN y.change /\ y.change[p] = v => Leaves(d, t, p, v)
  BY <1>1 DEF Leaves
<1>6. \A d, p, v : p \notin DOMAIN z.change /\ p \notin DOMAIN y.change /\ p \in DOMAIN x.change /\ x.change[p] = v
        => Leaves(d, t, p, v)
  BY <1>1 DEF Leaves
<1> QED BY <1>1, <1>2, <1>3, <1>4, <1>5, <1>6 DEF t

LEMMA FourSteps ==
  ASSUME NEW w, NEW x, NEW y, NEW z
  PROVE  /\ IsSeq(<<w, x, y, z>>)
         /\ \A p : Touched(<<w, x, y, z>>, p) <=>
              p \in DOMAIN w.change \/ p \in DOMAIN x.change \/ p \in DOMAIN y.change \/ p \in DOMAIN z.change
         /\ \A d, p, v : p \in DOMAIN z.change /\ z.change[p] = v => Leaves(d, <<w, x, y, z>>, p, v)
         /\ \A d, p, v : p \notin DOMAIN z.change /\ p \in DOMAIN y.change /\ y.change[p] = v
              => Leaves(d, <<w, x, y, z>>, p, v)
         /\ \A d, p, v : p \notin DOMAIN z.change /\ p \notin DOMAIN y.change /\ p \in DOMAIN x.change /\ x.change[p] = v
              => Leaves(d, <<w, x, y, z>>, p, v)
         /\ \A k \in DOMAIN <<w, x, y, z>> : <<w, x, y, z>>[k] \in {w, x, y, z}
<1> DEFINE t == <<w, x, y, z>>
<1>1. /\ t \in Seq({w, x, y, z}) /\ DOMAIN t = {1, 2, 3, 4}
      /\ t[1] = w /\ t[2] = x /\ t[3] = y /\ t[4] = z
  OBVIOUS
<1> HIDE DEF t
<1>2. IsSeq(t) BY <1>1 DEF IsSeq
<1>3. \A p : Touched(t, p) <=>
        p \in DOMAIN w.change \/ p \in DOMAIN x.change \/ p \in DOMAIN y.change \/ p \in DOMAIN z.change
  BY <1>1 DEF Touched
<1>4. \A d, p, v : p \in DOMAIN z.change /\ z.change[p] = v => Leaves(d, t, p, v)
  BY <1>1 DEF Leaves
<1>5. \A d, p, v : p \notin DOMAIN z.change /\ p \in DOMAIN y.change /\ y.change[p] = v => Leaves(d, t, p, v)
  BY <1>1 DEF Leaves
<1>6. \A d, p, v : p \notin DOMAIN z.change /\ p \notin DOMAIN y.change /\ p \in DOMAIN x.change /\ x.change[p] = v
        => Leaves(d, t, p, v)
  BY <1>1 DEF Leaves
<1> QED BY <1>1, <1>2, <1>3, <1>4, <1>5, <1>6 DEF t

\* A path by its directory and its file.
LEMMA PathFacts ==
  /\ \A dir, f : <<dir, f>> \in Path <=> dir \in Directory /\ f \in File
  /\ \A dir, dir2, f : <<dir, f>> \in In(dir2) <=> dir = dir2 /\ f \in File
  /\ \A dir, dir2, f, f2 : <<dir, f>> = <<dir2, f2>> <=> dir = dir2 /\ f = f2
  /\ \A dir \in Directory : In(dir) \subseteq Path
  /\ \A dir, p : p \in In(dir) => \E f \in File : p = <<dir, f>>
BY DEF Path, In

-----------------------------------------------------------------------------
(* The steps of a rollback.                                                  *)

\* The kinds of step, field by field.
IsStep(step, part, change) == step.part = part /\ step.change = change

LEMMA RemoveIs ==
  ASSUME NEW part, NEW dir, NEW f
  PROVE  /\ IsStep(Remove(part, dir, f), part, Only(<<dir, f>>, {}))
         /\ Remove(part, dir, f).must /\ Remove(part, dir, f).can
         /\ IsStep(Optional(Remove(part, dir, f)), part, Only(<<dir, f>>, {}))
         /\ Optional(Remove(part, dir, f)).can /\ ~Optional(Remove(part, dir, f)).must
BY DEF Remove, Step, Optional, IsStep

LEMMA RemoveAllIs ==
  ASSUME NEW part, NEW dir
  PROVE  /\ IsStep(RemoveAll(part, dir), part, Removed(In(dir)))
         /\ RemoveAll(part, dir).must /\ RemoveAll(part, dir).can
         /\ IsStep(Optional(RemoveAll(part, dir)), part, Removed(In(dir)))
         /\ Optional(RemoveAll(part, dir)).can /\ ~Optional(RemoveAll(part, dir)).must
BY DEF RemoveAll, Step, Optional, IsStep

LEMMA WriteIs ==
  ASSUME NEW part, NEW f, NEW v
  PROVE  /\ IsStep(Write(part, f, v), part, Only(<<"live", f>>, v))
         /\ Write(part, f, v).must /\ Write(part, f, v).can
BY DEF Write, Step, IsStep

LEMMA CopyIs ==
  ASSUME NEW part, NEW from, NEW to, NEW f
  PROVE  /\ disk[<<from, f>>] # {} =>
              IsStep(Copy(part, from, to, f), part, Only(<<to, f>>, disk[<<from, f>>]))
         /\ disk[<<from, f>>] = {} => IsStep(Copy(part, from, to, f), part, Removed({}))
         /\ Copy(part, from, to, f).must /\ Copy(part, from, to, f).can
BY DEF Copy, Step, Has, IsStep

\* What a move changes.
MoveChange(from, to, f) ==
  [p \in {<<to, f>>, <<from, f>>} |-> IF p[1] = to THEN disk[<<from, f>>] ELSE {}]

LEMMA MoveIfPresentIs ==
  ASSUME NEW part, NEW from, NEW to, NEW f
  PROVE  MoveIfPresent(part, from, to, f).part = part
BY DEF MoveIfPresent, Move, Step

LEMMA MoveIs ==
  ASSUME NEW part, NEW from, NEW to, NEW f
  PROVE  /\ IsStep(Move(part, from, to, f), part, MoveChange(from, to, f))
         /\ Move(part, from, to, f).must /\ (Move(part, from, to, f).can <=> Has(from, f))
         /\ disk[<<from, f>>] # {} => IsStep(MoveIfPresent(part, from, to, f), part, MoveChange(from, to, f))
         /\ disk[<<from, f>>] = {} => IsStep(MoveIfPresent(part, from, to, f), part, Removed({}))
         /\ MoveIfPresent(part, from, to, f).must /\ MoveIfPresent(part, from, to, f).can
<1>1. /\ IsStep(Move(part, from, to, f), part, MoveChange(from, to, f))
      /\ Move(part, from, to, f).must /\ (Move(part, from, to, f).can <=> Has(from, f))
  BY DEF Move, Step, MoveChange, IsStep
<1>2. Has(from, f) <=> disk[<<from, f>>] # {} BY DEF Has
<1>3. CASE Has(from, f)
  <2>1. MoveIfPresent(part, from, to, f) = Move(part, from, to, f) BY <1>3 DEF MoveIfPresent
  <2> QED BY <1>1, <1>2, <1>3, <2>1 DEF IsStep
<1>4. CASE ~Has(from, f)
  <2>1. MoveIfPresent(part, from, to, f) = Step(part, Removed({})) BY <1>4 DEF MoveIfPresent
  <2>2. IsStep(Step(part, Removed({})), part, Removed({})) /\ Step(part, Removed({})).must /\ Step(part, Removed({})).can
    BY DEF IsStep, Step
  <2> QED BY <1>1, <1>2, <1>4, <2>1, <2>2 DEF IsStep
<1> QED BY <1>3, <1>4

LEMMA OnlyIs == ASSUME NEW q, NEW v PROVE DOMAIN Only(q, v) = {q} /\ Only(q, v)[q] = v
BY DEF Only

LEMMA RemovedIs == ASSUME NEW S PROVE DOMAIN Removed(S) = S /\ \A p \in S : Removed(S)[p] = {}
BY DEF Removed

LEMMA MoveChangeIs ==
  ASSUME NEW from, NEW to, NEW f, from # to
  PROVE  /\ DOMAIN MoveChange(from, to, f) = {<<to, f>>, <<from, f>>}
         /\ MoveChange(from, to, f)[<<to, f>>] = disk[<<from, f>>]
         /\ MoveChange(from, to, f)[<<from, f>>] = {}
BY DEF MoveChange

\* The database and its log come back.
LEMMA RollbackDatabaseDoes ==
  ASSUME disk[<<"rollback", "db">>] # {}
  PROVE  /\ IsSeq(RollbackDatabase)
         /\ \A k \in DOMAIN RollbackDatabase : RollingStep(RollbackDatabase[k])
         /\ \A d : Leaves(d, RollbackDatabase, <<"live", "db">>, disk[<<"rollback", "db">>])
         /\ \A d : Leaves(d, RollbackDatabase, <<"live", "wal">>, disk[<<"rollback", "wal">>])
         /\ Touched(RollbackDatabase, <<"live", "db">>) /\ Touched(RollbackDatabase, <<"live", "wal">>)
         /\ \A f \in {"cert", "key", "applied"} : ~Touched(RollbackDatabase, <<"live", f>>)
<1> DEFINE w == Optional(Remove("rollingBack", "live", "db"))
           x == Move("rollingBack", "rollback", "live", "db")
           y == Optional(Remove("rollingBack", "live", "wal"))
           z == MoveIfPresent("rollingBack", "rollback", "live", "wal")
<1>1. /\ w.part = "rollingBack" /\ w.can /\ DOMAIN w.change = {<<"live", "db">>}
      /\ x.part = "rollingBack" /\ x.can /\ DOMAIN x.change = {<<"live", "db">>, <<"rollback", "db">>}
      /\ x.change[<<"live", "db">>] = disk[<<"rollback", "db">>]
      /\ y.part = "rollingBack" /\ y.can /\ DOMAIN y.change = {<<"live", "wal">>}
      /\ y.change[<<"live", "wal">>] = {}
  <2>1. w.part = "rollingBack" /\ w.change = Only(<<"live", "db">>, {}) BY RemoveIs DEF IsStep
  <2>2. w.can BY RemoveIs
  <2>3. y.part = "rollingBack" /\ y.change = Only(<<"live", "wal">>, {}) BY RemoveIs DEF IsStep
  <2>4. y.can BY RemoveIs
  <2>5. x.part = "rollingBack" /\ x.change = MoveChange("rollback", "live", "db") BY MoveIs DEF IsStep
  <2>6. x.can BY MoveIs DEF Has
  <2>7. "rollback" # "live" OBVIOUS
  <2> HIDE DEF w, x, y, z
  <2>8. DOMAIN w.change = {<<"live", "db">>} BY <2>1, OnlyIs
  <2>9. DOMAIN y.change = {<<"live", "wal">>} /\ y.change[<<"live", "wal">>] = {} BY <2>3, OnlyIs
  <2>10. DOMAIN x.change = {<<"live", "db">>, <<"rollback", "db">>} /\ x.change[<<"live", "db">>] = disk[<<"rollback", "db">>]
    BY <2>5, <2>7, MoveChangeIs
  <2> QED BY <2>1, <2>2, <2>3, <2>4, <2>5, <2>6, <2>8, <2>9, <2>10
<1>2. /\ z.part = "rollingBack" /\ z.can
      /\ IF disk[<<"rollback", "wal">>] = {} THEN DOMAIN z.change = {}
         ELSE /\ DOMAIN z.change = {<<"live", "wal">>, <<"rollback", "wal">>}
              /\ z.change[<<"live", "wal">>] = disk[<<"rollback", "wal">>]
  <2>1. z.part = "rollingBack" /\ z.can
    <3>1. z.can BY MoveIs
    <3>2. z.part = "rollingBack" BY MoveIfPresentIs
    <3> QED BY <3>1, <3>2
  <2>2. CASE disk[<<"rollback", "wal">>] = {}
    <3>1. z.change = Removed({}) BY <2>2, MoveIs DEF IsStep
    <3>2. DOMAIN z.change = {} BY <3>1, RemovedIs
    <3> QED BY <2>1, <2>2, <3>2
  <2>3. CASE disk[<<"rollback", "wal">>] # {}
    <3>1. z.change = MoveChange("rollback", "live", "wal") BY <2>3, MoveIs DEF IsStep
    <3>2. "rollback" # "live" OBVIOUS
    <3> HIDE DEF z
    <3>3. DOMAIN z.change = {<<"live", "wal">>, <<"rollback", "wal">>} /\ z.change[<<"live", "wal">>] = disk[<<"rollback", "wal">>]
      <4> DEFINE c == z.change from == "rollback" to == "live" f == "wal"
      <4>1. c = MoveChange(from, to, f) /\ from # to BY <3>1, <3>2
      <4> HIDE DEF c, from, to, f
      <4>2. DOMAIN c = {<<to, f>>, <<from, f>>} /\ c[<<to, f>>] = disk[<<from, f>>] BY <4>1, MoveChangeIs
      <4> QED BY <4>2 DEF c, from, to, f
    <3> QED BY <2>1, <2>3, <3>3
  <2> QED BY <2>2, <2>3
<1>3. RollbackDatabase = <<w, x, y, z>> BY DEF RollbackDatabase
<1> HIDE DEF w, x, y, z
<1>4. \A s \in {w, x, y, z} : RollingStep(s)
  BY <1>1, <1>2, PathFacts DEF RollingStep
<1>5. /\ IsSeq(RollbackDatabase)
      /\ \A k \in DOMAIN RollbackDatabase : RollbackDatabase[k] \in {w, x, y, z}
      /\ \A p : Touched(RollbackDatabase, p) <=>
           p \in DOMAIN w.change \/ p \in DOMAIN x.change \/ p \in DOMAIN y.change \/ p \in DOMAIN z.change
  BY <1>3, FourSteps
<1>6. ASSUME NEW d PROVE Leaves(d, RollbackDatabase, <<"live", "db">>, disk[<<"rollback", "db">>])
  <2> DEFINE p == <<"live", "db">>
  <2>1. p \notin DOMAIN y.change /\ p \notin DOMAIN z.change BY <1>1, <1>2
  <2>2. p \in DOMAIN x.change /\ x.change[p] = disk[<<"rollback", "db">>] BY <1>1
  <2> HIDE DEF p
  <2> DEFINE v == disk[<<"rollback", "db">>]
  <2> HIDE DEF v
  <2>a. x.change[p] = v BY <2>2 DEF v
  <2>3. Leaves(d, <<w, x, y, z>>, p, v) BY <2>1, <2>2, <2>a, FourSteps
  <2> QED BY <2>3, <1>3 DEF p, v
<1>7. ASSUME NEW d PROVE Leaves(d, RollbackDatabase, <<"live", "wal">>, disk[<<"rollback", "wal">>])
  <2> DEFINE p == <<"live", "wal">>
  <2>1. CASE disk[<<"rollback", "wal">>] = {}
    <3>1. p \notin DOMAIN z.change /\ p \in DOMAIN y.change /\ y.change[p] = disk[<<"rollback", "wal">>]
      BY <1>1, <1>2, <2>1
    <3> DEFINE v == disk[<<"rollback", "wal">>]
    <3>2. p \notin DOMAIN z.change /\ p \in DOMAIN y.change /\ y.change[p] = v BY <3>1
    <3> HIDE DEF p, v
    <3>3. Leaves(d, <<w, x, y, z>>, p, v) BY <3>2, FourSteps
    <3> QED BY <3>3, <1>3 DEF p, v
  <2>2. CASE disk[<<"rollback", "wal">>] # {}
    <3>1. p \in DOMAIN z.change /\ z.change[p] = disk[<<"rollback", "wal">>] BY <1>2, <2>2
    <3> DEFINE v == disk[<<"rollback", "wal">>]
    <3>2. p \in DOMAIN z.change /\ z.change[p] = v BY <3>1
    <3> HIDE DEF p, v
    <3>3. Leaves(d, <<w, x, y, z>>, p, v) BY <3>2, FourSteps
    <3> QED BY <3>3, <1>3 DEF p, v
  <2> QED BY <2>1, <2>2
<1>8. /\ Touched(RollbackDatabase, <<"live", "db">>) /\ Touched(RollbackDatabase, <<"live", "wal">>)
      /\ \A f \in {"cert", "key", "applied"} : ~Touched(RollbackDatabase, <<"live", f>>)
  BY <1>1, <1>2, <1>5
<1> QED BY <1>4, <1>5, <1>6, <1>7, <1>8

\* A TLS file is removed, and comes back if there was one.
Back(f) ==
  << Optional(Remove("rollingBack", "live", f)), Copy("rollingBack", "rollback", "live", f) >>

LEMMA BackDoes ==
  ASSUME NEW f
  PROVE  /\ IsSeq(Back(f))
         /\ \A k \in DOMAIN Back(f) : RollingStep(Back(f)[k])
         /\ \A d : Leaves(d, Back(f), <<"live", f>>, disk[<<"rollback", f>>])
         /\ \A p : Touched(Back(f), p) <=> p = <<"live", f>>
<1> DEFINE x == Optional(Remove("rollingBack", "live", f))
           y == Copy("rollingBack", "rollback", "live", f)
           p == <<"live", f>>
           v == disk[<<"rollback", f>>]
<1>1. x.part = "rollingBack" /\ x.change = Only(p, {}) BY RemoveIs DEF IsStep
<1>2. x.can BY RemoveIs
<1>3. v # {} => y.part = "rollingBack" /\ y.change = Only(p, v) BY CopyIs DEF IsStep
<1>4. v = {} => y.part = "rollingBack" /\ y.change = Removed({})
  <2>1. v = {} => IsStep(y, "rollingBack", Removed({})) BY CopyIs
  <2> QED BY <2>1 DEF IsStep
<1>5. y.can BY CopyIs
<1>6. Back(f) = <<x, y>> BY DEF Back
<1>7. p \notin In("pending") BY PathFacts
<1> HIDE DEF x, y, p, v
<1>8. DOMAIN x.change = {p} /\ x.change[p] = {} BY <1>1, OnlyIs
<1>9. v # {} => DOMAIN y.change = {p} /\ y.change[p] = v BY <1>3, OnlyIs
<1>10. v = {} => DOMAIN y.change = {} BY <1>4, RemovedIs
<1>11. RollingStep(x) BY <1>1, <1>2, <1>7, <1>8 DEF RollingStep
<1>12. RollingStep(y) BY <1>3, <1>4, <1>5, <1>7, <1>9, <1>10 DEF RollingStep
<1>13. /\ IsSeq(Back(f)) /\ \A k \in DOMAIN Back(f) : RollingStep(Back(f)[k])
       /\ \A q : Touched(Back(f), q) <=> q = p
  <2>1. /\ IsSeq(<<x, y>>) /\ \A k \in DOMAIN <<x, y>> : <<x, y>>[k] \in {x, y}
        /\ \A q : Touched(<<x, y>>, q) <=> q \in DOMAIN x.change \/ q \in DOMAIN y.change
    BY TwoSteps
  <2>2. \A k \in DOMAIN <<x, y>> : RollingStep(<<x, y>>[k]) BY <2>1, <1>11, <1>12
  <2>3. \A q : Touched(<<x, y>>, q) <=> q = p BY <2>1, <1>8, <1>9, <1>10
  <2> QED BY <2>1, <2>2, <2>3, <1>6
<1>14. ASSUME NEW d PROVE Leaves(d, Back(f), p, v)
  <2>1. CASE v = {}
    <3>1. p \notin DOMAIN y.change /\ p \in DOMAIN x.change /\ x.change[p] = v BY <2>1, <1>8, <1>10
    <3>2. Leaves(d, <<x, y>>, p, v) BY <3>1, TwoSteps
    <3> QED BY <3>2, <1>6
  <2>2. CASE v # {}
    <3>1. p \in DOMAIN y.change /\ y.change[p] = v BY <2>2, <1>9
    <3>2. Leaves(d, <<x, y>>, p, v) BY <3>1, TwoSteps
    <3> QED BY <3>2, <1>6
  <2> QED BY <2>1, <2>2
<1> QED BY <1>13, <1>14 DEF p, v

\* All steps of two lists are rollback steps if those of both are.
LEMMA RollingConcat ==
  ASSUME NEW a, NEW b, IsSeq(a), IsSeq(b),
         \A k \in DOMAIN a : RollingStep(a[k]), \A k \in DOMAIN b : RollingStep(b[k])
  PROVE  IsSeq(a \o b) /\ \A k \in DOMAIN (a \o b) : RollingStep((a \o b)[k])
BY ConcatFacts, ConcatPlaces

LEMMA RollbackTLSDoes ==
  /\ IsSeq(RollbackTLS)
  /\ \A k \in DOMAIN RollbackTLS : RollingStep(RollbackTLS[k])
  /\ \A d : Leaves(d, RollbackTLS, <<"live", "cert">>, disk[<<"rollback", "cert">>])
  /\ \A d : Leaves(d, RollbackTLS, <<"live", "key">>, disk[<<"rollback", "key">>])
  /\ \A p : Touched(RollbackTLS, p) <=> p \in {<<"live", "cert">>, <<"live", "key">>, <<"live", "enabled">>}
<1> DEFINE a == Back("cert") b == Back("key") c == Back("enabled")
           pa == <<"live", "cert">> pb == <<"live", "key">> pc == <<"live", "enabled">>
           va == disk[<<"rollback", "cert">>] vb == disk[<<"rollback", "key">>]
<1>1. RollbackTLS = (a \o b) \o c BY DEF RollbackTLS, Back
<1>2. /\ IsSeq(a) /\ \A k \in DOMAIN a : RollingStep(a[k])
      /\ \A p : Touched(a, p) <=> p = pa
  BY BackDoes
<1>3. /\ IsSeq(b) /\ \A k \in DOMAIN b : RollingStep(b[k])
      /\ \A p : Touched(b, p) <=> p = pb
  BY BackDoes
<1>4. /\ IsSeq(c) /\ \A k \in DOMAIN c : RollingStep(c[k])
      /\ \A p : Touched(c, p) <=> p = pc
  BY BackDoes
<1>5. \A d : Leaves(d, a, pa, va) /\ Leaves(d, b, pb, vb) BY BackDoes
<1>6. pa # pb /\ pa # pc /\ pb # pc BY PathFacts
<1> HIDE DEF a, b, c, pa, pb, pc, va, vb
<1>7. IsSeq(a \o b) /\ \A k \in DOMAIN (a \o b) : RollingStep((a \o b)[k]) BY <1>2, <1>3, RollingConcat
<1>8. IsSeq(RollbackTLS) /\ \A k \in DOMAIN RollbackTLS : RollingStep(RollbackTLS[k])
  BY <1>1, <1>4, <1>7, RollingConcat
<1>9. \A p : Touched(a \o b, p) <=> p \in {pa, pb} BY <1>2, <1>3, TouchedConcat
<1>10. \A p : Touched(RollbackTLS, p) <=> p \in {pa, pb, pc} BY <1>1, <1>4, <1>7, <1>9, TouchedConcat
<1>11. ASSUME NEW d PROVE Leaves(d, RollbackTLS, pa, va) /\ Leaves(d, RollbackTLS, pb, vb)
  <2>1. ~Touched(b, pa) /\ ~Touched(c, pa) /\ ~Touched(c, pb) /\ Touched(b, pb) BY <1>3, <1>4, <1>6
  <2>2. Leaves(d, a, pa, va) /\ Leaves(d, b, pb, vb) BY <1>5
  <2>3. Leaves(d, a \o b, pa, va) BY <2>1, <2>2, <1>2, <1>3, LeavesEarlier
  <2>4. Leaves(d, a \o b, pb, vb) BY <2>1, <2>2, <1>2, <1>3, LeavesLater
  <2>5. Leaves(d, (a \o b) \o c, pa, va) BY <2>1, <2>3, <1>4, <1>7, LeavesEarlier
  <2>6. Leaves(d, (a \o b) \o c, pb, vb) BY <2>1, <2>4, <1>4, <1>7, LeavesEarlier
  <2> QED BY <2>5, <2>6, <1>1
<1> QED BY <1>8, <1>10, <1>11 DEF pa, pb, pc, va, vb

\* rollbackRestoreFiles: the TLS files come back if they are part of it.
LEMMA RollbackFilesDo ==
  ASSUME disk[<<"rollback", "db">>] # {}
  PROVE  /\ IsSeq(RollbackFiles)
         /\ \A k \in DOMAIN RollbackFiles : RollingStep(RollbackFiles[k])
         /\ \A d : Leaves(d, RollbackFiles, <<"live", "db">>, disk[<<"rollback", "db">>])
         /\ \A d : Leaves(d, RollbackFiles, <<"live", "wal">>, disk[<<"rollback", "wal">>])
         /\ Scope("rollback") => \A d : /\ Leaves(d, RollbackFiles, <<"live", "cert">>, disk[<<"rollback", "cert">>])
                                        /\ Leaves(d, RollbackFiles, <<"live", "key">>, disk[<<"rollback", "key">>])
         /\ ~Scope("rollback") => ~Touched(RollbackFiles, <<"live", "cert">>) /\ ~Touched(RollbackFiles, <<"live", "key">>)
<1> DEFINE a == RollbackDatabase
           b == IF Scope("rollback") THEN RollbackTLS ELSE <<>>
           pd == <<"live", "db">> pw == <<"live", "wal">> pc == <<"live", "cert">> pk == <<"live", "key">>
           vd == disk[<<"rollback", "db">>] vw == disk[<<"rollback", "wal">>]
           vc == disk[<<"rollback", "cert">>] vk == disk[<<"rollback", "key">>]
           scope == Scope("rollback")
<1>1. /\ IsSeq(a) /\ \A k \in DOMAIN a : RollingStep(a[k])
      /\ \A d : Leaves(d, a, pd, vd) /\ Leaves(d, a, pw, vw)
      /\ ~Touched(a, pc) /\ ~Touched(a, pk)
  BY RollbackDatabaseDoes
<1>2. IsSeq(<<>>) /\ \A k \in DOMAIN <<>> : RollingStep(<<>>[k])
  <2>1. <<>> \in Seq({}) /\ DOMAIN <<>> = {} OBVIOUS
  <2> QED BY <2>1 DEF IsSeq
<1>3. IsSeq(b) /\ \A k \in DOMAIN b : RollingStep(b[k])
  <2>1. CASE scope BY <2>1, RollbackTLSDoes
  <2>2. CASE ~scope BY <2>2, <1>2
  <2> QED BY <2>1, <2>2
<1>4. ~Touched(b, pd) /\ ~Touched(b, pw)
  <2>1. pd \notin {pc, pk, <<"live", "enabled">>} /\ pw \notin {pc, pk, <<"live", "enabled">>} OBVIOUS
  <2>2. CASE scope BY <2>1, <2>2, RollbackTLSDoes
  <2>3. CASE ~scope BY <2>3, NothingTouched
  <2> QED BY <2>2, <2>3
<1>5. scope => \A d : Leaves(d, b, pc, vc) /\ Leaves(d, b, pk, vk) BY RollbackTLSDoes
<1>6. ~scope => ~Touched(b, pc) /\ ~Touched(b, pk) BY NothingTouched
<1>7. RollbackFiles = a \o b BY DEF RollbackFiles
<1> HIDE DEF a, b, pd, pw, pc, pk, vd, vw, vc, vk, scope
<1>8. IsSeq(a \o b) /\ \A k \in DOMAIN (a \o b) : RollingStep((a \o b)[k]) BY <1>1, <1>3, RollingConcat
<1>9. \A d : Leaves(d, a \o b, pd, vd) /\ Leaves(d, a \o b, pw, vw)
  BY <1>1, <1>3, <1>4, LeavesEarlier
<1>10. scope => \A d : Leaves(d, a \o b, pc, vc) /\ Leaves(d, a \o b, pk, vk)
  BY <1>1, <1>3, <1>5, LeavesLater
<1>11. ~scope => ~Touched(a \o b, pc) /\ ~Touched(a \o b, pk) BY <1>1, <1>3, <1>6, TouchedConcat
<1> QED BY <1>7, <1>8, <1>9, <1>10, <1>11 DEF pd, pw, pc, pk, vd, vw, vc, vk, scope

LEMMA RollbackFilesKeepMark ==
  ASSUME disk[<<"rollback", "db">>] # {}
  PROVE  ~Touched(RollbackFiles, <<"live", "applied">>)
<1> DEFINE b == IF Scope("rollback") THEN RollbackTLS ELSE <<>>
<1>1. IsSeq(RollbackDatabase) /\ ~Touched(RollbackDatabase, <<"live", "applied">>) BY RollbackDatabaseDoes
<1>2. <<>> \in Seq({}) OBVIOUS
<1>3. IsSeq(b) BY <1>2, RollbackTLSDoes DEF IsSeq
<1>4. <<"live", "applied">> \notin {<<"live", "cert">>, <<"live", "key">>, <<"live", "enabled">>} OBVIOUS
<1>5. ~Touched(b, <<"live", "applied">>)
  <2>1. CASE Scope("rollback") BY <2>1, <1>4, RollbackTLSDoes
  <2>2. CASE ~Scope("rollback") BY <2>2, NothingTouched
  <2> QED BY <2>1, <2>2
<1> QED BY <1>1, <1>3, <1>5, TouchedConcat DEF RollbackFiles

\* The files, then the marker.
LEMMA UnmarkedDoes ==
  ASSUME disk[<<"rollback", "db">>] # {}
  PROVE  /\ IsSeq(RollbackFiles \o Unmarked)
         /\ \A k \in DOMAIN (RollbackFiles \o Unmarked) : RollingStep((RollbackFiles \o Unmarked)[k])
         /\ \A d : Leaves(d, RollbackFiles \o Unmarked, <<"live", "applied">>, {})
         /\ \A d, p, v : p # <<"live", "applied">> /\ Leaves(d, RollbackFiles, p, v)
              => Leaves(d, RollbackFiles \o Unmarked, p, v)
         /\ \A p : p # <<"live", "applied">> /\ ~Touched(RollbackFiles, p)
              => ~Touched(RollbackFiles \o Unmarked, p)
<1> DEFINE x == Optional(Remove("rollingBack", "live", "applied")) q == <<"live", "applied">>
<1>1. x.part = "rollingBack" /\ x.change = Only(q, {}) BY RemoveIs DEF IsStep
<1>2. x.can BY RemoveIs
<1>3. Unmarked = <<x>> BY DEF Unmarked
<1>4. q \notin In("pending") BY PathFacts
<1> HIDE DEF x, q
<1>5. DOMAIN x.change = {q} /\ x.change[q] = {} BY <1>1, OnlyIs
<1>6. RollingStep(x) BY <1>1, <1>2, <1>4, <1>5 DEF RollingStep
<1>7. IsSeq(Unmarked) /\ \A k \in DOMAIN Unmarked : RollingStep(Unmarked[k]) BY <1>3, <1>6, OneStep
<1>8. (\A p : Touched(Unmarked, p) <=> p = q) /\ \A d : Leaves(d, Unmarked, q, {}) BY <1>3, <1>5, OneStep
<1>9. IsSeq(RollbackFiles) /\ \A k \in DOMAIN RollbackFiles : RollingStep(RollbackFiles[k]) BY RollbackFilesDo
<1>10. /\ IsSeq(RollbackFiles \o Unmarked)
       /\ \A k \in DOMAIN (RollbackFiles \o Unmarked) : RollingStep((RollbackFiles \o Unmarked)[k])
  BY <1>7, <1>9, RollingConcat
<1>11. \A d : Leaves(d, RollbackFiles \o Unmarked, q, {}) BY <1>7, <1>8, <1>9, LeavesLater
<1>12. \A d, p, v : p # q /\ Leaves(d, RollbackFiles, p, v) => Leaves(d, RollbackFiles \o Unmarked, p, v)
  BY <1>7, <1>8, <1>9, LeavesEarlier
<1>13. \A p : p # q /\ ~Touched(RollbackFiles, p) => ~Touched(RollbackFiles \o Unmarked, p)
  BY <1>7, <1>8, <1>9, TouchedConcat
<1> QED BY <1>10, <1>11, <1>12, <1>13 DEF q

\* A rollback list and the cleaning after it.
LEMMA RollingThenCleaning ==
  ASSUME NEW at, NEW a, NEW b, IsSeq(a), IsSeq(b),
         \A k \in DOMAIN a : RollingStep(a[k]),
         \A k \in DOMAIN b : CleaningStep(at, b[k])
  PROVE  RollingSteps(at, a \o b)
<1>1. /\ IsSeq(a \o b) /\ Len(a) \in Nat /\ DOMAIN a = 1..Len(a)
      /\ DOMAIN (a \o b) = 1..(Len(a) + Len(b)) /\ Len(b) \in Nat
  BY ConcatFacts
<1>2. \A k \in DOMAIN (a \o b) : RollingStep((a \o b)[k]) \/ CleaningStep(at, (a \o b)[k])
  BY ConcatPlaces
<1>3. ASSUME NEW k \in DOMAIN (a \o b), NEW m \in DOMAIN (a \o b), k < m, RollingStep((a \o b)[m])
      PROVE  RollingStep((a \o b)[k])
  <2>1. m \in DOMAIN a
    <3>1. CASE m - Len(a) \in DOMAIN b /\ (a \o b)[m] = b[m - Len(a)]
      <4>1. CleaningStep(at, (a \o b)[m]) BY <3>1
      <4>2. "cleaning" # "rollingBack" OBVIOUS
      <4> QED BY <4>1, <4>2, <1>3 DEF CleaningStep, RollingStep
    <3> QED BY <3>1, ConcatPlaces
  <2>2. k \in DOMAIN a BY <2>1, <1>1, <1>3
  <2> QED BY <2>2, ConcatFacts
<1> QED BY <1>1, <1>2, <1>3 DEF RollingSteps

\* The cleaning leaves the live files alone.
LEMMA CleaningTouches ==
  ASSUME NEW at, NEW step, CleaningStep(at, step)
  PROVE  \A f : <<"live", f>> \notin DOMAIN step.change
<1>1. DOMAIN step.change = In("rollback") \/ DOMAIN step.change = In("pending")
  BY RemovedIs DEF CleaningStep
<1>2. "live" # "rollback" /\ "live" # "pending" OBVIOUS
<1> QED BY <1>1, <1>2, PathFacts

LEMMA CleaningLists ==
  /\ IsSeq(Discarded)
  /\ \A at : \A k \in DOMAIN Discarded : CleaningStep(at, Discarded[k])
  /\ IsSeq(<<RemoveAll("cleaning", "rollback")>>)
  /\ \A k \in DOMAIN <<RemoveAll("cleaning", "rollback")>> :
       CleaningStep("reverting", <<RemoveAll("cleaning", "rollback")>>[k])
<1> DEFINE x == Optional(RemoveAll("cleaning", "rollback")) y == Optional(RemoveAll("cleaning", "pending"))
           z == RemoveAll("cleaning", "rollback")
<1>1. x.part = "cleaning" /\ x.change = Removed(In("rollback")) BY RemoveAllIs DEF IsStep
<1>2. y.part = "cleaning" /\ y.change = Removed(In("pending")) BY RemoveAllIs DEF IsStep
<1>3. z.part = "cleaning" /\ z.change = Removed(In("rollback")) BY RemoveAllIs DEF IsStep
<1>4. x.can /\ ~x.must BY RemoveAllIs
<1>5. y.can /\ ~y.must BY RemoveAllIs
<1>6. z.can BY RemoveAllIs
<1>7. Discarded = <<x, y>> BY DEF Discarded
<1> HIDE DEF x, y, z
<1>8. \A at : CleaningStep(at, x) BY <1>1, <1>4 DEF CleaningStep
<1>9. \A at : CleaningStep(at, y) BY <1>2, <1>5 DEF CleaningStep
<1>10. CleaningStep("reverting", z) BY <1>3, <1>6 DEF CleaningStep
<1>11. IsSeq(<<x, y>>) /\ \A at : \A k \in DOMAIN <<x, y>> : CleaningStep(at, <<x, y>>[k])
  BY <1>8, <1>9, TwoSteps
<1>12. IsSeq(<<z>>) /\ \A k \in DOMAIN <<z>> : CleaningStep("reverting", <<z>>[k])
  BY <1>10, OneStep
<1> QED BY <1>7, <1>11, <1>12 DEF z

\* What is stored is rolled back.
LEMMA RollbackRolls ==
  ASSUME NEW at, NEW s, NEW old, OldOK(s, old), Stored(disk, s, old), NEW b, IsSeq(b),
         \A k \in DOMAIN b : CleaningStep(at, b[k])
  PROVE  Rolling(at, disk, s, (RollbackFiles \o Unmarked) \o b)
<1> DEFINE a == RollbackFiles \o Unmarked
           pd == <<"live", "db">> pw == <<"live", "wal">> pc == <<"live", "cert">>
           pk == <<"live", "key">> pa == <<"live", "applied">>
<1>1. disk[<<"rollback", "db">>] # {} BY DEF Stored
<1>2. IsSeq(a) /\ \A k \in DOMAIN a : RollingStep(a[k]) BY <1>1, UnmarkedDoes
<1>3. \A f : ~Touched(b, <<"live", f>>) BY CleaningTouches DEF Touched
<1>4. RollingSteps(at, a \o b) BY <1>2, RollingThenCleaning
<1>5. pd # pa /\ pw # pa /\ pc # pa /\ pk # pa BY PathFacts
<1>6. Leaves(disk, a, pa, {}) BY <1>1, UnmarkedDoes
<1>7. Leaves(disk, a, pd, {old.db}) /\ Leaves(disk, a, pw, old.wal)
  <2>1. disk[<<"rollback", "db">>] = {old.db} /\ disk[<<"rollback", "wal">>] = old.wal BY DEF Stored
  <2>2. Leaves(disk, RollbackFiles, pd, {old.db}) /\ Leaves(disk, RollbackFiles, pw, old.wal)
    BY <1>1, <2>1, RollbackFilesDo
  <2> QED BY <1>1, <1>5, <2>2, UnmarkedDoes
<1>8. Leaves(disk, a, pc, old.cert) /\ Leaves(disk, a, pk, old.key)
  <2>1. PICK c \in BOOLEAN : /\ disk[<<"rollback", "restore.json">>] = {c}
                             /\ disk[<<TLSIn(c, "rollback"), "cert">>] = old.cert
                             /\ disk[<<TLSIn(c, "rollback"), "key">>] = old.key
    BY DEF Stored
  <2>2. CASE c = TRUE
    <3>1. Scope("rollback") BY <2>1, <2>2 DEF Scope
    <3>2. disk[<<"rollback", "cert">>] = old.cert /\ disk[<<"rollback", "key">>] = old.key
      BY <2>1, <2>2 DEF TLSIn
    <3>3. Leaves(disk, RollbackFiles, pc, old.cert) /\ Leaves(disk, RollbackFiles, pk, old.key)
      BY <1>1, <3>1, <3>2, RollbackFilesDo
    <3> QED BY <1>1, <1>5, <3>3, UnmarkedDoes
  <2>3. CASE c = FALSE
    <3>1. ~Scope("rollback") BY <2>1, <2>3 DEF Scope, Has
    <3>2. disk[pc] = old.cert /\ disk[pk] = old.key BY <2>1, <2>3 DEF TLSIn
    <3>3. ~Touched(RollbackFiles, pc) /\ ~Touched(RollbackFiles, pk) BY <1>1, <3>1, RollbackFilesDo
    <3>4. ~Touched(a, pc) /\ ~Touched(a, pk) BY <1>1, <1>5, <3>3, UnmarkedDoes
    <3> QED BY <3>2, <3>4, LeavesUntouched
  <2> QED BY <2>1, <2>2, <2>3
<1> HIDE DEF a, pd, pw, pc, pk, pa
<1>9. /\ Leaves(disk, a \o b, pa, {}) /\ Leaves(disk, a \o b, pd, {old.db})
      /\ Leaves(disk, a \o b, pw, old.wal) /\ Leaves(disk, a \o b, pc, old.cert)
      /\ Leaves(disk, a \o b, pk, old.key)
  <2>1. ~Touched(b, pa) /\ ~Touched(b, pd) /\ ~Touched(b, pw) /\ ~Touched(b, pc) /\ ~Touched(b, pk)
    BY <1>3 DEF pd, pw, pc, pk, pa
  <2> QED BY <2>1, <1>2, <1>6, <1>7, <1>8, LeavesEarlier
<1>10. Rolling(at, disk, s, a \o b)
  BY <1>4, <1>9 DEF Rolling, LeavesOld, pd, pw, pc, pk, pa
<1> QED BY <1>10 DEF a

LEMMA UndoRolls ==
  ASSUME NEW s, DiskStored(disk, s)
  PROVE  /\ \A at : Rolling(at, disk, s, UndoRestore)
         /\ Rolling("reverting", disk, s, RevertRestore)
<1>1. PICK old : OldOK(s, old) /\ Stored(disk, s, old) BY DEF DiskStored
<1>2. UndoRestore = (RollbackFiles \o Unmarked) \o Discarded BY DEF UndoRestore
<1>3. RevertRestore = (RollbackFiles \o Unmarked) \o <<RemoveAll("cleaning", "rollback")>>
  BY DEF RevertRestore
<1> QED BY <1>1, <1>2, <1>3, RollbackRolls, CleaningLists

\* The disk after a step, file by file.
DoneTo(d, step) == [p \in Path |-> IF p \in DOMAIN step.change THEN step.change[p] ELSE d[p]]

LEMMA DoneIs ==
  ASSUME NEW d, NEW step
  PROVE  /\ IsDisk(DoneTo(d, step))
         /\ \A p \in Path : DoneTo(d, step)[p] = IF p \in DOMAIN step.change THEN step.change[p] ELSE d[p]
BY DEF DoneTo, IsDisk

LEMMA LivePaths ==
  /\ <<"live", "db">> \in Path /\ <<"live", "wal">> \in Path /\ <<"live", "cert">> \in Path
  /\ <<"live", "key">> \in Path /\ <<"live", "applied">> \in Path
  /\ <<"rollback", "db">> \in Path /\ <<"rollback", "wal">> \in Path /\ <<"rollback", "cert">> \in Path
  /\ <<"rollback", "key">> \in Path /\ <<"rollback", "restore.json">> \in Path
  /\ In("pending") \subseteq Path /\ In("rollback") \subseteq Path
BY DEF Path, In, Directory, File

\* What remains of a rollback is one.
LEMMA RollingRest ==
  ASSUME NEW at, NEW todo, RollingSteps(at, todo), todo # <<>>
  PROVE  /\ RollingSteps(at, Tail(todo))
         /\ RollingStep(Head(todo)) \/ CleaningStep(at, Head(todo))
<1> DEFINE rest == Tail(todo)
<1>1. IsSeq(todo) BY DEF RollingSteps
<1>2. /\ IsSeq(rest) /\ Head(todo) = todo[1] /\ 1 \in DOMAIN todo
      /\ \A k \in DOMAIN rest : k \in Nat /\ k > 0 /\ k + 1 \in DOMAIN todo /\ rest[k] = todo[k + 1]
  BY <1>1, Rest
<1> HIDE DEF rest
<1>3. \A k \in DOMAIN rest : RollingStep(rest[k]) \/ CleaningStep(at, rest[k])
  BY <1>2 DEF RollingSteps
<1>4. ASSUME NEW k \in DOMAIN rest, NEW m \in DOMAIN rest, k < m, RollingStep(rest[m])
      PROVE  RollingStep(rest[k])
  <2>1. k + 1 \in DOMAIN todo /\ m + 1 \in DOMAIN todo /\ k + 1 < m + 1 BY <1>2, <1>4
  <2>2. RollingStep(todo[m + 1]) BY <1>2, <1>4
  <2>3. RollingStep(todo[k + 1]) BY <2>1, <2>2 DEF RollingSteps
  <2> QED BY <2>3, <1>2
<1>5. RollingSteps(at, rest) BY <1>2, <1>3, <1>4 DEF RollingSteps
<1> QED BY <1>2, <1>5 DEF RollingSteps, rest

LEMMA RollingLeaves ==
  ASSUME NEW at, NEW d, NEW e, NEW s, NEW todo, Rolling(at, d, s, todo), todo # <<>>,
         \A f \in {"db", "wal", "cert", "key", "applied"} :
           e[<<"live", f>>] = IF <<"live", f>> \in DOMAIN Head(todo).change
                                THEN Head(todo).change[<<"live", f>>] ELSE d[<<"live", f>>]
  PROVE  Rolling(at, e, s, Tail(todo))
<1>1. IsSeq(todo) BY DEF Rolling, RollingSteps
<1>2. RollingSteps(at, Tail(todo)) BY RollingRest DEF Rolling
<1>3. \A f \in {"db", "wal", "cert", "key", "applied"} : \A v :
        Leaves(d, todo, <<"live", f>>, v) => Leaves(e, Tail(todo), <<"live", f>>, v)
  BY <1>1, LeavesStep
<1>4. Leaves(e, Tail(todo), <<"live", "applied">>, {}) BY <1>3 DEF Rolling
<1>5. PICK old : OldOK(s, old) /\ LeavesOld(d, todo, old) BY DEF Rolling
<1>6. LeavesOld(e, Tail(todo), old) BY <1>3, <1>5 DEF LeavesOld
<1> QED BY <1>2, <1>4, <1>5, <1>6 DEF Rolling

LEMMA RollingDone ==
  ASSUME NEW at, NEW d, NEW s, NEW todo, Rolling(at, d, s, todo), todo # <<>>, PendingKept(d, s)
  PROVE  LET e == DoneTo(d, Head(todo)) IN
         Rolling(at, e, s, Tail(todo)) /\ PendingKept(e, s) /\ IsDisk(e)
<1> DEFINE step == Head(todo) e == DoneTo(d, step)
<1>1. IsDisk(e) /\ \A p \in Path : e[p] = IF p \in DOMAIN step.change THEN step.change[p] ELSE d[p]
  BY DoneIs
<1> HIDE DEF e
<1>2. Rolling(at, e, s, Tail(todo)) BY <1>1, LivePaths, RollingLeaves
<1>3. PendingKept(e, s)
  <2>1. CASE RollingStep(step)
    <3>1. \A p \in In("pending") : e[p] = d[p] BY <1>1, <2>1, LivePaths DEF RollingStep
    <3> QED BY <3>1 DEF PendingKept, Cleared
  <2>2. CASE step.change = Removed(In("pending"))
    <3>1. \A p \in In("pending") : e[p] = {} BY <1>1, <2>2, LivePaths, RemovedIs
    <3> QED BY <3>1 DEF PendingKept, Cleared
  <2>3. CASE step.change = Removed(In("rollback"))
    <3>1. DOMAIN step.change = In("rollback") BY <2>3, RemovedIs
    <3>2. "rollback" # "pending" OBVIOUS
    <3>3. \A p \in In("pending") : p \notin In("rollback") BY <3>2, PathFacts
    <3>4. \A p \in In("pending") : e[p] = d[p] BY <1>1, <3>1, <3>3, LivePaths
    <3> QED BY <3>4 DEF PendingKept, Cleared
  <2>4. RollingStep(step) \/ CleaningStep(at, step) BY RollingRest DEF Rolling
  <2> QED BY <2>1, <2>2, <2>3, <2>4 DEF CleaningStep
<1> QED BY <1>1, <1>2, <1>3 DEF e

\* A step that failed and is dropped.
LEMMA RollingDropped ==
  ASSUME NEW at, NEW d, NEW s, NEW todo, Rolling(at, d, s, todo), todo # <<>>,
         CleaningStep(at, Head(todo))
  PROVE  Rolling(at, d, s, Tail(todo))
BY RollingLeaves, CleaningTouches

\* Once the files are back, the old installation is in place.
LEMMA RollingEnds ==
  ASSUME NEW at, NEW d, NEW s, NEW todo, Rolling(at, d, s, todo),
         todo = <<>> \/ CleaningStep(at, Head(todo))
  PROVE  DiskOld(d, s)
<1>1. \A f : ~Touched(todo, <<"live", f>>)
  <2>1. CASE todo = <<>> BY <2>1, NothingTouched
  <2>2. CASE todo # <<>>
    <3>1. IsSeq(todo) BY DEF Rolling, RollingSteps
    <3>2. /\ Head(todo) = todo[1] /\ 1 \in DOMAIN todo
          /\ \A k \in DOMAIN todo : k \in Nat /\ k > 0
      BY <2>2, <3>1, Rest
    <3>3. CleaningStep(at, todo[1]) BY <2>2, <3>2
    <3>4. ~RollingStep(todo[1])
      <4>1. "cleaning" # "rollingBack" OBVIOUS
      <4> QED BY <3>3, <4>1 DEF CleaningStep, RollingStep
    <3>5. \A k \in DOMAIN todo : CleaningStep(at, todo[k])
      <4>1. TAKE k \in DOMAIN todo
      <4>2. CASE k = 1 BY <4>2, <3>3
      <4>3. CASE k > 1 BY <4>1, <4>3, <3>2, <3>4 DEF Rolling, RollingSteps
      <4>4. k \in Nat /\ k > 0 BY <3>2
      <4> QED BY <4>2, <4>3, <4>4
    <3> QED BY <3>5, CleaningTouches DEF Touched
  <2> QED BY <2>1, <2>2
<1>2. PICK old : OldOK(s, old) /\ LeavesOld(d, todo, old) BY DEF Rolling
<1>3. LiveIs(d, old) BY <1>1, <1>2, LeavesDone DEF LeavesOld, LiveIs
<1>4. ~Marked(d) BY <1>1, LeavesDone DEF Rolling, Marked
<1> QED BY <1>2, <1>3, <1>4 DEF DiskOld

-----------------------------------------------------------------------------
(* The steps of a restore.                                                   *)

LEMMA TLSLists ==
  ASSUME NEW part, NEW from, NEW to
  PROVE  /\ RemoveTLS(part, to) = <<Remove(part, to, "cert"), Remove(part, to, "key"), Remove(part, to, "enabled")>>
         /\ CopyTLS(part, from, to) =
              <<Copy(part, from, to, "cert"), Copy(part, from, to, "key"), Copy(part, from, to, "enabled")>>
<1>1. Len(TLSFiles) = 3 /\ TLSFiles[1] = "cert" /\ TLSFiles[2] = "key" /\ TLSFiles[3] = "enabled"
  BY DEF TLSFiles
<1>2. 1..3 = {1, 2, 3} OBVIOUS
<1> QED BY <1>1, <1>2 DEF RemoveTLS, CopyTLS

LEMMA CopyTouches ==
  ASSUME NEW part, NEW from, NEW to, NEW f
  PROVE  /\ Copy(part, from, to, f).part = part
         /\ Copy(part, from, to, f).must /\ Copy(part, from, to, f).can
         /\ disk[<<from, f>>] = {} => DOMAIN Copy(part, from, to, f).change = {}
         /\ disk[<<from, f>>] # {} => /\ DOMAIN Copy(part, from, to, f).change = {<<to, f>>}
                                      /\ Copy(part, from, to, f).change[<<to, f>>] = disk[<<from, f>>]
<1> DEFINE x == Copy(part, from, to, f) p == <<to, f>> v == disk[<<from, f>>]
<1>1. x.must /\ x.can BY CopyIs
<1>2. x.part = part BY DEF Copy, Step
<1>3. v # {} => IsStep(x, part, Only(p, v)) BY CopyIs
<1>4. v = {} => IsStep(x, part, Removed({})) BY CopyIs
<1> HIDE DEF x, p, v
<1>5. v = {} => DOMAIN x.change = {} BY <1>4, RemovedIs DEF IsStep
<1>6. v # {} => DOMAIN x.change = {p} /\ x.change[p] = v BY <1>3, OnlyIs DEF IsStep
<1> QED BY <1>1, <1>2, <1>5, <1>6 DEF x, p, v

LEMMA CopyTLSDoes ==
  ASSUME NEW part, NEW from, NEW to
  PROVE  /\ IsSeq(CopyTLS(part, from, to))
         /\ \A k \in DOMAIN CopyTLS(part, from, to) :
              LET step == CopyTLS(part, from, to)[k] IN
              /\ step.part = part /\ step.must /\ step.can
              /\ \A p \in DOMAIN step.change : p \in {<<to, "cert">>, <<to, "key">>, <<to, "enabled">>}
         /\ \A p : Touched(CopyTLS(part, from, to), p) => p \in {<<to, "cert">>, <<to, "key">>, <<to, "enabled">>}
         /\ \A f \in {"cert", "key"} :
              /\ disk[<<from, f>>] = {} => ~Touched(CopyTLS(part, from, to), <<to, f>>)
              /\ disk[<<from, f>>] # {} =>
                   /\ Touched(CopyTLS(part, from, to), <<to, f>>)
                   /\ \A d : Leaves(d, CopyTLS(part, from, to), <<to, f>>, disk[<<from, f>>])
<1> DEFINE x == Copy(part, from, to, "cert") y == Copy(part, from, to, "key") z == Copy(part, from, to, "enabled")
           px == <<to, "cert">> py == <<to, "key">> pz == <<to, "enabled">>
           vx == disk[<<from, "cert">>] vy == disk[<<from, "key">>]
           t == CopyTLS(part, from, to)
<1>1. /\ x.part = part /\ x.must /\ x.can
      /\ vx = {} => DOMAIN x.change = {}
      /\ vx # {} => DOMAIN x.change = {px} /\ x.change[px] = vx
  BY CopyTouches
<1>2. /\ y.part = part /\ y.must /\ y.can
      /\ vy = {} => DOMAIN y.change = {}
      /\ vy # {} => DOMAIN y.change = {py} /\ y.change[py] = vy
  BY CopyTouches
<1>3. /\ z.part = part /\ z.must /\ z.can
      /\ DOMAIN z.change \subseteq {pz}
  <2> DEFINE vz == disk[<<from, "enabled">>]
  <2>1. /\ z.part = part /\ z.must /\ z.can
        /\ vz = {} => DOMAIN z.change = {}
        /\ vz # {} => DOMAIN z.change = {pz} /\ z.change[pz] = vz
    BY CopyTouches
  <2> HIDE DEF z, vz
  <2> QED BY <2>1
<1>4. px # py /\ px # pz /\ py # pz BY PathFacts
<1>5. t = <<x, y, z>> BY TLSLists
<1> HIDE DEF x, y, z, px, py, pz, vx, vy, t
<1>6. /\ IsSeq(t) /\ \A k \in DOMAIN t : t[k] \in {x, y, z}
      /\ \A p : Touched(t, p) <=> p \in DOMAIN x.change \/ p \in DOMAIN y.change \/ p \in DOMAIN z.change
  BY <1>5, ThreeSteps
<1>7. \A k \in DOMAIN t : /\ t[k].part = part /\ t[k].must /\ t[k].can
                          /\ \A p \in DOMAIN t[k].change : p \in {px, py, pz}
  BY <1>1, <1>2, <1>3, <1>6
<1>8. \A p : Touched(t, p) => p \in {px, py, pz} BY <1>1, <1>2, <1>3, <1>6
<1>9. (vx = {} => ~Touched(t, px)) /\ (vy = {} => ~Touched(t, py)) BY <1>1, <1>2, <1>3, <1>4, <1>6
<1>10. (vx # {} => Touched(t, px)) /\ (vy # {} => Touched(t, py)) BY <1>1, <1>2, <1>3, <1>4, <1>6
<1>11. ASSUME vx # {}, NEW d PROVE Leaves(d, t, px, vx)
  <2>1. px \notin DOMAIN z.change /\ px \notin DOMAIN y.change /\ px \in DOMAIN x.change /\ x.change[px] = vx
    BY <1>11, <1>1, <1>2, <1>3, <1>4
  <2> QED BY <2>1, <1>5, ThreeSteps
<1>12. ASSUME vy # {}, NEW d PROVE Leaves(d, t, py, vy)
  <2>1. py \notin DOMAIN z.change /\ py \in DOMAIN y.change /\ y.change[py] = vy
    BY <1>12, <1>2, <1>3, <1>4
  <2> QED BY <2>1, <1>5, ThreeSteps
<1> QED BY <1>6, <1>7, <1>8, <1>9, <1>10, <1>11, <1>12 DEF px, py, pz, vx, vy, t

LEMMA RemoveTLSDoes ==
  ASSUME NEW part
  PROVE  /\ IsSeq(RemoveTLS(part, "live"))
         /\ \A k \in DOMAIN RemoveTLS(part, "live") :
              LET step == RemoveTLS(part, "live")[k] IN
              /\ step.part = part /\ step.must /\ step.can
              /\ \A p \in DOMAIN step.change : p \in {<<"live", "cert">>, <<"live", "key">>, <<"live", "enabled">>}
         /\ \A p : Touched(RemoveTLS(part, "live"), p) => p \in {<<"live", "cert">>, <<"live", "key">>, <<"live", "enabled">>}
         /\ \A f \in {"cert", "key"} :
              /\ Touched(RemoveTLS(part, "live"), <<"live", f>>)
              /\ \A d : Leaves(d, RemoveTLS(part, "live"), <<"live", f>>, {})
<1> DEFINE x == Remove(part, "live", "cert") y == Remove(part, "live", "key") z == Remove(part, "live", "enabled")
           px == <<"live", "cert">> py == <<"live", "key">> pz == <<"live", "enabled">>
           t == RemoveTLS(part, "live")
<1>1. x.part = part /\ x.change = Only(px, {}) BY RemoveIs DEF IsStep
<1>2. y.part = part /\ y.change = Only(py, {}) BY RemoveIs DEF IsStep
<1>3. z.part = part /\ z.change = Only(pz, {}) BY RemoveIs DEF IsStep
<1>4. x.must /\ x.can BY RemoveIs
<1>5. y.must /\ y.can BY RemoveIs
<1>6. z.must /\ z.can BY RemoveIs
<1>7. px # py /\ px # pz /\ py # pz BY PathFacts
<1>8. t = <<x, y, z>> BY TLSLists
<1> HIDE DEF x, y, z, px, py, pz, t
<1>9. /\ DOMAIN x.change = {px} /\ x.change[px] = {}
      /\ DOMAIN y.change = {py} /\ y.change[py] = {}
      /\ DOMAIN z.change = {pz}
  BY <1>1, <1>2, <1>3, OnlyIs
<1>10. /\ IsSeq(t) /\ \A k \in DOMAIN t : t[k] \in {x, y, z}
       /\ \A p : Touched(t, p) <=> p \in DOMAIN x.change \/ p \in DOMAIN y.change \/ p \in DOMAIN z.change
  BY <1>8, ThreeSteps
<1>11. \A k \in DOMAIN t : /\ t[k].part = part /\ t[k].must /\ t[k].can
                           /\ \A p \in DOMAIN t[k].change : p \in {px, py, pz}
  BY <1>1, <1>2, <1>3, <1>4, <1>5, <1>6, <1>9, <1>10
<1>12. /\ \A p : Touched(t, p) => p \in {px, py, pz}
       /\ Touched(t, px) /\ Touched(t, py)
  BY <1>9, <1>10
<1>13. ASSUME NEW d PROVE Leaves(d, t, px, {})
  <2>1. px \notin DOMAIN z.change /\ px \notin DOMAIN y.change /\ px \in DOMAIN x.change /\ x.change[px] = {}
    BY <1>7, <1>9
  <2> QED BY <2>1, <1>8, ThreeSteps
<1>14. ASSUME NEW d PROVE Leaves(d, t, py, {})
  <2>1. py \notin DOMAIN z.change /\ py \in DOMAIN y.change /\ y.change[py] = {} BY <1>7, <1>9
  <2> QED BY <2>1, <1>8, ThreeSteps
<1> QED BY <1>10, <1>11, <1>12, <1>13, <1>14 DEF px, py, pz, t

LEMMA CopyingConcat ==
  ASSUME NEW a, NEW b, IsSeq(a), IsSeq(b),
         \A k \in DOMAIN a : CopyingStep(a[k]), \A k \in DOMAIN b : CopyingStep(b[k])
  PROVE  IsSeq(a \o b) /\ \A k \in DOMAIN (a \o b) : CopyingStep((a \o b)[k])
BY ConcatFacts, ConcatPlaces

LEMMA ReplacingConcat ==
  ASSUME NEW c, NEW a, NEW b, IsSeq(a), IsSeq(b),
         \A k \in DOMAIN a : ReplacingStep(c, a[k]), \A k \in DOMAIN b : ReplacingStep(c, b[k])
  PROVE  IsSeq(a \o b) /\ \A k \in DOMAIN (a \o b) : ReplacingStep(c, (a \o b)[k])
BY ConcatFacts, ConcatPlaces

LEMMA NoSteps ==
  IsSeq(<<>>) /\ DOMAIN <<>> = {}
<1>1. <<>> \in Seq({}) /\ DOMAIN <<>> = {} OBVIOUS
<1> QED BY <1>1 DEF IsSeq

LEMMA FourLast ==
  ASSUME NEW w, NEW x, NEW y, NEW z, NEW d, NEW p, NEW v,
         p \notin DOMAIN z.change, p \notin DOMAIN y.change, p \notin DOMAIN x.change,
         p \in DOMAIN w.change, w.change[p] = v
  PROVE  Leaves(d, <<w, x, y, z>>, p, v)
<1> DEFINE t == <<w, x, y, z>>
<1>1. /\ DOMAIN t = {1, 2, 3, 4} /\ t[1] = w /\ t[2] = x /\ t[3] = y /\ t[4] = z
  OBVIOUS
<1> HIDE DEF t
<1>2. Leaves(d, t, p, v) BY <1>1 DEF Leaves
<1> QED BY <1>2 DEF t

LEMMA FourSecond ==
  ASSUME NEW w, NEW x, NEW y, NEW z, NEW d, NEW p, NEW v,
         p \notin DOMAIN z.change, p \notin DOMAIN y.change, p \in DOMAIN x.change, x.change[p] = v
  PROVE  Leaves(d, <<w, x, y, z>>, p, v)
BY FourSteps

\* The copies of what will be replaced.
LEMMA CopyOutDatabase ==
  ASSUME NEW b, disk[<<"pending", "restore.json">>] = {b}, disk[<<"live", "db">>] # {},
         NEW t, t = << RemoveAll("copying", "rollback"), Copy("copying", "live", "rollback", "db"),
                       Copy("copying", "live", "rollback", "wal"),
                       Copy("copying", "pending", "rollback", "restore.json") >>
  PROVE  /\ IsSeq(t) /\ \A k \in DOMAIN t : CopyingStep(t[k])
         /\ \A d : /\ Leaves(d, t, <<"rollback", "db">>, disk[<<"live", "db">>])
                   /\ Leaves(d, t, <<"rollback", "wal">>, disk[<<"live", "wal">>])
                   /\ Leaves(d, t, <<"rollback", "restore.json">>, {b})
                   /\ Leaves(d, t, <<"rollback", "cert">>, {}) /\ Leaves(d, t, <<"rollback", "key">>, {})
<1> DEFINE w == RemoveAll("copying", "rollback") x == Copy("copying", "live", "rollback", "db")
           y == Copy("copying", "live", "rollback", "wal") z == Copy("copying", "pending", "rollback", "restore.json")
           px == <<"rollback", "db">> py == <<"rollback", "wal">> pz == <<"rollback", "restore.json">>
           pc == <<"rollback", "cert">> pk == <<"rollback", "key">>
           vx == disk[<<"live", "db">>] vy == disk[<<"live", "wal">>]
<1>1. w.part = "copying" /\ w.change = Removed(In("rollback")) BY RemoveAllIs DEF IsStep
<1>2. w.must /\ w.can BY RemoveAllIs
<1>3. /\ x.part = "copying" /\ x.must /\ x.can
      /\ DOMAIN x.change = {px} /\ x.change[px] = vx
  <2>1. /\ x.part = "copying" /\ x.must /\ x.can
        /\ vx = {} => DOMAIN x.change = {}
        /\ vx # {} => DOMAIN x.change = {px} /\ x.change[px] = vx
    BY CopyTouches
  <2> QED BY <2>1
<1>4. /\ y.part = "copying" /\ y.must /\ y.can
      /\ vy = {} => DOMAIN y.change = {}
      /\ vy # {} => DOMAIN y.change = {py} /\ y.change[py] = vy
  BY CopyTouches
<1>5. /\ z.part = "copying" /\ z.must /\ z.can
      /\ DOMAIN z.change = {pz} /\ z.change[pz] = {b}
  <2> DEFINE vz == disk[<<"pending", "restore.json">>]
  <2>1. /\ z.part = "copying" /\ z.must /\ z.can
        /\ vz = {} => DOMAIN z.change = {}
        /\ vz # {} => DOMAIN z.change = {pz} /\ z.change[pz] = vz
    BY CopyTouches
  <2>2. vz = {b} /\ vz # {} OBVIOUS
  <2> HIDE DEF vz, z, pz
  <2> QED BY <2>1, <2>2
<1>6. /\ px # py /\ px # pz /\ py # pz /\ pc # px /\ pc # py /\ pc # pz /\ pk # px /\ pk # py /\ pk # pz
      /\ px \in In("rollback") /\ py \in In("rollback") /\ pz \in In("rollback")
      /\ pc \in In("rollback") /\ pk \in In("rollback")
  BY PathFacts DEF File
<1>7. t = <<w, x, y, z>> OBVIOUS
<1> HIDE DEF w, x, y, z, px, py, pz, pc, pk, vx, vy
<1>8. DOMAIN w.change = In("rollback") /\ \A p \in In("rollback") : w.change[p] = {} BY <1>1, RemovedIs
<1>9. \A step \in {w, x, y, z} : CopyingStep(step)
  BY <1>1, <1>2, <1>3, <1>4, <1>5, <1>6, <1>8 DEF CopyingStep
<1>10. IsSeq(t) /\ \A k \in DOMAIN t : CopyingStep(t[k])
  <2>1. IsSeq(t) /\ \A k \in DOMAIN t : t[k] \in {w, x, y, z} BY <1>7, FourSteps
  <2> QED BY <2>1, <1>9
<1>11. ASSUME NEW d
       PROVE  /\ Leaves(d, t, px, vx) /\ Leaves(d, t, py, vy) /\ Leaves(d, t, pz, {b})
              /\ Leaves(d, t, pc, {}) /\ Leaves(d, t, pk, {})
  <2>1. Leaves(d, <<w, x, y, z>>, px, vx)
    <3>1. px \notin DOMAIN z.change /\ px \notin DOMAIN y.change /\ px \in DOMAIN x.change /\ x.change[px] = vx
      BY <1>3, <1>4, <1>5, <1>6
    <3> QED BY <3>1, FourSecond
  <2>2. Leaves(d, <<w, x, y, z>>, pz, {b})
    <3>1. pz \in DOMAIN z.change /\ z.change[pz] = {b} BY <1>5
    <3> QED BY <3>1, FourSteps
  <2>3. \A p : p \notin DOMAIN z.change /\ p \notin DOMAIN y.change /\ p \notin DOMAIN x.change /\ p \in In("rollback")
          => Leaves(d, <<w, x, y, z>>, p, {})
    BY <1>8, FourLast
  <2>4. Leaves(d, <<w, x, y, z>>, py, vy)
    <3>1. CASE vy = {}
      <4>1. py \notin DOMAIN z.change /\ py \notin DOMAIN y.change /\ py \notin DOMAIN x.change
        BY <3>1, <1>3, <1>4, <1>5, <1>6
      <4> QED BY <4>1, <2>3, <3>1, <1>6
    <3>2. CASE vy # {}
      <4>1. py \notin DOMAIN z.change /\ py \in DOMAIN y.change /\ y.change[py] = vy
        BY <3>2, <1>4, <1>5, <1>6
      <4> QED BY <4>1, FourSteps
    <3> QED BY <3>1, <3>2
  <2>5. Leaves(d, <<w, x, y, z>>, pc, {}) /\ Leaves(d, <<w, x, y, z>>, pk, {})
    <3>1. /\ pc \notin DOMAIN z.change /\ pc \notin DOMAIN y.change /\ pc \notin DOMAIN x.change
          /\ pk \notin DOMAIN z.change /\ pk \notin DOMAIN y.change /\ pk \notin DOMAIN x.change
      BY <1>3, <1>4, <1>5, <1>6
    <3> QED BY <3>1, <2>3, <1>6
  <2> QED BY <2>1, <2>2, <2>4, <2>5, <1>7
<1> QED BY <1>10, <1>11 DEF px, py, pz, pc, pk, vx, vy

LEMMA CopyOutDoes ==
  ASSUME NEW b \in BOOLEAN, disk[<<"pending", "restore.json">>] = {b}, disk[<<"live", "db">>] # {}
  PROVE  /\ IsSeq(CopyOut) /\ \A k \in DOMAIN CopyOut : CopyingStep(CopyOut[k])
         /\ \A d : /\ Leaves(d, CopyOut, <<"rollback", "db">>, disk[<<"live", "db">>])
                   /\ Leaves(d, CopyOut, <<"rollback", "wal">>, disk[<<"live", "wal">>])
                   /\ Leaves(d, CopyOut, <<"rollback", "restore.json">>, {b})
                   /\ b => /\ Leaves(d, CopyOut, <<"rollback", "cert">>, disk[<<"live", "cert">>])
                           /\ Leaves(d, CopyOut, <<"rollback", "key">>, disk[<<"live", "key">>])
<1> DEFINE t == << RemoveAll("copying", "rollback"), Copy("copying", "live", "rollback", "db"),
                   Copy("copying", "live", "rollback", "wal"),
                   Copy("copying", "pending", "rollback", "restore.json") >>
           c == CopyTLS("copyingTLS", "live", "rollback")
           u == IF Scope("pending") THEN c ELSE <<>>
           pd == <<"rollback", "db">> pw == <<"rollback", "wal">> pr == <<"rollback", "restore.json">>
           pc == <<"rollback", "cert">> pk == <<"rollback", "key">> pe == <<"rollback", "enabled">>
           vd == disk[<<"live", "db">>] vw == disk[<<"live", "wal">>]
           vc == disk[<<"live", "cert">>] vk == disk[<<"live", "key">>]
<1>1. CopyOut = t \o u BY DEF CopyOut
<1>2. /\ IsSeq(t) /\ \A k \in DOMAIN t : CopyingStep(t[k])
      /\ \A d : /\ Leaves(d, t, pd, vd) /\ Leaves(d, t, pw, vw) /\ Leaves(d, t, pr, {b})
                /\ Leaves(d, t, pc, {}) /\ Leaves(d, t, pk, {})
  BY CopyOutDatabase
<1>3. Scope("pending") <=> b BY DEF Scope, Has
<1>4. /\ IsSeq(c)
      /\ \A k \in DOMAIN c : /\ c[k].part = "copyingTLS" /\ c[k].must /\ c[k].can
                             /\ \A p \in DOMAIN c[k].change : p \in {pc, pk, pe}
      /\ \A p : Touched(c, p) => p \in {pc, pk, pe}
  BY CopyTLSDoes
<1>5. /\ vc = {} => ~Touched(c, pc)
      /\ vc # {} => Touched(c, pc) /\ \A d : Leaves(d, c, pc, vc)
  BY CopyTLSDoes
<1>6. /\ vk = {} => ~Touched(c, pk)
      /\ vk # {} => Touched(c, pk) /\ \A d : Leaves(d, c, pk, vk)
  BY CopyTLSDoes
<1>7. /\ pd \notin {pc, pk, pe} /\ pw \notin {pc, pk, pe} /\ pr \notin {pc, pk, pe}
      /\ \A p \in {pc, pk, pe} : p \in In("rollback")
  BY PathFacts DEF File
<1>8. u = IF b THEN c ELSE <<>> BY <1>3
<1> HIDE DEF t, c, u, pd, pw, pr, pc, pk, pe, vd, vw, vc, vk
<1>9. \A k \in DOMAIN c : CopyingStep(c[k]) BY <1>4, <1>7 DEF CopyingStep
<1>10. IsSeq(u) /\ \A k \in DOMAIN u : CopyingStep(u[k]) BY <1>4, <1>8, <1>9, NoSteps
<1>11. ~Touched(u, pd) /\ ~Touched(u, pw) /\ ~Touched(u, pr)
  <2>1. CASE b BY <2>1, <1>4, <1>7, <1>8
  <2>2. CASE ~b BY <2>2, <1>8, NothingTouched
  <2> QED BY <2>1, <2>2
<1>12. IsSeq(t \o u) /\ \A k \in DOMAIN (t \o u) : CopyingStep((t \o u)[k])
  BY <1>2, <1>10, CopyingConcat
<1>13. \A d : Leaves(d, t \o u, pd, vd) /\ Leaves(d, t \o u, pw, vw) /\ Leaves(d, t \o u, pr, {b})
  BY <1>2, <1>10, <1>11, LeavesEarlier
<1>14. ASSUME b, NEW d PROVE Leaves(d, t \o u, pc, vc) /\ Leaves(d, t \o u, pk, vk)
  <2>1. u = c BY <1>8, <1>14
  <2>2. Leaves(d, t \o u, pc, vc)
    <3>1. CASE vc = {} BY <3>1, <2>1, <1>2, <1>5, <1>10, LeavesEarlier
    <3>2. CASE vc # {} BY <3>2, <2>1, <1>2, <1>5, <1>10, LeavesLater
    <3> QED BY <3>1, <3>2
  <2>3. Leaves(d, t \o u, pk, vk)
    <3>1. CASE vk = {} BY <3>1, <2>1, <1>2, <1>6, <1>10, LeavesEarlier
    <3>2. CASE vk # {} BY <3>2, <2>1, <1>2, <1>6, <1>10, LeavesLater
    <3> QED BY <3>1, <3>2
  <2> QED BY <2>2, <2>3
<1> QED BY <1>1, <1>12, <1>13, <1>14 DEF pd, pw, pr, pc, pk, vd, vw, vc, vk

\* A step of the replacing part that does not touch the marker, and of the
\* staged files at most the database.
LEMMA PlainReplacing ==
  ASSUME NEW b, NEW step, step.part = "replacing", step.must,
         \A p \in DOMAIN step.change :
           \/ p \in {<<"live", "db">>, <<"live", "wal">>}
           \/ p = <<"pending", "db">> /\ step.change[p] = {}
           \/ b /\ p \in {<<"live", "cert">>, <<"live", "key">>, <<"live", "enabled">>}
  PROVE  ReplacingStep(b, step)
<1> DEFINE pa == <<"live", "applied">> pc == <<"live", "cert">> pk == <<"live", "key">> pp == <<"pending", "db">>
           S == {<<"live", "db">>, <<"live", "wal">>} T == {<<"live", "cert">>, <<"live", "key">>, <<"live", "enabled">>}
<1>1. \A p \in S \union T : p \notin In("rollback") /\ p \notin In("pending") BY PathFacts
<1>2. pp \notin In("rollback") BY PathFacts
<1>3. pa \notin S \union T /\ pa # pp BY PathFacts
<1>4. pc \notin S /\ pk \notin S /\ pc # pp /\ pk # pp BY PathFacts
<1>5. \A p \in DOMAIN step.change : p \in S \/ (p = pp /\ step.change[p] = {}) \/ (b /\ p \in T) OBVIOUS
<1> HIDE DEF pa, pc, pk, pp, S, T
<1>6. \A p \in DOMAIN step.change : p \notin In("rollback") /\ (p \in In("pending") => step.change[p] = {})
  BY <1>1, <1>2, <1>5
<1>7. pa \notin DOMAIN step.change BY <1>3, <1>5
<1>8. ~b => pc \notin DOMAIN step.change /\ pk \notin DOMAIN step.change BY <1>4, <1>5
<1>9. \A p \in In("pending") : p \in DOMAIN step.change => p = pp BY <1>1, <1>5
<1> QED BY <1>6, <1>7, <1>8, <1>9 DEF ReplacingStep, pa, pc, pk, pp

\* The database is replaced.
LEMMA ReplaceDatabase ==
  ASSUME NEW b \in BOOLEAN,
         NEW t, t = << Remove("replacing", "live", "db"), Remove("replacing", "live", "wal"),
                       Move("replacing", "pending", "live", "db") >>
  PROVE  /\ IsSeq(t) /\ \A k \in DOMAIN t : ReplacingStep(b, t[k])
         /\ \A d : Leaves(d, t, <<"live", "db">>, disk[<<"pending", "db">>])
         /\ \A p : Touched(t, p) => p \in {<<"live", "db">>, <<"live", "wal">>, <<"pending", "db">>}
         /\ disk[<<"pending", "db">>] = {} => \E k \in DOMAIN t : ~t[k].can
<1> DEFINE x == Remove("replacing", "live", "db") y == Remove("replacing", "live", "wal")
           z == Move("replacing", "pending", "live", "db")
           pd == <<"live", "db">> pw == <<"live", "wal">> pp == <<"pending", "db">>
           v == disk[<<"pending", "db">>]
<1>1. x.part = "replacing" /\ x.change = Only(pd, {}) BY RemoveIs DEF IsStep
<1>2. y.part = "replacing" /\ y.change = Only(pw, {}) BY RemoveIs DEF IsStep
<1>3. z.part = "replacing" /\ z.change = MoveChange("pending", "live", "db")
  <2>1. IsStep(z, "replacing", MoveChange("pending", "live", "db")) BY MoveIs
  <2> HIDE DEF z
  <2> QED BY <2>1 DEF IsStep
<1>4. x.must BY RemoveIs
<1>5. y.must BY RemoveIs
<1>6. z.must BY MoveIs
<1>7. v = {} => ~z.can BY MoveIs DEF Has
<1>8. t = <<x, y, z>> OBVIOUS
<1>9. "live" # "pending" OBVIOUS
<1>10. DOMAIN MoveChange("pending", "live", "db") = {pd, pp} /\ MoveChange("pending", "live", "db")[pd] = v
       /\ MoveChange("pending", "live", "db")[pp] = {}
  BY <1>9, MoveChangeIs
<1> HIDE DEF x, y, z, v
<1>11. DOMAIN x.change = {pd} /\ DOMAIN y.change = {pw} BY <1>1, <1>2, OnlyIs
<1>12. DOMAIN z.change = {pd, pp} /\ z.change[pd] = v /\ z.change[pp] = {} BY <1>3, <1>10
<1>13. ReplacingStep(b, x)
  <2>1. \A p \in DOMAIN x.change : p \in {<<"live", "db">>, <<"live", "wal">>} BY <1>11
  <2> QED BY <1>1, <1>4, <2>1, PlainReplacing
<1>14. ReplacingStep(b, y)
  <2>1. \A p \in DOMAIN y.change : p \in {<<"live", "db">>, <<"live", "wal">>} BY <1>11
  <2> QED BY <1>2, <1>5, <2>1, PlainReplacing
<1>15. ReplacingStep(b, z)
  <2>1. \A p \in DOMAIN z.change : p \in {<<"live", "db">>, <<"live", "wal">>} \/ (p = <<"pending", "db">> /\ z.change[p] = {})
    BY <1>12
  <2> QED BY <1>3, <1>6, <2>1, PlainReplacing
<1> HIDE DEF pd, pw, pp
<1>16. /\ IsSeq(t) /\ \A k \in DOMAIN t : t[k] \in {x, y, z}
       /\ \A p : Touched(t, p) <=> p \in DOMAIN x.change \/ p \in DOMAIN y.change \/ p \in DOMAIN z.change
  BY <1>8, ThreeSteps
<1>17. \A k \in DOMAIN t : ReplacingStep(b, t[k]) BY <1>13, <1>14, <1>15, <1>16
<1>18. \A p : Touched(t, p) => p \in {pd, pw, pp} BY <1>11, <1>12, <1>16
<1>19. ASSUME NEW d PROVE Leaves(d, t, pd, v)
  <2>1. pd \in DOMAIN z.change /\ z.change[pd] = v BY <1>12
  <2> QED BY <2>1, <1>8, ThreeSteps
<1>20. v = {} => \E k \in DOMAIN t : ~t[k].can
  <2>1. 3 \in DOMAIN <<x, y, z>> /\ <<x, y, z>>[3] = z OBVIOUS
  <2> QED BY <2>1, <1>7, <1>8
<1> QED BY <1>16, <1>17, <1>18, <1>19, <1>20 DEF pd, pw, pp, v

LEMMA KeepsUnable ==
  ASSUME NEW a, NEW b, IsSeq(a), IsSeq(b), \E k \in DOMAIN a : ~a[k].can
  PROVE  \E k \in DOMAIN (a \o b) : ~(a \o b)[k].can
<1>1. PICK k \in DOMAIN a : ~a[k].can OBVIOUS
<1>2. /\ Len(a) \in Nat /\ Len(b) \in Nat /\ DOMAIN a = 1..Len(a)
      /\ DOMAIN (a \o b) = 1..(Len(a) + Len(b)) /\ (a \o b)[k] = a[k]
  BY ConcatFacts
<1>3. k \in DOMAIN (a \o b) BY <1>2
<1> QED BY <1>1, <1>2, <1>3

LEMMA ReplaceDoes ==
  ASSUME NEW b \in BOOLEAN, disk[<<"pending", "restore.json">>] = {b}
  PROVE  /\ IsSeq(Replace) /\ \A k \in DOMAIN Replace : ReplacingStep(b, Replace[k])
         /\ \A d : Leaves(d, Replace, <<"live", "db">>, disk[<<"pending", "db">>])
         /\ b => \A d : /\ Leaves(d, Replace, <<"live", "cert">>, disk[<<"pending", "cert">>])
                        /\ Leaves(d, Replace, <<"live", "key">>, disk[<<"pending", "key">>])
         /\ ~b => ~Touched(Replace, <<"live", "cert">>) /\ ~Touched(Replace, <<"live", "key">>)
         /\ ~Touched(Replace, <<"live", "applied">>)
         /\ \A d : \A p \in In("pending") : Leaves(d, Replace, p, {})
         /\ disk[<<"pending", "db">>] = {} => \E k \in DOMAIN Replace : ~Replace[k].can
<1> DEFINE rt == RemoveTLS("replacing", "live") ct == CopyTLS("replacing", "pending", "live")
           r == IF Scope("pending") THEN rt ELSE <<>>
           m == << Remove("replacing", "live", "db"), Remove("replacing", "live", "wal"),
                   Move("replacing", "pending", "live", "db") >>
           c == IF Scope("pending") THEN ct ELSE <<>>
           x == RemoveAll("replacing", "pending")
           e == <<x>>
           pd == <<"live", "db">> pw == <<"live", "wal">> pp == <<"pending", "db">> pa == <<"live", "applied">>
           pc == <<"live", "cert">> pk == <<"live", "key">> pe == <<"live", "enabled">>
           vd == disk[<<"pending", "db">>] vc == disk[<<"pending", "cert">>] vk == disk[<<"pending", "key">>]
<1>1. Replace = ((r \o m) \o c) \o e BY DEF Replace
<1>2. Scope("pending") <=> b BY DEF Scope, Has
<1>3. r = (IF b THEN rt ELSE <<>>) /\ c = (IF b THEN ct ELSE <<>>) BY <1>2
<1>4. /\ IsSeq(m) /\ \A k \in DOMAIN m : ReplacingStep(b, m[k])
      /\ \A d : Leaves(d, m, pd, vd)
      /\ \A p : Touched(m, p) => p \in {pd, pw, pp}
      /\ vd = {} => \E k \in DOMAIN m : ~m[k].can
  BY ReplaceDatabase
<1>5. /\ IsSeq(rt) /\ \A k \in DOMAIN rt : /\ rt[k].part = "replacing" /\ rt[k].must
                                           /\ \A p \in DOMAIN rt[k].change : p \in {pc, pk, pe}
      /\ \A p : Touched(rt, p) => p \in {pc, pk, pe}
      /\ Touched(rt, pc) /\ Touched(rt, pk)
      /\ \A d : Leaves(d, rt, pc, {}) /\ Leaves(d, rt, pk, {})
  BY RemoveTLSDoes
<1>6. /\ IsSeq(ct) /\ \A k \in DOMAIN ct : /\ ct[k].part = "replacing" /\ ct[k].must
                                           /\ \A p \in DOMAIN ct[k].change : p \in {pc, pk, pe}
      /\ \A p : Touched(ct, p) => p \in {pc, pk, pe}
  <2>1. /\ IsSeq(ct)
        /\ \A k \in DOMAIN ct : LET step == ct[k] IN
             /\ step.part = "replacing" /\ step.must /\ step.can
             /\ \A p \in DOMAIN step.change : p \in {pc, pk, pe}
        /\ \A p : Touched(ct, p) => p \in {pc, pk, pe}
    BY CopyTLSDoes
  <2> HIDE DEF ct, pc, pk, pe
  <2> QED BY <2>1
<1>7. /\ vc = {} => ~Touched(ct, pc)
      /\ vc # {} => Touched(ct, pc) /\ \A d : Leaves(d, ct, pc, vc)
      /\ vk = {} => ~Touched(ct, pk)
      /\ vk # {} => Touched(ct, pk) /\ \A d : Leaves(d, ct, pk, vk)
  BY CopyTLSDoes
<1>8. x.part = "replacing" /\ x.change = Removed(In("pending")) BY RemoveAllIs DEF IsStep
<1>9. x.must BY RemoveAllIs
<1>10. b => \A k \in DOMAIN rt : ReplacingStep(b, rt[k]) BY <1>5, PlainReplacing
<1>11. b => \A k \in DOMAIN ct : ReplacingStep(b, ct[k]) BY <1>6, PlainReplacing
<1>12. /\ pd \notin {pc, pk, pe} /\ pa \notin {pc, pk, pe} /\ pa \notin {pd, pw, pp}
       /\ pc \notin {pd, pw, pp} /\ pk \notin {pd, pw, pp}
       /\ pd \notin In("pending") /\ pc \notin In("pending") /\ pk \notin In("pending") /\ pa \notin In("pending")
  BY PathFacts
<1>13. ReplacingStep(b, x)
  <2>1. DOMAIN x.change = In("pending") /\ \A p \in In("pending") : x.change[p] = {} BY <1>8, RemovedIs
  <2>2. \A p \in In("pending") : p \notin In("rollback") BY PathFacts
  <2> HIDE DEF x, pd, pw, pp, pa, pc, pk, pe
  <2>3. pc \notin DOMAIN x.change /\ pk \notin DOMAIN x.change /\ pa \notin DOMAIN x.change BY <1>12, <2>1
  <2> QED BY <1>8, <1>9, <2>1, <2>2, <2>3 DEF ReplacingStep, pa, pc, pk
<1> HIDE DEF rt, ct, r, m, c, x, e, pd, pw, pp, pa, pc, pk, pe, vd, vc, vk
<1>14. DOMAIN x.change = In("pending") /\ \A p \in In("pending") : x.change[p] = {} BY <1>8, RemovedIs
<1>15. /\ IsSeq(e) /\ \A k \in DOMAIN e : ReplacingStep(b, e[k])
       /\ \A p : Touched(e, p) <=> p \in In("pending")
       /\ \A d : \A p \in In("pending") : Leaves(d, e, p, {})
  BY <1>13, <1>14, OneStep DEF e
<1>16. IsSeq(r) /\ \A k \in DOMAIN r : ReplacingStep(b, r[k]) BY <1>3, <1>5, <1>10, NoSteps
<1>17. IsSeq(c) /\ \A k \in DOMAIN c : ReplacingStep(b, c[k]) BY <1>3, <1>6, <1>11, NoSteps
<1>18. (\A p : Touched(r, p) => b /\ p \in {pc, pk, pe}) /\ (\A p : Touched(c, p) => b /\ p \in {pc, pk, pe})
  BY <1>3, <1>5, <1>6, NothingTouched
<1>19. IsSeq(r \o m) /\ \A k \in DOMAIN (r \o m) : ReplacingStep(b, (r \o m)[k])
  BY <1>4, <1>16, ReplacingConcat
<1>20. IsSeq((r \o m) \o c) /\ \A k \in DOMAIN ((r \o m) \o c) : ReplacingStep(b, ((r \o m) \o c)[k])
  BY <1>17, <1>19, ReplacingConcat
<1>21. IsSeq(Replace) /\ \A k \in DOMAIN Replace : ReplacingStep(b, Replace[k])
  BY <1>1, <1>15, <1>20, ReplacingConcat
<1>22. \A p : Touched((r \o m) \o c, p) => p \in {pd, pw, pp} \/ (b /\ p \in {pc, pk, pe})
  BY <1>4, <1>16, <1>17, <1>18, <1>19, TouchedConcat
<1>23. \A p : Touched(Replace, p) => p \in {pd, pw, pp} \/ (b /\ p \in {pc, pk, pe}) \/ p \in In("pending")
  BY <1>1, <1>15, <1>20, <1>22, TouchedConcat
<1>24. ~Touched(Replace, pa) /\ (~b => ~Touched(Replace, pc) /\ ~Touched(Replace, pk))
  BY <1>12, <1>23
<1>25. ASSUME NEW d PROVE Leaves(d, Replace, pd, vd)
  <2>1. Leaves(d, m, pd, vd) BY <1>4
  <2>2. ~Touched(r, pd) /\ ~Touched(c, pd) /\ ~Touched(e, pd) BY <1>12, <1>15, <1>18
  <2>3. Leaves(d, r \o m, pd, vd) BY <2>1, <2>2, <1>4, <1>16, LeavesLater
  <2>4. Leaves(d, (r \o m) \o c, pd, vd) BY <2>2, <2>3, <1>17, <1>19, LeavesEarlier
  <2> QED BY <2>2, <2>4, <1>1, <1>15, <1>20, LeavesEarlier
<1>26. ASSUME b, NEW d PROVE Leaves(d, Replace, pc, vc) /\ Leaves(d, Replace, pk, vk)
  <2>1. r = rt /\ c = ct BY <1>26, <1>3
  <2>2. ~Touched(m, pc) /\ ~Touched(m, pk) /\ ~Touched(e, pc) /\ ~Touched(e, pk) BY <1>4, <1>12, <1>15
  <2>3. Leaves(d, r, pc, {}) /\ Leaves(d, r, pk, {}) BY <2>1, <1>5
  <2>4. Leaves(d, r \o m, pc, {}) /\ Leaves(d, r \o m, pk, {}) BY <2>2, <2>3, <1>4, <1>16, LeavesEarlier
  <2>5. Leaves(d, (r \o m) \o c, pc, vc)
    <3>1. CASE vc = {} BY <3>1, <2>1, <2>4, <1>7, <1>17, <1>19, LeavesEarlier
    <3>2. CASE vc # {} BY <3>2, <2>1, <1>7, <1>17, <1>19, LeavesLater
    <3> QED BY <3>1, <3>2
  <2>6. Leaves(d, (r \o m) \o c, pk, vk)
    <3>1. CASE vk = {} BY <3>1, <2>1, <2>4, <1>7, <1>17, <1>19, LeavesEarlier
    <3>2. CASE vk # {} BY <3>2, <2>1, <1>7, <1>17, <1>19, LeavesLater
    <3> QED BY <3>1, <3>2
  <2> QED BY <2>2, <2>5, <2>6, <1>1, <1>15, <1>20, LeavesEarlier
<1>27. ASSUME NEW d, NEW p \in In("pending") PROVE Leaves(d, Replace, p, {})
  BY <1>1, <1>15, <1>20, LeavesLater
<1>28. ASSUME vd = {} PROVE \E k \in DOMAIN Replace : ~Replace[k].can
  <2>1. PICK k \in DOMAIN m : ~m[k].can BY <1>4, <1>28
  <2>2. \E j \in DOMAIN (r \o m) : ~(r \o m)[j].can
    <3>1. /\ Len(r) \in Nat /\ Len(m) \in Nat /\ DOMAIN m = 1..Len(m) /\ DOMAIN (r \o m) = 1..(Len(r) + Len(m))
          /\ (r \o m)[Len(r) + k] = m[k]
      BY <1>4, <1>16, <2>1, ConcatFacts
    <3>2. Len(r) + k \in DOMAIN (r \o m) BY <3>1, <2>1
    <3> QED BY <3>1, <3>2, <2>1
  <2>3. \E j \in DOMAIN ((r \o m) \o c) : ~((r \o m) \o c)[j].can
    BY <2>2, <1>17, <1>19, KeepsUnable
  <2> QED BY <2>3, <1>1, <1>15, <1>20, KeepsUnable
<1> QED BY <1>21, <1>24, <1>25, <1>26, <1>27, <1>28 DEF pd, pa, pc, pk, vd, vc, vk

-----------------------------------------------------------------------------
(* A restore starts.                                                         *)

LEMMA ConcatTwice ==
  ASSUME NEW a, NEW b, NEW c, IsSeq(a), IsSeq(b), IsSeq(c)
  PROVE  (a \o b) \o c = a \o (b \o c)
<1>1. PICK U : a \in Seq(U) BY DEF IsSeq
<1>2. PICK V : b \in Seq(V) BY DEF IsSeq
<1>3. PICK W : c \in Seq(W) BY DEF IsSeq
<1> DEFINE S == U \union V \union W
<1>4. a \in Seq(S) /\ b \in Seq(S) /\ c \in Seq(S) BY <1>1, <1>2, <1>3
<1> HIDE DEF S
<1> QED BY <1>4, ConcatAssociative

\* The copies, then a marker and the replacement.
LEMMA CopyThenReplace ==
  ASSUME NEW b, NEW a, NEW c, IsSeq(a), IsSeq(c), c # <<>>, IsMark(c[1]),
         \A k \in DOMAIN a : CopyingStep(a[k]), \A k \in DOMAIN c : ReplacingStep(b, c[k])
  PROVE  ApplyingSteps(b, a \o c) /\ MarksFirst(FALSE, b, a \o c)
<1> DEFINE t == a \o c
<1>1. /\ IsSeq(t) /\ Len(a) \in Nat /\ DOMAIN a = 1..Len(a) /\ Len(c) \in Nat /\ DOMAIN c = 1..Len(c)
      /\ DOMAIN t = 1..(Len(a) + Len(c))
      /\ \A k \in DOMAIN a : t[k] = a[k]
      /\ \A k \in DOMAIN c : t[Len(a) + k] = c[k]
  <2>1. IsSeq(t) /\ Len(a) \in Nat /\ DOMAIN a = 1..Len(a) /\ Len(c) \in Nat /\ DOMAIN c = 1..Len(c)
    BY ConcatFacts
  <2>2. DOMAIN t = 1..(Len(a) + Len(c)) BY ConcatFacts
  <2>3. \A k \in DOMAIN a : t[k] = a[k] BY ConcatFacts
  <2>4. \A k \in DOMAIN c : t[Len(a) + k] = c[k] BY ConcatFacts
  <2> HIDE DEF t
  <2> QED BY <2>1, <2>2, <2>3, <2>4
<1>2. \A k \in DOMAIN t : \/ k \in DOMAIN a /\ t[k] = a[k]
                          \/ k - Len(a) \in DOMAIN c /\ k > Len(a) /\ t[k] = c[k - Len(a)]
  BY ConcatPlaces
<1>3. 1 \in DOMAIN c /\ Len(c) >= 1 BY Rest, <1>1
<1> HIDE DEF t
<1>4. \A k \in DOMAIN t : CopyingStep(t[k]) \/ ReplacingStep(b, t[k]) BY <1>2
<1>5. ASSUME NEW k \in DOMAIN t, NEW m \in DOMAIN t, k < m, CopyingStep(t[m]) PROVE CopyingStep(t[k])
  <2>1. m \in DOMAIN a
    <3>1. CASE m - Len(a) \in DOMAIN c /\ t[m] = c[m - Len(a)]
      <4>1. ReplacingStep(b, t[m]) BY <3>1
      <4> QED BY <4>1, <1>5 DEF CopyingStep, ReplacingStep
    <3> QED BY <3>1, <1>2
  <2>2. k \in DOMAIN a BY <2>1, <1>1, <1>5
  <2> QED BY <2>2, <1>1
<1>6. ApplyingSteps(b, t) BY <1>1, <1>4, <1>5 DEF ApplyingSteps
<1>7. ASSUME NEW k \in DOMAIN t PROVE CopyingStep(t[k]) \/ \E m \in DOMAIN t : m <= k /\ IsMark(t[m])
  <2>1. CASE k \in DOMAIN a /\ t[k] = a[k] BY <2>1
  <2>2. CASE k - Len(a) \in DOMAIN c /\ k > Len(a)
    <3>1. Len(a) + 1 \in DOMAIN t /\ t[Len(a) + 1] = c[1] /\ Len(a) + 1 <= k BY <2>2, <1>1, <1>3
    <3> QED BY <3>1
  <2> QED BY <2>1, <2>2, <1>2
<1>8. MarksFirst(FALSE, b, t) BY <1>7 DEF MarksFirst
<1> QED BY <1>6, <1>8 DEF t

\* What is staged is what was staged.
LEMMA StagedKept ==
  ASSUME NEW d, NEW s, PendingKept(d, s), PendingShape(s), ~Cleared(d)
  PROVE  \E b \in BOOLEAN :
           /\ s[<<"pending", "restore.json">>] = {b} /\ d[<<"pending", "restore.json">>] = {b}
           /\ d[<<"pending", "cert">>] = s[<<"pending", "cert">>]
           /\ d[<<"pending", "key">>] = s[<<"pending", "key">>]
           /\ d[<<"pending", "db">>] # {} => \E y : /\ Good(y) /\ s[<<"pending", "db">>] = {y}
                                                    /\ d[<<"pending", "db">>] = {y}
<1> DEFINE pd == <<"pending", "db">> pr == <<"pending", "restore.json">>
           pc == <<"pending", "cert">> pk == <<"pending", "key">>
<1>1. pd \in In("pending") /\ pr \in In("pending") /\ pc \in In("pending") /\ pk \in In("pending")
  BY DEF In, File
<1>2. pr # pd /\ pc # pd /\ pk # pd OBVIOUS
<1> HIDE DEF pd, pr, pc, pk
<1>3. \A p \in In("pending") : d[p] = s[p] \/ (p = pd /\ d[p] = {}) BY DEF PendingKept, pd
<1>4. ~Cleared(s)
  <2>1. PICK p \in In("pending") : d[p] # {} BY DEF Cleared
  <2> QED BY <2>1, <1>3 DEF Cleared
<1>5. /\ \E b \in BOOLEAN : s[pr] = {b}
      /\ s[pd] # {} => \E y : s[pd] = {y} /\ Good(y)
  BY <1>4 DEF PendingShape, pr, pd
<1>6. d[pr] = s[pr] /\ d[pc] = s[pc] /\ d[pk] = s[pk] BY <1>1, <1>2, <1>3
<1>7. d[pd] # {} => d[pd] = s[pd] BY <1>1, <1>3
<1>8. PICK b \in BOOLEAN : s[pr] = {b} BY <1>5
<1>9. d[pd] # {} => \E y : Good(y) /\ s[pd] = {y} /\ d[pd] = {y} BY <1>5, <1>7
<1> QED BY <1>6, <1>8, <1>9 DEF pd, pr, pc, pk
\* A list with a step that cannot be done, after another list.
LEMMA LaterUnable ==
  ASSUME NEW a, NEW c, IsSeq(a), IsSeq(c), \E k \in DOMAIN c : ~c[k].can
  PROVE  \E k \in DOMAIN (a \o c) : ~(a \o c)[k].can
<1>1. PICK k \in DOMAIN c : ~c[k].can OBVIOUS
<1>2. /\ Len(a) \in Nat /\ Len(c) \in Nat /\ DOMAIN c = 1..Len(c)
      /\ DOMAIN (a \o c) = 1..(Len(a) + Len(c)) /\ (a \o c)[Len(a) + k] = c[k]
  BY ConcatFacts
<1>3. Len(a) + k \in DOMAIN (a \o c) BY <1>2
<1> QED BY <1>1, <1>2, <1>3

\* The marker, and the replacement after it.
LEMMA MarkAndReplace ==
  ASSUME NEW b \in BOOLEAN, disk[<<"pending", "restore.json">>] = {b}
  PROVE  LET c == Mark \o Replace IN
         /\ IsSeq(c) /\ c # <<>> /\ IsMark(c[1]) /\ \A k \in DOMAIN c : ReplacingStep(b, c[k])
         /\ \A d : Leaves(d, c, <<"live", "db">>, disk[<<"pending", "db">>])
         /\ b => \A d : /\ Leaves(d, c, <<"live", "cert">>, disk[<<"pending", "cert">>])
                        /\ Leaves(d, c, <<"live", "key">>, disk[<<"pending", "key">>])
         /\ ~b => ~Touched(c, <<"live", "cert">>) /\ ~Touched(c, <<"live", "key">>)
         /\ \A d : Leaves(d, c, <<"live", "applied">>, {TRUE})
         /\ \A d : \A p \in In("pending") : Leaves(d, c, p, {})
         /\ disk[<<"pending", "db">>] = {} => \E k \in DOMAIN c : ~c[k].can
<1> DEFINE x == Write("replacing", "applied", {TRUE}) e == <<x>> r == Replace c == Mark \o Replace
           pd == <<"live", "db">> pc == <<"live", "cert">> pk == <<"live", "key">> pa == <<"live", "applied">>
           vd == disk[<<"pending", "db">>] vc == disk[<<"pending", "cert">>] vk == disk[<<"pending", "key">>]
<1>1. c = e \o r BY DEF Mark
<1>2. /\ IsSeq(r) /\ \A k \in DOMAIN r : ReplacingStep(b, r[k])
      /\ \A d : Leaves(d, r, pd, vd)
      /\ b => \A d : /\ Leaves(d, r, pc, vc)
                     /\ Leaves(d, r, pk, vk)
      /\ ~b => ~Touched(r, pc) /\ ~Touched(r, pk)
      /\ ~Touched(r, pa)
      /\ \A d : \A p \in In("pending") : Leaves(d, r, p, {})
      /\ vd = {} => \E k \in DOMAIN r : ~r[k].can
  BY ReplaceDoes
<1>3. IsStep(x, "replacing", Only(pa, {TRUE})) /\ x.must BY WriteIs
<1> HIDE DEF x, r, c
<1>4. x.part = "replacing" /\ x.change = Only(pa, {TRUE}) BY <1>3 DEF IsStep
<1>5. DOMAIN x.change = {pa} /\ x.change[pa] = {TRUE}
  <2>1. DOMAIN Only(pa, {TRUE}) = {pa} /\ Only(pa, {TRUE})[pa] = {TRUE} BY OnlyIs
  <2> HIDE DEF pa
  <2> QED BY <2>1, <1>4
<1>6. IsMark(x) BY <1>4 DEF IsMark
<1>7. /\ pa \notin In("rollback") /\ pa \notin In("pending") /\ pa # pc /\ pa # pk /\ pa # pd
      /\ pd \notin In("pending") /\ pc \notin In("pending") /\ pk \notin In("pending")
  BY PathFacts
<1> HIDE DEF pd, pc, pk, pa, vd, vc, vk
<1>8. ReplacingStep(b, x)
  <2>1. \A p \in DOMAIN x.change : p = pa BY <1>5
  <2>2. pc \notin DOMAIN x.change /\ pk \notin DOMAIN x.change BY <1>5, <1>7
  <2> QED BY <2>1, <2>2, <1>3, <1>4, <1>6, <1>7 DEF ReplacingStep, pa, pc, pk
<1>9. /\ IsSeq(e) /\ \A k \in DOMAIN e : ReplacingStep(b, e[k])
      /\ \A p : Touched(e, p) <=> p = pa
      /\ \A d : Leaves(d, e, pa, {TRUE})
  BY <1>5, <1>8, OneStep
<1>10. IsSeq(c) /\ \A k \in DOMAIN c : ReplacingStep(b, c[k]) BY <1>1, <1>2, <1>9, ReplacingConcat
<1>11. c # <<>> /\ IsMark(c[1])
  <2>1. DOMAIN e = {1} /\ e[1] = x OBVIOUS
  <2>2. c[1] = x BY <2>1, <1>1, <1>2, <1>9, ConcatFacts
  <2>3. DOMAIN c = 1..(Len(e) + Len(r)) /\ Len(e) \in Nat /\ Len(r) \in Nat /\ DOMAIN e = 1..Len(e)
    BY <1>1, <1>2, <1>9, ConcatFacts
  <2>4. 1 \in DOMAIN c BY <2>1, <2>3
  <2>5. DOMAIN <<>> = {} OBVIOUS
  <2> QED BY <2>2, <2>4, <2>5, <1>6
<1>12. \A p : Touched(c, p) => p = pa \/ Touched(r, p) BY <1>1, <1>2, <1>9, TouchedConcat
<1>13. \A d, p, v : p # pa /\ Leaves(d, r, p, v) => Leaves(d, c, p, v)
  <2> SUFFICES ASSUME NEW d, NEW p, NEW v, p # pa, Leaves(d, r, p, v) PROVE Leaves(d, c, p, v)
    OBVIOUS
  <2> QED BY <1>1, <1>2, <1>9, LeavesLater
<1>14. ASSUME NEW d PROVE Leaves(d, c, pa, {TRUE}) BY <1>1, <1>2, <1>9, LeavesEarlier
<1>15. ASSUME vd = {} PROVE \E k \in DOMAIN c : ~c[k].can
  <2>1. PICK k \in DOMAIN r : ~r[k].can BY <1>2, <1>15
  <2>2. /\ Len(e) \in Nat /\ Len(r) \in Nat /\ DOMAIN r = 1..Len(r) /\ DOMAIN c = 1..(Len(e) + Len(r))
    BY <1>1, <1>2, <1>9, ConcatFacts
  <2>3. c[Len(e) + k] = r[k] BY <1>1, <1>2, <1>9, <2>1, ConcatFacts
  <2>4. Len(e) + k \in DOMAIN c BY <2>2, <2>1
  <2> QED BY <2>1, <2>3, <2>4
<1>16. \A d : Leaves(d, c, pd, vd) BY <1>2, <1>7, <1>13
<1>17. b => \A d : Leaves(d, c, pc, vc) /\ Leaves(d, c, pk, vk) BY <1>2, <1>7, <1>13
<1>18. ~b => ~Touched(c, pc) /\ ~Touched(c, pk) BY <1>2, <1>7, <1>12
<1>19. \A d : \A p \in In("pending") : Leaves(d, c, p, {}) BY <1>2, <1>7, <1>13
<1> QED BY <1>10, <1>11, <1>14, <1>15, <1>16, <1>17, <1>18, <1>19 DEF pd, pc, pk, pa, vd, vc, vk, c

\* The first step of a restore, from the installation it replaces.
LEMMA ApplyStarts ==
  ASSUME NEW s, DiskOld(disk, s), PendingKept(disk, s), ServedShape(s), ~Cleared(disk)
  PROVE  Applying(disk, s, ApplyRestore)
<1> DEFINE a == CopyOut c == Mark \o Replace t == a \o c
           pd == <<"live", "db">> pw == <<"live", "wal">> pc == <<"live", "cert">> pk == <<"live", "key">>
           pa == <<"live", "applied">>
           rd == <<"rollback", "db">> rw == <<"rollback", "wal">> rc == <<"rollback", "cert">>
           rk == <<"rollback", "key">> rr == <<"rollback", "restore.json">>
           sd == <<"pending", "db">> sc == <<"pending", "cert">> sk == <<"pending", "key">>
           sr == <<"pending", "restore.json">>
<1>1. PICK old : OldOK(s, old) /\ LiveIs(disk, old) BY DEF DiskOld
<1>2. /\ disk[pd] = {old.db} /\ disk[pw] = old.wal /\ disk[pc] = old.cert /\ disk[pk] = old.key
  BY <1>1 DEF LiveIs
<1>3. old.cert = s[pc] /\ old.key = s[pk] BY <1>1 DEF OldOK
<1>4. PendingShape(s) BY DEF ServedShape
<1>5. PICK b \in BOOLEAN :
        /\ s[sr] = {b} /\ disk[sr] = {b} /\ disk[sc] = s[sc] /\ disk[sk] = s[sk]
        /\ disk[sd] # {} => \E y : Good(y) /\ s[sd] = {y} /\ disk[sd] = {y}
  BY <1>4, StagedKept
<1>6. ~Marked(disk) BY DEF DiskOld
<1>7. disk[pd] # {} BY <1>2
<1>8. /\ IsSeq(a) /\ \A k \in DOMAIN a : CopyingStep(a[k])
      /\ \A d : /\ Leaves(d, a, rd, disk[pd])
                /\ Leaves(d, a, rw, disk[pw])
                /\ Leaves(d, a, rr, {b})
                /\ b => /\ Leaves(d, a, rc, disk[pc])
                        /\ Leaves(d, a, rk, disk[pk])
  BY <1>5, <1>7, CopyOutDoes
<1>9. /\ IsSeq(c) /\ c # <<>> /\ IsMark(c[1]) /\ \A k \in DOMAIN c : ReplacingStep(b, c[k])
      /\ \A d : Leaves(d, c, pd, disk[sd])
      /\ b => \A d : /\ Leaves(d, c, pc, disk[sc])
                     /\ Leaves(d, c, pk, disk[sk])
      /\ ~b => ~Touched(c, pc) /\ ~Touched(c, pk)
      /\ \A d : Leaves(d, c, pa, {TRUE})
      /\ \A d : \A p \in In("pending") : Leaves(d, c, p, {})
      /\ disk[sd] = {} => \E k \in DOMAIN c : ~c[k].can
  BY <1>5, MarkAndReplace
<1>10. ApplyRestore = t
  <2>1. IsSeq(Mark) BY OneStep DEF Mark
  <2>2. IsSeq(Replace) BY <1>5, ReplaceDoes
  <2> HIDE DEF a
  <2>3. (a \o Mark) \o Replace = a \o (Mark \o Replace) BY <2>1, <2>2, <1>8, ConcatTwice
  <2> QED BY <2>3 DEF ApplyRestore, a
<1>11. /\ rd \in In("rollback") /\ rw \in In("rollback") /\ rc \in In("rollback") /\ rk \in In("rollback")
       /\ rr \in In("rollback") /\ pd \notin In("rollback") /\ pc \notin In("rollback") /\ pk \notin In("rollback")
       /\ pa \notin In("rollback") /\ \A p \in In("pending") : p \notin In("rollback")
  BY DEF In, File
<1> HIDE DEF a, c, t, pd, pw, pc, pk, pa, rd, rw, rc, rk, rr, sd, sc, sk, sr
<1>12. \A p : Touched(a, p) => p \in In("rollback") BY <1>8 DEF Touched, CopyingStep
<1>13. \A p : Touched(c, p) => p \notin In("rollback") BY <1>9 DEF Touched, ReplacingStep
<1>14. ApplyingSteps(b, t) /\ MarksFirst(FALSE, b, t) BY <1>8, <1>9, CopyThenReplace DEF t
<1>15. \A d, p, v : Leaves(d, a, p, v) /\ p \in In("rollback") => Leaves(d, t, p, v)
  <2> SUFFICES ASSUME NEW d, NEW p, NEW v, Leaves(d, a, p, v), p \in In("rollback") PROVE Leaves(d, t, p, v)
    OBVIOUS
  <2> QED BY <1>8, <1>9, <1>13, LeavesEarlier DEF t
<1>16. \A d, p, v : Leaves(d, c, p, v) /\ p \notin In("rollback") => Leaves(d, t, p, v)
  <2> SUFFICES ASSUME NEW d, NEW p, NEW v, Leaves(d, c, p, v), p \notin In("rollback") PROVE Leaves(d, t, p, v)
    OBVIOUS
  <2> QED BY <1>8, <1>9, <1>12, LeavesLater DEF t
<1>17. BacksUp(b, disk, old, t)
  <2>1. /\ Leaves(disk, t, rd, {old.db}) /\ Leaves(disk, t, rw, old.wal) /\ Leaves(disk, t, rr, {b})
        /\ b => Leaves(disk, t, rc, old.cert) /\ Leaves(disk, t, rk, old.key)
    BY <1>2, <1>8, <1>11, <1>15
  <2>2. disk[pc] = old.cert /\ disk[pk] = old.key BY <1>2
  <2> QED BY <2>1, <2>2 DEF BacksUp, rd, rw, rr, rc, rk, pc, pk
<1>18. ASSUME \A k \in DOMAIN t : t[k].can PROVE Replaces(b, disk, s, t)
  <2>1. disk[sd] # {}
    <3>1. (\E k \in DOMAIN c : ~c[k].can) => \E k \in DOMAIN t : ~t[k].can
      <4>1. IsSeq(a) /\ IsSeq(c) BY <1>8, <1>9
      <4> QED BY <4>1, LaterUnable DEF t
    <3>2. disk[sd] = {} => \E k \in DOMAIN c : ~c[k].can BY <1>9
    <3> QED BY <3>1, <3>2, <1>18
  <2>2. PICK y : Good(y) /\ s[sd] = {y} /\ disk[sd] = {y} BY <2>1, <1>5
  <2>3. Leaves(disk, t, pd, {y}) BY <2>2, <1>9, <1>11, <1>16
  <2>4. Leaves(disk, t, pa, {TRUE}) BY <1>9, <1>11, <1>16
  <2>5. \A p \in In("pending") : Leaves(disk, t, p, {}) BY <1>9, <1>11, <1>16
  <2>6. CASE b
    <3>1. Leaves(disk, t, pc, s[sc]) /\ Leaves(disk, t, pk, s[sk]) BY <2>6, <1>5, <1>9, <1>11, <1>16
    <3>2. TLSIn(b, "pending") = "pending" BY <2>6 DEF TLSIn
    <3> QED BY <2>2, <2>3, <2>4, <2>5, <3>1, <3>2 DEF Replaces, pd, pc, pk, pa, sd, sc, sk
  <2>7. CASE ~b
    <3>1. ~Touched(t, pc) /\ ~Touched(t, pk)
      <4>1. ~Touched(c, pc) /\ ~Touched(c, pk) /\ ~Touched(a, pc) /\ ~Touched(a, pk) BY <2>7, <1>9, <1>11, <1>12
      <4> QED BY <4>1, <1>8, <1>9, TouchedConcat DEF t
    <3>2. Leaves(disk, t, pc, s[pc]) /\ Leaves(disk, t, pk, s[pk]) BY <3>1, <1>2, <1>3, LeavesUntouched
    <3>3. TLSIn(b, "pending") = "live" BY <2>7 DEF TLSIn
    <3> QED BY <2>2, <2>3, <2>4, <2>5, <3>2, <3>3 DEF Replaces, pd, pc, pk, pa, sd, sc, sk
  <2> QED BY <2>6, <2>7
<1>19. MarksFirst(Marked(disk), b, t)
  <2>1. Marked(disk) = FALSE BY <1>6 DEF Marked
  <2> QED BY <2>1, <1>14
<1>20. s[<<"pending", "restore.json">>] = {b} BY <1>5 DEF sr
<1>21. Applying(disk, s, t) BY <1>1, <1>14, <1>17, <1>18, <1>19, <1>20 DEF Applying
<1> QED BY <1>10, <1>21
-----------------------------------------------------------------------------
(* A restore goes on.                                                        *)

\* What remains of the steps of a restore.
LEMMA ApplyingRest ==
  ASSUME NEW b, NEW todo, ApplyingSteps(b, todo), todo # <<>>
  PROVE  /\ ApplyingSteps(b, Tail(todo))
         /\ CopyingStep(Head(todo)) \/ ReplacingStep(b, Head(todo))
         /\ ~CopyingStep(Head(todo)) => \A k \in DOMAIN todo : ReplacingStep(b, todo[k])
<1> DEFINE rest == Tail(todo)
<1>1. IsSeq(todo) BY DEF ApplyingSteps
<1>2. /\ IsSeq(rest) /\ Head(todo) = todo[1] /\ 1 \in DOMAIN todo
      /\ \A k \in DOMAIN rest : k \in Nat /\ k > 0 /\ k + 1 \in DOMAIN todo /\ rest[k] = todo[k + 1]
      /\ \A k \in DOMAIN todo : k \in Nat /\ k > 0
  BY <1>1, Rest
<1> HIDE DEF rest
<1>3. \A k \in DOMAIN rest : CopyingStep(rest[k]) \/ ReplacingStep(b, rest[k])
  BY <1>2 DEF ApplyingSteps
<1>4. ASSUME NEW k \in DOMAIN rest, NEW m \in DOMAIN rest, k < m, CopyingStep(rest[m])
      PROVE  CopyingStep(rest[k])
  <2>1. k + 1 \in DOMAIN todo /\ m + 1 \in DOMAIN todo /\ k + 1 < m + 1 BY <1>2, <1>4
  <2>2. CopyingStep(todo[m + 1]) BY <1>2, <1>4
  <2>3. CopyingStep(todo[k + 1]) BY <2>1, <2>2 DEF ApplyingSteps
  <2> QED BY <2>3, <1>2
<1>5. ApplyingSteps(b, rest) BY <1>2, <1>3, <1>4 DEF ApplyingSteps
<1>6. ASSUME ~CopyingStep(Head(todo)), NEW k \in DOMAIN todo PROVE ReplacingStep(b, todo[k])
  <2>1. ~CopyingStep(todo[1]) BY <1>2, <1>6
  <2>2. ~CopyingStep(todo[k])
    <3>1. CASE k = 1 BY <3>1, <2>1
    <3>2. CASE k > 1 BY <3>2, <2>1, <1>2 DEF ApplyingSteps
    <3> QED BY <3>1, <3>2, <1>2
  <2> QED BY <2>2 DEF ApplyingSteps
<1> QED BY <1>2, <1>5, <1>6 DEF ApplyingSteps, rest

\* A marked disk, or one about to be, has everything copied.
LEMMA ApplyingStored ==
  ASSUME NEW d, NEW s, NEW todo, Applying(d, s, todo),
         Marked(d) \/ (todo # <<>> /\ Head(todo).part = "replacing")
  PROVE  DiskStored(d, s)
<1>1. PICK b \in BOOLEAN :
        /\ s[<<"pending", "restore.json">>] = {b}
        /\ ApplyingSteps(b, todo)
        /\ MarksFirst(Marked(d), b, todo)
        /\ \E old : OldOK(s, old) /\ BacksUp(b, d, old, todo) /\ (~Marked(d) => LiveIs(d, old))
  BY DEF Applying
<1>2. \A k \in DOMAIN todo : ReplacingStep(b, todo[k])
  <2>1. CASE Marked(d)
    <3>1. Marked(d) = TRUE BY <2>1 DEF Marked
    <3> QED BY <3>1, <1>1 DEF MarksFirst
  <2>2. CASE todo # <<>> /\ Head(todo).part = "replacing"
    <3>1. ~CopyingStep(Head(todo)) BY <2>2 DEF CopyingStep
    <3> QED BY <3>1, <2>2, <1>1, ApplyingRest
  <2> QED BY <2>1, <2>2
<1>3. \A p \in In("rollback") : ~Touched(todo, p) BY <1>2 DEF ReplacingStep, Touched
<1>4. PICK old : OldOK(s, old) /\ BacksUp(b, d, old, todo) BY <1>1
<1>5. \A f \in File : <<"rollback", f>> \in In("rollback") BY DEF In
<1>6. \A f \in File : \A v : Leaves(d, todo, <<"rollback", f>>, v) => d[<<"rollback", f>>] = v
  BY <1>3, <1>5, LeavesDone
<1>7. /\ d[<<"rollback", "db">>] = {old.db} /\ d[<<"rollback", "wal">>] = old.wal
      /\ d[<<"rollback", "restore.json">>] = {b}
  BY <1>4, <1>6 DEF BacksUp, File
<1>8. d[<<TLSIn(b, "rollback"), "cert">>] = old.cert /\ d[<<TLSIn(b, "rollback"), "key">>] = old.key
  <2>1. CASE b
    <3>1. Leaves(d, todo, <<"rollback", "cert">>, old.cert) /\ Leaves(d, todo, <<"rollback", "key">>, old.key)
      BY <2>1, <1>4 DEF BacksUp
    <3>2. d[<<"rollback", "cert">>] = old.cert /\ d[<<"rollback", "key">>] = old.key
      BY <3>1, <1>6 DEF File
    <3>3. TLSIn(b, "rollback") = "rollback" BY <2>1 DEF TLSIn
    <3> QED BY <3>2, <3>3
  <2>2. CASE ~b
    <3>1. TLSIn(b, "rollback") = "live" BY <2>2 DEF TLSIn
    <3> QED BY <3>1, <2>2, <1>4 DEF BacksUp
  <2> QED BY <2>1, <2>2
<1>9. Stored(d, s, old) BY <1>1, <1>7, <1>8 DEF Stored
<1> QED BY <1>4, <1>9 DEF DiskStored

\* An unmarked disk still has the old installation in place.
LEMMA ApplyingOld ==
  ASSUME NEW d, NEW s, NEW todo, Applying(d, s, todo), ~Marked(d)
  PROVE  DiskOld(d, s)
BY DEF Applying, DiskOld

\* All done, the staged installation is in place, under the marker.
LEMMA ApplyingEnds ==
  ASSUME NEW d, NEW s, Applying(d, s, <<>>)
  PROVE  Replaced(d, s)
<1>1. PICK b \in BOOLEAN :
        /\ s[<<"pending", "restore.json">>] = {b}
        /\ (\A k \in DOMAIN <<>> : <<>>[k].can) => Replaces(b, d, s, <<>>)
  BY DEF Applying
<1>2. Replaces(b, d, s, <<>>) BY <1>1, NoSteps
<1>3. \A p, v : Leaves(d, <<>>, p, v) => d[p] = v BY NothingTouched, LeavesDone
<1>4. Marked(d) BY <1>2, <1>3 DEF Replaces, Marked
<1>5. PICK y : Good(y) /\ s[<<"pending", "db">>] = {y} /\ Leaves(d, <<>>, <<"live", "db">>, {y})
  BY <1>2 DEF Replaces
<1>6. d[<<"live", "db">>] = {y} BY <1>3, <1>5
<1>7. SameAs(y, s[<<"pending", "db">>]) BY <1>5 DEF SameAs
<1>8. Cleared(d) BY <1>2, <1>3 DEF Replaces, Cleared
<1>9. /\ d[<<"live", "cert">>] = s[<<TLSIn(b, "pending"), "cert">>]
      /\ d[<<"live", "key">>] = s[<<TLSIn(b, "pending"), "key">>]
  BY <1>2, <1>3 DEF Replaces
<1>10. New(d, s) BY <1>1, <1>6, <1>7, <1>8, <1>9 DEF New
<1>11. DiskStored(d, s) BY <1>4, ApplyingStored
<1> QED BY <1>4, <1>10, <1>11 DEF Replaced
\* What a step leaves of the staged files.
LEMMA ApplyingPending ==
  ASSUME NEW d, NEW e, NEW s, NEW b, NEW step, CopyingStep(step) \/ ReplacingStep(b, step), PendingKept(d, s),
         \A p \in Path : e[p] = IF p \in DOMAIN step.change THEN step.change[p] ELSE d[p]
  PROVE  PendingKept(e, s)
<1>1. \A p \in In("pending") : p \in Path /\ p \notin In("rollback")
  <2>1. "rollback" # "pending" OBVIOUS
  <2> QED BY <2>1, LivePaths, PathFacts
<1>2. CASE CopyingStep(step)
  <2>1. \A p \in In("pending") : e[p] = d[p] BY <1>1, <1>2 DEF CopyingStep
  <2> QED BY <2>1 DEF PendingKept, Cleared
<1>3. CASE ReplacingStep(b, step)
  <2>1. \A p \in In("pending") : e[p] = IF p \in DOMAIN step.change THEN {} ELSE d[p]
    BY <1>1, <1>3 DEF ReplacingStep
  <2>2. CASE \A p \in In("pending") : p \in DOMAIN step.change
    BY <2>1, <2>2 DEF PendingKept, Cleared
  <2>3. CASE \A p \in In("pending") : p \in DOMAIN step.change => p = <<"pending", "db">>
    <3>1. CASE Cleared(d) BY <2>1, <3>1 DEF PendingKept, Cleared
    <3>2. CASE ~Cleared(d)
      <4>1. \A p \in In("pending") : d[p] = s[p] \/ (p = <<"pending", "db">> /\ d[p] = {})
        BY <3>2 DEF PendingKept
      <4>2. \A p \in In("pending") : e[p] = s[p] \/ (p = <<"pending", "db">> /\ e[p] = {})
        BY <2>1, <2>3, <4>1
      <4> QED BY <4>2 DEF PendingKept
    <3> QED BY <3>1, <3>2
  <2> QED BY <1>3, <2>2, <2>3 DEF ReplacingStep
<1> QED BY <1>2, <1>3

\* The marker is written once and first.
LEMMA MarksRest ==
  ASSUME NEW b, NEW todo, ApplyingSteps(b, todo), todo # <<>>, NEW d, NEW e, MarksFirst(Marked(d), b, todo),
         e[<<"live", "applied">>] =
           IF <<"live", "applied">> \in DOMAIN Head(todo).change
             THEN Head(todo).change[<<"live", "applied">>] ELSE d[<<"live", "applied">>]
  PROVE  /\ MarksFirst(Marked(e), b, Tail(todo))
         /\ CopyingStep(Head(todo)) => (Marked(e) <=> Marked(d))
         /\ ~CopyingStep(Head(todo)) => Marked(e)
<1> DEFINE rest == Tail(todo) step == Head(todo) pa == <<"live", "applied">>
<1>1. IsSeq(todo) BY DEF ApplyingSteps
<1>2. /\ Head(todo) = todo[1] /\ 1 \in DOMAIN todo
      /\ \A k \in DOMAIN rest : k \in Nat /\ k > 0 /\ k + 1 \in DOMAIN todo /\ rest[k] = todo[k + 1]
      /\ \A k \in DOMAIN todo : k \in Nat /\ k > 0 /\ (k > 1 => k - 1 \in DOMAIN rest)
  BY <1>1, Rest
<1>3. pa \notin In("rollback") BY PathFacts
<1>4. IsMark(step) => e[pa] = {TRUE}
  <2>1. DOMAIN Only(pa, {TRUE}) = {pa} /\ Only(pa, {TRUE})[pa] = {TRUE} BY OnlyIs
  <2> HIDE DEF step, pa
  <2> QED BY <2>1 DEF IsMark, step, pa
<1> HIDE DEF rest, step
<1>5. CASE CopyingStep(step)
  <2>1. pa \notin DOMAIN step.change BY <1>3, <1>5 DEF CopyingStep
  <2>2. e[pa] = d[pa] BY <2>1 DEF step
  <2>3. Marked(e) = Marked(d) BY <2>2 DEF Marked
  <2>4. ~IsMark(step)
    <3>1. DOMAIN Only(pa, {TRUE}) = {pa} BY OnlyIs
    <3> QED BY <2>1, <3>1 DEF IsMark
  <2>5. MarksFirst(Marked(d), b, rest)
    <3>1. CASE Marked(d)
      <4>1. \A k \in DOMAIN todo : ReplacingStep(b, todo[k])
        <5>1. Marked(d) = TRUE BY <3>1 DEF Marked
        <5> QED BY <5>1 DEF MarksFirst
      <4>2. \A k \in DOMAIN rest : ReplacingStep(b, rest[k]) BY <4>1, <1>2
      <4> QED BY <4>2, <3>1 DEF MarksFirst
    <3>2. CASE ~Marked(d)
      <4>1. \A k \in DOMAIN todo : CopyingStep(todo[k]) \/ \E m \in DOMAIN todo : m <= k /\ IsMark(todo[m])
        BY <3>2 DEF MarksFirst
      <4>2. ASSUME NEW k \in DOMAIN rest, ~CopyingStep(rest[k])
            PROVE  \E m \in DOMAIN rest : m <= k /\ IsMark(rest[m])
        <5>1. k \in Nat /\ k + 1 \in DOMAIN todo /\ ~CopyingStep(todo[k + 1]) BY <4>2, <1>2
        <5>2. PICK m \in DOMAIN todo : m <= k + 1 /\ IsMark(todo[m]) BY <4>1, <5>1
        <5>3. m # 1 BY <5>2, <2>4, <1>2 DEF step
        <5>4. m \in Nat /\ m > 1 /\ m - 1 \in DOMAIN rest BY <5>3, <1>2
        <5>5. rest[m - 1] = todo[(m - 1) + 1] BY <5>4, <1>2
        <5>6. (m - 1) + 1 = m /\ m - 1 <= k BY <5>1, <5>2, <5>4
        <5> QED BY <5>2, <5>4, <5>5, <5>6
      <4> QED BY <4>2, <3>2 DEF MarksFirst
    <3> QED BY <3>1, <3>2
  <2> QED BY <1>5, <2>3, <2>5 DEF rest, step
<1>6. CASE ~CopyingStep(step)
  <2>1. \A k \in DOMAIN todo : ReplacingStep(b, todo[k]) BY <1>6, ApplyingRest DEF step
  <2>2. ReplacingStep(b, step) BY <2>1, <1>2 DEF step
  <2>3. e[pa] # {}
    <3>1. CASE Marked(d)
      <4>1. CASE pa \in DOMAIN step.change
        <5>1. IsMark(step) BY <4>1, <2>2 DEF ReplacingStep
        <5> QED BY <5>1, <1>4
      <4>2. CASE pa \notin DOMAIN step.change BY <4>2, <3>1 DEF Marked, step
      <4> QED BY <4>1, <4>2
    <3>2. CASE ~Marked(d)
      <4>1. CopyingStep(todo[1]) \/ \E m \in DOMAIN todo : m <= 1 /\ IsMark(todo[m])
        BY <3>2, <1>2 DEF MarksFirst
      <4>2. PICK m \in DOMAIN todo : m <= 1 /\ IsMark(todo[m]) BY <4>1, <1>2, <1>6 DEF step
      <4>3. m = 1 BY <4>2, <1>2
      <4> QED BY <4>2, <4>3, <1>2, <1>4 DEF step
    <3> QED BY <3>1, <3>2
  <2>4. Marked(e) BY <2>3 DEF Marked
  <2>5. \A k \in DOMAIN rest : ReplacingStep(b, rest[k]) BY <2>1, <1>2
  <2>6. MarksFirst(Marked(e), b, rest) BY <2>4, <2>5 DEF MarksFirst
  <2> QED BY <1>6, <2>4, <2>6 DEF rest, step
<1> QED BY <1>5, <1>6

\* A step of a restore.
LEMMA ApplyingDone ==
  ASSUME NEW d, NEW s, NEW todo, Applying(d, s, todo), todo # <<>>, Head(todo).can, PendingKept(d, s)
  PROVE  LET e == DoneTo(d, Head(todo)) IN
         Applying(e, s, Tail(todo)) /\ PendingKept(e, s) /\ IsDisk(e)
<1> DEFINE step == Head(todo) e == DoneTo(d, step) rest == Tail(todo)
           pc == <<"live", "cert">> pk == <<"live", "key">>
<1>1. IsDisk(e) /\ \A p \in Path : e[p] = IF p \in DOMAIN step.change THEN step.change[p] ELSE d[p]
  BY DoneIs
<1> HIDE DEF e
<1>2. PICK b \in BOOLEAN :
        /\ s[<<"pending", "restore.json">>] = {b}
        /\ ApplyingSteps(b, todo)
        /\ MarksFirst(Marked(d), b, todo)
        /\ \E old : OldOK(s, old) /\ BacksUp(b, d, old, todo) /\ (~Marked(d) => LiveIs(d, old))
        /\ (\A k \in DOMAIN todo : todo[k].can) => Replaces(b, d, s, todo)
  BY DEF Applying
<1>3. /\ ApplyingSteps(b, rest)
      /\ CopyingStep(step) \/ ReplacingStep(b, step)
  BY <1>2, ApplyingRest
<1>4. PendingKept(e, s) BY <1>1, <1>3, ApplyingPending
<1>5. /\ MarksFirst(Marked(e), b, rest)
      /\ CopyingStep(step) => (Marked(e) <=> Marked(d))
      /\ ~CopyingStep(step) => Marked(e)
  <2>1. <<"live", "applied">> \in Path BY LivePaths
  <2> QED BY <2>1, <1>1, <1>2, MarksRest
<1>6. \A p \in Path : \A v : Leaves(d, todo, p, v) => Leaves(e, rest, p, v)
  <2>1. IsSeq(todo) BY <1>2 DEF ApplyingSteps
  <2> SUFFICES ASSUME NEW p \in Path, NEW v, Leaves(d, todo, p, v) PROVE Leaves(e, rest, p, v) OBVIOUS
  <2>2. e[p] = IF p \in DOMAIN Head(todo).change THEN Head(todo).change[p] ELSE d[p] BY <1>1
  <2> QED BY <2>1, <2>2, LeavesStep
<1>7. PICK old : OldOK(s, old) /\ BacksUp(b, d, old, todo) /\ (~Marked(d) => LiveIs(d, old)) BY <1>2
<1>8. CopyingStep(step) => \A f \in File : e[<<"live", f>>] = d[<<"live", f>>]
  <2>1. \A f \in File : <<"live", f>> \in Path /\ <<"live", f>> \notin In("rollback")
    <3>1. "live" \in Directory /\ "live" # "rollback" BY DEF Directory
    <3> QED BY <3>1, PathFacts
  <2> QED BY <2>1, <1>1 DEF CopyingStep
<1>9. ~b => e[pc] = d[pc] /\ e[pk] = d[pk]
  <2>1. pc \in Path /\ pk \in Path BY LivePaths
  <2>2. CASE CopyingStep(step)
    <3>1. "cert" \in File /\ "key" \in File BY DEF File
    <3> QED BY <2>2, <3>1, <1>8
  <2>3. CASE ReplacingStep(b, step) /\ ~b
    <3>1. pc \notin DOMAIN step.change /\ pk \notin DOMAIN step.change BY <2>3 DEF ReplacingStep
    <3> QED BY <2>1, <3>1, <1>1
  <2> QED BY <2>2, <2>3, <1>3
<1>10. BacksUp(b, e, old, rest)
  <2>1. /\ Leaves(d, todo, <<"rollback", "db">>, {old.db}) /\ Leaves(d, todo, <<"rollback", "wal">>, old.wal)
        /\ Leaves(d, todo, <<"rollback", "restore.json">>, {b})
        /\ b => /\ Leaves(d, todo, <<"rollback", "cert">>, old.cert)
                /\ Leaves(d, todo, <<"rollback", "key">>, old.key)
        /\ ~b => d[pc] = old.cert /\ d[pk] = old.key
    BY <1>7 DEF BacksUp
  <2>2. /\ Leaves(e, rest, <<"rollback", "db">>, {old.db}) /\ Leaves(e, rest, <<"rollback", "wal">>, old.wal)
        /\ Leaves(e, rest, <<"rollback", "restore.json">>, {b})
        /\ b => /\ Leaves(e, rest, <<"rollback", "cert">>, old.cert)
                /\ Leaves(e, rest, <<"rollback", "key">>, old.key)
    BY <2>1, <1>6, LivePaths
  <2>3. ~b => e[pc] = old.cert /\ e[pk] = old.key BY <2>1, <1>9
  <2> QED BY <2>2, <2>3 DEF BacksUp
<1>11. ~Marked(e) => LiveIs(e, old)
  <2>1. ASSUME ~Marked(e) PROVE LiveIs(e, old)
    <3>1. CopyingStep(step) /\ LiveIs(d, old) BY <2>1, <1>5, <1>7
    <3>2. \A f \in File : e[<<"live", f>>] = d[<<"live", f>>] BY <3>1, <1>8
    <3> QED BY <3>1, <3>2 DEF LiveIs, File
  <2> QED BY <2>1
<1>12. ASSUME \A k \in DOMAIN rest : rest[k].can PROVE Replaces(b, e, s, rest)
  <2>1. IsSeq(todo) BY <1>2 DEF ApplyingSteps
  <2>2. /\ step = todo[1]
        /\ \A k \in DOMAIN rest : rest[k] = todo[k + 1]
        /\ \A k \in DOMAIN todo : k \in Nat /\ k > 0 /\ (k > 1 => k - 1 \in DOMAIN rest)
    BY <2>1, Rest
  <2>3. ASSUME NEW k \in DOMAIN todo PROVE todo[k].can
    <3>1. CASE k = 1 BY <3>1, <2>2
    <3>2. CASE k > 1
      <4>1. k \in Nat /\ k - 1 \in DOMAIN rest BY <3>2, <2>2
      <4>2. rest[k - 1] = todo[(k - 1) + 1] /\ (k - 1) + 1 = k BY <4>1, <2>2
      <4> QED BY <4>1, <4>2, <1>12
    <3> QED BY <3>1, <3>2, <2>2
  <2>4. Replaces(b, d, s, todo) BY <2>3, <1>2
  <2>5. PICK y : Good(y) /\ s[<<"pending", "db">>] = {y} /\ Leaves(d, todo, <<"live", "db">>, {y})
    BY <2>4 DEF Replaces
  <2>6. Leaves(e, rest, <<"live", "db">>, {y}) BY <2>5, <1>6, LivePaths
  <2>7. /\ Leaves(e, rest, pc, s[<<TLSIn(b, "pending"), "cert">>])
        /\ Leaves(e, rest, pk, s[<<TLSIn(b, "pending"), "key">>])
        /\ Leaves(e, rest, <<"live", "applied">>, {TRUE})
        /\ \A p \in In("pending") : Leaves(e, rest, p, {})
    BY <2>4, <1>6, LivePaths DEF Replaces
  <2> QED BY <2>5, <2>6, <2>7 DEF Replaces
<1>13. Applying(e, s, rest) BY <1>2, <1>3, <1>5, <1>7, <1>10, <1>11, <1>12 DEF Applying
<1> QED BY <1>1, <1>4, <1>13 DEF e
-----------------------------------------------------------------------------
(* Two disks that differ little.                                             *)

\* The live files and the staged ones are the same but for the database, where
\* TLS may have been given up, its log, and files nothing below depends on.
Alike(d, e) ==
  /\ e[<<"live", "cert">>] = d[<<"live", "cert">>] /\ e[<<"live", "key">>] = d[<<"live", "key">>]
  /\ \A p \in In("pending") : e[p] = d[p]
SameDatabase(d, e) ==
  e[<<"live", "db">>] = d[<<"live", "db">>] /\ e[<<"live", "wal">>] = d[<<"live", "wal">>]
SameRollback(d, e) == \A p \in In("rollback") : e[p] = d[p]
\* disableExpiredPanelTLSIfNeeded, or a database opened.
Held(d, e, x, y) ==
  /\ d[<<"live", "db">>] = {x} /\ e[<<"live", "db">>] = {y} /\ Good(y)
  /\ y.id = x.id /\ y.acme = x.acme /\ (y.tls => x.tls)

LEMMA AlikePending ==
  ASSUME NEW d, NEW e, NEW s, Alike(d, e)
  PROVE  /\ PendingKept(d, s) => PendingKept(e, s)
         /\ Cleared(d) => Cleared(e)
BY DEF Alike, PendingKept, Cleared

LEMMA AlikeStored ==
  ASSUME NEW d, NEW e, NEW s, Alike(d, e), SameRollback(d, e), DiskStored(d, s)
  PROVE  DiskStored(e, s)
<1>1. PICK old : OldOK(s, old) /\ Stored(d, s, old) BY DEF DiskStored
<1>2. PICK b \in BOOLEAN :
       /\ s[<<"pending", "restore.json">>] = {b} /\ d[<<"rollback", "restore.json">>] = {b}
       /\ d[<<TLSIn(b, "rollback"), "cert">>] = old.cert
       /\ d[<<TLSIn(b, "rollback"), "key">>] = old.key
  BY <1>1 DEF Stored
<1>3. \A f \in File : e[<<"rollback", f>>] = d[<<"rollback", f>>] BY DEF SameRollback, In
<1>4. /\ e[<<TLSIn(b, "rollback"), "cert">>] = d[<<TLSIn(b, "rollback"), "cert">>]
      /\ e[<<TLSIn(b, "rollback"), "key">>] = d[<<TLSIn(b, "rollback"), "key">>]
  <2>1. CASE b
    <3>1. TLSIn(b, "rollback") = "rollback" BY <2>1 DEF TLSIn
    <3> QED BY <3>1, <1>3 DEF File
  <2>2. CASE ~b
    <3>1. TLSIn(b, "rollback") = "live" BY <2>2 DEF TLSIn
    <3> QED BY <3>1 DEF Alike
  <2> QED BY <2>1, <2>2
<1>5. /\ e[<<"rollback", "db">>] = d[<<"rollback", "db">>] /\ e[<<"rollback", "wal">>] = d[<<"rollback", "wal">>]
      /\ e[<<"rollback", "restore.json">>] = d[<<"rollback", "restore.json">>]
  BY <1>3 DEF File
<1>6. Stored(e, s, old) BY <1>1, <1>2, <1>4, <1>5 DEF Stored
<1> QED BY <1>1, <1>6 DEF DiskStored

LEMMA AlikeNew ==
  ASSUME NEW d, NEW e, NEW s, NEW x, NEW y, Alike(d, e), Held(d, e, x, y), New(d, s)
  PROVE  New(e, s)
<1>1. PICK z : d[<<"live", "db">>] = {z} /\ SameAs(z, s[<<"pending", "db">>]) BY DEF New
<1>2. z = x BY <1>1 DEF Held
<1>3. PICK w : s[<<"pending", "db">>] = {w} /\ Good(w) /\ x.id = w.id /\ x.acme = w.acme /\ (x.tls => w.tls)
  BY <1>1, <1>2 DEF SameAs
<1>4. SameAs(y, s[<<"pending", "db">>]) BY <1>3 DEF SameAs, Held
<1>5. e[<<"live", "db">>] = {y} BY DEF Held
<1>6. Cleared(e) BY AlikePending DEF New
<1>7. e[<<"live", "cert">>] = d[<<"live", "cert">>] /\ e[<<"live", "key">>] = d[<<"live", "key">>] BY DEF Alike
<1>8. PICK b \in BOOLEAN :
       /\ s[<<"pending", "restore.json">>] = {b}
       /\ d[<<"live", "cert">>] = s[<<TLSIn(b, "pending"), "cert">>]
       /\ d[<<"live", "key">>] = s[<<TLSIn(b, "pending"), "key">>]
  BY DEF New
<1>9. /\ e[<<"live", "cert">>] = s[<<TLSIn(b, "pending"), "cert">>]
      /\ e[<<"live", "key">>] = s[<<TLSIn(b, "pending"), "key">>]
  BY <1>7, <1>8
<1> QED BY <1>4, <1>5, <1>6, <1>8, <1>9 DEF New

\* The old installation opened, or with TLS given up, is still the old one.
LEMMA AlikeOld ==
  ASSUME NEW d, NEW e, NEW s, NEW x, NEW y, Alike(d, e), Held(d, e, x, y), DiskOld(d, s),
         e[<<"live", "applied">>] = d[<<"live", "applied">>],
         d[<<"live", "wal">>] \subseteq e[<<"live", "wal">>], e[<<"live", "wal">>] \subseteq {y.id}
  PROVE  DiskOld(e, s)
<1>1. PICK old : OldOK(s, old) /\ LiveIs(d, old) BY DEF DiskOld
<1> DEFINE w == e[<<"live", "wal">>]
           new == [db |-> y, wal |-> w, cert |-> old.cert, key |-> old.key]
<1>2. new.db = y /\ new.wal = w /\ new.cert = old.cert /\ new.key = old.key OBVIOUS
<1> HIDE DEF new
<1>3. d[<<"live", "db">>] = {old.db} /\ d[<<"live", "wal">>] = old.wal
      /\ d[<<"live", "cert">>] = old.cert /\ d[<<"live", "key">>] = old.key
  BY <1>1 DEF LiveIs
<1>4. old.db = x BY <1>3 DEF Held
<1>5. PICK z : s[<<"live", "db">>] = {z} /\ Good(z) /\ x.id = z.id /\ x.acme = z.acme /\ (x.tls => z.tls)
  BY <1>1, <1>4 DEF OldOK, SameAs
<1>6. SameAs(new.db, s[<<"live", "db">>]) BY <1>2, <1>5 DEF SameAs, Held
<1>7. s[<<"live", "wal">>] \subseteq new.wal /\ new.wal \subseteq {new.db.id}
  BY <1>1, <1>2, <1>3 DEF OldOK
<1>8. new.cert = s[<<"live", "cert">>] /\ new.key = s[<<"live", "key">>] BY <1>1, <1>2 DEF OldOK
<1>9. OldOK(s, new) BY <1>6, <1>7, <1>8 DEF OldOK
<1>10. LiveIs(e, new)
  <2>1. e[<<"live", "db">>] = {new.db} BY <1>2 DEF Held
  <2>2. e[<<"live", "cert">>] = new.cert /\ e[<<"live", "key">>] = new.key BY <1>2, <1>3 DEF Alike
  <2> QED BY <2>1, <2>2, <1>2 DEF LiveIs
<1>11. ~Marked(e) BY DEF Marked, DiskOld
<1> QED BY <1>9, <1>10, <1>11 DEF DiskOld

LEMMA AlikeSettled ==
  ASSUME NEW d, NEW e, NEW s, NEW x, NEW y, Alike(d, e), Held(d, e, x, y), Settled(d, s),
         e[<<"live", "applied">>] = d[<<"live", "applied">>],
         d[<<"live", "wal">>] \subseteq e[<<"live", "wal">>], e[<<"live", "wal">>] \subseteq {y.id}
  PROVE  Settled(e, s)
<1>1. ~Marked(e) BY DEF Settled, Marked
<1>2. CASE DiskOld(d, s) BY <1>1, <1>2, AlikeOld DEF Settled
<1>3. CASE New(d, s) /\ Opened(d) /\ Paired(d)
  <2>1. New(e, s) BY <1>3, AlikeNew
  <2>2. d[<<"live", "db">>] = {x} /\ e[<<"live", "db">>] = {y} /\ Good(y) /\ y.id = x.id /\ (y.tls => x.tls)
    BY DEF Held
  <2>3. d[<<"live", "wal">>] = {x.id} BY <1>3, <2>2 DEF Opened
  <2>4. e[<<"live", "wal">>] = {y.id} BY <2>2, <2>3
  <2>5. Opened(e) BY <2>2, <2>4 DEF Opened
  <2>6. Paired(e) BY <1>3, <2>2 DEF Paired, Alike
  <2> QED BY <1>1, <2>1, <2>5, <2>6 DEF Settled
<1> QED BY <1>2, <1>3 DEF Settled

LEMMA AlikeReplaced ==
  ASSUME NEW d, NEW e, NEW s, NEW x, NEW y, Alike(d, e), Held(d, e, x, y), Replaced(d, s), SameRollback(d, e),
         e[<<"live", "applied">>] = d[<<"live", "applied">>]
  PROVE  Replaced(e, s)
<1>1. Marked(e) BY DEF Replaced, Marked
<1> QED BY <1>1, AlikeNew, AlikeStored DEF Replaced
-----------------------------------------------------------------------------
(* The end of a restore.                                                     *)

\* What is left of the staged files is as they were, or nothing.
LEMMA ShapeKept ==
  ASSUME NEW d, NEW s, PendingKept(d, s), PendingShape(s)
  PROVE  PendingShape(d)
<1>1. CASE Cleared(d) BY <1>1 DEF PendingShape
<1>2. CASE ~Cleared(d)
  <2>1. PICK b \in BOOLEAN :
          /\ d[<<"pending", "restore.json">>] = {b}
          /\ d[<<"pending", "db">>] # {} => \E y : Good(y) /\ d[<<"pending", "db">>] = {y}
    BY <1>2, StagedKept
  <2>2. d[<<"pending", "db">>] # {} => \E y : d[<<"pending", "db">>] = {y} /\ Good(y) BY <2>1
  <2> QED BY <2>1, <2>2 DEF PendingShape
<1> QED BY <1>1, <1>2

LEMMA FinalizeStarts ==
  ASSUME NEW d
  PROVE  Finalizing(d, FinalizeRestore) /\ (~Marked(d) => Finalizing(d, <<>>))
<1> DEFINE x == Remove("finalizing", "live", "applied") y == RemoveAll("finalizing", "rollback")
           pa == <<"live", "applied">> t == FinalizeRestore
<1>1. IsStep(x, "finalizing", Only(pa, {})) /\ x.must /\ x.can BY RemoveIs
<1>2. IsStep(y, "finalizing", Removed(In("rollback"))) /\ y.must /\ y.can BY RemoveAllIs
<1>3. t = <<x, y>> BY DEF FinalizeRestore
<1>4. pa \notin In("rollback") BY PathFacts
<1>5. DOMAIN Only(pa, {}) = {pa} /\ Only(pa, {})[pa] = {} BY OnlyIs
<1>6. DOMAIN Removed(In("rollback")) = In("rollback") BY RemovedIs
<1> HIDE DEF x, y, pa, t
<1>7. FinalizingStep(x) BY <1>1 DEF FinalizingStep, IsStep, pa
<1>8. FinalizingStep(y) BY <1>2 DEF FinalizingStep, IsStep
<1>9. IsSeq(t) /\ \A k \in DOMAIN t : t[k] \in {x, y}
  <2>1. IsSeq(<<x, y>>) /\ \A k \in DOMAIN <<x, y>> : <<x, y>>[k] \in {x, y} BY TwoSteps
  <2> QED BY <2>1, <1>3
<1>10. pa \notin DOMAIN y.change /\ pa \in DOMAIN x.change /\ x.change[pa] = {}
  BY <1>1, <1>2, <1>4, <1>5, <1>6 DEF IsStep
<1>11. Leaves(d, t, pa, {}) BY <1>3, <1>10, TwoSteps
<1>12. t # <<>> /\ Head(t) = x BY <1>3
<1>13. Head(t).change = Only(pa, {}) BY <1>12, <1>1 DEF IsStep
<1>14. Finalizing(d, t) BY <1>7, <1>8, <1>9, <1>11, <1>12, <1>13 DEF Finalizing, pa
<1>15. ASSUME ~Marked(d) PROVE Finalizing(d, <<>>)
  <2>1. Leaves(d, <<>>, <<"live", "applied">>, {}) BY <1>15, NothingTouched DEF Leaves, Marked
  <2> QED BY <2>1, <1>15, NoSteps DEF Finalizing
<1> QED BY <1>14, <1>15 DEF t

LEMMA FinalizingEnds ==
  ASSUME NEW d, Finalizing(d, <<>>)
  PROVE  ~Marked(d)
BY NothingTouched, LeavesDone DEF Finalizing, Marked

LEMMA FinalizingRest ==
  ASSUME NEW todo, IsSeq(todo), todo # <<>>, \A k \in DOMAIN todo : FinalizingStep(todo[k])
  PROVE  IsSeq(Tail(todo)) /\ FinalizingStep(Head(todo)) /\ \A k \in DOMAIN Tail(todo) : FinalizingStep(Tail(todo)[k])
<1> DEFINE rest == Tail(todo)
<1>1. /\ IsSeq(rest) /\ Head(todo) = todo[1] /\ 1 \in DOMAIN todo
      /\ \A k \in DOMAIN rest : k \in Nat /\ k > 0 /\ k + 1 \in DOMAIN todo /\ rest[k] = todo[k + 1]
  BY Rest
<1> HIDE DEF rest
<1>2. \A k \in DOMAIN rest : FinalizingStep(rest[k]) BY <1>1
<1> QED BY <1>1, <1>2 DEF rest

LEMMA FinalizingDone ==
  ASSUME NEW d, NEW s, NEW todo, Finalizing(d, todo), todo # <<>>, PendingKept(d, s), Opened(d),
         Settled(d, s) \/ (Replaced(d, s) /\ Paired(d))
  PROVE  LET e == DoneTo(d, Head(todo)) IN
         /\ Finalizing(e, Tail(todo)) /\ PendingKept(e, s) /\ Opened(e) /\ IsDisk(e) /\ Settled(e, s)
<1> DEFINE step == Head(todo) e == DoneTo(d, step) rest == Tail(todo)
           pa == <<"live", "applied">> pd == <<"live", "db">> pw == <<"live", "wal">>
           pc == <<"live", "cert">> pk == <<"live", "key">>
<1>1. IsDisk(e) /\ \A p \in Path : e[p] = IF p \in DOMAIN step.change THEN step.change[p] ELSE d[p]
  BY DoneIs
<1> HIDE DEF e
<1>2. /\ IsSeq(todo) /\ \A k \in DOMAIN todo : FinalizingStep(todo[k])
      /\ Leaves(d, todo, pa, {})
      /\ Marked(d) => step.change = Only(pa, {})
  BY DEF Finalizing
<1>3. IsSeq(rest) /\ FinalizingStep(step) /\ \A k \in DOMAIN rest : FinalizingStep(rest[k])
  BY <1>2, FinalizingRest
<1>4. pa \in Path /\ pd \in Path /\ pw \in Path /\ pc \in Path /\ pk \in Path BY LivePaths
<1>5. Leaves(e, rest, pa, {})
  <2>1. e[pa] = IF pa \in DOMAIN Head(todo).change THEN Head(todo).change[pa] ELSE d[pa] BY <1>1, <1>4
  <2> QED BY <2>1, <1>2, LeavesStep
<1>6. /\ pa # pd /\ pa # pw /\ pa # pc /\ pa # pk /\ pa \notin In("rollback")
      /\ pd \notin In("rollback") /\ pw \notin In("rollback") /\ pc \notin In("rollback") /\ pk \notin In("rollback")
      /\ \A p \in In("pending") : p # pa /\ p \notin In("rollback") /\ p \in Path
  <2>1. "rollback" # "pending" /\ "live" # "pending" /\ "live" # "rollback" OBVIOUS
  <2> QED BY <2>1, PathFacts, LivePaths
<1>7. DOMAIN Only(pa, {}) = {pa} /\ Only(pa, {})[pa] = {} BY OnlyIs
<1>8. DOMAIN Removed(In("rollback")) = In("rollback") BY RemovedIs
<1>9. DOMAIN step.change = {pa} \/ DOMAIN step.change = In("rollback")
  BY <1>3, <1>7, <1>8 DEF FinalizingStep
<1> HIDE DEF step, pa, pd, pw, pc, pk
<1>10. /\ e[pd] = d[pd] /\ e[pw] = d[pw] /\ e[pc] = d[pc] /\ e[pk] = d[pk]
       /\ \A p \in In("pending") : e[p] = d[p]
  BY <1>1, <1>4, <1>6, <1>9
<1>11. e[pa] = {}
  <2>1. CASE step.change = Only(pa, {}) BY <2>1, <1>1, <1>4, <1>7
  <2>2. CASE step.change # Only(pa, {})
    <3>1. d[pa] = {} BY <2>2, <1>2 DEF Marked, pa
    <3>2. DOMAIN step.change = In("rollback") BY <2>2, <1>3, <1>8 DEF FinalizingStep, pa
    <3> QED BY <3>1, <3>2, <1>1, <1>4, <1>6
  <2> QED BY <2>1, <2>2
<1>12. ~Marked(e) BY <1>11 DEF Marked, pa
<1>13. Finalizing(e, rest) BY <1>3, <1>5, <1>12 DEF Finalizing, pa
<1>14. Alike(d, e) BY <1>10 DEF Alike, pc, pk
<1>15. PendingKept(e, s) BY <1>14, AlikePending
<1>16. PICK x : Good(x) /\ d[pd] = {x} /\ d[pw] = {x.id} BY DEF Opened, pd, pw
<1>17. Held(d, e, x, x) BY <1>10, <1>16 DEF Held, pd
<1>18. Opened(e) BY <1>10, <1>16 DEF Opened, pd, pw
<1>19. ASSUME New(d, s), Paired(d) PROVE Settled(e, s)
  <2>1. New(e, s) BY <1>14, <1>17, <1>19, AlikeNew
  <2>2. Paired(e) BY <1>10, <1>19 DEF Paired, pd, pc, pk
  <2> QED BY <2>1, <2>2, <1>12, <1>18 DEF Settled
<1>20. ASSUME DiskOld(d, s) PROVE Settled(e, s)
  <2>1. PICK old : OldOK(s, old) /\ LiveIs(d, old) BY <1>20 DEF DiskOld
  <2>2. LiveIs(e, old) BY <2>1, <1>10 DEF LiveIs, pd, pw, pc, pk
  <2> QED BY <2>1, <2>2, <1>12 DEF DiskOld, Settled
<1>21. Settled(e, s) BY <1>19, <1>20 DEF Settled, Replaced
<1> QED BY <1>1, <1>13, <1>15, <1>18, <1>21 DEF e, step
-----------------------------------------------------------------------------
(* The handlers of the serving panel, on the disk.                           *)

LEMMA DBIs ==
  ASSUME NEW x, disk[<<"live", "db">>] = {x}
  PROVE  DB = x
BY DEF DB, The

LEMMA GoodSet ==
  ASSUME NEW x, Good(x), NEW b \in BOOLEAN
  PROVE  /\ Good([x EXCEPT !.tls = b]) /\ [x EXCEPT !.tls = b].id = x.id
         /\ [x EXCEPT !.tls = b].acme = x.acme /\ ([x EXCEPT !.tls = b].tls <=> b)
         /\ Good([x EXCEPT !.acme = Here]) /\ [x EXCEPT !.acme = Here].id = x.id
         /\ Good([x EXCEPT !.acme = Here, !.tls = TRUE]) /\ [x EXCEPT !.acme = Here, !.tls = TRUE].id = x.id
<1>1. Good([x EXCEPT !.tls = b]) BY DEF Good
<1>2. [x EXCEPT !.tls = b].id = x.id /\ [x EXCEPT !.tls = b].acme = x.acme /\ ([x EXCEPT !.tls = b].tls <=> b)
  BY DEF Good
<1>3. Good([x EXCEPT !.acme = Here]) /\ [x EXCEPT !.acme = Here].id = x.id BY DEF Good
<1>4. /\ DOMAIN [x EXCEPT !.acme = Here, !.tls = TRUE] = {"id", "tls", "headers", "acme"}
      /\ [x EXCEPT !.acme = Here, !.tls = TRUE].acme = Here
      /\ [x EXCEPT !.acme = Here, !.tls = TRUE].headers = Here
      /\ [x EXCEPT !.acme = Here, !.tls = TRUE].id = x.id
  BY DEF Good
<1>5. [x EXCEPT !.acme = Here, !.tls = TRUE].tls \in BOOLEAN BY DEF Good
<1> QED BY <1>1, <1>2, <1>3, <1>4, <1>5 DEF Good

\* One file of the live directory is set.
LEMMA SetFile ==
  ASSUME NEW d, IsDisk(d), NEW f \in File, NEW v
  PROVE  /\ IsDisk([d EXCEPT ![<<"live", f>>] = v])
         /\ [d EXCEPT ![<<"live", f>>] = v][<<"live", f>>] = v
         /\ \A p \in Path : p # <<"live", f>> => [d EXCEPT ![<<"live", f>>] = v][p] = d[p]
<1>1. <<"live", f>> \in Path BY DEF Path, Directory
<1> DEFINE q == <<"live", f>>
<1> HIDE DEF q
<1>2. q \in Path BY <1>1 DEF q
<1> QED BY <1>2 DEF IsDisk, q

LEMMA ServingSetDB ==
  ASSUME NEW d, ServingOK(d), NEW x, d[<<"live", "db">>] = {x}, NEW y, Good(y), y.id = x.id
  PROVE  ServingOK([d EXCEPT ![<<"live", "db">>] = {y}])
<1> DEFINE e == [d EXCEPT ![<<"live", "db">>] = {y}] pd == <<"live", "db">>
<1>1. "db" \in File BY DEF File
<1>2. IsDisk(e) /\ e[pd] = {y} /\ \A p \in Path : p # pd => e[p] = d[p] BY <1>1, SetFile DEF ServingOK
<1> HIDE DEF e
<1>3. e[<<"live", "wal">>] = d[<<"live", "wal">>] /\ e[<<"live", "applied">>] = d[<<"live", "applied">>]
  BY <1>2, LivePaths
<1>4. \A p \in In("pending") : e[p] = d[p]
  <2>1. \A p \in In("pending") : p \in Path /\ p # pd BY LivePaths, PathFacts
  <2> QED BY <2>1, <1>2
<1>5. PendingShape(e)
  <2>1. CASE Cleared(d) BY <2>1, <1>4 DEF PendingShape, Cleared
  <2>2. CASE ~Cleared(d)
    <3>1. e[<<"pending", "restore.json">>] = d[<<"pending", "restore.json">>] /\ e[<<"pending", "db">>] = d[<<"pending", "db">>]
      BY <1>4 DEF In, File
    <3> QED BY <3>1, <2>2 DEF PendingShape, ServingOK
  <2> QED BY <2>1, <2>2
<1>6. d[<<"live", "wal">>] = {x.id}
  <2>1. PICK z : d[pd] = {z} /\ d[<<"live", "wal">>] = {z.id} BY DEF ServingOK, Opened
  <2>2. z = x BY <2>1
  <2> QED BY <2>1, <2>2
<1>7. Opened(e) BY <1>2, <1>3, <1>6 DEF Opened
<1>8. ~Marked(e) BY <1>3 DEF ServingOK, Marked
<1> QED BY <1>2, <1>5, <1>7, <1>8 DEF ServingOK, e

\* The TLS files may be anything.
LEMMA ServingTLS ==
  ASSUME NEW d, ServingOK(d), NEW step, TLSStep(step)
  PROVE  ServingOK(DoneTo(d, step))
<1> DEFINE e == DoneTo(d, step)
<1>1. IsDisk(e) /\ \A p \in Path : e[p] = IF p \in DOMAIN step.change THEN step.change[p] ELSE d[p] BY DoneIs
<1> HIDE DEF e
<1>2. /\ e[<<"live", "db">>] = d[<<"live", "db">>] /\ e[<<"live", "wal">>] = d[<<"live", "wal">>]
      /\ e[<<"live", "applied">>] = d[<<"live", "applied">>]
  <2>1. /\ <<"live", "db">> \notin DOMAIN step.change /\ <<"live", "wal">> \notin DOMAIN step.change
        /\ <<"live", "applied">> \notin DOMAIN step.change
    BY PathFacts DEF TLSStep
  <2> QED BY <2>1, <1>1, LivePaths
<1>3. \A p \in In("pending") : e[p] = d[p]
  <2>1. \A p \in In("pending") : p \in Path /\ p \notin {<<"live", "cert">>, <<"live", "key">>, <<"live", "enabled">>}
    BY LivePaths, PathFacts
  <2> QED BY <2>1, <1>1 DEF TLSStep
<1>4. PendingShape(e)
  <2>1. CASE Cleared(d) BY <2>1, <1>3 DEF PendingShape, Cleared
  <2>2. CASE ~Cleared(d)
    <3>1. e[<<"pending", "restore.json">>] = d[<<"pending", "restore.json">>] /\ e[<<"pending", "db">>] = d[<<"pending", "db">>]
      BY <1>3 DEF In, File
    <3> QED BY <3>1, <2>2 DEF PendingShape, ServingOK
  <2> QED BY <2>1, <2>2
<1>5. Opened(e) BY <1>2 DEF Opened, ServingOK
<1>6. ~Marked(e) BY <1>2 DEF ServingOK, Marked
<1> QED BY <1>1, <1>4, <1>5, <1>6 DEF ServingOK, e

\* Writes of TLS files are that.
LEMMA WritesAre ==
  ASSUME NEW part, NEW files
  PROVE  TLSSteps(Writes(part, files))
<1> DEFINE x == Write(part, "key", files.key) y == Write(part, "cert", files.cert)
           z == Write(part, "enabled", files.enabled) t == Writes(part, files)
           pc == <<"live", "cert">> pk == <<"live", "key">> pe == <<"live", "enabled">>
<1>1. IsStep(x, part, Only(pk, files.key)) BY WriteIs
<1>2. IsStep(y, part, Only(pc, files.cert)) BY WriteIs
<1>3. IsStep(z, part, Only(pe, files.enabled)) BY WriteIs
<1>4. t = <<x, y, z>> BY DEF Writes
<1>5. DOMAIN Only(pk, files.key) = {pk} /\ DOMAIN Only(pc, files.cert) = {pc} /\ DOMAIN Only(pe, files.enabled) = {pe}
  BY OnlyIs
<1> HIDE DEF x, y, z, t, pc, pk, pe
<1>6. TLSStep(x) /\ TLSStep(y) /\ TLSStep(z) BY <1>1, <1>2, <1>3, <1>5 DEF TLSStep, IsStep, pc, pk, pe
<1>7. IsSeq(t) /\ \A k \in DOMAIN t : t[k] \in {x, y, z}
  <2>1. IsSeq(<<x, y, z>>) /\ \A k \in DOMAIN <<x, y, z>> : <<x, y, z>>[k] \in {x, y, z} BY ThreeSteps
  <2> QED BY <2>1, <1>4
<1> QED BY <1>6, <1>7 DEF TLSSteps, t

LEMMA TLSRest ==
  ASSUME NEW todo, TLSSteps(todo), todo # <<>>
  PROVE  TLSSteps(Tail(todo)) /\ TLSStep(Head(todo))
<1> DEFINE rest == Tail(todo)
<1>1. /\ IsSeq(rest) /\ Head(todo) = todo[1] /\ 1 \in DOMAIN todo
      /\ \A k \in DOMAIN rest : k \in Nat /\ k > 0 /\ k + 1 \in DOMAIN todo /\ rest[k] = todo[k + 1]
  BY Rest DEF TLSSteps
<1> HIDE DEF rest
<1>2. \A k \in DOMAIN rest : TLSStep(rest[k]) BY <1>1 DEF TLSSteps
<1> QED BY <1>1, <1>2 DEF rest, TLSSteps
-----------------------------------------------------------------------------
(* Uploads.                                                                  *)

LEMMA ChangedIs ==
  ASSUME NEW change
  PROVE  /\ IsDisk(Changed(change))
         /\ \A p \in Path : Changed(change)[p] = IF p \in DOMAIN change THEN change[p] ELSE disk[p]
BY DEF Changed, IsDisk

\* What is staged can be read with this server's keys.
LEMMA MigratedIsGood ==
  ASSUME NEW archive, GoodArchive(archive), NEW x, Good(x), disk[<<"live", "db">>] = {x}
  PROVE  Good(Reencrypted(WithPreservedSettings(archive), archive.db.headers))
<1> DEFINE w == WithPreservedSettings(archive) from == archive.db.headers z == Reencrypted(w, from)
           v == archive.db
<1>1. /\ DOMAIN v = {"id", "tls", "headers", "acme"} /\ v.tls \in BOOLEAN /\ v.acme \in {NoToken, from}
      /\ archive.tls \in BOOLEAN
  BY DEF GoodArchive
<1>2. DB = x BY DBIs
<1>3. w = IF archive.tls THEN v ELSE [v EXCEPT !.tls = x.tls, !.acme = x.acme]
  BY <1>2 DEF WithPreservedSettings
<1>4. z = [w EXCEPT !.headers = Here, !.acme = IF w.acme = from THEN Here ELSE w.acme]
  BY DEF Reencrypted
<1>5. x.tls \in BOOLEAN /\ x.acme \in {NoToken, Here} BY DEF Good
<1> HIDE DEF w, z, v, from
<1>6. DOMAIN w = {"id", "tls", "headers", "acme"}
  <2>1. CASE archive.tls BY <2>1, <1>1, <1>3
  <2>2. CASE ~archive.tls BY <2>2, <1>1, <1>3
  <2> QED BY <2>1, <2>2
<1>7. w.tls \in BOOLEAN
  <2>1. CASE archive.tls BY <2>1, <1>1, <1>3
  <2>2. CASE ~archive.tls
    <3>1. [v EXCEPT !.tls = x.tls, !.acme = x.acme].tls \in BOOLEAN BY <1>1, <1>5
    <3> QED BY <2>2, <3>1, <1>3
  <2> QED BY <2>1, <2>2
<1>8. w.acme \in {NoToken, from, Here}
  <2>1. CASE archive.tls BY <2>1, <1>1, <1>3
  <2>2. CASE ~archive.tls
    <3>1. [v EXCEPT !.tls = x.tls, !.acme = x.acme].acme = x.acme BY <1>1
    <3> QED BY <2>2, <3>1, <1>3, <1>5
  <2> QED BY <2>1, <2>2
<1>9. DOMAIN z = {"id", "tls", "headers", "acme"} BY <1>4, <1>6
<1>10. z.headers = Here BY <1>4, <1>6
<1>11. z.acme = IF w.acme = from THEN Here ELSE w.acme BY <1>4, <1>6
<1>12. z.tls \in BOOLEAN BY <1>4, <1>6, <1>7
<1> QED BY <1>8, <1>9, <1>10, <1>11, <1>12 DEF Good, z, w, from

LEMMA PendingIs ==
  ASSUME NEW archive
  PROVE  /\ DOMAIN Pending(archive) = In("pending")
         /\ Pending(archive)[<<"pending", "db">>] =
              {Reencrypted(WithPreservedSettings(archive), archive.db.headers)}
         /\ Pending(archive)[<<"pending", "restore.json">>] = {archive.tls}
BY DEF Pending, In, File

LEMMA StagingServes ==
  ASSUME NEW archive, GoodArchive(archive), ServingOK(disk), StageRestore(archive)
  PROVE  ServingOK(disk')
<1> DEFINE e == disk'
<1>1. PICK x : Good(x) /\ disk[<<"live", "db">>] = {x} /\ disk[<<"live", "wal">>] = {x.id}
  BY DEF ServingOK, Opened
<1> DEFINE m == Reencrypted(WithPreservedSettings(archive), archive.db.headers)
<1>2. Good(m) BY <1>1, MigratedIsGood
<1>3. e = Changed(Pending(archive)) \/ e = Changed(Removed(In("pending"))) BY DEF StageRestore
<1>4. /\ DOMAIN Pending(archive) = In("pending")
      /\ Pending(archive)[<<"pending", "db">>] = {m}
      /\ Pending(archive)[<<"pending", "restore.json">>] = {archive.tls}
  BY PendingIs
<1>5. DOMAIN Removed(In("pending")) = In("pending") /\ \A p \in In("pending") : Removed(In("pending"))[p] = {}
  BY RemovedIs
<1>6. ASSUME NEW change, e = Changed(change), DOMAIN change = In("pending")
      PROVE  /\ IsDisk(e) /\ \A p \in In("pending") : e[p] = change[p]
             /\ e[<<"live", "db">>] = disk[<<"live", "db">>] /\ e[<<"live", "wal">>] = disk[<<"live", "wal">>]
             /\ e[<<"live", "applied">>] = disk[<<"live", "applied">>]
  <2>1. IsDisk(e) /\ \A p \in Path : e[p] = IF p \in DOMAIN change THEN change[p] ELSE disk[p] BY <1>6, ChangedIs
  <2>2. /\ <<"live", "db">> \notin In("pending") /\ <<"live", "wal">> \notin In("pending")
        /\ <<"live", "applied">> \notin In("pending")
    BY PathFacts
  <2> HIDE DEF e
  <2> QED BY <2>1, <2>2, <1>6, LivePaths
<1> HIDE DEF m, e
<1>7. /\ IsDisk(e) /\ e[<<"live", "db">>] = disk[<<"live", "db">>] /\ e[<<"live", "wal">>] = disk[<<"live", "wal">>]
      /\ e[<<"live", "applied">>] = disk[<<"live", "applied">>]
  <2>1. CASE e = Changed(Pending(archive)) BY <2>1, <1>4, <1>6
  <2>2. CASE e = Changed(Removed(In("pending"))) BY <2>2, <1>5, <1>6
  <2> QED BY <2>1, <2>2, <1>3
<1>8. PendingShape(e)
  <2>1. CASE e = Changed(Pending(archive))
    <3>1. \A p \in In("pending") : e[p] = Pending(archive)[p] BY <2>1, <1>4, <1>6
    <3>2. e[<<"pending", "db">>] = {m} /\ e[<<"pending", "restore.json">>] = {archive.tls}
      BY <3>1, <1>4 DEF In, File
    <3>3. archive.tls \in BOOLEAN BY DEF GoodArchive
    <3> QED BY <3>2, <3>3, <1>2 DEF PendingShape
  <2>2. CASE e = Changed(Removed(In("pending")))
    <3>1. \A p \in In("pending") : e[p] = {} BY <2>2, <1>5, <1>6
    <3> QED BY <3>1 DEF PendingShape, Cleared
  <2> QED BY <2>1, <2>2, <1>3
<1>9. Opened(e) BY <1>1, <1>7 DEF Opened
<1>10. ~Marked(e) BY <1>7 DEF ServingOK, Marked
<1> QED BY <1>7, <1>8, <1>9, <1>10 DEF ServingOK, e

\* What an export takes is good, whatever it takes of the TLS files.
LEMMA ExportDatabaseKeeps ==
  ASSUME HandlersOK, ServingOK(disk), ExportDatabase, UNCHANGED certificateVars
  PROVE  HandlersOK' /\ disk' = disk
<1>1. PICK x : Good(x) /\ disk[<<"live", "db">>] = {x} BY DEF ServingOK, Opened
<1>2. DB = x BY <1>1, DBIs
<1>3. DOMAIN x = {"id", "tls", "headers", "acme"} /\ x.tls \in BOOLEAN /\ x.acme \in {NoToken, x.headers}
  BY <1>1 DEF Good
<1>4. PICK tls \in BOOLEAN :
        LET a == [db |-> DB, tls |-> tls, cert |-> {}, key |-> {}, enabled |-> {}]
        IN \/ exporter' = [at |-> 1, archive |-> a] /\ UNCHANGED archives
           \/ archives' = archives \union {a} /\ UNCHANGED exporter
  BY DEF ExportDatabase
<1> DEFINE a == [db |-> DB, tls |-> tls, cert |-> {}, key |-> {}, enabled |-> {}]
<1>5. DOMAIN a = {"db", "tls", "cert", "key", "enabled"} /\ a.db = x BY <1>2
<1>6. a.tls \in BOOLEAN OBVIOUS
<1>7. \/ exporter' = [at |-> 1, archive |-> a] /\ UNCHANGED archives
      \/ archives' = archives \union {a} /\ UNCHANGED exporter
  BY <1>4
<1> HIDE DEF a
<1>8. GoodArchive(a) BY <1>3, <1>5, <1>6 DEF GoodArchive
<1>9. \A b \in archives' : GoodArchive(b) BY <1>7, <1>8 DEF HandlersOK
<1>10. ExporterOK(exporter')
  <2>1. 1 \in 1..3 OBVIOUS
  <2> QED BY <2>1, <1>7, <1>8 DEF ExporterOK, HandlersOK
<1>11. issuer' = issuer BY DEF certificateVars
<1>12. disk' = disk BY DEF ExportDatabase
<1> QED BY <1>9, <1>10, <1>11, <1>12 DEF HandlersOK

LEMMA ExportFileKeeps ==
  ASSUME HandlersOK, ExportFile, UNCHANGED certificateVars
  PROVE  HandlersOK' /\ disk' = disk
<1>1. PICK n, a : exporter = [at |-> n, archive |-> a] /\ n \in 1..3 /\ GoodArchive(a)
  BY DEF ExportFile, HandlersOK, ExporterOK
<1> DEFINE f == TLSFiles[n] v == disk[<<"live", f>>] b == [a EXCEPT ![f] = v]
<1>2. f \in {"cert", "key", "enabled"}
  <2>1. n = 1 \/ n = 2 \/ n = 3 BY <1>1
  <2> QED BY <2>1 DEF TLSFiles
<1>3. exporter.at = n /\ exporter.archive = a BY <1>1
<1>4. \/ n < 3 /\ exporter' = [at |-> n + 1, archive |-> b] /\ UNCHANGED archives
      \/ exporter' = NotExporting /\ archives' = archives \union {b}
  <2>1. Len(TLSFiles) = 3 BY DEF TLSFiles
  <2> QED BY <2>1, <1>3 DEF ExportFile
<1>5. GoodArchive(b)
  <2>1. /\ DOMAIN a = {"db", "tls", "cert", "key", "enabled"} /\ a.tls \in BOOLEAN
        /\ DOMAIN a.db = {"id", "tls", "headers", "acme"}
        /\ a.db.tls \in BOOLEAN /\ a.db.acme \in {NoToken, a.db.headers}
    BY <1>1 DEF GoodArchive
  <2> HIDE DEF f, v
  <2>2. f # "db" /\ f # "tls" BY <1>2
  <2>3. DOMAIN b = {"db", "tls", "cert", "key", "enabled"} BY <2>1
  <2>4. b.db = a.db BY <2>1, <2>2
  <2>5. b.tls \in BOOLEAN BY <2>1, <2>2
  <2> HIDE DEF b
  <2> QED BY <2>1, <2>3, <2>4, <2>5 DEF GoodArchive
<1> HIDE DEF b
<1>6. \A c \in archives' : GoodArchive(c) BY <1>4, <1>5 DEF HandlersOK
<1>7. ExporterOK(exporter')
  <2>1. CASE n < 3 /\ exporter' = [at |-> n + 1, archive |-> b]
    <3>1. n + 1 \in 1..3 BY <2>1, <1>1
    <3> QED BY <3>1, <2>1, <1>5 DEF ExporterOK
  <2>2. CASE exporter' = NotExporting BY <2>2 DEF ExporterOK
  <2> QED BY <2>1, <2>2, <1>4
<1>8. issuer' = issuer BY DEF certificateVars
<1>9. disk' = disk BY DEF ExportFile
<1> QED BY <1>6, <1>7, <1>8, <1>9 DEF HandlersOK
-----------------------------------------------------------------------------
(* Certificates and settings.                                                *)

LEMMA GoesKeeps ==
  ASSUME HandlersOK, NEW i \in Issuer, NEW x, IssuerOK(x), Goes(i, x), UNCHANGED restoreVars
  PROVE  HandlersOK'
BY DEF HandlersOK, Goes, restoreVars

LEMMA StaysKeeps ==
  ASSUME HandlersOK, UNCHANGED issuer, UNCHANGED restoreVars
  PROVE  HandlersOK'
BY DEF HandlersOK, restoreVars

\* The settings in the database are saved.
LEMMA SetDBServes ==
  ASSUME ServingOK(disk), NEW y, Good(y), y.id = DB.id, SetDB(y)
  PROVE  ServingOK(disk')
<1>1. PICK x : disk[<<"live", "db">>] = {x} BY DEF ServingOK, Opened
<1>2. y.id = x.id BY <1>1, DBIs
<1> QED BY <1>1, <1>2, ServingSetDB DEF SetDB

LEMMA DBGood ==
  ASSUME ServingOK(disk)
  PROVE  Good(DB)
BY DBIs DEF ServingOK, Opened

LEMMA IssuerPlain ==
  ASSUME NEW x, x.at \notin {"installing", "restoring"}
  PROVE  IssuerOK(x)
BY DEF IssuerOK

LEMMA IssuerAt ==
  ASSUME NEW x, IssuerOK(x)
  PROVE  /\ x.at = "installing" =>
              \E c, k, t : x = [at |-> "installing", certificate |-> c, kept |-> k, todo |-> t] /\ TLSSteps(t)
         /\ x.at = "restoring" => \E t : x = [at |-> "restoring", todo |-> t] /\ TLSSteps(t)
<1>1. \A c, k, t : [at |-> "installing", certificate |-> c, kept |-> k, todo |-> t].at # "restoring" OBVIOUS
<1>2. \A t : [at |-> "restoring", todo |-> t].at # "installing" OBVIOUS
<1> QED BY <1>1, <1>2 DEF IssuerOK

LEMMA HandlerBeginsKeeps ==
  ASSUME HandlersOK, ServingOK(disk), HandlerBegins, UNCHANGED restoreVars
  PROVE  HandlersOK' /\ ServingOK(disk')
<1> DEFINE x == [DB EXCEPT !.acme = Here] y == [DB EXCEPT !.acme = Here, !.tls = TRUE] st == [at |-> "asking"]
<1>1. Good(x) /\ x.id = DB.id /\ Good(y) /\ y.id = DB.id BY DBGood, GoodSet
<1>2. st.at = "asking" OBVIOUS
<1>3. (SetDB(y) /\ UNCHANGED issuer) \/ (SetDB(x) /\ Goes("handler", st)) BY DEF HandlerBegins
<1> HIDE DEF x, y, st
<1>4. ServingOK(disk') BY <1>1, <1>3, SetDBServes
<1>5. IssuerOK(st) BY <1>2, IssuerPlain
<1>6. "handler" \in Issuer BY DEF Issuer
<1> QED BY <1>3, <1>4, <1>5, <1>6, GoesKeeps, StaysKeeps

LEMMA SettingsSavedKeeps ==
  ASSUME HandlersOK, ServingOK(disk), SettingsSaved, UNCHANGED restoreVars
  PROVE  HandlersOK' /\ ServingOK(disk')
<1> DEFINE y == [DB EXCEPT !.tls = TRUE] st == [at |-> "activating", certificate |-> issuer["handler"].certificate]
           un == Undoing("handler")
<1>1. Good(y) /\ y.id = DB.id BY DBGood, GoodSet
<1>2. st.at = "activating" /\ un.at = "undoing" BY DEF Undoing
<1>3. (SetDB(y) \/ UNCHANGED disk) /\ (Goes("handler", st) \/ Goes("handler", un)) BY DEF SettingsSaved
<1> HIDE DEF y, st, un
<1>4. ServingOK(disk') BY <1>1, <1>3, SetDBServes
<1>5. IssuerOK(st) /\ IssuerOK(un) BY <1>2, IssuerPlain
<1>6. "handler" \in Issuer BY DEF Issuer
<1> QED BY <1>3, <1>4, <1>5, <1>6, GoesKeeps

LEMMA SettingDisabledKeeps ==
  ASSUME HandlersOK, ServingOK(disk), SettingDisabled, UNCHANGED restoreVars
  PROVE  HandlersOK' /\ ServingOK(disk')
<1> DEFINE y == [DB EXCEPT !.tls = FALSE] st == [at |-> "unmarking"]
<1>1. Good(y) /\ y.id = DB.id BY DBGood, GoodSet
<1>2. st.at = "unmarking" OBVIOUS
<1>3. SetDB(y) /\ Goes("scheduler", st) BY DEF SettingDisabled
<1> HIDE DEF y, st
<1>4. ServingOK(disk') BY <1>1, <1>3, SetDBServes
<1>5. IssuerOK(st) BY <1>2, IssuerPlain
<1>6. "scheduler" \in Issuer BY DEF Issuer
<1> QED BY <1>3, <1>4, <1>5, <1>6, GoesKeeps

LEMMA SettingsWrittenKeeps ==
  ASSUME HandlersOK, ServingOK(disk), SettingsWritten, UNCHANGED restoreVars
  PROVE  HandlersOK' /\ ServingOK(disk')
<1> DEFINE b == TRUE \in settingsRead y == [DB EXCEPT !.tls = b]
<1>1. b \in BOOLEAN OBVIOUS
<1>2. (SetDB(y) \/ UNCHANGED disk) /\ UNCHANGED issuer BY DEF SettingsWritten
<1> HIDE DEF b
<1>3. Good(y) /\ y.id = DB.id BY <1>1, DBGood, GoodSet
<1> HIDE DEF y
<1>4. ServingOK(disk') BY <1>2, <1>3, SetDBServes
<1> QED BY <1>2, <1>4, StaysKeeps

LEMMA MarkerDisabledKeeps ==
  ASSUME HandlersOK, ServingOK(disk), MarkerDisabled, UNCHANGED restoreVars
  PROVE  HandlersOK' /\ ServingOK(disk')
<1> DEFINE x == Remove("disabling", "live", "enabled") pe == <<"live", "enabled">>
<1>1. IsStep(x, "disabling", Only(pe, {})) BY RemoveIs
<1>2. DOMAIN Only(pe, {}) = {pe} BY OnlyIs
<1>3. Performed(x) \/ UNCHANGED disk BY DEF MarkerDisabled
<1>4. Goes("scheduler", Idle) BY DEF MarkerDisabled
<1> HIDE DEF x, pe
<1>5. TLSStep(x) BY <1>1, <1>2 DEF TLSStep, IsStep, pe
<1>6. ServingOK(disk')
  <2>1. CASE Performed(x)
    <3>1. disk' = DoneTo(disk, x) BY <2>1 DEF Performed, Changed, DoneTo
    <3> QED BY <3>1, <1>5, ServingTLS
  <2> QED BY <2>1, <1>3
<1>7. Idle.at = "idle" BY DEF Idle
<1>8. IssuerOK(Idle) BY <1>7, IssuerPlain
<1>9. "scheduler" \in Issuer BY DEF Issuer
<1> QED BY <1>4, <1>6, <1>8, <1>9, GoesKeeps

\* The steps that change no file.
LEMMA AskingKeeps ==
  ASSUME HandlersOK, UNCHANGED restoreVars, NEW i \in Issuer,
         SchedulerChecks \/ IssueBegins(i) \/ IssueEnds(i) \/ BackUp(i) \/ InstallBegins(i) \/ RestoreBegins(i)
  PROVE  HandlersOK' /\ UNCHANGED disk
<1>1. CASE SchedulerChecks
  <2> DEFINE x == [at |-> "disabling"] y == [at |-> "asking"]
  <2>1. x.at = "disabling" /\ y.at = "asking" OBVIOUS
  <2>2. (Goes("scheduler", x) \/ Goes("scheduler", y)) /\ UNCHANGED disk BY <1>1 DEF SchedulerChecks
  <2> HIDE DEF x, y
  <2>3. IssuerOK(x) /\ IssuerOK(y) BY <2>1, IssuerPlain
  <2>4. "scheduler" \in Issuer BY DEF Issuer
  <2> QED BY <2>2, <2>3, <2>4, GoesKeeps
<1>2. CASE IssueBegins(i)
  <2> DEFINE x == Idle y == [at |-> "issuing"]
  <2>1. x.at = "idle" /\ y.at = "issuing" BY DEF Idle
  <2>2. (Goes(i, x) \/ Goes(i, y)) /\ UNCHANGED disk BY <1>2 DEF IssueBegins
  <2> HIDE DEF x, y
  <2>3. IssuerOK(x) /\ IssuerOK(y) BY <2>1, IssuerPlain
  <2> QED BY <2>2, <2>3, GoesKeeps
<1>3. CASE IssueEnds(i)
  <2> DEFINE x == Idle y == [at |-> "issued", certificate |-> issued']
  <2>1. x.at = "idle" /\ y.at = "issued" BY DEF Idle
  <2>2. (Goes(i, x) \/ Goes(i, y)) /\ UNCHANGED disk BY <1>3 DEF IssueEnds
  <2> HIDE DEF x, y
  <2>3. IssuerOK(x) /\ IssuerOK(y) BY <2>1, IssuerPlain
  <2> QED BY <2>2, <2>3, GoesKeeps
<1>4. CASE BackUp(i)
  <2> DEFINE kept == [f \in {"cert", "key", "enabled"} |-> disk[<<"live", f>>]]
             x == [at |-> "backedUp", certificate |-> issuer[i].certificate, kept |-> kept]
  <2>1. x.at = "backedUp" OBVIOUS
  <2>2. Goes(i, x) /\ UNCHANGED disk BY <1>4 DEF BackUp
  <2> HIDE DEF x
  <2>3. IssuerOK(x) BY <2>1, IssuerPlain
  <2> QED BY <2>2, <2>3, GoesKeeps
<1>5. CASE InstallBegins(i)
  <2> DEFINE c == issuer[i].certificate files == [cert |-> {c}, key |-> {c}, enabled |-> {TRUE}]
             t == Writes("installing", files)
             x == [at |-> "installing", certificate |-> c, kept |-> issuer[i].kept, todo |-> t]
  <2>1. TLSSteps(t) BY WritesAre
  <2>2. Goes(i, x) /\ UNCHANGED disk BY <1>5 DEF InstallBegins
  <2> HIDE DEF t
  <2>3. IssuerOK(x) BY <2>1 DEF IssuerOK
  <2> QED BY <2>2, <2>3, GoesKeeps
<1>6. CASE RestoreBegins(i)
  <2> DEFINE t == Writes("restoring", issuer[i].kept) x == [at |-> "restoring", todo |-> t]
  <2>1. TLSSteps(t) BY WritesAre
  <2>2. Goes(i, x) /\ UNCHANGED disk BY <1>6 DEF RestoreBegins, Restoring
  <2> HIDE DEF t
  <2>3. IssuerOK(x) BY <2>1 DEF IssuerOK
  <2> QED BY <2>2, <2>3, GoesKeeps
<1> QED BY <1>1, <1>2, <1>3, <1>4, <1>5, <1>6

LEMMA FileWrittenKeeps ==
  ASSUME HandlersOK, ServingOK(disk), UNCHANGED restoreVars, NEW i \in Issuer, FileWritten(i)
  PROVE  HandlersOK' /\ ServingOK(disk')
<1> DEFINE todo == issuer[i].todo un == Undoing(i) y == [issuer[i] EXCEPT !.todo = Tail(issuer[i].todo)]
<1>1. IssuerOK(issuer[i]) BY DEF HandlersOK
<1>2. issuer[i].at \in {"installing", "restoring"} /\ todo # <<>> BY DEF FileWritten
<1>3. \/ Performed(Head(todo)) /\ Goes(i, y)
      \/ (Goes(i, Idle) \/ Goes(i, un)) /\ UNCHANGED disk
  BY DEF FileWritten
<1>4. TLSSteps(todo)
  <2> DEFINE z == issuer[i]
  <2>1. IssuerOK(z) BY <1>1
  <2>2. z.at = "installing" \/ z.at = "restoring" BY <1>2
  <2>3. TLSSteps(z.todo)
    <3> HIDE DEF z
    <3>1. CASE z.at = "installing"
      <4>1. PICK c, k, t : z = [at |-> "installing", certificate |-> c, kept |-> k, todo |-> t] /\ TLSSteps(t)
        BY <2>1, <3>1, IssuerAt
      <4> QED BY <4>1
    <3>2. CASE z.at = "restoring"
      <4>1. PICK t : z = [at |-> "restoring", todo |-> t] /\ TLSSteps(t) BY <2>1, <3>2, IssuerAt
      <4> QED BY <4>1
    <3> QED BY <2>2, <3>1, <3>2
  <2> QED BY <2>3
<1>5. TLSSteps(Tail(todo)) /\ TLSStep(Head(todo)) BY <1>2, <1>4, TLSRest
<1>6. IssuerOK(y)
  <2>1. CASE issuer[i].at = "installing"
    <3>1. PICK c, k, t : issuer[i] = [at |-> "installing", certificate |-> c, kept |-> k, todo |-> t] /\ TLSSteps(t)
      BY <2>1, <1>1, IssuerAt
    <3> DEFINE u == Tail(issuer[i].todo)
    <3>2. TLSSteps(u) BY <1>5
    <3> HIDE DEF u
    <3>3. [issuer[i] EXCEPT !.todo = u] = [at |-> "installing", certificate |-> c, kept |-> k, todo |-> u]
      BY <3>1
    <3>4. IssuerOK([at |-> "installing", certificate |-> c, kept |-> k, todo |-> u]) BY <3>2 DEF IssuerOK
    <3> QED BY <3>3, <3>4 DEF u
  <2>2. CASE issuer[i].at = "restoring"
    <3>1. PICK t : issuer[i] = [at |-> "restoring", todo |-> t] /\ TLSSteps(t) BY <2>2, <1>1, IssuerAt
    <3> DEFINE u == Tail(issuer[i].todo)
    <3>2. TLSSteps(u) BY <1>5
    <3> HIDE DEF u
    <3>3. [issuer[i] EXCEPT !.todo = u] = [at |-> "restoring", todo |-> u] BY <3>1
    <3>4. IssuerOK([at |-> "restoring", todo |-> u]) BY <3>2 DEF IssuerOK
    <3> QED BY <3>3, <3>4 DEF u
  <2> QED BY <2>1, <2>2, <1>2
<1>7. Idle.at = "idle" /\ un.at = "undoing" BY DEF Idle, Undoing
<1> HIDE DEF todo, un, y
<1>8. IssuerOK(Idle) /\ IssuerOK(un) BY <1>7, IssuerPlain
<1>9. HandlersOK' BY <1>3, <1>6, <1>8, GoesKeeps
<1>10. ServingOK(disk')
  <2>1. CASE Performed(Head(todo))
    <3>1. disk' = DoneTo(disk, Head(todo)) BY <2>1 DEF Performed, Changed, DoneTo
    <3> QED BY <3>1, <1>5, ServingTLS
  <2> QED BY <2>1, <1>3
<1> QED BY <1>9, <1>10

LEMMA FilesWrittenKeeps ==
  ASSUME HandlersOK, UNCHANGED restoreVars, NEW i \in Issuer, FilesWritten(i)
  PROVE  HandlersOK' /\ UNCHANGED disk
<1>1. UNCHANGED disk BY DEF FilesWritten
<1>2. Idle.at = "idle" BY DEF Idle
<1>3. IssuerOK(Idle) BY <1>2, IssuerPlain
<1>4. CASE Goes(i, Idle) BY <1>1, <1>3, <1>4, GoesKeeps
<1>5. CASE issuer[i].at = "installing" /\ Goes(i, [issuer[i] EXCEPT !.at = "saving"])
  <2> DEFINE x == [issuer[i] EXCEPT !.at = "saving"]
  <2>1. IssuerOK(issuer[i]) BY DEF HandlersOK
  <2>2. PICK c, k, t : issuer[i] = [at |-> "installing", certificate |-> c, kept |-> k, todo |-> t] /\ TLSSteps(t)
    BY <2>1, <1>5, IssuerAt
  <2>3. x.at = "saving" BY <2>2
  <2> HIDE DEF x
  <2>4. IssuerOK(x) BY <2>3, IssuerPlain
  <2> QED BY <2>4, <1>1, <1>5, GoesKeeps DEF x
<1> QED BY <1>4, <1>5 DEF FilesWritten, At
-----------------------------------------------------------------------------
(* Where main may go.                                                        *)

StorageInv ==
  /\ InPlace(process.at, process.todo, restored, disk, served)
  /\ HandlersOK

LEMMA PlaceDown ==
  ASSUME NEW d, NEW s, IsDisk(d), ServedShape(s), PendingKept(d, s),
         Settled(d, s) \/ (Marked(d) /\ DiskStored(d, s))
  PROVE  InPlace("down", <<>>, FALSE, d, s)
BY DEF InPlace, ByPlace, Resting, Working

LEMMA PlaceRolling ==
  ASSUME NEW at \in {"recovering", "undoing", "reverting"}, NEW r \in BOOLEAN, r => at = "reverting",
         NEW d, NEW s, NEW todo, IsDisk(d), ServedShape(s), PendingKept(d, s), Rolling(at, d, s, todo)
  PROVE  InPlace(at, todo, r, d, s)
BY DEF InPlace, ByPlace, Resting, Working

LEMMA PlaceApplying ==
  ASSUME NEW d, NEW s, NEW todo, IsDisk(d), ServedShape(s), PendingKept(d, s), Applying(d, s, todo)
  PROVE  InPlace("applying", todo, FALSE, d, s)
BY DEF InPlace, ByPlace, Resting, Working

LEMMA PlaceOpening ==
  ASSUME NEW r \in BOOLEAN, NEW d, NEW s, IsDisk(d), ServedShape(s), PendingKept(d, s),
         r => Replaced(d, s), ~r => Settled(d, s)
  PROVE  InPlace("opening", <<>>, r, d, s)
BY DEF InPlace, ByPlace, Resting, Working

LEMMA PlaceReopening ==
  ASSUME NEW r \in BOOLEAN, NEW d, NEW s, IsDisk(d), ServedShape(s), PendingKept(d, s), DiskOld(d, s)
  PROVE  InPlace("reopening", <<>>, r, d, s)
BY DEF InPlace, ByPlace, Resting, Working

LEMMA PlaceChecking ==
  ASSUME NEW r \in BOOLEAN, NEW d, NEW s, IsDisk(d), ServedShape(s), PendingKept(d, s), Opened(d),
         Settled(d, s) \/ (r /\ Replaced(d, s))
  PROVE  InPlace("checking", <<>>, r, d, s)
BY DEF InPlace, ByPlace, Resting, Working

LEMMA PlaceListening ==
  ASSUME NEW r \in BOOLEAN, NEW d, NEW s, IsDisk(d), ServedShape(s), PendingKept(d, s), Opened(d),
         Settled(d, s) \/ (r /\ Replaced(d, s) /\ Paired(d))
  PROVE  InPlace("listening", <<>>, r, d, s)
BY DEF InPlace, ByPlace, Resting, Working

LEMMA PlaceFinalizing ==
  ASSUME NEW r \in BOOLEAN, NEW d, NEW s, NEW todo, IsDisk(d), ServedShape(s), PendingKept(d, s), Opened(d),
         Finalizing(d, todo), Settled(d, s) \/ (Replaced(d, s) /\ Paired(d))
  PROVE  InPlace("finalizing", todo, r, d, s)
BY DEF InPlace, ByPlace, Resting, Working

LEMMA PlaceServing ==
  ASSUME NEW d, NEW s, ServingOK(d), ServedShape(s)
  PROVE  InPlace("serving", <<>>, FALSE, d, s)
BY DEF InPlace, ByPlace, Resting, Working, ServingOK

\* What is known at each place.
LEMMA Placed ==
  ASSUME NEW at, NEW todo, NEW r, NEW d, NEW s, InPlace(at, todo, r, d, s)
  PROVE  /\ IsDisk(d) /\ ServedShape(s) /\ r \in BOOLEAN
         /\ at \in Resting \union Working /\ (at \in Resting => todo = <<>>)
         /\ at # "serving" => PendingKept(d, s)
         /\ at \in {"down", "serving", "recovering", "undoing", "applying"} => r = FALSE
         /\ at = "serving" => ServingOK(d)
BY DEF InPlace, ByPlace, Resting, Working, ServingOK

LEMMA PlacedDisk ==
  ASSUME NEW at, NEW todo, NEW r, NEW d, NEW s, InPlace(at, todo, r, d, s)
  PROVE  IsDisk(d) /\ ServedShape(s) /\ r \in BOOLEAN
BY DEF InPlace

LEMMA PlacedWhere ==
  ASSUME NEW at, NEW todo, NEW r, NEW d, NEW s, InPlace(at, todo, r, d, s)
  PROVE  at \in Resting \union Working /\ (at \in Resting => todo = <<>>)
BY DEF InPlace

LEMMA PlacedPending ==
  ASSUME NEW at, NEW todo, NEW r, NEW d, NEW s, InPlace(at, todo, r, d, s), at # "serving"
  PROVE  PendingKept(d, s)
BY DEF InPlace

LEMMA PlacedFresh ==
  ASSUME NEW at, NEW todo, NEW r, NEW d, NEW s, InPlace(at, todo, r, d, s),
         at \in {"down", "serving", "recovering", "undoing", "applying"}
  PROVE  r = FALSE
BY DEF InPlace

LEMMA ByPlaceIs ==
  ASSUME NEW at, NEW todo, NEW r, NEW d, NEW s, InPlace(at, todo, r, d, s)
  PROVE  /\ at = "down" => Settled(d, s) \/ (Marked(d) /\ DiskStored(d, s))
         /\ at \in {"recovering", "undoing", "reverting"} => Rolling(at, d, s, todo)
         /\ at = "applying" => Applying(d, s, todo)
         /\ at = "opening" => IF r THEN Replaced(d, s) ELSE Settled(d, s)
         /\ at = "reopening" => DiskOld(d, s)
         /\ at \in {"checking", "listening", "finalizing", "serving"} => Opened(d)
         /\ at = "checking" => Settled(d, s) \/ (r /\ Replaced(d, s))
         /\ at = "listening" => Settled(d, s) \/ (r /\ Replaced(d, s) /\ Paired(d))
         /\ at = "finalizing" => Finalizing(d, todo) /\ (Settled(d, s) \/ (Replaced(d, s) /\ Paired(d)))
BY DEF InPlace, ByPlace

\* An exit loses what the handlers were doing.
LEMMA LostKeeps ==
  ASSUME HandlersOK, Lost
  PROVE  HandlersOK' /\ restored' = FALSE
<1>1. /\ issuer' = [i \in Issuer |-> Idle] /\ exporter' = NotExporting /\ restored' = FALSE /\ archives' = archives
  BY DEF Lost
<1>2. Idle.at \notin {"installing", "restoring"} BY DEF Idle
<1> QED BY <1>1, <1>2, IssuerPlain DEF HandlersOK, ExporterOK

LEMMA UnchangedKeeps ==
  ASSUME HandlersOK, UNCHANGED <<restoreVars, certificateVars>>
  PROVE  HandlersOK'
BY DEF HandlersOK, restoreVars, certificateVars

LEMMA RunsIs ==
  ASSUME NEW at, NEW todo, Runs(at, todo)
  PROVE  process'.at = at /\ process'.todo = todo
BY DEF Runs

\* The handlers.
LEMMA HandleKeeps ==
  ASSUME StorageInv, Handle
  PROVE  StorageInv'
<1>1. process.at = "serving" BY DEF Handle, Main
<1>2. ServingOK(disk) /\ ServedShape(served) /\ process.todo = <<>> /\ restored = FALSE
  BY <1>1, Placed DEF StorageInv, Resting
<1>3. HandlersOK BY DEF StorageInv
<1>4. HandlersOK' /\ ServingOK(disk')
  <2>1. CASE ExportDatabase /\ UNCHANGED certificateVars BY <2>1, <1>2, <1>3, ExportDatabaseKeeps
  <2>2. CASE ExportFile /\ UNCHANGED certificateVars BY <2>2, <1>2, <1>3, ExportFileKeeps
  <2>3. CASE (\E archive \in archives : StageRestore(archive)) /\ UNCHANGED certificateVars
    <3>1. PICK archive \in archives : StageRestore(archive) BY <2>3
    <3>2. GoodArchive(archive) BY <1>3 DEF HandlersOK
    <3>3. ServingOK(disk') BY <3>1, <3>2, <1>2, StagingServes
    <3>4. UNCHANGED <<archives, exporter>> BY <3>1 DEF StageRestore
    <3>5. UNCHANGED issuer BY <2>3 DEF certificateVars
    <3> QED BY <3>3, <3>4, <3>5, <1>3 DEF HandlersOK
  <2>4. ASSUME UNCHANGED restoreVars, Age PROVE HandlersOK' /\ ServingOK(disk')
    <3>1. UNCHANGED issuer /\ UNCHANGED disk BY <2>4 DEF Age
    <3> QED BY <3>1, <2>4, <1>2, <1>3, StaysKeeps
  <2>5. ASSUME UNCHANGED restoreVars, NEW i \in Issuer,
               SchedulerChecks \/ IssueBegins(i) \/ IssueEnds(i) \/ BackUp(i) \/ InstallBegins(i) \/ RestoreBegins(i)
        PROVE  HandlersOK' /\ ServingOK(disk')
    BY <2>5, <1>2, <1>3, AskingKeeps
  <2>6. ASSUME UNCHANGED restoreVars, NEW i \in Issuer, FileWritten(i) \/ FilesWritten(i)
        PROVE  HandlersOK' /\ ServingOK(disk')
    BY <2>6, <1>2, <1>3, FileWrittenKeeps, FilesWrittenKeeps
  <2>7. ASSUME UNCHANGED restoreVars, Activated PROVE HandlersOK' /\ ServingOK(disk')
    <3>1. Goes("handler", Idle) /\ UNCHANGED disk BY <2>7 DEF Activated
    <3>2. Idle.at = "idle" BY DEF Idle
    <3>3. IssuerOK(Idle) BY <3>2, IssuerPlain
    <3>4. "handler" \in Issuer BY DEF Issuer
    <3> QED BY <3>1, <3>3, <3>4, <2>7, <1>2, <1>3, GoesKeeps
  <2>8. ASSUME UNCHANGED restoreVars, SettingsRead PROVE HandlersOK' /\ ServingOK(disk')
    <3>1. UNCHANGED issuer /\ UNCHANGED disk BY <2>8 DEF SettingsRead
    <3> QED BY <3>1, <2>8, <1>2, <1>3, StaysKeeps
  <2>9. ASSUME UNCHANGED restoreVars,
               HandlerBegins \/ SettingsSaved \/ SettingDisabled \/ MarkerDisabled \/ SettingsWritten
        PROVE  HandlersOK' /\ ServingOK(disk')
    BY <2>9, <1>2, <1>3, HandlerBeginsKeeps, SettingsSavedKeeps, SettingDisabledKeeps, MarkerDisabledKeeps,
       SettingsWrittenKeeps
  <2>10. CASE /\ Age \/ HandlerBegins \/ SchedulerChecks
                 \/ (\E i \in Issuer :
                       \/ IssueBegins(i) \/ IssueEnds(i) \/ BackUp(i) \/ InstallBegins(i)
                       \/ RestoreBegins(i) \/ FileWritten(i) \/ FilesWritten(i))
                 \/ SettingsSaved \/ Activated \/ SettingDisabled \/ MarkerDisabled
                 \/ SettingsRead \/ SettingsWritten
              /\ UNCHANGED restoreVars
    <3>1. "handler" \in Issuer BY DEF Issuer
    <3> QED BY <3>1, <2>4, <2>5, <2>6, <2>7, <2>8, <2>9, <2>10
  <2> QED BY <2>1, <2>2, <2>3, <2>10 DEF Handle
<1>5. process' = process /\ restored' = FALSE /\ served' = served BY <1>2 DEF Handle
<1>6. InPlace("serving", <<>>, FALSE, disk', served) BY <1>2, <1>4, PlaceServing
<1> QED BY <1>1, <1>2, <1>4, <1>5, <1>6 DEF StorageInv
-----------------------------------------------------------------------------
(* The steps of main.                                                        *)

\* No failure in a rollback, nor among the copies of the TLS files, and no
\* crash in a rollback.
Spared ==
  /\ {"rollingBack", "copyingTLS"} \subseteq NoFailureIn
  /\ "rollingBack" \in NoCrashIn

LEMMA StartKeeps ==
  ASSUME StorageInv, Start
  PROVE  StorageInv'
<1>1. process.at = "down" /\ process' = FirstSteps BY DEF Start, Main
<1>2. disk' = disk /\ served' = served /\ restored' = restored BY DEF Start
<1>3. HandlersOK' BY UnchangedKeeps DEF Start, StorageInv
<1>4. /\ IsDisk(disk) /\ ServedShape(served) /\ PendingKept(disk, served) /\ restored = FALSE
  <2>1. process.at # "serving" /\ process.at \in {"down", "serving", "recovering", "undoing", "applying"} BY <1>1
  <2> QED BY <2>1, PlacedDisk, PlacedPending, PlacedFresh DEF StorageInv
<1>5. Settled(disk, served) \/ (Marked(disk) /\ DiskStored(disk, served))
  BY <1>1, ByPlaceIs DEF StorageInv
<1>6. CASE Marked(disk)
  <2>1. DiskStored(disk, served) BY <1>5, <1>6 DEF Settled
  <2>2. Rolling("recovering", disk, served, UndoRestore) BY <2>1, UndoRolls
  <2>3. process' = [at |-> "recovering", todo |-> UndoRestore] BY <1>1, <1>6 DEF FirstSteps, Has, Marked
  <2>4. InPlace("recovering", UndoRestore, FALSE, disk, served) BY <2>2, <1>4, PlaceRolling
  <2> QED BY <2>3, <2>4, <1>2, <1>3, <1>4 DEF StorageInv
<1>7. CASE ~Marked(disk) /\ ~Cleared(disk)
  <2>1. DiskOld(disk, served) BY <1>5, <1>7 DEF Settled, New
  <2>2. Applying(disk, served, ApplyRestore) BY <2>1, <1>4, <1>7, ApplyStarts
  <2>3. process' = [at |-> "applying", todo |-> ApplyRestore]
    BY <1>1, <1>7 DEF FirstSteps, Has, Marked, Exists, Cleared
  <2>4. InPlace("applying", ApplyRestore, FALSE, disk, served) BY <2>2, <1>4, PlaceApplying
  <2> QED BY <2>3, <2>4, <1>2, <1>3, <1>4 DEF StorageInv
<1>8. CASE ~Marked(disk) /\ Cleared(disk)
  <2>1. Settled(disk, served) BY <1>5, <1>8
  <2>2. process' = [at |-> "opening", todo |-> <<>>]
    BY <1>1, <1>8 DEF FirstSteps, Has, Marked, Exists, Cleared
  <2>3. InPlace("opening", <<>>, FALSE, disk, served) BY <2>1, <1>4, PlaceOpening
  <2> QED BY <2>2, <2>3, <1>2, <1>3, <1>4 DEF StorageInv
<1> QED BY <1>6, <1>7, <1>8

\* Only where file operations are, there are steps to do.
LEMMA WorkingAt ==
  ASSUME StorageInv, process.todo # <<>>
  PROVE  /\ process.at \in Working /\ process.at # "serving"
         /\ IsDisk(disk) /\ ServedShape(served) /\ PendingKept(disk, served) /\ restored \in BOOLEAN
         /\ process.at \in {"recovering", "undoing", "applying"} => restored = FALSE
<1>1. process.at \notin Resting /\ process.at \in Resting \union Working BY PlacedWhere DEF StorageInv
<1>2. process.at \in Working /\ process.at # "serving" BY <1>1 DEF Resting, Working
<1>3. InPlace(process.at, process.todo, restored, disk, served) BY DEF StorageInv
<1>4. process.at \in {"recovering", "undoing", "applying"} => restored = FALSE BY <1>3, PlacedFresh
<1> QED BY <1>2, <1>3, <1>4, PlacedDisk, PlacedPending

LEMMA FileStepKeeps ==
  ASSUME StorageInv, FileStep
  PROVE  StorageInv'
<1> DEFINE at == process.at todo == process.todo e == DoneTo(disk, Head(todo))
<1>1. todo # <<>> /\ Head(todo).can /\ disk' = e
  BY DEF FileStep, Performed, Changed, DoneTo
<1>2. process'.at = at /\ process'.todo = Tail(todo) BY RunsIs DEF FileStep
<1>3. served' = served /\ restored' = restored /\ HandlersOK'
  BY UnchangedKeeps DEF FileStep, StorageInv
<1>4. /\ at \in Working
      /\ IsDisk(disk) /\ ServedShape(served) /\ PendingKept(disk, served) /\ restored \in BOOLEAN
      /\ at \in {"recovering", "undoing", "applying"} => restored = FALSE
  BY <1>1, WorkingAt
<1> HIDE DEF at, todo
<1>5. InPlace(at, todo, restored, disk, served) BY DEF StorageInv, at, todo
<1>6. CASE at \in {"recovering", "undoing", "reverting"}
  <2>1. Rolling(at, disk, served, todo) BY <1>5, <1>6, ByPlaceIs
  <2>2. Rolling(at, e, served, Tail(todo)) /\ PendingKept(e, served) /\ IsDisk(e)
    BY <2>1, <1>1, <1>4, RollingDone
  <2> HIDE DEF e
  <2>3. restored => at = "reverting" BY <1>4, <1>6
  <2>4. InPlace(at, Tail(todo), restored, e, served) BY <2>2, <2>3, <1>4, <1>6, PlaceRolling
  <2> QED BY <2>4, <1>1, <1>2, <1>3 DEF StorageInv
<1>7. CASE at = "applying"
  <2>1. Applying(disk, served, todo) BY <1>5, <1>7, ByPlaceIs
  <2>2. Applying(e, served, Tail(todo)) /\ PendingKept(e, served) /\ IsDisk(e)
    BY <2>1, <1>1, <1>4, ApplyingDone
  <2> HIDE DEF e
  <2>3. restored = FALSE BY <1>4, <1>7
  <2>4. InPlace("applying", Tail(todo), FALSE, e, served) BY <2>2, <1>4, PlaceApplying
  <2> QED BY <2>3, <2>4, <1>1, <1>2, <1>3, <1>7 DEF StorageInv
<1>8. CASE at = "finalizing"
  <2>1. /\ Finalizing(disk, todo) /\ Opened(disk)
        /\ Settled(disk, served) \/ (Replaced(disk, served) /\ Paired(disk))
    BY <1>5, <1>8, ByPlaceIs
  <2>2. /\ Finalizing(e, Tail(todo)) /\ PendingKept(e, served) /\ Opened(e) /\ IsDisk(e) /\ Settled(e, served)
    BY <2>1, <1>1, <1>4, FinalizingDone
  <2> HIDE DEF e
  <2>3. InPlace("finalizing", Tail(todo), restored, e, served) BY <2>2, <1>4, PlaceFinalizing
  <2> QED BY <2>3, <1>1, <1>2, <1>3, <1>8 DEF StorageInv
<1> QED BY <1>4, <1>6, <1>7, <1>8 DEF Working

\* Down after a failure or a crash, from any place but a rollback's first part.
LEMMA DownFrom ==
  ASSUME NEW at, NEW todo, NEW r, NEW d, NEW s, InPlace(at, todo, r, d, s), at # "serving",
         at \in {"recovering", "undoing", "reverting"} => todo = <<>> \/ CleaningStep(at, Head(todo))
  PROVE  InPlace("down", <<>>, FALSE, d, s)
<1>1. /\ IsDisk(d) /\ ServedShape(s) /\ PendingKept(d, s)
      /\ at \in Resting \union Working
  BY PlacedDisk, PlacedPending, PlacedWhere
<1>2. Settled(d, s) \/ (Marked(d) /\ DiskStored(d, s))
  <2>1. CASE at = "down" BY <2>1, ByPlaceIs
  <2>2. CASE at \in {"recovering", "undoing", "reverting"}
    <3>1. DiskOld(d, s) BY <2>2, ByPlaceIs, RollingEnds
    <3> QED BY <3>1 DEF Settled, DiskOld
  <2>3. CASE at = "applying"
    <3>1. Applying(d, s, todo) BY <2>3, ByPlaceIs
    <3>2. CASE Marked(d) BY <3>1, <3>2, ApplyingStored
    <3>3. CASE ~Marked(d) BY <3>1, <3>3, ApplyingOld DEF Settled
    <3> QED BY <3>2, <3>3
  <2>4. CASE at \in {"opening", "checking", "listening", "finalizing"}
    <3>1. Settled(d, s) \/ Replaced(d, s) BY <2>4, ByPlaceIs
    <3> QED BY <3>1 DEF Replaced
  <2>5. CASE at = "reopening"
    <3>1. DiskOld(d, s) BY <2>5, ByPlaceIs
    <3> QED BY <3>1 DEF Settled, DiskOld
  <2> QED BY <2>1, <2>2, <2>3, <2>4, <2>5, <1>1 DEF Resting, Working
<1> QED BY <1>1, <1>2, PlaceDown

LEMMA FailureIs ==
  ASSUME Spared, NEW step, Fails(step), step.can
  PROVE  step.part \notin {"rollingBack", "copyingTLS"}
BY DEF Spared, Fails, Failure

LEMMA FileStepFailsKeeps ==
  ASSUME Spared, StorageInv, FileStepFails
  PROVE  StorageInv'
<1> DEFINE at == process.at todo == process.todo step == Head(todo)
<1>1. todo # <<>> /\ Fails(step) /\ process' = AfterFailure(step) /\ disk' = disk /\ served' = served
  BY DEF FileStepFails
<1>2. /\ at \in Working /\ at # "serving"
      /\ IsDisk(disk) /\ ServedShape(served) /\ PendingKept(disk, served) /\ restored \in BOOLEAN
      /\ at \in {"recovering", "undoing", "applying"} => restored = FALSE
  BY <1>1, WorkingAt
<1>3. InPlace(at, todo, restored, disk, served) /\ HandlersOK BY DEF StorageInv
<1>4. AfterFailure(step) =
        CASE ~step.must -> [at |-> at, todo |-> Tail(todo)]
          [] step.must /\ at = "applying" /\ step.part # "copying" -> [at |-> "undoing", todo |-> UndoRestore]
          [] step.must /\ at = "undoing" -> [at |-> "undoing", todo |-> Unmarked \o Discarded]
          [] OTHER -> [at |-> "down", todo |-> <<>>]
  BY DEF AfterFailure, Main
<1>5. process'.at = "down" => HandlersOK' /\ restored' = FALSE BY <1>3, LostKeeps DEF FileStepFails
<1>6. process'.at # "down" => HandlersOK' /\ restored' = restored BY <1>3, UnchangedKeeps DEF FileStepFails
<1> HIDE DEF at, todo, step
<1>7. ASSUME process' = [at |-> "down", todo |-> <<>>],
             at \in {"recovering", "undoing", "reverting"} => CleaningStep(at, step)
      PROVE  StorageInv'
  <2>1. InPlace("down", <<>>, FALSE, disk, served) BY <1>2, <1>3, <1>7, DownFrom DEF step
  <2>2. process'.at = "down" /\ process'.todo = <<>> BY <1>7
  <2>3. HandlersOK' /\ restored' = FALSE BY <2>2, <1>5
  <2> QED BY <2>1, <2>2, <2>3, <1>1 DEF StorageInv
<1>8. CASE at \in {"recovering", "undoing", "reverting"}
  <2>1. Rolling(at, disk, served, todo) BY <1>3, <1>8, ByPlaceIs
  <2>2. RollingStep(step) \/ CleaningStep(at, step) BY <2>1, <1>1, RollingRest DEF Rolling, step
  <2>3. step.can BY <2>2 DEF RollingStep, CleaningStep
  <2>4. CleaningStep(at, step) BY <2>2, <2>3, <1>1, FailureIs DEF RollingStep
  <2>5. CASE ~step.must
    <3>1. process' = [at |-> at, todo |-> Tail(todo)] BY <2>5, <1>1, <1>4
    <3>2. Rolling(at, disk, served, Tail(todo)) BY <2>1, <2>4, <1>1, RollingDropped DEF step
    <3>3. restored => at = "reverting" BY <1>2, <1>8
    <3>4. InPlace(at, Tail(todo), restored, disk, served) BY <3>2, <3>3, <1>2, <1>8, PlaceRolling
    <3>5. process'.at = at /\ process'.todo = Tail(todo) BY <3>1
    <3>6. at # "down" BY <1>8
    <3> QED BY <3>4, <3>5, <3>6, <1>1, <1>6 DEF StorageInv
  <2>6. CASE step.must
    <3>1. at # "undoing" BY <2>4, <2>6 DEF CleaningStep
    <3>2. process' = [at |-> "down", todo |-> <<>>] BY <3>1, <2>6, <1>1, <1>4, <1>8
    <3> QED BY <3>2, <2>4, <1>7
  <2> QED BY <2>5, <2>6
<1>9. CASE at = "applying"
  <2>1. Applying(disk, served, todo) BY <1>3, <1>9, ByPlaceIs
  <2>2. PICK b : CopyingStep(step) \/ ReplacingStep(b, step)
    <3>1. PICK b : ApplyingSteps(b, todo) BY <2>1 DEF Applying
    <3> QED BY <3>1, <1>1, ApplyingRest DEF step
  <2>3. step.must BY <2>2 DEF CopyingStep, ReplacingStep
  <2>4. CASE step.part = "copying"
    <3>1. process' = [at |-> "down", todo |-> <<>>] BY <2>3, <2>4, <1>1, <1>4, <1>9
    <3> QED BY <3>1, <1>7, <1>9
  <2>5. CASE step.part # "copying"
    <3>1. step.part = "replacing"
      <4>1. CASE CopyingStep(step)
        <5>1. step.part = "copyingTLS" /\ step.can BY <4>1, <2>5 DEF CopyingStep
        <5> QED BY <5>1, <1>1, FailureIs
      <4> QED BY <4>1, <2>2 DEF ReplacingStep
    <3>2. DiskStored(disk, served) BY <3>1, <2>1, <1>1, ApplyingStored DEF step
    <3>3. Rolling("undoing", disk, served, UndoRestore) BY <3>2, UndoRolls
    <3>4. process' = [at |-> "undoing", todo |-> UndoRestore] BY <2>3, <2>5, <1>1, <1>4, <1>9
    <3>5. restored = FALSE BY <1>2, <1>9
    <3>6. InPlace("undoing", UndoRestore, FALSE, disk, served) BY <3>3, <1>2, PlaceRolling
    <3>7. process'.at = "undoing" /\ process'.todo = UndoRestore BY <3>4
    <3> QED BY <3>5, <3>6, <3>7, <1>1, <1>6 DEF StorageInv
  <2> QED BY <2>4, <2>5
<1>10. CASE at = "finalizing"
  <2>1. Finalizing(disk, todo) BY <1>3, <1>10, ByPlaceIs
  <2>2. step.must BY <2>1, <1>1, FinalizingRest DEF Finalizing, FinalizingStep, step
  <2>3. process' = [at |-> "down", todo |-> <<>>] BY <2>2, <1>1, <1>4, <1>10
  <2> QED BY <2>3, <1>7, <1>10
<1> QED BY <1>2, <1>8, <1>9, <1>10 DEF Working
LEMMA FileStepsDoneKeeps ==
  ASSUME StorageInv, FileStepsDone
  PROVE  StorageInv'
<1>1. process.todo = <<>> /\ disk' = disk /\ served' = served BY DEF FileStepsDone
<1>2. HandlersOK' BY UnchangedKeeps DEF FileStepsDone, StorageInv
<1>3. InPlace(process.at, process.todo, restored, disk, served) BY DEF StorageInv
<1>4. CASE process.at \in {"recovering", "reverting"}
  <2>1. process.at # "serving" BY <1>4
  <2>2. IsDisk(disk) /\ ServedShape(served) /\ PendingKept(disk, served) /\ restored \in BOOLEAN
    BY <2>1, <1>3, PlacedDisk, PlacedPending
  <2>3. Rolling(process.at, disk, served, process.todo) BY <1>3, <1>4, ByPlaceIs
  <2>4. DiskOld(disk, served) BY <2>3, <1>1, RollingEnds
  <2>5. restored' = restored BY <1>4 DEF FileStepsDone, Main
  <2>6. CASE process.at = "recovering"
    <3>1. restored = FALSE BY <2>6, <1>3, PlacedFresh
    <3>2. process'.at = "opening" /\ process'.todo = <<>> BY <2>6, RunsIs DEF FileStepsDone, Main
    <3>3. InPlace("opening", <<>>, FALSE, disk, served)
      <4>1. Settled(disk, served) BY <2>4 DEF Settled, DiskOld
      <4> QED BY <4>1, <2>2, PlaceOpening
    <3> QED BY <3>1, <3>2, <3>3, <2>5, <1>1, <1>2 DEF StorageInv
  <2>7. CASE process.at = "reverting"
    <3>1. process'.at = "reopening" /\ process'.todo = <<>> BY <2>7, RunsIs DEF FileStepsDone, Main
    <3>2. InPlace("reopening", <<>>, restored, disk, served) BY <2>2, <2>4, PlaceReopening
    <3> QED BY <3>1, <3>2, <2>5, <1>1, <1>2 DEF StorageInv
  <2> QED BY <2>6, <2>7, <1>4
<1>5. CASE process.at = "applying"
  <2>1. process.at # "serving" BY <1>5
  <2>2. IsDisk(disk) /\ ServedShape(served) /\ PendingKept(disk, served)
    BY <2>1, <1>3, PlacedDisk, PlacedPending
  <2>3. Applying(disk, served, <<>>) BY <1>1, <1>3, <1>5, ByPlaceIs
  <2>4. Replaced(disk, served) BY <2>3, ApplyingEnds
  <2>5. process'.at = "opening" /\ process'.todo = <<>> /\ restored' = TRUE BY <1>5, RunsIs DEF FileStepsDone, Main
  <2>6. InPlace("opening", <<>>, TRUE, disk, served) BY <2>2, <2>4, PlaceOpening
  <2> QED BY <2>5, <2>6, <1>1, <1>2 DEF StorageInv
<1> QED BY <1>4, <1>5 DEF FileStepsDone, Main

\* The process goes down.
LEMMA DownKeeps ==
  ASSUME HandlersOK, Down, InPlace("down", <<>>, FALSE, disk, served), UNCHANGED disk
  PROVE  StorageInv'
<1>1. HandlersOK' /\ restored' = FALSE BY LostKeeps DEF Down
<1>2. process'.at = "down" /\ process'.todo = <<>> /\ served' = served BY RunsIs DEF Down
<1> QED BY <1>1, <1>2 DEF StorageInv

LEMMA UndoneKeeps ==
  ASSUME StorageInv, Undone
  PROVE  StorageInv'
<1>1. process.at = "undoing" /\ process.todo = <<>> /\ Down /\ disk' = disk BY DEF Undone, Main
<1>2. process.at # "serving" BY <1>1
<1>3. InPlace("down", <<>>, FALSE, disk, served) BY <1>1, <1>2, DownFrom DEF StorageInv
<1> QED BY <1>1, <1>3, DownKeeps DEF StorageInv

LEMMA FatalKeeps ==
  ASSUME StorageInv, Fatal
  PROVE  StorageInv'
<1>1. process.at \in {"checking", "listening"} /\ Down /\ disk' = disk BY DEF Fatal
<1>2. process.at # "serving" /\ process.at \notin {"recovering", "undoing", "reverting"} BY <1>1
<1>3. InPlace("down", <<>>, FALSE, disk, served) BY <1>2, DownFrom DEF StorageInv
<1> QED BY <1>1, <1>3, DownKeeps DEF StorageInv

LEMMA OpenDBFailsKeeps ==
  ASSUME StorageInv, OpenDBFails
  PROVE  StorageInv'
<1>1. process.at \in {"opening", "reopening"} /\ disk' = disk BY DEF OpenDBFails
<1>2. InPlace(process.at, process.todo, restored, disk, served) BY DEF StorageInv
<1>3. process.at # "serving" /\ process.at \notin {"recovering", "undoing", "reverting"} BY <1>1
<1>4. CASE restored /\ process.at = "opening"
  <2>1. Replaced(disk, served) BY <1>2, <1>4, ByPlaceIs
  <2>2. DiskStored(disk, served) BY <2>1 DEF Replaced
  <2>3. Rolling("reverting", disk, served, RevertRestore) BY <2>2, UndoRolls
  <2>4. IsDisk(disk) /\ ServedShape(served) /\ PendingKept(disk, served)
    BY <1>2, <1>3, PlacedDisk, PlacedPending
  <2>5. InPlace("reverting", RevertRestore, TRUE, disk, served) BY <2>3, <2>4, PlaceRolling
  <2>6. /\ process'.at = "reverting" /\ process'.todo = RevertRestore
        /\ UNCHANGED <<restoreVars, certificateVars, restored, served>>
    BY <1>4, RunsIs DEF OpenDBFails, Main
  <2>7. HandlersOK' BY <2>6, UnchangedKeeps DEF StorageInv
  <2>8. restored = TRUE BY <1>2, <1>4, PlacedDisk
  <2> QED BY <2>5, <2>6, <2>7, <2>8, <1>1 DEF StorageInv
<1>5. CASE ~(restored /\ process.at = "opening")
  <2>1. Down BY <1>5 DEF OpenDBFails, Main
  <2>2. InPlace("down", <<>>, FALSE, disk, served) BY <1>2, <1>3, DownFrom
  <2> QED BY <2>1, <2>2, <1>1, DownKeeps DEF StorageInv
<1> QED BY <1>4, <1>5

\* The database a start opens is there.
LEMMA FoundAt ==
  ASSUME NEW d, NEW s, Settled(d, s) \/ Replaced(d, s) \/ DiskOld(d, s)
  PROVE  \E x : /\ Good(x) /\ d[<<"live", "db">>] = {x}
                /\ DiskOld(d, s) => d[<<"live", "wal">>] \subseteq {x.id}
<1>1. CASE DiskOld(d, s)
  <2>1. PICK old : OldOK(s, old) /\ LiveIs(d, old) BY <1>1 DEF DiskOld
  <2>2. Good(old.db) /\ d[<<"live", "db">>] = {old.db} /\ d[<<"live", "wal">>] \subseteq {old.db.id}
    BY <2>1 DEF OldOK, SameAs, LiveIs
  <2> QED BY <2>2
<1>2. CASE ~DiskOld(d, s)
  <2>1. New(d, s) BY <1>2 DEF Settled, Replaced
  <2>2. PICK x : d[<<"live", "db">>] = {x} /\ SameAs(x, s[<<"pending", "db">>]) BY <2>1 DEF New
  <2>3. Good(x) BY <2>2 DEF SameAs
  <2> QED BY <2>2, <2>3, <1>2
<1> QED BY <1>1, <1>2

LEMMA OpenDBKeeps ==
  ASSUME StorageInv, OpenDB
  PROVE  StorageInv'
<1> DEFINE pd == <<"live", "db">> pw == <<"live", "wal">> s == served e == disk'
<1>1. process.at \in {"opening", "reopening"} BY DEF OpenDB
<1>2. InPlace(process.at, process.todo, restored, disk, s) BY DEF StorageInv
<1>3. process.at # "serving" BY <1>1
<1>4. IsDisk(disk) /\ ServedShape(s) /\ PendingKept(disk, s) /\ restored \in BOOLEAN
  BY <1>2, <1>3, PlacedDisk, PlacedPending
<1>5. /\ Settled(disk, s) \/ (restored /\ Replaced(disk, s))
  <2>1. CASE process.at = "opening" BY <2>1, <1>2, <1>4, ByPlaceIs
  <2>2. CASE process.at = "reopening"
    <3>1. DiskOld(disk, s) BY <2>2, <1>2, ByPlaceIs
    <3> QED BY <3>1 DEF Settled, DiskOld
  <2> QED BY <2>1, <2>2, <1>1
<1>6. PICK x : /\ Good(x) /\ disk[pd] = {x}
               /\ DiskOld(disk, s) => disk[pw] \subseteq {x.id}
  BY <1>5, FoundAt
<1>7. DB = x BY <1>6, DBIs
<1>8. e = [disk EXCEPT ![pd] = {x}, ![pw] = {x.id}]
  <2>1. Has("live", "db") BY <1>6 DEF Has
  <2> QED BY <2>1, <1>7 DEF OpenDB
<1>9. served' = served /\ restored' = restored /\ HandlersOK' BY UnchangedKeeps DEF OpenDB, StorageInv
<1>10. process'.at = "checking" /\ process'.todo = <<>> BY RunsIs DEF OpenDB
<1>11. pd # pw /\ pd \in Path /\ pw \in Path BY LivePaths
<1> HIDE DEF pd, pw, e
<1>12. /\ IsDisk(e) /\ e[pd] = {x} /\ e[pw] = {x.id}
       /\ \A p \in Path : p # pd /\ p # pw => e[p] = disk[p]
  BY <1>4, <1>8, <1>11 DEF IsDisk
<1>13. Alike(disk, e) /\ SameRollback(disk, e) /\ e[<<"live", "applied">>] = disk[<<"live", "applied">>]
  <2>1. /\ \A p \in In("pending") : p \in Path /\ p # pd /\ p # pw
        /\ \A p \in In("rollback") : p \in Path /\ p # pd /\ p # pw
    BY LivePaths, PathFacts DEF pd, pw
  <2>2. /\ <<"live", "cert">> # pd /\ <<"live", "key">> # pd /\ <<"live", "applied">> # pd
        /\ <<"live", "cert">> # pw /\ <<"live", "key">> # pw /\ <<"live", "applied">> # pw
    BY DEF pd, pw
  <2> QED BY <2>1, <2>2, <1>12, LivePaths DEF Alike, SameRollback
<1>14. Held(disk, e, x, x) BY <1>6, <1>12 DEF Held, pd
<1>15. Opened(e) BY <1>6, <1>12 DEF Opened, pd, pw
<1>16. PendingKept(e, s) BY <1>4, <1>13, AlikePending
<1>17. Settled(e, s) \/ (restored /\ Replaced(e, s))
  <2>1. CASE DiskOld(disk, s)
    <3>1. /\ disk[<<"live", "wal">>] \subseteq e[<<"live", "wal">>]
          /\ e[<<"live", "wal">>] \subseteq {x.id}
      BY <2>1, <1>6, <1>12 DEF pw
    <3>2. DiskOld(e, s) BY <2>1, <3>1, <1>13, <1>14, AlikeOld
    <3> QED BY <3>2 DEF Settled, DiskOld
  <2>2. CASE Settled(disk, s) /\ ~DiskOld(disk, s)
    <3>1. Opened(disk) BY <2>2 DEF Settled
    <3>2. disk[<<"live", "wal">>] = {x.id}
      <4>1. PICK z : disk[pd] = {z} /\ disk[<<"live", "wal">>] = {z.id} BY <3>1 DEF Opened, pd
      <4>2. z = x BY <4>1, <1>6
      <4> QED BY <4>1, <4>2
    <3>3. /\ disk[<<"live", "wal">>] \subseteq e[<<"live", "wal">>]
          /\ e[<<"live", "wal">>] \subseteq {x.id}
      BY <3>2, <1>12 DEF pw
    <3> QED BY <2>2, <3>3, <1>13, <1>14, AlikeSettled
  <2>3. CASE restored /\ Replaced(disk, s) BY <2>3, <1>13, <1>14, AlikeReplaced
  <2> QED BY <2>1, <2>2, <2>3, <1>5
<1>18. InPlace("checking", <<>>, restored, e, s) BY <1>4, <1>12, <1>15, <1>16, <1>17, PlaceChecking
<1> QED BY <1>9, <1>10, <1>18 DEF StorageInv, e
\* What the check of the TLS files leaves: TLS may be given up, and then needs
\* no files; else they are a pair.
LEMMA CheckedIs ==
  ASSUME IsDisk(disk), NEW x, Good(x), disk[<<"live", "db">>] = {x}, CheckTLS, process'.at # "down"
  PROVE  \E y : /\ Good(y) /\ y.id = x.id /\ y.acme = x.acme /\ (y.tls => x.tls)
                /\ IsDisk(disk') /\ disk'[<<"live", "db">>] = {y}
                /\ \A p \in Path : p # <<"live", "db">> /\ p # <<"live", "enabled">> => disk'[p] = disk[p]
                /\ y.tls => disk[<<"live", "cert">>] # {} /\ disk[<<"live", "cert">>] = disk[<<"live", "key">>]
<1> DEFINE pd == <<"live", "db">> pe == <<"live", "enabled">> tls == DB.tls /\ ~Expired
           z == [x EXCEPT !.tls = FALSE]
<1>1. DB = x BY DBIs
<1>2. ~(tls /\ ~Pair)
  <2>1. Down => process'.at = "down" BY RunsIs DEF Down
  <2> QED BY <2>1 DEF CheckTLS
<1>3. disk' = IF tls THEN [AfterExpiry EXCEPT ![pe] = {TRUE}] ELSE AfterExpiry
  BY <1>2 DEF CheckTLS
<1>4. AfterExpiry = IF x.tls /\ Expired THEN [disk EXCEPT ![pd] = {z}, ![pe] = {}] ELSE disk
  BY <1>1 DEF AfterExpiry
<1>5. Good(z) /\ z.id = x.id /\ z.acme = x.acme /\ ~z.tls BY GoodSet
<1>6. pd \in Path /\ pe \in Path /\ pd # pe BY DEF Path, Directory, File
<1>7. x.tls \in BOOLEAN BY DEF Good
<1> HIDE DEF pd, pe, z
<1>8. CASE x.tls /\ Expired
  <2>1. disk' = [disk EXCEPT ![pd] = {z}, ![pe] = {}] BY <1>3, <1>4, <1>8
  <2>2. /\ IsDisk(disk') /\ disk'[pd] = {z}
        /\ \A p \in Path : p # pd /\ p # pe => disk'[p] = disk[p]
    BY <2>1, <1>6 DEF IsDisk
  <2> QED BY <2>2, <1>5 DEF pd, pe
<1>9. CASE x.tls /\ ~Expired
  <2>1. disk' = [disk EXCEPT ![pe] = {TRUE}] BY <1>1, <1>3, <1>4, <1>9
  <2>2. /\ IsDisk(disk') /\ disk'[pd] = {x}
        /\ \A p \in Path : p # pd /\ p # pe => disk'[p] = disk[p]
    BY <2>1, <1>6 DEF IsDisk, pd
  <2>3. disk[<<"live", "cert">>] # {} /\ disk[<<"live", "cert">>] = disk[<<"live", "key">>]
    BY <1>1, <1>2, <1>9 DEF Pair, Has
  <2> QED BY <2>2, <2>3 DEF pd, pe
<1>10. CASE ~x.tls
  <2>1. disk' = disk BY <1>1, <1>3, <1>4, <1>10
  <2> QED BY <2>1, <1>10
<1> QED BY <1>7, <1>8, <1>9, <1>10

LEMMA CheckTLSKeeps ==
  ASSUME StorageInv, CheckTLS
  PROVE  StorageInv'
<1> DEFINE pd == <<"live", "db">> pe == <<"live", "enabled">> s == served e == disk'
           pc == <<"live", "cert">> pk == <<"live", "key">> pw == <<"live", "wal">> pa == <<"live", "applied">>
<1>1. process.at = "checking" BY DEF CheckTLS, Main
<1>2. InPlace(process.at, process.todo, restored, disk, s) /\ HandlersOK BY DEF StorageInv
<1>3. process.at # "serving" /\ process.at \notin {"recovering", "undoing", "reverting"} BY <1>1
<1>4. IsDisk(disk) /\ ServedShape(s) /\ PendingKept(disk, s) /\ restored \in BOOLEAN
  BY <1>2, <1>3, PlacedDisk, PlacedPending
<1>5. Opened(disk) /\ (Settled(disk, s) \/ (restored /\ Replaced(disk, s))) BY <1>1, <1>2, ByPlaceIs
<1>6. CASE Down /\ disk' = disk
  <2>1. InPlace("down", <<>>, FALSE, disk, s) BY <1>2, <1>3, DownFrom
  <2> QED BY <2>1, <1>2, <1>6, DownKeeps
<1>7. CASE ~(Down /\ disk' = disk)
  <2>1. /\ Runs("listening", <<>>)
        /\ UNCHANGED <<restoreVars, issuer, restored, served>>
    BY <1>7 DEF CheckTLS
  <2>2. process'.at = "listening" /\ process'.todo = <<>> BY <2>1, RunsIs
  <2>3. HandlersOK' BY <2>1, <1>2 DEF HandlersOK, restoreVars
  <2>4. PICK x : Good(x) /\ disk[pd] = {x} /\ disk[pw] = {x.id} BY <1>5 DEF Opened
  <2>5. process'.at # "down" BY <2>2
  <2>6. PICK y : /\ Good(y) /\ y.id = x.id /\ y.acme = x.acme /\ (y.tls => x.tls)
                 /\ IsDisk(e) /\ e[pd] = {y}
                 /\ \A p \in Path : p # pd /\ p # pe => e[p] = disk[p]
                 /\ y.tls => disk[pc] # {} /\ disk[pc] = disk[pk]
    BY <2>4, <2>5, <1>4, CheckedIs
  <2>7. /\ \A p \in In("pending") : p \in Path /\ p # pd /\ p # pe
        /\ \A p \in In("rollback") : p \in Path /\ p # pd /\ p # pe
    BY LivePaths, PathFacts
  <2>8. /\ pc # pd /\ pk # pd /\ pw # pd /\ pa # pd /\ pc # pe /\ pk # pe /\ pw # pe /\ pa # pe
        /\ pc \in Path /\ pk \in Path /\ pw \in Path /\ pa \in Path
    BY LivePaths
  <2> HIDE DEF pd, pe, pc, pk, pw, pa, e
  <2>9. e[pc] = disk[pc] /\ e[pk] = disk[pk] /\ e[pw] = disk[pw] /\ e[pa] = disk[pa] BY <2>6, <2>8
  <2>10. Alike(disk, e) /\ SameRollback(disk, e) BY <2>6, <2>7, <2>9 DEF Alike, SameRollback, pc, pk
  <2>11. Held(disk, e, x, y) BY <2>4, <2>6 DEF Held, pd
  <2>12. Opened(e) BY <2>4, <2>6, <2>9 DEF Opened, pd, pw
  <2>13. Paired(e) BY <2>6, <2>9 DEF Paired, pd, pc, pk
  <2>14. PendingKept(e, s) BY <1>4, <2>10, AlikePending
  <2>15. /\ e[<<"live", "applied">>] = disk[<<"live", "applied">>]
         /\ disk[<<"live", "wal">>] \subseteq e[<<"live", "wal">>] /\ e[<<"live", "wal">>] \subseteq {y.id}
    BY <2>4, <2>6, <2>9 DEF pa, pw
  <2>16. Settled(disk, s) => Settled(e, s) BY <2>10, <2>11, <2>15, AlikeSettled
  <2>17. Replaced(disk, s) => Replaced(e, s) BY <2>10, <2>11, <2>15, AlikeReplaced
  <2>18. InPlace("listening", <<>>, restored, e, s)
    BY <2>6, <2>12, <2>13, <2>14, <2>16, <2>17, <1>4, <1>5, PlaceListening
  <2> QED BY <2>1, <2>2, <2>3, <2>18 DEF StorageInv, e
<1> QED BY <1>6, <1>7

LEMMA ListenKeeps ==
  ASSUME StorageInv, Listen
  PROVE  StorageInv'
<1> DEFINE s == served todo == IF restored THEN FinalizeRestore ELSE <<>>
<1>1. process.at = "listening" /\ process'.at = "finalizing" /\ process'.todo = todo BY RunsIs DEF Listen, Main
<1>2. InPlace(process.at, process.todo, restored, disk, s) BY DEF StorageInv
<1>3. process.at # "serving" BY <1>1
<1>4. IsDisk(disk) /\ ServedShape(s) /\ PendingKept(disk, s) /\ restored \in BOOLEAN
  BY <1>2, <1>3, PlacedDisk, PlacedPending
<1>5. Opened(disk) /\ (Settled(disk, s) \/ (restored /\ Replaced(disk, s) /\ Paired(disk))) BY <1>1, <1>2, ByPlaceIs
<1>6. disk' = disk /\ served' = served /\ restored' = restored /\ HandlersOK'
  BY UnchangedKeeps DEF Listen, StorageInv
<1>7. Finalizing(disk, todo)
  <2>1. CASE restored BY <2>1, FinalizeStarts
  <2>2. CASE ~restored
    <3>1. ~Marked(disk) BY <2>2, <1>5 DEF Settled
    <3> QED BY <2>2, <3>1, FinalizeStarts
  <2> QED BY <2>1, <2>2
<1> HIDE DEF todo
<1>8. InPlace("finalizing", todo, restored, disk, s) BY <1>4, <1>5, <1>7, PlaceFinalizing
<1> QED BY <1>1, <1>6, <1>8 DEF StorageInv

LEMMA ServeKeeps ==
  ASSUME StorageInv, Serve
  PROVE  StorageInv'
<1>1. process.at = "finalizing" /\ process.todo = <<>> /\ process'.at = "serving" /\ process'.todo = <<>>
  BY RunsIs DEF Serve, Main
<1>2. InPlace(process.at, process.todo, restored, disk, served) BY DEF StorageInv
<1>3. process.at # "serving" BY <1>1
<1>4. IsDisk(disk) /\ ServedShape(served) /\ PendingKept(disk, served) BY <1>2, <1>3, PlacedDisk, PlacedPending
<1>5. Finalizing(disk, <<>>) /\ Opened(disk) BY <1>1, <1>2, ByPlaceIs
<1>6. ~Marked(disk) BY <1>5, FinalizingEnds
<1>7. PendingShape(disk) BY <1>4, ShapeKept DEF ServedShape
<1>8. ServingOK(disk) BY <1>4, <1>5, <1>6, <1>7 DEF ServingOK
<1>9. disk' = disk /\ served' = served /\ restored' = FALSE /\ HandlersOK' BY UnchangedKeeps DEF Serve, StorageInv
<1>10. InPlace("serving", <<>>, FALSE, disk, served) BY <1>4, <1>8, PlaceServing
<1> QED BY <1>1, <1>9, <1>10 DEF StorageInv

\* What a serving panel leaves behind is the old installation of the next start.
LEMMA ServedDown ==
  ASSUME NEW d, IsDisk(d), ~Marked(d), PendingShape(d), NEW x, Good(x), d[<<"live", "db">>] = {x},
         d[<<"live", "wal">>] \subseteq {x.id}
  PROVE  InPlace("down", <<>>, FALSE, d, d)
<1> DEFINE old == [db |-> x, wal |-> d[<<"live", "wal">>], cert |-> d[<<"live", "cert">>],
                   key |-> d[<<"live", "key">>]]
<1>1. /\ old.db = x /\ old.wal = d[<<"live", "wal">>]
      /\ old.cert = d[<<"live", "cert">>] /\ old.key = d[<<"live", "key">>]
  OBVIOUS
<1> HIDE DEF old
<1>2. SameAs(old.db, d[<<"live", "db">>]) BY <1>1 DEF SameAs
<1>3. OldOK(d, old) BY <1>1, <1>2 DEF OldOK
<1>4. LiveIs(d, old) BY <1>1 DEF LiveIs
<1>5. Settled(d, d) BY <1>3, <1>4 DEF Settled, DiskOld
<1>6. ServedShape(d) BY DEF ServedShape
<1>7. PendingKept(d, d) BY DEF PendingKept
<1> QED BY <1>5, <1>6, <1>7, PlaceDown

LEMMA RestartKeeps ==
  ASSUME StorageInv, Restart
  PROVE  StorageInv'
<1> DEFINE e == disk' pd == <<"live", "db">> pw == <<"live", "wal">> pa == <<"live", "applied">>
<1>1. process.at = "serving" /\ process'.at = "down" /\ process'.todo = <<>> BY RunsIs DEF Restart, Main
<1>2. ServingOK(disk) /\ HandlersOK BY <1>1, Placed DEF StorageInv
<1>3. PICK x : Good(x) /\ disk[pd] = {x} BY <1>2 DEF ServingOK, Opened
<1>4. e = [disk EXCEPT ![pw] = {}] /\ served' = e BY DEF Restart
<1>5. "wal" \in File BY DEF File
<1>6. IsDisk(e) /\ e[pw] = {} /\ \A p \in Path : p # pw => e[p] = disk[p]
  <2> DEFINE g == [disk EXCEPT ![pw] = {}]
  <2>1. IsDisk(disk) BY <1>2 DEF ServingOK
  <2>2. IsDisk(g) /\ g[pw] = {} /\ \A p \in Path : p # pw => g[p] = disk[p] BY <2>1, <1>5, SetFile
  <2>3. e = g BY <1>4
  <2> HIDE DEF e, g
  <2> QED BY <2>2, <2>3
<1>7. pd # pw /\ pa # pw /\ pd \in Path /\ pa \in Path /\ \A p \in In("pending") : p # pw /\ p \in Path
  BY LivePaths, PathFacts
<1> HIDE DEF e, pd, pw, pa
<1>8. e[pd] = {x} /\ e[pa] = disk[pa] /\ \A p \in In("pending") : e[p] = disk[p] BY <1>3, <1>6, <1>7
<1>9. ~Marked(e) BY <1>2, <1>8 DEF Marked, ServingOK, pa
<1>10. PendingShape(e)
  <2>1. CASE Cleared(disk) BY <2>1, <1>8 DEF PendingShape, Cleared
  <2>2. CASE ~Cleared(disk)
    <3>1. /\ e[<<"pending", "restore.json">>] = disk[<<"pending", "restore.json">>]
          /\ e[<<"pending", "db">>] = disk[<<"pending", "db">>]
      BY <1>8 DEF In, File
    <3> QED BY <3>1, <2>2, <1>2 DEF PendingShape, ServingOK
  <2> QED BY <2>1, <2>2
<1>11. InPlace("down", <<>>, FALSE, e, e) BY <1>3, <1>6, <1>8, <1>9, <1>10, ServedDown DEF pd, pw
<1>12. HandlersOK' /\ restored' = FALSE BY <1>2, LostKeeps DEF Restart
<1> QED BY <1>1, <1>4, <1>11, <1>12 DEF StorageInv, e

LEMMA CrashKeeps ==
  ASSUME Spared, StorageInv, Crash
  PROVE  StorageInv'
<1>1. process'.at = "down" /\ process'.todo = <<>> /\ disk' = disk BY RunsIs DEF Crash
<1>2. InPlace(process.at, process.todo, restored, disk, served) /\ HandlersOK BY DEF StorageInv
<1>3. HandlersOK' /\ restored' = FALSE BY <1>2, LostKeeps DEF Crash
<1>4. CASE process.at = "serving"
  <2>1. served' = disk BY <1>4 DEF Crash, Main
  <2>2. ServingOK(disk) BY <1>2, <1>4, Placed
  <2>3. PICK x : Good(x) /\ disk[<<"live", "db">>] = {x} /\ disk[<<"live", "wal">>] = {x.id}
    BY <2>2 DEF ServingOK, Opened
  <2>4. disk[<<"live", "wal">>] \subseteq {x.id} BY <2>3
  <2>5. InPlace("down", <<>>, FALSE, disk, disk) BY <2>2, <2>3, <2>4, ServedDown DEF ServingOK
  <2> QED BY <2>1, <2>5, <1>1, <1>3 DEF StorageInv
<1>5. CASE process.at # "serving"
  <2>1. served' = served BY <1>5 DEF Crash, Main
  <2>2. ASSUME process.at \in {"recovering", "undoing", "reverting"}
        PROVE  process.todo = <<>> \/ CleaningStep(process.at, Head(process.todo))
    <3>1. ASSUME process.todo # <<>> PROVE CleaningStep(process.at, Head(process.todo))
      <4>1. Rolling(process.at, disk, served, process.todo) BY <2>2, <1>2, ByPlaceIs
      <4>2. RollingStep(Head(process.todo)) \/ CleaningStep(process.at, Head(process.todo))
        BY <4>1, <3>1, RollingRest DEF Rolling
      <4>3. Head(process.todo).part # "rollingBack" BY <3>1 DEF Crash, Uncrashable, Spared
      <4> QED BY <4>2, <4>3 DEF RollingStep
    <3> QED BY <3>1
  <2>3. InPlace("down", <<>>, FALSE, disk, served) BY <2>2, <1>2, <1>5, DownFrom
  <2> QED BY <2>1, <2>3, <1>1, <1>3 DEF StorageInv
<1> QED BY <1>4, <1>5
-----------------------------------------------------------------------------
(* The theorems.                                                             *)

LEMMA InitHolds ==
  ASSUME Init
  PROVE  StorageInv
<1>1. PICK i \in Installation : disk = Fresh(i) /\ served = Fresh(i) BY DEF Init
<1>2. Good(i.db) BY InstallationAssumption DEF Good
<1>3. /\ IsDisk(disk) /\ disk[<<"live", "db">>] = {i.db} /\ disk[<<"live", "wal">>] = {}
      /\ disk[<<"live", "applied">>] = {} /\ Cleared(disk)
  <2>1. IsDisk(disk) BY <1>1 DEF IsDisk, Fresh
  <2>2. /\ disk[<<"live", "db">>] = {i.db} /\ disk[<<"live", "wal">>] = {}
        /\ disk[<<"live", "applied">>] = {}
    BY <1>1, LivePaths DEF Fresh
  <2>3. \A p \in In("pending") : p \in Path /\ p # <<"live", "db">> /\ p \notin {"live"} \X {"cert", "key", "enabled"}
    <3>1. "live" # "pending" OBVIOUS
    <3>2. \A p \in In("pending") : p \in Path BY LivePaths
    <3> QED BY <3>1, <3>2 DEF In
  <2>4. Cleared(disk) BY <2>3, <1>1 DEF Fresh, Cleared
  <2> QED BY <2>1, <2>2, <2>4
<1>4. ~Marked(disk) /\ PendingShape(disk) BY <1>3 DEF Marked, PendingShape
<1>5. InPlace("down", <<>>, FALSE, disk, disk)
  <2>1. disk[<<"live", "wal">>] \subseteq {i.db.id} BY <1>3
  <2> QED BY <2>1, <1>2, <1>3, <1>4, ServedDown
<1>6. process.at = "down" /\ process.todo = <<>> /\ restored = FALSE BY DEF Init
<1>7. HandlersOK
  <2>1. \A a \in archives : GoodArchive(a) BY UploadAssumption DEF Init, RestoreInit, GoodArchive
  <2>2. ExporterOK(exporter) BY DEF Init, RestoreInit, ExporterOK
  <2>3. Idle.at \notin {"installing", "restoring"} BY DEF Idle
  <2>4. issuer = [k \in Issuer |-> Idle] BY DEF Init, CertificateInit
  <2>5. issuer = [k \in Issuer |-> issuer[k]] /\ \A k \in Issuer : IssuerOK(issuer[k])
    BY <2>3, <2>4, IssuerPlain
  <2> QED BY <2>1, <2>2, <2>5 DEF HandlersOK
<1> QED BY <1>1, <1>5, <1>6, <1>7 DEF StorageInv

\* Every step keeps the installation that was served, or the staged one, within
\* reach of the next start.
LEMMA NextKeeps ==
  ASSUME Spared, StorageInv, [Next]_vars
  PROVE  StorageInv'
<1>1. CASE Start BY <1>1, StartKeeps
<1>2. CASE FileStep BY <1>2, FileStepKeeps
<1>3. CASE FileStepsDone BY <1>3, FileStepsDoneKeeps
<1>4. CASE Undone BY <1>4, UndoneKeeps
<1>5. CASE OpenDB BY <1>5, OpenDBKeeps
<1>6. CASE CheckTLS BY <1>6, CheckTLSKeeps
<1>7. CASE Listen BY <1>7, ListenKeeps
<1>8. CASE Serve BY <1>8, ServeKeeps
<1>9. CASE FileStepFails BY <1>9, FileStepFailsKeeps
<1>10. CASE OpenDBFails BY <1>10, OpenDBFailsKeeps
<1>11. CASE Fatal BY <1>11, FatalKeeps
<1>12. CASE Handle BY <1>12, HandleKeeps
<1>13. CASE Restart BY <1>13, RestartKeeps
<1>14. CASE Crash BY <1>14, CrashKeeps
<1>15. CASE UNCHANGED vars
  <2>1. HandlersOK' BY <1>15, UnchangedKeeps DEF vars, StorageInv
  <2> QED BY <2>1, <1>15 DEF vars, StorageInv
<1> QED BY <1>1, <1>2, <1>3, <1>4, <1>5, <1>6, <1>7, <1>8, <1>9, <1>10, <1>11, <1>12, <1>13, <1>14, <1>15
        DEF Next, Boot

LEMMA NewIsNew ==
  ASSUME New(disk, served)
  PROVE  IsNew
<1>1. PICK b \in BOOLEAN :
        /\ served[<<"pending", "restore.json">>] = {b}
        /\ disk[<<"live", "cert">>] = served[<<TLSIn(b, "pending"), "cert">>]
        /\ disk[<<"live", "key">>] = served[<<TLSIn(b, "pending"), "key">>]
  BY DEF New
<1>3. PICK x : disk[<<"live", "db">>] = {x} /\ SameAs(x, served[<<"pending", "db">>]) BY DEF New
<1>4. PICK y : /\ served[<<"pending", "db">>] = {y} /\ x.headers = y.headers
               /\ x.id = y.id /\ x.acme = y.acme
  BY <1>3 DEF SameAs, Good
<1>5. SameDB(disk[<<"live", "db">>], served[<<"pending", "db">>]) BY <1>3, <1>4 DEF SameDB
<1>d. served[<<"pending", "db">>] # {} BY <1>4
<1> DEFINE dir == IF TRUE \in served[<<"pending", "restore.json">>] THEN "pending" ELSE "live"
<1>6. dir = TLSIn(b, "pending")
  <2>1. CASE b
    <3>1. TRUE \in served[<<"pending", "restore.json">>] BY <2>1, <1>1
    <3> QED BY <3>1, <2>1 DEF TLSIn
  <2>2. CASE ~b
    <3>1. TRUE \notin served[<<"pending", "restore.json">>] BY <2>2, <1>1
    <3> QED BY <3>1, <2>2 DEF TLSIn
  <2> QED BY <2>1, <2>2
<1>7. \A f \in {"cert", "key"} : disk[<<"live", f>>] = served[<<dir, f>>]
  <2> HIDE DEF dir
  <2> QED BY <1>1, <1>6
<1> QED BY <1>5, <1>d, <1>7 DEF IsNew

LEMMA OldIsOld ==
  ASSUME DiskOld(disk, served)
  PROVE  IsOld
<1>1. PICK old : OldOK(served, old) /\ LiveIs(disk, old) BY DEF DiskOld
<1>2. PICK y : /\ served[<<"live", "db">>] = {y} /\ old.db.headers = y.headers
               /\ old.db.id = y.id /\ old.db.acme = y.acme
  BY <1>1 DEF OldOK, SameAs, Good
<1>3. SameDB(disk[<<"live", "db">>], served[<<"live", "db">>]) BY <1>1, <1>2 DEF SameDB, LiveIs
<1> QED BY <1>1, <1>3 DEF IsOld, OldOK, LiveIs

\* A restore is all or nothing, for any installation and uploads, any number of
\* crashes and failures, as long as a rollback is neither interrupted nor
\* failing and the TLS files can be copied (applyPendingRestore,
\* rollbackAppliedRestore, finalizeAppliedRestore): the database a start opens,
\* its log and the TLS files are those the last serving panel left, or those of
\* the backup staged then.
THEOREM RestoreIsAtomic ==
  ASSUME Spared
  PROVE  Spec => []OldOrNew
<1>1. Init => StorageInv BY InitHolds
<1>2. StorageInv /\ [Next]_vars => StorageInv' BY NextKeeps
<1>3. StorageInv => OldOrNew
  <2>1. ASSUME StorageInv, process.at = "opening" PROVE IsOld \/ IsNew
    <3>1. IF restored THEN Replaced(disk, served) ELSE Settled(disk, served) BY <2>1, ByPlaceIs DEF StorageInv
    <3> QED BY <3>1, NewIsNew, OldIsOld DEF Replaced, Settled
  <2> QED BY <2>1 DEF OldOrNew, Main
<1> QED BY <1>1, <1>2, <1>3, PTL DEF Spec

\* Under the same conditions a panel that serves reads its secrets with this
\* server's keys, wherever the backup came from (reencryptRestoredSecrets), and
\* has no marker left that a later start would roll back.
THEOREM ServingIsSettled ==
  ASSUME Spared
  PROVE  Spec => []RestoreIsSettled
<1>1. Init => StorageInv BY InitHolds
<1>2. StorageInv /\ [Next]_vars => StorageInv' BY NextKeeps
<1>3. StorageInv => RestoreIsSettled
  <2>1. ASSUME StorageInv, process.at = "serving"
        PROVE  DB.headers = Here /\ DB.acme \in {NoToken, Here} /\ ~Has("live", "applied")
    <3>1. ServingOK(disk) BY <2>1, Placed DEF StorageInv
    <3>2. PICK x : Good(x) /\ disk[<<"live", "db">>] = {x} BY <3>1 DEF ServingOK, Opened
    <3>3. DB = x BY <3>2, DBIs
    <3> QED BY <3>1, <3>2, <3>3 DEF Good, ServingOK, Marked, Has
  <2> QED BY <2>1 DEF RestoreIsSettled, Main
<1> QED BY <1>1, <1>2, <1>3, PTL DEF Spec
-----------------------------------------------------------------------------
(* Certificates. The installation is recoverable as long as certificate and  *)
(* key are a pair whenever nobody is between two writes of them, wherever    *)
(* they come from.                                                           *)

Whole(d) == d[<<"live", "cert">>] = d[<<"live", "key">>]

\* The numbers of the certificates this server issues.
Ours == 1..(1 + MaxIssue)

\* A pair, or one that a start refuses: its database asks for TLS, and it does
\* not expire before it is looked at.
PairOrRefused(tls, cert, key) == cert = key \/ (tls /\ cert # {} /\ cert \cap Ours = {})

LiveSound(d) ==
  \A x \in d[<<"live", "db">>] : PairOrRefused(x.tls, d[<<"live", "cert">>], d[<<"live", "key">>])
PendingSound(d) ==
  \A y \in d[<<"pending", "db">>] :
    TRUE \in d[<<"pending", "restore.json">>] =>
      PairOrRefused(y.tls, d[<<"pending", "cert">>], d[<<"pending", "key">>])
ServedSound(s) == Whole(s) /\ Paired(s) /\ PendingSound(s)
ArchiveSound(a) == a.tls => PairOrRefused(a.db.tls, a.cert, a.key)

\* While a restore can still be rolled back, a pair that a start refuses may be
\* in place.
WholeAt(at, r, d) ==
  /\ at \in {"listening", "finalizing"} => Whole(d)
  /\ at = "down" => Marked(d) \/ Whole(d)
  /\ at \in {"opening", "checking"} => Whole(d) \/ (r /\ Marked(d) /\ LiveSound(d))

\* Nobody works for a panel that does not serve.
Quiet ==
  /\ \A i \in Issuer : issuer[i].at = "idle"
  /\ settingsRead = {} /\ exporter = NotExporting

\* The settings ask for TLS, or are about to.
Asked ==
  \/ \E x \in disk[<<"live", "db">>] : x.tls
  \/ TRUE \in settingsRead \/ issuer["scheduler"].at # "idle"

\* No installation can fail any more.
Over == "installing" \notin NoFailureIn /\ ~(events < MaxEvent)

\* The writes left to a holder of the mutex make a file v.
Toward(d, todo, p, v) ==
  /\ d[p] = v \/ Touched(todo, p)
  /\ \A k \in DOMAIN todo : p \in DOMAIN todo[k].change => todo[k].change[p] = v
WritesPair(x, d) ==
  /\ \A k \in DOMAIN x.todo : x.todo[k].can /\ x.todo[k].part = x.at
  /\ \E v : /\ Toward(d, x.todo, <<"live", "cert">>, v) /\ Toward(d, x.todo, <<"live", "key">>, v)
            /\ (Asked \/ x.at = "installing") => v # {}

Keeping == {"backedUp", "installing", "saving", "undoing"}
KeepsPair(x) ==
  /\ x.kept.cert = x.kept.key \/ (Over /\ x.at # "undoing")
  /\ Asked => x.kept.cert # {}

Holding(i) == issuer[i].at \in {"installing", "restoring"}
FilesOK ==
  /\ ~Locked => Whole(disk) \/ (Over /\ \E i \in Issuer : At(i, "undoing"))
  /\ Asked \/ At("handler", "saving") => disk[<<"live", "cert">>] # {}
  /\ \A i, j \in Issuer : Holding(i) /\ Holding(j) => i = j
  /\ \A i \in Issuer : Holding(i) => WritesPair(issuer[i], disk)
  /\ \A i \in Issuer : issuer[i].at \in Keeping => KeepsPair(issuer[i])
  /\ PendingSound(disk)

Exporting ==
  exporter # NotExporting =>
    /\ \A i \in Issuer : issuer[i].at = "idle"
    /\ exporter.at >= 2 => exporter.archive.cert = disk[<<"live", "cert">>]
    /\ exporter.at >= 3 => exporter.archive.key = disk[<<"live", "key">>]

TLSInv ==
  /\ ServedSound(served)
  /\ DOMAIN ages = Ours /\ events \in Nat
  /\ \A a \in archives : ArchiveSound(a)
  /\ WholeAt(process.at, restored, disk)
  /\ process.at # "serving" => Quiet
  /\ process.at = "serving" => FilesOK /\ Exporting

\* What the certificates are proved under. The panel does not die while it
\* installs a certificate or puts the copy back, whose writes do not fail, and
\* the settings it saved are read back. No write of an installation fails, or
\* that is the one crash or failure there is. An export runs alone.
Careful ==
  /\ Spared
  /\ {"installing", "restoring"} \subseteq NoCrashIn
  /\ {"restoring", "readBack"} \subseteq NoFailureIn
  /\ "installing" \in NoFailureIn \/ MaxEvent <= 1
  /\ ExportsAlone

\* The panel starts with a pair, and a backup holds one, or one that asks for
\* TLS and is not of this server.
PairsGiven ==
  /\ \A i \in Installation : i.cert = i.key /\ (i.db.tls => i.cert # {})
  /\ \A a \in Upload : ArchiveSound(a)
-----------------------------------------------------------------------------
(* Certificates on the disk.                                                 *)

LEMMA OldSound ==
  ASSUME NEW d, NEW s, DiskOld(d, s), ServedSound(s)
  PROVE  ~Marked(d) /\ Whole(d) /\ Paired(d)
<1>1. PICK old : OldOK(s, old) /\ LiveIs(d, old) BY DEF DiskOld
<1>2. PICK y : s[<<"live", "db">>] = {y} /\ (old.db.tls => y.tls) BY <1>1 DEF OldOK, SameAs
<1>3. /\ d[<<"live", "cert">>] = s[<<"live", "cert">>] /\ d[<<"live", "key">>] = s[<<"live", "key">>]
      /\ d[<<"live", "db">>] = {old.db}
  BY <1>1 DEF OldOK, LiveIs
<1>4. Whole(d) BY <1>3 DEF Whole, ServedSound
<1>5. Paired(d) BY <1>2, <1>3 DEF Paired, ServedSound
<1> QED BY <1>4, <1>5 DEF DiskOld

LEMMA PendingSoundKept ==
  ASSUME NEW d, NEW s, PendingKept(d, s), PendingSound(s)
  PROVE  PendingSound(d)
<1>1. <<"pending", "db">> \in In("pending") /\ <<"pending", "restore.json">> \in In("pending")
      /\ <<"pending", "cert">> \in In("pending") /\ <<"pending", "key">> \in In("pending")
  BY DEF In, File
<1>2. CASE d[<<"pending", "db">>] = {} BY <1>2 DEF PendingSound
<1>3. CASE d[<<"pending", "db">>] # {}
  <2>1. \A p \in In("pending") : d[p] = s[p] \/ (p = <<"pending", "db">> /\ d[p] = {})
    BY <1>1, <1>3 DEF PendingKept, Cleared
  <2>2. d[<<"pending", "db">>] = s[<<"pending", "db">>] BY <2>1, <1>1, <1>3
  <2>3. d[<<"pending", "restore.json">>] = s[<<"pending", "restore.json">>]
    BY <2>1, <1>1, PathFacts
  <2>4. d[<<"pending", "cert">>] = s[<<"pending", "cert">>] BY <2>1, <1>1, PathFacts
  <2>5. d[<<"pending", "key">>] = s[<<"pending", "key">>] BY <2>1, <1>1, PathFacts
  <2> QED BY <2>2, <2>3, <2>4, <2>5 DEF PendingSound
<1> QED BY <1>2, <1>3

\* What a restore has put in place is what was served, or was staged.
LEMMA AppliedSound ==
  ASSUME NEW d, NEW s, Applying(d, s, <<>>), ServedSound(s)
  PROVE  Marked(d) /\ LiveSound(d)
<1>1. PICK b \in BOOLEAN :
        /\ s[<<"pending", "restore.json">>] = {b}
        /\ (\A k \in DOMAIN <<>> : <<>>[k].can) => Replaces(b, d, s, <<>>)
  BY DEF Applying
<1>2. Replaces(b, d, s, <<>>) BY <1>1, NoSteps
<1>3. \A p, v : Leaves(d, <<>>, p, v) => d[p] = v BY NothingTouched, LeavesDone
<1>4. Marked(d) BY <1>2, <1>3 DEF Replaces, Marked
<1>5. PICK y : s[<<"pending", "db">>] = {y} /\ Leaves(d, <<>>, <<"live", "db">>, {y})
  BY <1>2 DEF Replaces
<1>6. d[<<"live", "db">>] = {y} BY <1>3, <1>5
<1>7. /\ d[<<"live", "cert">>] = s[<<TLSIn(b, "pending"), "cert">>]
      /\ d[<<"live", "key">>] = s[<<TLSIn(b, "pending"), "key">>]
  BY <1>2, <1>3 DEF Replaces
<1>8. PairOrRefused(y.tls, d[<<"live", "cert">>], d[<<"live", "key">>])
  <2>1. CASE b
    <3>1. TLSIn(b, "pending") = "pending" BY <2>1 DEF TLSIn
    <3>2. TRUE \in s[<<"pending", "restore.json">>] BY <2>1, <1>1
    <3>3. PairOrRefused(y.tls, s[<<"pending", "cert">>], s[<<"pending", "key">>])
      BY <3>2, <1>5 DEF ServedSound, PendingSound
    <3> QED BY <3>1, <3>3, <1>7
  <2>2. CASE ~b
    <3>1. TLSIn(b, "pending") = "live" BY <2>2 DEF TLSIn
    <3>2. s[<<"live", "cert">>] = s[<<"live", "key">>] BY DEF ServedSound, Whole
    <3> QED BY <3>1, <3>2, <1>7 DEF PairOrRefused
  <2> QED BY <2>1, <2>2
<1> QED BY <1>4, <1>6, <1>8 DEF LiveSound

\* Down from anywhere, with a pair or a marker.
LEMMA DownWhole ==
  ASSUME NEW at, NEW todo, NEW r, NEW d, NEW s, InPlace(at, todo, r, d, s), at # "serving",
         at \in {"recovering", "undoing", "reverting"} => todo = <<>> \/ CleaningStep(at, Head(todo)),
         ServedSound(s), WholeAt(at, r, d)
  PROVE  Marked(d) \/ Whole(d)
<1>1. at \in Resting \union Working BY PlacedWhere
<1>2. CASE at \in {"down", "listening", "finalizing", "opening", "checking"} BY <1>2 DEF WholeAt
<1>3. CASE at \in {"recovering", "undoing", "reverting"}
  <2>1. DiskOld(d, s) BY <1>3, ByPlaceIs, RollingEnds
  <2> QED BY <2>1, OldSound
<1>4. CASE at = "applying"
  <2>1. Applying(d, s, todo) BY <1>4, ByPlaceIs
  <2>2. Marked(d) \/ DiskOld(d, s) BY <2>1, ApplyingOld
  <2> QED BY <2>2, OldSound
<1>5. CASE at = "reopening"
  <2>1. DiskOld(d, s) BY <1>5, ByPlaceIs
  <2> QED BY <2>1, OldSound
<1> QED BY <1>1, <1>2, <1>3, <1>4, <1>5 DEF Resting, Working

\* Whenever the process is down, the installation can be started.
LEMMA DownRecoverable ==
  ASSUME NEW d, NEW s, Settled(d, s) \/ (Marked(d) /\ DiskStored(d, s)), ServedSound(s)
  PROVE  /\ Kept(d, "db") # {}
         /\ \A db \in Kept(d, "db") :
              /\ Kept(d, "wal") \subseteq {db.id}
              /\ db.tls => Kept(d, "cert") # {} /\ Kept(d, "cert") = Kept(d, "key")
<1>1. CASE ~Marked(d)
  <2>1. \A f : Kept(d, f) = d[<<"live", f>>] BY <1>1 DEF Kept, Marked
  <2>2. Settled(d, s) BY <1>1
  <2>3. /\ d[<<"live", "db">>] # {}
        /\ \A db \in d[<<"live", "db">>] : d[<<"live", "wal">>] \subseteq {db.id}
    <3>1. CASE DiskOld(d, s)
      <4>1. PICK old : OldOK(s, old) /\ LiveIs(d, old) BY <3>1 DEF DiskOld
      <4> QED BY <4>1 DEF OldOK, LiveIs
    <3>2. CASE Opened(d) BY <3>2 DEF Opened
    <3> QED BY <3>1, <3>2, <2>2 DEF Settled
  <2>4. Paired(d) BY <2>2, OldSound DEF Settled
  <2> QED BY <2>1, <2>3, <2>4 DEF Paired
<1>2. CASE Marked(d)
  <2>1. PICK old : OldOK(s, old) /\ Stored(d, s, old) BY <1>2 DEF Settled, DiskStored
  <2>2. PICK b \in BOOLEAN :
          /\ d[<<"rollback", "restore.json">>] = {b}
          /\ d[<<TLSIn(b, "rollback"), "cert">>] = old.cert
          /\ d[<<TLSIn(b, "rollback"), "key">>] = old.key
    BY <2>1 DEF Stored
  <2>3. Kept(d, "db") = {old.db} /\ Kept(d, "wal") = old.wal BY <2>1, <1>2 DEF Kept, Marked, Stored
  <2>4. Kept(d, "cert") = old.cert /\ Kept(d, "key") = old.key
    <3>1. CASE b
      <4>1. TLSIn(b, "rollback") = "rollback" BY <3>1 DEF TLSIn
      <4>2. TRUE \in d[<<"rollback", "restore.json">>] BY <3>1, <2>2
      <4> QED BY <4>1, <4>2, <2>2, <1>2 DEF Kept, Marked
    <3>2. CASE ~b
      <4>1. TLSIn(b, "rollback") = "live" BY <3>2 DEF TLSIn
      <4>2. TRUE \notin d[<<"rollback", "restore.json">>] BY <3>2, <2>2
      <4> QED BY <4>1, <4>2, <2>2, <1>2 DEF Kept, Marked
    <3> QED BY <3>1, <3>2
  <2>5. old.wal \subseteq {old.db.id} BY <2>1 DEF OldOK
  <2>6. PICK y : s[<<"live", "db">>] = {y} /\ (old.db.tls => y.tls) BY <2>1 DEF OldOK, SameAs
  <2>7. old.db.tls => old.cert # {} /\ old.cert = old.key
    BY <2>1, <2>6 DEF OldOK, ServedSound, Paired
  <2> QED BY <2>3, <2>4, <2>5, <2>7
<1> QED BY <1>1, <1>2
-----------------------------------------------------------------------------
(* Certificates of the serving panel: the steps between the writes.          *)

LEMMA GoesIs ==
  ASSUME HandlersOK, NEW i \in Issuer, NEW x, Goes(i, x)
  PROVE  issuer'[i] = x /\ \A j \in Issuer : j # i => issuer'[j] = issuer[j]
BY DEF HandlersOK, Goes

\* An issuer stays where it is, or goes on with neither the mutex nor a copy to
\* put back left behind.
Moves(j) ==
  \/ issuer'[j] = issuer[j]
  \/ /\ issuer[j].at \notin {"installing", "restoring", "undoing"}
     /\ issuer'[j].at \notin {"installing", "restoring", "saving"}
     /\ issuer'[j].at \in Keeping => KeepsPair(issuer[j])'
FilesStay(d, e) ==
  e[<<"live", "cert">>] = d[<<"live", "cert">>] /\ e[<<"live", "key">>] = d[<<"live", "key">>]

LEMMA TowardStays ==
  ASSUME NEW d, NEW e, FilesStay(d, e), NEW p \in {<<"live", "cert">>, <<"live", "key">>}, NEW todo, NEW v,
         Toward(d, todo, p, v)
  PROVE  Toward(e, todo, p, v)
<1>1. e[p] = d[p] BY DEF FilesStay
<1> QED BY <1>1 DEF Toward

LEMMA FilesStep ==
  ASSUME FilesOK, FilesStay(disk, disk'), PendingSound(disk'), Over => Over', \A j \in Issuer : Moves(j),
         Asked' => \/ Asked
                   \/ /\ disk[<<"live", "cert">>] # {}
                      /\ \A j \in Issuer : issuer'[j].at \notin Keeping \union {"installing", "restoring"}
  PROVE  FilesOK'
<1>1. \A j \in Issuer : Holding(j)' => Holding(j) /\ issuer'[j] = issuer[j] BY DEF Moves, Holding
<1>2. \A j \in Issuer : Holding(j) => Holding(j)' BY DEF Moves, Holding
<1>3. Locked' <=> Locked BY <1>1, <1>2 DEF Locked, Holding
<1>4. \A j \in Issuer : At(j, "undoing") => At(j, "undoing")' BY DEF Moves, At
<1>5. Whole(disk) => Whole(disk') BY DEF Whole, FilesStay
<1>6. ~Locked' => Whole(disk') \/ (Over' /\ \E i \in Issuer : At(i, "undoing")')
  BY <1>3, <1>4, <1>5 DEF FilesOK
<1>7. At("handler", "saving")' => At("handler", "saving")
  <2>1. "handler" \in Issuer BY DEF Issuer
  <2> QED BY <2>1 DEF Moves, At
<1>8. Asked' \/ At("handler", "saving")' => disk'[<<"live", "cert">>] # {}
  BY <1>7 DEF FilesOK, FilesStay
<1>9. \A i, j \in Issuer : Holding(i)' /\ Holding(j)' => i = j BY <1>1 DEF FilesOK
<1>10. ASSUME NEW i \in Issuer, Holding(i)' PROVE WritesPair(issuer[i], disk)'
  <2>1. Holding(i) /\ issuer'[i] = issuer[i] BY <1>1, <1>10
  <2>2. Asked' => Asked BY <1>10 DEF Holding
  <2>3. WritesPair(issuer[i], disk) BY <2>1 DEF FilesOK
  <2>4. PICK v : /\ Toward(disk, issuer[i].todo, <<"live", "cert">>, v)
                 /\ Toward(disk, issuer[i].todo, <<"live", "key">>, v)
                 /\ (Asked \/ issuer[i].at = "installing") => v # {}
    BY <2>3 DEF WritesPair
  <2>5. Toward(disk', issuer[i].todo, <<"live", "cert">>, v) /\ Toward(disk', issuer[i].todo, <<"live", "key">>, v)
    BY <2>4, TowardStays
  <2>6. \A k \in DOMAIN issuer[i].todo : issuer[i].todo[k].can /\ issuer[i].todo[k].part = issuer[i].at
    BY <2>3 DEF WritesPair
  <2> QED BY <2>1, <2>2, <2>4, <2>5, <2>6 DEF WritesPair
<1>11. ASSUME NEW i \in Issuer, issuer'[i].at \in Keeping PROVE KeepsPair(issuer[i])'
  <2>1. CASE issuer'[i] = issuer[i]
    <3>1. KeepsPair(issuer[i]) BY <2>1, <1>11 DEF FilesOK
    <3>2. Asked' => Asked BY <1>11
    <3> QED BY <2>1, <3>1, <3>2 DEF KeepsPair
  <2>2. CASE issuer'[i] # issuer[i] BY <2>2, <1>11 DEF Moves
  <2> QED BY <2>1, <2>2
<1> QED BY <1>6, <1>8, <1>9, <1>10, <1>11 DEF FilesOK

LEMMA OverStays ==
  ASSUME UNCHANGED events \/ Event
  PROVE  Over => Over'
BY DEF Over, Event

LEMMA AskedFrom ==
  ASSUME (\E x \in disk'[<<"live", "db">>] : x.tls) => Asked, TRUE \in settingsRead' => Asked,
         issuer'["scheduler"].at # "idle" => Asked
  PROVE  Asked' => Asked
BY DEF Asked

\* The places of an issuer that has nothing in hand.
Free == {"idle", "asking", "issuing", "issued", "activating", "disabling", "unmarking"}

LEMMA FreeMoves ==
  ASSUME HandlersOK, NEW i \in Issuer, NEW x, Goes(i, x), x.at \in Free,
         issuer[i].at \notin {"installing", "restoring", "undoing"}
  PROVE  \A j \in Issuer : Moves(j)
<1>1. issuer'[i] = x /\ \A j \in Issuer : j # i => issuer'[j] = issuer[j] BY GoesIs
<1> QED BY <1>1 DEF Moves, Free, Keeping

LEMMA NoMoves ==
  ASSUME UNCHANGED issuer
  PROVE  \A j \in Issuer : Moves(j)
BY DEF Moves

\* The settings change.
LEMMA SetDBFiles ==
  ASSUME ServingOK(disk), PendingSound(disk), NEW y, SetDB(y)
  PROVE  disk'[<<"live", "db">>] = {y} /\ FilesStay(disk, disk') /\ PendingSound(disk')
<1> DEFINE pd == <<"live", "db">> e == disk'
<1>1. "db" \in File BY DEF File
<1>2. IsDisk(disk) BY DEF ServingOK
<1>3. e[pd] = {y} /\ \A p \in Path : p # pd => e[p] = disk[p] BY <1>1, <1>2, SetFile DEF SetDB
<1>4. /\ <<"live", "cert">> \in Path /\ <<"live", "cert">> # pd
      /\ <<"live", "key">> \in Path /\ <<"live", "key">> # pd
      /\ \A p \in In("pending") : p \in Path /\ p # pd
  BY LivePaths, PathFacts
<1> HIDE DEF e, pd
<1>5. FilesStay(disk, e) BY <1>3, <1>4 DEF FilesStay
<1>6. \A p \in In("pending") : e[p] = disk[p] BY <1>3, <1>4
<1>7. /\ <<"pending", "db">> \in In("pending") /\ <<"pending", "restore.json">> \in In("pending")
      /\ <<"pending", "cert">> \in In("pending") /\ <<"pending", "key">> \in In("pending")
  BY DEF In, File
<1>8. PendingSound(e) BY <1>6, <1>7 DEF PendingSound
<1> QED BY <1>3, <1>5, <1>8 DEF e, pd

LEMMA DBAsks ==
  ASSUME ServingOK(disk)
  PROVE  /\ (\E x \in disk[<<"live", "db">>] : x.tls) <=> DB.tls
         /\ DB.tls => Asked
<1>1. PICK x : disk[<<"live", "db">>] = {x} BY DEF ServingOK, Opened
<1>2. DB = x BY <1>1, DBIs
<1> QED BY <1>1, <1>2 DEF Asked
\* Steps that neither change the settings nor take a copy.
LEMMA FreeStep ==
  ASSUME HandlersOK, ServingOK(disk), FilesOK, NEW i \in Issuer, NEW x, Goes(i, x), x.at \in Free,
         issuer[i].at \notin {"installing", "restoring", "undoing"},
         i = "scheduler" /\ x.at # "idle" => Asked,
         UNCHANGED settingsRead, UNCHANGED disk, UNCHANGED events
  PROVE  FilesOK'
<1>1. issuer'[i] = x /\ \A j \in Issuer : j # i => issuer'[j] = issuer[j] BY GoesIs
<1>2. "scheduler" \in Issuer BY DEF Issuer
<1>3. issuer'["scheduler"].at # "idle" => Asked
  <2>1. CASE i = "scheduler" BY <2>1, <1>1
  <2>2. CASE i # "scheduler" BY <2>2, <1>1, <1>2 DEF Asked
  <2> QED BY <2>1, <2>2
<1>4. Asked' => Asked BY <1>3, AskedFrom DEF Asked
<1>5. Over => Over' BY OverStays
<1>6. FilesStay(disk, disk') /\ PendingSound(disk') BY DEF FilesStay, FilesOK
<1>7. \A j \in Issuer : Moves(j) BY FreeMoves
<1> QED BY <1>4, <1>5, <1>6, <1>7, FilesStep

LEMMA AskingFiles ==
  ASSUME HandlersOK, ServingOK(disk), FilesOK, NEW i \in Issuer,
         SchedulerChecks \/ IssueBegins(i) \/ IssueEnds(i) \/ Activated
  PROVE  FilesOK'
<1>1. "scheduler" \in Issuer /\ "handler" \in Issuer BY DEF Issuer
<1>2. CASE SchedulerChecks
  <2> DEFINE x == [at |-> "disabling"] y == [at |-> "asking"]
  <2>1. x.at \in Free /\ y.at \in Free BY DEF Free
  <2>2. /\ Goes("scheduler", x) \/ Goes("scheduler", y)
        /\ UNCHANGED settingsRead /\ UNCHANGED disk /\ UNCHANGED events
        /\ issuer["scheduler"].at \notin {"installing", "restoring", "undoing"} /\ DB.tls
    BY <1>2 DEF SchedulerChecks, At
  <2>3. Asked BY <2>2, DBAsks
  <2> HIDE DEF x, y
  <2> QED BY <2>1, <2>2, <2>3, <1>1, FreeStep
<1>3. CASE IssueBegins(i) \/ IssueEnds(i)
  <2> DEFINE x == Idle y == [at |-> "issuing"] z == [at |-> "issued", certificate |-> issued']
  <2>1. x.at \in Free /\ y.at \in Free /\ z.at \in Free BY DEF Free, Idle
  <2>2. /\ Goes(i, x) \/ Goes(i, y) \/ Goes(i, z)
        /\ UNCHANGED settingsRead /\ UNCHANGED disk /\ UNCHANGED events
        /\ issuer[i].at \in {"asking", "issuing"}
    BY <1>3 DEF IssueBegins, IssueEnds, At
  <2>3. i = "scheduler" => Asked BY <2>2 DEF Asked
  <2>4. issuer[i].at \notin {"installing", "restoring", "undoing"} BY <2>2
  <2> HIDE DEF x, y, z
  <2> QED BY <2>1, <2>2, <2>3, <2>4, FreeStep
<1>4. CASE Activated
  <2> DEFINE x == Idle
  <2>1. x.at \in Free BY DEF Free, Idle
  <2>2. /\ Goes("handler", x)
        /\ UNCHANGED settingsRead /\ UNCHANGED disk /\ UNCHANGED events
        /\ issuer["handler"].at \notin {"installing", "restoring", "undoing"}
    BY <1>4 DEF Activated, At
  <2> HIDE DEF x
  <2> QED BY <2>1, <2>2, <1>1, FreeStep
<1> QED BY <1>2, <1>3, <1>4

\* The copy is taken between two installations.
LEMMA BackUpFiles ==
  ASSUME HandlersOK, FilesOK, NEW i \in Issuer, BackUp(i)
  PROVE  FilesOK'
<1> DEFINE kept == [f \in {"cert", "key", "enabled"} |-> disk[<<"live", f>>]]
           x == [at |-> "backedUp", certificate |-> issuer[i].certificate, kept |-> kept]
<1>1. /\ Goes(i, x) /\ ~Locked /\ issuer[i].at = "issued"
      /\ UNCHANGED settingsRead /\ UNCHANGED disk /\ UNCHANGED events
  BY DEF BackUp, At
<1>2. x.at = "backedUp" /\ x.kept.cert = disk[<<"live", "cert">>] /\ x.kept.key = disk[<<"live", "key">>]
  OBVIOUS
<1> HIDE DEF x
<1>3. issuer'[i] = x /\ \A j \in Issuer : j # i => issuer'[j] = issuer[j] BY <1>1, GoesIs
<1>4. Over => Over' BY <1>1, OverStays
<1>5. Asked' => Asked
  <2>1. "scheduler" \in Issuer BY DEF Issuer
  <2>2. issuer'["scheduler"].at # "idle" => Asked
    <3>1. CASE i = "scheduler" BY <3>1, <1>1 DEF Asked
    <3>2. CASE i # "scheduler" BY <3>2, <2>1, <1>3 DEF Asked
    <3> QED BY <3>1, <3>2
  <2> QED BY <2>2, <1>1, AskedFrom DEF Asked
<1>6. x.kept.cert = x.kept.key \/ Over BY <1>1, <1>2 DEF FilesOK, Whole
<1>7. Asked => x.kept.cert # {} BY <1>2 DEF FilesOK
<1>8. Moves(i)
  <2>1. KeepsPair(issuer[i])' BY <1>2, <1>3, <1>4, <1>5, <1>6, <1>7 DEF KeepsPair
  <2> QED BY <2>1, <1>1, <1>2, <1>3 DEF Moves
<1>9. \A j \in Issuer : Moves(j) BY <1>3, <1>8 DEF Moves
<1>10. FilesStay(disk, disk') /\ PendingSound(disk') BY <1>1 DEF FilesStay, FilesOK
<1> QED BY <1>4, <1>5, <1>9, <1>10, FilesStep

\* The settings.
LEMMA SettingsFiles ==
  ASSUME HandlersOK, ServingOK(disk), FilesOK, Age \/ SettingsRead \/ SettingsWritten
  PROVE  FilesOK'
<1> DEFINE y == [DB EXCEPT !.tls = TRUE \in settingsRead]
<1>1. /\ UNCHANGED issuer /\ (UNCHANGED events \/ Event)
      /\ UNCHANGED disk \/ (SetDB(y) /\ settingsRead' = {})
      /\ UNCHANGED settingsRead \/ settingsRead' = {DB.tls} \/ settingsRead' = {}
  BY DEF Age, SettingsRead, SettingsWritten
<1>2. Over => Over' BY <1>1, OverStays
<1>3. \A j \in Issuer : Moves(j) BY <1>1, NoMoves
<1>4. PendingSound(disk) BY DEF FilesOK
<1>5. TRUE \in settingsRead' => Asked BY <1>1, DBAsks DEF Asked
<1>6. issuer'["scheduler"].at # "idle" => Asked BY <1>1 DEF Asked
<1>7. y.tls = (TRUE \in settingsRead)
  <2>1. Good(DB) BY DBGood
  <2> DEFINE b == TRUE \in settingsRead
  <2>2. b \in BOOLEAN OBVIOUS
  <2> HIDE DEF b
  <2>3. [DB EXCEPT !.tls = b].tls = b BY <2>1 DEF Good
  <2> QED BY <2>3 DEF b
<1> HIDE DEF y
<1>8. CASE UNCHANGED disk
  <2>1. FilesStay(disk, disk') /\ PendingSound(disk') BY <1>4, <1>8 DEF FilesStay
  <2>2. (\E x \in disk'[<<"live", "db">>] : x.tls) => Asked BY <1>8 DEF Asked
  <2>3. Asked' => Asked BY <2>2, <1>5, <1>6, AskedFrom
  <2> QED BY <2>1, <2>3, <1>2, <1>3, FilesStep
<1>9. CASE SetDB(y)
  <2>1. disk'[<<"live", "db">>] = {y} /\ FilesStay(disk, disk') /\ PendingSound(disk')
    BY <1>4, <1>9, SetDBFiles
  <2>2. (\E x \in disk'[<<"live", "db">>] : x.tls) => Asked BY <2>1, <1>7 DEF Asked
  <2>3. Asked' => Asked BY <2>2, <1>5, <1>6, AskedFrom
  <2> QED BY <2>1, <2>3, <1>2, <1>3, FilesStep
<1> QED BY <1>1, <1>8, <1>9
\* The request of an administrator: TLS is asked for only with a certificate.
LEMMA HandlerBeginsFiles ==
  ASSUME HandlersOK, ServingOK(disk), FilesOK, HandlerBegins
  PROVE  FilesOK'
<1> DEFINE x == [DB EXCEPT !.acme = Here] y == [DB EXCEPT !.acme = Here, !.tls = TRUE] st == [at |-> "asking"]
<1>1. x.tls = DB.tls
  <2>1. Good(DB) BY DBGood
  <2> QED BY <2>1 DEF Good
<1>2. st.at \in Free BY DEF Free
<1>3. /\ issuer["handler"].at = "idle" /\ UNCHANGED settingsRead /\ UNCHANGED events
      /\ \/ ~NeedsRenewal /\ SetDB(y) /\ UNCHANGED issuer
         \/ SetDB(x) /\ Goes("handler", st)
  BY DEF HandlerBegins, At
<1> HIDE DEF x, y, st
<1>4. "handler" \in Issuer /\ "scheduler" \in Issuer BY DEF Issuer
<1>5. Over => Over' BY <1>3, OverStays
<1>6. PendingSound(disk) BY DEF FilesOK
<1>7. CASE ~NeedsRenewal /\ SetDB(y) /\ UNCHANGED issuer
  <2>1. FilesStay(disk, disk') /\ PendingSound(disk') BY <1>6, <1>7, SetDBFiles
  <2>2. \A j \in Issuer : Moves(j) BY <1>7, NoMoves
  <2>3. disk[<<"live", "cert">>] # {} BY <1>7 DEF NeedsRenewal, Has
  <2>4. ASSUME ~Asked PROVE \A j \in Issuer : issuer'[j].at \notin Keeping \union {"installing", "restoring"}
    <3>1. issuer["scheduler"].at = "idle" BY <2>4 DEF Asked
    <3>2. \A j \in Issuer : issuer'[j].at = "idle" BY <3>1, <1>3, <1>7 DEF Issuer
    <3> QED BY <3>2 DEF Keeping
  <2> QED BY <2>1, <2>2, <2>3, <2>4, <1>5, FilesStep
<1>8. CASE SetDB(x) /\ Goes("handler", st)
  <2>1. disk'[<<"live", "db">>] = {x} /\ FilesStay(disk, disk') /\ PendingSound(disk')
    BY <1>6, <1>8, SetDBFiles
  <2>2. issuer["handler"].at \notin {"installing", "restoring", "undoing"} BY <1>3
  <2>3. \A j \in Issuer : Moves(j) BY <2>2, <1>2, <1>4, <1>8, FreeMoves
  <2>4. (\E z \in disk'[<<"live", "db">>] : z.tls) => Asked BY <2>1, <1>1, DBAsks
  <2>5. issuer'["scheduler"] = issuer["scheduler"] BY <1>4, <1>8, GoesIs
  <2>6. Asked' => Asked BY <2>4, <2>5, <1>3, AskedFrom DEF Asked
  <2> QED BY <2>1, <2>3, <2>6, <1>5, FilesStep
<1> QED BY <1>3, <1>7, <1>8

LEMMA SettingDisabledFiles ==
  ASSUME HandlersOK, ServingOK(disk), FilesOK, SettingDisabled
  PROVE  FilesOK'
<1> DEFINE x == [DB EXCEPT !.tls = FALSE] st == [at |-> "unmarking"]
<1>1. x.tls = FALSE
  <2>1. Good(DB) BY DBGood
  <2> QED BY <2>1 DEF Good
<1>2. st.at \in Free BY DEF Free
<1>3. /\ issuer["scheduler"].at = "disabling" /\ UNCHANGED settingsRead /\ UNCHANGED events
      /\ SetDB(x) /\ Goes("scheduler", st)
  BY DEF SettingDisabled, At
<1> HIDE DEF x, st
<1>4. "scheduler" \in Issuer BY DEF Issuer
<1>5. Over => Over' BY <1>3, OverStays
<1>6. disk'[<<"live", "db">>] = {x} /\ FilesStay(disk, disk') /\ PendingSound(disk')
  BY <1>3, SetDBFiles DEF FilesOK
<1>7. \A j \in Issuer : Moves(j) BY <1>2, <1>3, <1>4, FreeMoves
<1>8. Asked BY <1>3 DEF Asked
<1> QED BY <1>5, <1>6, <1>7, <1>8, FilesStep

\* A step of a holder of the mutex, or the removal of the marker.
LEMMA DoneFiles ==
  ASSUME ServingOK(disk), PendingSound(disk), NEW step, TLSStep(step), Performed(step)
  PROVE  /\ disk'[<<"live", "db">>] = disk[<<"live", "db">>]
         /\ PendingSound(disk')
         /\ \A p \in {<<"live", "cert">>, <<"live", "key">>} :
              disk'[p] = IF p \in DOMAIN step.change THEN step.change[p] ELSE disk[p]
<1> DEFINE e == disk'
<1>1. e = DoneTo(disk, step) BY DEF Performed, Changed, DoneTo
<1>2. \A p \in Path : e[p] = IF p \in DOMAIN step.change THEN step.change[p] ELSE disk[p] BY <1>1, DoneIs
<1> HIDE DEF e
<1>3. e[<<"live", "db">>] = disk[<<"live", "db">>]
  <2>1. <<"live", "db">> \notin DOMAIN step.change BY PathFacts DEF TLSStep
  <2> QED BY <2>1, <1>2, LivePaths
<1>4. \A p \in In("pending") : e[p] = disk[p]
  <2>1. \A p \in In("pending") : p \in Path /\ p \notin {<<"live", "cert">>, <<"live", "key">>, <<"live", "enabled">>}
    BY LivePaths, PathFacts
  <2> QED BY <2>1, <1>2 DEF TLSStep
<1>5. /\ <<"pending", "db">> \in In("pending") /\ <<"pending", "restore.json">> \in In("pending")
      /\ <<"pending", "cert">> \in In("pending") /\ <<"pending", "key">> \in In("pending")
  BY DEF In, File
<1>6. PendingSound(e) BY <1>4, <1>5 DEF PendingSound
<1>7. \A p \in {<<"live", "cert">>, <<"live", "key">>} :
        e[p] = IF p \in DOMAIN step.change THEN step.change[p] ELSE disk[p]
  BY <1>2, LivePaths
<1> QED BY <1>3, <1>6, <1>7 DEF e

LEMMA MarkerDisabledFiles ==
  ASSUME HandlersOK, ServingOK(disk), FilesOK, MarkerDisabled
  PROVE  FilesOK'
<1> DEFINE x == Remove("disabling", "live", "enabled") pe == <<"live", "enabled">> st == Idle
<1>1. IsStep(x, "disabling", Only(pe, {})) BY RemoveIs
<1>2. DOMAIN Only(pe, {}) = {pe} BY OnlyIs
<1>3. /\ issuer["scheduler"].at = "unmarking" /\ UNCHANGED settingsRead /\ Goes("scheduler", st)
      /\ (Performed(x) /\ UNCHANGED events) \/ (Event /\ UNCHANGED disk)
  BY DEF MarkerDisabled, At
<1>4. st.at \in Free BY DEF Free, Idle
<1> HIDE DEF x, pe, st
<1>5. TLSStep(x) BY <1>1, <1>2 DEF TLSStep, IsStep, pe
<1>6. <<"live", "cert">> \notin DOMAIN x.change /\ <<"live", "key">> \notin DOMAIN x.change
  BY <1>1, <1>2, PathFacts DEF IsStep, pe
<1>7. FilesStay(disk, disk') /\ PendingSound(disk')
  <2>1. CASE Performed(x) BY <2>1, <1>5, <1>6, DoneFiles DEF FilesStay, FilesOK
  <2>2. CASE UNCHANGED disk BY <2>2 DEF FilesStay, FilesOK
  <2> QED BY <2>1, <2>2, <1>3
<1>8. Over => Over' BY <1>3, OverStays
<1>9. "scheduler" \in Issuer BY DEF Issuer
<1>10. \A j \in Issuer : Moves(j) BY <1>3, <1>4, <1>9, FreeMoves
<1>11. Asked BY <1>3 DEF Asked
<1> QED BY <1>7, <1>8, <1>10, <1>11, FilesStep

\* The settings are saved once the files are in place; when that fails, the copy
\* is put back.
LEMMA SettingsSavedFiles ==
  ASSUME Careful, HandlersOK, ServingOK(disk), FilesOK, SettingsSaved
  PROVE  FilesOK'
<1> DEFINE y == [DB EXCEPT !.tls = TRUE] st == [at |-> "activating", certificate |-> issuer["handler"].certificate]
           un == Undoing("handler")
<1>1. /\ issuer["handler"].at = "saving" /\ UNCHANGED settingsRead
      /\ \/ SetDB(y) /\ UNCHANGED events /\ Goes("handler", st)
         \/ Event /\ UNCHANGED disk /\ Goes("handler", un)
  BY DEF SettingsSaved, At, Failure, Careful
<1>2. st.at \in Free BY DEF Free
<1>3. un.at = "undoing" /\ un.kept = issuer["handler"].kept BY DEF Undoing
<1> HIDE DEF y, st, un
<1>4. "handler" \in Issuer /\ "scheduler" \in Issuer BY DEF Issuer
<1>5. Over => Over' BY <1>1, OverStays
<1>6. PendingSound(disk) BY DEF FilesOK
<1>7. CASE SetDB(y) /\ UNCHANGED events /\ Goes("handler", st)
  <2>1. FilesStay(disk, disk') /\ PendingSound(disk') BY <1>6, <1>7, SetDBFiles
  <2>2. \A j \in Issuer : Moves(j) BY <1>1, <1>2, <1>4, <1>7, FreeMoves
  <2>3. disk[<<"live", "cert">>] # {} BY <1>1 DEF FilesOK, At
  <2>4. ASSUME ~Asked PROVE \A j \in Issuer : issuer'[j].at \notin Keeping \union {"installing", "restoring"}
    <3>1. issuer["scheduler"].at = "idle" BY <2>4 DEF Asked
    <3>2. issuer'["scheduler"].at = "idle" /\ issuer'["handler"] = st BY <3>1, <1>4, <1>7, GoesIs
    <3>3. \A j \in Issuer : issuer'[j].at \in Free BY <3>2, <1>2 DEF Issuer, Free
    <3> QED BY <3>3 DEF Keeping, Free
  <2> QED BY <2>1, <2>2, <2>3, <2>4, <1>5, FilesStep
<1>8. CASE Event /\ UNCHANGED disk /\ Goes("handler", un)
  <2>1. ~Over BY <1>8 DEF Event, Over
  <2>2. issuer'["handler"] = un /\ \A j \in Issuer : j # "handler" => issuer'[j] = issuer[j]
    BY <1>4, <1>8, GoesIs
  <2>3. KeepsPair(issuer["handler"]) BY <1>1, <1>4 DEF FilesOK, Keeping
  <2>4. issuer'["scheduler"] = issuer["scheduler"] BY <2>2, <1>4
  <2>5. (\E z \in disk'[<<"live", "db">>] : z.tls) => Asked BY <1>8 DEF Asked
  <2>6. Asked' => Asked BY <2>4, <2>5, <1>1, AskedFrom DEF Asked
  <2>7. Moves("handler")
    <3>1. KeepsPair(issuer["handler"])' BY <2>1, <2>2, <2>3, <2>6, <1>3 DEF KeepsPair
    <3> QED BY <3>1, <2>2, <1>1, <1>3 DEF Moves
  <2>8. \A j \in Issuer : Moves(j) BY <2>2, <2>7 DEF Moves
  <2>9. FilesStay(disk, disk') /\ PendingSound(disk') BY <1>6, <1>8 DEF FilesStay
  <2> QED BY <2>6, <2>8, <2>9, <1>5, FilesStep
<1> QED BY <1>1, <1>7, <1>8
-----------------------------------------------------------------------------
(* Certificates: the writes.                                                 *)

LEMMA PairWrites ==
  ASSUME NEW part, NEW files, files.cert = files.key, NEW d
  PROVE  /\ Toward(d, Writes(part, files), <<"live", "cert">>, files.cert)
         /\ Toward(d, Writes(part, files), <<"live", "key">>, files.cert)
         /\ \A k \in DOMAIN Writes(part, files) :
              Writes(part, files)[k].can /\ Writes(part, files)[k].part = part
<1> DEFINE x == Write(part, "key", files.key) y == Write(part, "cert", files.cert)
           z == Write(part, "enabled", files.enabled) t == Writes(part, files) w == <<x, y, z>>
           pc == <<"live", "cert">> pk == <<"live", "key">> pe == <<"live", "enabled">>
<1>1. IsStep(x, part, Only(pk, files.key)) /\ x.can BY WriteIs
<1>2. IsStep(y, part, Only(pc, files.cert)) /\ y.can BY WriteIs
<1>3. IsStep(z, part, Only(pe, files.enabled)) /\ z.can BY WriteIs
<1>4. /\ DOMAIN Only(pk, files.key) = {pk} /\ Only(pk, files.key)[pk] = files.key
      /\ DOMAIN Only(pc, files.cert) = {pc} /\ Only(pc, files.cert)[pc] = files.cert
      /\ DOMAIN Only(pe, files.enabled) = {pe}
  BY OnlyIs
<1>5. pc # pk /\ pc # pe /\ pk # pe OBVIOUS
<1>6. t = w BY DEF Writes
<1>7. /\ \A p : Touched(w, p) <=> p \in DOMAIN x.change \/ p \in DOMAIN y.change \/ p \in DOMAIN z.change
      /\ \A k \in DOMAIN w : w[k] \in {x, y, z}
  BY ThreeSteps
<1> HIDE DEF x, y, z, t, w, pc, pk, pe
<1>8. /\ DOMAIN x.change = {pk} /\ x.change[pk] = files.cert /\ x.part = part
      /\ DOMAIN y.change = {pc} /\ y.change[pc] = files.cert /\ y.part = part
      /\ DOMAIN z.change = {pe} /\ z.part = part
  BY <1>1, <1>2, <1>3, <1>4 DEF IsStep
<1>9. Toward(d, w, pc, files.cert) BY <1>5, <1>7, <1>8 DEF Toward
<1>10. Toward(d, w, pk, files.cert) BY <1>5, <1>7, <1>8 DEF Toward
<1>11. \A k \in DOMAIN w : w[k].can /\ w[k].part = part BY <1>1, <1>2, <1>3, <1>7, <1>8
<1> QED BY <1>6, <1>9, <1>10, <1>11 DEF t, pc, pk

LEMMA TowardStep ==
  ASSUME NEW d, NEW e, NEW todo, IsSeq(todo), todo # <<>>, NEW p, NEW v, Toward(d, todo, p, v),
         e[p] = IF p \in DOMAIN Head(todo).change THEN Head(todo).change[p] ELSE d[p]
  PROVE  Toward(e, Tail(todo), p, v) /\ (e[p] = v \/ e[p] = d[p])
<1> DEFINE rest == Tail(todo)
<1>1. /\ Head(todo) = todo[1] /\ 1 \in DOMAIN todo
      /\ \A k \in DOMAIN rest : k \in Nat /\ k > 0 /\ k + 1 \in DOMAIN todo /\ rest[k] = todo[k + 1]
      /\ \A k \in DOMAIN todo : k \in Nat /\ k > 0 /\ (k > 1 => k - 1 \in DOMAIN rest)
  BY Rest
<1> HIDE DEF rest
<1>2. \A k \in DOMAIN rest : p \in DOMAIN rest[k].change => rest[k].change[p] = v BY <1>1 DEF Toward
<1>3. p \in DOMAIN Head(todo).change => e[p] = v BY <1>1 DEF Toward
<1>4. CASE p \in DOMAIN Head(todo).change BY <1>2, <1>3, <1>4 DEF Toward, rest
<1>5. CASE p \notin DOMAIN Head(todo).change
  <2>1. e[p] = d[p] BY <1>5
  <2>2. CASE d[p] = v BY <2>1, <2>2, <1>2 DEF Toward, rest
  <2>3. CASE Touched(todo, p)
    <3>1. PICK k \in DOMAIN todo : p \in DOMAIN todo[k].change BY <2>3 DEF Touched
    <3>2. k \in Nat /\ k > 0 /\ k # 1 BY <3>1, <1>1, <1>5
    <3>3. k > 1 BY <3>2
    <3>4. k - 1 \in DOMAIN rest BY <3>3, <1>1
    <3>5. rest[k - 1] = todo[k - 1 + 1] /\ k - 1 + 1 = k BY <3>2, <3>4, <1>1
    <3>6. Touched(rest, p) BY <3>1, <3>4, <3>5 DEF Touched
    <3> QED BY <3>6, <2>1, <1>2 DEF Toward, rest
  <2> QED BY <2>2, <2>3 DEF Toward
<1> QED BY <1>4, <1>5

\* An issuer takes the mutex.
LEMMA LockFiles ==
  ASSUME HandlersOK, FilesOK, NEW i \in Issuer, NEW x, Goes(i, x), ~Locked,
         x.at \in {"installing", "restoring"}, issuer[i].at # "idle",
         UNCHANGED disk, UNCHANGED events, UNCHANGED settingsRead,
         WritesPair(x, disk), x.at \in Keeping => KeepsPair(x)
  PROVE  FilesOK'
<1>1. issuer'[i] = x /\ \A j \in Issuer : j # i => issuer'[j] = issuer[j] BY GoesIs
<1>2. \A j \in Issuer : Holding(j)' => j = i BY <1>1 DEF Locked, Holding
<1>3. Locked' BY <1>1 DEF Locked
<1>4. Asked' => Asked
  <2>1. "scheduler" \in Issuer BY DEF Issuer
  <2>2. issuer'["scheduler"].at # "idle" => Asked
    <3>1. CASE i = "scheduler" BY <3>1 DEF Asked
    <3>2. CASE i # "scheduler" BY <3>2, <2>1, <1>1 DEF Asked
    <3> QED BY <3>1, <3>2
  <2> QED BY <2>2, AskedFrom DEF Asked
<1>5. Over' <=> Over BY DEF Over
<1>6. At("handler", "saving")' => At("handler", "saving")
  <2>1. "handler" \in Issuer BY DEF Issuer
  <2>2. CASE i = "handler" BY <2>2, <1>1 DEF At
  <2>3. CASE i # "handler" BY <2>1, <2>3, <1>1 DEF At
  <2> QED BY <2>2, <2>3
<1>7. Asked' \/ At("handler", "saving")' => disk'[<<"live", "cert">>] # {} BY <1>4, <1>6 DEF FilesOK
<1>8. WritesPair(issuer[i], disk)'
  <2>1. PICK v : /\ Toward(disk, x.todo, <<"live", "cert">>, v)
                 /\ Toward(disk, x.todo, <<"live", "key">>, v)
                 /\ (Asked \/ x.at = "installing") => v # {}
    BY DEF WritesPair
  <2>2. \A k \in DOMAIN x.todo : x.todo[k].can /\ x.todo[k].part = x.at BY DEF WritesPair
  <2> QED BY <2>1, <2>2, <1>1, <1>4 DEF WritesPair
<1>9. ASSUME NEW j \in Issuer, issuer'[j].at \in Keeping PROVE KeepsPair(issuer[j])'
  <2>1. CASE j = i
    <3>1. KeepsPair(x) BY <2>1, <1>1, <1>9
    <3> QED BY <3>1, <2>1, <1>1, <1>4, <1>5 DEF KeepsPair
  <2>2. CASE j # i
    <3>1. issuer'[j] = issuer[j] /\ KeepsPair(issuer[j]) BY <2>2, <1>1, <1>9 DEF FilesOK
    <3> QED BY <3>1, <1>4, <1>5 DEF KeepsPair
  <2> QED BY <2>1, <2>2
<1>10. PendingSound(disk') BY DEF FilesOK
<1> QED BY <1>2, <1>3, <1>7, <1>8, <1>9, <1>10 DEF FilesOK

LEMMA LockingFiles ==
  ASSUME HandlersOK, FilesOK, NEW i \in Issuer, InstallBegins(i) \/ RestoreBegins(i)
  PROVE  FilesOK'
<1>1. CASE InstallBegins(i)
  <2> DEFINE c == issuer[i].certificate files == [cert |-> {c}, key |-> {c}, enabled |-> {TRUE}]
             t == Writes("installing", files) kept == issuer[i].kept
             x == [at |-> "installing", certificate |-> c, kept |-> kept, todo |-> t]
  <2>1. /\ Goes(i, x) /\ ~Locked /\ issuer[i].at = "backedUp"
        /\ UNCHANGED disk /\ UNCHANGED events /\ UNCHANGED settingsRead
    BY <1>1 DEF InstallBegins, At
  <2>2. files.cert = files.key /\ files.cert # {} OBVIOUS
  <2> HIDE DEF files
  <2>3. /\ Toward(disk, t, <<"live", "cert">>, files.cert) /\ Toward(disk, t, <<"live", "key">>, files.cert)
        /\ \A k \in DOMAIN t : t[k].can /\ t[k].part = "installing"
    BY <2>2, PairWrites
  <2> HIDE DEF t
  <2>4. x.at = "installing" /\ x.todo = t /\ x.kept = issuer[i].kept OBVIOUS
  <2> HIDE DEF x
  <2>5. WritesPair(x, disk) BY <2>2, <2>3, <2>4 DEF WritesPair
  <2>6. KeepsPair(issuer[i]) BY <2>1 DEF FilesOK, Keeping
  <2>7. KeepsPair(x) BY <2>1, <2>4, <2>6 DEF KeepsPair
  <2> QED BY <2>1, <2>4, <2>5, <2>7, LockFiles
<1>2. CASE RestoreBegins(i)
  <2> DEFINE kept == issuer[i].kept t == Writes("restoring", kept) x == [at |-> "restoring", todo |-> t]
  <2>1. /\ Goes(i, x) /\ ~Locked /\ issuer[i].at = "undoing"
        /\ UNCHANGED disk /\ UNCHANGED events /\ UNCHANGED settingsRead
    BY <1>2 DEF RestoreBegins, Restoring, At
  <2>2. kept.cert = kept.key /\ (Asked => kept.cert # {})
    BY <2>1 DEF FilesOK, Keeping, KeepsPair
  <2> HIDE DEF kept
  <2>3. /\ Toward(disk, t, <<"live", "cert">>, kept.cert) /\ Toward(disk, t, <<"live", "key">>, kept.cert)
        /\ \A k \in DOMAIN t : t[k].can /\ t[k].part = "restoring"
    BY <2>2, PairWrites
  <2> HIDE DEF t
  <2>4. x.at = "restoring" /\ x.todo = t OBVIOUS
  <2> HIDE DEF x
  <2>5. WritesPair(x, disk) BY <2>2, <2>3, <2>4 DEF WritesPair
  <2>6. x.at \notin Keeping BY <2>4 DEF Keeping
  <2> QED BY <2>1, <2>4, <2>5, <2>6, LockFiles
<1> QED BY <1>1, <1>2
LEMMA HeldShape ==
  ASSUME NEW x, IssuerOK(x), x.at \in {"installing", "restoring"}, NEW u
  PROVE  /\ TLSSteps(x.todo)
         /\ [x EXCEPT !.todo = u].at = x.at /\ [x EXCEPT !.todo = u].todo = u
         /\ x.at = "installing" =>
              /\ [x EXCEPT !.todo = u].kept = x.kept
              /\ [x EXCEPT !.at = "saving"].at = "saving" /\ [x EXCEPT !.at = "saving"].kept = x.kept
<1>1. CASE x.at = "installing"
  <2>1. PICK c, k, t : x = [at |-> "installing", certificate |-> c, kept |-> k, todo |-> t] /\ TLSSteps(t)
    BY <1>1, IssuerAt
  <2> QED BY <2>1
<1>2. CASE x.at = "restoring"
  <2>1. PICK t : x = [at |-> "restoring", todo |-> t] /\ TLSSteps(t) BY <1>2, IssuerAt
  <2>2. x.at # "installing" BY <1>2
  <2> QED BY <2>1, <2>2
<1> QED BY <1>1, <1>2

\* A file is written.
LEMMA FileWrittenDone ==
  ASSUME HandlersOK, ServingOK(disk), FilesOK, NEW i \in Issuer, issuer[i].at \in {"installing", "restoring"},
         issuer[i].todo # <<>>, Performed(Head(issuer[i].todo)),
         Goes(i, [issuer[i] EXCEPT !.todo = Tail(issuer[i].todo)]),
         UNCHANGED events, UNCHANGED settingsRead
  PROVE  FilesOK'
<1> DEFINE x == issuer[i] u == Tail(x.todo) y == [x EXCEPT !.todo = u] pc == <<"live", "cert">> pk == <<"live", "key">>
<1>1. IssuerOK(x) BY DEF HandlersOK
<1>2. /\ TLSSteps(x.todo) /\ y.at = x.at /\ y.todo = u
      /\ x.at = "installing" => y.kept = x.kept
  BY <1>1, HeldShape
<1>3. TLSStep(Head(x.todo)) BY <1>2, TLSRest
<1>4. /\ disk'[<<"live", "db">>] = disk[<<"live", "db">>] /\ PendingSound(disk')
      /\ \A p \in {pc, pk} :
           disk'[p] = IF p \in DOMAIN Head(x.todo).change THEN Head(x.todo).change[p] ELSE disk[p]
  BY <1>3, DoneFiles DEF FilesOK
<1>5. issuer'[i] = y /\ \A j \in Issuer : j # i => issuer'[j] = issuer[j] BY GoesIs
<1>6. WritesPair(x, disk) BY DEF FilesOK, Holding
<1>7. PICK v : /\ Toward(disk, x.todo, pc, v) /\ Toward(disk, x.todo, pk, v)
               /\ (Asked \/ x.at = "installing") => v # {}
  BY <1>6 DEF WritesPair
<1>8. IsSeq(x.todo) BY <1>2 DEF TLSSteps
<1>9. /\ Toward(disk', u, pc, v) /\ (disk'[pc] = v \/ disk'[pc] = disk[pc])
      /\ Toward(disk', u, pk, v)
  BY <1>4, <1>7, <1>8, TowardStep
<1>10. \A k \in DOMAIN u : u[k].can /\ u[k].part = x.at
  <2>1. \A k \in DOMAIN u : k + 1 \in DOMAIN x.todo /\ u[k] = x.todo[k + 1] BY <1>8, Rest
  <2> QED BY <2>1, <1>6 DEF WritesPair
<1>11. x.at \in {"installing", "restoring"} OBVIOUS
<1>12. \A j \in Issuer : Holding(j) => j = i BY <1>11 DEF FilesOK, Holding
<1>13. i = "scheduler" => Asked BY DEF Asked
<1>14. x.at \in Keeping => KeepsPair(x) BY DEF FilesOK
<1> HIDE DEF x, y, u, pc, pk
<1>15. Asked' <=> Asked
  <2>1. "scheduler" \in Issuer BY DEF Issuer
  <2>2. issuer'["scheduler"].at = issuer["scheduler"].at
    <3>1. CASE i = "scheduler" BY <3>1, <1>2, <1>5 DEF x
    <3>2. CASE i # "scheduler" BY <3>2, <2>1, <1>5
    <3> QED BY <3>1, <3>2
  <2> QED BY <2>2, <1>4 DEF Asked
<1>16. Over' <=> Over BY DEF Over
<1>17. \A j \in Issuer : Holding(j)' => j = i BY <1>5, <1>12 DEF Holding
<1>18. Locked' BY <1>2, <1>5, <1>11 DEF Locked
<1>19. Asked' \/ At("handler", "saving")' => disk'[pc] # {}
  <2>1. ASSUME Asked' \/ At("handler", "saving")' PROVE (Asked \/ At("handler", "saving")) /\ v # {}
    <3>1. "handler" \in Issuer BY DEF Issuer
    <3>2. CASE i = "handler"
      <4>1. ~At("handler", "saving")' BY <3>2, <1>2, <1>5, <1>11 DEF At
      <4> QED BY <4>1, <2>1, <1>7, <1>15
    <3>3. CASE i # "handler"
      <4>1. Asked BY <3>3, <1>13 DEF Issuer
      <4> QED BY <4>1, <1>7
    <3> QED BY <3>2, <3>3
  <2>2. Asked \/ At("handler", "saving") => disk[pc] # {} BY DEF FilesOK, pc
  <2> QED BY <2>1, <2>2, <1>9
<1>20. WritesPair(issuer[i], disk)' BY <1>2, <1>5, <1>7, <1>9, <1>10, <1>15 DEF WritesPair, pc, pk
<1>21. ASSUME NEW j \in Issuer, issuer'[j].at \in Keeping PROVE KeepsPair(issuer[j])'
  <2>1. CASE j = i
    <3>1. x.at = "installing" /\ KeepsPair(x) BY <2>1, <1>2, <1>5, <1>11, <1>14, <1>21 DEF Keeping
    <3> QED BY <3>1, <2>1, <1>2, <1>5, <1>15, <1>16 DEF KeepsPair
  <2>2. CASE j # i
    <3>1. issuer'[j] = issuer[j] /\ KeepsPair(issuer[j]) BY <2>2, <1>5, <1>21 DEF FilesOK
    <3> QED BY <3>1, <1>15, <1>16 DEF KeepsPair
  <2> QED BY <2>1, <2>2
<1> QED BY <1>4, <1>17, <1>18, <1>19, <1>20, <1>21 DEF FilesOK, pc

\* An installation fails halfway: the copy is to be put back. It is the last
\* failure there can be, so that no other copy is torn.
LEMMA FileWrittenFails ==
  ASSUME Careful, HandlersOK, FilesOK, events \in Nat, NEW i \in Issuer,
         issuer[i].at \in {"installing", "restoring"},
         issuer[i].todo # <<>>, Fails(Head(issuer[i].todo)),
         Goes(i, IF At(i, "restoring") THEN Idle ELSE Undoing(i)),
         UNCHANGED disk, UNCHANGED settingsRead
  PROVE  FilesOK'
<1> DEFINE x == issuer[i] un == Undoing(i)
<1>1. IssuerOK(x) BY DEF HandlersOK
<1>2. TLSSteps(x.todo) BY <1>1, HeldShape
<1>3. WritesPair(x, disk) BY DEF FilesOK, Holding
<1>4. Head(x.todo).can /\ Head(x.todo).part = x.at
  <2>1. IsSeq(x.todo) BY <1>2 DEF TLSSteps
  <2>2. Head(x.todo) = x.todo[1] /\ 1 \in DOMAIN x.todo BY <2>1, Rest
  <2> QED BY <2>2, <1>3 DEF WritesPair
<1>5. x.at \notin NoFailureIn /\ Event BY <1>4 DEF Fails, Failure
<1>6. x.at = "installing" /\ MaxEvent <= 1 BY <1>5 DEF Careful
<1>7. un.at = "undoing" /\ un.kept = x.kept BY DEF Undoing
<1>8. Goes(i, un) BY <1>6 DEF At
<1>9. \A j \in Issuer : Holding(j) => j = i BY <1>6 DEF FilesOK, Holding
<1>10. KeepsPair(x) BY <1>6 DEF FilesOK, Keeping
<1>11. i = "scheduler" => Asked BY <1>6 DEF Asked
<1>12. PendingSound(disk') BY DEF FilesOK
<1> HIDE DEF x, un
<1>13. issuer'[i] = un /\ \A j \in Issuer : j # i => issuer'[j] = issuer[j] BY <1>8, GoesIs
<1>14. ~Over BY <1>5 DEF Over, Event
<1>15. Over'
  <2>1. events < MaxEvent /\ events' = events + 1 BY <1>5 DEF Event
  <2>2. MaxEvent \in Nat BY EventAssumption
  <2>3. ~(events' < MaxEvent) BY <2>1, <2>2, <1>6
  <2> QED BY <2>3, <1>5, <1>6 DEF Over
<1>16. Asked' => Asked
  <2>1. "scheduler" \in Issuer BY DEF Issuer
  <2>2. issuer'["scheduler"].at # "idle" => Asked
    <3>1. CASE i = "scheduler" BY <3>1, <1>11
    <3>2. CASE i # "scheduler" BY <3>2, <2>1, <1>13 DEF Asked
    <3> QED BY <3>1, <3>2
  <2> QED BY <2>2, AskedFrom DEF Asked
<1>17. At("handler", "saving")' => At("handler", "saving")
  <2>1. "handler" \in Issuer BY DEF Issuer
  <2>2. CASE i = "handler" BY <2>2, <1>7, <1>13 DEF At
  <2>3. CASE i # "handler" BY <2>1, <2>3, <1>13 DEF At
  <2> QED BY <2>2, <2>3
<1>18. Asked' \/ At("handler", "saving")' => disk'[<<"live", "cert">>] # {} BY <1>16, <1>17 DEF FilesOK
<1>19. \A j \in Issuer : ~Holding(j)' BY <1>7, <1>9, <1>13 DEF Holding
<1>20. At(i, "undoing")' BY <1>7, <1>13 DEF At
<1>21. ASSUME NEW j \in Issuer, issuer'[j].at \in Keeping PROVE KeepsPair(issuer[j])'
  <2>1. CASE j = i BY <2>1, <1>7, <1>10, <1>13, <1>14, <1>16 DEF KeepsPair
  <2>2. CASE j # i
    <3>1. issuer'[j] = issuer[j] /\ KeepsPair(issuer[j]) BY <2>2, <1>13, <1>21 DEF FilesOK
    <3> QED BY <3>1, <1>14, <1>16 DEF KeepsPair
  <2> QED BY <2>1, <2>2
<1> QED BY <1>12, <1>15, <1>18, <1>19, <1>20, <1>21 DEF FilesOK

LEMMA FileWrittenFiles ==
  ASSUME Careful, HandlersOK, ServingOK(disk), FilesOK, events \in Nat, NEW i \in Issuer, FileWritten(i)
  PROVE  FilesOK'
<1>1. /\ issuer[i].at \in {"installing", "restoring"} /\ issuer[i].todo # <<>>
      /\ UNCHANGED settingsRead
      /\ \/ /\ Performed(Head(issuer[i].todo)) /\ UNCHANGED events
            /\ Goes(i, [issuer[i] EXCEPT !.todo = Tail(issuer[i].todo)])
         \/ /\ Fails(Head(issuer[i].todo)) /\ UNCHANGED disk
            /\ Goes(i, IF At(i, "restoring") THEN Idle ELSE Undoing(i))
  BY DEF FileWritten
<1> QED BY <1>1, FileWrittenDone, FileWrittenFails
\* All files are written: a pair is in place when the mutex is given back.
LEMMA FilesWrittenFiles ==
  ASSUME HandlersOK, FilesOK, NEW i \in Issuer, FilesWritten(i)
  PROVE  FilesOK'
<1> DEFINE x == issuer[i] z == [x EXCEPT !.at = "saving"] pc == <<"live", "cert">> pk == <<"live", "key">>
<1>1. /\ x.at \in {"installing", "restoring"} /\ x.todo = <<>>
      /\ UNCHANGED disk /\ UNCHANGED events /\ UNCHANGED settingsRead
      /\ Goes(i, Idle) \/ (i = "handler" /\ x.at = "installing" /\ Goes(i, z))
  BY DEF FilesWritten, At
<1>2. IssuerOK(x) BY DEF HandlersOK
<1>3. x.at = "installing" => z.at = "saving" /\ z.kept = x.kept BY <1>1, <1>2, HeldShape
<1>4. PICK v : /\ Toward(disk, x.todo, pc, v) /\ Toward(disk, x.todo, pk, v)
               /\ (Asked \/ x.at = "installing") => v # {}
  BY <1>1 DEF FilesOK, Holding, WritesPair
<1>5. disk[pc] = v /\ disk[pk] = v BY <1>1, <1>4, NothingTouched DEF Toward
<1>6. Whole(disk') BY <1>1, <1>5 DEF Whole
<1>7. \A j \in Issuer : Holding(j) => j = i BY <1>1 DEF FilesOK, Holding
<1>8. x.at = "installing" => KeepsPair(x) BY DEF FilesOK, Keeping
<1>9. i = "scheduler" => Asked BY <1>1 DEF Asked
<1>10. PendingSound(disk') BY <1>1 DEF FilesOK
<1> DEFINE w == issuer'[i]
<1>11. /\ \A j \in Issuer : j # i => issuer'[j] = issuer[j]
       /\ w.at = "idle" \/ (i = "handler" /\ x.at = "installing" /\ w.at = "saving" /\ w.kept = x.kept)
  <2>1. CASE Goes(i, Idle) BY <2>1, GoesIs DEF Idle
  <2>2. CASE i = "handler" /\ x.at = "installing" /\ Goes(i, z)
    <3>1. w = z /\ \A j \in Issuer : j # i => issuer'[j] = issuer[j] BY <2>2, GoesIs
    <3> HIDE DEF z, w, x
    <3> QED BY <3>1, <2>2, <1>3
  <2> QED BY <2>1, <2>2, <1>1
<1> HIDE DEF x, z, w, pc, pk
<1>12. Over' <=> Over BY <1>1 DEF Over
<1>13. Asked' => Asked
  <2>1. "scheduler" \in Issuer BY DEF Issuer
  <2>2. issuer'["scheduler"].at # "idle" => Asked
    <3>1. CASE i = "scheduler" BY <3>1, <1>9
    <3>2. CASE i # "scheduler" BY <3>2, <2>1, <1>11 DEF Asked
    <3> QED BY <3>1, <3>2
  <2> QED BY <2>2, <1>1, AskedFrom DEF Asked
<1>14. Asked' \/ At("handler", "saving")' => disk'[pc] # {}
  <2>1. Asked => v # {} BY <1>4
  <2>2. "handler" \in Issuer BY DEF Issuer
  <2>3. CASE i = "handler"
    <3>1. At("handler", "saving")' => v # {} BY <2>3, <1>4, <1>11 DEF At, w
    <3> QED BY <3>1, <2>1, <1>1, <1>5, <1>13
  <2>4. CASE i # "handler"
    <3>1. Asked BY <2>4, <1>9 DEF Issuer
    <3> QED BY <3>1, <2>1, <1>1, <1>5
  <2> QED BY <2>3, <2>4
<1>15. \A j \in Issuer : ~Holding(j)' BY <1>7, <1>11 DEF Holding, w
<1>16. ASSUME NEW j \in Issuer, issuer'[j].at \in Keeping PROVE KeepsPair(issuer[j])'
  <2>1. CASE j = i
    <3>1. w.at = "saving" /\ w.kept = x.kept /\ KeepsPair(x)
      BY <2>1, <1>8, <1>11, <1>16 DEF w, Keeping
    <3>2. x.at # "undoing" BY <1>1
    <3> QED BY <3>1, <3>2, <2>1, <1>12, <1>13 DEF KeepsPair, w
  <2>2. CASE j # i
    <3>1. issuer'[j] = issuer[j] /\ KeepsPair(issuer[j]) BY <2>2, <1>11, <1>16 DEF FilesOK
    <3> QED BY <3>1, <1>12, <1>13 DEF KeepsPair
  <2> QED BY <2>1, <2>2
<1> QED BY <1>6, <1>10, <1>14, <1>15, <1>16 DEF FilesOK, pc

\* What is staged is a pair, or one that a start refuses, or leaves the TLS
\* files alone.
LEMMA PendingFilesAre ==
  ASSUME NEW archive, GoodArchive(archive)
  PROVE  /\ DOMAIN Pending(archive) = In("pending")
         /\ Pending(archive)[<<"pending", "restore.json">>] = {archive.tls}
         /\ Pending(archive)[<<"pending", "cert">>] = archive.cert
         /\ Pending(archive)[<<"pending", "key">>] = archive.key
         /\ archive.tls => \A y \in Pending(archive)[<<"pending", "db">>] : y.tls = archive.db.tls
<1> DEFINE db == archive.db from == archive.db.headers m == Reencrypted(WithPreservedSettings(archive), from)
<1>1. DOMAIN Pending(archive) = In("pending") BY DEF Pending
<1>2. /\ Pending(archive)[<<"pending", "cert">>] = archive.cert
      /\ Pending(archive)[<<"pending", "key">>] = archive.key
  BY DEF Pending, In, File
<1>3. /\ Pending(archive)[<<"pending", "db">>] = {m}
      /\ Pending(archive)[<<"pending", "restore.json">>] = {archive.tls}
  BY PendingIs
<1>4. ASSUME archive.tls PROVE m.tls = archive.db.tls
  <2>1. WithPreservedSettings(archive) = db BY <1>4 DEF WithPreservedSettings
  <2>2. DOMAIN db = {"id", "tls", "headers", "acme"} BY DEF GoodArchive
  <2> HIDE DEF db, from
  <2>3. m = [db EXCEPT !.headers = Here, !.acme = IF db.acme = from THEN Here ELSE db.acme]
    BY <2>1 DEF Reencrypted
  <2> HIDE DEF m
  <2>4. m.tls = db.tls BY <2>2, <2>3
  <2> QED BY <2>4 DEF db
<1> HIDE DEF m
<1> QED BY <1>1, <1>2, <1>3, <1>4

LEMMA StagingFiles ==
  ASSUME ServingOK(disk), FilesOK, UNCHANGED certificateVars, NEW archive, GoodArchive(archive),
         ArchiveSound(archive), StageRestore(archive)
  PROVE  FilesOK'
<1> DEFINE e == disk' change1 == Pending(archive) change2 == Removed(In("pending"))
<1>1. /\ UNCHANGED events \/ Event
      /\ e = Changed(change1) \/ e = Changed(change2)
  BY DEF StageRestore
<1>2. /\ DOMAIN change1 = In("pending")
      /\ change1[<<"pending", "restore.json">>] = {archive.tls}
      /\ change1[<<"pending", "cert">>] = archive.cert
      /\ change1[<<"pending", "key">>] = archive.key
      /\ archive.tls => \A y \in change1[<<"pending", "db">>] : y.tls = archive.db.tls
  BY PendingFilesAre
<1>3. DOMAIN change2 = In("pending") /\ \A p \in In("pending") : change2[p] = {} BY RemovedIs
<1>4. ASSUME NEW change, e = Changed(change), DOMAIN change = In("pending")
      PROVE  /\ \A p \in In("pending") : e[p] = change[p]
             /\ e[<<"live", "db">>] = disk[<<"live", "db">>] /\ FilesStay(disk, e)
  <2>1. \A p \in Path : e[p] = IF p \in DOMAIN change THEN change[p] ELSE disk[p] BY <1>4, ChangedIs
  <2>2. /\ <<"live", "db">> \notin In("pending") /\ <<"live", "cert">> \notin In("pending")
        /\ <<"live", "key">> \notin In("pending")
    BY PathFacts
  <2> HIDE DEF e
  <2> QED BY <2>1, <2>2, <1>4, LivePaths DEF FilesStay
<1>5. /\ <<"pending", "db">> \in In("pending") /\ <<"pending", "restore.json">> \in In("pending")
      /\ <<"pending", "cert">> \in In("pending") /\ <<"pending", "key">> \in In("pending")
  BY DEF In, File
<1> HIDE DEF e, change1, change2
<1>6. /\ PendingSound(e) /\ e[<<"live", "db">>] = disk[<<"live", "db">>] /\ FilesStay(disk, e)
  <2>1. CASE e = Changed(change1)
    <3>1. /\ \A p \in In("pending") : e[p] = change1[p]
          /\ e[<<"live", "db">>] = disk[<<"live", "db">>] /\ FilesStay(disk, e)
      BY <2>1, <1>2, <1>4
    <3>2. archive.tls => PairOrRefused(archive.db.tls, archive.cert, archive.key) BY DEF ArchiveSound
    <3>3. PendingSound(e) BY <3>1, <3>2, <1>2, <1>5 DEF PendingSound
    <3> QED BY <3>1, <3>3
  <2>2. CASE e = Changed(change2)
    <3>1. /\ \A p \in In("pending") : e[p] = change2[p]
          /\ e[<<"live", "db">>] = disk[<<"live", "db">>] /\ FilesStay(disk, e)
      BY <2>2, <1>3, <1>4
    <3>2. PendingSound(e) BY <3>1, <1>3, <1>5 DEF PendingSound
    <3> QED BY <3>1, <3>2
  <2> QED BY <2>1, <2>2, <1>1
<1>7. UNCHANGED issuer /\ UNCHANGED settingsRead BY DEF certificateVars
<1>8. Asked' => Asked BY <1>6, <1>7 DEF Asked, e
<1>9. Over => Over' BY <1>1, OverStays
<1> QED BY <1>6, <1>7, <1>8, <1>9, NoMoves, FilesStep DEF e
-----------------------------------------------------------------------------
(* Certificates: exports, and the serving panel as a whole.                  *)

LEMMA ExportingFiles ==
  ASSUME FilesOK, UNCHANGED <<disk, events, certificateVars>>
  PROVE  FilesOK'
<1>1. UNCHANGED issuer /\ UNCHANGED settingsRead /\ UNCHANGED disk /\ UNCHANGED events
  BY DEF certificateVars
<1>2. Asked' => Asked BY <1>1 DEF Asked
<1>3. Over => Over' BY <1>1, OverStays
<1>4. FilesStay(disk, disk') /\ PendingSound(disk') BY <1>1 DEF FilesStay, FilesOK
<1> QED BY <1>1, <1>2, <1>3, <1>4, NoMoves, FilesStep

\* An export reads a pair, since nobody writes while it runs.
LEMMA ExportDatabaseSound ==
  ASSUME Careful, Apart(TRUE), ExportDatabase, UNCHANGED certificateVars, \A a \in archives : ArchiveSound(a)
  PROVE  Exporting' /\ (\A a \in archives' : ArchiveSound(a)) /\ UNCHANGED <<disk, events, certificateVars>>
<1>1. PICK tls \in BOOLEAN :
        LET a == [db |-> DB, tls |-> tls, cert |-> {}, key |-> {}, enabled |-> {}]
        IN \/ exporter' = [at |-> 1, archive |-> a] /\ UNCHANGED archives
           \/ ~tls /\ archives' = archives \union {a} /\ UNCHANGED exporter
  BY DEF ExportDatabase
<1> DEFINE a == [db |-> DB, tls |-> tls, cert |-> {}, key |-> {}, enabled |-> {}]
<1>2. a.tls = tls OBVIOUS
<1>3. \/ exporter' = [at |-> 1, archive |-> a] /\ UNCHANGED archives
      \/ ~tls /\ archives' = archives \union {a} /\ UNCHANGED exporter
  BY <1>1
<1> HIDE DEF a
<1>4. \A b \in archives' : ArchiveSound(b) BY <1>2, <1>3 DEF ArchiveSound
<1>5. \A i \in Issuer : issuer[i] = Idle BY DEF Apart, Careful
<1>6. \A i \in Issuer : issuer'[i].at = "idle" BY <1>5 DEF Idle, certificateVars
<1>7. Exporting'
  <2>1. CASE exporter' = [at |-> 1, archive |-> a]
    <3>1. exporter'.at = 1 BY <2>1
    <3> QED BY <3>1, <1>6 DEF Exporting
  <2>2. CASE UNCHANGED exporter
    <3>1. exporter' = NotExporting BY <2>2 DEF ExportDatabase
    <3> QED BY <3>1 DEF Exporting
  <2> QED BY <2>1, <2>2, <1>3
<1> QED BY <1>4, <1>7 DEF ExportDatabase

LEMMA IdleIsWhole ==
  ASSUME FilesOK, \A i \in Issuer : issuer[i].at = "idle"
  PROVE  Whole(disk)
BY DEF FilesOK, Locked, At

LEMMA ExportFileSound ==
  ASSUME HandlersOK, FilesOK, Exporting, ExportFile, UNCHANGED certificateVars,
         \A a \in archives : ArchiveSound(a)
  PROVE  Exporting' /\ (\A a \in archives' : ArchiveSound(a)) /\ UNCHANGED <<disk, events, certificateVars>>
<1>1. PICK n, a : exporter = [at |-> n, archive |-> a] /\ n \in 1..3 /\ GoodArchive(a)
  BY DEF ExportFile, HandlersOK, ExporterOK
<1> DEFINE f == TLSFiles[n] v == disk[<<"live", f>>] b == [a EXCEPT ![f] = v]
<1>2. exporter.at = n /\ exporter.archive = a BY <1>1
<1>3. \/ n < 3 /\ exporter' = [at |-> n + 1, archive |-> b] /\ UNCHANGED archives
      \/ n = 3 /\ exporter' = NotExporting /\ archives' = archives \union {b}
  <2>1. Len(TLSFiles) = 3 BY DEF TLSFiles
  <2> QED BY <2>1, <1>1, <1>2 DEF ExportFile
<1>4. exporter # NotExporting BY DEF ExportFile
<1>5. /\ \A i \in Issuer : issuer[i].at = "idle"
      /\ n >= 2 => a.cert = disk[<<"live", "cert">>]
      /\ n >= 3 => a.key = disk[<<"live", "key">>]
  BY <1>2, <1>4 DEF Exporting
<1>6. DOMAIN a = {"db", "tls", "cert", "key", "enabled"} BY <1>1 DEF GoodArchive
<1>7. f = IF n = 1 THEN "cert" ELSE IF n = 2 THEN "key" ELSE "enabled"
  <2>1. n = 1 \/ n = 2 \/ n = 3 BY <1>1
  <2> QED BY <2>1 DEF TLSFiles
<1>8. UNCHANGED <<disk, events, certificateVars>> BY DEF ExportFile
<1> HIDE DEF f
<1>9. b.cert = disk[<<"live", "cert">>]
  <2>1. CASE n = 1
    <3>1. f = "cert" BY <2>1, <1>7
    <3> QED BY <3>1, <1>6
  <2>2. CASE n # 1
    <3>1. f # "cert" /\ n >= 2 BY <2>2, <1>1, <1>7
    <3>2. b.cert = a.cert BY <3>1, <1>6
    <3> QED BY <3>1, <3>2, <1>5
  <2> QED BY <2>1, <2>2
<1>10. n >= 2 => b.key = disk[<<"live", "key">>]
  <2>1. CASE n = 2
    <3>1. f = "key" BY <2>1, <1>7
    <3> QED BY <3>1, <1>6
  <2>2. CASE n = 3
    <3>1. f # "key" BY <2>2, <1>7
    <3>2. b.key = a.key BY <3>1, <1>6
    <3> QED BY <3>2, <2>2, <1>5
  <2> QED BY <2>1, <2>2, <1>1
<1> HIDE DEF b
<1>11. Exporting'
  <2>1. CASE n < 3 /\ exporter' = [at |-> n + 1, archive |-> b]
    <3>1. exporter'.at = n + 1 /\ exporter'.archive = b BY <2>1
    <3>2. \A i \in Issuer : issuer'[i].at = "idle" BY <1>5, <1>8 DEF certificateVars
    <3>3. disk' = disk BY <1>8
    <3>4. exporter'.at >= 3 => n >= 2 BY <3>1, <1>1
    <3> QED BY <3>1, <3>2, <3>3, <3>4, <1>9, <1>10 DEF Exporting
  <2>2. CASE exporter' = NotExporting BY <2>2 DEF Exporting
  <2> QED BY <2>1, <2>2, <1>3
<1>12. \A c \in archives' : ArchiveSound(c)
  <2>1. CASE n = 3 /\ archives' = archives \union {b}
    <3>1. Whole(disk) BY <1>5, IdleIsWhole
    <3>2. b.cert = b.key BY <3>1, <2>1, <1>9, <1>10 DEF Whole
    <3>3. ArchiveSound(b) BY <3>2 DEF ArchiveSound, PairOrRefused
    <3> QED BY <3>3, <2>1
  <2>2. CASE UNCHANGED archives BY <2>2
  <2> QED BY <2>1, <2>2, <1>3
<1> QED BY <1>8, <1>11, <1>12

\* The handlers keep the certificates of the files.
LEMMA ActingFiles ==
  ASSUME Careful, HandlersOK, ServingOK(disk), FilesOK, events \in Nat,
         \/ Age \/ HandlerBegins \/ SchedulerChecks
         \/ (\E i \in Issuer :
               \/ IssueBegins(i) \/ IssueEnds(i) \/ BackUp(i) \/ InstallBegins(i)
               \/ RestoreBegins(i) \/ FileWritten(i) \/ FilesWritten(i))
         \/ SettingsSaved \/ Activated \/ SettingDisabled \/ MarkerDisabled
         \/ SettingsRead \/ SettingsWritten
  PROVE  FilesOK'
<1>1. "handler" \in Issuer BY DEF Issuer
<1>2. CASE Age \/ SettingsRead \/ SettingsWritten BY <1>2, SettingsFiles
<1>3. CASE HandlerBegins BY <1>3, HandlerBeginsFiles
<1>4. CASE SchedulerChecks \/ Activated BY <1>1, <1>4, AskingFiles
<1>5. ASSUME NEW i \in Issuer,
             \/ IssueBegins(i) \/ IssueEnds(i) \/ BackUp(i) \/ InstallBegins(i)
             \/ RestoreBegins(i) \/ FileWritten(i) \/ FilesWritten(i)
      PROVE  FilesOK'
  <2>1. CASE IssueBegins(i) \/ IssueEnds(i) BY <2>1, AskingFiles
  <2>2. CASE BackUp(i) BY <2>2, BackUpFiles
  <2>3. CASE InstallBegins(i) \/ RestoreBegins(i) BY <2>3, LockingFiles
  <2>4. CASE FileWritten(i) BY <2>4, FileWrittenFiles
  <2>5. CASE FilesWritten(i) BY <2>5, FilesWrittenFiles
  <2> QED BY <2>1, <2>2, <2>3, <2>4, <2>5, <1>5
<1>6. CASE SettingsSaved BY <1>6, SettingsSavedFiles
<1>7. CASE SettingDisabled BY <1>7, SettingDisabledFiles
<1>8. CASE MarkerDisabled BY <1>8, MarkerDisabledFiles
<1> QED BY <1>2, <1>3, <1>4, <1>5, <1>6, <1>7, <1>8

LEMMA ActingCounts ==
  ASSUME \/ Age \/ HandlerBegins \/ SchedulerChecks
         \/ (\E i \in Issuer :
               \/ IssueBegins(i) \/ IssueEnds(i) \/ BackUp(i) \/ InstallBegins(i)
               \/ RestoreBegins(i) \/ FileWritten(i) \/ FilesWritten(i))
         \/ SettingsSaved \/ Activated \/ SettingDisabled \/ MarkerDisabled
         \/ SettingsRead \/ SettingsWritten
  PROVE  /\ UNCHANGED ages \/ \E c : ages' = [ages EXCEPT ![c] = @ + 1]
         /\ UNCHANGED events \/ Event
<1>1. CASE Age BY <1>1 DEF Age
<1>2. CASE HandlerBegins BY <1>2 DEF HandlerBegins
<1>3. CASE SchedulerChecks BY <1>3 DEF SchedulerChecks
<1>4. ASSUME NEW i \in Issuer,
             \/ IssueBegins(i) \/ IssueEnds(i) \/ BackUp(i) \/ InstallBegins(i)
             \/ RestoreBegins(i) \/ FilesWritten(i)
      PROVE  UNCHANGED ages /\ UNCHANGED events
  BY <1>4 DEF IssueBegins, IssueEnds, BackUp, InstallBegins, RestoreBegins, FilesWritten
<1>5. ASSUME NEW i \in Issuer, FileWritten(i) PROVE UNCHANGED ages /\ (UNCHANGED events \/ Event)
  BY <1>5 DEF FileWritten, Fails, Failure
<1>6. CASE SettingsSaved BY <1>6 DEF SettingsSaved, Failure
<1>7. CASE Activated \/ SettingDisabled \/ MarkerDisabled BY <1>7 DEF Activated, SettingDisabled, MarkerDisabled
<1>8. CASE SettingsRead \/ SettingsWritten BY <1>8 DEF SettingsRead, SettingsWritten
<1> QED BY <1>1, <1>2, <1>3, <1>4, <1>5, <1>6, <1>7, <1>8
LEMMA AgesStay ==
  ASSUME DOMAIN ages = Ours, UNCHANGED ages \/ \E c : ages' = [ages EXCEPT ![c] = @ + 1]
  PROVE  DOMAIN ages' = Ours
OBVIOUS

LEMMA EventsStay ==
  ASSUME events \in Nat, UNCHANGED events \/ Event
  PROVE  events' \in Nat
BY DEF Event

LEMMA TLSHandle ==
  ASSUME Careful, StorageInv, TLSInv, Handle
  PROVE  TLSInv'
<1>1. process.at = "serving" /\ process' = process /\ restored' = restored /\ served' = served
  BY DEF Handle, Main
<1>2. ServingOK(disk) /\ HandlersOK BY <1>1, Placed DEF StorageInv
<1>3. /\ ServedSound(served) /\ DOMAIN ages = Ours /\ events \in Nat
      /\ \A a \in archives : ArchiveSound(a)
      /\ FilesOK /\ Exporting
  BY <1>1 DEF TLSInv
<1>4. /\ FilesOK' /\ Exporting' /\ (\A a \in archives' : ArchiveSound(a))
      /\ (UNCHANGED ages \/ \E c : ages' = [ages EXCEPT ![c] = @ + 1])
      /\ (UNCHANGED events \/ Event)
  <2>1. CASE Apart(TRUE) /\ ExportDatabase /\ UNCHANGED certificateVars
    <3>1. Exporting' /\ (\A a \in archives' : ArchiveSound(a)) /\ UNCHANGED <<disk, events, certificateVars>>
      BY <2>1, <1>3, ExportDatabaseSound
    <3> QED BY <3>1, <1>3, ExportingFiles DEF certificateVars
  <2>2. CASE ExportFile /\ UNCHANGED certificateVars
    <3>1. Exporting' /\ (\A a \in archives' : ArchiveSound(a)) /\ UNCHANGED <<disk, events, certificateVars>>
      BY <2>2, <1>2, <1>3, ExportFileSound
    <3> QED BY <3>1, <1>3, ExportingFiles DEF certificateVars
  <2>3. CASE (\E archive \in archives : StageRestore(archive)) /\ UNCHANGED certificateVars
    <3>1. PICK archive \in archives : StageRestore(archive) BY <2>3
    <3>2. GoodArchive(archive) /\ ArchiveSound(archive) BY <1>2, <1>3 DEF HandlersOK
    <3>3. FilesOK' BY <3>1, <3>2, <2>3, <1>2, <1>3, StagingFiles
    <3>4. exporter' = NotExporting /\ archives' = archives /\ (UNCHANGED events \/ Event)
      BY <3>1 DEF StageRestore
    <3>5. Exporting' BY <3>4 DEF Exporting
    <3> QED BY <3>3, <3>4, <3>5, <2>3, <1>3 DEF certificateVars
  <2>4. CASE /\ Apart(FALSE)
             /\ \/ Age \/ HandlerBegins \/ SchedulerChecks
                \/ (\E i \in Issuer :
                      \/ IssueBegins(i) \/ IssueEnds(i) \/ BackUp(i) \/ InstallBegins(i)
                      \/ RestoreBegins(i) \/ FileWritten(i) \/ FilesWritten(i))
                \/ SettingsSaved \/ Activated \/ SettingDisabled \/ MarkerDisabled
                \/ SettingsRead \/ SettingsWritten
             /\ UNCHANGED restoreVars
    <3>1. FilesOK' BY <2>4, <1>2, <1>3, ActingFiles
    <3>2. exporter' = NotExporting /\ archives' = archives BY <2>4 DEF Apart, Careful, restoreVars
    <3>3. Exporting' BY <3>2 DEF Exporting
    <3>4. /\ UNCHANGED ages \/ \E c : ages' = [ages EXCEPT ![c] = @ + 1]
          /\ UNCHANGED events \/ Event
      BY <2>4, ActingCounts
    <3> QED BY <3>1, <3>2, <3>3, <3>4, <1>3
  <2> QED BY <2>1, <2>2, <2>3, <2>4 DEF Handle
<1>5. DOMAIN ages' = Ours /\ events' \in Nat BY <1>3, <1>4, AgesStay, EventsStay
<1>6. WholeAt(process.at, restored, disk)' BY <1>1 DEF WholeAt
<1>7. process'.at = "serving" BY <1>1
<1> QED BY <1>1, <1>3, <1>4, <1>5, <1>6, <1>7 DEF TLSInv

-----------------------------------------------------------------------------
(* Certificates: the steps of main.                                          *)

LEMMA LostIsQuiet ==
  ASSUME Lost
  PROVE  Quiet' /\ UNCHANGED archives /\ UNCHANGED ages
<1>1. \A i \in Issuer : issuer'[i].at = "idle" BY DEF Lost, Idle
<1> QED BY <1>1 DEF Lost, Quiet

\* Down, with a pair or a marker.
LEMMA TLSDown ==
  ASSUME TLSInv, process'.at = "down", Lost, ServedSound(served'), Marked(disk') \/ Whole(disk'),
         UNCHANGED events \/ Event
  PROVE  TLSInv'
<1>1. Quiet' /\ UNCHANGED archives /\ UNCHANGED ages BY LostIsQuiet
<1>2. WholeAt(process.at, restored, disk)' BY DEF WholeAt
<1>3. events' \in Nat BY EventsStay DEF TLSInv
<1> QED BY <1>1, <1>2, <1>3 DEF TLSInv

\* From one place to another.
LEMMA TLSMain ==
  ASSUME TLSInv, process.at # "serving", process'.at # "serving",
         UNCHANGED <<restoreVars, issuer, settingsRead, ages, served>>, UNCHANGED events \/ Event,
         WholeAt(process'.at, restored', disk')
  PROVE  TLSInv'
<1>1. Quiet /\ Quiet' BY DEF TLSInv, Quiet, restoreVars
<1>2. events' \in Nat BY EventsStay DEF TLSInv
<1> QED BY <1>1, <1>2 DEF TLSInv, restoreVars
LEMMA TLSStart ==
  ASSUME StorageInv, TLSInv, Start
  PROVE  TLSInv'
<1>1. process.at = "down" /\ process' = FirstSteps BY DEF Start, Main
<1>2. UNCHANGED <<disk, events, restoreVars, certificateVars, restored, served>> BY DEF Start
<1>3. Marked(disk) \/ Whole(disk) BY <1>1 DEF TLSInv, WholeAt
<1>4. process'.at \in {"recovering", "applying"} \/ (process'.at = "opening" /\ ~Marked(disk))
  BY <1>1 DEF FirstSteps, Has, Marked
<1>5. WholeAt(process'.at, restored', disk') BY <1>2, <1>3, <1>4 DEF WholeAt
<1> QED BY <1>1, <1>2, <1>4, <1>5, TLSMain DEF certificateVars

LEMMA TLSFileStep ==
  ASSUME StorageInv, TLSInv, FileStep
  PROVE  TLSInv'
<1> DEFINE at == process.at todo == process.todo e == DoneTo(disk, Head(todo))
<1>1. todo # <<>> /\ disk' = e BY DEF FileStep, Performed, Changed, DoneTo
<1>2. process'.at = at BY RunsIs DEF FileStep
<1>3. UNCHANGED <<events, restoreVars, certificateVars, restored, served>> BY DEF FileStep
<1>4. at \in Working /\ at # "serving" BY <1>1, WorkingAt
<1>5. CASE at = "finalizing"
  <2>1. Finalizing(disk, todo) BY <1>5, ByPlaceIs DEF StorageInv
  <2>2. FinalizingStep(Head(todo)) BY <2>1, <1>1, FinalizingRest DEF Finalizing
  <2> DEFINE step == Head(todo)
  <2>3. DOMAIN Only(<<"live", "applied">>, {}) = {<<"live", "applied">>} /\ DOMAIN Removed(In("rollback")) = In("rollback")
    BY OnlyIs, RemovedIs
  <2>4. step.change = Only(<<"live", "applied">>, {}) \/ step.change = Removed(In("rollback"))
    BY <2>2 DEF FinalizingStep
  <2>5. <<"live", "cert">> \notin DOMAIN step.change /\ <<"live", "key">> \notin DOMAIN step.change
    BY <2>3, <2>4, PathFacts
  <2>6. \A p \in Path : e[p] = IF p \in DOMAIN step.change THEN step.change[p] ELSE disk[p] BY DoneIs
  <2> HIDE DEF e, step
  <2>7. e[<<"live", "cert">>] = disk[<<"live", "cert">>] /\ e[<<"live", "key">>] = disk[<<"live", "key">>]
    BY <2>5, <2>6, LivePaths
  <2>8. Whole(disk) BY <1>5 DEF TLSInv, WholeAt
  <2>9. Whole(e) BY <2>7, <2>8 DEF Whole
  <2> QED BY <2>9, <1>1, <1>2, <1>3, <1>5, TLSMain DEF WholeAt, certificateVars
<1>6. CASE at # "finalizing"
  <2>1. at \notin {"listening", "finalizing", "down", "opening", "checking"} BY <1>4, <1>6 DEF Working
  <2>2. WholeAt(process'.at, restored', disk') BY <2>1, <1>2 DEF WholeAt
  <2> QED BY <2>2, <1>2, <1>3, <1>4, TLSMain DEF certificateVars
<1> QED BY <1>5, <1>6

LEMMA TLSFileStepFails ==
  ASSUME Careful, StorageInv, TLSInv, FileStepFails
  PROVE  TLSInv'
<1> DEFINE at == process.at todo == process.todo step == Head(todo)
<1>1. todo # <<>> /\ Fails(step) /\ process' = AfterFailure(step) /\ disk' = disk /\ served' = served
  BY DEF FileStepFails
<1>2. at \in Working /\ at # "serving" BY <1>1, WorkingAt
<1>3. InPlace(at, todo, restored, disk, served) /\ Spared BY DEF StorageInv, Careful
<1>4. UNCHANGED events \/ Event BY <1>1 DEF Fails, Failure
<1>5. process'.at \in {at, "undoing", "down"} BY <1>1 DEF AfterFailure, Main
<1>6. process'.at = "down" => Lost BY DEF FileStepFails
<1>7. process'.at # "down" => UNCHANGED <<restoreVars, certificateVars, restored>> BY DEF FileStepFails
<1>8. WholeAt(at, restored, disk) /\ ServedSound(served) BY DEF TLSInv
<1>9. process'.at = "down" /\ at \in {"recovering", "undoing", "reverting"} => CleaningStep(at, step)
  <2>1. ASSUME process'.at = "down", at \in {"recovering", "undoing", "reverting"} PROVE CleaningStep(at, step)
    <3>1. Rolling(at, disk, served, todo) BY <2>1, <1>3, ByPlaceIs
    <3>2. RollingStep(step) \/ CleaningStep(at, step) BY <3>1, <1>1, RollingRest DEF Rolling
    <3>3. step.can BY <3>2 DEF RollingStep, CleaningStep
    <3>4. step.part \notin {"rollingBack", "copyingTLS"} BY <3>3, <1>1, <1>3, FailureIs
    <3> QED BY <3>2, <3>4 DEF RollingStep
  <2> QED BY <2>1
<1> HIDE DEF at, todo, step
<1>10. CASE process'.at = "down"
  <2>1. Marked(disk) \/ Whole(disk) BY <1>2, <1>3, <1>8, <1>9, <1>10, DownWhole DEF step
  <2> QED BY <2>1, <1>1, <1>4, <1>6, <1>8, <1>10, TLSDown
<1>11. CASE process'.at # "down"
  <2>1. WholeAt(process'.at, restored', disk')
    <3>1. CASE process'.at = at BY <3>1, <1>1, <1>7, <1>8, <1>11
    <3>2. CASE process'.at = "undoing" BY <3>2 DEF WholeAt
    <3> QED BY <3>1, <3>2, <1>5, <1>11
  <2>2. process'.at # "serving" BY <1>2, <1>5
  <2> QED BY <2>1, <2>2, <1>1, <1>2, <1>4, <1>7, <1>11, TLSMain DEF certificateVars, at
<1> QED BY <1>10, <1>11

LEMMA TLSFileStepsDone ==
  ASSUME StorageInv, TLSInv, FileStepsDone
  PROVE  TLSInv'
<1>1. process.todo = <<>> /\ UNCHANGED <<disk, events, restoreVars, certificateVars, served>> BY DEF FileStepsDone
<1>2. InPlace(process.at, process.todo, restored, disk, served) BY DEF StorageInv
<1>3. ServedSound(served) BY DEF TLSInv
<1>4. CASE process.at = "recovering"
  <2>1. process'.at = "opening" BY <1>4, RunsIs DEF FileStepsDone, Main
  <2>2. DiskOld(disk, served) BY <1>1, <1>2, <1>4, ByPlaceIs, RollingEnds
  <2>3. Whole(disk') BY <2>2, <1>1, <1>3, OldSound
  <2>4. WholeAt(process'.at, restored', disk') BY <2>1, <2>3 DEF WholeAt
  <2> QED BY <2>1, <2>4, <1>1, <1>4, TLSMain DEF certificateVars
<1>5. CASE process.at = "reverting"
  <2>1. process'.at = "reopening" BY <1>5, RunsIs DEF FileStepsDone, Main
  <2>2. WholeAt(process'.at, restored', disk') BY <2>1 DEF WholeAt
  <2> QED BY <2>1, <2>2, <1>1, <1>5, TLSMain DEF certificateVars
<1>6. CASE process.at = "applying"
  <2>1. process'.at = "opening" /\ restored' = TRUE BY <1>6, RunsIs DEF FileStepsDone, Main
  <2>2. Applying(disk, served, <<>>) BY <1>1, <1>2, <1>6, ByPlaceIs
  <2>3. Marked(disk') /\ LiveSound(disk') BY <2>2, <1>1, <1>3, AppliedSound
  <2>4. WholeAt(process'.at, restored', disk') BY <2>1, <2>3 DEF WholeAt
  <2> QED BY <2>1, <2>4, <1>1, <1>6, TLSMain DEF certificateVars
<1> QED BY <1>4, <1>5, <1>6 DEF FileStepsDone, Main

\* The exits of the start.
LEMMA TLSGoesDown ==
  ASSUME StorageInv, TLSInv, Down, UNCHANGED disk, UNCHANGED events \/ Event, process.at # "serving",
         process.at \in {"recovering", "undoing", "reverting"} => process.todo = <<>>
  PROVE  TLSInv'
<1>1. process'.at = "down" /\ Lost /\ served' = served BY RunsIs DEF Down
<1>2. InPlace(process.at, process.todo, restored, disk, served) BY DEF StorageInv
<1>3. WholeAt(process.at, restored, disk) /\ ServedSound(served) BY DEF TLSInv
<1>4. Marked(disk) \/ Whole(disk) BY <1>2, <1>3, DownWhole
<1> QED BY <1>1, <1>3, <1>4, TLSDown

LEMMA TLSOpenDB ==
  ASSUME StorageInv, TLSInv, OpenDB
  PROVE  TLSInv'
<1> DEFINE pd == <<"live", "db">> pw == <<"live", "wal">> e == disk' s == served
<1>1. process.at \in {"opening", "reopening"} /\ process'.at = "checking" BY RunsIs DEF OpenDB
<1>2. UNCHANGED <<events, restoreVars, certificateVars, restored, served>> BY DEF OpenDB
<1>3. InPlace(process.at, process.todo, restored, disk, s) BY DEF StorageInv
<1>4. IsDisk(disk) /\ restored \in BOOLEAN BY <1>3, PlacedDisk
<1>5. Settled(disk, s) \/ Replaced(disk, s) \/ DiskOld(disk, s) BY <1>1, <1>3, ByPlaceIs
<1>6. PICK x : disk[pd] = {x} BY <1>5, FoundAt
<1>7. e = [disk EXCEPT ![pd] = {x}, ![pw] = {x.id}]
  <2>1. Has("live", "db") /\ DB = x BY <1>6, DBIs DEF Has
  <2> QED BY <2>1 DEF OpenDB
<1>8. pd # pw /\ pd \in Path /\ pw \in Path BY LivePaths
<1>9. /\ <<"live", "cert">> # pd /\ <<"live", "key">> # pd /\ <<"live", "applied">> # pd
      /\ <<"live", "cert">> # pw /\ <<"live", "key">> # pw /\ <<"live", "applied">> # pw
      /\ <<"live", "cert">> \in Path /\ <<"live", "key">> \in Path /\ <<"live", "applied">> \in Path
  BY LivePaths
<1> HIDE DEF pd, pw, e, s
<1>10. e[pd] = {x} /\ \A p \in Path : p # pd /\ p # pw => e[p] = disk[p] BY <1>4, <1>7, <1>8 DEF IsDisk
<1>11. FilesStay(disk, e) /\ e[<<"live", "applied">>] = disk[<<"live", "applied">>]
  BY <1>9, <1>10 DEF FilesStay
<1>12. Whole(disk) \/ (restored /\ Marked(disk) /\ LiveSound(disk))
  <2>1. CASE process.at = "opening" BY <2>1 DEF TLSInv, WholeAt
  <2>2. CASE process.at = "reopening"
    <3>1. DiskOld(disk, served) BY <2>2, <1>3, ByPlaceIs DEF s
    <3> QED BY <3>1, OldSound DEF TLSInv
  <2> QED BY <2>1, <2>2, <1>1
<1>13. Whole(e) \/ (restored' /\ Marked(e) /\ LiveSound(e))
  <2>1. e[pd] = disk[pd] BY <1>6, <1>10
  <2> QED BY <2>1, <1>2, <1>11, <1>12 DEF Whole, FilesStay, Marked, LiveSound, pd
<1>14. WholeAt(process'.at, restored', disk') BY <1>1, <1>13 DEF WholeAt, e
<1> QED BY <1>1, <1>2, <1>14, TLSMain DEF certificateVars

LEMMA TLSOpenDBFails ==
  ASSUME StorageInv, TLSInv, OpenDBFails
  PROVE  TLSInv'
<1>1. process.at \in {"opening", "reopening"} /\ disk' = disk /\ (UNCHANGED events \/ Event) BY DEF OpenDBFails
<1>2. CASE restored /\ process.at = "opening"
  <2>1. process'.at = "reverting" /\ UNCHANGED <<restoreVars, certificateVars, restored, served>>
    BY <1>2, RunsIs DEF OpenDBFails, Main
  <2>2. WholeAt(process'.at, restored', disk') BY <2>1 DEF WholeAt
  <2> QED BY <2>1, <2>2, <1>1, TLSMain DEF certificateVars
<1>3. CASE ~(restored /\ process.at = "opening")
  <2>1. Down BY <1>3 DEF OpenDBFails, Main
  <2> QED BY <2>1, <1>1, TLSGoesDown
<1> QED BY <1>2, <1>3
\* A certificate of another server does not expire before it is looked at.
LEMMA OthersLast ==
  ASSUME DOMAIN ages = Ours, disk[<<"live", "cert">>] \cap Ours = {}
  PROVE  ~Expired
<1>1. ASSUME Has("live", "cert") PROVE AgeOf("cert") = 0
  <2>1. The("live", "cert") \in disk[<<"live", "cert">>] BY <1>1 DEF Has, The
  <2>2. The("live", "cert") \notin DOMAIN ages BY <2>1
  <2> QED BY <2>2 DEF AgeOf
<1> QED BY <1>1 DEF Expired

LEMMA TLSCheckTLS ==
  ASSUME StorageInv, TLSInv, CheckTLS
  PROVE  TLSInv'
<1> DEFINE pd == <<"live", "db">> pe == <<"live", "enabled">> e == disk'
           pc == <<"live", "cert">> pk == <<"live", "key">>
<1>1. process.at = "checking" BY DEF CheckTLS, Main
<1>2. InPlace(process.at, process.todo, restored, disk, served) BY DEF StorageInv
<1>3. IsDisk(disk) /\ Opened(disk) BY <1>1, <1>2, PlacedDisk, ByPlaceIs
<1>4. CASE Down /\ UNCHANGED <<disk, events>>
  <2>1. process.at # "serving" /\ process.at \notin {"recovering", "undoing", "reverting"} BY <1>1
  <2> QED BY <2>1, <1>4, TLSGoesDown
<1>5. CASE ~(Down /\ UNCHANGED <<disk, events>>)
  <2>1. /\ Runs("listening", <<>>)
        /\ UNCHANGED <<events, restoreVars, issuer, settingsRead, ages, restored, served>>
        /\ ~(DB.tls /\ ~Expired /\ ~Pair)
    BY <1>5 DEF CheckTLS
  <2>2. process'.at = "listening" BY <2>1, RunsIs
  <2>3. PICK x : Good(x) /\ disk[pd] = {x} BY <1>3 DEF Opened
  <2>4. PICK y : /\ Good(y) /\ y.id = x.id /\ y.acme = x.acme /\ (y.tls => x.tls)
                 /\ IsDisk(e) /\ e[pd] = {y}
                 /\ \A p \in Path : p # pd /\ p # pe => e[p] = disk[p]
                 /\ y.tls => disk[pc] # {} /\ disk[pc] = disk[pk]
    BY <2>2, <2>3, <1>3, CheckedIs
  <2>5. pc \in Path /\ pk \in Path /\ pc # pd /\ pc # pe /\ pk # pd /\ pk # pe BY LivePaths
  <2> HIDE DEF pd, pe, pc, pk, e
  <2>6. e[pc] = disk[pc] /\ e[pk] = disk[pk] BY <2>4, <2>5
  <2>7. disk[pc] = disk[pk]
    <3>1. CASE Whole(disk) BY <3>1 DEF Whole, pc, pk
    <3>2. CASE LiveSound(disk)
      <4>1. PairOrRefused(x.tls, disk[pc], disk[pk]) BY <3>2, <2>3 DEF LiveSound, pd, pc, pk
      <4>2. ASSUME x.tls, disk[pc] \cap Ours = {} PROVE disk[pc] = disk[pk]
        <5>1. DB = x BY <2>3, DBIs DEF pd
        <5>2. ~Expired BY <4>2, OthersLast DEF TLSInv, pc
        <5>3. Pair BY <5>1, <5>2, <4>2, <2>1
        <5> QED BY <5>3 DEF Pair, pc, pk
      <4> QED BY <4>1, <4>2 DEF PairOrRefused
    <3> QED BY <3>1, <3>2, <1>1 DEF TLSInv, WholeAt
  <2>8. Whole(e) BY <2>6, <2>7 DEF Whole, pc, pk
  <2>9. WholeAt(process'.at, restored', disk') BY <2>2, <2>8 DEF WholeAt, e
  <2> QED BY <1>1, <2>1, <2>2, <2>9, TLSMain
<1> QED BY <1>4, <1>5

LEMMA TLSListen ==
  ASSUME TLSInv, Listen
  PROVE  TLSInv'
<1>1. process.at = "listening" /\ process'.at = "finalizing" BY RunsIs DEF Listen, Main
<1>2. UNCHANGED <<disk, events, restoreVars, certificateVars, restored, served>> BY DEF Listen
<1>3. WholeAt(process'.at, restored', disk') BY <1>1, <1>2 DEF WholeAt, TLSInv
<1> QED BY <1>1, <1>2, <1>3, TLSMain DEF certificateVars

LEMMA TLSEnds ==
  ASSUME StorageInv, TLSInv, Undone \/ Fatal
  PROVE  TLSInv'
<1>1. CASE Undone
  <2>1. process.at = "undoing" /\ process.todo = <<>> /\ Down /\ UNCHANGED <<disk, events>>
    BY <1>1 DEF Undone, Main
  <2> QED BY <2>1, TLSGoesDown
<1>2. CASE Fatal
  <2>1. process.at \in {"checking", "listening"} /\ Down /\ UNCHANGED disk /\ Event BY <1>2 DEF Fatal
  <2>2. process.at # "serving" /\ process.at \notin {"recovering", "undoing", "reverting"} BY <2>1
  <2> QED BY <2>1, <2>2, TLSGoesDown
<1> QED BY <1>1, <1>2

\* A panel begins to serve with a pair in place wherever its settings ask for one.
LEMMA TLSServe ==
  ASSUME StorageInv, TLSInv, Serve
  PROVE  TLSInv'
<1>1. process.at = "finalizing" /\ process'.at = "serving" BY RunsIs DEF Serve, Main
<1>2. UNCHANGED <<disk, events, restoreVars, certificateVars, served>> BY DEF Serve
<1>3. InPlace(process.at, process.todo, restored, disk, served) BY DEF StorageInv
<1>4. /\ ServedSound(served) /\ DOMAIN ages = Ours /\ events \in Nat
      /\ \A a \in archives : ArchiveSound(a)
      /\ Whole(disk) /\ Quiet
  BY <1>1 DEF TLSInv, WholeAt
<1>5. Paired(disk)
  <2>1. Settled(disk, served) \/ (Replaced(disk, served) /\ Paired(disk)) BY <1>1, <1>3, ByPlaceIs
  <2> QED BY <2>1, <1>4, OldSound DEF Settled
<1>6. PendingSound(disk)
  <2>1. PendingKept(disk, served) BY <1>1, <1>3, PlacedPending
  <2> QED BY <2>1, <1>4, PendingSoundKept DEF ServedSound
<1>7. Quiet' BY <1>2, <1>4 DEF Quiet, certificateVars, restoreVars
<1>8. \A i \in Issuer : issuer'[i].at = "idle" BY <1>7 DEF Quiet
<1>9. "handler" \in Issuer /\ "scheduler" \in Issuer BY DEF Issuer
<1>10. Asked' \/ At("handler", "saving")' => disk'[<<"live", "cert">>] # {}
  <2>1. ~At("handler", "saving")' BY <1>8, <1>9 DEF At
  <2>2. Asked' => \E x \in disk[<<"live", "db">>] : x.tls BY <1>2, <1>7, <1>8, <1>9 DEF Asked, Quiet
  <2> QED BY <2>1, <2>2, <1>2, <1>5 DEF Paired
<1>11. FilesOK' BY <1>2, <1>4, <1>6, <1>8, <1>10 DEF FilesOK, Holding, Keeping
<1>12. Exporting' BY <1>7 DEF Exporting, Quiet
<1>13. WholeAt(process.at, restored, disk)' BY <1>1 DEF WholeAt
<1> QED BY <1>1, <1>2, <1>4, <1>11, <1>12, <1>13 DEF TLSInv, certificateVars, restoreVars

\* What a serving panel leaves, however it ends.
LEMMA ServingSound ==
  ASSUME Careful, TLSInv, process.at = "serving", ~Uncrashable
  PROVE  ServedSound(disk)
<1>1. FilesOK BY DEF TLSInv
<1>2. ~Locked BY DEF Careful, Uncrashable, Locked
<1>3. \A i \in Issuer : ~At(i, "undoing") BY DEF Careful, Uncrashable
<1>4. Whole(disk) BY <1>1, <1>2, <1>3 DEF FilesOK
<1>5. Paired(disk)
  <2>1. (\E x \in disk[<<"live", "db">>] : x.tls) => disk[<<"live", "cert">>] # {}
    BY <1>1 DEF FilesOK, Asked
  <2> QED BY <2>1, <1>4 DEF Paired, Whole
<1> QED BY <1>1, <1>4, <1>5 DEF ServedSound, FilesOK

LEMMA TLSRestart ==
  ASSUME Careful, StorageInv, TLSInv, Restart
  PROVE  TLSInv'
<1> DEFINE pw == <<"live", "wal">> e == disk'
<1>1. process.at = "serving" /\ ~Uncrashable /\ process'.at = "down" /\ Lost /\ UNCHANGED events
  BY RunsIs DEF Restart, Main
<1>2. e = [disk EXCEPT ![pw] = {}] /\ served' = e BY DEF Restart
<1>3. IsDisk(disk) BY PlacedDisk DEF StorageInv
<1>4. ServedSound(disk) BY <1>1, ServingSound
<1>5. "wal" \in File BY DEF File
<1>6. \A p \in Path : p # pw => e[p] = disk[p]
  <2> DEFINE g == [disk EXCEPT ![pw] = {}]
  <2>1. \A p \in Path : p # pw => g[p] = disk[p] BY <1>3, <1>5, SetFile
  <2>2. e = g BY <1>2
  <2> HIDE DEF e, g
  <2> QED BY <2>1, <2>2
<1>7. /\ <<"live", "db">> \in Path /\ <<"live", "db">> # pw
      /\ <<"live", "cert">> \in Path /\ <<"live", "cert">> # pw
      /\ <<"live", "key">> \in Path /\ <<"live", "key">> # pw
      /\ \A p \in In("pending") : p \in Path /\ p # pw
  BY LivePaths, PathFacts
<1>8. /\ <<"pending", "db">> \in In("pending") /\ <<"pending", "restore.json">> \in In("pending")
      /\ <<"pending", "cert">> \in In("pending") /\ <<"pending", "key">> \in In("pending")
  BY DEF In, File
<1> HIDE DEF e, pw
<1>9. /\ e[<<"live", "db">>] = disk[<<"live", "db">>]
      /\ e[<<"live", "cert">>] = disk[<<"live", "cert">>] /\ e[<<"live", "key">>] = disk[<<"live", "key">>]
  BY <1>6, <1>7
<1>10. \A p \in In("pending") : e[p] = disk[p] BY <1>6, <1>7
<1>11. PendingSound(e) BY <1>4, <1>8, <1>10 DEF PendingSound, ServedSound
<1>12. Whole(e) /\ Paired(e) BY <1>4, <1>9 DEF Whole, Paired, ServedSound
<1>13. ServedSound(served') BY <1>2, <1>11, <1>12 DEF ServedSound
<1> QED BY <1>1, <1>12, <1>13, TLSDown DEF e

LEMMA TLSCrash ==
  ASSUME Careful, StorageInv, TLSInv, Crash
  PROVE  TLSInv'
<1>1. /\ process'.at = "down" /\ disk' = disk /\ Lost /\ Event
      /\ process.at # "down" /\ ~Uncrashable
  BY RunsIs DEF Crash, Main
<1>2. InPlace(process.at, process.todo, restored, disk, served) /\ Spared BY DEF StorageInv, Careful
<1>3. CASE process.at = "serving"
  <2>1. served' = disk BY <1>3 DEF Crash, Main
  <2>2. ServedSound(disk) BY <1>1, <1>3, ServingSound
  <2>3. Whole(disk) BY <2>2 DEF ServedSound
  <2> QED BY <2>1, <2>2, <2>3, <1>1, TLSDown
<1>4. CASE process.at # "serving"
  <2>1. served' = served BY <1>4 DEF Crash, Main
  <2>2. ASSUME process.at \in {"recovering", "undoing", "reverting"}
        PROVE  process.todo = <<>> \/ CleaningStep(process.at, Head(process.todo))
    <3>1. ASSUME process.todo # <<>> PROVE CleaningStep(process.at, Head(process.todo))
      <4>1. Rolling(process.at, disk, served, process.todo) BY <2>2, <1>2, ByPlaceIs
      <4>2. RollingStep(Head(process.todo)) \/ CleaningStep(process.at, Head(process.todo))
        BY <4>1, <3>1, RollingRest DEF Rolling
      <4>3. Head(process.todo).part # "rollingBack" BY <3>1, <1>1, <1>2 DEF Uncrashable, Spared
      <4> QED BY <4>2, <4>3 DEF RollingStep
    <3> QED BY <3>1
  <2>3. WholeAt(process.at, restored, disk) /\ ServedSound(served) BY DEF TLSInv
  <2>4. Marked(disk) \/ Whole(disk) BY <2>2, <2>3, <1>2, <1>4, DownWhole
  <2> QED BY <2>1, <2>3, <2>4, <1>1, TLSDown
<1> QED BY <1>3, <1>4

LEMMA TLSInit ==
  ASSUME PairsGiven, Init
  PROVE  TLSInv
<1>1. PICK i \in Installation : disk = Fresh(i) /\ served = Fresh(i) BY DEF Init
<1>2. i.cert = i.key /\ (i.db.tls => i.cert # {}) BY DEF PairsGiven
<1>3. disk = served BY <1>1
<1>4. /\ disk[<<"live", "db">>] = {i.db}
      /\ disk[<<"live", "cert">>] = i.cert /\ disk[<<"live", "key">>] = i.key
      /\ disk[<<"pending", "db">>] = {}
  BY <1>1 DEF Fresh, Path, Directory, File
<1>5. ServedSound(disk) BY <1>2, <1>4 DEF ServedSound, Whole, Paired, PendingSound
<1>6. /\ DOMAIN ages = Ours /\ events \in Nat /\ process.at = "down"
      /\ issuer = [k \in Issuer |-> Idle] /\ settingsRead = {} /\ exporter = NotExporting
      /\ \A a \in archives : ArchiveSound(a)
  BY DEF Init, RestoreInit, CertificateInit, Ours, PairsGiven
<1>7. Quiet BY <1>6 DEF Quiet, Idle
<1>8. WholeAt(process.at, restored, disk) BY <1>5, <1>6 DEF WholeAt, ServedSound
<1> QED BY <1>3, <1>5, <1>6, <1>7, <1>8 DEF TLSInv
-----------------------------------------------------------------------------
(* The theorem about certificates.                                           *)

LEMMA TLSNext ==
  ASSUME Careful, StorageInv, TLSInv, [Next]_vars
  PROVE  TLSInv'
<1>1. CASE Start BY <1>1, TLSStart
<1>2. CASE FileStep BY <1>2, TLSFileStep
<1>3. CASE FileStepsDone BY <1>3, TLSFileStepsDone
<1>4. CASE Undone \/ Fatal BY <1>4, TLSEnds
<1>5. CASE OpenDB BY <1>5, TLSOpenDB
<1>6. CASE CheckTLS BY <1>6, TLSCheckTLS
<1>7. CASE Listen BY <1>7, TLSListen
<1>8. CASE Serve BY <1>8, TLSServe
<1>9. CASE FileStepFails BY <1>9, TLSFileStepFails
<1>10. CASE OpenDBFails BY <1>10, TLSOpenDBFails
<1>11. CASE Handle BY <1>11, TLSHandle
<1>12. CASE Restart BY <1>12, TLSRestart
<1>13. CASE Crash BY <1>13, TLSCrash
<1>14. CASE UNCHANGED vars
  <2>1. UNCHANGED <<disk, events, archives, exporter, issuer, settingsRead, ages, process, restored, served>>
    BY <1>14 DEF vars, restoreVars, certificateVars
  <2>2. Quiet' <=> Quiet BY <2>1 DEF Quiet
  <2>3. Asked' <=> Asked BY <2>1 DEF Asked
  <2>4. Over => Over' BY <2>1, OverStays
  <2>5. FilesStay(disk, disk') /\ (\A j \in Issuer : Moves(j)) BY <2>1 DEF FilesStay, Moves
  <2>6. FilesOK => FilesOK'
    <3>1. ASSUME FilesOK PROVE FilesOK'
      <4>1. PendingSound(disk') BY <3>1, <2>1 DEF FilesOK
      <4> QED BY <3>1, <4>1, <2>3, <2>4, <2>5, FilesStep
    <3> QED BY <3>1
  <2>7. Exporting => Exporting' BY <2>1 DEF Exporting
  <2> QED BY <2>1, <2>2, <2>6, <2>7 DEF TLSInv
<1> QED BY <1>1, <1>2, <1>3, <1>4, <1>5, <1>6, <1>7, <1>8, <1>9, <1>10, <1>11, <1>12, <1>13, <1>14
        DEF Next, Boot

\* Wherever an interruption leaves the panel, what the next start finds, or
\* rolls back to, can be started (backup_restore.go:899-901): a database with no
\* log but its own, and, where its settings ask for TLS, a certificate and key
\* that belong together. For any installations and uploads that begin with
\* pairs (an uploaded certificate that is not of its key is refused by the next
\* start, and rolled back), any number of certificates, restores and exports,
\* and the crashes and failures Careful allows: through applyPendingRestore and
\* finalizeAppliedRestore, the installation of a certificate and
\* restoreInstalledFiles, for the administrator and for the renewal at the same
\* time, and the settings that ask for TLS or give it up.
THEOREM PanelIsRecoverable ==
  ASSUME Careful, PairsGiven
  PROVE  Spec => []Recoverable
<1>1. Init => StorageInv /\ TLSInv BY InitHolds, TLSInit
<1>2. StorageInv /\ TLSInv /\ [Next]_vars => (StorageInv /\ TLSInv)'
  <2>1. Spared BY DEF Careful
  <2> QED BY <2>1, NextKeeps, TLSNext
<1>3. StorageInv /\ TLSInv => Recoverable
  <2>1. ASSUME StorageInv, TLSInv, process.at = "down"
        PROVE  /\ Kept(disk, "db") # {}
               /\ \A db \in Kept(disk, "db") :
                    /\ Kept(disk, "wal") \subseteq {db.id}
                    /\ db.tls => Kept(disk, "cert") # {} /\ Kept(disk, "cert") = Kept(disk, "key")
    <3>1. Settled(disk, served) \/ (Marked(disk) /\ DiskStored(disk, served))
      BY <2>1, ByPlaceIs DEF StorageInv
    <3>2. ServedSound(served) BY <2>1 DEF TLSInv
    <3> QED BY <3>1, <3>2, DownRecoverable
  <2> QED BY <2>1 DEF Recoverable, Main
<1> QED BY <1>1, <1>2, <1>3, PTL DEF Spec
=============================================================================
