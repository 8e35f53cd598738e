------------------------------ MODULE PanelDisk ------------------------------
(* The files the panel keeps beside its database, and the steps that change  *)
(* them. A file is the set of what it holds, empty if there is none:         *)
(*                                                                           *)
(*   live       db, wal (the -wal and -shm files together), the TLS files    *)
(*              cert, key and enabled, and applied, the marker of a restore  *)
(*   pending    db, the TLS files and restore.json of the staged restore     *)
(*   rollback   db, wal, the TLS files and restore.json of what it replaces  *)
(*                                                                           *)
(* A database is a record: id says whose data it holds, tls its TLSEnabled,  *)
(* headers and acme which server's keys its stored secrets are encrypted     *)
(* with (acme may hold no token). A log file holds the id of its database. A *)
(* certificate and its key hold one number. The ACME account keys are left   *)
(* out: they are copied like the TLS files, and nothing depends on them.     *)
EXTENDS Naturals, Sequences, FiniteSets

CONSTANTS
  MaxEvent,       \* bound on crashes, failures and fatal starts
  NoCrashIn,      \* the parts of operations during which the process does not die
  NoFailureIn     \* the parts whose steps do not fail

ASSUME EventAssumption ==
  /\ MaxEvent \in Nat
  /\ NoCrashIn \subseteq {"rollingBack", "installing", "restoring"}
  /\ NoFailureIn \subseteq {"rollingBack", "copyingTLS", "installing", "restoring", "readBack"}

VARIABLES
  disk,           \* the files: survives a crash
  events          \* how many there were so far

Directory == {"live", "pending", "rollback"}
File == {"db", "wal", "cert", "key", "enabled", "restore.json", "applied"}
TLSFiles == <<"cert", "key", "enabled">>
Path == Directory \X File
In(dir) == {dir} \X File

Here == "here"                  \* the keys of this server
NoToken == "none"

\* What a file holds.
The(dir, f) == CHOOSE x \in disk[<<dir, f>>] : TRUE
Has(dir, f) == disk[<<dir, f>>] # {}
Exists(dir) == \E p \in In(dir) : disk[p] # {}
DB == The("live", "db")

Event == events < MaxEvent /\ events' = events + 1

-----------------------------------------------------------------------------
(* A step that changes files: which part of which operation it belongs to,   *)
(* the files it changes, whether its error is returned (must) or dropped,    *)
(* and whether it can succeed at all. The files an operation reads are not   *)
(* written by its other steps, so that all of them are known at its start.   *)

Step(part, change) == [part |-> part, change |-> change, must |-> TRUE, can |-> TRUE]
Optional(step) == [step EXCEPT !.must = FALSE]

\* The change to one file, and the removal of some.
Only(path, content) == [p \in {path} |-> content]
Removed(paths) == [p \in paths |-> {}]
Remove(part, dir, f) == Step(part, Only(<<dir, f>>, {}))
RemoveAll(part, dir) == Step(part, Removed(In(dir)))
Write(part, f, content) == Step(part, Only(<<"live", f>>, content))
\* What is not there is not copied.
Copy(part, from, to, f) ==
  Step(part, IF Has(from, f) THEN Only(<<to, f>>, disk[<<from, f>>]) ELSE Removed({}))
\* os.Rename fails without its source.
Move(part, from, to, f) ==
  [Step(part, [p \in {<<to, f>>, <<from, f>>} |-> IF p[1] = to THEN disk[<<from, f>>] ELSE {}])
     EXCEPT !.can = Has(from, f)]
MoveIfPresent(part, from, to, f) ==
  IF Has(from, f) THEN Move(part, from, to, f) ELSE Step(part, Removed({}))

\* One step for each TLS file.
RemoveTLS(part, dir) == [i \in 1..Len(TLSFiles) |-> Remove(part, dir, TLSFiles[i])]
CopyTLS(part, from, to) == [i \in 1..Len(TLSFiles) |-> Copy(part, from, to, TLSFiles[i])]

Changed(change) == [p \in Path |-> IF p \in DOMAIN change THEN change[p] ELSE disk[p]]
Performed(step) == disk' = Changed(step.change)
Failure(part) == part \notin NoFailureIn /\ Event
Fails(step) == IF step.can THEN Failure(step.part) ELSE UNCHANGED events
=============================================================================
