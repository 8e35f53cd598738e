-------------------------- MODULE UpstreamFailover --------------------------
(* The failover transport of one site: a primary line and its backups, the   *)
(* process-local memory of which line works (upstreamFailoverState), and     *)
(* requests that read that memory under its lock, go upstream without it and *)
(* write back what they learnt when the answer comes.  Other requests, and   *)
(* the clock, move in between.                                               *)
(*                                                                           *)
(* A deadline of the code is kept as the time left until it: the code only   *)
(* ever asks whether a deadline is After(now).                               *)
EXTENDS Naturals, FiniteSets

CONSTANTS
  NumTargets,         \* lines of the site, the primary first
  Request,            \* requests that may be in flight at once
  Cooldown,           \* failoverCooldown, in ticks
  PreferredLifetime   \* failoverPreferredLifetime, in ticks

\* The transport is only installed for a site with a backup line.
ASSUME LinesAssumption == NumTargets \in Nat /\ NumTargets >= 2
ASSUME TimesAssumption ==
  /\ Cooldown \in Nat \ {0}
  /\ PreferredLifetime \in Nat \ {0}

Target == 1..NumTargets
Primary == 1
None == 0

VARIABLES
  preferred,      \* the line that answered last, or None
  preferredLeft,  \* how long it stays preferred
  cooling,        \* per line: how long its last failure keeps it at the back
  probeLeft,      \* how long until another request may probe the primary
  request         \* per request: its plan and how far it got

failoverVars == <<preferred, preferredLeft, cooling, probeLeft, request>>

\* GET, HEAD and a PlaybackInfo POST whose body was buffered may be sent to
\* several lines; a GET with a body is eligible too but cannot be cloned; the
\* rest (writes, upgrades) are sent once.
Kind == {"replayable", "unclonable", "write"}
\* Mutant: every request may be replayed.
Eligible_WritesToo(kind) == kind \in Kind

Eligible(kind) == kind # "write"

\* "failed" is a retryable status or a transport error handed to the client,
\* "refused" a request the transport could not clone for the next line.
Phase == {"idle", "sending", "answered", "failed", "cancelled", "refused"}

-----------------------------------------------------------------------------
(* The order in which a request will try the lines.                          *)

Live == IF preferredLeft > 0 THEN preferred ELSE None

\* Mutant: the primary is never probed.
ProbeDue_Never == FALSE

\* One request is let through to a primary that is no longer cooling while a
\* backup is preferred.
ProbeDue ==
  /\ Live \notin {None, Primary}
  /\ cooling[Primary] = 0
  /\ probeLeft = 0

\* 0 the preferred or probed lines, 1 the healthy ones, 2 the cooling ones.
Class(t) ==
  IF (ProbeDue /\ t = Primary) \/ (t = Live /\ cooling[t] = 0) THEN 0
  ELSE IF cooling[t] = 0 THEN 1 ELSE 2

\* Within a class the configured order decides.
IsNext(t, class, S) ==
  /\ t \in S
  /\ \A u \in S : \/ class[t] < class[u]
                  \/ class[t] = class[u] /\ t <= u

-----------------------------------------------------------------------------
(* What an answer does to the memory.                                        *)

\* Mutant: the preference survives a failure of the line.
MarkFailure_KeepsPreferred(t) ==
  /\ cooling' = [cooling EXCEPT ![t] = Cooldown]
  /\ probeLeft' = Cooldown
  /\ UNCHANGED <<preferred, preferredLeft>>

MarkFailure(t) ==
  /\ cooling' = [cooling EXCEPT ![t] = Cooldown]
  /\ probeLeft' = Cooldown
  /\ preferred' = IF preferred = t THEN None ELSE preferred
  /\ preferredLeft' = IF preferred = t THEN 0 ELSE preferredLeft

MarkSuccess(t) ==
  /\ cooling' = [cooling EXCEPT ![t] = 0]
  /\ probeLeft' = 0
  /\ preferred' = t
  /\ preferredLeft' = PreferredLifetime

NoMark == UNCHANGED <<preferred, preferredLeft, cooling, probeLeft>>

-----------------------------------------------------------------------------
NoClass == [t \in Target |-> 0]
Fresh == [phase |-> "idle", kind |-> "write", class |-> NoClass,
          tried |-> {}, at |-> Primary]

FailoverInit ==
  /\ preferred = None
  /\ preferredLeft = 0
  /\ cooling = [t \in Target |-> 0]
  /\ probeLeft = 0
  /\ request = [r \in Request |-> Fresh]

Idle(r) == request[r].phase # "sending"

\* The first line is sent the request the director already aimed at the
\* primary; any other line needs a clone.
Start(r, kind, class, t) ==
  request' = [request EXCEPT ![r] =
    [phase |-> IF t # Primary /\ kind = "unclonable" THEN "refused" ELSE "sending",
     kind  |-> kind,
     class |-> class,
     tried |-> {},
     at    |-> t]]

BeginEligible(r, kind) ==
  /\ Idle(r)
  /\ Eligible(kind)
  /\ LET class == [t \in Target |-> Class(t)]
     IN \E t \in Target :
          /\ IsNext(t, class, Target)
          /\ Start(r, kind, class, t)
  /\ preferred' = Live
  /\ probeLeft' = IF ProbeDue THEN Cooldown ELSE probeLeft
  /\ UNCHANGED <<preferredLeft, cooling>>

\* A request that must not be repeated follows the line the others
\* established, and stays on the primary when there is none.
BeginWrite(r) ==
  /\ Idle(r)
  /\ LET usable == Live # None /\ cooling[Live] = 0
     IN Start(r, "write", NoClass, IF usable THEN Live ELSE Primary)
  /\ preferred' = Live
  /\ preferredLeft' = IF Live = None THEN 0 ELSE preferredLeft
  /\ UNCHANGED <<cooling, probeLeft>>

Sending(r) == request[r].phase = "sending"

\* A write that stayed on the primary reports nothing back.
Reports(r) == Eligible(request[r].kind) \/ request[r].at # Primary

\* The lines the request was sent to so far.
Used(r) == request[r].tried \union {request[r].at}

Finish(r, phase) ==
  request' = [request EXCEPT ![r] =
    [phase |-> phase, kind |-> request[r].kind, class |-> NoClass,
     tried |-> Used(r), at |-> request[r].at]]

MoveOn(r, t) ==
  request' = [request EXCEPT ![r] =
    [phase |-> "sending", kind |-> request[r].kind, class |-> request[r].class,
     tried |-> Used(r), at |-> t]]

\* A status from 200 to 399.
Succeed(r) ==
  /\ Sending(r)
  /\ Finish(r, "answered")
  /\ IF Reports(r) THEN MarkSuccess(request[r].at) ELSE NoMark

\* Any other status that is not retryable: the line answered, nothing is learnt.
AnswerOther(r) ==
  /\ Sending(r)
  /\ Finish(r, "answered")
  /\ NoMark

\* The client went away: the line is not blamed.
Cancel(r) ==
  /\ Sending(r)
  /\ Finish(r, "cancelled")
  /\ NoMark

Untried(r) == Target \ Used(r)

\* A retryable status or a transport error, and there is a line left to try.
FailOver(r) ==
  /\ Sending(r)
  /\ Eligible(request[r].kind)
  /\ \E t \in Untried(r) :
       /\ IsNext(t, request[r].class, Untried(r))
       /\ IF request[r].kind = "unclonable"
            THEN Finish(r, "refused")
            ELSE MoveOn(r, t)
  /\ MarkFailure(request[r].at)

\* The same on the last line, or for a request that is sent only once.
Fail(r) ==
  /\ Sending(r)
  /\ Eligible(request[r].kind) => Untried(r) = {}
  /\ Finish(r, "failed")
  /\ IF Reports(r) THEN MarkFailure(request[r].at) ELSE NoMark

Less(n) == IF n = 0 THEN 0 ELSE n - 1

Tick ==
  /\ preferredLeft' = Less(preferredLeft)
  /\ cooling' = [t \in Target |-> Less(cooling[t])]
  /\ probeLeft' = Less(probeLeft)
  /\ UNCHANGED <<preferred, request>>

Answer(r) == Succeed(r) \/ AnswerOther(r) \/ Cancel(r) \/ FailOver(r) \/ Fail(r)

FailoverNext ==
  \/ \E r \in Request, kind \in Kind : BeginEligible(r, kind)
  \/ \E r \in Request : BeginWrite(r) \/ Answer(r)
  \/ Tick

FailoverSpec == FailoverInit /\ [][FailoverNext]_failoverVars

\* Time passes, and the transport's response timeout ends every attempt.
\* Nothing is assumed of the clients.
FairSpec == FailoverSpec /\ WF_failoverVars(Tick) /\ \A r \in Request : WF_failoverVars(Answer(r))

-----------------------------------------------------------------------------
RequestRecord ==
  [phase : Phase, kind : Kind, class : [Target -> 0..2],
   tried : SUBSET Target, at : Target]

\* The state of upstreamFailoverState and of every request in flight.
FailoverTypeOK ==
  /\ preferred \in Target \union {None}
  /\ preferredLeft \in 0..PreferredLifetime
  /\ cooling \in [Target -> 0..Cooldown]
  /\ probeLeft \in 0..Cooldown
  /\ request \in [Request -> RequestRecord]

\* Whatever order answers of concurrent requests arrive in, the line that is
\* preferred is never one that is still cooling down from a failure
\* (markFailure forgets the preference, markSuccess lifts the cooldown).
PreferredIsHealthy == preferred # None => cooling[preferred] = 0

\* A client is told of a failure only after every line had its chance, and a
\* request that cannot be replayed reaches at most one line, however the memory
\* changes while the request is under way (RoundTrip).
FailureIsExhaustive ==
  \A r \in Request :
    /\ request[r].phase = "failed" /\ Eligible(request[r].kind) => request[r].tried = Target
    /\ request[r].kind # "replayable" => Cardinality(request[r].tried) <= 1
    /\ Sending(r) => request[r].at \notin request[r].tried

PrimaryLetsDown ==
  \E r \in Request : request[r].at = Primary /\ (AnswerOther(r) \/ Cancel(r))
SomeLineFails == \E r \in Request : FailOver(r) \/ Fail(r)

\* Once nothing fails any more and the primary answers what it is asked, the
\* site does not stay on a backup as long as eligible requests keep coming: the
\* recovery probe of ordered finds its way back.
PrimaryRestored ==
  /\ <>[][~(PrimaryLetsDown \/ SomeLineFails)]_failoverVars
  /\ []<><<\E r \in Request : BeginEligible(r, "replayable")>>_failoverVars
  => []<>(preferred = Primary)
=============================================================================
