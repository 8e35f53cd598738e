------------------------ MODULE SiteLifecycleProofs ------------------------
(***************************************************************************)
(* What SiteLifecycle promises, proved for every set of sites, ports,      *)
(* hosts and configurations and every bound on faults.                     *)
(*                                                                         *)
(* The four properties speak of the moments between operations; the        *)
(* inductive invariant says what is true in the middle of one.  Its parts  *)
(* are about the site of the operation in progress (OpShape, OpRow,        *)
(* OpInstance, OpMatches, OpRouted), about every other site (OthersMatch,  *)
(* OthersRouted), about the two mutexes and the phases of the process      *)
(* (CallShape, PhaseShape), and about all sites at all times               *)
(* (AcceptingIsEnabled, UniqueRows).                                       *)
(***************************************************************************)
EXTENDS SiteLifecycle, TLAPS

(* Which handler stands where, and where results are awaited. *)
OpShape ==
  /\ op.kind = "none" <=> op.at = "idle"
  /\ IF op.kind = "none" THEN op.site = None ELSE op.site \in Site
  /\ op.kind = "boot" => op.at = "start"
  /\ op.kind = "post" => op.at \in {"start", "unregister"}
  /\ op.kind = "off" => op.at \in {"stop", "reload to restart", "restart"}
  /\ op.kind = "on" => op.at \in {"start", "revert"}
  /\ op.kind = "put" => op.at \in {"stop", "update", "reload", "reload old", "restart",
                                   "register", "start", "roll back", "roll back route"}
  /\ op.kind = "delete" => op.at \in {"stop", "reload to restart", "restart", "unregister"}
  /\ op.result # "none" => op.at \in {"start", "restart", "stop"}
  /\ op.result = "closed" => op.at = "stop"

(* A manager call is the one its handler awaits, and no start runs once a  *)
(* shutdown began.                                                         *)
CallShape ==
  /\ call.fn = "none" <=> call.at = "idle"
  /\ call.fn = "stop" => op.at = "stop" /\ op.result = "none" /\ call.at # "install"
  /\ call.fn = "start" => op.at \in {"start", "restart"} /\ op.result = "none"
                          /\ ~shutdownStarted

(* The phases of the process; a shutdown pass settles what is left.        *)
PhaseShape ==
  /\ shutdownStarted <=> phase \in {"first pass", "panel drain", "second pass", "exit"}
  /\ phase = "booting" => op.kind \in {"none", "boot"} /\ \A s \in draining : Enabled(s)
  /\ op.kind = "boot" => phase = "booting" /\ op.site \in draining
  /\ phase = "down" => op.kind = "none" /\ \A s \in Site : inst[s].gate = "absent"
  /\ phase \in ShutdownPass => \A s \in draining : inst[s].gate # "absent"
  /\ phase = "first pass" => \A s \in Plain \ draining : ~Accepting(s)

(* The row of the operation's site, stage by stage.                        *)
Rewritten == {"reload", "start", "register", "roll back", "roll back route"}
OpRow ==
  /\ op.at = "unregister" => ~Exists(op.site)
  /\ op.kind # "none" /\ op.at # "unregister" => Exists(op.site)
  /\ op.at \in {"start", "restart"} => Enabled(op.site)
  /\ op.at \in {"register", "roll back route"} => ~Enabled(op.site)
  /\ op.kind = "put" =>
        row[op.site].cfg = IF op.at \in Rewritten THEN op.cfg ELSE op.old

(* The instance of the operation's site, stage by stage.                   *)
OpInstance ==
  /\ op.kind = "post" /\ op.result # "ok" => inst[op.site].gate = "absent"
  /\ op.kind = "post" /\ call.fn = "start" => call.at = "install"
  /\ op.kind = "on" /\ op.result # "ok" /\ op.site \in Plain => ~Accepting(op.site)
  /\ op.at = "stop" /\ op.result = "ok" => inst[op.site].gate = "absent"
  /\ op.at = "stop" /\ op.result = "closed" /\ op.site \in Plain => ~Accepting(op.site)
  /\ call.fn = "stop" /\ call.at \in {"drain", "final"} /\ op.site \in Plain
        => ~Accepting(op.site)

(* At every moment, not between operations only.                           *)
AcceptingIsEnabled == \A s \in Plain : Accepting(s) => Enabled(s)

Matches(s) == Enabled(s) => Accepting(s) /\ inst[s].cfg = row[s].cfg
Lives == phase \in {"up", "booting"}

OthersMatch ==
  Lives => \A s \in Site : /\ s \notin adrift /\ s # op.site
                            /\ ~(phase = "booting" /\ s \in draining)
                            => Matches(s)

(* What a handler may rely on for its own site: a start that went well, or *)
(* nothing touched yet, or an instance that still has the old settings.    *)
OpMatches ==
  Lives =>
  /\ op.at \in {"start", "restart"} /\ op.result = "ok" => Matches(op.site)
  /\ op.site \notin adrift =>
     /\ op.at = "stop" /\ op.result \in {"none", "refused"}
           /\ call.at \in {"idle", "flush", "close"} => Matches(op.site)
     /\ op.kind = "put" /\ Accepting(op.site) /\ op.result # "ok" /\ Enabled(op.site)
           => inst[op.site].cfg = op.old

(* No two rows share a port or a host, and the row an update may put back  *)
(* does not collide either.                                                *)
UniqueRows == /\ \A s \in Site : Exists(s) => Unique(s, row[s].cfg)
              /\ op.kind = "put" => Unique(op.site, op.old)

Routed(s, c) == \A h \in Host : route[h] = s <=> c.host = h
RouteMatches(s) == \A h \in Host : route[h] = s <=> Exists(s) /\ row[s].cfg.host = h

OthersRouted ==
  phase # "down" =>
     \A s \in Site : s \notin unrouted /\ s # op.site => RouteMatches(s)

(* The routes of the operation's site are those of the settings it started *)
(* from until a start went well, and the host a start will claim is free.  *)
OpRouted ==
  /\ op.at \in {"start", "restart"} /\ op.result = "ok" => RouteMatches(op.site)
  /\ op.site \notin unrouted =>
     /\ op.kind \in {"off", "on", "boot"} => RouteMatches(op.site)
     /\ op.kind = "delete" /\ op.at # "unregister" => RouteMatches(op.site)
     /\ op.kind = "put" /\ ~(op.at = "start" /\ op.result = "ok") => Routed(op.site, op.old)
  /\ call.fn = "start" => RouteFree(op.site, row[op.site].cfg)

IInv == /\ TypeOK
        /\ OpShape /\ CallShape /\ PhaseShape
        /\ OpRow /\ OpInstance
        /\ AcceptingIsEnabled /\ OthersMatch /\ OpMatches
        /\ UniqueRows /\ OthersRouted /\ OpRouted
        /\ RowOutlivesInstance /\ NothingAcceptsAfterShutdown
        /\ RoutesReachTheirConfig

-----------------------------------------------------------------------------
(* What the elementary steps do, field by field                            *)

Labels == {"idle", "start", "restart", "stop", "update", "reload", "reload old",
           "reload to restart", "register", "roll back", "roll back route",
           "revert", "unregister"}
Results == {"none", "ok", "refused", "closed"}
Kinds == {"none", "boot", "post", "off", "on", "put", "delete"}
Configs == Config \cup {NoConfig}
RowStates == {"absent", "enabled", "disabled"}
Ops == [kind: Kinds, site: Site \cup {None}, at: Labels, cfg: Configs, old: Configs,
        result: Results]
Rows == [Site -> [state: RowStates, cfg: Configs]]
Instances == [Site -> [gate: {"absent", "open", "closed"}, cfg: Configs, serving: BOOLEAN]]
CallLabels == {"idle", "flush", "close", "drain", "final", "install"}
Calls == [fn: {"none", "start", "stop"}, at: CallLabels, failed: BOOLEAN]

OpAt(l, r) ==
  /\ op' \in Ops
  /\ op'.kind = op.kind /\ op'.site = op.site /\ op'.cfg = op.cfg /\ op'.old = op.old
  /\ op'.at = l /\ op'.result = r

OpIs(k, s, l, c, o) ==
  /\ op' \in Ops
  /\ op'.kind = k /\ op'.site = s /\ op'.cfg = c /\ op'.old = o
  /\ op'.at = l /\ op'.result = "none"

OpEnds == /\ op' \in Ops
          /\ op'.kind = "none" /\ op'.site = None /\ op'.at = "idle" /\ op'.result = "none"

CallIs(f, l) == call' \in Calls /\ call'.fn = f /\ call'.at = l

RowIs(s, state, c) ==
  /\ row' \in Rows
  /\ row'[s].state = state /\ row'[s].cfg = c
  /\ \A t \in Site : t # s => row'[t] = row[t]

InstIs(s, gate, c, serving) ==
  /\ inst' \in Instances
  /\ inst'[s].gate = gate /\ inst'[s].cfg = c /\ inst'[s].serving = serving
  /\ \A t \in Site : t # s => inst'[t] = inst[t]

(* The shared routes of site s become those of the configuration c.        *)
Rerouted(s, c) ==
  /\ route' \in [Host -> Site \cup {None}]
  /\ \A h \in Host : /\ route'[h] = s <=> c.host = h
                    /\ \A t \in Site : t # s => (route'[h] = t <=> route[h] = t)

LEMMA Assumed ==
  /\ None \notin Port /\ None \notin Host /\ None \notin Site
  /\ MaxFault \in Nat /\ Coalescing \subseteq Site /\ Config \subseteq Configs
BY ConfigAssumption DEF Configs

(* TypeOK in the words of these sets.                                      *)
LEMMA Typed ==
  ASSUME TypeOK
  PROVE  /\ row \in Rows /\ inst \in Instances /\ op \in Ops /\ call \in Calls
         /\ faults \in 0..MaxFault
BY DEF TypeOK, Rows, Instances, Ops, Calls, RowStates, Configs, Kinds, Labels, Results,
       CallLabels

(* A fault is one of at most MaxFault.                                     *)
LEMMA FaultCounted ==
  ASSUME TypeOK, Fault
  PROVE  faults' \in 0..MaxFault
<1>1. MaxFault \in Nat
  BY Assumed
<1>2. faults \in 0..MaxFault
  BY Typed
<1>3. faults < MaxFault /\ faults' = faults + 1
  BY DEF Fault
<1> QED  BY <1>1, <1>2, <1>3

LEMMA NoFaultCounted ==
  ASSUME TypeOK, NoFault
  PROVE  faults' \in 0..MaxFault
BY DEF TypeOK, NoFault

LEMMA GotoIs ==
  ASSUME TypeOK, NEW l \in Labels, Goto(l)
  PROVE  OpAt(l, "none")
<1>1. op \in Ops
  BY Typed
<1>2. op' = [op EXCEPT !.at = l, !.result = "none"]
  BY DEF Goto
<1> QED  BY <1>1, <1>2 DEF OpAt, Ops, Results

LEMMA EndIs ==
  ASSUME op' = NoOp
  PROVE  OpEnds
BY DEF OpEnds, NoOp, Ops, Kinds, Labels, Results, Configs

LEMMA ReturnIs ==
  ASSUME TypeOK, NEW r \in Results, Return(r)
  PROVE  OpAt(op.at, r) /\ CallIs("none", "idle")
<1>1. op \in Ops
  BY Typed
<1>2. op' = [op EXCEPT !.result = r] /\ call' = NoCall
  BY DEF Return
<1>3. OpAt(op.at, r)
  BY <1>1, <1>2 DEF OpAt, Ops
<1>4. CallIs("none", "idle")
  BY <1>2 DEF CallIs, NoCall, Calls, CallLabels
<1> QED  BY <1>3, <1>4

LEMMA StepIs ==
  ASSUME TypeOK, NEW l \in CallLabels, Step(l)
  PROVE  op' = op /\ CallIs(call.fn, l)
<1>1. call \in Calls
  BY Typed
<1>2. op' = op /\ call' = [call EXCEPT !.at = l]
  BY DEF Step
<1> QED  BY <1>1, <1>2 DEF CallIs, Calls

LEMMA FailedIs ==
  ASSUME TypeOK, call' = [call EXCEPT !.at = "final", !.failed = TRUE]
  PROVE  CallIs(call.fn, "final")
<1>1. call \in Calls
  BY Typed
<1> QED  BY <1>1 DEF CallIs, Calls, CallLabels

LEMMA SetEnabledIs ==
  ASSUME TypeOK, NEW s \in Site, NEW state \in RowStates, SetEnabled(s, state)
  PROVE  RowIs(s, state, row[s].cfg)
<1>1. row \in Rows
  BY Typed
<1>2. row' = [row EXCEPT ![s] = [row[s] EXCEPT !.state = state]]
  BY DEF SetEnabled
<1>3. row[s] \in [state: RowStates, cfg: Configs]
  BY <1>1 DEF Rows
<1> DEFINE r == [row[s] EXCEPT !.state = state]
<1>4. r \in [state: RowStates, cfg: Configs] /\ r.state = state /\ r.cfg = row[s].cfg
  BY <1>3
<1>5. row' = [row EXCEPT ![s] = r]
  BY <1>2
<1> HIDE DEF r
<1> QED  BY <1>1, <1>4, <1>5 DEF RowIs, Rows

LEMMA SetConfigIs ==
  ASSUME TypeOK, NEW s \in Site, NEW c \in Configs, SetConfig(s, c)
  PROVE  RowIs(s, row[s].state, c)
<1>1. row \in Rows
  BY Typed
<1>2. row' = [row EXCEPT ![s] = [row[s] EXCEPT !.cfg = c]]
  BY DEF SetConfig
<1>3. row[s] \in [state: RowStates, cfg: Configs]
  BY <1>1 DEF Rows
<1> DEFINE r == [row[s] EXCEPT !.cfg = c]
<1>4. r \in [state: RowStates, cfg: Configs] /\ r.cfg = c /\ r.state = row[s].state
  BY <1>3
<1>5. row' = [row EXCEPT ![s] = r]
  BY <1>2
<1> HIDE DEF r
<1> QED  BY <1>1, <1>4, <1>5 DEF RowIs, Rows

LEMMA RowReplaced ==
  ASSUME TypeOK, NEW s \in Site, NEW state \in RowStates, NEW c \in Configs,
         row' = [row EXCEPT ![s] = [state |-> state, cfg |-> c]]
  PROVE  RowIs(s, state, c)
<1>1. row \in Rows
  BY Typed
<1> DEFINE r == [state |-> state, cfg |-> c]
<1>2. r \in [state: RowStates, cfg: Configs] /\ r.cfg = c /\ r.state = state
  OBVIOUS
<1>3. row' = [row EXCEPT ![s] = r]
  OBVIOUS
<1> HIDE DEF r
<1> QED  BY <1>1, <1>2, <1>3 DEF RowIs, Rows

LEMMA InstReplaced ==
  ASSUME TypeOK, NEW s \in Site, NEW gate \in {"absent", "open", "closed"},
         NEW c \in Configs, NEW serving \in BOOLEAN,
         inst' = [inst EXCEPT ![s] = [gate |-> gate, cfg |-> c, serving |-> serving]]
  PROVE  InstIs(s, gate, c, serving)
<1>1. inst \in Instances
  BY Typed
<1> DEFINE i == [gate |-> gate, cfg |-> c, serving |-> serving]
<1>2. /\ i \in [gate: {"absent", "open", "closed"}, cfg: Configs, serving: BOOLEAN]
      /\ i.gate = gate /\ i.cfg = c /\ i.serving = serving
  OBVIOUS
<1>3. inst' = [inst EXCEPT ![s] = i]
  OBVIOUS
<1> HIDE DEF i
<1> QED  BY <1>1, <1>2, <1>3 DEF InstIs, Instances

LEMMA ClosedIs ==
  ASSUME TypeOK, NEW s \in Site, inst' = Closed(s)
  PROVE  InstIs(s, "closed", inst[s].cfg, FALSE)
<1>1. inst \in Instances
  BY Typed
<1>2. inst[s] \in [gate: {"absent", "open", "closed"}, cfg: Configs, serving: BOOLEAN]
  BY <1>1 DEF Instances
<1> DEFINE g == [inst[s] EXCEPT !.gate = "closed"]
           i == [g EXCEPT !.serving = FALSE]
<1>3. /\ g \in [gate: {"absent", "open", "closed"}, cfg: Configs, serving: BOOLEAN]
      /\ g.gate = "closed" /\ g.cfg = inst[s].cfg
  BY <1>2
<1>4. inst' = [inst EXCEPT ![s] = i]
  BY <1>1 DEF Closed, Instances
<1> HIDE DEF g
<1>5. /\ i \in [gate: {"absent", "open", "closed"}, cfg: Configs, serving: BOOLEAN]
      /\ i.gate = "closed" /\ i.cfg = inst[s].cfg /\ i.serving = FALSE
  BY <1>3
<1> HIDE DEF i
<1> QED  BY <1>1, <1>4, <1>5 DEF InstIs, Instances

LEMMA ServingEnds ==
  ASSUME TypeOK, NEW s \in Site, inst' = [inst EXCEPT ![s].serving = FALSE]
  PROVE  InstIs(s, inst[s].gate, inst[s].cfg, FALSE)
<1>1. inst \in Instances
  BY Typed
<1>2. inst[s] \in [gate: {"absent", "open", "closed"}, cfg: Configs, serving: BOOLEAN]
  BY <1>1 DEF Instances
<1> DEFINE i == [inst[s] EXCEPT !.serving = FALSE]
<1>3. inst' = [inst EXCEPT ![s] = i]
  OBVIOUS
<1>4. /\ i \in [gate: {"absent", "open", "closed"}, cfg: Configs, serving: BOOLEAN]
      /\ i.gate = inst[s].gate /\ i.cfg = inst[s].cfg /\ i.serving = FALSE
  BY <1>2
<1> HIDE DEF i
<1> QED  BY <1>1, <1>3, <1>4 DEF InstIs, Instances

LEMMA ReroutedIs ==
  ASSUME TypeOK, NEW s \in Site, NEW c, RouteFree(s, c),
         route' = [h \in Host |-> IF h = c.host THEN s
                                  ELSE IF route[h] = s THEN None ELSE route[h]]
  PROVE  Rerouted(s, c)
<1>1. route \in [Host -> Site \cup {None}] /\ None \notin Site /\ None \notin Host
  BY Assumed DEF TypeOK
<1>2. route' \in [Host -> Site \cup {None}]
  BY <1>1
<1>3. ASSUME NEW h \in Host
      PROVE  /\ route'[h] = s <=> c.host = h
             /\ \A t \in Site : t # s => (route'[h] = t <=> route[h] = t)
  <2>1. route'[h] = IF h = c.host THEN s ELSE IF route[h] = s THEN None ELSE route[h]
    OBVIOUS
  <2>2. h = c.host => route[h] \in {None, s}
    BY <1>1 DEF RouteFree
  <2> QED  BY <1>1, <2>1, <2>2
<1> QED  BY <1>2, <1>3 DEF Rerouted

LEMMA TypedAfter ==
  ASSUME row' \in Rows, inst' \in Instances, route' \in [Host -> Site \cup {None}],
         op' \in Ops, call' \in Calls,
         phase' \in {"booting", "up", "panel drain", "exit", "down"} \cup ShutdownPass,
         draining' \subseteq Site, shutdownStarted' \in BOOLEAN, faults' \in 0..MaxFault,
         adrift' \subseteq Site, unrouted' \subseteq Site,
         call'.fn # "none" => op'.site \in Site /\ phase' \notin ShutdownPass
  PROVE  TypeOK'
BY DEF TypeOK, Rows, Instances, Ops, Calls, RowStates, Configs, Kinds, Labels, Results,
       CallLabels

(* A handler's label says that it has a site.                              *)
LEMMA OpHasSite ==
  ASSUME IInv, op.kind # "none"
  PROVE  op.site \in Site
BY DEF IInv, OpShape

-----------------------------------------------------------------------------
(* The sites an operation is not about                                     *)

(* A step of the operation on o leaves rows, instances, routes and history *)
(* of the other sites alone.                                               *)
OthersUntouched(o) ==
  \A s \in Site : s # o =>
     /\ row'[s] = row[s]
     /\ inst'[s].gate = inst[s].gate /\ inst'[s].cfg = inst[s].cfg
     /\ s \in adrift' <=> s \in adrift
     /\ s \in unrouted' <=> s \in unrouted
     /\ \A h \in Host : route'[h] = s <=> route[h] = s

(* The operation on o goes on, or o itself is in order. *)
LEMMA OthersMatchAfter ==
  ASSUME OthersMatch, NEW o, OthersUntouched(o), op.site \in {o, None}, None \notin Site,
         phase' = phase, \A s \in Site : s # o => (s \in draining' <=> s \in draining),
         Lives => o \in adrift' \/ op'.site = o \/ Matches(o)'
  PROVE  OthersMatch'
<1> SUFFICES ASSUME Lives', NEW s \in Site, s \notin adrift', s # op'.site,
                    ~(phase = "booting" /\ s \in draining')
             PROVE  Matches(s)'
  BY DEF OthersMatch
<1>1. Lives
  BY DEF Lives
<1>2. CASE s = o
  BY <1>1, <1>2
<1>3. CASE s # o
  <2>1. Matches(s)
    BY <1>1, <1>3 DEF OthersMatch, OthersUntouched
  <2> QED  BY <1>3, <2>1 DEF Matches, OthersUntouched, Enabled, Accepting
<1> QED  BY <1>2, <1>3

LEMMA OthersRoutedAfter ==
  ASSUME OthersRouted, NEW o, OthersUntouched(o), op.site \in {o, None}, None \notin Site,
         phase' = phase,
         o \in unrouted' \/ op'.site = o \/ RouteMatches(o)'
  PROVE  OthersRouted'
<1> SUFFICES ASSUME phase # "down", NEW s \in Site, s \notin unrouted', s # op'.site
             PROVE  RouteMatches(s)'
  BY DEF OthersRouted
<1>1. CASE s = o
  BY <1>1
<1>2. CASE s # o
  <2>1. RouteMatches(s)
    BY <1>2 DEF OthersRouted, OthersUntouched
  <2> QED  BY <1>2, <2>1 DEF RouteMatches, OthersUntouched, Exists
<1> QED  BY <1>1, <1>2

(* The manager's steps before an instance is installed.                   *)
LEMMA OpRoutedAfterCall ==
  ASSUME OpRouted, UNCHANGED <<row, route, unrouted>>,
         op'.kind = op.kind, op'.site = op.site, op'.at = op.at, op'.old = op.old,
         op.result = "none", op'.result = "ok" => op.at = "stop",
         call'.fn = "start" => RouteFree(op.site, row[op.site].cfg)
  PROVE  OpRouted'
<1>1. ~(op'.at \in {"start", "restart"} /\ op'.result = "ok")
  OBVIOUS
<1>2. /\ RouteMatches(op.site)' <=> RouteMatches(op.site)
      /\ Routed(op.site, op.old)' <=> Routed(op.site, op.old)
      /\ RouteFree(op.site, row[op.site].cfg)' <=> RouteFree(op.site, row[op.site].cfg)
  BY DEF RouteMatches, Routed, RouteFree, Exists
<1> QED  BY <1>1, <1>2 DEF OpRouted

(* A row that is written keeps its settings, or takes some that are free.  *)
LEMMA UniqueRowsAfter ==
  ASSUME UniqueRows, NEW o \in Site, \A s \in Site : s # o => row'[s] = row[s],
         \/ ~Exists(o)'
         \/ Exists(o) /\ row'[o].cfg = row[o].cfg
         \/ Unique(o, row'[o].cfg),
         op'.kind = "put" => op'.site = o /\ Unique(o, op'.old)
  PROVE  UniqueRows'
<1>1. CASE ~Exists(o)'
  BY <1>1 DEF UniqueRows, Unique, Exists
<1>2. CASE Exists(o)'
  <2>1. Unique(o, row'[o].cfg)
    BY <1>2 DEF UniqueRows
  <2>2. Unique(o, row[o].cfg)' 
    BY <2>1 DEF Unique, Exists
  <2>3. ASSUME NEW s \in Site, s # o, Exists(s)'
        PROVE  Unique(s, row[s].cfg)'
    <3>1. Unique(s, row[s].cfg) /\ Exists(s) /\ row'[s] = row[s]
      BY <2>3 DEF UniqueRows, Exists
    <3>2. ASSUME NEW t \in Site \ {s}, Exists(t)'
          PROVE  /\ row[s].cfg.port = None \/ row'[t].cfg.port # row[s].cfg.port
                 /\ row[s].cfg.host = None \/ row'[t].cfg.host # row[s].cfg.host
      <4>1. CASE t = o
        BY <2>1, <2>3, <3>1, <4>1 DEF Unique
      <4>2. CASE t # o
        BY <3>1, <3>2, <4>2 DEF Unique, Exists
      <4> QED  BY <4>1, <4>2
    <3> QED  BY <3>1, <3>2 DEF Unique
  <2>4. op'.kind = "put" => Unique(op.site, op.old)'
    BY DEF Unique, Exists
  <2> QED  BY <2>2, <2>3, <2>4 DEF UniqueRows
<1> QED  BY <1>1, <1>2

-----------------------------------------------------------------------------
(* Every step keeps the invariant: the handlers                            *)

LEMMA RollBackCreateKeeps ==
  ASSUME IInv, RollBackCreate
  PROVE  IInv'
<1>0. PICK o \in Site : op.site = o
  BY OpHasSite DEF IInv, OpShape, RollBackCreate
<1>1. /\ op.kind = "post" /\ op.at = "start" /\ op.result = "refused"
      /\ call.fn = "none"
  BY OpHasSite DEF RollBackCreate, Returned
<1>2. /\ HandlerOnly /\ faults' \in 0..MaxFault
      /\ \/ /\ RowIs(op.site, "absent", NoConfig) /\ OpAt("unregister", "none")
            /\ UNCHANGED <<adrift, unrouted>>
         \/ /\ row' = row /\ OpEnds
            /\ adrift' = adrift \cup {op.site} /\ unrouted' = unrouted \cup {op.site}
  <2>1. NoConfig \in Configs
    BY DEF Configs
  <2>2. CASE /\ NoFault /\ row' = [row EXCEPT ![op.site] = NoRow] /\ Goto("unregister")
             /\ UNCHANGED history
    <3>1. RowIs(op.site, "absent", NoConfig)
      BY <1>1, <2>1, <2>2, <1>0, RowReplaced DEF IInv, NoRow, RowStates
    <3>2. OpAt("unregister", "none")
      BY <2>2, GotoIs DEF IInv, Labels
    <3> QED  BY <2>2, <3>1, <3>2, NoFaultCounted DEF IInv, RollBackCreate, history
  <2>3. CASE /\ Fault /\ op' = NoOp /\ adrift' = adrift \cup {op.site}
             /\ unrouted' = unrouted \cup {op.site} /\ UNCHANGED row
    BY <2>3, EndIs, FaultCounted DEF IInv, RollBackCreate
  <2> QED  BY <2>2, <2>3 DEF RollBackCreate
<1> USE <1>0, <1>1, <1>2 DEF IInv, OpAt, OpEnds, RowIs, HandlerOnly, runtime
<1>3. OthersUntouched(o)
  BY DEF OthersUntouched
<1>4. TypeOK'
  BY Typed, Assumed, TypedAfter DEF TypeOK, OpShape, CallShape, PhaseShape,
         ShutdownPass
<1>5. OpShape'
  BY DEF OpShape, CallShape, PhaseShape
<1>6. CallShape'
  BY DEF OpShape, CallShape, PhaseShape, ShutdownPass
<1>7. PhaseShape'
  BY DEF TypeOK, OpShape, CallShape, PhaseShape, OpRow, RowOutlivesInstance,
         Exists, Enabled, Accepting, Plain, ShutdownPass
<1>8. OpRow'
  BY DEF OpShape, CallShape, PhaseShape, OpRow, Rewritten, Exists, Enabled
<1>9. OpInstance'
  BY DEF OpShape, CallShape, PhaseShape, OpInstance, RowOutlivesInstance,
         AcceptingIsEnabled, Exists, Enabled, Accepting, Plain
<1>10. AcceptingIsEnabled'
  BY DEF OpShape, CallShape, OpRow, OpInstance, AcceptingIsEnabled,
         RowOutlivesInstance, Exists, Enabled, Accepting, Plain
<1>11. OthersMatch'
  <2>1. Lives => o \in adrift' \/ op'.site = o \/ Matches(o)'
    BY DEF OpShape, CallShape, PhaseShape, OpRow, Rewritten, OpMatches,
         Matches, Lives, Exists, Enabled, Accepting
  <2>2. /\ op.site \in {o, None} /\ phase' = phase
        /\ \A t \in Site : t # o => (t \in draining' <=> t \in draining)
    BY DEF TypeOK, OpShape
  <2> QED  BY <1>3, <2>1, <2>2, OthersMatchAfter, Assumed
<1>12. OpMatches'
  BY DEF OpShape, CallShape, PhaseShape, OpRow, OpInstance, OthersMatch,
         OpMatches, Matches, Lives, Exists, Enabled, Accepting, Rewritten
<1>13. UniqueRows'
  <2>1. /\ o \in Site
        /\ \/ ~Exists(o)'
           \/ Exists(o) /\ row'[o].cfg = row[o].cfg
           \/ Unique(o, row'[o].cfg)
    BY DEF UniqueRows, OpShape, OpRow, Exists, Enabled
  <2>2. op'.kind = "put" => op'.site = o /\ Unique(o, op'.old)
    BY DEF UniqueRows
  <2> QED  BY <1>3, <2>1, <2>2, UniqueRowsAfter DEF OthersUntouched
<1>14. OthersRouted'
  <2>1. o \in unrouted' \/ op'.site = o \/ RouteMatches(o)'
    BY DEF OpShape, CallShape, OpRow, OpRouted, RouteMatches, Routed,
         RouteFree, Exists, Enabled, Rewritten
  <2>2. op.site \in {o, None} /\ phase' = phase
    BY DEF TypeOK, OpShape
  <2> QED  BY <1>3, <2>1, <2>2, OthersRoutedAfter, Assumed
<1>15. OpRouted'
  BY DEF OpShape, CallShape, OpRow, OpRouted, RouteMatches, Routed, RouteFree,
         Exists, Rewritten
<1>16. RowOutlivesInstance'
  BY DEF OpShape, CallShape, OpRow, OpInstance, PhaseShape,
         RowOutlivesInstance, Exists, Enabled
<1>17. NothingAcceptsAfterShutdown'
  BY DEF OpShape, CallShape, PhaseShape, NothingAcceptsAfterShutdown,
         Accepting, Plain, ShutdownPass
<1>18. RoutesReachTheirConfig'
  BY DEF OpShape, CallShape, OpRow, OpInstance, PhaseShape, AcceptingIsEnabled,
         RoutesReachTheirConfig, Exists, Enabled, Accepting, Plain
<1> QED BY <1>4, <1>5, <1>6, <1>7, <1>8, <1>9, <1>10, <1>11, <1>12, <1>13,
         <1>14, <1>15, <1>16, <1>17, <1>18

LEMMA PersistOffKeeps ==
  ASSUME IInv, PersistOff
  PROVE  IInv'
<1>0. PICK o \in Site : op.site = o
  BY OpHasSite DEF IInv, OpShape, PersistOff
<1>1. /\ op.kind = "off" /\ op.at = "stop" /\ op.result \in {"ok", "closed"}
      /\ call.fn = "none"
  BY OpHasSite DEF PersistOff, Returned
<1>2. /\ HandlerOnly /\ faults' \in 0..MaxFault
      /\ \/ /\ RowIs(op.site, "disabled", row[op.site].cfg) /\ OpEnds
            /\ adrift' = adrift \ {op.site} /\ UNCHANGED unrouted
         \/ row' = row /\ OpEnds /\ adrift' = adrift \cup {op.site} /\ UNCHANGED unrouted
         \/ row' = row /\ OpAt("reload to restart", "none") /\ UNCHANGED <<adrift, unrouted>>
  <2>1. CASE NoFault /\ SetEnabled(op.site, "disabled") /\ Succeed
    BY <1>0, <1>1, <2>1, SetEnabledIs, EndIs, NoFaultCounted
       DEF IInv, PersistOff, Succeed, RowStates
  <2>2. CASE /\ Fault /\ UNCHANGED row /\ GiveUp
    BY <2>2, EndIs, FaultCounted DEF IInv, PersistOff, GiveUp
  <2>3. CASE /\ Fault /\ UNCHANGED row /\ Goto("reload to restart") /\ UNCHANGED history
    BY <2>3, GotoIs, FaultCounted DEF IInv, PersistOff, Labels, history
  <2> QED  BY <2>1, <2>2, <2>3 DEF PersistOff
<1> USE <1>0, <1>1, <1>2 DEF IInv, OpAt, OpEnds, RowIs, HandlerOnly, runtime
<1>3. OthersUntouched(o)
  BY DEF OthersUntouched
<1>4. TypeOK'
  BY Typed, Assumed, TypedAfter DEF TypeOK, OpShape, CallShape, PhaseShape,
         ShutdownPass
<1>5. OpShape'
  BY DEF OpShape, CallShape, PhaseShape
<1>6. CallShape'
  BY DEF OpShape, CallShape, PhaseShape, ShutdownPass
<1>7. PhaseShape'
  BY DEF TypeOK, OpShape, CallShape, PhaseShape, OpRow, RowOutlivesInstance,
         Exists, Enabled, Accepting, Plain, ShutdownPass
<1>8. OpRow'
  BY DEF OpShape, CallShape, PhaseShape, OpRow, Rewritten, Exists, Enabled
<1>9. OpInstance'
  BY DEF OpShape, CallShape, PhaseShape, OpInstance, RowOutlivesInstance,
         AcceptingIsEnabled, Exists, Enabled, Accepting, Plain
<1>10. AcceptingIsEnabled'
  BY ZenonT(60) DEF OpShape, CallShape, OpRow, OpInstance, AcceptingIsEnabled,
         RowOutlivesInstance, Exists, Enabled, Accepting, Plain
<1>11. OthersMatch'
  <2>1. Lives => o \in adrift' \/ op'.site = o \/ Matches(o)'
    BY DEF OpShape, CallShape, PhaseShape, OpRow, Rewritten, OpMatches,
         Matches, Lives, Exists, Enabled, Accepting
  <2>2. /\ op.site \in {o, None} /\ phase' = phase
        /\ \A t \in Site : t # o => (t \in draining' <=> t \in draining)
    BY DEF TypeOK, OpShape
  <2> QED  BY <1>3, <2>1, <2>2, OthersMatchAfter, Assumed
<1>12. OpMatches'
  BY DEF OpShape, CallShape, PhaseShape, OpRow, OpInstance, OthersMatch,
         OpMatches, Matches, Lives, Exists, Enabled, Accepting, Rewritten
<1>13. UniqueRows'
  <2>1. /\ o \in Site
        /\ \/ ~Exists(o)'
           \/ Exists(o) /\ row'[o].cfg = row[o].cfg
           \/ Unique(o, row'[o].cfg)
    BY DEF UniqueRows, OpShape, OpRow, Exists, Enabled
  <2>2. op'.kind = "put" => op'.site = o /\ Unique(o, op'.old)
    BY DEF UniqueRows
  <2> QED  BY <1>3, <2>1, <2>2, UniqueRowsAfter DEF OthersUntouched
<1>14. OthersRouted'
  <2>1. o \in unrouted' \/ op'.site = o \/ RouteMatches(o)'
    BY ZenonT(60) DEF OpShape, CallShape, OpRow, OpRouted, RouteMatches, Routed,
         RouteFree, Exists, Enabled, Rewritten
  <2>2. op.site \in {o, None} /\ phase' = phase
    BY DEF TypeOK, OpShape
  <2> QED  BY <1>3, <2>1, <2>2, OthersRoutedAfter, Assumed
<1>15. OpRouted'
  BY ZenonT(60) DEF OpShape, CallShape, OpRow, OpRouted, RouteMatches, Routed, RouteFree,
         Exists, Rewritten
<1>16. RowOutlivesInstance'
  BY DEF OpShape, CallShape, OpRow, OpInstance, PhaseShape,
         RowOutlivesInstance, Exists, Enabled
<1>17. NothingAcceptsAfterShutdown'
  BY DEF OpShape, CallShape, PhaseShape, NothingAcceptsAfterShutdown,
         Accepting, Plain, ShutdownPass
<1>18. RoutesReachTheirConfig'
  BY DEF OpShape, CallShape, OpRow, OpInstance, PhaseShape, AcceptingIsEnabled,
         RoutesReachTheirConfig, Exists, Enabled, Accepting, Plain
<1> QED BY <1>4, <1>5, <1>6, <1>7, <1>8, <1>9, <1>10, <1>11, <1>12, <1>13,
         <1>14, <1>15, <1>16, <1>17, <1>18

LEMMA RevertOnKeeps ==
  ASSUME IInv, RevertOn
  PROVE  IInv'
<1>0. PICK o \in Site : op.site = o
  BY OpHasSite DEF IInv, OpShape, RevertOn
<1>1. /\ op.kind = "on" /\ call.fn = "none"
      /\ op.at = "revert" \/ (op.at = "start" /\ op.result = "refused")
  BY OpHasSite DEF IInv, CallShape, RevertOn, Returned, TypeOK
<1>2. /\ HandlerOnly /\ faults' \in 0..MaxFault /\ OpEnds /\ UNCHANGED unrouted
      /\ \/ RowIs(op.site, "disabled", row[op.site].cfg) /\ UNCHANGED adrift
         \/ row' = row /\ adrift' = adrift \cup {op.site}
  <2>1. CASE NoFault /\ SetEnabled(op.site, "disabled") /\ Answer
    BY <1>0, <1>1, <2>1, SetEnabledIs, EndIs, NoFaultCounted
       DEF IInv, RevertOn, Answer, RowStates, history
  <2>2. CASE /\ Fault /\ UNCHANGED row /\ GiveUp
    BY <2>2, EndIs, FaultCounted DEF IInv, RevertOn, GiveUp
  <2> QED  BY <2>1, <2>2 DEF RevertOn
<1> USE <1>0, <1>1, <1>2 DEF IInv, OpEnds, RowIs, HandlerOnly, runtime
<1>3. OthersUntouched(o)
  BY DEF OthersUntouched
<1>4. TypeOK'
  BY Typed, Assumed, TypedAfter DEF TypeOK, OpShape, CallShape, PhaseShape,
         ShutdownPass
<1>5. OpShape'
  BY DEF OpShape, CallShape, PhaseShape
<1>6. CallShape'
  BY DEF OpShape, CallShape, PhaseShape, ShutdownPass
<1>7. PhaseShape'
  BY DEF TypeOK, OpShape, CallShape, PhaseShape, OpRow, RowOutlivesInstance,
         Exists, Enabled, Accepting, Plain, ShutdownPass
<1>8. OpRow'
  BY DEF OpShape, CallShape, PhaseShape, OpRow, Rewritten, Exists, Enabled
<1>9. OpInstance'
  BY DEF OpShape, CallShape, PhaseShape, OpInstance, RowOutlivesInstance,
         AcceptingIsEnabled, Exists, Enabled, Accepting, Plain
<1>10. AcceptingIsEnabled'
  BY ZenonT(60) DEF OpShape, CallShape, OpRow, OpInstance, AcceptingIsEnabled,
         RowOutlivesInstance, Exists, Enabled, Accepting, Plain
<1>11. OthersMatch'
  <2>1. Lives => o \in adrift' \/ op'.site = o \/ Matches(o)'
    BY DEF OpShape, CallShape, PhaseShape, OpRow, Rewritten, OpMatches,
         Matches, Lives, Exists, Enabled, Accepting
  <2>2. /\ op.site \in {o, None} /\ phase' = phase
        /\ \A t \in Site : t # o => (t \in draining' <=> t \in draining)
    BY DEF TypeOK, OpShape
  <2> QED  BY <1>3, <2>1, <2>2, OthersMatchAfter, Assumed
<1>12. OpMatches'
  BY DEF OpShape, CallShape, PhaseShape, OpRow, OpInstance, OthersMatch,
         OpMatches, Matches, Lives, Exists, Enabled, Accepting, Rewritten
<1>13. UniqueRows'
  <2>1. /\ o \in Site
        /\ \/ ~Exists(o)'
           \/ Exists(o) /\ row'[o].cfg = row[o].cfg
           \/ Unique(o, row'[o].cfg)
    BY DEF UniqueRows, OpShape, OpRow, Exists, Enabled
  <2>2. op'.kind = "put" => op'.site = o /\ Unique(o, op'.old)
    BY DEF UniqueRows
  <2> QED  BY <1>3, <2>1, <2>2, UniqueRowsAfter DEF OthersUntouched
<1>14. OthersRouted'
  <2>1. o \in unrouted' \/ op'.site = o \/ RouteMatches(o)'
    BY ZenonT(60) DEF OpShape, CallShape, OpRow, OpRouted, RouteMatches, Routed,
         RouteFree, Exists, Enabled, Rewritten
  <2>2. op.site \in {o, None} /\ phase' = phase
    BY DEF TypeOK, OpShape
  <2> QED  BY <1>3, <2>1, <2>2, OthersRoutedAfter, Assumed
<1>15. OpRouted'
  BY DEF OpShape, CallShape, OpRow, OpRouted, RouteMatches, Routed, RouteFree,
         Exists, Rewritten
<1>16. RowOutlivesInstance'
  BY DEF OpShape, CallShape, OpRow, OpInstance, PhaseShape,
         RowOutlivesInstance, Exists, Enabled
<1>17. NothingAcceptsAfterShutdown'
  BY DEF OpShape, CallShape, PhaseShape, NothingAcceptsAfterShutdown,
         Accepting, Plain, ShutdownPass
<1>18. RoutesReachTheirConfig'
  BY DEF OpShape, CallShape, OpRow, OpInstance, PhaseShape, AcceptingIsEnabled,
         RoutesReachTheirConfig, Exists, Enabled, Accepting, Plain
<1> QED BY <1>4, <1>5, <1>6, <1>7, <1>8, <1>9, <1>10, <1>11, <1>12, <1>13,
         <1>14, <1>15, <1>16, <1>17, <1>18

LEMMA WriteUpdateKeeps ==
  ASSUME IInv, WriteUpdate
  PROVE  IInv'
<1>0. PICK o \in Site : op.site = o
  BY OpHasSite DEF IInv, OpShape, WriteUpdate
<1>1. /\ op.kind = "put" /\ call.fn = "none"
      /\ op.at = "update" \/ (op.at = "stop" /\ op.result = "ok")
  BY DEF IInv, OpShape, CallShape, WriteUpdate, Returned, TypeOK
<1>2. /\ HandlerOnly /\ faults' \in 0..MaxFault /\ UNCHANGED <<adrift, unrouted>>
      /\ \/ /\ RowIs(op.site, row[op.site].state, op.cfg) /\ Unique(op.site, op.cfg)
            /\ OpAt("reload", "none")
         \/ row' = row /\ OpAt("reload old", "none")
  <2>1. op.cfg \in Configs
    BY Typed DEF IInv, Ops
  <2>2. CASE /\ NoFault /\ Unique(op.site, op.cfg) /\ SetConfig(op.site, op.cfg)
             /\ Goto("reload")
    BY <1>0, <2>1, <2>2, SetConfigIs, GotoIs, NoFaultCounted
       DEF IInv, WriteUpdate, Labels, history
  <2>3. CASE (NoFault \/ Fault) /\ UNCHANGED row /\ Goto("reload old")
    BY <2>3, GotoIs, NoFaultCounted, FaultCounted DEF IInv, WriteUpdate, Labels, history
  <2> QED  BY <2>2, <2>3 DEF WriteUpdate
<1> USE <1>0, <1>1, <1>2 DEF IInv, OpAt, RowIs, HandlerOnly, runtime
<1>3. OthersUntouched(o)
  BY DEF OthersUntouched
<1>4. TypeOK'
  BY Typed, Assumed, TypedAfter DEF TypeOK, OpShape, CallShape, PhaseShape,
         ShutdownPass
<1>5. OpShape'
  BY DEF OpShape, CallShape, PhaseShape
<1>6. CallShape'
  BY DEF OpShape, CallShape, PhaseShape, ShutdownPass
<1>7. PhaseShape'
  BY DEF TypeOK, OpShape, CallShape, PhaseShape, OpRow, RowOutlivesInstance,
         Exists, Enabled, Accepting, Plain, ShutdownPass
<1>8. OpRow'
  BY ZenonT(60) DEF OpShape, CallShape, PhaseShape, OpRow, Rewritten, Exists, Enabled
<1>9. OpInstance'
  BY DEF OpShape, CallShape, PhaseShape, OpInstance, RowOutlivesInstance,
         AcceptingIsEnabled, Exists, Enabled, Accepting, Plain
<1>10. AcceptingIsEnabled'
  BY ZenonT(60) DEF OpShape, CallShape, OpRow, OpInstance, AcceptingIsEnabled,
         RowOutlivesInstance, Exists, Enabled, Accepting, Plain
<1>11. OthersMatch'
  <2>1. Lives => o \in adrift' \/ op'.site = o \/ Matches(o)'
    BY DEF OpShape, CallShape, PhaseShape, OpRow, Rewritten, OpMatches,
         Matches, Lives, Exists, Enabled, Accepting
  <2>2. /\ op.site \in {o, None} /\ phase' = phase
        /\ \A t \in Site : t # o => (t \in draining' <=> t \in draining)
    BY DEF TypeOK, OpShape
  <2> QED  BY <1>3, <2>1, <2>2, OthersMatchAfter, Assumed
<1>12. OpMatches'
  BY ZenonT(60) DEF OpShape, CallShape, PhaseShape, OpRow, OpInstance, OthersMatch,
         OpMatches, Matches, Lives, Exists, Enabled, Accepting, Rewritten
<1>13. UniqueRows'
  <2>1. /\ o \in Site
        /\ \/ ~Exists(o)'
           \/ Exists(o) /\ row'[o].cfg = row[o].cfg
           \/ Unique(o, row'[o].cfg)
    BY DEF UniqueRows, OpShape, OpRow, Exists, Enabled
  <2>2. op'.kind = "put" => op'.site = o /\ Unique(o, op'.old)
    BY DEF UniqueRows
  <2> QED  BY <1>3, <2>1, <2>2, UniqueRowsAfter DEF OthersUntouched
<1>14. OthersRouted'
  <2>1. o \in unrouted' \/ op'.site = o \/ RouteMatches(o)'
    BY DEF OpShape, CallShape, OpRow, OpRouted, RouteMatches, Routed,
         RouteFree, Exists, Enabled, Rewritten
  <2>2. op.site \in {o, None} /\ phase' = phase
    BY DEF TypeOK, OpShape
  <2> QED  BY <1>3, <2>1, <2>2, OthersRoutedAfter, Assumed
<1>15. OpRouted'
  BY ZenonT(60) DEF OpShape, CallShape, OpRow, OpRouted, RouteMatches, Routed, RouteFree,
         Exists, Rewritten
<1>16. RowOutlivesInstance'
  BY DEF OpShape, CallShape, OpRow, OpInstance, PhaseShape,
         RowOutlivesInstance, Exists, Enabled
<1>17. NothingAcceptsAfterShutdown'
  BY DEF OpShape, CallShape, PhaseShape, NothingAcceptsAfterShutdown,
         Accepting, Plain, ShutdownPass
<1>18. RoutesReachTheirConfig'
  BY DEF OpShape, CallShape, OpRow, OpInstance, PhaseShape, AcceptingIsEnabled,
         RoutesReachTheirConfig, Exists, Enabled, Accepting, Plain
<1> QED BY <1>4, <1>5, <1>6, <1>7, <1>8, <1>9, <1>10, <1>11, <1>12, <1>13,
         <1>14, <1>15, <1>16, <1>17, <1>18

LEMMA ReloadUpdatedKeeps ==
  ASSUME IInv, ReloadUpdated
  PROVE  IInv'
<1>0. PICK o \in Site : op.site = o
  BY OpHasSite DEF IInv, OpShape, ReloadUpdated
<1>1. /\ op.kind = "put" /\ op.at = "reload" /\ call.fn = "none"
  BY DEF IInv, OpShape, CallShape, ReloadUpdated, TypeOK
<1>2. /\ HandlerOnly /\ faults' \in 0..MaxFault /\ UNCHANGED <<row, adrift, unrouted>>
      /\ \/ Enabled(op.site) /\ OpAt("start", "none")
         \/ ~Enabled(op.site) /\ OpAt("register", "none")
         \/ OpAt("roll back", "none")
  <2>1. CASE NoFault /\ Goto(IF Enabled(op.site) THEN "start" ELSE "register")
    <3>1. CASE Enabled(op.site)
      BY <2>1, <3>1, GotoIs, NoFaultCounted
         DEF IInv, ReloadUpdated, Labels, database, history
    <3>2. CASE ~Enabled(op.site)
      BY <2>1, <3>2, GotoIs, NoFaultCounted
         DEF IInv, ReloadUpdated, Labels, database, history
    <3> QED  BY <3>1, <3>2
  <2>2. CASE Fault /\ Goto("roll back")
    BY <2>2, GotoIs, FaultCounted DEF IInv, ReloadUpdated, Labels, database, history
  <2> QED  BY <2>1, <2>2 DEF ReloadUpdated
<1> USE <1>0, <1>1, <1>2 DEF IInv, OpAt, HandlerOnly, runtime
<1>3. OthersUntouched(o)
  BY DEF OthersUntouched
<1>4. TypeOK'
  BY Typed, Assumed, TypedAfter DEF TypeOK, OpShape, CallShape, PhaseShape,
         ShutdownPass
<1>5. OpShape'
  BY DEF OpShape, CallShape, PhaseShape
<1>6. CallShape'
  BY DEF OpShape, CallShape, PhaseShape, ShutdownPass
<1>7. PhaseShape'
  BY DEF TypeOK, OpShape, CallShape, PhaseShape, OpRow, RowOutlivesInstance,
         Exists, Enabled, Accepting, Plain, ShutdownPass
<1>8. OpRow'
  BY DEF OpShape, CallShape, PhaseShape, OpRow, Rewritten, Exists, Enabled
<1>9. OpInstance'
  BY DEF OpShape, CallShape, PhaseShape, OpInstance, RowOutlivesInstance,
         AcceptingIsEnabled, Exists, Enabled, Accepting, Plain
<1>10. AcceptingIsEnabled'
  BY DEF OpShape, CallShape, OpRow, OpInstance, AcceptingIsEnabled,
         RowOutlivesInstance, Exists, Enabled, Accepting, Plain
<1>11. OthersMatch'
  <2>1. Lives => o \in adrift' \/ op'.site = o \/ Matches(o)'
    BY DEF OpShape, CallShape, PhaseShape, OpRow, Rewritten, OpMatches,
         Matches, Lives, Exists, Enabled, Accepting
  <2>2. /\ op.site \in {o, None} /\ phase' = phase
        /\ \A t \in Site : t # o => (t \in draining' <=> t \in draining)
    BY DEF TypeOK, OpShape
  <2> QED  BY <1>3, <2>1, <2>2, OthersMatchAfter, Assumed
<1>12. OpMatches'
  BY DEF OpShape, CallShape, PhaseShape, OpRow, OpInstance, OthersMatch,
         OpMatches, Matches, Lives, Exists, Enabled, Accepting, Rewritten
<1>13. UniqueRows'
  <2>1. /\ o \in Site
        /\ \/ ~Exists(o)'
           \/ Exists(o) /\ row'[o].cfg = row[o].cfg
           \/ Unique(o, row'[o].cfg)
    BY DEF UniqueRows, OpShape, OpRow, Exists, Enabled
  <2>2. op'.kind = "put" => op'.site = o /\ Unique(o, op'.old)
    BY DEF UniqueRows
  <2> QED  BY <1>3, <2>1, <2>2, UniqueRowsAfter DEF OthersUntouched
<1>14. OthersRouted'
  <2>1. o \in unrouted' \/ op'.site = o \/ RouteMatches(o)'
    BY DEF OpShape, CallShape, OpRow, OpRouted, RouteMatches, Routed,
         RouteFree, Exists, Enabled, Rewritten
  <2>2. op.site \in {o, None} /\ phase' = phase
    BY DEF TypeOK, OpShape
  <2> QED  BY <1>3, <2>1, <2>2, OthersRoutedAfter, Assumed
<1>15. OpRouted'
  BY DEF OpShape, CallShape, OpRow, OpRouted, RouteMatches, Routed, RouteFree,
         Exists, Rewritten
<1>16. RowOutlivesInstance'
  BY DEF OpShape, CallShape, OpRow, OpInstance, PhaseShape,
         RowOutlivesInstance, Exists, Enabled
<1>17. NothingAcceptsAfterShutdown'
  BY DEF OpShape, CallShape, PhaseShape, NothingAcceptsAfterShutdown,
         Accepting, Plain, ShutdownPass
<1>18. RoutesReachTheirConfig'
  BY DEF OpShape, CallShape, OpRow, OpInstance, PhaseShape, AcceptingIsEnabled,
         RoutesReachTheirConfig, Exists, Enabled, Accepting, Plain
<1> QED BY <1>4, <1>5, <1>6, <1>7, <1>8, <1>9, <1>10, <1>11, <1>12, <1>13,
         <1>14, <1>15, <1>16, <1>17, <1>18

LEMMA RollBackUpdateKeeps ==
  ASSUME IInv, RollBackUpdate
  PROVE  IInv'
<1>0. PICK o \in Site : op.site = o
  BY OpHasSite DEF IInv, OpShape, RollBackUpdate
<1>1. /\ op.kind = "put" /\ call.fn = "none"
      /\ op.at = "roll back" \/ (op.at = "start" /\ op.result = "refused")
  BY DEF IInv, OpShape, CallShape, RollBackUpdate, Returned, TypeOK
<1>2. /\ HandlerOnly /\ faults' \in 0..MaxFault
      /\ \/ /\ RowIs(op.site, row[op.site].state, op.old) /\ OpAt("reload old", "none")
            /\ UNCHANGED <<adrift, unrouted>>
         \/ /\ row' = row /\ OpEnds
            /\ adrift' = adrift \cup {op.site} /\ unrouted' = unrouted \cup {op.site}
  <2>1. op.old \in Configs
    BY Typed DEF IInv, Ops
  <2>2. CASE /\ NoFault /\ SetConfig(op.site, op.old) /\ Goto("reload old")
             /\ UNCHANGED history
    BY <1>0, <2>1, <2>2, SetConfigIs, GotoIs, NoFaultCounted
       DEF IInv, RollBackUpdate, Labels, history
  <2>3. CASE /\ Fault /\ UNCHANGED row /\ op' = NoOp /\ adrift' = adrift \cup {op.site}
             /\ unrouted' = unrouted \cup {op.site}
    BY <2>3, EndIs, FaultCounted DEF IInv, RollBackUpdate
  <2> QED  BY <2>2, <2>3 DEF RollBackUpdate
<1> USE <1>0, <1>1, <1>2 DEF IInv, OpAt, OpEnds, RowIs, HandlerOnly, runtime
<1>3. OthersUntouched(o)
  BY DEF OthersUntouched
<1>4. TypeOK'
  BY Typed, Assumed, TypedAfter DEF TypeOK, OpShape, CallShape, PhaseShape,
         ShutdownPass
<1>5. OpShape'
  BY DEF OpShape, CallShape, PhaseShape
<1>6. CallShape'
  BY DEF OpShape, CallShape, PhaseShape, ShutdownPass
<1>7. PhaseShape'
  BY DEF TypeOK, OpShape, CallShape, PhaseShape, OpRow, RowOutlivesInstance,
         Exists, Enabled, Accepting, Plain, ShutdownPass
<1>8. OpRow'
  BY DEF OpShape, CallShape, PhaseShape, OpRow, Rewritten, Exists, Enabled
<1>9. OpInstance'
  BY DEF OpShape, CallShape, PhaseShape, OpInstance, RowOutlivesInstance,
         AcceptingIsEnabled, Exists, Enabled, Accepting, Plain
<1>10. AcceptingIsEnabled'
  BY ZenonT(60) DEF OpShape, CallShape, OpRow, OpInstance, AcceptingIsEnabled,
         RowOutlivesInstance, Exists, Enabled, Accepting, Plain
<1>11. OthersMatch'
  <2>1. Lives => o \in adrift' \/ op'.site = o \/ Matches(o)'
    BY DEF OpShape, CallShape, PhaseShape, OpRow, Rewritten, OpMatches,
         Matches, Lives, Exists, Enabled, Accepting
  <2>2. /\ op.site \in {o, None} /\ phase' = phase
        /\ \A t \in Site : t # o => (t \in draining' <=> t \in draining)
    BY DEF TypeOK, OpShape
  <2> QED  BY <1>3, <2>1, <2>2, OthersMatchAfter, Assumed
<1>12. OpMatches'
  BY DEF OpShape, OpMatches, Matches, Lives, Enabled, Accepting
<1>13. UniqueRows'
  <2>1. /\ o \in Site
        /\ \/ ~Exists(o)'
           \/ Exists(o) /\ row'[o].cfg = row[o].cfg
           \/ Unique(o, row'[o].cfg)
    BY DEF UniqueRows, OpShape, OpRow, Exists, Enabled
  <2>2. op'.kind = "put" => op'.site = o /\ Unique(o, op'.old)
    BY DEF UniqueRows
  <2> QED  BY <1>3, <2>1, <2>2, UniqueRowsAfter DEF OthersUntouched
<1>14. OthersRouted'
  <2>1. o \in unrouted' \/ op'.site = o \/ RouteMatches(o)'
    BY DEF OpShape, CallShape, OpRow, OpRouted, RouteMatches, Routed,
         RouteFree, Exists, Enabled, Rewritten
  <2>2. op.site \in {o, None} /\ phase' = phase
    BY DEF TypeOK, OpShape
  <2> QED  BY <1>3, <2>1, <2>2, OthersRoutedAfter, Assumed
<1>15. OpRouted'
  BY ZenonT(60) DEF OpShape, CallShape, OpRow, OpRouted, RouteMatches, Routed, RouteFree,
         Exists, Rewritten
<1>16. RowOutlivesInstance'
  BY DEF OpShape, CallShape, OpRow, OpInstance, PhaseShape,
         RowOutlivesInstance, Exists, Enabled
<1>17. NothingAcceptsAfterShutdown'
  BY DEF OpShape, CallShape, PhaseShape, NothingAcceptsAfterShutdown,
         Accepting, Plain, ShutdownPass
<1>18. RoutesReachTheirConfig'
  BY DEF OpShape, CallShape, OpRow, OpInstance, PhaseShape, AcceptingIsEnabled,
         RoutesReachTheirConfig, Exists, Enabled, Accepting, Plain
<1> QED BY <1>4, <1>5, <1>6, <1>7, <1>8, <1>9, <1>10, <1>11, <1>12, <1>13,
         <1>14, <1>15, <1>16, <1>17, <1>18

LEMMA ReloadOldKeeps ==
  ASSUME IInv, ReloadOld
  PROVE  IInv'
<1>0. PICK o \in Site : op.site = o
  BY OpHasSite DEF IInv, OpShape, ReloadOld
<1>1. /\ op.kind = "put" /\ op.at = "reload old" /\ call.fn = "none" /\ op.result = "none"
  BY DEF IInv, OpShape, CallShape, ReloadOld, TypeOK
<1>2. /\ HandlerOnly /\ faults' \in 0..MaxFault /\ UNCHANGED <<row, unrouted>>
      /\ \/ Enabled(op.site) /\ OpAt("restart", "none") /\ UNCHANGED adrift
         \/ (Enabled(op.site) => Accepting(op.site)) /\ OpEnds /\ UNCHANGED adrift
         \/ OpEnds /\ adrift' = adrift \cup {op.site}
  <2>1. CASE /\ NoFault /\ Enabled(op.site) /\ ~IsRunning(op.site)
             /\ Goto("restart") /\ UNCHANGED history
    BY <2>1, GotoIs, NoFaultCounted DEF IInv, ReloadOld, Labels, database, history
  <2>2. CASE NoFault /\ ~(Enabled(op.site) /\ ~IsRunning(op.site)) /\ Answer
    BY <2>2, EndIs, NoFaultCounted
       DEF IInv, ReloadOld, Answer, IsRunning, database, history
  <2>3. CASE Fault /\ GiveUp
    BY <2>3, EndIs, FaultCounted DEF IInv, ReloadOld, GiveUp, database
  <2> QED  BY <2>1, <2>2, <2>3 DEF ReloadOld
<1> USE <1>0, <1>1, <1>2 DEF IInv, OpAt, OpEnds, HandlerOnly, runtime
<1>3. OthersUntouched(o)
  BY DEF OthersUntouched
<1>4. TypeOK'
  BY Typed, Assumed, TypedAfter DEF TypeOK, OpShape, CallShape, PhaseShape,
         ShutdownPass
<1>5. OpShape'
  BY DEF OpShape, CallShape, PhaseShape
<1>6. CallShape'
  BY DEF OpShape, CallShape, PhaseShape, ShutdownPass
<1>7. PhaseShape'
  BY DEF TypeOK, OpShape, CallShape, PhaseShape, OpRow, RowOutlivesInstance,
         Exists, Enabled, Accepting, Plain, ShutdownPass
<1>8. OpRow'
  BY DEF OpShape, CallShape, PhaseShape, OpRow, Rewritten, Exists, Enabled
<1>9. OpInstance'
  BY DEF OpShape, CallShape, PhaseShape, OpInstance, RowOutlivesInstance,
         AcceptingIsEnabled, Exists, Enabled, Accepting, Plain
<1>10. AcceptingIsEnabled'
  BY DEF OpShape, CallShape, OpRow, OpInstance, AcceptingIsEnabled,
         RowOutlivesInstance, Exists, Enabled, Accepting, Plain
<1>11. OthersMatch'
  <2>1. Lives => o \in adrift' \/ op'.site = o \/ Matches(o)'
    BY DEF OpShape, CallShape, PhaseShape, OpRow, Rewritten, OpMatches,
         Matches, Lives, Exists, Enabled, Accepting
  <2>2. /\ op.site \in {o, None} /\ phase' = phase
        /\ \A t \in Site : t # o => (t \in draining' <=> t \in draining)
    BY DEF TypeOK, OpShape
  <2> QED  BY <1>3, <2>1, <2>2, OthersMatchAfter, Assumed
<1>12. OpMatches'
  BY DEF OpShape, CallShape, PhaseShape, OpRow, OpInstance, OthersMatch,
         OpMatches, Matches, Lives, Exists, Enabled, Accepting, Rewritten
<1>13. UniqueRows'
  <2>1. /\ o \in Site
        /\ \/ ~Exists(o)'
           \/ Exists(o) /\ row'[o].cfg = row[o].cfg
           \/ Unique(o, row'[o].cfg)
    BY DEF UniqueRows, OpShape, OpRow, Exists, Enabled
  <2>2. op'.kind = "put" => op'.site = o /\ Unique(o, op'.old)
    BY DEF UniqueRows
  <2> QED  BY <1>3, <2>1, <2>2, UniqueRowsAfter DEF OthersUntouched
<1>14. OthersRouted'
  <2>1. o \in unrouted' \/ op'.site = o \/ RouteMatches(o)'
    BY DEF OpShape, CallShape, OpRow, OpRouted, RouteMatches, Routed,
         RouteFree, Exists, Enabled, Rewritten
  <2>2. op.site \in {o, None} /\ phase' = phase
    BY DEF TypeOK, OpShape
  <2> QED  BY <1>3, <2>1, <2>2, OthersRoutedAfter, Assumed
<1>15. OpRouted'
  BY DEF OpShape, CallShape, OpRow, OpRouted, RouteMatches, Routed, RouteFree,
         Exists, Rewritten
<1>16. RowOutlivesInstance'
  BY DEF OpShape, CallShape, OpRow, OpInstance, PhaseShape,
         RowOutlivesInstance, Exists, Enabled
<1>17. NothingAcceptsAfterShutdown'
  BY DEF OpShape, CallShape, PhaseShape, NothingAcceptsAfterShutdown,
         Accepting, Plain, ShutdownPass
<1>18. RoutesReachTheirConfig'
  BY DEF OpShape, CallShape, OpRow, OpInstance, PhaseShape, AcceptingIsEnabled,
         RoutesReachTheirConfig, Exists, Enabled, Accepting, Plain
<1> QED BY <1>4, <1>5, <1>6, <1>7, <1>8, <1>9, <1>10, <1>11, <1>12, <1>13,
         <1>14, <1>15, <1>16, <1>17, <1>18

LEMMA RollBackRouteKeeps ==
  ASSUME IInv, RollBackRoute
  PROVE  IInv'
<1>0. PICK o \in Site : op.site = o
  BY OpHasSite DEF IInv, OpShape, RollBackRoute
<1>1. /\ op.kind = "put" /\ op.at = "roll back route" /\ call.fn = "none"
  BY DEF IInv, OpShape, CallShape, RollBackRoute, TypeOK
<1>2. /\ HandlerOnly /\ faults' \in 0..MaxFault /\ OpEnds
      /\ \/ RowIs(op.site, row[op.site].state, op.old) /\ UNCHANGED <<adrift, unrouted>>
         \/ /\ row' = row
            /\ adrift' = adrift \cup {op.site} /\ unrouted' = unrouted \cup {op.site}
  <2>1. op.old \in Configs
    BY Typed DEF IInv, Ops
  <2>2. CASE NoFault /\ SetConfig(op.site, op.old) /\ Answer
    BY <1>0, <2>1, <2>2, SetConfigIs, EndIs, NoFaultCounted
       DEF IInv, RollBackRoute, Answer, history
  <2>3. CASE /\ Fault /\ UNCHANGED row /\ op' = NoOp /\ adrift' = adrift \cup {op.site}
             /\ unrouted' = unrouted \cup {op.site}
    BY <2>3, EndIs, FaultCounted DEF IInv, RollBackRoute
  <2> QED  BY <2>2, <2>3 DEF RollBackRoute
<1> USE <1>0, <1>1, <1>2 DEF IInv, OpEnds, RowIs, HandlerOnly, runtime
<1>3. OthersUntouched(o)
  BY DEF OthersUntouched
<1>4. TypeOK'
  BY Typed, Assumed, TypedAfter DEF TypeOK, OpShape, CallShape, PhaseShape,
         ShutdownPass
<1>5. OpShape'
  BY DEF OpShape, CallShape, PhaseShape
<1>6. CallShape'
  BY DEF OpShape, CallShape, PhaseShape, ShutdownPass
<1>7. PhaseShape'
  BY DEF TypeOK, OpShape, CallShape, PhaseShape, OpRow, RowOutlivesInstance,
         Exists, Enabled, Accepting, Plain, ShutdownPass
<1>8. OpRow'
  BY DEF OpShape, CallShape, PhaseShape, OpRow, Rewritten, Exists, Enabled
<1>9. OpInstance'
  BY DEF OpShape, CallShape, PhaseShape, OpInstance, RowOutlivesInstance,
         AcceptingIsEnabled, Exists, Enabled, Accepting, Plain
<1>10. AcceptingIsEnabled'
  BY DEF OpShape, CallShape, OpRow, OpInstance, AcceptingIsEnabled,
         RowOutlivesInstance, Exists, Enabled, Accepting, Plain
<1>11. OthersMatch'
  <2>1. Lives => o \in adrift' \/ op'.site = o \/ Matches(o)'
    BY DEF OpShape, CallShape, PhaseShape, OpRow, Rewritten, OpMatches,
         Matches, Lives, Exists, Enabled, Accepting
  <2>2. /\ op.site \in {o, None} /\ phase' = phase
        /\ \A t \in Site : t # o => (t \in draining' <=> t \in draining)
    BY DEF TypeOK, OpShape
  <2> QED  BY <1>3, <2>1, <2>2, OthersMatchAfter, Assumed
<1>12. OpMatches'
  BY DEF OpShape, CallShape, PhaseShape, OpRow, OpInstance, OthersMatch,
         OpMatches, Matches, Lives, Exists, Enabled, Accepting, Rewritten
<1>13. UniqueRows'
  <2>1. /\ o \in Site
        /\ \/ ~Exists(o)'
           \/ Exists(o) /\ row'[o].cfg = row[o].cfg
           \/ Unique(o, row'[o].cfg)
    BY DEF UniqueRows, OpShape, OpRow, Exists, Enabled
  <2>2. op'.kind = "put" => op'.site = o /\ Unique(o, op'.old)
    BY DEF UniqueRows
  <2> QED  BY <1>3, <2>1, <2>2, UniqueRowsAfter DEF OthersUntouched
<1>14. OthersRouted'
  <2>1. o \in unrouted' \/ op'.site = o \/ RouteMatches(o)'
    BY DEF OpShape, CallShape, OpRow, OpRouted, RouteMatches, Routed,
         RouteFree, Exists, Enabled, Rewritten
  <2>2. op.site \in {o, None} /\ phase' = phase
    BY DEF TypeOK, OpShape
  <2> QED  BY <1>3, <2>1, <2>2, OthersRoutedAfter, Assumed
<1>15. OpRouted'
  BY DEF OpShape, CallShape, OpRow, OpRouted, RouteMatches, Routed, RouteFree,
         Exists, Rewritten
<1>16. RowOutlivesInstance'
  BY DEF OpShape, CallShape, OpRow, OpInstance, PhaseShape,
         RowOutlivesInstance, Exists, Enabled
<1>17. NothingAcceptsAfterShutdown'
  BY DEF OpShape, CallShape, PhaseShape, NothingAcceptsAfterShutdown,
         Accepting, Plain, ShutdownPass
<1>18. RoutesReachTheirConfig'
  BY DEF OpShape, CallShape, OpRow, OpInstance, PhaseShape, AcceptingIsEnabled,
         RoutesReachTheirConfig, Exists, Enabled, Accepting, Plain
<1> QED BY <1>4, <1>5, <1>6, <1>7, <1>8, <1>9, <1>10, <1>11, <1>12, <1>13,
         <1>14, <1>15, <1>16, <1>17, <1>18

LEMMA DeleteRowKeeps ==
  ASSUME IInv, DeleteRow
  PROVE  IInv'
<1>0. PICK o \in Site : op.site = o
  BY OpHasSite DEF IInv, OpShape, DeleteRow
<1>1. /\ op.kind = "delete" /\ op.at = "stop" /\ op.result = "ok" /\ call.fn = "none"
  BY DEF DeleteRow, Returned
<1>2. /\ HandlerOnly /\ faults' \in 0..MaxFault /\ UNCHANGED <<adrift, unrouted>>
      /\ \/ RowIs(op.site, "absent", NoConfig) /\ OpAt("unregister", "none")
         \/ row' = row /\ OpAt("reload to restart", "none")
  <2>1. NoConfig \in Configs
    BY DEF Configs
  <2>2. CASE NoFault /\ row' = [row EXCEPT ![op.site] = NoRow] /\ Goto("unregister")
    <3>1. RowIs(op.site, "absent", NoConfig)
      BY <1>0, <2>1, <2>2, RowReplaced DEF IInv, NoRow, RowStates
    <3> QED  BY <2>2, <3>1, GotoIs, NoFaultCounted DEF IInv, DeleteRow, Labels, history
  <2>3. CASE Fault /\ UNCHANGED row /\ Goto("reload to restart")
    BY <2>3, GotoIs, FaultCounted DEF IInv, DeleteRow, Labels, history
  <2> QED  BY <2>2, <2>3 DEF DeleteRow
<1> USE <1>0, <1>1, <1>2 DEF IInv, OpAt, RowIs, HandlerOnly, runtime
<1>3. OthersUntouched(o)
  BY DEF OthersUntouched
<1>4. TypeOK'
  BY Typed, Assumed, TypedAfter DEF TypeOK, OpShape, CallShape, PhaseShape,
         ShutdownPass
<1>5. OpShape'
  BY DEF OpShape, CallShape, PhaseShape
<1>6. CallShape'
  BY DEF OpShape, CallShape, PhaseShape, ShutdownPass
<1>7. PhaseShape'
  BY DEF TypeOK, OpShape, CallShape, PhaseShape, OpRow, RowOutlivesInstance,
         Exists, Enabled, Accepting, Plain, ShutdownPass
<1>8. OpRow'
  BY DEF OpShape, CallShape, PhaseShape, OpRow, Rewritten, Exists, Enabled
<1>9. OpInstance'
  BY DEF OpShape, CallShape, PhaseShape, OpInstance, RowOutlivesInstance,
         AcceptingIsEnabled, Exists, Enabled, Accepting, Plain
<1>10. AcceptingIsEnabled'
  BY ZenonT(60) DEF OpShape, CallShape, OpRow, OpInstance, AcceptingIsEnabled,
         RowOutlivesInstance, Exists, Enabled, Accepting, Plain
<1>11. OthersMatch'
  <2>1. Lives => o \in adrift' \/ op'.site = o \/ Matches(o)'
    BY DEF OpShape, CallShape, PhaseShape, OpRow, Rewritten, OpMatches,
         Matches, Lives, Exists, Enabled, Accepting
  <2>2. /\ op.site \in {o, None} /\ phase' = phase
        /\ \A t \in Site : t # o => (t \in draining' <=> t \in draining)
    BY DEF TypeOK, OpShape
  <2> QED  BY <1>3, <2>1, <2>2, OthersMatchAfter, Assumed
<1>12. OpMatches'
  BY DEF OpShape, CallShape, PhaseShape, OpRow, OpInstance, OthersMatch,
         OpMatches, Matches, Lives, Exists, Enabled, Accepting, Rewritten
<1>13. UniqueRows'
  <2>1. /\ o \in Site
        /\ \/ ~Exists(o)'
           \/ Exists(o) /\ row'[o].cfg = row[o].cfg
           \/ Unique(o, row'[o].cfg)
    BY DEF UniqueRows, OpShape, OpRow, Exists, Enabled
  <2>2. op'.kind = "put" => op'.site = o /\ Unique(o, op'.old)
    BY DEF UniqueRows
  <2> QED  BY <1>3, <2>1, <2>2, UniqueRowsAfter DEF OthersUntouched
<1>14. OthersRouted'
  <2>1. o \in unrouted' \/ op'.site = o \/ RouteMatches(o)'
    BY DEF OpShape, CallShape, OpRow, OpRouted, RouteMatches, Routed,
         RouteFree, Exists, Enabled, Rewritten
  <2>2. op.site \in {o, None} /\ phase' = phase
    BY DEF TypeOK, OpShape
  <2> QED  BY <1>3, <2>1, <2>2, OthersRoutedAfter, Assumed
<1>15. OpRouted'
  BY ZenonT(60) DEF OpShape, CallShape, OpRow, OpRouted, RouteMatches, Routed, RouteFree,
         Exists, Rewritten
<1>16. RowOutlivesInstance'
  BY DEF OpShape, CallShape, OpRow, OpInstance, PhaseShape,
         RowOutlivesInstance, Exists, Enabled
<1>17. NothingAcceptsAfterShutdown'
  BY DEF OpShape, CallShape, PhaseShape, NothingAcceptsAfterShutdown,
         Accepting, Plain, ShutdownPass
<1>18. RoutesReachTheirConfig'
  BY DEF OpShape, CallShape, OpRow, OpInstance, PhaseShape, AcceptingIsEnabled,
         RoutesReachTheirConfig, Exists, Enabled, Accepting, Plain
<1> QED BY <1>4, <1>5, <1>6, <1>7, <1>8, <1>9, <1>10, <1>11, <1>12, <1>13,
         <1>14, <1>15, <1>16, <1>17, <1>18

LEMMA DisableClosedKeeps ==
  ASSUME IInv, DisableClosed
  PROVE  IInv'
<1>0. PICK o \in Site : op.site = o
  BY OpHasSite DEF IInv, OpShape, DisableClosed, Returned
<1>1. /\ op.kind \in {"put", "delete"} /\ op.at = "stop" /\ op.result = "closed"
      /\ call.fn = "none"
  BY DEF DisableClosed, Returned
<1>2. /\ HandlerOnly /\ faults' \in 0..MaxFault /\ OpEnds /\ UNCHANGED unrouted
      /\ \/ RowIs(op.site, "disabled", row[op.site].cfg) /\ UNCHANGED adrift
         \/ row' = row /\ adrift' = adrift \cup {op.site}
  <2>1. CASE NoFault /\ SetEnabled(op.site, "disabled") /\ Answer
    BY <1>0, <2>1, SetEnabledIs, EndIs, NoFaultCounted
       DEF IInv, DisableClosed, Answer, RowStates, history
  <2>2. CASE Fault /\ UNCHANGED row /\ GiveUp
    BY <2>2, EndIs, FaultCounted DEF IInv, DisableClosed, GiveUp
  <2> QED  BY <2>1, <2>2 DEF DisableClosed
<1> USE <1>0, <1>1, <1>2 DEF IInv, OpEnds, RowIs, HandlerOnly, runtime
<1>3. OthersUntouched(o)
  BY DEF OthersUntouched
<1>4. TypeOK'
  BY Typed, Assumed, TypedAfter DEF TypeOK, OpShape, CallShape, PhaseShape,
         ShutdownPass
<1>5. OpShape'
  BY DEF OpShape, CallShape, PhaseShape
<1>6. CallShape'
  BY DEF OpShape, CallShape, PhaseShape, ShutdownPass
<1>7. PhaseShape'
  BY DEF TypeOK, OpShape, CallShape, PhaseShape, OpRow, RowOutlivesInstance,
         Exists, Enabled, Accepting, Plain, ShutdownPass
<1>8. OpRow'
  BY DEF OpShape, CallShape, PhaseShape, OpRow, Rewritten, Exists, Enabled
<1>9. OpInstance'
  BY DEF OpShape, CallShape, PhaseShape, OpInstance, RowOutlivesInstance,
         AcceptingIsEnabled, Exists, Enabled, Accepting, Plain
<1>10. AcceptingIsEnabled'
  BY DEF OpShape, CallShape, OpRow, OpInstance, AcceptingIsEnabled,
         RowOutlivesInstance, Exists, Enabled, Accepting, Plain
<1>11. OthersMatch'
  <2>1. Lives => o \in adrift' \/ op'.site = o \/ Matches(o)'
    BY DEF OpShape, CallShape, PhaseShape, OpRow, Rewritten, OpMatches,
         Matches, Lives, Exists, Enabled, Accepting
  <2>2. /\ op.site \in {o, None} /\ phase' = phase
        /\ \A t \in Site : t # o => (t \in draining' <=> t \in draining)
    BY DEF TypeOK, OpShape
  <2> QED  BY <1>3, <2>1, <2>2, OthersMatchAfter, Assumed
<1>12. OpMatches'
  BY DEF OpShape, CallShape, PhaseShape, OpRow, OpInstance, OthersMatch,
         OpMatches, Matches, Lives, Exists, Enabled, Accepting, Rewritten
<1>13. UniqueRows'
  <2>1. /\ o \in Site
        /\ \/ ~Exists(o)'
           \/ Exists(o) /\ row'[o].cfg = row[o].cfg
           \/ Unique(o, row'[o].cfg)
    BY DEF UniqueRows, OpShape, OpRow, Exists, Enabled
  <2>2. op'.kind = "put" => op'.site = o /\ Unique(o, op'.old)
    BY DEF UniqueRows
  <2> QED  BY <1>3, <2>1, <2>2, UniqueRowsAfter DEF OthersUntouched
<1>14. OthersRouted'
  <2>1. o \in unrouted' \/ op'.site = o \/ RouteMatches(o)'
    BY DEF OpShape, CallShape, OpRow, OpRouted, RouteMatches, Routed,
         RouteFree, Exists, Enabled, Rewritten
  <2>2. op.site \in {o, None} /\ phase' = phase
    BY DEF TypeOK, OpShape
  <2> QED  BY <1>3, <2>1, <2>2, OthersRoutedAfter, Assumed
<1>15. OpRouted'
  BY DEF OpShape, CallShape, OpRow, OpRouted, RouteMatches, Routed, RouteFree,
         Exists, Rewritten
<1>16. RowOutlivesInstance'
  BY DEF OpShape, CallShape, OpRow, OpInstance, PhaseShape,
         RowOutlivesInstance, Exists, Enabled
<1>17. NothingAcceptsAfterShutdown'
  BY DEF OpShape, CallShape, PhaseShape, NothingAcceptsAfterShutdown,
         Accepting, Plain, ShutdownPass
<1>18. RoutesReachTheirConfig'
  BY DEF OpShape, CallShape, OpRow, OpInstance, PhaseShape, AcceptingIsEnabled,
         RoutesReachTheirConfig, Exists, Enabled, Accepting, Plain
<1> QED BY <1>4, <1>5, <1>6, <1>7, <1>8, <1>9, <1>10, <1>11, <1>12, <1>13,
         <1>14, <1>15, <1>16, <1>17, <1>18

LEMMA StopRefusedKeeps ==
  ASSUME IInv, StopRefused
  PROVE  IInv'
<1>0. PICK o \in Site : op.site = o
  BY OpHasSite DEF IInv, OpShape, StopRefused, Returned
<1>1. /\ op.at = "stop" /\ op.result = "refused" /\ call.fn = "none" /\ call.at = "idle"
  BY DEF IInv, CallShape, StopRefused, Returned
<1>2. /\ HandlerOnly /\ faults' \in 0..MaxFault /\ OpEnds
      /\ UNCHANGED <<row, adrift, unrouted>>
  BY EndIs, NoFaultCounted DEF IInv, StopRefused, Answer, database, history
<1> USE <1>0, <1>1, <1>2 DEF IInv, OpEnds, HandlerOnly, runtime
<1>3. OthersUntouched(o)
  BY DEF OthersUntouched
<1>4. TypeOK'
  BY Typed, Assumed, TypedAfter DEF TypeOK, OpShape, CallShape, PhaseShape,
         ShutdownPass
<1>5. OpShape'
  BY DEF OpShape, CallShape, PhaseShape
<1>6. CallShape'
  BY DEF OpShape, CallShape, PhaseShape, ShutdownPass
<1>7. PhaseShape'
  BY DEF TypeOK, OpShape, CallShape, PhaseShape, OpRow, RowOutlivesInstance,
         Exists, Enabled, Accepting, Plain, ShutdownPass
<1>8. OpRow'
  BY DEF OpShape, CallShape, PhaseShape, OpRow, Rewritten, Exists, Enabled
<1>9. OpInstance'
  BY DEF OpShape, CallShape, PhaseShape, OpInstance, RowOutlivesInstance,
         AcceptingIsEnabled, Exists, Enabled, Accepting, Plain
<1>10. AcceptingIsEnabled'
  BY DEF OpShape, CallShape, OpRow, OpInstance, AcceptingIsEnabled,
         RowOutlivesInstance, Exists, Enabled, Accepting, Plain
<1>11. OthersMatch'
  <2>1. Lives => o \in adrift' \/ op'.site = o \/ Matches(o)'
    BY DEF OpShape, CallShape, PhaseShape, OpRow, Rewritten, OpMatches,
         Matches, Lives, Exists, Enabled, Accepting
  <2>2. /\ op.site \in {o, None} /\ phase' = phase
        /\ \A t \in Site : t # o => (t \in draining' <=> t \in draining)
    BY DEF TypeOK, OpShape
  <2> QED  BY <1>3, <2>1, <2>2, OthersMatchAfter, Assumed
<1>12. OpMatches'
  BY DEF OpShape, CallShape, PhaseShape, OpRow, OpInstance, OthersMatch,
         OpMatches, Matches, Lives, Exists, Enabled, Accepting, Rewritten
<1>13. UniqueRows'
  <2>1. /\ o \in Site
        /\ \/ ~Exists(o)'
           \/ Exists(o) /\ row'[o].cfg = row[o].cfg
           \/ Unique(o, row'[o].cfg)
    BY DEF UniqueRows, OpShape, OpRow, Exists, Enabled
  <2>2. op'.kind = "put" => op'.site = o /\ Unique(o, op'.old)
    BY DEF UniqueRows
  <2> QED  BY <1>3, <2>1, <2>2, UniqueRowsAfter DEF OthersUntouched
<1>14. OthersRouted'
  <2>1. o \in unrouted' \/ op'.site = o \/ RouteMatches(o)'
    <3>1. op.kind \in {"off", "put", "delete"}
      BY DEF TypeOK, OpShape
    <3>2. op.site \in unrouted \/ RouteMatches(op.site)
      BY <3>1 DEF OpShape, OpRow, OpRouted, Routed, RouteMatches, Exists, Rewritten
    <3> QED  BY <3>2 DEF RouteMatches, Exists
  <2>2. op.site \in {o, None} /\ phase' = phase
    BY DEF TypeOK, OpShape
  <2> QED  BY <1>3, <2>1, <2>2, OthersRoutedAfter, Assumed
<1>15. OpRouted'
  BY DEF OpShape, CallShape, OpRow, OpRouted, RouteMatches, Routed, RouteFree,
         Exists, Rewritten
<1>16. RowOutlivesInstance'
  BY DEF OpShape, CallShape, OpRow, OpInstance, PhaseShape,
         RowOutlivesInstance, Exists, Enabled
<1>17. NothingAcceptsAfterShutdown'
  BY DEF OpShape, CallShape, PhaseShape, NothingAcceptsAfterShutdown,
         Accepting, Plain, ShutdownPass
<1>18. RoutesReachTheirConfig'
  BY DEF OpShape, CallShape, OpRow, OpInstance, PhaseShape, AcceptingIsEnabled,
         RoutesReachTheirConfig, Exists, Enabled, Accepting, Plain
<1> QED BY <1>4, <1>5, <1>6, <1>7, <1>8, <1>9, <1>10, <1>11, <1>12, <1>13,
         <1>14, <1>15, <1>16, <1>17, <1>18

LEMMA ReloadToRestartKeeps ==
  ASSUME IInv, ReloadToRestart
  PROVE  IInv'
<1>0. PICK o \in Site : op.site = o
  BY OpHasSite DEF IInv, OpShape, ReloadToRestart
<1>1. /\ op.at = "reload to restart" /\ op.result = "none" /\ call.fn = "none"
  BY DEF IInv, OpShape, CallShape, ReloadToRestart, TypeOK
<1>2. /\ HandlerOnly /\ faults' \in 0..MaxFault /\ UNCHANGED <<row, unrouted>>
      /\ \/ Enabled(op.site) /\ OpAt("restart", "none") /\ UNCHANGED adrift
         \/ ~Enabled(op.site) /\ OpEnds /\ UNCHANGED adrift
         \/ OpEnds /\ adrift' = adrift \cup {op.site}
  <2>1. CASE NoFault /\ Enabled(op.site) /\ Goto("restart") /\ UNCHANGED history
    BY <2>1, GotoIs, NoFaultCounted DEF IInv, ReloadToRestart, Labels, database, history
  <2>2. CASE NoFault /\ ~Enabled(op.site) /\ Answer
    BY <2>2, EndIs, NoFaultCounted
       DEF IInv, ReloadToRestart, Answer, database, history
  <2>3. CASE Fault /\ GiveUp
    BY <2>3, EndIs, FaultCounted DEF IInv, ReloadToRestart, GiveUp, database
  <2> QED  BY <2>1, <2>2, <2>3 DEF ReloadToRestart
<1> USE <1>0, <1>1, <1>2 DEF IInv, OpAt, OpEnds, HandlerOnly, runtime
<1>3. OthersUntouched(o)
  BY DEF OthersUntouched
<1>4. TypeOK'
  BY Typed, Assumed, TypedAfter DEF TypeOK, OpShape, CallShape, PhaseShape,
         ShutdownPass
<1>5. OpShape'
  BY DEF OpShape, CallShape, PhaseShape
<1>6. CallShape'
  BY DEF OpShape, CallShape, PhaseShape, ShutdownPass
<1>7. PhaseShape'
  BY DEF TypeOK, OpShape, CallShape, PhaseShape, OpRow, RowOutlivesInstance,
         Exists, Enabled, Accepting, Plain, ShutdownPass
<1>8. OpRow'
  BY DEF OpShape, CallShape, PhaseShape, OpRow, Rewritten, Exists, Enabled
<1>9. OpInstance'
  BY DEF OpShape, CallShape, PhaseShape, OpInstance, RowOutlivesInstance,
         AcceptingIsEnabled, Exists, Enabled, Accepting, Plain
<1>10. AcceptingIsEnabled'
  BY DEF OpShape, CallShape, OpRow, OpInstance, AcceptingIsEnabled,
         RowOutlivesInstance, Exists, Enabled, Accepting, Plain
<1>11. OthersMatch'
  <2>1. Lives => o \in adrift' \/ op'.site = o \/ Matches(o)'
    BY DEF OpShape, CallShape, PhaseShape, OpRow, Rewritten, OpMatches,
         Matches, Lives, Exists, Enabled, Accepting
  <2>2. /\ op.site \in {o, None} /\ phase' = phase
        /\ \A t \in Site : t # o => (t \in draining' <=> t \in draining)
    BY DEF TypeOK, OpShape
  <2> QED  BY <1>3, <2>1, <2>2, OthersMatchAfter, Assumed
<1>12. OpMatches'
  BY DEF OpShape, CallShape, PhaseShape, OpRow, OpInstance, OthersMatch,
         OpMatches, Matches, Lives, Exists, Enabled, Accepting, Rewritten
<1>13. UniqueRows'
  <2>1. /\ o \in Site
        /\ \/ ~Exists(o)'
           \/ Exists(o) /\ row'[o].cfg = row[o].cfg
           \/ Unique(o, row'[o].cfg)
    BY DEF UniqueRows, OpShape, OpRow, Exists, Enabled
  <2>2. op'.kind = "put" => op'.site = o /\ Unique(o, op'.old)
    BY DEF UniqueRows
  <2> QED  BY <1>3, <2>1, <2>2, UniqueRowsAfter DEF OthersUntouched
<1>14. OthersRouted'
  <2>1. o \in unrouted' \/ op'.site = o \/ RouteMatches(o)'
    BY DEF TypeOK, OpShape, CallShape, OpRow, OpRouted, RouteMatches, Routed,
         RouteFree, Exists, Enabled, Rewritten
  <2>2. op.site \in {o, None} /\ phase' = phase
    BY DEF TypeOK, OpShape
  <2> QED  BY <1>3, <2>1, <2>2, OthersRoutedAfter, Assumed
<1>15. OpRouted'
  BY DEF OpShape, CallShape, OpRow, OpRouted, RouteMatches, Routed, RouteFree,
         Exists, Rewritten
<1>16. RowOutlivesInstance'
  BY DEF OpShape, CallShape, OpRow, OpInstance, PhaseShape,
         RowOutlivesInstance, Exists, Enabled
<1>17. NothingAcceptsAfterShutdown'
  BY DEF OpShape, CallShape, PhaseShape, NothingAcceptsAfterShutdown,
         Accepting, Plain, ShutdownPass
<1>18. RoutesReachTheirConfig'
  BY DEF OpShape, CallShape, OpRow, OpInstance, PhaseShape, AcceptingIsEnabled,
         RoutesReachTheirConfig, Exists, Enabled, Accepting, Plain
<1> QED BY <1>4, <1>5, <1>6, <1>7, <1>8, <1>9, <1>10, <1>11, <1>12, <1>13,
         <1>14, <1>15, <1>16, <1>17, <1>18

LEMMA RestartedKeeps ==
  ASSUME IInv, Restarted
  PROVE  IInv'
<1>0. PICK o \in Site : op.site = o
  BY OpHasSite DEF IInv, OpShape, Restarted, Returned
<1>1. /\ op.at = "restart" /\ call.fn = "none"
  BY DEF Restarted, Returned
<1>2. /\ HandlerOnly /\ faults' \in 0..MaxFault /\ OpEnds /\ UNCHANGED <<row, unrouted>>
      /\ \/ op.result = "ok" /\ UNCHANGED adrift
         \/ adrift' = adrift \cup {op.site}
  BY EndIs, NoFaultCounted
     DEF IInv, Restarted, Returned, Answer, GiveUp, database, history
<1> USE <1>0, <1>1, <1>2 DEF IInv, OpEnds, HandlerOnly, runtime
<1>3. OthersUntouched(o)
  BY DEF OthersUntouched
<1>4. TypeOK'
  BY Typed, Assumed, TypedAfter DEF TypeOK, OpShape, CallShape, PhaseShape,
         ShutdownPass
<1>5. OpShape'
  BY DEF OpShape, CallShape, PhaseShape
<1>6. CallShape'
  BY DEF OpShape, CallShape, PhaseShape, ShutdownPass
<1>7. PhaseShape'
  BY DEF TypeOK, OpShape, CallShape, PhaseShape, OpRow, RowOutlivesInstance,
         Exists, Enabled, Accepting, Plain, ShutdownPass
<1>8. OpRow'
  BY DEF OpShape, CallShape, PhaseShape, OpRow, Rewritten, Exists, Enabled
<1>9. OpInstance'
  BY DEF OpShape, CallShape, PhaseShape, OpInstance, RowOutlivesInstance,
         AcceptingIsEnabled, Exists, Enabled, Accepting, Plain
<1>10. AcceptingIsEnabled'
  BY DEF OpShape, CallShape, OpRow, OpInstance, AcceptingIsEnabled,
         RowOutlivesInstance, Exists, Enabled, Accepting, Plain
<1>11. OthersMatch'
  <2>1. Lives => o \in adrift' \/ op'.site = o \/ Matches(o)'
    BY DEF OpShape, CallShape, PhaseShape, OpRow, Rewritten, OpMatches,
         Matches, Lives, Exists, Enabled, Accepting
  <2>2. /\ op.site \in {o, None} /\ phase' = phase
        /\ \A t \in Site : t # o => (t \in draining' <=> t \in draining)
    BY DEF TypeOK, OpShape
  <2> QED  BY <1>3, <2>1, <2>2, OthersMatchAfter, Assumed
<1>12. OpMatches'
  BY DEF OpShape, CallShape, PhaseShape, OpRow, OpInstance, OthersMatch,
         OpMatches, Matches, Lives, Exists, Enabled, Accepting, Rewritten
<1>13. UniqueRows'
  <2>1. /\ o \in Site
        /\ \/ ~Exists(o)'
           \/ Exists(o) /\ row'[o].cfg = row[o].cfg
           \/ Unique(o, row'[o].cfg)
    BY DEF UniqueRows, OpShape, OpRow, Exists, Enabled
  <2>2. op'.kind = "put" => op'.site = o /\ Unique(o, op'.old)
    BY DEF UniqueRows
  <2> QED  BY <1>3, <2>1, <2>2, UniqueRowsAfter DEF OthersUntouched
<1>14. OthersRouted'
  <2>1. o \in unrouted' \/ op'.site = o \/ RouteMatches(o)'
    <3>1. op.kind \in {"off", "put", "delete"}
      BY DEF TypeOK, OpShape
    <3>2. op.site \in unrouted \/ RouteMatches(op.site)
      BY <3>1 DEF OpShape, OpRow, OpRouted, Routed, RouteMatches, Exists, Rewritten
    <3> QED  BY <3>2 DEF RouteMatches, Exists
  <2>2. op.site \in {o, None} /\ phase' = phase
    BY DEF TypeOK, OpShape
  <2> QED  BY <1>3, <2>1, <2>2, OthersRoutedAfter, Assumed
<1>15. OpRouted'
  BY DEF OpShape, CallShape, OpRow, OpRouted, RouteMatches, Routed, RouteFree,
         Exists, Rewritten
<1>16. RowOutlivesInstance'
  BY DEF OpShape, CallShape, OpRow, OpInstance, PhaseShape,
         RowOutlivesInstance, Exists, Enabled
<1>17. NothingAcceptsAfterShutdown'
  BY DEF OpShape, CallShape, PhaseShape, NothingAcceptsAfterShutdown,
         Accepting, Plain, ShutdownPass
<1>18. RoutesReachTheirConfig'
  BY DEF OpShape, CallShape, OpRow, OpInstance, PhaseShape, AcceptingIsEnabled,
         RoutesReachTheirConfig, Exists, Enabled, Accepting, Plain
<1> QED BY <1>4, <1>5, <1>6, <1>7, <1>8, <1>9, <1>10, <1>11, <1>12, <1>13,
         <1>14, <1>15, <1>16, <1>17, <1>18

LEMMA StartedKeeps ==
  ASSUME IInv, Started
  PROVE  IInv'
<1>0. PICK o \in Site : op.site = o
  BY OpHasSite DEF IInv, OpShape, Started
<1>1. /\ op.kind \in {"post", "on", "put"} /\ op.at = "start" /\ op.result = "ok"
      /\ call.fn = "none"
  BY DEF Started, Returned
<1>2. /\ HandlerOnly /\ faults' \in 0..MaxFault /\ OpEnds /\ UNCHANGED row
      /\ adrift' = adrift \ {op.site} /\ unrouted' = unrouted \ {op.site}
  BY <1>1, EndIs, NoFaultCounted DEF IInv, Started, Succeed, database
<1> USE <1>0, <1>1, <1>2 DEF IInv, OpEnds, HandlerOnly, runtime
<1>3. OthersUntouched(o)
  BY DEF OthersUntouched
<1>4. TypeOK'
  BY Typed, Assumed, TypedAfter DEF TypeOK, OpShape, CallShape, PhaseShape,
         ShutdownPass
<1>5. OpShape'
  BY DEF OpShape, CallShape, PhaseShape
<1>6. CallShape'
  BY DEF OpShape, CallShape, PhaseShape, ShutdownPass
<1>7. PhaseShape'
  BY DEF TypeOK, OpShape, CallShape, PhaseShape, OpRow, RowOutlivesInstance,
         Exists, Enabled, Accepting, Plain, ShutdownPass
<1>8. OpRow'
  BY DEF OpShape, CallShape, PhaseShape, OpRow, Rewritten, Exists, Enabled
<1>9. OpInstance'
  BY DEF OpShape, CallShape, PhaseShape, OpInstance, RowOutlivesInstance,
         AcceptingIsEnabled, Exists, Enabled, Accepting, Plain
<1>10. AcceptingIsEnabled'
  BY DEF OpShape, CallShape, OpRow, OpInstance, AcceptingIsEnabled,
         RowOutlivesInstance, Exists, Enabled, Accepting, Plain
<1>11. OthersMatch'
  <2>1. Lives => o \in adrift' \/ op'.site = o \/ Matches(o)'
    BY DEF OpShape, CallShape, PhaseShape, OpRow, Rewritten, OpMatches,
         Matches, Lives, Exists, Enabled, Accepting
  <2>2. /\ op.site \in {o, None} /\ phase' = phase
        /\ \A t \in Site : t # o => (t \in draining' <=> t \in draining)
    BY DEF TypeOK, OpShape
  <2> QED  BY <1>3, <2>1, <2>2, OthersMatchAfter, Assumed
<1>12. OpMatches'
  BY DEF OpShape, CallShape, PhaseShape, OpRow, OpInstance, OthersMatch,
         OpMatches, Matches, Lives, Exists, Enabled, Accepting, Rewritten
<1>13. UniqueRows'
  <2>1. /\ o \in Site
        /\ \/ ~Exists(o)'
           \/ Exists(o) /\ row'[o].cfg = row[o].cfg
           \/ Unique(o, row'[o].cfg)
    BY DEF UniqueRows, OpShape, OpRow, Exists, Enabled
  <2>2. op'.kind = "put" => op'.site = o /\ Unique(o, op'.old)
    BY DEF UniqueRows
  <2> QED  BY <1>3, <2>1, <2>2, UniqueRowsAfter DEF OthersUntouched
<1>14. OthersRouted'
  <2>1. o \in unrouted' \/ op'.site = o \/ RouteMatches(o)'
    BY DEF OpShape, CallShape, OpRow, OpRouted, RouteMatches, Routed,
         RouteFree, Exists, Enabled, Rewritten
  <2>2. op.site \in {o, None} /\ phase' = phase
    BY DEF TypeOK, OpShape
  <2> QED  BY <1>3, <2>1, <2>2, OthersRoutedAfter, Assumed
<1>15. OpRouted'
  BY DEF OpShape, CallShape, OpRow, OpRouted, RouteMatches, Routed, RouteFree,
         Exists, Rewritten
<1>16. RowOutlivesInstance'
  BY DEF OpShape, CallShape, OpRow, OpInstance, PhaseShape,
         RowOutlivesInstance, Exists, Enabled
<1>17. NothingAcceptsAfterShutdown'
  BY DEF OpShape, CallShape, PhaseShape, NothingAcceptsAfterShutdown,
         Accepting, Plain, ShutdownPass
<1>18. RoutesReachTheirConfig'
  BY DEF OpShape, CallShape, OpRow, OpInstance, PhaseShape, AcceptingIsEnabled,
         RoutesReachTheirConfig, Exists, Enabled, Accepting, Plain
<1> QED BY <1>4, <1>5, <1>6, <1>7, <1>8, <1>9, <1>10, <1>11, <1>12, <1>13,
         <1>14, <1>15, <1>16, <1>17, <1>18

LEMMA RegisterUpdatedKeeps ==
  ASSUME IInv, RegisterUpdated
  PROVE  IInv'
<1>0. PICK o \in Site : op.site = o
  BY OpHasSite DEF IInv, OpShape, RegisterUpdated
<1>1. /\ op.kind = "put" /\ op.at = "register" /\ op.result = "none" /\ call.fn = "none"
      /\ phase \notin ShutdownPass
  BY DEF IInv, OpShape, RegisterUpdated, LockFree, TypeOK
<1>2. /\ UNCHANGED <<row, inst, shutdownStarted, call, phase, draining, faults>>
      /\ \/ OpAt("roll back route", "none") /\ UNCHANGED <<route, adrift, unrouted>>
         \/ /\ RouteFree(op.site, row[op.site].cfg) /\ Rerouted(op.site, row[op.site].cfg)
            /\ OpEnds /\ adrift' = adrift \ {op.site} /\ unrouted' = unrouted \ {op.site}
  <2>1. CASE Goto("roll back route") /\ UNCHANGED <<route, history>>
    BY <2>1, GotoIs DEF IInv, RegisterUpdated, NoFault, Labels, database, history
  <2>2. CASE /\ RouteFree(op.site, row[op.site].cfg) /\ Succeed
             /\ route' = [h \in Host |-> IF h = row[op.site].cfg.host THEN op.site
                                         ELSE IF route[h] = op.site THEN None ELSE route[h]]
    <3>1. Rerouted(op.site, row[op.site].cfg)
      BY <1>0, <2>2, ReroutedIs DEF IInv
    <3> QED  BY <1>1, <2>2, <3>1, EndIs
                DEF IInv, RegisterUpdated, Succeed, NoFault, database
  <2> QED  BY <2>1, <2>2 DEF RegisterUpdated
<1> USE <1>0, <1>1, <1>2 DEF IInv, Rerouted, OpAt, OpEnds
<1>3. OthersUntouched(o)
  BY DEF OthersUntouched
<1>4. TypeOK'
  BY Typed, Assumed, TypedAfter DEF TypeOK, OpShape, CallShape, PhaseShape,
         ShutdownPass
<1>5. OpShape'
  BY DEF OpShape, CallShape, PhaseShape
<1>6. CallShape'
  BY DEF OpShape, CallShape, PhaseShape, ShutdownPass
<1>7. PhaseShape'
  BY DEF TypeOK, OpShape, CallShape, PhaseShape, OpRow, RowOutlivesInstance,
         Exists, Enabled, Accepting, Plain, ShutdownPass
<1>8. OpRow'
  BY DEF OpShape, CallShape, PhaseShape, OpRow, Rewritten, Exists, Enabled
<1>9. OpInstance'
  BY DEF OpShape, CallShape, PhaseShape, OpInstance, RowOutlivesInstance,
         AcceptingIsEnabled, Exists, Enabled, Accepting, Plain
<1>10. AcceptingIsEnabled'
  BY DEF OpShape, CallShape, OpRow, OpInstance, AcceptingIsEnabled,
         RowOutlivesInstance, Exists, Enabled, Accepting, Plain
<1>11. OthersMatch'
  <2>1. Lives => o \in adrift' \/ op'.site = o \/ Matches(o)'
    BY DEF OpShape, CallShape, PhaseShape, OpRow, Rewritten, OpMatches,
         Matches, Lives, Exists, Enabled, Accepting
  <2>2. /\ op.site \in {o, None} /\ phase' = phase
        /\ \A t \in Site : t # o => (t \in draining' <=> t \in draining)
    BY DEF TypeOK, OpShape
  <2> QED  BY <1>3, <2>1, <2>2, OthersMatchAfter, Assumed
<1>12. OpMatches'
  BY DEF OpShape, CallShape, PhaseShape, OpRow, OpInstance, OthersMatch,
         OpMatches, Matches, Lives, Exists, Enabled, Accepting, Rewritten
<1>13. UniqueRows'
  <2>1. /\ o \in Site
        /\ \/ ~Exists(o)'
           \/ Exists(o) /\ row'[o].cfg = row[o].cfg
           \/ Unique(o, row'[o].cfg)
    BY DEF UniqueRows, OpShape, OpRow, Exists, Enabled
  <2>2. op'.kind = "put" => op'.site = o /\ Unique(o, op'.old)
    BY DEF UniqueRows
  <2> QED  BY <1>3, <2>1, <2>2, UniqueRowsAfter DEF OthersUntouched
<1>14. OthersRouted'
  <2>1. o \in unrouted' \/ op'.site = o \/ RouteMatches(o)'
    BY DEF OpShape, CallShape, OpRow, OpRouted, RouteMatches, Routed,
         RouteFree, Exists, Enabled, Rewritten
  <2>2. op.site \in {o, None} /\ phase' = phase
    BY DEF TypeOK, OpShape
  <2> QED  BY <1>3, <2>1, <2>2, OthersRoutedAfter, Assumed
<1>15. OpRouted'
  BY DEF OpShape, CallShape, OpRow, OpRouted, RouteMatches, Routed, RouteFree,
         Exists, Rewritten
<1>16. RowOutlivesInstance'
  BY DEF OpShape, CallShape, OpRow, OpInstance, PhaseShape,
         RowOutlivesInstance, Exists, Enabled
<1>17. NothingAcceptsAfterShutdown'
  BY DEF OpShape, CallShape, PhaseShape, NothingAcceptsAfterShutdown,
         Accepting, Plain, ShutdownPass
<1>18. RoutesReachTheirConfig'
  BY ZenonT(60) DEF OpShape, CallShape, OpRow, OpInstance, PhaseShape, AcceptingIsEnabled,
         RoutesReachTheirConfig, Exists, Enabled, Accepting, Plain
<1> QED BY <1>4, <1>5, <1>6, <1>7, <1>8, <1>9, <1>10, <1>11, <1>12, <1>13,
         <1>14, <1>15, <1>16, <1>17, <1>18

LEMMA UnregisterKeeps ==
  ASSUME IInv, Unregister
  PROVE  IInv'
<1>0. PICK o \in Site : op.site = o
  BY OpHasSite DEF IInv, OpShape, Unregister, TypeOK
<1>1. /\ op.at = "unregister" /\ op.result = "none" /\ call.fn = "none"
      /\ op.kind \in {"post", "delete"} /\ phase \notin ShutdownPass
  BY DEF IInv, OpShape, Unregister, LockFree, TypeOK
<1>2. /\ UNCHANGED <<row, inst, shutdownStarted, call, phase, draining, faults>>
      /\ Rerouted(op.site, NoConfig)
      /\ OpEnds /\ adrift' = adrift \ {op.site} /\ unrouted' = unrouted \ {op.site}
  <2>1. route' = [h \in Host |-> IF route[h] = op.site THEN None ELSE route[h]]
    BY DEF Unregister
  <2>2. Rerouted(op.site, NoConfig)
    <3>1. route' = [h \in Host |-> IF h = NoConfig.host THEN op.site
                                  ELSE IF route[h] = op.site THEN None ELSE route[h]]
      BY <2>1, Assumed DEF NoConfig
    <3>2. RouteFree(op.site, NoConfig)
      BY DEF RouteFree, NoConfig
    <3> QED  BY <1>0, <3>1, <3>2, ReroutedIs DEF IInv
  <2> QED  BY <1>1, <2>2, EndIs
              DEF IInv, Unregister, Succeed, NoFault, database
<1> USE <1>0, <1>1, <1>2 DEF IInv, Rerouted, OpEnds
<1>3. OthersUntouched(o)
  BY DEF OthersUntouched
<1>4. TypeOK'
  BY Typed, Assumed, TypedAfter DEF TypeOK, OpShape, CallShape, PhaseShape,
         ShutdownPass
<1>5. OpShape'
  BY DEF OpShape, CallShape, PhaseShape
<1>6. CallShape'
  BY DEF OpShape, CallShape, PhaseShape, ShutdownPass
<1>7. PhaseShape'
  BY DEF TypeOK, OpShape, CallShape, PhaseShape, OpRow, RowOutlivesInstance,
         Exists, Enabled, Accepting, Plain, ShutdownPass
<1>8. OpRow'
  BY DEF OpShape, CallShape, PhaseShape, OpRow, Rewritten, Exists, Enabled
<1>9. OpInstance'
  BY DEF OpShape, CallShape, PhaseShape, OpInstance, RowOutlivesInstance,
         AcceptingIsEnabled, Exists, Enabled, Accepting, Plain
<1>10. AcceptingIsEnabled'
  BY DEF OpShape, CallShape, OpRow, OpInstance, AcceptingIsEnabled,
         RowOutlivesInstance, Exists, Enabled, Accepting, Plain
<1>11. OthersMatch'
  <2>1. Lives => o \in adrift' \/ op'.site = o \/ Matches(o)'
    BY DEF OpShape, CallShape, PhaseShape, OpRow, Rewritten, OpMatches,
         Matches, Lives, Exists, Enabled, Accepting
  <2>2. /\ op.site \in {o, None} /\ phase' = phase
        /\ \A t \in Site : t # o => (t \in draining' <=> t \in draining)
    BY DEF TypeOK, OpShape
  <2> QED  BY <1>3, <2>1, <2>2, OthersMatchAfter, Assumed
<1>12. OpMatches'
  BY DEF OpShape, CallShape, PhaseShape, OpRow, OpInstance, OthersMatch,
         OpMatches, Matches, Lives, Exists, Enabled, Accepting, Rewritten
<1>13. UniqueRows'
  <2>1. /\ o \in Site
        /\ \/ ~Exists(o)'
           \/ Exists(o) /\ row'[o].cfg = row[o].cfg
           \/ Unique(o, row'[o].cfg)
    BY DEF UniqueRows, OpShape, OpRow, Exists, Enabled
  <2>2. op'.kind = "put" => op'.site = o /\ Unique(o, op'.old)
    BY DEF UniqueRows
  <2> QED  BY <1>3, <2>1, <2>2, UniqueRowsAfter DEF OthersUntouched
<1>14. OthersRouted'
  <2>1. o \in unrouted' \/ op'.site = o \/ RouteMatches(o)'
    BY Assumed DEF OpRow, RouteMatches, Exists, NoConfig
  <2>2. op.site \in {o, None} /\ phase' = phase
    BY DEF TypeOK, OpShape
  <2> QED  BY <1>3, <2>1, <2>2, OthersRoutedAfter, Assumed
<1>15. OpRouted'
  BY DEF OpShape, CallShape, OpRow, OpRouted, RouteMatches, Routed, RouteFree,
         Exists, Rewritten
<1>16. RowOutlivesInstance'
  BY DEF OpShape, CallShape, OpRow, OpInstance, PhaseShape,
         RowOutlivesInstance, Exists, Enabled
<1>17. NothingAcceptsAfterShutdown'
  BY DEF OpShape, CallShape, PhaseShape, NothingAcceptsAfterShutdown,
         Accepting, Plain, ShutdownPass
<1>18. RoutesReachTheirConfig'
  BY DEF OpShape, CallShape, OpRow, OpInstance, PhaseShape, AcceptingIsEnabled,
         RoutesReachTheirConfig, Exists, Enabled, Accepting, Plain
<1> QED BY <1>4, <1>5, <1>6, <1>7, <1>8, <1>9, <1>10, <1>11, <1>12, <1>13,
         <1>14, <1>15, <1>16, <1>17, <1>18

-----------------------------------------------------------------------------
(* Every step keeps the invariant: the manager calls                       *)

LEMMA BeginStopKeeps ==
  ASSUME IInv, BeginStop
  PROVE  IInv'
<1>0. PICK o \in Site : op.site = o
  BY OpHasSite DEF IInv, OpShape, BeginStop, TypeOK
<1>1. /\ op.at = "stop" /\ op.result = "none" /\ op.kind # "none"
      /\ call.fn = "none" /\ call.at = "idle" /\ phase \notin ShutdownPass
  BY DEF IInv, CallShape, OpShape, BeginStop, LockFree
<1>2. /\ UNCHANGED <<row, inst, route, shutdownStarted, phase, draining, faults, adrift, unrouted>>
      /\ \/ inst[op.site].gate = "absent" /\ OpAt("stop", "ok") /\ CallIs("none", "idle")
         \/ inst[op.site].gate # "absent" /\ op' = op /\ CallIs("stop", "flush")
  <2>1. CASE inst[op.site].gate = "absent" /\ Return("ok")
    BY <1>1, <2>1, ReturnIs DEF IInv, BeginStop, Results, database, runtime, history
  <2>2. CASE /\ inst[op.site].gate # "absent" /\ UNCHANGED op
             /\ call' = [NoCall EXCEPT !.fn = "stop", !.at = "flush"]
    <3>1. CallIs("stop", "flush")
      BY <2>2 DEF CallIs, NoCall, Calls, CallLabels
    <3> QED  BY <2>2, <3>1 DEF BeginStop, database, runtime, history
  <2> QED  BY <2>1, <2>2 DEF BeginStop
<1> USE <1>0, <1>1, <1>2 DEF IInv, OpAt, CallIs, ShutdownPass
<1>3. OthersUntouched(o)
  BY DEF OthersUntouched
<1>4. TypeOK'
  BY Typed, Assumed, TypedAfter DEF TypeOK, OpShape, CallShape, PhaseShape,
         ShutdownPass
<1>5. OpShape'
  BY DEF OpShape, CallShape, PhaseShape
<1>6. CallShape'
  BY DEF OpShape, CallShape, PhaseShape, ShutdownPass
<1>7. PhaseShape'
  BY DEF TypeOK, OpShape, CallShape, PhaseShape, OpRow, RowOutlivesInstance,
         Exists, Enabled, Accepting, Plain, ShutdownPass
<1>8. OpRow'
  BY DEF OpShape, CallShape, PhaseShape, OpRow, Rewritten, Exists, Enabled
<1>9. OpInstance'
  BY DEF OpShape, CallShape, PhaseShape, OpInstance, RowOutlivesInstance,
         AcceptingIsEnabled, Exists, Enabled, Accepting, Plain
<1>10. AcceptingIsEnabled'
  BY DEF OpShape, CallShape, OpRow, OpInstance, AcceptingIsEnabled,
         RowOutlivesInstance, Exists, Enabled, Accepting, Plain
<1>11. OthersMatch'
  <2>1. Lives => o \in adrift' \/ op'.site = o \/ Matches(o)'
    BY DEF OpShape, CallShape, PhaseShape, OpRow, Rewritten, OpMatches,
         Matches, Lives, Exists, Enabled, Accepting
  <2>2. /\ op.site \in {o, None} /\ phase' = phase
        /\ \A t \in Site : t # o => (t \in draining' <=> t \in draining)
    BY DEF TypeOK, OpShape
  <2> QED  BY <1>3, <2>1, <2>2, OthersMatchAfter, Assumed
<1>12. OpMatches'
  BY DEF OpShape, CallShape, PhaseShape, OpRow, OpInstance, OthersMatch,
         OpMatches, Matches, Lives, Exists, Enabled, Accepting, Rewritten
<1>13. UniqueRows'
  <2>1. /\ o \in Site
        /\ \/ ~Exists(o)'
           \/ Exists(o) /\ row'[o].cfg = row[o].cfg
           \/ Unique(o, row'[o].cfg)
    BY DEF UniqueRows, OpShape, OpRow, Exists, Enabled
  <2>2. op'.kind = "put" => op'.site = o /\ Unique(o, op'.old)
    BY DEF UniqueRows
  <2> QED  BY <1>3, <2>1, <2>2, UniqueRowsAfter DEF OthersUntouched
<1>14. OthersRouted'
  <2>1. o \in unrouted' \/ op'.site = o \/ RouteMatches(o)'
    BY DEF OpShape, CallShape, OpRow, OpRouted, RouteMatches, Routed,
         RouteFree, Exists, Enabled, Rewritten
  <2>2. op.site \in {o, None} /\ phase' = phase
    BY DEF TypeOK, OpShape
  <2> QED  BY <1>3, <2>1, <2>2, OthersRoutedAfter, Assumed
<1>15. OpRouted'
  <2>1. call'.fn = "start" => RouteFree(op.site, row[op.site].cfg)
    BY DEF OpRouted, CallShape
  <2>2. /\ op'.kind = op.kind /\ op'.site = op.site /\ op'.at = op.at /\ op'.old = op.old
        /\ op'.result = "ok" => op.at = "stop"
    BY DEF CallShape
  <2> QED  BY <2>1, <2>2, OpRoutedAfterCall
<1>16. RowOutlivesInstance'
  BY DEF OpShape, CallShape, OpRow, OpInstance, PhaseShape,
         RowOutlivesInstance, Exists, Enabled
<1>17. NothingAcceptsAfterShutdown'
  BY DEF OpShape, CallShape, PhaseShape, NothingAcceptsAfterShutdown,
         Accepting, Plain, ShutdownPass
<1>18. RoutesReachTheirConfig'
  BY DEF RoutesReachTheirConfig, Accepting, Plain
<1> QED BY <1>4, <1>5, <1>6, <1>7, <1>8, <1>9, <1>10, <1>11, <1>12, <1>13,
         <1>14, <1>15, <1>16, <1>17, <1>18

LEMMA BeginStartKeeps ==
  ASSUME IInv, BeginStart
  PROVE  IInv'
<1>0. PICK o \in Site : op.site = o
  BY OpHasSite DEF IInv, OpShape, BeginStart, TypeOK
<1>1. /\ op.at \in {"start", "restart"} /\ op.result = "none" /\ op.kind # "none"
      /\ call.fn = "none" /\ call.at = "idle" /\ phase \notin ShutdownPass
  BY DEF IInv, CallShape, OpShape, BeginStart, LockFree
<1>2. /\ UNCHANGED <<row, inst, route, shutdownStarted, phase, draining, adrift, unrouted>>
      /\ faults' \in 0..MaxFault
      /\ \/ /\ ~shutdownStarted /\ RouteFree(op.site, row[op.site].cfg) /\ op' = op
            /\ \/ inst[op.site].gate = "absent" /\ CallIs("start", "install")
               \/ inst[op.site].gate # "absent" /\ CallIs("start", "flush")
         \/ OpAt(op.at, "refused") /\ CallIs("none", "idle")
  <2>1. CASE /\ MayStart(op.site) /\ NoFault /\ UNCHANGED op
             /\ call' = [NoCall EXCEPT !.fn = "start",
                           !.at = IF inst[op.site].gate = "absent" THEN "install" ELSE "flush"]
    <3>1. CASE inst[op.site].gate = "absent"
      <4>1. CallIs("start", "install")
        BY <2>1, <3>1 DEF CallIs, NoCall, Calls, CallLabels
      <4> QED  BY <2>1, <3>1, <4>1, NoFaultCounted
                  DEF IInv, MayStart, BeginStart, database, runtime, history
    <3>2. CASE inst[op.site].gate # "absent"
      <4>1. CallIs("start", "flush")
        BY <2>1, <3>2 DEF CallIs, NoCall, Calls, CallLabels
      <4> QED  BY <2>1, <3>2, <4>1, NoFaultCounted
                  DEF IInv, MayStart, BeginStart, database, runtime, history
    <3> QED  BY <3>1, <3>2
  <2>2. CASE (NoFault \/ Fault) /\ Return("refused")
    BY <2>2, ReturnIs, NoFaultCounted, FaultCounted
       DEF IInv, BeginStart, Results, database, runtime, history
  <2> QED  BY <2>1, <2>2 DEF BeginStart
<1> USE <1>0, <1>1, <1>2 DEF IInv, OpAt, CallIs, ShutdownPass
<1>3. OthersUntouched(o)
  BY DEF OthersUntouched
<1>4. TypeOK'
  BY Typed, Assumed, TypedAfter DEF TypeOK, OpShape, CallShape, PhaseShape,
         ShutdownPass
<1>5. OpShape'
  BY DEF OpShape, CallShape, PhaseShape
<1>6. CallShape'
  BY DEF OpShape, CallShape, PhaseShape, ShutdownPass
<1>7. PhaseShape'
  BY DEF TypeOK, OpShape, CallShape, PhaseShape, OpRow, RowOutlivesInstance,
         Exists, Enabled, Accepting, Plain, ShutdownPass
<1>8. OpRow'
  BY DEF OpShape, CallShape, PhaseShape, OpRow, Rewritten, Exists, Enabled
<1>9. OpInstance'
  BY DEF OpShape, CallShape, PhaseShape, OpInstance, RowOutlivesInstance,
         AcceptingIsEnabled, Exists, Enabled, Accepting, Plain
<1>10. AcceptingIsEnabled'
  BY DEF OpShape, CallShape, OpRow, OpInstance, AcceptingIsEnabled,
         RowOutlivesInstance, Exists, Enabled, Accepting, Plain
<1>11. OthersMatch'
  <2>1. Lives => o \in adrift' \/ op'.site = o \/ Matches(o)'
    BY DEF OpShape, CallShape, PhaseShape, OpRow, Rewritten, OpMatches,
         Matches, Lives, Exists, Enabled, Accepting
  <2>2. /\ op.site \in {o, None} /\ phase' = phase
        /\ \A t \in Site : t # o => (t \in draining' <=> t \in draining)
    BY DEF TypeOK, OpShape
  <2> QED  BY <1>3, <2>1, <2>2, OthersMatchAfter, Assumed
<1>12. OpMatches'
  BY ZenonT(60) DEF OpShape, CallShape, PhaseShape, OpRow, OpInstance, OthersMatch,
         OpMatches, Matches, Lives, Exists, Enabled, Accepting, Rewritten
<1>13. UniqueRows'
  <2>1. /\ o \in Site
        /\ \/ ~Exists(o)'
           \/ Exists(o) /\ row'[o].cfg = row[o].cfg
           \/ Unique(o, row'[o].cfg)
    BY DEF UniqueRows, OpShape, OpRow, Exists, Enabled
  <2>2. op'.kind = "put" => op'.site = o /\ Unique(o, op'.old)
    BY DEF UniqueRows
  <2> QED  BY <1>3, <2>1, <2>2, UniqueRowsAfter DEF OthersUntouched
<1>14. OthersRouted'
  <2>1. o \in unrouted' \/ op'.site = o \/ RouteMatches(o)'
    BY DEF OpShape, CallShape, OpRow, OpRouted, RouteMatches, Routed,
         RouteFree, Exists, Enabled, Rewritten
  <2>2. op.site \in {o, None} /\ phase' = phase
    BY DEF TypeOK, OpShape
  <2> QED  BY <1>3, <2>1, <2>2, OthersRoutedAfter, Assumed
<1>15. OpRouted'
  <2>1. call'.fn = "start" => RouteFree(op.site, row[op.site].cfg)
    BY DEF OpRouted, CallShape
  <2>2. /\ op'.kind = op.kind /\ op'.site = op.site /\ op'.at = op.at /\ op'.old = op.old
        /\ op'.result = "ok" => op.at = "stop"
    BY DEF CallShape
  <2> QED  BY <2>1, <2>2, OpRoutedAfterCall
<1>16. RowOutlivesInstance'
  BY DEF OpShape, CallShape, OpRow, OpInstance, PhaseShape,
         RowOutlivesInstance, Exists, Enabled
<1>17. NothingAcceptsAfterShutdown'
  BY DEF OpShape, CallShape, PhaseShape, NothingAcceptsAfterShutdown,
         Accepting, Plain, ShutdownPass
<1>18. RoutesReachTheirConfig'
  BY DEF RoutesReachTheirConfig, Accepting, Plain
<1> QED BY <1>4, <1>5, <1>6, <1>7, <1>8, <1>9, <1>10, <1>11, <1>12, <1>13,
         <1>14, <1>15, <1>16, <1>17, <1>18

LEMMA CheckPersistenceKeeps ==
  ASSUME IInv, CheckPersistence
  PROVE  IInv'
<1>0. PICK o \in Site : op.site = o
  BY OpHasSite DEF IInv, OpShape, CheckPersistence, CallShape, TypeOK
<1>1. /\ call.at = "flush" /\ phase \notin ShutdownPass
      /\ call.fn \in {"start", "stop"} /\ op.kind # "none" /\ op.result = "none"
  BY DEF IInv, CallShape, OpShape, TypeOK, CheckPersistence
<1>2. /\ UNCHANGED <<row, inst, route, shutdownStarted, phase, draining, adrift, unrouted>>
      /\ faults' \in 0..MaxFault
      /\ \/ op' = op /\ CallIs(call.fn, "close")
         \/ /\ call.fn = "stop" /\ ~Accepting(op.site)
            /\ OpAt(op.at, "closed") /\ CallIs("none", "idle")
         \/ /\ call.fn = "stop" => Accepting(op.site)
            /\ OpAt(op.at, "refused") /\ CallIs("none", "idle")
  <2>1. CASE NoFault /\ Step("close")
    BY <2>1, StepIs, NoFaultCounted
       DEF IInv, CheckPersistence, CallLabels, database, runtime, history
  <2>2. CASE /\ Fault
             /\ Return(IF call.fn = "stop" /\ ~Accepting(op.site) THEN "closed" ELSE "refused")
    <3>1. CASE call.fn = "stop" /\ ~Accepting(op.site)
      BY <2>2, <3>1, ReturnIs, FaultCounted
         DEF IInv, CheckPersistence, Results, database, runtime, history
    <3>2. CASE ~(call.fn = "stop" /\ ~Accepting(op.site))
      BY <2>2, <3>2, ReturnIs, FaultCounted
         DEF IInv, CheckPersistence, Results, database, runtime, history
    <3> QED  BY <3>1, <3>2
  <2> QED  BY <2>1, <2>2 DEF CheckPersistence
<1> USE <1>0, <1>1, <1>2 DEF IInv, OpAt, CallIs, ShutdownPass
<1>3. OthersUntouched(o)
  BY DEF OthersUntouched
<1>4. TypeOK'
  BY Typed, Assumed, TypedAfter DEF TypeOK, OpShape, CallShape, PhaseShape,
         ShutdownPass
<1>5. OpShape'
  BY DEF OpShape, CallShape, PhaseShape
<1>6. CallShape'
  BY DEF OpShape, CallShape, PhaseShape, ShutdownPass
<1>7. PhaseShape'
  BY DEF TypeOK, OpShape, CallShape, PhaseShape, OpRow, RowOutlivesInstance,
         Exists, Enabled, Accepting, Plain, ShutdownPass
<1>8. OpRow'
  BY DEF OpShape, CallShape, PhaseShape, OpRow, Rewritten, Exists, Enabled
<1>9. OpInstance'
  BY DEF OpShape, CallShape, PhaseShape, OpInstance, RowOutlivesInstance,
         AcceptingIsEnabled, Exists, Enabled, Accepting, Plain
<1>10. AcceptingIsEnabled'
  BY DEF OpShape, CallShape, OpRow, OpInstance, AcceptingIsEnabled,
         RowOutlivesInstance, Exists, Enabled, Accepting, Plain
<1>11. OthersMatch'
  <2>1. Lives => o \in adrift' \/ op'.site = o \/ Matches(o)'
    BY DEF OpShape, CallShape, PhaseShape, OpRow, Rewritten, OpMatches,
         Matches, Lives, Exists, Enabled, Accepting
  <2>2. /\ op.site \in {o, None} /\ phase' = phase
        /\ \A t \in Site : t # o => (t \in draining' <=> t \in draining)
    BY DEF TypeOK, OpShape
  <2> QED  BY <1>3, <2>1, <2>2, OthersMatchAfter, Assumed
<1>12. OpMatches'
  BY ZenonT(60) DEF OpShape, CallShape, PhaseShape, OpRow, OpInstance, OthersMatch,
         OpMatches, Matches, Lives, Exists, Enabled, Accepting, Rewritten
<1>13. UniqueRows'
  <2>1. /\ o \in Site
        /\ \/ ~Exists(o)'
           \/ Exists(o) /\ row'[o].cfg = row[o].cfg
           \/ Unique(o, row'[o].cfg)
    BY DEF UniqueRows, OpShape, OpRow, Exists, Enabled
  <2>2. op'.kind = "put" => op'.site = o /\ Unique(o, op'.old)
    BY DEF UniqueRows
  <2> QED  BY <1>3, <2>1, <2>2, UniqueRowsAfter DEF OthersUntouched
<1>14. OthersRouted'
  <2>1. o \in unrouted' \/ op'.site = o \/ RouteMatches(o)'
    BY DEF OpShape, CallShape, OpRow, OpRouted, RouteMatches, Routed,
         RouteFree, Exists, Enabled, Rewritten
  <2>2. op.site \in {o, None} /\ phase' = phase
    BY DEF TypeOK, OpShape
  <2> QED  BY <1>3, <2>1, <2>2, OthersRoutedAfter, Assumed
<1>15. OpRouted'
  <2>1. call'.fn = "start" => RouteFree(op.site, row[op.site].cfg)
    BY DEF OpRouted, CallShape
  <2>2. /\ op'.kind = op.kind /\ op'.site = op.site /\ op'.at = op.at /\ op'.old = op.old
        /\ op'.result = "ok" => op.at = "stop"
    BY DEF CallShape
  <2> QED  BY <2>1, <2>2, OpRoutedAfterCall
<1>16. RowOutlivesInstance'
  BY DEF OpShape, CallShape, OpRow, OpInstance, PhaseShape,
         RowOutlivesInstance, Exists, Enabled
<1>17. NothingAcceptsAfterShutdown'
  BY DEF OpShape, CallShape, PhaseShape, NothingAcceptsAfterShutdown,
         Accepting, Plain, ShutdownPass
<1>18. RoutesReachTheirConfig'
  BY DEF RoutesReachTheirConfig, Accepting, Plain
<1> QED BY <1>4, <1>5, <1>6, <1>7, <1>8, <1>9, <1>10, <1>11, <1>12, <1>13,
         <1>14, <1>15, <1>16, <1>17, <1>18

LEMMA CloseIngressKeeps ==
  ASSUME IInv, CloseIngress
  PROVE  IInv'
<1>0. PICK o \in Site : op.site = o
  BY OpHasSite DEF IInv, OpShape, CloseIngress, CallShape, TypeOK
<1>1. /\ call.at = "close" /\ phase \notin ShutdownPass
      /\ call.fn \in {"start", "stop"} /\ op.kind # "none" /\ op.result = "none"
  BY DEF IInv, CallShape, OpShape, TypeOK, CloseIngress
<1>2. /\ UNCHANGED <<row, route, shutdownStarted, phase, draining, adrift, unrouted>>
      /\ faults' \in 0..MaxFault
      /\ \/ /\ InstIs(op.site, "closed", inst[op.site].cfg, FALSE)
            /\ op' = op /\ CallIs(call.fn, "drain")
         \/ /\ inst' = inst /\ call.fn = "start"
            /\ OpAt(op.at, "refused") /\ CallIs("none", "idle")
         \/ /\ inst' = inst /\ call.fn = "stop" /\ op.site \in Coalescing
            /\ op' = op /\ CallIs("stop", "final")
  <2>1. CASE NoFault /\ inst' = Closed(op.site) /\ Step("drain")
    <3>1. InstIs(op.site, "closed", inst[op.site].cfg, FALSE)
      BY <1>0, <2>1, ClosedIs DEF IInv
    <3> QED  BY <2>1, <3>1, StepIs, NoFaultCounted
                DEF IInv, CloseIngress, CallLabels, database, history
  <2>2. CASE Fault /\ UNCHANGED inst /\ call.fn = "start" /\ Return("refused")
    BY <2>2, ReturnIs, FaultCounted DEF IInv, CloseIngress, Results, database, history
  <2>3. CASE /\ op.site \in Coalescing /\ Fault /\ UNCHANGED inst /\ call.fn # "start"
             /\ call' = [call EXCEPT !.at = "final", !.failed = TRUE] /\ UNCHANGED op
    BY <1>1, <2>3, FailedIs, FaultCounted DEF IInv, CloseIngress, database, history
  <2> QED  BY <2>1, <2>2, <2>3 DEF CloseIngress
<1> USE <1>0, <1>1, <1>2 DEF IInv, OpAt, CallIs, InstIs, ShutdownPass
<1>3. OthersUntouched(o)
  BY DEF OthersUntouched
<1>4. TypeOK'
  BY Typed, Assumed, TypedAfter DEF TypeOK, OpShape, CallShape, PhaseShape,
         ShutdownPass
<1>5. OpShape'
  BY DEF OpShape, CallShape, PhaseShape
<1>6. CallShape'
  BY DEF OpShape, CallShape, PhaseShape, ShutdownPass
<1>7. PhaseShape'
  BY DEF TypeOK, OpShape, CallShape, PhaseShape, OpRow, RowOutlivesInstance,
         Exists, Enabled, Accepting, Plain, ShutdownPass
<1>8. OpRow'
  BY ZenonT(60) DEF OpShape, CallShape, PhaseShape, OpRow, Rewritten, Exists, Enabled
<1>9. OpInstance'
  BY DEF OpShape, CallShape, PhaseShape, OpInstance, RowOutlivesInstance,
         AcceptingIsEnabled, Exists, Enabled, Accepting, Plain
<1>10. AcceptingIsEnabled'
  BY DEF OpShape, CallShape, OpRow, OpInstance, AcceptingIsEnabled,
         RowOutlivesInstance, Exists, Enabled, Accepting, Plain
<1>11. OthersMatch'
  <2>1. Lives => o \in adrift' \/ op'.site = o \/ Matches(o)'
    BY DEF OpShape, CallShape, PhaseShape, OpRow, Rewritten, OpMatches,
         Matches, Lives, Exists, Enabled, Accepting
  <2>2. /\ op.site \in {o, None} /\ phase' = phase
        /\ \A t \in Site : t # o => (t \in draining' <=> t \in draining)
    BY DEF TypeOK, OpShape
  <2> QED  BY <1>3, <2>1, <2>2, OthersMatchAfter, Assumed
<1>12. OpMatches'
  BY ZenonT(60) DEF OpShape, CallShape, PhaseShape, OpRow, OpInstance, OthersMatch,
         OpMatches, Matches, Lives, Exists, Enabled, Accepting, Rewritten
<1>13. UniqueRows'
  <2>1. /\ o \in Site
        /\ \/ ~Exists(o)'
           \/ Exists(o) /\ row'[o].cfg = row[o].cfg
           \/ Unique(o, row'[o].cfg)
    BY DEF UniqueRows, OpShape, OpRow, Exists, Enabled
  <2>2. op'.kind = "put" => op'.site = o /\ Unique(o, op'.old)
    BY DEF UniqueRows
  <2> QED  BY <1>3, <2>1, <2>2, UniqueRowsAfter DEF OthersUntouched
<1>14. OthersRouted'
  <2>1. o \in unrouted' \/ op'.site = o \/ RouteMatches(o)'
    BY DEF OpShape, CallShape, OpRow, OpRouted, RouteMatches, Routed,
         RouteFree, Exists, Enabled, Rewritten
  <2>2. op.site \in {o, None} /\ phase' = phase
    BY DEF TypeOK, OpShape
  <2> QED  BY <1>3, <2>1, <2>2, OthersRoutedAfter, Assumed
<1>15. OpRouted'
  <2>1. call'.fn = "start" => RouteFree(op.site, row[op.site].cfg)
    BY DEF OpRouted, CallShape
  <2>2. /\ op'.kind = op.kind /\ op'.site = op.site /\ op'.at = op.at /\ op'.old = op.old
        /\ op'.result = "ok" => op.at = "stop"
    BY DEF CallShape
  <2> QED  BY <2>1, <2>2, OpRoutedAfterCall
<1>16. RowOutlivesInstance'
  BY DEF OpShape, CallShape, OpRow, OpInstance, PhaseShape,
         RowOutlivesInstance, Exists, Enabled
<1>17. NothingAcceptsAfterShutdown'
  BY DEF OpShape, CallShape, PhaseShape, NothingAcceptsAfterShutdown,
         Accepting, Plain, ShutdownPass
<1>18. RoutesReachTheirConfig'
  BY DEF RoutesReachTheirConfig, Accepting, Plain
<1> QED BY <1>4, <1>5, <1>6, <1>7, <1>8, <1>9, <1>10, <1>11, <1>12, <1>13,
         <1>14, <1>15, <1>16, <1>17, <1>18

LEMMA DrainKeeps ==
  ASSUME IInv, Drain
  PROVE  IInv'
<1>0. PICK o \in Site : op.site = o
  BY OpHasSite DEF IInv, OpShape, Drain, CallShape, TypeOK
<1>1. /\ call.at = "drain" /\ phase \notin ShutdownPass
      /\ call.fn \in {"start", "stop"} /\ op.kind # "none" /\ op.result = "none"
  BY DEF IInv, CallShape, OpShape, TypeOK, Drain
<1>2. /\ UNCHANGED <<row, inst, route, shutdownStarted, phase, draining, adrift, unrouted>>
      /\ faults' \in 0..MaxFault
      /\ \/ op' = op /\ CallIs(call.fn, "final")
         \/ call.fn = "start" /\ OpAt(op.at, "refused") /\ CallIs("none", "idle")
  <2>1. CASE NoFault /\ Step("final")
    BY <2>1, StepIs, NoFaultCounted
       DEF IInv, Drain, CallLabels, database, runtime, history
  <2>2. CASE Fault /\ call.fn = "start" /\ Return("refused")
    BY <2>2, ReturnIs, FaultCounted DEF IInv, Drain, Results, database, runtime, history
  <2>3. CASE /\ Fault /\ call.fn # "start"
             /\ call' = [call EXCEPT !.at = "final", !.failed = TRUE] /\ UNCHANGED op
    BY <1>1, <2>3, FailedIs, FaultCounted DEF IInv, Drain, database, runtime, history
  <2> QED  BY <2>1, <2>2, <2>3 DEF Drain
<1> USE <1>0, <1>1, <1>2 DEF IInv, OpAt, CallIs, ShutdownPass
<1>3. OthersUntouched(o)
  BY DEF OthersUntouched
<1>4. TypeOK'
  BY Typed, Assumed, TypedAfter DEF TypeOK, OpShape, CallShape, PhaseShape,
         ShutdownPass
<1>5. OpShape'
  BY DEF OpShape, CallShape, PhaseShape
<1>6. CallShape'
  BY DEF OpShape, CallShape, PhaseShape, ShutdownPass
<1>7. PhaseShape'
  BY DEF TypeOK, OpShape, CallShape, PhaseShape, OpRow, RowOutlivesInstance,
         Exists, Enabled, Accepting, Plain, ShutdownPass
<1>8. OpRow'
  BY ZenonT(60) DEF OpShape, CallShape, PhaseShape, OpRow, Rewritten, Exists, Enabled
<1>9. OpInstance'
  BY DEF OpShape, CallShape, PhaseShape, OpInstance, RowOutlivesInstance,
         AcceptingIsEnabled, Exists, Enabled, Accepting, Plain
<1>10. AcceptingIsEnabled'
  BY DEF OpShape, CallShape, OpRow, OpInstance, AcceptingIsEnabled,
         RowOutlivesInstance, Exists, Enabled, Accepting, Plain
<1>11. OthersMatch'
  <2>1. Lives => o \in adrift' \/ op'.site = o \/ Matches(o)'
    BY DEF OpShape, CallShape, PhaseShape, OpRow, Rewritten, OpMatches,
         Matches, Lives, Exists, Enabled, Accepting
  <2>2. /\ op.site \in {o, None} /\ phase' = phase
        /\ \A t \in Site : t # o => (t \in draining' <=> t \in draining)
    BY DEF TypeOK, OpShape
  <2> QED  BY <1>3, <2>1, <2>2, OthersMatchAfter, Assumed
<1>12. OpMatches'
  BY ZenonT(60) DEF OpShape, CallShape, PhaseShape, OpRow, OpInstance, OthersMatch,
         OpMatches, Matches, Lives, Exists, Enabled, Accepting, Rewritten
<1>13. UniqueRows'
  <2>1. /\ o \in Site
        /\ \/ ~Exists(o)'
           \/ Exists(o) /\ row'[o].cfg = row[o].cfg
           \/ Unique(o, row'[o].cfg)
    BY DEF UniqueRows, OpShape, OpRow, Exists, Enabled
  <2>2. op'.kind = "put" => op'.site = o /\ Unique(o, op'.old)
    BY DEF UniqueRows
  <2> QED  BY <1>3, <2>1, <2>2, UniqueRowsAfter DEF OthersUntouched
<1>14. OthersRouted'
  <2>1. o \in unrouted' \/ op'.site = o \/ RouteMatches(o)'
    BY DEF OpShape, CallShape, OpRow, OpRouted, RouteMatches, Routed,
         RouteFree, Exists, Enabled, Rewritten
  <2>2. op.site \in {o, None} /\ phase' = phase
    BY DEF TypeOK, OpShape
  <2> QED  BY <1>3, <2>1, <2>2, OthersRoutedAfter, Assumed
<1>15. OpRouted'
  <2>1. call'.fn = "start" => RouteFree(op.site, row[op.site].cfg)
    BY DEF OpRouted, CallShape
  <2>2. /\ op'.kind = op.kind /\ op'.site = op.site /\ op'.at = op.at /\ op'.old = op.old
        /\ op'.result = "ok" => op.at = "stop"
    BY DEF CallShape
  <2> QED  BY <2>1, <2>2, OpRoutedAfterCall
<1>16. RowOutlivesInstance'
  BY DEF OpShape, CallShape, OpRow, OpInstance, PhaseShape,
         RowOutlivesInstance, Exists, Enabled
<1>17. NothingAcceptsAfterShutdown'
  BY DEF OpShape, CallShape, PhaseShape, NothingAcceptsAfterShutdown,
         Accepting, Plain, ShutdownPass
<1>18. RoutesReachTheirConfig'
  BY DEF RoutesReachTheirConfig, Accepting, Plain
<1> QED BY <1>4, <1>5, <1>6, <1>7, <1>8, <1>9, <1>10, <1>11, <1>12, <1>13,
         <1>14, <1>15, <1>16, <1>17, <1>18

LEMMA FinalFlushKeeps ==
  ASSUME IInv, FinalFlush
  PROVE  IInv'
<1>0. PICK o \in Site : op.site = o
  BY OpHasSite DEF IInv, OpShape, FinalFlush, CallShape, TypeOK
<1>1. /\ call.at = "final" /\ phase \notin ShutdownPass
      /\ call.fn \in {"start", "stop"} /\ op.kind # "none" /\ op.result = "none"
  BY DEF IInv, CallShape, OpShape, TypeOK, FinalFlush
<1>2. /\ UNCHANGED <<row, route, shutdownStarted, phase, draining, adrift, unrouted>>
      /\ faults' \in 0..MaxFault
      /\ \/ inst' = inst /\ call.fn = "start" /\ op' = op /\ CallIs("start", "install")
         \/ /\ inst' = inst /\ call.fn = "start"
            /\ OpAt(op.at, "refused") /\ CallIs("none", "idle")
         \/ /\ inst' = inst /\ call.fn = "stop"
            /\ OpAt(op.at, "closed") /\ CallIs("none", "idle")
         \/ /\ InstIs(op.site, "absent", NoConfig, FALSE) /\ call.fn = "stop"
            /\ OpAt(op.at, "ok") /\ CallIs("none", "idle")
  <2>1. CASE NoFault /\ call.fn = "start" /\ Step("install") /\ UNCHANGED inst
    BY <2>1, StepIs, NoFaultCounted DEF IInv, FinalFlush, CallLabels, database, history
  <2>2. CASE NoFault /\ call.fn # "start" /\ Return("closed") /\ UNCHANGED inst
    BY <1>1, <2>2, ReturnIs, NoFaultCounted DEF IInv, FinalFlush, Results, database, history
  <2>3. CASE /\ NoFault /\ call.fn # "start" /\ Return("ok")
             /\ inst' = [inst EXCEPT ![op.site] = NoInstance]
    <3>1. InstIs(op.site, "absent", NoConfig, FALSE)
      BY <1>0, <2>3, InstReplaced DEF IInv, NoInstance, Configs
    <3> QED  BY <1>1, <2>3, <3>1, ReturnIs, NoFaultCounted
                DEF IInv, FinalFlush, Results, database, history
  <2>4. CASE /\ Fault /\ UNCHANGED inst
             /\ Return(IF call.fn = "start" THEN "refused" ELSE "closed")
    <3>1. CASE call.fn = "start"
      BY <2>4, <3>1, ReturnIs, FaultCounted DEF IInv, FinalFlush, Results, database, history
    <3>2. CASE call.fn = "stop"
      BY <2>4, <3>2, ReturnIs, FaultCounted DEF IInv, FinalFlush, Results, database, history
    <3> QED  BY <1>1, <3>1, <3>2
  <2> QED  BY <2>1, <2>2, <2>3, <2>4 DEF FinalFlush
<1> USE <1>0, <1>1, <1>2 DEF IInv, OpAt, CallIs, InstIs, ShutdownPass
<1>3. OthersUntouched(o)
  BY DEF OthersUntouched
<1>4. TypeOK'
  BY Typed, Assumed, TypedAfter DEF TypeOK, OpShape, CallShape, PhaseShape,
         ShutdownPass
<1>5. OpShape'
  BY DEF OpShape, CallShape, PhaseShape
<1>6. CallShape'
  BY DEF OpShape, CallShape, PhaseShape, ShutdownPass
<1>7. PhaseShape'
  BY DEF TypeOK, OpShape, CallShape, PhaseShape, OpRow, RowOutlivesInstance,
         Exists, Enabled, Accepting, Plain, ShutdownPass
<1>8. OpRow'
  BY ZenonT(60) DEF OpShape, CallShape, PhaseShape, OpRow, Rewritten, Exists, Enabled
<1>9. OpInstance'
  BY DEF OpShape, CallShape, PhaseShape, OpInstance, RowOutlivesInstance,
         AcceptingIsEnabled, Exists, Enabled, Accepting, Plain
<1>10. AcceptingIsEnabled'
  BY ZenonT(60) DEF OpShape, CallShape, OpRow, OpInstance, AcceptingIsEnabled,
         RowOutlivesInstance, Exists, Enabled, Accepting, Plain
<1>11. OthersMatch'
  <2>1. Lives => o \in adrift' \/ op'.site = o \/ Matches(o)'
    BY DEF OpShape, CallShape, PhaseShape, OpRow, Rewritten, OpMatches,
         Matches, Lives, Exists, Enabled, Accepting
  <2>2. /\ op.site \in {o, None} /\ phase' = phase
        /\ \A t \in Site : t # o => (t \in draining' <=> t \in draining)
    BY DEF TypeOK, OpShape
  <2> QED  BY <1>3, <2>1, <2>2, OthersMatchAfter, Assumed
<1>12. OpMatches'
  BY ZenonT(60) DEF OpShape, CallShape, PhaseShape, OpRow, OpInstance, OthersMatch,
         OpMatches, Matches, Lives, Exists, Enabled, Accepting, Rewritten
<1>13. UniqueRows'
  <2>1. /\ o \in Site
        /\ \/ ~Exists(o)'
           \/ Exists(o) /\ row'[o].cfg = row[o].cfg
           \/ Unique(o, row'[o].cfg)
    BY DEF UniqueRows, OpShape, OpRow, Exists, Enabled
  <2>2. op'.kind = "put" => op'.site = o /\ Unique(o, op'.old)
    BY DEF UniqueRows
  <2> QED  BY <1>3, <2>1, <2>2, UniqueRowsAfter DEF OthersUntouched
<1>14. OthersRouted'
  <2>1. o \in unrouted' \/ op'.site = o \/ RouteMatches(o)'
    BY DEF OpShape, CallShape, OpRow, OpRouted, RouteMatches, Routed,
         RouteFree, Exists, Enabled, Rewritten
  <2>2. op.site \in {o, None} /\ phase' = phase
    BY DEF TypeOK, OpShape
  <2> QED  BY <1>3, <2>1, <2>2, OthersRoutedAfter, Assumed
<1>15. OpRouted'
  <2>1. call'.fn = "start" => RouteFree(op.site, row[op.site].cfg)
    BY DEF OpRouted, CallShape
  <2>2. /\ op'.kind = op.kind /\ op'.site = op.site /\ op'.at = op.at /\ op'.old = op.old
        /\ op'.result = "ok" => op.at = "stop"
    BY DEF CallShape
  <2> QED  BY <2>1, <2>2, OpRoutedAfterCall
<1>16. RowOutlivesInstance'
  BY ZenonT(60) DEF OpShape, CallShape, OpRow, OpInstance, PhaseShape,
         RowOutlivesInstance, Exists, Enabled
<1>17. NothingAcceptsAfterShutdown'
  BY DEF OpShape, CallShape, PhaseShape, NothingAcceptsAfterShutdown,
         Accepting, Plain, ShutdownPass
<1>18. RoutesReachTheirConfig'
  BY ZenonT(60) DEF RoutesReachTheirConfig, Accepting, Plain
<1> QED BY <1>4, <1>5, <1>6, <1>7, <1>8, <1>9, <1>10, <1>11, <1>12, <1>13,
         <1>14, <1>15, <1>16, <1>17, <1>18

LEMMA InstallKeeps ==
  ASSUME IInv, Install
  PROVE  IInv'
<1>0. PICK o \in Site : op.site = o
  BY OpHasSite DEF IInv, OpShape, Install, CallShape, TypeOK
<1>1. /\ call.at = "install" /\ call.fn = "start" /\ phase \notin ShutdownPass
      /\ op.kind # "none" /\ op.result = "none" /\ ~shutdownStarted
      /\ op.at \in {"start", "restart"}
  BY DEF IInv, CallShape, OpShape, TypeOK, Install
<1>2. /\ UNCHANGED <<row, shutdownStarted, phase, draining, faults, adrift, unrouted>>
      /\ \E v \in BOOLEAN : InstIs(op.site, "open", row[op.site].cfg, v)
      /\ Rerouted(op.site, row[op.site].cfg)
      /\ OpAt(op.at, "ok") /\ CallIs("none", "idle")
  <2>1. row[op.site].cfg \in Configs
    BY <1>0, Typed DEF IInv, Rows
  <2>2. \E v \in BOOLEAN : InstIs(op.site, "open", row[op.site].cfg, v)
    <3> DEFINE serving == row[op.site].cfg.port # None
    <3>1. serving \in BOOLEAN
      OBVIOUS
    <3>2. inst' = [inst EXCEPT ![op.site] =
                     [gate |-> "open", cfg |-> row[op.site].cfg, serving |-> serving]]
      BY DEF Install
    <3> HIDE DEF serving
    <3>3. InstIs(op.site, "open", row[op.site].cfg, serving)
      BY <1>0, <2>1, <3>1, <3>2, InstReplaced DEF IInv
    <3> QED  BY <3>1, <3>3
  <2>3. Rerouted(op.site, row[op.site].cfg)
    BY <1>0, <1>1, ReroutedIs DEF IInv, OpRouted, Install, Routes
  <2> QED  BY <2>2, <2>3, ReturnIs DEF IInv, Install, Results, database, history
<1> USE <1>0, <1>1, <1>2 DEF IInv, Rerouted, OpAt, CallIs, InstIs, ShutdownPass
<1>3. OthersUntouched(o)
  BY DEF OthersUntouched
<1>4. TypeOK'
  BY Typed, Assumed, TypedAfter DEF TypeOK, OpShape, CallShape, PhaseShape,
         ShutdownPass
<1>5. OpShape'
  BY DEF OpShape, CallShape, PhaseShape
<1>6. CallShape'
  BY DEF OpShape, CallShape, PhaseShape, ShutdownPass
<1>7. PhaseShape'
  BY DEF TypeOK, OpShape, CallShape, PhaseShape, OpRow, RowOutlivesInstance,
         Exists, Enabled, Accepting, Plain, ShutdownPass
<1>8. OpRow'
  BY ZenonT(60) DEF OpShape, CallShape, PhaseShape, OpRow, Rewritten, Exists, Enabled
<1>9. OpInstance'
  BY DEF OpShape, CallShape, PhaseShape, OpInstance, RowOutlivesInstance,
         AcceptingIsEnabled, Exists, Enabled, Accepting, Plain
<1>10. AcceptingIsEnabled'
  BY ZenonT(60) DEF OpShape, CallShape, OpRow, OpInstance, AcceptingIsEnabled,
         RowOutlivesInstance, Exists, Enabled, Accepting, Plain
<1>11. OthersMatch'
  <2>1. Lives => o \in adrift' \/ op'.site = o \/ Matches(o)'
    BY DEF OpShape, CallShape, PhaseShape, OpRow, Rewritten, OpMatches,
         Matches, Lives, Exists, Enabled, Accepting
  <2>2. /\ op.site \in {o, None} /\ phase' = phase
        /\ \A t \in Site : t # o => (t \in draining' <=> t \in draining)
    BY DEF TypeOK, OpShape
  <2> QED  BY <1>3, <2>1, <2>2, OthersMatchAfter, Assumed
<1>12. OpMatches'
  BY DEF OpShape, CallShape, PhaseShape, OpRow, OpInstance, OthersMatch,
         OpMatches, Matches, Lives, Exists, Enabled, Accepting, Rewritten
<1>13. UniqueRows'
  <2>1. /\ o \in Site
        /\ \/ ~Exists(o)'
           \/ Exists(o) /\ row'[o].cfg = row[o].cfg
           \/ Unique(o, row'[o].cfg)
    BY DEF UniqueRows, OpShape, OpRow, Exists, Enabled
  <2>2. op'.kind = "put" => op'.site = o /\ Unique(o, op'.old)
    BY DEF UniqueRows
  <2> QED  BY <1>3, <2>1, <2>2, UniqueRowsAfter DEF OthersUntouched
<1>14. OthersRouted'
  <2>1. o \in unrouted' \/ op'.site = o \/ RouteMatches(o)'
    BY DEF OpShape, CallShape, OpRow, OpRouted, RouteMatches, Routed,
         RouteFree, Exists, Enabled, Rewritten
  <2>2. op.site \in {o, None} /\ phase' = phase
    BY DEF TypeOK, OpShape
  <2> QED  BY <1>3, <2>1, <2>2, OthersRoutedAfter, Assumed
<1>15. OpRouted'
  <2>1. RouteMatches(o)'
    BY DEF OpRow, RouteMatches, Exists, Enabled
  <2>2. ASSUME op.kind = "put", op.at = "restart"
        PROVE  Routed(o, op.old)'
    <3>1. row[o].cfg = op.old /\ op'.old = op.old
      BY <2>2 DEF OpRow, Rewritten
    <3>2. \A h \in Host : route'[h] = o <=> row[o].cfg.host = h
      OBVIOUS
    <3> QED  BY ONLY <3>1, <3>2 DEF Routed
  <2> QED  BY <2>1, <2>2 DEF OpRouted
<1>16. RowOutlivesInstance'
  BY ZenonT(60) DEF OpRow, RowOutlivesInstance, Exists, Enabled
<1>17. NothingAcceptsAfterShutdown'
  BY DEF OpShape, CallShape, PhaseShape, NothingAcceptsAfterShutdown,
         Accepting, Plain, ShutdownPass
<1>18. RoutesReachTheirConfig'
  <2>1. \A h \in Host : route'[h] = o <=> row[o].cfg.host = h
    OBVIOUS
  <2>2. inst'[o].cfg = row[o].cfg
    OBVIOUS
  <2>3. ASSUME NEW s \in Site, s # o
        PROVE  inst'[s] = inst[s] /\ \A h \in Host : route'[h] = s <=> route[h] = s
    BY <2>3
  <2>4. RoutesReachTheirConfig
    OBVIOUS
  <2> QED  BY ONLY <2>1, <2>2, <2>3, <2>4 DEF RoutesReachTheirConfig, Accepting, Plain
<1> QED BY <1>4, <1>5, <1>6, <1>7, <1>8, <1>9, <1>10, <1>11, <1>12, <1>13,
         <1>14, <1>15, <1>16, <1>17, <1>18

-----------------------------------------------------------------------------
(* Every step keeps the invariant: the requests                            *)

LEMMA CreateSiteKeeps ==
  ASSUME IInv, NEW s \in Site, NEW c \in Config, CreateSite(s, c)
  PROVE  IInv'
<1>1. /\ op.kind = "none" /\ op.site = None /\ op.at = "idle" /\ op.result = "none"
      /\ call.fn = "none" /\ call.at = "idle" /\ s # None
      /\ phase \in {"up", "first pass"}
      /\ ~Exists(s) /\ Unique(s, c)
      /\ Lives /\ s \notin adrift => Matches(s)
      /\ s \notin unrouted => RouteMatches(s)
  BY Assumed DEF IInv, TypeOK, OpShape, CallShape, OthersMatch, OthersRouted,
         Lives, Serving, CreateSite
<1>2. /\ HandlerOnly /\ faults' \in 0..MaxFault /\ RowIs(s, "enabled", c)
      /\ \/ OpIs("post", s, "start", NoConfig, NoConfig) /\ UNCHANGED <<adrift, unrouted>>
         \/ op' = op /\ adrift' = adrift \cup {s} /\ unrouted' = unrouted \cup {s}
  <2>1. RowIs(s, "enabled", c)
    BY RowReplaced, Assumed DEF IInv, CreateSite, RowStates
  <2>2. CASE /\ NoFault /\ UNCHANGED history
             /\ op' = [NoOp EXCEPT !.kind = "post", !.site = s, !.at = "start"]
    <3>1. OpIs("post", s, "start", NoConfig, NoConfig)
      BY <2>2 DEF OpIs, NoOp, Ops, Kinds, Labels, Results, Configs
    <3> QED  BY <2>1, <2>2, <3>1, NoFaultCounted DEF IInv, CreateSite, history
  <2>3. CASE /\ Fault /\ UNCHANGED op
             /\ adrift' = adrift \cup {s} /\ unrouted' = unrouted \cup {s}
    BY <2>1, <2>3, FaultCounted DEF IInv, CreateSite
  <2> QED  BY <2>2, <2>3 DEF CreateSite
<1> USE <1>1, <1>2 DEF IInv, OpIs, RowIs, HandlerOnly, runtime
<1>3. OthersUntouched(s)
  BY DEF OthersUntouched
<1>4. TypeOK'
  BY ZenonT(60), Typed, Assumed, TypedAfter DEF TypeOK, OpShape, CallShape, PhaseShape,
         ShutdownPass
<1>5. OpShape'
  BY DEF OpShape, CallShape, PhaseShape
<1>6. CallShape'
  BY DEF OpShape, CallShape, PhaseShape, ShutdownPass
<1>7. PhaseShape'
  BY ZenonT(60) DEF TypeOK, OpShape, CallShape, PhaseShape, OpRow, RowOutlivesInstance,
         Exists, Enabled, Accepting, Plain, ShutdownPass
<1>8. OpRow'
  BY DEF OpShape, CallShape, PhaseShape, OpRow, Rewritten, Exists, Enabled
<1>9. OpInstance'
  BY DEF OpShape, CallShape, PhaseShape, OpInstance, RowOutlivesInstance,
         AcceptingIsEnabled, Exists, Enabled, Accepting, Plain
<1>10. AcceptingIsEnabled'
  BY DEF OpShape, CallShape, OpRow, OpInstance, AcceptingIsEnabled,
         RowOutlivesInstance, Exists, Enabled, Accepting, Plain
<1>11. OthersMatch'
  <2>1. Lives => s \in adrift' \/ op'.site = s \/ Matches(s)'
    BY DEF OpShape, CallShape, PhaseShape, OpRow, Rewritten, OpMatches,
         Matches, Lives, Exists, Enabled, Accepting
  <2>2. /\ op.site \in {s, None} /\ phase' = phase
        /\ \A t \in Site : t # s => (t \in draining' <=> t \in draining)
    BY DEF TypeOK, OpShape
  <2> QED  BY <1>3, <2>1, <2>2, OthersMatchAfter, Assumed
<1>12. OpMatches'
  BY DEF OpMatches, Matches, Lives, Enabled, Accepting
<1>13. UniqueRows'
  <2>1. /\ s \in Site
        /\ \/ ~Exists(s)'
           \/ Exists(s) /\ row'[s].cfg = row[s].cfg
           \/ Unique(s, row'[s].cfg)
    BY DEF UniqueRows, OpShape, OpRow, Exists, Enabled
  <2>2. op'.kind = "put" => op'.site = s /\ Unique(s, op'.old)
    BY DEF UniqueRows
  <2> QED  BY <1>3, <2>1, <2>2, UniqueRowsAfter DEF OthersUntouched
<1>14. OthersRouted'
  <2>1. s \in unrouted' \/ op'.site = s \/ RouteMatches(s)'
    BY DEF OpShape, CallShape, OpRow, OpRouted, RouteMatches, Routed,
         RouteFree, Exists, Enabled, Rewritten
  <2>2. op.site \in {s, None} /\ phase' = phase
    BY DEF TypeOK, OpShape
  <2> QED  BY <1>3, <2>1, <2>2, OthersRoutedAfter, Assumed
<1>15. OpRouted'
  BY DEF OpRouted, RouteMatches, Routed, Exists
<1>16. RowOutlivesInstance'
  BY DEF OpShape, CallShape, OpRow, OpInstance, PhaseShape,
         RowOutlivesInstance, Exists, Enabled
<1>17. NothingAcceptsAfterShutdown'
  BY DEF OpShape, CallShape, PhaseShape, NothingAcceptsAfterShutdown,
         Accepting, Plain, ShutdownPass
<1>18. RoutesReachTheirConfig'
  BY DEF OpShape, CallShape, OpRow, OpInstance, PhaseShape, AcceptingIsEnabled,
         RoutesReachTheirConfig, Exists, Enabled, Accepting, Plain
<1> QED BY <1>4, <1>5, <1>6, <1>7, <1>8, <1>9, <1>10, <1>11, <1>12, <1>13,
         <1>14, <1>15, <1>16, <1>17, <1>18

LEMMA ToggleOffKeeps ==
  ASSUME IInv, NEW s \in Site, ToggleOff(s)
  PROVE  IInv'
<1>1. /\ op.kind = "none" /\ op.site = None /\ op.at = "idle" /\ op.result = "none"
      /\ call.fn = "none" /\ call.at = "idle" /\ s # None
      /\ phase \in {"up", "first pass"}
      /\ Exists(s)
      /\ Lives /\ s \notin adrift => Matches(s)
      /\ s \notin unrouted => RouteMatches(s)
  BY Assumed DEF IInv, TypeOK, OpShape, CallShape, OthersMatch, OthersRouted,
         Lives, Serving, ToggleOff, Exists, Enabled
<1>2. /\ HandlerOnly /\ UNCHANGED <<row, faults, adrift, unrouted>>
      /\ OpIs("off", s, "stop", NoConfig, NoConfig)
  <2>1. op' = [NoOp EXCEPT !.kind = "off", !.site = s, !.at = "stop"]
    BY DEF ToggleOff
  <2>2. OpIs("off", s, "stop", NoConfig, NoConfig)
    BY <2>1 DEF OpIs, NoOp, Ops, Kinds, Labels, Results, Configs
  <2> QED  BY <2>2 DEF ToggleOff, NoFault, database, history
<1> USE <1>1, <1>2 DEF IInv, OpIs, HandlerOnly, runtime
<1>3. OthersUntouched(s)
  BY DEF OthersUntouched
<1>4. TypeOK'
  BY Typed, Assumed, TypedAfter DEF TypeOK, OpShape, CallShape, PhaseShape,
         ShutdownPass
<1>5. OpShape'
  BY DEF OpShape, CallShape, PhaseShape
<1>6. CallShape'
  BY DEF OpShape, CallShape, PhaseShape, ShutdownPass
<1>7. PhaseShape'
  BY ZenonT(60) DEF TypeOK, OpShape, CallShape, PhaseShape, OpRow, RowOutlivesInstance,
         Exists, Enabled, Accepting, Plain, ShutdownPass
<1>8. OpRow'
  BY DEF OpShape, CallShape, PhaseShape, OpRow, Rewritten, Exists, Enabled
<1>9. OpInstance'
  BY DEF OpShape, CallShape, PhaseShape, OpInstance, RowOutlivesInstance,
         AcceptingIsEnabled, Exists, Enabled, Accepting, Plain
<1>10. AcceptingIsEnabled'
  BY DEF OpShape, CallShape, OpRow, OpInstance, AcceptingIsEnabled,
         RowOutlivesInstance, Exists, Enabled, Accepting, Plain
<1>11. OthersMatch'
  <2>1. Lives => s \in adrift' \/ op'.site = s \/ Matches(s)'
    BY DEF OpShape, CallShape, PhaseShape, OpRow, Rewritten, OpMatches,
         Matches, Lives, Exists, Enabled, Accepting
  <2>2. /\ op.site \in {s, None} /\ phase' = phase
        /\ \A t \in Site : t # s => (t \in draining' <=> t \in draining)
    BY DEF TypeOK, OpShape
  <2> QED  BY <1>3, <2>1, <2>2, OthersMatchAfter, Assumed
<1>12. OpMatches'
  BY DEF OpMatches, Matches, Lives, Enabled, Accepting
<1>13. UniqueRows'
  <2>1. /\ s \in Site
        /\ \/ ~Exists(s)'
           \/ Exists(s) /\ row'[s].cfg = row[s].cfg
           \/ Unique(s, row'[s].cfg)
    BY DEF UniqueRows, OpShape, OpRow, Exists, Enabled
  <2>2. op'.kind = "put" => op'.site = s /\ Unique(s, op'.old)
    BY DEF UniqueRows
  <2> QED  BY <1>3, <2>1, <2>2, UniqueRowsAfter DEF OthersUntouched
<1>14. OthersRouted'
  <2>1. s \in unrouted' \/ op'.site = s \/ RouteMatches(s)'
    BY DEF OpShape, CallShape, OpRow, OpRouted, RouteMatches, Routed,
         RouteFree, Exists, Enabled, Rewritten
  <2>2. op.site \in {s, None} /\ phase' = phase
    BY DEF TypeOK, OpShape
  <2> QED  BY <1>3, <2>1, <2>2, OthersRoutedAfter, Assumed
<1>15. OpRouted'
  BY DEF OpRouted, RouteMatches, Routed, Exists
<1>16. RowOutlivesInstance'
  BY DEF OpShape, CallShape, OpRow, OpInstance, PhaseShape,
         RowOutlivesInstance, Exists, Enabled
<1>17. NothingAcceptsAfterShutdown'
  BY DEF OpShape, CallShape, PhaseShape, NothingAcceptsAfterShutdown,
         Accepting, Plain, ShutdownPass
<1>18. RoutesReachTheirConfig'
  BY DEF OpShape, CallShape, OpRow, OpInstance, PhaseShape, AcceptingIsEnabled,
         RoutesReachTheirConfig, Exists, Enabled, Accepting, Plain
<1> QED BY <1>4, <1>5, <1>6, <1>7, <1>8, <1>9, <1>10, <1>11, <1>12, <1>13,
         <1>14, <1>15, <1>16, <1>17, <1>18

LEMMA ToggleOnKeeps ==
  ASSUME IInv, NEW s \in Site, ToggleOn(s)
  PROVE  IInv'
<1>1. /\ op.kind = "none" /\ op.site = None /\ op.at = "idle" /\ op.result = "none"
      /\ call.fn = "none" /\ call.at = "idle" /\ s # None
      /\ phase \in {"up", "first pass"}
      /\ row[s].state = "disabled" /\ Exists(s)
      /\ Lives /\ s \notin adrift => Matches(s)
      /\ s \notin unrouted => RouteMatches(s)
  BY Assumed DEF IInv, TypeOK, OpShape, CallShape, OthersMatch, OthersRouted,
         Lives, Serving, ToggleOn, Exists
<1>2. /\ HandlerOnly /\ faults' \in 0..MaxFault /\ UNCHANGED <<adrift, unrouted>>
      /\ RowIs(s, "enabled", row[s].cfg)
      /\ \/ OpIs("on", s, "start", NoConfig, NoConfig)
         \/ OpIs("on", s, "revert", NoConfig, NoConfig)
  <2>1. RowIs(s, "enabled", row[s].cfg)
    BY SetEnabledIs DEF IInv, ToggleOn, RowStates
  <2>2. PICK label \in {"start", "revert"} :
           /\ op' = [NoOp EXCEPT !.kind = "on", !.site = s, !.at = label]
           /\ IF label = "revert" THEN Fault ELSE NoFault
    BY Zenon DEF ToggleOn
  <2>3. OpIs("on", s, label, NoConfig, NoConfig)
    BY <2>2 DEF OpIs, NoOp, Ops, Kinds, Labels, Results, Configs
  <2>4. faults' \in 0..MaxFault
    BY <2>2, FaultCounted, NoFaultCounted DEF IInv
  <2> QED  BY <2>1, <2>3, <2>4 DEF ToggleOn, history
<1> USE <1>1, <1>2 DEF IInv, OpIs, RowIs, HandlerOnly, runtime
<1>3. OthersUntouched(s)
  BY DEF OthersUntouched
<1>4. TypeOK'
  BY Typed, Assumed, TypedAfter DEF TypeOK, OpShape, CallShape, PhaseShape,
         ShutdownPass
<1>5. OpShape'
  BY DEF OpShape, CallShape, PhaseShape
<1>6. CallShape'
  BY DEF OpShape, CallShape, PhaseShape, ShutdownPass
<1>7. PhaseShape'
  BY ZenonT(60) DEF TypeOK, OpShape, CallShape, PhaseShape, OpRow, RowOutlivesInstance,
         Exists, Enabled, Accepting, Plain, ShutdownPass
<1>8. OpRow'
  BY DEF OpShape, CallShape, PhaseShape, OpRow, Rewritten, Exists, Enabled
<1>9. OpInstance'
  BY DEF OpShape, CallShape, PhaseShape, OpInstance, RowOutlivesInstance,
         AcceptingIsEnabled, Exists, Enabled, Accepting, Plain
<1>10. AcceptingIsEnabled'
  BY DEF OpShape, CallShape, OpRow, OpInstance, AcceptingIsEnabled,
         RowOutlivesInstance, Exists, Enabled, Accepting, Plain
<1>11. OthersMatch'
  <2>1. Lives => s \in adrift' \/ op'.site = s \/ Matches(s)'
    BY DEF OpShape, CallShape, PhaseShape, OpRow, Rewritten, OpMatches,
         Matches, Lives, Exists, Enabled, Accepting
  <2>2. /\ op.site \in {s, None} /\ phase' = phase
        /\ \A t \in Site : t # s => (t \in draining' <=> t \in draining)
    BY DEF TypeOK, OpShape
  <2> QED  BY <1>3, <2>1, <2>2, OthersMatchAfter, Assumed
<1>12. OpMatches'
  BY DEF OpMatches, Matches, Lives, Enabled, Accepting
<1>13. UniqueRows'
  <2>1. /\ s \in Site
        /\ \/ ~Exists(s)'
           \/ Exists(s) /\ row'[s].cfg = row[s].cfg
           \/ Unique(s, row'[s].cfg)
    BY DEF UniqueRows, OpShape, OpRow, Exists, Enabled
  <2>2. op'.kind = "put" => op'.site = s /\ Unique(s, op'.old)
    BY DEF UniqueRows
  <2> QED  BY <1>3, <2>1, <2>2, UniqueRowsAfter DEF OthersUntouched
<1>14. OthersRouted'
  <2>1. s \in unrouted' \/ op'.site = s \/ RouteMatches(s)'
    BY DEF OpShape, CallShape, OpRow, OpRouted, RouteMatches, Routed,
         RouteFree, Exists, Enabled, Rewritten
  <2>2. op.site \in {s, None} /\ phase' = phase
    BY DEF TypeOK, OpShape
  <2> QED  BY <1>3, <2>1, <2>2, OthersRoutedAfter, Assumed
<1>15. OpRouted'
  <2>1. s \notin unrouted => RouteMatches(s)'
    BY DEF RouteMatches, Exists
  <2> QED  BY ZenonT(60), <2>1 DEF OpRouted, RouteMatches
<1>16. RowOutlivesInstance'
  BY ZenonT(60) DEF OpShape, CallShape, OpRow, OpInstance, PhaseShape,
         RowOutlivesInstance, Exists, Enabled
<1>17. NothingAcceptsAfterShutdown'
  BY DEF OpShape, CallShape, PhaseShape, NothingAcceptsAfterShutdown,
         Accepting, Plain, ShutdownPass
<1>18. RoutesReachTheirConfig'
  BY DEF OpShape, CallShape, OpRow, OpInstance, PhaseShape, AcceptingIsEnabled,
         RoutesReachTheirConfig, Exists, Enabled, Accepting, Plain
<1> QED BY <1>4, <1>5, <1>6, <1>7, <1>8, <1>9, <1>10, <1>11, <1>12, <1>13,
         <1>14, <1>15, <1>16, <1>17, <1>18

LEMMA UpdateSiteKeeps ==
  ASSUME IInv, NEW s \in Site, NEW c \in Config, UpdateSite(s, c)
  PROVE  IInv'
<1>1. /\ op.kind = "none" /\ op.site = None /\ op.at = "idle" /\ op.result = "none"
      /\ call.fn = "none" /\ call.at = "idle" /\ s # None
      /\ phase \in {"up", "first pass"}
      /\ Exists(s)
      /\ Lives /\ s \notin adrift => Matches(s)
      /\ s \notin unrouted => RouteMatches(s)
  BY Assumed DEF IInv, TypeOK, OpShape, CallShape, OthersMatch, OthersRouted,
         Lives, Serving, UpdateSite
<1>2. /\ HandlerOnly /\ UNCHANGED <<row, faults, adrift, unrouted>>
      /\ \/ OpIs("put", s, "stop", c, row[s].cfg)
         \/ OpIs("put", s, "update", c, row[s].cfg)
  <2> DEFINE needsPreStop == /\ Enabled(s) /\ c.port # None /\ row[s].cfg.port = c.port
                             /\ IsRunning(s)
             label == IF needsPreStop THEN "stop" ELSE "update"
  <2>1. op' = [NoOp EXCEPT !.kind = "put", !.site = s, !.cfg = c, !.old = row[s].cfg,
                           !.at = label]
    BY Zenon DEF UpdateSite
  <2>2. label \in {"stop", "update"}
    OBVIOUS
  <2> HIDE DEF label
  <2>3. c \in Configs /\ row[s].cfg \in Configs
    BY Typed, Assumed DEF IInv, Rows
  <2>4. OpIs("put", s, label, c, row[s].cfg)
    BY <2>1, <2>2, <2>3 DEF OpIs, NoOp, Ops, Kinds, Labels, Results
  <2> QED  BY <2>2, <2>4 DEF UpdateSite, NoFault, database, history
<1> USE <1>1, <1>2 DEF IInv, OpIs, HandlerOnly, runtime
<1>3. OthersUntouched(s)
  BY DEF OthersUntouched
<1>4. TypeOK'
  BY Typed, Assumed, TypedAfter DEF TypeOK, OpShape, CallShape, PhaseShape,
         ShutdownPass
<1>5. OpShape'
  BY DEF OpShape, CallShape, PhaseShape
<1>6. CallShape'
  BY DEF OpShape, CallShape, PhaseShape, ShutdownPass
<1>7. PhaseShape'
  BY ZenonT(60) DEF TypeOK, OpShape, CallShape, PhaseShape, OpRow, RowOutlivesInstance,
         Exists, Enabled, Accepting, Plain, ShutdownPass
<1>8. OpRow'
  BY DEF OpShape, CallShape, PhaseShape, OpRow, Rewritten, Exists, Enabled
<1>9. OpInstance'
  BY DEF OpShape, CallShape, PhaseShape, OpInstance, RowOutlivesInstance,
         AcceptingIsEnabled, Exists, Enabled, Accepting, Plain
<1>10. AcceptingIsEnabled'
  BY DEF OpShape, CallShape, OpRow, OpInstance, AcceptingIsEnabled,
         RowOutlivesInstance, Exists, Enabled, Accepting, Plain
<1>11. OthersMatch'
  <2>1. Lives => s \in adrift' \/ op'.site = s \/ Matches(s)'
    BY DEF OpShape, CallShape, PhaseShape, OpRow, Rewritten, OpMatches,
         Matches, Lives, Exists, Enabled, Accepting
  <2>2. /\ op.site \in {s, None} /\ phase' = phase
        /\ \A t \in Site : t # s => (t \in draining' <=> t \in draining)
    BY DEF TypeOK, OpShape
  <2> QED  BY <1>3, <2>1, <2>2, OthersMatchAfter, Assumed
<1>12. OpMatches'
  BY DEF OpMatches, Matches, Lives, Enabled, Accepting
<1>13. UniqueRows'
  <2>1. /\ s \in Site
        /\ \/ ~Exists(s)'
           \/ Exists(s) /\ row'[s].cfg = row[s].cfg
           \/ Unique(s, row'[s].cfg)
    BY DEF UniqueRows, OpShape, OpRow, Exists, Enabled
  <2>2. op'.kind = "put" => op'.site = s /\ Unique(s, op'.old)
    BY DEF UniqueRows
  <2> QED  BY <1>3, <2>1, <2>2, UniqueRowsAfter DEF OthersUntouched
<1>14. OthersRouted'
  <2>1. s \in unrouted' \/ op'.site = s \/ RouteMatches(s)'
    BY DEF OpShape, CallShape, OpRow, OpRouted, RouteMatches, Routed,
         RouteFree, Exists, Enabled, Rewritten
  <2>2. op.site \in {s, None} /\ phase' = phase
    BY DEF TypeOK, OpShape
  <2> QED  BY <1>3, <2>1, <2>2, OthersRoutedAfter, Assumed
<1>15. OpRouted'
  BY DEF OpRouted, RouteMatches, Routed, Exists
<1>16. RowOutlivesInstance'
  BY DEF OpShape, CallShape, OpRow, OpInstance, PhaseShape,
         RowOutlivesInstance, Exists, Enabled
<1>17. NothingAcceptsAfterShutdown'
  BY DEF OpShape, CallShape, PhaseShape, NothingAcceptsAfterShutdown,
         Accepting, Plain, ShutdownPass
<1>18. RoutesReachTheirConfig'
  BY DEF OpShape, CallShape, OpRow, OpInstance, PhaseShape, AcceptingIsEnabled,
         RoutesReachTheirConfig, Exists, Enabled, Accepting, Plain
<1> QED BY <1>4, <1>5, <1>6, <1>7, <1>8, <1>9, <1>10, <1>11, <1>12, <1>13,
         <1>14, <1>15, <1>16, <1>17, <1>18

LEMMA DeleteSiteKeeps ==
  ASSUME IInv, NEW s \in Site, DeleteSite(s)
  PROVE  IInv'
<1>1. /\ op.kind = "none" /\ op.site = None /\ op.at = "idle" /\ op.result = "none"
      /\ call.fn = "none" /\ call.at = "idle" /\ s # None
      /\ phase \in {"up", "first pass"}
      /\ Exists(s)
      /\ Lives /\ s \notin adrift => Matches(s)
      /\ s \notin unrouted => RouteMatches(s)
  BY Assumed DEF IInv, TypeOK, OpShape, CallShape, OthersMatch, OthersRouted,
         Lives, Serving, DeleteSite
<1>2. /\ HandlerOnly /\ UNCHANGED <<row, faults, adrift, unrouted>>
      /\ OpIs("delete", s, "stop", NoConfig, NoConfig)
  <2>1. op' = [NoOp EXCEPT !.kind = "delete", !.site = s, !.at = "stop"]
    BY DEF DeleteSite
  <2>2. OpIs("delete", s, "stop", NoConfig, NoConfig)
    BY <2>1 DEF OpIs, NoOp, Ops, Kinds, Labels, Results, Configs
  <2> QED  BY <2>2 DEF DeleteSite, NoFault, database, history
<1> USE <1>1, <1>2 DEF IInv, OpIs, HandlerOnly, runtime
<1>3. OthersUntouched(s)
  BY DEF OthersUntouched
<1>4. TypeOK'
  BY Typed, Assumed, TypedAfter DEF TypeOK, OpShape, CallShape, PhaseShape,
         ShutdownPass
<1>5. OpShape'
  BY DEF OpShape, CallShape, PhaseShape
<1>6. CallShape'
  BY DEF OpShape, CallShape, PhaseShape, ShutdownPass
<1>7. PhaseShape'
  BY ZenonT(60) DEF TypeOK, OpShape, CallShape, PhaseShape, OpRow, RowOutlivesInstance,
         Exists, Enabled, Accepting, Plain, ShutdownPass
<1>8. OpRow'
  BY DEF OpShape, CallShape, PhaseShape, OpRow, Rewritten, Exists, Enabled
<1>9. OpInstance'
  BY DEF OpShape, CallShape, PhaseShape, OpInstance, RowOutlivesInstance,
         AcceptingIsEnabled, Exists, Enabled, Accepting, Plain
<1>10. AcceptingIsEnabled'
  BY DEF OpShape, CallShape, OpRow, OpInstance, AcceptingIsEnabled,
         RowOutlivesInstance, Exists, Enabled, Accepting, Plain
<1>11. OthersMatch'
  <2>1. Lives => s \in adrift' \/ op'.site = s \/ Matches(s)'
    BY DEF OpShape, CallShape, PhaseShape, OpRow, Rewritten, OpMatches,
         Matches, Lives, Exists, Enabled, Accepting
  <2>2. /\ op.site \in {s, None} /\ phase' = phase
        /\ \A t \in Site : t # s => (t \in draining' <=> t \in draining)
    BY DEF TypeOK, OpShape
  <2> QED  BY <1>3, <2>1, <2>2, OthersMatchAfter, Assumed
<1>12. OpMatches'
  BY DEF OpMatches, Matches, Lives, Enabled, Accepting
<1>13. UniqueRows'
  <2>1. /\ s \in Site
        /\ \/ ~Exists(s)'
           \/ Exists(s) /\ row'[s].cfg = row[s].cfg
           \/ Unique(s, row'[s].cfg)
    BY DEF UniqueRows, OpShape, OpRow, Exists, Enabled
  <2>2. op'.kind = "put" => op'.site = s /\ Unique(s, op'.old)
    BY DEF UniqueRows
  <2> QED  BY <1>3, <2>1, <2>2, UniqueRowsAfter DEF OthersUntouched
<1>14. OthersRouted'
  <2>1. s \in unrouted' \/ op'.site = s \/ RouteMatches(s)'
    BY DEF OpShape, CallShape, OpRow, OpRouted, RouteMatches, Routed,
         RouteFree, Exists, Enabled, Rewritten
  <2>2. op.site \in {s, None} /\ phase' = phase
    BY DEF TypeOK, OpShape
  <2> QED  BY <1>3, <2>1, <2>2, OthersRoutedAfter, Assumed
<1>15. OpRouted'
  BY DEF OpRouted, RouteMatches, Routed, Exists
<1>16. RowOutlivesInstance'
  BY DEF OpShape, CallShape, OpRow, OpInstance, PhaseShape,
         RowOutlivesInstance, Exists, Enabled
<1>17. NothingAcceptsAfterShutdown'
  BY DEF OpShape, CallShape, PhaseShape, NothingAcceptsAfterShutdown,
         Accepting, Plain, ShutdownPass
<1>18. RoutesReachTheirConfig'
  BY DEF OpShape, CallShape, OpRow, OpInstance, PhaseShape, AcceptingIsEnabled,
         RoutesReachTheirConfig, Exists, Enabled, Accepting, Plain
<1> QED BY <1>4, <1>5, <1>6, <1>7, <1>8, <1>9, <1>10, <1>11, <1>12, <1>13,
         <1>14, <1>15, <1>16, <1>17, <1>18

-----------------------------------------------------------------------------
(* Every step keeps the invariant: the life of the process                 *)

LEMMA BootSiteKeeps ==
  ASSUME IInv, NEW s \in Site, BootSite(s)
  PROVE  IInv'
<1>1. /\ op.kind = "none" /\ op.site = None /\ op.at = "idle" /\ op.result = "none"
      /\ call.fn = "none" /\ call.at = "idle" /\ s # None
      /\ phase = "booting" /\ s \in draining /\ Enabled(s) /\ Exists(s)
      /\ s \notin unrouted => RouteMatches(s)
  BY ZenonT(60), Assumed DEF IInv, TypeOK, OpShape, CallShape, PhaseShape, OthersRouted,
         BootSite, Exists, Enabled
<1>2. /\ UNCHANGED <<row, inst, route, shutdownStarted, call, phase, draining>>
      /\ UNCHANGED <<faults, adrift, unrouted>>
      /\ OpIs("boot", s, "start", NoConfig, NoConfig)
  <2>1. op' = [NoOp EXCEPT !.kind = "boot", !.site = s, !.at = "start"]
    BY DEF BootSite
  <2>2. OpIs("boot", s, "start", NoConfig, NoConfig)
    BY <2>1 DEF OpIs, NoOp, Ops, Kinds, Labels, Results, Configs
  <2> QED  BY <2>2 DEF BootSite, database, runtime, history
<1> USE <1>1, <1>2 DEF IInv, OpIs, ShutdownPass
<1>3. OthersUntouched(s)
  BY DEF OthersUntouched
<1>4. TypeOK'
  BY Typed, Assumed, TypedAfter DEF TypeOK, OpShape, CallShape, PhaseShape,
         ShutdownPass
<1>5. OpShape'
  BY DEF OpShape, CallShape, PhaseShape
<1>6. CallShape'
  BY DEF OpShape, CallShape, PhaseShape, ShutdownPass
<1>7. PhaseShape'
  BY DEF TypeOK, OpShape, CallShape, PhaseShape, OpRow, RowOutlivesInstance,
         Exists, Enabled, Accepting, Plain, ShutdownPass
<1>8. OpRow'
  BY DEF OpShape, CallShape, PhaseShape, OpRow, Rewritten, Exists, Enabled
<1>9. OpInstance'
  BY DEF OpShape, CallShape, PhaseShape, OpInstance, RowOutlivesInstance,
         AcceptingIsEnabled, Exists, Enabled, Accepting, Plain
<1>10. AcceptingIsEnabled'
  BY DEF OpShape, CallShape, OpRow, OpInstance, AcceptingIsEnabled,
         RowOutlivesInstance, Exists, Enabled, Accepting, Plain
<1>11. OthersMatch'
  <2>1. Lives => s \in adrift' \/ op'.site = s \/ Matches(s)'
    BY DEF OpShape, CallShape, PhaseShape, OpRow, Rewritten, OpMatches,
         Matches, Lives, Exists, Enabled, Accepting
  <2>2. /\ op.site \in {s, None} /\ phase' = phase
        /\ \A t \in Site : t # s => (t \in draining' <=> t \in draining)
    BY DEF TypeOK, OpShape
  <2> QED  BY <1>3, <2>1, <2>2, OthersMatchAfter, Assumed
<1>12. OpMatches'
  BY DEF OpMatches, Matches, Lives, Enabled, Accepting
<1>13. UniqueRows'
  <2>1. /\ s \in Site
        /\ \/ ~Exists(s)'
           \/ Exists(s) /\ row'[s].cfg = row[s].cfg
           \/ Unique(s, row'[s].cfg)
    BY DEF UniqueRows, OpShape, OpRow, Exists, Enabled
  <2>2. op'.kind = "put" => op'.site = s /\ Unique(s, op'.old)
    BY DEF UniqueRows
  <2> QED  BY <1>3, <2>1, <2>2, UniqueRowsAfter DEF OthersUntouched
<1>14. OthersRouted'
  <2>1. s \in unrouted' \/ op'.site = s \/ RouteMatches(s)'
    BY DEF OpShape, CallShape, OpRow, OpRouted, RouteMatches, Routed,
         RouteFree, Exists, Enabled, Rewritten
  <2>2. op.site \in {s, None} /\ phase' = phase
    BY DEF TypeOK, OpShape
  <2> QED  BY <1>3, <2>1, <2>2, OthersRoutedAfter, Assumed
<1>15. OpRouted'
  BY DEF OpRouted, RouteMatches, Routed, Exists
<1>16. RowOutlivesInstance'
  BY DEF OpShape, CallShape, OpRow, OpInstance, PhaseShape,
         RowOutlivesInstance, Exists, Enabled
<1>17. NothingAcceptsAfterShutdown'
  BY DEF OpShape, CallShape, PhaseShape, NothingAcceptsAfterShutdown,
         Accepting, Plain, ShutdownPass
<1>18. RoutesReachTheirConfig'
  BY DEF OpShape, CallShape, OpRow, OpInstance, PhaseShape, AcceptingIsEnabled,
         RoutesReachTheirConfig, Exists, Enabled, Accepting, Plain
<1> QED BY <1>4, <1>5, <1>6, <1>7, <1>8, <1>9, <1>10, <1>11, <1>12, <1>13,
         <1>14, <1>15, <1>16, <1>17, <1>18

LEMMA BootedSiteKeeps ==
  ASSUME IInv, BootedSite
  PROVE  IInv'
<1>0. PICK o \in Site : op.site = o
  BY OpHasSite DEF IInv, OpShape, BootedSite
<1>1. /\ op.kind = "boot" /\ op.at = "start" /\ call.fn = "none" /\ phase = "booting"
  BY DEF IInv, OpShape, PhaseShape, BootedSite, Returned
<1>2. /\ UNCHANGED <<row, inst, route, shutdownStarted, call, phase, faults>>
      /\ OpEnds /\ draining' = draining \ {op.site}
      /\ \/ /\ op.result = "ok"
            /\ adrift' = adrift \ {op.site} /\ unrouted' = unrouted \ {op.site}
         \/ adrift' = adrift \cup {op.site} /\ UNCHANGED unrouted
  BY <1>1, EndIs
     DEF IInv, BootedSite, Returned, Succeed, GiveUp, database, runtime
<1> USE <1>0, <1>1, <1>2 DEF IInv, OpEnds, ShutdownPass
<1>3. OthersUntouched(o)
  BY DEF OthersUntouched
<1>4. TypeOK'
  BY Typed, Assumed, TypedAfter DEF TypeOK, OpShape, CallShape, PhaseShape,
         ShutdownPass
<1>5. OpShape'
  BY DEF OpShape, CallShape, PhaseShape
<1>6. CallShape'
  BY DEF OpShape, CallShape, PhaseShape, ShutdownPass
<1>7. PhaseShape'
  BY DEF TypeOK, OpShape, CallShape, PhaseShape, OpRow, RowOutlivesInstance,
         Exists, Enabled, Accepting, Plain, ShutdownPass
<1>8. OpRow'
  BY DEF OpShape, CallShape, PhaseShape, OpRow, Rewritten, Exists, Enabled
<1>9. OpInstance'
  BY DEF OpShape, CallShape, PhaseShape, OpInstance, RowOutlivesInstance,
         AcceptingIsEnabled, Exists, Enabled, Accepting, Plain
<1>10. AcceptingIsEnabled'
  BY DEF OpShape, CallShape, OpRow, OpInstance, AcceptingIsEnabled,
         RowOutlivesInstance, Exists, Enabled, Accepting, Plain
<1>11. OthersMatch'
  <2>1. Lives => o \in adrift' \/ op'.site = o \/ Matches(o)'
    BY DEF OpShape, CallShape, PhaseShape, OpRow, Rewritten, OpMatches,
         Matches, Lives, Exists, Enabled, Accepting
  <2>2. /\ op.site \in {o, None} /\ phase' = phase
        /\ \A t \in Site : t # o => (t \in draining' <=> t \in draining)
    BY DEF TypeOK, OpShape
  <2> QED  BY <1>3, <2>1, <2>2, OthersMatchAfter, Assumed
<1>12. OpMatches'
  BY DEF OpShape, CallShape, PhaseShape, OpRow, OpInstance, OthersMatch,
         OpMatches, Matches, Lives, Exists, Enabled, Accepting, Rewritten
<1>13. UniqueRows'
  <2>1. /\ o \in Site
        /\ \/ ~Exists(o)'
           \/ Exists(o) /\ row'[o].cfg = row[o].cfg
           \/ Unique(o, row'[o].cfg)
    BY DEF UniqueRows, OpShape, OpRow, Exists, Enabled
  <2>2. op'.kind = "put" => op'.site = o /\ Unique(o, op'.old)
    BY DEF UniqueRows
  <2> QED  BY <1>3, <2>1, <2>2, UniqueRowsAfter DEF OthersUntouched
<1>14. OthersRouted'
  <2>1. o \in unrouted' \/ op'.site = o \/ RouteMatches(o)'
    BY DEF OpShape, CallShape, OpRow, OpRouted, RouteMatches, Routed,
         RouteFree, Exists, Enabled, Rewritten
  <2>2. op.site \in {o, None} /\ phase' = phase
    BY DEF TypeOK, OpShape
  <2> QED  BY <1>3, <2>1, <2>2, OthersRoutedAfter, Assumed
<1>15. OpRouted'
  BY DEF OpShape, CallShape, OpRow, OpRouted, RouteMatches, Routed, RouteFree,
         Exists, Rewritten
<1>16. RowOutlivesInstance'
  BY DEF OpShape, CallShape, OpRow, OpInstance, PhaseShape,
         RowOutlivesInstance, Exists, Enabled
<1>17. NothingAcceptsAfterShutdown'
  BY DEF OpShape, CallShape, PhaseShape, NothingAcceptsAfterShutdown,
         Accepting, Plain, ShutdownPass
<1>18. RoutesReachTheirConfig'
  BY DEF OpShape, CallShape, OpRow, OpInstance, PhaseShape, AcceptingIsEnabled,
         RoutesReachTheirConfig, Exists, Enabled, Accepting, Plain
<1> QED BY <1>4, <1>5, <1>6, <1>7, <1>8, <1>9, <1>10, <1>11, <1>12, <1>13,
         <1>14, <1>15, <1>16, <1>17, <1>18

LEMMA ServeFailsKeeps ==
  ASSUME IInv, NEW s \in Site, ServeFails(s)
  PROVE  IInv'
<1>1. Accepting(s)
  BY DEF ServeFails
<1>2. /\ UNCHANGED <<row, route, shutdownStarted, op, call, phase, draining, adrift, unrouted>>
      /\ InstIs(s, inst[s].gate, inst[s].cfg, FALSE) /\ faults' \in 0..MaxFault
      /\ \A t \in Site : inst'[t].gate = inst[t].gate /\ inst'[t].cfg = inst[t].cfg
  <2>1. InstIs(s, inst[s].gate, inst[s].cfg, FALSE)
    BY ServingEnds DEF IInv, ServeFails
  <2> QED  BY <2>1, FaultCounted DEF IInv, ServeFails, InstIs, database, history
<1> USE <1>1, <1>2 DEF IInv, InstIs
<1>4. TypeOK'
  BY ZenonT(60), Typed, Assumed, TypedAfter DEF TypeOK, OpShape, CallShape, PhaseShape,
         ShutdownPass
<1>5. OpShape'
  BY DEF OpShape, CallShape, PhaseShape
<1>6. CallShape'
  BY DEF OpShape, CallShape, PhaseShape, ShutdownPass
<1>7. PhaseShape'
  BY ZenonT(60) DEF TypeOK, OpShape, CallShape, PhaseShape, OpRow, RowOutlivesInstance,
         Exists, Enabled, Accepting, Plain, ShutdownPass
<1>8. OpRow'
  BY DEF OpShape, CallShape, PhaseShape, OpRow, Rewritten, Exists, Enabled
<1>9. OpInstance'
  BY DEF OpShape, CallShape, PhaseShape, OpInstance, RowOutlivesInstance,
         AcceptingIsEnabled, Exists, Enabled, Accepting, Plain
<1>10. AcceptingIsEnabled'
  BY DEF OpShape, CallShape, OpRow, OpInstance, AcceptingIsEnabled,
         RowOutlivesInstance, Exists, Enabled, Accepting, Plain
<1>11. OthersMatch'
  BY DEF OthersMatch, Matches, Lives, Enabled, Accepting
<1>12. OpMatches'
  BY ZenonT(60) DEF OpShape, CallShape, PhaseShape, OpRow, OpInstance, OthersMatch,
         OpMatches, Matches, Lives, Exists, Enabled, Accepting, Rewritten
<1>13. UniqueRows'
  BY DEF UniqueRows, Unique, Exists
<1>14. OthersRouted'
  BY DEF OthersRouted, RouteMatches, Exists
<1>15. OpRouted'
  BY DEF OpRouted, RouteMatches, Routed, RouteFree, Exists
<1>16. RowOutlivesInstance'
  BY ZenonT(60) DEF OpShape, CallShape, OpRow, OpInstance, PhaseShape,
         RowOutlivesInstance, Exists, Enabled
<1>17. NothingAcceptsAfterShutdown'
  BY DEF OpShape, CallShape, PhaseShape, NothingAcceptsAfterShutdown,
         Accepting, Plain, ShutdownPass
<1>18. RoutesReachTheirConfig'
  BY DEF RoutesReachTheirConfig, Accepting, Plain
<1> QED BY <1>4, <1>5, <1>6, <1>7, <1>8, <1>9, <1>10, <1>11, <1>12, <1>13,
         <1>14, <1>15, <1>16, <1>17, <1>18

LEMMA BeginShutdownKeeps ==
  ASSUME IInv, BeginShutdown
  PROVE  IInv'
<1>1. /\ phase \in {"up", "panel drain"} /\ call.fn = "none" /\ op.kind # "boot"
  BY DEF BeginShutdown
<1>2. /\ UNCHANGED <<row, inst, route, op, call, faults, adrift, unrouted>>
      /\ shutdownStarted' = TRUE
      /\ phase' = IF phase = "up" THEN "first pass" ELSE "second pass"
      /\ draining' = {s \in Site : inst[s].gate # "absent"}
  BY DEF BeginShutdown, database, history
<1> USE <1>1, <1>2 DEF IInv
<1>4. TypeOK'
  BY Typed, Assumed, TypedAfter DEF TypeOK, OpShape, CallShape, PhaseShape,
         ShutdownPass
<1>5. OpShape'
  BY DEF OpShape, CallShape, PhaseShape
<1>6. CallShape'
  BY DEF OpShape, CallShape, PhaseShape, ShutdownPass
<1>7. PhaseShape'
  BY DEF TypeOK, OpShape, CallShape, PhaseShape, OpRow, RowOutlivesInstance,
         Exists, Enabled, Accepting, Plain, ShutdownPass
<1>8. OpRow'
  BY DEF OpShape, CallShape, PhaseShape, OpRow, Rewritten, Exists, Enabled
<1>9. OpInstance'
  BY DEF OpShape, CallShape, PhaseShape, OpInstance, RowOutlivesInstance,
         AcceptingIsEnabled, Exists, Enabled, Accepting, Plain
<1>10. AcceptingIsEnabled'
  BY DEF OpShape, CallShape, OpRow, OpInstance, AcceptingIsEnabled,
         RowOutlivesInstance, Exists, Enabled, Accepting, Plain
<1>11. OthersMatch'
  BY DEF OthersMatch, Lives
<1>12. OpMatches'
  BY DEF OpMatches, Lives
<1>13. UniqueRows'
  BY DEF UniqueRows, Unique, Exists
<1>14. OthersRouted'
  BY DEF OthersRouted, RouteMatches, Exists
<1>15. OpRouted'
  BY DEF OpRouted, RouteMatches, Routed, RouteFree, Exists
<1>16. RowOutlivesInstance'
  BY DEF OpShape, CallShape, OpRow, OpInstance, PhaseShape,
         RowOutlivesInstance, Exists, Enabled
<1>17. NothingAcceptsAfterShutdown'
  BY DEF OpShape, CallShape, PhaseShape, NothingAcceptsAfterShutdown,
         Accepting, Plain, ShutdownPass
<1>18. RoutesReachTheirConfig'
  BY DEF RoutesReachTheirConfig, Accepting, Plain
<1> QED BY <1>4, <1>5, <1>6, <1>7, <1>8, <1>9, <1>10, <1>11, <1>12, <1>13,
         <1>14, <1>15, <1>16, <1>17, <1>18

LEMMA ShutInstanceKeeps ==
  ASSUME IInv, NEW s \in Site, ShutInstance(s)
  PROVE  IInv'
<1>1. /\ phase \in ShutdownPass /\ s \in draining /\ inst[s].gate # "absent" /\ call.fn = "none"
  BY DEF IInv, PhaseShape, TypeOK, ShutInstance
<1>2. /\ UNCHANGED <<row, route, shutdownStarted, op, call, phase, adrift, unrouted>>
      /\ draining' = draining \ {s} /\ faults' \in 0..MaxFault
      /\ \/ InstIs(s, "absent", NoConfig, FALSE)
         \/ InstIs(s, "closed", inst[s].cfg, FALSE)
         \/ s \in Coalescing /\ inst' = inst
  <2>1. CASE NoFault /\ inst' = [inst EXCEPT ![s] = NoInstance]
    <3>1. InstIs(s, "absent", NoConfig, FALSE)
      BY <2>1, InstReplaced DEF IInv, NoInstance, Configs
    <3> QED  BY <2>1, <3>1, NoFaultCounted DEF IInv, ShutInstance, database, history
  <2>2. CASE Fault /\ inst' = Closed(s)
    BY <2>2, ClosedIs, FaultCounted DEF IInv, ShutInstance, database, history
  <2>3. CASE Fault /\ s \in Coalescing /\ UNCHANGED inst
    BY <2>3, FaultCounted DEF IInv, ShutInstance, database, history
  <2> QED  BY <2>1, <2>2, <2>3 DEF ShutInstance
<1> USE <1>1, <1>2 DEF IInv, InstIs, ShutdownPass
<1>4. TypeOK'
  BY Typed, Assumed, TypedAfter DEF TypeOK, OpShape, CallShape, PhaseShape,
         ShutdownPass
<1>5. OpShape'
  BY DEF OpShape, CallShape, PhaseShape
<1>6. CallShape'
  BY DEF OpShape, CallShape, PhaseShape, ShutdownPass
<1>7. PhaseShape'
  <2>1. /\ phase \notin {"booting", "down"} /\ op.kind # "boot"
        /\ shutdownStarted <=> phase \in {"first pass", "panel drain", "second pass", "exit"}
    BY DEF PhaseShape
  <2>2. \A t \in draining' : inst'[t].gate # "absent"
    BY ZenonT(60) DEF PhaseShape, TypeOK
  <2>3. phase = "first pass" => \A t \in Plain \ draining' : ~Accepting(t)'
    <3> SUFFICES ASSUME phase = "first pass", NEW t \in Plain \ draining'
                 PROVE  inst'[t].gate # "open"
      BY DEF Accepting
    <3>1. CASE t = s
      BY <3>1 DEF Plain
    <3>2. CASE t # s
      BY <3>2 DEF PhaseShape, Accepting, Plain
    <3> QED  BY <3>1, <3>2
  <2> QED  BY <2>1, <2>2, <2>3 DEF PhaseShape
<1>8. OpRow'
  BY DEF OpShape, CallShape, PhaseShape, OpRow, Rewritten, Exists, Enabled
<1>9. OpInstance'
  <2>1. /\ op.at = "stop" => op.site \in Site
        /\ op.kind \in {"post", "on"} => op.site \in Site
    BY DEF OpShape
  <2>2. \A t \in Site : inst[t].gate = "absent" => inst'[t].gate = "absent"
    OBVIOUS
  <2>3. \A t \in Site : ~Accepting(t) => ~Accepting(t)'
    BY DEF Accepting
  <2> QED  BY <2>1, <2>2, <2>3 DEF OpInstance
<1>10. AcceptingIsEnabled'
  BY DEF AcceptingIsEnabled, Enabled, Accepting, Plain
<1>11. OthersMatch'
  BY DEF OthersMatch, Lives
<1>12. OpMatches'
  BY DEF OpMatches, Lives
<1>13. UniqueRows'
  BY DEF UniqueRows, Unique, Exists
<1>14. OthersRouted'
  BY DEF OthersRouted, RouteMatches, Exists
<1>15. OpRouted'
  BY DEF OpRouted, RouteMatches, Routed, RouteFree, Exists
<1>16. RowOutlivesInstance'
  BY DEF OpShape, CallShape, OpRow, OpInstance, PhaseShape,
         RowOutlivesInstance, Exists, Enabled
<1>17. NothingAcceptsAfterShutdown'
  BY DEF OpShape, CallShape, PhaseShape, NothingAcceptsAfterShutdown,
         Accepting, Plain, ShutdownPass
<1>18. RoutesReachTheirConfig'
  BY DEF RoutesReachTheirConfig, Accepting, Plain
<1> QED BY <1>4, <1>5, <1>6, <1>7, <1>8, <1>9, <1>10, <1>11, <1>12, <1>13,
         <1>14, <1>15, <1>16, <1>17, <1>18

LEMMA EndPassKeeps ==
  ASSUME IInv, EndPass
  PROVE  IInv'
<1>1. /\ phase \in ShutdownPass /\ draining = {}
  BY DEF EndPass
<1>2. /\ UNCHANGED <<row, inst, route, shutdownStarted, op, call, draining, faults>>
      /\ UNCHANGED <<adrift, unrouted>>
      /\ phase' = IF phase = "first pass" THEN "panel drain" ELSE "exit"
  BY DEF EndPass, database, runtime, history
<1> USE <1>1, <1>2 DEF IInv, ShutdownPass
<1>4. TypeOK'
  BY Typed, Assumed, TypedAfter DEF TypeOK, OpShape, CallShape, PhaseShape,
         ShutdownPass
<1>5. OpShape'
  BY DEF OpShape, CallShape, PhaseShape
<1>6. CallShape'
  BY DEF OpShape, CallShape, PhaseShape, ShutdownPass
<1>7. PhaseShape'
  BY DEF TypeOK, OpShape, CallShape, PhaseShape, OpRow, RowOutlivesInstance,
         Exists, Enabled, Accepting, Plain, ShutdownPass
<1>8. OpRow'
  BY DEF OpShape, CallShape, PhaseShape, OpRow, Rewritten, Exists, Enabled
<1>9. OpInstance'
  BY DEF OpShape, CallShape, PhaseShape, OpInstance, RowOutlivesInstance,
         AcceptingIsEnabled, Exists, Enabled, Accepting, Plain
<1>10. AcceptingIsEnabled'
  BY DEF OpShape, CallShape, OpRow, OpInstance, AcceptingIsEnabled,
         RowOutlivesInstance, Exists, Enabled, Accepting, Plain
<1>11. OthersMatch'
  BY DEF OthersMatch, Lives
<1>12. OpMatches'
  BY DEF OpMatches, Lives
<1>13. UniqueRows'
  BY DEF UniqueRows, Unique, Exists
<1>14. OthersRouted'
  BY DEF OthersRouted, RouteMatches, Exists
<1>15. OpRouted'
  BY DEF OpRouted, RouteMatches, Routed, RouteFree, Exists
<1>16. RowOutlivesInstance'
  BY DEF OpShape, CallShape, OpRow, OpInstance, PhaseShape,
         RowOutlivesInstance, Exists, Enabled
<1>17. NothingAcceptsAfterShutdown'
  BY DEF OpShape, CallShape, PhaseShape, NothingAcceptsAfterShutdown,
         Accepting, Plain, ShutdownPass
<1>18. RoutesReachTheirConfig'
  BY DEF RoutesReachTheirConfig, Accepting, Plain
<1> QED BY <1>4, <1>5, <1>6, <1>7, <1>8, <1>9, <1>10, <1>11, <1>12, <1>13,
         <1>14, <1>15, <1>16, <1>17, <1>18

LEMMA BootedKeeps ==
  ASSUME IInv, Booted
  PROVE  IInv'
<1>1. /\ phase = "booting" /\ op.kind = "none" /\ op.at = "idle" /\ draining = {}
  BY DEF IInv, OpShape, Booted
<1>2. /\ UNCHANGED <<row, inst, route, shutdownStarted, op, call, draining, faults>>
      /\ UNCHANGED <<adrift, unrouted>>
      /\ phase' = "up"
  BY DEF Booted, database, runtime, history
<1> USE <1>1, <1>2 DEF IInv
<1>4. TypeOK'
  BY Typed, Assumed, TypedAfter DEF TypeOK, OpShape, CallShape, PhaseShape,
         ShutdownPass
<1>5. OpShape'
  BY DEF OpShape, CallShape, PhaseShape
<1>6. CallShape'
  BY DEF OpShape, CallShape, PhaseShape, ShutdownPass
<1>7. PhaseShape'
  BY DEF TypeOK, OpShape, CallShape, PhaseShape, OpRow, RowOutlivesInstance,
         Exists, Enabled, Accepting, Plain, ShutdownPass
<1>8. OpRow'
  BY DEF OpShape, CallShape, PhaseShape, OpRow, Rewritten, Exists, Enabled
<1>9. OpInstance'
  BY DEF OpShape, CallShape, PhaseShape, OpInstance, RowOutlivesInstance,
         AcceptingIsEnabled, Exists, Enabled, Accepting, Plain
<1>10. AcceptingIsEnabled'
  BY DEF OpShape, CallShape, OpRow, OpInstance, AcceptingIsEnabled,
         RowOutlivesInstance, Exists, Enabled, Accepting, Plain
<1>11. OthersMatch'
  BY DEF OthersMatch, Lives, Matches, Enabled, Accepting
<1>12. OpMatches'
  BY DEF OpMatches, OpShape, CallShape, Lives
<1>13. UniqueRows'
  BY DEF UniqueRows, Unique, Exists
<1>14. OthersRouted'
  BY DEF OthersRouted, RouteMatches, Exists
<1>15. OpRouted'
  BY DEF OpRouted, RouteMatches, Routed, RouteFree, Exists
<1>16. RowOutlivesInstance'
  BY DEF OpShape, CallShape, OpRow, OpInstance, PhaseShape,
         RowOutlivesInstance, Exists, Enabled
<1>17. NothingAcceptsAfterShutdown'
  BY DEF OpShape, CallShape, PhaseShape, NothingAcceptsAfterShutdown,
         Accepting, Plain, ShutdownPass
<1>18. RoutesReachTheirConfig'
  BY DEF RoutesReachTheirConfig, Accepting, Plain
<1> QED BY <1>4, <1>5, <1>6, <1>7, <1>8, <1>9, <1>10, <1>11, <1>12, <1>13,
         <1>14, <1>15, <1>16, <1>17, <1>18

LEMMA DownKeeps ==
  ASSUME IInv, faults' \in 0..MaxFault, Down
  PROVE  IInv'
<1>1. TRUE
  OBVIOUS
<1>2. /\ UNCHANGED row /\ phase' = "down" /\ shutdownStarted' = FALSE /\ draining' = {}
      /\ inst' \in Instances /\ \A s \in Site : inst'[s].gate = "absent"
      /\ route' \in [Host -> Site \cup {None}]
      /\ OpEnds /\ CallIs("none", "idle") /\ adrift' = {} /\ unrouted' = {}
      /\ faults' \in 0..MaxFault
  <2>1. inst' \in Instances /\ \A s \in Site : inst'[s].gate = "absent"
    BY DEF Down, NoInstance, Instances, Configs
  <2>2. CallIs("none", "idle")
    BY DEF Down, CallIs, NoCall, Calls, CallLabels
  <2>3. route' \in [Host -> Site \cup {None}]
    BY DEF Down
  <2> QED  BY <2>1, <2>2, <2>3, EndIs DEF Down, database
<1> USE <1>1, <1>2 DEF IInv, OpEnds, CallIs
<1>4. TypeOK'
  BY Typed, Assumed, TypedAfter DEF TypeOK, OpShape, CallShape, PhaseShape,
         ShutdownPass
<1>5. OpShape'
  BY DEF OpShape, CallShape, PhaseShape
<1>6. CallShape'
  BY DEF OpShape, CallShape, PhaseShape, ShutdownPass
<1>7. PhaseShape'
  BY DEF TypeOK, OpShape, CallShape, PhaseShape, OpRow, RowOutlivesInstance,
         Exists, Enabled, Accepting, Plain, ShutdownPass
<1>8. OpRow'
  BY DEF OpShape, CallShape, PhaseShape, OpRow, Rewritten, Exists, Enabled
<1>9. OpInstance'
  BY DEF OpShape, CallShape, PhaseShape, OpInstance, RowOutlivesInstance,
         AcceptingIsEnabled, Exists, Enabled, Accepting, Plain
<1>10. AcceptingIsEnabled'
  BY DEF OpShape, CallShape, OpRow, OpInstance, AcceptingIsEnabled,
         RowOutlivesInstance, Exists, Enabled, Accepting, Plain
<1>11. OthersMatch'
  BY DEF OthersMatch, Lives
<1>12. OpMatches'
  BY DEF OpMatches, Lives
<1>13. UniqueRows'
  BY DEF UniqueRows, Unique, Exists
<1>14. OthersRouted'
  BY DEF OthersRouted
<1>15. OpRouted'
  BY DEF OpRouted
<1>16. RowOutlivesInstance'
  BY DEF OpShape, CallShape, OpRow, OpInstance, PhaseShape,
         RowOutlivesInstance, Exists, Enabled
<1>17. NothingAcceptsAfterShutdown'
  BY DEF OpShape, CallShape, PhaseShape, NothingAcceptsAfterShutdown,
         Accepting, Plain, ShutdownPass
<1>18. RoutesReachTheirConfig'
  BY DEF RoutesReachTheirConfig, Accepting, Plain
<1> QED BY <1>4, <1>5, <1>6, <1>7, <1>8, <1>9, <1>10, <1>11, <1>12, <1>13,
         <1>14, <1>15, <1>16, <1>17, <1>18

LEMMA BootKeeps ==
  ASSUME IInv, Boot
  PROVE  IInv'
<1>1. /\ phase = "down" /\ op.kind = "none" /\ op.at = "idle" /\ call.fn = "none"
      /\ \A s \in Site : inst[s].gate = "absent"
      /\ op.site = None
  BY DEF IInv, TypeOK, OpShape, CallShape, PhaseShape, Boot
<1>2. /\ UNCHANGED <<row, inst, shutdownStarted, op, call, faults, adrift, unrouted>>
      /\ route' \in [Host -> Site \cup {None}] /\ \A s \in Site : RouteMatches(s)'
      /\ phase' = "booting" /\ draining' = {s \in Site : Enabled(s)}
  <2>1. /\ UNCHANGED <<row, inst, shutdownStarted, op, call, faults, adrift, unrouted>>
        /\ phase' = "booting" /\ draining' = {s \in Site : Enabled(s)}
        /\ route' = [h \in Host |-> IF HostOwner(h) = {} THEN None
                                    ELSE CHOOSE s \in HostOwner(h) : TRUE]
    BY DEF Boot, database, history
  <2>2. ASSUME NEW h \in Host
        PROVE  \/ HostOwner(h) = {} /\ route'[h] = None
               \/ route'[h] \in HostOwner(h)
    BY <2>1
  <2>3. \A h \in Host : HostOwner(h) \subseteq Site
    BY DEF HostOwner
  <2>4. route' \in [Host -> Site \cup {None}]
    BY <2>1, <2>2, <2>3
  <2>5. ASSUME NEW s \in Site, NEW h \in Host
        PROVE  route'[h] = s <=> Exists(s) /\ row[s].cfg.host = h
    <3>1. route'[h] = s => s \in HostOwner(h)
      BY <2>2, Assumed
    <3>2. ASSUME s \in HostOwner(h), NEW t \in HostOwner(h), t # s
          PROVE  FALSE
      BY <3>2, Assumed DEF HostOwner, IInv, UniqueRows, Unique
    <3>3. s \in HostOwner(h) => route'[h] = s
      BY <2>2, <3>2
    <3> QED  BY <3>1, <3>3 DEF HostOwner
  <2>6. \A s \in Site : RouteMatches(s)'
    BY <2>1, <2>5 DEF RouteMatches, Exists
  <2> QED  BY <2>1, <2>4, <2>6
<1> USE <1>1, <1>2 DEF IInv
<1>4. TypeOK'
  BY Typed, Assumed, TypedAfter DEF TypeOK, OpShape, CallShape, PhaseShape,
         ShutdownPass
<1>5. OpShape'
  BY DEF OpShape, CallShape, PhaseShape
<1>6. CallShape'
  BY DEF OpShape, CallShape, PhaseShape, ShutdownPass
<1>7. PhaseShape'
  BY DEF TypeOK, OpShape, CallShape, PhaseShape, OpRow, RowOutlivesInstance,
         Exists, Enabled, Accepting, Plain, ShutdownPass
<1>8. OpRow'
  BY DEF OpShape, CallShape, PhaseShape, OpRow, Rewritten, Exists, Enabled
<1>9. OpInstance'
  BY DEF OpShape, CallShape, PhaseShape, OpInstance, RowOutlivesInstance,
         AcceptingIsEnabled, Exists, Enabled, Accepting, Plain
<1>10. AcceptingIsEnabled'
  BY DEF OpShape, CallShape, OpRow, OpInstance, AcceptingIsEnabled,
         RowOutlivesInstance, Exists, Enabled, Accepting, Plain
<1>11. OthersMatch'
  BY DEF OthersMatch, Lives, Matches, Enabled, Accepting
<1>12. OpMatches'
  BY DEF OpMatches, OpShape, CallShape, Lives
<1>13. UniqueRows'
  BY DEF UniqueRows, Unique, Exists
<1>14. OthersRouted'
  BY DEF OthersRouted
<1>15. OpRouted'
  BY DEF OpRouted
<1>16. RowOutlivesInstance'
  BY DEF OpShape, CallShape, OpRow, OpInstance, PhaseShape,
         RowOutlivesInstance, Exists, Enabled
<1>17. NothingAcceptsAfterShutdown'
  BY DEF OpShape, CallShape, PhaseShape, NothingAcceptsAfterShutdown,
         Accepting, Plain, ShutdownPass
<1>18. RoutesReachTheirConfig'
  BY DEF RoutesReachTheirConfig, Accepting, Plain
<1> QED BY <1>4, <1>5, <1>6, <1>7, <1>8, <1>9, <1>10, <1>11, <1>12, <1>13,
         <1>14, <1>15, <1>16, <1>17, <1>18

-----------------------------------------------------------------------------
(* The theorems                                                            *)

LEMMA InitKeeps ==
  ASSUME Init
  PROVE  IInv
<1>1. /\ row \in Rows /\ inst \in Instances /\ route \in [Host -> Site \cup {None}]
      /\ \A s \in Site : row[s].state = "absent" /\ inst[s].gate = "absent"
      /\ \A h \in Host : route[h] = None
  BY DEF Init, NoRow, NoInstance, Rows, Instances, RowStates, Configs
<1>2. /\ op.kind = "none" /\ op.site = None /\ op.at = "idle" /\ op.result = "none"
      /\ call.fn = "none" /\ call.at = "idle" /\ op \in Ops /\ call \in Calls
  BY DEF Init, NoOp, NoCall, Ops, Calls, Kinds, Labels, Results, Configs, CallLabels
<1>3. /\ phase = "up" /\ draining = {} /\ shutdownStarted = FALSE
      /\ adrift = {} /\ unrouted = {} /\ faults = 0 /\ faults \in 0..MaxFault
  BY Assumed DEF Init
<1>4. TypeOK
  BY <1>1, <1>2, <1>3
     DEF TypeOK, Rows, Instances, Ops, Calls, RowStates, Configs, Kinds, Labels, Results,
         CallLabels
<1>5. OpShape /\ CallShape
  BY <1>2 DEF OpShape, CallShape
<1>6. PhaseShape
  BY <1>1, <1>2, <1>3 DEF PhaseShape, ShutdownPass
<1>7. OpRow /\ OpInstance /\ OpMatches
  BY <1>2 DEF OpRow, OpInstance, OpMatches, Rewritten
<1>8. /\ AcceptingIsEnabled /\ RowOutlivesInstance /\ RoutesReachTheirConfig
      /\ NothingAcceptsAfterShutdown
  BY <1>1 DEF AcceptingIsEnabled, RowOutlivesInstance, RoutesReachTheirConfig,
              NothingAcceptsAfterShutdown, Accepting, Plain
<1>9. OthersMatch
  BY <1>1 DEF OthersMatch, Matches, Enabled
<1>10. UniqueRows
  BY <1>1, <1>2 DEF UniqueRows, Exists
<1>11. OthersRouted /\ OpRouted
  BY <1>1, <1>2, <1>3, Assumed DEF OthersRouted, OpRouted, RouteMatches, Exists
<1> QED  BY <1>4, <1>5, <1>6, <1>7, <1>8, <1>9, <1>10, <1>11 DEF IInv

LEMMA StutterKeeps ==
  ASSUME IInv, UNCHANGED vars
  PROVE  IInv'
<1> USE DEF IInv, vars
<1>1. (TypeOK /\ OpShape /\ CallShape /\ PhaseShape)'
  <2>1. TypeOK'
    <3>1. TypeOK /\ UNCHANGED vars
      OBVIOUS
    <3>2. /\ row' = row /\ inst' = inst /\ route' = route /\ op' = op /\ call' = call
          /\ phase' = phase /\ draining' = draining /\ shutdownStarted' = shutdownStarted
          /\ faults' = faults /\ adrift' = adrift /\ unrouted' = unrouted
      OBVIOUS
    <3> QED  BY ONLY <3>1, <3>2 DEF TypeOK, ShutdownPass
  <2>2. OpShape' /\ CallShape'
    BY DEF OpShape, CallShape
  <2>3. PhaseShape'
    BY DEF PhaseShape, Enabled, Accepting
  <2> QED  BY <2>1, <2>2, <2>3
<1>2. (OpRow /\ OpInstance /\ AcceptingIsEnabled)'
  BY DEF OpRow, OpInstance, AcceptingIsEnabled, Exists, Enabled, Accepting
<1>3. (OthersMatch /\ OpMatches)'
  BY DEF OthersMatch, OpMatches, Lives, Matches, Enabled, Accepting
<1>4. (UniqueRows /\ OthersRouted /\ OpRouted)'
  BY DEF UniqueRows, Unique, OthersRouted, OpRouted, RouteMatches, Routed, RouteFree, Exists
<1>5. (RowOutlivesInstance /\ NothingAcceptsAfterShutdown /\ RoutesReachTheirConfig)'
  BY DEF RowOutlivesInstance, NothingAcceptsAfterShutdown, RoutesReachTheirConfig, Exists,
         Accepting
<1> QED  BY <1>1, <1>2, <1>3, <1>4, <1>5

LEMMA StepKeeps ==
  ASSUME IInv, [Next]_vars
  PROVE  IInv'
<1>1. CASE Request
  BY <1>1, CreateSiteKeeps, ToggleOffKeeps, ToggleOnKeeps, UpdateSiteKeeps, DeleteSiteKeeps
     DEF Request
<1>2. CASE Handler
  BY <1>2, RollBackCreateKeeps, PersistOffKeeps, RevertOnKeeps, WriteUpdateKeeps,
     ReloadUpdatedKeeps, RollBackUpdateKeeps, ReloadOldKeeps, RegisterUpdatedKeeps,
     RollBackRouteKeeps, DeleteRowKeeps, UnregisterKeeps, DisableClosedKeeps,
     StopRefusedKeeps, ReloadToRestartKeeps, RestartedKeeps, StartedKeeps DEF Handler
<1>3. CASE Manager
  BY <1>3, BeginStopKeeps, BeginStartKeeps, CheckPersistenceKeeps, CloseIngressKeeps,
     DrainKeeps, FinalFlushKeeps, InstallKeeps DEF Manager
<1>4. CASE Shutdown
  BY <1>4, EndPassKeeps, ShutInstanceKeeps DEF Shutdown
<1>5. CASE Startup
  BY <1>5, BootedKeeps, BootedSiteKeeps, BootSiteKeeps DEF Startup
<1>6. CASE Environment
  <2>1. CASE Exit
    <3>1. faults' \in 0..MaxFault
      BY <2>1, NoFaultCounted DEF Exit, IInv
    <3> QED  BY <2>1, <3>1, DownKeeps DEF Exit
  <2>2. CASE Crash
    <3>1. faults' \in 0..MaxFault
      BY <2>2, FaultCounted DEF Crash, IInv
    <3> QED  BY <2>2, <3>1, DownKeeps DEF Crash
  <2>3. CASE BeginShutdown \/ Boot \/ \E s \in Site : ServeFails(s)
    BY <2>3, BeginShutdownKeeps, BootKeeps, ServeFailsKeeps
  <2> QED  BY <1>6, <2>1, <2>2, <2>3 DEF Environment
<1>7. CASE UNCHANGED vars
  BY <1>7, StutterKeeps
<1> QED  BY <1>1, <1>2, <1>3, <1>4, <1>5, <1>6, <1>7 DEF Next

LEMMA Invariance == Spec => []IInv
<1>1. Init => IInv
  BY InitKeeps
<1>2. IInv /\ [Next]_vars => IInv'
  BY StepKeeps
<1> QED  BY <1>1, <1>2, PTL DEF Spec

(* Types, and the two mutexes: a StartSite or StopSite belongs to the      *)
(* handler in progress and never runs inside GracefulShutdown.             *)
THEOREM TypeCorrect == Spec => []TypeOK
<1>1. IInv => TypeOK
  BY DEF IInv
<1> QED  BY <1>1, Invariance, PTL

(* Between operations an enabled site accepts with the settings of its row *)
(* and a disabled or deleted one does not accept, whatever failed and was  *)
(* rolled back on the way, unless a rollback itself was reported to fail.  *)
THEOREM RowsSayWhatRuns == Spec => []RowsMatchInstances
<1>1. IInv => RowsMatchInstances
  <2> SUFFICES ASSUME IInv, Quiet
               PROVE  /\ \A s \in Site \ adrift :
                           Enabled(s) => Accepting(s) /\ inst[s].cfg = row[s].cfg
                      /\ \A s \in Plain \ adrift : Accepting(s) => Enabled(s)
    BY DEF RowsMatchInstances, EnabledMeansAccepting, DisabledMeansClosed
  <2>1. phase = "up" /\ op.site = None /\ None \notin Site
    BY Assumed DEF IInv, OpShape, Quiet
  <2>2. \A s \in Site \ adrift : Matches(s)
    BY <2>1 DEF IInv, OthersMatch, Lives
  <2> QED  BY <2>2 DEF Matches, IInv, AcceptingIsEnabled
<1> QED  BY <1>1, Invariance, PTL

(* Between operations the shared routes are those of the rows, and at no   *)
(* moment does one lead to an instance configured for another host.        *)
THEOREM RoutesFollowRows == Spec => []RoutesAgree
<1>1. IInv => RoutesAgree
  <2> SUFFICES ASSUME IInv
               PROVE  RoutesMatchRows
    BY DEF IInv, RoutesAgree
  <2> SUFFICES ASSUME Quiet, NEW s \in Site \ unrouted
               PROVE  RouteMatches(s)
    BY DEF RoutesMatchRows, RouteMatches
  <2>1. phase = "up" /\ op.site = None /\ None \notin Site
    BY Assumed DEF IInv, OpShape, Quiet
  <2> QED  BY <2>1 DEF IInv, OthersRouted
<1> QED  BY <1>1, Invariance, PTL

(* An instance that may still hold traffic counters has a row to persist   *)
(* them in: rows go only after a clean stop.                               *)
THEOREM RowsOutliveInstances == Spec => []RowOutlivesInstance
<1>1. IInv => RowOutlivesInstance
  BY DEF IInv
<1> QED  BY <1>1, Invariance, PTL

(* Once the first shutdown pass is over nothing accepts any more: no       *)
(* handler in the middle of a start or a rollback brings a site back.      *)
THEOREM ShutdownIsFinal == Spec => []NothingAcceptsAfterShutdown
<1>1. IInv => NothingAcceptsAfterShutdown
  BY DEF IInv
<1> QED  BY <1>1, Invariance, PTL

=============================================================================
