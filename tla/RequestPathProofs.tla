-------------------------- MODULE RequestPathProofs ---------------------------
(***************************************************************************)
(* Proofs about what a request passes on its way to an upstream: the quota *)
(* of its site (TrafficQuota), for any finite set of writers, any quota    *)
(* and any bounds, and the failover of the site's lines                    *)
(* (UpstreamFailover), for any number of lines and requests and any        *)
(* durations.  The two share no state.                                     *)
(***************************************************************************)
EXTENDS TrafficQuota, UpstreamFailover, SumTheorems, TLAPS

-----------------------------------------------------------------------------
(* The quota.  Usage, traffic and reservations are sums over directions,   *)
(* cycles and writers: the first part says how each step moves them.       *)


Bytes == [Direction -> Nat]
Logs == [Cycle -> Bytes]
Write == [at: {"idle", "gate", "ready", "reserving", "reloading", "writing", "settled"},
          dir: Direction, size: Size \cup {0}, mode: Mode \cup {"none"},
          cycle: Cycle, fresh: Mode \cup {"none"},
          reserved: Nat, charged: BOOLEAN, same: BOOLEAN, actual: 0..MaxBytes]

(* The sums as functions of what they are taken over.                      *)
LogSum(l, c, m) == SumFunction([k \in c..MaxCycle |-> Billable(m, l[k])])
UnmeteredOf(r, m) == IF r.at = "settled" /\ Bills(m, r.dir) THEN r.actual ELSE 0
UnmeteredBy(ws, m) == SumFunction([w \in Writer |-> UnmeteredOf(ws[w], m)])
ReservedOf(r) == IF r.at = "writing" /\ r.same /\ r.charged THEN r.reserved ELSE 0
ReservedBy(ws) == SumFunction([w \in Writer |-> ReservedOf(ws[w])])

LEMMA SumsAre ==
  /\ \A c, m : SumSince(c, m) = LogSum(logs, c, m)
  /\ \A m : Unmetered(m) = UnmeteredBy(writer, m)
  /\ Reserved = ReservedBy(writer)
  BY DEF SumSince, LogSum, Unmetered, UnmeteredBy, UnmeteredOf, Reserved, ReservedBy, ReservedOf

LEMMA DirectionsAreFinite == IsFiniteSet(Direction)
<1>1. IsFiniteSet({} \cup {"in"}) /\ IsFiniteSet(({} \cup {"in"}) \cup {"out"})
  BY FS_EmptySet, FS_AddElement
<1>2. Direction = ({} \cup {"in"}) \cup {"out"}
  BY DEF Direction
<1> QED
  BY <1>1, <1>2

LEMMA CyclesAre == 0 \in Cycle /\ Cycle \subseteq Nat
                   /\ \A c \in Cycle : IsFiniteSet(c..MaxCycle) /\ c..MaxCycle \subseteq Cycle
  BY QuotaAssumption, FS_Interval DEF Cycle

LEMMA BillableTyped ==
  ASSUME NEW m, NEW b \in Bytes
  PROVE  Billable(m, b) \in Nat
<1> DEFINE f == [d \in Direction |-> IF Bills(m, d) THEN b[d] ELSE 0]
<1>1. \A d \in Direction : f[d] \in Nat
  BY DEF Bytes
<1>2. DOMAIN f = Direction /\ Billable(m, b) = SumFunction(f)
  BY DEF Billable
<1> HIDE DEF f
<1> QED
  BY <1>1, <1>2, DirectionsAreFinite, SumIsNatural, SumOverDomain

LEMMA BillableOfNone ==
  ASSUME NEW m
  PROVE  Billable(m, NoBytes) = 0
<1> DEFINE f == [d \in Direction |-> IF Bills(m, d) THEN NoBytes[d] ELSE 0]
<1>1. \A d \in Direction : f[d] = 0
  BY DEF NoBytes
<1>2. DOMAIN f = Direction /\ Billable(m, NoBytes) = SumFunction(f)
  BY DEF Billable
<1> HIDE DEF f
<1> QED
  BY <1>1, <1>2, DirectionsAreFinite, SumOfZeros, SumOverDomain

LEMMA BillableAdds ==
  ASSUME NEW m, NEW a \in Bytes, NEW b \in Bytes, NEW c \in Bytes,
         \A d \in Direction : c[d] = a[d] + b[d]
  PROVE  Billable(m, c) = Billable(m, a) + Billable(m, b)
<1> DEFINE f == [d \in Direction |-> IF Bills(m, d) THEN a[d] ELSE 0]
           g == [d \in Direction |-> IF Bills(m, d) THEN b[d] ELSE 0]
           h == [d \in Direction |-> IF Bills(m, d) THEN c[d] ELSE 0]
<1>1. \A d \in Direction : f[d] \in Int /\ g[d] \in Int /\ h[d] = f[d] + g[d]
  BY DEF Bytes
<1>2. /\ DOMAIN f = Direction /\ Billable(m, a) = SumFunction(f)
      /\ DOMAIN g = Direction /\ Billable(m, b) = SumFunction(g)
      /\ DOMAIN h = Direction /\ Billable(m, c) = SumFunction(h)
  BY DEF Billable
<1> HIDE DEF f, g, h
<1> QED
  BY <1>1, <1>2, DirectionsAreFinite, SumOfSums, SumOverDomain

LEMMA BillableOne ==
  ASSUME NEW m, NEW a \in Bytes, NEW c \in Bytes, NEW e \in Direction, NEW n \in Nat,
         c[e] = a[e] + n, \A d \in Direction \ {e} : c[d] = a[d]
  PROVE  Billable(m, c) = Billable(m, a) + (IF Bills(m, e) THEN n ELSE 0)
<1> DEFINE f == [d \in Direction |-> IF Bills(m, d) THEN a[d] ELSE 0]
           g == [d \in Direction |-> IF Bills(m, d) THEN c[d] ELSE 0]
<1>1. \A d \in Direction : f[d] \in Int /\ g[d] \in Int
  BY DEF Bytes
<1>2. /\ DOMAIN f = Direction /\ Billable(m, a) = SumFunction(f)
      /\ DOMAIN g = Direction /\ Billable(m, c) = SumFunction(g)
  BY DEF Billable
<1>3. g[e] = f[e] + (IF Bills(m, e) THEN n ELSE 0) /\ f[e] \in Int
  BY DEF Bytes
<1>4. \A d \in Direction \ {e} : g[d] = f[d]
  OBVIOUS
<1>5. e \in Direction /\ n \in Nat
  OBVIOUS
<1> HIDE DEF f, g
<1>6. SumFunctionOnSet(g, Direction) + f[e] = SumFunctionOnSet(f, Direction) + g[e]
  BY ONLY <1>1, <1>4, <1>5, DirectionsAreFinite, SumChanges
<1>7. SumFunctionOnSet(f, Direction) \in Int /\ SumFunctionOnSet(g, Direction) \in Int
  BY <1>1, DirectionsAreFinite, SumIsInteger
<1>8. Billable(m, a) = SumFunctionOnSet(f, Direction) /\ Billable(m, c) = SumFunctionOnSet(g, Direction)
  BY ONLY <1>2, SumOverDomain
<1> QED
  BY <1>3, <1>5, <1>6, <1>7, <1>8

LEMMA LogSumTyped ==
  ASSUME NEW l \in Logs, NEW c \in Cycle, NEW m
  PROVE  LogSum(l, c, m) \in Nat
<1> DEFINE f == [k \in c..MaxCycle |-> Billable(m, l[k])]
<1>1. \A k \in c..MaxCycle : f[k] \in Nat
  BY CyclesAre, BillableTyped DEF Logs
<1>2. DOMAIN f = c..MaxCycle /\ LogSum(l, c, m) = SumFunction(f)
  BY DEF LogSum
<1> HIDE DEF f
<1> QED
  BY <1>1, <1>2, CyclesAre, SumIsNatural, SumOverDomain, ZenonT(60)

LEMMA LogSumOfNone ==
  ASSUME NEW l \in Logs, NEW c \in Cycle, NEW m, \A k \in Cycle : l[k] = NoBytes
  PROVE  LogSum(l, c, m) = 0
<1> DEFINE f == [k \in c..MaxCycle |-> Billable(m, l[k])]
<1>1. \A k \in c..MaxCycle : f[k] = 0
  BY CyclesAre, BillableOfNone
<1>2. DOMAIN f = c..MaxCycle /\ LogSum(l, c, m) = SumFunction(f)
  BY DEF LogSum
<1>3. IsFiniteSet(c..MaxCycle)
  BY CyclesAre
<1> HIDE DEF f
<1>4. SumFunctionOnSet(f, c..MaxCycle) = 0
  BY ONLY <1>1, <1>3, SumOfZeros
<1>5. SumFunction(f) = SumFunctionOnSet(f, c..MaxCycle)
  BY ONLY <1>2, SumOverDomain
<1> QED
  BY <1>2, <1>4, <1>5

(* A flush adds its bytes to one cycle.                                    *)
LEMMA LogSumGrows ==
  ASSUME NEW l \in Logs, NEW n \in Logs, NEW c \in Cycle, NEW j \in c..MaxCycle, NEW b \in Bytes,
         NEW m, \A d \in Direction : n[j][d] = l[j][d] + b[d],
         \A k \in Cycle \ {j} : n[k] = l[k]
  PROVE  LogSum(n, c, m) = LogSum(l, c, m) + Billable(m, b)
<1> DEFINE S == c..MaxCycle
           f == [k \in S |-> Billable(m, l[k])]
           g == [k \in S |-> Billable(m, n[k])]
<1>0. j \in S /\ S \subseteq Cycle /\ IsFiniteSet(S)
  BY CyclesAre
<1>1. DOMAIN f = S /\ DOMAIN g = S
  OBVIOUS
<1>2. LogSum(l, c, m) = SumFunction(f) /\ LogSum(n, c, m) = SumFunction(g)
  BY DEF LogSum
<1>3. \A k \in S : f[k] = Billable(m, l[k]) /\ g[k] = Billable(m, n[k])
  OBVIOUS
<1> HIDE DEF f, g, S
<1>4. \A k \in S : f[k] \in Int /\ g[k] \in Int
  BY <1>0, <1>3, BillableTyped DEF Logs
<1>5. \A k \in S \ {j} : g[k] = f[k]
  BY <1>0, <1>3
<1>6. g[j] = f[j] + Billable(m, b)
  <2>1. n[j] \in Bytes /\ l[j] \in Bytes
    BY <1>0 DEF Logs
  <2>2. Billable(m, n[j]) = Billable(m, l[j]) + Billable(m, b)
    BY <2>1, BillableAdds
  <2> QED
    BY <1>0, <1>3, <2>2
<1>7. Billable(m, b) \in Int
  BY BillableTyped
<1>8. PICK T, F, G, y : T = S /\ F = f /\ G = g /\ y = j
  OBVIOUS
<1>9. IsFiniteSet(T) /\ y \in T /\ (\A x \in T : F[x] \in Int /\ G[x] \in Int)
      /\ \A x \in T \ {y} : G[x] = F[x]
  BY ONLY <1>0, <1>4, <1>5, <1>8
<1>10. SumFunctionOnSet(G, T) + F[y] = SumFunctionOnSet(F, T) + G[y]
  BY ONLY <1>9, SumChanges
<1>11. SumFunctionOnSet(f, S) \in Int /\ SumFunctionOnSet(g, S) \in Int
  BY ONLY <1>0, <1>4, SumIsInteger
<1>12. SumFunction(f) = SumFunctionOnSet(f, S) /\ SumFunction(g) = SumFunctionOnSet(g, S)
  BY ONLY <1>1, SumOverDomain
<1>13. f[j] \in Int
  BY <1>0, <1>4
<1>14. SumFunctionOnSet(g, S) + f[j] = SumFunctionOnSet(f, S) + g[j]
  BY ONLY <1>8, <1>10
<1>15. SumFunctionOnSet(g, S) = SumFunctionOnSet(f, S) + Billable(m, b)
  <2>1. PICK u, v, x, z, t : /\ u = SumFunctionOnSet(g, S) /\ v = SumFunctionOnSet(f, S)
                             /\ x = f[j] /\ z = g[j] /\ t = Billable(m, b)
    OBVIOUS
  <2>2. u \in Int /\ v \in Int /\ x \in Int /\ t \in Int /\ u + x = v + z /\ z = x + t
    BY ONLY <1>6, <1>7, <1>11, <1>13, <1>14, <2>1
  <2>3. u = v + t
    BY ONLY <2>2
  <2> QED
    BY ONLY <2>1, <2>3
<1> QED
  BY ONLY <1>2, <1>12, <1>15

LEMMA WritesTyped ==
  ASSUME NEW r \in Write, NEW m
  PROVE  UnmeteredOf(r, m) \in Nat /\ ReservedOf(r) \in Nat
  BY QuotaAssumption DEF UnmeteredOf, ReservedOf, Write

LEMMA WriterSumsTyped ==
  ASSUME NEW ws, \A w \in Writer : ws[w] \in Write, NEW m
  PROVE  UnmeteredBy(ws, m) \in Nat /\ ReservedBy(ws) \in Nat
<1> DEFINE f == [w \in Writer |-> UnmeteredOf(ws[w], m)]
           g == [w \in Writer |-> ReservedOf(ws[w])]
<1>1. \A w \in Writer : f[w] \in Nat /\ g[w] \in Nat
  BY WritesTyped
<1>2. DOMAIN f = Writer /\ UnmeteredBy(ws, m) = SumFunction(f)
      /\ DOMAIN g = Writer /\ ReservedBy(ws) = SumFunction(g)
  BY DEF UnmeteredBy, ReservedBy
<1> HIDE DEF f, g
<1> QED
  BY <1>1, <1>2, WriterAssumption, SumIsNatural, SumOverDomain

(* One request moves; the others count for what they did.                  *)
LEMMA UnmeteredMoves ==
  ASSUME NEW ws, \A x \in Writer : ws[x] \in Write, NEW vs, \A x \in Writer : vs[x] \in Write,
         NEW w \in Writer, NEW m,
         \A x \in Writer \ {w} : UnmeteredOf(vs[x], m) = UnmeteredOf(ws[x], m)
  PROVE  UnmeteredBy(vs, m) + UnmeteredOf(ws[w], m) = UnmeteredBy(ws, m) + UnmeteredOf(vs[w], m)
<1> DEFINE f == [x \in Writer |-> UnmeteredOf(ws[x], m)]
           g == [x \in Writer |-> UnmeteredOf(vs[x], m)]
<1>1. \A x \in Writer : f[x] \in Int /\ g[x] \in Int
  BY WritesTyped
<1>2. DOMAIN f = Writer /\ DOMAIN g = Writer
  OBVIOUS
<1>3. UnmeteredBy(ws, m) = SumFunction(f) /\ UnmeteredBy(vs, m) = SumFunction(g)
  BY DEF UnmeteredBy
<1>4. \A x \in Writer \ {w} : g[x] = f[x]
  OBVIOUS
<1>5. w \in Writer /\ f[w] = UnmeteredOf(ws[w], m) /\ g[w] = UnmeteredOf(vs[w], m)
  OBVIOUS
<1> HIDE DEF f, g
<1>6. SumFunctionOnSet(g, Writer) + f[w] = SumFunctionOnSet(f, Writer) + g[w]
  BY ONLY <1>1, <1>4, <1>5, WriterAssumption, SumChanges
<1> QED
  BY ONLY <1>2, <1>3, <1>5, <1>6, SumOverDomain

LEMMA ReservedMoves ==
  ASSUME NEW ws, \A x \in Writer : ws[x] \in Write, NEW vs, \A x \in Writer : vs[x] \in Write,
         NEW w \in Writer,
         \A x \in Writer \ {w} : ReservedOf(vs[x]) = ReservedOf(ws[x])
  PROVE  ReservedBy(vs) + ReservedOf(ws[w]) = ReservedBy(ws) + ReservedOf(vs[w])
<1> DEFINE f == [x \in Writer |-> ReservedOf(ws[x])]
           g == [x \in Writer |-> ReservedOf(vs[x])]
<1>1. \A x \in Writer : f[x] \in Int /\ g[x] \in Int
  BY WritesTyped
<1>2. DOMAIN f = Writer /\ DOMAIN g = Writer
  OBVIOUS
<1>3. ReservedBy(ws) = SumFunction(f) /\ ReservedBy(vs) = SumFunction(g)
  BY DEF ReservedBy
<1>4. \A x \in Writer \ {w} : g[x] = f[x]
  OBVIOUS
<1>5. w \in Writer /\ f[w] = ReservedOf(ws[w]) /\ g[w] = ReservedOf(vs[w])
  OBVIOUS
<1> HIDE DEF f, g
<1>6. SumFunctionOnSet(g, Writer) + f[w] = SumFunctionOnSet(f, Writer) + g[w]
  BY ONLY <1>1, <1>4, <1>5, WriterAssumption, SumChanges
<1> QED
  BY ONLY <1>2, <1>3, <1>5, <1>6, SumOverDomain

(* A reload orphans every reservation but the one it goes on to grant.     *)
LEMMA ReservedAlone ==
  ASSUME NEW vs, \A x \in Writer : vs[x] \in Write, NEW w \in Writer,
         \A x \in Writer \ {w} : ReservedOf(vs[x]) = 0
  PROVE  ReservedBy(vs) = ReservedOf(vs[w])
<1> DEFINE g == [x \in Writer |-> ReservedOf(vs[x])]
           R == Writer \ {w}
<1>1. \A x \in Writer : g[x] \in Int
  BY WritesTyped
<1>2. DOMAIN g = Writer /\ ReservedBy(vs) = SumFunction(g)
  BY DEF ReservedBy
<1>3. \A x \in R : g[x] = 0
  OBVIOUS
<1>4. w \in Writer /\ g[w] = ReservedOf(vs[w])
  OBVIOUS
<1> HIDE DEF g
<1>5. SumFunctionOnSet(g, Writer) = g[w] + SumFunctionOnSet(g, Writer \ {w})
  BY ONLY <1>1, <1>4, WriterAssumption, SumRemove
<1>6. IsFiniteSet(R)
  BY WriterAssumption, FS_Subset
<1>7. SumFunctionOnSet(g, R) = 0
  <2> HIDE DEF R
  <2> QED
    BY ONLY <1>3, <1>6, SumOfZeros
<1>8. g[w] \in Int
  BY <1>1, <1>4
<1> QED
  BY <1>2, <1>4, <1>5, <1>7, <1>8, SumOverDomain

-----------------------------------------------------------------------------
(***************************************************************************)
(* The inductive invariant.  A mode or a cycle that was left does not come *)
(* back, so what carries an old one never passes for current; until then   *)
(* cache and q are exact.                                                  *)
(***************************************************************************)
OldMode(m) == m = "none" \/ m = mode

CacheFits(ca) ==
  /\ ca \in [mode: Mode \cup {"none"}, cycle: Cycle, usage: Nat]
  /\ ca.cycle <= cycle
  /\ flight.on => ca.cycle <= flight.cycle
  /\ saves = 0 => OldMode(ca.mode)
  /\ saves <= 1 /\ ca.mode = mode /\ ca.cycle = cycle => ca.usage = LogSum(logs, cycle, mode)
  /\ q.mode = "none" => ca.usage = 0

WriteFits(r) ==
  /\ r \in Write
  /\ saves = 0 => OldMode(r.mode) /\ OldMode(r.fresh)
  /\ saves <= 1 /\ r.at = "reloading" /\ r.mode = mode => r.fresh = mode
  /\ r.at \in {"gate", "reserving", "reloading"} => r.mode # "none"
  /\ r.at = "reloading" => r.fresh # "none"
  /\ r.cycle <= cycle
  /\ r.at = "writing" /\ r.same => (r.charged <=> Bills(q.mode, r.dir))
  /\ q.mode = "none" => r.at \notin {"writing", "settled"}
  /\ ~q.reloaded /\ r.at = "writing" => r.same

FlightFits == /\ flight.cycle <= cycle
              /\ ~flight.on => flight = NoFlight

(* Before the first reservation nothing was delivered; until q is reloaded *)
(* nothing slipped past it.                                                *)
QFits ==
  /\ q.cycle <= cycle
  /\ flight.on => q.cycle <= flight.cycle
  /\ saves = 0 => OldMode(q.mode)
  /\ ReservedBy(writer) <= q.usage
  /\ q.mode = "none" => /\ \A c \in Cycle : logs[c] = NoBytes
                        /\ bytes = NoBytes /\ ~flight.on /\ ~q.reloaded
  /\ ~q.reloaded => q.usage <= Quota /\ slipped = 0

TrafficOf(l, f, b, ws, c, m) ==
  LogSum(l, c, m) + (IF f.cycle = c THEN Billable(m, f.bytes) ELSE 0)
    + Billable(m, b) + UnmeteredBy(ws, m)

(* As long as q was never reloaded it is exact for the mode it has.        *)
Exact ==
  (~q.reloaded \/ (saves <= 1 /\ q.mode = mode)) /\ q.mode # "none" /\ q.cycle = cycle =>
     q.usage + slipped = TrafficOf(logs, flight, bytes, writer, cycle, q.mode) + ReservedBy(writer)

Typed ==
  /\ mode \in Mode /\ cycle \in Cycle
  /\ logs \in Logs /\ bytes \in Bytes
  /\ flight \in [on: BOOLEAN, bytes: Bytes, cycle: Cycle]
  /\ q \in [mode: Mode \cup {"none"}, cycle: Cycle, usage: Nat, reloaded: BOOLEAN]
  /\ writer \in [Writer -> Write]
  /\ slipped \in Nat /\ saves \in 0..MaxSave /\ faults \in 0..MaxFault

QInv == /\ Typed
        /\ CacheFits(cache)
        /\ \A w \in Writer : WriteFits(writer[w])
        /\ FlightFits
        /\ QFits
        /\ Exact

LEMMA NatsAre == /\ cycle \in Cycle => cycle \in Nat
                 /\ saves \in 0..MaxSave => saves \in Nat
                 /\ \A c \in Cycle : c \in Nat
  BY QuotaAssumption DEF Cycle

LEMMA SumsTyped ==
  ASSUME Typed
  PROVE  /\ \A c \in Cycle : \A m : LogSum(logs, c, m) \in Nat
         /\ \A m : Billable(m, bytes) \in Nat /\ Billable(m, flight.bytes) \in Nat
         /\ \A m : UnmeteredBy(writer, m) \in Nat
         /\ ReservedBy(writer) \in Nat
         /\ q.usage \in Nat /\ slipped \in Nat
<1>1. logs \in Logs /\ bytes \in Bytes /\ flight.bytes \in Bytes /\ \A w \in Writer : writer[w] \in Write
  BY DEF Typed
<1>2. \A c \in Cycle : \A m : LogSum(logs, c, m) \in Nat
  BY <1>1, LogSumTyped
<1>3. \A m : Billable(m, bytes) \in Nat /\ Billable(m, flight.bytes) \in Nat
  BY <1>1, BillableTyped
<1>4. \A m : UnmeteredBy(writer, m) \in Nat
  BY <1>1, WriterSumsTyped
<1>5. ReservedBy(writer) \in Nat
  BY <1>1, WriterSumsTyped
<1> QED
  BY <1>2, <1>3, <1>4, <1>5 DEF Typed

(* currentTrafficCycleUsage: what it leaves in the cache fits.             *)
LEMMA ReloadFits ==
  ASSUME QInv, ~flight.on, NEW m \in Mode, NEW c \in Cycle, c <= cycle, saves = 0 => m = mode
  PROVE  /\ CacheFits(Reloaded(m, c))
         /\ Reloaded(m, c).mode = m /\ Reloaded(m, c).cycle = c /\ Reloaded(m, c).usage \in Nat
<1>1. CASE cache.mode = m /\ cache.cycle = c
  <2>1. Reloaded(m, c) = cache
    BY <1>1 DEF Reloaded
  <2> QED
    BY <1>1, <2>1 DEF QInv, CacheFits
<1>2. CASE ~(cache.mode = m /\ cache.cycle = c)
  <2>1. Reloaded(m, c) = [mode |-> m, cycle |-> c, usage |-> LogSum(logs, c, m)]
    BY <1>2, SumsAre DEF Reloaded
  <2>2. LogSum(logs, c, m) \in Nat
    BY SumsTyped DEF QInv
  <2>3. q.mode = "none" => LogSum(logs, c, m) = 0
    BY LogSumOfNone DEF QInv, QFits, Typed
  <2> QED
    BY <2>1, <2>2, <2>3 DEF CacheFits, OldMode
<1> QED
  BY <1>1, <1>2

(* A request moves, and neither holds nor settles anything.                *)
LEMMA QuietWrite ==
  ASSUME QInv, NEW w \in Writer, NEW r, WriteFits(r),
         writer' = [writer EXCEPT ![w] = r],
         r.at \notin {"writing", "settled"}, writer[w].at \notin {"writing", "settled"},
         CacheFits(cache'), faults' \in 0..MaxFault,
         UNCHANGED <<mode, cycle, logs, bytes, flight, q, slipped, saves>>
  PROVE  QInv'
<1>1. r \in Write /\ writer \in [Writer -> Write]
  BY DEF WriteFits, QInv, Typed
<1>2. Typed'
  BY <1>1 DEF QInv, Typed
<1>3. /\ \A x \in Writer : writer[x] \in Write
      /\ \A x \in Writer : writer'[x] \in Write
      /\ w \in Writer /\ writer'[w] = r
      /\ \A x \in Writer \ {w} : writer'[x] = writer[x]
  BY <1>1
<1>4. ReservedBy(writer') = ReservedBy(writer)
  <2>1. ReservedOf(writer'[w]) = 0 /\ ReservedOf(writer[w]) = 0
    BY <1>3 DEF ReservedOf
  <2>2. \A x \in Writer \ {w} : ReservedOf(writer'[x]) = ReservedOf(writer[x])
    BY <1>3
  <2>3. ReservedBy(writer') + ReservedOf(writer[w]) = ReservedBy(writer) + ReservedOf(writer'[w])
    BY ONLY <1>3, <2>2, ReservedMoves
  <2>4. ReservedBy(writer') \in Nat /\ ReservedBy(writer) \in Nat
    BY <1>3, WriterSumsTyped
  <2> QED
    BY <2>1, <2>3, <2>4
<1>5. ASSUME NEW m
      PROVE  UnmeteredBy(writer', m) = UnmeteredBy(writer, m)
  <2>1. UnmeteredOf(writer'[w], m) = 0 /\ UnmeteredOf(writer[w], m) = 0
    BY <1>3 DEF UnmeteredOf
  <2>2. \A x \in Writer \ {w} : UnmeteredOf(writer'[x], m) = UnmeteredOf(writer[x], m)
    BY <1>3
  <2>3. UnmeteredBy(writer', m) + UnmeteredOf(writer[w], m) = UnmeteredBy(writer, m) + UnmeteredOf(writer'[w], m)
    BY ONLY <1>3, <2>2, UnmeteredMoves
  <2>4. UnmeteredBy(writer', m) \in Nat /\ UnmeteredBy(writer, m) \in Nat
    BY <1>3, WriterSumsTyped
  <2> QED
    BY <2>1, <2>3, <2>4
<1>6. CacheFits(cache)'
  BY DEF CacheFits, OldMode
<1>7. \A x \in Writer : WriteFits(writer[x])'
  <2> SUFFICES ASSUME NEW x \in Writer
               PROVE  WriteFits(writer[x])'
    OBVIOUS
  <2>1. WriteFits(writer'[x])
    BY <1>3 DEF QInv
  <2> QED
    BY <2>1 DEF WriteFits, OldMode
<1>8. FlightFits' /\ QFits'
  BY <1>4 DEF QInv, FlightFits, QFits, OldMode
<1>9. Exact'
  <2>1. TrafficOf(logs', flight', bytes', writer', cycle', q'.mode) = TrafficOf(logs, flight, bytes, writer, cycle, q.mode)
    BY <1>5 DEF TrafficOf
  <2> QED
    BY <1>4, <2>1 DEF QInv, Exact
<1> QED
  BY <1>2, <1>6, <1>7, <1>8, <1>9 DEF QInv

LEMMA NoWriteIs ==
  /\ NoWrite \in Write
  /\ NoWrite.at = "idle" /\ NoWrite.mode = "none" /\ NoWrite.fresh = "none" /\ NoWrite.cycle = 0
<1>1. 0 \in Cycle /\ 0 \in 0..MaxBytes /\ 0 \in Nat /\ "in" \in Direction
  BY CyclesAre, QuotaAssumption DEF Direction
<1> QED
  BY <1>1 DEF NoWrite, Write

LEMMA NoWriteFits == QInv => WriteFits(NoWrite)
<1> SUFFICES ASSUME QInv
             PROVE  WriteFits(NoWrite)
  OBVIOUS
<1>1. cycle \in Nat
  BY NatsAre DEF QInv, Typed
<1> QED
  BY <1>1, NoWriteIs DEF WriteFits, OldMode

LEMMA ModesAre ==
  ASSUME QInv, NEW w \in Writer
  PROVE  /\ writer[w].at = "gate" => writer[w].mode \in Mode
         /\ writer[w].at = "reserving" => writer[w].mode \in Mode
         /\ writer[w].at = "reloading" => writer[w].mode \in Mode /\ writer[w].fresh \in Mode
         /\ writer[w].cycle \in Cycle /\ writer[w].cycle <= cycle
         /\ writer[w] \in Write
  BY DEF QInv, WriteFits, Write

LEMMA ArriveKeeps ==
  ASSUME QInv, NEW w \in Writer, Arrive(w)
  PROVE  QInv'
<1> DEFINE r == [writer[w] EXCEPT !.at = "gate", !.mode = mode, !.cycle = cycle]
<1>1. writer[w] \in Write /\ WriteFits(writer[w]) /\ writer[w].at = "idle" /\ writer \in [Writer -> Write]
  BY ModesAre DEF QInv, Arrive, Typed
<1>2. WriteFits(r) /\ r.at = "gate"
  <2>1. mode \in Mode /\ cycle \in Cycle /\ cycle \in Nat
    BY NatsAre DEF QInv, Typed
  <2>2. r \in Write
    BY <1>1, <2>1 DEF Write
  <2>3. /\ r.at = "gate" /\ r.mode = mode /\ r.cycle = cycle
        /\ r.fresh = writer[w].fresh
    BY <1>1 DEF Write
  <2> HIDE DEF r
  <2>4. mode # "none"
    BY <2>1 DEF Mode
  <2> QED
    BY <1>1, <2>1, <2>2, <2>3, <2>4 DEF WriteFits, OldMode
<1>3. writer' = [writer EXCEPT ![w] = r]
  BY <1>1 DEF Arrive
<1> HIDE DEF r
<1> QED
  BY <1>1, <1>2, <1>3, QuietWrite DEF Arrive, QInv, Typed

LEMMA GateKeeps ==
  ASSUME QInv, NEW w \in Writer, Gate(w)
  PROVE  QInv'
<1> DEFINE m == writer[w].mode
           c == writer[w].cycle
<1>1. writer[w].at = "gate" /\ ~flight.on /\ m \in Mode /\ c \in Cycle /\ c <= cycle /\ (saves = 0 => m = mode)
  BY ModesAre DEF Gate, Unlocked, QInv, WriteFits, OldMode
<1>2. CacheFits(Reloaded(m, c)) /\ CacheFits(cache)
  BY <1>1, ReloadFits DEF QInv
<1>3. cache' = Reloaded(m, c) \/ cache' = cache
  BY DEF Gate
<1>4. faults' \in 0..MaxFault
  BY QuotaAssumption DEF Gate, Fault, QInv, Typed
<1>5. UNCHANGED <<mode, cycle, logs, bytes, flight, q, slipped, saves>>
  BY DEF Gate
<1>6. PICK r : /\ writer' = [writer EXCEPT ![w] = r]
               /\ r = [NoWrite EXCEPT !.at = "ready"] \/ r = NoWrite
  BY DEF Gate
<1>7. WriteFits(r) /\ r.at \notin {"writing", "settled"}
  BY <1>6, NoWriteFits DEF WriteFits, NoWrite, Write
<1> QED
  BY <1>1, <1>2, <1>3, <1>4, <1>5, <1>6, <1>7, QuietWrite

LEMMA ReadSettingsKeeps ==
  ASSUME QInv, NEW w \in Writer, NEW d \in Direction, NEW n \in Size, ReadSettings(w, d, n)
  PROVE  QInv'
<1> DEFINE r == [NoWrite EXCEPT !.at = "reserving", !.dir = d, !.size = n, !.mode = mode, !.cycle = cycle]
<1>1. writer[w].at = "ready" /\ writer' = [writer EXCEPT ![w] = r]
  BY DEF ReadSettings
<1>2. WriteFits(NoWrite)
  BY NoWriteFits
<1>3. WriteFits(r) /\ r.at = "reserving"
  <2>1. mode \in Mode /\ cycle \in Cycle /\ cycle \in Nat
    BY NatsAre DEF QInv, Typed
  <2>2. r \in Write
    BY <2>1, NoWriteIs DEF Write
  <2>3. r.at = "reserving" /\ r.mode = mode /\ r.cycle = cycle /\ r.fresh = "none"
    BY NoWriteIs DEF Write
  <2> HIDE DEF r
  <2>4. mode # "none"
    BY <2>1 DEF Mode
  <2> QED
    BY <2>1, <2>2, <2>3, <2>4 DEF WriteFits, OldMode
<1> HIDE DEF r
<1> QED
  BY <1>1, <1>3, QuietWrite DEF ReadSettings, QInv, Typed

LEMMA EnterReloadKeeps ==
  ASSUME QInv, NEW w \in Writer, EnterReload(w)
  PROVE  QInv'
<1> DEFINE r == [writer[w] EXCEPT !.at = "reloading", !.fresh = mode]
<1>1. writer[w].at = "reserving" /\ writer[w] \in Write /\ WriteFits(writer[w])
  BY ModesAre DEF EnterReload, QInv
<1>2. writer' = [writer EXCEPT ![w] = r]
  BY <1>1 DEF EnterReload, QInv, Typed
<1>3. WriteFits(r) /\ r.at = "reloading"
  <2>1. mode \in Mode
    BY DEF QInv, Typed
  <2>2. r \in Write
    BY <1>1, <2>1 DEF Write
  <2>3. /\ r.at = "reloading" /\ r.mode = writer[w].mode /\ r.fresh = mode
        /\ r.cycle = writer[w].cycle
    BY <1>1 DEF Write
  <2> HIDE DEF r
  <2>4. mode # "none"
    BY <2>1 DEF Mode
  <2> QED
    BY <1>1, <2>1, <2>2, <2>3, <2>4 DEF WriteFits, OldMode
<1> HIDE DEF r
<1> QED
  BY <1>1, <1>2, <1>3, QuietWrite DEF EnterReload, QInv, Typed

LEMMA ReloadFailsKeeps ==
  ASSUME QInv, NEW w \in Writer, ReloadFails(w)
  PROVE  QInv'
<1>1. writer[w].at = "reloading" /\ writer' = [writer EXCEPT ![w] = NoWrite]
  BY DEF ReloadFails, Reloading
<1>2. faults' \in 0..MaxFault
  BY QuotaAssumption DEF ReloadFails, Fault, QInv, Typed
<1>3. WriteFits(NoWrite) /\ NoWrite.at = "idle"
  BY NoWriteFits DEF NoWrite
<1>4. CacheFits(cache')
  BY DEF ReloadFails, QInv
<1>5. UNCHANGED <<mode, cycle, logs, bytes, flight, q, slipped, saves>>
  BY DEF ReloadFails
<1> QED
  BY <1>1, <1>2, <1>3, <1>4, <1>5, QuietWrite

(***************************************************************************)
(* What reserve grants is what it charges, and never beyond the quota.     *)
(***************************************************************************)
GrantOf(r, usage) ==
  IF Allowed(usage, r) = 0 THEN NoWrite
  ELSE [NoWrite EXCEPT !.at = "writing", !.dir = r.dir, !.reserved = Allowed(usage, r),
                       !.charged = ~Uncharged(r), !.same = TRUE]

LEMMA GrantIs ==
  ASSUME NEW ws, NEW w, NEW usage
  PROVE  Granted(ws, w, usage) = [ws EXCEPT ![w] = GrantOf(writer[w], usage)]
<1>1. CASE Allowed(usage, writer[w]) = 0
  BY <1>1 DEF Granted, GrantOf
<1>2. CASE Allowed(usage, writer[w]) # 0
  BY <1>2 DEF Granted, GrantOf
<1> QED
  BY <1>1, <1>2

LEMMA GrantTyped ==
  ASSUME NEW r \in Write, NEW usage \in Nat
  PROVE  /\ GrantOf(r, usage) \in Write
         /\ GrantOf(r, usage).at \in {"idle", "writing"}
         /\ Charge(usage, r) = usage + ReservedOf(GrantOf(r, usage))
         /\ ReservedOf(GrantOf(r, usage)) \in Nat
         /\ usage <= Quota => Charge(usage, r) <= Quota
         /\ \A m : UnmeteredOf(GrantOf(r, usage), m) = 0
<1>1. r.size \in Nat /\ Quota \in Nat /\ r.dir \in Direction
  <2>1. r.size \in Size \cup {0} /\ r.dir \in Direction
    BY DEF Write
  <2>2. \A n \in Size \cup {0} : n \in Nat
    BY QuotaAssumption
  <2>3. r.size \in Nat
    BY <2>1, <2>2, Zenon
  <2> QED
    BY <2>1, <2>3, QuotaAssumption
<1> DEFINE a == Allowed(usage, r)
<1>2. a \in Nat
  BY <1>1 DEF Allowed
<1>3. ~Uncharged(r) /\ usage <= Quota => usage + a <= Quota
  BY <1>1 DEF Allowed
<1>4. Charge(usage, r) = IF Uncharged(r) THEN usage ELSE usage + a
  BY DEF Charge
<1> DEFINE g == [NoWrite EXCEPT !.at = "writing", !.dir = r.dir, !.reserved = a,
                               !.charged = ~Uncharged(r), !.same = TRUE]
<1>5. GrantOf(r, usage) = IF a = 0 THEN NoWrite ELSE g
  BY DEF GrantOf
<1> HIDE DEF a
<1>6. Uncharged(r) \in BOOLEAN
  BY DEF Uncharged
<1>7. GrantOf(r, usage) \in Write /\ GrantOf(r, usage).at \in {"idle", "writing"}
  <2>1. g \in Write
    BY <1>1, <1>2, <1>6, NoWriteIs, ZenonT(60) DEF Write
  <2>2. g.at = "writing"
    BY NoWriteIs DEF Write
  <2> HIDE DEF g
  <2> QED
    BY <1>5, <2>1, <2>2, NoWriteIs
<1>8. ReservedOf(GrantOf(r, usage)) = IF Uncharged(r) THEN 0 ELSE a
  <2>1. CASE a = 0
    <3>1. GrantOf(r, usage).at = "idle"
      BY <1>5, <2>1, NoWriteIs
    <3> QED
      BY <2>1, <3>1 DEF ReservedOf
  <2>2. CASE a # 0
    <3>1. g.at = "writing" /\ g.same /\ g.charged = ~Uncharged(r) /\ g.reserved = a
      BY NoWriteIs DEF Write
    <3> HIDE DEF g
    <3> QED
      BY <1>5, <2>2, <3>1 DEF ReservedOf
  <2> QED
    BY <2>1, <2>2
<1>9. \A m : UnmeteredOf(GrantOf(r, usage), m) = 0
  BY <1>7 DEF UnmeteredOf
<1> QED
  BY <1>2, <1>3, <1>4, <1>7, <1>8, <1>9

LEMMA ReserveKeeps ==
  ASSUME QInv, NEW w \in Writer, Reserve(w)
  PROVE  QInv'
<1> DEFINE r == writer[w]
           g == GrantOf(r, q.usage)
<1>0. Typed /\ q.usage \in Nat /\ writer \in [Writer -> Write] /\ w \in Writer
  BY DEF QInv, Typed
<1>1. /\ r \in Write /\ WriteFits(r) /\ r.at = "reserving"
      /\ q.mode = r.mode /\ q.cycle = r.cycle
  BY ModesAre DEF Reserve, Stale, QInv
<1>2. UNCHANGED <<mode, cycle, logs, bytes, flight, cache, slipped, saves, faults>>
  BY DEF Reserve
<1>3. writer' = [writer EXCEPT ![w] = g]
  BY GrantIs DEF Reserve
<1>4. /\ g \in Write /\ g.at \in {"idle", "writing"} /\ ReservedOf(g) \in Nat
      /\ Charge(q.usage, r) = q.usage + ReservedOf(g)
      /\ q.usage <= Quota => Charge(q.usage, r) <= Quota
      /\ \A m : UnmeteredOf(g, m) = 0
  BY <1>0, <1>1, GrantTyped
<1>5. /\ q' \in [mode: Mode \cup {"none"}, cycle: Cycle, usage: Nat, reloaded: BOOLEAN]
      /\ q'.usage = q.usage + ReservedOf(g)
      /\ q'.mode = q.mode /\ q'.cycle = q.cycle /\ q'.reloaded = q.reloaded
  BY <1>0, <1>4 DEF Reserve, Typed
<1>6. WriteFits(g)
  <2>1. g.at = "writing" => g.charged = ~Uncharged(r) /\ g.same = TRUE /\ g.dir = r.dir
    BY NoWriteIs DEF GrantOf, Write
  <2>2. g.at = "writing" => (g.charged <=> Bills(q.mode, g.dir))
    BY <1>1, <2>1 DEF Bills, Uncharged, Write, Direction
  <2>3. g.mode = "none" /\ g.fresh = "none" /\ g.cycle = 0
    BY NoWriteIs DEF GrantOf, Write
  <2>4. q.mode # "none" /\ cycle \in Nat
    BY <1>0, <1>1, NatsAre DEF WriteFits, Typed
  <2> QED
    BY <1>4, <2>1, <2>2, <2>3, <2>4 DEF WriteFits, OldMode
<1> HIDE DEF g, r
<1>7. /\ \A x \in Writer : writer[x] \in Write
      /\ \A x \in Writer : writer'[x] \in Write
      /\ writer'[w] = g /\ w \in Writer
      /\ \A x \in Writer \ {w} : writer'[x] = writer[x]
  BY <1>0, <1>3, <1>4
<1>8. ReservedBy(writer') = ReservedBy(writer) + ReservedOf(g)
      /\ ReservedBy(writer') \in Nat /\ ReservedBy(writer) \in Nat
  <2>1. ReservedOf(writer[w]) = 0
    BY <1>1 DEF ReservedOf, r
  <2>2. \A x \in Writer \ {w} : ReservedOf(writer'[x]) = ReservedOf(writer[x])
    BY <1>7
  <2>3. ReservedBy(writer') + ReservedOf(writer[w]) = ReservedBy(writer) + ReservedOf(writer'[w])
    BY ONLY <1>7, <2>2, ReservedMoves
  <2>4. ReservedBy(writer') \in Nat /\ ReservedBy(writer) \in Nat
    BY <1>7, WriterSumsTyped
  <2> QED
    BY <1>4, <1>7, <2>1, <2>3, <2>4
<1>9. ASSUME NEW m
      PROVE  UnmeteredBy(writer', m) = UnmeteredBy(writer, m)
  <2>1. UnmeteredOf(writer'[w], m) = 0 /\ UnmeteredOf(writer[w], m) = 0
    BY <1>1, <1>4, <1>7 DEF UnmeteredOf, r
  <2>2. \A x \in Writer \ {w} : UnmeteredOf(writer'[x], m) = UnmeteredOf(writer[x], m)
    BY <1>7
  <2>3. UnmeteredBy(writer', m) + UnmeteredOf(writer[w], m) = UnmeteredBy(writer, m) + UnmeteredOf(writer'[w], m)
    BY ONLY <1>7, <2>2, UnmeteredMoves
  <2>4. UnmeteredBy(writer', m) \in Nat /\ UnmeteredBy(writer, m) \in Nat
    BY <1>7, WriterSumsTyped
  <2> QED
    BY <2>1, <2>3, <2>4
<1>10. Typed'
  BY <1>0, <1>2, <1>3, <1>4, <1>5 DEF Typed
<1>11. CacheFits(cache)'
  BY <1>2, <1>5 DEF QInv, CacheFits, OldMode
<1>12. \A x \in Writer : WriteFits(writer[x])'
  <2> SUFFICES ASSUME NEW x \in Writer
               PROVE  WriteFits(writer[x])'
    OBVIOUS
  <2>1. WriteFits(writer'[x])
    BY <1>6, <1>7 DEF QInv
  <2> QED
    BY <1>2, <1>5, <2>1 DEF WriteFits, OldMode
<1>13. FlightFits'
  BY <1>2 DEF QInv, FlightFits
<1>14. QFits'
  <2>1. ReservedBy(writer') <= q'.usage
    BY <1>0, <1>4, <1>5, <1>8 DEF QInv, QFits
  <2>2. q.mode # "none"
    BY <1>1 DEF WriteFits
  <2>3. ~q'.reloaded => q'.usage <= Quota /\ slipped' = 0
    BY <1>2, <1>4, <1>5 DEF QInv, QFits
  <2> QED
    BY <1>2, <1>5, <2>1, <2>2, <2>3 DEF QInv, QFits, OldMode
<1>15. Exact'
  <2>1. TrafficOf(logs', flight', bytes', writer', cycle', q'.mode) = TrafficOf(logs, flight, bytes, writer, cycle, q.mode)
    BY <1>2, <1>5, <1>9 DEF TrafficOf
  <2>2. TrafficOf(logs, flight, bytes, writer, cycle, q.mode) \in Nat
    BY <1>0, SumsTyped DEF TrafficOf, Typed
  <2>3. slipped \in Nat
    BY <1>0 DEF Typed
  <2> QED
    BY <1>0, <1>2, <1>4, <1>5, <1>8, <2>1, <2>2, <2>3 DEF QInv, Exact
<1> QED
  BY <1>10, <1>11, <1>12, <1>13, <1>14, <1>15 DEF QInv

LEMMA FlushSwapKeeps ==
  ASSUME QInv, FlushSwap
  PROVE  QInv'
<1>1. /\ Typed /\ cycle \in Nat /\ mode \in Mode /\ cycle \in Cycle /\ bytes \in Bytes
      /\ ~flight.on /\ bytes # NoBytes /\ flight = NoFlight
  BY NatsAre DEF QInv, Typed, FlushSwap, FlightFits
<1>2. UNCHANGED <<mode, cycle, logs, cache, q, writer, slipped, saves, faults>> /\ bytes' = NoBytes
  BY DEF FlushSwap
<1>3. flight'.on /\ flight'.bytes = bytes /\ flight'.cycle = cycle
      /\ flight' \in [on: BOOLEAN, bytes: Bytes, cycle: Cycle]
  BY <1>1 DEF FlushSwap
<1>4. bytes' \in Bytes
  BY <1>2 DEF NoBytes, Bytes
<1>5. q.mode # "none"
  BY <1>1 DEF QInv, QFits
<1>6. Typed'
  BY <1>1, <1>2, <1>3, <1>4 DEF Typed
<1>7. CacheFits(cache)'
  BY <1>2, <1>3, <1>5 DEF QInv, CacheFits, OldMode
<1>8. \A x \in Writer : WriteFits(writer[x])'
  BY <1>2 DEF QInv, WriteFits, OldMode
<1>9. FlightFits'
  BY <1>1, <1>2, <1>3 DEF FlightFits
<1>10. QFits'
  BY <1>2, <1>3, <1>5 DEF QInv, QFits, OldMode
<1>11. Exact'
  <2>1. Billable(q.mode, bytes') = 0 /\ Billable(q.mode, flight.bytes) = 0
    BY <1>1, <1>2, BillableOfNone DEF NoFlight
  <2>2. TrafficOf(logs', flight', bytes', writer', cycle', q'.mode) = TrafficOf(logs, flight, bytes, writer, cycle, q.mode)
    BY <1>1, <1>2, <1>3, <2>1, SumsTyped DEF TrafficOf
  <2> QED
    BY <1>2, <2>2 DEF QInv, Exact
<1> QED
  BY <1>6, <1>7, <1>8, <1>9, <1>10, <1>11 DEF QInv

LEMMA FlushFailKeeps ==
  ASSUME QInv, FlushFail
  PROVE  QInv'
<1>1. /\ Typed /\ cycle \in Nat /\ mode \in Mode /\ cycle \in Cycle /\ flight.on
      /\ flight.cycle \in Nat /\ q.cycle \in Nat /\ flight.bytes \in Bytes /\ bytes \in Bytes
  BY NatsAre DEF QInv, Typed, FlushFail
<1>2. UNCHANGED <<mode, cycle, logs, cache, q, writer, slipped, saves>> /\ flight' = NoFlight
      /\ bytes' = [d \in Direction |-> bytes[d] + flight.bytes[d]]
  BY DEF FlushFail
<1>3. bytes' \in Bytes /\ \A d \in Direction : bytes'[d] = bytes[d] + flight.bytes[d]
  BY <1>1, <1>2 DEF Bytes
<1>4. ~flight'.on /\ flight'.bytes = NoBytes /\ flight'.cycle = 0
      /\ flight' \in [on: BOOLEAN, bytes: Bytes, cycle: Cycle]
  BY <1>2, CyclesAre DEF NoFlight, NoBytes, Bytes
<1>5. faults' \in 0..MaxFault
  BY QuotaAssumption DEF FlushFail, Fault, QInv, Typed
<1>6. q.mode # "none"
  BY <1>1 DEF QInv, QFits
<1>7. Typed'
  BY <1>1, <1>2, <1>3, <1>4, <1>5 DEF Typed
<1>8. CacheFits(cache)'
  BY <1>2, <1>4, <1>6 DEF QInv, CacheFits, OldMode
<1>9. \A x \in Writer : WriteFits(writer[x])'
  BY <1>2 DEF QInv, WriteFits, OldMode
<1>10. FlightFits'
  BY <1>1, <1>2, <1>4 DEF FlightFits
<1>11. QFits'
  BY <1>2, <1>4, <1>6 DEF QInv, QFits, OldMode
<1>12. Exact'
  <2> SUFFICES ASSUME ~q.reloaded \/ (saves <= 1 /\ q.mode = mode), q.cycle = cycle
               PROVE  q.usage + slipped = TrafficOf(logs, flight', bytes', writer, cycle, q.mode) + ReservedBy(writer)
    BY <1>2 DEF Exact
  <2>1. flight.cycle = cycle
    BY <1>1 DEF QInv, QFits, FlightFits
  <2>2. Billable(q.mode, bytes') = Billable(q.mode, bytes) + Billable(q.mode, flight.bytes)
    BY <1>1, <1>3, BillableAdds
  <2>3. Billable(q.mode, flight'.bytes) = 0
    BY <1>4, BillableOfNone
  <2>4. TrafficOf(logs, flight', bytes', writer, cycle, q.mode) = TrafficOf(logs, flight, bytes, writer, cycle, q.mode)
    BY <1>1, <2>1, <2>2, <2>3, SumsTyped DEF TrafficOf
  <2> QED
    BY <1>6, <2>4 DEF QInv, Exact
<1> QED
  BY <1>7, <1>8, <1>9, <1>10, <1>11, <1>12 DEF QInv

LEMMA FlushCommitKeeps ==
  ASSUME QInv, FlushCommit
  PROVE  QInv'
<1>1. /\ Typed /\ cycle \in Nat /\ mode \in Mode /\ cycle \in Cycle /\ flight.on
      /\ flight.cycle \in Nat /\ flight.cycle \in Cycle /\ q.cycle \in Nat
      /\ flight.bytes \in Bytes /\ logs \in Logs
  BY NatsAre DEF QInv, Typed, FlushCommit
<1>2. UNCHANGED <<mode, cycle, bytes, q, writer, slipped, saves, faults>> /\ flight' = NoFlight
      /\ cache' = Advanced
  BY DEF FlushCommit
<1>3. /\ logs' \in Logs
      /\ \A d \in Direction : logs'[flight.cycle][d] = logs[flight.cycle][d] + flight.bytes[d]
      /\ \A k \in Cycle \ {flight.cycle} : logs'[k] = logs[k]
  BY <1>1 DEF FlushCommit, Logs, Bytes
<1>4. ~flight'.on /\ flight'.bytes = NoBytes /\ flight'.cycle = 0
      /\ flight' \in [on: BOOLEAN, bytes: Bytes, cycle: Cycle]
  BY <1>2, CyclesAre DEF NoFlight, NoBytes, Bytes
<1>5. q.mode # "none"
  BY <1>1 DEF QInv, QFits
<1>6. ASSUME NEW m, flight.cycle = cycle
      PROVE  LogSum(logs', cycle, m) = LogSum(logs, cycle, m) + Billable(m, flight.bytes)
  <2>1. flight.cycle \in cycle..MaxCycle
    BY <1>1, <1>6, QuotaAssumption DEF Cycle
  <2>2. PICK l, n, c, j, b : l = logs /\ n = logs' /\ c = cycle /\ j = flight.cycle /\ b = flight.bytes
    OBVIOUS
  <2>3. /\ l \in Logs /\ n \in Logs /\ c \in Cycle /\ j \in c..MaxCycle /\ b \in Bytes
        /\ \A d \in Direction : n[j][d] = l[j][d] + b[d]
        /\ \A k \in Cycle \ {j} : n[k] = l[k]
    BY <1>1, <1>3, <2>1, <2>2
  <2>4. LogSum(n, c, m) = LogSum(l, c, m) + Billable(m, b)
    BY ONLY <2>3, LogSumGrows
  <2> QED
    BY <2>2, <2>4
<1>7. /\ cache.mode = mode /\ cache.cycle = cycle => flight.cycle = cycle
      /\ q.cycle = cycle => flight.cycle = cycle
      /\ cache.cycle \in Nat /\ cache.cycle <= cycle /\ cache.usage \in Nat
      /\ cache \in [mode: Mode \cup {"none"}, cycle: Cycle, usage: Nat]
  <2>1. /\ cache \in [mode: Mode \cup {"none"}, cycle: Cycle, usage: Nat]
        /\ cache.cycle <= cycle /\ cache.cycle <= flight.cycle
        /\ q.cycle <= flight.cycle /\ flight.cycle <= cycle
    BY <1>1 DEF QInv, QFits, FlightFits, CacheFits
  <2>2. cache.cycle \in Cycle /\ cache.usage \in Nat
    BY <2>1
  <2>3. cache.cycle \in Nat
    BY <2>2, CyclesAre
  <2> QED
    BY <1>1, <2>1, <2>2, <2>3
<1>8. Typed'
  BY <1>1, <1>2, <1>3, <1>4 DEF Typed
<1>9. CacheFits(cache)'
  <2>1. Billable(mode, flight.bytes) \in Nat
    BY <1>1, SumsTyped
  <2>2. CASE cache.mode = mode /\ cache.cycle = cycle
    <3>1. cache'.mode = cache.mode /\ cache'.cycle = cache.cycle
          /\ cache'.usage = cache.usage + Billable(mode, flight.bytes)
          /\ cache' \in [mode: Mode \cup {"none"}, cycle: Cycle, usage: Nat]
      BY <1>2, <1>7, <2>1, <2>2 DEF Advanced
    <3>2. saves <= 1 => cache'.usage = LogSum(logs', cycle, mode)
      BY <1>6, <1>7, <2>2, <3>1 DEF QInv, CacheFits
    <3> QED
      BY <1>2, <1>4, <1>5, <1>7, <2>2, <3>1, <3>2 DEF QInv, CacheFits, OldMode
  <2>3. CASE ~(cache.mode = mode /\ cache.cycle = cycle)
    <3>1. cache' = cache
      BY <1>2, <2>3 DEF Advanced
    <3> QED
      BY <1>2, <1>4, <1>5, <2>3, <3>1 DEF QInv, CacheFits, OldMode
  <2> QED
    BY <2>2, <2>3
<1>10. \A x \in Writer : WriteFits(writer[x])'
  BY <1>2 DEF QInv, WriteFits, OldMode
<1>11. FlightFits'
  BY <1>1, <1>2, <1>4 DEF FlightFits
<1>12. QFits'
  BY <1>2, <1>4, <1>5 DEF QInv, QFits, OldMode
<1>13. Exact'
  <2> SUFFICES ASSUME ~q.reloaded \/ (saves <= 1 /\ q.mode = mode), q.cycle = cycle
               PROVE  q.usage + slipped = TrafficOf(logs', flight', bytes, writer, cycle, q.mode) + ReservedBy(writer)
    BY <1>2 DEF Exact
  <2>1. flight.cycle = cycle
    BY <1>7
  <2>2. LogSum(logs', cycle, q.mode) = LogSum(logs, cycle, q.mode) + Billable(q.mode, flight.bytes)
    BY <1>6, <2>1
  <2>3. Billable(q.mode, flight'.bytes) = 0
    BY <1>4, BillableOfNone
  <2>4. TrafficOf(logs', flight', bytes, writer, cycle, q.mode) = TrafficOf(logs, flight, bytes, writer, cycle, q.mode)
    BY <1>1, <2>1, <2>2, <2>3, SumsTyped DEF TrafficOf
  <2> QED
    BY <1>5, <2>4 DEF QInv, Exact
<1> QED
  BY <1>8, <1>9, <1>10, <1>11, <1>12, <1>13 DEF QInv

LEMMA SaveModeKeeps ==
  ASSUME QInv, SaveMode
  PROVE  QInv'
<1>1. /\ UNCHANGED <<cycle, logs, bytes, flight, cache, q, writer, slipped, faults>>
      /\ saves' = saves + 1 /\ mode' \in Mode /\ mode' # mode /\ mode' # "none"
  BY DEF SaveMode, Mode
<1>2. saves \in Nat /\ saves' \in 0..MaxSave /\ saves' # 0 /\ (saves' <= 1 => saves = 0)
  BY <1>1, QuotaAssumption DEF SaveMode, QInv, Typed
<1>3. Typed'
  BY <1>1, <1>2 DEF QInv, Typed
<1>4. CacheFits(cache)'
  BY <1>1, <1>2 DEF QInv, CacheFits, OldMode
<1>5. \A x \in Writer : WriteFits(writer[x])'
  BY <1>1, <1>2 DEF QInv, WriteFits, OldMode
<1>6. FlightFits' /\ QFits'
  BY <1>1, <1>2 DEF QInv, FlightFits, QFits, OldMode
<1>7. Exact'
  <2> SUFFICES ASSUME ~q.reloaded \/ (saves' <= 1 /\ q.mode = mode'), q.mode # "none", q.cycle = cycle
               PROVE  q.usage + slipped = TrafficOf(logs, flight, bytes, writer, cycle, q.mode) + ReservedBy(writer)
    BY <1>1 DEF Exact
  <2>1. ~q.reloaded
    BY <1>1, <1>2 DEF QInv, QFits, OldMode
  <2> QED
    BY <2>1 DEF QInv, Exact
<1> QED
  BY <1>3, <1>4, <1>5, <1>6, <1>7 DEF QInv

LEMMA NextCycleKeeps ==
  ASSUME QInv, NextCycle
  PROVE  QInv'
<1>1. /\ UNCHANGED <<mode, logs, bytes, flight, cache, q, writer, slipped, saves, faults>>
      /\ cycle' = cycle + 1 /\ cycle' \in Cycle
  BY QuotaAssumption DEF NextCycle, Cycle, QInv, Typed
<1>2. cycle \in Nat /\ \A c \in Cycle : c <= cycle => c <= cycle' /\ c # cycle'
  BY <1>1, NatsAre DEF QInv, Typed
<1>3. Typed'
  BY <1>1 DEF QInv, Typed
<1>4. CacheFits(cache)'
  BY <1>1, <1>2 DEF QInv, CacheFits, OldMode
<1>5. \A x \in Writer : WriteFits(writer[x])'
  BY <1>1, <1>2 DEF QInv, WriteFits, Write, OldMode
<1>6. FlightFits' /\ QFits'
  BY <1>1, <1>2 DEF QInv, Typed, FlightFits, QFits, OldMode
<1>7. Exact'
  BY <1>1, <1>2 DEF QInv, Typed, QFits, Exact
<1> QED
  BY <1>3, <1>4, <1>5, <1>6, <1>7 DEF QInv

LEMMA MeterKeeps ==
  ASSUME QInv, NEW w \in Writer, Meter(w)
  PROVE  QInv'
<1>1. /\ Typed /\ writer[w].at = "settled" /\ writer[w] \in Write /\ WriteFits(writer[w])
      /\ writer \in [Writer -> Write] /\ w \in Writer /\ cycle \in Cycle
  BY ModesAre DEF Meter, QInv, Typed
<1>2. UNCHANGED <<mode, cycle, logs, flight, cache, q, slipped, saves, faults>>
      /\ bytes' = [bytes EXCEPT ![writer[w].dir] = @ + writer[w].actual]
  BY DEF Meter
<1>3. PICK r : /\ writer' = [writer EXCEPT ![w] = r]
               /\ \E next \in {"idle", "ready"} : r = [NoWrite EXCEPT !.at = next]
  BY DEF Meter
<1>4. r \in Write /\ r.at \in {"idle", "ready"} /\ WriteFits(r)
  BY <1>3, NoWriteIs, NoWriteFits DEF Write, WriteFits
<1>5. writer[w].dir \in Direction /\ writer[w].actual \in Nat /\ q.mode # "none"
  BY <1>1, QuotaAssumption DEF Write, WriteFits
<1>6. /\ bytes' \in Bytes
      /\ bytes'[writer[w].dir] = bytes[writer[w].dir] + writer[w].actual
      /\ \A d \in Direction \ {writer[w].dir} : bytes'[d] = bytes[d]
  BY <1>1, <1>2, <1>5 DEF Typed, Bytes
<1>7. /\ \A x \in Writer : writer[x] \in Write
      /\ \A x \in Writer : writer'[x] \in Write
      /\ writer'[w] = r
      /\ \A x \in Writer \ {w} : writer'[x] = writer[x]
  BY <1>1, <1>3, <1>4
<1>8. ReservedBy(writer') = ReservedBy(writer)
  <2>1. ReservedOf(writer'[w]) = 0 /\ ReservedOf(writer[w]) = 0
    BY <1>1, <1>4, <1>7 DEF ReservedOf
  <2>2. \A x \in Writer \ {w} : ReservedOf(writer'[x]) = ReservedOf(writer[x])
    BY <1>7
  <2>3. ReservedBy(writer') + ReservedOf(writer[w]) = ReservedBy(writer) + ReservedOf(writer'[w])
    BY ONLY <1>1, <1>7, <2>2, ReservedMoves
  <2>4. ReservedBy(writer') \in Nat /\ ReservedBy(writer) \in Nat
    BY <1>7, WriterSumsTyped
  <2> QED
    BY <2>1, <2>3, <2>4
<1>9. Billable(q.mode, bytes') + UnmeteredBy(writer', q.mode) = Billable(q.mode, bytes) + UnmeteredBy(writer, q.mode)
  <2>1. PICK n : n = IF Bills(q.mode, writer[w].dir) THEN writer[w].actual ELSE 0
    OBVIOUS
  <2>2. Billable(q.mode, bytes') = Billable(q.mode, bytes) + n
    BY <1>1, <1>5, <1>6, <2>1, BillableOne DEF Typed
  <2>3. UnmeteredOf(writer[w], q.mode) = n /\ UnmeteredOf(writer'[w], q.mode) = 0
    BY <1>1, <1>4, <1>7, <2>1 DEF UnmeteredOf
  <2>4. \A x \in Writer \ {w} : UnmeteredOf(writer'[x], q.mode) = UnmeteredOf(writer[x], q.mode)
    BY <1>7
  <2>5. UnmeteredBy(writer', q.mode) + UnmeteredOf(writer[w], q.mode) = UnmeteredBy(writer, q.mode) + UnmeteredOf(writer'[w], q.mode)
    BY ONLY <1>1, <1>7, <2>4, UnmeteredMoves
  <2>6. UnmeteredBy(writer', q.mode) \in Nat /\ UnmeteredBy(writer, q.mode) \in Nat
    BY <1>7, WriterSumsTyped
  <2>7. Billable(q.mode, bytes) \in Nat /\ n \in Nat
    BY <1>1, <1>5, <2>1, SumsTyped
  <2> QED
    BY <2>2, <2>3, <2>5, <2>6, <2>7
<1>10. Typed'
  BY <1>1, <1>2, <1>3, <1>4, <1>6 DEF Typed
<1>11. CacheFits(cache)'
  BY <1>2 DEF QInv, CacheFits, OldMode
<1>12. \A x \in Writer : WriteFits(writer[x])'
  <2> SUFFICES ASSUME NEW x \in Writer
               PROVE  WriteFits(writer[x])'
    OBVIOUS
  <2>1. WriteFits(writer'[x])
    BY <1>4, <1>7 DEF QInv
  <2> QED
    BY <1>2, <2>1 DEF WriteFits, OldMode
<1>13. FlightFits' /\ QFits'
  BY <1>2, <1>5, <1>8 DEF QInv, FlightFits, QFits, OldMode
<1>14. Exact'
  <2>1. /\ LogSum(logs, cycle, q.mode) \in Nat /\ Billable(q.mode, flight.bytes) \in Nat
        /\ Billable(q.mode, bytes) \in Nat /\ UnmeteredBy(writer, q.mode) \in Nat
        /\ Billable(q.mode, bytes') \in Nat /\ UnmeteredBy(writer', q.mode) \in Nat
    BY <1>1, <1>6, <1>7, SumsTyped, BillableTyped, WriterSumsTyped
  <2>2. TrafficOf(logs', flight', bytes', writer', cycle', q'.mode) = TrafficOf(logs, flight, bytes, writer, cycle, q.mode)
    BY <1>2, <1>9, <2>1 DEF TrafficOf
  <2> QED
    BY <1>2, <1>8, <2>2 DEF QInv, Exact
<1> QED
  BY <1>10, <1>11, <1>12, <1>13, <1>14 DEF QInv

(* Only a reservation that q still counts is refunded: the clamp at zero   *)
(* never bites.                                                            *)
LEMMA ReservationIsCharged ==
  ASSUME NEW ws, \A x \in Writer : ws[x] \in Write, NEW w \in Writer
  PROVE  ReservedOf(ws[w]) <= ReservedBy(ws)
<1> DEFINE g == [x \in Writer |-> ReservedOf(ws[x])]
<1>1. \A x \in Writer : g[x] \in Nat
  BY WritesTyped
<1>2. DOMAIN g = Writer /\ ReservedBy(ws) = SumFunction(g) /\ g[w] = ReservedOf(ws[w]) /\ w \in Writer
  BY DEF ReservedBy
<1> HIDE DEF g
<1>3. g[w] <= SumFunctionOnSet(g, Writer)
  BY ONLY <1>1, <1>2, WriterAssumption, SumCovers
<1> QED
  BY ONLY <1>2, <1>3, SumOverDomain

LEMMA SettleKeeps ==
  ASSUME QInv, NEW w \in Writer, NEW n \in 0..MaxBytes, Settle(w, n)
  PROVE  QInv'
<1> DEFINE r == [NoWrite EXCEPT !.at = "settled", !.dir = writer[w].dir, !.actual = n]
<1>1. /\ Typed /\ writer[w].at = "writing" /\ writer[w] \in Write /\ WriteFits(writer[w])
      /\ writer \in [Writer -> Write] /\ w \in Writer /\ cycle \in Cycle
      /\ q.usage \in Nat /\ slipped \in Nat
  BY ModesAre DEF Settle, QInv, Typed
<1>2. UNCHANGED <<mode, cycle, logs, bytes, flight, cache, slipped, saves, faults>>
      /\ writer' = [writer EXCEPT ![w] = r] /\ n <= writer[w].reserved
  BY DEF Settle
<1>3. writer[w].dir \in Direction /\ n \in Nat /\ writer[w].reserved \in Nat /\ q.mode # "none"
      /\ writer[w].same \in BOOLEAN /\ writer[w].charged \in BOOLEAN
  BY <1>1, QuotaAssumption DEF Write, WriteFits
<1>4. r \in Write
  BY <1>3, NoWriteIs DEF Write
<1>5. /\ r.at = "settled" /\ r.dir = writer[w].dir /\ r.actual = n
      /\ r.mode = "none" /\ r.fresh = "none" /\ r.cycle = 0
  BY NoWriteIs DEF Write
<1> HIDE DEF r
<1>6. WriteFits(r)
  BY <1>1, <1>3, <1>4, <1>5, NatsAre DEF WriteFits, OldMode, Typed
<1>7. /\ \A x \in Writer : writer[x] \in Write
      /\ \A x \in Writer : writer'[x] \in Write
      /\ writer'[w] = r
      /\ \A x \in Writer \ {w} : writer'[x] = writer[x]
  BY <1>1, <1>2, <1>4
<1> DEFINE bill == IF Bills(q.mode, writer[w].dir) THEN n ELSE 0
<1>8. PICK held : held = ReservedOf(writer[w])
  OBVIOUS
<1>9. held \in Nat /\ held <= q.usage /\ (held # 0 => held = writer[w].reserved)
  <2>1. held <= ReservedBy(writer)
    BY <1>1, <1>7, <1>8, ReservationIsCharged
  <2>2. ReservedBy(writer) <= q.usage /\ ReservedBy(writer) \in Nat /\ q.usage \in Nat
    BY <1>1, <1>7, WriterSumsTyped DEF QInv, QFits
  <2>3. held \in Nat
    BY <1>1, <1>8, WritesTyped
  <2> QED
    BY <1>8, <2>1, <2>2, <2>3 DEF ReservedOf
<1>10. ReservedBy(writer') + held = ReservedBy(writer)
       /\ ReservedBy(writer') \in Nat /\ ReservedBy(writer) \in Nat
  <2>1. ReservedOf(writer'[w]) = 0
    BY <1>5, <1>7 DEF ReservedOf
  <2>2. \A x \in Writer \ {w} : ReservedOf(writer'[x]) = ReservedOf(writer[x])
    BY <1>7
  <2>3. ReservedBy(writer') + ReservedOf(writer[w]) = ReservedBy(writer) + ReservedOf(writer'[w])
    BY ONLY <1>1, <1>7, <2>2, ReservedMoves
  <2>4. ReservedBy(writer') \in Nat /\ ReservedBy(writer) \in Nat
    BY <1>7, WriterSumsTyped
  <2> QED
    BY <1>8, <2>1, <2>3, <2>4
<1>11. ASSUME NEW m, m = q.mode
       PROVE  UnmeteredBy(writer', m) = UnmeteredBy(writer, m) + bill
  <2>1. UnmeteredOf(writer'[w], m) = bill /\ UnmeteredOf(writer[w], m) = 0
    BY <1>1, <1>5, <1>7, <1>11 DEF UnmeteredOf
  <2>2. \A x \in Writer \ {w} : UnmeteredOf(writer'[x], m) = UnmeteredOf(writer[x], m)
    BY <1>7
  <2>3. UnmeteredBy(writer', m) + UnmeteredOf(writer[w], m) = UnmeteredBy(writer, m) + UnmeteredOf(writer'[w], m)
    BY ONLY <1>1, <1>7, <2>2, UnmeteredMoves
  <2>4. UnmeteredBy(writer', m) \in Nat /\ UnmeteredBy(writer, m) \in Nat
    BY <1>7, WriterSumsTyped
  <2>5. bill \in Nat
    BY <1>3
  <2> HIDE DEF bill
  <2> QED
    BY <2>1, <2>3, <2>4, <2>5
<1>12. /\ UsageAfter(writer[w], n) \in Nat
       /\ UsageAfter(writer[w], n) + held = q.usage + bill
       /\ ~q.reloaded => UsageAfter(writer[w], n) <= q.usage
  <2>1. CASE writer[w].same /\ writer[w].charged
    <3>1. held = writer[w].reserved /\ bill = n
      BY <1>1, <1>8, <2>1 DEF ReservedOf, WriteFits
    <3>2. UsageAfter(writer[w], n) = IF writer[w].reserved - n >= q.usage THEN 0
                                     ELSE q.usage - (writer[w].reserved - n)
      BY <2>1 DEF UsageAfter, Refunded
    <3> HIDE DEF bill
    <3>3. PICK h, u, v : h = writer[w].reserved /\ u = q.usage /\ v = UsageAfter(writer[w], n)
      OBVIOUS
    <3>4. h \in Nat /\ u \in Nat /\ n \in Nat /\ n <= h /\ h <= u
          /\ v = IF h - n >= u THEN 0 ELSE u - (h - n)
      BY <1>1, <1>2, <1>3, <1>9, <3>1, <3>2, <3>3
    <3>5. v \in Nat /\ v + h = u + n /\ v <= u
      BY ONLY <3>4
    <3> QED
      BY <3>1, <3>3, <3>5
  <2>2. CASE writer[w].same /\ ~writer[w].charged
    <3>1. held = 0 /\ bill = 0
      BY <1>1, <1>8, <2>2 DEF ReservedOf, WriteFits
    <3>2. UsageAfter(writer[w], n) = q.usage
      BY <2>2 DEF UsageAfter
    <3> QED
      BY <1>1, <3>1, <3>2
  <2>3. CASE ~writer[w].same
    <3>1. held = 0 /\ q.reloaded
      BY <1>1, <1>8, <2>3 DEF ReservedOf, WriteFits, Typed
    <3>2. UsageAfter(writer[w], n) = q.usage + bill /\ bill \in Nat
      BY <1>1, <1>3, <2>3 DEF UsageAfter
    <3> QED
      BY <1>1, <3>1, <3>2
  <2> QED
    BY <1>3, <2>1, <2>2, <2>3
<1>13. /\ q' \in [mode: Mode \cup {"none"}, cycle: Cycle, usage: Nat, reloaded: BOOLEAN]
       /\ q'.usage = UsageAfter(writer[w], n)
       /\ q'.mode = q.mode /\ q'.cycle = q.cycle /\ q'.reloaded = q.reloaded
  BY <1>1, <1>12 DEF Settle, Typed
<1>14. bill \in Nat
  BY <1>3
<1> HIDE DEF bill
<1>15. Typed'
  BY <1>1, <1>2, <1>4, <1>13 DEF Typed
<1>16. CacheFits(cache)'
  BY <1>2, <1>13 DEF QInv, CacheFits, OldMode
<1>17. \A x \in Writer : WriteFits(writer[x])'
  <2> SUFFICES ASSUME NEW x \in Writer
               PROVE  WriteFits(writer[x])'
    OBVIOUS
  <2>1. WriteFits(writer'[x])
    BY <1>6, <1>7 DEF QInv
  <2> QED
    BY <1>2, <1>13, <2>1 DEF WriteFits, OldMode
<1>18. FlightFits'
  BY <1>2 DEF QInv, FlightFits
<1>19. QFits'
  <2>1. ReservedBy(writer') <= q'.usage
    <3>1. PICK a, b, u, v : a = ReservedBy(writer') /\ b = ReservedBy(writer)
                            /\ u = q.usage /\ v = UsageAfter(writer[w], n)
      OBVIOUS
    <3>2. b <= u
      BY <3>1 DEF QInv, QFits
    <3>3. a \in Nat /\ b \in Nat /\ u \in Nat /\ v \in Nat /\ held \in Nat /\ bill \in Nat
          /\ a + held = b /\ v + held = u + bill
      BY <1>1, <1>9, <1>10, <1>12, <1>14, <3>1
    <3>4. a <= v
      BY ONLY <3>2, <3>3
    <3> QED
      BY <1>13, <3>1, <3>4
  <2>2. ~q'.reloaded => q'.usage <= Quota /\ slipped' = 0
    <3>1. ~q'.reloaded => q.usage <= Quota /\ slipped = 0 /\ q'.usage <= q.usage
      BY <1>12, <1>13 DEF QInv, QFits
    <3>2. q'.usage \in Nat /\ q.usage \in Nat /\ Quota \in Nat
      BY <1>1, <1>12, <1>13, QuotaAssumption
    <3> QED
      BY <1>2, <3>1, <3>2
  <2> QED
    BY <1>2, <1>3, <1>13, <2>1, <2>2 DEF QInv, QFits, OldMode
<1>20. Exact'
  <2> SUFFICES ASSUME ~q.reloaded \/ (saves <= 1 /\ q.mode = mode), q.cycle = cycle
               PROVE  q'.usage + slipped = TrafficOf(logs, flight, bytes, writer', cycle, q.mode) + ReservedBy(writer')
    BY <1>2, <1>13 DEF Exact
  <2>1. UnmeteredBy(writer', q.mode) = UnmeteredBy(writer, q.mode) + bill
    BY <1>11
  <2>2. /\ LogSum(logs, cycle, q.mode) \in Nat /\ Billable(q.mode, flight.bytes) \in Nat
        /\ Billable(q.mode, bytes) \in Nat /\ UnmeteredBy(writer, q.mode) \in Nat
    BY <1>1, SumsTyped
  <2>3. TrafficOf(logs, flight, bytes, writer', cycle, q.mode) = TrafficOf(logs, flight, bytes, writer, cycle, q.mode) + bill
        /\ TrafficOf(logs, flight, bytes, writer, cycle, q.mode) \in Nat
    BY <1>14, <2>1, <2>2 DEF TrafficOf
  <2>4. q.usage + slipped = TrafficOf(logs, flight, bytes, writer, cycle, q.mode) + ReservedBy(writer)
    BY <1>3 DEF QInv, Exact
  <2>5. PICK a, b, u, v, t, s : /\ a = ReservedBy(writer') /\ b = ReservedBy(writer)
                                /\ u = q.usage /\ v = UsageAfter(writer[w], n)
                                /\ t = TrafficOf(logs, flight, bytes, writer, cycle, q.mode)
                                /\ s = slipped
    OBVIOUS
  <2>6. a \in Nat /\ b \in Nat /\ u \in Nat /\ v \in Nat /\ t \in Nat /\ s \in Nat
        /\ held \in Nat /\ bill \in Nat
        /\ a + held = b /\ v + held = u + bill /\ u + s = t + b
    BY <1>1, <1>9, <1>10, <1>12, <1>14, <2>3, <2>4, <2>5
  <2>7. v + s = t + bill + a
    BY ONLY <2>6
  <2> QED
    BY <1>13, <2>3, <2>5, <2>7
<1> QED
  BY <1>15, <1>16, <1>17, <1>18, <1>19, <1>20 DEF QInv

LEMMA NothingUnmetered ==
  ASSUME NEW ws, NEW m, \A x \in Writer : UnmeteredOf(ws[x], m) = 0
  PROVE  UnmeteredBy(ws, m) = 0
<1> DEFINE f == [x \in Writer |-> UnmeteredOf(ws[x], m)]
<1>1. \A x \in Writer : f[x] = 0
  OBVIOUS
<1>2. DOMAIN f = Writer /\ UnmeteredBy(ws, m) = SumFunction(f)
  BY DEF UnmeteredBy
<1> HIDE DEF f
<1> QED
  BY <1>1, <1>2, WriterAssumption, SumOfZeros, SumOverDomain

LEMMA ReloadKeeps ==
  ASSUME QInv, NEW w \in Writer, Reload(w)
  PROVE  QInv'
<1> DEFINE r == writer[w]
           cur == CurrentUsage(r.fresh, r.cycle)
           outdated == [x \in Writer |-> [writer[x] EXCEPT !.same = FALSE]]
           g == GrantOf(r, cur)
<1>1. /\ Typed /\ r \in Write /\ WriteFits(r) /\ r.at = "reloading" /\ ~flight.on
      /\ r.mode \in Mode /\ r.fresh \in Mode /\ r.cycle \in Cycle /\ r.cycle <= cycle
      /\ writer \in [Writer -> Write] /\ w \in Writer /\ cycle \in Cycle
  BY ModesAre DEF Reload, Reloading, Unlocked, QInv, Typed
<1>2. /\ UNCHANGED <<mode, cycle, logs, bytes, flight, saves, faults>>
      /\ cache' = Reloaded(r.fresh, r.cycle)
      /\ slipped' = UnmeteredBy(writer, r.mode)
  BY SumsAre DEF Reload
<1>3. saves = 0 => r.fresh = mode
  BY <1>1 DEF WriteFits, OldMode, Mode
<1>4. /\ CacheFits(cache') /\ cache'.mode = r.fresh /\ cache'.cycle = r.cycle
      /\ cache'.usage \in Nat
  BY <1>1, <1>2, <1>3, ReloadFits
<1>5. cur = cache'.usage + Billable(r.fresh, bytes) /\ Billable(r.fresh, bytes) \in Nat
      /\ cur \in Nat
  BY <1>1, <1>2, <1>4, SumsTyped DEF CurrentUsage
<1>6. writer' = [outdated EXCEPT ![w] = g]
  <2>1. writer' = Granted(outdated, w, cur)
    BY DEF Reload
  <2> HIDE DEF outdated, cur
  <2> QED
    BY <2>1, GrantIs
<1>7. q' = [mode |-> r.mode, cycle |-> r.cycle, usage |-> Charge(cur, r), reloaded |-> q.mode # "none"]
  BY DEF Reload
<1>8. \A x \in Writer : /\ outdated[x] \in Write /\ outdated[x].same = FALSE
                        /\ outdated[x].at = writer[x].at /\ outdated[x].dir = writer[x].dir
                        /\ outdated[x].mode = writer[x].mode /\ outdated[x].fresh = writer[x].fresh
                        /\ outdated[x].cycle = writer[x].cycle
                        /\ outdated[x].actual = writer[x].actual
  BY <1>1 DEF Write
<1>9. DOMAIN outdated = Writer
  OBVIOUS
<1> HIDE DEF cur, outdated
<1>10. /\ g \in Write /\ g.at \in {"idle", "writing"} /\ ReservedOf(g) \in Nat
       /\ Charge(cur, r) = cur + ReservedOf(g)
       /\ cur <= Quota => Charge(cur, r) <= Quota
       /\ \A m : UnmeteredOf(g, m) = 0
  BY <1>1, <1>5, GrantTyped
<1>11. /\ q' \in [mode: Mode \cup {"none"}, cycle: Cycle, usage: Nat, reloaded: BOOLEAN]
       /\ q'.usage = cur + ReservedOf(g) /\ q'.mode = r.mode /\ q'.cycle = r.cycle
       /\ q'.reloaded = (q.mode # "none")
  BY <1>1, <1>5, <1>7, <1>10
<1>12. r.mode # "none"
  BY <1>1 DEF Mode
<1>13. /\ g.at = "writing" => g.same = TRUE /\ (g.charged <=> Bills(r.mode, g.dir))
       /\ g.mode = "none" /\ g.fresh = "none" /\ g.cycle = 0
  <2>1. g.at = "writing" => g.charged = ~Uncharged(r) /\ g.same = TRUE /\ g.dir = r.dir
    BY NoWriteIs DEF GrantOf, Write
  <2>2. g.at = "writing" => (g.charged <=> Bills(r.mode, g.dir))
    BY <1>1, <2>1 DEF Bills, Uncharged, Write, Direction
  <2> QED
    BY <2>1, <2>2, NoWriteIs DEF GrantOf, Write
<1> HIDE DEF g, r
<1>14. /\ \A x \in Writer : writer'[x] \in Write
       /\ writer'[w] = g /\ writer' \in [Writer -> Write]
       /\ \A x \in Writer \ {w} : writer'[x] = outdated[x]
  BY <1>1, <1>6, <1>8, <1>9, <1>10
<1>15. ReservedBy(writer') = ReservedOf(g)
  <2>1. \A x \in Writer \ {w} : ReservedOf(writer'[x]) = 0
    BY <1>8, <1>14 DEF ReservedOf
  <2>2. ReservedBy(writer') = ReservedOf(writer'[w])
    BY ONLY <1>1, <1>14, <2>1, ReservedAlone
  <2> QED
    BY <1>14, <2>2
<1>16. ASSUME NEW m
       PROVE  UnmeteredBy(writer', m) = UnmeteredBy(writer, m)
  <2>1. UnmeteredOf(writer[w], m) = 0 /\ UnmeteredOf(writer'[w], m) = 0
    BY <1>1, <1>10, <1>14 DEF UnmeteredOf, r
  <2>2. \A x \in Writer \ {w} : UnmeteredOf(writer'[x], m) = UnmeteredOf(writer[x], m)
    BY <1>8, <1>14 DEF UnmeteredOf
  <2>3. \A x \in Writer : UnmeteredOf(writer'[x], m) = UnmeteredOf(writer[x], m)
    BY <2>1, <2>2
  <2> QED
    BY <2>3 DEF UnmeteredBy
<1>17. q.mode = "none" => cur = 0 /\ slipped' = 0
  <2> SUFFICES ASSUME q.mode = "none"
               PROVE  cur = 0 /\ slipped' = 0
    OBVIOUS
  <2>1. bytes = NoBytes /\ cache'.usage = 0
    BY <1>4 DEF QInv, QFits, CacheFits
  <2>2. Billable(r.fresh, bytes) = 0
    BY <2>1, BillableOfNone
  <2>3. \A x \in Writer : UnmeteredOf(writer[x], r.mode) = 0
    BY DEF QInv, WriteFits, UnmeteredOf
  <2>4. UnmeteredBy(writer, r.mode) = 0
    BY <2>3, NothingUnmetered
  <2> QED
    BY <1>2, <1>5, <2>1, <2>2, <2>4
<1>18. slipped' \in Nat
  BY <1>1, <1>2, SumsTyped
<1>19. Typed'
  BY <1>1, <1>2, <1>11, <1>14, <1>18 DEF Typed
<1>20. CacheFits(cache)'
  BY <1>1, <1>2, <1>4, <1>11, <1>12 DEF CacheFits, OldMode
<1>21. \A x \in Writer : WriteFits(writer[x])'
  <2> SUFFICES ASSUME NEW x \in Writer
               PROVE  WriteFits(writer[x])'
    OBVIOUS
  <2>1. CASE x = w
    <3>1. cycle \in Nat
      BY <1>1, NatsAre
    <3> QED
      BY <1>2, <1>10, <1>11, <1>12, <1>13, <1>14, <2>1, <3>1 DEF WriteFits, OldMode
  <2>2. CASE x # w
    <3>1. WriteFits(writer[x])
      BY DEF QInv
    <3>2. writer'[x] = outdated[x]
      BY <1>14, <2>2
    <3>3. ~q'.reloaded => writer[x].at # "writing"
      BY <1>11, <3>1 DEF WriteFits
    <3> QED
      BY <1>2, <1>8, <1>11, <1>12, <3>1, <3>2, <3>3 DEF WriteFits, OldMode
  <2> QED
    BY <2>1, <2>2
<1>22. FlightFits'
  BY <1>2 DEF QInv, FlightFits
<1>23. QFits'
  <2>1. ReservedBy(writer') <= q'.usage
    BY <1>5, <1>10, <1>11, <1>15
  <2>2. ~q'.reloaded => q'.usage <= Quota /\ slipped' = 0
    BY <1>10, <1>11, <1>17, QuotaAssumption
  <2>3. saves = 0 => OldMode(r.mode)
    BY <1>1 DEF WriteFits
  <2> QED
    BY <1>1, <1>2, <1>11, <1>12, <2>1, <2>2, <2>3 DEF QFits, OldMode
<1>24. Exact'
  <2> SUFFICES ASSUME ~q'.reloaded \/ (saves <= 1 /\ r.mode = mode), r.cycle = cycle
               PROVE  q'.usage + slipped' = TrafficOf(logs, flight, bytes, writer', cycle, r.mode) + ReservedBy(writer')
    BY <1>2, <1>11 DEF Exact
  <2>1. flight.bytes = NoBytes
    BY <1>1 DEF QInv, FlightFits, NoFlight
  <2>2. Billable(r.mode, flight.bytes) = 0
    BY <2>1, BillableOfNone
  <2>3. /\ LogSum(logs, cycle, r.mode) \in Nat /\ Billable(r.mode, bytes) \in Nat
        /\ UnmeteredBy(writer, r.mode) \in Nat
    BY <1>1, SumsTyped
  <2>4. TrafficOf(logs, flight, bytes, writer', cycle, r.mode)
          = LogSum(logs, cycle, r.mode) + Billable(r.mode, bytes) + UnmeteredBy(writer, r.mode)
    BY <1>16, <2>2, <2>3 DEF TrafficOf
  <2>5. cur = LogSum(logs, cycle, r.mode) + Billable(r.mode, bytes)
    <3>1. CASE ~q'.reloaded
      <4>1. q.mode = "none" /\ cur = 0
        BY <1>11, <1>17, <3>1
      <4>2. LogSum(logs, cycle, r.mode) = 0 /\ Billable(r.mode, bytes) = 0
        BY <1>1, <4>1, LogSumOfNone, BillableOfNone DEF QInv, QFits, Typed
      <4> QED
        BY <4>1, <4>2
    <3>2. CASE saves <= 1 /\ r.mode = mode
      <4>1. r.fresh = mode
        BY <1>1, <3>2 DEF WriteFits
      <4>2. cache'.usage = LogSum(logs, cycle, mode)
        BY <1>4, <3>2, <4>1 DEF CacheFits
      <4> QED
        BY <1>5, <3>2, <4>1, <4>2
    <3> QED
      BY <3>1, <3>2
  <2> QED
    BY <1>2, <1>5, <1>10, <1>11, <1>15, <2>3, <2>4, <2>5
<1> QED
  BY <1>19, <1>20, <1>21, <1>22, <1>23, <1>24 DEF QInv

-----------------------------------------------------------------------------
(* Every step keeps the invariant.                                         *)
LEMMA InitFits == Init => QInv
<1> SUFFICES ASSUME Init
             PROVE  QInv
  OBVIOUS
<1>1. 0 \in Cycle /\ 0 \in Nat /\ 0 \in 0..MaxSave /\ 0 \in 0..MaxFault /\ Quota \in Nat
  BY CyclesAre, QuotaAssumption
<1>2. NoBytes \in Bytes
  BY DEF NoBytes, Bytes
<1>3. flight = NoFlight /\ flight.cycle = 0 /\ ~flight.on /\ flight.bytes = NoBytes
      /\ flight \in [on: BOOLEAN, bytes: Bytes, cycle: Cycle]
  BY <1>1, <1>2 DEF Init, NoFlight
<1>4. q.mode = "none" /\ q.cycle = 0 /\ q.usage = 0 /\ ~q.reloaded
      /\ q \in [mode: Mode \cup {"none"}, cycle: Cycle, usage: Nat, reloaded: BOOLEAN]
  BY <1>1 DEF Init, FreshQ
<1>5. cache.mode = "none" /\ cache.cycle = 0 /\ cache.usage = 0
      /\ cache \in [mode: Mode \cup {"none"}, cycle: Cycle, usage: Nat]
  BY <1>1 DEF Init, NoCache
<1>6. writer \in [Writer -> Write] /\ \A w \in Writer : writer[w] = NoWrite
  BY NoWriteIs DEF Init
<1>7. logs \in Logs /\ \A c \in Cycle : logs[c] = NoBytes
  BY <1>2 DEF Init, Logs
<1>8. /\ mode \in Mode /\ mode # "none" /\ cycle = 0 /\ bytes = NoBytes
      /\ slipped = 0 /\ saves = 0 /\ faults = 0
  BY DEF Init, Mode
<1>9. Typed
  BY <1>1, <1>2, <1>3, <1>4, <1>6, <1>7, <1>8 DEF Typed
<1>10. CacheFits(cache)
  BY <1>3, <1>5, <1>8 DEF CacheFits, OldMode
<1>11. \A w \in Writer : WriteFits(writer[w])
  BY <1>6, <1>8, NoWriteIs DEF WriteFits, OldMode
<1>12. FlightFits
  BY <1>3, <1>8 DEF FlightFits
<1>13. ReservedBy(writer) = 0
  <2> DEFINE f == [x \in Writer |-> ReservedOf(writer[x])]
  <2>1. \A x \in Writer : f[x] = 0
    BY <1>6, NoWriteIs DEF ReservedOf
  <2>2. DOMAIN f = Writer /\ ReservedBy(writer) = SumFunction(f)
    BY DEF ReservedBy
  <2> HIDE DEF f
  <2> QED
    BY <2>1, <2>2, WriterAssumption, SumOfZeros, SumOverDomain
<1>14. QFits
  BY <1>1, <1>3, <1>4, <1>7, <1>8, <1>13 DEF QFits, OldMode
<1>15. Exact
  BY <1>4, <1>8 DEF Exact
<1> QED
  BY <1>9, <1>10, <1>11, <1>12, <1>14, <1>15 DEF QInv

LEMMA NextKeeps == QInv /\ [Next]_vars => QInv'
<1> SUFFICES ASSUME QInv, [Next]_vars
             PROVE  QInv'
  OBVIOUS
<1>1. CASE UNCHANGED vars
  BY <1>1 DEF vars, QInv, Typed, CacheFits, WriteFits, FlightFits, QFits, Exact, OldMode
<1>2. ASSUME NEW w \in Writer,
             \/ Arrive(w) \/ Gate(w) \/ EnterReload(w) \/ Reload(w)
             \/ ReloadFails(w) \/ Reserve(w) \/ Meter(w)
      PROVE  QInv'
  BY <1>2, ArriveKeeps, GateKeeps, EnterReloadKeeps, ReloadKeeps, ReloadFailsKeeps, ReserveKeeps, MeterKeeps
<1>3. ASSUME NEW w \in Writer, NEW d \in Direction, NEW n \in Size, ReadSettings(w, d, n)
      PROVE  QInv'
  BY <1>3, ReadSettingsKeeps
<1>4. ASSUME NEW w \in Writer, NEW n \in 0..MaxBytes, Settle(w, n)
      PROVE  QInv'
  BY <1>4, SettleKeeps
<1>5. CASE FlushSwap \/ FlushCommit \/ FlushFail \/ SaveMode \/ NextCycle
  BY <1>5, FlushSwapKeeps, FlushCommitKeeps, FlushFailKeeps, SaveModeKeeps, NextCycleKeeps
<1> QED
  BY <1>1, <1>2, <1>3, <1>4, <1>5 DEF Next

LEMMA InvariantHolds == Spec => []QInv
<1> QED
  BY InitFits, NextKeeps, PTL DEF Spec

(***************************************************************************)
(* The states of the quota state, the cache, the requests and the flush    *)
(* stay among those their handlers expect, the usage never negative.       *)
(***************************************************************************)
THEOREM TypeCorrect == Spec => []TypeOK
<1>1. QInv => TypeOK
  BY DEF QInv, Typed, CacheFits, TypeOK, Bytes, Logs, Write
<1> QED
  BY <1>1, InvariantHolds, PTL

(***************************************************************************)
(* trafficQuotaState: until the billing mode is changed back, the usage a  *)
(* reservation is checked against is the billable traffic of the running   *)
(* cycle plus what is granted, up to the bytes between settle and meter    *)
(* when it was reloaded.                                                   *)
(***************************************************************************)
THEOREM UsageIsAlwaysExact == Spec => []UsageIsExact
<1>1. QInv => UsageIsExact
  <2> SUFFICES ASSUME QInv, ~(saves > 1), q.mode = mode, q.cycle = cycle
               PROVE  q.usage + slipped = Traffic + Reserved
    BY DEF UsageIsExact, SwitchedBack, Current
  <2>1. saves <= 1 /\ mode # "none"
    BY NatsAre DEF QInv, Typed, Mode
  <2>2. Traffic = TrafficOf(logs, flight, bytes, writer, cycle, mode) /\ Reserved = ReservedBy(writer)
    BY SumsAre DEF Traffic, TrafficOf
  <2> QED
    BY <2>1, <2>2 DEF QInv, Exact
<1> QED
  BY <1>1, InvariantHolds, PTL

(***************************************************************************)
(* reserve and settle: concurrent writers never deliver more than the      *)
(* quota between them while neither the mode nor the cycle changes.        *)
(***************************************************************************)
THEOREM QuotaIsHeld == Spec => []QuotaHeld
<1>1. QInv => QuotaHeld
  <2> SUFFICES ASSUME QInv, q.mode = mode, q.cycle = cycle, ~q.reloaded
               PROVE  Traffic <= Quota
    BY DEF QuotaHeld, Current
  <2>1. mode # "none" /\ cycle \in Cycle
    BY DEF QInv, Typed, Mode
  <2>2. Traffic = TrafficOf(logs, flight, bytes, writer, cycle, mode)
    BY SumsAre DEF Traffic, TrafficOf
  <2>3. q.usage + slipped = Traffic + ReservedBy(writer)
    BY <2>1, <2>2 DEF QInv, Exact
  <2>4. q.usage <= Quota /\ slipped = 0
    BY DEF QInv, QFits
  <2>5. Traffic \in Nat /\ ReservedBy(writer) \in Nat /\ q.usage \in Nat /\ Quota \in Nat
    BY <2>1, <2>2, SumsTyped, QuotaAssumption DEF QInv, TrafficOf
  <2> QED
    BY <2>3, <2>4, <2>5
<1> QED
  BY <1>1, InvariantHolds, PTL

(***************************************************************************)
(* currentTrafficCycleUsage and the flush: until the billing mode is       *)
(* changed back, a usage cache of the mode and cycle in force is what a    *)
(* query of the logs would return.                                         *)
(***************************************************************************)
THEOREM CacheIsTheLogs == Spec => []CacheMatchesLogs
<1>1. QInv => CacheMatchesLogs
  <2> SUFFICES ASSUME QInv, ~(saves > 1), cache.mode = mode, cache.cycle = cycle
               PROVE  cache.usage = SumSince(cycle, mode)
    BY DEF CacheMatchesLogs, SwitchedBack, CacheCurrent
  <2>1. saves <= 1
    BY NatsAre DEF QInv, Typed
  <2> QED
    BY <2>1, SumsAre DEF QInv, CacheFits
<1> QED
  BY <1>1, InvariantHolds, PTL

-----------------------------------------------------------------------------
(* The failover of the lines.                                              *)

\* Both facts are needed of every state: the lemma on the preferred line only
\* makes sense where the memory is well formed.
FailoverInv == FailoverTypeOK /\ PreferredIsHealthy

\* The lines are numbers, the primary one of them, and None is none of them.
LEMMA LinesFacts == Primary \in Target /\ None \notin Target /\ Target \subseteq Nat
BY LinesAssumption DEF Primary, Target, None

\* A deadline one tick later is still within its bound (the clock).
LEMMA LessInRange ==
  ASSUME NEW m \in Nat, NEW n \in 0..m
  PROVE  Less(n) \in 0..m /\ (n = 0 => Less(n) = 0)
BY DEF Less

\* What is preferred after the expiry check is still a line or None (ordered,
\* preferredTarget).
LEMMA LiveInRange ==
  ASSUME FailoverTypeOK
  PROVE  Live \in Target \union {None} /\ (Live = None \/ Live = preferred)
BY DEF FailoverTypeOK, Live

\* A failure marks the line and takes its preference away (markFailure).
LEMMA MarkFailureKeeps ==
  ASSUME FailoverInv, NEW t \in Target, MarkFailure(t)
  PROVE  /\ preferred' \in Target \union {None}
         /\ preferredLeft' \in 0..PreferredLifetime
         /\ cooling' \in [Target -> 0..Cooldown]
         /\ probeLeft' \in 0..Cooldown
         /\ PreferredIsHealthy'
BY LinesFacts, TimesAssumption DEF FailoverInv, FailoverTypeOK, MarkFailure, PreferredIsHealthy

\* A success lifts the cooldown of the line it prefers (markSuccess).
LEMMA MarkSuccessKeeps ==
  ASSUME FailoverInv, NEW t \in Target, MarkSuccess(t)
  PROVE  /\ preferred' \in Target \union {None}
         /\ preferredLeft' \in 0..PreferredLifetime
         /\ cooling' \in [Target -> 0..Cooldown]
         /\ probeLeft' \in 0..Cooldown
         /\ PreferredIsHealthy'
BY LinesFacts, TimesAssumption DEF FailoverInv, FailoverTypeOK, MarkSuccess, PreferredIsHealthy

\* An answer that teaches nothing leaves the memory as it was.
LEMMA NoMarkKeeps ==
  ASSUME FailoverInv, NoMark
  PROVE  /\ preferred' \in Target \union {None}
         /\ preferredLeft' \in 0..PreferredLifetime
         /\ cooling' \in [Target -> 0..Cooldown]
         /\ probeLeft' \in 0..Cooldown
         /\ PreferredIsHealthy'
BY DEF FailoverInv, FailoverTypeOK, NoMark, PreferredIsHealthy

\* The classes of a plan are the three of ordered.
LEMMA ClassesInRange == [t \in Target |-> Class(t)] \in [Target -> 0..2]
<1>1. ASSUME NEW t \in Target PROVE Class(t) \in 0..2
  BY DEF Class
<1> QED BY <1>1

LEMMA NoClassInRange == NoClass \in [Target -> 0..2]
BY DEF NoClass

\* A request that begins, ends or moves on keeps its record well formed.
LEMMA StartKeeps ==
  ASSUME FailoverTypeOK, NEW r \in Request, NEW kind \in Kind, NEW class \in [Target -> 0..2],
         NEW t \in Target, Start(r, kind, class, t)
  PROVE  request' \in [Request -> RequestRecord]
<1> DEFINE phase == IF t # Primary /\ kind = "unclonable" THEN "refused" ELSE "sending"
           rec == [phase |-> phase, kind |-> kind, class |-> class,
                   tried |-> {}, at |-> t]
<1>1. phase \in Phase BY DEF Phase
<1>3. rec \in RequestRecord BY <1>1 DEF RequestRecord
<1>4. request' = [request EXCEPT ![r] = rec] BY DEF Start
<1> QED BY <1>3, <1>4 DEF FailoverTypeOK

LEMMA FinishKeeps ==
  ASSUME FailoverTypeOK, NEW r \in Request, NEW phase \in Phase, Finish(r, phase)
  PROVE  request' \in [Request -> RequestRecord]
<1> DEFINE rec == [phase |-> phase, kind |-> request[r].kind, class |-> NoClass,
                   tried |-> Used(r), at |-> request[r].at]
<1>1. request[r] \in RequestRecord BY DEF FailoverTypeOK
<1>2. Used(r) \in SUBSET Target BY <1>1 DEF RequestRecord, Used
<1>3. rec \in RequestRecord
  BY <1>1, <1>2, NoClassInRange, TimesAssumption DEF RequestRecord
<1>4. request' = [request EXCEPT ![r] = rec] BY DEF Finish
<1> QED BY <1>3, <1>4 DEF FailoverTypeOK

LEMMA MoveKeeps ==
  ASSUME FailoverTypeOK, NEW r \in Request, NEW t \in Target,
         MoveOn(r, t)
  PROVE  request' \in [Request -> RequestRecord]
<1> DEFINE rec == [phase |-> "sending", kind |-> request[r].kind, class |-> request[r].class,
                   tried |-> Used(r), at |-> t]
<1>1. request[r] \in RequestRecord BY DEF FailoverTypeOK
<1>2. Used(r) \in SUBSET Target BY <1>1 DEF RequestRecord, Used
<1>3. rec \in RequestRecord BY <1>1, <1>2, TimesAssumption DEF RequestRecord, Phase
<1>4. request' = [request EXCEPT ![r] = rec] BY DEF MoveOn
<1> QED BY <1>3, <1>4 DEF FailoverTypeOK

\* A new transport remembers nothing (newUpstreamFailoverState).
LEMMA FailoverInitHolds == FailoverInit => FailoverInv
<1> SUFFICES ASSUME FailoverInit PROVE FailoverInv OBVIOUS
<1>1. Fresh \in RequestRecord
  BY LinesFacts, NoClassInRange, TimesAssumption DEF Fresh, RequestRecord, Phase, Kind
<1> QED BY <1>1, TimesAssumption DEF FailoverInit, FailoverInv, FailoverTypeOK, PreferredIsHealthy

\* Every step keeps the memory well formed and the preferred line healthy.
LEMMA FailoverStepHolds == FailoverInv /\ [FailoverNext]_failoverVars => FailoverInv'
<1> SUFFICES ASSUME FailoverInv, [FailoverNext]_failoverVars PROVE FailoverInv' OBVIOUS
<1> USE DEF FailoverInv
<1>1. ASSUME NEW r \in Request, NEW kind \in Kind, BeginEligible(r, kind) PROVE FailoverInv'
  <2>1. PICK t \in Target : Start(r, kind, [u \in Target |-> Class(u)], t)
    BY <1>1 DEF BeginEligible
  <2>2. request' \in [Request -> RequestRecord] BY <2>1, StartKeeps, ClassesInRange
  <2>3. probeLeft' \in 0..Cooldown
    BY <1>1, TimesAssumption DEF BeginEligible, FailoverTypeOK
  <2> QED BY <1>1, <2>2, <2>3, LiveInRange DEF BeginEligible, FailoverTypeOK, PreferredIsHealthy
<1>2. ASSUME NEW r \in Request, BeginWrite(r) PROVE FailoverInv'
  <2> DEFINE line == IF Live # None /\ cooling[Live] = 0 THEN Live ELSE Primary
  <2>1. Start(r, "write", NoClass, line) BY <1>2 DEF BeginWrite
  <2>2. line \in Target BY LiveInRange, LinesFacts
  <2>3. "write" \in Kind BY DEF Kind
  <2> HIDE DEF line
  <2>4. request' \in [Request -> RequestRecord]
    BY <2>1, <2>2, <2>3, StartKeeps, NoClassInRange
  <2>5. preferredLeft' \in 0..PreferredLifetime
    BY <1>2, TimesAssumption DEF BeginWrite, FailoverTypeOK
  <2> QED BY <1>2, <2>4, <2>5, LiveInRange DEF BeginWrite, FailoverTypeOK, PreferredIsHealthy
<1>3. ASSUME NEW r \in Request, Answer(r) PROVE FailoverInv'
  <2>1. request[r].at \in Target BY DEF FailoverTypeOK, RequestRecord
  <2>2. \A p \in {"answered", "cancelled", "failed", "refused"} : p \in Phase
    BY DEF Phase
  <2>3. CASE Succeed(r)
    <3>1. request' \in [Request -> RequestRecord] BY <2>2, <2>3, FinishKeeps DEF Succeed
    <3> QED BY <2>1, <2>3, <3>1, MarkSuccessKeeps, NoMarkKeeps DEF Succeed, FailoverTypeOK
  <2>4. CASE AnswerOther(r)
    <3>1. request' \in [Request -> RequestRecord] BY <2>2, <2>4, FinishKeeps DEF AnswerOther
    <3> QED BY <2>4, <3>1, NoMarkKeeps DEF AnswerOther, FailoverTypeOK
  <2>5. CASE Cancel(r)
    <3>1. request' \in [Request -> RequestRecord] BY <2>2, <2>5, FinishKeeps DEF Cancel
    <3> QED BY <2>5, <3>1, NoMarkKeeps DEF Cancel, FailoverTypeOK
  <2>6. CASE FailOver(r)
    <3>1. PICK t \in Untried(r) :
            IF request[r].kind = "unclonable" THEN Finish(r, "refused") ELSE MoveOn(r, t)
      BY <2>6 DEF FailOver
    <3>2. t \in Target BY DEF Untried
    <3>3. request' \in [Request -> RequestRecord]
      BY <2>2, <3>1, <3>2, FinishKeeps, MoveKeeps
    <3> QED BY <2>1, <2>6, <3>3, MarkFailureKeeps DEF FailOver, FailoverTypeOK
  <2>7. CASE Fail(r)
    <3>1. request' \in [Request -> RequestRecord] BY <2>2, <2>7, FinishKeeps DEF Fail
    <3> QED BY <2>1, <2>7, <3>1, MarkFailureKeeps, NoMarkKeeps DEF Fail, FailoverTypeOK
  <2> QED BY <1>3, <2>3, <2>4, <2>5, <2>6, <2>7 DEF Answer
<1>4. ASSUME Tick PROVE FailoverInv'
  <2>1. \A t \in Target : Less(cooling[t]) \in 0..Cooldown /\ (cooling[t] = 0 => Less(cooling[t]) = 0)
    BY LessInRange, TimesAssumption DEF FailoverTypeOK
  <2>2. Less(preferredLeft) \in 0..PreferredLifetime /\ Less(probeLeft) \in 0..Cooldown
    BY LessInRange, TimesAssumption DEF FailoverTypeOK
  <2>4. request' \in [Request -> RequestRecord] BY <1>4 DEF Tick, FailoverTypeOK
  <2>5. cooling' \in [Target -> 0..Cooldown] BY <1>4, <2>1 DEF Tick
  <2>6. PreferredIsHealthy' BY <1>4, <2>1, LinesFacts DEF Tick, PreferredIsHealthy, FailoverTypeOK
  <2> QED BY <1>4, <2>2, <2>4, <2>5, <2>6 DEF Tick, FailoverTypeOK
<1>5. CASE UNCHANGED failoverVars
  BY <1>5 DEF failoverVars, FailoverTypeOK, PreferredIsHealthy
<1> QED BY <1>1, <1>2, <1>3, <1>4, <1>5 DEF FailoverNext

\* For every number of lines and requests and every cooldown, the preferred
\* line is never one that is cooling, in whatever order answers come back: the
\* check preferredTarget and ordered make of it is never the one that decides.
THEOREM PreferredLineIsHealthy == FailoverSpec => []PreferredIsHealthy
<1>1. FailoverInv => PreferredIsHealthy BY DEF FailoverInv
<1> QED BY FailoverInitHolds, FailoverStepHolds, <1>1, PTL DEF FailoverSpec

-----------------------------------------------------------------------------
(* A failure is reported only when every line had its chance.                *)

\* What is true of the record of one request: the part about requests that are
\* under way is what makes the rest inductive.
Sound(rec) ==
  /\ rec.phase = "sending" => rec.at \notin rec.tried
  /\ rec.phase = "sending" /\ rec.kind # "replayable" => rec.tried = {}
  /\ rec.phase = "failed" /\ Eligible(rec.kind) => rec.tried = Target
  /\ rec.kind # "replayable" => rec.tried = {} \/ \E t \in Target : rec.tried = {t}

PlanInv == \A r \in Request : Sound(request[r])

LEMMA PlanInvImplies == PlanInv => FailureIsExhaustive
<1> SUFFICES ASSUME PlanInv, NEW r \in Request
             PROVE  /\ request[r].phase = "failed" /\ Eligible(request[r].kind) => request[r].tried = Target
                    /\ request[r].kind # "replayable" => Cardinality(request[r].tried) <= 1
                    /\ Sending(r) => request[r].at \notin request[r].tried
  BY DEF FailureIsExhaustive
<1>1. Sound(request[r]) BY DEF PlanInv
<1>2. ASSUME request[r].kind # "replayable" PROVE Cardinality(request[r].tried) <= 1
  <2>1. CASE request[r].tried = {} BY <2>1, FS_EmptySet
  <2>2. ASSUME NEW t \in Target, request[r].tried = {t} PROVE Cardinality(request[r].tried) <= 1
    <3>1. Cardinality(request[r].tried) = 1 BY <2>2, FS_Singleton, Zenon
    <3> QED BY <3>1
  <2> QED BY <1>1, <1>2, <2>1, <2>2 DEF Sound
<1> QED BY <1>1, <1>2 DEF Sound, Sending

\* A step that replaces the record of one request by a sound one.
LEMMA OneRecord ==
  ASSUME FailoverTypeOK, PlanInv, NEW r \in Request, NEW rec, Sound(rec),
         request' = [request EXCEPT ![r] = rec]
  PROVE  PlanInv'
BY DEF PlanInv, FailoverTypeOK

LEMMA StartIsSound ==
  ASSUME FailoverTypeOK, PlanInv, NEW r \in Request, NEW kind, NEW class, NEW t,
         Start(r, kind, class, t)
  PROVE  PlanInv'
<1> DEFINE rec == [phase |-> IF t # Primary /\ kind = "unclonable" THEN "refused" ELSE "sending",
                   kind |-> kind, class |-> class, tried |-> {}, at |-> t]
<1>1. Sound(rec) BY DEF Sound
<1>2. request' = [request EXCEPT ![r] = rec] BY DEF Start
<1> QED BY <1>1, <1>2, OneRecord

\* A request ends soundly unless it fails with a line left to try.
LEMMA FinishIsSound ==
  ASSUME FailoverTypeOK, PlanInv, NEW r \in Request, NEW phase, Finish(r, phase), Sending(r),
         phase # "sending",
         phase = "failed" /\ Eligible(request[r].kind) => Untried(r) = {}
  PROVE  PlanInv'
<1> DEFINE rec == [phase |-> phase, kind |-> request[r].kind, class |-> NoClass,
                   tried |-> Used(r), at |-> request[r].at]
<1>1. request[r] \in RequestRecord /\ Sound(request[r]) BY DEF FailoverTypeOK, PlanInv
<1>2. request[r].at \in Target /\ Used(r) \subseteq Target BY <1>1 DEF RequestRecord, Used
<1>3. request[r].kind # "replayable" => Used(r) = {request[r].at}
  BY <1>1 DEF Sound, Used, Sending
<1>4. phase = "failed" /\ Eligible(request[r].kind) => Used(r) = Target
  BY <1>2 DEF Untried
<1>5. Sound(rec) BY <1>2, <1>3, <1>4 DEF Sound
<1>6. request' = [request EXCEPT ![r] = rec] BY DEF Finish
<1> HIDE DEF rec
<1> QED BY <1>5, <1>6, OneRecord

LEMMA MoveIsSound ==
  ASSUME FailoverTypeOK, PlanInv, NEW r \in Request, NEW t \in Untried(r), MoveOn(r, t),
         request[r].kind = "replayable"
  PROVE  PlanInv'
<1> DEFINE rec == [phase |-> "sending", kind |-> request[r].kind, class |-> request[r].class,
                   tried |-> Used(r), at |-> t]
<1>1. Sound(rec) BY DEF Sound, Untried
<1>2. request' = [request EXCEPT ![r] = rec] BY DEF MoveOn
<1> HIDE DEF rec
<1> QED BY <1>1, <1>2, OneRecord

LEMMA PlanInit == FailoverInit => PlanInv
BY DEF FailoverInit, PlanInv, Sound, Fresh, Eligible

LEMMA PlanStep == FailoverTypeOK /\ PlanInv /\ [FailoverNext]_failoverVars => PlanInv'
<1> SUFFICES ASSUME FailoverTypeOK, PlanInv, [FailoverNext]_failoverVars PROVE PlanInv' OBVIOUS
<1>1. ASSUME NEW r \in Request, NEW kind \in Kind, BeginEligible(r, kind) PROVE PlanInv'
  BY <1>1, StartIsSound DEF BeginEligible
<1>2. ASSUME NEW r \in Request, BeginWrite(r) PROVE PlanInv'
  BY <1>2, StartIsSound DEF BeginWrite
<1>3. ASSUME NEW r \in Request, Answer(r) PROVE PlanInv'
  <2>1. CASE Succeed(r) BY <2>1, FinishIsSound DEF Succeed
  <2>2. CASE AnswerOther(r) BY <2>2, FinishIsSound DEF AnswerOther
  <2>3. CASE Cancel(r) BY <2>3, FinishIsSound DEF Cancel
  <2>4. CASE FailOver(r)
    <3>1. request[r].kind \in {"replayable", "unclonable"}
      BY <2>4 DEF FailOver, FailoverTypeOK, RequestRecord, Kind, Eligible
    <3>2. CASE request[r].kind = "unclonable"
      BY <2>4, <3>2, FinishIsSound DEF FailOver
    <3>3. CASE request[r].kind = "replayable"
      BY <2>4, <3>3, MoveIsSound DEF FailOver
    <3> QED BY <3>1, <3>2, <3>3
  <2>5. CASE Fail(r) BY <2>5, FinishIsSound DEF Fail
  <2> QED BY <1>3, <2>1, <2>2, <2>3, <2>4, <2>5 DEF Answer
<1>4. ASSUME Tick PROVE PlanInv'
  BY <1>4 DEF Tick, PlanInv
<1>5. CASE UNCHANGED failoverVars BY <1>5 DEF failoverVars, PlanInv
<1> QED BY <1>1, <1>2, <1>3, <1>4, <1>5 DEF FailoverNext

\* For any number of lines and requests: a client is told of a failure only
\* after every line was tried, and what cannot be replayed reaches at most one
\* line, whatever other requests do to the memory in the meantime.
THEOREM EveryLineGetsItsChance == FailoverSpec => []FailureIsExhaustive
<1>1. FailoverTypeOK /\ PlanInv => FailureIsExhaustive BY PlanInvImplies
<1>2. FailoverInit => FailoverInv /\ PlanInv BY FailoverInitHolds, PlanInit
<1>3. FailoverInv /\ PlanInv /\ [FailoverNext]_failoverVars => FailoverInv' /\ PlanInv'
  BY FailoverStepHolds, PlanStep DEF FailoverInv
<1>4. FailoverInv /\ PlanInv => FailureIsExhaustive BY <1>1 DEF FailoverInv
<1> QED BY <1>2, <1>3, <1>4, PTL DEF FailoverSpec
=============================================================================
