------------------------------ MODULE PortsProofs ------------------------------
(***************************************************************************)
(* Facts about counters that wrap around and the bandwidth calculated of   *)
(* two values of one, for any width and ceiling.  The proofs about the     *)
(* poll loop and about the polls over SNMP rest on them.                   *)
(***************************************************************************)
EXTENDS Ports, TLAPS

LEMMA WidthType == Width \in Nat \ {0}
BY ModulusAssumption DEF Width

\* A burst shorter than a lap takes a counter around once at most.
LEMMA Around ==
  ASSUME NEW c \in 0..Width - 1, NEW n \in 1..Width - 1
  PROVE  /\ (c + n) % Width \in 0..Width - 1
         /\ (c + n) % Width = c + n \/ (c + n) % Width = c + n - Width
<1>1. PICK w \in Nat \ {0} : w = Width
  BY WidthType
<1>2. (c + n) % w \in 0..w - 1
  BY <1>1
<1>3. CASE c + n < w
  <2>1. (c + n) % w = c + n
    BY <1>1, <1>3
  <2>. QED
    BY <1>1, <1>2, <2>1
<1>4. CASE c + n >= w
  <2>1. PICK a \in Nat : a = c + n
    OBVIOUS
  <2>2. PICK q \in Int, r \in Nat : q = a \div w /\ r = a % w
    BY <2>1
  <2>3. r < w /\ a = w * q + r
    BY <2>1, <2>2
  <2>4. w <= a /\ a < 2 * w
    BY <1>1, <1>4, <2>1
  <2>5. q = 1
    BY <2>3, <2>4
  <2>6. r = a - w
    BY <2>3, <2>5
  <2>. QED
    BY <1>1, <1>2, <2>1, <2>2, <2>6
<1>. QED
  BY <1>1, <1>3, <1>4

LEMMA PassType ==
  ASSUME NEW p \in Port, NEW x \in Direction, NEW n \in 1..Width - 1
  PROVE  /\ Pass(p, x, n) \in Port /\ Pass(p, x, n).life = p.life
         /\ \A y \in Direction :
              /\ Pass(p, x, n).count[y] = IF y = x THEN (p.count[x] + n) % Width ELSE p.count[y]
              /\ Pass(p, x, n).passed[y] = IF y = x THEN p.passed[x] + n ELSE p.passed[y]
<1>1. /\ p.count \in [Direction -> 0..Width - 1] /\ p.passed \in [Direction -> Nat]
      /\ p.name \in Name /\ p.life \in Nat
      /\ p = [name |-> p.name, count |-> p.count, life |-> p.life, passed |-> p.passed]
  BY DEF Port
<1>2. (p.count[x] + n) % Width \in 0..Width - 1
  BY <1>1, Around
<1>3. PICK f \in [Direction -> 0..Width - 1] :
        f = [p.count EXCEPT ![x] = (p.count[x] + n) % Width]
  BY <1>1, <1>2
<1>4. PICK g \in [Direction -> Nat] : g = [p.passed EXCEPT ![x] = p.passed[x] + n]
  <2>1. p.passed[x] + n \in Nat
    BY <1>1, WidthType
  <2>. QED
    BY <1>1, <2>1
<1>5. Pass(p, x, n) = [p EXCEPT !.count = f, !.passed = g]
  BY <1>3, <1>4 DEF Pass
<1>6. /\ Pass(p, x, n) \in Port /\ Pass(p, x, n).life = p.life
      /\ Pass(p, x, n).count = f /\ Pass(p, x, n).passed = g
  BY <1>1, <1>5 DEF Port
<1>. QED
  BY <1>1, <1>3, <1>4, <1>6

\* What a port shows of one direction after some traffic, or none.
Continues(p, q) ==
  /\ q.life = p.life /\ q.name = p.name
  /\ \A x \in Direction :
       \/ q.passed[x] = p.passed[x] /\ q.count[x] = p.count[x]
       \/ \E n \in 1..Width - 1 :
            /\ q.passed[x] = p.passed[x] + n
            /\ q.count[x] = p.count[x] + n \/ q.count[x] = p.count[x] + n - Width

LEMMA PassContinues ==
  ASSUME NEW p \in Port, NEW x \in Direction, NEW n \in 1..Width - 1
  PROVE  Continues(p, Pass(p, x, n))
<1>1. /\ p.count[x] \in 0..Width - 1
      /\ Pass(p, x, n).life = p.life /\ Pass(p, x, n).name = p.name
  BY DEF Port, Pass
<1>2. SUFFICES ASSUME NEW y \in Direction
               PROVE  LET q == Pass(p, x, n)
                      IN  \/ q.passed[y] = p.passed[y] /\ q.count[y] = p.count[y]
                          \/ /\ q.passed[y] = p.passed[y] + n
                             /\ \/ q.count[y] = p.count[y] + n
                                \/ q.count[y] = p.count[y] + n - Width
  BY <1>1 DEF Continues
<1>3. CASE y = x
  BY <1>1, <1>3, PassType, Around
<1>4. CASE y # x
  BY <1>4, PassType
<1>. QED
  BY <1>3, <1>4

LEMMA FreshType ==
  ASSUME NEW name \in Name, NEW life \in Nat
  PROVE  /\ Fresh(name, life) \in Port /\ Fresh(name, life).life = life
         /\ \A x \in Direction : /\ Fresh(name, life).count[x] = 0
                                /\ Fresh(name, life).passed[x] = 0
BY WidthType DEF Fresh, Port

\* Follows, for one direction, in numbers; p and s are what passed, c and k the
\* counters.
Trails(w, p, c, s, k) ==
  /\ p <= s
  /\ k - c <= s - p
  /\ s - p < w => k - c = s - p \/ k - c = s - p - w

LEMMA TrailsOn ==
  ASSUME NEW w \in Nat \ {0}, NEW p \in Nat, NEW s \in Nat,
         NEW c \in 0..w - 1, NEW k \in 0..w - 1, NEW j \in 0..w - 1,
         NEW n \in 1..w - 1, j = k + n \/ j = k + n - w,
         Trails(w, p, c, s, k)
  PROVE  Trails(w, p, c, s + n, j)
BY DEF Trails

\* What the calculation returns of two counters that are in range.
LEMMA BandwidthCases ==
  ASSUME NEW p \in 0..Width - 1, NEW c \in 0..Width - 1, NEW t \in Int,
         CalculateBandwidth(p, c, t, CounterBits).valid
  PROVE  /\ t > 0
         /\ \/ /\ c >= p
               /\ CalculateBandwidth(p, c, t, CounterBits).octets = c - p
            \/ /\ c < p
               /\ CalculateBandwidth(p, c, t, CounterBits).octets = c - p + Width
               /\ CalculateBandwidth(p, c, t, CounterBits).wrapped
               /\ Plausible(c - p + Width, t)
<1>1. /\ Comparable(p, c, t, CounterBits) /\ ~IsReset(p, c, t, CounterBits)
      /\ CalculateBandwidth(p, c, t, CounterBits) =
           [valid |-> TRUE, wrapped |-> c < p,
            octets |-> IF c >= p THEN c - p ELSE WrappedDelta(p, c, CounterBits)]
  BY DEF CalculateBandwidth, Invalid
<1>2. WrappedDelta(p, c, CounterBits) = c - p + Width
  BY WidthType DEF WrappedDelta, Width
<1>3. PICK m : m = CalculateBandwidth(p, c, t, CounterBits)
  OBVIOUS
<1>4. t > 0 /\ (c < p => Plausible(c - p + Width, t))
  BY <1>1, <1>2 DEF Comparable, IsReset
<1>5. CASE c >= p
  <2>1. m.octets = c - p
    BY <1>1, <1>3, <1>5
  <2>. QED
    BY <1>3, <1>4, <1>5, <2>1
<1>6. CASE c < p
  <2>1. ~(c >= p)
    BY <1>6, WidthType
  <2>2. m.octets = c - p + Width
    BY <1>1, <1>2, <1>3, <1>6, <2>1
  <2>3. m.wrapped
    <3>1. (c < p) = TRUE
      BY <1>6
    <3>2. m = [valid |-> TRUE, wrapped |-> TRUE,
               octets |-> IF c >= p THEN c - p ELSE WrappedDelta(p, c, CounterBits)]
      BY Zenon, <1>1, <1>3, <3>1
    <3>. QED
      BY <3>2
  <2>. QED
    BY <1>3, <1>4, <1>6, <2>2, <2>3
<1>. QED
  BY <1>5, <1>6, WidthType
=============================================================================
