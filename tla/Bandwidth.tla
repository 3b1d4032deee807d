------------------------------ MODULE Bandwidth ------------------------------
(***************************************************************************)
(* The calculation of bandwidth and utilization from two samples of the    *)
(* counters of a device: src/Code/collector/metrics/bandwidth.py and       *)
(* src/Code/collector/metrics/interface_metrics.py.                        *)
(*                                                                         *)
(* A rate is kept as the pair <<octets, elapsed>> it is the quotient of,   *)
(* and comparisons of quotients are multiplied out: integers stand for the *)
(* floats of the code.                                                     *)
(***************************************************************************)
EXTENDS Integers

CONSTANTS Modulus,       \* Modulus[b] = 2^b, for the counter widths supported
          CounterBits,   \* the width of the counters read
          MaxPlausible,  \* max_plausible_bps, in bits per unit of time
          Direction      \* "in" and "out"

ASSUME ModulusAssumption ==
  /\ CounterBits \in DOMAIN Modulus
  /\ \A b \in DOMAIN Modulus : Modulus[b] \in Nat \ {0}

ASSUME PlausibleAssumption == MaxPlausible \in Nat

Invalid == [valid |-> FALSE, wrapped |-> FALSE, octets |-> 0]

Plausible(octets, elapsed) == octets * 8 \leq MaxPlausible * elapsed

\* The inputs that are not refused out of hand.
Comparable(previous, current, elapsed, bits) ==
  /\ bits \in DOMAIN Modulus
  /\ elapsed > 0
  /\ previous \in 0..Modulus[bits] - 1
  /\ current \in 0..Modulus[bits] - 1

\* Slip: the largest value of the counter is taken for its modulus.
WrappedDeltaShort(previous, current, bits) == Modulus[bits] - 1 - previous + current

WrappedDelta(previous, current, bits) == Modulus[bits] - previous + current

\* Slip: a counter that went back always wrapped around.
IsResetNever(previous, current, elapsed, bits) == FALSE

\* A counter that went back either wrapped around or was reset; what it would
\* have counted in a wraparound tells which.
IsReset(previous, current, elapsed, bits) ==
  /\ current < previous
  /\ ~Plausible(WrappedDelta(previous, current, bits), elapsed)

CalculateBandwidth(previous, current, elapsed, bits) ==
  IF \/ ~Comparable(previous, current, elapsed, bits)
     \/ IsReset(previous, current, elapsed, bits)
    THEN Invalid
    ELSE [valid   |-> TRUE,
          wrapped |-> current < previous,
          octets  |-> IF current >= previous
                        THEN current - previous
                        ELSE WrappedDelta(previous, current, bits)]

\* The utilization is defined when the bandwidth is and the speed is known.
UtilizationValid(bandwidth, speed) == bandwidth.valid /\ speed > 0

-----------------------------------------------------------------------------
\* A sample of a device: whether it answered, when, and its interfaces, a
\* function of their if_index.

Elapsed(previous, current) == current.time - previous.time

\* The measurements of calculate_device_metrics: one for each direction of each
\* interface that both samples have, matched by if_index and named as of now.
Matched(previous, current) ==
  IF previous.reachable /\ current.reachable
    THEN DOMAIN previous.ifs \cap DOMAIN current.ifs
    ELSE {}

Measure(previous, current, i, x) ==
  CalculateBandwidth(previous.ifs[i].count[x], current.ifs[i].count[x],
                     Elapsed(previous, current), CounterBits)
=============================================================================
