-------------------------------- MODULE Ports --------------------------------
(***************************************************************************)
(* The interfaces of a device as its SNMP agent shows them: counters that  *)
(* wrap around, under an if_index that a reboot or a change of the         *)
(* configuration may hand to another interface.                            *)
(***************************************************************************)
EXTENDS Bandwidth

CONSTANTS Index,  \* the values of if_index
          Name    \* interface names

Width == Modulus[CounterBits]

\* An interface of a device: its name and its counters and, for the properties
\* only, which life of the counters it is and what they really counted in it.
Port == [name : Name, count : [Direction -> 0..Width - 1],
         life : Nat, passed : [Direction -> Nat]]

Fresh(name, life) == [name |-> name, count |-> [x \in Direction |-> 0],
                      life |-> life, passed |-> [x \in Direction |-> 0]]

\* What a device may show: which if_index it uses, for which interface.
Tables == UNION {[S -> Name] : S \in SUBSET Index}

\* n octets pass in direction x; the counter wraps around.
Pass(port, x, n) ==
  [port EXCEPT !.count  = [port.count EXCEPT ![x] = (@ + n) % Width],
               !.passed = [port.passed EXCEPT ![x] = @ + n]]

\* After a reboot every counter starts at 0.
Rebooted(table, life) == [i \in DOMAIN table |-> Fresh(table[i], life)]

\* After a reconfiguration the interfaces that stay in place keep their counters.
Reconfigured(ports, table, life) ==
  [i \in DOMAIN table |-> IF i \in DOMAIN ports /\ ports[i].name = table[i]
                            THEN ports[i]
                            ELSE Fresh(table[i], life)]
=============================================================================
