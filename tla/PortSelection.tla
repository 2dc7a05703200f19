---------------------------- MODULE PortSelection ----------------------------
(* ProxyServer::create_proxy_endpoint: the port on which the players of an  *)
(* allocation connect.  Ports and the size of their range are u16.         *)
EXTENDS Integers, FiniteSetsExt

CONSTANTS PortCount,    \* the number of values of a u16
          BindAttempts

ASSUME PortSelectionAssumption ==
    PortCount \in Nat \ {0} /\ BindAttempts \in Nat \ {0}

Ports == 0..(PortCount - 1)

PortsLen(first, last) == (last - first + 1) % PortCount

\* A build with overflow checks panics at last - first, or when it adds 1 to the
\* largest u16; every build panics at the remainder of a division by zero.
Panics(first, last, checks) ==
    PortsLen(first, last) = 0 \/ (checks /\ last < first)

\* Mutant: one port too many in the range.
PortPastRange(first, last, hash) ==
    (first + ((hash % PortCount) % (PortsLen(first, last) + 1))) % PortCount

\* Of the 64 bits of the hash, `as u16` keeps 16.
PortOf(first, last, hash) ==
    (first + ((hash % PortCount) % PortsLen(first, last))) % PortCount

\* Mutant: the hasher is not fed with the attempt.
FirstPortOnly(first, last, hash, free) ==
    {PortOf(first, last, hash[1])} \cap free

\* hash[i] is what the hasher, fed with the address and the project of the
\* Ambient server, yields after i attempts.  The port bound, if any.
CreateProxyEndpoint(first, last, hash, free) ==
    LET port == [i \in 1..BindAttempts |-> PortOf(first, last, hash[i])]
        possible == {i \in 1..BindAttempts : port[i] \in free}
    IN  IF possible = {} THEN {} ELSE {port[Min(possible)]}

-----------------------------------------------------------------------------
(* Properties.                                                             *)

ProperRange(first, last) == first <= last /\ last - first + 1 < PortCount

\* create_proxy_endpoint neither overflows nor divides by zero, the port that it
\* tries is one of the configured ones (its debug_assert), and each of these can
\* be the one: for every range that is not empty and not all the ports.
PortInRange(first, last) ==
    ProperRange(first, last) =>
        /\ \A checks \in BOOLEAN : ~Panics(first, last, checks)
        /\ {PortOf(first, last, hash) : hash \in Ports} = first..last

\* The ports of n allocations of one project at one address, none of which ends.
PortsTaken(first, last, hash, free, n) ==
    LET taken[i \in 0..n] ==
            IF i = 0 THEN {}
            ELSE taken[i - 1] \cup CreateProxyEndpoint(first, last, hash,
                                                       free \ taken[i - 1])
    IN  taken[n]

\* Servers of one project at one address all try the same ports.  Each gets one
\* of its own while one of these is free; more than BindAttempts servers never
\* have a port, however many ports the range has left.
ServersOfOneProject(first, last, hash, free) ==
    LET tried == {PortOf(first, last, hash[i]) : i \in 1..BindAttempts} \cap free
    IN  \A n \in 1..(BindAttempts + 1) :
            LET taken == PortsTaken(first, last, hash, free, n)
            IN  taken \subseteq tried /\ Cardinality(taken) = Min({n, Cardinality(tried)})
=============================================================================
