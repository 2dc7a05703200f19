--------------------------- MODULE FunctionProofs ---------------------------
(***************************************************************************)
(* The pure parts of the program, for integers of any width, any files and   *)
(* links, and sequences of any length: ports stay in their range and servers  *)
(* of one project get different ones, assets are stored whole, headers,       *)
(* prefixes and messages are read as they were written, and keys lead to the  *)
(* files they were made from.  Recursive functions are reasoned about by the  *)
(* lemmas of Induction.                                                    *)
(***************************************************************************)
EXTENDS MCFunctions, SequenceTheorems, Induction

LEMMA SmallRemainder ==
    ASSUME NEW a \in Nat, NEW n \in Nat \ {0}, a < n
    PROVE  a % n = a
OBVIOUS

LEMMA RemainderBound ==
    ASSUME NEW a \in Nat, NEW n \in Nat \ {0}
    PROVE  a % n \in 0..(n - 1) /\ a % n <= a
OBVIOUS

(* A range that is neither empty nor all the ports has its length computed  *)
(* exactly.                                                                *)
LEMMA LengthExact ==
    ASSUME NEW first \in Ports, NEW last \in Ports, ProperRange(first, last)
    PROVE  /\ PortsLen(first, last) = last - first + 1
           /\ PortsLen(first, last) \in Nat \ {0}
<1>1. last - first + 1 \in Nat /\ last - first + 1 < PortCount
  BY PortSelectionAssumption DEF PortSelectionAssumption, ProperRange, Ports
<1> QED
  BY <1>1, SmallRemainder, PortSelectionAssumption
     DEF PortSelectionAssumption, PortsLen, ProperRange, Ports

(* create_proxy_endpoint (server.rs:361-365): for such a range there is no  *)
(* overflow and no division by zero, and the ports that can be tried are    *)
(* the ports of the range.                                                 *)
THEOREM PortChoice ==
    \A first, last \in Ports : PortInRange(first, last)
<1> SUFFICES ASSUME NEW first \in Ports, NEW last \in Ports, ProperRange(first, last)
             PROVE  /\ \A checks \in BOOLEAN : ~Panics(first, last, checks)
                    /\ {PortOf(first, last, hash) : hash \in Ports} = first..last
  BY DEF PortInRange
<1> DEFINE len == PortsLen(first, last)
<1>1. len = last - first + 1 /\ len \in Nat \ {0} /\ len < PortCount
  BY LengthExact DEF ProperRange
<1>2. \A checks \in BOOLEAN : ~Panics(first, last, checks)
  BY <1>1 DEF Panics, ProperRange, Ports
<1>3. \A hash \in Ports : hash % PortCount = hash
  BY SmallRemainder, PortSelectionAssumption DEF PortSelectionAssumption, Ports
<1>4. ASSUME NEW hash \in Ports
      PROVE  PortOf(first, last, hash) \in first..last
  <2>1. hash % len \in 0..(len - 1)
    BY <1>1, RemainderBound DEF Ports
  <2>2. first + (hash % len) \in first..last
    BY <1>1, <2>1 DEF Ports
  <2>3. (first + (hash % len)) % PortCount = first + (hash % len)
    BY <2>2, SmallRemainder, PortSelectionAssumption DEF PortSelectionAssumption, Ports
  <2> QED
    BY <1>3, <2>2, <2>3 DEF PortOf
<1>5. ASSUME NEW port \in first..last
      PROVE  \E hash \in Ports : port = PortOf(first, last, hash)
  <2>1. port - first \in Ports /\ port - first < len
    <3>1. first \in Nat /\ last \in Nat /\ PortCount \in Nat /\ last <= PortCount - 1
      BY PortSelectionAssumption DEF PortSelectionAssumption, Ports
    <3>2. port \in Int /\ first <= port /\ port <= last
      BY <3>1
    <3> HIDE DEF len
    <3> QED
      BY <1>1, <3>1, <3>2 DEF Ports
  <2>2. (port - first) % len = port - first
    BY <1>1, <2>1, SmallRemainder DEF Ports
  <2>3. (first + (port - first)) % PortCount = port
    BY SmallRemainder, PortSelectionAssumption DEF PortSelectionAssumption, Ports
  <2> QED
    BY <1>3, <2>1, <2>2, <2>3 DEF PortOf
<1> QED
  BY <1>2, <1>4, <1>5

(* StoreAsset (client.rs:69-96, server.rs:680-713): whatever the widths and *)
(* the limit, and although the announced length may wrap, an asset sent     *)
(* whole is stored whole just when its transfer is within the limit, and    *)
(* only a short one can be cut.                                            *)
THEOREM WholeAssets ==
    \A size \in Nat, zipped \in Nat :
        \A some \in 0..Transferred(size, zipped) : WholeOrNotAtAll(size, zipped, some)
<1> SUFFICES ASSUME NEW size \in Nat, NEW zipped \in Nat,
                    NEW some \in 0..Transferred(size, zipped)
             PROVE  WholeOrNotAtAll(size, zipped, some)
  OBVIOUS
<1> DEFINE all == Transferred(size, zipped)
<1> USE AssetTransferAssumption DEF AssetTransferAssumption
<1>1. all \in Nat /\ (~Compressed(size) => all = size)
  BY DEF Transferred
<1>2. all % LengthCount \in Nat /\ all % LengthCount <= all
  BY <1>1, RemainderBound
<1>3. all <= AssetSizeLimit => all % LengthCount = all
  BY <1>1, SmallRemainder
<1>4. ASSUME some = all
      PROVE  /\ (Stored(size, zipped, some) <=> all <= AssetSizeLimit)
             /\ StoredSize(size, some) = size
  <2>1. StoredSize(size, some) = size
    BY <1>1, <1>4 DEF StoredSize
  <2>2. CASE all <= AssetSizeLimit
    BY <1>1, <1>3, <1>4, <2>1, <2>2 DEF Stored, AnnouncedLength
  <2>3. CASE ~(all <= AssetSizeLimit)
    <3>1. ~(some <= AnnouncedLength(size, zipped)) \/ ~(AnnouncedLength(size, zipped) <= AssetSizeLimit)
      BY <1>1, <1>2, <1>4, <2>3 DEF AnnouncedLength
    <3> QED
      BY <2>1, <2>3, <3>1 DEF Stored
  <2> QED
    BY <2>2, <2>3
<1>5. ASSUME some < all, Stored(size, zipped, some)
      PROVE  size < MinCompression
  BY <1>1, <1>5 DEF Stored, Compressed
<1> QED
  BY <1>4, <1>5 DEF WholeOrNotAtAll

-----------------------------------------------------------------------------
(* The ports that i allocations take.                                      *)
IsTaken(f, first, last, hash, free, n) ==
    f = [i \in 0..n |->
            IF i = 0 THEN {}
            ELSE f[i - 1] \cup CreateProxyEndpoint(first, last, hash, free \ f[i - 1])]

Tried(first, last, hash, free) ==
    {PortOf(first, last, hash[i]) : i \in 1..BindAttempts} \cap free

LEMMA TakenIs ==
    ASSUME NEW first, NEW last, NEW hash, NEW free, NEW n \in Nat
    PROVE  \E f : /\ IsTaken(f, first, last, hash, free, n)
                  /\ PortsTaken(first, last, hash, free, n) = f[n]
<1> DEFINE V == SUBSET (UNION {CreateProxyEndpoint(first, last, hash, g) : g \in SUBSET free})
           step == [q \in Nat \X V |->
                      q[2] \cup CreateProxyEndpoint(first, last, hash, free \ q[2])]
<1>1. {} \in V
  OBVIOUS
<1>2. step \in [Nat \X V -> V]
  OBVIOUS
<1> HIDE DEF V
<1>3. PICK f \in [0..n -> V] : IsRecursion(f, n, {}, step)
  <2> HIDE DEF step
  <2> QED BY <1>1, <1>2, RecursiveFunction
<1>4. IsTaken(f, first, last, hash, free, n)
  <2>1. ASSUME NEW i \in 0..n, i # 0
        PROVE  step[i, f[i - 1]]
               = f[i - 1] \cup CreateProxyEndpoint(first, last, hash, free \ f[i - 1])
    <3>1. i \in Nat /\ i - 1 \in 0..n
      BY <2>1
    <3>2. <<i, f[i - 1]>> \in Nat \X V
      BY <3>1
    <3> QED BY <3>2
  <2> HIDE DEF step
  <2>2. f = [i \in 0..n |-> IF i = 0 THEN {} ELSE step[i, f[i - 1]]]
    BY <1>3 DEF IsRecursion
  <2>3. [i \in 0..n |-> IF i = 0 THEN {} ELSE step[i, f[i - 1]]]
        = [i \in 0..n |-> IF i = 0 THEN {} ELSE
              f[i - 1] \cup CreateProxyEndpoint(first, last, hash, free \ f[i - 1])]
    BY <2>1
  <2> QED BY <2>2, <2>3 DEF IsTaken
<1>5. IsTaken(CHOOSE g : IsTaken(g, first, last, hash, free, n), first, last, hash, free, n)
  BY <1>4
<1>6. PortsTaken(first, last, hash, free, n)
      = (CHOOSE g : IsTaken(g, first, last, hash, free, n))[n]
  BY DEF PortsTaken, IsTaken
<1> QED BY <1>5, <1>6

(* An attempt to bind takes a port that was tried and is free, if any is.   *)
LEMMA Bound ==
    ASSUME NEW first, NEW last, NEW hash, NEW free
    PROVE  \/ /\ Tried(first, last, hash, free) = {}
              /\ CreateProxyEndpoint(first, last, hash, free) = {}
           \/ \E port \in Tried(first, last, hash, free) :
                  CreateProxyEndpoint(first, last, hash, free) = {port}
<1> DEFINE port == [i \in 1..BindAttempts |-> PortOf(first, last, hash[i])]
           possible == {i \in 1..BindAttempts : port[i] \in free}
<1>1. CreateProxyEndpoint(first, last, hash, free)
      = IF possible = {} THEN {} ELSE {port[Min(possible)]}
  BY DEF CreateProxyEndpoint
<1>2. \A i \in 1..BindAttempts : port[i] = PortOf(first, last, hash[i])
  OBVIOUS
<1>3. possible \subseteq 1..BindAttempts /\ possible \subseteq Nat
  OBVIOUS
<1>4. Tried(first, last, hash, free) = {port[i] : i \in possible}
  BY <1>2 DEF Tried
<1>5. CASE possible = {}
  BY <1>1, <1>4, <1>5
<1>6. CASE possible # {}
  <2> HIDE DEF port, possible
  <2>1. \E n \in possible : \A m \in possible : n <= m
    BY <1>3, <1>6, MinimalNatural
  <2>2. Min(possible) \in possible
    BY <2>1 DEF Min
  <2> QED BY <1>1, <1>4, <1>6, <2>2
<1> QED BY <1>5, <1>6

(* create_proxy_endpoint (server.rs:358-387), called for one project at one  *)
(* address again and again: each call takes a port of its own among those  *)
(* tried, as long as there is one.                                         *)
THEOREM PortsOfServers ==
    ASSUME NEW first, NEW last, NEW hash, NEW free
    PROVE  ServersOfOneProject(first, last, hash, free)
<1> DEFINE tried == Tried(first, last, hash, free)
<1>1. BindAttempts \in Nat
  BY PortSelectionAssumption DEF PortSelectionAssumption
<1>2. IsFiniteSet(tried) /\ Cardinality(tried) \in Nat
  <2> DEFINE h == [i \in 1..BindAttempts |-> PortOf(first, last, hash[i])]
  <2>1. IsFiniteSet({h[i] : i \in 1..BindAttempts})
    <3>1. IsFiniteSet(1..BindAttempts)
      BY <1>1, FS_Interval
    <3> HIDE DEF h
    <3> QED BY <3>1, FiniteImage
  <2>2. tried \subseteq {h[i] : i \in 1..BindAttempts}
    BY DEF Tried
  <2> HIDE DEF h, tried
  <2> QED BY <2>1, <2>2, FS_Subset, FS_CardinalityType
<1> HIDE DEF tried
<1>3. ASSUME NEW n \in Nat
      PROVE  LET taken == PortsTaken(first, last, hash, free, n)
             IN  taken \subseteq tried /\ Cardinality(taken) = Min({n, Cardinality(tried)})
  <2>1. PICK f : /\ IsTaken(f, first, last, hash, free, n)
                 /\ PortsTaken(first, last, hash, free, n) = f[n]
    BY TakenIs
  <2>2. \A i \in 0..n : f[i] = IF i = 0 THEN {}
               ELSE f[i - 1] \cup CreateProxyEndpoint(first, last, hash, free \ f[i - 1])
    BY <2>1 DEF IsTaken
  <2> DEFINE Good(i) == /\ f[i] \subseteq tried
                        /\ Cardinality(f[i])
                           = IF i <= Cardinality(tried) THEN i ELSE Cardinality(tried)
             P(i) == i <= n => Good(i)
  <2>3. P(0)
    <3>1. f[0] = {}
      <4>1. 0 \in 0..n
        OBVIOUS
      <4> QED BY <2>2, <4>1
    <3> QED BY <1>2, <3>1, FS_EmptySet
  <2>4. ASSUME NEW i \in Nat, P(i) PROVE P(i + 1)
    <3> SUFFICES ASSUME i + 1 <= n PROVE Good(i + 1)
      OBVIOUS
    <3>1. i \in 0..n /\ i + 1 \in 0..n /\ i + 1 # 0 /\ (i + 1) - 1 = i
      OBVIOUS
    <3>2. f[i + 1] = f[i] \cup CreateProxyEndpoint(first, last, hash, free \ f[i])
      BY <2>2, <3>1
    <3>3. Good(i)
      BY <2>4, <3>1
    <3>4. IsFiniteSet(f[i]) /\ Cardinality(f[i]) <= Cardinality(tried)
      BY <1>2, <3>3, FS_Subset
    <3>5. Tried(first, last, hash, free \ f[i]) = tried \ f[i]
      BY DEF Tried, tried
    <3>6. CASE tried \ f[i] = {}
      <4>1. f[i] = tried /\ f[i + 1] = tried
        BY <3>2, <3>3, <3>5, <3>6, Bound
      <4> QED BY <1>2, <3>3, <4>1
    <3>7. CASE tried \ f[i] # {}
      <4>1. PICK port \in tried \ f[i] : f[i + 1] = f[i] \cup {port}
        BY <3>2, <3>5, <3>7, Bound
      <4>2. Cardinality(f[i + 1]) = Cardinality(f[i]) + 1
        BY <3>4, <4>1, FS_AddElement
      <4>3. f[i + 1] \subseteq tried
        BY <3>3, <4>1
      <4>4. Cardinality(f[i + 1]) <= Cardinality(tried)
        BY <1>2, <4>3, FS_Subset
      <4> QED BY <1>2, <3>3, <4>2, <4>3, <4>4
    <3> QED BY <3>6, <3>7
  <2>5. \A i \in Nat : P(i)
    <3> DEFINE T == {i \in Nat : P(i)}
    <3> HIDE DEF P
    <3>1. T \subseteq Nat /\ 0 \in T /\ \A i \in T : i + 1 \in T
      BY <2>3, <2>4
    <3> HIDE DEF T
    <3>2. T = Nat
      BY <3>1, AllNaturals
    <3> QED BY <3>2 DEF T
  <2>6. Good(n)
    BY <2>5 DEF P
  <2>7. Min({n, Cardinality(tried)})
        = IF n <= Cardinality(tried) THEN n ELSE Cardinality(tried)
    BY <1>2 DEF Min
  <2> QED BY <2>1, <2>6, <2>7
<1> QED
  BY <1>1, <1>3 DEF ServersOfOneProject, Tried, tried

-----------------------------------------------------------------------------
(* The bytes of a u32.                                                     *)
IsPower(f) == f = [i \in 0..CountBytes |-> IF i = 0 THEN 1 ELSE ByteCount * f[i - 1]]

IsShifted(f, n) ==
    f = [i \in 0..CountBytes |-> IF i = 0 THEN n ELSE f[i - 1] \div ByteCount]

IsRead(f, bytes) ==
    f = [i \in 0..CountBytes |-> IF i = 0 THEN 0 ELSE f[i - 1] * ByteCount + bytes[i]]

LEMMA WidthsTyped ==
    /\ ByteCount \in Nat /\ ByteCount > 1 /\ CountBytes \in Nat /\ CountBytes > 0
    /\ \A x \in Nat : x \div ByteCount \in Nat /\ x % ByteCount \in Byte
    /\ \A x \in Nat : x = (x \div ByteCount) * ByteCount + (x % ByteCount)
    /\ \A x \in Nat, y \in Nat : ByteCount * x \in Nat /\ x * ByteCount + y \in Nat
<1> USE FramingAssumption DEF FramingAssumption
<1>1. \A x \in Nat : x \div ByteCount \in Nat /\ x % ByteCount \in Byte
  BY DEF Byte
<1>2. \A x \in Nat : x = (x \div ByteCount) * ByteCount + (x % ByteCount)
  OBVIOUS
<1>3. \A x \in Nat, y \in Nat : ByteCount * x \in Nat /\ x * ByteCount + y \in Nat
  OBVIOUS
<1> QED BY <1>1, <1>2, <1>3

LEMMA PowerEquation ==
    ASSUME NEW f, IsPower(f)
    PROVE  f[0] = 1 /\ \A i \in 1..CountBytes : f[i] = ByteCount * f[i - 1]
<1>1. \A i \in 0..CountBytes : f[i] = IF i = 0 THEN 1 ELSE ByteCount * f[i - 1]
  BY DEF IsPower
<1>2. 0 \in 0..CountBytes /\ \A i \in 1..CountBytes : i \in 0..CountBytes /\ i # 0
  BY WidthsTyped
<1> QED BY <1>1, <1>2

LEMMA ShiftedEquation ==
    ASSUME NEW n, NEW f, IsShifted(f, n)
    PROVE  f[0] = n /\ \A i \in 1..CountBytes : f[i] = f[i - 1] \div ByteCount
<1>1. \A i \in 0..CountBytes : f[i] = IF i = 0 THEN n ELSE f[i - 1] \div ByteCount
  BY DEF IsShifted
<1>2. 0 \in 0..CountBytes /\ \A i \in 1..CountBytes : i \in 0..CountBytes /\ i # 0
  BY WidthsTyped
<1> QED BY <1>1, <1>2

LEMMA ReadEquation ==
    ASSUME NEW bytes, NEW f, IsRead(f, bytes)
    PROVE  f[0] = 0 /\ \A i \in 1..CountBytes : f[i] = f[i - 1] * ByteCount + bytes[i]
<1>1. \A i \in 0..CountBytes : f[i] = IF i = 0 THEN 0 ELSE f[i - 1] * ByteCount + bytes[i]
  BY DEF IsRead
<1>2. 0 \in 0..CountBytes /\ \A i \in 1..CountBytes : i \in 0..CountBytes /\ i # 0
  BY WidthsTyped
<1> QED BY <1>1, <1>2

LEMMA PowerIs ==
    \E f \in [0..CountBytes -> Nat] : IsPower(f) /\ CountValues = f[CountBytes]
<1> DEFINE step == [q \in Nat \X Nat |-> ByteCount * q[2]]
<1>1. step \in [Nat \X Nat -> Nat]
  BY WidthsTyped
<1>2. PICK f \in [0..CountBytes -> Nat] : IsRecursion(f, CountBytes, 1, step)
  <2> HIDE DEF step
  <2> QED BY <1>1, WidthsTyped, RecursiveFunction
<1>3. ASSUME NEW i \in 0..CountBytes, i # 0 PROVE step[i, f[i - 1]] = ByteCount * f[i - 1]
  <2>1. i \in Nat /\ i - 1 \in 0..CountBytes
    BY <1>3, WidthsTyped
  <2> QED BY <2>1
<1> HIDE DEF step
<1>4. IsPower(f)
  BY <1>2, <1>3 DEF IsRecursion, IsPower
<1> DEFINE g == CHOOSE h : IsPower(h)
<1>5. IsPower(g)
  BY <1>4
<1>6. CountValues = g[CountBytes]
  BY DEF CountValues, IsPower
<1> HIDE DEF g
<1>7. /\ g[0] \in Nat
      /\ \A i \in 1..CountBytes : g[i - 1] \in Nat => g[i] \in Nat
  <2>1. g[0] = 1 /\ \A i \in 1..CountBytes : g[i] = ByteCount * g[i - 1]
    BY <1>5, PowerEquation
  <2>2. 1 \in Nat
    OBVIOUS
  <2>3. ASSUME NEW i \in 1..CountBytes, g[i - 1] \in Nat PROVE g[i] \in Nat
    BY <2>1, <2>3, WidthsTyped
  <2> QED BY <2>1, <2>2, <2>3
<1>8. \A i \in 0..CountBytes : g[i] \in Nat
  BY <1>7, WidthsTyped, PassedOn
<1>9. g = [i \in 0..CountBytes |-> g[i]]
  BY <1>5 DEF IsPower
<1>10. g \in [0..CountBytes -> Nat]
  BY <1>8, <1>9
<1> QED BY <1>5, <1>6, <1>10

LEMMA ShiftedIs ==
    ASSUME NEW n \in Nat
    PROVE  \E f \in [0..CountBytes -> Nat] :
               /\ IsShifted(f, n)
               /\ PutU32(n) = [i \in 1..CountBytes |-> f[CountBytes - i] % ByteCount]
<1> DEFINE step == [q \in Nat \X Nat |-> q[2] \div ByteCount]
<1>1. step \in [Nat \X Nat -> Nat]
  BY WidthsTyped
<1>2. PICK f \in [0..CountBytes -> Nat] : IsRecursion(f, CountBytes, n, step)
  <2> HIDE DEF step
  <2> QED BY <1>1, WidthsTyped, RecursiveFunction
<1>3. ASSUME NEW i \in 0..CountBytes, i # 0 PROVE step[i, f[i - 1]] = f[i - 1] \div ByteCount
  <2>1. i \in Nat /\ i - 1 \in 0..CountBytes
    BY <1>3, WidthsTyped
  <2> QED BY <2>1
<1> HIDE DEF step
<1>4. IsShifted(f, n)
  BY <1>2, <1>3 DEF IsRecursion, IsShifted
<1> DEFINE g == CHOOSE h : IsShifted(h, n)
<1>5. IsShifted(g, n)
  BY <1>4
<1>6. PutU32(n) = [i \in 1..CountBytes |-> g[CountBytes - i] % ByteCount]
  BY DEF PutU32, IsShifted
<1> HIDE DEF g
<1>7. /\ g[0] \in Nat
      /\ \A i \in 1..CountBytes : g[i - 1] \in Nat => g[i] \in Nat
  <2>1. g[0] = n /\ \A i \in 1..CountBytes : g[i] = g[i - 1] \div ByteCount
    BY <1>5, ShiftedEquation
  <2>2. n \in Nat
    OBVIOUS
  <2>3. ASSUME NEW i \in 1..CountBytes, g[i - 1] \in Nat PROVE g[i] \in Nat
    BY <2>1, <2>3, WidthsTyped
  <2> QED BY <2>1, <2>2, <2>3
<1>8. \A i \in 0..CountBytes : g[i] \in Nat
  BY <1>7, WidthsTyped, PassedOn
<1>9. g = [i \in 0..CountBytes |-> g[i]]
  BY <1>5 DEF IsShifted
<1>10. g \in [0..CountBytes -> Nat]
  BY <1>8, <1>9
<1> QED BY <1>5, <1>6, <1>10

LEMMA ReadIs ==
    ASSUME NEW bytes, \A i \in 1..CountBytes : bytes[i] \in Byte
    PROVE  \E f \in [0..CountBytes -> Nat] :
               IsRead(f, bytes) /\ GetU32(bytes) = f[CountBytes]
<1> DEFINE step == [q \in Nat \X Nat |->
                     IF q[1] \in 1..CountBytes THEN q[2] * ByteCount + bytes[q[1]] ELSE 0]
<1>1. step \in [Nat \X Nat -> Nat]
  <2>1. \A i \in 1..CountBytes : bytes[i] \in Nat
    BY WidthsTyped DEF Byte
  <2> QED BY <2>1, WidthsTyped
<1>2. PICK f \in [0..CountBytes -> Nat] : IsRecursion(f, CountBytes, 0, step)
  <2> HIDE DEF step
  <2> QED BY <1>1, WidthsTyped, RecursiveFunction
<1>3. ASSUME NEW i \in 0..CountBytes, i # 0
      PROVE  step[i, f[i - 1]] = f[i - 1] * ByteCount + bytes[i]
  <2>1. i \in Nat /\ i - 1 \in 0..CountBytes /\ i \in 1..CountBytes
    BY <1>3, WidthsTyped
  <2> QED BY <2>1
<1> HIDE DEF step
<1>4. IsRead(f, bytes)
  BY <1>2, <1>3 DEF IsRecursion, IsRead
<1> DEFINE g == CHOOSE h : IsRead(h, bytes)
<1>5. IsRead(g, bytes)
  BY <1>4
<1>6. GetU32(bytes) = g[CountBytes]
  BY DEF GetU32, IsRead
<1> HIDE DEF g
<1>7. /\ g[0] \in Nat
      /\ \A i \in 1..CountBytes : g[i - 1] \in Nat => g[i] \in Nat
  <2>1. \A i \in 1..CountBytes : bytes[i] \in Nat
    BY WidthsTyped DEF Byte
  <2>2. g[0] = 0 /\ \A i \in 1..CountBytes : g[i] = g[i - 1] * ByteCount + bytes[i]
    BY <1>5, ReadEquation
  <2>3. 0 \in Nat
    OBVIOUS
  <2>4. ASSUME NEW i \in 1..CountBytes, g[i - 1] \in Nat PROVE g[i] \in Nat
    BY <2>1, <2>2, <2>4, WidthsTyped
  <2> QED BY <2>2, <2>3, <2>4
<1>8. \A i \in 0..CountBytes : g[i] \in Nat
  BY <1>7, WidthsTyped, PassedOn
<1>9. g = [i \in 0..CountBytes |-> g[i]]
  BY <1>5 DEF IsRead
<1>10. g \in [0..CountBytes -> Nat]
  BY <1>8, <1>9
<1> QED BY <1>5, <1>6, <1>10

LEMMA PutTyped ==
    ASSUME NEW n \in Nat
    PROVE  /\ PutU32(n) \in Seq(Byte) /\ Len(PutU32(n)) = CountBytes
           /\ PutU32(n) \in [1..CountBytes -> Byte]
<1>1. PICK f \in [0..CountBytes -> Nat] :
         PutU32(n) = [i \in 1..CountBytes |-> f[CountBytes - i] % ByteCount]
  BY ShiftedIs
<1>2. \A i \in 1..CountBytes : CountBytes - i \in 0..CountBytes
  BY WidthsTyped
<1>3. PutU32(n) \in [1..CountBytes -> Byte]
  BY <1>1, <1>2, WidthsTyped
<1>4. CountBytes \in Nat
  BY WidthsTyped
<1>5. PutU32(n) \in Seq(Byte)
  BY <1>3, <1>4, SMTT(30)
<1>6. DOMAIN PutU32(n) = 1..CountBytes /\ DOMAIN PutU32(n) = 1..Len(PutU32(n))
  BY <1>3, <1>5, LenProperties
<1>7. Len(PutU32(n)) = CountBytes
  BY <1>4, <1>5, <1>6, LenProperties
<1> QED BY <1>3, <1>5, <1>7

(* What is less than a power of ByteCount is, without its last byte, less    *)
(* than the power before.                                                  *)
LEMMA QuotientBound ==
    ASSUME NEW x \in Nat, NEW p \in Nat, x < ByteCount * p
    PROVE  x \div ByteCount < p
<1> DEFINE q == x \div ByteCount
<1>1. q \in Nat /\ q * ByteCount <= x
  <2>1. x = q * ByteCount + (x % ByteCount) /\ x % ByteCount \in Byte /\ q \in Nat
    BY WidthsTyped
  <2> HIDE DEF q
  <2>2. q * ByteCount \in Nat /\ x % ByteCount \in Nat
    BY <2>1, WidthsTyped DEF Byte
  <2> QED BY <2>1, <2>2
<1> HIDE DEF q
<1>2. ASSUME p <= q PROVE ByteCount * p <= q * ByteCount
  BY <1>1, <1>2, WidthsTyped
<1>3. ByteCount * p \in Nat /\ q * ByteCount \in Nat
  BY <1>1, WidthsTyped
<1>4. q < p
  BY <1>1, <1>2, <1>3
<1> QED BY <1>4 DEF q

(* A number that fits in a u32 is read as it was put.                      *)
LEMMA GetPut ==
    ASSUME NEW n \in Nat, n < CountValues, NEW bytes,
           \A i \in 1..CountBytes : bytes[i] = PutU32(n)[i]
    PROVE  GetU32(bytes) = n
<1>1. PICK p \in [0..CountBytes -> Nat] : IsPower(p) /\ CountValues = p[CountBytes]
  BY PowerIs
<1>2. PICK s \in [0..CountBytes -> Nat] :
         /\ IsShifted(s, n)
         /\ PutU32(n) = [i \in 1..CountBytes |-> s[CountBytes - i] % ByteCount]
  BY ShiftedIs
<1>3. \A i \in 1..CountBytes : bytes[i] = s[CountBytes - i] % ByteCount
  BY <1>2
<1>4. PICK r \in [0..CountBytes -> Nat] : IsRead(r, bytes) /\ GetU32(bytes) = r[CountBytes]
  BY PutTyped, ReadIs
<1>5. /\ p[0] = 1 /\ s[0] = n /\ r[0] = 0
      /\ \A i \in 1..CountBytes : /\ p[i] = ByteCount * p[i - 1]
                                  /\ s[i] = s[i - 1] \div ByteCount
                                  /\ r[i] = r[i - 1] * ByteCount + bytes[i]
  <2>1. p[0] = 1 /\ \A i \in 1..CountBytes : p[i] = ByteCount * p[i - 1]
    BY <1>1, PowerEquation
  <2>2. s[0] = n /\ \A i \in 1..CountBytes : s[i] = s[i - 1] \div ByteCount
    BY <1>2, ShiftedEquation
  <2>3. r[0] = 0 /\ \A i \in 1..CountBytes : r[i] = r[i - 1] * ByteCount + bytes[i]
    BY <1>4, ReadEquation
  <2> QED BY <2>1, <2>2, <2>3
<1>6. s[CountBytes] = 0
  <2> DEFINE T == {i \in Nat : i <= CountBytes => s[i] < p[CountBytes - i]}
  <2>1. 0 \in T
    BY <1>1, <1>5, WidthsTyped
  <2>2. ASSUME NEW i \in T PROVE i + 1 \in T
    <3> SUFFICES ASSUME i + 1 <= CountBytes PROVE s[i + 1] < p[CountBytes - (i + 1)]
      OBVIOUS
    <3>1. /\ i \in 0..CountBytes /\ i + 1 \in 1..CountBytes /\ (i + 1) - 1 = i
          /\ CountBytes - i \in 1..CountBytes
          /\ (CountBytes - i) - 1 = CountBytes - (i + 1)
          /\ CountBytes - (i + 1) \in 0..CountBytes
      BY WidthsTyped
    <3>2. s[i] < ByteCount * p[CountBytes - (i + 1)]
      BY <1>5, <3>1
    <3>3. s[i + 1] = s[i] \div ByteCount
      BY <1>5, <3>1
    <3> QED BY <3>1, <3>2, <3>3, QuotientBound
  <2>3. T \subseteq Nat
    OBVIOUS
  <2> HIDE DEF T
  <2>4. T = Nat
    BY <2>1, <2>2, <2>3, AllNaturals
  <2>5. CountBytes \in T /\ CountBytes - CountBytes = 0 /\ CountBytes \in 0..CountBytes
    BY <2>4, WidthsTyped
  <2> QED BY <1>5, <2>5 DEF T
<1>7. r[CountBytes] = s[0]
  <2> DEFINE T == {i \in Nat : i <= CountBytes => r[i] = s[CountBytes - i]}
  <2>1. 0 \in T
    BY <1>5, <1>6, WidthsTyped
  <2>2. ASSUME NEW i \in T PROVE i + 1 \in T
    <3> SUFFICES ASSUME i + 1 <= CountBytes PROVE r[i + 1] = s[CountBytes - (i + 1)]
      OBVIOUS
    <3>1. /\ i \in 0..CountBytes /\ i + 1 \in 1..CountBytes /\ (i + 1) - 1 = i
          /\ CountBytes - i \in 1..CountBytes
          /\ (CountBytes - i) - 1 = CountBytes - (i + 1)
          /\ CountBytes - (i + 1) \in 0..CountBytes
      BY WidthsTyped
    <3> DEFINE x == s[CountBytes - (i + 1)]
    <3>2. x \in Nat
      BY <3>1
    <3>3. s[CountBytes - i] = x \div ByteCount
      BY <1>5, <3>1
    <3>4. bytes[i + 1] = x % ByteCount
      BY <1>3, <3>1
    <3>5. r[i + 1] = r[i] * ByteCount + bytes[i + 1]
      BY <1>5, <3>1
    <3>6. r[i] = s[CountBytes - i]
      BY <3>1
    <3> HIDE DEF x, T
    <3>7. r[i + 1] = (x \div ByteCount) * ByteCount + (x % ByteCount)
      BY <3>3, <3>4, <3>5, <3>6
    <3>8. r[i + 1] = x
      BY <3>2, <3>7, WidthsTyped
    <3> QED BY <3>8 DEF x
  <2>3. T \subseteq Nat
    OBVIOUS
  <2> HIDE DEF T
  <2>4. T = Nat
    BY <2>1, <2>2, <2>3, AllNaturals
  <2>5. CountBytes \in T /\ CountBytes - CountBytes = 0
    BY <2>4, WidthsTyped
  <2> QED BY <2>5 DEF T
<1> QED BY <1>4, <1>5, <1>7

-----------------------------------------------------------------------------
(* Sequences cut in two.                                                   *)
LEMMA Cut ==
    ASSUME NEW R, NEW s \in Seq(R), NEW n \in 0..Len(s)
    PROVE  /\ SubSeq(s, 1, n) \in Seq(R) /\ Len(SubSeq(s, 1, n)) = n
           /\ \A i \in 1..n : SubSeq(s, 1, n)[i] = s[i]
           /\ Drop(s, n) \in Seq(R) /\ Len(Drop(s, n)) = Len(s) - n
           /\ SubSeq(s, 1, n) \o Drop(s, n) = s
<1>1. Len(s) \in Nat /\ n \in Nat /\ n <= Len(s) /\ \A i \in 1..Len(s) : s[i] \in R
  BY LenProperties, ElementOfSeq
<1>2. \A i \in 1..n : s[i] \in R
  BY <1>1
<1>3. \A i \in (n + 1)..Len(s) : s[i] \in R
  BY <1>1
<1>4. /\ SubSeq(s, 1, n) \in Seq(R) /\ Len(SubSeq(s, 1, n)) = n
      /\ \A i \in 1..n : SubSeq(s, 1, n)[i] = s[i]
  <2>1. /\ SubSeq(s, 1, n) \in Seq(R)
        /\ Len(SubSeq(s, 1, n)) = IF 1 <= n THEN n - 1 + 1 ELSE 0
    BY <1>1, <1>2, SubSeqProperties
  <2>2. \A i \in 1..n - 1 + 1 : SubSeq(s, 1, n)[i] = s[1 + i - 1]
    BY <1>1, <1>2, SubSeqProperties
  <2>3. \A k \in Nat : (IF 1 <= k THEN k - 1 + 1 ELSE 0) = k
    OBVIOUS
  <2>4. \A i \in 1..n : i \in 1..n - 1 + 1 /\ 1 + i - 1 = i
    BY <1>1
  <2>5. \A i \in 1..n : SubSeq(s, 1, n)[i] = s[i]
    BY <2>2, <2>4
  <2> QED BY <1>1, <2>1, <2>3, <2>5
<1>5. /\ Drop(s, n) \in Seq(R) /\ Len(Drop(s, n)) = Len(s) - n
  <2>1. /\ Drop(s, n) \in Seq(R)
        /\ Len(Drop(s, n)) = IF n + 1 <= Len(s) THEN Len(s) - (n + 1) + 1 ELSE 0
    BY <1>1, <1>3, SubSeqProperties DEF Drop
  <2>2. \A k \in Nat : n <= k => (IF n + 1 <= k THEN k - (n + 1) + 1 ELSE 0) = k - n
    BY <1>1
  <2> QED BY <1>1, <2>1, <2>2
<1>6. SubSeq(s, 1, n) \o SubSeq(s, n + 1, Len(s)) = SubSeq(s, 1, Len(s))
  <2>1. 1 \in 1..Len(s) + 1 /\ n \in 1 - 1..Len(s) /\ Len(s) \in n..Len(s)
    BY <1>1
  <2> QED BY <2>1, ConcatAdjacentSubSeq
<1>7. SubSeq(s, 1, Len(s)) = s
  BY SubSeqFull
<1> QED BY <1>4, <1>5, <1>6, <1>7 DEF Drop

LEMMA DropConcat ==
    ASSUME NEW R, NEW a \in Seq(R), NEW b \in Seq(R), NEW c \in Seq(R), NEW d \in Seq(R),
           a \o b = c \o d, Len(c) <= Len(a)
    PROVE  SubSeq(a, 1, Len(c)) = c /\ Drop(a, Len(c)) \o b = d
<1> DEFINE n == Len(c)
           p == SubSeq(a, 1, n)
           q == Drop(a, n)
<1>1. n \in 0..Len(a) /\ Len(a) \in Nat /\ Len(b) \in Nat /\ Len(d) \in Nat
  BY LenProperties
<1>2. /\ p \in Seq(R) /\ Len(p) = n /\ \A i \in 1..n : p[i] = a[i]
      /\ q \in Seq(R) /\ p \o q = a
  BY <1>1, Cut
<1> HIDE DEF p, q
<1>3. \A i \in 1..n : (a \o b)[i] = a[i] /\ (c \o d)[i] = c[i]
  <2>1. \A i \in 1..Len(a) + Len(b) :
           (a \o b)[i] = IF i <= Len(a) THEN a[i] ELSE b[i - Len(a)]
    BY ConcatProperties
  <2>2. \A i \in 1..Len(c) + Len(d) :
           (c \o d)[i] = IF i <= Len(c) THEN c[i] ELSE d[i - Len(c)]
    BY ConcatProperties
  <2>3. \A i \in 1..n : i \in 1..Len(a) + Len(b) /\ i \in 1..Len(c) + Len(d) /\ i <= Len(a)
    BY <1>1
  <2>4. \A i \in 1..n : i <= Len(c)
    BY <1>1
  <2> QED BY <2>1, <2>2, <2>3, <2>4
<1>4. p = c
  BY <1>2, <1>3, SeqEqual
<1>5. c \o (q \o b) = c \o d
  <2>1. q \in Seq(R)
    BY <1>2
  <2>2. (c \o q) \o b = c \o (q \o b)
    BY <2>1, ConcatAssociative
  <2> QED BY <1>2, <1>4, <2>2
<1>6. q \o b \in Seq(R)
  BY <1>2, ConcatProperties
<1>7. q \o b = d
  BY <1>5, <1>6, ConcatSimplifications
<1> QED BY <1>4, <1>7 DEF p, q

LEMMA CutConcat ==
    ASSUME NEW R, NEW s \in Seq(R), NEW t \in Seq(R)
    PROVE  SubSeq(s \o t, 1, Len(s)) = s /\ Drop(s \o t, Len(s)) = t
<1>1. /\ s \o t \in Seq(R) /\ Len(s \o t) = Len(s) + Len(t)
      /\ Len(s) \in Nat /\ Len(t) \in Nat /\ <<>> \in Seq(R)
  BY ConcatProperties, LenProperties, EmptySeq
<1>2. Len(s) <= Len(s \o t) /\ Len(s) \in 0..Len(s \o t)
  BY <1>1
<1>3. (s \o t) \o <<>> = s \o t
  BY <1>1, ConcatEmptySeq
<1>4. SubSeq(s \o t, 1, Len(s)) = s /\ Drop(s \o t, Len(s)) \o <<>> = t
  BY <1>1, <1>2, <1>3, DropConcat
<1>5. Drop(s \o t, Len(s)) \in Seq(R)
  BY <1>1, <1>2, Cut
<1> QED BY <1>4, <1>5, ConcatEmptySeq

LEMMA Middle ==
    ASSUME NEW R, NEW s \in Seq(R), NEW k \in Nat, NEW n \in Nat, k + n <= Len(s)
    PROVE  /\ SubSeq(s, k + 1, k + n) = SubSeq(Drop(s, k), 1, n)
           /\ Drop(s, k + n) = Drop(Drop(s, k), n)
<1>1. Len(s) \in Nat /\ k \in 0..Len(s) /\ k + n \in 0..Len(s)
  BY LenProperties
<1> DEFINE a == SubSeq(s, 1, k)
           d == Drop(s, k)
<1>2. a \in Seq(R) /\ d \in Seq(R) /\ Len(a) = k /\ Len(d) = Len(s) - k /\ a \o d = s
  BY <1>1, Cut
<1> HIDE DEF a, d
<1> DEFINE b == SubSeq(d, 1, n)
           e == Drop(d, n)
<1>3. n \in 0..Len(d)
  BY <1>1, <1>2
<1>4. b \in Seq(R) /\ e \in Seq(R) /\ Len(b) = n /\ b \o e = d
      /\ \A i \in 1..n : b[i] = d[i]
  BY <1>2, <1>3, Cut
<1> HIDE DEF b, e
<1>5. /\ (a \o b) \o e = s /\ a \o b \in Seq(R) /\ Len(a \o b) = k + n
      /\ \A i \in 1..k + n : (a \o b)[i] = IF i <= k THEN a[i] ELSE b[i - k]
  <2>0. a \in Seq(R) /\ b \in Seq(R) /\ e \in Seq(R)
    BY <1>2, <1>4
  <2>1. (a \o b) \o e = a \o (b \o e)
    BY <2>0, ConcatAssociative
  <2>2. /\ a \o b \in Seq(R) /\ Len(a \o b) = Len(a) + Len(b)
        /\ \A i \in 1..Len(a) + Len(b) :
              (a \o b)[i] = IF i <= Len(a) THEN a[i] ELSE b[i - Len(a)]
    BY <2>0, ConcatProperties
  <2> QED BY <1>2, <1>4, <2>1, <2>2
<1>6. Drop(s, k + n) = e
  BY <1>4, <1>5, CutConcat
<1>7. SubSeq(s, k + 1, k + n) = b
  <2>1. \A i \in k + 1..k + n : s[i] \in R
    BY <1>1, ElementOfSeq
  <2>2. /\ SubSeq(s, k + 1, k + n) \in Seq(R)
        /\ Len(SubSeq(s, k + 1, k + n)) = (IF k + 1 <= k + n THEN k + n - (k + 1) + 1 ELSE 0)
    BY <2>1, SubSeqProperties
  <2>3. \A i \in 1..k + n - (k + 1) + 1 :
            SubSeq(s, k + 1, k + n)[i] = s[(k + 1) + i - 1]
    BY <2>1, SubSeqProperties
  <2>4. Len(SubSeq(s, k + 1, k + n)) = n
    BY <2>2
  <2>5. ASSUME NEW i \in 1..n PROVE SubSeq(s, k + 1, k + n)[i] = b[i]
    <3>1. SubSeq(s, k + 1, k + n)[i] = s[k + i]
      <4>1. i \in 1..k + n - (k + 1) + 1 /\ (k + 1) + i - 1 = k + i
        OBVIOUS
      <4> QED BY <2>3, <4>1
    <3>2. s[k + i] = (a \o b)[k + i]
      <4>1. k + i \in 1..k + n /\ k + n \in 0..Len(s)
        BY <1>1
      <4>2. Len(a \o b) = k + n
        BY <1>5
      <4>3. SubSeq(s, 1, k + n) = a \o b
        BY <1>4, <1>5, <4>2, CutConcat
      <4>4. \A j \in 1..k + n : SubSeq(s, 1, k + n)[j] = s[j]
        BY <4>1, Cut
      <4> QED BY <4>1, <4>3, <4>4
    <3>3. (a \o b)[k + i] = b[i]
      <4>1. k + i \in 1..k + n /\ ~(k + i <= k) /\ (k + i) - k = i
        OBVIOUS
      <4> QED BY <1>5, <4>1
    <3> QED BY <3>1, <3>2, <3>3
  <2> QED BY <1>4, <2>2, <2>4, <2>5, SeqEqual
<1> QED BY <1>6, <1>7 DEF b, e, d

-----------------------------------------------------------------------------
(* A message with its length in front, at the start of a stream of which b   *)
(* has been read and w has not.                                            *)
LEMMA CountedTyped ==
    ASSUME NEW m \in Seq(Byte)
    PROVE  /\ Len(m) \in Nat /\ Counted(m) \in Seq(Byte)
           /\ Len(Counted(m)) = CountBytes + Len(m)
<1>1. Len(m) \in Nat
  BY LenProperties
<1>2. PutU32(Len(m)) \in Seq(Byte) /\ Len(PutU32(Len(m))) = CountBytes
  BY <1>1, PutTyped
<1> QED BY <1>1, <1>2, ConcatProperties DEF Counted

LEMMA BytesJoined ==
    /\ \A s, t \in Seq(Byte) : s \o t \in Seq(Byte) /\ Len(s \o t) = Len(s) + Len(t)
    /\ \A s, t, u \in Seq(Byte) : (s \o t) \o u = s \o (t \o u)
BY ConcatProperties, ConcatAssociative

LEMMA CountedThen ==
    ASSUME NEW m \in Seq(Byte), NEW rest \in Seq(Byte)
    PROVE  Counted(m) \o rest = PutU32(Len(m)) \o (m \o rest) /\ m \o rest \in Seq(Byte)
<1>1. PutU32(Len(m)) \in Seq(Byte)
  BY LenProperties, PutTyped
<1>2. (PutU32(Len(m)) \o m) \o rest = PutU32(Len(m)) \o (m \o rest)
  BY <1>1, ConcatAssociative
<1> QED BY <1>2, ConcatProperties DEF Counted

Starts(b, w, m, rest) ==
    /\ b \in Seq(Byte) /\ w \in Seq(Byte) /\ m \in Seq(Byte) /\ rest \in Seq(Byte)
    /\ Len(m) < CountValues /\ b \o w = Counted(m) \o rest

LEMMA FrameLength ==
    ASSUME NEW b, NEW w, NEW m, NEW rest, Starts(b, w, m, rest), CountBytes <= Len(b)
    PROVE  GetU32(b) = Len(m) /\ Drop(b, CountBytes) \o w = m \o rest
<1> DEFINE c == PutU32(Len(m))
<1>0. /\ b \in Seq(Byte) /\ w \in Seq(Byte) /\ m \in Seq(Byte) /\ rest \in Seq(Byte)
      /\ Len(m) < CountValues /\ b \o w = Counted(m) \o rest
  BY DEF Starts
<1>1. Len(m) \in Nat /\ c \in Seq(Byte) /\ Len(c) = CountBytes /\ CountBytes \in Nat
  BY <1>0, LenProperties, PutTyped, WidthsTyped
<1> HIDE DEF c
<1>2. Counted(m) \o rest = c \o (m \o rest) /\ m \o rest \in Seq(Byte)
  BY <1>0, CountedThen DEF c
<1>3. SubSeq(b, 1, CountBytes) = c /\ Drop(b, CountBytes) \o w = m \o rest
  BY <1>0, <1>1, <1>2, DropConcat
<1>4. CountBytes \in 0..Len(b)
  BY <1>0, <1>1, LenProperties
<1>5. \A i \in 1..CountBytes : b[i] = c[i]
  BY <1>0, <1>3, <1>4, Cut
<1>6. GetU32(b) = Len(m)
  BY <1>0, <1>1, <1>5, GetPut DEF c
<1> QED BY <1>3, <1>6

Behind(b, n) == SubSeq(b, CountBytes + 1, n)

LEMMA FrameIs ==
    ASSUME NEW b, NEW w, NEW m, NEW rest, Starts(b, w, m, rest),
           CountBytes + Len(m) <= Len(b)
    PROVE  /\ GetU32(b) = Len(m)
           /\ Behind(b, CountBytes + Len(m)) = m
           /\ Drop(b, CountBytes + Len(m)) \o w = rest
<1>0. /\ b \in Seq(Byte) /\ w \in Seq(Byte) /\ m \in Seq(Byte) /\ rest \in Seq(Byte)
  BY DEF Starts
<1>1. CountBytes \in Nat /\ Len(m) \in Nat /\ Len(b) \in Nat
  BY <1>0, LenProperties, WidthsTyped
<1>2. CountBytes <= Len(b) /\ CountBytes \in 0..Len(b)
  BY <1>1
<1>3. GetU32(b) = Len(m) /\ Drop(b, CountBytes) \o w = m \o rest
  BY <1>2, FrameLength
<1> DEFINE d == Drop(b, CountBytes)
<1>4. d \in Seq(Byte) /\ Len(d) = Len(b) - CountBytes
  BY <1>0, <1>2, Cut
<1>5. d \o w = m \o rest
  BY <1>3
<1> HIDE DEF d
<1>6. Len(m) <= Len(d)
  BY <1>1, <1>4
<1>7. SubSeq(d, 1, Len(m)) = m /\ Drop(d, Len(m)) \o w = rest
  BY <1>0, <1>4, <1>5, <1>6, DropConcat
<1>8. /\ SubSeq(b, CountBytes + 1, CountBytes + Len(m)) = SubSeq(d, 1, Len(m))
      /\ Drop(b, CountBytes + Len(m)) = Drop(d, Len(m))
  BY <1>0, <1>1, Middle DEF d
<1> QED BY <1>3, <1>7, <1>8 DEF Behind

(* write_framed and read_framed (streams.rs:60-78) agree for any header and  *)
(* whatever follows it, and what breaks off is refused.                    *)
THEOREM Headers ==
    ASSUME NEW header \in Seq(Byte), Len(header) < CountValues,
           NEW data \in Seq(Byte), NEW maxSize \in Nat
    PROVE  HeaderThenData(header, data, maxSize)
<1> DEFINE bytes == WriteFramed(header) \o data
           all == CountBytes + Len(header)
           none == <<>>
<1>1. /\ Len(header) \in Nat /\ Len(data) \in Nat /\ CountBytes \in Nat
      /\ Counted(header) \in Seq(Byte) /\ Len(Counted(header)) = all
      /\ none \in Seq(Byte)
  BY CountedTyped, LenProperties, WidthsTyped, EmptySeq
<1>2. bytes = Counted(header) \o data /\ bytes \in Seq(Byte) /\ Len(bytes) = all + Len(data)
  BY <1>1, ConcatProperties DEF WriteFramed
<1>3. bytes \o none = Counted(header) \o data
  BY <1>2, ConcatEmptySeq
<1>0. \A s \in Seq(Byte) : s \o none = s
  BY ConcatEmptySeq
<1> HIDE DEF bytes, none
<1>4. CountBytes <= Len(bytes) /\ all <= Len(bytes)
  BY <1>1, <1>2
<1>5. /\ GetU32(bytes) = Len(header)
      /\ SubSeq(bytes, CountBytes + 1, all) = header
      /\ Drop(bytes, all) \o none = data
  <2>1. Starts(bytes, none, header, data) /\ CountBytes + Len(header) <= Len(bytes)
    BY <1>1, <1>2, <1>3, <1>4 DEF Starts
  <2>2. /\ GetU32(bytes) = Len(header) /\ Behind(bytes, CountBytes + Len(header)) = header
        /\ Drop(bytes, CountBytes + Len(header)) \o none = data
    BY <2>1, FrameIs
  <2> QED BY <2>2 DEF Behind
<1>6. Drop(bytes, all) = data
  <2>1. all \in 0..Len(bytes)
    BY <1>1, <1>4
  <2>2. Drop(bytes, all) \in Seq(Byte)
    BY <1>2, <2>1, Cut
  <2> QED BY <1>0, <1>5, <2>2
<1>7. CASE Len(header) <= maxSize
  <2>1. ReadFramed(bytes, maxSize) = [ok |-> TRUE, header |-> header, rest |-> data]
    <3>1. ~(Len(bytes) < CountBytes) /\ ~(Len(header) > maxSize)
          /\ ~(Len(bytes) < CountBytes + Len(header))
      BY <1>1, <1>2, <1>7
    <3> QED BY <1>5, <1>6, <3>1 DEF ReadFramed
  <2>2. ASSUME NEW n \in 0..(CountBytes + Len(header) - 1)
        PROVE  ~ReadFramed(SubSeq(bytes, 1, n), maxSize).ok
    <3> DEFINE b == SubSeq(bytes, 1, n)
               w == Drop(bytes, n)
    <3>1. n \in 0..Len(bytes) /\ n < all
      BY <1>1, <1>2
    <3>2. b \in Seq(Byte) /\ Len(b) = n /\ w \in Seq(Byte) /\ b \o w = bytes
      BY <1>2, <3>1, Cut
    <3> HIDE DEF b, w
    <3>3. CASE n < CountBytes
      BY <1>1, <3>2, <3>3 DEF ReadFramed, b
    <3>4. CASE ~(n < CountBytes)
      <4>1. CountBytes <= Len(b)
        BY <1>1, <3>2, <3>4
      <4>2. Starts(b, w, header, data)
        BY <1>2, <3>2 DEF Starts
      <4>4. GetU32(b) = Len(header)
        BY <4>1, <4>2, FrameLength
      <4> QED BY <1>1, <3>1, <3>2, <4>4 DEF ReadFramed, b
    <3> QED BY <3>3, <3>4
  <2> QED BY <1>7, <2>1, <2>2 DEF HeaderThenData, bytes
<1>8. CASE ~(Len(header) <= maxSize)
  <2>1. ~ReadFramed(bytes, maxSize).ok
    BY <1>1, <1>5, <1>8 DEF ReadFramed
  <2> QED BY <1>8, <2>1 DEF HeaderThenData, bytes
<1> QED BY <1>7, <1>8

(* prefix and drop_prefix (bytes.rs:6-21) agree for any header and data.    *)
THEOREM Datagrams ==
    ASSUME NEW header \in Seq(Byte), Len(header) < CountValues, NEW data \in Seq(Byte)
    PROVE  DatagramIntact(header, data)
<1> DEFINE bytes == Prefix(header, data)
           rest == Drop(bytes, CountBytes)
           none == <<>>
<1>1. /\ Len(header) \in Nat /\ CountBytes \in Nat /\ Len(data) \in Nat
      /\ Counted(header) \in Seq(Byte) /\ Len(Counted(header)) = CountBytes + Len(header)
      /\ none \in Seq(Byte)
  BY CountedTyped, LenProperties, WidthsTyped, EmptySeq
<1>2. /\ bytes = Counted(header) \o data /\ bytes \in Seq(Byte)
      /\ Len(bytes) = CountBytes + Len(header) + Len(data)
  BY <1>1, ConcatProperties DEF Prefix
<1>3. bytes \o none = Counted(header) \o data
  BY <1>2, ConcatEmptySeq
<1>0. \A s \in Seq(Byte) : s \o none = s
  BY ConcatEmptySeq
<1> HIDE DEF bytes, none
<1>4. CountBytes <= Len(bytes) /\ CountBytes \in 0..Len(bytes)
  BY <1>1, <1>2
<1>5. GetU32(bytes) = Len(header) /\ rest \o none = header \o data
  <2>1. Starts(bytes, none, header, data) /\ CountBytes <= Len(bytes)
    BY <1>1, <1>2, <1>3, <1>4 DEF Starts
  <2> QED BY <2>1, FrameLength
<1>6. rest \in Seq(Byte)
  BY <1>2, <1>4, Cut
<1>7. rest = header \o data
  BY <1>0, <1>5, <1>6
<1> HIDE DEF rest
<1>8. SubSeq(rest, 1, Len(header)) = header /\ Drop(rest, Len(header)) = data
  BY <1>7, CutConcat
<1>9. DropPrefix(bytes) = [header |-> SubSeq(rest, 1, GetU32(bytes)),
                           data |-> Drop(rest, GetU32(bytes))]
  BY DEF DropPrefix, rest
<1> QED BY <1>5, <1>8, <1>9 DEF DatagramIntact, bytes

-----------------------------------------------------------------------------
(* The stream of messages.  What has been sent and not yet returned is, in   *)
(* front of nothing, one counted message after the other.                  *)
Message == {m \in Seq(Byte) : Len(m) <= MaxFrame}

Behindhand(f) ==
    /\ f \in [0..Len(sent) -> Seq(Byte)] /\ f[Len(sent)] = <<>>
    /\ \A i \in 1..Len(sent) : f[i - 1] = Counted(sent[i]) \o f[i]

StreamTyped ==
    /\ sent \in Seq(Message) /\ delivered \in Seq(Message)
    /\ wire \in Seq(Byte) /\ buffer \in Seq(Byte) /\ polled \in BOOLEAN

InOrder ==
    /\ Len(delivered) <= Len(sent)
    /\ \A i \in 1..Len(delivered) : delivered[i] = sent[i]

InTransit == \E f : Behindhand(f) /\ buffer \o wire = f[Len(delivered)]

StreamInv == StreamTyped /\ InOrder /\ InTransit

LEMMA MessageTyped ==
    /\ SeqOf(Byte, MaxFrame) \subseteq Message
    /\ \A m \in Message : m \in Seq(Byte) /\ Len(m) \in Nat /\ Len(m) < CountValues
                        /\ Counted(m) \in Seq(Byte) /\ Len(Counted(m)) = CountBytes + Len(m)
<1>1. MaxFrame \in Nat /\ MaxFrame < CountValues
  <2>1. PICK f \in [0..CountBytes -> Nat] : CountValues = f[CountBytes]
    BY PowerIs
  <2>2. CountValues \in Nat
    BY <2>1, WidthsTyped
  <2> QED BY <2>2, FramingAssumption DEF FramingAssumption
<1>2. ASSUME NEW m \in SeqOf(Byte, MaxFrame) PROVE m \in Message
  <2>1. PICK k \in 0..MaxFrame : m \in [1..k -> Byte]
    BY DEF SeqOf
  <2>2. m \in Seq(Byte) /\ k \in Nat
    BY <1>1, <2>1
  <2>3. DOMAIN m = 1..k /\ DOMAIN m = 1..Len(m) /\ Len(m) \in Nat
    BY <2>1, <2>2, LenProperties
  <2>4. Len(m) = k
    BY <2>2, <2>3
  <2> QED BY <1>1, <2>1, <2>2, <2>4 DEF Message
<1>3. ASSUME NEW m \in Message
      PROVE  m \in Seq(Byte) /\ Len(m) \in Nat /\ Len(m) < CountValues
  BY <1>1, LenProperties, PowerIs, WidthsTyped DEF Message
<1> QED BY <1>2, <1>3, CountedTyped

LEMMA InitStream == Init => StreamInv
<1> SUFFICES ASSUME Init PROVE StreamInv
  OBVIOUS
<1>1. /\ sent = <<>> /\ wire = <<>> /\ buffer = <<>> /\ delivered = <<>> /\ polled = FALSE
  BY DEF Init
<1>2. /\ <<>> \in Seq(Message) /\ <<>> \in Seq(Byte) /\ Len(<<>>) = 0
  BY EmptySeq
<1>3. StreamTyped /\ InOrder
  <2>1. StreamTyped
    BY <1>1, <1>2 DEF StreamTyped
  <2>2. Len(sent) = 0 /\ Len(delivered) = 0
    BY <1>1, <1>2
  <2>3. InOrder
    BY <2>2 DEF InOrder
  <2> QED BY <2>1, <2>3
<1>4. InTransit
  <2> DEFINE f == [i \in 0..0 |-> <<>>]
  <2>1. f \in [0..0 -> Seq(Byte)] /\ f[0] = <<>>
    BY <1>2
  <2>2. <<>> \o <<>> = <<>>
    BY <1>2, ConcatEmptySeq
  <2> HIDE DEF f
  <2>3. Behindhand(f)
    BY <1>1, <1>2, <2>1 DEF Behindhand
  <2> QED BY <1>1, <1>2, <2>1, <2>2, <2>3 DEF InTransit
<1> QED BY <1>3, <1>4 DEF StreamInv

(* Send puts its message behind those in transit.                          *)
LEMMA SendStream ==
    ASSUME StreamInv, NEW m \in Message, Send(m)
    PROVE  StreamInv'
<1> DEFINE c == Counted(m)
           n == Len(sent)
<1>1. /\ sent' = Append(sent, m) /\ wire' = wire \o c
      /\ UNCHANGED <<buffer, polled, delivered>>
  BY DEF Send
<1>2. /\ sent \in Seq(Message) /\ delivered \in Seq(Message)
      /\ wire \in Seq(Byte) /\ buffer \in Seq(Byte) /\ polled \in BOOLEAN
  BY DEF StreamInv, StreamTyped
<1>3. c \in Seq(Byte)
  BY MessageTyped
<1>4. n \in Nat /\ Len(delivered) \in Nat /\ Len(delivered) <= n
  BY <1>2, LenProperties DEF StreamInv, InOrder
<1>5. /\ sent' \in Seq(Message) /\ Len(sent') = n + 1 /\ sent'[n + 1] = m
      /\ \A i \in 1..n : sent'[i] = sent[i]
  BY <1>1, <1>2, AppendProperties
<1>6. StreamTyped'
  BY <1>1, <1>2, <1>3, <1>5, ConcatProperties DEF StreamTyped
<1>7. InOrder'
  BY <1>1, <1>4, <1>5 DEF StreamInv, InOrder
<1>8. InTransit'
  <2>1. PICK f : Behindhand(f) /\ buffer \o wire = f[Len(delivered)]
    BY DEF StreamInv, InTransit
  <2>2. /\ f \in [0..n -> Seq(Byte)] /\ f[n] = <<>>
        /\ \A i \in 1..n : f[i - 1] = Counted(sent[i]) \o f[i]
    BY <2>1 DEF Behindhand
  <2> HIDE DEF n, c
  <2> DEFINE h == [i \in 0..n + 1 |-> IF i = n + 1 THEN <<>> ELSE f[i] \o c]
  <2>0. PICK g : g = h
    OBVIOUS
  <2>3. ASSUME NEW i \in 0..n
        PROVE  f[i] \in Seq(Byte) /\ g[i] = f[i] \o c /\ g[i] \in Seq(Byte)
    <3>1. i \in 0..n + 1 /\ i # n + 1 /\ f[i] \in Seq(Byte)
      BY <1>4, <2>2
    <3>2. f[i] \o c \in Seq(Byte)
      BY <1>3, <3>1, BytesJoined
    <3> QED BY <2>0, <3>1, <3>2
  <2>4. g[n + 1] = <<>> /\ <<>> \in Seq(Byte)
    <3>1. n + 1 \in 0..n + 1
      BY <1>4
    <3> QED BY <2>0, <3>1, EmptySeq
  <2>5. g \in [0..n + 1 -> Seq(Byte)]
    <3>1. \A i \in 0..n + 1 : i = n + 1 \/ i \in 0..n
      BY <1>4
    <3> HIDE DEF h
    <3>2. \A i \in 0..n + 1 : g[i] \in Seq(Byte)
      BY <2>3, <2>4, <3>1
    <3>3. g = [i \in 0..n + 1 |-> g[i]]
      BY <2>0 DEF h
    <3> QED BY <3>2, <3>3
  <2> HIDE DEF h
  <2>6. g[n] = Counted(m) \o g[n + 1]
    <3>0. n \in 0..n
      BY <1>4
    <3>1. g[n] = <<>> \o c
      BY <2>2, <2>3, <3>0
    <3>2. <<>> \o c = c /\ c \o <<>> = c
      BY <1>3, ConcatEmptySeq
    <3> QED BY <2>4, <3>1, <3>2 DEF c
  <2>7. ASSUME NEW i \in 1..n PROVE g[i - 1] = Counted(sent[i]) \o g[i]
    <3>1. i \in 0..n /\ i - 1 \in 0..n
      BY <1>4
    <3>2. Counted(sent[i]) \in Seq(Byte) /\ f[i] \in Seq(Byte)
      BY <1>2, <2>3, <3>1, ElementOfSeq, MessageTyped DEF n
    <3>3. (Counted(sent[i]) \o f[i]) \o c = Counted(sent[i]) \o (f[i] \o c)
      BY <1>3, <3>2, BytesJoined
    <3> QED BY <2>2, <2>3, <3>1, <3>3
  <2>8. \A i \in 1..n + 1 : g[i - 1] = Counted(sent'[i]) \o g[i]
    <3>1. \A i \in 1..n + 1 : (i = n + 1 /\ i - 1 = n) \/ i \in 1..n
      BY <1>4
    <3>2. sent'[n + 1] = m /\ \A i \in 1..n : sent'[i] = sent[i]
      BY <1>5 DEF n
    <3> QED BY <2>6, <2>7, <3>1, <3>2
  <2>9. buffer' \o wire' = g[Len(delivered')]
    <3>1. (buffer \o wire) \o c = buffer \o (wire \o c)
      BY <1>2, <1>3, BytesJoined
    <3>2. Len(delivered) \in 0..n
      BY <1>4
    <3>3. g[Len(delivered)] = f[Len(delivered)] \o c
      BY <2>3, <3>2
    <3> QED BY <1>1, <2>1, <3>1, <3>3
  <2>10. Len(sent') = n + 1
    BY <1>5 DEF n
  <2>11. Behindhand(g)'
    BY <2>4, <2>5, <2>8, <2>10 DEF Behindhand
  <2> QED BY <2>9, <2>11 DEF InTransit
<1> QED BY <1>6, <1>7, <1>8 DEF StreamInv

(* What arrives moves from the wire to the buffer.                         *)
LEMMA ReadStream ==
    ASSUME StreamInv, NEW n \in 1..Len(wire), ReadBytes(n)
    PROVE  StreamInv'
<1> DEFINE p == SubSeq(wire, 1, n)
           q == Drop(wire, n)
<1>1. /\ buffer' = buffer \o p /\ wire' = q /\ UNCHANGED <<sent, polled, delivered>>
  BY DEF ReadBytes
<1>2. wire \in Seq(Byte) /\ buffer \in Seq(Byte)
  BY DEF StreamInv, StreamTyped
<1>3. n \in 0..Len(wire)
  BY <1>2, LenProperties
<1>4. p \in Seq(Byte) /\ q \in Seq(Byte) /\ p \o q = wire
  BY <1>2, <1>3, Cut
<1> HIDE DEF p, q
<1>5. (buffer \o p) \o q = buffer \o (p \o q)
  BY <1>2, <1>4, BytesJoined
<1>6. buffer \o p \in Seq(Byte)
  BY <1>2, <1>4, ConcatProperties
<1>7. StreamTyped'
  BY <1>1, <1>4, <1>6 DEF StreamInv, StreamTyped
<1>8. InOrder'
  BY <1>1 DEF StreamInv, InOrder
<1>9. buffer' \o wire' = buffer \o wire
  BY <1>1, <1>4, <1>5
<1>10. InTransit'
  BY <1>1, <1>9 DEF StreamInv, InTransit, Behindhand
<1> QED BY <1>7, <1>8, <1>10 DEF StreamInv

(* The buffer starts with the first message not yet returned, if there is   *)
(* one, and with nothing else.                                             *)
LEMMA NextFrame ==
    ASSUME StreamInv, NEW f, Behindhand(f), buffer \o wire = f[Len(delivered)],
           CountBytes <= Len(buffer) \/ Len(delivered) < Len(sent)
    PROVE  LET k == Len(delivered) + 1
           IN  /\ k \in 1..Len(sent) /\ sent[k] \in Message /\ f[k] \in Seq(Byte)
               /\ Starts(buffer, wire, sent[k], f[k])
<1> DEFINE k == Len(delivered) + 1
<1>1. /\ sent \in Seq(Message) /\ delivered \in Seq(Message)
      /\ wire \in Seq(Byte) /\ buffer \in Seq(Byte)
  BY DEF StreamInv, StreamTyped
<1>2. Len(sent) \in Nat /\ Len(delivered) \in Nat /\ Len(delivered) <= Len(sent)
  BY <1>1, LenProperties DEF StreamInv, InOrder
<1>3. ASSUME Len(delivered) = Len(sent) PROVE Len(buffer) = 0
  <2>1. buffer \o wire = <<>>
    BY <1>3 DEF Behindhand
  <2>2. buffer = <<>>
    BY <1>1, <2>1, ConcatSimplifications
  <2> QED BY <2>2, EmptySeq
<1>4. Len(delivered) < Len(sent)
  BY <1>2, <1>3, WidthsTyped
<1>5. k \in 1..Len(sent) /\ k \in 0..Len(sent) /\ k - 1 = Len(delivered)
  BY <1>2, <1>4
<1>6. sent[k] \in Message
  BY <1>1, <1>5, ElementOfSeq
<1>7. f[k] \in Seq(Byte) /\ f[Len(delivered)] = Counted(sent[k]) \o f[k]
  BY <1>5 DEF Behindhand
<1>8. Starts(buffer, wire, sent[k], f[k])
  BY <1>1, <1>6, <1>7, MessageTyped DEF Starts
<1> QED BY <1>5, <1>6, <1>7, <1>8

LEMMA ReturnStream ==
    ASSUME StreamInv, Return
    PROVE  StreamInv'
<1>1. PICK f : Behindhand(f) /\ buffer \o wire = f[Len(delivered)]
  BY DEF StreamInv, InTransit
<1> DEFINE k == Len(delivered) + 1
           all == CountBytes + GetU32(buffer)
<1>2. /\ sent \in Seq(Message) /\ delivered \in Seq(Message)
      /\ wire \in Seq(Byte) /\ buffer \in Seq(Byte)
  BY DEF StreamInv, StreamTyped
<1>3. /\ ReadFramed(buffer, MaxFrame).ok /\ polled' = FALSE /\ UNCHANGED <<sent, wire>>
      /\ delivered' = Append(delivered, ReadFramed(buffer, MaxFrame).header)
      /\ buffer' = Drop(buffer, all)
  BY DEF Return
<1>4. /\ ~(Len(buffer) < CountBytes) /\ ~(Len(buffer) < all)
      /\ ReadFramed(buffer, MaxFrame).header = Behind(buffer, all)
  BY <1>3 DEF ReadFramed, Behind
<1>5. Len(buffer) \in Nat /\ CountBytes \in Nat /\ Len(delivered) \in Nat
  BY <1>2, LenProperties, WidthsTyped
<1>6. /\ k \in 1..Len(sent) /\ sent[k] \in Message /\ f[k] \in Seq(Byte)
      /\ Starts(buffer, wire, sent[k], f[k])
  <2>1. CountBytes <= Len(buffer)
    BY <1>4, <1>5
  <2> QED BY <1>1, <2>1, NextFrame
<1>7. GetU32(buffer) = Len(sent[k]) /\ Len(sent[k]) \in Nat
  <2>1. CountBytes <= Len(buffer)
    BY <1>4, <1>5
  <2> QED BY <1>6, <2>1, FrameLength, MessageTyped
<1>8. all \in 0..Len(buffer) /\ CountBytes + Len(sent[k]) <= Len(buffer)
  BY <1>4, <1>5, <1>7
<1>9. /\ Behind(buffer, CountBytes + Len(sent[k])) = sent[k]
      /\ Drop(buffer, CountBytes + Len(sent[k])) \o wire = f[k]
  BY <1>6, <1>8, FrameIs
<1>10. buffer' \in Seq(Byte) /\ buffer' \o wire' = f[k]
  <2>1. Drop(buffer, all) \in Seq(Byte)
    BY <1>2, <1>8, Cut
  <2> QED BY <1>3, <1>7, <1>9, <2>1
<1>11. delivered' = Append(delivered, sent[k])
  BY <1>3, <1>4, <1>7, <1>9
<1>12. /\ delivered' \in Seq(Message) /\ Len(delivered') = k /\ delivered'[k] = sent[k]
       /\ \A i \in 1..Len(delivered) : delivered'[i] = delivered[i]
  BY <1>2, <1>6, <1>11, AppendProperties
<1>13. StreamTyped'
  BY <1>2, <1>3, <1>10, <1>12 DEF StreamTyped
<1>14. InOrder'
  <2>1. \A i \in 1..k : i = k \/ i \in 1..Len(delivered)
    BY <1>5
  <2>2. \A i \in 1..k : delivered'[i] = sent[i]
    BY <1>12, <2>1 DEF StreamInv, InOrder
  <2>3. k <= Len(sent)
    BY <1>6
  <2> QED BY <1>3, <1>12, <2>2, <2>3 DEF InOrder
<1>15. InTransit'
  <2>1. Behindhand(f)'
    BY <1>1, <1>3 DEF Behindhand
  <2> QED BY <1>10, <1>12, <2>1 DEF InTransit
<1> QED BY <1>13, <1>14, <1>15 DEF StreamInv

LEMMA NextStream == StreamInv /\ [Next]_vars => StreamInv'
<1> SUFFICES ASSUME StreamInv, [Next]_vars PROVE StreamInv'
  OBVIOUS
<1>1. ASSUME UNCHANGED <<sent, wire, buffer, delivered>>, polled' \in BOOLEAN
      PROVE  StreamInv'
  BY <1>1 DEF StreamInv, StreamTyped, InOrder, InTransit, Behindhand
<1>2. ASSUME NEW m \in SeqOf(Byte, MaxFrame), Send(m) PROVE StreamInv'
  <2>1. m \in Message
    BY MessageTyped
  <2> QED BY <1>2, <2>1, SendStream
<1>3. ASSUME CallNext \/ DropCall PROVE StreamInv'
  BY <1>1, <1>3 DEF CallNext, DropCall
<1>4. CASE UNCHANGED vars
  BY <1>1, <1>4 DEF vars, StreamInv, StreamTyped
<1> QED BY <1>2, <1>3, <1>4, ReadStream, ReturnStream DEF Next

(* What StreamInv says is enough.                                          *)
LEMMA StreamIntact == StreamInv => MessagesIntact
<1> SUFFICES ASSUME StreamInv PROVE MessagesIntact
  OBVIOUS
<1>1. /\ sent \in Seq(Message) /\ delivered \in Seq(Message)
      /\ wire \in Seq(Byte) /\ buffer \in Seq(Byte)
  BY DEF StreamInv, StreamTyped
<1>2. Len(sent) \in Nat /\ Len(delivered) \in Nat /\ Len(delivered) <= Len(sent)
  BY <1>1, LenProperties DEF StreamInv, InOrder
<1>3. IsPrefix(delivered, sent)
  <2>1. Len(delivered) \in 0..Len(sent)
    BY <1>2
  <2>2. /\ SubSeq(sent, 1, Len(delivered)) \in Seq(Message)
        /\ Len(SubSeq(sent, 1, Len(delivered))) = Len(delivered)
        /\ \A i \in 1..Len(delivered) : SubSeq(sent, 1, Len(delivered))[i] = sent[i]
    BY <1>1, <2>1, Cut
  <2>3. \A i \in 1..Len(delivered) : delivered[i] = SubSeq(sent, 1, Len(delivered))[i]
    BY <2>2 DEF StreamInv, InOrder
  <2>4. delivered = SubSeq(sent, 1, Len(delivered))
    BY <1>1, <2>2, <2>3, SeqEqual
  <2>5. SubSeq(delivered, 1, Len(delivered)) = delivered
    BY <1>1, SubSeqFull
  <2> QED BY <1>2, <2>4, <2>5 DEF IsPrefix
<1>4. ASSUME wire = <<>>, ~ReadFramed(buffer, MaxFrame).ok PROVE delivered = sent
  <2>1. PICK f : Behindhand(f) /\ buffer \o wire = f[Len(delivered)]
    BY DEF StreamInv, InTransit
  <2>2. ASSUME Len(delivered) < Len(sent) PROVE FALSE
    <3> DEFINE m == sent[Len(delivered) + 1]
               rest == f[Len(delivered) + 1]
    <3>1. m \in Message /\ rest \in Seq(Byte) /\ Starts(buffer, wire, m, rest)
      BY <2>1, <2>2, NextFrame
    <3> HIDE DEF m, rest
    <3>2. Len(buffer) = CountBytes + Len(m) + Len(rest)
      <4>1. buffer = Counted(m) \o rest
        BY <1>1, <1>4, <3>1, ConcatEmptySeq DEF Starts
      <4>2. Counted(m) \in Seq(Byte) /\ Len(Counted(m)) = CountBytes + Len(m)
        BY <3>1, MessageTyped
      <4>3. Len(Counted(m) \o rest) = Len(Counted(m)) + Len(rest)
        BY <3>1, <4>2, BytesJoined
      <4> QED BY <4>1, <4>2, <4>3
    <3>3. Len(m) \in Nat /\ Len(rest) \in Nat /\ CountBytes \in Nat /\ Len(m) <= MaxFrame
      BY <3>1, MessageTyped, WidthsTyped, LenProperties DEF Message
    <3>4. CountBytes <= Len(buffer)
      BY <3>2, <3>3
    <3>5. GetU32(buffer) = Len(m)
      BY <3>1, <3>4, FrameLength
    <3>6. ~(Len(buffer) < CountBytes) /\ ~(Len(m) > MaxFrame) /\ ~(Len(buffer) < CountBytes + Len(m))
      <4>1. MaxFrame \in Int
        BY FramingAssumption DEF FramingAssumption
      <4> QED BY <3>2, <3>3, <4>1
    <3> QED BY <1>4, <3>5, <3>6 DEF ReadFramed
  <2>3. Len(delivered) = Len(sent)
    BY <1>2, <2>2
  <2> QED BY <1>1, <2>3, SeqEqual DEF StreamInv, InOrder
<1> QED BY <1>3, <1>4 DEF MessagesIntact

-----------------------------------------------------------------------------
(* Paths and keys.  Where a component leads from some place of a set.       *)
Entered(places, s) == UNION {Follow(place, s) : place \in places}

IsWay(w, start, path) ==
    w = [i \in 0..Len(path) |->
            IF i = 0 THEN {IF IsAbsolute(path) THEN <<>> ELSE start}
            ELSE UNION {Follow(place, path[i]) : place \in w[i - 1]}]

IsKey(f, path) ==
    f = [i \in 0..Len(path) |->
            IF i = 0 THEN <<>>
            ELSE IF path[i] \in {"", "."} THEN f[i - 1]
            ELSE Append(f[i - 1], path[i])]

IsClean(path) == \A i \in 1..Len(path) : ~(path[i] \in {"", "."})

LEMMA WayIs ==
    ASSUME NEW start, NEW path, Len(path) \in Nat
    PROVE  \E w : IsWay(w, start, path) /\ Canonicalize(start, path) = w[Len(path)]
<1> DEFINE first == {IF IsAbsolute(path) THEN <<>> ELSE start}
           V == SUBSET (first \cup Dirs \cup Files)
           step == [q \in Nat \X V |-> Entered(q[2], path[q[1]])]
<1>1. first \in V
  OBVIOUS
<1>2. step \in [Nat \X V -> V]
  <2>1. ASSUME NEW q \in Nat \X V PROVE Entered(q[2], path[q[1]]) \in V
    BY DEF Entered, Follow
  <2> QED BY <2>1
<1> HIDE DEF V, first
<1>3. PICK w \in [0..Len(path) -> V] : IsRecursion(w, Len(path), first, step)
  <2> HIDE DEF step
  <2> QED BY <1>1, <1>2, RecursiveFunction
<1>4. IsWay(w, start, path)
  <2>1. ASSUME NEW i \in 0..Len(path), i # 0
        PROVE  step[i, w[i - 1]] = UNION {Follow(place, path[i]) : place \in w[i - 1]}
    <3>1. i \in Nat /\ i - 1 \in 0..Len(path)
      BY <2>1
    <3>2. <<i, w[i - 1]>> \in Nat \X V
      BY <3>1
    <3> QED BY <3>2 DEF Entered
  <2> HIDE DEF step
  <2>2. w = [i \in 0..Len(path) |-> IF i = 0 THEN first ELSE step[i, w[i - 1]]]
    BY <1>3 DEF IsRecursion
  <2>3. [i \in 0..Len(path) |-> IF i = 0 THEN first ELSE step[i, w[i - 1]]]
        = [i \in 0..Len(path) |-> IF i = 0 THEN first ELSE
              UNION {Follow(place, path[i]) : place \in w[i - 1]}]
    BY <2>1
  <2> QED BY <2>2, <2>3 DEF IsWay, first
<1>5. IsWay(CHOOSE g : IsWay(g, start, path), start, path)
  BY <1>4
<1>6. Canonicalize(start, path) = (CHOOSE g : IsWay(g, start, path))[Len(path)]
  BY DEF Canonicalize, IsWay
<1> QED BY <1>5, <1>6

LEMMA KeyIs ==
    ASSUME NEW R, NEW path \in Seq(R)
    PROVE  \E f : IsKey(f, path) /\ PathToKey(path) = f[Len(path)]
<1> DEFINE step == [q \in Nat \X Seq(R) |->
                     IF ~(q[1] \in 1..Len(path)) \/ path[q[1]] \in {"", "."} THEN q[2]
                     ELSE Append(q[2], path[q[1]])]
<1>0. Len(path) \in Nat /\ <<>> \in Seq(R)
  OBVIOUS
<1>1. step \in [Nat \X Seq(R) -> Seq(R)]
  <2>1. ASSUME NEW q \in Nat \X Seq(R)
        PROVE  (IF ~(q[1] \in 1..Len(path)) \/ path[q[1]] \in {"", "."} THEN q[2]
                ELSE Append(q[2], path[q[1]])) \in Seq(R)
    <3>1. q[1] \in 1..Len(path) => path[q[1]] \in R
      OBVIOUS
    <3>2. q[2] \in Seq(R)
      OBVIOUS
    <3>3. \A s \in R : Append(q[2], s) \in Seq(R)
      BY <3>2, AppendProperties
    <3> QED BY <3>1, <3>2, <3>3
  <2> QED BY <2>1
<1>2. PICK f \in [0..Len(path) -> Seq(R)] : IsRecursion(f, Len(path), <<>>, step)
  <2> HIDE DEF step
  <2> QED BY <1>0, <1>1, RecursiveFunction
<1>3. IsKey(f, path)
  <2>1. ASSUME NEW i \in 0..Len(path), i # 0
        PROVE  step[i, f[i - 1]]
               = IF path[i] \in {"", "."} THEN f[i - 1] ELSE Append(f[i - 1], path[i])
    <3>1. i \in Nat /\ i - 1 \in 0..Len(path) /\ i \in 1..Len(path)
      BY <1>0, <2>1
    <3> QED BY <3>1
  <2> HIDE DEF step
  <2> QED BY <1>2, <2>1 DEF IsRecursion, IsKey
<1>4. IsKey(CHOOSE g : IsKey(g, path), path)
  BY <1>3
<1>5. PathToKey(path) = (CHOOSE g : IsKey(g, path))[Len(path)]
  BY DEF PathToKey, IsKey
<1> QED BY <1>4, <1>5

LEMMA KeyEquation ==
    ASSUME NEW path, Len(path) \in Nat, NEW f, IsKey(f, path)
    PROVE  /\ f[0] = <<>>
           /\ \A i \in 1..Len(path) :
                f[i] = IF path[i] \in {"", "."} THEN f[i - 1] ELSE Append(f[i - 1], path[i])
<1>1. 0 \in 0..Len(path) /\ \A i \in 1..Len(path) : i \in 0..Len(path) /\ i # 0
  OBVIOUS
<1> QED BY <1>1 DEF IsKey

LEMMA RelativeWay ==
    ASSUME NEW start, NEW path, Len(path) \in Nat, ~IsAbsolute(path)
    PROVE  \E w : /\ w[0] = {start} /\ \A i \in 1..Len(path) : w[i] = Entered(w[i - 1], path[i])
                  /\ Canonicalize(start, path) = w[Len(path)]
<1>1. PICK w : IsWay(w, start, path) /\ Canonicalize(start, path) = w[Len(path)]
  BY WayIs
<1>2. 0 \in 0..Len(path) /\ \A i \in 1..Len(path) : i \in 0..Len(path) /\ i # 0
  OBVIOUS
<1>3. /\ w[0] = {IF IsAbsolute(path) THEN <<>> ELSE start}
      /\ \A i \in 1..Len(path) : w[i] = Entered(w[i - 1], path[i])
  BY <1>1, <1>2 DEF IsWay, Entered
<1>4. (IF IsAbsolute(path) THEN <<>> ELSE start) = start
  OBVIOUS
<1> QED BY <1>1, <1>3, <1>4

(* A path with one more component leads where that leads from where the      *)
(* path leads.                                                             *)
LEMMA OneFurther ==
    ASSUME NEW R, NEW path \in Seq(R), NEW s \in R, NEW start,
           ~IsAbsolute(path), ~IsAbsolute(Append(path, s))
    PROVE  Canonicalize(start, Append(path, s)) = Entered(Canonicalize(start, path), s)
<1> DEFINE longer == Append(path, s)
           n == Len(path)
<1>1. /\ n \in Nat /\ Len(longer) \in Nat /\ Len(longer) = n + 1 /\ longer[n + 1] = s
      /\ \A i \in 1..n : longer[i] = path[i]
  BY AppendProperties
<1>b. ~IsAbsolute(longer)
  OBVIOUS
<1> HIDE DEF longer, n
<1>2. PICK v : /\ v[0] = {start} /\ \A i \in 1..n : v[i] = Entered(v[i - 1], path[i])
               /\ Canonicalize(start, path) = v[n]
  BY <1>1, RelativeWay DEF n
<1>3. PICK w : /\ w[0] = {start} /\ \A i \in 1..n + 1 : w[i] = Entered(w[i - 1], longer[i])
               /\ Canonicalize(start, longer) = w[n + 1]
  <2>1. \E w : /\ w[0] = {start} /\ \A i \in 1..Len(longer) : w[i] = Entered(w[i - 1], longer[i])
               /\ Canonicalize(start, longer) = w[Len(longer)]
    BY <1>1, <1>b, RelativeWay
  <2> QED BY <1>1, <2>1
<1> DEFINE T == {i \in Nat : i <= n => w[i] = v[i]}
<1>6. T \subseteq Nat /\ 0 \in T
  BY <1>2, <1>3
<1>7. ASSUME NEW i \in T PROVE i + 1 \in T
  <2>1. i + 1 \in Nat
    OBVIOUS
  <2>2. ASSUME i + 1 <= n PROVE w[i + 1] = v[i + 1]
    <3>1. i + 1 \in 1..n /\ i + 1 \in 1..n + 1 /\ (i + 1) - 1 = i /\ w[i] = v[i]
      BY <1>1, <2>2
    <3>2. w[i + 1] = Entered(w[i], longer[i + 1]) /\ v[i + 1] = Entered(v[i], path[i + 1])
      BY <1>2, <1>3, <3>1
    <3> QED BY <1>1, <3>1, <3>2
  <2> QED BY <2>1, <2>2
<1> HIDE DEF T
<1>8. T = Nat
  BY <1>6, <1>7, AllNaturals
<1>9. w[n] = v[n]
  BY <1>1, <1>8 DEF T
<1>10. n + 1 \in 1..n + 1 /\ (n + 1) - 1 = n
  BY <1>1
<1>11. w[n + 1] = Entered(w[n], s)
  BY <1>1, <1>3, <1>10
<1> QED BY <1>2, <1>3, <1>9, <1>11 DEF longer

LEMMA NoStep ==
    ASSUME NEW start
    PROVE  Canonicalize(start, <<>>) = {start}
<1> DEFINE none == <<>>
<1>1. Len(none) \in Nat /\ Len(none) = 0 /\ ~IsAbsolute(none)
  BY DEF IsAbsolute
<1> HIDE DEF none
<1>2. PICK w : w[0] = {start} /\ Canonicalize(start, none) = w[Len(none)]
  <2>1. \E w : /\ w[0] = {start} /\ \A i \in 1..Len(none) : w[i] = Entered(w[i - 1], none[i])
               /\ Canonicalize(start, none) = w[Len(none)]
    BY <1>1, RelativeWay
  <2> QED BY <2>1
<1> QED BY <1>1, <1>2 DEF none

LEMMA CleanRelative ==
    ASSUME NEW path, Len(path) \in Nat, IsClean(path)
    PROVE  ~IsAbsolute(path)
<1>1. ASSUME Len(path) > 1 PROVE 1 \in 1..Len(path)
  BY <1>1
<1>2. ASSUME Len(path) > 1 PROVE path[1] # ""
  BY <1>1, <1>2 DEF IsClean
<1> QED BY <1>2 DEF IsAbsolute

(* What path_to_key drops leads nowhere else.                              *)
LEMMA KeyLeadsThere ==
    ASSUME NEW R, NEW path \in Seq(R), ~IsAbsolute(path), NEW start
    PROVE  /\ PathToKey(path) \in Seq(R) /\ IsClean(PathToKey(path))
           /\ Canonicalize(start, path) \subseteq Canonicalize(start, PathToKey(path))
<1> DEFINE n == Len(path)
           Kept(key, places) == /\ key \in Seq(R) /\ IsClean(key)
                                /\ places \subseteq Canonicalize(start, key)
<1>1. n \in Nat /\ \A i \in 1..n : path[i] \in R
  OBVIOUS
<1>2. PICK w : /\ w[0] = {start} /\ \A i \in 1..n : w[i] = Entered(w[i - 1], path[i])
               /\ Canonicalize(start, path) = w[n]
  BY <1>1, RelativeWay
<1>3. PICK f : IsKey(f, path) /\ PathToKey(path) = f[n]
  BY KeyIs
<1>4. w[0] = {start} /\ \A i \in 1..n : w[i] = Entered(w[i - 1], path[i])
  BY <1>2
<1>5. /\ f[0] = <<>>
      /\ \A i \in 1..n :
           f[i] = IF path[i] \in {"", "."} THEN f[i - 1] ELSE Append(f[i - 1], path[i])
  BY <1>1, <1>3, KeyEquation
<1>6. ASSUME NEW key, NEW places, NEW s \in R, Kept(key, places)
      PROVE  Kept(IF s \in {"", "."} THEN key ELSE Append(key, s), Entered(places, s))
  <2>1. CASE s \in {"", "."}
    <3>1. Entered(places, s) \subseteq places
      BY <2>1 DEF Entered, Follow, Enter
    <3> QED BY <1>6, <2>1, <3>1
  <2>2. CASE ~(s \in {"", "."})
    <3>1. key \in Seq(R) /\ Len(key) \in Nat /\ IsClean(key)
      BY <1>6
    <3>2. /\ Append(key, s) \in Seq(R) /\ Len(Append(key, s)) = Len(key) + 1
          /\ \A i \in 1..Len(key) : Append(key, s)[i] = key[i]
          /\ Append(key, s)[Len(key) + 1] = s
      BY <3>1, AppendProperties
    <3>3. IsClean(Append(key, s))
      <4>1. ASSUME NEW i \in 1..Len(Append(key, s)) PROVE ~(Append(key, s)[i] \in {"", "."})
        <5>1. i \in 1..Len(key) \/ i = Len(key) + 1
          BY <3>1, <3>2
        <5> QED BY <2>2, <3>1, <3>2, <5>1 DEF IsClean
      <4> QED BY <4>1 DEF IsClean
    <3>4. ~IsAbsolute(key) /\ ~IsAbsolute(Append(key, s))
      BY <3>1, <3>2, <3>3, CleanRelative
    <3>5. Canonicalize(start, Append(key, s)) = Entered(Canonicalize(start, key), s)
      BY <3>1, <3>4, OneFurther
    <3>6. Entered(places, s) \subseteq Entered(Canonicalize(start, key), s)
      BY <1>6 DEF Entered
    <3> QED BY <2>2, <3>2, <3>3, <3>5, <3>6
  <2> QED BY <2>1, <2>2
<1>7. Kept(<<>>, {start})
  BY NoStep DEF IsClean
<1> DEFINE T == {i \in Nat : i <= n => Kept(f[i], w[i])}
<1> HIDE DEF n, Kept
<1>8. T \subseteq Nat /\ 0 \in T
  BY <1>4, <1>5, <1>7
<1>9. ASSUME NEW i \in T PROVE i + 1 \in T
  <2>1. i + 1 \in Nat
    OBVIOUS
  <2>2. ASSUME i + 1 <= n PROVE Kept(f[i + 1], w[i + 1])
    <3>1. i + 1 \in 1..n /\ (i + 1) - 1 = i /\ Kept(f[i], w[i])
      BY <1>1, <2>2
    <3>2. Kept(IF path[i + 1] \in {"", "."} THEN f[i] ELSE Append(f[i], path[i + 1]),
               Entered(w[i], path[i + 1]))
      BY <1>1, <1>6, <3>1
    <3>3. f[i + 1] = IF path[i + 1] \in {"", "."} THEN f[i] ELSE Append(f[i], path[i + 1])
      BY <1>5, <3>1
    <3>4. w[i + 1] = Entered(w[i], path[i + 1])
      BY <1>4, <3>1
    <3> QED BY <3>2, <3>3, <3>4
  <2> QED BY <2>1, <2>2
<1> HIDE DEF T
<1>10. T = Nat
  BY <1>8, <1>9, AllNaturals
<1>11. Kept(f[n], w[n])
  BY <1>1, <1>10 DEF T
<1> QED BY <1>2, <1>3, <1>11 DEF Kept

(* A path from which path_to_key has nothing to drop is its own key.        *)
LEMMA CleanIsKey ==
    ASSUME NEW R, NEW path \in Seq(R), IsClean(path)
    PROVE  PathToKey(path) = path
<1> DEFINE n == Len(path)
<1>1. n \in Nat /\ SubSeq(path, 1, n) = path
  BY SubSeqFull
<1>2. PICK f : IsKey(f, path) /\ PathToKey(path) = f[n]
  BY KeyIs
<1>3. f[0] = <<>> /\ \A i \in 1..n : f[i] = Append(f[i - 1], path[i])
  BY <1>1, <1>2, KeyEquation DEF IsClean
<1>4. SubSeq(path, 1, 0) = <<>>
  BY SubSeqEmpty
<1>5. ASSUME NEW i \in 1..n
      PROVE  SubSeq(path, 1, i) = Append(SubSeq(path, 1, i - 1), path[i])
  <2>1. SubSeq(path, 1, i) = SubSeq(path, 1, i - 1) \o <<path[i]>>
    <3>1. 1 \in 1..Len(path) /\ i \in 1..Len(path)
      BY <1>1
    <3> QED BY <3>1, SubSeqRecursiveSecond
  <2>2. SubSeq(path, 1, i - 1) \in Seq(R) /\ path[i] \in R
    <3>1. \A j \in 1..(i - 1) : path[j] \in R
      OBVIOUS
    <3> QED BY <3>1, SubSeqProperties
  <2> QED BY <2>1, <2>2, AppendIsConcat
<1> DEFINE T == {i \in Nat : i <= n => f[i] = SubSeq(path, 1, i)}
<1> HIDE DEF n
<1>6. T \subseteq Nat /\ 0 \in T
  BY <1>3, <1>4
<1>7. ASSUME NEW i \in T PROVE i + 1 \in T
  <2>1. i + 1 \in Nat
    OBVIOUS
  <2>2. ASSUME i + 1 <= n PROVE f[i + 1] = SubSeq(path, 1, i + 1)
    <3>1. i + 1 \in 1..n /\ (i + 1) - 1 = i /\ f[i] = SubSeq(path, 1, i)
      BY <1>1, <2>2
    <3> QED BY <1>3, <1>5, <3>1
  <2> QED BY <2>1, <2>2
<1> HIDE DEF T
<1>8. T = Nat
  BY <1>6, <1>7, AllNaturals
<1>9. f[n] = SubSeq(path, 1, n)
  BY <1>1, <1>8 DEF T
<1> QED BY <1>1, <1>2, <1>9

(* load_asset_data and path_to_key (paths.rs:3-46): by whatever path a file  *)
(* is asked for, it is an asset, and the key of the path leads to the same   *)
(* one.                                                                    *)
THEOREM KeysOfPaths ==
    ASSUME NEW R, NEW path \in Seq(R)
    PROVE  KeyKeepsFile(path)
<1>1. \A file \in LoadAssetData(path) : IsAsset(file)
  BY DEF LoadAssetData, IsAsset
<1>2. ASSUME HasKey(path)
      PROVE  /\ LoadAssetData(path) \subseteq LoadAssetData(PathToKey(path))
             /\ PathToKey(PathToKey(path)) = PathToKey(path)
  <2>1. ~IsAbsolute(path)
    BY <1>2 DEF HasKey
  <2>2. /\ PathToKey(path) \in Seq(R) /\ IsClean(PathToKey(path))
        /\ Canonicalize(AssetsPath, path) \subseteq Canonicalize(AssetsPath, PathToKey(path))
    BY <2>1, KeyLeadsThere
  <2>3. PathToKey(PathToKey(path)) = PathToKey(path)
    <3> DEFINE key == PathToKey(path)
    <3>1. key \in Seq(R) /\ IsClean(key)
      BY <2>2
    <3> HIDE DEF key
    <3>2. PathToKey(key) = key
      BY <3>1, CleanIsKey
    <3> QED BY <3>2 DEF key
  <2> QED BY <2>2, <2>3 DEF LoadAssetData
<1> QED BY <1>1, <1>2 DEF KeyKeepsFile

(* A name that is not a link leads to the place of that name.               *)
LEMMA PlaceBelow ==
    ASSUME NEW place \in Dirs, NEW s \in Name, Append(place, s) \in Dirs \cup Files
    PROVE  Entered({place}, s) = {Append(place, s)}
<1>1. Append(place, s) \notin DOMAIN Links
  BY AssetPathsAssumption DEF AssetPathsAssumption
<1>2. Enter(place, s) = Append(place, s)
  BY <1>1 DEF Enter, Name
<1> QED BY <1>2 DEF Entered, Follow

LEMMA PlacesTyped ==
    ASSUME NEW file \in Files
    PROVE  /\ AssetsPath \in Dirs /\ AssetsPath \in Seq(Name) /\ file \in Seq(Name)
           /\ Len(AssetsPath) \in Nat /\ Len(file) \in Nat
           /\ \A n \in 0..Len(file) - 1 : SubSeq(file, 1, n) \in Dirs
<1>1. file \in Places /\ AssetsPath \in Places /\ AssetsPath \in Dirs
  BY AssetPathsAssumption DEF AssetPathsAssumption, Places
<1>2. file \in Seq(Name) /\ AssetsPath \in Seq(Name)
  BY <1>1, AssetPathsAssumption DEF AssetPathsAssumption
<1>3. Len(AssetsPath) \in Nat /\ Len(file) \in Nat
  BY <1>2
<1> QED BY <1>1, <1>2, <1>3, AssetPathsAssumption DEF AssetPathsAssumption

(* path_to_key in drain_pre_cache_assets_stack (paths.rs:16-46,             *)
(* client.rs:586-593): the key of a file below the assets path with names in *)
(* UTF-8, whatever links there are, leads to that file.                     *)
THEOREM KeysOfFiles ==
    ASSUME NEW file \in Files
    PROVE  FileFoundByItsKey(file)
<1> SUFFICES ASSUME IsPrefix(AssetsPath, file),
                    IsUtf8(SubSeq(file, Len(AssetsPath) + 1, Len(file)))
             PROVE  LET path == SubSeq(file, Len(AssetsPath) + 1, Len(file))
                    IN  HasKey(path) /\ LoadAssetData(PathToKey(path)) = {file}
  BY DEF FileFoundByItsKey, IsAsset
<1> DEFINE a == Len(AssetsPath)
           path == SubSeq(file, a + 1, Len(file))
           n == Len(path)
<1>0. IsUtf8(path)
  OBVIOUS
<1>1. /\ AssetsPath \in Dirs /\ AssetsPath \in Seq(Name) /\ file \in Seq(Name)
      /\ a \in Nat /\ Len(file) \in Nat /\ \A i \in 0..Len(file) - 1 : SubSeq(file, 1, i) \in Dirs
  BY PlacesTyped
<1>2. a <= Len(file) /\ SubSeq(file, 1, a) = AssetsPath
  BY <1>1, SubSeqFull DEF IsPrefix
<1>3. /\ path \in Seq(Name) /\ Len(path) = Len(file) - a
      /\ \A i \in 1..Len(file) - a : path[i] = file[a + i]
  <2>1. \A i \in a + 1..Len(file) : file[i] \in Name
    BY <1>1
  <2>2. a + 1 \in Int /\ Len(file) \in Int
    BY <1>1
  <2>3. /\ path \in Seq(Name) /\ Len(path) = IF a + 1 <= Len(file) THEN Len(file) - (a + 1) + 1 ELSE 0
        /\ \A i \in 1..Len(file) - (a + 1) + 1 : path[i] = file[a + 1 + i - 1]
    BY <2>1, <2>2, SubSeqProperties
  <2> QED BY <1>1, <1>2, <2>3
<1> HIDE DEF path
<1>4. n \in Nat /\ n = Len(file) - a /\ \A i \in 1..n : path[i] \in Name /\ path[i] = file[a + i]
  BY <1>1, <1>2, <1>3
<1>5. IsClean(path) /\ ~Contains(path, "..")
  BY <1>4 DEF IsClean, Contains, Name
<1>6. ~IsAbsolute(path)
  BY <1>4, <1>5, CleanRelative
<1>7. HasKey(path) /\ PathToKey(path) = path
  BY <1>0, <1>3, <1>5, <1>6, CleanIsKey DEF HasKey
<1>8. PICK w : /\ w[0] = {AssetsPath} /\ \A i \in 1..n : w[i] = Entered(w[i - 1], path[i])
               /\ Canonicalize(AssetsPath, path) = w[n]
  BY <1>4, <1>6, RelativeWay
<1> HIDE DEF n, a
<1>9. ASSUME NEW i \in 1..n
      PROVE  Entered({SubSeq(file, 1, a + i - 1)}, path[i]) = {SubSeq(file, 1, a + i)}
  <2> DEFINE place == SubSeq(file, 1, a + i - 1)
  <2>1. place \in Dirs
    <3>1. a + i - 1 \in 0..Len(file) - 1
      BY <1>1, <1>4
    <3> QED BY <1>1, <3>1
  <2>2. SubSeq(file, 1, a + i) = Append(place, path[i])
    <3>1. 1 \in 1..Len(file) /\ a + i \in 1..Len(file)
      BY <1>1, <1>4
    <3>2. SubSeq(file, 1, a + i) = place \o <<file[a + i]>>
      BY <1>1, <3>1, SubSeqRecursiveSecond
    <3>3. place \in Seq(Name)
      BY <2>1, AssetPathsAssumption DEF AssetPathsAssumption, Places
    <3> HIDE DEF place
    <3>4. Append(place, path[i]) = place \o <<path[i]>>
      BY <1>4, <3>3, AppendIsConcat
    <3> QED BY <1>4, <3>2, <3>4
  <2>3. SubSeq(file, 1, a + i) \in Dirs \cup Files
    <3>1. CASE a + i = Len(file)
      BY <1>1, <3>1, SubSeqFull
    <3>2. CASE a + i # Len(file)
      <4>1. a + i \in 0..Len(file) - 1
        BY <1>1, <1>4, <3>2
      <4> QED BY <1>1, <4>1
    <3> QED BY <3>1, <3>2
  <2> HIDE DEF place
  <2>4. Entered({place}, path[i]) = {Append(place, path[i])}
    BY <1>4, <2>1, <2>2, <2>3, PlaceBelow
  <2> QED BY <2>2, <2>4 DEF place
<1> DEFINE T == {i \in Nat : i <= n => w[i] = {SubSeq(file, 1, a + i)}}
<1>10. T \subseteq Nat /\ 0 \in T
  BY <1>1, <1>2, <1>8
<1>11. ASSUME NEW i \in T PROVE i + 1 \in T
  <2>1. i + 1 \in Nat
    OBVIOUS
  <2>2. ASSUME i + 1 <= n PROVE w[i + 1] = {SubSeq(file, 1, a + (i + 1))}
    <3>1. /\ i + 1 \in 1..n /\ (i + 1) - 1 = i /\ a + (i + 1) - 1 = a + i
          /\ w[i] = {SubSeq(file, 1, a + i)}
      BY <1>1, <1>4, <2>2
    <3>2. w[i + 1] = Entered(w[i], path[i + 1])
      BY <1>8, <3>1
    <3>3. Entered({SubSeq(file, 1, a + (i + 1) - 1)}, path[i + 1])
          = {SubSeq(file, 1, a + (i + 1))}
      BY <1>9, <3>1
    <3> QED BY <3>1, <3>2, <3>3
  <2> QED BY <2>1, <2>2
<1> HIDE DEF T
<1>12. T = Nat
  BY <1>10, <1>11, AllNaturals
<1>13. w[n] = {SubSeq(file, 1, a + n)}
  BY <1>4, <1>12 DEF T
<1>14. a + n = Len(file) /\ SubSeq(file, 1, Len(file)) = file
  BY <1>1, <1>4, SubSeqFull
<1>15. LoadAssetData(path) = {file}
  BY <1>8, <1>13, <1>14 DEF LoadAssetData
<1> QED BY <1>7, <1>15 DEF path, a

-----------------------------------------------------------------------------
(* The specification that asks for results: its inputs are those for which   *)
(* the theorems above speak.                                               *)
AskedInv ==
    /\ asked.call = "create_proxy_endpoint" =>
           asked.first \in Ports /\ asked.last \in Ports
    /\ asked.call = "store_asset" =>
           /\ asked.size \in Nat /\ asked.zipped \in Nat
           /\ asked.sent \in 0..Transferred(asked.size, asked.zipped)
    /\ asked.call = "read_framed" =>
           /\ asked.header \in Seq(Byte) /\ Len(asked.header) < CountValues
           /\ asked.data \in Seq(Byte) /\ asked.maxSize \in Nat
    /\ asked.call = "load_asset_data" => asked.path \in Seq(Component)
    /\ asked.call = "path_to_key" => asked.file \in Files

LEMMA SeqOfTyped ==
    ASSUME NEW R, NEW n \in Int, NEW s \in SeqOf(R, n)
    PROVE  s \in Seq(R) /\ Len(s) <= n
<1>1. PICK k \in 0..n : s \in [1..k -> R]
  BY DEF SeqOf
<1>2. s \in Seq(R) /\ k \in Nat
  BY <1>1
<1>3. DOMAIN s = 1..k /\ DOMAIN s = 1..Len(s) /\ Len(s) \in Nat
  BY <1>1, <1>2, LenProperties
<1>4. Len(s) = k
  BY <1>2, <1>3
<1> QED BY <1>1, <1>2, <1>4

LEMMA AskKeeps ==
    ASSUME AskPort \/ AskAsset \/ AskPath \/ AskFile \/ AskHeader
    PROVE  AskedInv'
<1>1. CASE AskPort
  <2>1. PICK first \in Ports, last \in Ports, hash \in [1..BindAttempts -> Ports], free \in SUBSET Ports :
           asked' = [call |-> "create_proxy_endpoint", first |-> first, last |-> last,
                     hash |-> hash, free |-> free]
    BY <1>1 DEF AskPort, Ask
  <2> QED BY <2>1 DEF AskedInv
<1>2. CASE AskAsset
  <2>1. PICK size \in 0..(MinCompression + 1), zipped \in 1..(3 * LengthCount) :
           \E some \in 0..Transferred(size, zipped) :
               asked' = [call |-> "store_asset", size |-> size, zipped |-> zipped, sent |-> some]
    BY <1>2 DEF AskAsset, Ask
  <2>2. PICK some \in 0..Transferred(size, zipped) :
           asked' = [call |-> "store_asset", size |-> size, zipped |-> zipped, sent |-> some]
    BY <2>1
  <2>3. size \in Nat /\ zipped \in Nat
    BY AssetTransferAssumption DEF AssetTransferAssumption
  <2>4. /\ asked'.call = "store_asset" /\ asked'.size = size /\ asked'.zipped = zipped
        /\ asked'.sent = some
    BY <2>2
  <2> QED BY <2>3, <2>4 DEF AskedInv
<1>3. CASE AskPath
  <2>1. PICK path \in SeqOf(Component, 4) \ {<<>>} :
           asked' = [call |-> "load_asset_data", path |-> path]
    BY <1>3 DEF AskPath, Ask
  <2>2. path \in Seq(Component)
    BY SeqOfTyped
  <2>3. asked'.call = "load_asset_data" /\ asked'.path = path
    BY <2>1
  <2> QED BY <2>2, <2>3 DEF AskedInv
<1>4. CASE AskFile
  <2>1. PICK file \in Files : asked' = [call |-> "path_to_key", file |-> file]
    BY <1>4 DEF AskFile, Ask
  <2> QED BY <2>1 DEF AskedInv
<1>5. CASE AskHeader
  <2>1. PICK header \in SeqOf(Byte, CountValues - 1), data \in SeqOf(Byte, 2) :
           \E maxSize \in 0..(CountValues - 1) :
               asked' = [call |-> "read_framed", header |-> header, data |-> data,
                         maxSize |-> maxSize]
    BY <1>5 DEF AskHeader, Ask
  <2>2. PICK maxSize \in 0..(CountValues - 1) :
           asked' = [call |-> "read_framed", header |-> header, data |-> data,
                     maxSize |-> maxSize]
    BY <2>1
  <2>3. CountValues \in Nat
    BY PowerIs, WidthsTyped
  <2>4. header \in Seq(Byte) /\ Len(header) <= CountValues - 1 /\ data \in Seq(Byte)
    BY <2>3, SeqOfTyped
  <2>5. Len(header) < CountValues
    BY <2>3, <2>4, LenProperties
  <2>6. /\ asked'.call = "read_framed" /\ asked'.header = header /\ asked'.data = data
        /\ asked'.maxSize = maxSize
    BY <2>2
  <2> QED BY <2>3, <2>4, <2>5, <2>6 DEF AskedInv
<1> QED BY <1>1, <1>2, <1>3, <1>4, <1>5

LEMMA Asked == MCSpec => []AskedInv
<1>1. MCInit => AskedInv
  BY DEF MCInit, AskedInv
<1>2. AskedInv /\ [MCNext]_<<vars, asked>> => AskedInv'
  <2> SUFFICES ASSUME AskedInv, [MCNext]_<<vars, asked>> PROVE AskedInv'
    OBVIOUS
  <2>1. CASE UNCHANGED asked
    BY <2>1 DEF AskedInv
  <2> QED BY <2>1, AskKeeps DEF MCNext
<1> QED BY <1>1, <1>2, PTL DEF MCSpec

(* The steps that ask leave the stream of messages alone.                   *)
LEMMA StreamBeside == MCSpec => Spec
<1>1. MCInit => Init
  BY DEF MCInit
<1>2. [MCNext]_<<vars, asked>> => [Next]_vars
  <2>1. AskPort \/ AskAsset \/ AskPath \/ AskFile \/ AskHeader => UNCHANGED vars
    BY DEF AskPort, AskAsset, AskPath, AskFile, AskHeader, Ask
  <2> QED BY <2>1 DEF MCNext
<1> QED BY <1>1, <1>2, PTL DEF MCSpec, Spec

(* IncomingStream and OutgoingStream (streams.rs:10-58): whatever bytes      *)
(* arrive when, and however often a call of next is dropped by the select    *)
(* around it, messages are returned whole and in order.                     *)
THEOREM Messages == Spec => []MessagesIntact
BY InitStream, NextStream, StreamIntact, PTL DEF Spec

(* The same of the messages that the run checks.                           *)
THEOREM MessagesBeside == MCSpec => []MessagesIntact
BY Messages, StreamBeside, PTL

(* create_proxy_endpoint (server.rs:341-373): every port it tries is in the   *)
(* range it is given, and it can try every port of it.                      *)
THEOREM PortsFound == MCSpec => []PortsInRange
<1>1. AskedInv => PortsInRange
  BY PortChoice DEF AskedInv, PortsInRange
<1> QED BY <1>1, Asked, PTL

(* create_proxy_endpoint (server.rs:341-373): servers of one project get      *)
(* different ports, until all those are taken that are tried for them.       *)
THEOREM PortsShared == MCSpec => []PortsOfOneProject
<1>1. PortsOfOneProject
  BY PortsOfServers DEF PortsOfOneProject
<1> QED BY <1>1, PTL

(* send_store_asset_message and the server's read of the stream               *)
(* (client.rs:62-99, server.rs:680-713): data is stored whole, refused for    *)
(* its size or lost with its stream.                                       *)
THEOREM AssetsStored == MCSpec => []AssetsWhole
<1>1. AskedInv => AssetsWhole
  BY WholeAssets DEF AskedInv, AssetsWhole
<1> QED BY <1>1, Asked, PTL

(* read_framed and the datagrams' prefix (streams.rs:60-78, bytes.rs:6-21):   *)
(* headers are read as they were written, the data behind them stays whole.  *)
THEOREM HeadersFound == MCSpec => []HeadersRead
<1>1. AskedInv => HeadersRead
  BY Headers, Datagrams DEF AskedInv, HeadersRead
<1> QED BY <1>1, Asked, PTL

(* load_asset_data (paths.rs:3-14): a request loads assets only, and the      *)
(* same ones by a path as by its key.                                       *)
THEOREM KeysKept == MCSpec => []KeysKeepFiles
<1>1. AskedInv => KeysKeepFiles
  BY KeysOfPaths DEF AskedInv, KeysKeepFiles
<1> QED BY <1>1, Asked, PTL

(* path_to_key (paths.rs:16-46): a request of the key under which a file is    *)
(* pre-cached would load that file.                                         *)
THEOREM FilesFound == MCSpec => []FilesFoundByKey
<1>1. AskedInv => FilesFoundByKey
  BY KeysOfFiles DEF AskedInv, FilesFoundByKey
<1> QED BY <1>1, Asked, PTL
=============================================================================
