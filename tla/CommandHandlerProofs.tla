------------------------ MODULE CommandHandlerProofs ------------------------
(***************************************************************************)
(* Proofs about the module CommandHandler: a session's invariant           *)
(* (SessionInv) and from it the agreement of every report with the latest  *)
(* scans.  The reports are loops over the vectors of the store; what a     *)
(* loop leaves behind is established first, from VectorLoopProofs, for     *)
(* each of the loop bodies, then the four commands that write the store    *)
(* are followed, then what the reading commands make of it.                *)
(***************************************************************************)
EXTENDS CommandHandler, NetworkStateProofs, FiniteSetTheorems

-----------------------------------------------------------------------------
(* An interval from one counts to its end.                                 *)
LEMMA CountOfInterval ==
  ASSUME NEW n \in Nat
  PROVE  IsFiniteSet(1..n) /\ Cardinality(1..n) = n
<1>1. IsFiniteSet(1..n) /\ Cardinality(1..n) = IF 1 > n THEN 0 ELSE n - 1 + 1
  <2>1. 1 \in Int /\ n \in Int
    OBVIOUS
  <2> QED
    BY <2>1, FS_Interval, Zenon
<1> QED
  BY <1>1

(* Loops over vectors.                                                     *)
Copying    == INSTANCE VectorLoopProofs WITH Step <- KeepIf
Adding     == INSTANCE VectorLoopProofs WITH Step <- Plus
Appending  == INSTANCE VectorLoopProofs WITH Step <- Followed

(* w consists of the elements of v at the indices, in order: its k-th one  *)
(* is the one at the k-th index.                                           *)
PicksAt(w, v, indices, at) ==
  /\ at \in [1..Len(w) -> indices]
  /\ \A j, k \in 1..Len(w) : j < k => at[j] < at[k]
  /\ \A i \in indices : \E k \in 1..Len(w) : at[k] = i
  /\ \A k \in 1..Len(w) : w[k] = v[at[k]]

LEMMA PicksNothing ==
  ASSUME NEW v
  PROVE  \E at : PicksAt(<<>>, v, {}, at)
<1>1. PicksAt(<<>>, v, {}, [k \in 1..0 |-> 0])
  BY DEF PicksAt
<1> QED
  BY <1>1

(* One more element is copied.                                             *)
LEMMA PicksOneMore ==
  ASSUME NEW T, NEW v, NEW w \in Seq(T), NEW indices \in SUBSET Nat, NEW m \in Nat,
         v[m] \in T,
         \A i \in indices : i < m, \E at : PicksAt(w, v, indices, at)
  PROVE  \E at : PicksAt(Append(w, v[m]), v, indices \cup {m}, at)
<1> DEFINE x == Append(w, v[m])
           n == Len(w)
<1>1. PICK at : PicksAt(w, v, indices, at)
  OBVIOUS
<1> DEFINE more == [k \in 1..n + 1 |-> IF k = n + 1 THEN m ELSE at[k]]
<1>2. n \in Nat /\ Len(x) = n + 1 /\ x[n + 1] = v[m] /\ \A k \in 1..n : x[k] = w[k]
  OBVIOUS
<1>3. /\ \A k \in 1..n : more[k] = at[k] /\ at[k] \in indices /\ at[k] < m
      /\ more[n + 1] = m /\ n + 1 \in 1..n + 1
  <2>1. \A k \in 1..n : at[k] \in indices /\ at[k] < m
    BY <1>1 DEF PicksAt
  <2>2. \A k \in 1..n : k \in 1..n + 1 /\ k # n + 1
    BY <1>2
  <2>3. n + 1 \in 1..n + 1
    BY <1>2
  <2> QED
    BY <2>1, <2>2, <2>3, Zenon
<1>4. \A k \in 1..n + 1 : k \in 1..n \/ k = n + 1
  BY <1>2
<1>5. more \in [1..n + 1 -> indices \cup {m}]
  BY <1>3, <1>4
<1> HIDE DEF more, x
<1>6. ASSUME NEW j \in 1..n + 1, NEW k \in 1..n + 1, j < k PROVE more[j] < more[k]
  <2>1. j \in 1..n
    BY <1>2, <1>6
  <2> QED
    BY <1>1, <1>3, <1>4, <1>6, <2>1 DEF PicksAt
<1>7. ASSUME NEW i \in indices \cup {m} PROVE \E k \in 1..n + 1 : more[k] = i
  <2>1. CASE i = m
    BY <1>3, <2>1
  <2>2. CASE i # m
    <3>1. PICK k \in 1..n : at[k] = i
      BY <1>1, <2>2 DEF PicksAt
    <3>2. k \in 1..n + 1 /\ more[k] = i
      BY <1>2, <1>3, <3>1
    <3> QED
      BY <3>2
  <2> QED
    BY <2>1, <2>2
<1>8. ASSUME NEW k \in 1..n + 1 PROVE x[k] = v[more[k]]
  BY <1>1, <1>2, <1>3, <1>4 DEF PicksAt
<1>9. PicksAt(x, v, indices \cup {m}, more)
  BY <1>2, <1>5, <1>6, <1>7, <1>8 DEF PicksAt
<1> QED
  BY <1>9 DEF x

(* Copying the elements that satisfy a condition gives just these, in      *)
(* their order.                                                            *)
LEMMA SelectedPicks ==
  ASSUME NEW T, NEW v \in Seq(T), NEW indices \in SUBSET DOMAIN v
  PROVE  /\ Selected(v, indices) \in Seq(T)
         /\ \E at : PicksAt(Selected(v, indices), v, indices, at)
<1> DEFINE n == Len(v)
           turns == [i \in 1..n |-> [element |-> v[i], passes |-> i \in indices]]
           Upto(m) == {i \in indices : i <= m}
<1>0. n \in Nat /\ DOMAIN v = 1..n /\ \A i \in 1..n : v[i] \in T
  OBVIOUS
<1>1. Len(turns) = n /\ Len(turns) \in Nat
  BY <1>0
<1> HIDE DEF turns
<1>2. PICK after : Copying!States(<<>>, turns, after)
  BY <1>1, Copying!LoopHasStates
<1>3. /\ after[0] = <<>> /\ \A m \in 1..n : after[m] = KeepIf(after[m - 1], turns[m])
      /\ Selected(v, indices) = after[n]
  BY <1>0, <1>1, <1>2 DEF Copying!States, Selected, Selecting!Run, Copying!Run, turns
<1> DEFINE Done == {m \in 0..n : /\ after[m] \in Seq(T)
                                 /\ \E at : PicksAt(after[m], v, Upto(m), at)}
<1>4. 0 \in Done
  <2>1. Upto(0) = {} /\ 0 \in 0..n
    BY <1>0
  <2>2. after[0] \in Seq(T)
    BY <1>3
  <2>3. \E at : PicksAt(after[0], v, Upto(0), at)
    <3> HIDE DEF Upto
    <3> QED
      BY <1>3, <2>1, PicksNothing
  <2> HIDE DEF Upto
  <2> QED
    BY <2>1, <2>2, <2>3
<1>5. ASSUME NEW m \in 1..n, m - 1 \in Done PROVE m \in Done
  <2>1. after[m - 1] \in Seq(T) /\ \E at : PicksAt(after[m - 1], v, Upto(m - 1), at)
    BY <1>5
  <2>2. m \in 0..n /\ m \in Nat
    BY <1>0
  <2>3. turns[m].element = v[m] /\ turns[m].passes = (m \in indices)
    BY DEF turns
  <2>4. v[m] \in T
    BY <1>0
  <2>5. CASE m \in indices
    <3>1. after[m] = Append(after[m - 1], v[m])
      BY <1>3, <2>3, <2>5 DEF KeepIf
    <3>2. Upto(m) = Upto(m - 1) \cup {m}
      BY <1>0, <2>5
    <3>3. Upto(m - 1) \in SUBSET Nat /\ \A i \in Upto(m - 1) : i < m
      BY <1>0
    <3>4. after[m] \in Seq(T)
      BY <2>1, <2>4, <3>1
    <3> HIDE DEF Upto
    <3>5. \E at : PicksAt(after[m], v, Upto(m), at)
      <4>1. \E at : PicksAt(Append(after[m - 1], v[m]), v, Upto(m - 1) \cup {m}, at)
        BY <2>1, <2>2, <2>4, <3>3, PicksOneMore, Zenon
      <4> QED
        BY <3>1, <3>2, <4>1, Zenon
    <3> QED
      BY <2>2, <3>4, <3>5
  <2>6. CASE m \notin indices
    <3>1. after[m] = after[m - 1]
      BY <1>3, <2>3, <2>6 DEF KeepIf
    <3>2. Upto(m) = Upto(m - 1)
      BY <1>0, <2>6
    <3> HIDE DEF Upto
    <3> QED
      BY <2>1, <2>2, <3>1, <3>2
  <2> HIDE DEF Done
  <2> QED
    BY <2>5, <2>6
<1>6. n \in Done
  <2> HIDE DEF Done
  <2>1. \A m \in 0..n : m \in Done
    BY <1>0, <1>4, <1>5, Copying!UpTo
  <2> QED
    BY <1>0, <2>1
<1>7. Upto(n) = indices
  BY <1>0
<1> HIDE DEF Upto
<1> QED
  BY <1>3, <1>6, <1>7

(* There are as many of them as indices.                                   *)
LEMMA SelectedCounts ==
  ASSUME NEW T, NEW v \in Seq(T), NEW indices \in SUBSET DOMAIN v
  PROVE  /\ IsFiniteSet(indices)
         /\ Len(Selected(v, indices)) = Cardinality(indices)
<1> DEFINE n == Len(Selected(v, indices))
<1>1. PICK at : PicksAt(Selected(v, indices), v, indices, at)
  BY SelectedPicks
<1>2. n \in Nat
  BY SelectedPicks
<1>3. at \in [1..n -> indices] /\ \A i \in indices : \E k \in 1..n : at[k] = i
  BY <1>1 DEF PicksAt
<1>4. ASSUME NEW j \in 1..n, NEW k \in 1..n, at[j] = at[k] PROVE j = k
  <2>1. at[j] \in Nat /\ at[k] \in Nat
    BY <1>3
  <2>2. ~(j < k) /\ ~(k < j)
    BY <1>1, <1>4, <2>1 DEF PicksAt
  <2> QED
    BY <1>2, <2>2
<1>5. at \in Bijection(1..n, indices)
  BY <1>3, <1>4 DEF Bijection, Injection, Surjection, IsInjective
<1>6. ExistsBijection(1..n, indices)
  BY <1>5 DEF ExistsBijection
<1> HIDE DEF n
<1>7. IsFiniteSet(indices) /\ Cardinality(indices) = n
  BY <1>2, <1>6, FS_NatBijection, FS_CountingElements
<1> QED
  BY <1>7 DEF n
(* Things that differ are as many as their distinct images.                *)
LEMMA AsManyImages ==
  ASSUME NEW S, IsFiniteSet(S), NEW f, \A i, j \in S : f[i] = f[j] => i = j
  PROVE  /\ IsFiniteSet({f[i] : i \in S})
         /\ Cardinality({f[i] : i \in S}) = Cardinality(S)
<1> DEFINE T == {f[i] : i \in S}
           g == [i \in S |-> f[i]]
<1>1. g \in Bijection(S, T)
  BY DEF Bijection, Injection, Surjection, IsInjective
<1>2. ExistsBijection(S, T)
  BY <1>1 DEF ExistsBijection
<1> HIDE DEF T
<1>3. IsFiniteSet(T) /\ Cardinality(T) = Cardinality(S)
  BY <1>2, FS_Bijection
<1> QED
  BY <1>3 DEF T

(* The sum of the sizes of disjoint sets is the size of their union.       *)
LEMMA TotalOfParts ==
  ASSUME NEW counts \in Seq(Nat), NEW parts,
         \A k \in 1..Len(counts) : IsFiniteSet(parts[k]) /\ Cardinality(parts[k]) = counts[k],
         \A j, k \in 1..Len(counts) : j # k => parts[j] \cap parts[k] = {}
  PROVE  /\ IsFiniteSet(UNION {parts[k] : k \in 1..Len(counts)})
         /\ Cardinality(UNION {parts[k] : k \in 1..Len(counts)}) = Total(counts)
<1> DEFINE n == Len(counts)
           Upto(m) == UNION {parts[k] : k \in 1..m}
<1>0. n \in Nat /\ \A k \in 1..n : counts[k] \in Nat
  OBVIOUS
<1>1. PICK after : Adding!States(0, counts, after)
  BY <1>0, Adding!LoopHasStates
<1>2. /\ after[0] = 0 /\ \A m \in 1..n : after[m] = after[m - 1] + counts[m]
      /\ Total(counts) = after[n]
  BY <1>1 DEF Adding!States, Plus, Total, Summing!Run, Adding!Run
<1> DEFINE Done == {m \in 0..n : IsFiniteSet(Upto(m)) /\ Cardinality(Upto(m)) = after[m]}
<1>3. 0 \in Done
  <2>1. Upto(0) = {} /\ 0 \in 0..n
    BY <1>0
  <2> HIDE DEF Upto
  <2> QED
    BY <1>2, <2>1, FS_EmptySet
<1>4. ASSUME NEW m \in 1..n, m - 1 \in Done PROVE m \in Done
  <2>1. /\ IsFiniteSet(Upto(m - 1)) /\ Cardinality(Upto(m - 1)) = after[m - 1]
        /\ IsFiniteSet(parts[m]) /\ Cardinality(parts[m]) = counts[m]
    BY <1>4
  <2>2. Upto(m) = Upto(m - 1) \cup parts[m]
    <3>1. \A k \in 1..m : k \in 1..m - 1 \/ k = m
      BY <1>0
    <3>2. \A k \in 1..m - 1 : k \in 1..m
      BY <1>0
    <3>3. m \in 1..m
      BY <1>0
    <3> QED
      BY <3>1, <3>2, <3>3
  <2>3. Upto(m - 1) \cap parts[m] = {}
    <3>1. \A k \in 1..m - 1 : k \in 1..n /\ k # m
      BY <1>0
    <3>2. \A k \in 1..m - 1 : parts[k] \cap parts[m] = {}
      BY <3>1
    <3> QED
      BY <3>2
  <2>4. m \in 0..n
    BY <1>0
  <2> HIDE DEF Upto
  <2>5. /\ IsFiniteSet(Upto(m - 1) \cup parts[m])
        /\ Cardinality(Upto(m - 1) \cup parts[m])
             = Cardinality(Upto(m - 1)) + Cardinality(parts[m])
    <3>1. Cardinality(Upto(m - 1)) \in Nat /\ Cardinality(parts[m]) \in Nat
      BY <2>1, FS_CardinalityType
    <3>2. Cardinality(Upto(m - 1) \cap parts[m]) = 0
      BY <2>3, FS_EmptySet
    <3>3. /\ IsFiniteSet(Upto(m - 1) \cup parts[m])
          /\ Cardinality(Upto(m - 1) \cup parts[m])
               = Cardinality(Upto(m - 1)) + Cardinality(parts[m])
                   - Cardinality(Upto(m - 1) \cap parts[m])
      <4> DEFINE P == Upto(m - 1)
      <4> HIDE DEF P
      <4> QED
        BY <2>1, FS_Union DEF P
    <3> QED
      BY <3>1, <3>2, <3>3
  <2> QED
    BY <1>2, <2>1, <2>2, <2>4, <2>5
<1>5. n \in Done
  <2> HIDE DEF Done
  <2>1. \A m \in 0..n : m \in Done
    BY <1>0, <1>3, <1>4, Adding!UpTo
  <2> QED
    BY <1>0, <2>1
<1> QED
  BY <1>2, <1>5

(* Collected rows are those of all vectors, and as many.                   *)
LEMMA JoinedRows ==
  ASSUME NEW T, NEW vs \in Seq(Seq(T)), NEW counts \in Seq(Nat), Len(counts) = Len(vs),
         \A k \in 1..Len(vs) : counts[k] = Len(vs[k])
  PROVE  /\ Joined(vs) \in Seq(T)
         /\ Len(Joined(vs)) = Total(counts)
         /\ Range(Joined(vs)) = UNION {Range(vs[k]) : k \in 1..Len(vs)}
<1> DEFINE n == Len(vs)
           Upto(m) == UNION {Range(vs[k]) : k \in 1..m}
<1>0. n \in Nat /\ \A k \in 1..n : vs[k] \in Seq(T) /\ counts[k] = Len(vs[k])
  OBVIOUS
<1>1. PICK after : Appending!States(<<>>, vs, after)
  BY <1>0, Appending!LoopHasStates
<1>2. PICK sum : Adding!States(0, counts, sum)
  BY <1>0, Adding!LoopHasStates
<1>3. /\ after[0] = <<>> /\ \A m \in 1..n : after[m] = after[m - 1] \o vs[m]
      /\ Joined(vs) = after[n]
  BY <1>1 DEF Appending!States, Followed, Joined, Joining!Run, Appending!Run
<1>4. /\ sum[0] = 0 /\ \A m \in 1..n : sum[m] = sum[m - 1] + counts[m]
      /\ Total(counts) = sum[n]
  BY <1>2 DEF Adding!States, Plus, Total, Summing!Run, Adding!Run
<1> DEFINE Done == {m \in 0..n : /\ after[m] \in Seq(T)
                                 /\ Len(after[m]) = sum[m]
                                 /\ Range(after[m]) = Upto(m)}
<1>5. 0 \in Done
  <2>1. Upto(0) = {} /\ 0 \in 0..n
    BY <1>0
  <2>2. <<>> \in Seq(T) /\ Len(<<>>) = 0 /\ Range(<<>>) = {}
    BY DEF Range
  <2> HIDE DEF Upto
  <2> QED
    BY <1>3, <1>4, <2>1, <2>2
<1>6. ASSUME NEW m \in 1..n, m - 1 \in Done PROVE m \in Done
  <2>1. /\ after[m - 1] \in Seq(T) /\ Len(after[m - 1]) = sum[m - 1]
        /\ Range(after[m - 1]) = Upto(m - 1)
        /\ vs[m] \in Seq(T)
    BY <1>0, <1>6
  <2>2. Upto(m) = Upto(m - 1) \cup Range(vs[m])
    <3>1. \A k \in 1..m : k \in 1..m - 1 \/ k = m
      BY <1>0
    <3>2. \A k \in 1..m - 1 : k \in 1..m
      BY <1>0
    <3>3. m \in 1..m
      BY <1>0
    <3> QED
      BY <3>1, <3>2, <3>3
  <2>3. m \in 0..n
    BY <1>0
  <2>4. ASSUME NEW s \in Seq(T), NEW t \in Seq(T)
        PROVE  /\ s \o t \in Seq(T) /\ Len(s \o t) = Len(s) + Len(t)
               /\ Range(s \o t) = Range(s) \cup Range(t)
    <3>1. /\ s \o t \in Seq(T) /\ Len(s \o t) = Len(s) + Len(t)
          /\ \A k \in 1..Len(s) + Len(t) :
               (s \o t)[k] = IF k <= Len(s) THEN s[k] ELSE t[k - Len(s)]
      OBVIOUS
    <3>2. ASSUME NEW k \in 1..Len(s) + Len(t) PROVE (s \o t)[k] \in Range(s) \cup Range(t)
      BY <3>1 DEF Range
    <3>3. ASSUME NEW k \in 1..Len(s) PROVE s[k] \in Range(s \o t)
      BY <3>1 DEF Range
    <3>4. ASSUME NEW k \in 1..Len(t) PROVE t[k] \in Range(s \o t)
      <4>1. /\ Len(s) + k \in 1..Len(s) + Len(t)
            /\ ~(Len(s) + k <= Len(s)) /\ Len(s) + k - Len(s) = k
        BY <3>1
      <4>2. (s \o t)[Len(s) + k] = t[Len(s) + k - Len(s)]
        BY <3>1, <4>1
      <4>4. (s \o t)[Len(s) + k] = t[k]
        BY <4>1, <4>2, Zenon
      <4>3. DOMAIN (s \o t) = 1..Len(s) + Len(t)
        BY <3>1
      <4> QED
        BY <4>1, <4>4, <4>3, Zenon DEF Range
    <3>5. /\ DOMAIN (s \o t) = 1..Len(s) + Len(t)
          /\ DOMAIN s = 1..Len(s) /\ DOMAIN t = 1..Len(t)
      BY <3>1
    <3>6. Range(s \o t) \subseteq Range(s) \cup Range(t)
      BY <3>2, <3>5, Zenon DEF Range
    <3>7. Range(s) \cup Range(t) \subseteq Range(s \o t)
      <4>1. Range(s) \subseteq Range(s \o t)
        BY <3>3, <3>5, Zenon DEF Range
      <4>2. Range(t) \subseteq Range(s \o t)
        BY <3>4, <3>5, Zenon DEF Range
      <4> QED
        BY <4>1, <4>2
    <3> QED
      BY <3>1, <3>6, <3>7, Zenon
  <2>5. /\ after[m] \in Seq(T) /\ Len(after[m]) = Len(after[m - 1]) + Len(vs[m])
        /\ Range(after[m]) = Range(after[m - 1]) \cup Range(vs[m])
    <3>1. after[m] = after[m - 1] \o vs[m]
      BY <1>3
    <3> QED
      BY <2>1, <2>4, <3>1
  <2>6. Len(after[m]) = sum[m]
    BY <1>0, <1>4, <2>1, <2>5
  <2> HIDE DEF Upto
  <2> QED
    BY <2>1, <2>2, <2>3, <2>5, <2>6
<1>7. n \in Done
  <2> HIDE DEF Done
  <2>1. \A m \in 0..n : m \in Done
    BY <1>0, <1>5, <1>6, Appending!UpTo
  <2> QED
    BY <1>0, <2>1
<1> QED
  BY <1>3, <1>4, <1>7

-----------------------------------------------------------------------------
(* The loops of the commands that write the store.                         *)
Seeking   == INSTANCE VectorLoopProofs WITH Step <- HostAdded
Storing   == INSTANCE VectorLoopProofs WITH Step <- ResultAdded
Recording == INSTANCE VectorLoopProofs WITH Step <- ServiceAdded

(* A discovery's hosts get one entry each.                                 *)
LEMMA HostsAreAdded ==
  ASSUME NEW found \in Seq(HostInfo)
  PROVE  /\ AddingHosts!Run(<<>>, found) \in Seq(HostInfo)
         /\ UniqueIPs(AddingHosts!Run(<<>>, found))
<1> DEFINE n == Len(found)
<1>0. n \in Nat /\ \A m \in 1..n : found[m] \in HostInfo
  OBVIOUS
<1>1. PICK after : Seeking!States(<<>>, found, after)
  BY <1>0, Seeking!LoopHasStates
<1>2. /\ after[0] = <<>> /\ \A m \in 1..n : after[m] = HostAdded(after[m - 1], found[m])
      /\ AddingHosts!Run(<<>>, found) = after[n]
  BY <1>1 DEF Seeking!States, AddingHosts!Run, Seeking!Run
<1> DEFINE Done == {m \in 0..n : after[m] \in Seq(HostInfo) /\ UniqueIPs(after[m])}
<1>3. 0 \in Done
  <2>1. <<>> \in Seq(HostInfo) /\ UniqueIPs(<<>>)
    BY DEF UniqueIPs
  <2>2. 0 \in 0..n
    BY <1>0
  <2> QED
    BY <1>2, <2>1, <2>2, Zenon
<1>4. ASSUME NEW m \in 1..n, m - 1 \in Done PROVE m \in Done
  <2>1. m \in 0..n /\ after[m - 1] \in Seq(HostInfo) /\ UniqueIPs(after[m - 1])
    BY <1>0, <1>4
  <2>2. /\ HostAdded(after[m - 1], found[m]) \in Seq(HostInfo)
        /\ UniqueIPs(HostAdded(after[m - 1], found[m]))
    BY <1>0, <2>1, HostAddedKeeps
  <2> QED
    BY <1>2, <2>1, <2>2
<1>5. n \in Done
  <2> HIDE DEF Done
  <2>1. \A m \in 0..n : m \in Done
    BY <1>0, <1>3, <1>4, Seeking!UpTo
  <2> QED
    BY <1>0, <2>1
<1> QED
  BY <1>2, <1>5

(* A map after one more key, and after the first m of a vector of keys and *)
(* values: every key has the value of some turn that had the key, or its   *)
(* earlier one if none had.                                                *)
Rebound(f, g, m, keyOf, valueOf) ==
  /\ DOMAIN g = DOMAIN f \cup {keyOf[k] : k \in 1..m}
  /\ \A key \in DOMAIN g :
       \/ \E k \in 1..m : key = keyOf[k] /\ g[key] = valueOf[k]
       \/ key \in DOMAIN f /\ g[key] = f[key] /\ \A k \in 1..m : key # keyOf[k]

(* One more key is bound.                                                  *)
LEMMA ReboundOnceMore ==
  ASSUME NEW f, NEW g, NEW m \in Nat \ {0}, NEW keyOf, NEW valueOf,
         Rebound(f, g, m - 1, keyOf, valueOf)
  PROVE  Rebound(f, Table!Bind(g, keyOf[m], valueOf[m]), m, keyOf, valueOf)
<1> DEFINE h == Table!Bind(g, keyOf[m], valueOf[m])
<1>1. /\ DOMAIN h = DOMAIN g \cup {keyOf[m]}
      /\ \A key \in DOMAIN h : h[key] = IF key = keyOf[m] THEN valueOf[m] ELSE g[key]
  BY DEF Table!Bind
<1> HIDE DEF h
<1>2. /\ \A k \in 1..m : k \in 1..m - 1 \/ k = m
      /\ \A k \in 1..m - 1 : k \in 1..m
      /\ m \in 1..m
  OBVIOUS
<1>3. DOMAIN h = DOMAIN f \cup {keyOf[k] : k \in 1..m}
  <2>1. {keyOf[k] : k \in 1..m} = {keyOf[k] : k \in 1..m - 1} \cup {keyOf[m]}
    BY <1>2
  <2>2. DOMAIN g = DOMAIN f \cup {keyOf[k] : k \in 1..m - 1}
    BY DEF Rebound
  <2> QED
    BY <1>1, <2>1, <2>2
<1>4. ASSUME NEW key \in DOMAIN h
      PROVE  \/ \E k \in 1..m : key = keyOf[k] /\ h[key] = valueOf[k]
             \/ key \in DOMAIN f /\ h[key] = f[key] /\ \A k \in 1..m : key # keyOf[k]
  <2>1. CASE key = keyOf[m]
    <3>1. h[key] = valueOf[m]
      BY <1>1, <2>1
    <3> QED
      BY <1>2, <2>1, <3>1
  <2>2. CASE key # keyOf[m]
    <3>1. h[key] = g[key] /\ key \in DOMAIN g
      BY <1>1, <2>2
    <3>2. CASE \E k \in 1..m - 1 : key = keyOf[k] /\ g[key] = valueOf[k]
      BY <1>2, <3>1, <3>2
    <3>3. CASE key \in DOMAIN f /\ g[key] = f[key] /\ \A k \in 1..m - 1 : key # keyOf[k]
      BY <1>2, <2>2, <3>1, <3>3
    <3> QED
      BY <3>1, <3>2, <3>3 DEF Rebound
  <2> QED
    BY <2>1, <2>2
<1>5. Rebound(f, h, m, keyOf, valueOf)
  BY <1>3, <1>4 DEF Rebound
<1> QED
  BY <1>5 DEF h

LEMMA ReboundByNothing ==
  ASSUME NEW f, NEW keyOf, NEW valueOf
  PROVE  Rebound(f, f, 0, keyOf, valueOf)
BY DEF Rebound

(* The results of a scan rebind their ports, and keep the keys unique.     *)
ResultInfo == [ip : IPs, port : PortNumbers, open : BOOLEAN]
KeysOf(found) == [k \in 1..Len(found) |-> <<found[k].ip, found[k].port>>]
PortResults(results) ==
  [k \in 1..Len(results) |-> [port |-> results[k].port, open |-> results[k].open]]

LEMMA ResultsAreAdded ==
  ASSUME NEW hps \in Seq(HostPorts), UniqueHostPorts(hps), NEW results \in Seq(ResultInfo)
  PROVE  /\ AddingResults!Run(hps, results) \in Seq(HostPorts)
         /\ UniqueHostPorts(AddingResults!Run(hps, results))
         /\ Rebound(PortTableOf(hps), PortTableOf(AddingResults!Run(hps, results)),
                    Len(results), KeysOf(results), PortResults(results))
<1> DEFINE n == Len(results)
<1>0. /\ n \in Nat
      /\ \A m \in 1..n : /\ results[m].ip \in IPs
                         /\ PortResults(results)[m] \in PortInfo
                         /\ KeysOf(results)[m] = <<results[m].ip, PortResults(results)[m].port>>
  <2>1. n \in Nat /\ \A m \in 1..n : results[m] \in ResultInfo
    OBVIOUS
  <2>2. ASSUME NEW m \in 1..n
        PROVE  /\ results[m].ip \in IPs
               /\ PortResults(results)[m] \in PortInfo
               /\ KeysOf(results)[m] = <<results[m].ip, PortResults(results)[m].port>>
    <3>1. /\ results[m].ip \in IPs /\ results[m].port \in PortNumbers
          /\ results[m].open \in BOOLEAN
      BY <2>1 DEF ResultInfo
    <3>2. /\ PortResults(results)[m] = [port |-> results[m].port, open |-> results[m].open]
          /\ KeysOf(results)[m] = <<results[m].ip, results[m].port>>
      BY DEF PortResults, KeysOf
    <3> QED
      BY <3>1, <3>2 DEF PortInfo
  <2> QED
    BY <2>1, <2>2
<1>1. PICK after : Storing!States(hps, results, after)
  BY <1>0, Storing!LoopHasStates
<1>2. /\ after[0] = hps
      /\ \A m \in 1..n : after[m] = PortAdded(after[m - 1], results[m].ip, PortResults(results)[m])
      /\ AddingResults!Run(hps, results) = after[n]
  BY <1>1 DEF Storing!States, AddingResults!Run, Storing!Run, ResultAdded, PortResults
<1> DEFINE f == PortTableOf(hps)
           Done == {m \in 0..n : /\ after[m] \in Seq(HostPorts) /\ UniqueHostPorts(after[m])
                                 /\ Rebound(f, PortTableOf(after[m]), m,
                                            KeysOf(results), PortResults(results))}
<1> HIDE DEF f
<1>3. 0 \in Done
  <2>1. Rebound(f, PortTableOf(after[0]), 0, KeysOf(results), PortResults(results))
    BY <1>2, ReboundByNothing, Zenon DEF f
  <2> QED
    BY <1>0, <1>2, <2>1
<1>4. ASSUME NEW m \in 1..n, m - 1 \in Done PROVE m \in Done
  <2>1. /\ m \in 0..n /\ m \in Nat \ {0}
        /\ after[m - 1] \in Seq(HostPorts) /\ UniqueHostPorts(after[m - 1])
        /\ Rebound(f, PortTableOf(after[m - 1]), m - 1, KeysOf(results), PortResults(results))
    BY <1>0, <1>4
  <2>2. /\ results[m].ip \in IPs /\ PortResults(results)[m] \in PortInfo
        /\ KeysOf(results)[m] = <<results[m].ip, PortResults(results)[m].port>>
    BY <1>0
  <2>3. after[m] = PortAdded(after[m - 1], results[m].ip, PortResults(results)[m])
    BY <1>2
  <2>4. after[m] \in Seq(HostPorts) /\ UniqueHostPorts(after[m])
    BY <2>1, <2>2, <2>3, PortAddedKeeps, Zenon
  <2>5. PortTableOf(after[m])
          = Table!Bind(PortTableOf(after[m - 1]), KeysOf(results)[m], PortResults(results)[m])
    BY <2>1, <2>2, <2>3, PortAddedBinds, Zenon
  <2>6. Rebound(f, PortTableOf(after[m]), m, KeysOf(results), PortResults(results))
    BY <2>1, <2>5, ReboundOnceMore, Zenon
  <2> QED
    BY <2>1, <2>4, <2>6
<1>5. n \in Done
  <2> HIDE DEF Done
  <2>1. \A m \in 0..n : m \in Done
    BY <1>0, <1>3, <1>4, Storing!UpTo
  <2> QED
    BY <1>0, <2>1
<1> QED
  BY <1>2, <1>5 DEF f

(* The services detected rebind theirs, and no other entry changes.        *)
LEMMA EntryIsOldOrNew ==
  ASSUME NEW ss \in Seq(ServiceInfo), UniqueServices(ss), NEW s \in ServiceInfo
  PROVE  \A i \in DOMAIN ServiceAdded(ss, s) :
           \/ ServiceAdded(ss, s)[i] = s
           \/ i \in DOMAIN ss /\ ServiceAdded(ss, s)[i] = ss[i]
<1> DEFINE S == ServicesAt(ss, s.ip, s.port)
           t == ServiceAdded(ss, s)
<1>1. S \in SUBSET DOMAIN ss /\ \A i, j \in S : i = j
  BY DEF ServicesAt, UniqueServices
<1>2. \E k \in DOMAIN t :
        /\ t[k] = s /\ S \subseteq {k} /\ (k \in DOMAIN ss => k \in S)
        /\ \A i \in DOMAIN t : i # k => i \in DOMAIN ss /\ t[i] = ss[i]
  BY <1>1, UpsertResult DEF ServiceAdded
<1> HIDE DEF t
<1>3. \A i \in DOMAIN t : t[i] = s \/ (i \in DOMAIN ss /\ t[i] = ss[i])
  BY <1>2
<1> QED
  BY <1>3 DEF t

LEMMA ServicesAreAdded ==
  ASSUME NEW ss \in Seq(ServiceInfo), UniqueServices(ss), NEW found \in Seq(ServiceInfo)
  PROVE  LET t == AddingServices!Run(ss, found) IN
         /\ t \in Seq(ServiceInfo) /\ UniqueServices(t)
         /\ Rebound(ServiceTableOf(ss), ServiceTableOf(t), Len(found), KeysOf(found), found)
         /\ \A i \in DOMAIN t : \/ \E k \in 1..Len(found) : t[i] = found[k]
                                \/ i \in DOMAIN ss /\ t[i] = ss[i]
<1> DEFINE n == Len(found)
           New(t, m) == \A i \in DOMAIN t : \/ \E k \in 1..m : t[i] = found[k]
                                            \/ i \in DOMAIN ss /\ t[i] = ss[i]
<1>0. /\ n \in Nat
      /\ \A m \in 1..n : /\ found[m] \in ServiceInfo
                         /\ KeysOf(found)[m] = <<found[m].ip, found[m].port>>
  BY DEF KeysOf
<1>1. PICK after : Recording!States(ss, found, after)
  BY <1>0, Recording!LoopHasStates
<1>2. /\ after[0] = ss /\ \A m \in 1..n : after[m] = ServiceAdded(after[m - 1], found[m])
      /\ AddingServices!Run(ss, found) = after[n]
  BY <1>1 DEF Recording!States, AddingServices!Run, Recording!Run
<1> DEFINE f == ServiceTableOf(ss)
           Done == {m \in 0..n : /\ after[m] \in Seq(ServiceInfo) /\ UniqueServices(after[m])
                                 /\ Rebound(f, ServiceTableOf(after[m]), m, KeysOf(found), found)
                                 /\ New(after[m], m)}
<1> HIDE DEF f
<1>3. 0 \in Done
  <2>1. Rebound(f, ServiceTableOf(after[0]), 0, KeysOf(found), found)
    BY <1>2, ReboundByNothing, Zenon DEF f
  <2>2. New(after[0], 0)
    BY <1>2
  <2> HIDE DEF New
  <2> QED
    BY <1>0, <1>2, <2>1, <2>2
<1>4. ASSUME NEW m \in 1..n, m - 1 \in Done PROVE m \in Done
  <2>1. /\ m \in 0..n /\ m \in Nat \ {0}
        /\ after[m - 1] \in Seq(ServiceInfo) /\ UniqueServices(after[m - 1])
        /\ Rebound(f, ServiceTableOf(after[m - 1]), m - 1, KeysOf(found), found)
        /\ New(after[m - 1], m - 1)
    BY <1>0, <1>4
  <2>2. found[m] \in ServiceInfo /\ KeysOf(found)[m] = <<found[m].ip, found[m].port>>
    BY <1>0
  <2>3. after[m] = ServiceAdded(after[m - 1], found[m])
    BY <1>2
  <2>4. after[m] \in Seq(ServiceInfo) /\ UniqueServices(after[m])
    BY <2>1, <2>2, <2>3, ServiceAddedKeeps, Zenon
  <2>5. ServiceTableOf(after[m])
          = Table!Bind(ServiceTableOf(after[m - 1]), KeysOf(found)[m], found[m])
    BY <2>1, <2>2, <2>3, ServiceAddedBinds, Zenon
  <2>6. Rebound(f, ServiceTableOf(after[m]), m, KeysOf(found), found)
    BY <2>1, <2>5, ReboundOnceMore, Zenon
  <2>7. New(after[m], m)
    <3>1. \A i \in DOMAIN after[m] :
            \/ after[m][i] = found[m]
            \/ i \in DOMAIN after[m - 1] /\ after[m][i] = after[m - 1][i]
      <4>1. \A i \in DOMAIN ServiceAdded(after[m - 1], found[m]) :
              \/ ServiceAdded(after[m - 1], found[m])[i] = found[m]
              \/ /\ i \in DOMAIN after[m - 1]
                 /\ ServiceAdded(after[m - 1], found[m])[i] = after[m - 1][i]
        BY <2>1, <2>2, EntryIsOldOrNew
      <4> QED
        BY <2>3, <4>1, Zenon
    <3>2. m \in 1..m /\ \A k \in 1..m - 1 : k \in 1..m
      BY <2>1
    <3> QED
      BY <2>1, <3>1, <3>2, Zenon
  <2> HIDE DEF New
  <2> QED
    BY <2>1, <2>4, <2>6, <2>7
<1>5. n \in Done
  <2> HIDE DEF Done
  <2>1. \A m \in 0..n : m \in Done
    BY <1>0, <1>3, <1>4, Recording!UpTo
  <2> QED
    BY <1>0, <2>1
<1> HIDE DEF New
<1>6. /\ after[n] \in Seq(ServiceInfo) /\ UniqueServices(after[n])
      /\ Rebound(f, ServiceTableOf(after[n]), n, KeysOf(found), found)
      /\ New(after[n], n)
  BY <1>5
<1> QED
  BY <1>2, <1>6, Zenon DEF f, New

-----------------------------------------------------------------------------
(* The inductive invariant.                                                *)

(* The services are those detected, each under the name it was given last. *)
DetectionsAreStored ==
  /\ DOMAIN serviceTable = DOMAIN identified
  /\ \A key \in DOMAIN identified : serviceTable[key].service = identified[key]

SessionInv == TypeOK /\ UniqueKeys /\ LatestScanWins /\ DetectionsAreStored

(* The same of the vectors and the histories, in the parts proved below.   *)
ScansIn(hps, obs) ==
  /\ DOMAIN PortTableOf(hps) = DOMAIN obs
  /\ \A key \in DOMAIN obs : PortTableOf(hps)[key].open = obs[key]
DetectionsIn(ss, ids) ==
  /\ DOMAIN ServiceTableOf(ss) = DOMAIN ids
  /\ \A key \in DOMAIN ids : ServiceTableOf(ss)[key].service = ids[key]
HistoriesTyped(obs, ids) ==
  /\ DOMAIN obs \subseteq IPs \X PortNumbers
  /\ \A key \in DOMAIN obs : obs[key] \in BOOLEAN
  /\ DOMAIN ids \subseteq DOMAIN obs
  /\ \A key \in DOMAIN ids : ids[key] \in DetectedNames
HostsIn(hs)  == hs \in Seq(HostInfo) /\ UniqueIPs(hs)
PortsIn(hps) == hps \in Seq(HostPorts) /\ UniqueHostPorts(hps)
ServicesIn(ss) == ss \in Seq(ServiceInfo) /\ UniqueServices(ss)

LEMMA SessionInvParts ==
  SessionInv <=> /\ HostsIn(hosts) /\ PortsIn(host_ports) /\ ServicesIn(services)
                 /\ ScansIn(host_ports, observed) /\ DetectionsIn(services, identified)
                 /\ HistoriesTyped(observed, identified)
<1>1. LatestScanWins <=> ScansIn(host_ports, observed)
  <2>1. DOMAIN PortTableOf(host_ports) = portKeys
    BY DEF PortTableOf, PortKeysOf, portKeys
  <2> QED
    BY <2>1, TablesAre DEF LatestScanWins, ScansIn
<1>2. DetectionsAreStored <=> DetectionsIn(services, identified)
  BY TablesAre, Zenon DEF DetectionsAreStored, DetectionsIn
<1>3. TypeOK /\ UniqueKeys <=> /\ HostsIn(hosts) /\ PortsIn(host_ports) /\ ServicesIn(services)
                               /\ HistoriesTyped(observed, identified)
  BY UniqueKeysParts, Zenon
     DEF TypeOK, StoreTypeOK, HostsIn, PortsIn, ServicesIn, HistoriesTyped
<1> QED
  BY <1>1, <1>2, <1>3 DEF SessionInv

LEMMA SessionInvPartsNext ==
  SessionInv' <=> /\ HostsIn(hosts') /\ PortsIn(host_ports') /\ ServicesIn(services')
                  /\ ScansIn(host_ports', observed') /\ DetectionsIn(services', identified')
                  /\ HistoriesTyped(observed', identified')
<1>1. LatestScanWins' <=> ScansIn(host_ports', observed')
  <2>1. DOMAIN PortTableOf(host_ports') = portKeys'
    BY DEF PortTableOf, PortKeysOf, portKeys
  <2> QED
    BY <2>1, TablesAre DEF LatestScanWins, ScansIn
<1>2. DetectionsAreStored' <=> DetectionsIn(services', identified')
  BY TablesAre, Zenon DEF DetectionsAreStored, DetectionsIn
<1>3. TypeOK' <=> /\ hosts' \in Seq(HostInfo) /\ host_ports' \in Seq(HostPorts)
                  /\ services' \in Seq(ServiceInfo) /\ HistoriesTyped(observed', identified')
  BY Zenon DEF TypeOK, StoreTypeOK, HistoriesTyped
<1>4. UniqueKeys' <=> UniqueIPs(hosts') /\ UniqueHostPorts(host_ports')
                        /\ UniqueServices(services')
  BY DEF UniqueKeys, UniqueIPs, UniqueHostPorts, UniquePorts, UniqueServices
<1> QED
  BY <1>1, <1>2, <1>3, <1>4 DEF SessionInv, HostsIn, PortsIn, ServicesIn

(* An empty store satisfies every part of it.                              *)
LEMMA EmptyStore ==
  /\ HostsIn(<<>>) /\ PortsIn(<<>>) /\ ServicesIn(<<>>)
  /\ ScansIn(<<>>, <<>>) /\ DetectionsIn(<<>>, <<>>) /\ HistoriesTyped(<<>>, <<>>)
<1>1. HostsIn(<<>>) /\ PortsIn(<<>>) /\ ServicesIn(<<>>)
  BY DEF HostsIn, PortsIn, ServicesIn, UniqueIPs, UniqueHostPorts, UniqueServices
<1>2. ScansIn(<<>>, <<>>) /\ DetectionsIn(<<>>, <<>>)
  <2>1. DOMAIN PortTableOf(<<>>) = {} /\ DOMAIN ServiceTableOf(<<>>) = {}
    BY EmptyTables DEF Table!Empty
  <2>2. DOMAIN <<>> = {}
    OBVIOUS
  <2> QED
    BY <2>1, <2>2, Zenon DEF ScansIn, DetectionsIn
<1>3. HistoriesTyped(<<>>, <<>>)
  BY DEF HistoriesTyped
<1> QED
  BY <1>1, <1>2, <1>3

LEMMA SessionInit == Init => SessionInv
BY SessionInvParts, EmptyStore DEF Init, StoreInit

-----------------------------------------------------------------------------
(* What the readers of the store find.                                     *)

(* The ports of a host are those scanned, each with its latest answer.     *)
LEMMA PortsAreObserved ==
  ASSUME SessionInv, NEW ip \in IPs
  PROVE  /\ getPorts(ip) \in Seq(PortInfo)
         /\ UniquePorts(getPorts(ip))
         /\ \A i \in DOMAIN getPorts(ip) :
              /\ <<ip, getPorts(ip)[i].port>> \in DOMAIN observed
              /\ getPorts(ip)[i].open = observed[<<ip, getPorts(ip)[i].port>>]
         /\ \A n : <<ip, n>> \in DOMAIN observed =>
              \E i \in DOMAIN getPorts(ip) : getPorts(ip)[i].port = n
<1> DEFINE ps == getPorts(ip)
           S == HostsAt(host_ports, ip)
<1>0. /\ host_ports \in Seq(HostPorts) /\ UniqueHostPorts(host_ports)
      /\ ScansIn(host_ports, observed)
  BY SessionInvParts DEF PortsIn
<1>1. DOMAIN observed = PortKeysOf(host_ports)
  BY <1>0 DEF ScansIn, PortTableOf
<1>2. CASE S = {}
  <2>1. ps = <<>>
    BY <1>2 DEF getPorts
  <2>2. \A n : <<ip, n>> \notin PortKeysOf(host_ports)
    BY <1>2 DEF PortKeysOf, HostsAt
  <2> QED
    BY <1>1, <2>1, <2>2 DEF UniquePorts
<1>3. CASE S # {}
  <2>1. S \in SUBSET Nat /\ \A i, j \in S : i = j
    BY <1>0 DEF HostsAt, UniqueHostPorts, UniqueIPs
  <2> DEFINE k == FirstOf(S)
  <2>2. k \in S
    BY <1>3, <2>1, FirstOfOnly
  <2>3. k \in DOMAIN host_ports /\ host_ports[k].ip = ip /\ ps = host_ports[k].ports
    BY <1>3, <2>2 DEF HostsAt, getPorts
  <2>4. \A j \in DOMAIN host_ports : host_ports[j].ip = ip => j = k
    BY <1>0, <2>3 DEF UniqueHostPorts, UniqueIPs
  <2> HIDE DEF k, ps
  <2>5. ps \in Seq(PortInfo) /\ UniquePorts(ps)
    <3>1. host_ports[k] \in HostPorts
      BY <1>0, <2>3
    <3> QED
      BY <1>0, <2>3, <3>1 DEF HostPorts, UniqueHostPorts
  <2>6. ASSUME NEW i \in DOMAIN ps
        PROVE  /\ <<ip, ps[i].port>> \in DOMAIN observed
               /\ ps[i].open = observed[<<ip, ps[i].port>>]
    <3>1. /\ <<host_ports[k].ip, host_ports[k].ports[i].port>> \in PortKeysOf(host_ports)
          /\ PortTableOf(host_ports)[<<host_ports[k].ip, host_ports[k].ports[i].port>>]
               = host_ports[k].ports[i]
      BY <1>0, <2>3, PortTableAt
    <3>2. /\ <<ip, ps[i].port>> \in DOMAIN observed
          /\ PortTableOf(host_ports)[<<ip, ps[i].port>>] = ps[i]
      BY <1>1, <2>3, <3>1
    <3> QED
      BY <1>0, <3>2, Zenon DEF ScansIn
  <2>7. ASSUME NEW n, <<ip, n>> \in DOMAIN observed
        PROVE  \E i \in DOMAIN ps : ps[i].port = n
    <3>1. PICK j \in DOMAIN host_ports : \E i \in DOMAIN host_ports[j].ports :
                  <<ip, n>> = <<host_ports[j].ip, host_ports[j].ports[i].port>>
      BY <1>1, <2>7 DEF PortKeysOf
    <3>2. j = k
      BY <2>4, <3>1
    <3> QED
      BY <2>3, <3>1, <3>2
  <2> QED
    BY <2>5, <2>6, <2>7 DEF ps
<1> QED
  BY <1>2, <1>3

(* OpenPorts keeps elements of the vector that are open.                   *)
LEMMA OpenPortsAre ==
  ASSUME NEW ports \in Seq(PortInfo)
  PROVE  /\ OpenPorts(ports) \in Seq(PortInfo)
         /\ \A k \in DOMAIN OpenPorts(ports) :
              \E i \in DOMAIN ports : ports[i].open /\ OpenPorts(ports)[k] = ports[i]
<1> DEFINE indices == {i \in DOMAIN ports : ports[i].open}
           open == Selected(ports, indices)
<1>1. indices \in SUBSET DOMAIN ports
  OBVIOUS
<1>2. open \in Seq(PortInfo) /\ \E at : PicksAt(open, ports, indices, at)
  <2> HIDE DEF indices
  <2> QED
    BY <1>1, SelectedPicks
<1> HIDE DEF open
<1>3. PICK at : PicksAt(open, ports, indices, at)
  BY <1>2
<1>4. ASSUME NEW k \in DOMAIN open
      PROVE  \E i \in DOMAIN ports : ports[i].open /\ open[k] = ports[i]
  <2>1. k \in 1..Len(open)
    BY <1>2
  <2>2. at[k] \in indices /\ open[k] = ports[at[k]]
    BY <1>3, <2>1 DEF PicksAt
  <2> QED
    BY <2>2
<1> QED
  BY <1>2, <1>4 DEF open, OpenPorts

(* Nobody is detected as Telnet, the name checkServiceExposure looks for.  *)
LEMMA RulesAreASequence ==
  DOMAIN Rules \subseteq Nat /\ \A k \in DOMAIN Rules : Rules[k].name # "Telnet"
<1>1. ASSUME NEW a, NEW b, NEW c, NEW d PROVE <<a, b, c, d>> \in Seq({a, b, c, d})
  OBVIOUS
<1>2. ASSUME NEW a, NEW b, NEW c, NEW d, NEW e, NEW f, NEW g
      PROVE  <<a, b, c, d, e, f, g>> \in Seq({a, b, c, d, e, f, g})
  OBVIOUS
<1>3. \E T : BannerRules \in Seq(T) /\ \A r \in T : r.name # "Telnet"
  <2> DEFINE a == Rule("SSH", Anywhere, {"SSH-"})
             b == Rule("FTP", {21}, {"220", "FTP"})
             c == Rule("HTTP", Anywhere, {"HTTP/"})
             d == Rule("SMTP", {25}, {"220"})
             e == Rule("MySQL", {3306}, {"text"})
             f == Rule("PostgreSQL", {5432}, {})
             g == Rule("Redis", {6379}, {"+", "-"})
  <2>1. BannerRules = <<a, b, c, d, e, f, g>>
    BY DEF BannerRules
  <2>2. /\ a.name # "Telnet" /\ b.name # "Telnet" /\ c.name # "Telnet" /\ d.name # "Telnet"
        /\ e.name # "Telnet" /\ f.name # "Telnet" /\ g.name # "Telnet"
    BY DEF Rule
  <2> HIDE DEF a, b, c, d, e, f, g
  <2>3. <<a, b, c, d, e, f, g>> \in Seq({a, b, c, d, e, f, g})
    BY <1>2
  <2> DEFINE S == {a, b, c, d, e, f, g}
  <2>4. \A r \in S : r.name # "Telnet"
    BY <2>2, Zenon
  <2>5. BannerRules \in Seq(S)
    BY <2>1, <2>3, Zenon
  <2> HIDE DEF S
  <2> QED
    BY <2>4, <2>5
<1>4. \E T : FallbackRules \in Seq(T) /\ \A r \in T : r.name # "Telnet"
  <2> DEFINE a == Rule("SSH", {22}, {"text"})
             b == Rule("DNS", {53}, {})
             c == Rule("POP3", {110}, {"+OK"})
             d == Rule("IMAP", {143}, {"* OK"})
  <2>1. FallbackRules = <<a, b, c, d>>
    BY DEF FallbackRules
  <2>2. a.name # "Telnet" /\ b.name # "Telnet" /\ c.name # "Telnet" /\ d.name # "Telnet"
    BY DEF Rule
  <2> HIDE DEF a, b, c, d
  <2>3. <<a, b, c, d>> \in Seq({a, b, c, d})
    BY <1>1
  <2> DEFINE S == {a, b, c, d}
  <2>4. \A r \in S : r.name # "Telnet"
    BY <2>2, Zenon
  <2>5. FallbackRules \in Seq(S)
    BY <2>1, <2>3, Zenon
  <2> HIDE DEF S
  <2> QED
    BY <2>4, <2>5
<1>5. PICK T : BannerRules \in Seq(T) /\ \A r \in T : r.name # "Telnet"
  BY <1>3
<1>6. PICK U : FallbackRules \in Seq(U) /\ \A r \in U : r.name # "Telnet"
  BY <1>4
<1>7. BannerRules \in Seq(T \cup U) /\ FallbackRules \in Seq(T \cup U)
  BY <1>5, <1>6
<1>8. Rules \in Seq(T \cup U)
  BY <1>7 DEF Rules
<1>9. \A k \in DOMAIN Rules : Rules[k] \in T \cup U
  BY <1>8
<1> QED
  BY <1>5, <1>6, <1>8, <1>9

(* Whatever a port answers, a service detected on it has a known name.     *)
LEMMA DetectedHasName ==
  ASSUME NEW port, NEW response, Detected(port, response)
  PROVE  identify(port, response) \in DetectedNames
<1> DEFINE M == Matching(port, response)
<1>1. M \in SUBSET Nat /\ M # {} /\ M \subseteq DOMAIN Rules
  BY RulesAreASequence DEF Detected, Matching
<1> HIDE DEF M
<1>2. \E k \in M : \A l \in M : k <= l
  BY <1>1, Copying!LeastNatural
<1> DEFINE first == CHOOSE k \in M : \A l \in M : k <= l
<1>3. first \in M
  BY <1>2
<1>4. identify(port, response) = Rules[first].name
  BY DEF identify, M
<1> HIDE DEF first
<1> QED
  BY <1>1, <1>3, <1>4 DEF DetectedNames

(* Every service detect returns is about a probed port.                    *)
LEMMA DetectIs ==
  ASSUME NEW host \in IPs, NEW ports \in Seq(PortInfo), NEW answer
  PROVE  LET found == detect(host, ports, answer) IN
         /\ found \in Seq(ServiceInfo)
         /\ \A k \in DOMAIN found :
              /\ found[k].ip = host
              /\ \E i \in DOMAIN ports : found[k].port = ports[i].port
              /\ found[k].service = identify(found[k].port, answer[found[k].port])
              /\ found[k].service \in DetectedNames
<1> DEFINE indices == {i \in DOMAIN ports : Detected(ports[i].port, answer[ports[i].port])}
           detected == Selected(ports, indices)
           found == detect(host, ports, answer)
<1>1. indices \in SUBSET DOMAIN ports
  OBVIOUS
<1>2. detected \in Seq(PortInfo) /\ \E at : PicksAt(detected, ports, indices, at)
  <2> HIDE DEF indices
  <2> QED
    BY <1>1, SelectedPicks
<1>3. found = [k \in DOMAIN detected |->
                 [ip |-> host, port |-> detected[k].port,
                  service |-> identify(detected[k].port, answer[detected[k].port])]]
  BY DEF detect
<1> HIDE DEF detected, found
<1>4. PICK at : PicksAt(detected, ports, indices, at)
  BY <1>2
<1>5. DOMAIN detected = 1..Len(detected) /\ Len(detected) \in Nat
  BY <1>2
<1>6. ASSUME NEW k \in DOMAIN detected
      PROVE  /\ found[k] = [ip |-> host, port |-> detected[k].port,
                  service |-> identify(detected[k].port, answer[detected[k].port])]
             /\ detected[k].port \in PortNumbers
             /\ \E i \in DOMAIN ports : detected[k].port = ports[i].port
             /\ identify(detected[k].port, answer[detected[k].port]) \in DetectedNames
  <2>1. at[k] \in indices /\ detected[k] = ports[at[k]]
    BY <1>4, <1>5 DEF PicksAt
  <2>2. Detected(detected[k].port, answer[detected[k].port]) /\ at[k] \in DOMAIN ports
    BY <2>1
  <2>3. identify(detected[k].port, answer[detected[k].port]) \in DetectedNames
    BY <2>2, DetectedHasName
  <2>4. detected[k] \in PortInfo
    BY <1>2
  <2>5. detected[k].port \in PortNumbers
    BY <2>4 DEF PortInfo
  <2> QED
    BY <1>3, <2>1, <2>2, <2>3, <2>5
<1>7. ASSUME NEW k \in DOMAIN detected
      PROVE  /\ found[k] \in ServiceInfo
             /\ found[k].ip = host
             /\ \E i \in DOMAIN ports : found[k].port = ports[i].port
             /\ found[k].service = identify(found[k].port, answer[found[k].port])
             /\ found[k].service \in DetectedNames
  <2> DEFINE name == identify(detected[k].port, answer[detected[k].port])
  <2>4. name \in DetectedNames /\ detected[k].port \in PortNumbers
    BY <1>6, Zenon
  <2>0. name \in ServiceNames
    <3> HIDE DEF name
    <3>1. DetectedNames \subseteq ServiceNames
      BY SessionAssumption
    <3> QED
      BY <2>4, <3>1
  <2>3. found[k] = [ip |-> host, port |-> detected[k].port, service |-> name]
    BY <1>6
  <2> HIDE DEF name
  <2>1. /\ found[k].ip = host /\ found[k].port = detected[k].port
        /\ found[k].service = name
    BY <2>3
  <2>2. found[k] \in ServiceInfo
    BY <2>0, <2>3, <2>4 DEF ServiceInfo
  <2> QED
    BY <1>6, <2>1, <2>2, Zenon DEF name
<1>8. DOMAIN found = 1..Len(detected)
  BY <1>3, <1>5
<1>9. found \in Seq(ServiceInfo)
  BY <1>3, <1>5, <1>7, <1>8
<1> QED
  BY <1>3, <1>7, <1>9 DEF found

-----------------------------------------------------------------------------
(* Every command keeps the invariant.                                      *)
LEMMA SeekKeeps ==
  ASSUME SessionInv, handleIpSeek
  PROVE  SessionInv'
<1>1. PICK found \in SUBSET DOMAIN addresses :
        hosts' = AddingHosts!Run(<<>>,
                   [k \in DOMAIN Selected(addresses, found) |->
                      [ip |-> Selected(addresses, found)[k], online |-> TRUE]])
  BY Zenon DEF handleIpSeek
<1> DEFINE online == Selected(addresses, found)
           seen == [k \in DOMAIN online |-> [ip |-> online[k], online |-> TRUE]]
<1>2. online \in Seq(IPs)
  BY SessionAssumption, SelectedPicks
<1> HIDE DEF online
<1>3. ASSUME NEW k \in DOMAIN online PROVE seen[k] \in HostInfo
  BY <1>2, <1>3 DEF HostInfo
<1>4. seen = [k \in 1..Len(online) |-> seen[k]] /\ Len(online) \in Nat
      /\ DOMAIN online = 1..Len(online)
  BY <1>2
<1> HIDE DEF seen
<1>5. seen \in Seq(HostInfo)
  BY <1>3, <1>4
<1>6. HostsIn(hosts')
  BY <1>1, <1>5, HostsAreAdded DEF HostsIn, seen, online
<1>7. host_ports' = <<>> /\ services' = <<>> /\ observed' = <<>> /\ identified' = <<>>
  BY DEF handleIpSeek
<1> QED
  BY <1>6, <1>7, EmptyStore, SessionInvPartsNext, Zenon

LEMMA ClearKeeps ==
  ASSUME SessionInv, handleNetworkClear
  PROVE  SessionInv'
<1>1. /\ hosts' = <<>> /\ host_ports' = <<>> /\ services' = <<>>
      /\ observed' = <<>> /\ identified' = <<>>
  BY DEF handleNetworkClear, clear
<1> QED
  BY <1>1, EmptyStore, SessionInvPartsNext, Zenon

(* A table rebound by the results of a scan agrees with the history the    *)
(* scan leaves.                                                            *)
LEMMA ScanKeeps ==
  ASSUME SessionInv, NEW host \in IPs, handlePortScan(host)
  PROVE  SessionInv'
<1>1. PICK planned \in SUBSET DOMAIN Scannable[host] :
        \E open \in SUBSET Range(Selected(Scannable[host], planned)) :
          /\ host_ports' =
               AddingResults!Run(host_ports,
                 [k \in DOMAIN Selected(Scannable[host], planned) |->
                    [ip |-> host, port |-> Selected(Scannable[host], planned)[k],
                     open |-> Selected(Scannable[host], planned)[k] \in open]])
          /\ observed' =
               Renewed(observed,
                 [key \in {host} \X Range(Selected(Scannable[host], planned)) |->
                    key[2] \in open])
          /\ UNCHANGED <<hosts, services, identified>>
  BY Zenon DEF handlePortScan
<1> DEFINE scanned == Selected(Scannable[host], planned)
<1>2. PICK open \in SUBSET Range(scanned) :
        /\ host_ports' = AddingResults!Run(host_ports,
                 [k \in DOMAIN scanned |->
                    [ip |-> host, port |-> scanned[k], open |-> scanned[k] \in open]])
        /\ observed' = Renewed(observed, [key \in {host} \X Range(scanned) |-> key[2] \in open])
        /\ UNCHANGED <<hosts, services, identified>>
  BY <1>1
<1>3. scanned \in Seq(PortNumbers)
  <2>1. Scannable[host] \in Seq(PortNumbers)
    BY SessionAssumption
  <2> QED
    BY <2>1, SelectedPicks
<1> HIDE DEF scanned
<1> DEFINE results == [k \in DOMAIN scanned |->
                         [ip |-> host, port |-> scanned[k], open |-> scanned[k] \in open]]
           n == Len(scanned)
<1>4. n \in Nat /\ DOMAIN scanned = 1..n /\ \A k \in 1..n : scanned[k] \in PortNumbers
  BY <1>3
<1>5. ASSUME NEW k \in 1..n
      PROVE  /\ results[k] \in ResultInfo
             /\ results[k].ip = host /\ results[k].port = scanned[k]
             /\ results[k].open = (scanned[k] \in open)
  <2>1. results[k] = [ip |-> host, port |-> scanned[k], open |-> scanned[k] \in open]
    BY <1>4
  <2>2. scanned[k] \in PortNumbers /\ (scanned[k] \in open) \in BOOLEAN
    BY <1>4
  <2> QED
    BY <2>1, <2>2 DEF ResultInfo
<1>6. results = [k \in 1..n |-> results[k]] /\ Len(results) = n
  BY <1>4
<1> HIDE DEF results
<1>7. results \in Seq(ResultInfo)
  BY <1>4, <1>5, <1>6
<1>8. PortsIn(host_ports) /\ ScansIn(host_ports, observed)
      /\ HistoriesTyped(observed, identified)
  BY SessionInvParts
<1> DEFINE hps == AddingResults!Run(host_ports, results)
           f == PortTableOf(host_ports)
           g == PortTableOf(hps)
<1>9. /\ PortsIn(hps)
      /\ Rebound(f, g, n, KeysOf(results), PortResults(results))
  BY <1>6, <1>7, <1>8, ResultsAreAdded, Zenon DEF PortsIn
<1>10. \A k \in 1..n : /\ KeysOf(results)[k] = <<host, scanned[k]>>
                       /\ PortResults(results)[k].open = (scanned[k] \in open)
  BY <1>5, <1>6 DEF KeysOf, PortResults
<1> DEFINE new == {<<host, scanned[k]>> : k \in 1..n}
<1>11. {KeysOf(results)[k] : k \in 1..n} = new
  BY <1>10
<1>12. {host} \X Range(scanned) = new
  BY <1>4 DEF Range
<1>13. /\ DOMAIN observed' = new \cup DOMAIN observed
       /\ \A key \in new : observed'[key] = (key[2] \in open)
       /\ \A key \in DOMAIN observed \ new : observed'[key] = observed[key]
  <2>1. observed' = Renewed(observed, [key \in new |-> key[2] \in open])
    BY <1>2, <1>12
  <2> HIDE DEF new
  <2>2. /\ DOMAIN Renewed(observed, [key \in new |-> key[2] \in open]) = new \cup DOMAIN observed
        /\ \A key \in new \cup DOMAIN observed :
             Renewed(observed, [m \in new |-> m[2] \in open])[key] =
               IF key \in new THEN key[2] \in open ELSE observed[key]
    BY DEF Renewed
  <2> QED
    BY <2>1, <2>2
<1> HIDE DEF f, g, new
<1>14. DOMAIN g = DOMAIN observed'
  <2>1. DOMAIN g = DOMAIN f \cup new
    BY <1>9, <1>11 DEF Rebound
  <2>2. DOMAIN f = DOMAIN observed
    BY <1>8 DEF ScansIn, f
  <2> QED
    BY <1>13, <2>1, <2>2
<1>15. ASSUME NEW key \in DOMAIN g PROVE g[key].open = observed'[key]
  <2>1. CASE \E k \in 1..n : key = KeysOf(results)[k] /\ g[key] = PortResults(results)[k]
    <3>1. PICK k \in 1..n : key = KeysOf(results)[k] /\ g[key] = PortResults(results)[k]
      BY <2>1
    <3>2. key = <<host, scanned[k]>> /\ g[key].open = (scanned[k] \in open)
      BY <1>10, <3>1
    <3>3. key \in new /\ key[2] = scanned[k]
      BY <3>2 DEF new
    <3> QED
      BY <1>13, <3>2, <3>3
  <2>2. CASE /\ key \in DOMAIN f /\ g[key] = f[key]
             /\ \A k \in 1..n : key # KeysOf(results)[k]
    <3>1. key \notin new
      BY <1>10, <2>2 DEF new
    <3>2. key \in DOMAIN observed /\ f[key].open = observed[key]
      BY <1>8, <2>2 DEF ScansIn, f
    <3> QED
      BY <1>13, <2>2, <3>1, <3>2
  <2> QED
    BY <1>9, <2>1, <2>2 DEF Rebound
<1>16. ScansIn(host_ports', observed') /\ PortsIn(host_ports')
  <2>1. host_ports' = hps
    BY <1>2, Zenon DEF results
  <2>2. PortTableOf(host_ports') = g
    BY <2>1, Zenon DEF g
  <2> QED
    BY <1>9, <1>14, <1>15, <2>1, <2>2, Zenon DEF ScansIn
<1>17. HistoriesTyped(observed', identified')
  <2>1. new \subseteq IPs \X PortNumbers
    BY <1>4 DEF new
  <2>2. DOMAIN observed' \subseteq IPs \X PortNumbers
    BY <1>8, <1>13, <2>1 DEF HistoriesTyped
  <2>3. ASSUME NEW key \in DOMAIN observed' PROVE observed'[key] \in BOOLEAN
    <3>1. CASE key \in new
      <4>1. observed'[key] = (key[2] \in open)
        BY <1>13, <3>1
      <4> QED
        BY <4>1
    <3>2. CASE key \notin new
      <4>1. key \in DOMAIN observed \ new
        BY <1>13, <3>2, Zenon
      <4>2. observed'[key] = observed[key] /\ observed[key] \in BOOLEAN
        BY <1>8, <1>13, <4>1, Zenon DEF HistoriesTyped
      <4> QED
        BY <4>2
    <3> QED
      BY <3>1, <3>2
  <2>4. identified' = identified
    BY <1>2
  <2>5. DOMAIN identified \subseteq DOMAIN observed'
    BY <1>8, <1>13 DEF HistoriesTyped
  <2> QED
    BY <1>8, <2>2, <2>3, <2>4, <2>5 DEF HistoriesTyped
<1>18. HostsIn(hosts') /\ ServicesIn(services') /\ DetectionsIn(services', identified')
  <2>1. hosts' = hosts /\ services' = services /\ identified' = identified
    BY <1>2
  <2> QED
    BY <2>1, SessionInvParts
<1> QED
  BY <1>16, <1>17, <1>18, SessionInvPartsNext

(* Every service that is new or changed is on an open port.                *)
RecordedOnOpenPort ==
  \A i \in DOMAIN services' :
    (i \notin DOMAIN services \/ services'[i] # services[i]) =>
      \E p \in Range(getPorts(services'[i].ip)) :
        p.open /\ p.port = services'[i].port

LEMMA DetectKeeps ==
  ASSUME SessionInv, NEW host \in IPs, handleServiceDetect(host)
  PROVE  SessionInv' /\ RecordedOnOpenPort
<1> DEFINE ports == getPorts(host)
           openPorts == OpenPorts(ports)
<1>1. PICK answer \in [{openPorts[k].port : k \in DOMAIN openPorts} -> probeAnswers] :
        /\ services' = AddingServices!Run(services, detect(host, openPorts, answer))
        /\ identified' = Renewed(identified,
             [key \in {<<host, detect(host, openPorts, answer)[k].port>> :
                         k \in DOMAIN detect(host, openPorts, answer)} |->
                identify(key[2], answer[key[2]])])
  BY Zenon DEF handleServiceDetect
<1>2. hosts' = hosts /\ host_ports' = host_ports /\ observed' = observed
  BY DEF handleServiceDetect
<1>3. /\ ports \in Seq(PortInfo)
      /\ \A i \in DOMAIN ports : <<host, ports[i].port>> \in DOMAIN observed
  BY PortsAreObserved
<1> HIDE DEF ports
<1>4. /\ openPorts \in Seq(PortInfo)
      /\ \A k \in DOMAIN openPorts :
           \E i \in DOMAIN ports : ports[i].open /\ openPorts[k] = ports[i]
  BY <1>3, OpenPortsAre
<1> HIDE DEF openPorts
<1> DEFINE found == detect(host, openPorts, answer)
           n == Len(found)
<1>5. /\ found \in Seq(ServiceInfo)
      /\ \A k \in DOMAIN found :
           /\ found[k].ip = host
           /\ \E i \in DOMAIN openPorts : found[k].port = openPorts[i].port
           /\ found[k].service = identify(found[k].port, answer[found[k].port])
           /\ found[k].service \in DetectedNames
  BY <1>4, DetectIs
<1>6. services' = AddingServices!Run(services, found)
  BY <1>1
<1>7. identified' = Renewed(identified,
             [key \in {<<host, found[k].port>> : k \in DOMAIN found} |->
                identify(key[2], answer[key[2]])])
  BY <1>1
<1> HIDE DEF found
<1>8. n \in Nat /\ DOMAIN found = 1..n
  BY <1>5
<1>9. ServicesIn(services) /\ DetectionsIn(services, identified)
      /\ HistoriesTyped(observed, identified)
  BY SessionInvParts
<1> DEFINE f == ServiceTableOf(services)
           g == ServiceTableOf(services')
<1>10. /\ ServicesIn(services') /\ Rebound(f, g, n, KeysOf(found), found)
       /\ \A i \in DOMAIN services' : \/ \E k \in 1..n : services'[i] = found[k]
                                      \/ i \in DOMAIN services /\ services'[i] = services[i]
  <2>1. services \in Seq(ServiceInfo) /\ UniqueServices(services)
    BY <1>9 DEF ServicesIn
  <2>2. /\ AddingServices!Run(services, found) \in Seq(ServiceInfo)
        /\ UniqueServices(AddingServices!Run(services, found))
        /\ Rebound(ServiceTableOf(services),
                   ServiceTableOf(AddingServices!Run(services, found)),
                   Len(found), KeysOf(found), found)
        /\ \A i \in DOMAIN AddingServices!Run(services, found) :
             \/ \E k \in 1..Len(found) : AddingServices!Run(services, found)[i] = found[k]
             \/ i \in DOMAIN services
                /\ AddingServices!Run(services, found)[i] = services[i]
    BY <1>5, <2>1, ServicesAreAdded
  <2> QED
    BY <1>6, <2>2, Zenon DEF ServicesIn
<1> DEFINE new == {<<host, found[k].port>> : k \in 1..n}
<1>11. \A k \in 1..n : KeysOf(found)[k] = <<host, found[k].port>>
  BY <1>5, <1>8 DEF KeysOf
<1>12. {KeysOf(found)[k] : k \in 1..n} = new
  BY <1>11
<1>13. /\ DOMAIN identified' = new \cup DOMAIN identified
       /\ \A key \in new : identified'[key] = identify(key[2], answer[key[2]])
       /\ \A key \in DOMAIN identified \ new : identified'[key] = identified[key]
  <2>1. identified' = Renewed(identified, [key \in new |-> identify(key[2], answer[key[2]])])
    BY <1>7, <1>8
  <2> HIDE DEF new
  <2>2. LET h == Renewed(identified, [key \in new |-> identify(key[2], answer[key[2]])])
        IN  /\ DOMAIN h = new \cup DOMAIN identified
            /\ \A key \in new \cup DOMAIN identified :
                 h[key] = IF key \in new THEN identify(key[2], answer[key[2]])
                                         ELSE identified[key]
    BY DEF Renewed
  <2> QED
    BY <2>1, <2>2
<1>14. \A key \in new : /\ key \in DOMAIN observed
                        /\ identify(key[2], answer[key[2]]) \in DetectedNames
  <2>1. ASSUME NEW k \in 1..n
        PROVE  /\ <<host, found[k].port>> \in DOMAIN observed
               /\ identify(found[k].port, answer[found[k].port]) \in DetectedNames
    <3>1. PICK j \in DOMAIN openPorts : found[k].port = openPorts[j].port
      BY <1>5, <1>8
    <3>2. PICK i \in DOMAIN ports : openPorts[j] = ports[i]
      BY <1>4
    <3>3. <<host, found[k].port>> \in DOMAIN observed
      BY <1>3, <3>1, <3>2
    <3> QED
      BY <1>5, <1>8, <3>3
  <2> QED
    BY <2>1
<1> HIDE DEF f, g
<1>15. DOMAIN g = DOMAIN identified'
  <2>1. DOMAIN g = DOMAIN f \cup new
    BY <1>10, <1>12 DEF Rebound
  <2>2. DOMAIN f = DOMAIN identified
    BY <1>9 DEF DetectionsIn, f
  <2> QED
    BY <1>13, <2>1, <2>2
<1>16. ASSUME NEW key \in DOMAIN g PROVE g[key].service = identified'[key]
  <2>1. CASE \E k \in 1..n : key = KeysOf(found)[k] /\ g[key] = found[k]
    <3>1. PICK k \in 1..n : key = KeysOf(found)[k] /\ g[key] = found[k]
      BY <2>1
    <3>2. key = <<host, found[k].port>> /\ key[2] = found[k].port
      BY <1>11, <3>1
    <3>3. key \in new
      BY <3>2
    <3>4. identified'[key] = identify(found[k].port, answer[found[k].port])
      BY <1>13, <3>2, <3>3
    <3> QED
      BY <1>5, <1>8, <3>1, <3>4
  <2>2. CASE /\ key \in DOMAIN f /\ g[key] = f[key]
             /\ \A k \in 1..n : key # KeysOf(found)[k]
    <3>1. key \notin new
      BY <1>11, <2>2
    <3>2. key \in DOMAIN identified /\ f[key].service = identified[key]
      BY <1>9, <2>2 DEF DetectionsIn, f
    <3> HIDE DEF new
    <3> QED
      BY <1>13, <2>2, <3>1, <3>2
  <2> QED
    BY <1>10, <2>1, <2>2 DEF Rebound
<1> HIDE DEF new
<1>17. DetectionsIn(services', identified')
  BY <1>15, <1>16, Zenon DEF DetectionsIn, g
<1>18. HistoriesTyped(observed', identified')
  <2>1. DOMAIN identified' \subseteq DOMAIN observed
    BY <1>9, <1>13, <1>14 DEF HistoriesTyped
  <2>2. ASSUME NEW key \in DOMAIN identified' PROVE identified'[key] \in DetectedNames
    <3>1. CASE key \in new
      BY <1>13, <1>14, <3>1
    <3>2. CASE key \notin new
      BY <1>9, <1>13, <3>2 DEF HistoriesTyped
    <3> QED
      BY <3>1, <3>2
  <2> QED
    BY <1>2, <1>9, <2>1, <2>2 DEF HistoriesTyped
<1>19. HostsIn(hosts') /\ PortsIn(host_ports') /\ ScansIn(host_ports', observed')
  BY <1>2, SessionInvParts
<1>20. SessionInv'
  BY <1>10, <1>17, <1>18, <1>19, SessionInvPartsNext
<1>21. ASSUME NEW i \in DOMAIN services',
              i \notin DOMAIN services \/ services'[i] # services[i]
       PROVE  \E p \in Range(getPorts(services'[i].ip)) :
                p.open /\ p.port = services'[i].port
  <2>1. PICK k \in 1..n : services'[i] = found[k]
    BY <1>10, <1>21
  <2>2. services'[i].ip = host /\ \E j \in DOMAIN openPorts : found[k].port = openPorts[j].port
    BY <1>5, <1>8, <2>1
  <2>3. PICK j \in DOMAIN openPorts : services'[i].port = openPorts[j].port
    BY <2>1, <2>2
  <2>4. PICK m \in DOMAIN ports : ports[m].open /\ openPorts[j] = ports[m]
    BY <1>4
  <2>5. ports[m] \in Range(ports) /\ ports[m].open /\ ports[m].port = services'[i].port
    BY <2>3, <2>4 DEF Range
  <2>6. getPorts(services'[i].ip) = ports
    BY <2>2, Zenon DEF ports
  <2> QED
    BY <2>5, <2>6
<1> QED
  BY <1>20, <1>21, Zenon DEF RecordedOnOpenPort

(* Every step keeps the invariant, and records on open ports only.         *)
LEMMA StepKeeps ==
  ASSUME SessionInv, [Next]_sessionVars
  PROVE  SessionInv' /\ RecordedOnOpenPort
<1>1. CASE handleIpSeek
  <2>1. services' = <<>>
    BY <1>1 DEF handleIpSeek
  <2> QED
    BY <1>1, <2>1, SeekKeeps DEF RecordedOnOpenPort
<1>2. CASE \E host \in IPs : handlePortScan(host)
  <2>1. services' = services
    BY <1>2 DEF handlePortScan
  <2> QED
    BY <1>2, <2>1, ScanKeeps DEF RecordedOnOpenPort
<1>3. CASE \E host \in IPs : handleServiceDetect(host)
  BY <1>3, DetectKeeps
<1>4. CASE handleNetworkClear
  <2>1. services' = <<>>
    BY <1>4 DEF handleNetworkClear, clear
  <2> QED
    BY <1>4, <2>1, ClearKeeps DEF RecordedOnOpenPort
<1>5. CASE UNCHANGED sessionVars
  <2>1. /\ hosts' = hosts /\ host_ports' = host_ports /\ services' = services
        /\ observed' = observed /\ identified' = identified
    BY <1>5 DEF sessionVars, storeVars
  <2>2. SessionInv'
    BY <2>1, SessionInvParts, SessionInvPartsNext
  <2> QED
    BY <2>1, <2>2 DEF RecordedOnOpenPort
<1> QED
  BY <1>1, <1>2, <1>3, <1>4, <1>5 DEF Next

LEMMA SessionIsInvariant == Spec => []SessionInv
<1>1. SessionInv /\ [Next]_sessionVars => SessionInv'
  BY StepKeeps
<1> QED
  BY SessionInit, <1>1, PTL DEF Spec

(* Histories and vectors keep their types.                                 *)
THEOREM SessionIsTyped == Spec => []TypeOK
<1>1. SessionInv => TypeOK
  BY DEF SessionInv
<1> QED
  BY SessionIsInvariant, <1>1, PTL

(* The store holds, for exactly the ports ever scanned, their latest       *)
(* answer.                                                                 *)
THEOREM StoreHoldsLatestScan == Spec => []LatestScanWins
<1>1. SessionInv => LatestScanWins
  BY DEF SessionInv
<1> QED
  BY SessionIsInvariant, <1>1, PTL

(* A service is recorded only on a port recorded as open.                  *)
THEOREM ServicesAreRecordedOnOpenPorts == Spec => DetectedOnOpenPort
<1>1. SessionInv /\ [Next]_sessionVars => [RecordedOnOpenPort]_sessionVars
  BY StepKeeps
<1>2. RecordedOnOpenPort <=>
        \A i \in DOMAIN services' :
          (i \notin DOMAIN services \/ services'[i] # services[i]) =>
            \E p \in Range(getPorts(services'[i].ip)) :
              p.open /\ p.port = services'[i].port
  BY DEF RecordedOnOpenPort
<1> QED
  BY SessionIsInvariant, <1>1, <1>2, PTL DEF Spec, DetectedOnOpenPort

-----------------------------------------------------------------------------
(* The topology map.                                                       *)
Drawing == INSTANCE VectorLoopProofs WITH Step <- addNode
Linking == INSTANCE VectorLoopProofs WITH Step <- addEdge

(* Nodes with an address get one node for each address.                    *)
LEMMA NodesAreAdded ==
  ASSUME NEW T, NEW v \in Seq(T), \A i \in DOMAIN v : v[i].address # NoAddress
  PROVE  LET nodes == AddingNodes!Run(<<>>, v) IN
         /\ nodes \in Seq(T)
         /\ \A j, k \in DOMAIN nodes : nodes[j].address = nodes[k].address => j = k
         /\ \A k \in DOMAIN nodes : \E i \in DOMAIN v : nodes[k] = v[i]
         /\ \A i \in DOMAIN v : \E k \in DOMAIN nodes : nodes[k].address = v[i].address
<1> DEFINE n == Len(v)
           Distinct(nodes) ==
             \A j, k \in DOMAIN nodes : nodes[j].address = nodes[k].address => j = k
           From(nodes, m) == \A k \in DOMAIN nodes : \E i \in 1..m : nodes[k] = v[i]
           Shown(nodes, m) ==
             \A i \in 1..m : \E k \in DOMAIN nodes : nodes[k].address = v[i].address
<1>0. n \in Nat /\ DOMAIN v = 1..n /\ \A i \in 1..n : v[i] \in T
  OBVIOUS
<1>1. PICK after : Drawing!States(<<>>, v, after)
  BY <1>0, Drawing!LoopHasStates
<1>2. /\ after[0] = <<>> /\ \A m \in 1..n : after[m] = addNode(after[m - 1], v[m])
      /\ AddingNodes!Run(<<>>, v) = after[n]
  BY <1>1 DEF Drawing!States, AddingNodes!Run, Drawing!Run
<1> DEFINE Done == {m \in 0..n : /\ after[m] \in Seq(T) /\ Distinct(after[m])
                                 /\ From(after[m], m) /\ Shown(after[m], m)}
<1>3. 0 \in Done
  <2>1. after[0] \in Seq(T) /\ Distinct(after[0]) /\ From(after[0], 0) /\ Shown(after[0], 0)
    BY <1>2
  <2> HIDE DEF Distinct, From, Shown
  <2> QED
    BY <1>0, <2>1
<1>4. ASSUME NEW m \in 1..n, m - 1 \in Done PROVE m \in Done
  <2> DEFINE s == after[m - 1]
             x == v[m]
  <2>1. /\ m \in 0..n /\ s \in Seq(T) /\ Distinct(s) /\ From(s, m - 1) /\ Shown(s, m - 1)
    BY <1>0, <1>4
  <2>2. x \in T /\ x.address # NoAddress /\ after[m] = addNode(s, x)
    BY <1>0, <1>2
  <2>3. /\ \A i \in 1..m : i \in 1..m - 1 \/ i = m
        /\ \A i \in 1..m - 1 : i \in 1..m
        /\ m \in 1..m
    BY <1>0
  <2> HIDE DEF s, x
  <2>4. hasNode(s, x) <=> \E k \in DOMAIN s : s[k].address = x.address
    BY <2>2 DEF hasNode
  <2>5. after[m] = IF \E k \in DOMAIN s : s[k].address = x.address THEN s ELSE Append(s, x)
    BY <2>2, <2>4 DEF addNode
  <2>6. CASE \E k \in DOMAIN s : s[k].address = x.address
    <3>1. after[m] = s
      BY <2>5, <2>6
    <3>2. From(s, m)
      BY <2>1, <2>3
    <3>3. Shown(s, m)
      BY <2>1, <2>3, <2>6 DEF x
    <3> HIDE DEF From, Shown, Distinct
    <3> QED
      BY <2>1, <3>1, <3>2, <3>3
  <2>7. CASE ~ \E k \in DOMAIN s : s[k].address = x.address
    <3> DEFINE t == Append(s, x)
               l == Len(s)
    <3>1. after[m] = t
      BY <2>5, <2>7
    <3>2. /\ t \in Seq(T) /\ DOMAIN t = 1..l + 1 /\ l \in Nat /\ DOMAIN s = 1..l
          /\ t[l + 1] = x /\ \A k \in 1..l : t[k] = s[k]
          /\ \A k \in 1..l + 1 : k \in 1..l \/ k = l + 1
          /\ \A k \in 1..l : k \in 1..l + 1
          /\ l + 1 \in 1..l + 1
      BY <2>1, <2>2
    <3> HIDE DEF t, l
    <3>3. ASSUME NEW j \in DOMAIN t, NEW k \in DOMAIN t, t[j].address = t[k].address
          PROVE  j = k
      <4>1. CASE j \in 1..l /\ k \in 1..l
        BY <2>1, <3>2, <3>3, <4>1
      <4>2. CASE j \in 1..l /\ k = l + 1
        BY <2>7, <3>2, <3>3, <4>2
      <4>3. CASE j = l + 1 /\ k \in 1..l
        <5>1. s[k].address = x.address
          BY <3>2, <3>3, <4>3
        <5> QED
          BY <2>7, <3>2, <4>3, <5>1
      <4> QED
        BY <3>2, <4>1, <4>2, <4>3
    <3>4. From(t, m)
      <4>1. ASSUME NEW k \in DOMAIN t PROVE \E i \in 1..m : t[k] = v[i]
        <5>1. CASE k = l + 1
          <6>1. t[k] = x /\ x = v[m]
            BY <3>2, <5>1 DEF x
          <6> QED
            BY <2>3, <6>1, Zenon
        <5>2. CASE k \in 1..l
          <6>1. PICK i \in 1..m - 1 : s[k] = v[i]
            BY <2>1, <3>2, <5>2
          <6> QED
            BY <2>3, <3>2, <5>2, <6>1
        <5> QED
          BY <3>2, <5>1, <5>2
      <4> QED
        BY <4>1
    <3>5. Shown(t, m)
      <4>1. ASSUME NEW i \in 1..m PROVE \E k \in DOMAIN t : t[k].address = v[i].address
        <5>1. CASE i = m
          BY <3>2, <5>1 DEF x
        <5>2. CASE i \in 1..m - 1
          <6>1. PICK k \in DOMAIN s : s[k].address = v[i].address
            BY <2>1, <5>2
          <6> QED
            BY <3>2, <6>1
        <5> QED
          BY <2>3, <5>1, <5>2
      <4> QED
        BY <4>1
    <3>6. Distinct(t)
      BY <3>3
    <3> HIDE DEF From, Shown, Distinct
    <3> QED
      BY <2>1, <3>1, <3>2, <3>4, <3>5, <3>6
  <2> HIDE DEF Done
  <2> QED
    BY <2>6, <2>7
<1>5. n \in Done
  <2> HIDE DEF Done
  <2>1. \A m \in 0..n : m \in Done
    BY <1>0, <1>3, <1>4, Drawing!UpTo
  <2> QED
    BY <1>0, <2>1
<1>6. after[n] \in Seq(T) /\ Distinct(after[n]) /\ From(after[n], n) /\ Shown(after[n], n)
  <2> HIDE DEF From, Shown, Distinct
  <2> QED
    BY <1>5
<1>7. /\ after[n] \in Seq(T)
      /\ \A j, k \in DOMAIN after[n] : after[n][j].address = after[n][k].address => j = k
      /\ \A k \in DOMAIN after[n] : \E i \in DOMAIN v : after[n][k] = v[i]
      /\ \A i \in DOMAIN v : \E k \in DOMAIN after[n] : after[n][k].address = v[i].address
  BY <1>0, <1>6
<1> DEFINE nodes == AddingNodes!Run(<<>>, v)
<1>8. nodes = after[n]
  BY <1>2
<1> HIDE DEF nodes
<1>9. /\ nodes \in Seq(T)
      /\ \A j, k \in DOMAIN nodes : nodes[j].address = nodes[k].address => j = k
      /\ \A k \in DOMAIN nodes : \E i \in DOMAIN v : nodes[k] = v[i]
      /\ \A i \in DOMAIN v : \E k \in DOMAIN nodes : nodes[k].address = v[i].address
  BY <1>7, <1>8
<1> QED
  BY <1>9 DEF nodes

(* Of a vector of edges, each one that leads from one address to another   *)
(* gets one edge.                                                          *)
Proper(edge) == edge.from # NoAddress /\ edge.to # NoAddress /\ edge.from # edge.to

LEMMA EdgesAreAdded ==
  ASSUME NEW T, NEW v \in Seq(T)
  PROVE  LET edges == AddingEdges!Run(<<>>, v) IN
         /\ edges \in Seq(T)
         /\ \A j, k \in DOMAIN edges : edges[j] = edges[k] => j = k
         /\ Range(edges) = {v[i] : i \in {j \in DOMAIN v : Proper(v[j])}}
<1> DEFINE n == Len(v)
           Distinct(edges) == \A j, k \in DOMAIN edges : edges[j] = edges[k] => j = k
           Upto(m) == {v[i] : i \in {j \in 1..m : Proper(v[j])}}
<1>0. n \in Nat /\ DOMAIN v = 1..n /\ \A i \in 1..n : v[i] \in T
  OBVIOUS
<1>1. PICK after : Linking!States(<<>>, v, after)
  BY <1>0, Linking!LoopHasStates
<1>2. /\ after[0] = <<>> /\ \A m \in 1..n : after[m] = addEdge(after[m - 1], v[m])
      /\ AddingEdges!Run(<<>>, v) = after[n]
  BY <1>1 DEF Linking!States, AddingEdges!Run, Linking!Run
<1> DEFINE Done == {m \in 0..n : /\ after[m] \in Seq(T) /\ Distinct(after[m])
                                 /\ Range(after[m]) = Upto(m)}
<1>3. 0 \in Done
  <2>1. after[0] \in Seq(T) /\ Distinct(after[0])
    BY <1>2
  <2>2. Upto(0) = {} /\ 0 \in 0..n
    BY <1>0
  <2>3. Range(after[0]) = {}
    BY <1>2 DEF Range
  <2> HIDE DEF Distinct, Upto
  <2> QED
    BY <2>1, <2>2, <2>3
<1>4. ASSUME NEW m \in 1..n, m - 1 \in Done PROVE m \in Done
  <2> DEFINE s == after[m - 1]
             x == v[m]
  <2>1. m \in 0..n /\ s \in Seq(T) /\ Distinct(s) /\ Range(s) = Upto(m - 1)
    BY <1>0, <1>4
  <2>2. x \in T /\ after[m] = addEdge(s, x)
    BY <1>0, <1>2
  <2>3. Upto(m) = IF Proper(x) THEN Upto(m - 1) \cup {x} ELSE Upto(m - 1)
    <3>1. /\ \A i \in 1..m : i \in 1..m - 1 \/ i = m
          /\ \A i \in 1..m - 1 : i \in 1..m
          /\ m \in 1..m
      BY <1>0
    <3> QED
      BY <3>1
  <2> HIDE DEF s, x, Upto
  <2>4. hasEdge(s, x) <=> x \in Range(s)
    BY DEF hasEdge, Range
  <2>5. after[m] = IF Proper(x) /\ x \notin Range(s) THEN Append(s, x) ELSE s
    BY <2>2, <2>4 DEF addEdge, Proper
  <2>6. CASE ~Proper(x) \/ x \in Range(s)
    <3>1. after[m] = s
      BY <2>5, <2>6
    <3>2. Upto(m) = Range(s)
      BY <2>1, <2>3, <2>6
    <3> HIDE DEF Distinct
    <3> QED
      BY <2>1, <3>1, <3>2
  <2>7. CASE Proper(x) /\ x \notin Range(s)
    <3> DEFINE t == Append(s, x)
               l == Len(s)
    <3>1. after[m] = t
      BY <2>5, <2>7
    <3>2. /\ t \in Seq(T) /\ DOMAIN t = 1..l + 1 /\ l \in Nat /\ DOMAIN s = 1..l
          /\ t[l + 1] = x /\ \A k \in 1..l : t[k] = s[k]
          /\ \A k \in 1..l + 1 : k \in 1..l \/ k = l + 1
          /\ \A k \in 1..l : k \in 1..l + 1
          /\ l + 1 \in 1..l + 1
      BY <2>1, <2>2
    <3> HIDE DEF t, l
    <3>3. \A k \in 1..l : s[k] # x
      BY <2>7, <3>2 DEF Range
    <3>4. Distinct(t)
      <4>1. ASSUME NEW j \in DOMAIN t, NEW k \in DOMAIN t, t[j] = t[k] PROVE j = k
        BY <2>1, <3>2, <3>3, <4>1
      <4> QED
        BY <4>1
    <3>5. Range(t) = Range(s) \cup {x}
      BY <3>2 DEF Range
    <3> HIDE DEF Distinct
    <3> QED
      BY <2>1, <2>3, <2>7, <3>1, <3>2, <3>4, <3>5
  <2> HIDE DEF Done
  <2> QED
    BY <2>6, <2>7
<1>5. n \in Done
  <2> HIDE DEF Done
  <2>1. \A m \in 0..n : m \in Done
    BY <1>0, <1>3, <1>4, Linking!UpTo
  <2> QED
    BY <1>0, <2>1
<1>6. after[n] \in Seq(T) /\ Distinct(after[n]) /\ Range(after[n]) = Upto(n)
  <2> HIDE DEF Upto, Distinct
  <2> QED
    BY <1>5
<1> QED
  BY <1>0, <1>2, <1>6, Zenon

(* The elements copied are those at the indices.                           *)
LEMMA SelectedElements ==
  ASSUME NEW T, NEW v \in Seq(T), NEW indices \in SUBSET DOMAIN v
  PROVE  /\ Selected(v, indices) \in Seq(T)
         /\ \A k \in DOMAIN Selected(v, indices) :
              \E i \in indices : Selected(v, indices)[k] = v[i]
         /\ \A i \in indices : \E k \in DOMAIN Selected(v, indices) :
              Selected(v, indices)[k] = v[i]
<1> DEFINE w == Selected(v, indices)
<1>1. w \in Seq(T) /\ \E at : PicksAt(w, v, indices, at)
  BY SelectedPicks
<1> HIDE DEF w
<1>2. PICK at : PicksAt(w, v, indices, at)
  BY <1>1
<1>3. DOMAIN w = 1..Len(w)
  BY <1>1
<1>4. ASSUME NEW k \in DOMAIN w PROVE \E i \in indices : w[k] = v[i]
  <2>1. at[k] \in indices /\ w[k] = v[at[k]]
    BY <1>2, <1>3 DEF PicksAt
  <2> QED
    BY <2>1
<1>5. ASSUME NEW i \in indices PROVE \E k \in DOMAIN w : w[k] = v[i]
  <2>1. PICK k \in 1..Len(w) : at[k] = i
    BY <1>2 DEF PicksAt
  <2> QED
    BY <1>2, <1>3, <2>1 DEF PicksAt
<1> QED
  BY <1>1, <1>4, <1>5 DEF w

(* A vector given by its elements is a sequence of them.                   *)
LEMMA VectorOfItsElements ==
  ASSUME NEW n \in Nat, NEW s, s = [i \in 1..n |-> s[i]]
  PROVE  s \in Seq(Range(s)) /\ Len(s) = n /\ DOMAIN s = 1..n
<1>1. DOMAIN s = 1..n
  OBVIOUS
<1>2. \A i \in 1..n : s[i] \in Range(s)
  BY <1>1 DEF Range
<1> DEFINE T == Range(s)
<1> HIDE DEF T
<1>3. \A i \in 1..n : s[i] \in T
  BY <1>2 DEF T
<1>4. s \in Seq(T) /\ Len(s) = n
  BY <1>3
<1> QED
  BY <1>1, <1>4 DEF T

(* The elements of w are those of s and t.                                 *)
AllOf(w, s, t) ==
  /\ \A i \in DOMAIN w : (\E k \in DOMAIN s : w[i] = s[k]) \/ (\E k \in DOMAIN t : w[i] = t[k])
  /\ \A k \in DOMAIN s : \E i \in DOMAIN w : w[i] = s[k]
  /\ \A k \in DOMAIN t : \E i \in DOMAIN w : w[i] = t[k]

(* The elements of two vectors one after the other.                        *)
LEMMA Concatenated ==
  ASSUME NEW T, NEW s \in Seq(T), NEW t \in Seq(T)
  PROVE  s \o t \in Seq(T) /\ AllOf(s \o t, s, t)
<1> DEFINE w == s \o t
           m == Len(s)
           n == Len(t)
<1>1. /\ w \in Seq(T) /\ DOMAIN w = 1..m + n /\ m \in Nat /\ n \in Nat
      /\ DOMAIN s = 1..m /\ DOMAIN t = 1..n
      /\ \A i \in 1..m + n : w[i] = IF i <= m THEN s[i] ELSE t[i - m]
  OBVIOUS
<1> HIDE DEF w, m, n
<1>2. ASSUME NEW i \in 1..m + n
      PROVE  (\E k \in 1..m : w[i] = s[k]) \/ (\E k \in 1..n : w[i] = t[k])
  <2>1. CASE i <= m
    <3>1. i \in 1..m /\ w[i] = s[i]
      BY <1>1, <2>1
    <3> QED
      BY <3>1
  <2>2. CASE ~(i <= m)
    <3>1. i - m \in 1..n /\ w[i] = t[i - m]
      BY <1>1, <2>2
    <3> QED
      BY <3>1
  <2> QED
    BY <2>1, <2>2
<1>3. ASSUME NEW k \in 1..m PROVE \E i \in 1..m + n : w[i] = s[k]
  <2>1. k \in 1..m + n /\ w[k] = s[k]
    BY <1>1
  <2> QED
    BY <2>1
<1>4. ASSUME NEW k \in 1..n PROVE \E i \in 1..m + n : w[i] = t[k]
  <2>1. m + k \in 1..m + n /\ ~(m + k <= m) /\ (m + k) - m = k
    BY <1>1
  <2>2. w[m + k] = t[(m + k) - m]
    BY <1>1, <2>1
  <2> QED
    BY <2>1, <2>2
<1>5. w \in Seq(T) /\ AllOf(w, s, t)
  BY <1>1, <1>2, <1>3, <1>4 DEF AllOf
<1> QED
  BY <1>5 DEF w

(* The parts of the map: the active interfaces, the hosts.                 *)
Interfaces == [name : STRING, address : STRING, up : BOOLEAN]

(* The active interfaces: up, and with an address.                         *)
LEMMA ActiveAre ==
  ASSUME NEW interfaces \in Seq(Interfaces)
  PROVE  /\ Active(interfaces) \in Seq(Interfaces)
         /\ \A k \in DOMAIN Active(interfaces) : Active(interfaces)[k].address # NoAddress
         /\ \A i \in DOMAIN interfaces :
              (interfaces[i].up /\ interfaces[i].address # NoAddress) =>
                \E k \in DOMAIN Active(interfaces) :
                  Active(interfaces)[k].address = interfaces[i].address
<1> DEFINE indices == {i \in DOMAIN interfaces :
                         interfaces[i].up /\ interfaces[i].address # NoAddress}
           w == Selected(interfaces, indices)
<1>1. indices \in SUBSET DOMAIN interfaces
  OBVIOUS
<1>2. /\ w \in Seq(Interfaces)
      /\ \A k \in DOMAIN w : \E i \in indices : w[k] = interfaces[i]
      /\ \A i \in indices : \E k \in DOMAIN w : w[k] = interfaces[i]
  <2> HIDE DEF indices
  <2> QED
    BY <1>1, SelectedElements
<1> HIDE DEF w
<1>3. /\ w \in Seq(Interfaces)
      /\ \A k \in DOMAIN w : w[k].address # NoAddress
      /\ \A i \in DOMAIN interfaces :
           (interfaces[i].up /\ interfaces[i].address # NoAddress) =>
             \E k \in DOMAIN w : w[k].address = interfaces[i].address
  BY <1>2
<1>4. Active(interfaces) = w
  BY Zenon DEF Active, w
<1> QED
  BY <1>3, <1>4

(* The online hosts but for the excluded ones.                             *)
LEMMA OnlineAre ==
  ASSUME NEW hs \in Seq(HostInfo), NEW excluded
  PROVE  /\ OnlineBut(hs, excluded) \in Seq(HostInfo)
         /\ {OnlineBut(hs, excluded)[k].ip : k \in DOMAIN OnlineBut(hs, excluded)}
              = {hs[i].ip : i \in {j \in DOMAIN hs : hs[j].online}} \ excluded
<1> DEFINE indices == {i \in DOMAIN hs : hs[i].online /\ hs[i].ip \notin excluded}
           w == Selected(hs, indices)
<1>1. indices \in SUBSET DOMAIN hs
  OBVIOUS
<1>2. /\ w \in Seq(HostInfo)
      /\ \A k \in DOMAIN w : \E i \in indices : w[k] = hs[i]
      /\ \A i \in indices : \E k \in DOMAIN w : w[k] = hs[i]
  <2> HIDE DEF indices
  <2> QED
    BY <1>1, SelectedElements
<1> HIDE DEF w
<1>3. {w[k].ip : k \in DOMAIN w} = {hs[i].ip : i \in {j \in DOMAIN hs : hs[j].online}} \ excluded
  BY <1>2
<1>4. OnlineBut(hs, excluded) = w
  BY Zenon DEF OnlineBut, w
<1> QED
  BY <1>2, <1>3, <1>4

(* The local address is one of the active interfaces', where there is one. *)
LEMMA LocalIsActive ==
  ASSUME NEW side \in Locals,
         localIP(side.interfaces, side.route) # NoAddress
  PROVE  \E k \in DOMAIN Active(side.interfaces) :
           Active(side.interfaces)[k].address = localIP(side.interfaces, side.route)
<1> DEFINE active == Active(side.interfaces)
<1>1. /\ side.interfaces \in Seq(Interfaces)
      /\ side.route.localAddress # NoAddress =>
           \E i \in DOMAIN side.interfaces :
             side.interfaces[i].up /\ side.interfaces[i].address = side.route.localAddress
  BY LocalsAssumption DEF Interfaces
<1>2. /\ active \in Seq(Interfaces)
      /\ \A i \in DOMAIN side.interfaces :
           (side.interfaces[i].up /\ side.interfaces[i].address # NoAddress) =>
             \E k \in DOMAIN active : active[k].address = side.interfaces[i].address
  BY <1>1, ActiveAre
<1>3. localIP(side.interfaces, side.route)
        = IF side.route.localAddress # NoAddress THEN side.route.localAddress
          ELSE IF active # <<>> THEN active[1].address ELSE NoAddress
  BY DEF localIP
<1> HIDE DEF active
<1>4. CASE side.route.localAddress # NoAddress
  BY <1>1, <1>2, <1>3, <1>4 DEF active
<1>5. CASE side.route.localAddress = NoAddress /\ active # <<>>
  <2>1. 1 \in DOMAIN active
    BY <1>2, <1>5
  <2>2. active[1].address = localIP(side.interfaces, side.route)
    BY <1>3, <1>5
  <2> QED
    BY <2>1, <2>2 DEF active
<1> QED
  BY <1>3, <1>4, <1>5

Online == {hosts[k].ip : k \in {i \in DOMAIN hosts : hosts[i].online}}

(* The nodes and edges before duplicates are dropped.                      *)
LEMMA NodesBefore ==
  ASSUME SessionInv, NEW side \in Locals
  PROVE  LET local == localIP(side.interfaces, side.route)
             before == LocalNodes(side.interfaces)
                         \o HostNodes(hosts, local, side.route.gatewayAddress)
         IN  /\ \E T : before \in Seq(T)
             /\ \A i \in DOMAIN before :
                  /\ before[i].address # NoAddress
                  /\ before[i].type = "GATEWAY" =>
                       before[i].address = side.route.gatewayAddress
             /\ \A ip \in Online : \E i \in DOMAIN before : before[i].address = ip
<1> DEFINE gateway == side.route.gatewayAddress
           local == localIP(side.interfaces, side.route)
           active == Active(side.interfaces)
           others == OnlineBut(hosts, {local})
           a == LocalNodes(side.interfaces)
           b == HostNodes(hosts, local, gateway)
<1>1. /\ active \in Seq(Interfaces)
      /\ \A k \in DOMAIN active : active[k].address # NoAddress
  <2>1. side.interfaces \in Seq(Interfaces)
    BY LocalsAssumption DEF Interfaces
  <2> QED
    BY <2>1, ActiveAre
<1>2. hosts \in Seq(HostInfo)
  BY SessionInvParts DEF HostsIn
<1>3. others \in Seq(HostInfo) /\ {others[k].ip : k \in DOMAIN others} = Online \ {local}
  BY <1>2, OnlineAre DEF Online
<1>4. a = [i \in DOMAIN active |-> Node(active[i].name, active[i].address, "LOCAL")]
  BY DEF LocalNodes
<1>5. b = [i \in DOMAIN others |->
             IF others[i].ip = gateway THEN Node("gateway", others[i].ip, "GATEWAY")
                                       ELSE Node(others[i].ip, others[i].ip, "HOST")]
  BY DEF HostNodes
<1>6. local # NoAddress => \E k \in DOMAIN active : active[k].address = local
  BY LocalIsActive
<1> HIDE DEF active, others, a, b, local, gateway
<1>7. ASSUME NEW i \in DOMAIN active
      PROVE  a[i].address = active[i].address /\ a[i].type = "LOCAL"
  BY <1>4 DEF Node
<1>8. ASSUME NEW i \in DOMAIN others
      PROVE  /\ b[i].address = others[i].ip
             /\ b[i].type = "GATEWAY" => others[i].ip = gateway
  <2>1. CASE others[i].ip = gateway
    <3>1. b[i] = Node("gateway", others[i].ip, "GATEWAY")
      BY <1>5, <2>1
    <3> QED
      BY <2>1, <3>1 DEF Node
  <2>2. CASE others[i].ip # gateway
    <3>1. b[i] = Node(others[i].ip, others[i].ip, "HOST")
      BY <1>5, <2>2
    <3> QED
      BY <3>1 DEF Node
  <2> QED
    BY <2>1, <2>2
<1>9. /\ Len(active) \in Nat /\ DOMAIN active = 1..Len(active)
      /\ Len(others) \in Nat /\ DOMAIN others = 1..Len(others)
  BY <1>1, <1>3
<1>10. a \in Seq(Range(a)) /\ Len(a) = Len(active) /\ DOMAIN a = DOMAIN active
  <2>1. a = [i \in 1..Len(active) |-> a[i]]
    BY <1>4, <1>9
  <2> QED
    BY <1>9, <2>1, VectorOfItsElements
<1>11. b \in Seq(Range(b)) /\ Len(b) = Len(others) /\ DOMAIN b = DOMAIN others
  <2>1. b = [i \in 1..Len(others) |-> b[i]]
    BY <1>5, <1>9
  <2> QED
    BY <1>9, <2>1, VectorOfItsElements
<1> DEFINE T == Range(a) \cup Range(b)
<1>12. a \in Seq(T) /\ b \in Seq(T)
  BY <1>10, <1>11
<1> HIDE DEF T
<1> DEFINE before == a \o b
<1> HIDE DEF before
<1>13. /\ before \in Seq(T)
       /\ \A i \in DOMAIN before : \/ \E k \in DOMAIN a : before[i] = a[k]
                                   \/ \E k \in DOMAIN b : before[i] = b[k]
       /\ \A k \in DOMAIN a : \E i \in DOMAIN before : before[i] = a[k]
       /\ \A k \in DOMAIN b : \E i \in DOMAIN before : before[i] = b[k]
  <2>1. a \o b \in Seq(T) /\ AllOf(a \o b, a, b)
    BY <1>12, Concatenated
  <2> QED
    BY <2>1, Zenon DEF AllOf, before
<1>14. \A k \in DOMAIN others : others[k].ip # NoAddress
  <2>1. ASSUME NEW k \in DOMAIN others PROVE others[k].ip \in IPs
    <3>1. others[k] \in HostInfo
      BY <1>3
    <3> QED
      BY <3>1 DEF HostInfo
  <2> QED
    BY <2>1, SessionAssumption
<1>15. ASSUME NEW i \in DOMAIN before
       PROVE  before[i].address # NoAddress /\ (before[i].type = "GATEWAY" =>
                                                 before[i].address = gateway)
  <2>1. CASE \E k \in DOMAIN a : before[i] = a[k]
    BY <1>1, <1>7, <1>10, <2>1
  <2>2. CASE \E k \in DOMAIN b : before[i] = b[k]
    BY <1>8, <1>11, <1>14, <2>2
  <2> QED
    BY <1>13, <2>1, <2>2
<1>16. ASSUME NEW ip \in Online PROVE \E i \in DOMAIN before : before[i].address = ip
  <2>1. CASE ip = local
    <3>1. ip \in IPs
      <4>1. PICK i \in DOMAIN hosts : ip = hosts[i].ip
        BY DEF Online
      <4>2. hosts[i] \in HostInfo
        BY <1>2
      <4> QED
        BY <4>1, <4>2 DEF HostInfo
    <3>2. local # NoAddress
      BY <2>1, <3>1, SessionAssumption
    <3>3. PICK k \in DOMAIN active : active[k].address = local
      BY <1>6, <3>2
    <3>4. k \in DOMAIN a /\ a[k].address = ip
      BY <1>7, <1>10, <2>1, <3>3
    <3> QED
      BY <1>13, <3>4
  <2>2. CASE ip # local
    <3>1. PICK k \in DOMAIN others : others[k].ip = ip
      BY <1>3, <2>2
    <3>2. k \in DOMAIN b /\ b[k].address = ip
      BY <1>8, <1>11, <3>1
    <3> QED
      BY <1>13, <3>2
  <2> QED
    BY <2>1, <2>2
<1>17. /\ \E U : before \in Seq(U)
       /\ \A i \in DOMAIN before :
            before[i].address # NoAddress /\ (before[i].type = "GATEWAY" =>
                                                before[i].address = gateway)
       /\ \A ip \in Online : \E i \in DOMAIN before : before[i].address = ip
  BY <1>13, <1>15, <1>16
<1> QED
  BY <1>17, Zenon DEF before, a, b, local, gateway

(* The nodes of the map.                                                   *)
LEMMA NodesAreStar ==
  ASSUME SessionInv, NEW side \in Locals
  PROVE  LET nodes == handleTopologyMap(side).nodes
             shown == {nodes[k].address : k \in DOMAIN nodes}
         IN  /\ Online \subseteq shown
             /\ Len(nodes) = Cardinality(shown)
             /\ \A k \in DOMAIN nodes :
                  (nodes[k].type = "GATEWAY") => nodes[k].address = side.route.gatewayAddress
<1> DEFINE gateway == side.route.gatewayAddress
           local == localIP(side.interfaces, side.route)
           before == LocalNodes(side.interfaces) \o HostNodes(hosts, local, gateway)
           nodes == AddingNodes!Run(<<>>, before)
<1>1. /\ \E T : before \in Seq(T)
      /\ \A i \in DOMAIN before :
           before[i].address # NoAddress /\ (before[i].type = "GATEWAY" =>
                                               before[i].address = gateway)
      /\ \A ip \in Online : \E i \in DOMAIN before : before[i].address = ip
  BY NodesBefore
<1>2. handleTopologyMap(side).nodes = nodes
  BY DEF handleTopologyMap, topologyMap
<1> HIDE DEF before, gateway
<1>3. PICK T : before \in Seq(T)
  BY <1>1
<1>4. /\ nodes \in Seq(T)
      /\ \A j, k \in DOMAIN nodes : nodes[j].address = nodes[k].address => j = k
      /\ \A k \in DOMAIN nodes : \E i \in DOMAIN before : nodes[k] = before[i]
      /\ \A i \in DOMAIN before : \E k \in DOMAIN nodes : nodes[k].address = before[i].address
  BY <1>1, <1>3, NodesAreAdded
<1> HIDE DEF nodes
<1> DEFINE addressOf == [k \in DOMAIN nodes |-> nodes[k].address]
           shown == {nodes[k].address : k \in DOMAIN nodes}
<1>5. Online \subseteq shown
  BY <1>1, <1>4
<1>6. Len(nodes) = Cardinality(shown)
  <2>1. Len(nodes) \in Nat /\ DOMAIN nodes = 1..Len(nodes)
    BY <1>4
  <2>2. IsFiniteSet(1..Len(nodes)) /\ Cardinality(1..Len(nodes)) = Len(nodes)
    BY <2>1, CountOfInterval
  <2>3. \A j, k \in DOMAIN nodes : addressOf[j] = addressOf[k] => j = k
    BY <1>4
  <2>4. {addressOf[k] : k \in DOMAIN nodes} = shown
    OBVIOUS
  <2> HIDE DEF addressOf, shown
  <2>5. Cardinality({addressOf[k] : k \in 1..Len(nodes)}) = Len(nodes)
    BY <2>1, <2>2, <2>3, AsManyImages
  <2> QED
    BY <2>1, <2>4, <2>5
<1>7. \A k \in DOMAIN nodes : (nodes[k].type = "GATEWAY") => nodes[k].address = gateway
  BY <1>1, <1>4
<1>8. /\ Online \subseteq shown /\ Len(nodes) = Cardinality(shown)
      /\ \A k \in DOMAIN nodes : (nodes[k].type = "GATEWAY") => nodes[k].address = gateway
  BY <1>5, <1>6, <1>7
<1> QED
  BY <1>2, <1>8, Zenon DEF gateway

(* The edges of the map.                                                   *)
LEMMA EdgesAreStar ==
  ASSUME SessionInv, NEW side \in Locals
  PROVE  LET edges == handleTopologyMap(side).edges
             local == localIP(side.interfaces, side.route)
             others == (Online \cup {side.route.gatewayAddress}) \ {local, NoAddress}
         IN  IF local = NoAddress THEN edges = <<>>
             ELSE /\ {edges[k] : k \in DOMAIN edges} = {Edge(local, ip) : ip \in others}
                  /\ Len(edges) = Cardinality(others)
<1> DEFINE gateway == side.route.gatewayAddress
           local == localIP(side.interfaces, side.route)
           hostsShown == OnlineBut(hosts, {local, gateway})
           before == HostEdges(hosts, local, gateway)
           edges == AddingEdges!Run(<<>>, before)
           b == [i \in DOMAIN hostsShown |-> Edge(local, hostsShown[i].ip)]
           ends == (Online \cup {gateway}) \ {local, NoAddress}
<1>1. handleTopologyMap(side).edges = edges
  BY DEF handleTopologyMap, topologyMap
<1>2. hosts \in Seq(HostInfo)
  BY SessionInvParts DEF HostsIn
<1>3. /\ hostsShown \in Seq(HostInfo)
      /\ {hostsShown[k].ip : k \in DOMAIN hostsShown} = Online \ {local, gateway}
  BY <1>2, OnlineAre DEF Online
<1>4. before = <<Edge(local, gateway)>> \o b
  BY DEF HostEdges
<1> HIDE DEF hostsShown, edges, before, local, gateway
<1>5. Len(hostsShown) \in Nat /\ DOMAIN hostsShown = 1..Len(hostsShown)
  BY <1>3
<1>6. b = [i \in 1..Len(hostsShown) |-> b[i]]
  BY <1>5
<1>7. \A i \in DOMAIN hostsShown : b[i] = Edge(local, hostsShown[i].ip)
  OBVIOUS
<1> HIDE DEF b
<1>8. b \in Seq(Range(b)) /\ DOMAIN b = DOMAIN hostsShown
  BY <1>5, <1>6, VectorOfItsElements
<1> DEFINE a == <<Edge(local, gateway)>>
           T == Range(b) \cup {Edge(local, gateway)}
<1>9. a \in Seq(T) /\ b \in Seq(T) /\ DOMAIN a = {1} /\ a[1] = Edge(local, gateway)
  BY <1>8
<1> HIDE DEF a, T
<1>10. before \in Seq(T) /\ AllOf(before, a, b)
  <2>1. a \o b \in Seq(T) /\ AllOf(a \o b, a, b)
    BY <1>9, Concatenated
  <2> QED
    BY <1>4, <2>1, Zenon DEF a
<1>11. /\ edges \in Seq(T)
       /\ \A j, k \in DOMAIN edges : edges[j] = edges[k] => j = k
       /\ Range(edges) = {before[i] : i \in {j \in DOMAIN before : Proper(before[j])}}
  BY <1>10, EdgesAreAdded DEF edges
<1>12. {before[i] : i \in DOMAIN before}
         = {Edge(local, ip) : ip \in (Online \ {local, gateway}) \cup {gateway}}
  <2>1. ASSUME NEW i \in DOMAIN before
        PROVE  \E ip \in (Online \ {local, gateway}) \cup {gateway} : before[i] = Edge(local, ip)
    <3>1. CASE \E k \in DOMAIN a : before[i] = a[k]
      BY <1>9, <3>1
    <3>2. CASE \E k \in DOMAIN b : before[i] = b[k]
      <4>1. PICK k \in DOMAIN hostsShown : before[i] = Edge(local, hostsShown[k].ip)
        BY <1>7, <1>8, <3>2
      <4>2. hostsShown[k].ip \in Online \ {local, gateway}
        BY <1>3
      <4> QED
        BY <4>1, <4>2
    <3> QED
      BY <1>10, <3>1, <3>2 DEF AllOf
  <2>2. ASSUME NEW ip \in (Online \ {local, gateway}) \cup {gateway}
        PROVE  \E i \in DOMAIN before : before[i] = Edge(local, ip)
    <3>1. CASE ip = gateway
      <4>1. 1 \in DOMAIN a
        BY <1>9
      <4>2. \E i \in DOMAIN before : before[i] = a[1]
        BY <1>10, <4>1 DEF AllOf
      <4> QED
        BY <1>9, <3>1, <4>2
    <3>2. CASE ip \in Online \ {local, gateway}
      <4>1. PICK k \in DOMAIN hostsShown : hostsShown[k].ip = ip
        BY <1>3, <3>2
      <4>2. k \in DOMAIN b /\ b[k] = Edge(local, ip)
        BY <1>7, <1>8, <4>1
      <4> QED
        BY <1>10, <4>2 DEF AllOf
    <3> QED
      BY <3>1, <3>2
  <2> QED
    BY <2>1, <2>2
<1>13. /\ \A ip : Edge(local, ip).from = local /\ Edge(local, ip).to = ip
       /\ \A ip, jp : Edge(local, ip) = Edge(local, jp) => ip = jp
  BY DEF Edge
<1>14. CASE local = NoAddress
  <2>1. \A i \in DOMAIN before : ~Proper(before[i])
    <3>1. ASSUME NEW i \in DOMAIN before PROVE ~Proper(before[i])
      <4>1. PICK ip : before[i] = Edge(local, ip)
        BY <1>12
      <4> QED
        BY <1>13, <1>14, <4>1 DEF Proper
    <3> QED
      BY <3>1
  <2>2. Range(edges) = {}
    BY <1>11, <2>1
  <2>3. edges = <<>>
    BY <1>11, <2>2 DEF Range
  <2> QED
    BY <1>1, <1>14, <2>3, Zenon DEF local
<1>15. CASE local # NoAddress
  <2>1. Range(edges) = {Edge(local, ip) : ip \in ends}
    <3>1. ASSUME NEW e \in Range(edges) PROVE e \in {Edge(local, ip) : ip \in ends}
      <4>1. PICK i \in DOMAIN before : e = before[i] /\ Proper(before[i])
        BY <1>11
      <4>2. PICK ip \in (Online \ {local, gateway}) \cup {gateway} : e = Edge(local, ip)
        BY <1>12, <4>1
      <4>3. ip # NoAddress /\ ip # local
        BY <1>13, <4>1, <4>2 DEF Proper
      <4> QED
        BY <4>2, <4>3
    <3>2. ASSUME NEW ip \in ends PROVE Edge(local, ip) \in Range(edges)
      <4>1. ip \in (Online \ {local, gateway}) \cup {gateway}
        OBVIOUS
      <4>2. PICK i \in DOMAIN before : before[i] = Edge(local, ip)
        BY <1>12, <4>1
      <4>3. Proper(before[i])
        BY <1>13, <1>15, <4>2 DEF Proper
      <4> QED
        BY <1>11, <4>2, <4>3
    <3> QED
      BY <3>1, <3>2
  <2> HIDE DEF ends
  <2>2. {edges[k] : k \in DOMAIN edges} = Range(edges)
    BY DEF Range
  <2>3. Len(edges) = Cardinality(ends)
    <3>1. Len(edges) \in Nat /\ DOMAIN edges = 1..Len(edges)
      BY <1>11
    <3>2. IsFiniteSet(1..Len(edges)) /\ Cardinality(1..Len(edges)) = Len(edges)
      BY <3>1, CountOfInterval
    <3> DEFINE end == [k \in DOMAIN edges |-> edges[k].to]
    <3>3. ASSUME NEW k \in DOMAIN edges
          PROVE  end[k] \in ends /\ edges[k] = Edge(local, end[k])
      <4>1. edges[k] \in Range(edges)
        BY <2>2
      <4>2. PICK ip \in ends : edges[k] = Edge(local, ip)
        BY <2>1, <4>1
      <4>3. end[k] = ip
        BY <1>13, <4>2
      <4> QED
        BY <4>2, <4>3
    <3>4. {end[k] : k \in DOMAIN edges} = ends
      <4>1. ASSUME NEW ip \in ends PROVE \E k \in DOMAIN edges : end[k] = ip
        <5>1. Edge(local, ip) \in Range(edges)
          BY <2>1
        <5>2. PICK k \in DOMAIN edges : edges[k] = Edge(local, ip)
          BY <2>2, <5>1
        <5> QED
          BY <1>13, <3>3, <5>2
      <4> HIDE DEF end
      <4> QED
        BY <3>3, <4>1
    <3>5. \A j, k \in DOMAIN edges : end[j] = end[k] => j = k
      <4> HIDE DEF end
      <4> QED
        BY <1>11, <3>3
    <3> HIDE DEF end
    <3>6. Cardinality({end[k] : k \in 1..Len(edges)}) = Len(edges)
      BY <3>1, <3>2, <3>5, AsManyImages
    <3> QED
      BY <3>1, <3>4, <3>6
  <2> QED
    BY <1>1, <1>15, <2>1, <2>2, <2>3, Zenon DEF local, gateway, ends
<1> QED
  BY <1>14, <1>15

(* topo|:map draws a star of the online hosts and the gateway around the   *)
(* local address, whatever was discovered and however the local side looks.*)
THEOREM MapIsStar == Spec => []TopologyIsStar
<1>1. ASSUME SessionInv PROVE TopologyIsStar
  BY <1>1, NodesAreStar, EdgesAreStar, Zenon DEF TopologyIsStar, Online
<1> QED
  BY SessionIsInvariant, <1>1, PTL

-----------------------------------------------------------------------------
(* What vuln|:scan and cred|:check look at: one service for each           *)
(* detected port concerned, under its latest name.                         *)
Concerned(target) == {key \in DOMAIN identified : target \in {NoAddress, key[1]}}

(* A vector of services that holds one for each key, and no other.         *)
OneForEach(targets, keys) ==
  /\ targets \in Seq(ServiceInfo)
  /\ UniqueServices(targets)
  /\ \A i \in DOMAIN targets :
       /\ <<targets[i].ip, targets[i].port>> \in keys
       /\ targets[i].service = identified[<<targets[i].ip, targets[i].port>>]
  /\ \A key \in keys : \E i \in DOMAIN targets : <<targets[i].ip, targets[i].port>> = key

(* The store has one service for each detected port.                       *)
LEMMA ServicesOneForEach ==
  ASSUME SessionInv
  PROVE  OneForEach(services, DOMAIN identified)
<1>1. /\ services \in Seq(ServiceInfo) /\ UniqueServices(services)
      /\ DetectionsIn(services, identified)
  BY SessionInvParts DEF ServicesIn
<1>2. {<<services[i].ip, services[i].port>> : i \in DOMAIN services} = DOMAIN identified
  BY <1>1, Zenon DEF DetectionsIn, ServiceTableOf
<1>3. ASSUME NEW i \in DOMAIN services
      PROVE  /\ <<services[i].ip, services[i].port>> \in DOMAIN identified
             /\ services[i].service = identified[<<services[i].ip, services[i].port>>]
  <2>1. <<services[i].ip, services[i].port>> \in DOMAIN identified
    BY <1>2
  <2>2. ServiceTableOf(services)[<<services[i].ip, services[i].port>>] = services[i]
    BY <1>1, ServiceTableAt
  <2>3. ServiceTableOf(services)[<<services[i].ip, services[i].port>>].service
          = identified[<<services[i].ip, services[i].port>>]
    BY <1>1, <2>1, Zenon DEF DetectionsIn
  <2> QED
    BY <2>1, <2>2, <2>3, Zenon
<1>4. ASSUME NEW key \in DOMAIN identified
      PROVE  \E i \in DOMAIN services : <<services[i].ip, services[i].port>> = key
  <2>1. key \in {<<services[i].ip, services[i].port>> : i \in DOMAIN services}
    BY <1>2, Zenon
  <2> QED
    BY <2>1
<1> QED
  BY <1>1, <1>3, <1>4 DEF OneForEach

(* The part of a vector of services that is about one host.                *)
ServicesOf(ss, ip) == Selected(ss, {i \in DOMAIN ss : ss[i].ip = ip})
KeysWith(keys, ip) == {key \in keys : key[1] = ip}

LEMMA PartOfServices ==
  ASSUME NEW ss, NEW keys, OneForEach(ss, keys), keys \subseteq IPs \X PortNumbers,
         NEW ip
  PROVE  OneForEach(ServicesOf(ss, ip), KeysWith(keys, ip))
<1> DEFINE indices == {i \in DOMAIN ss : ss[i].ip = ip}
           w == Selected(ss, indices)
<1>1. ss \in Seq(ServiceInfo) /\ indices \in SUBSET DOMAIN ss /\ DOMAIN ss \subseteq Nat
  BY DEF OneForEach
<1>2. w \in Seq(ServiceInfo) /\ \E at : PicksAt(w, ss, indices, at)
  <2> HIDE DEF indices
  <2> QED
    BY <1>1, SelectedPicks
<1> HIDE DEF w
<1>3. PICK at : PicksAt(w, ss, indices, at)
  BY <1>2
<1>4. DOMAIN w = 1..Len(w) /\ Len(w) \in Nat
  BY <1>2
<1>5. ASSUME NEW k \in DOMAIN w
      PROVE  /\ at[k] \in DOMAIN ss /\ w[k] = ss[at[k]] /\ w[k].ip = ip
             /\ at[k] \in Nat
  <2>1. at[k] \in indices /\ w[k] = ss[at[k]]
    BY <1>3, <1>4 DEF PicksAt
  <2> QED
    BY <1>1, <2>1
<1>6. ASSUME NEW j \in DOMAIN w, NEW k \in DOMAIN w,
             w[j].ip = w[k].ip, w[j].port = w[k].port
      PROVE  j = k
  <2>1. at[j] = at[k]
    BY <1>5, <1>6 DEF OneForEach, UniqueServices
  <2>2. ~(j < k) /\ ~(k < j)
    BY <1>3, <1>4, <1>5, <2>1 DEF PicksAt
  <2> QED
    BY <1>4, <2>2
<1>7. ASSUME NEW k \in DOMAIN w
      PROVE  /\ <<w[k].ip, w[k].port>> \in {key \in keys : key[1] = ip}
             /\ w[k].service = identified[<<w[k].ip, w[k].port>>]
  BY <1>5 DEF OneForEach
<1>8. ASSUME NEW key \in {q \in keys : q[1] = ip}
      PROVE  \E k \in DOMAIN w : <<w[k].ip, w[k].port>> = key
  <2>1. PICK i \in DOMAIN ss : <<ss[i].ip, ss[i].port>> = key
    BY DEF OneForEach
  <2>2. i \in indices
    BY <2>1
  <2>3. PICK k \in 1..Len(w) : at[k] = i
    BY <1>3, <2>2 DEF PicksAt
  <2> QED
    BY <1>3, <1>4, <2>1, <2>3 DEF PicksAt
<1>9. OneForEach(w, {key \in keys : key[1] = ip})
  BY <1>2, <1>6, <1>7, <1>8 DEF OneForEach, UniqueServices
<1> QED
  BY <1>9 DEF w, ServicesOf, KeysWith

(* So have the services of one host.                                       *)
LEMMA ServicesOfHost ==
  ASSUME SessionInv, NEW host
  PROVE  OneForEach(Selected(services, {i \in DOMAIN services : services[i].ip = host}),
                    {key \in DOMAIN identified : key[1] = host})
<1>1. OneForEach(services, DOMAIN identified)
  BY ServicesOneForEach
<1>2. DOMAIN identified \subseteq IPs \X PortNumbers
  BY DEF SessionInv, TypeOK
<1>3. OneForEach(ServicesOf(services, host), KeysWith(DOMAIN identified, host))
  BY <1>1, <1>2, PartOfServices
<1> QED
  BY <1>3, Zenon DEF ServicesOf, KeysWith

(* And so has what a target concerns.                                      *)
LEMMA TargetsOneForEach ==
  ASSUME SessionInv, NEW target \in IPs \cup {NoAddress}
  PROVE  OneForEach(serviceTargets(target), Concerned(target))
<1>1. OneForEach(services, DOMAIN identified)
  BY ServicesOneForEach
<1>2. CASE target = NoAddress
  <2>1. Concerned(target) = DOMAIN identified
    BY <1>2 DEF Concerned
  <2> QED
    BY <1>1, <1>2, <2>1, Zenon DEF serviceTargets
<1>3. CASE target # NoAddress
  <2>1. Concerned(target) = {key \in DOMAIN identified : key[1] = target}
    BY <1>3 DEF Concerned
  <2>2. OneForEach(Selected(services, {i \in DOMAIN services : services[i].ip = target}),
                   {key \in DOMAIN identified : key[1] = target})
    BY ServicesOfHost
  <2> QED
    BY <1>3, <2>1, <2>2, Zenon DEF serviceTargets
<1> QED
  BY <1>2, <1>3

-----------------------------------------------------------------------------
(* The findings of both checkers on a vector that holds one service for    *)
(* each key.                                                               *)
LEMMA OnlyExposureRaises ==
  ASSUME NEW service
  PROVE  Raised(service) = {rule \in ExposureRules : rule[1] = service.port}
<1>1. checkLegacyVersion(service) = {}
  BY DEF checkLegacyVersion, LegacyRules, VersionedNames
<1> QED
  BY <1>1 DEF Raised

(* A vulnerability finding for each service and rule on its port.          *)
LEMMA FindingsAre ==
  ASSUME NEW targets, NEW keys, OneForEach(targets, keys), NEW f
  PROVE  f \in vulnerabilityScan(targets)
           <=> \E i \in DOMAIN targets, r \in ExposureRules :
                 r[1] = targets[i].port /\ f = VulnerabilityFinding(targets[i], r)
<1>0. DOMAIN targets \subseteq Nat /\ \A i \in DOMAIN targets : 1..(i - 1) \subseteq DOMAIN targets
  <2>1. DOMAIN targets = 1..Len(targets) /\ Len(targets) \in Nat
    BY DEF OneForEach
  <2> QED
    BY <2>1
<1>1. ASSUME NEW i \in DOMAIN targets, NEW id PROVE ~duplicateFinding(targets, i, id)
  <2>1. \A j \in 1..(i - 1) : j \in DOMAIN targets /\ j # i
    BY <1>0
  <2> QED
    BY <2>1 DEF duplicateFinding, OneForEach, UniqueServices
<1>2. ASSUME NEW i \in DOMAIN targets
      PROVE  {r \in Raised(targets[i]) : ~duplicateFinding(targets, i, r[2])}
               = {r \in ExposureRules : r[1] = targets[i].port}
  BY <1>1, OnlyExposureRaises
<1>3. vulnerabilityScan(targets)
        = UNION {{VulnerabilityFinding(targets[i], r) :
                    r \in {q \in Raised(targets[i]) : ~duplicateFinding(targets, i, q[2])}} :
                 i \in DOMAIN targets}
  BY DEF vulnerabilityScan
<1>4. f \in vulnerabilityScan(targets)
        <=> \E i \in DOMAIN targets :
              \E r \in {q \in Raised(targets[i]) : ~duplicateFinding(targets, i, q[2])} :
                f = VulnerabilityFinding(targets[i], r)
  BY <1>3
<1> QED
  BY <1>2, <1>4

LEMMA ExposureSeverities == \A r \in ExposureRules : r[3] \in 1..4
BY DEF ExposureRules, checkExposure, checkInsecureProtocol, checkRemoteAccess,
       checkDatabaseExposure, Severity

(* The worst of some severities.                                           *)
LEMMA WorstIsMax ==
  ASSUME NEW S, S \subseteq 0..4, 0 \in S
  PROVE  (CHOOSE s \in S : \A t \in S : t <= s) = Max(S)
<1>1. \E s \in S : \A t \in S : t <= s
  OBVIOUS
<1>2. \E s \in S : \A t \in S : s >= t
  BY <1>1
<1> DEFINE a == CHOOSE s \in S : \A t \in S : t <= s
           b == CHOOSE s \in S : \A t \in S : s >= t
<1>3. a \in S /\ \A t \in S : t <= a
  BY <1>1
<1>4. b \in S /\ \A t \in S : b >= t
  BY <1>2
<1>5. Max(S) = b
  BY DEF Max
<1> HIDE DEF a, b
<1>6. a = b
  BY <1>3, <1>4
<1> QED
  BY <1>5, <1>6 DEF a

(* The findings of vuln|:scan are those of the ports concerned.            *)
LEMMA VulnerabilitiesAre ==
  ASSUME SessionInv, NEW target \in IPs \cup {NoAddress}
  PROVE  LET vulnerabilities == handleVulnScan(target) IN
         /\ {<<f.host, f.port, f.service>> : f \in vulnerabilities}
              = {<<key[1], key[2], identified[key]>> :
                   key \in {k \in Concerned(target) : \E r \in ExposureRules : r[1] = k[2]}}
         /\ {f.severity : f \in vulnerabilities}
              = {r[3] : r \in {x \in ExposureRules :
                                 \E key \in Concerned(target) : key[2] = x[1]}}
<1> DEFINE t == serviceTargets(target)
           v == handleVulnScan(target)
           named == {<<f.host, f.port, f.service>> : f \in v}
           exposed == {k \in Concerned(target) : \E r \in ExposureRules : r[1] = k[2]}
           raised == {x \in ExposureRules : \E key \in Concerned(target) : key[2] = x[1]}
<1>1. OneForEach(t, Concerned(target))
  BY TargetsOneForEach
<1>2. \A f : f \in v <=> \E i \in DOMAIN t, r \in ExposureRules :
                           r[1] = t[i].port /\ f = VulnerabilityFinding(t[i], r)
  BY <1>1, FindingsAre DEF handleVulnScan
<1>3. Concerned(target) \subseteq IPs \X PortNumbers
  BY DEF SessionInv, TypeOK, Concerned
<1>4. /\ \A i \in DOMAIN t : /\ <<t[i].ip, t[i].port>> \in Concerned(target)
                             /\ t[i].service = identified[<<t[i].ip, t[i].port>>]
      /\ \A key \in Concerned(target) : \E i \in DOMAIN t : <<t[i].ip, t[i].port>> = key
  BY <1>1 DEF OneForEach
<1> HIDE DEF t, v
<1>5. ASSUME NEW f \in v
      PROVE  /\ <<f.host, f.port, f.service>> \in {<<key[1], key[2], identified[key]>> :
                                                     key \in exposed}
             /\ f.severity \in {r[3] : r \in raised}
  <2>1. PICK i \in DOMAIN t, r \in ExposureRules :
               r[1] = t[i].port /\ f = VulnerabilityFinding(t[i], r)
    BY <1>2
  <2> DEFINE key == <<t[i].ip, t[i].port>>
  <2>2. /\ f.host = key[1] /\ f.port = key[2] /\ f.service = t[i].service
        /\ f.severity = r[3]
    BY <2>1 DEF VulnerabilityFinding
  <2>3. key \in Concerned(target) /\ t[i].service = identified[key] /\ r[1] = key[2]
    BY <1>4, <2>1
  <2> HIDE DEF key
  <2>4. key \in exposed /\ r \in raised
    BY <2>3
  <2> QED
    BY <2>2, <2>3, <2>4
<1>6. ASSUME NEW key \in Concerned(target), NEW r \in ExposureRules, r[1] = key[2]
      PROVE  \E f \in v : /\ <<f.host, f.port, f.service>> = <<key[1], key[2], identified[key]>>
                          /\ f.severity = r[3]
  <2>1. PICK i \in DOMAIN t : <<t[i].ip, t[i].port>> = key
    BY <1>4
  <2>2. t[i].service = identified[key] /\ t[i].ip = key[1] /\ t[i].port = key[2]
    BY <1>4, <2>1
  <2> DEFINE f == VulnerabilityFinding(t[i], r)
  <2>3. f \in v
    BY <1>2, <1>6, <2>2
  <2>4. /\ f.host = t[i].ip /\ f.port = t[i].port /\ f.service = t[i].service
        /\ f.severity = r[3]
    BY DEF VulnerabilityFinding
  <2> HIDE DEF f
  <2> QED
    BY <2>2, <2>3, <2>4
<1>7. named = {<<key[1], key[2], identified[key]>> : key \in exposed}
  <2>1. \A x \in named : x \in {<<key[1], key[2], identified[key]>> : key \in exposed}
    BY <1>5
  <2>2. \A key \in exposed : <<key[1], key[2], identified[key]>> \in named
    BY <1>6
  <2> HIDE DEF named, exposed
  <2> QED
    BY <2>1, <2>2
<1>8. {f.severity : f \in v} = {r[3] : r \in raised}
  <2>1. \A x \in {f.severity : f \in v} : x \in {r[3] : r \in raised}
    BY <1>5
  <2>2. \A r \in raised : r[3] \in {f.severity : f \in v}
    BY <1>6
  <2> HIDE DEF raised
  <2> QED
    BY <2>1, <2>2
<1> QED
  BY <1>7, <1>8 DEF v

(* And so are those of cred|:check.                                        *)
LEMMA CredentialsAre ==
  ASSUME SessionInv, NEW target \in IPs \cup {NoAddress}
  PROVE  LET credentials == handleCredCheck(target) IN
         /\ Len(credentials)
              = Cardinality({k \in Concerned(target) : k[2] \in DOMAIN CredentialRules})
         /\ \A i \in DOMAIN credentials :
              LET f == credentials[i]
              IN  <<f.host, f.port>> \in Concerned(target)
                    /\ identified[<<f.host, f.port>>] = f.service
<1> DEFINE t == serviceTargets(target)
           c == handleCredCheck(target)
           ruled == DOMAIN CredentialRules
           indices == {i \in DOMAIN t : t[i].port \in ruled}
           kept == Selected(t, indices)
           keyOf == [i \in indices |-> <<t[i].ip, t[i].port>>]
           keys == {k \in Concerned(target) : k[2] \in ruled}
<1>1. OneForEach(t, Concerned(target))
  BY TargetsOneForEach
<1>2. c = [i \in DOMAIN kept |-> CredentialFinding(kept[i])]
  BY DEF handleCredCheck, credentialCheck
<1> HIDE DEF t, c, ruled
<1>3. t \in Seq(ServiceInfo) /\ indices \in SUBSET DOMAIN t
  BY <1>1 DEF OneForEach
<1>4. /\ kept \in Seq(ServiceInfo)
      /\ \A k \in DOMAIN kept : \E i \in indices : kept[k] = t[i]
      /\ IsFiniteSet(indices) /\ Len(kept) = Cardinality(indices)
  <2> HIDE DEF indices
  <2> QED
    BY <1>3, SelectedElements, SelectedCounts
<1>5. \A i, j \in indices : keyOf[i] = keyOf[j] => i = j
  BY <1>1 DEF OneForEach, UniqueServices
<1>6. {keyOf[i] : i \in indices} = keys
  <2>1. \A i \in indices : keyOf[i] \in keys
    BY <1>1 DEF OneForEach
  <2>2. \A k \in keys : \E i \in indices : keyOf[i] = k
    <3> SUFFICES ASSUME NEW k \in keys PROVE \E i \in indices : keyOf[i] = k
      OBVIOUS
    <3>1. PICK i \in DOMAIN t : <<t[i].ip, t[i].port>> = k
      BY <1>1 DEF OneForEach
    <3>2. i \in indices
      BY <3>1
    <3> QED
      BY <3>1, <3>2
  <2> HIDE DEF indices, keys, keyOf
  <2> QED
    BY <2>1, <2>2
<1>7. Cardinality(keys) = Cardinality(indices)
  <2> HIDE DEF indices, keys, keyOf
  <2>1. Cardinality({keyOf[i] : i \in indices}) = Cardinality(indices)
    BY <1>4, <1>5, AsManyImages
  <2> QED
    BY <1>6, <2>1
<1>8. Len(c) = Len(kept) /\ DOMAIN c = DOMAIN kept
  <2>1. DOMAIN kept = 1..Len(kept) /\ Len(kept) \in Nat
    BY <1>4
  <2> HIDE DEF kept
  <2> QED
    BY <1>2, <2>1
<1>9. ASSUME NEW k \in DOMAIN c
      PROVE  /\ <<c[k].host, c[k].port>> \in Concerned(target)
             /\ identified[<<c[k].host, c[k].port>>] = c[k].service
  <2>1. PICK i \in indices : kept[k] = t[i]
    BY <1>4, <1>8
  <2>2. c[k] = CredentialFinding(t[i])
    BY <1>2, <1>8, <2>1
  <2>3. c[k].host = t[i].ip /\ c[k].port = t[i].port /\ c[k].service = t[i].service
    BY <2>2 DEF CredentialFinding
  <2> QED
    BY <1>1, <2>3 DEF OneForEach
<1> HIDE DEF kept, keys, indices
<1>10. Len(c) = Cardinality(keys)
  BY <1>4, <1>7, <1>8
<1> QED
  BY <1>9, <1>10 DEF c, keys, ruled

(* One finding for each port and rule, under the latest name.              *)
THEOREM FindingsAreOncePerPort == Spec => []FindingsOncePerPort
<1>1. ASSUME SessionInv PROVE FindingsOncePerPort
  <2> SUFFICES ASSUME NEW target \in IPs \cup {NoAddress}
               PROVE  LET vulnerabilities == handleVulnScan(target)
                          credentials == handleCredCheck(target)
                          concerned == Concerned(target)
    IN  /\ {<<f.host, f.port, f.service>> : f \in vulnerabilities}
             = {<<key[1], key[2], identified[key]>> :
                  key \in {k \in concerned : \E r \in ExposureRules : r[1] = k[2]}}
        /\ RiskLevel(vulnerabilities)
             = Max({0} \cup {r[3] : r \in {x \in ExposureRules :
                                \E key \in concerned : key[2] = x[1]}})
        /\ Len(credentials)
             = Cardinality({k \in concerned : k[2] \in DOMAIN CredentialRules})
        /\ \A i \in DOMAIN credentials :
             LET f == credentials[i]
             IN  <<f.host, f.port>> \in concerned /\ identified[<<f.host, f.port>>] = f.service
    BY Zenon DEF FindingsOncePerPort, Concerned
  <2> DEFINE v == handleVulnScan(target)
             c == handleCredCheck(target)
             worst == {r[3] : r \in {x \in ExposureRules :
                                \E key \in Concerned(target) : key[2] = x[1]}}
             S == {0} \cup worst
  <2>1. /\ {<<f.host, f.port, f.service>> : f \in v}
             = {<<key[1], key[2], identified[key]>> :
                  key \in {k \in Concerned(target) : \E r \in ExposureRules : r[1] = k[2]}}
        /\ {f.severity : f \in v} = worst
    BY <1>1, VulnerabilitiesAre, Zenon
  <2>2. RiskLevel(v) = Max(S)
    <3>1. S \subseteq 0..4 /\ 0 \in S
      BY ExposureSeverities
    <3>2. RiskLevel(v) = CHOOSE s \in S : \A t \in S : t <= s
      BY <2>1, Zenon DEF RiskLevel
    <3> HIDE DEF S
    <3> QED
      BY <3>1, <3>2, WorstIsMax
  <2>3. /\ Len(c) = Cardinality({k \in Concerned(target) : k[2] \in DOMAIN CredentialRules})
        /\ \A i \in DOMAIN c :
             LET f == c[i]
             IN  <<f.host, f.port>> \in Concerned(target)
                   /\ identified[<<f.host, f.port>>] = f.service
    BY <1>1, CredentialsAre, Zenon
  <2> QED
    BY <2>1, <2>2, <2>3, Zenon
<1> QED
  BY <1>1, SessionIsInvariant, PTL

-----------------------------------------------------------------------------
(* The ports of a host, as its latest scans left them.                     *)
ScannedAt(ip) == {key \in DOMAIN observed : key[1] = ip}
OpenKeysAt(ip) == {key \in DOMAIN observed : key[1] = ip /\ observed[key]}
OpenAt(ip) == {key[2] : key \in {k \in DOMAIN observed : k[1] = ip /\ observed[k]}}

(* What the keys of a host say, in terms of its port numbers.              *)
LEMMA KeysArePairs ==
  ASSUME SessionInv, NEW ip \in IPs
  PROVE  /\ \A key \in ScannedAt(ip) : key = <<ip, key[2]>> /\ key[2] \in PortNumbers
         /\ OpenKeysAt(ip) \subseteq ScannedAt(ip)
         /\ \A n : n \in OpenAt(ip) <=> <<ip, n>> \in OpenKeysAt(ip)
         /\ \A n : <<ip, n>> \in OpenKeysAt(ip)
                     <=> <<ip, n>> \in DOMAIN observed /\ observed[<<ip, n>>]
<1>1. DOMAIN observed \subseteq IPs \X PortNumbers
  BY DEF SessionInv, TypeOK
<1>2. \A key \in ScannedAt(ip) : key = <<ip, key[2]>> /\ key[2] \in PortNumbers
  BY <1>1 DEF ScannedAt
<1>3. OpenKeysAt(ip) \subseteq ScannedAt(ip)
  BY DEF OpenKeysAt, ScannedAt
<1>4. ASSUME NEW n PROVE n \in OpenAt(ip) <=> <<ip, n>> \in OpenKeysAt(ip)
  <2>1. n \in OpenAt(ip) => <<ip, n>> \in OpenKeysAt(ip)
    BY <1>1 DEF OpenAt, OpenKeysAt
  <2>2. <<ip, n>> \in OpenKeysAt(ip) => n \in OpenAt(ip)
    BY DEF OpenAt, OpenKeysAt
  <2> QED
    BY <2>1, <2>2
<1>5. \A n : <<ip, n>> \in OpenKeysAt(ip)
               <=> <<ip, n>> \in DOMAIN observed /\ observed[<<ip, n>>]
  BY DEF OpenKeysAt
<1> QED
  BY <1>2, <1>3, <1>4, <1>5

(* A host has as many entries as ports were scanned, and as many open ones *)
(* as were found open last.                                                *)
LEMMA PortsAreCounted ==
  ASSUME SessionInv, NEW ip \in IPs
  PROVE  LET ps == getPorts(ip)
             open == {i \in DOMAIN ps : ps[i].open} IN
         /\ \A n : (\E i \in DOMAIN ps : ps[i].open /\ ps[i].port = n) <=> n \in OpenAt(ip)
         /\ IsFiniteSet(ScannedAt(ip)) /\ Cardinality(ScannedAt(ip)) = Len(ps)
         /\ IsFiniteSet(OpenKeysAt(ip)) /\ Cardinality(OpenKeysAt(ip)) = Cardinality(open)
         /\ IsFiniteSet(OpenAt(ip)) /\ Cardinality(OpenAt(ip)) = Cardinality(open)
         /\ open \in SUBSET DOMAIN ps /\ IsFiniteSet(open)
<1> DEFINE ps == getPorts(ip)
           open == {i \in DOMAIN ps : ps[i].open}
           portOf == [i \in DOMAIN ps |-> ps[i].port]
           keyOf == [i \in DOMAIN ps |-> <<ip, ps[i].port>>]
<1>1. /\ ps \in Seq(PortInfo) /\ UniquePorts(ps)
      /\ \A i \in DOMAIN ps : /\ <<ip, ps[i].port>> \in DOMAIN observed
                              /\ ps[i].open = observed[<<ip, ps[i].port>>]
      /\ \A n : <<ip, n>> \in DOMAIN observed => \E i \in DOMAIN ps : ps[i].port = n
  BY PortsAreObserved
<1> HIDE DEF ps
<1>2. DOMAIN ps = 1..Len(ps) /\ Len(ps) \in Nat
  BY <1>1
<1>3. IsFiniteSet(DOMAIN ps) /\ Cardinality(DOMAIN ps) = Len(ps)
  BY <1>2, CountOfInterval
<1>4. open \in SUBSET DOMAIN ps /\ IsFiniteSet(open)
  <2>1. open \in SUBSET DOMAIN ps
    OBVIOUS
  <2> QED
    BY <1>3, <2>1, FS_Subset
<1>5. /\ \A i, j \in DOMAIN ps : portOf[i] = portOf[j] => i = j
      /\ \A i, j \in DOMAIN ps : keyOf[i] = keyOf[j] => i = j
  BY <1>1 DEF UniquePorts
<1>6. ASSUME NEW n
      PROVE  (\E i \in DOMAIN ps : ps[i].open /\ ps[i].port = n) <=> n \in OpenAt(ip)
  <2>1. n \in OpenAt(ip) <=> <<ip, n>> \in DOMAIN observed /\ observed[<<ip, n>>]
    BY KeysArePairs
  <2> QED
    BY <1>1, <2>1
<1>7. {keyOf[i] : i \in DOMAIN ps} = ScannedAt(ip)
  <2>1. \A i \in DOMAIN ps : keyOf[i] \in ScannedAt(ip)
    BY <1>1 DEF ScannedAt
  <2>2. ASSUME NEW key \in ScannedAt(ip) PROVE \E i \in DOMAIN ps : keyOf[i] = key
    <3>1. key = <<ip, key[2]>> /\ key \in DOMAIN observed
      BY KeysArePairs DEF ScannedAt
    <3>2. PICK i \in DOMAIN ps : ps[i].port = key[2]
      BY <1>1, <3>1
    <3> QED
      BY <3>1, <3>2
  <2> HIDE DEF keyOf
  <2> QED
    BY <2>1, <2>2
<1>8. {keyOf[i] : i \in open} = OpenKeysAt(ip)
  <2>1. ASSUME NEW i \in open PROVE keyOf[i] \in OpenKeysAt(ip)
    BY <1>1 DEF OpenKeysAt
  <2>2. ASSUME NEW key \in OpenKeysAt(ip) PROVE \E i \in open : keyOf[i] = key
    <3>1. key = <<ip, key[2]>> /\ key \in DOMAIN observed /\ observed[key]
      BY KeysArePairs DEF OpenKeysAt
    <3>2. PICK i \in DOMAIN ps : ps[i].port = key[2]
      BY <1>1, <3>1
    <3>3. ps[i].open
      BY <1>1, <3>1, <3>2
    <3> QED
      BY <3>1, <3>2, <3>3
  <2> HIDE DEF keyOf, open
  <2> QED
    BY <2>1, <2>2
<1>9. {portOf[i] : i \in open} = OpenAt(ip)
  <2>1. \A n : (\E i \in open : portOf[i] = n) <=> n \in OpenAt(ip)
    BY <1>6
  <2> HIDE DEF portOf, open
  <2> QED
    BY <2>1
<1> HIDE DEF keyOf, portOf, open
<1>10. IsFiniteSet(ScannedAt(ip)) /\ Cardinality(ScannedAt(ip)) = Len(ps)
  <2>1. /\ IsFiniteSet({keyOf[i] : i \in DOMAIN ps})
        /\ Cardinality({keyOf[i] : i \in DOMAIN ps}) = Cardinality(DOMAIN ps)
    BY <1>3, <1>5, AsManyImages
  <2> QED
    BY <1>3, <1>7, <2>1
<1>11. IsFiniteSet(OpenKeysAt(ip)) /\ Cardinality(OpenKeysAt(ip)) = Cardinality(open)
  <2>1. /\ IsFiniteSet({keyOf[i] : i \in open})
        /\ Cardinality({keyOf[i] : i \in open}) = Cardinality(open)
    BY <1>4, <1>5, AsManyImages
  <2> QED
    BY <1>8, <2>1
<1>12. IsFiniteSet(OpenAt(ip)) /\ Cardinality(OpenAt(ip)) = Cardinality(open)
  <2>1. /\ IsFiniteSet({portOf[i] : i \in open})
        /\ Cardinality({portOf[i] : i \in open}) = Cardinality(open)
    BY <1>4, <1>5, AsManyImages
  <2> QED
    BY <1>9, <2>1
<1> QED
  BY <1>4, <1>6, <1>10, <1>11, <1>12 DEF ps, open

(* The rows of a host are its open ports, one row each.                    *)
LEMMA RowsOfHost ==
  ASSUME SessionInv, NEW ip \in IPs
  PROVE  /\ rowsOf(ip) \in Seq(IPs \X PortNumbers)
         /\ Len(rowsOf(ip)) = Len(OpenPorts(getPorts(ip)))
         /\ Len(rowsOf(ip)) = Cardinality(OpenKeysAt(ip))
         /\ Range(rowsOf(ip)) = OpenKeysAt(ip)
<1> DEFINE ps == getPorts(ip)
           open == {i \in DOMAIN ps : ps[i].open}
           w == Selected(ps, open)
           rows == [k \in DOMAIN w |-> <<ip, w[k].port>>]
<1>1. /\ ps \in Seq(PortInfo)
      /\ \A n : (\E i \in DOMAIN ps : ps[i].open /\ ps[i].port = n) <=> n \in OpenAt(ip)
      /\ Cardinality(OpenKeysAt(ip)) = Cardinality(open)
      /\ open \in SUBSET DOMAIN ps
  BY PortsAreObserved, PortsAreCounted
<1>2. OpenPorts(ps) = w /\ rowsOf(ip) = rows
  BY DEF OpenPorts, rowsOf
<1> HIDE DEF ps
<1>3. /\ w \in Seq(PortInfo) /\ Len(w) = Cardinality(open)
      /\ \A k \in DOMAIN w : \E i \in open : w[k] = ps[i]
      /\ \A i \in open : \E k \in DOMAIN w : w[k] = ps[i]
  <2> HIDE DEF open
  <2> QED
    BY <1>1, SelectedElements, SelectedCounts
<1> HIDE DEF w
<1>4. DOMAIN w = 1..Len(w) /\ Len(w) \in Nat
  BY <1>3
<1>5. rows \in Seq(IPs \X PortNumbers) /\ Len(rows) = Len(w) /\ DOMAIN rows = DOMAIN w
  <2>1. \A k \in 1..Len(w) : w[k].port \in PortNumbers
    <3>1. \A k \in 1..Len(w) : w[k] \in PortInfo
      BY <1>3, <1>4
    <3> QED
      BY <3>1 DEF PortInfo
  <2> QED
    BY <1>4, <2>1
<1>6. Range(rows) = OpenKeysAt(ip)
  <2>1. ASSUME NEW k \in DOMAIN w PROVE rows[k] \in OpenKeysAt(ip)
    <3>1. PICK i \in open : w[k] = ps[i]
      BY <1>3
    <3>2. w[k].port \in OpenAt(ip)
      BY <1>1, <3>1
    <3> QED
      BY <3>2, KeysArePairs
  <2>2. ASSUME NEW key \in OpenKeysAt(ip) PROVE \E k \in DOMAIN w : rows[k] = key
    <3>1. key = <<ip, key[2]>>
      BY KeysArePairs
    <3>2. key[2] \in OpenAt(ip)
      BY <3>1, KeysArePairs
    <3>3. PICK i \in DOMAIN ps : ps[i].open /\ ps[i].port = key[2]
      BY <1>1, <3>2
    <3>4. PICK k \in DOMAIN w : w[k] = ps[i]
      BY <1>3, <3>3
    <3> QED
      BY <3>1, <3>3, <3>4
  <2> HIDE DEF rows
  <2> QED
    BY <1>5, <2>1, <2>2 DEF Range
<1> HIDE DEF rows, open
<1> QED
  BY <1>1, <1>2, <1>3, <1>5, <1>6 DEF ps

-----------------------------------------------------------------------------
(* The alerts of a host.                                                   *)
HasPort(ip, n) == \E i \in DOMAIN getPorts(ip) :
                    getPorts(ip)[i].open /\ getPorts(ip)[i].port = n

(* The port rules speak of the open ports only.                            *)
LEMMA PortAlertsAre ==
  ASSUME SessionInv, NEW ip \in IPs
  PROVE  portAlerts(getPorts(ip))
           = {Alert(r[2], r[1], r[3]) : r \in {q \in PortRules : q[1] \in OpenAt(ip)}}
<1>1. \A n : (\E i \in DOMAIN getPorts(ip) :
                getPorts(ip)[i].open /\ getPorts(ip)[i].port = n) <=> n \in OpenAt(ip)
  BY PortsAreCounted
<1> QED
  BY <1>1 DEF portAlerts

(* One rule for a port, with a severity and a type of its own.             *)
HostAlertTypes ==
  {"SERVICE_STATE_MISMATCH", "VERY_LARGE_ATTACK_SURFACE", "LARGE_ATTACK_SURFACE",
   "MULTIPLE_ADMIN_SERVICES", "LEGACY_SERVICE_DETECTED"}

LEMMA PortRulesAre ==
  /\ \A r \in PortRules : r[2] \notin HostAlertTypes
  /\ \A q, r \in PortRules : q[1] = r[1] => q = r
<1>1. \A r \in PortRules : r[2] \notin HostAlertTypes
  BY DEF PortRules, checkLegacyProtocols, checkExposedDatabases, checkRemoteAdministration,
         checkManagementServices, checkFileSharing, checkCleartextServices,
         checkHighRiskServices, HostAlertTypes
<1>2. \A q, r \in PortRules : q[1] = r[1] => q = r
  BY DEF PortRules, checkLegacyProtocols, checkExposedDatabases, checkRemoteAdministration,
         checkManagementServices, checkFileSharing, checkCleartextServices,
         checkHighRiskServices
<1> QED
  BY <1>1, <1>2

(* The rule on service names never applies.                                *)
LEMMA NobodySaysTelnet == DetectedNames \cap TelnetNames = {}
BY RulesAreASequence DEF DetectedNames, TelnetNames

(* A service contradicts its port when its port's last answer was closed.  *)
LEMMA MismatchesAre ==
  ASSUME SessionInv, NEW ip \in IPs
  PROVE  LET ss == Selected(services, {i \in DOMAIN services : services[i].ip = ip})
             contradicted == {k \in DOMAIN identified : k[1] = ip /\ ~observed[k]} IN
         /\ checkServicePortConsistency(getPorts(ip), ss)
              = {Alert("SERVICE_STATE_MISMATCH", n, LOW_ALERT) :
                   n \in {key[2] : key \in contradicted}}
         /\ checkServiceExposure(ss) = {}
<1> DEFINE ps == getPorts(ip)
           ss == Selected(services, {i \in DOMAIN services : services[i].ip = ip})
           keys == {key \in DOMAIN identified : key[1] = ip}
           contradicted == {k \in DOMAIN identified : k[1] = ip /\ ~observed[k]}
           ports == {key[2] : key \in contradicted}
           loose == {k \in DOMAIN ss :
                       \A j \in DOMAIN ps : ~(ps[j].open /\ ps[j].port = ss[k].port)}
<1>1. /\ DOMAIN identified \subseteq IPs \X PortNumbers
      /\ DOMAIN identified \subseteq DOMAIN observed
      /\ \A key \in DOMAIN observed : observed[key] \in BOOLEAN
      /\ \A key \in DOMAIN identified : identified[key] \in DetectedNames
  BY DEF SessionInv, TypeOK
<1>2. OneForEach(ss, keys)
  BY ServicesOfHost, Zenon
<1>3. \A n : (\E i \in DOMAIN ps : ps[i].open /\ ps[i].port = n) <=> n \in OpenAt(ip)
  BY PortsAreCounted
<1>4. \A n : n \in OpenAt(ip) <=> <<ip, n>> \in DOMAIN observed /\ observed[<<ip, n>>]
  BY KeysArePairs
<1> HIDE DEF ss, ps
<1>5. ASSUME NEW k \in DOMAIN ss
      PROVE  /\ ss[k].ip = ip /\ <<ip, ss[k].port>> \in DOMAIN identified
             /\ k \in loose <=> ~observed[<<ip, ss[k].port>>]
             /\ ss[k].service \in DetectedNames
  <2>1. /\ <<ss[k].ip, ss[k].port>> \in keys
        /\ ss[k].service = identified[<<ss[k].ip, ss[k].port>>]
    BY <1>2 DEF OneForEach
  <2>2. ss[k].ip = ip /\ <<ip, ss[k].port>> \in DOMAIN identified
    BY <2>1
  <2>3. k \in loose <=> ss[k].port \notin OpenAt(ip)
    BY <1>3
  <2>4. ss[k].service \in DetectedNames
    BY <1>1, <2>1
  <2> QED
    BY <1>1, <1>4, <2>2, <2>3, <2>4
<1>6. \A n : (\E k \in loose : n = ss[k].port) <=> n \in ports
  <2>1. ASSUME NEW k \in loose PROVE ss[k].port \in ports
    <3>1. <<ip, ss[k].port>> \in contradicted
      BY <1>5
    <3> QED
      BY <3>1
  <2>2. ASSUME NEW n \in ports PROVE \E k \in loose : n = ss[k].port
    <3>1. PICK key \in contradicted : n = key[2]
      OBVIOUS
    <3>2. key = <<ip, n>> /\ key \in keys
      BY <1>1, <3>1
    <3>3. PICK k \in DOMAIN ss : <<ss[k].ip, ss[k].port>> = key
      BY <1>2, <3>2 DEF OneForEach
    <3>4. ss[k].port = n /\ ~observed[<<ip, ss[k].port>>]
      BY <3>1, <3>2, <3>3
    <3> QED
      BY <1>5, <3>4
  <2> HIDE DEF loose, ports
  <2> QED
    BY <2>1, <2>2
<1>7. checkServicePortConsistency(ps, ss)
        = {Alert("SERVICE_STATE_MISMATCH", ss[k].port, LOW_ALERT) : k \in loose}
  BY DEF checkServicePortConsistency
<1>8. checkServiceExposure(ss) = {}
  BY <1>5, NobodySaysTelnet DEF checkServiceExposure
<1> HIDE DEF loose, ports
<1>9. {Alert("SERVICE_STATE_MISMATCH", ss[k].port, LOW_ALERT) : k \in loose}
        = {Alert("SERVICE_STATE_MISMATCH", n, LOW_ALERT) : n \in ports}
  BY <1>6
<1> QED
  BY <1>7, <1>8, <1>9, Zenon DEF ps, ss, ports

(* The alerts on the surface of a host are those of its open ports.        *)
LargeAt(ip) == Cardinality(OpenAt(ip)) >= VERY_LARGE_SURFACE
ManyAdminAt(ip) == Cardinality(OpenAt(ip) \cap AdministrativePorts) >= 2

(* The surface is weighed by the number of open ports.                     *)
LEMMA SurfaceAlertsAre ==
  ASSUME SessionInv, NEW ip \in IPs
  PROVE  LET surface == checkAttackSurface(getPorts(ip))
             admin == checkAdministrativeExposure(getPorts(ip)) IN
         /\ LargeAt(ip) => surface = {Alert("VERY_LARGE_ATTACK_SURFACE", 0, HIGH_ALERT)}
         /\ ~LargeAt(ip) => surface \subseteq {Alert("LARGE_ATTACK_SURFACE", 0, MEDIUM_ALERT)}
         /\ ManyAdminAt(ip) => admin = {Alert("MULTIPLE_ADMIN_SERVICES", 0, MEDIUM_ALERT)}
         /\ ~ManyAdminAt(ip) => admin = {}
<1> DEFINE ps == getPorts(ip)
<1>1. /\ \A n : (\E i \in DOMAIN ps : ps[i].open /\ ps[i].port = n) <=> n \in OpenAt(ip)
      /\ Cardinality(OpenAt(ip)) = Cardinality({i \in DOMAIN ps : ps[i].open})
  BY PortsAreCounted
<1> HIDE DEF ps
<1>2. openEntries(ps) = Cardinality(OpenAt(ip))
  BY <1>1, Zenon DEF openEntries
<1>3. /\ LargeAt(ip) => checkAttackSurface(ps) = {Alert("VERY_LARGE_ATTACK_SURFACE", 0, HIGH_ALERT)}
      /\ ~LargeAt(ip) => checkAttackSurface(ps)
                           \subseteq {Alert("LARGE_ATTACK_SURFACE", 0, MEDIUM_ALERT)}
  BY <1>2 DEF LargeAt, checkAttackSurface
<1>4. {n \in AdministrativePorts : \E i \in DOMAIN ps : ps[i].open /\ ps[i].port = n}
        = OpenAt(ip) \cap AdministrativePorts
  BY <1>1
<1>5. /\ ManyAdminAt(ip) => checkAdministrativeExposure(ps)
                              = {Alert("MULTIPLE_ADMIN_SERVICES", 0, MEDIUM_ALERT)}
      /\ ~ManyAdminAt(ip) => checkAdministrativeExposure(ps) = {}
  BY <1>4, Zenon DEF ManyAdminAt, checkAdministrativeExposure
<1> QED
  BY <1>3, <1>5 DEF ps

(* All alerts of a host, by where they come from.                          *)
MismatchedAt(ip) ==
  {key[2] : key \in {k \in DOMAIN identified : k[1] = ip /\ ~observed[k]}}
PortAlert(a, ip) ==
  \E r \in PortRules : r[1] \in OpenAt(ip) /\ a = Alert(r[2], r[1], r[3])
MismatchAlert(a, ip) ==
  \E n \in MismatchedAt(ip) : a = Alert("SERVICE_STATE_MISMATCH", n, LOW_ALERT)
VeryLargeAlert == Alert("VERY_LARGE_ATTACK_SURFACE", 0, HIGH_ALERT)
LargeAlert == Alert("LARGE_ATTACK_SURFACE", 0, MEDIUM_ALERT)
AdminAlert == Alert("MULTIPLE_ADMIN_SERVICES", 0, MEDIUM_ALERT)

LEMMA AlertsAre ==
  ASSUME SessionInv, NEW ip \in IPs
  PROVE  /\ \A a \in securityAlerts(ip) :
              \/ PortAlert(a, ip) \/ MismatchAlert(a, ip)
              \/ LargeAt(ip) /\ a = VeryLargeAlert
              \/ a = LargeAlert
              \/ ManyAdminAt(ip) /\ a = AdminAlert
         /\ \A a : PortAlert(a, ip) \/ MismatchAlert(a, ip) => a \in securityAlerts(ip)
         /\ LargeAt(ip) => VeryLargeAlert \in securityAlerts(ip)
         /\ ManyAdminAt(ip) => AdminAlert \in securityAlerts(ip)
<1> DEFINE ps == getPorts(ip)
           ss == Selected(services, {i \in DOMAIN services : services[i].ip = ip})
           surface == checkAttackSurface(ps)
           admin == checkAdministrativeExposure(ps)
<1>1. securityAlerts(ip)
        = UNION {portAlerts(ps), checkServiceExposure(ss),
                 checkServicePortConsistency(ps, ss), surface, admin}
  BY DEF securityAlerts, analyze
<1>2. \A a : a \in portAlerts(ps) <=> PortAlert(a, ip)
  BY PortAlertsAre DEF PortAlert
<1>3. /\ \A a : a \in checkServicePortConsistency(ps, ss) <=> MismatchAlert(a, ip)
      /\ checkServiceExposure(ss) = {}
  <2>1. checkServicePortConsistency(ps, ss)
          = {Alert("SERVICE_STATE_MISMATCH", n, LOW_ALERT) : n \in MismatchedAt(ip)}
    BY MismatchesAre, Zenon DEF MismatchedAt
  <2>2. checkServiceExposure(ss) = {}
    BY MismatchesAre, Zenon
  <2> HIDE DEF ps, ss
  <2> QED
    BY <2>1, <2>2 DEF MismatchAlert
<1>4. /\ LargeAt(ip) => surface = {VeryLargeAlert}
      /\ ~LargeAt(ip) => surface \subseteq {LargeAlert}
      /\ ManyAdminAt(ip) => admin = {AdminAlert}
      /\ ~ManyAdminAt(ip) => admin = {}
  BY SurfaceAlertsAre, Zenon DEF VeryLargeAlert, LargeAlert, AdminAlert
<1> HIDE DEF ps, ss, surface, admin
<1> QED
  BY <1>1, <1>2, <1>3, <1>4

(* Their types and severities keep the families apart.                     *)
LEMMA AlertFields ==
  ASSUME NEW ip, NEW a
  PROVE  /\ PortAlert(a, ip) => a.type \notin HostAlertTypes /\ a.about \in OpenAt(ip)
         /\ MismatchAlert(a, ip) =>
              /\ a.type = "SERVICE_STATE_MISMATCH" /\ a.severity # HIGH_ALERT
              /\ a.about \in MismatchedAt(ip)
         /\ VeryLargeAlert.type = "VERY_LARGE_ATTACK_SURFACE"
         /\ VeryLargeAlert.severity = HIGH_ALERT /\ VeryLargeAlert.about = 0
         /\ LargeAlert.type = "LARGE_ATTACK_SURFACE" /\ LargeAlert.severity # HIGH_ALERT
         /\ AdminAlert.type = "MULTIPLE_ADMIN_SERVICES" /\ AdminAlert.severity # HIGH_ALERT
<1>1. PortAlert(a, ip) => a.type \notin HostAlertTypes /\ a.about \in OpenAt(ip)
  <2> SUFFICES ASSUME PortAlert(a, ip)
               PROVE  a.type \notin HostAlertTypes /\ a.about \in OpenAt(ip)
    OBVIOUS
  <2>1. PICK r \in PortRules : r[1] \in OpenAt(ip) /\ a = Alert(r[2], r[1], r[3])
    BY DEF PortAlert
  <2>2. a.type = r[2] /\ a.about = r[1]
    BY <2>1 DEF Alert
  <2> QED
    BY <2>1, <2>2, PortRulesAre
<1>2. MismatchAlert(a, ip) =>
              /\ a.type = "SERVICE_STATE_MISMATCH" /\ a.severity # HIGH_ALERT
              /\ a.about \in MismatchedAt(ip)
  BY DEF MismatchAlert, Alert, HIGH_ALERT, LOW_ALERT
<1>3. /\ VeryLargeAlert.type = "VERY_LARGE_ATTACK_SURFACE"
      /\ VeryLargeAlert.severity = HIGH_ALERT /\ VeryLargeAlert.about = 0
      /\ LargeAlert.type = "LARGE_ATTACK_SURFACE" /\ LargeAlert.severity # HIGH_ALERT
      /\ AdminAlert.type = "MULTIPLE_ADMIN_SERVICES" /\ AdminAlert.severity # HIGH_ALERT
  BY DEF VeryLargeAlert, LargeAlert, AdminAlert, Alert, HIGH_ALERT, MEDIUM_ALERT
<1> QED
  BY <1>1, <1>2, <1>3

(* What the alerts of a host are about.                                    *)
LEMMA AlertsAreAbout ==
  ASSUME SessionInv, NEW ip \in IPs
  PROVE  LET about(type) == {a.about : a \in {b \in securityAlerts(ip) : b.type = type}} IN
         /\ {a.about : a \in portAlerts(getPorts(ip))}
              = {rule[1] : rule \in PortRules} \cap OpenAt(ip)
         /\ about("SERVICE_STATE_MISMATCH") = MismatchedAt(ip)
         /\ about("VERY_LARGE_ATTACK_SURFACE") # {} <=> LargeAt(ip)
         /\ about("MULTIPLE_ADMIN_SERVICES") # {} <=> ManyAdminAt(ip)
<1> DEFINE alerts == securityAlerts(ip)
           about(type) == {a.about : a \in {b \in alerts : b.type = type}}
<1>1. {a.about : a \in portAlerts(getPorts(ip))}
        = {rule[1] : rule \in PortRules} \cap OpenAt(ip)
  <2>1. \A r : Alert(r[2], r[1], r[3]).about = r[1]
    BY DEF Alert
  <2>2. portAlerts(getPorts(ip))
          = {Alert(r[2], r[1], r[3]) : r \in {q \in PortRules : q[1] \in OpenAt(ip)}}
    BY PortAlertsAre
  <2> QED
    BY <2>1, <2>2
<1>2. "SERVICE_STATE_MISMATCH" \in HostAlertTypes
      /\ "VERY_LARGE_ATTACK_SURFACE" \in HostAlertTypes
      /\ "MULTIPLE_ADMIN_SERVICES" \in HostAlertTypes
  BY DEF HostAlertTypes
<1>3. about("SERVICE_STATE_MISMATCH") = MismatchedAt(ip)
  <2>1. ASSUME NEW a \in alerts, a.type = "SERVICE_STATE_MISMATCH"
        PROVE  a.about \in MismatchedAt(ip)
    <3>1. MismatchAlert(a, ip)
      BY <1>2, <2>1, AlertsAre, AlertFields
    <3> QED
      BY <3>1, AlertFields
  <2>2. ASSUME NEW n \in MismatchedAt(ip)
        PROVE  n \in about("SERVICE_STATE_MISMATCH")
    <3> DEFINE a == Alert("SERVICE_STATE_MISMATCH", n, LOW_ALERT)
    <3>1. a.type = "SERVICE_STATE_MISMATCH" /\ a.about = n
      BY DEF Alert
    <3>2. MismatchAlert(a, ip)
      BY DEF MismatchAlert
    <3> HIDE DEF a
    <3>3. a \in alerts
      BY <3>2, AlertsAre
    <3> QED
      BY <3>1, <3>3
  <2> QED
    BY <2>1, <2>2
<1>4. about("VERY_LARGE_ATTACK_SURFACE") # {} <=> LargeAt(ip)
  <2>1. ASSUME NEW a \in alerts, a.type = "VERY_LARGE_ATTACK_SURFACE" PROVE LargeAt(ip)
    BY <1>2, <2>1, AlertsAre, AlertFields
  <2>2. LargeAt(ip) => VeryLargeAlert \in alerts
    BY AlertsAre
  <2>3. VeryLargeAlert.type = "VERY_LARGE_ATTACK_SURFACE"
    BY AlertFields
  <2> HIDE DEF alerts
  <2> QED
    BY <2>1, <2>2, <2>3
<1>5. about("MULTIPLE_ADMIN_SERVICES") # {} <=> ManyAdminAt(ip)
  <2>1. ASSUME NEW a \in alerts, a.type = "MULTIPLE_ADMIN_SERVICES" PROVE ManyAdminAt(ip)
    BY <1>2, <2>1, AlertsAre, AlertFields
  <2>2. ManyAdminAt(ip) => AdminAlert \in alerts
    BY AlertsAre
  <2>3. AdminAlert.type = "MULTIPLE_ADMIN_SERVICES"
    BY AlertFields
  <2> HIDE DEF alerts
  <2> QED
    BY <2>1, <2>2, <2>3
<1> QED
  BY <1>1, <1>3, <1>4, <1>5

-----------------------------------------------------------------------------
(* Sums over the discovered hosts.                                         *)
Discovered == {hosts[k].ip : k \in DOMAIN hosts}

(* The hosts that are summed over.                                         *)
LEMMA DiscoveredAre ==
  ASSUME SessionInv
  PROVE  /\ hosts \in Seq(HostInfo) /\ DOMAIN hosts = 1..Len(hosts) /\ Len(hosts) \in Nat
         /\ \A k \in DOMAIN hosts : hosts[k].ip \in IPs
         /\ \A j, k \in DOMAIN hosts : hosts[j].ip = hosts[k].ip => j = k
         /\ securityTargets(NoAddress) = Discovered
         /\ Discovered \subseteq IPs /\ IsFiniteSet(Discovered)
<1>1. HostsIn(hosts)
  BY SessionInvParts
<1>2. /\ hosts \in Seq(HostInfo)
      /\ \A j, k \in DOMAIN hosts : hosts[j].ip = hosts[k].ip => j = k
  BY <1>1 DEF HostsIn, UniqueIPs
<1>3. DOMAIN hosts = 1..Len(hosts) /\ Len(hosts) \in Nat
  BY <1>2
<1>4. \A k \in DOMAIN hosts : hosts[k].ip \in IPs
  <2>1. \A k \in DOMAIN hosts : hosts[k] \in HostInfo
    BY <1>2
  <2> QED
    BY <2>1 DEF HostInfo
<1>5. securityTargets(NoAddress) = Discovered
  BY DEF securityTargets, Discovered
<1>6. Discovered \subseteq IPs
  BY <1>4 DEF Discovered
<1>7. IsFiniteSet(Discovered)
  <2> DEFINE ipOf == [k \in DOMAIN hosts |-> hosts[k].ip]
  <2>1. IsFiniteSet(DOMAIN hosts)
    BY <1>3, CountOfInterval
  <2>2. \A j, k \in DOMAIN hosts : ipOf[j] = ipOf[k] => j = k
    BY <1>2
  <2>3. {ipOf[k] : k \in DOMAIN hosts} = Discovered
    BY DEF Discovered
  <2> HIDE DEF ipOf
  <2>4. IsFiniteSet({ipOf[k] : k \in DOMAIN hosts})
    BY <2>1, <2>2, AsManyImages
  <2> QED
    BY <2>3, <2>4
<1> QED
  BY <1>2, <1>3, <1>4, <1>5, <1>6, <1>7

(* A count that each host has of a part of its own sums up to the size of  *)
(* all their parts.                                                        *)
LEMMA SumOverHosts ==
  ASSUME SessionInv, NEW count, NEW part,
         \A ip \in IPs : /\ count[ip] \in Nat
                         /\ IsFiniteSet(part[ip]) /\ Cardinality(part[ip]) = count[ip],
         \A ip, jp \in IPs : ip # jp => part[ip] \cap part[jp] = {}
  PROVE  /\ IsFiniteSet(UNION {part[ip] : ip \in Discovered})
         /\ Cardinality(UNION {part[ip] : ip \in Discovered}) = overHosts(count)
<1> DEFINE n == Len(hosts)
           counts == [k \in DOMAIN hosts |-> count[hosts[k].ip]]
           parts == [k \in DOMAIN hosts |-> part[hosts[k].ip]]
<1>1. /\ DOMAIN hosts = 1..n /\ n \in Nat
      /\ \A k \in DOMAIN hosts : hosts[k].ip \in IPs
      /\ \A j, k \in DOMAIN hosts : hosts[j].ip = hosts[k].ip => j = k
  BY DiscoveredAre
<1>2. counts \in Seq(Nat) /\ Len(counts) = n
  BY <1>1
<1>3. \A k \in 1..n : /\ counts[k] = count[hosts[k].ip] /\ parts[k] = part[hosts[k].ip]
                      /\ hosts[k].ip \in IPs
  BY <1>1
<1>4. {parts[k] : k \in 1..n} = {part[ip] : ip \in Discovered}
  <2>1. ASSUME NEW x PROVE x \in {parts[k] : k \in 1..n} <=> x \in {part[ip] : ip \in Discovered}
    <3>1. x \in {parts[k] : k \in 1..n} <=> \E k \in 1..n : x = part[hosts[k].ip]
      <4>1. \A k \in 1..n : parts[k] = part[hosts[k].ip]
        BY <1>3
      <4> HIDE DEF parts, n
      <4> QED
        BY <4>1, Zenon
    <3>2. x \in {part[ip] : ip \in Discovered} <=> \E k \in 1..n : x = part[hosts[k].ip]
      BY <1>1 DEF Discovered
    <3> QED
      BY <3>1, <3>2
  <2> QED
    BY <2>1
<1>5. overHosts(count) = Total(counts)
  BY DEF overHosts
<1> HIDE DEF counts, parts
<1>6. \A k \in 1..n : IsFiniteSet(parts[k]) /\ Cardinality(parts[k]) = counts[k]
  BY <1>3
<1>7. ASSUME NEW j \in 1..n, NEW k \in 1..n, j # k PROVE parts[j] \cap parts[k] = {}
  <2>1. hosts[j].ip # hosts[k].ip
    BY <1>1, <1>7
  <2> QED
    BY <1>3, <2>1
<1> HIDE DEF n
<1>8. /\ IsFiniteSet(UNION {parts[k] : k \in 1..Len(counts)})
      /\ Cardinality(UNION {parts[k] : k \in 1..Len(counts)}) = Total(counts)
  BY <1>2, <1>6, <1>7, TotalOfParts
<1> QED
  BY <1>2, <1>4, <1>5, <1>8, Zenon

-----------------------------------------------------------------------------
(* The counts of session|:info and the table of net|:show.                 *)
Seen == {key \in DOMAIN observed : key[1] \in Discovered}
Reported == {key \in Seen : observed[key]}

LEMMA CountsAre ==
  ASSUME SessionInv
  PROVE  /\ Range(openPortRows) = Reported /\ Len(openPortRows) = Cardinality(Reported)
         /\ openPortCount = Cardinality(Reported) /\ IsFiniteSet(Reported)
         /\ sessionInfo.discoveredPorts = Cardinality(Seen)
         /\ sessionInfo.serviceCount = Cardinality(DOMAIN identified)
<1> DEFINE openCount == [ip \in IPs |-> Len(OpenPorts(getPorts(ip)))]
           allCount == [ip \in IPs |-> Len(getPorts(ip))]
           openPart == [ip \in IPs |-> OpenKeysAt(ip)]
           allPart == [ip \in IPs |-> ScannedAt(ip)]
<1>1. /\ DOMAIN hosts = 1..Len(hosts) /\ Len(hosts) \in Nat
      /\ \A k \in DOMAIN hosts : hosts[k].ip \in IPs
      /\ Discovered \subseteq IPs
  BY DiscoveredAre
<1>2. ASSUME NEW ip \in IPs
      PROVE  /\ openCount[ip] = Len(rowsOf(ip)) /\ openPart[ip] = OpenKeysAt(ip)
             /\ openCount[ip] \in Nat
             /\ IsFiniteSet(OpenKeysAt(ip)) /\ Cardinality(OpenKeysAt(ip)) = openCount[ip]
             /\ allPart[ip] = ScannedAt(ip) /\ allCount[ip] \in Nat
             /\ IsFiniteSet(ScannedAt(ip)) /\ Cardinality(ScannedAt(ip)) = allCount[ip]
             /\ Range(rowsOf(ip)) = OpenKeysAt(ip) /\ rowsOf(ip) \in Seq(IPs \X PortNumbers)
  <2>1. /\ Len(rowsOf(ip)) = Len(OpenPorts(getPorts(ip)))
        /\ Len(rowsOf(ip)) = Cardinality(OpenKeysAt(ip))
        /\ Range(rowsOf(ip)) = OpenKeysAt(ip)
        /\ rowsOf(ip) \in Seq(IPs \X PortNumbers)
    BY RowsOfHost
  <2>2. /\ IsFiniteSet(ScannedAt(ip)) /\ Cardinality(ScannedAt(ip)) = Len(getPorts(ip))
        /\ IsFiniteSet(OpenKeysAt(ip))
    BY PortsAreCounted
  <2>3. Len(rowsOf(ip)) \in Nat /\ Len(getPorts(ip)) \in Nat
    BY <2>1, <2>2, FS_CardinalityType
  <2> QED
    BY <2>1, <2>2, <2>3
<1>3. ASSUME NEW ip \in IPs, NEW jp \in IPs, ip # jp
      PROVE  openPart[ip] \cap openPart[jp] = {} /\ allPart[ip] \cap allPart[jp] = {}
  BY <1>3 DEF OpenKeysAt, ScannedAt
<1>4. openPortCount = overHosts(openCount)
      /\ sessionInfo.discoveredPorts = overHosts(allCount)
  BY DEF openPortCount, sessionInfo
<1>5. UNION {openPart[ip] : ip \in Discovered} = Reported
  <2>1. \A ip \in Discovered : openPart[ip] = OpenKeysAt(ip)
    BY <1>1, <1>2
  <2>2. \A key : (\E ip \in Discovered : key \in OpenKeysAt(ip)) <=> key \in Reported
    BY DEF OpenKeysAt, Reported, Seen
  <2> HIDE DEF openPart
  <2> QED
    BY <2>1, <2>2
<1>6. UNION {allPart[ip] : ip \in Discovered} = Seen
  <2>1. \A ip \in Discovered : allPart[ip] = ScannedAt(ip)
    BY <1>1, <1>2
  <2>2. \A key : (\E ip \in Discovered : key \in ScannedAt(ip)) <=> key \in Seen
    BY DEF ScannedAt, Seen
  <2> HIDE DEF allPart
  <2> QED
    BY <2>1, <2>2
<1> DEFINE counts == [k \in DOMAIN hosts |-> openCount[hosts[k].ip]]
           rows == [k \in DOMAIN hosts |-> rowsOf(hosts[k].ip)]
<1>7. overHosts(openCount) = Total(counts)
  BY DEF overHosts
<1> HIDE DEF openCount, allCount, openPart, allPart
<1>8. IsFiniteSet(Reported) /\ Cardinality(Reported) = overHosts(openCount)
  <2>1. \A ip \in IPs : /\ openCount[ip] \in Nat /\ IsFiniteSet(openPart[ip])
                        /\ Cardinality(openPart[ip]) = openCount[ip]
    BY <1>2
  <2>2. \A ip, jp \in IPs : ip # jp => openPart[ip] \cap openPart[jp] = {}
    BY <1>3
  <2>3. /\ IsFiniteSet(UNION {openPart[ip] : ip \in Discovered})
        /\ Cardinality(UNION {openPart[ip] : ip \in Discovered}) = overHosts(openCount)
    BY <2>1, <2>2, SumOverHosts
  <2> QED
    BY <1>5, <2>3, Zenon
<1>9. Cardinality(Seen) = overHosts(allCount)
  <2>1. \A ip \in IPs : /\ allCount[ip] \in Nat /\ IsFiniteSet(allPart[ip])
                        /\ Cardinality(allPart[ip]) = allCount[ip]
    BY <1>2
  <2>2. \A ip, jp \in IPs : ip # jp => allPart[ip] \cap allPart[jp] = {}
    BY <1>3
  <2>3. Cardinality(UNION {allPart[ip] : ip \in Discovered}) = overHosts(allCount)
    BY <2>1, <2>2, SumOverHosts
  <2> QED
    BY <1>6, <2>3, Zenon
<1>10. Range(openPortRows) = Reported /\ Len(openPortRows) = Total(counts)
  <2> DEFINE T == IPs \X PortNumbers
  <2>1. openPortRows = Joined(rows)
    BY DEF openPortRows
  <2>2. \A k \in 1..Len(hosts) : /\ rows[k] = rowsOf(hosts[k].ip)
                                 /\ counts[k] = openCount[hosts[k].ip]
                                 /\ hosts[k].ip \in IPs
    BY <1>1
  <2>3. \A k \in 1..Len(hosts) : /\ rowsOf(hosts[k].ip) \in Seq(T)
                                 /\ openCount[hosts[k].ip] = Len(rowsOf(hosts[k].ip))
                                 /\ openCount[hosts[k].ip] \in Nat
                                 /\ Range(rowsOf(hosts[k].ip)) = openPart[hosts[k].ip]
    BY <1>2, <2>2
  <2> HIDE DEF T
  <2>4. rows \in Seq(Seq(T)) /\ Len(rows) = Len(hosts)
    BY <1>1, <2>3
  <2>5. counts \in Seq(Nat) /\ Len(counts) = Len(hosts)
    BY <1>1, <2>3
  <2> HIDE DEF rows, counts
  <2>6. \A k \in 1..Len(rows) : counts[k] = Len(rows[k]) /\ Range(rows[k]) = openPart[hosts[k].ip]
    BY <2>2, <2>3, <2>4
  <2>7. /\ Len(Joined(rows)) = Total(counts)
        /\ Range(Joined(rows)) = UNION {Range(rows[k]) : k \in 1..Len(rows)}
    BY <2>4, <2>5, <2>6, JoinedRows
  <2>8. {Range(rows[k]) : k \in 1..Len(rows)} = {openPart[ip] : ip \in Discovered}
    <3>1. ASSUME NEW x
          PROVE  x \in {Range(rows[k]) : k \in 1..Len(rows)}
                   <=> x \in {openPart[ip] : ip \in Discovered}
      <4>1. x \in {Range(rows[k]) : k \in 1..Len(rows)}
              <=> \E k \in 1..Len(hosts) : x = openPart[hosts[k].ip]
        BY <2>4, <2>6
      <4>2. x \in {openPart[ip] : ip \in Discovered}
              <=> \E k \in 1..Len(hosts) : x = openPart[hosts[k].ip]
        BY <1>1 DEF Discovered
      <4> QED
        BY <4>1, <4>2
    <3> QED
      BY <3>1
  <2> QED
    BY <1>5, <2>1, <2>7, <2>8, Zenon
<1>11. sessionInfo.serviceCount = Cardinality(DOMAIN identified)
  <2> DEFINE keyOf == [i \in DOMAIN services |-> <<services[i].ip, services[i].port>>]
  <2>1. sessionInfo.serviceCount = Len(services)
    BY DEF sessionInfo
  <2>2. OneForEach(services, DOMAIN identified)
    BY ServicesOneForEach
  <2>3. DOMAIN services = 1..Len(services) /\ Len(services) \in Nat
    BY <2>2 DEF OneForEach
  <2>4. IsFiniteSet(DOMAIN services) /\ Cardinality(DOMAIN services) = Len(services)
    BY <2>3, CountOfInterval
  <2>5. \A i, j \in DOMAIN services : keyOf[i] = keyOf[j] => i = j
    BY <2>2 DEF OneForEach, UniqueServices
  <2>6. {keyOf[i] : i \in DOMAIN services} = DOMAIN identified
    BY <2>2 DEF OneForEach
  <2> HIDE DEF keyOf
  <2>7. Cardinality({keyOf[i] : i \in DOMAIN services}) = Cardinality(DOMAIN services)
    BY <2>4, <2>5, AsManyImages
  <2> QED
    BY <2>1, <2>4, <2>6, <2>7
<1> HIDE DEF counts
<1> QED
  BY <1>4, <1>7, <1>8, <1>9, <1>10, <1>11

-----------------------------------------------------------------------------
(* The severe findings of sec|:detect: one for each severe port and one    *)
(* for each very large surface.                                            *)
SeverePorts ==
  {key \in Reported : \E rule \in PortRules : rule[1] = key[2] /\ rule[3] = HIGH_ALERT}
LargeHosts == {ip \in Discovered : LargeAt(ip)}
SevereRule(n) == CHOOSE r \in PortRules : r[1] = n /\ r[3] = HIGH_ALERT
PortFinding(key) ==
  <<key[1], Alert(SevereRule(key[2])[2], key[2], HIGH_ALERT)>>
SurfaceFinding(ip) == <<ip, VeryLargeAlert>>

(* Which findings on a host are severe.                                    *)
LEMMA SevereFindingsAre ==
  ASSUME SessionInv, NEW ip \in Discovered, NEW a
  PROVE  a \in securityAlerts(ip) /\ a.severity = HIGH_ALERT
           <=> \/ \E key \in SeverePorts : <<ip, a>> = PortFinding(key)
               \/ LargeAt(ip) /\ a = VeryLargeAlert
<1>0. ip \in IPs
  BY DiscoveredAre
<1>1. \A n : n \in OpenAt(ip) <=> <<ip, n>> \in Reported
  <2>1. \A n : n \in OpenAt(ip) <=> <<ip, n>> \in DOMAIN observed /\ observed[<<ip, n>>]
    BY <1>0, KeysArePairs
  <2> QED
    BY <2>1 DEF Reported, Seen
<1>2. \A key \in SeverePorts :
        /\ SevereRule(key[2]) \in PortRules
        /\ SevereRule(key[2])[1] = key[2] /\ SevereRule(key[2])[3] = HIGH_ALERT
  BY DEF SeverePorts, SevereRule
<1>3. ASSUME a \in securityAlerts(ip), a.severity = HIGH_ALERT
      PROVE  \/ \E key \in SeverePorts : <<ip, a>> = PortFinding(key)
             \/ LargeAt(ip) /\ a = VeryLargeAlert
  <2>1. PortAlert(a, ip) \/ (LargeAt(ip) /\ a = VeryLargeAlert)
    BY <1>0, <1>3, AlertsAre, AlertFields
  <2>2. ASSUME PortAlert(a, ip) PROVE \E key \in SeverePorts : <<ip, a>> = PortFinding(key)
    <3>1. PICK r \in PortRules : r[1] \in OpenAt(ip) /\ a = Alert(r[2], r[1], r[3])
      BY <2>2 DEF PortAlert
    <3>2. r[3] = HIGH_ALERT
      BY <1>3, <3>1 DEF Alert
    <3> DEFINE key == <<ip, r[1]>>
    <3>3. key \in SeverePorts /\ key[1] = ip /\ key[2] = r[1]
      BY <1>1, <3>1, <3>2 DEF SeverePorts
    <3> HIDE DEF key
    <3>4. SevereRule(key[2]) = r
      BY <1>2, <3>3, PortRulesAre
    <3>5. a = Alert(SevereRule(key[2])[2], key[2], HIGH_ALERT)
      BY <3>1, <3>2, <3>3, <3>4
    <3> QED
      BY <3>3, <3>5 DEF PortFinding
  <2> QED
    BY <2>1, <2>2
<1>4. ASSUME NEW key \in SeverePorts, <<ip, a>> = PortFinding(key)
      PROVE  a \in securityAlerts(ip) /\ a.severity = HIGH_ALERT
  <2> DEFINE r == SevereRule(key[2])
  <2>1. ip = key[1] /\ a = Alert(r[2], key[2], HIGH_ALERT)
    BY <1>4 DEF PortFinding
  <2>2. r \in PortRules /\ r[1] = key[2] /\ r[3] = HIGH_ALERT
    BY <1>2
  <2>3. key \in Reported /\ key \in DOMAIN observed
    BY DEF SeverePorts, Reported, Seen
  <2>4. DOMAIN observed \subseteq IPs \X PortNumbers
    BY DEF SessionInv, TypeOK
  <2>5. key = <<ip, key[2]>>
    BY <2>1, <2>3, <2>4
  <2> HIDE DEF r
  <2>6. key[2] \in OpenAt(ip)
    BY <1>1, <2>3, <2>5
  <2>7. PortAlert(a, ip)
    BY <2>1, <2>2, <2>6 DEF PortAlert
  <2>8. a.severity = HIGH_ALERT
    BY <2>1 DEF Alert
  <2> QED
    BY <1>0, <2>7, <2>8, AlertsAre
<1>5. ASSUME LargeAt(ip), a = VeryLargeAlert
      PROVE  a \in securityAlerts(ip) /\ a.severity = HIGH_ALERT
  BY <1>0, <1>5, AlertsAre, AlertFields
<1> QED
  BY <1>3, <1>4, <1>5

(* How many there are.                                                     *)
LEMMA SevereFindingsAreCounted ==
  ASSUME SessionInv
  PROVE  securitySummary(NoAddress).highAlerts
           = Cardinality(SeverePorts) + Cardinality(LargeHosts)
<1> DEFINE found == UNION {{ip} \X securityAlerts(ip) : ip \in Discovered}
           severe == {f \in found : f[2].severity = HIGH_ALERT}
           portFinding == [key \in SeverePorts |-> PortFinding(key)]
           surfaceFinding == [ip \in LargeHosts |-> SurfaceFinding(ip)]
           P == {portFinding[key] : key \in SeverePorts}
           L == {surfaceFinding[ip] : ip \in LargeHosts}
<1>0. /\ securityTargets(NoAddress) = Discovered /\ Discovered \subseteq IPs
      /\ IsFiniteSet(Discovered)
      /\ DOMAIN observed \subseteq IPs \X PortNumbers
      /\ IsFiniteSet(Reported)
  BY DiscoveredAre, CountsAre DEF SessionInv, TypeOK
<1>1. securitySummary(NoAddress).highAlerts = Cardinality(severe)
  BY <1>0, Zenon DEF securitySummary
<1>2. IsFiniteSet(SeverePorts) /\ IsFiniteSet(LargeHosts)
  <2>1. SeverePorts \in SUBSET Reported /\ LargeHosts \in SUBSET Discovered
    BY DEF SeverePorts, LargeHosts
  <2> QED
    BY <1>0, <2>1, FS_Subset
<1>3. \A key \in SeverePorts : key = <<key[1], key[2]>> /\ key[1] \in Discovered
  BY <1>0 DEF SeverePorts, Reported, Seen
<1>4. ASSUME NEW j \in SeverePorts, NEW k \in SeverePorts, portFinding[j] = portFinding[k]
      PROVE  j = k
  <2>1. j[1] = k[1] /\ Alert(SevereRule(j[2])[2], j[2], HIGH_ALERT)
                          = Alert(SevereRule(k[2])[2], k[2], HIGH_ALERT)
    BY <1>4 DEF PortFinding
  <2>2. j[2] = k[2]
    BY <2>1 DEF Alert
  <2> QED
    BY <1>3, <2>1, <2>2
<1>5. \A ip, jp \in LargeHosts : surfaceFinding[ip] = surfaceFinding[jp] => ip = jp
  BY DEF SurfaceFinding
<1>6. \A f \in P : f[2].type # "VERY_LARGE_ATTACK_SURFACE"
  <2> SUFFICES ASSUME NEW key \in SeverePorts
               PROVE  PortFinding(key)[2].type # "VERY_LARGE_ATTACK_SURFACE"
    OBVIOUS
  <2>1. PortFinding(key)[2].type = SevereRule(key[2])[2]
    BY DEF PortFinding, Alert
  <2>2. SevereRule(key[2]) \in PortRules
    BY DEF SeverePorts, SevereRule
  <2>3. "VERY_LARGE_ATTACK_SURFACE" \in HostAlertTypes
    BY DEF HostAlertTypes
  <2> QED
    BY <2>1, <2>2, <2>3, PortRulesAre
<1>7. \A f \in L : f[2].type = "VERY_LARGE_ATTACK_SURFACE"
  BY AlertFields DEF SurfaceFinding
<1>8. P \cap L = {}
  <2> HIDE DEF P, L
  <2> QED
    BY <1>6, <1>7
<1>9. severe = P \cup L
  <2>1. ASSUME NEW f \in severe PROVE f \in P \cup L
    <3>1. PICK ip \in Discovered : f \in {ip} \X securityAlerts(ip)
      OBVIOUS
    <3>2. f = <<ip, f[2]>> /\ f[2] \in securityAlerts(ip) /\ f[2].severity = HIGH_ALERT
      BY <2>1, <3>1
    <3>3. \/ \E key \in SeverePorts : <<ip, f[2]>> = PortFinding(key)
          \/ LargeAt(ip) /\ f[2] = VeryLargeAlert
      BY <3>2, SevereFindingsAre
    <3>4. CASE \E key \in SeverePorts : <<ip, f[2]>> = PortFinding(key)
      BY <3>2, <3>4
    <3>5. CASE LargeAt(ip) /\ f[2] = VeryLargeAlert
      <4>1. ip \in LargeHosts /\ f = surfaceFinding[ip]
        BY <3>2, <3>5 DEF LargeHosts, SurfaceFinding
      <4> QED
        BY <4>1
    <3> QED
      BY <3>3, <3>4, <3>5
  <2>2. ASSUME NEW key \in SeverePorts PROVE PortFinding(key) \in severe
    <3> DEFINE ip == key[1]
               a == PortFinding(key)[2]
    <3>1. PortFinding(key) = <<ip, a>> /\ ip \in Discovered
      BY <1>3 DEF PortFinding
    <3> HIDE DEF ip, a
    <3>2. a \in securityAlerts(ip) /\ a.severity = HIGH_ALERT
      BY <3>1, SevereFindingsAre
    <3>3. <<ip, a>> \in found /\ <<ip, a>>[2] = a
      BY <3>1, <3>2
    <3> QED
      BY <3>1, <3>2, <3>3
  <2>3. ASSUME NEW ip \in LargeHosts PROVE SurfaceFinding(ip) \in severe
    <3>1. ip \in Discovered /\ LargeAt(ip)
      BY DEF LargeHosts
    <3>2. VeryLargeAlert \in securityAlerts(ip) /\ VeryLargeAlert.severity = HIGH_ALERT
      BY <3>1, SevereFindingsAre
    <3>3. <<ip, VeryLargeAlert>> \in found
      BY <3>1, <3>2
    <3> QED
      BY <3>2, <3>3 DEF SurfaceFinding
  <2>4. \A f \in P \cup L : f \in severe
    <3> HIDE DEF severe
    <3> QED
      BY <2>2, <2>3
  <2> HIDE DEF severe, P, L
  <2> QED
    BY <2>1, <2>4
<1> HIDE DEF severe, found, portFinding, surfaceFinding
<1>10. IsFiniteSet(P) /\ Cardinality(P) = Cardinality(SeverePorts)
  BY <1>2, <1>4, AsManyImages
<1>11. IsFiniteSet(L) /\ Cardinality(L) = Cardinality(LargeHosts)
  BY <1>2, <1>5, AsManyImages
<1> HIDE DEF P, L
<1>12. Cardinality(P \cup L) = Cardinality(P) + Cardinality(L)
  <2>1. Cardinality(P \cup L) = Cardinality(P) + Cardinality(L) - Cardinality(P \cap L)
    BY <1>10, <1>11, FS_Union
  <2>2. Cardinality(P \cap L) = 0
    BY <1>8, FS_EmptySet
  <2>3. Cardinality(P) \in Nat /\ Cardinality(L) \in Nat
    BY <1>10, <1>11, FS_CardinalityType
  <2> QED
    BY <2>1, <2>2, <2>3
<1> QED
  BY <1>1, <1>9, <1>10, <1>11, <1>12

-----------------------------------------------------------------------------
(* What the user is told agrees with the latest scans.                     *)
THEOREM ReportsAgreeWithScans == Spec => []ReportsFollowLatestScan
<1>1. ASSUME SessionInv PROVE ReportsFollowLatestScan
  <2> DEFINE reported == {key \in {k \in DOMAIN observed : k[1] \in Discovered} : observed[key]}
  <2>0. /\ securityTargets(NoAddress) = Discovered /\ Discovered \subseteq IPs
        /\ LatestScanWins
    BY <1>1, DiscoveredAre DEF SessionInv
  <2>1. ASSUME NEW ip \in Discovered
        PROVE  LET alerts == securityAlerts(ip)
                   about(type) == {a.about : a \in {b \in alerts : b.type = type}} IN
               /\ {a.about : a \in portAlerts(getPorts(ip))}
                    = {rule[1] : rule \in PortRules} \cap OpenAt(ip)
               /\ about("SERVICE_STATE_MISMATCH") = MismatchedAt(ip)
               /\ about("VERY_LARGE_ATTACK_SURFACE") # {} <=> LargeAt(ip)
               /\ about("MULTIPLE_ADMIN_SERVICES") # {} <=> ManyAdminAt(ip)
    BY <1>1, <2>0, AlertsAreAbout, Zenon
  <2>2. /\ Range(openPortRows) = Reported /\ Len(openPortRows) = Cardinality(Reported)
        /\ openPortCount = Cardinality(Reported)
        /\ sessionInfo.discoveredPorts = Cardinality(Seen)
        /\ sessionInfo.serviceCount = Cardinality(DOMAIN identified)
    BY <1>1, CountsAre
  <2>3. LargeHosts = {ip \in Discovered :
                        Cardinality({key \in Reported : key[1] = ip}) >= VERY_LARGE_SURFACE}
    <3>1. ASSUME NEW ip \in Discovered
          PROVE  LargeAt(ip) <=> Cardinality({key \in Reported : key[1] = ip})
                                   >= VERY_LARGE_SURFACE
      <4>1. {key \in Reported : key[1] = ip} = OpenKeysAt(ip)
        BY DEF Reported, Seen, OpenKeysAt
      <4>2. Cardinality(OpenKeysAt(ip)) = Cardinality(OpenAt(ip))
        BY <1>1, <2>0, PortsAreCounted
      <4> QED
        BY <4>1, <4>2, Zenon DEF LargeAt
    <3> QED
      BY <3>1 DEF LargeHosts
  <2>4. securitySummary(NoAddress).highAlerts
          = Cardinality(SeverePorts)
              + Cardinality({ip \in Discovered :
                               Cardinality({key \in Reported : key[1] = ip})
                                 >= VERY_LARGE_SURFACE})
    BY <1>1, <2>3, SevereFindingsAreCounted, Zenon
  <2> QED
    BY <2>0, <2>1, <2>2, <2>4, Zenon
       DEF ReportsFollowLatestScan, OpenAt, MismatchedAt, LargeAt, ManyAdminAt,
           Reported, Seen, SeverePorts
<1> QED
  BY <1>1, SessionIsInvariant, PTL
=============================================================================
