-------------------------- MODULE VectorLoopProofs --------------------------
(***************************************************************************)
(* What is proved of a loop whatever its body is: it has a result, reached *)
(* turn by turn.  A module that reasons about a loop instantiates this one *)
(* with the body of the loop.                                              *)
(***************************************************************************)
EXTENDS VectorLoop, WellFoundedInduction, TLAPS

(* Every set of natural numbers has a least one.                           *)
LEMMA LeastNatural ==
  ASSUME NEW T \in SUBSET Nat, T # {}
  PROVE  \E n \in T : \A m \in T : n <= m
<1>1. IsWellFoundedOn(OpToRel(<, Nat), Nat)
  BY NatLessThanWellFounded
<1>2. PICK n \in T : \A m \in T : <<m, n>> \notin OpToRel(<, Nat)
  BY <1>1, WFMin, Zenon
<1>3. \A m \in T : ~(m < n)
  BY <1>2 DEF OpToRel
<1> QED
  BY <1>3

(* Induction from 0 to n, of the numbers in a set.                         *)
LEMMA UpTo ==
  ASSUME NEW n \in Nat, NEW T, 0 \in T,
         \A k \in 1..n : k - 1 \in T => k \in T
  PROVE  \A k \in 0..n : k \in T
<1> DEFINE Others == (0..n) \ T
<1>1. SUFFICES ASSUME Others # {} PROVE FALSE
  OBVIOUS
<1>2. Others \in SUBSET Nat
  OBVIOUS
<1>3. PICK m \in Others : \A k \in Others : m <= k
  <2> HIDE DEF Others
  <2> QED
    BY <1>1, <1>2, LeastNatural
<1>4. m \in 1..n /\ m - 1 \in 0..n
  BY <1>3
<1>5. m - 1 \in T
  BY <1>3, <1>4
<1> QED
  BY <1>3, <1>4, <1>5

(* The states of the loop over v that starts in a state.                   *)
States(state, v, after) ==
  /\ after[0] = state
  /\ \A k \in 1..Len(v) : after[k] = Step(after[k - 1], v[k])
  /\ Run(state, v) = after[Len(v)]

LEMMA LoopHasStates ==
  ASSUME NEW state, NEW v, Len(v) \in Nat
  PROVE  \E after : States(state, v, after)
<1> DEFINE n == Len(v)
           Upto(m, f) == f = [k \in 0..m |-> IF k = 0 THEN state
                                             ELSE Step(f[k - 1], v[k])]
           T == {m \in 0..n : \E f : Upto(m, f)}
<1>1. 0 \in T
  <2>1. Upto(0, [k \in 0..0 |-> state])
    OBVIOUS
  <2>2. 0 \in 0..n
    OBVIOUS
  <2> HIDE DEF Upto
  <2> QED
    BY <2>1, <2>2
<1>2. ASSUME NEW m \in 1..n, m - 1 \in T PROVE m \in T
  <2>1. PICK g : Upto(m - 1, g)
    BY <1>2
  <2> DEFINE h == [k \in 0..m |-> IF k < m THEN g[k] ELSE Step(g[m - 1], v[m])]
  <2>2. \A k \in 0..m - 1 : g[k] = IF k = 0 THEN state ELSE Step(g[k - 1], v[k])
    BY <2>1
  <2>3. ASSUME NEW k \in 0..m
        PROVE  h[k] = IF k = 0 THEN state ELSE Step(h[k - 1], v[k])
    <3>1. CASE k = m
      <4>1. m - 1 \in 0..m /\ m - 1 < m /\ ~(m < m) /\ m \in 0..m /\ m # 0
        OBVIOUS
      <4>2. h[m] = Step(g[m - 1], v[m]) /\ h[m - 1] = g[m - 1]
        BY <4>1
      <4> HIDE DEF h
      <4> QED
        BY <3>1, <4>1, <4>2
    <3>2. CASE k # m
      <4>1. k \in 0..m - 1 /\ h[k] = g[k] /\ (k # 0 => h[k - 1] = g[k - 1])
        BY <3>2
      <4> HIDE DEF h
      <4> QED
        BY <2>2, <4>1
    <3> QED
      BY <3>1, <3>2
  <2>4. h = [k \in 0..m |-> h[k]]
    OBVIOUS
  <2> HIDE DEF h
  <2>5. Upto(m, h)
    BY <2>3, <2>4
  <2> QED
    BY <2>5
<1>3. n \in T
  <2> HIDE DEF T
  <2>1. \A k \in 0..n : k \in T
    BY <1>1, <1>2, UpTo
  <2> QED
    BY <2>1
<1> DEFINE after == CHOOSE f : Upto(n, f)
<1>4. Upto(n, after)
  BY <1>3
<1>5. Run(state, v) = after[n]
  BY DEF Run
<1> HIDE DEF after
<1>6. \A k \in 0..n : after[k] = IF k = 0 THEN state ELSE Step(after[k - 1], v[k])
  BY <1>4
<1> QED
  BY <1>5, <1>6 DEF States

(* Behind a vector with one element more the loop has made one turn more.  *)
LEMMA RunOfNothing == ASSUME NEW state PROVE Run(state, <<>>) = state
<1>1. PICK after : States(state, <<>>, after)
  BY LoopHasStates
<1> QED
  BY <1>1 DEF States

LEMMA StatesAreUnique ==
  ASSUME NEW state, NEW v, NEW w, NEW f, NEW g, NEW n \in Nat, n <= Len(v), n <= Len(w),
         Len(v) \in Nat, Len(w) \in Nat,
         \A k \in 1..n : v[k] = w[k],
         States(state, v, f), States(state, w, g)
  PROVE  f[n] = g[n]
<1> DEFINE T == {k \in 0..n : f[k] = g[k]}
<1>1. 0 \in T
  BY DEF States
<1>2. ASSUME NEW k \in 1..n, k - 1 \in T PROVE k \in T
  <2>1. k \in 1..Len(v) /\ k \in 1..Len(w)
    OBVIOUS
  <2>2. f[k] = Step(f[k - 1], v[k]) /\ g[k] = Step(g[k - 1], w[k])
    BY <2>1 DEF States
  <2> QED
    BY <1>2, <2>2
<1>3. \A k \in 0..n : k \in T
  <2> HIDE DEF T
  <2> QED
    BY <1>1, <1>2, UpTo
<1> QED
  BY <1>3

LEMMA RunOneMore ==
  ASSUME NEW T, NEW state, NEW v \in Seq(T), NEW x \in T
  PROVE  Run(state, Append(v, x)) = Step(Run(state, v), x)
<1> DEFINE n == Len(v)
           w == Append(v, x)
<1>1. n \in Nat /\ Len(w) = n + 1 /\ w[n + 1] = x /\ \A k \in 1..n : w[k] = v[k]
  OBVIOUS
<1> HIDE DEF w, n
<1>2. PICK f : States(state, v, f)
  BY <1>1, LoopHasStates DEF n
<1>3. PICK g : States(state, w, g)
  <2>1. Len(w) \in Nat
    BY <1>1
  <2> QED
    BY <2>1, LoopHasStates
<1>4. f[n] = g[n]
  BY <1>1, <1>2, <1>3, StatesAreUnique DEF n
<1>5. Run(state, v) = f[n] /\ Run(state, w) = g[n + 1] /\ g[n + 1] = Step(g[n], x)
  <2>1. n + 1 \in 1..Len(w) /\ n + 1 - 1 = n
    BY <1>1
  <2> QED
    BY <1>1, <1>2, <1>3, <2>1 DEF States, n
<1> QED
  BY <1>4, <1>5 DEF w

(* A loop that only counts its turns.                                      *)
LEMMA CountedOneMore ==
  ASSUME NEW state
  PROVE  /\ Run(state, [i \in 1..0 |-> i]) = state
         /\ \A n \in Nat : Run(state, [i \in 1..n + 1 |-> i]) = Step(Run(state, [i \in 1..n |-> i]), n + 1)
<1>1. Run(state, [i \in 1..0 |-> i]) = state
  <2>1. [i \in 1..0 |-> i] = <<>>
    OBVIOUS
  <2> QED
    BY <2>1, RunOfNothing
<1>2. ASSUME NEW n \in Nat
      PROVE  Run(state, [i \in 1..n + 1 |-> i]) = Step(Run(state, [i \in 1..n |-> i]), n + 1)
  <2> DEFINE v == [i \in 1..n |-> i]
             w == [i \in 1..n + 1 |-> i]
  <2>1. v \in Seq(Nat) /\ n + 1 \in Nat
    OBVIOUS
  <2>2. w = Append(v, n + 1)
    OBVIOUS
  <2> HIDE DEF v, w
  <2>3. Run(state, Append(v, n + 1)) = Step(Run(state, v), n + 1)
    BY <2>1, RunOneMore
  <2> QED
    BY <2>2, <2>3 DEF v, w
<1> QED
  BY <1>1, <1>2

(* Induction from the front of a vector: what holds of the empty one and   *)
(* survives each push_back.                                                *)
LEMMA FromTheFront ==
  ASSUME NEW S, NEW v \in Seq(S), NEW T, <<>> \in T,
         \A w \in Seq(S), x \in S : w \in T => Append(w, x) \in T
  PROVE  v \in T
<1> DEFINE n == Len(v)
           Prefix(k) == SubSeq(v, 1, k)
           K == {k \in 0..n : Prefix(k) \in T}
<1>1. n \in Nat /\ Prefix(0) = <<>> /\ Prefix(n) = v
  OBVIOUS
<1>2. 0 \in K
  <2> HIDE DEF n, Prefix
  <2> QED
    BY <1>1
<1>3. ASSUME NEW k \in 1..n, k - 1 \in K PROVE k \in K
  <2>1. /\ Prefix(k) = Append(Prefix(k - 1), v[k]) /\ Prefix(k - 1) \in Seq(S)
        /\ v[k] \in S
    OBVIOUS
  <2>2. Prefix(k - 1) \in T /\ k \in 0..n
    BY <1>1, <1>3
  <2> HIDE DEF n, Prefix
  <2> QED
    BY <2>1, <2>2
<1>4. \A k \in 0..n : k \in K
  <2> HIDE DEF K
  <2> QED
    BY <1>1, <1>2, <1>3, UpTo
<1> HIDE DEF n, Prefix
<1> QED
  BY <1>1, <1>4
=============================================================================
