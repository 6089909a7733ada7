----------------------------- MODULE HeapProofs -----------------------------
(***************************************************************************)
(* Proofs about the heap, for every size of heap, header and smallest      *)
(* payload, every set of sizes asked for and every set of processes.       *)
(***************************************************************************)
EXTENDS Heap, TLAPS, FiniteSetTheorems, WellFoundedInduction

USE DEF NULL, NOBODY, VECTOR, HEAP_START, HEAP_END

-----------------------------------------------------------------------------
(* Induction on numbers, with the property as a set.                       *)

LEMMA LeastOfNats ==
  ASSUME NEW S \in SUBSET Nat, S # {}
  PROVE  \E i \in S : \A j \in S : i <= j
<1>1. IsWellFoundedOn(OpToRel(<, Nat), Nat)
  BY NatLessThanWellFounded
<1>2. \E i \in S : \A j \in S : ~(<<j, i>> \in OpToRel(<, Nat))
  BY <1>1, WFMin
<1>3. \A i, j \in Nat : ~(<<j, i>> \in OpToRel(<, Nat)) => i <= j
  BY DEF OpToRel
<1> QED
  BY <1>2, <1>3

LEMMA LeastIsLeast ==
  ASSUME NEW S \in SUBSET Nat, S # {}
  PROVE  Least(S) \in S /\ \A j \in S : Least(S) <= j
BY LeastOfNats DEF Least

LEMMA ByInduction ==
  ASSUME NEW T, 0 \in T, \A n \in Nat : n \in T => n + 1 \in T
  PROVE  \A n \in Nat : n \in T
<1>1. SUFFICES ASSUME Nat \ T # {} PROVE FALSE
  OBVIOUS
<1>2. PICK i \in Nat \ T : \A j \in Nat \ T : i <= j
  BY <1>1, LeastOfNats
<1>3. i # 0 /\ i - 1 \in T
  BY <1>2
<1> QED
  BY <1>2, <1>3

-----------------------------------------------------------------------------
(* What a walk along a list comes to.                                      *)

A0 == Addr \cup {NULL}

IsWalk(f, h, head, m) ==
  f = [n \in 0 .. m |-> IF n = 0 THEN head
                        ELSE IF f[n - 1] = NULL THEN NULL ELSE h[f[n - 1]].next]

LEMMA WalkExists ==
  ASSUME NEW h, NEW head
  PROVE  \A m \in Nat : \E f : IsWalk(f, h, head, m)
<1> DEFINE T == {m \in Nat : \E f : IsWalk(f, h, head, m)}
<1>1. 0 \in T
  <2> DEFINE f == [n \in 0 .. 0 |-> head]
  <2>1. IsWalk(f, h, head, 0)
    BY DEF IsWalk
  <2> QED
    BY <2>1
<1>2. ASSUME NEW m \in Nat, m \in T PROVE m + 1 \in T
  <2>1. PICK g : IsWalk(g, h, head, m)
    BY <1>2
  <2> DEFINE f == [n \in 0 .. m + 1 |-> IF n = m + 1 THEN IF g[m] = NULL THEN NULL ELSE h[g[m]].next
                                        ELSE g[n]]
  <2>2. \A n \in 0 .. m + 1 : f[n] = IF n = 0 THEN head
                                     ELSE IF f[n - 1] = NULL THEN NULL ELSE h[f[n - 1]].next
    <3>1. \A n \in 0 .. m : g[n] = IF n = 0 THEN head
                                   ELSE IF g[n - 1] = NULL THEN NULL ELSE h[g[n - 1]].next
      BY <2>1 DEF IsWalk
    <3>2. \A n \in 0 .. m : f[n] = g[n]
      OBVIOUS
    <3>3. f[m + 1] = IF f[m] = NULL THEN NULL ELSE h[f[m]].next
      BY <3>2
    <3> HIDE DEF f
    <3> QED
      BY <3>1, <3>2, <3>3
  <2>3. IsWalk(f, h, head, m + 1)
    BY <2>2 DEF IsWalk
  <2> HIDE DEF f
  <2> QED
    BY <2>3
<1>3. \A m \in Nat : m \in T
  <2> HIDE DEF T
  <2> QED
    BY <1>1, <1>2, ByInduction
<1> QED
  BY <1>3

\* The walk starts at the head and follows the links.
LEMMA WalkSteps ==
  ASSUME NEW h, NEW head
  PROVE  /\ Walk(h, head)[0] = head
         /\ \A n \in 1 .. HEAP_SIZE :
              Walk(h, head)[n] = IF Walk(h, head)[n - 1] = NULL THEN NULL
                                 ELSE h[Walk(h, head)[n - 1]].next
<1> DEFINE at == Walk(h, head)
<1>1. \E f : IsWalk(f, h, head, HEAP_SIZE)
  BY WalkExists, HeapAssumption
<1>2. at = CHOOSE f : IsWalk(f, h, head, HEAP_SIZE)
  BY DEF Walk, IsWalk
<1>3. IsWalk(at, h, head, HEAP_SIZE)
  BY <1>1, <1>2
<1> HIDE DEF at
<1>4. \A n \in 0 .. HEAP_SIZE : at[n] = IF n = 0 THEN head
                                     ELSE IF at[n - 1] = NULL THEN NULL ELSE h[at[n - 1]].next
  BY <1>3 DEF IsWalk
<1>5. at[0] = head /\ \A n \in 1 .. HEAP_SIZE : at[n] = IF at[n - 1] = NULL THEN NULL ELSE h[at[n - 1]].next
  BY <1>4, HeapAssumption
<1> QED
  BY <1>5 DEF at

(***************************************************************************)
(* The items of S are what is on the list from head on, in the order of    *)
(* their ranks r: the head is the first, and every item's next is the      *)
(* first of those behind it.                                               *)
(***************************************************************************)
Listed(h, head, S, r) ==
  /\ head \in S \cup {NULL}
  /\ head = NULL => S = {}
  /\ head # NULL => \A b \in S : r[head] <= r[b]
  /\ \A a, b \in S : r[a] = r[b] => a = b
  /\ \A a \in S : h[a].next \in S \cup {NULL}
  /\ \A a \in S : h[a].next = NULL => \A b \in S : r[b] <= r[a]
  /\ \A a \in S : h[a].next # NULL =>
       r[a] < r[h[a].next] /\ \A b \in S : r[b] <= r[a] \/ r[h[a].next] <= r[b]

Ranks == [Addr -> Int]

\* A walk along such a list meets its items in their order and nothing else.
LEMMA WalkInOrder ==
  ASSUME NEW h, NEW head, NEW S \in SUBSET Addr, NEW r \in Ranks, Listed(h, head, S, r)
  PROVE  /\ \A n \in 0 .. HEAP_SIZE : Walk(h, head)[n] \in S \cup {NULL}
         /\ \A n \in 0 .. HEAP_SIZE : Walk(h, head)[n] # NULL =>
              \A m \in 0 .. n - 1 : /\ Walk(h, head)[m] \in S
                                    /\ r[Walk(h, head)[m]] < r[Walk(h, head)[n]]
<1> DEFINE at == Walk(h, head)
           T == {n \in Nat : n \in 0 .. HEAP_SIZE =>
                   /\ at[n] \in S \cup {NULL}
                   /\ at[n] # NULL => \A m \in 0 .. n - 1 : at[m] \in S /\ r[at[m]] < r[at[n]]}
<1>0. /\ at[0] = head
      /\ \A n \in 1 .. HEAP_SIZE : at[n] = IF at[n - 1] = NULL THEN NULL ELSE h[at[n - 1]].next
  BY WalkSteps
<1> HIDE DEF at
<1>1. 0 \in T
  BY <1>0 DEF Listed
<1>2. ASSUME NEW n \in Nat, n \in T PROVE n + 1 \in T
  <2>1. SUFFICES ASSUME n + 1 \in 0 .. HEAP_SIZE
                 PROVE  /\ at[n + 1] \in S \cup {NULL}
                        /\ at[n + 1] # NULL =>
                             \A m \in 0 .. n : at[m] \in S /\ r[at[m]] < r[at[n + 1]]
    OBVIOUS
  <2>2. /\ at[n] \in S \cup {NULL}
        /\ at[n] # NULL => \A m \in 0 .. n - 1 : at[m] \in S /\ r[at[m]] < r[at[n]]
    BY <1>2, <2>1, HeapAssumption
  <2>3. at[n + 1] = IF at[n] = NULL THEN NULL ELSE h[at[n]].next
    <3>1. n + 1 \in 1 .. HEAP_SIZE /\ (n + 1) - 1 = n
      BY <2>1, HeapAssumption
    <3> QED
      BY <3>1, <1>0
  <2>4. CASE at[n] = NULL
    BY <2>3, <2>4
  <2>5. CASE at[n] # NULL
    <3>1. at[n + 1] \in S \cup {NULL} /\ (at[n + 1] # NULL => r[at[n]] < r[at[n + 1]])
      BY <2>2, <2>3, <2>5 DEF Listed
    <3>2. ASSUME at[n + 1] # NULL, NEW m \in 0 .. n PROVE at[m] \in S /\ r[at[m]] < r[at[n + 1]]
      <4>1. CASE m = n
        BY <4>1, <3>1, <3>2, <2>5, <2>2
      <4>2. CASE m \in 0 .. n - 1
        <5>1. at[m] \in S /\ r[at[m]] < r[at[n]] /\ r[at[n]] < r[at[n + 1]]
          BY <4>2, <2>2, <2>5, <3>1, <3>2
        <5>2. m \in Nat /\ m <= HEAP_SIZE /\ at[n] \in Addr /\ at[n + 1] \in Addr
          BY <2>1, <2>2, <2>5, <3>1, <3>2, HeapAssumption
        <5>3. r[at[n]] \in Int /\ r[at[n + 1]] \in Int
          BY <5>2 DEF Ranks
        <5> QED
          BY <5>1, <5>3 DEF Ranks
      <4> QED
        BY <4>1, <4>2
    <3> QED
      BY <3>1, <3>2
  <2> QED
    BY <2>4, <2>5
<1>3. \A n \in Nat : n \in T
  <2> HIDE DEF T
  <2> QED
    BY <1>1, <1>2, ByInduction
<1> QED
  BY <1>3, HeapAssumption DEF at

\* It ends within the heap's size, so it has met every item.
LEMMA WalkMeetsAll ==
  ASSUME NEW h, NEW head, NEW S \in SUBSET Addr, NEW r \in Ranks, Listed(h, head, S, r)
  PROVE  /\ Walk(h, head)[HEAP_SIZE] = NULL
         /\ ItemsOf(h, head) = S
<1> DEFINE at == Walk(h, head)
<1>0. /\ at[0] = head
      /\ \A n \in 1 .. HEAP_SIZE : at[n] = IF at[n - 1] = NULL THEN NULL ELSE h[at[n - 1]].next
  BY WalkSteps
<1>1. /\ \A n \in 0 .. HEAP_SIZE : at[n] \in S \cup {NULL}
      /\ \A n \in 0 .. HEAP_SIZE : at[n] # NULL =>
           \A m \in 0 .. n - 1 : at[m] \in S /\ r[at[m]] < r[at[n]]
  BY WalkInOrder
<1>i. ItemsOf(h, head) = {at[n] : n \in 0 .. HEAP_SIZE} \ {NULL}
  BY DEF ItemsOf
<1> HIDE DEF at
<1>2. at[HEAP_SIZE] = NULL
  <2>1. SUFFICES ASSUME at[HEAP_SIZE] # NULL PROVE FALSE
    OBVIOUS
  <2>2. \A n \in 0 .. HEAP_SIZE : at[n] \in Addr
    <3>1. HEAP_SIZE \in 0 .. HEAP_SIZE
      BY HeapAssumption
    <3> QED
      BY <3>1, <2>1, <1>1, HeapAssumption
  <2>3. \A m, n \in 0 .. HEAP_SIZE : m < n => at[m] # at[n]
    <3>1. SUFFICES ASSUME NEW m \in 0 .. HEAP_SIZE, NEW n \in 0 .. HEAP_SIZE, m < n
                   PROVE  at[m] # at[n]
      OBVIOUS
    <3>2. at[n] # NULL /\ m \in 0 .. n - 1
      BY <2>2, <3>1 DEF Addr
    <3>3. r[at[m]] < r[at[n]] /\ r[at[n]] \in Int
      BY <3>2, <1>1, <2>2 DEF Ranks
    <3> QED
      BY <3>3
  <2> DEFINE f == [n \in 0 .. HEAP_SIZE |-> at[n]]
  <2>4. f \in Injection(0 .. HEAP_SIZE, Addr)
    <3>1. f \in [0 .. HEAP_SIZE -> Addr]
      BY <2>2
    <3>2. \A m, n \in 0 .. HEAP_SIZE : f[m] = f[n] => m = n
      BY <2>3
    <3> QED
      BY <3>1, <3>2 DEF Injection, IsInjective
  <2>5. /\ IsFiniteSet(0 .. HEAP_SIZE) /\ Cardinality(0 .. HEAP_SIZE) = HEAP_SIZE + 1
        /\ IsFiniteSet(Addr) /\ Cardinality(Addr) = HEAP_SIZE
    BY FS_Interval, HeapAssumption DEF Addr
  <2>6. Cardinality(0 .. HEAP_SIZE) <= Cardinality(Addr)
    BY <2>4, <2>5, FS_Injection
  <2> QED
    BY <2>5, <2>6, HeapAssumption
<1>3. ASSUME NEW b \in S, \A n \in 0 .. HEAP_SIZE : at[n] # b PROVE FALSE
  <2> DEFINE T == {n \in Nat : n \in 0 .. HEAP_SIZE => at[n] # NULL /\ r[at[n]] < r[b]}
  <2>1. 0 \in T
    <3>1. 0 \in 0 .. HEAP_SIZE /\ r[b] \in Int
      BY HeapAssumption DEF Ranks
    <3> QED
      BY <3>1, <1>0, <1>3 DEF Listed, Ranks
  <2>2. ASSUME NEW n \in Nat, n \in T PROVE n + 1 \in T
    <3>1. SUFFICES ASSUME n + 1 \in 0 .. HEAP_SIZE
                   PROVE  at[n + 1] # NULL /\ r[at[n + 1]] < r[b]
      OBVIOUS
    <3>2. n \in 0 .. HEAP_SIZE /\ n + 1 \in 1 .. HEAP_SIZE /\ (n + 1) - 1 = n
      BY <3>1, HeapAssumption
    <3>3. at[n] # NULL /\ r[at[n]] < r[b] /\ at[n] \in S /\ at[n + 1] = h[at[n]].next
      BY <3>2, <2>2, <1>0, <1>1
    <3>4. r[at[n]] \in Int /\ r[b] \in Int
      BY <3>3 DEF Ranks
    <3>5. at[n + 1] # NULL
      BY <3>3, <3>4 DEF Listed
    <3>6. r[at[n + 1]] <= r[b] /\ at[n + 1] \in S
      BY <3>3, <3>4, <3>5 DEF Listed
    <3>7. r[at[n + 1]] # r[b]
      BY <3>6, <3>1, <1>3 DEF Listed
    <3>8. r[at[n + 1]] \in Int
      BY <3>6 DEF Ranks
    <3> QED
      BY <3>4, <3>5, <3>6, <3>7, <3>8
  <2>3. \A n \in Nat : n \in T
    <3> HIDE DEF T
    <3> QED
      BY <2>1, <2>2, ByInduction
  <2>4. HEAP_SIZE \in 0 .. HEAP_SIZE
    BY HeapAssumption
  <2> QED
    BY <2>3, <2>4, <1>2, HeapAssumption
<1>4. S = {at[n] : n \in 0 .. HEAP_SIZE} \ {NULL}
  <2>1. \A b \in S : \E n \in 0 .. HEAP_SIZE : at[n] = b
    BY <1>3
  <2>2. NULL \notin S
    BY DEF Addr
  <2> QED
    BY <2>1, <2>2, <1>1
<1> QED
  BY <1>2, <1>4, <1>i DEF at

-----------------------------------------------------------------------------
(* Lists that lose and gain an item.                                       *)

LEMMA Removed ==
  ASSUME NEW h, NEW g, NEW head, NEW k, NEW S \in SUBSET Addr, NEW r \in Ranks,
         Listed(h, head, S, r), NEW a \in S,
         k = IF head = a THEN h[a].next ELSE head,
         \A z \in S \ {a} : g[z].next = IF h[z].next = a THEN h[a].next ELSE h[z].next
  PROVE  Listed(g, k, S \ {a}, r)
<1>1. \A z \in S : r[z] \in Int /\ z # NULL
  BY DEF Ranks, Addr
<1>2. k \in (S \ {a}) \cup {NULL}
  BY <1>1 DEF Listed
<1>3. k = NULL => S \ {a} = {}
  BY <1>1 DEF Listed
<1>4. k # NULL => \A b \in S \ {a} : r[k] <= r[b]
  BY <1>1 DEF Listed
<1>5. \A z \in S \ {a} : g[z].next \in (S \ {a}) \cup {NULL}
  BY <1>1 DEF Listed
<1>6. \A z \in S \ {a} : g[z].next = NULL => \A b \in S \ {a} : r[b] <= r[z]
  BY <1>1 DEF Listed
<1>7. ASSUME NEW z \in S \ {a}, g[z].next # NULL
      PROVE  r[z] < r[g[z].next] /\ \A b \in S \ {a} : r[b] <= r[z] \/ r[g[z].next] <= r[b]
  <2>1. CASE h[z].next = a
    BY <2>1, <1>1, <1>7 DEF Listed
  <2>2. CASE h[z].next # a
    BY <2>2, <1>1, <1>7 DEF Listed
  <2> QED
    BY <2>1, <2>2
<1> QED
  BY <1>2, <1>3, <1>4, <1>5, <1>6, <1>7 DEF Listed

LEMMA PutInFront ==
  ASSUME NEW h, NEW g, NEW head, NEW S \in SUBSET Addr, NEW r \in Ranks,
         Listed(h, head, S, r), NEW a \in Addr \ S, head # NULL => r[a] < r[head],
         g[a].next = head,
         \A z \in S : g[z].next = h[z].next
  PROVE  Listed(g, a, S \cup {a}, r)
<1>1. \A z \in S \cup {a} : r[z] \in Int /\ z # NULL
  BY DEF Ranks, Addr
<1>2. \A b \in S : r[a] < r[b]
  BY <1>1 DEF Listed
<1> QED
  BY <1>1, <1>2 DEF Listed

LEMMA PutBehind ==
  ASSUME NEW h, NEW g, NEW head, NEW S \in SUBSET Addr, NEW r \in Ranks,
         Listed(h, head, S, r), NEW a \in Addr \ S, NEW p \in S,
         r[p] < r[a], h[p].next # NULL => r[a] < r[h[p].next],
         g[p].next = a, g[a].next = h[p].next,
         \A z \in S \ {p} : g[z].next = h[z].next
  PROVE  Listed(g, head, S \cup {a}, r)
<1>1. \A z \in S \cup {a} : r[z] \in Int /\ z # NULL
  BY DEF Ranks, Addr
<1>2. \A b \in S : r[b] # r[a] /\ (r[b] < r[a] => r[b] <= r[p]) /\ (r[b] > r[a] => h[p].next # NULL /\ r[h[p].next] <= r[b])
  BY <1>1 DEF Listed
<1>3. head # NULL /\ head \in S /\ \A b \in S \cup {a} : r[head] <= r[b]
  BY <1>1 DEF Listed
<1>4. \A z \in S \cup {a} : g[z].next \in S \cup {a, NULL}
  BY DEF Listed
<1>5. \A z \in S \cup {a} : g[z].next = NULL => \A b \in S \cup {a} : r[b] <= r[z]
  BY <1>1, <1>2 DEF Listed
<1>6. ASSUME NEW z \in S \cup {a}, g[z].next # NULL
      PROVE  r[z] < r[g[z].next] /\ \A b \in S \cup {a} : r[b] <= r[z] \/ r[g[z].next] <= r[b]
  <2>1. CASE z = a
    BY <2>1, <1>1, <1>2, <1>6 DEF Listed
  <2>2. CASE z = p
    BY <2>2, <1>1, <1>2, <1>6 DEF Listed
  <2>3. CASE z # a /\ z # p
    BY <2>3, <1>1, <1>2, <1>6 DEF Listed
  <2> QED
    BY <2>1, <2>2, <2>3
<1> QED
  BY <1>1, <1>2, <1>3, <1>4, <1>5, <1>6 DEF Listed

\* An item can be given a rank below all others.
LEMMA PutFirst ==
  ASSUME NEW h, NEW g, NEW head, NEW S \in SUBSET Addr, NEW r \in Ranks,
         Listed(h, head, S, r), NEW a \in Addr \ S,
         g[a].next = head,
         \A z \in S : g[z].next = h[z].next
  PROVE  \E q \in Ranks : Listed(g, a, S \cup {a}, q)
<1> DEFINE q == [r EXCEPT ![a] = IF head = NULL THEN 0 ELSE r[head] - 1]
<1>1. head # NULL => head \in Addr /\ r[head] \in Int
  BY DEF Listed, Ranks
<1>2. q \in Ranks
  BY <1>1 DEF Ranks
<1>3. \A z \in S : q[z] = r[z]
  BY DEF Ranks
<1>4. head # NULL => q[a] < q[head]
  BY <1>1, <1>3 DEF Ranks, Listed
<1>5. Listed(h, head, S, q)
  BY <1>3 DEF Listed
<1> HIDE DEF q
<1>6. Listed(g, a, S \cup {a}, q)
  BY <1>2, <1>4, <1>5, PutInFront
<1> QED
  BY <1>2, <1>6

-----------------------------------------------------------------------------
(* Memory laid out in items.                                               *)

Tiles(h, I) ==
  /\ I \subseteq Addr
  /\ HEAP_START \in I
  /\ \A a \in I : h[a].size \in Nat
  /\ \A a \in I : End(h, a) \in I \cup {HEAP_END}
  /\ \A a, b \in I : ~(a < b /\ b < End(h, a))

LEMMA TilesMerged ==
  ASSUME NEW h, NEW g, NEW I, Tiles(h, I), NEW a \in I, NEW b \in I, End(h, a) = b,
         g[a].size = h[a].size + HEADER + h[b].size,
         \A z \in I \ {a, b} : g[z].size = h[z].size
  PROVE  Tiles(g, I \ {b})
<1>1. \A z \in I : z \in Nat /\ z >= 1 /\ z <= HEAP_SIZE /\ h[z].size \in Nat
  BY HeapAssumption DEF Tiles, Addr
<1>2. HEADER \in Nat /\ HEADER > 0 /\ HEAP_SIZE \in Nat
  BY HeapAssumption
<1>3. a < b /\ End(g, a) = End(h, b) /\ End(g, a) \in Nat /\ g[a].size \in Nat
  BY <1>1, <1>2 DEF End
<1>4. \A z \in I \ {a, b} : End(g, z) = End(h, z) /\ End(h, z) \in Nat /\ z < End(h, z) /\ End(h, z) # b
  BY <1>1, <1>2, <1>3 DEF End, Tiles
<1>5. HEAP_START \in I \ {b}
  BY <1>1, <1>3 DEF Tiles
<1>6. \A z \in I \ {b} : End(g, z) \in (I \ {b}) \cup {HEAP_END}
  BY <1>1, <1>2, <1>3, <1>4 DEF Tiles, End
<1>7. \A z \in I \ {b} : ~(a < z /\ z < End(g, a))
  BY <1>1, <1>2, <1>3, <1>4 DEF Tiles, End
<1>8. \A y, z \in I \ {b} : ~(y < z /\ z < End(g, y))
  BY <1>4, <1>7 DEF Tiles
<1> QED
  BY <1>1, <1>3, <1>5, <1>6, <1>8 DEF Tiles

LEMMA TilesSplit ==
  ASSUME NEW h, NEW g, NEW I, Tiles(h, I), NEW a \in I, NEW b \in Nat,
         g[a].size \in Nat, b = End(g, a), b < End(h, a),
         g[b].size \in Nat, End(g, b) = End(h, a),
         \A z \in I \ {a} : g[z].size = h[z].size
  PROVE  Tiles(g, I \cup {b}) /\ b \notin I
<1>1. \A z \in I : z \in Nat /\ z >= 1 /\ z <= HEAP_SIZE /\ h[z].size \in Nat
  BY HeapAssumption DEF Tiles, Addr
<1>2. HEADER \in Nat /\ HEADER > 0 /\ HEAP_SIZE \in Nat
  BY HeapAssumption
<1>3. a < b /\ End(h, a) \in Nat /\ End(h, a) <= HEAP_END
  BY <1>1, <1>2 DEF End, Tiles, Addr
<1>4. b \notin I
  BY <1>3 DEF Tiles
<1>5. b \in Addr
  BY <1>1, <1>2, <1>3 DEF Addr
<1>6. \A z \in I \ {a} : End(g, z) = End(h, z)
  BY DEF End
<1>7. \A z \in I \cup {b} : End(g, z) \in I \cup {b, HEAP_END}
  BY <1>6 DEF Tiles
<1>8. \A z \in I : z < b => End(g, z) <= b
  BY <1>1, <1>2, <1>3, <1>6 DEF Tiles, End
<1>9. \A y, z \in I \cup {b} : ~(y < z /\ z < End(g, y))
  BY <1>1, <1>2, <1>3, <1>4, <1>6, <1>8 DEF Tiles, End
<1> QED
  BY <1>1, <1>4, <1>5, <1>7, <1>9 DEF Tiles

-----------------------------------------------------------------------------
(* What the operations on lists write.                                     *)

\* Only low memory has a prev field that is neither an item nor NULL.
Mem == {h \in [A0 -> Header] : \A a \in Addr : h[a].prev \in A0}

HeapRec == [h : Mem, free : A0, alloc : A0, nfree : Int, nalloc : Int]

\* Fields other than the links.
SameBody(g, h) ==
  \A z \in A0 : g[z].sig = h[z].sig /\ g[z].size = h[z].size /\ g[z].owner = h[z].owner

LEMMA UnlinkEffect ==
  ASSUME NEW h \in Mem, NEW a \in Addr, NEW head \in A0, h[a].next # NULL => h[h[a].next].sig
  PROVE  /\ Unlink(h, a, head).h \in Mem
         /\ SameBody(Unlink(h, a, head).h, h)
         /\ \A z \in A0 : Unlink(h, a, head).h[z].next =
              IF h[a].prev # NULL /\ z = h[a].prev THEN h[a].next ELSE h[z].next
         /\ \A z \in A0 : Unlink(h, a, head).h[z].prev =
              IF h[a].next # NULL /\ z = h[a].next THEN h[a].prev ELSE h[z].prev
         /\ Unlink(h, a, head).head = IF h[a].prev = NULL THEN h[a].next ELSE head
<1> DEFINE prev == h[a].prev
           next == h[a].next
           g == [h EXCEPT ![prev].next = next]
           u == IF prev = NULL THEN IF next # NULL THEN [h EXCEPT ![next].prev = NULL] ELSE h
                ELSE IF is_valid_item(g, next) THEN [g EXCEPT ![next].prev = prev] ELSE g
<1>1. h \in [A0 -> Header] /\ \A z \in Addr : h[z].prev \in A0
  BY DEF Mem
<1>2. prev \in A0 /\ next \in A0
  BY <1>1 DEF Header, A0
<1>3. Unlink(h, a, head).h = u /\ Unlink(h, a, head).head = IF prev = NULL THEN next ELSE head
  BY DEF Unlink
<1>4. /\ g \in [A0 -> Header]
      /\ \A z \in A0 : /\ g[z].sig = h[z].sig /\ g[z].size = h[z].size /\ g[z].owner = h[z].owner
                       /\ g[z].prev = h[z].prev
                       /\ g[z].next = IF z = prev THEN next ELSE h[z].next
  BY <1>1, <1>2 DEF Header, A0
<1>5. is_valid_item(g, next) <=> next # NULL
  BY <1>2, <1>4 DEF is_valid_item
<1>6. CASE prev = NULL
  BY <1>1, <1>2, <1>3, <1>6 DEF Header, A0, Mem, SameBody
<1>7. CASE prev # NULL
  <2>1. u = IF next # NULL THEN [g EXCEPT ![next].prev = prev] ELSE g
    BY <1>5, <1>7
  <2> HIDE DEF g, u
  <2>2. /\ u \in [A0 -> Header]
        /\ \A z \in A0 : /\ u[z].sig = g[z].sig /\ u[z].size = g[z].size /\ u[z].owner = g[z].owner
                         /\ u[z].next = g[z].next
                         /\ u[z].prev = IF next # NULL /\ z = next THEN prev ELSE g[z].prev
    BY <2>1, <1>2, <1>4 DEF Header, A0
  <2>3. u \in Mem
    BY <2>2, <1>1, <1>2, <1>4 DEF Mem, A0
  <2>4. SameBody(u, h)
    BY <2>2, <1>4 DEF SameBody
  <2> QED
    BY <2>2, <2>3, <2>4, <1>3, <1>4, <1>7
<1> QED
  BY <1>6, <1>7

LEMMA InsertEffect ==
  ASSUME NEW s \in HeapRec, NEW a \in Addr, s.alloc # a
  PROVE  LET t == insert_in_allocated(s, a) IN
         /\ t \in HeapRec
         /\ t.free = s.free /\ t.alloc = a /\ t.nfree = s.nfree /\ t.nalloc = s.nalloc + 1
         /\ SameBody(t.h, s.h)
         /\ \A z \in A0 : t.h[z].next = IF z = a THEN s.alloc ELSE s.h[z].next
         /\ \A z \in A0 : t.h[z].prev = IF z = a THEN NULL ELSE IF z = s.alloc THEN a ELSE s.h[z].prev
<1> DEFINE t == insert_in_allocated(s, a)
           g1 == [s.h EXCEPT ![a].prev = NULL]
           g2 == [g1 EXCEPT ![a].next = s.alloc]
           g3 == [g2 EXCEPT ![s.alloc].prev = a]
<1>1. s.h \in [A0 -> Header] /\ (\A z \in Addr : s.h[z].prev \in A0) /\ s.alloc \in A0
  BY DEF HeapRec, Mem
<1>2. t = [s EXCEPT !.h = g3, !.alloc = a, !.nalloc = s.nalloc + 1]
  BY DEF insert_in_allocated, HeapRec
<1>3. /\ g1 \in [A0 -> Header]
      /\ \A z \in A0 : /\ g1[z].sig = s.h[z].sig /\ g1[z].size = s.h[z].size /\ g1[z].owner = s.h[z].owner
                       /\ g1[z].next = s.h[z].next
                       /\ g1[z].prev = IF z = a THEN NULL ELSE s.h[z].prev
  BY <1>1 DEF Header, A0
<1>4. /\ g2 \in [A0 -> Header]
      /\ \A z \in A0 : /\ g2[z].sig = g1[z].sig /\ g2[z].size = g1[z].size /\ g2[z].owner = g1[z].owner
                       /\ g2[z].prev = g1[z].prev
                       /\ g2[z].next = IF z = a THEN s.alloc ELSE g1[z].next
  <2> HIDE DEF g1
  <2> QED
    BY <1>1, <1>3 DEF Header, A0
<1>5. /\ g3 \in [A0 -> Header]
      /\ \A z \in A0 : /\ g3[z].sig = g2[z].sig /\ g3[z].size = g2[z].size /\ g3[z].owner = g2[z].owner
                       /\ g3[z].next = g2[z].next
                       /\ g3[z].prev = IF z = s.alloc THEN a ELSE g2[z].prev
  <2> HIDE DEF g2
  <2> QED
    BY <1>1, <1>4 DEF Header, A0
<1> HIDE DEF g1, g2, g3
<1>6. g3 \in Mem
  BY <1>1, <1>3, <1>4, <1>5 DEF Mem, A0
<1> HIDE DEF t
<1>7. t.h = g3 /\ t.free = s.free /\ t.alloc = a /\ t.nfree = s.nfree /\ t.nalloc = s.nalloc + 1
  BY <1>2 DEF HeapRec
<1>9. t \in HeapRec
  <2>1. t = [h |-> g3, free |-> s.free, alloc |-> a, nfree |-> s.nfree, nalloc |-> s.nalloc + 1]
    BY <1>2 DEF HeapRec
  <2>2. s.free \in A0 /\ s.nfree \in Int /\ s.nalloc + 1 \in Int /\ a \in A0
    BY DEF HeapRec, A0
  <2> QED
    BY <2>1, <2>2, <1>6 DEF HeapRec
<1>8. SameBody(t.h, s.h)
  BY <1>3, <1>4, <1>5, <1>7 DEF SameBody
<1> QED
  BY <1>3, <1>4, <1>5, <1>7, <1>8, <1>9 DEF t

LEMMA DetachEffect ==
  ASSUME NEW s \in HeapRec, NEW a \in Addr, s.h[a].next # NULL => s.h[s.h[a].next].sig
  PROVE  LET t == Detach(s, a) IN
         /\ t \in HeapRec
         /\ t.free = s.free /\ t.nfree = s.nfree /\ t.nalloc = s.nalloc - 1
         /\ t.alloc = IF s.h[a].prev = NULL THEN s.h[a].next ELSE s.alloc
         /\ \A z \in A0 : t.h[z].sig = s.h[z].sig /\ t.h[z].size = s.h[z].size
         /\ \A z \in A0 : t.h[z].owner = IF z = a THEN NOBODY ELSE s.h[z].owner
         /\ \A z \in A0 : t.h[z].next =
              IF z = a THEN NULL
              ELSE IF s.h[a].prev # NULL /\ z = s.h[a].prev THEN s.h[a].next ELSE s.h[z].next
         /\ \A z \in A0 : t.h[z].prev =
              IF z = a THEN NULL
              ELSE IF s.h[a].next # NULL /\ z = s.h[a].next THEN s.h[a].prev ELSE s.h[z].prev
<1> DEFINE t == Detach(s, a)
           u == Unlink(s.h, a, s.alloc)
           g1 == [u.h EXCEPT ![a].next = NULL]
           g2 == [g1 EXCEPT ![a].prev = NULL]
           g3 == [g2 EXCEPT ![a].owner = NOBODY]
<1>1. s.h \in Mem /\ s.alloc \in A0
  BY DEF HeapRec
<1>2. /\ u.h \in Mem
      /\ SameBody(u.h, s.h)
      /\ \A z \in A0 : u.h[z].next =
           IF s.h[a].prev # NULL /\ z = s.h[a].prev THEN s.h[a].next ELSE s.h[z].next
      /\ \A z \in A0 : u.h[z].prev =
           IF s.h[a].next # NULL /\ z = s.h[a].next THEN s.h[a].prev ELSE s.h[z].prev
      /\ u.head = IF s.h[a].prev = NULL THEN s.h[a].next ELSE s.alloc
  BY <1>1, UnlinkEffect
<1> HIDE DEF u
<1>3. t = [s EXCEPT !.h = g3, !.alloc = u.head, !.nalloc = s.nalloc - 1]
  BY ZenonT(40) DEF Detach, remove_from_allocated, HeapRec, u
<1>4. /\ g1 \in [A0 -> Header]
      /\ \A z \in A0 : /\ g1[z].sig = u.h[z].sig /\ g1[z].size = u.h[z].size /\ g1[z].owner = u.h[z].owner
                       /\ g1[z].prev = u.h[z].prev
                       /\ g1[z].next = IF z = a THEN NULL ELSE u.h[z].next
  BY <1>2 DEF Header, A0, Mem
<1>5. /\ g2 \in [A0 -> Header]
      /\ \A z \in A0 : /\ g2[z].sig = g1[z].sig /\ g2[z].size = g1[z].size /\ g2[z].owner = g1[z].owner
                       /\ g2[z].next = g1[z].next
                       /\ g2[z].prev = IF z = a THEN NULL ELSE g1[z].prev
  <2> HIDE DEF g1
  <2> QED
    BY <1>4 DEF Header, A0
<1>6. /\ g3 \in [A0 -> Header]
      /\ \A z \in A0 : /\ g3[z].sig = g2[z].sig /\ g3[z].size = g2[z].size
                       /\ g3[z].next = g2[z].next /\ g3[z].prev = g2[z].prev
                       /\ g3[z].owner = IF z = a THEN NOBODY ELSE g2[z].owner
  <2> HIDE DEF g2
  <2> QED
    BY <1>5 DEF Header, A0
<1> HIDE DEF g1, g2, g3
<1>7. g3 \in Mem
  BY <1>2, <1>4, <1>5, <1>6 DEF Mem, A0
<1>8. u.head \in A0
  BY <1>1, <1>2 DEF Mem, Header, A0
<1> HIDE DEF t
<1>9. t.h = g3 /\ t.free = s.free /\ t.alloc = u.head /\ t.nfree = s.nfree /\ t.nalloc = s.nalloc - 1
  BY <1>3 DEF HeapRec
<1>10. t \in HeapRec
  <2>1. t = [h |-> g3, free |-> s.free, alloc |-> u.head, nfree |-> s.nfree, nalloc |-> s.nalloc - 1]
    BY <1>3 DEF HeapRec
  <2>2. s.free \in A0 /\ s.nfree \in Int /\ s.nalloc - 1 \in Int
    BY DEF HeapRec
  <2> QED
    BY <2>1, <2>2, <1>7, <1>8 DEF HeapRec
<1> QED
  BY <1>2, <1>4, <1>5, <1>6, <1>9, <1>10 DEF t, SameBody, A0

-----------------------------------------------------------------------------
(* A sound heap.                                                           *)

\* Every item of the list leads back to the one that leads to it.
LinkedBack(h, head, S) ==
  \A b \in S : IF h[b].prev = NULL THEN head = b
               ELSE h[b].prev \in S /\ h[h[b].prev].next = b

(***************************************************************************)
(* The prev field of a free item may be stale, but then what it leads to   *)
(* does not lead to the item: what seems to be linked is.                  *)
(***************************************************************************)
NoFalseLink(h, F, X) ==
  \A f \in F : h[f].prev # NULL /\ h[f].prev \notin X /\ h[h[f].prev].next = f => h[f].prev \in F

ByAddress == [a \in Addr |-> a]

\* The free items are F, the allocated ones L, in the order r; those of X are on no list.
Shape(s, F, L, r, X) ==
  /\ s \in HeapRec
  /\ F \cap L = {} /\ F \cap X = {} /\ L \cap X = {}
  /\ Tiles(s.h, F \cup L \cup X)
  /\ Listed(s.h, s.free, F, ByAddress)
  /\ Listed(s.h, s.alloc, L, r)
  /\ LinkedBack(s.h, s.alloc, L)
  /\ NoFalseLink(s.h, F, X)
  /\ \A a \in F \cup L \cup X : s.h[a].sig
  /\ s.nfree = Cardinality(F) /\ s.nalloc = Cardinality(L)

\* A header names an owner only while its item is allocated.
Owned(h, L) == \A a \in Addr : h[a].owner \in Pids <=> a \in L

LEMMA ByAddressRanks == ByAddress \in Ranks /\ \A a \in Addr : ByAddress[a] = a
BY HeapAssumption DEF ByAddress, Ranks, Addr

LEMMA AddressesFinite == \A S \in SUBSET Addr : IsFiniteSet(S) /\ Cardinality(S) \in 0 .. HEAP_SIZE
<1>1. IsFiniteSet(Addr) /\ Cardinality(Addr) = HEAP_SIZE
  BY FS_Interval, HeapAssumption DEF Addr
<1>2. ASSUME NEW S \in SUBSET Addr PROVE IsFiniteSet(S) /\ Cardinality(S) \in 0 .. HEAP_SIZE
  BY <1>1, FS_Subset, FS_CardinalityType, HeapAssumption
<1> QED
  BY <1>2

\* Two items of a list do not have the same next, and none has the head.
LEMMA OnePredecessor ==
  ASSUME NEW h, NEW head, NEW S \in SUBSET Addr, NEW r \in Ranks, Listed(h, head, S, r)
  PROVE  /\ \A y, z \in S : h[y].next = h[z].next /\ h[y].next # NULL => y = z
         /\ \A z \in S : h[z].next # NULL => h[z].next # head
         /\ \A z \in S : h[z].next # z
<1>1. \A z \in S : r[z] \in Int /\ z # NULL
  BY DEF Ranks, Addr
<1>2. ASSUME NEW y \in S, NEW z \in S, h[y].next = h[z].next, h[y].next # NULL PROVE y = z
  BY <1>1, <1>2 DEF Listed
<1>3. ASSUME NEW z \in S, h[z].next # NULL PROVE h[z].next # head
  BY <1>1, <1>3 DEF Listed
<1>4. ASSUME NEW z \in S PROVE h[z].next # z
  BY <1>1, <1>4 DEF Listed
<1> QED
  BY <1>2, <1>3, <1>4

LEMMA Neighbours ==
  ASSUME NEW h, NEW head, NEW S \in SUBSET Addr, NEW r \in Ranks, Listed(h, head, S, r),
         LinkedBack(h, head, S), NEW a \in S
  PROVE  /\ h[a].prev # a /\ h[a].next # a
         /\ head = a <=> h[a].prev = NULL
         /\ \A z \in S : h[z].next = a <=> h[a].prev # NULL /\ z = h[a].prev
         /\ \A z \in S : h[z].prev = a <=> h[a].next # NULL /\ z = h[a].next
<1>0. NULL \notin S
  BY DEF Addr
<1>1. /\ \A y, z \in S : h[y].next = h[z].next /\ h[y].next # NULL => y = z
      /\ \A z \in S : h[z].next # NULL => h[z].next # head
      /\ \A z \in S : h[z].next # z
  BY OnePredecessor
<1>2. h[a].prev # a /\ h[a].next # a
  BY <1>0, <1>1 DEF LinkedBack
<1>3. head = a <=> h[a].prev = NULL
  BY <1>0, <1>1 DEF LinkedBack
<1>4. \A z \in S : h[z].next = a <=> h[a].prev # NULL /\ z = h[a].prev
  BY <1>0, <1>1, <1>3 DEF LinkedBack
<1>5. ASSUME NEW z \in S, h[z].prev = a PROVE h[a].next # NULL /\ z = h[a].next
  BY <1>0, <1>5 DEF LinkedBack
<1>6. ASSUME h[a].next # NULL PROVE h[h[a].next].prev = a /\ h[a].next \in S
  <2>1. h[a].next \in S /\ h[a].next # head
    BY <1>1, <1>6 DEF Listed
  <2>2. h[h[a].next].prev \in S /\ h[h[h[a].next].prev].next = h[a].next
    BY <2>1 DEF LinkedBack
  <2> QED
    BY <1>1, <1>6, <2>1, <2>2
<1> QED
  BY <1>2, <1>3, <1>4, <1>5, <1>6

-----------------------------------------------------------------------------
(* Freeing an item.                                                        *)

LEMMA DetachShape ==
  ASSUME NEW s, NEW F, NEW L, NEW r \in Ranks, Shape(s, F, L, r, {}), NEW a \in L
  PROVE  LET t == Detach(s, a) IN
         /\ Shape(t, F, L \ {a}, r, {a})
         /\ t.h[a].next = NULL /\ t.h[a].prev = NULL
         /\ \A z \in A0 : t.h[z].size = s.h[z].size
         /\ \A z \in A0 : t.h[z].owner = IF z = a THEN NOBODY ELSE s.h[z].owner
         /\ \A z \in L \ {a} : t.h[z].next = IF s.h[z].next = a THEN s.h[a].next ELSE s.h[z].next
<1> DEFINE t == Detach(s, a)
           prev == s.h[a].prev
           next == s.h[a].next
<1>1. /\ s \in HeapRec /\ F \in SUBSET Addr /\ L \in SUBSET Addr /\ F \cap L = {}
      /\ a \in Addr /\ NULL \notin Addr /\ Addr \subseteq A0
  BY DEF Shape, Tiles, Addr, A0
<1>2. /\ prev # a /\ next # a
      /\ s.alloc = a <=> prev = NULL
      /\ \A z \in L : s.h[z].next = a <=> prev # NULL /\ z = prev
      /\ \A z \in L : s.h[z].prev = a <=> next # NULL /\ z = next
      /\ next \in L \cup {NULL}
      /\ prev \in L \cup {NULL}
  <2>1. Listed(s.h, s.alloc, L, r) /\ LinkedBack(s.h, s.alloc, L)
    BY DEF Shape
  <2>2. /\ prev # a /\ next # a
        /\ s.alloc = a <=> prev = NULL
        /\ \A z \in L : s.h[z].next = a <=> prev # NULL /\ z = prev
        /\ \A z \in L : s.h[z].prev = a <=> next # NULL /\ z = next
    BY <2>1, <1>1, Neighbours
  <2>3. next \in L \cup {NULL} /\ prev \in L \cup {NULL}
    BY <2>1 DEF Listed, LinkedBack
  <2> QED
    BY <2>2, <2>3
<1>3. next # NULL => s.h[next].sig
  BY <1>2 DEF Shape
<1>4. /\ t \in HeapRec
      /\ t.free = s.free /\ t.nfree = s.nfree /\ t.nalloc = s.nalloc - 1
      /\ t.alloc = IF prev = NULL THEN next ELSE s.alloc
      /\ \A z \in A0 : t.h[z].sig = s.h[z].sig /\ t.h[z].size = s.h[z].size
      /\ \A z \in A0 : t.h[z].owner = IF z = a THEN NOBODY ELSE s.h[z].owner
      /\ \A z \in A0 : t.h[z].next =
           IF z = a THEN NULL ELSE IF prev # NULL /\ z = prev THEN next ELSE s.h[z].next
      /\ \A z \in A0 : t.h[z].prev =
           IF z = a THEN NULL ELSE IF next # NULL /\ z = next THEN prev ELSE s.h[z].prev
  BY <1>1, <1>2, <1>3, DetachEffect
<1> HIDE DEF t
<1>5. Tiles(t.h, F \cup (L \ {a}) \cup {a})
  <2>1. F \cup (L \ {a}) \cup {a} = F \cup L \cup {}
    OBVIOUS
  <2>2. \A z \in F \cup L : t.h[z].size = s.h[z].size
    BY <1>1, <1>4
  <2> QED
    BY <2>1, <2>2 DEF Shape, Tiles, End
<1>6. Listed(t.h, t.free, F, ByAddress)
  <2>1. \A z \in F : t.h[z].next = s.h[z].next
    BY <1>1, <1>2, <1>4
  <2> QED
    BY <2>1, <1>4 DEF Shape, Listed
<1>7. \A z \in L \ {a} : t.h[z].next = IF s.h[z].next = a THEN next ELSE s.h[z].next
  BY <1>1, <1>2, <1>4
<1>8. Listed(t.h, t.alloc, L \ {a}, r)
  <2>1. t.alloc = IF s.alloc = a THEN next ELSE s.alloc
    BY <1>2, <1>4
  <2>2. Listed(s.h, s.alloc, L, r)
    BY DEF Shape
  <2> QED
    BY <2>1, <2>2, <1>1, <1>7, Removed
<1>9. LinkedBack(t.h, t.alloc, L \ {a})
  <2>1. LinkedBack(s.h, s.alloc, L)
    BY DEF Shape
  <2>2. SUFFICES ASSUME NEW b \in L \ {a}
                 PROVE  IF t.h[b].prev = NULL THEN t.alloc = b
                        ELSE t.h[b].prev \in L \ {a} /\ t.h[t.h[b].prev].next = b
    BY DEF LinkedBack
  <2>3. b \in A0 /\ b # NULL
    BY <1>1
  <2>4. CASE b = next
    BY <2>3, <2>4, <1>1, <1>2, <1>4
  <2>5. CASE b # next
    <3>1. t.h[b].prev = s.h[b].prev /\ s.h[b].prev # a
      BY <2>3, <2>5, <1>2, <1>4
    <3>2. CASE s.h[b].prev = NULL
      BY <3>1, <3>2, <2>1, <2>5, <1>2, <1>4 DEF LinkedBack
    <3>3. CASE s.h[b].prev # NULL
      <4>1. s.h[b].prev \in L \ {a} /\ s.h[s.h[b].prev].next = b
        BY <3>1, <3>3, <2>1 DEF LinkedBack
      <4> QED
        BY <4>1, <3>1, <3>3, <1>1, <1>2, <1>7
    <3> QED
      BY <3>2, <3>3
  <2> QED
    BY <2>4, <2>5
<1>10. NoFalseLink(t.h, F, {a})
  <2>1. SUFFICES ASSUME NEW f \in F, t.h[f].prev # NULL, t.h[f].prev # a, t.h[t.h[f].prev].next = f
                 PROVE  t.h[f].prev \in F
    BY DEF NoFalseLink
  <2>2. t.h[f].prev = s.h[f].prev /\ f \in Addr /\ s.h[f].prev \in A0
    BY <1>1, <1>2, <1>4 DEF HeapRec, Mem
  <2>3. s.h[s.h[f].prev].next = f
    BY <2>1, <2>2, <1>1, <1>2, <1>4
  <2> QED
    BY <2>1, <2>2, <2>3 DEF Shape, NoFalseLink
<1>11. \A z \in F \cup (L \ {a}) \cup {a} : t.h[z].sig
  BY <1>1, <1>4 DEF Shape
<1>12. t.nfree = Cardinality(F) /\ t.nalloc = Cardinality(L \ {a})
  <2>1. IsFiniteSet(L)
    BY <1>1, AddressesFinite
  <2>2. Cardinality(L \ {a}) = Cardinality(L) - 1
    BY <2>1, FS_RemoveElement
  <2> QED
    BY <2>2, <1>4 DEF Shape
<1>13. Shape(t, F, L \ {a}, r, {a})
  BY <1>1, <1>4, <1>5, <1>6, <1>8, <1>9, <1>10, <1>11, <1>12 DEF Shape
<1> QED
  BY <1>1, <1>4, <1>7, <1>13 DEF t

LEMMA LinkEffect ==
  ASSUME NEW h \in Mem, NEW a \in Addr, NEW b \in A0
  PROVE  /\ Link(h, a, b) \in Mem
         /\ SameBody(Link(h, a, b), h)
         /\ \A z \in A0 : Link(h, a, b)[z].next = IF z = a THEN b ELSE h[z].next
         /\ \A z \in A0 : Link(h, a, b)[z].prev = IF z = b /\ b # NULL THEN a ELSE h[z].prev
<1> DEFINE g == [h EXCEPT ![a].next = b]
           k == IF b = NULL THEN g ELSE [g EXCEPT ![b].prev = a]
<1>1. h \in [A0 -> Header] /\ \A z \in Addr : h[z].prev \in A0
  BY DEF Mem
<1>2. Link(h, a, b) = k
  BY DEF Link
<1>3. /\ g \in [A0 -> Header]
      /\ \A z \in A0 : /\ g[z].sig = h[z].sig /\ g[z].size = h[z].size /\ g[z].owner = h[z].owner
                       /\ g[z].prev = h[z].prev
                       /\ g[z].next = IF z = a THEN b ELSE h[z].next
  BY <1>1 DEF Header, A0
<1> HIDE DEF g
<1>4. /\ k \in [A0 -> Header]
      /\ \A z \in A0 : /\ k[z].sig = g[z].sig /\ k[z].size = g[z].size /\ k[z].owner = g[z].owner
                       /\ k[z].next = g[z].next
                       /\ k[z].prev = IF z = b /\ b # NULL THEN a ELSE g[z].prev
  BY <1>3 DEF Header, A0
<1> HIDE DEF k
<1>5. k \in Mem
  BY <1>1, <1>3, <1>4 DEF Mem, A0
<1>6. SameBody(k, h)
  BY <1>3, <1>4 DEF SameBody
<1> QED
  BY <1>2, <1>3, <1>4, <1>5, <1>6

LEMMA SwallowEffect ==
  ASSUME NEW h \in Mem, NEW a \in Addr, NEW b \in Addr,
         h[a].size + HEADER + h[b].size \in 0 .. HEAP_SIZE
  PROVE  /\ Swallow(h, a, b) \in Mem
         /\ \A z \in A0 : /\ Swallow(h, a, b)[z].sig = h[z].sig
                          /\ Swallow(h, a, b)[z].owner = h[z].owner
                          /\ Swallow(h, a, b)[z].next = h[z].next
                          /\ Swallow(h, a, b)[z].prev = h[z].prev
                          /\ Swallow(h, a, b)[z].size =
                               IF z = a THEN h[a].size + HEADER + h[b].size ELSE h[z].size
<1> DEFINE k == [h EXCEPT ![a].size = h[a].size + HEADER + h[b].size]
<1>1. h \in [A0 -> Header] /\ \A z \in Addr : h[z].prev \in A0
  BY DEF Mem
<1>2. Swallow(h, a, b) = k
  BY <1>1 DEF Swallow
<1>3. /\ k \in [A0 -> Header]
      /\ \A z \in A0 : /\ k[z].sig = h[z].sig /\ k[z].owner = h[z].owner
                       /\ k[z].next = h[z].next /\ k[z].prev = h[z].prev
                       /\ k[z].size = IF z = a THEN h[a].size + HEADER + h[b].size ELSE h[z].size
  BY <1>1 DEF Header, A0
<1> HIDE DEF k
<1>4. k \in Mem
  BY <1>1, <1>3 DEF Mem, A0
<1> QED
  BY <1>2, <1>3, <1>4

\* Items that follow one another have room for what they are merged to.
LEMMA MergeFits ==
  ASSUME NEW h, NEW I, Tiles(h, I), NEW a \in I, NEW b \in I, End(h, a) = b
  PROVE  h[a].size + HEADER + h[b].size \in 0 .. HEAP_SIZE
<1>1. /\ a \in Nat /\ a >= 1 /\ h[a].size \in Nat /\ h[b].size \in Nat
      /\ End(h, b) \in Nat /\ End(h, b) <= HEAP_END
  BY HeapAssumption DEF Tiles, Addr, End
<1> QED
  BY <1>1, HeapAssumption DEF End

\* What all ways of freeing item a leave alone, and what they have to see to.
LEMMA FreedShape ==
  ASSUME NEW s, NEW F, NEW L, NEW r, NEW a, Shape(s, F, L, r, {a}),
         NEW t \in HeapRec, NEW G \in SUBSET (F \cup {a}),
         t.alloc = s.alloc, t.nalloc = s.nalloc, t.nfree = Cardinality(G),
         \A z \in A0 : t.h[z].sig = s.h[z].sig,
         \A z \in L : t.h[z].next = s.h[z].next /\ t.h[z].prev = s.h[z].prev,
         Tiles(t.h, G \cup L),
         Listed(t.h, t.free, G, ByAddress),
         NoFalseLink(t.h, G, {})
  PROVE  Shape(t, G, L, r, {})
<1>1. L \subseteq Addr /\ F \subseteq Addr /\ a \in Addr /\ G \subseteq A0 /\ L \subseteq A0
  BY DEF Shape, Tiles, A0
<1>2. G \cap L = {} /\ G \cup L \cup {} = G \cup L
  BY DEF Shape
<1>3. Listed(t.h, t.alloc, L, r)
  BY DEF Shape, Listed
<1>4. LinkedBack(t.h, t.alloc, L)
  <2>1. LinkedBack(s.h, s.alloc, L)
    BY DEF Shape
  <2> QED
    BY <2>1 DEF LinkedBack
<1>5. \A z \in G \cup L : t.h[z].sig
  BY <1>1 DEF Shape
<1> QED
  BY <1>2, <1>3, <1>4, <1>5 DEF Shape

Loose(s, F, L, r, a) ==
  Shape(s, F, L, r, {a}) /\ s.h[a].next = NULL /\ s.h[a].prev = NULL

\* What is promised of a heap t in which item a of s has been freed.
Freed(s, t, L, r) ==
  /\ \E G \in SUBSET Addr : Shape(t, G, L, r, {})
  /\ \A z \in A0 : t.h[z].owner = s.h[z].owner
  /\ \A z \in L : t.h[z].size = s.h[z].size /\ t.h[z].next = s.h[z].next

LEMMA LooseFacts ==
  ASSUME NEW s, NEW F, NEW L, NEW r, NEW a, Loose(s, F, L, r, a)
  PROVE  /\ s \in HeapRec /\ s.h \in Mem /\ s.free \in A0
         /\ F \in SUBSET Addr /\ L \in SUBSET Addr /\ a \in Addr /\ NULL \notin Addr
         /\ a \notin F /\ a \notin L /\ F \cap L = {}
         /\ Tiles(s.h, F \cup L \cup {a})
         /\ Listed(s.h, s.free, F, ByAddress)
         /\ NoFalseLink(s.h, F, {a})
         /\ \A z \in Addr : s.h[z].prev \in A0 /\ s.h[z].next \in A0
         /\ \A z \in F : s.h[z].next \in F \cup {NULL} /\ (s.h[z].next # NULL => z < s.h[z].next)
         /\ s.h[a].next = NULL /\ s.h[a].prev = NULL
         /\ s.nfree = Cardinality(F) /\ IsFiniteSet(F)
<1>1. /\ s \in HeapRec /\ s.h \in Mem /\ s.free \in A0
      /\ F \in SUBSET Addr /\ L \in SUBSET Addr /\ a \in Addr /\ NULL \notin Addr
      /\ a \notin F /\ a \notin L /\ F \cap L = {}
      /\ Tiles(s.h, F \cup L \cup {a})
      /\ Listed(s.h, s.free, F, ByAddress)
      /\ NoFalseLink(s.h, F, {a})
      /\ s.h[a].next = NULL /\ s.h[a].prev = NULL
      /\ s.nfree = Cardinality(F)
  BY DEF Loose, Shape, Tiles, HeapRec, Addr
<1>2. \A z \in Addr : s.h[z].prev \in A0 /\ s.h[z].next \in A0
  BY <1>1 DEF Mem, Header, A0
<1>3. \A z \in F : s.h[z].next \in F \cup {NULL} /\ (s.h[z].next # NULL => z < s.h[z].next)
  BY <1>1, ByAddressRanks DEF Listed
<1>4. IsFiniteSet(F)
  BY <1>1, AddressesFinite
<1> QED
  BY <1>1, <1>2, <1>3, <1>4

LEMMA FreeAtHeadFrees ==
  ASSUME NEW s, NEW F, NEW L, NEW r, NEW a, Loose(s, F, L, r, a), s.free = NULL \/ a < s.free
  PROVE  Freed(s, FreeAtHead(s, a), L, r)
<1> DEFINE t == FreeAtHead(s, a)
           c == s.free
           n == s.h[c].next
<1>0. /\ s \in HeapRec /\ s.h \in Mem /\ c \in A0
      /\ F \in SUBSET Addr /\ L \in SUBSET Addr /\ a \in Addr /\ NULL \notin Addr
      /\ a \notin F /\ a \notin L /\ F \cap L = {}
      /\ Tiles(s.h, F \cup L \cup {a})
      /\ Listed(s.h, c, F, ByAddress)
      /\ NoFalseLink(s.h, F, {a})
      /\ \A z \in Addr : s.h[z].prev \in A0 /\ s.h[z].next \in A0
      /\ \A z \in F : s.h[z].next \in F \cup {NULL} /\ (s.h[z].next # NULL => z < s.h[z].next)
      /\ s.h[a].next = NULL /\ s.h[a].prev = NULL
      /\ s.nfree = Cardinality(F) /\ IsFiniteSet(F)
  BY ONLY Loose(s, F, L, r, a), LooseFacts
<1>1. /\ \A y, z \in F : s.h[y].next = s.h[z].next /\ s.h[y].next # NULL => y = z
      /\ \A z \in F : s.h[z].next # NULL => s.h[z].next # c
  BY <1>0, OnePredecessor, ByAddressRanks
<1>2. CASE can_merge(s.h, a, c)
  <2>1. c \in F /\ End(s.h, a) = c
    BY <1>0, <1>2 DEF can_merge, Listed
  <2> DEFINE G == (F \ {c}) \cup {a}
             g == Swallow(s.h, a, c)
             k == Link(g, a, n)
  <2>2. n \in F \cup {NULL} /\ n # c /\ n # a /\ a < c /\ n \in A0 /\ (n # NULL => c < n)
    <3>1. n \in F \cup {NULL} /\ (n # NULL => c < n)
      BY <1>0, <2>1
    <3>2. a < c
      BY <1>0, <2>1, HeapAssumption
    <3> QED
      BY <3>1, <3>2, <1>0, <1>1, <2>1 DEF A0
  <2>3. /\ g \in Mem
        /\ \A z \in A0 : /\ g[z].sig = s.h[z].sig /\ g[z].owner = s.h[z].owner
                         /\ g[z].next = s.h[z].next /\ g[z].prev = s.h[z].prev
                         /\ g[z].size = IF z = a THEN s.h[a].size + HEADER + s.h[c].size ELSE s.h[z].size
    <3>1. s.h[a].size + HEADER + s.h[c].size \in 0 .. HEAP_SIZE
      BY <1>0, <2>1, MergeFits
    <3>2. c \in Addr
      BY <1>0, <2>1
    <3> QED
      BY <1>0, <3>1, <3>2, SwallowEffect
  <2> HIDE DEF g
  <2>4. /\ k \in Mem
        /\ SameBody(k, g)
        /\ \A z \in A0 : k[z].next = IF z = a THEN n ELSE g[z].next
        /\ \A z \in A0 : k[z].prev = IF z = n /\ n # NULL THEN a ELSE g[z].prev
    <3>1. g \in Mem /\ a \in Addr /\ n \in A0
      BY <1>0, <2>2, <2>3
    <3> HIDE DEF n, c
    <3> QED
      BY <3>1, LinkEffect
  <2>5. t = [s EXCEPT !.h = k, !.free = a]
    BY <1>2 DEF FreeAtHead, g
  <2> HIDE DEF k
  <2>6. /\ t.h = k /\ t.free = a /\ t.alloc = s.alloc /\ t.nfree = s.nfree /\ t.nalloc = s.nalloc
        /\ t \in HeapRec
    <3>1. t = [h |-> k, free |-> a, alloc |-> s.alloc, nfree |-> s.nfree, nalloc |-> s.nalloc]
      BY <2>5, <1>0 DEF HeapRec
    <3> HIDE DEF t
    <3>2. s.alloc \in A0 /\ s.nfree \in Int /\ s.nalloc \in Int /\ a \in A0
      BY <1>0 DEF HeapRec, A0
    <3> QED
      BY <3>1, <3>2, <2>4 DEF HeapRec
  <2> HIDE DEF t
  <2>7. \A z \in A0 : /\ k[z].sig = s.h[z].sig /\ k[z].owner = s.h[z].owner
                      /\ k[z].size = IF z = a THEN s.h[a].size + HEADER + s.h[c].size ELSE s.h[z].size
                      /\ k[z].next = IF z = a THEN n ELSE s.h[z].next
                      /\ k[z].prev = IF z = n /\ n # NULL THEN a ELSE s.h[z].prev
    BY <2>3, <2>4 DEF SameBody
  <2>8. G \in SUBSET (F \cup {a}) /\ G \subseteq A0 /\ L \subseteq A0 /\ G \subseteq Addr /\ a \in A0
    BY <1>0 DEF A0
  <2>9. Tiles(k, G \cup L)
    <3> DEFINE I == F \cup L \cup {a}
    <3>1. k[a].size = s.h[a].size + HEADER + s.h[c].size
      BY <2>7, <2>8
    <3>2. \A z \in I \ {a, c} : k[z].size = s.h[z].size
      BY <2>7, <1>0 DEF A0
    <3>3. Tiles(k, I \ {c})
      BY <3>1, <3>2, <1>0, <2>1, TilesMerged
    <3>4. I \ {c} = G \cup L
      BY <1>0, <2>1
    <3> QED
      BY <3>3, <3>4
  <2>10. Listed(k, a, G, ByAddress)
    <3>1. Listed(s.h, n, F \ {c}, ByAddress)
      <4>1. \A z \in F \ {c} : s.h[z].next = IF s.h[z].next = c THEN n ELSE s.h[z].next
        BY <1>0, <1>1, <2>1
      <4> QED
        BY <4>1, <1>0, <2>1, ByAddressRanks, Removed
    <3>2. n # NULL => ByAddress[a] < ByAddress[n]
      <4>1. a \in Nat /\ c \in Nat /\ (n # NULL => n \in Addr /\ n \in Nat)
        <5>1. Addr \subseteq Nat
          BY HeapAssumption DEF Addr
        <5>2. n # NULL => n \in F
          BY <2>2
        <5> HIDE DEF n, c
        <5> QED
          BY <5>1, <5>2, <1>0, <2>1
      <4> QED
        BY <4>1, <1>0, <2>2, ByAddressRanks
    <3>3. k[a].next = n /\ \A z \in F \ {c} : k[z].next = s.h[z].next
      BY <2>7, <2>8, <1>0
    <3> QED
      BY <3>1, <3>2, <3>3, <1>0, ByAddressRanks, PutInFront
  <2>11. NoFalseLink(k, G, {})
    <3>1. SUFFICES ASSUME NEW f \in G, k[f].prev # NULL, k[k[f].prev].next = f PROVE k[f].prev \in G
      BY DEF NoFalseLink
    <3>2. CASE f = n \/ f = a
      BY <3>1, <3>2, <1>0, <2>2, <2>7, <2>8
    <3>3. CASE f # n /\ f # a
      <4>1. k[f].prev = s.h[f].prev /\ f \in F \ {c} /\ s.h[f].prev \in A0
        BY <3>1, <3>3, <2>7, <2>8, <1>0
      <4>2. CASE s.h[f].prev = a
        BY <4>1, <4>2
      <4>3. CASE s.h[f].prev # a
        <5>1. s.h[s.h[f].prev].next = f
          BY <3>1, <4>1, <4>3, <2>7
        <5>2. s.h[f].prev \in F
          BY <5>1, <4>1, <4>3, <3>1, <1>0 DEF NoFalseLink
        <5> QED
          BY <5>1, <5>2, <4>1, <3>3
      <4> QED
        BY <4>2, <4>3
    <3> QED
      BY <3>2, <3>3
  <2>12. t.nfree = Cardinality(G)
    <3>1. Cardinality(F \ {c}) = Cardinality(F) - 1 /\ IsFiniteSet(F \ {c})
      BY <1>0, <2>1, FS_RemoveElement
    <3>2. Cardinality((F \ {c}) \cup {a}) = Cardinality(F \ {c}) + 1
      BY <3>1, <1>0, FS_AddElement
    <3>3. Cardinality(F) \in Int
      BY <1>0 DEF HeapRec
    <3> QED
      BY <3>1, <3>2, <3>3, <2>6, <1>0
  <2>13. \A z \in L : k[z].next = s.h[z].next /\ k[z].prev = s.h[z].prev /\ k[z].size = s.h[z].size
    BY <2>2, <2>7, <2>8, <1>0
  <2>14. Shape(t, G, L, r, {})
    <3>1. Shape(s, F, L, r, {a})
      BY DEF Loose
    <3>2. /\ \A z \in A0 : t.h[z].sig = s.h[z].sig
          /\ \A z \in L : t.h[z].next = s.h[z].next /\ t.h[z].prev = s.h[z].prev
          /\ Tiles(t.h, G \cup L) /\ Listed(t.h, t.free, G, ByAddress) /\ NoFalseLink(t.h, G, {})
      BY <2>6, <2>7, <2>9, <2>10, <2>11, <2>13
    <3>3. G \in SUBSET (F \cup {a})
      BY <2>8
    <3>4. t \in HeapRec /\ t.alloc = s.alloc /\ t.nalloc = s.nalloc
      BY <2>6
    <3> HIDE DEF G, n, c
    <3> QED
      BY <3>1, <3>2, <3>3, <3>4, <2>12, FreedShape
  <2> QED
    BY <2>6, <2>7, <2>8, <2>13, <2>14 DEF Freed, t
<1>3. CASE ~can_merge(s.h, a, c)
  <2> DEFINE G == F \cup {a}
             k == Link(s.h, a, c)
  <2>1. c \in F \cup {NULL} /\ c # a
    BY <1>0 DEF Listed
  <2>2. /\ k \in Mem
        /\ SameBody(k, s.h)
        /\ \A z \in A0 : k[z].next = IF z = a THEN c ELSE s.h[z].next
        /\ \A z \in A0 : k[z].prev = IF z = c /\ c # NULL THEN a ELSE s.h[z].prev
    BY <1>0, LinkEffect
  <2>3. t = [s EXCEPT !.h = k, !.free = a, !.nfree = s.nfree + 1]
    BY <1>0, <1>3 DEF FreeAtHead, HeapRec
  <2> HIDE DEF k
  <2>4. /\ t.h = k /\ t.free = a /\ t.alloc = s.alloc /\ t.nfree = s.nfree + 1 /\ t.nalloc = s.nalloc
        /\ t \in HeapRec
    <3>1. t = [h |-> k, free |-> a, alloc |-> s.alloc, nfree |-> s.nfree + 1, nalloc |-> s.nalloc]
      BY <2>3, <1>0 DEF HeapRec
    <3> HIDE DEF t
    <3>2. s.alloc \in A0 /\ s.nfree + 1 \in Int /\ s.nalloc \in Int /\ a \in A0
      BY <1>0 DEF HeapRec, A0
    <3> QED
      BY <3>1, <3>2, <2>2 DEF HeapRec
  <2> HIDE DEF t
  <2>5. \A z \in A0 : k[z].sig = s.h[z].sig /\ k[z].owner = s.h[z].owner /\ k[z].size = s.h[z].size
    BY <2>2 DEF SameBody
  <2>6. G \in SUBSET (F \cup {a}) /\ G \subseteq A0 /\ L \subseteq A0 /\ G \subseteq Addr /\ a \in A0
    BY <1>0 DEF A0
  <2>7. Tiles(k, G \cup L)
    <3>1. G \cup L = F \cup L \cup {a}
      OBVIOUS
    <3>2. \A z \in F \cup L \cup {a} : k[z].size = s.h[z].size
      BY <2>5, <2>6
    <3> QED
      BY <3>1, <3>2, <1>0 DEF Tiles, End
  <2>8. Listed(k, a, G, ByAddress)
    <3>1. c # NULL => ByAddress[a] < ByAddress[c]
      BY <1>0, <2>1, ByAddressRanks
    <3>2. k[a].next = c /\ \A z \in F : k[z].next = s.h[z].next
      BY <2>2, <2>6, <1>0
    <3> QED
      BY <3>1, <3>2, <1>0, ByAddressRanks, PutInFront
  <2>9. NoFalseLink(k, G, {})
    <3>1. SUFFICES ASSUME NEW f \in G, k[f].prev # NULL, k[k[f].prev].next = f PROVE k[f].prev \in G
      BY DEF NoFalseLink
    <3>2. CASE f = c \/ f = a
      BY <3>1, <3>2, <1>0, <2>1, <2>2, <2>6
    <3>3. CASE f # c /\ f # a
      <4>1. k[f].prev = s.h[f].prev /\ f \in F /\ s.h[f].prev \in A0
        BY <3>1, <3>3, <2>2, <2>6, <1>0
      <4>2. CASE s.h[f].prev = a
        BY <4>1, <4>2
      <4>3. CASE s.h[f].prev # a
        <5>1. s.h[s.h[f].prev].next = f
          BY <3>1, <4>1, <4>3, <2>2
        <5> QED
          BY <5>1, <4>1, <4>3, <3>1, <1>0 DEF NoFalseLink
      <4> QED
        BY <4>2, <4>3
    <3> QED
      BY <3>2, <3>3
  <2>10. t.nfree = Cardinality(G)
    <3>1. Cardinality(F \cup {a}) = Cardinality(F) + 1
      BY <1>0, FS_AddElement
    <3> QED
      BY <3>1, <2>4, <1>0
  <2>11. \A z \in L : k[z].next = s.h[z].next /\ k[z].prev = s.h[z].prev /\ k[z].size = s.h[z].size
    BY <2>1, <2>2, <2>5, <2>6, <1>0
  <2>12. Shape(t, G, L, r, {})
    <3>1. Shape(s, F, L, r, {a})
      BY DEF Loose
    <3>2. /\ \A z \in A0 : t.h[z].sig = s.h[z].sig
          /\ \A z \in L : t.h[z].next = s.h[z].next /\ t.h[z].prev = s.h[z].prev
          /\ Tiles(t.h, G \cup L) /\ Listed(t.h, t.free, G, ByAddress) /\ NoFalseLink(t.h, G, {})
      BY <2>4, <2>5, <2>7, <2>8, <2>9, <2>11
    <3> HIDE DEF G
    <3> QED
      BY <3>1, <3>2, <2>4, <2>6, <2>10, FreedShape, ZenonT(40)
  <2> QED
    BY <2>4, <2>5, <2>6, <2>11, <2>12 DEF Freed, t
<1> QED
  BY <1>2, <1>3

\* Item a goes behind p, in front of q, and is merged with neither.
LEMMA SlotInFrees ==
  ASSUME NEW s, NEW F, NEW L, NEW r, NEW a, Loose(s, F, L, r, a),
         NEW p \in F, p < a, NEW q, q = s.h[p].next, q # NULL => a < q,
         NEW k, SameBody(k, s.h),
         NEW t \in HeapRec, t.h = k, t.nfree = s.nfree + 1,
         t.free = s.free, t.alloc = s.alloc, t.nalloc = s.nalloc,
         \A z \in A0 : k[z].next = IF z = p THEN a ELSE IF z = a THEN q ELSE s.h[z].next,
         \A z \in A0 : k[z].prev = IF z = a THEN p ELSE IF z = q /\ q # NULL THEN a ELSE s.h[z].prev
  PROVE  Freed(s, t, L, r)
<1> DEFINE G == F \cup {a}
<1>0. /\ s \in HeapRec /\ s.h \in Mem /\ s.free \in A0
      /\ F \in SUBSET Addr /\ L \in SUBSET Addr /\ a \in Addr /\ NULL \notin Addr
      /\ a \notin F /\ a \notin L /\ F \cap L = {}
      /\ Tiles(s.h, F \cup L \cup {a})
      /\ Listed(s.h, s.free, F, ByAddress)
      /\ NoFalseLink(s.h, F, {a})
      /\ \A z \in Addr : s.h[z].prev \in A0 /\ s.h[z].next \in A0
      /\ \A z \in F : s.h[z].next \in F \cup {NULL} /\ (s.h[z].next # NULL => z < s.h[z].next)
      /\ s.h[a].next = NULL /\ s.h[a].prev = NULL
      /\ s.nfree = Cardinality(F) /\ IsFiniteSet(F)
  BY ONLY Loose(s, F, L, r, a), LooseFacts
<1>1. q \in F \cup {NULL} /\ p # a /\ q # a /\ p # q /\ p # NULL
  <2>1. Addr \subseteq Nat
    BY HeapAssumption DEF Addr
  <2>2. q \in F \cup {NULL} /\ (q # NULL => p < q)
    BY <1>0
  <2> QED
    BY <2>1, <2>2, <1>0
<1>3. \A z \in A0 : k[z].sig = s.h[z].sig /\ k[z].owner = s.h[z].owner /\ k[z].size = s.h[z].size
  BY DEF SameBody
<1>4. G \in SUBSET (F \cup {a}) /\ G \subseteq A0 /\ L \subseteq A0 /\ G \subseteq Addr /\ a \in A0
  BY <1>0 DEF A0
<1>5. Tiles(k, G \cup L)
  <2>1. G \cup L = F \cup L \cup {a}
    OBVIOUS
  <2>2. \A z \in F \cup L \cup {a} : k[z].size = s.h[z].size
    BY <1>3, <1>4
  <2> QED
    BY <2>1, <2>2, <1>0 DEF Tiles, End
<1>6. Listed(k, s.free, G, ByAddress)
  <2>1. ByAddress[p] < ByAddress[a] /\ (s.h[p].next # NULL => ByAddress[a] < ByAddress[s.h[p].next])
    BY <1>0, <1>1, ByAddressRanks
  <2>2. k[p].next = a /\ k[a].next = s.h[p].next /\ \A z \in F \ {p} : k[z].next = s.h[z].next
    BY <1>0, <1>1, <1>4
  <2>3. F \in SUBSET Addr /\ ByAddress \in Ranks /\ Listed(s.h, s.free, F, ByAddress) /\ a \in Addr \ F
    BY <1>0, ByAddressRanks
  <2>4. Listed(k, s.free, F \cup {a}, ByAddress)
    BY ONLY <2>1, <2>2, <2>3, p \in F, PutBehind
  <2> QED
    BY <2>4
<1>7. NoFalseLink(k, G, {})
  <2>1. SUFFICES ASSUME NEW f \in G, k[f].prev # NULL, k[k[f].prev].next = f PROVE k[f].prev \in G
    BY DEF NoFalseLink
  <2>2. CASE f = a \/ f = q
    BY <2>1, <2>2, <1>0, <1>1, <1>4
  <2>3. CASE f # a /\ f # q
    <3>1. k[f].prev = s.h[f].prev /\ f \in F /\ s.h[f].prev \in A0
      BY <2>1, <2>3, <1>4, <1>0
    <3>2. CASE s.h[f].prev \in {a, p}
      BY <3>1, <3>2
    <3>3. CASE s.h[f].prev \notin {a, p}
      <4>1. s.h[s.h[f].prev].next = f
        BY <2>1, <3>1, <3>3
      <4> QED
        BY <4>1, <3>1, <3>3, <2>1, <1>0 DEF NoFalseLink
    <3> QED
      BY <3>2, <3>3
  <2> QED
    BY <2>2, <2>3
<1>8. t.nfree = Cardinality(G)
  <2>1. Cardinality(F \cup {a}) = Cardinality(F) + 1
    BY <1>0, FS_AddElement
  <2> QED
    BY <2>1, <1>0
<1>9. \A z \in L : k[z].next = s.h[z].next /\ k[z].prev = s.h[z].prev /\ k[z].size = s.h[z].size
  BY <1>1, <1>3, <1>4, <1>0
<1>10. Shape(t, G, L, r, {})
  <2>1. Shape(s, F, L, r, {a})
    BY DEF Loose
  <2>2. /\ \A z \in A0 : t.h[z].sig = s.h[z].sig
        /\ \A z \in L : t.h[z].next = s.h[z].next /\ t.h[z].prev = s.h[z].prev
        /\ Tiles(t.h, G \cup L) /\ Listed(t.h, t.free, G, ByAddress) /\ NoFalseLink(t.h, G, {})
    BY <1>3, <1>5, <1>6, <1>7, <1>9
  <2> HIDE DEF G
  <2> QED
    BY <2>1, <2>2, <1>4, <1>8, FreedShape, ZenonT(40)
<1> QED
  BY <1>3, <1>4, <1>9, <1>10 DEF Freed

LEMMA FreeAtTailFrees ==
  ASSUME NEW s, NEW F, NEW L, NEW r, NEW a, Loose(s, F, L, r, a),
         NEW p \in F, p < a, s.h[p].next = NULL
  PROVE  Freed(s, FreeAtTail(s, a, p), L, r)
<1> DEFINE k == Link(s.h, p, a)
           t == FreeAtTail(s, a, p)
<1>0. /\ s \in HeapRec /\ s.h \in Mem /\ s.free \in A0
      /\ F \in SUBSET Addr /\ L \in SUBSET Addr /\ a \in Addr /\ NULL \notin Addr
      /\ a \notin F /\ a \notin L /\ F \cap L = {}
      /\ Tiles(s.h, F \cup L \cup {a})
      /\ Listed(s.h, s.free, F, ByAddress)
      /\ NoFalseLink(s.h, F, {a})
      /\ \A z \in Addr : s.h[z].prev \in A0 /\ s.h[z].next \in A0
      /\ \A z \in F : s.h[z].next \in F \cup {NULL} /\ (s.h[z].next # NULL => z < s.h[z].next)
      /\ s.h[a].next = NULL /\ s.h[a].prev = NULL
      /\ s.nfree = Cardinality(F) /\ IsFiniteSet(F)
  BY ONLY Loose(s, F, L, r, a), LooseFacts
<1>1. /\ k \in Mem
      /\ SameBody(k, s.h)
      /\ \A z \in A0 : k[z].next = IF z = p THEN a ELSE s.h[z].next
      /\ \A z \in A0 : k[z].prev = IF z = a /\ a # NULL THEN p ELSE s.h[z].prev
  <2>1. s.h \in Mem /\ p \in Addr /\ a \in A0
    BY <1>0 DEF A0
  <2> QED
    BY ONLY <2>1, LinkEffect
<1>2. t = [s EXCEPT !.h = k, !.nfree = s.nfree + 1]
  BY <1>0 DEF FreeAtTail, HeapRec
<1> HIDE DEF k, t
<1>3. /\ t \in HeapRec /\ t.h = k /\ t.nfree = s.nfree + 1
      /\ t.free = s.free /\ t.alloc = s.alloc /\ t.nalloc = s.nalloc
  <2>1. t = [h |-> k, free |-> s.free, alloc |-> s.alloc, nfree |-> s.nfree + 1, nalloc |-> s.nalloc]
    BY <1>2, <1>0 DEF HeapRec
  <2>2. s.free \in A0 /\ s.alloc \in A0 /\ s.nfree + 1 \in Int /\ s.nalloc \in Int
    BY <1>0 DEF HeapRec
  <2> QED
    BY <2>1, <2>2, <1>1 DEF HeapRec
<1>4. \A q : q = NULL =>
        /\ \A z \in A0 : k[z].next = IF z = p THEN a ELSE IF z = a THEN q ELSE s.h[z].next
        /\ \A z \in A0 : k[z].prev = IF z = a THEN p ELSE IF z = q /\ q # NULL THEN a ELSE s.h[z].prev
        /\ q = s.h[p].next /\ (q # NULL => a < q)
  BY <1>0, <1>1 DEF A0
<1>5. Freed(s, t, L, r)
  BY <1>1, <1>3, <1>4, SlotInFrees
<1> QED
  BY <1>5 DEF t

LEMMA FreedIs ==
  ASSUME NEW s, NEW F, NEW L, NEW r, NEW a, Loose(s, F, L, r, a),
         NEW t \in HeapRec, NEW G \in SUBSET (F \cup {a}),
         t.alloc = s.alloc, t.nalloc = s.nalloc, t.nfree = Cardinality(G),
         \A z \in A0 : t.h[z].sig = s.h[z].sig /\ t.h[z].owner = s.h[z].owner,
         \A z \in L : /\ t.h[z].next = s.h[z].next /\ t.h[z].prev = s.h[z].prev
                      /\ t.h[z].size = s.h[z].size,
         Tiles(t.h, G \cup L),
         Listed(t.h, t.free, G, ByAddress),
         NoFalseLink(t.h, G, {})
  PROVE  Freed(s, t, L, r)
<1>1. Shape(s, F, L, r, {a})
  BY DEF Loose
<1>2. Shape(t, G, L, r, {})
  <2>1. /\ \A z \in A0 : t.h[z].sig = s.h[z].sig
        /\ \A z \in L : t.h[z].next = s.h[z].next /\ t.h[z].prev = s.h[z].prev
    OBVIOUS
  <2>2. /\ t \in HeapRec /\ G \in SUBSET (F \cup {a})
        /\ t.alloc = s.alloc /\ t.nalloc = s.nalloc /\ t.nfree = Cardinality(G)
        /\ Tiles(t.h, G \cup L) /\ Listed(t.h, t.free, G, ByAddress) /\ NoFalseLink(t.h, G, {})
    OBVIOUS
  <2> QED
    BY ONLY <1>1, <2>1, <2>2, FreedShape
<1>3. G \in SUBSET Addr
  BY <1>1 DEF Shape, Tiles
<1> QED
  BY <1>2, <1>3 DEF Freed

\* Item a linked between cur and n.
LEMMA LinkTwice ==
  ASSUME NEW h \in Mem, NEW a \in Addr, NEW cur \in Addr, NEW n \in A0, a # cur, n # a
  PROVE  LET k == Link(Link(h, a, n), cur, a) IN
         /\ k \in Mem
         /\ SameBody(k, h)
         /\ \A z \in A0 : k[z].next = IF z = cur THEN a ELSE IF z = a THEN n ELSE h[z].next
         /\ \A z \in A0 : k[z].prev = IF z = a THEN cur ELSE IF z = n /\ n # NULL THEN a ELSE h[z].prev
<1> DEFINE g == Link(h, a, n)
           k == Link(g, cur, a)
<1>1. /\ g \in Mem
      /\ SameBody(g, h)
      /\ \A z \in A0 : g[z].next = IF z = a THEN n ELSE h[z].next
      /\ \A z \in A0 : g[z].prev = IF z = n /\ n # NULL THEN a ELSE h[z].prev
  BY LinkEffect
<1> HIDE DEF g
<1>2. a \in A0 /\ a # NULL
  BY DEF A0, Addr
<1>3. /\ k \in Mem
      /\ SameBody(k, g)
      /\ \A z \in A0 : k[z].next = IF z = cur THEN a ELSE g[z].next
      /\ \A z \in A0 : k[z].prev = IF z = a /\ a # NULL THEN cur ELSE g[z].prev
  <2>1. g \in Mem /\ cur \in Addr /\ a \in A0
    BY <1>1, <1>2
  <2> QED
    BY ONLY <2>1, LinkEffect
<1> HIDE DEF k
<1>4. SameBody(k, h)
  BY <1>1, <1>3 DEF SameBody
<1> QED
  BY <1>1, <1>2, <1>3, <1>4 DEF k, g

\* The item swallowed by the one in front of it, and the one behind with it.
LEMMA SwallowedBetween ==
  ASSUME NEW s, NEW F, NEW L, NEW r, NEW a, Loose(s, F, L, r, a),
         NEW cur \in F, cur < a, NEW c \in F, c = s.h[cur].next, a < c,
         End(s.h, cur) = a
  PROVE  Freed(s, FreeBetween(s, a, cur), L, r)
<1> DEFINE t == FreeBetween(s, a, cur)
           n == s.h[c].next
           I == F \cup L \cup {a}
           g == Swallow(s.h, cur, a)
<1>0. /\ s \in HeapRec /\ s.h \in Mem /\ s.free \in A0
      /\ F \in SUBSET Addr /\ L \in SUBSET Addr /\ a \in Addr /\ NULL \notin Addr
      /\ a \notin F /\ a \notin L /\ F \cap L = {}
      /\ Tiles(s.h, F \cup L \cup {a})
      /\ Listed(s.h, s.free, F, ByAddress)
      /\ NoFalseLink(s.h, F, {a})
      /\ \A z \in Addr : s.h[z].prev \in A0 /\ s.h[z].next \in A0
      /\ \A z \in F : s.h[z].next \in F \cup {NULL} /\ (s.h[z].next # NULL => z < s.h[z].next)
      /\ s.h[a].next = NULL /\ s.h[a].prev = NULL
      /\ s.nfree = Cardinality(F) /\ IsFiniteSet(F)
  BY ONLY Loose(s, F, L, r, a), LooseFacts
<1>1. /\ \A y, z \in F : s.h[y].next = s.h[z].next /\ s.h[y].next # NULL => y = z
      /\ \A z \in F : s.h[z].next # NULL => s.h[z].next # s.free
  BY <1>0, OnePredecessor, ByAddressRanks
<1>2. /\ cur # a /\ cur # c /\ c # a /\ a # NULL /\ cur # NULL /\ c # NULL
      /\ cur \in Addr /\ c \in Addr /\ n \in F \cup {NULL} /\ n # c /\ n # cur
      /\ cur \in A0 /\ c \in A0 /\ a \in A0 /\ n \in A0
  <2>1. Addr \subseteq Nat
    BY HeapAssumption DEF Addr
  <2>2. n \in F \cup {NULL} /\ (n # NULL => c < n) /\ cur \in Addr /\ c \in Addr
    BY <1>0
  <2> HIDE DEF n
  <2>3. cur \in Nat /\ c \in Nat /\ a \in Nat /\ (n # NULL => n \in Nat)
    BY <2>1, <2>2, <1>0
  <2>4. cur < c
    BY <2>3
  <2>5. cur # a /\ cur # c /\ c # a
    BY <2>3, <2>4
  <2>6. n # c /\ n # cur /\ a # NULL /\ cur # NULL /\ c # NULL
    BY <2>2, <2>3, <2>4, <1>0
  <2> QED
    BY <2>2, <2>5, <2>6, <1>0 DEF A0
<1>3. /\ g \in Mem
      /\ \A z \in A0 : /\ g[z].sig = s.h[z].sig /\ g[z].owner = s.h[z].owner
                       /\ g[z].next = s.h[z].next /\ g[z].prev = s.h[z].prev
                       /\ g[z].size = IF z = cur THEN s.h[cur].size + HEADER + s.h[a].size ELSE s.h[z].size
  <2>1. cur \in I /\ a \in I /\ Tiles(s.h, I)
    BY <1>0
  <2>2. s.h[cur].size + HEADER + s.h[a].size \in 0 .. HEAP_SIZE
    BY <2>1, MergeFits
  <2>3. s.h \in Mem /\ cur \in Addr /\ a \in Addr
    BY <1>0, <1>2
  <2> QED
    BY ONLY <2>2, <2>3, SwallowEffect
<1>4. Tiles(g, I \ {a})
  <2>1. cur \in I /\ a \in I /\ Tiles(s.h, I) /\ I \subseteq A0
    BY <1>0 DEF A0
  <2>2. g[cur].size = s.h[cur].size + HEADER + s.h[a].size /\ \A z \in I \ {cur, a} : g[z].size = s.h[z].size
    BY <1>2, <1>3, <2>1
  <2> HIDE DEF I, g
  <2> QED
    BY <2>1, <2>2, TilesMerged
<1>5. can_merge(s.h, cur, a)
  BY <1>2 DEF can_merge
<1>6. CASE can_merge(g, cur, c)
  <2> DEFINE w == Swallow(g, cur, c)
             k == Link(w, cur, g[c].next)
             G == F \ {c}
  <2>1. t = [s EXCEPT !.h = k, !.nfree = s.nfree - 1]
    BY <1>5, <1>6, <1>0 DEF FreeBetween, HeapRec
  <2>2. g[c].next = n
    BY <1>2, <1>3
  <2> HIDE DEF g
  <2>3. /\ w \in Mem
        /\ \A z \in A0 : /\ w[z].sig = g[z].sig /\ w[z].owner = g[z].owner
                         /\ w[z].next = g[z].next /\ w[z].prev = g[z].prev
                         /\ w[z].size = IF z = cur THEN g[cur].size + HEADER + g[c].size ELSE g[z].size
    <3>1. cur \in I \ {a} /\ c \in I \ {a} /\ End(g, cur) = c
      BY <1>2, <1>6 DEF can_merge
    <3> HIDE DEF I
    <3>2. g[cur].size + HEADER + g[c].size \in 0 .. HEAP_SIZE
      BY <3>1, <1>4, MergeFits
    <3> QED
      BY ONLY <3>2, <1>2, <1>3, SwallowEffect
  <2> HIDE DEF w
  <2>4. /\ k \in Mem
        /\ SameBody(k, w)
        /\ \A z \in A0 : k[z].next = IF z = cur THEN n ELSE w[z].next
        /\ \A z \in A0 : k[z].prev = IF z = n /\ n # NULL THEN cur ELSE w[z].prev
    <3>1. w \in Mem /\ cur \in Addr /\ n \in A0 /\ k = Link(w, cur, n)
      BY <1>2, <2>2, <2>3
    <3> QED
      BY ONLY <3>1, LinkEffect
  <2> HIDE DEF k, t
  <2>5. /\ t \in HeapRec /\ t.h = k /\ t.nfree = s.nfree - 1
        /\ t.free = s.free /\ t.alloc = s.alloc /\ t.nalloc = s.nalloc
    <3>1. t = [h |-> k, free |-> s.free, alloc |-> s.alloc, nfree |-> s.nfree - 1, nalloc |-> s.nalloc]
      BY <2>1, <1>0 DEF HeapRec
    <3>2. s.free \in A0 /\ s.alloc \in A0 /\ s.nfree - 1 \in Int /\ s.nalloc \in Int
      BY <1>0 DEF HeapRec
    <3> QED
      BY <3>1, <3>2, <2>4 DEF HeapRec
  <2>6. \A z \in A0 : /\ k[z].sig = s.h[z].sig /\ k[z].owner = s.h[z].owner
                      /\ z # cur => k[z].next = s.h[z].next /\ k[z].size = s.h[z].size
                      /\ k[z].prev = IF z = n /\ n # NULL THEN cur ELSE s.h[z].prev
    BY <1>3, <2>3, <2>4 DEF SameBody
  <2>7. k[cur].next = n /\ k[cur].size = g[cur].size + HEADER + g[c].size
    BY <1>2, <2>3, <2>4 DEF SameBody
  <2>8. Tiles(k, G \cup L)
    <3>1. cur \in I \ {a} /\ c \in I \ {a} /\ End(g, cur) = c /\ I \subseteq A0
      BY <1>0, <1>2, <1>6 DEF can_merge, A0
    <3>2. \A z \in (I \ {a}) \ {cur, c} : k[z].size = g[z].size
      BY <3>1, <1>3, <2>6
    <3>3. Tiles(k, (I \ {a}) \ {c})
      <4> HIDE DEF I
      <4> QED
        BY <3>1, <3>2, <2>7, <1>4, TilesMerged
    <3>4. (I \ {a}) \ {c} = G \cup L
      BY <1>0, <1>2
    <3> QED
      BY <3>3, <3>4
  <2>9. Listed(k, s.free, G, ByAddress)
    <3>1. \A z \in F \ {c} : k[z].next = IF s.h[z].next = c THEN s.h[c].next ELSE s.h[z].next
      BY <1>0, <1>1, <1>2, <2>6, <2>7, SMTT(30) DEF A0
    <3>2. s.free = IF s.free = c THEN s.h[c].next ELSE s.free
      BY <1>1, <1>2
    <3>3. F \in SUBSET Addr /\ ByAddress \in Ranks /\ Listed(s.h, s.free, F, ByAddress)
      BY <1>0, ByAddressRanks
    <3>4. Listed(k, s.free, F \ {c}, ByAddress)
      BY ONLY <3>1, <3>2, <3>3, c \in F, Removed
    <3> QED
      BY <3>4
  <2>10. NoFalseLink(k, G, {})
    <3>1. SUFFICES ASSUME NEW f \in G, k[f].prev # NULL, k[k[f].prev].next = f PROVE k[f].prev \in G
      BY DEF NoFalseLink
    <3>2. f \in A0 /\ f \in F /\ f # c /\ f # NULL /\ s.h[f].prev \in A0
      BY <1>0, <3>1 DEF A0
    <3>3. CASE f = n
      BY <3>2, <3>3, <2>6, <1>2
    <3>4. CASE f # n
      <4>1. k[f].prev = s.h[f].prev
        BY <3>2, <3>4, <2>6
      <4>2. CASE s.h[f].prev = cur
        BY <4>1, <4>2, <1>2
      <4>3. CASE s.h[f].prev # cur
        <5>1. s.h[s.h[f].prev].next = f
          BY <3>1, <3>2, <4>1, <4>3, <2>6
        <5>2. s.h[f].prev # a /\ s.h[f].prev # c
          BY <5>1, <3>2, <3>4, <1>0
        <5>3. s.h[f].prev \in F
          BY <5>1, <5>2, <3>1, <3>2, <4>1, <1>0 DEF NoFalseLink
        <5> QED
          BY <5>2, <5>3, <4>1
      <4> QED
        BY <4>2, <4>3
    <3> QED
      BY <3>3, <3>4
  <2>11. t.nfree = Cardinality(G)
    <3>1. Cardinality(F \ {c}) = Cardinality(F) - 1
      BY ONLY <1>0, c \in F, FS_RemoveElement
    <3> QED
      BY <3>1, <2>5, <1>0
  <2>12. \A z \in L : k[z].next = s.h[z].next /\ k[z].prev = s.h[z].prev /\ k[z].size = s.h[z].size
    BY <1>0, <1>2, <2>6 DEF A0
  <2>13. G \in SUBSET (F \cup {a})
    OBVIOUS
  <2> HIDE DEF G, n
  <2>14. Freed(s, t, L, r)
    BY <2>5, <2>6, <2>8, <2>9, <2>10, <2>11, <2>12, <2>13, FreedIs
  <2> QED
    BY <2>14 DEF t
<1>7. CASE ~can_merge(g, cur, c)
  <2>1. t = [s EXCEPT !.h = g]
    BY <1>5, <1>7, <1>0 DEF FreeBetween, HeapRec
  <2> HIDE DEF g, t
  <2>2. /\ t \in HeapRec /\ t.h = g /\ t.nfree = s.nfree
        /\ t.free = s.free /\ t.alloc = s.alloc /\ t.nalloc = s.nalloc
    <3>1. t = [h |-> g, free |-> s.free, alloc |-> s.alloc, nfree |-> s.nfree, nalloc |-> s.nalloc]
      BY <2>1, <1>0 DEF HeapRec
    <3>2. s.free \in A0 /\ s.alloc \in A0 /\ s.nfree \in Int /\ s.nalloc \in Int
      BY <1>0 DEF HeapRec
    <3> QED
      BY <3>1, <3>2, <1>3 DEF HeapRec
  <2>3. Tiles(g, F \cup L)
    <3>1. I \ {a} = F \cup L
      BY <1>0
    <3> QED
      BY <3>1, <1>4
  <2>4. Listed(g, s.free, F, ByAddress)
    <3>1. \A z \in F : g[z].next = s.h[z].next
      BY <1>0, <1>3 DEF A0
    <3> QED
      BY <3>1, <1>0 DEF Listed
  <2>5. NoFalseLink(g, F, {})
    <3>1. SUFFICES ASSUME NEW f \in F, g[f].prev # NULL, g[g[f].prev].next = f PROVE g[f].prev \in F
      BY DEF NoFalseLink
    <3>2. f \in A0 /\ f # NULL /\ s.h[f].prev \in A0
      BY <1>0, <3>1 DEF A0
    <3>3. g[f].prev = s.h[f].prev /\ s.h[s.h[f].prev].next = f
      BY <3>1, <3>2, <1>3
    <3> QED
      BY <3>1, <3>2, <3>3, <1>0 DEF NoFalseLink
  <2>6. \A z \in A0 : g[z].sig = s.h[z].sig /\ g[z].owner = s.h[z].owner
    BY <1>3
  <2>7. \A z \in L : g[z].next = s.h[z].next /\ g[z].prev = s.h[z].prev /\ g[z].size = s.h[z].size
    BY <1>0, <1>3 DEF A0
  <2>8. F \in SUBSET (F \cup {a})
    OBVIOUS
  <2>9. Freed(s, t, L, r)
    BY <1>0, <2>2, <2>3, <2>4, <2>5, <2>6, <2>7, <2>8, FreedIs, ZenonT(40)
  <2> QED
    BY <2>9 DEF t
<1> QED
  BY <1>6, <1>7

\* The item swallows the one behind it.
LEMMA SwallowsBetween ==
  ASSUME NEW s, NEW F, NEW L, NEW r, NEW a, Loose(s, F, L, r, a),
         NEW cur \in F, cur < a, NEW c \in F, c = s.h[cur].next, a < c,
         End(s.h, cur) # a, End(s.h, a) = c
  PROVE  Freed(s, FreeBetween(s, a, cur), L, r)
<1> DEFINE t == FreeBetween(s, a, cur)
           n == s.h[c].next
           I == F \cup L \cup {a}
           g == Swallow(s.h, a, c)
           k == Link(Link(g, a, n), cur, a)
           G == (F \ {c}) \cup {a}
<1>0. /\ s \in HeapRec /\ s.h \in Mem /\ s.free \in A0
      /\ F \in SUBSET Addr /\ L \in SUBSET Addr /\ a \in Addr /\ NULL \notin Addr
      /\ a \notin F /\ a \notin L /\ F \cap L = {}
      /\ Tiles(s.h, F \cup L \cup {a})
      /\ Listed(s.h, s.free, F, ByAddress)
      /\ NoFalseLink(s.h, F, {a})
      /\ \A z \in Addr : s.h[z].prev \in A0 /\ s.h[z].next \in A0
      /\ \A z \in F : s.h[z].next \in F \cup {NULL} /\ (s.h[z].next # NULL => z < s.h[z].next)
      /\ s.h[a].next = NULL /\ s.h[a].prev = NULL
      /\ s.nfree = Cardinality(F) /\ IsFiniteSet(F)
  BY ONLY Loose(s, F, L, r, a), LooseFacts
<1>1. /\ \A y, z \in F : s.h[y].next = s.h[z].next /\ s.h[y].next # NULL => y = z
      /\ \A z \in F : s.h[z].next # NULL => s.h[z].next # s.free
  BY <1>0, OnePredecessor, ByAddressRanks
<1>2. /\ cur # a /\ cur # c /\ c # a /\ a # NULL /\ cur # NULL /\ c # NULL
      /\ cur \in Addr /\ c \in Addr /\ n \in F \cup {NULL} /\ n # c /\ n # cur
      /\ cur \in A0 /\ c \in A0 /\ a \in A0 /\ n \in A0 /\ n # a /\ (n # NULL => a < n)
  <2>1. Addr \subseteq Nat
    BY HeapAssumption DEF Addr
  <2>2. n \in F \cup {NULL} /\ (n # NULL => c < n) /\ cur \in Addr /\ c \in Addr
    BY <1>0
  <2> HIDE DEF n
  <2>3. cur \in Nat /\ c \in Nat /\ a \in Nat /\ (n # NULL => n \in Nat)
    BY <2>1, <2>2, <1>0
  <2>4. cur < c
    BY <2>3
  <2>5. cur # a /\ cur # c /\ c # a
    BY <2>3, <2>4
  <2>6. n # c /\ n # cur /\ n # a /\ a # NULL /\ cur # NULL /\ c # NULL /\ (n # NULL => a < n)
    BY <2>2, <2>3, <2>4, <1>0
  <2> QED
    BY <2>2, <2>5, <2>6, <1>0 DEF A0
<1>3. t = [s EXCEPT !.h = k]
  BY <1>0, <1>2 DEF FreeBetween, HeapRec, can_merge
<1>4. /\ g \in Mem
      /\ \A z \in A0 : /\ g[z].sig = s.h[z].sig /\ g[z].owner = s.h[z].owner
                       /\ g[z].next = s.h[z].next /\ g[z].prev = s.h[z].prev
                       /\ g[z].size = IF z = a THEN s.h[a].size + HEADER + s.h[c].size ELSE s.h[z].size
  <2>1. a \in I /\ c \in I /\ Tiles(s.h, I)
    BY <1>0
  <2>2. s.h[a].size + HEADER + s.h[c].size \in 0 .. HEAP_SIZE
    BY <2>1, MergeFits
  <2>3. s.h \in Mem /\ c \in Addr /\ a \in Addr
    BY <1>0, <1>2
  <2> QED
    BY ONLY <2>2, <2>3, SwallowEffect
<1> HIDE DEF g
<1>5. /\ k \in Mem
      /\ SameBody(k, g)
      /\ \A z \in A0 : k[z].next = IF z = cur THEN a ELSE IF z = a THEN n ELSE g[z].next
      /\ \A z \in A0 : k[z].prev = IF z = a THEN cur ELSE IF z = n /\ n # NULL THEN a ELSE g[z].prev
  <2>1. g \in Mem /\ a \in Addr /\ cur \in Addr /\ n \in A0 /\ a # cur /\ n # a
    BY <1>0, <1>2, <1>4
  <2> QED
    BY ONLY <2>1, LinkTwice
<1> HIDE DEF k, t
<1>6. /\ t \in HeapRec /\ t.h = k /\ t.nfree = s.nfree
      /\ t.free = s.free /\ t.alloc = s.alloc /\ t.nalloc = s.nalloc
  <2>1. t = [h |-> k, free |-> s.free, alloc |-> s.alloc, nfree |-> s.nfree, nalloc |-> s.nalloc]
    BY <1>3, <1>0 DEF HeapRec
  <2>2. s.free \in A0 /\ s.alloc \in A0 /\ s.nfree \in Int /\ s.nalloc \in Int
    BY <1>0 DEF HeapRec
  <2> QED
    BY <2>1, <2>2, <1>5 DEF HeapRec
<1>7. \A z \in A0 : /\ k[z].sig = s.h[z].sig /\ k[z].owner = s.h[z].owner
                    /\ k[z].size = IF z = a THEN s.h[a].size + HEADER + s.h[c].size ELSE s.h[z].size
                    /\ k[z].next = IF z = cur THEN a ELSE IF z = a THEN n ELSE s.h[z].next
                    /\ k[z].prev = IF z = a THEN cur ELSE IF z = n /\ n # NULL THEN a ELSE s.h[z].prev
  BY <1>4, <1>5 DEF SameBody
<1>8. Tiles(k, G \cup L)
  <2>1. a \in I /\ c \in I /\ Tiles(s.h, I) /\ I \subseteq A0
    BY <1>0 DEF A0
  <2>2. k[a].size = s.h[a].size + HEADER + s.h[c].size /\ \A z \in I \ {a, c} : k[z].size = s.h[z].size
    BY <1>7, <2>1
  <2>3. Tiles(k, I \ {c})
    <3> HIDE DEF I
    <3> QED
      BY <2>1, <2>2, TilesMerged
  <2>4. I \ {c} = G \cup L
    BY <1>0, <1>2
  <2> QED
    BY <2>3, <2>4
<1>9. Listed(k, s.free, G, ByAddress)
  <2> DEFINE w == [z \in A0 |-> [next |-> IF z = cur THEN n ELSE s.h[z].next]]
  <2>0. \A z \in A0 : w[z].next = IF z = cur THEN n ELSE s.h[z].next
    OBVIOUS
  <2> HIDE DEF w
  <2>1. \A z \in F \ {c} : w[z].next = IF s.h[z].next = c THEN s.h[c].next ELSE s.h[z].next
    BY <1>0, <1>1, <1>2, <2>0 DEF A0
  <2>2. s.free = IF s.free = c THEN s.h[c].next ELSE s.free
    BY <1>1, <1>2
  <2>3. F \in SUBSET Addr /\ ByAddress \in Ranks /\ Listed(s.h, s.free, F, ByAddress)
    BY <1>0, ByAddressRanks
  <2>4. Listed(w, s.free, F \ {c}, ByAddress)
    BY ONLY <2>1, <2>2, <2>3, c \in F, Removed
  <2>5. w[cur].next = n
    BY <2>0, <1>2
  <2>6. ByAddress[cur] < ByAddress[a] /\ (w[cur].next # NULL => ByAddress[a] < ByAddress[w[cur].next])
    BY <2>5, <1>0, <1>2, ByAddressRanks
  <2>7. k[cur].next = a /\ k[a].next = w[cur].next /\ \A z \in (F \ {c}) \ {cur} : k[z].next = w[z].next
    BY <1>0, <1>2, <1>7, <2>0, <2>5, ZenonT(40) DEF A0
  <2>8. F \ {c} \in SUBSET Addr /\ a \in Addr \ (F \ {c}) /\ cur \in F \ {c}
    BY <1>0, <1>2
  <2>9. Listed(k, s.free, (F \ {c}) \cup {a}, ByAddress)
    BY ONLY <2>3, <2>4, <2>6, <2>7, <2>8, PutBehind
  <2> QED
    BY <2>9
<1>10. NoFalseLink(k, G, {})
  <2>1. SUFFICES ASSUME NEW f \in G, k[f].prev # NULL, k[k[f].prev].next = f PROVE k[f].prev \in G
    BY DEF NoFalseLink
  <2>2. CASE f = a \/ f = n
    BY <2>1, <2>2, <1>0, <1>2, <1>7
  <2>3. CASE f # a /\ f # n
    <3>1. k[f].prev = s.h[f].prev /\ f \in F /\ f # c /\ f # NULL /\ s.h[f].prev \in A0
      BY <2>1, <2>3, <1>0, <1>7 DEF A0
    <3>2. CASE s.h[f].prev \in {a, cur}
      BY <3>1, <3>2, <1>2
    <3>3. CASE s.h[f].prev \notin {a, cur}
      <4>1. s.h[s.h[f].prev].next = f
        BY <2>1, <3>1, <3>3, <1>7
      <4>2. s.h[f].prev # c
        BY <4>1, <2>3
      <4>3. s.h[f].prev \in F
        BY <4>1, <3>1, <3>3, <2>1, <1>0 DEF NoFalseLink
      <4> QED
        BY <4>2, <4>3, <3>1
    <3> QED
      BY <3>2, <3>3
  <2> QED
    BY <2>2, <2>3
<1>11. t.nfree = Cardinality(G)
  <2>1. Cardinality(F \ {c}) = Cardinality(F) - 1 /\ IsFiniteSet(F \ {c})
    BY ONLY <1>0, c \in F, FS_RemoveElement
  <2>2. a \notin F \ {c}
    BY <1>0
  <2>3. Cardinality((F \ {c}) \cup {a}) = Cardinality(F \ {c}) + 1
    BY ONLY <2>1, <2>2, FS_AddElement
  <2>4. Cardinality(F) \in Int
    BY <1>0 DEF HeapRec
  <2> QED
    BY <2>1, <2>3, <2>4, <1>0, <1>6
<1>12. \A z \in L : k[z].next = s.h[z].next /\ k[z].prev = s.h[z].prev /\ k[z].size = s.h[z].size
  BY <1>0, <1>2, <1>7, ZenonT(40) DEF A0
<1>13. G \in SUBSET (F \cup {a})
  OBVIOUS
<1> HIDE DEF G, n
<1>14. Freed(s, t, L, r)
  BY <1>6, <1>7, <1>8, <1>9, <1>10, <1>11, <1>12, <1>13, FreedIs, ZenonT(40)
<1> QED
  BY <1>14 DEF t

\* The item merges with neither neighbour.
LEMMA LinkedBetween ==
  ASSUME NEW s, NEW F, NEW L, NEW r, NEW a, Loose(s, F, L, r, a),
         NEW cur \in F, cur < a, NEW c \in F, c = s.h[cur].next, a < c,
         End(s.h, cur) # a, End(s.h, a) # c
  PROVE  Freed(s, FreeBetween(s, a, cur), L, r)
<1> DEFINE t == FreeBetween(s, a, cur)
           n == s.h[c].next
           k == Link(Link(s.h, a, c), cur, a)
<1>0. /\ s \in HeapRec /\ s.h \in Mem /\ s.free \in A0
      /\ F \in SUBSET Addr /\ L \in SUBSET Addr /\ a \in Addr /\ NULL \notin Addr
      /\ a \notin F /\ a \notin L /\ F \cap L = {}
      /\ Tiles(s.h, F \cup L \cup {a})
      /\ Listed(s.h, s.free, F, ByAddress)
      /\ NoFalseLink(s.h, F, {a})
      /\ \A z \in Addr : s.h[z].prev \in A0 /\ s.h[z].next \in A0
      /\ \A z \in F : s.h[z].next \in F \cup {NULL} /\ (s.h[z].next # NULL => z < s.h[z].next)
      /\ s.h[a].next = NULL /\ s.h[a].prev = NULL
      /\ s.nfree = Cardinality(F) /\ IsFiniteSet(F)
  BY ONLY Loose(s, F, L, r, a), LooseFacts
<1>1. /\ \A y, z \in F : s.h[y].next = s.h[z].next /\ s.h[y].next # NULL => y = z
      /\ \A z \in F : s.h[z].next # NULL => s.h[z].next # s.free
  BY <1>0, OnePredecessor, ByAddressRanks
<1>2. /\ cur # a /\ cur # c /\ c # a /\ a # NULL /\ cur # NULL /\ c # NULL
      /\ cur \in Addr /\ c \in Addr /\ n \in F \cup {NULL} /\ n # c /\ n # cur
      /\ cur \in A0 /\ c \in A0 /\ a \in A0 /\ n \in A0 /\ n # a /\ (n # NULL => a < n)
  <2>1. Addr \subseteq Nat
    BY HeapAssumption DEF Addr
  <2>2. n \in F \cup {NULL} /\ (n # NULL => c < n) /\ cur \in Addr /\ c \in Addr
    BY <1>0
  <2> HIDE DEF n
  <2>3. cur \in Nat /\ c \in Nat /\ a \in Nat /\ (n # NULL => n \in Nat)
    BY <2>1, <2>2, <1>0
  <2>4. cur < c
    BY <2>3
  <2>5. cur # a /\ cur # c /\ c # a
    BY <2>3, <2>4
  <2>6. n # c /\ n # cur /\ n # a /\ a # NULL /\ cur # NULL /\ c # NULL /\ (n # NULL => a < n)
    BY <2>2, <2>3, <2>4, <1>0
  <2> QED
    BY <2>2, <2>5, <2>6, <1>0 DEF A0
<1>3. t = [s EXCEPT !.h = k, !.nfree = s.nfree + 1]
  BY <1>0, <1>2 DEF FreeBetween, HeapRec, can_merge
<1>4. /\ k \in Mem
      /\ SameBody(k, s.h)
      /\ \A z \in A0 : k[z].next = IF z = cur THEN a ELSE IF z = a THEN c ELSE s.h[z].next
      /\ \A z \in A0 : k[z].prev = IF z = a THEN cur ELSE IF z = c /\ c # NULL THEN a ELSE s.h[z].prev
  <2>1. s.h \in Mem /\ a \in Addr /\ cur \in Addr /\ c \in A0 /\ a # cur /\ c # a
    BY <1>0, <1>2
  <2> QED
    BY ONLY <2>1, LinkTwice
<1> HIDE DEF k, t
<1>5. /\ t \in HeapRec /\ t.h = k /\ t.nfree = s.nfree + 1
      /\ t.free = s.free /\ t.alloc = s.alloc /\ t.nalloc = s.nalloc
  <2>1. t = [h |-> k, free |-> s.free, alloc |-> s.alloc, nfree |-> s.nfree + 1, nalloc |-> s.nalloc]
    BY <1>3, <1>0 DEF HeapRec
  <2>2. s.free \in A0 /\ s.alloc \in A0 /\ s.nfree + 1 \in Int /\ s.nalloc \in Int
    BY <1>0 DEF HeapRec
  <2> QED
    BY <2>1, <2>2, <1>4 DEF HeapRec
<1>6. Freed(s, t, L, r)
  <2>1. Loose(s, F, L, r, a) /\ cur \in F /\ cur < a /\ c = s.h[cur].next /\ (c # NULL => a < c)
    OBVIOUS
  <2> QED
    BY ONLY <2>1, <1>4, <1>5, SlotInFrees
<1> QED
  BY <1>6 DEF t

LEMMA FreeBetweenFrees ==
  ASSUME NEW s, NEW F, NEW L, NEW r, NEW a, Loose(s, F, L, r, a),
         NEW cur \in F, cur < a, NEW c \in F, c = s.h[cur].next, a < c
  PROVE  Freed(s, FreeBetween(s, a, cur), L, r)
BY SwallowedBetween, SwallowsBetween, LinkedBetween

\* Wherever on the free list the item belongs, free_item finds the place.
LEMMA FreesInPlace ==
  ASSUME NEW t, NEW F, NEW L, NEW r, NEW a, Loose(t, F, L, r, a),
         NEW at, at = Walk(t.h, t.free),
         NEW gap, gap = {i \in 0 .. HEAP_SIZE - 1 : at[i] < a /\ a < at[i + 1]},
         NEW end, end = {i \in 0 .. HEAP_SIZE - 1 : at[i] # NULL /\ at[i + 1] = NULL}
  PROVE  Freed(t, IF t.free = NULL \/ a < t.free THEN FreeAtHead(t, a)
                  ELSE IF gap # {} THEN FreeBetween(t, a, at[Least(gap)])
                  ELSE FreeAtTail(t, a, at[Least(end)]), L, r)
<1>0. /\ t \in HeapRec /\ t.h \in Mem /\ t.free \in A0
      /\ F \in SUBSET Addr /\ L \in SUBSET Addr /\ a \in Addr /\ NULL \notin Addr
      /\ a \notin F /\ a \notin L /\ F \cap L = {}
      /\ Tiles(t.h, F \cup L \cup {a})
      /\ Listed(t.h, t.free, F, ByAddress)
      /\ NoFalseLink(t.h, F, {a})
      /\ \A z \in Addr : t.h[z].prev \in A0 /\ t.h[z].next \in A0
      /\ \A z \in F : t.h[z].next \in F \cup {NULL} /\ (t.h[z].next # NULL => z < t.h[z].next)
      /\ t.h[a].next = NULL /\ t.h[a].prev = NULL
      /\ t.nfree = Cardinality(F) /\ IsFiniteSet(F)
  BY ONLY Loose(t, F, L, r, a), LooseFacts
<1>1. /\ at[0] = t.free
      /\ \A n \in 1 .. HEAP_SIZE : at[n] = IF at[n - 1] = NULL THEN NULL ELSE t.h[at[n - 1]].next
  BY WalkSteps
<1>2. /\ \A n \in 0 .. HEAP_SIZE : at[n] \in F \cup {NULL}
      /\ at[HEAP_SIZE] = NULL
  <2>1. F \in SUBSET Addr /\ ByAddress \in Ranks /\ Listed(t.h, t.free, F, ByAddress)
    BY <1>0, ByAddressRanks
  <2>2. /\ \A n \in 0 .. HEAP_SIZE : Walk(t.h, t.free)[n] \in F \cup {NULL}
        /\ Walk(t.h, t.free)[HEAP_SIZE] = NULL
    BY ONLY <2>1, WalkInOrder, WalkMeetsAll
  <2> QED
    BY <2>2
<1>3. \A n \in 0 .. HEAP_SIZE - 1 : /\ n \in 0 .. HEAP_SIZE /\ n + 1 \in 0 .. HEAP_SIZE
                                    /\ at[n + 1] = IF at[n] = NULL THEN NULL ELSE t.h[at[n]].next
  <2>1. SUFFICES ASSUME NEW n \in 0 .. HEAP_SIZE - 1
                 PROVE  /\ n \in 0 .. HEAP_SIZE /\ n + 1 \in 0 .. HEAP_SIZE
                        /\ at[n + 1] = IF at[n] = NULL THEN NULL ELSE t.h[at[n]].next
    OBVIOUS
  <2>2. n + 1 \in 1 .. HEAP_SIZE /\ (n + 1) - 1 = n /\ n \in 0 .. HEAP_SIZE /\ n + 1 \in 0 .. HEAP_SIZE
    BY HeapAssumption
  <2> QED
    BY <2>2, <1>1
<1>4. Addr \subseteq Nat /\ HEAP_SIZE \in Nat /\ a \in Nat /\ a > 0
  BY <1>0, HeapAssumption DEF Addr
<1>5. CASE t.free = NULL \/ a < t.free
  BY <1>5, FreeAtHeadFrees
<1>6. CASE ~(t.free = NULL \/ a < t.free) /\ gap # {}
  <2> DEFINE i == Least(gap)
  <2>1. i \in gap
    <3>1. gap \in SUBSET Nat
      OBVIOUS
    <3> QED
      BY <3>1, <1>6, LeastIsLeast
  <2> HIDE DEF i
  <2>2. i \in 0 .. HEAP_SIZE - 1 /\ at[i] < a /\ a < at[i + 1]
    BY <2>1
  <2>3. at[i] # NULL /\ at[i] \in F /\ at[i + 1] = t.h[at[i]].next /\ at[i + 1] \in F
    BY <2>2, <1>2, <1>3, <1>4
  <2>4. Freed(t, FreeBetween(t, a, at[i]), L, r)
    BY <2>2, <2>3, FreeBetweenFrees
  <2> QED
    BY <2>4, <1>6 DEF i
<1>7. CASE ~(t.free = NULL \/ a < t.free) /\ gap = {}
  <2> DEFINE T == {n \in Nat : n \in 0 .. HEAP_SIZE => at[n] = NULL \/ at[n] < a}
             E == {n \in Nat : n \in 0 .. HEAP_SIZE => at[n] # NULL}
             i == Least(end)
  <2>1. t.free \in F /\ t.free < a /\ t.free # NULL
    <3>1. t.free \in F /\ t.free # NULL /\ t.free # a
      BY <1>0, <1>7 DEF Listed
    <3>2. t.free \in Nat
      BY <3>1, <1>0, <1>4
    <3>3. ~(a < t.free)
      BY <1>7
    <3> QED
      BY <3>1, <3>2, <3>3, <1>4
  <2>2. \A n \in Nat : n \in T
    <3>1. 0 \in T
      BY <2>1, <1>1
    <3>2. ASSUME NEW n \in Nat, n \in T PROVE n + 1 \in T
      <4>1. SUFFICES ASSUME n + 1 \in 0 .. HEAP_SIZE, at[n + 1] # NULL PROVE at[n + 1] < a
        OBVIOUS
      <4>2. n \in 0 .. HEAP_SIZE - 1
        BY <4>1, <1>4
      <4>3. at[n] # NULL /\ at[n + 1] \in F
        BY <4>1, <4>2, <1>2, <1>3
      <4>4. at[n] < a
        BY <4>2, <4>3, <3>2, <1>3
      <4>5. ~(a < at[n + 1])
        BY <4>2, <4>4, <1>7
      <4>6. at[n + 1] \in Nat /\ at[n + 1] # a
        BY <4>3, <1>0, <1>4
      <4> QED
        BY <4>5, <4>6, <1>4
    <3> HIDE DEF T
    <3> QED
      BY <3>1, <3>2, ByInduction
  <2>3. end # {}
    <3>1. SUFFICES ASSUME end = {} PROVE FALSE
      OBVIOUS
    <3>2. 0 \in E
      BY <2>1, <1>1
    <3>3. ASSUME NEW n \in Nat, n \in E PROVE n + 1 \in E
      <4>1. SUFFICES ASSUME n + 1 \in 0 .. HEAP_SIZE PROVE at[n + 1] # NULL
        OBVIOUS
      <4>2. n \in 0 .. HEAP_SIZE - 1
        BY <4>1, <1>4
      <4>3. at[n] # NULL
        BY <4>2, <3>3, <1>3
      <4> QED
        BY <4>2, <4>3, <3>1
    <3>4. \A n \in Nat : n \in E
      <4> HIDE DEF E
      <4> QED
        BY <3>2, <3>3, ByInduction
    <3> QED
      BY <3>4, <1>2, <1>4
  <2>4. i \in end
    <3>1. end \in SUBSET Nat
      OBVIOUS
    <3> QED
      BY <3>1, <2>3, LeastIsLeast
  <2> HIDE DEF i
  <2>5. i \in 0 .. HEAP_SIZE - 1 /\ at[i] # NULL /\ at[i + 1] = NULL
    BY <2>4
  <2>6. at[i] \in F /\ t.h[at[i]].next = NULL
    BY <2>5, <1>2, <1>3
  <2>7. at[i] < a
    BY <2>2, <2>5, <1>3
  <2>8. Freed(t, FreeAtTail(t, a, at[i]), L, r)
    BY <2>6, <2>7, FreeAtTailFrees
  <2> QED
    BY <2>8, <1>7 DEF i
<1> QED
  BY <1>5, <1>6, <1>7

(***************************************************************************)
(* free_item moves an allocated item to the free list, merged or not, and  *)
(* leaves the others where they are and as big as they are.                *)
(***************************************************************************)
FreedFrom(s, t, L, r, a) ==
  /\ \E G \in SUBSET Addr : Shape(t, G, L \ {a}, r, {})
  /\ \A z \in A0 : t.h[z].owner = IF z = a THEN NOBODY ELSE s.h[z].owner
  /\ \A z \in L \ {a} : t.h[z].size = s.h[z].size
  /\ \A z \in L \ {a} : t.h[z].next = IF s.h[z].next = a THEN s.h[a].next ELSE s.h[z].next

LEMMA FreeItemSound ==
  ASSUME NEW s, NEW F, NEW L, NEW r \in Ranks, Shape(s, F, L, r, {}), NEW a \in L,
         NEW t, t = free_item(s, a)
  PROVE  FreedFrom(s, t, L, r, a)
<1> DEFINE d == Detach(s, a)
<1>1. /\ Shape(d, F, L \ {a}, r, {a})
      /\ d.h[a].next = NULL /\ d.h[a].prev = NULL
      /\ \A z \in A0 : d.h[z].size = s.h[z].size
      /\ \A z \in A0 : d.h[z].owner = IF z = a THEN NOBODY ELSE s.h[z].owner
      /\ \A z \in L \ {a} : d.h[z].next = IF s.h[z].next = a THEN s.h[a].next ELSE s.h[z].next
  BY ONLY Shape(s, F, L, r, {}), r \in Ranks, a \in L, DetachShape
<1> HIDE DEF d
<1>2. Loose(d, F, L \ {a}, r, a)
  BY <1>1 DEF Loose
<1> DEFINE at  == Walk(d.h, d.free)
           gap == {i \in 0 .. HEAP_SIZE - 1 : at[i] < a /\ a < at[i + 1]}
           end == {i \in 0 .. HEAP_SIZE - 1 : at[i] # NULL /\ at[i + 1] = NULL}
<1>3. t = IF d.free = NULL \/ a < d.free THEN FreeAtHead(d, a)
          ELSE IF gap # {} THEN FreeBetween(d, a, at[Least(gap)])
          ELSE FreeAtTail(d, a, at[Least(end)])
  BY DEF free_item, d
<1>4. Freed(d, t, L \ {a}, r)
  <2>1. /\ at = Walk(d.h, d.free)
        /\ gap = {i \in 0 .. HEAP_SIZE - 1 : at[i] < a /\ a < at[i + 1]}
        /\ end = {i \in 0 .. HEAP_SIZE - 1 : at[i] # NULL /\ at[i + 1] = NULL}
    OBVIOUS
  <2> HIDE DEF at, gap, end
  <2>2. Freed(d, IF d.free = NULL \/ a < d.free THEN FreeAtHead(d, a)
                 ELSE IF gap # {} THEN FreeBetween(d, a, at[Least(gap)])
                 ELSE FreeAtTail(d, a, at[Least(end)]), L \ {a}, r)
    BY ONLY <1>2, <2>1, FreesInPlace, ZenonT(40)
  <2> QED
    BY <2>2, <1>3
<1>5. L \ {a} \subseteq A0
  BY <1>1 DEF Shape, Tiles, A0
<1> QED
  BY <1>1, <1>4, <1>5 DEF Freed, FreedFrom

-----------------------------------------------------------------------------
(* Allocating an item.                                                     *)

\* The item goes to a process.
WithOwner(s, a, pid) == [s EXCEPT !.h = [@ EXCEPT ![a].owner = pid]]

LEMMA OwnerSet ==
  ASSUME NEW s, NEW F, NEW L, NEW r, Shape(s, F, L, r, {}), NEW a \in Addr, NEW pid \in Pids,
         NEW t, t = WithOwner(s, a, pid)
  PROVE  /\ Shape(t, F, L, r, {})
         /\ t.free = s.free /\ t.alloc = s.alloc
         /\ \A z \in A0 : /\ t.h[z].size = s.h[z].size /\ t.h[z].next = s.h[z].next
                          /\ t.h[z].prev = s.h[z].prev
                          /\ t.h[z].owner = IF z = a THEN pid ELSE s.h[z].owner
<1> DEFINE k == [s.h EXCEPT ![a].owner = pid]
<1>1. s \in HeapRec /\ s.h \in Mem /\ s.h \in [A0 -> Header] /\ \A z \in Addr : s.h[z].prev \in A0
  BY DEF Shape, HeapRec, Mem
<1>2. /\ k \in [A0 -> Header]
      /\ \A z \in A0 : /\ k[z].sig = s.h[z].sig /\ k[z].size = s.h[z].size
                       /\ k[z].next = s.h[z].next /\ k[z].prev = s.h[z].prev
                       /\ k[z].owner = IF z = a THEN pid ELSE s.h[z].owner
  BY <1>1 DEF Header, A0
<1>3. t = [s EXCEPT !.h = k]
  BY <1>1 DEF HeapRec, WithOwner
<1> HIDE DEF k
<1>4. k \in Mem
  BY <1>1, <1>2 DEF Mem, A0
<1>5. /\ t \in HeapRec /\ t.h = k /\ t.nfree = s.nfree
      /\ t.free = s.free /\ t.alloc = s.alloc /\ t.nalloc = s.nalloc
  <2>1. t = [h |-> k, free |-> s.free, alloc |-> s.alloc, nfree |-> s.nfree, nalloc |-> s.nalloc]
    BY <1>3, <1>1 DEF HeapRec
  <2>2. s.free \in A0 /\ s.alloc \in A0 /\ s.nfree \in Int /\ s.nalloc \in Int
    BY <1>1 DEF HeapRec
  <2> QED
    BY ONLY <2>1, <2>2, <1>4 DEF HeapRec
<1>6. F \subseteq Addr /\ L \subseteq Addr /\ Addr \subseteq A0
  BY DEF Shape, Tiles, A0
<1>7. Tiles(k, F \cup L \cup {})
  <2>1. \A z \in F \cup L : k[z].size = s.h[z].size
    BY <1>2, <1>6
  <2> QED
    BY <2>1 DEF Shape, Tiles, End
<1>8. Listed(k, s.free, F, ByAddress) /\ Listed(k, s.alloc, L, r)
  <2>1. \A z \in F \cup L : k[z].next = s.h[z].next
    BY <1>2, <1>6
  <2> QED
    BY <2>1 DEF Shape, Listed
<1>9. LinkedBack(k, s.alloc, L)
  <2>1. \A z \in L : k[z].next = s.h[z].next /\ k[z].prev = s.h[z].prev
    BY <1>2, <1>6
  <2> QED
    BY <2>1 DEF Shape, LinkedBack
<1>10. NoFalseLink(k, F, {})
  <2>1. \A f \in F : f \in A0 /\ k[f].prev = s.h[f].prev /\ k[s.h[f].prev].next = s.h[s.h[f].prev].next
    BY <1>1, <1>2, <1>6
  <2> QED
    BY <2>1 DEF Shape, NoFalseLink
<1>11. \A z \in F \cup L \cup {} : k[z].sig
  BY <1>2, <1>6 DEF Shape
<1>12. Shape(t, F, L, r, {})
  BY <1>5, <1>7, <1>8, <1>9, <1>10, <1>11 DEF Shape
<1> QED
  BY <1>2, <1>5, <1>12

\* Split adds item b behind a, and changes nothing else of the items.
SplitOff(s, t, F, L, r, a, n, b) ==
  /\ Shape(t, F \cup {b}, L, r, {})
  /\ b \notin F /\ b \notin L
  /\ t.free = s.free /\ t.alloc = s.alloc
  /\ t.h[a].prev = s.h[a].prev /\ t.h[a].size = n
  /\ \A z \in A0 \ {a, b} : t.h[z].next = s.h[z].next /\ t.h[z].size = s.h[z].size
  /\ \A z \in A0 : t.h[z].owner = IF z = b THEN NOBODY ELSE s.h[z].owner

\* Its surplus becomes an item of its own, behind it on the free list.
LEMMA SplitSound ==
  ASSUME NEW s, NEW F, NEW L, NEW r, Shape(s, F, L, r, {}), NEW a \in F, NEW n \in Nat,
         RoomToSplit(s.h, a, n),
         NEW b, b = a + n + HEADER, NEW t, t = Split(s, a, n)
  PROVE  SplitOff(s, t, F, L, r, a, n, b)
<1> DEFINE new == [sig |-> TRUE, size |-> s.h[a].size - n - HEADER,
                   owner |-> NOBODY, next |-> s.h[a].next, prev |-> a]
           k1 == [s.h EXCEPT ![b] = new]
           k2 == [k1 EXCEPT ![a].size = n]
           k == [k2 EXCEPT ![a].next = b]
           c == s.h[a].next
<1>1. /\ s \in HeapRec /\ s.h \in Mem /\ s.h \in [A0 -> Header]
      /\ \A z \in Addr : s.h[z].prev \in A0
      /\ F \in SUBSET Addr /\ L \in SUBSET Addr /\ F \cap L = {} /\ NULL \notin Addr
      /\ a \in Addr /\ a \in A0 /\ Addr \subseteq A0
      /\ c \in F \cup {NULL} /\ c \in A0 /\ c # a
  <2>1. /\ s \in HeapRec /\ s.h \in Mem /\ s.h \in [A0 -> Header]
        /\ \A z \in Addr : s.h[z].prev \in A0
        /\ F \in SUBSET Addr /\ L \in SUBSET Addr /\ F \cap L = {} /\ NULL \notin Addr
        /\ Listed(s.h, s.free, F, ByAddress)
    BY DEF Shape, HeapRec, Mem, Tiles, Addr
  <2>2. c \in F \cup {NULL}
    BY <2>1 DEF Listed
  <2>3. c # a
    BY <2>1, OnePredecessor, ByAddressRanks
  <2> QED
    BY <2>1, <2>2, <2>3 DEF A0
<1>2. /\ a \in Nat /\ a >= 1 /\ HEADER \in Nat /\ HEADER > 0 /\ SMALLEST_PAYLOAD \in Nat
      /\ s.h[a].size \in Nat /\ s.h[a].size <= HEAP_SIZE /\ HEAP_SIZE \in Nat
      /\ s.h[a].size >= n + HEADER + SMALLEST_PAYLOAD
      /\ b \in Nat /\ a < b
  <2>1. s.h[a].size \in 0 .. HEAP_SIZE /\ a \in 1 .. HEAP_SIZE
    BY <1>1, HeapAssumption DEF Header, Addr
  <2> QED
    BY <2>1, HeapAssumption DEF RoomToSplit
<1>3. /\ s.h[a].size - n - HEADER \in 0 .. HEAP_SIZE /\ n \in 0 .. HEAP_SIZE
      /\ b < End(s.h, a) /\ b + HEADER + (s.h[a].size - n - HEADER) = End(s.h, a)
  BY <1>2 DEF End
<1>4. Tiles(s.h, F \cup L)
  BY DEF Shape
<1>5. b \in Addr /\ b # a /\ b \in A0
  <2>1. End(s.h, a) \in F \cup L \cup {HEAP_END}
    BY <1>4 DEF Tiles
  <2>2. End(s.h, a) <= HEAP_END
    <3>1. CASE End(s.h, a) \in F \cup L
      <4>1. End(s.h, a) \in Addr
        BY <3>1, <1>1
      <4> QED
        BY <4>1, <1>2 DEF Addr
    <3>2. CASE End(s.h, a) = HEAP_END
      BY <3>2, <1>2
    <3> QED
      BY <2>1, <3>1, <3>2
  <2>3. b <= HEAP_SIZE
    BY <2>2, <1>2, <1>3 DEF End
  <2> QED
    BY <2>3, <1>1, <1>2 DEF Addr
<1>6. t = [s EXCEPT !.h = k, !.nfree = s.nfree + 1]
  BY <1>1 DEF Split, HeapRec
<1>7. new \in Header
  BY <1>1, <1>3 DEF Header, A0
<1>8. k1 \in [A0 -> Header] /\ \A z \in A0 : k1[z] = IF z = b THEN new ELSE s.h[z]
  <2> HIDE DEF new
  <2> QED
    BY <1>1, <1>5, <1>7
<1>9. /\ k2 \in [A0 -> Header]
      /\ \A z \in A0 : /\ k2[z].sig = k1[z].sig /\ k2[z].owner = k1[z].owner
                       /\ k2[z].next = k1[z].next /\ k2[z].prev = k1[z].prev
                       /\ k2[z].size = IF z = a THEN n ELSE k1[z].size
  <2> HIDE DEF k1
  <2> QED
    BY <1>1, <1>3, <1>8 DEF Header
<1>10. /\ k \in [A0 -> Header]
       /\ \A z \in A0 : /\ k[z].sig = k2[z].sig /\ k[z].owner = k2[z].owner
                        /\ k[z].size = k2[z].size /\ k[z].prev = k2[z].prev
                        /\ k[z].next = IF z = a THEN b ELSE k2[z].next
  <2> HIDE DEF k2
  <2> QED
    BY <1>1, <1>5, <1>9 DEF Header, A0
<1>11. /\ new.sig /\ new.size = s.h[a].size - n - HEADER /\ new.owner = NOBODY
       /\ new.next = c /\ new.prev = a
  OBVIOUS
<1> HIDE DEF new, k1, k2, k
<1>12. \A z \in A0 : /\ k[z].sig = IF z = b THEN TRUE ELSE s.h[z].sig
                     /\ k[z].owner = IF z = b THEN NOBODY ELSE s.h[z].owner
                     /\ k[z].size = IF z = b THEN s.h[a].size - n - HEADER
                                    ELSE IF z = a THEN n ELSE s.h[z].size
                     /\ k[z].next = IF z = b THEN c ELSE IF z = a THEN b ELSE s.h[z].next
                     /\ k[z].prev = IF z = b THEN a ELSE s.h[z].prev
  <2>1. SUFFICES ASSUME NEW z \in A0
                 PROVE  /\ k[z].sig = IF z = b THEN TRUE ELSE s.h[z].sig
                        /\ k[z].owner = IF z = b THEN NOBODY ELSE s.h[z].owner
                        /\ k[z].size = IF z = b THEN s.h[a].size - n - HEADER
                                       ELSE IF z = a THEN n ELSE s.h[z].size
                        /\ k[z].next = IF z = b THEN c ELSE IF z = a THEN b ELSE s.h[z].next
                        /\ k[z].prev = IF z = b THEN a ELSE s.h[z].prev
    OBVIOUS
  <2>2. CASE z = b
    <3>1. k1[z] = new
      BY <2>2, <1>8
    <3>2. /\ k2[z].sig = new.sig /\ k2[z].owner = new.owner /\ k2[z].next = new.next
          /\ k2[z].prev = new.prev /\ k2[z].size = new.size
      BY <2>2, <3>1, <1>5, <1>9
    <3>3. /\ k[z].sig = new.sig /\ k[z].owner = new.owner /\ k[z].next = new.next
          /\ k[z].prev = new.prev /\ k[z].size = new.size
      BY <2>2, <3>2, <1>5, <1>10
    <3> QED
      BY <2>2, <3>3, <1>11
  <2>3. CASE z # b
    BY <2>3, <1>8, <1>9, <1>10
  <2> QED
    BY <2>2, <2>3
<1>13. k \in Mem
  BY <1>1, <1>10, <1>12 DEF Mem
<1>14. /\ t \in HeapRec /\ t.h = k /\ t.nfree = s.nfree + 1
       /\ t.free = s.free /\ t.alloc = s.alloc /\ t.nalloc = s.nalloc
  <2>1. t = [h |-> k, free |-> s.free, alloc |-> s.alloc, nfree |-> s.nfree + 1, nalloc |-> s.nalloc]
    BY <1>6, <1>1 DEF HeapRec
  <2>2. s.free \in A0 /\ s.alloc \in A0 /\ s.nfree + 1 \in Int /\ s.nalloc \in Int
    BY <1>1 DEF HeapRec
  <2> QED
    BY <2>1, <2>2, <1>13 DEF HeapRec
<1>15. k[a].size = n /\ k[b].size = s.h[a].size - n - HEADER /\ k[a].next = b /\ k[b].next = c
       /\ k[a].prev = s.h[a].prev /\ k[b].prev = a
  BY <1>1, <1>5, <1>12
<1>16. Tiles(k, F \cup L \cup {b}) /\ b \notin F \cup L
  <2>1. k[a].size \in Nat /\ b = End(k, a) /\ k[b].size \in Nat /\ End(k, b) = End(s.h, a)
    BY <1>2, <1>3, <1>15 DEF End
  <2>2. \A z \in F \cup L : z # b
    <3>1. SUFFICES b \notin F \cup L
      OBVIOUS
    <3>2. ~(b \in F \cup L)
      BY <1>2, <1>3, <1>4 DEF Tiles
    <3> QED
      BY <3>2
  <2>3. \A z \in (F \cup L) \ {a} : k[z].size = s.h[z].size
    BY <2>2, <1>1, <1>12
  <2>4. a \in F \cup L /\ b \in Nat /\ b < End(s.h, a)
    BY <1>2, <1>3
  <2> QED
    BY ONLY <2>1, <2>2, <2>3, <2>4, <1>4, TilesSplit
<1>17. \A z \in F \cup L : z \in A0 /\ z # b
  BY <1>1, <1>16
<1>18. Listed(k, s.free, F \cup {b}, ByAddress)
  <2>1. c # NULL => b < c
    <3>1. SUFFICES ASSUME c # NULL PROVE b < c
      OBVIOUS
    <3>2. c \in F /\ c \in Nat
      <4>1. Addr \subseteq Nat
        BY HeapAssumption DEF Addr
      <4> HIDE DEF c
      <4> QED
        BY <3>1, <4>1, <1>1
    <3>3. a < c
      <4>1. ByAddress[a] < ByAddress[c]
        BY <3>1, <3>2 DEF Shape, Listed
      <4> QED
        BY <4>1, <3>2, <1>1, ByAddressRanks
    <3>4. ~(c < End(s.h, a))
      BY <3>2, <3>3, <1>4 DEF Tiles
    <3> QED
      BY <3>2, <3>4, <1>2, <1>3 DEF End
  <2>2. ByAddress[a] < ByAddress[b] /\ (c # NULL => ByAddress[b] < ByAddress[c])
    BY <2>1, <1>1, <1>2, <1>5, ByAddressRanks
  <2>3. k[a].next = b /\ k[b].next = s.h[a].next /\ \A z \in F \ {a} : k[z].next = s.h[z].next
    BY <1>12, <1>15, <1>17, ZenonT(40)
  <2>4. /\ F \in SUBSET Addr /\ ByAddress \in Ranks /\ Listed(s.h, s.free, F, ByAddress)
        /\ b \in Addr \ F /\ a \in F
    BY <1>1, <1>5, <1>16, ByAddressRanks DEF Shape
  <2> QED
    BY ONLY <2>2, <2>3, <2>4, PutBehind, ZenonT(40)
<1>19. Listed(k, s.alloc, L, r) /\ LinkedBack(k, s.alloc, L)
  <2>1. \A z \in L : k[z].next = s.h[z].next /\ k[z].prev = s.h[z].prev
    BY <1>1, <1>12, <1>17
  <2>2. Listed(s.h, s.alloc, L, r) /\ LinkedBack(s.h, s.alloc, L)
    BY DEF Shape
  <2> QED
    BY <2>1, <2>2 DEF Listed, LinkedBack
<1>20. NoFalseLink(k, F \cup {b}, {})
  <2>1. SUFFICES ASSUME NEW f \in F \cup {b}, k[f].prev # NULL, k[k[f].prev].next = f
                 PROVE  k[f].prev \in F \cup {b}
    BY DEF NoFalseLink
  <2>2. CASE f = b
    BY <2>2, <1>15
  <2>3. CASE f # b
    <3>1. f \in F /\ f \in Addr /\ k[f].prev = s.h[f].prev /\ s.h[f].prev \in A0
      BY <2>1, <2>3, <1>1, <1>12
    <3>2. CASE s.h[f].prev \in {a, b}
      BY <3>1, <3>2
    <3>3. CASE s.h[f].prev \notin {a, b}
      <4>1. s.h[s.h[f].prev].next = f
        BY <2>1, <3>1, <3>3, <1>12
      <4>2. NoFalseLink(s.h, F, {})
        BY DEF Shape
      <4> QED
        BY <4>1, <4>2, <2>1, <3>1 DEF NoFalseLink
    <3> QED
      BY <3>2, <3>3
  <2> QED
    BY <2>2, <2>3
<1>21. \A z \in F \cup {b} \cup L : k[z].sig
  <2>1. \A z \in F \cup L : s.h[z].sig
    BY DEF Shape
  <2> QED
    BY <2>1, <1>5, <1>12, <1>17
<1>22. s.nfree + 1 = Cardinality(F \cup {b}) /\ s.nalloc = Cardinality(L)
  <2>1. IsFiniteSet(F) /\ b \notin F
    BY <1>1, <1>16, AddressesFinite
  <2>2. Cardinality(F \cup {b}) = Cardinality(F) + 1
    BY ONLY <2>1, FS_AddElement
  <2> QED
    BY <2>2 DEF Shape
<1>23. Shape(t, F \cup {b}, L, r, {})
  <2>1. F \cup L \cup {b} = (F \cup {b}) \cup L \cup {} /\ (F \cup {b}) \cap L = {}
    BY <1>1, <1>16
  <2> QED
    BY <2>1, <1>14, <1>16, <1>18, <1>19, <1>20, <1>21, <1>22 DEF Shape
<1> QED
  BY <1>12, <1>14, <1>15, <1>16, <1>23 DEF SplitOff

\* What moving an item from the free list to the allocated one writes.
LEMMA MoveEffect ==
  ASSUME NEW s, NEW F, NEW L, NEW r, Shape(s, F, L, r, {}), NEW a \in F,
         NEW t, t = insert_in_allocated(remove_from_free(s, a), a)
  PROVE  /\ t \in HeapRec
         /\ t.free = IF s.h[a].prev = NULL THEN s.h[a].next ELSE s.free
         /\ t.alloc = a /\ t.nfree = s.nfree - 1 /\ t.nalloc = s.nalloc + 1
         /\ \A z \in A0 :
              /\ t.h[z].sig = s.h[z].sig /\ t.h[z].owner = s.h[z].owner /\ t.h[z].size = s.h[z].size
              /\ t.h[z].next = IF z = a THEN s.alloc
                               ELSE IF s.h[a].prev # NULL /\ z = s.h[a].prev THEN s.h[a].next
                               ELSE s.h[z].next
              /\ t.h[z].prev = IF z = a THEN NULL ELSE IF z = s.alloc THEN a
                               ELSE IF s.h[a].next # NULL /\ z = s.h[a].next THEN s.h[a].prev
                               ELSE s.h[z].prev
<1> DEFINE u == Unlink(s.h, a, s.free)
           v == remove_from_free(s, a)
           prev == s.h[a].prev
           next == s.h[a].next
<1>1. /\ s \in HeapRec /\ s.h \in Mem /\ s.free \in A0
      /\ a \in Addr /\ s.alloc # a /\ Addr \subseteq A0
      /\ next # NULL => s.h[next].sig
      /\ next \in A0
  BY DEF Shape, HeapRec, Tiles, Addr, A0, Listed
<1>4. /\ u.h \in Mem
      /\ SameBody(u.h, s.h)
      /\ \A z \in A0 : u.h[z].next = IF prev # NULL /\ z = prev THEN next ELSE s.h[z].next
      /\ \A z \in A0 : u.h[z].prev = IF next # NULL /\ z = next THEN prev ELSE s.h[z].prev
      /\ u.head = IF prev = NULL THEN next ELSE s.free
  <2>1. next # NULL => s.h[next].sig
    BY <1>1
  <2>2. s.h \in Mem /\ a \in Addr /\ s.free \in A0
    BY <1>1
  <2> QED
    BY ONLY <2>1, <2>2, UnlinkEffect
<1>5. v = [s EXCEPT !.h = u.h, !.free = u.head, !.nfree = s.nfree - 1]
  BY <1>1 DEF remove_from_free, HeapRec
<1> HIDE DEF u, v
<1>6. /\ v \in HeapRec /\ v.h = u.h /\ v.free = u.head /\ v.alloc = s.alloc
      /\ v.nfree = s.nfree - 1 /\ v.nalloc = s.nalloc
  <2>1. v = [h |-> u.h, free |-> u.head, alloc |-> s.alloc, nfree |-> s.nfree - 1, nalloc |-> s.nalloc]
    BY ONLY <1>5, <1>1 DEF HeapRec
  <2>2. u.head \in A0 /\ s.alloc \in A0 /\ s.nfree - 1 \in Int /\ s.nalloc \in Int
    BY <1>1, <1>4 DEF HeapRec
  <2> QED
    BY ONLY <2>1, <2>2, <1>4 DEF HeapRec
<1>7. /\ t \in HeapRec
      /\ t.free = v.free /\ t.alloc = a /\ t.nfree = v.nfree /\ t.nalloc = v.nalloc + 1
      /\ SameBody(t.h, v.h)
      /\ \A z \in A0 : t.h[z].next = IF z = a THEN v.alloc ELSE v.h[z].next
      /\ \A z \in A0 : t.h[z].prev = IF z = a THEN NULL ELSE IF z = v.alloc THEN a ELSE v.h[z].prev
  <2>1. v \in HeapRec /\ a \in Addr /\ v.alloc # a
    BY <1>1, <1>6
  <2>2. t = insert_in_allocated(v, a)
    BY DEF v
  <2> HIDE DEF v
  <2> QED
    BY ONLY <2>1, <2>2, InsertEffect
<1>8. SameBody(t.h, s.h)
  BY <1>4, <1>6, <1>7 DEF SameBody
<1> QED
  BY <1>4, <1>6, <1>7, <1>8 DEF SameBody

\* An item linked from where its link back leads goes from one list to the other.
LEMMA MovedSound ==
  ASSUME NEW s, NEW F, NEW L, NEW r \in Ranks, Shape(s, F, L, r, {}), NEW a \in F,
         LinkedFrom(s.h, a, s.free),
         NEW t, t = insert_in_allocated(remove_from_free(s, a), a)
  PROVE  /\ \E q \in Ranks : Shape(t, F \ {a}, L \cup {a}, q, {})
         /\ \A z \in A0 : t.h[z].owner = s.h[z].owner /\ t.h[z].size = s.h[z].size
<1> DEFINE prev == s.h[a].prev
           next == s.h[a].next
<1>1. /\ s \in HeapRec /\ s.h \in Mem /\ s.h \in [A0 -> Header] /\ s.free \in A0
      /\ \A z \in Addr : s.h[z].prev \in A0
      /\ F \in SUBSET Addr /\ L \in SUBSET Addr /\ F \cap L = {} /\ NULL \notin Addr
      /\ a \in Addr /\ Addr \subseteq A0 /\ NULL \in A0 /\ a # NULL
      /\ Listed(s.h, s.free, F, ByAddress) /\ Listed(s.h, s.alloc, L, r)
      /\ LinkedBack(s.h, s.alloc, L) /\ NoFalseLink(s.h, F, {})
      /\ \A z \in F \cup L : s.h[z].sig
      /\ next \in F \cup {NULL}
      /\ s.alloc \in L \cup {NULL}
  BY DEF Shape, HeapRec, Mem, Tiles, Addr, A0, Listed
<1>2. /\ \A y, z \in F : s.h[y].next = s.h[z].next /\ s.h[y].next # NULL => y = z
      /\ \A z \in F : s.h[z].next # NULL => s.h[z].next # s.free
      /\ \A z \in F : s.h[z].next # z
  BY ONLY <1>1, ByAddressRanks, OnePredecessor
<1>3. /\ prev \in F \cup {NULL} /\ prev # a /\ next # a
      /\ s.free = a <=> prev = NULL
      /\ prev # NULL => s.h[prev].next = a
      /\ \A z \in F : s.h[z].next = a <=> prev # NULL /\ z = prev
  <2>1. CASE prev = NULL
    BY <2>1, <1>1, <1>2 DEF LinkedFrom
  <2>2. CASE prev # NULL
    <3>1. s.h[prev].next = a
      BY <2>2 DEF LinkedFrom
    <3>2. prev \in F
      BY <2>2, <3>1, <1>1 DEF NoFalseLink
    <3> QED
      BY <2>2, <3>1, <3>2, <1>1, <1>2
  <2> QED
    BY <2>1, <2>2
<1>4. /\ t \in HeapRec
      /\ t.free = IF prev = NULL THEN next ELSE s.free
      /\ t.alloc = a /\ t.nfree = s.nfree - 1 /\ t.nalloc = s.nalloc + 1
      /\ \A z \in A0 :
           /\ t.h[z].sig = s.h[z].sig /\ t.h[z].owner = s.h[z].owner /\ t.h[z].size = s.h[z].size
           /\ t.h[z].next = IF z = a THEN s.alloc
                            ELSE IF prev # NULL /\ z = prev THEN next ELSE s.h[z].next
           /\ t.h[z].prev = IF z = a THEN NULL ELSE IF z = s.alloc THEN a
                            ELSE IF next # NULL /\ z = next THEN prev ELSE s.h[z].prev
  BY MoveEffect
<1>8. t.free = IF s.free = a THEN next ELSE s.free
  BY <1>3, <1>4
<1> DEFINE F1 == F \ {a}
           L1 == L \cup {a}
<1>10. F1 \cap L1 = {} /\ F1 \cup L1 \cup {} = F \cup L /\ F \cup L \subseteq A0
  BY <1>1
<1>11. Tiles(t.h, F1 \cup L1 \cup {})
  <2>1. \A z \in F \cup L : t.h[z].size = s.h[z].size
    BY <1>4, <1>10
  <2>2. Tiles(s.h, F \cup L)
    BY DEF Shape
  <2> QED
    BY <2>1, <2>2, <1>10 DEF Tiles, End
<1>12. Listed(t.h, t.free, F1, ByAddress)
  <2>1. \A z \in F \ {a} : t.h[z].next = IF s.h[z].next = a THEN s.h[a].next ELSE s.h[z].next
    BY <1>1, <1>3, <1>4
  <2>2. t.free = IF s.free = a THEN s.h[a].next ELSE s.free
    BY <1>8
  <2>3. F \in SUBSET Addr /\ ByAddress \in Ranks /\ Listed(s.h, s.free, F, ByAddress) /\ a \in F
    BY <1>1, ByAddressRanks
  <2> QED
    BY ONLY <2>1, <2>2, <2>3, Removed
<1>13. \A z \in L : /\ t.h[z].next = s.h[z].next
                    /\ t.h[z].prev = IF z = s.alloc THEN a ELSE s.h[z].prev
  BY <1>1, <1>3, <1>4
<1>14. t.h[a].next = s.alloc /\ t.h[a].prev = NULL
  BY <1>1, <1>4
<1>15. PICK q \in Ranks : Listed(t.h, a, L1, q)
  <2>1. a \in Addr \ L /\ L \in SUBSET Addr /\ Listed(s.h, s.alloc, L, r)
    BY <1>1
  <2>2. t.h[a].next = s.alloc /\ \A z \in L : t.h[z].next = s.h[z].next
    BY <1>13, <1>14
  <2>3. \E q \in Ranks : Listed(t.h, a, L \cup {a}, q)
    BY ONLY <2>1, <2>2, r \in Ranks, PutFirst
  <2> QED
    BY <2>3
<1>16. LinkedBack(t.h, a, L1)
  <2>1. SUFFICES ASSUME NEW b \in L1
                 PROVE  IF t.h[b].prev = NULL THEN a = b
                        ELSE t.h[b].prev \in L1 /\ t.h[t.h[b].prev].next = b
    BY DEF LinkedBack
  <2>2. CASE b = a
    BY <2>2, <1>14
  <2>3. CASE b # a /\ b = s.alloc
    BY <2>1, <2>3, <1>1, <1>13, <1>14
  <2>4. CASE b # a /\ b # s.alloc
    <3>1. b \in L /\ t.h[b].prev = s.h[b].prev
      BY <2>1, <2>4, <1>13
    <3>2. s.h[b].prev # NULL /\ s.h[b].prev \in L /\ s.h[s.h[b].prev].next = b
      BY <3>1, <2>4, <1>1 DEF LinkedBack
    <3> QED
      BY <3>1, <3>2, <1>13
  <2> QED
    BY <2>2, <2>3, <2>4
<1>17. NoFalseLink(t.h, F1, {})
  <2>1. SUFFICES ASSUME NEW f \in F1, t.h[f].prev # NULL, t.h[t.h[f].prev].next = f
                 PROVE  t.h[f].prev \in F1
    BY DEF NoFalseLink
  <2>2. /\ f \in F /\ f # a /\ f \in A0 /\ f # s.alloc /\ f # NULL /\ s.h[f].prev \in A0
        /\ t.h[f].prev = IF next # NULL /\ f = next THEN prev ELSE s.h[f].prev
    BY <2>1, <1>1, <1>4
  <2>3. CASE f = next
    BY <2>1, <2>2, <2>3, <1>3
  <2>4. CASE f # next
    <3> DEFINE p == s.h[f].prev
    <3>1. t.h[f].prev = p /\ p # NULL /\ p \in A0 /\ t.h[p].next = f
      BY <2>1, <2>2, <2>4
    <3>2. p # a
      BY <3>1, <1>14, <2>2
    <3>3. ~(prev # NULL /\ p = prev)
      BY <3>1, <3>2, <2>4, <1>4
    <3>4. s.h[p].next = f
      BY <3>1, <3>2, <3>3, <1>4
    <3>5. p \in F
      BY <3>1, <3>4, <2>2, <1>1 DEF NoFalseLink
    <3> QED
      BY <3>1, <3>2, <3>5
  <2> QED
    BY <2>3, <2>4
<1>18. \A z \in F1 \cup L1 \cup {} : t.h[z].sig
  BY <1>1, <1>4, <1>10
<1>19. t.nfree = Cardinality(F1) /\ t.nalloc = Cardinality(L1)
  <2>1. IsFiniteSet(F) /\ IsFiniteSet(L) /\ a \in F /\ a \notin L
    BY <1>1, AddressesFinite
  <2>2. Cardinality(F \ {a}) = Cardinality(F) - 1 /\ Cardinality(L \cup {a}) = Cardinality(L) + 1
    BY ONLY <2>1, FS_RemoveElement, FS_AddElement
  <2> QED
    BY <2>2, <1>4 DEF Shape
<1>20. Shape(t, F1, L1, q, {})
  <2>1. F1 \cap {} = {} /\ L1 \cap {} = {} /\ t \in HeapRec /\ t.alloc = a
    BY <1>4
  <2> HIDE DEF F1, L1
  <2> QED
    BY <2>1, <1>10, <1>11, <1>12, <1>15, <1>16, <1>17, <1>18, <1>19 DEF Shape
<1> QED
  BY <1>4, <1>20

\* What bios_malloc hands out, with the links as they should be and without.
LEMMA AllocateSound ==
  ASSUME NEW s, NEW F, NEW L, NEW r \in Ranks, Shape(s, F, L, r, {}), NEW a \in F,
         NEW n \in Nat, s.h[a].size >= n, NEW pid \in Pids,
         NEW t, t = Allocate(s, a, n, pid)
  PROVE  /\ t \in HeapRec /\ t.nfree \in 0 .. HEAP_SIZE /\ t.nalloc \in 0 .. HEAP_SIZE
         /\ LinkedFrom(s.h, a, s.free) =>
              /\ \E G \in SUBSET Addr, q \in Ranks : Shape(t, G, L \cup {a}, q, {})
              /\ t.h[a].owner = pid /\ t.h[a].size >= n
              /\ \A z \in L : t.h[z].owner = s.h[z].owner /\ t.h[z].size = s.h[z].size
              /\ \A z \in Addr \ (L \cup {a}) : t.h[z].owner \in {s.h[z].owner, NOBODY}
<1> DEFINE b == a + n + HEADER
           t0 == WithOwner(s, a, pid)
           u == IF RoomToSplit(t0.h, a, n) THEN Split(t0, a, n) ELSE t0
           G == IF RoomToSplit(t0.h, a, n) THEN F \cup {b} ELSE F
<1>1. /\ F \in SUBSET Addr /\ L \in SUBSET Addr /\ F \cap L = {} /\ NULL \notin Addr
      /\ Addr \subseteq A0 /\ a \in Addr /\ a \notin L /\ NULL \in A0
      /\ \A z \in F : s.h[z].next # z
      /\ NoFalseLink(s.h, F, {})
      /\ \A z \in Addr : s.h[z].prev \in A0
  <2>1. /\ F \in SUBSET Addr /\ L \in SUBSET Addr /\ F \cap L = {} /\ NULL \notin Addr
        /\ Addr \subseteq A0 /\ NULL \in A0 /\ Listed(s.h, s.free, F, ByAddress)
        /\ NoFalseLink(s.h, F, {}) /\ \A z \in Addr : s.h[z].prev \in A0
    BY DEF Shape, Tiles, Addr, A0, HeapRec, Mem
  <2>2. \A z \in F : s.h[z].next # z
    BY ONLY <2>1, ByAddressRanks, OnePredecessor
  <2> QED
    BY <2>1, <2>2
<1>2. /\ Shape(t0, F, L, r, {})
      /\ t0.free = s.free /\ t0.alloc = s.alloc
      /\ \A z \in A0 : /\ t0.h[z].size = s.h[z].size /\ t0.h[z].next = s.h[z].next
                       /\ t0.h[z].prev = s.h[z].prev
                       /\ t0.h[z].owner = IF z = a THEN pid ELSE s.h[z].owner
  <2>1. a \in Addr
    BY <1>1
  <2>2. t0 = WithOwner(s, a, pid)
    OBVIOUS
  <2> HIDE DEF t0
  <2> QED
    BY ONLY <2>1, <2>2, Shape(s, F, L, r, {}), pid \in Pids, OwnerSet
<1>3. t = insert_in_allocated(remove_from_free(u, a), a)
  BY DEF Allocate, WithOwner
<1> HIDE DEF t0
<1>4. /\ Shape(u, G, L, r, {})
      /\ a \in G
      /\ u.free = s.free
      /\ u.h[a].prev = s.h[a].prev /\ u.h[a].size >= n
      /\ \A z \in F \ {a} : u.h[z].next = s.h[z].next
      /\ \A z \in L : u.h[z].size = s.h[z].size /\ u.h[z].owner = s.h[z].owner
      /\ u.h[a].owner = pid
      /\ \A z \in Addr \ (L \cup {a}) : u.h[z].owner \in {s.h[z].owner, NOBODY}
  <2>1. CASE RoomToSplit(t0.h, a, n)
    <3>1. /\ Shape(u, F \cup {b}, L, r, {})
          /\ b \notin F /\ b \notin L
          /\ u.free = t0.free /\ u.alloc = t0.alloc
          /\ u.h[a].prev = t0.h[a].prev /\ u.h[a].size = n
          /\ \A z \in A0 \ {a, b} : u.h[z].next = t0.h[z].next /\ u.h[z].size = t0.h[z].size
          /\ \A z \in A0 : u.h[z].owner = IF z = b THEN NOBODY ELSE t0.h[z].owner
      <4>1. u = Split(t0, a, n) /\ b = a + n + HEADER
        BY <2>1
      <4>2. Shape(t0, F, L, r, {}) /\ a \in F /\ n \in Nat
        BY <1>2
      <4> HIDE DEF u, b
      <4>3. SplitOff(t0, u, F, L, r, a, n, b)
        BY ONLY <4>1, <4>2, <2>1, SplitSound
      <4> QED
        BY <4>3 DEF SplitOff
    <3>2. G = F \cup {b}
      BY <2>1
    <3> HIDE DEF u, G, b
    <3>3. \A z \in F \cup L : z \in A0 /\ z # b
      BY <3>1, <1>1
    <3> QED
      BY <3>1, <3>2, <3>3, <1>1, <1>2
  <2>2. CASE ~RoomToSplit(t0.h, a, n)
    <3>1. u = t0 /\ G = F
      BY <2>2
    <3> HIDE DEF u, G
    <3> QED
      BY <3>1, <1>1, <1>2
  <2> QED
    BY <2>1, <2>2
<1> HIDE DEF u, G
<1>5. t \in HeapRec /\ t.nfree = u.nfree - 1 /\ t.nalloc = u.nalloc + 1
  <2>1. Shape(u, G, L, r, {}) /\ a \in G
    BY <1>4
  <2> QED
    BY ONLY <1>3, <2>1, MoveEffect
<1>6. t.nfree \in 0 .. HEAP_SIZE /\ t.nalloc \in 0 .. HEAP_SIZE
  <2>1. /\ u.nfree = Cardinality(G) /\ u.nalloc = Cardinality(L) /\ G \in SUBSET Addr
    BY <1>4 DEF Shape, Tiles
  <2>2. IsFiniteSet(G) /\ IsFiniteSet(L)
    BY <2>1, <1>1, AddressesFinite
  <2>3. Cardinality(G \ {a}) = Cardinality(G) - 1
    BY ONLY <2>2, <1>4, FS_RemoveElement
  <2>4. Cardinality(L \cup {a}) = Cardinality(L) + 1
    BY ONLY <2>2, <1>1, FS_AddElement
  <2>5. G \ {a} \in SUBSET Addr /\ L \cup {a} \in SUBSET Addr
    BY <2>1, <1>1
  <2>6. Cardinality(G \ {a}) \in 0 .. HEAP_SIZE /\ Cardinality(L \cup {a}) \in 0 .. HEAP_SIZE
    BY <2>5, AddressesFinite
  <2> QED
    BY <1>5, <2>1, <2>3, <2>4, <2>6
<1>7. ASSUME LinkedFrom(s.h, a, s.free)
      PROVE  /\ \E H \in SUBSET Addr, q \in Ranks : Shape(t, H, L \cup {a}, q, {})
             /\ \A z \in A0 : t.h[z].owner = u.h[z].owner /\ t.h[z].size = u.h[z].size
  <2>1. LinkedFrom(u.h, a, u.free)
    <3>1. CASE s.h[a].prev = NULL
      BY <3>1, <1>4, <1>7 DEF LinkedFrom
    <3>2. CASE s.h[a].prev # NULL
      <4>1. s.h[s.h[a].prev].next = a
        BY <3>2, <1>7 DEF LinkedFrom
      <4>2. s.h[a].prev \in F \ {a}
        BY <3>2, <4>1, <1>1 DEF NoFalseLink
      <4> QED
        BY <3>2, <4>1, <4>2, <1>4 DEF LinkedFrom
    <3> QED
      BY <3>1, <3>2
  <2>2. Shape(u, G, L, r, {}) /\ a \in G
    BY <1>4
  <2>3. /\ \E q \in Ranks : Shape(t, G \ {a}, L \cup {a}, q, {})
        /\ \A z \in A0 : t.h[z].owner = u.h[z].owner /\ t.h[z].size = u.h[z].size
    <3>1. \E q \in Ranks : Shape(t, G \ {a}, L \cup {a}, q, {})
      BY ONLY <1>3, <2>1, <2>2, r \in Ranks, MovedSound
    <3>2. \A z \in A0 : t.h[z].owner = u.h[z].owner /\ t.h[z].size = u.h[z].size
      BY ONLY <1>3, <2>2, MoveEffect
    <3> QED
      BY <3>1, <3>2
  <2>4. G \ {a} \in SUBSET Addr
    BY <2>2 DEF Shape, Tiles
  <2> QED
    BY <2>3, <2>4
<1>8. ASSUME LinkedFrom(s.h, a, s.free)
      PROVE  /\ t.h[a].owner = pid /\ t.h[a].size >= n
             /\ \A z \in L : t.h[z].owner = s.h[z].owner /\ t.h[z].size = s.h[z].size
             /\ \A z \in Addr \ (L \cup {a}) : t.h[z].owner \in {s.h[z].owner, NOBODY}
  <2>1. \A z \in A0 : t.h[z].owner = u.h[z].owner /\ t.h[z].size = u.h[z].size
    BY <1>7, <1>8
  <2>2. a \in A0 /\ L \subseteq A0 /\ Addr \ (L \cup {a}) \subseteq A0
    BY <1>1
  <2> QED
    BY <2>1, <2>2, <1>4
<1> QED
  BY <1>5, <1>6, <1>7, <1>8

\* FirstFit returns an item of the free list that is big enough.
LEMMA FirstFitFits ==
  ASSUME NEW s, NEW F, NEW L, NEW r, Shape(s, F, L, r, {}), NEW n, FirstFit(s, n) # NULL
  PROVE  FirstFit(s, n) \in F /\ s.h[FirstFit(s, n)].size >= n
<1> DEFINE at   == Walk(s.h, s.free)
           fits == {i \in 0 .. HEAP_SIZE : at[i] # NULL /\ s.h[at[i]].size >= n}
<1>1. fits # {} /\ FirstFit(s, n) = at[Least(fits)]
  BY DEF FirstFit
<1>2. Least(fits) \in fits
  <2>1. fits \in SUBSET Nat
    OBVIOUS
  <2> HIDE DEF fits
  <2> QED
    BY ONLY <1>1, <2>1, LeastIsLeast
<1>3. \A i \in 0 .. HEAP_SIZE : at[i] \in F \cup {NULL}
  <2>1. F \in SUBSET Addr /\ ByAddress \in Ranks /\ Listed(s.h, s.free, F, ByAddress)
    BY ByAddressRanks DEF Shape, Tiles
  <2> QED
    BY ONLY <2>1, WalkInOrder
<1> HIDE DEF at
<1> QED
  BY <1>1, <1>2, <1>3

-----------------------------------------------------------------------------
(* bios_free and clean_heap.                                               *)

LEMMA ListsOf ==
  ASSUME NEW s, NEW F, NEW L, NEW r \in Ranks, Shape(s, F, L, r, {})
  PROVE  FreeItemsOf(s) = F /\ AllocatedItemsOf(s) = L
<1>1. /\ F \in SUBSET Addr /\ L \in SUBSET Addr /\ ByAddress \in Ranks
      /\ Listed(s.h, s.free, F, ByAddress) /\ Listed(s.h, s.alloc, L, r)
  BY ByAddressRanks DEF Shape, Tiles
<1>2. ItemsOf(s.h, s.free) = F
  BY ONLY <1>1, WalkMeetsAll
<1>3. ItemsOf(s.h, s.alloc) = L
  BY ONLY <1>1, r \in Ranks, WalkMeetsAll
<1> QED
  BY <1>2, <1>3 DEF FreeItemsOf, AllocatedItemsOf

\* What is left allocated when pid has freed a.
Left(s, L, a, pid) == IF Frees(s, a, pid) THEN L \ {a} ELSE L

LEMMA BiosFreeSound ==
  ASSUME NEW s, NEW F, NEW L, NEW r \in Ranks, Shape(s, F, L, r, {}), Owned(s.h, L),
         NEW a \in Addr, NEW pid \in Pids, NEW t, t = bios_free(s, a, pid)
  PROVE  /\ Frees(s, a, pid) <=> a \in L /\ s.h[a].owner = pid
         /\ \E G \in SUBSET Addr : Shape(t, G, Left(s, L, a, pid), r, {})
         /\ Owned(t.h, Left(s, L, a, pid))
         /\ \A z \in Left(s, L, a, pid) :
              /\ t.h[z].owner = s.h[z].owner /\ t.h[z].size = s.h[z].size
              /\ t.h[z].next = IF Frees(s, a, pid) /\ s.h[z].next = a THEN s.h[a].next
                               ELSE s.h[z].next
<1>1. /\ F \in SUBSET Addr /\ L \in SUBSET Addr /\ Addr \subseteq A0 /\ NULL \notin Addr
      /\ \A z \in L : s.h[z].sig
  BY DEF Shape, Tiles, Addr, A0
<1>2. Frees(s, a, pid) <=> a \in L /\ s.h[a].owner = pid
  BY <1>1 DEF Frees, is_valid_item, Owned
<1>3. CASE ~Frees(s, a, pid)
  <2>1. t = s /\ Left(s, L, a, pid) = L
    BY <1>3 DEF bios_free, Left
  <2> QED
    BY <2>1, <1>1, <1>2, <1>3
<1>4. CASE Frees(s, a, pid)
  <2>1. t = free_item(s, a) /\ Left(s, L, a, pid) = L \ {a} /\ a \in L
    BY <1>2, <1>4 DEF bios_free, Left
  <2>2. /\ \E G \in SUBSET Addr : Shape(t, G, L \ {a}, r, {})
        /\ \A z \in A0 : t.h[z].owner = IF z = a THEN NOBODY ELSE s.h[z].owner
        /\ \A z \in L \ {a} : t.h[z].size = s.h[z].size
        /\ \A z \in L \ {a} : t.h[z].next = IF s.h[z].next = a THEN s.h[a].next ELSE s.h[z].next
    <3>1. FreedFrom(s, t, L, r, a)
      BY ONLY <2>1, Shape(s, F, L, r, {}), r \in Ranks, FreeItemSound
    <3> QED
      BY <3>1 DEF FreedFrom
  <2>3. Owned(t.h, L \ {a})
    <3>1. NOBODY \notin Pids
      BY HeapAssumption
    <3> QED
      BY <2>2, <3>1, <1>1 DEF Owned
  <2> QED
    BY <2>1, <2>2, <2>3, <1>1, <1>2, <1>4
<1> QED
  BY <1>3, <1>4

IsClean(f, s, pid, m) ==
  f = [n \in 0 .. m |->
         IF n = 0 THEN [s |-> s, item |-> s.alloc]
         ELSE IF f[n - 1].item = NULL THEN f[n - 1]
         ELSE [s |-> bios_free(f[n - 1].s, f[n - 1].item, pid),
               item |-> f[n - 1].s.h[f[n - 1].item].next]]

LEMMA CleanExists ==
  ASSUME NEW s, NEW pid
  PROVE  \A m \in Nat : \E f : IsClean(f, s, pid, m)
<1> DEFINE T == {m \in Nat : \E f : IsClean(f, s, pid, m)}
           first == [s |-> s, item |-> s.alloc]
           After(e) == IF e.item = NULL THEN e
                       ELSE [s |-> bios_free(e.s, e.item, pid), item |-> e.s.h[e.item].next]
<1>0. \A f, m : IsClean(f, s, pid, m) <=> f = [n \in 0 .. m |-> IF n = 0 THEN first ELSE After(f[n - 1])]
  BY DEF IsClean
<1> HIDE DEF first, After
<1>1. 0 \in T
  <2> DEFINE f == [n \in 0 .. 0 |-> first]
  <2>1. IsClean(f, s, pid, 0)
    <3>1. \A n \in 0 .. 0 : n = 0
      OBVIOUS
    <3>2. f = [n \in 0 .. 0 |-> IF n = 0 THEN first ELSE After(f[n - 1])]
      BY <3>1
    <3> HIDE DEF f
    <3> QED
      BY <3>2, <1>0
  <2> QED
    BY <2>1
<1>2. ASSUME NEW m \in Nat, m \in T PROVE m + 1 \in T
  <2>1. PICK g : IsClean(g, s, pid, m)
    BY <1>2
  <2> DEFINE f == [n \in 0 .. m + 1 |-> IF n = m + 1 THEN After(g[m]) ELSE g[n]]
  <2>2. \A n \in 0 .. m + 1 : f[n] = IF n = 0 THEN first ELSE After(f[n - 1])
    <3>1. \A n \in 0 .. m : g[n] = IF n = 0 THEN first ELSE After(g[n - 1])
      BY <2>1, <1>0
    <3>2. \A n \in 0 .. m : f[n] = g[n]
      OBVIOUS
    <3>3. f[m + 1] = After(f[m])
      BY <3>2
    <3> HIDE DEF f
    <3> QED
      BY <3>1, <3>2, <3>3
  <2>3. IsClean(f, s, pid, m + 1)
    BY <2>2, <1>0
  <2> HIDE DEF f
  <2> QED
    BY <2>3
<1>3. \A m \in Nat : m \in T
  <2> HIDE DEF T
  <2> QED
    BY <1>1, <1>2, ByInduction
<1> QED
  BY <1>3

\* clean_heap starts at the head of the allocated list and goes from item to item.
LEMMA CleanSteps ==
  ASSUME NEW s, NEW pid
  PROVE  /\ Clean(s, pid)[0].s = s /\ Clean(s, pid)[0].item = s.alloc
         /\ \A n \in 0 .. HEAP_SIZE - 1 :
              /\ Clean(s, pid)[n].item = NULL => Clean(s, pid)[n + 1] = Clean(s, pid)[n]
              /\ Clean(s, pid)[n].item # NULL =>
                   /\ Clean(s, pid)[n + 1].s = bios_free(Clean(s, pid)[n].s, Clean(s, pid)[n].item, pid)
                   /\ Clean(s, pid)[n + 1].item = Clean(s, pid)[n].s.h[Clean(s, pid)[n].item].next
<1> DEFINE at == Clean(s, pid)
           After(e) == IF e.item = NULL THEN e
                       ELSE [s |-> bios_free(e.s, e.item, pid), item |-> e.s.h[e.item].next]
<1>1. \E f : IsClean(f, s, pid, HEAP_SIZE)
  BY CleanExists, HeapAssumption
<1>2. at = CHOOSE f : IsClean(f, s, pid, HEAP_SIZE)
  BY DEF Clean, IsClean
<1>3. IsClean(at, s, pid, HEAP_SIZE)
  BY <1>1, <1>2
<1> HIDE DEF at
<1>4. \A n \in 0 .. HEAP_SIZE :
        at[n] = IF n = 0 THEN [s |-> s, item |-> s.alloc] ELSE After(at[n - 1])
  BY <1>3 DEF IsClean
<1>5. at[0] = [s |-> s, item |-> s.alloc]
  <2>1. 0 \in 0 .. HEAP_SIZE
    BY HeapAssumption
  <2> HIDE DEF After
  <2> QED
    BY <2>1, <1>4
<1>6. ASSUME NEW n \in 0 .. HEAP_SIZE - 1 PROVE at[n + 1] = After(at[n])
  <2>1. n + 1 \in 0 .. HEAP_SIZE /\ n + 1 # 0 /\ (n + 1) - 1 = n
    BY HeapAssumption
  <2> HIDE DEF After
  <2> QED
    BY <2>1, <1>4
<1>7. at[0].s = s /\ at[0].item = s.alloc
  BY <1>5
<1>8. ASSUME NEW n \in 0 .. HEAP_SIZE - 1
      PROVE  /\ at[n].item = NULL => at[n + 1] = at[n]
             /\ at[n].item # NULL => /\ at[n + 1].s = bios_free(at[n].s, at[n].item, pid)
                                     /\ at[n + 1].item = at[n].s.h[at[n].item].next
  <2>1. at[n + 1] = IF at[n].item = NULL THEN at[n]
                    ELSE [s |-> bios_free(at[n].s, at[n].item, pid),
                          item |-> at[n].s.h[at[n].item].next]
    BY <1>6
  <2> QED
    BY <2>1
<1>9. \A n \in 0 .. HEAP_SIZE - 1 :
        /\ at[n].item = NULL => at[n + 1] = at[n]
        /\ at[n].item # NULL => /\ at[n + 1].s = bios_free(at[n].s, at[n].item, pid)
                                /\ at[n + 1].item = at[n].s.h[at[n].item].next
  BY <1>8
<1> QED
  BY <1>7, <1>9 DEF at

\* The items clean_heap leaves when it has come to c, and how it leaves them.
ToGo(s, L, r, pid, c) == {b \in L : s.h[b].owner # pid \/ (c # NULL /\ r[c] <= r[b])}

CleanSoFar(s, L, r, pid, x, c) ==
  LET M == ToGo(s, L, r, pid, c) IN
  /\ c \in L \cup {NULL}
  /\ \E G \in SUBSET Addr : Shape(x, G, M, r, {})
  /\ Owned(x.h, M)
  /\ \A z \in M : x.h[z].owner = s.h[z].owner /\ x.h[z].size = s.h[z].size
  /\ \A z \in L : c # NULL /\ r[c] <= r[z] => x.h[z].next = s.h[z].next

LEMMA CleanStep ==
  ASSUME NEW s, NEW L \in SUBSET Addr, NEW r \in Ranks, Listed(s.h, s.alloc, L, r),
         NEW pid \in Pids, NEW x, NEW c, CleanSoFar(s, L, r, pid, x, c), c # NULL,
         NEW y, y = bios_free(x, c, pid), NEW d, d = x.h[c].next
  PROVE  CleanSoFar(s, L, r, pid, y, d) /\ d = s.h[c].next
<1> DEFINE M == ToGo(s, L, r, pid, c)
           N == ToGo(s, L, r, pid, d)
<1>0. \A z \in L : r[z] \in Int /\ z # NULL
  BY DEF Ranks, Addr
<1>1. /\ c \in L /\ c \in M /\ M \subseteq L /\ Owned(x.h, M)
      /\ \A z \in M : x.h[z].owner = s.h[z].owner /\ x.h[z].size = s.h[z].size
      /\ \A z \in L : r[c] <= r[z] => x.h[z].next = s.h[z].next
  BY <1>0 DEF CleanSoFar, ToGo
<1>2. PICK G \in SUBSET Addr : Shape(x, G, M, r, {})
  BY DEF CleanSoFar
<1>3. d = s.h[c].next /\ d \in L \cup {NULL}
  BY <1>0, <1>1 DEF Listed
<1>4. \A b \in L : r[c] <= r[b] /\ b # c <=> d # NULL /\ r[d] <= r[b]
  <2>1. \A b \in L : r[c] = r[b] => b = c
    BY <1>1 DEF Listed
  <2>2. CASE d = NULL
    <3>1. \A b \in L : r[b] <= r[c]
      BY <2>2, <1>1, <1>3 DEF Listed
    <3> QED
      BY <3>1, <2>1, <2>2, <1>0, <1>1
  <2>3. CASE d # NULL
    <3>1. r[c] < r[d] /\ \A b \in L : r[b] <= r[c] \/ r[d] <= r[b]
      BY <2>3, <1>1, <1>3 DEF Listed
    <3>2. d \in L
      BY <2>3, <1>3
    <3> QED
      BY <3>1, <3>2, <2>1, <2>3, <1>0, <1>1
  <2> QED
    BY <2>2, <2>3
<1> HIDE DEF M
<1>5. /\ Frees(x, c, pid) <=> c \in M /\ x.h[c].owner = pid
      /\ \E H \in SUBSET Addr : Shape(y, H, Left(x, M, c, pid), r, {})
      /\ Owned(y.h, Left(x, M, c, pid))
      /\ \A z \in Left(x, M, c, pid) :
           /\ y.h[z].owner = x.h[z].owner /\ y.h[z].size = x.h[z].size
           /\ y.h[z].next = IF Frees(x, c, pid) /\ x.h[z].next = c THEN x.h[c].next ELSE x.h[z].next
  <2>1. c \in Addr
    BY <1>1
  <2> QED
    BY <2>1, <1>1, <1>2, BiosFreeSound
<1>6. Left(x, M, c, pid) = N
  <2>1. \A b \in L : b \in N <=> s.h[b].owner # pid \/ (r[c] <= r[b] /\ b # c)
    BY <1>4 DEF ToGo
  <2>2. \A b \in L : b \in M <=> s.h[b].owner # pid \/ r[c] <= r[b]
    BY DEF M, ToGo
  <2>3. N \subseteq L
    BY DEF ToGo
  <2>4. Frees(x, c, pid) <=> s.h[c].owner = pid
    BY <1>1, <1>5
  <2> HIDE DEF N
  <2>5. CASE s.h[c].owner = pid
    <3>1. Left(x, M, c, pid) = M \ {c}
      BY <2>4, <2>5 DEF Left
    <3>2. \A b \in L : b \in N <=> b \in M \ {c}
      BY <2>1, <2>2, <2>5
    <3> QED
      BY <3>1, <3>2, <2>3, <1>1
  <2>6. CASE s.h[c].owner # pid
    <3>1. Left(x, M, c, pid) = M
      BY <2>4, <2>6 DEF Left
    <3>2. \A b \in L : b \in N <=> b \in M
      BY <2>1, <2>2, <2>6
    <3> QED
      BY <3>1, <3>2, <2>3, <1>1
  <2> QED
    BY <2>5, <2>6
<1>7. N \subseteq M
  BY <1>6 DEF Left
<1>8. \A z \in N : y.h[z].owner = s.h[z].owner /\ y.h[z].size = s.h[z].size
  BY <1>1, <1>5, <1>6, <1>7
<1>9. ASSUME NEW z \in L, d # NULL, r[d] <= r[z] PROVE y.h[z].next = s.h[z].next
  <2>1. r[c] <= r[z] /\ z # c
    BY <1>4, <1>9
  <2>2. z \in N
    BY <1>9 DEF ToGo
  <2>3. x.h[z].next = s.h[z].next
    BY <2>1, <1>1
  <2>4. s.h[z].next # c
    <3>1. SUFFICES ASSUME s.h[z].next = c PROVE FALSE
      OBVIOUS
    <3>2. r[z] < r[c]
      BY <3>1 DEF Listed
    <3> QED
      BY <3>2, <2>1, <1>0, <1>1
  <2> HIDE DEF N
  <2> QED
    BY <2>2, <2>3, <2>4, <1>5, <1>6
<1>10. /\ \E H \in SUBSET Addr : Shape(y, H, N, r, {})
       /\ Owned(y.h, N)
  BY <1>5, <1>6
<1>11. CleanSoFar(s, L, r, pid, y, d)
  BY <1>3, <1>8, <1>9, <1>10 DEF CleanSoFar
<1> QED
  BY <1>3, <1>11

(***************************************************************************)
(* When a process ends, clean_heap frees its items and leaves the others   *)
(* where they are and as big as they are.                                  *)
(***************************************************************************)
Others(s, L, pid) == {b \in L : s.h[b].owner # pid}

CleanedFrom(s, t, L, r, pid) ==
  /\ \E G \in SUBSET Addr : Shape(t, G, Others(s, L, pid), r, {})
  /\ Owned(t.h, Others(s, L, pid))
  /\ \A z \in Others(s, L, pid) : t.h[z].owner = s.h[z].owner /\ t.h[z].size = s.h[z].size

LEMMA CleanHeapSound ==
  ASSUME NEW s, NEW F, NEW L, NEW r \in Ranks, Shape(s, F, L, r, {}), Owned(s.h, L),
         NEW pid \in Pids, NEW t, t = clean_heap(s, pid)
  PROVE  CleanedFrom(s, t, L, r, pid)
<1> DEFINE at == Clean(s, pid)
           w == Walk(s.h, s.alloc)
           T == {n \in Nat : n \in 0 .. HEAP_SIZE =>
                   CleanSoFar(s, L, r, pid, at[n].s, at[n].item) /\ at[n].item = w[n]}
<1>1. /\ L \in SUBSET Addr /\ F \in SUBSET Addr /\ Listed(s.h, s.alloc, L, r) /\ HEAP_SIZE \in Nat
      /\ \A z \in L : r[z] \in Int /\ z # NULL
  BY HeapAssumption DEF Shape, Tiles, Ranks, Addr
<1>2. /\ w[0] = s.alloc /\ w[HEAP_SIZE] = NULL
      /\ \A n \in 1 .. HEAP_SIZE : w[n] = IF w[n - 1] = NULL THEN NULL ELSE s.h[w[n - 1]].next
  <2>1. w[HEAP_SIZE] = NULL
    BY ONLY <1>1, r \in Ranks, WalkMeetsAll
  <2> QED
    BY <2>1, WalkSteps
<1>3. /\ at[0].s = s /\ at[0].item = s.alloc
      /\ \A n \in 0 .. HEAP_SIZE - 1 :
           /\ at[n].item = NULL => at[n + 1] = at[n]
           /\ at[n].item # NULL => /\ at[n + 1].s = bios_free(at[n].s, at[n].item, pid)
                                   /\ at[n + 1].item = at[n].s.h[at[n].item].next
  BY CleanSteps
<1>4. t = at[HEAP_SIZE].s
  BY DEF clean_heap
<1> HIDE DEF at, w
<1>5. 0 \in T
  <2>1. ToGo(s, L, r, pid, s.alloc) = L
    BY <1>1 DEF ToGo, Listed
  <2>2. s.alloc \in L \cup {NULL}
    BY <1>1 DEF Listed
  <2>3. CleanSoFar(s, L, r, pid, s, s.alloc)
    BY <2>1, <2>2, <1>1 DEF CleanSoFar
  <2> QED
    BY <2>3, <1>2, <1>3
<1>6. ASSUME NEW n \in Nat, n \in T PROVE n + 1 \in T
  <2>1. SUFFICES ASSUME n + 1 \in 0 .. HEAP_SIZE
                 PROVE  /\ CleanSoFar(s, L, r, pid, at[n + 1].s, at[n + 1].item)
                        /\ at[n + 1].item = w[n + 1]
    OBVIOUS
  <2>2. n \in 0 .. HEAP_SIZE - 1 /\ n \in 0 .. HEAP_SIZE /\ n + 1 \in 1 .. HEAP_SIZE /\ (n + 1) - 1 = n
    BY <2>1, <1>1
  <2>3. CleanSoFar(s, L, r, pid, at[n].s, at[n].item) /\ at[n].item = w[n]
    BY <2>2, <1>6
  <2>4. w[n + 1] = IF w[n] = NULL THEN NULL ELSE s.h[w[n]].next
    BY <2>2, <1>2
  <2>5. CASE at[n].item = NULL
    BY <2>2, <2>3, <2>4, <2>5, <1>3
  <2>6. CASE at[n].item # NULL
    <3>1. /\ at[n + 1].s = bios_free(at[n].s, at[n].item, pid)
          /\ at[n + 1].item = at[n].s.h[at[n].item].next
      BY <2>2, <2>6, <1>3
    <3>2. /\ CleanSoFar(s, L, r, pid, at[n + 1].s, at[n + 1].item)
          /\ at[n + 1].item = s.h[at[n].item].next
      BY ONLY <3>1, <2>3, <2>6, <1>1, r \in Ranks, pid \in Pids, CleanStep
    <3> QED
      BY <3>2, <2>3, <2>4, <2>6
  <2> QED
    BY <2>5, <2>6
<1>7. \A n \in Nat : n \in T
  <2> HIDE DEF T
  <2> QED
    BY <1>5, <1>6, ByInduction
<1>8. CleanSoFar(s, L, r, pid, t, NULL)
  <2>1. HEAP_SIZE \in 0 .. HEAP_SIZE
    BY <1>1
  <2> QED
    BY <2>1, <1>1, <1>2, <1>4, <1>7
<1>9. ToGo(s, L, r, pid, NULL) = Others(s, L, pid)
  BY DEF ToGo, Others
<1> QED
  BY <1>8, <1>9 DEF CleanSoFar, CleanedFrom

-----------------------------------------------------------------------------
(* The inductive invariant.                                                *)

\* Every allocated item is held by one caller, as its owner and with the room asked for.
HeldBy(h, L, H) ==
  /\ \A x \in H : x.item \in L /\ h[x.item].owner = x.pid /\ h[x.item].size >= x.size
  /\ \A a \in L : \E x \in H : x.item = a
  /\ \A x, y \in H : x.item = y.item => x = y

Sound(s, H, F, L, r) == Shape(s, F, L, r, {}) /\ Owned(s.h, L) /\ HeldBy(s.h, L, H)

SomeSound(s, H) == \E F \in SUBSET Addr, L \in SUBSET Addr, r \in Ranks : Sound(s, H, F, L, r)

IInv == TypeOK /\ (~damaged => SomeSound(heap, held))

LEMMA ShapeTyped ==
  ASSUME NEW s, NEW F, NEW L, NEW r, Shape(s, F, L, r, {})
  PROVE  /\ s.h \in [Addr \cup {NULL} -> Header]
         /\ s.free \in Addr \cup {NULL} /\ s.alloc \in Addr \cup {NULL}
         /\ s.nfree \in 0 .. HEAP_SIZE /\ s.nalloc \in 0 .. HEAP_SIZE
<1>1. s \in HeapRec /\ F \in SUBSET Addr /\ L \in SUBSET Addr
      /\ s.nfree = Cardinality(F) /\ s.nalloc = Cardinality(L)
  BY DEF Shape, Tiles
<1>2. Cardinality(F) \in 0 .. HEAP_SIZE /\ Cardinality(L) \in 0 .. HEAP_SIZE
  BY <1>1, AddressesFinite
<1> QED
  BY <1>1, <1>2 DEF HeapRec, Mem, A0

LEMMA SomeSoundTyped ==
  ASSUME NEW s, NEW H, SomeSound(s, H)
  PROVE  /\ s.h \in [Addr \cup {NULL} -> Header]
         /\ s.free \in Addr \cup {NULL} /\ s.alloc \in Addr \cup {NULL}
         /\ s.nfree \in 0 .. HEAP_SIZE /\ s.nalloc \in 0 .. HEAP_SIZE
BY ShapeTyped DEF SomeSound, Sound

LEMMA InitSound == Init => IInv
<1> SUFFICES ASSUME Init PROVE IInv
  OBVIOUS
<1> DEFINE F == {HEAP_START}
           g == heap.h
<1>1. HEAP_START \in Addr /\ NULL \notin Addr /\ NOBODY \notin Pids
      /\ BiggestPayload \in 0 .. HEAP_SIZE /\ HEAP_START + HEADER + BiggestPayload = HEAP_END
  BY HeapAssumption DEF Addr, BiggestPayload
<1>2. /\ heap.free = HEAP_START /\ heap.alloc = NULL /\ heap.nfree = 1 /\ heap.nalloc = 0
      /\ g = [a \in A0 |-> CASE a = NULL -> [Blank EXCEPT !.prev = VECTOR]
                             [] a = HEAP_START -> [Blank EXCEPT !.sig = TRUE, !.size = BiggestPayload]
                             [] OTHER -> Blank]
      /\ heap = [h |-> g, free |-> HEAP_START, alloc |-> NULL, nfree |-> 1, nalloc |-> 0]
      /\ held = {} /\ damaged = FALSE
  BY DEF Init, A0
<1> HIDE DEF g
<1>3. /\ g[NULL] = [Blank EXCEPT !.prev = VECTOR]
      /\ g[HEAP_START] = [Blank EXCEPT !.sig = TRUE, !.size = BiggestPayload]
      /\ \A a \in Addr \ {HEAP_START} : g[a] = Blank
  BY <1>1, <1>2 DEF A0
<1>4. Blank \in Header /\ g[NULL] \in Header /\ g[HEAP_START] \in Header
  <2>1. NOBODY \in Pids \cup {NOBODY} /\ NULL \in Addr \cup {NULL}
        /\ NULL \in Addr \cup {NULL, VECTOR} /\ VECTOR \in Addr \cup {NULL, VECTOR}
        /\ 0 \in 0 .. HEAP_SIZE /\ TRUE \in BOOLEAN /\ FALSE \in BOOLEAN
    BY HeapAssumption
  <2>2. Blank = [sig |-> FALSE, size |-> 0, owner |-> NOBODY, next |-> NULL, prev |-> NULL]
    BY DEF Blank
  <2>3. g[NULL] = [sig |-> FALSE, size |-> 0, owner |-> NOBODY, next |-> NULL, prev |-> VECTOR]
    BY <1>3 DEF Blank
  <2>4. g[HEAP_START]
          = [sig |-> TRUE, size |-> BiggestPayload, owner |-> NOBODY, next |-> NULL, prev |-> NULL]
    BY <1>3 DEF Blank
  <2>5. Blank \in Header
    BY <2>1, <2>2 DEF Header
  <2>6. g[NULL] \in Header
    BY <2>1, <2>3 DEF Header
  <2>7. g[HEAP_START] \in Header
    BY <1>1, <2>1, <2>4 DEF Header
  <2> QED
    BY <2>5, <2>6, <2>7
<1>5. /\ g[HEAP_START].sig = TRUE /\ g[HEAP_START].size = BiggestPayload
      /\ g[HEAP_START].owner = NOBODY /\ g[HEAP_START].next = NULL /\ g[HEAP_START].prev = NULL
      /\ \A a \in Addr \ {HEAP_START} : g[a].owner = NOBODY /\ g[a].prev = NULL
  BY <1>3 DEF Blank
<1>6. g \in Mem
  <2>1. \A a \in A0 : g[a] \in Header
    BY <1>3, <1>4 DEF A0
  <2>2. g \in [A0 -> Header]
    BY <2>1, <1>2
  <2>3. \A a \in Addr : g[a].prev \in A0
    BY <1>5 DEF A0
  <2> QED
    BY <2>2, <2>3 DEF Mem
<1>7. heap \in HeapRec
  BY <1>1, <1>2, <1>6 DEF HeapRec, A0
<1>8. Tiles(g, F \cup {} \cup {})
  BY <1>1, <1>5 DEF Tiles, End
<1>9. Listed(g, HEAP_START, F, ByAddress) /\ Listed(g, NULL, {}, ByAddress)
  BY <1>1, <1>5, ByAddressRanks DEF Listed
<1>10. LinkedBack(g, NULL, {}) /\ NoFalseLink(g, F, {})
  BY <1>5 DEF LinkedBack, NoFalseLink
<1>11. Cardinality(F) = 1 /\ Cardinality({}) = 0
  <2>1. IsFiniteSet({}) /\ Cardinality({}) = 0 /\ HEAP_START \notin {}
    BY FS_EmptySet
  <2>2. Cardinality({} \cup {HEAP_START}) = Cardinality({}) + 1
    BY ONLY <2>1, FS_AddElement
  <2>3. {} \cup {HEAP_START} = F
    OBVIOUS
  <2> QED
    BY <2>1, <2>2, <2>3
<1>12. \A a \in F : g[a].sig
  BY <1>5
<1>13. Shape(heap, F, {}, ByAddress, {})
  BY <1>2, <1>7, <1>8, <1>9, <1>10, <1>11, <1>12 DEF Shape, g
<1>14. Owned(heap.h, {}) /\ HeldBy(heap.h, {}, held)
  BY <1>1, <1>2, <1>5 DEF Owned, HeldBy, g
<1>15. TypeOK
  BY <1>2, <1>13, ShapeTyped DEF TypeOK
<1>16. F \in SUBSET Addr /\ {} \in SUBSET Addr /\ ByAddress \in Ranks
  BY <1>1, ByAddressRanks
<1> QED
  BY <1>13, <1>14, <1>15, <1>16 DEF IInv, SomeSound, Sound

LEMMA MallocKeeps ==
  ASSUME NEW n \in Sizes, NEW pid \in Pids, Malloc(n, pid), IInv
  PROVE  IInv'
<1> DEFINE a == FirstFit(heap, n)
           x == [item |-> a, size |-> n, pid |-> pid]
<1>1. /\ ~damaged /\ a # NULL /\ heap' = Allocate(heap, a, n, pid)
      /\ damaged' = ~LinkedFrom(heap.h, a, heap.free) /\ held' = held \cup {x}
  BY DEF Malloc
<1>2. PICK F \in SUBSET Addr, L \in SUBSET Addr, r \in Ranks : Sound(heap, held, F, L, r)
  BY <1>1 DEF IInv, SomeSound
<1>3. Shape(heap, F, L, r, {}) /\ Owned(heap.h, L) /\ HeldBy(heap.h, L, held)
  BY <1>2 DEF Sound
<1>4. a \in F /\ heap.h[a].size >= n
  BY ONLY <1>1, <1>3, FirstFitFits
<1>5. a \in Addr /\ a \notin L /\ n \in Nat /\ NOBODY \notin Pids /\ Addr \subseteq A0
  BY <1>3, <1>4, HeapAssumption DEF Shape, A0
<1> HIDE DEF a
<1>6. /\ heap' \in HeapRec /\ heap'.nfree \in 0 .. HEAP_SIZE /\ heap'.nalloc \in 0 .. HEAP_SIZE
      /\ LinkedFrom(heap.h, a, heap.free) =>
           /\ \E G \in SUBSET Addr, q \in Ranks : Shape(heap', G, L \cup {a}, q, {})
           /\ heap'.h[a].owner = pid /\ heap'.h[a].size >= n
           /\ \A z \in L : heap'.h[z].owner = heap.h[z].owner /\ heap'.h[z].size = heap.h[z].size
           /\ \A z \in Addr \ (L \cup {a}) : heap'.h[z].owner \in {heap.h[z].owner, NOBODY}
  BY <1>1, <1>3, <1>4, <1>5, AllocateSound
<1>7. x.item = a /\ x.size = n /\ x.pid = pid /\ x \in [item: Addr, size: Sizes, pid: Pids]
  BY <1>5
<1> HIDE DEF x
<1>8. TypeOK'
  <2>1. /\ heap'.h \in [Addr \cup {NULL} -> Header]
        /\ heap'.free \in Addr \cup {NULL} /\ heap'.alloc \in Addr \cup {NULL}
    BY <1>6 DEF HeapRec, Mem, A0
  <2>2. held' \subseteq [item: Addr, size: Sizes, pid: Pids]
    BY <1>1, <1>7 DEF IInv, TypeOK
  <2>3. damaged' \in BOOLEAN
    BY <1>1
  <2> QED
    BY <2>1, <2>2, <2>3, <1>6 DEF TypeOK
<1>9. ASSUME ~damaged' PROVE SomeSound(heap', held')
  <2>1. LinkedFrom(heap.h, a, heap.free)
    BY <1>1, <1>9
  <2>2. PICK G \in SUBSET Addr, q \in Ranks : Shape(heap', G, L \cup {a}, q, {})
    BY <1>6, <2>1
  <2>3. /\ heap'.h[a].owner = pid /\ heap'.h[a].size >= n
        /\ \A z \in L : heap'.h[z].owner = heap.h[z].owner /\ heap'.h[z].size = heap.h[z].size
        /\ \A z \in Addr \ (L \cup {a}) : heap'.h[z].owner \in {heap.h[z].owner, NOBODY}
    BY <1>6, <2>1
  <2>4. Owned(heap'.h, L \cup {a})
    BY <2>3, <1>3, <1>5 DEF Owned
  <2>5. HeldBy(heap'.h, L \cup {a}, held')
    <3>1. \A y \in held : /\ y.item \in L /\ y.item # a
                          /\ heap'.h[y.item].owner = y.pid /\ heap'.h[y.item].size >= y.size
      BY <1>3, <1>5, <2>3 DEF HeldBy
    <3>2. \A y \in held' : /\ y.item \in L \cup {a}
                           /\ heap'.h[y.item].owner = y.pid /\ heap'.h[y.item].size >= y.size
      BY <3>1, <1>7, <2>3, <1>1
    <3>3. \A b \in L \cup {a} : \E y \in held' : y.item = b
      BY <1>7, <1>1, <1>3 DEF HeldBy
    <3>4. \A y, z \in held' : y.item = z.item => y = z
      BY <1>7, <3>1, <1>1, <1>3 DEF HeldBy
    <3> QED
      BY <3>2, <3>3, <3>4 DEF HeldBy
  <2>6. L \cup {a} \in SUBSET Addr
    BY <1>5
  <2> QED
    BY <2>2, <2>4, <2>5, <2>6 DEF Sound, SomeSound
<1> QED
  BY <1>8, <1>9 DEF IInv

LEMMA FreeKeeps ==
  ASSUME NEW a \in Addr, NEW pid \in Pids, Free(a, pid), IInv
  PROVE  IInv'
<1>1. /\ ~damaged /\ heap' = bios_free(heap, a, pid)
      /\ damaged' = (Frees(heap, a, pid) /\ ~LinkedFrom(heap.h, a, heap.alloc))
      /\ held' = {x \in held : ~(x.item = a /\ x.pid = pid)}
  BY DEF Free
<1>2. PICK F \in SUBSET Addr, L \in SUBSET Addr, r \in Ranks : Sound(heap, held, F, L, r)
  BY <1>1 DEF IInv, SomeSound
<1>3. Shape(heap, F, L, r, {}) /\ Owned(heap.h, L) /\ HeldBy(heap.h, L, held)
  BY <1>2 DEF Sound
<1> DEFINE M == Left(heap, L, a, pid)
<1>4. /\ Frees(heap, a, pid) <=> a \in L /\ heap.h[a].owner = pid
      /\ \E G \in SUBSET Addr : Shape(heap', G, M, r, {})
      /\ Owned(heap'.h, M)
      /\ \A z \in M :
           /\ heap'.h[z].owner = heap.h[z].owner /\ heap'.h[z].size = heap.h[z].size
           /\ heap'.h[z].next = IF Frees(heap, a, pid) /\ heap.h[z].next = a THEN heap.h[a].next
                                ELSE heap.h[z].next
  BY <1>1, <1>3, BiosFreeSound
<1>5. M = {z \in L : ~(z = a /\ heap.h[a].owner = pid)}
  BY <1>4 DEF Left
<1>6. PICK G \in SUBSET Addr : Shape(heap', G, M, r, {})
  BY <1>4
<1>7. M \in SUBSET Addr
  BY <1>2, <1>5
<1> HIDE DEF M
<1>8. HeldBy(heap'.h, M, held')
  <2>1. \A x \in held' : x \in held /\ x.item \in L /\ heap.h[x.item].owner = x.pid
    BY <1>1, <1>3 DEF HeldBy
  <2>2. \A x \in held' : x.item \in M
    BY <2>1, <1>1, <1>5
  <2>3. \A x \in held' : heap'.h[x.item].owner = x.pid /\ heap'.h[x.item].size >= x.size
    BY <2>1, <2>2, <1>3, <1>4 DEF HeldBy
  <2>4. \A b \in M : \E x \in held' : x.item = b
    <3> TAKE b \in M
    <3>1. b \in L /\ ~(b = a /\ heap.h[a].owner = pid)
      BY <1>5
    <3>2. PICK x \in held : x.item = b
      BY <3>1, <1>3 DEF HeldBy
    <3>3. heap.h[x.item].owner = x.pid
      BY <1>3 DEF HeldBy
    <3> QED
      BY <3>1, <3>2, <3>3, <1>1
  <2>5. \A x, y \in held' : x.item = y.item => x = y
    BY <2>1, <1>3 DEF HeldBy
  <2> QED
    BY <2>2, <2>3, <2>4, <2>5 DEF HeldBy
<1>9. SomeSound(heap', held')
  BY <1>4, <1>6, <1>7, <1>8 DEF SomeSound, Sound
<1>10. TypeOK'
  <2>1. held' \subseteq [item: Addr, size: Sizes, pid: Pids]
    BY <1>1 DEF IInv, TypeOK
  <2>2. damaged' \in BOOLEAN
    BY <1>1
  <2> QED
    BY <1>9, <2>1, <2>2, SomeSoundTyped DEF TypeOK
<1> QED
  BY <1>9, <1>10 DEF IInv

LEMMA ExitKeeps ==
  ASSUME NEW pid \in Pids, Exit(pid), IInv
  PROVE  IInv'
<1>1. /\ ~damaged /\ heap' = clean_heap(heap, pid) /\ damaged' = damaged
      /\ held' = {x \in held : x.pid # pid}
  BY DEF Exit
<1>2. PICK F \in SUBSET Addr, L \in SUBSET Addr, r \in Ranks : Sound(heap, held, F, L, r)
  BY <1>1 DEF IInv, SomeSound
<1>3. Shape(heap, F, L, r, {}) /\ Owned(heap.h, L) /\ HeldBy(heap.h, L, held)
  BY <1>2 DEF Sound
<1> DEFINE M == Others(heap, L, pid)
<1>4. CleanedFrom(heap, heap', L, r, pid)
  BY ONLY <1>1, <1>3, r \in Ranks, pid \in Pids, CleanHeapSound
<1>5. /\ \E G \in SUBSET Addr : Shape(heap', G, M, r, {})
      /\ Owned(heap'.h, M)
      /\ \A z \in M : heap'.h[z].owner = heap.h[z].owner /\ heap'.h[z].size = heap.h[z].size
  BY <1>4 DEF CleanedFrom
<1>6. PICK G \in SUBSET Addr : Shape(heap', G, M, r, {})
  BY <1>5
<1>7. M = {b \in L : heap.h[b].owner # pid} /\ M \in SUBSET Addr
  BY <1>2 DEF Others
<1> HIDE DEF M
<1>8. HeldBy(heap'.h, M, held')
  <2>1. \A x \in held' : x \in held /\ x.item \in M
    BY <1>1, <1>3, <1>7 DEF HeldBy
  <2>2. \A x \in held' : heap'.h[x.item].owner = x.pid /\ heap'.h[x.item].size >= x.size
    BY <2>1, <1>3, <1>5 DEF HeldBy
  <2>3. \A b \in M : \E x \in held' : x.item = b
    BY <1>1, <1>3, <1>7 DEF HeldBy
  <2>4. \A x, y \in held' : x.item = y.item => x = y
    BY <2>1, <1>3 DEF HeldBy
  <2> QED
    BY <2>1, <2>2, <2>3, <2>4 DEF HeldBy
<1>9. SomeSound(heap', held')
  BY <1>5, <1>6, <1>7, <1>8 DEF SomeSound, Sound
<1>10. TypeOK'
  <2>1. held' \subseteq [item: Addr, size: Sizes, pid: Pids]
    BY <1>1 DEF IInv, TypeOK
  <2>2. damaged' \in BOOLEAN
    BY <1>1 DEF IInv, TypeOK
  <2> QED
    BY <1>9, <2>1, <2>2, SomeSoundTyped DEF TypeOK
<1> QED
  BY <1>9, <1>10 DEF IInv

LEMMA StepKeeps == IInv /\ [Next]_vars => IInv'
<1>1. CASE Next
  BY <1>1, MallocKeeps, FreeKeeps, ExitKeeps DEF Next
<1>2. CASE UNCHANGED vars
  BY <1>2 DEF vars, IInv, TypeOK
<1> QED
  BY <1>1, <1>2

\* In every reachable state that is not damaged, some ranking of the items makes the heap a sound one
\* (heap.c's malloc, free and clean_heap keep it so).
THEOREM Inductive == Spec => []IInv
BY InitSound, StepKeeps, PTL DEF Spec

-----------------------------------------------------------------------------
(* What holds of a sound heap.                                             *)

LEMMA SoundTiles ==
  ASSUME IInv PROVE Tiling
<1> SUFFICES ASSUME ~damaged
             PROVE  /\ FreeItems \cap AllocatedItems = {}
                    /\ HEAP_START \in FreeItems \cup AllocatedItems
                    /\ \A a \in FreeItems \cup AllocatedItems :
                         End(heap.h, a) \in (FreeItems \cup AllocatedItems) \cup {HEAP_END}
                    /\ \A a, b \in FreeItems \cup AllocatedItems :
                         ~(a < b /\ b < End(heap.h, a))
                    /\ heap.nfree = Cardinality(FreeItems)
                    /\ heap.nalloc = Cardinality(AllocatedItems)
  BY DEF Tiling
<1>1. PICK F \in SUBSET Addr, L \in SUBSET Addr, r \in Ranks : Sound(heap, held, F, L, r)
  BY DEF IInv, SomeSound
<1>2. Shape(heap, F, L, r, {})
  BY <1>1 DEF Sound
<1>3. FreeItems = F /\ AllocatedItems = L
  BY <1>2, ListsOf DEF FreeItems, AllocatedItems
<1>4. F \cup L \cup {} = F \cup L
  OBVIOUS
<1> QED
  BY <1>2, <1>3, <1>4 DEF Shape, Tiles

\* There are as many holdings as there are items held.
LEMMA HeldCounted ==
  ASSUME NEW h, NEW L \in SUBSET Addr, NEW H, HeldBy(h, L, H)
  PROVE  L = {x.item : x \in H} /\ Cardinality(L) = Cardinality(H)
<1>1. /\ \A x \in H : x.item \in L
      /\ \A a \in L : \E x \in H : x.item = a
      /\ \A x, y \in H : x.item = y.item => x = y
  BY DEF HeldBy
<1> DEFINE f == [a \in L |-> CHOOSE x \in H : x.item = a]
<1>2. \A a \in L : f[a] \in H /\ f[a].item = a
  BY <1>1
<1>3. f \in [L -> H]
  BY <1>2
<1> HIDE DEF f
<1>4. f \in Injection(L, H)
  BY <1>2, <1>3 DEF Injection, IsInjective
<1>5. f \in Surjection(L, H)
  <2>1. \A x \in H : f[x.item] = x /\ x.item \in L
    BY <1>1, <1>2
  <2> QED
    BY <2>1, <1>3 DEF Surjection
<1>6. ExistsBijection(L, H)
  BY <1>4, <1>5 DEF ExistsBijection, Bijection
<1>7. IsFiniteSet(L)
  BY AddressesFinite
<1> QED
  BY <1>1, <1>6, <1>7, FS_Bijection

LEMMA SoundServes ==
  ASSUME IInv PROVE CallersServed
<1> SUFFICES ASSUME ~damaged
             PROVE  /\ AllocatedItems = {x.item : x \in held}
                    /\ Cardinality(AllocatedItems) = Cardinality(held)
                    /\ \A x \in held : /\ heap.h[x.item].owner = x.pid
                                       /\ heap.h[x.item].size >= x.size
  BY DEF CallersServed
<1>1. PICK F \in SUBSET Addr, L \in SUBSET Addr, r \in Ranks : Sound(heap, held, F, L, r)
  BY DEF IInv, SomeSound
<1>2. Shape(heap, F, L, r, {}) /\ HeldBy(heap.h, L, held)
  BY <1>1 DEF Sound
<1>3. AllocatedItems = L
  BY <1>2, ListsOf DEF AllocatedItems
<1>4. L = {x.item : x \in held} /\ Cardinality(L) = Cardinality(held)
  BY <1>2, HeldCounted
<1> QED
  BY <1>2, <1>3, <1>4 DEF HeldBy

LEMMA SoundFrees ==
  ASSUME IInv PROVE FreesWhatIsHeld
<1> SUFFICES ASSUME ~damaged, NEW a \in Addr, NEW pid \in Pids
             PROVE  Frees(heap, a, pid) <=> \E x \in held : x.item = a /\ x.pid = pid
  BY DEF FreesWhatIsHeld
<1>1. PICK F \in SUBSET Addr, L \in SUBSET Addr, r \in Ranks : Sound(heap, held, F, L, r)
  BY DEF IInv, SomeSound
<1>2. Shape(heap, F, L, r, {}) /\ Owned(heap.h, L) /\ HeldBy(heap.h, L, held)
  BY <1>1 DEF Sound
<1>3. Frees(heap, a, pid) <=> a \in L /\ heap.h[a].owner = pid
  BY <1>2, BiosFreeSound
<1> QED
  BY <1>2, <1>3 DEF HeldBy

LEMMA SoundReclaims ==
  ASSUME IInv PROVE ExitReclaims
<1> SUFFICES ASSUME ~damaged, NEW pid \in Pids
             PROVE  AllocatedItemsOf(clean_heap(heap, pid))
                      = {a \in AllocatedItems : heap.h[a].owner # pid}
  BY DEF ExitReclaims
<1>1. PICK F \in SUBSET Addr, L \in SUBSET Addr, r \in Ranks : Sound(heap, held, F, L, r)
  BY DEF IInv, SomeSound
<1>2. Shape(heap, F, L, r, {}) /\ Owned(heap.h, L)
  BY <1>1 DEF Sound
<1>3. AllocatedItems = L
  BY <1>2, ListsOf DEF AllocatedItems
<1> DEFINE t == clean_heap(heap, pid)
<1>4. CleanedFrom(heap, t, L, r, pid)
  BY ONLY <1>2, r \in Ranks, pid \in Pids, CleanHeapSound
<1> HIDE DEF t
<1>5. PICK G \in SUBSET Addr : Shape(t, G, Others(heap, L, pid), r, {})
  BY <1>4 DEF CleanedFrom
<1>6. AllocatedItemsOf(t) = Others(heap, L, pid)
  BY <1>5, ListsOf
<1> QED
  BY <1>3, <1>6 DEF Others, t

LEMMA SoundSorted ==
  ASSUME IInv, ~damaged PROVE FreeListSound
<1>1. PICK F \in SUBSET Addr, L \in SUBSET Addr, r \in Ranks : Sound(heap, held, F, L, r)
  BY DEF IInv, SomeSound
<1>2. Shape(heap, F, L, r, {}) /\ Owned(heap.h, L)
  BY <1>1 DEF Sound
<1>3. F \in SUBSET Addr /\ ByAddress \in Ranks /\ Listed(heap.h, heap.free, F, ByAddress)
      /\ \A a \in F : a \notin L
  BY <1>2, ByAddressRanks DEF Shape
<1> DEFINE at == Walk(heap.h, heap.free)
<1>4. /\ \A i \in 0 .. HEAP_SIZE : at[i] \in F \cup {NULL}
      /\ \A i \in 0 .. HEAP_SIZE : at[i] # NULL =>
           \A j \in 0 .. i - 1 : at[j] \in F /\ ByAddress[at[j]] < ByAddress[at[i]]
  BY ONLY <1>3, WalkInOrder
<1> HIDE DEF at
<1>5. \A a \in F : heap.h[a].owner = NOBODY
  BY <1>2, <1>3 DEF Owned, IInv, TypeOK, Header
<1>6. \A i \in 0 .. HEAP_SIZE : at[i] # NULL =>
        heap.h[at[i]].owner = NOBODY /\ \A j \in 0 .. i - 1 : at[j] < at[i]
  BY <1>3, <1>4, <1>5, ByAddressRanks
<1> QED
  BY <1>6 DEF FreeListSound, SoundFreeList, at

\* An allocated item is linked from where its prev field says.
LEMMA AllocatedLinked ==
  ASSUME IInv, ~damaged, NEW a \in Addr, NEW pid \in Pids, Frees(heap, a, pid)
  PROVE  LinkedFrom(heap.h, a, heap.alloc)
<1>1. PICK F \in SUBSET Addr, L \in SUBSET Addr, r \in Ranks : Sound(heap, held, F, L, r)
  BY DEF IInv, SomeSound
<1>2. Shape(heap, F, L, r, {}) /\ Owned(heap.h, L)
  BY <1>1 DEF Sound
<1>3. a \in L
  BY <1>2, BiosFreeSound
<1> QED
  BY <1>2, <1>3 DEF Shape, LinkedBack, LinkedFrom

LEMMA SoundSigned ==
  ASSUME IInv, ~damaged PROVE \A a \in FreeItems \cup AllocatedItems : is_valid_item(heap.h, a)
<1>1. PICK F \in SUBSET Addr, L \in SUBSET Addr, r \in Ranks : Sound(heap, held, F, L, r)
  BY DEF IInv, SomeSound
<1>2. Shape(heap, F, L, r, {})
  BY <1>1 DEF Sound
<1>3. FreeItems = F /\ AllocatedItems = L
  BY <1>2, ListsOf DEF FreeItems, AllocatedItems
<1> QED
  BY <1>2, <1>3 DEF Shape, is_valid_item, Addr

-----------------------------------------------------------------------------
(* The theorems.                                                           *)

(***************************************************************************)
(* Every header in memory stays a header, whatever the calls, damaged or   *)
(* not, and the heads and the counters stay in their ranges.               *)
(***************************************************************************)
THEOREM TypeCorrect == Spec => []TypeOK
<1>1. IInv => TypeOK
  BY DEF IInv
<1> QED
  BY <1>1, Inductive, PTL

(***************************************************************************)
(* Until an item is unlinked through a stale link, the two lists tile the  *)
(* heap, however malloc splits items and free_item merges them: no two     *)
(* callers share memory, none is lost, and the counters are the lengths.   *)
(***************************************************************************)
THEOREM HeapTiled == Spec => []Tiling
BY SoundTiles, Inductive, PTL

(***************************************************************************)
(* As long, the allocated items are those the callers hold, each with its  *)
(* owner and at least the size asked of malloc.                            *)
(***************************************************************************)
THEOREM CallersServedAlways == Spec => []CallersServed
BY SoundServes, Inductive, PTL

(***************************************************************************)
(* As long, free acts on exactly what its caller holds: not on an item     *)
(* freed before, merged into another since or handed to another process.   *)
(***************************************************************************)
THEOREM OnlyHeldFreed == Spec => []FreesWhatIsHeld
BY SoundFrees, Inductive, PTL

(***************************************************************************)
(* As long, clean_heap reclaims every item of the process that ends and no *)
(* other, though each free changes the list it walks.                      *)
(***************************************************************************)
THEOREM ExitReclaimsAll == Spec => []ExitReclaims
BY SoundReclaims, Inductive, PTL

(***************************************************************************)
(* The free list is sorted and holds free items until the first unlinking  *)
(* through a stale link: what the run heap_stale_link shows can begin only *)
(* there.                                                                  *)
(***************************************************************************)
THEOREM SortedUntilDamaged == Spec => [](~damaged => FreeListSound)
BY SoundSorted, Inductive, PTL

(***************************************************************************)
(* Until then every item of either list has its signature: the test of     *)
(* each item that bios_malloc passes (heap.c 325-329) never fails, which   *)
(* is why FirstFit leaves it out.                                          *)
(***************************************************************************)
THEOREM ItemsSigned ==
  Spec => [](~damaged => \A a \in FreeItems \cup AllocatedItems : is_valid_item(heap.h, a))
BY SoundSigned, Inductive, PTL

(***************************************************************************)
(* Only malloc unlinks through a stale link: free takes items off the      *)
(* allocated list, all of whose links lead back.                           *)
(***************************************************************************)
THEOREM OnlyMallocDamages ==
  Spec => [][damaged' => \E n \in Sizes, pid \in Pids : Malloc(n, pid)]_vars
<1>1. ASSUME IInv, [Next]_vars, vars' # vars, damaged'
      PROVE  \E n \in Sizes, pid \in Pids : Malloc(n, pid)
  <2>1. ASSUME NEW a \in Addr, NEW pid \in Pids, Free(a, pid) PROVE FALSE
    BY <1>1, <2>1, AllocatedLinked DEF Free
  <2>2. ASSUME NEW pid \in Pids, Exit(pid) PROVE FALSE
    BY <1>1, <2>2 DEF Exit
  <2> QED
    BY <1>1, <2>1, <2>2 DEF Next
<1>2. IInv /\ [Next]_vars => [damaged' => \E n \in Sizes, pid \in Pids : Malloc(n, pid)]_vars
  BY <1>1
<1> QED
  BY <1>2, Inductive, PTL DEF Spec
=============================================================================
