------------------------- MODULE PsumCollectorProofs -------------------------
(***************************************************************************)
(* Proofs about PsumCollector, for every depth and every set of contexts   *)
(* and corrupted tags, and the contexts of its run: its words are          *)
(* accounted for, and it implements CollectOrder.  The argument follows a  *)
(* word: the columns hold the words that the waiting contexts still need,  *)
(* in order (Flow), and the return slot and the packet slots hold those    *)
(* between the last packet handed over and the last word read (Pipe).      *)
(***************************************************************************)
EXTENDS PsumCollector, SequenceTheorems, TLAPS

-----------------------------------------------------------------------------
(* Contexts and their words in the columns *)

\* The words that can stand in a column.
Tags == {OwnTag(c, n) : c \in Descriptor, n \in Nat} \cup CorruptTags
Words == [context : Descriptor, index : Nat, tag : Tags]

\* The word after word n of the k-th context is the next one of the context,
\* or the first one of the context behind.
After(W, k, n) ==
  IF n + 1 < Pixels(W[k]) THEN [k |-> k, n |-> n + 1] ELSE [k |-> k + 1, n |-> 0]

Before(p, q) == p.k < q.k \/ (p.k = q.k /\ p.n < q.n)

Place == [k : Nat \ {0}, n : Nat]

\* The columns hold the words from the next that is read to the next that
\* arrives.  W are the contexts waiting, K those of them whose words have not
\* all arrived; from and to are the places of these words among W's.
Lined(W, from, C, to, at) ==
  /\ at \in [1 .. Len(C) + 1 -> Place]
  /\ at[1] = from /\ at[Len(C) + 1] = to
  /\ \A i \in 1 .. Len(C) :
       /\ at[i].k <= Len(W) /\ at[i].n < Pixels(W[at[i].k])
       /\ at[i + 1] = After(W, at[i].k, at[i].n)
       /\ C[i].context = W[at[i].k] /\ C[i].index = at[i].n
  /\ \A i, j \in 1 .. Len(C) + 1 : i < j => Before(at[i], at[j])

\* The contexts whose words come are the last that wait.
Coming(W, K, a) ==
  /\ Len(K) <= Len(W)
  /\ \A j \in 1 .. Len(K) : K[j] = W[Len(W) - Len(K) + j]
  /\ IF K = <<>> THEN a = 0 ELSE a < Pixels(K[1])

Arriving(W, K, a) == [k |-> Len(W) - Len(K) + 1, n |-> a]

InOrder(W, from, C, K, a) ==
  /\ Coming(W, K, a)
  /\ \E at \in [1 .. Len(C) + 1 -> Place] : Lined(W, from, C, Arriving(W, K, a), at)

\* Every context has a word.
LEMMA PixelsPositive ==
  ASSUME NEW c \in Descriptor PROVE Pixels(c) \in 1 .. AddrMod
BY DescriptorAssumption, AddrAssumption DEF Pixels

\* The order of places.
LEMMA Transitive ==
  ASSUME NEW p \in Place, NEW q \in Place, NEW r \in Place, Before(p, q), Before(q, r)
  PROVE  Before(p, r)
BY DEF Before, Place

\* The first word of the columns is read.
LEMMA ReadInOrder ==
  ASSUME NEW W \in Seq(Descriptor), NEW C \in Seq(Words), NEW K \in Seq(Descriptor),
         NEW a \in Nat, NEW from \in Place, InOrder(W, from, C, K, a), C # <<>>
  PROVE  /\ from.k <= Len(W) /\ from.n < Pixels(W[from.k])
         /\ C[1].context = W[from.k] /\ C[1].index = from.n
         /\ InOrder(W, After(W, from.k, from.n), Tail(C), K, a)
<1> PICK at \in [1 .. Len(C) + 1 -> Place] : Lined(W, from, C, Arriving(W, K, a), at)
  BY DEF InOrder
<1>1. Len(C) \in Nat \ {0} /\ Tail(C) \in Seq(Words) /\ Len(Tail(C)) = Len(C) - 1
  OBVIOUS
<1>2. \A i \in 1 .. Len(Tail(C)) : Tail(C)[i] = C[i + 1]
  OBVIOUS
<1> DEFINE to == Arriving(W, K, a)
           next == [i \in 1 .. Len(Tail(C)) + 1 |-> at[i + 1]]
<1>3. next \in [1 .. Len(Tail(C)) + 1 -> Place]
  BY <1>1
<1>4. next[1] = After(W, from.k, from.n) /\ next[Len(Tail(C)) + 1] = to
  BY <1>1 DEF Lined
<1>5. Lined(W, After(W, from.k, from.n), Tail(C), to, next)
  <2>1. \A i \in 1 .. Len(Tail(C)) :
          /\ next[i] = at[i + 1] /\ next[i + 1] = at[i + 2] /\ Tail(C)[i] = C[i + 1]
          /\ i + 1 \in 1 .. Len(C) /\ i + 1 + 1 = i + 2
    BY <1>1, <1>2
  <2>2. \A i \in 1 .. Len(Tail(C)) + 1 : next[i] = at[i + 1] /\ i + 1 \in 1 .. Len(C) + 1
    BY <1>1
  <2> HIDE DEF next
  <2>3. \A i, j \in 1 .. Len(Tail(C)) + 1 : i < j => Before(next[i], next[j])
    BY <2>2 DEF Lined
  <2>4. \A i \in 1 .. Len(Tail(C)) :
          /\ next[i].k <= Len(W) /\ next[i].n < Pixels(W[next[i].k])
          /\ next[i + 1] = After(W, next[i].k, next[i].n)
          /\ Tail(C)[i].context = W[next[i].k] /\ Tail(C)[i].index = next[i].n
    BY <2>1 DEF Lined
  <2> QED BY <1>3, <1>4, <2>3, <2>4 DEF Lined
<1>6. 1 \in 1 .. Len(C)
  BY <1>1
<1> QED BY <1>3, <1>5, <1>6 DEF Lined, InOrder

\* The next word arrives.
LEMMA ArriveInOrder ==
  ASSUME NEW W \in Seq(Descriptor), NEW C \in Seq(Words), NEW K \in Seq(Descriptor),
         NEW a \in Nat, NEW from \in Place, InOrder(W, from, C, K, a), K # <<>>,
         NEW word \in Words, word.context = K[1], word.index = a
  PROVE  IF a + 1 = Pixels(K[1]) THEN InOrder(W, from, Append(C, word), Tail(K), 0)
         ELSE InOrder(W, from, Append(C, word), K, a + 1)
<1> PICK at \in [1 .. Len(C) + 1 -> Place] : Lined(W, from, C, Arriving(W, K, a), at)
  BY DEF InOrder
<1> DEFINE D == Append(C, word)
           L == IF a + 1 = Pixels(K[1]) THEN Tail(K) ELSE K
           b == IF a + 1 = Pixels(K[1]) THEN 0 ELSE a + 1
           here == Arriving(W, K, a)
           to == Arriving(W, L, b)
           next == [i \in 1 .. Len(D) + 1 |-> IF i = Len(D) + 1 THEN to ELSE at[i]]
<1>1. /\ Len(C) \in Nat /\ D \in Seq(Words) /\ Len(D) = Len(C) + 1
      /\ \A i \in 1 .. Len(C) : D[i] = C[i]
      /\ D[Len(C) + 1] = word
  OBVIOUS
<1>2. /\ Len(K) \in Nat \ {0} /\ Len(W) \in Nat /\ Len(K) <= Len(W)
      /\ L \in Seq(Descriptor) /\ b \in Nat /\ K[1] \in Descriptor
      /\ Pixels(K[1]) \in Nat \ {0} /\ a < Pixels(K[1])
      /\ W[Len(W) - Len(K) + 1] = K[1]
  BY PixelsPositive, AddrAssumption DEF InOrder, Coming
<1>3. Coming(W, L, b)
  <2>1. CASE a + 1 = Pixels(K[1])
    <3>1. Len(L) = Len(K) - 1 /\ \A j \in 1 .. Len(L) : L[j] = K[j + 1]
      BY <2>1, <1>2
    <3>2. L # <<>> => 0 < Pixels(L[1])
      <4>1. L # <<>> => L[1] \in Descriptor
        BY <1>2
      <4> QED BY <4>1, PixelsPositive
    <3> QED BY <2>1, <1>2, <3>1, <3>2 DEF Coming, InOrder
  <2>2. CASE a + 1 # Pixels(K[1])
    BY <2>2, <1>2 DEF Coming, InOrder
  <2> QED BY <2>1, <2>2
<1>4. to = After(W, here.k, here.n) /\ here \in Place /\ to \in Place
  <2>1. here.k = Len(W) - Len(K) + 1 /\ here.n = a
    BY DEF Arriving
  <2>2. CASE a + 1 = Pixels(K[1])
    BY <2>1, <2>2, <1>2 DEF Arriving, After, Place
  <2>3. CASE a + 1 # Pixels(K[1])
    BY <2>1, <2>3, <1>2 DEF Arriving, After, Place
  <2> QED BY <2>2, <2>3
<1>5. Before(here, to)
  <2>1. here.k = Len(W) - Len(K) + 1 /\ here.n = a
    BY DEF Arriving
  <2> QED BY <1>2, <1>4, <2>1 DEF Before, After
<1>6. /\ here.k <= Len(W) /\ here.n < Pixels(W[here.k])
      /\ word.context = W[here.k] /\ word.index = here.n
  BY <1>2 DEF Arriving
<1> HIDE DEF D, L, b, here, to
<1>7. next \in [1 .. Len(D) + 1 -> Place]
  BY <1>1, <1>4
<1>8. Lined(W, from, C, here, at)
  BY DEF here
<1>9. /\ next[1] = from /\ next[Len(D) + 1] = to /\ next[Len(D)] = here
      /\ \A i \in 1 .. Len(C) + 1 : next[i] = at[i]
  BY <1>1, <1>8 DEF Lined
<1>10. \A i \in 1 .. Len(D) :
         /\ next[i].k <= Len(W) /\ next[i].n < Pixels(W[next[i].k])
         /\ next[i + 1] = After(W, next[i].k, next[i].n)
         /\ D[i].context = W[next[i].k] /\ D[i].index = next[i].n
  <2> SUFFICES ASSUME NEW i \in 1 .. Len(D)
               PROVE  /\ next[i].k <= Len(W) /\ next[i].n < Pixels(W[next[i].k])
                      /\ next[i + 1] = After(W, next[i].k, next[i].n)
                      /\ D[i].context = W[next[i].k] /\ D[i].index = next[i].n
    OBVIOUS
  <2> HIDE DEF next
  <2>1. CASE i = Len(D)
    BY <1>1, <1>4, <1>6, <1>9, <2>1
  <2>2. CASE i # Len(D)
    <3>1. i \in 1 .. Len(C) /\ i + 1 \in 1 .. Len(C) + 1 /\ i \in 1 .. Len(C) + 1
      BY <1>1, <2>2
    <3> QED BY <1>1, <1>8, <1>9, <3>1 DEF Lined
  <2> QED BY <2>1, <2>2
<1>11. \A i, j \in 1 .. Len(D) + 1 : i < j => Before(next[i], next[j])
  <2> SUFFICES ASSUME NEW i \in 1 .. Len(D) + 1, NEW j \in 1 .. Len(D) + 1, i < j
               PROVE  Before(next[i], next[j])
    OBVIOUS
  <2> HIDE DEF next
  <2>0. i \in 1 .. Len(C) + 1 /\ next[i] = at[i] /\ next[i] \in Place
    <3>1. i \in 1 .. Len(C) + 1
      BY <1>1
    <3> QED BY <1>9, <3>1
  <2>1. CASE j = Len(D) + 1
    <3>1. next[i] = here \/ Before(next[i], here)
      BY <1>1, <1>8, <2>0 DEF Lined
    <3>2. next[j] = to
      BY <1>9, <2>1
    <3>4. Before(next[i], to)
      <4>1. next[i] = here => Before(next[i], to)
        BY <1>5
      <4>2. Before(next[i], here) => Before(next[i], to)
        BY <1>4, <1>5, <2>0, Transitive
      <4> QED BY <3>1, <4>1, <4>2
    <3> QED BY <3>2, <3>4
  <2>2. CASE j # Len(D) + 1
    <3>1. j \in 1 .. Len(C) + 1
      BY <1>1, <2>2
    <3> QED BY <1>8, <1>9, <2>0, <3>1 DEF Lined
  <2> QED BY <2>1, <2>2
<1>12. Lined(W, from, D, to, next)
  BY <1>7, <1>9, <1>10, <1>11 DEF Lined
<1>13. InOrder(W, from, D, L, b)
  BY <1>3, <1>7, <1>12 DEF InOrder, to
<1> QED BY <1>13 DEF D, L, b

\* A context is admitted.
LEMMA AdmitInOrder ==
  ASSUME NEW W \in Seq(Descriptor), NEW C \in Seq(Words), NEW K \in Seq(Descriptor),
         NEW a \in Nat, NEW from \in Place, InOrder(W, from, C, K, a), NEW c \in Descriptor
  PROVE  InOrder(Append(W, c), from, C, Append(K, c), a)
<1> PICK at \in [1 .. Len(C) + 1 -> Place] : Lined(W, from, C, Arriving(W, K, a), at)
  BY DEF InOrder
<1> DEFINE V == Append(W, c)
           L == Append(K, c)
<1>1. /\ Len(V) = Len(W) + 1 /\ Len(L) = Len(K) + 1
      /\ Len(W) \in Nat /\ Len(K) \in Nat
      /\ \A i \in 1 .. Len(W) : V[i] = W[i]
      /\ \A i \in 1 .. Len(K) : L[i] = K[i]
      /\ V[Len(W) + 1] = c /\ L[Len(K) + 1] = c
  OBVIOUS
<1>2. Coming(W, K, a)
  BY DEF InOrder
<1>3. (K = <<>> <=> Len(K) = 0) /\ L # <<>> /\ Pixels(c) > 0
  <2>1. Pixels(c) > 0
    BY PixelsPositive, AddrAssumption
  <2>2. (K = <<>> <=> Len(K) = 0) /\ L # <<>>
    OBVIOUS
  <2> QED BY <2>1, <2>2
<1> HIDE DEF V, L
<1>4. Coming(V, L, a)
  <2>1. Len(L) <= Len(V)
    BY <1>1, <1>2 DEF Coming
  <2>2. ASSUME NEW j \in 1 .. Len(L) PROVE L[j] = V[Len(V) - Len(L) + j]
    <3>1. Len(V) - Len(L) + j = Len(W) - Len(K) + j
      BY <1>1
    <3>2. CASE j = Len(K) + 1
      BY <1>1, <3>1, <3>2
    <3>3. CASE j # Len(K) + 1
      <4>1. j \in 1 .. Len(K) /\ Len(W) - Len(K) + j \in 1 .. Len(W)
        BY <1>1, <1>2, <3>3 DEF Coming
      <4> QED BY <1>1, <1>2, <3>1, <4>1 DEF Coming
    <3> QED BY <3>2, <3>3
  <2>3. a < Pixels(L[1])
    BY <1>1, <1>2, <1>3 DEF Coming
  <2> QED BY <1>3, <2>1, <2>2, <2>3 DEF Coming
<1>5. Arriving(V, L, a) = Arriving(W, K, a)
  BY <1>1 DEF Arriving
<1>6. \A i \in 1 .. Len(C) : at[i].k \in 1 .. Len(W) /\ V[at[i].k] = W[at[i].k]
  <2> SUFFICES ASSUME NEW i \in 1 .. Len(C)
               PROVE  at[i].k \in 1 .. Len(W) /\ V[at[i].k] = W[at[i].k]
    OBVIOUS
  <2>1. at[i].k <= Len(W)
    BY DEF Lined
  <2>2. i \in 1 .. Len(C) + 1
    OBVIOUS
  <2>3. at[i] \in Place
    BY <2>2
  <2> QED BY <1>1, <2>1, <2>3 DEF Place
<1>7. Lined(V, from, C, Arriving(V, L, a), at)
  <2>1. \A i \in 1 .. Len(C) :
          /\ at[i].k <= Len(V) /\ at[i].n < Pixels(V[at[i].k])
          /\ at[i + 1] = After(V, at[i].k, at[i].n)
          /\ C[i].context = V[at[i].k] /\ C[i].index = at[i].n
    <3> SUFFICES ASSUME NEW i \in 1 .. Len(C)
                 PROVE  /\ at[i].k <= Len(V) /\ at[i].n < Pixels(V[at[i].k])
                        /\ at[i + 1] = After(V, at[i].k, at[i].n)
                        /\ C[i].context = V[at[i].k] /\ C[i].index = at[i].n
      OBVIOUS
    <3>1. V[at[i].k] = W[at[i].k] /\ at[i].k <= Len(V)
      BY <1>1, <1>6
    <3>2. After(V, at[i].k, at[i].n) = After(W, at[i].k, at[i].n)
      BY <3>1 DEF After
    <3> QED BY <3>1, <3>2 DEF Lined
  <2> QED BY <1>5, <2>1 DEF Lined
<1> QED BY <1>4, <1>7 DEF InOrder, V, L

\* The first context is complete, all of its words read.
LEMMA CompleteInOrder ==
  ASSUME NEW W \in Seq(Descriptor), NEW C \in Seq(Words), NEW K \in Seq(Descriptor),
         NEW a \in Nat, W # <<>>, InOrder(W, [k |-> 2, n |-> 0], C, K, a)
  PROVE  InOrder(Tail(W), [k |-> 1, n |-> 0], C, K, a)
<1> DEFINE from == [k |-> 2, n |-> 0]
           V == Tail(W)
<1> PICK at \in [1 .. Len(C) + 1 -> Place] : Lined(W, from, C, Arriving(W, K, a), at)
  BY DEF InOrder
<1> DEFINE next == [i \in 1 .. Len(C) + 1 |-> [k |-> at[i].k - 1, n |-> at[i].n]]
<1>1. /\ Len(W) \in Nat \ {0} /\ Len(V) = Len(W) - 1 /\ Len(K) \in Nat /\ Len(C) \in Nat
      /\ \A i \in 1 .. Len(V) : V[i] = W[i + 1]
  OBVIOUS
<1> HIDE DEF V
<1>2. \A i \in 1 .. Len(C) + 1 : at[i] \in Place /\ at[i].k >= 2
  <2> SUFFICES ASSUME NEW i \in 1 .. Len(C) + 1 PROVE at[i] \in Place /\ at[i].k >= 2
    OBVIOUS
  <2>1. at[i] \in Place /\ at[1].k = 2
    BY DEF Lined
  <2>2. i = 1 \/ Before(at[1], at[i])
    BY <1>1 DEF Lined
  <2> QED BY <2>1, <2>2 DEF Before, Place
<1>3. at[Len(C) + 1].k = Len(W) - Len(K) + 1 /\ at[Len(C) + 1].n = a
  BY DEF Lined, Arriving
<1>4. Len(K) <= Len(V)
  BY <1>1, <1>2, <1>3
<1>5. Coming(V, K, a)
  <2>1. \A j \in 1 .. Len(K) : K[j] = V[Len(V) - Len(K) + j]
    <3> SUFFICES ASSUME NEW j \in 1 .. Len(K) PROVE K[j] = V[Len(V) - Len(K) + j]
      OBVIOUS
    <3>1. K[j] = W[Len(W) - Len(K) + j]
      BY DEF InOrder, Coming
    <3>2. Len(V) - Len(K) + j \in 1 .. Len(V)
            /\ Len(V) - Len(K) + j + 1 = Len(W) - Len(K) + j
      BY <1>1, <1>4
    <3> QED BY <1>1, <3>1, <3>2
  <2> QED BY <1>4, <2>1 DEF InOrder, Coming
<1>6. next \in [1 .. Len(C) + 1 -> Place]
  <2>1. \A i \in 1 .. Len(C) + 1 : [k |-> at[i].k - 1, n |-> at[i].n] \in Place
    BY <1>2 DEF Place
  <2> QED BY <2>1
<1>7. next[1] = [k |-> 1, n |-> 0] /\ next[Len(C) + 1] = Arriving(V, K, a)
  <2>1. at[1] = from
    BY DEF Lined
  <2> QED BY <1>1, <1>3, <2>1 DEF Arriving
<1>8. \A i \in 1 .. Len(C) :
        /\ next[i].k <= Len(V) /\ next[i].n < Pixels(V[next[i].k])
        /\ next[i + 1] = After(V, next[i].k, next[i].n)
        /\ C[i].context = V[next[i].k] /\ C[i].index = next[i].n
  <2> SUFFICES ASSUME NEW i \in 1 .. Len(C)
               PROVE  /\ next[i].k <= Len(V) /\ next[i].n < Pixels(V[next[i].k])
                      /\ next[i + 1] = After(V, next[i].k, next[i].n)
                      /\ C[i].context = V[next[i].k] /\ C[i].index = next[i].n
    OBVIOUS
  <2>1. /\ at[i].k <= Len(W) /\ at[i].n < Pixels(W[at[i].k])
        /\ at[i + 1] = After(W, at[i].k, at[i].n)
        /\ C[i].context = W[at[i].k] /\ C[i].index = at[i].n
    BY DEF Lined
  <2>2. at[i] \in Place /\ at[i].k >= 2 /\ at[i + 1] \in Place
    BY <1>1, <1>2
  <2>3. /\ next[i] = [k |-> at[i].k - 1, n |-> at[i].n]
        /\ next[i + 1] = [k |-> at[i + 1].k - 1, n |-> at[i + 1].n]
    BY <1>1
  <2> HIDE DEF next
  <2>4. next[i].k = at[i].k - 1 /\ next[i].n = at[i].n /\ at[i].k \in Nat
    BY <2>2, <2>3 DEF Place
  <2>5. V[next[i].k] = W[at[i].k] /\ next[i].k <= Len(V)
    BY <1>1, <2>1, <2>2, <2>4
  <2>6. next[i + 1] = After(V, next[i].k, next[i].n)
    <3>1. After(V, next[i].k, next[i].n) =
            IF at[i].n + 1 < Pixels(W[at[i].k])
            THEN [k |-> at[i].k - 1, n |-> at[i].n + 1] ELSE [k |-> at[i].k, n |-> 0]
      BY <2>4, <2>5 DEF After
    <3> QED BY <2>1, <2>3, <2>4, <3>1 DEF After
  <2> QED BY <2>1, <2>4, <2>5, <2>6
<1>9. \A i, j \in 1 .. Len(C) + 1 : i < j => Before(next[i], next[j])
  <2> SUFFICES ASSUME NEW i \in 1 .. Len(C) + 1, NEW j \in 1 .. Len(C) + 1, i < j
               PROVE  Before(next[i], next[j])
    OBVIOUS
  <2>1. Before(at[i], at[j]) /\ at[i] \in Place /\ at[j] \in Place
    BY <1>2 DEF Lined
  <2>2. /\ next[i] = [k |-> at[i].k - 1, n |-> at[i].n]
        /\ next[j] = [k |-> at[j].k - 1, n |-> at[j].n]
    OBVIOUS
  <2> QED BY <2>1, <2>2 DEF Before, Place
<1>10. Lined(V, [k |-> 1, n |-> 0], C, Arriving(V, K, a), next)
  BY <1>6, <1>7, <1>8, <1>9 DEF Lined
<1> QED BY <1>5, <1>6, <1>10 DEF InOrder, V

-----------------------------------------------------------------------------
(* The inductive invariant *)

Typed ==
  /\ TypeOK
  /\ ctx_queue \in Seq(Descriptor) /\ coming \in Seq(Descriptor) /\ arrived \in Nat
  /\ columns \in Seq(Words) /\ rd_word \in Words
  /\ packet_data_q \in [{0, 1} -> Words]

Open == active /\ ~tag_mismatch_sticky

\* The word in the return slot is the last one read; the packets in the slots
\* are those behind the last one handed over, at the places that the pointers
\* name.
Returned ==
  return_valid_q =>
    /\ rd_count > 0 /\ return_addr_q = rd_count - 1
    /\ rd_word.context = active_ctx /\ rd_word.index = rd_count - 1

Slot(p, n) == packet_addr_q[p] = n /\ packet_data_q[p] = Word(active_ctx, n)

Slots ==
  /\ packet_wr_ptr_q = (packet_rd_ptr_q + packet_count_q) % 2
  /\ packet_count_q # 0 => Slot(packet_rd_ptr_q, out_count)
  /\ packet_count_q = 2 => Slot(1 - packet_rd_ptr_q, out_count + 1)
  /\ packet_count_q # 0 => packet_head_addr_q = out_count
  /\ rd_count # 0 => packet_ctx = active_ctx

Counted ==
  /\ rd_count = out_count + packet_count_q + (IF return_valid_q THEN 1 ELSE 0)
  /\ active => rd_count <= Pixels(active_ctx)

Closed == packet_count_q = 0 /\ ~return_valid_q

Pipe ==
  /\ active => rd_count <= Pixels(active_ctx)
  /\ Open => Counted /\ Returned /\ Slots
  /\ ~Open => Closed

NextRead ==
  IF active /\ rd_count < Pixels(active_ctx) THEN [k |-> 1, n |-> rd_count]
  ELSE IF active THEN [k |-> 2, n |-> 0] ELSE [k |-> 1, n |-> 0]

Flow == InOrder(Waiting, NextRead, columns, coming, arrived)

CInv == Typed /\ Pipe /\ Flow

\* What an edge may be given.
Given(in) ==
  /\ in.enable \in BOOLEAN /\ in.ctx_valid \in BOOLEAN /\ in.arrives \in BOOLEAN
  /\ in.packet_ready \in BOOLEAN /\ in.ctx \in Descriptor
  /\ ~in.enable => Waiting = <<>> /\ columns = <<>>

\* The inputs of an edge are what the parties may give.
LEMMA Choices == \A in \in Inputs \cup Quiet : Given(in)
<1>1. Unknown \in Descriptor
  BY DescriptorAssumption DEF Unknown
<1>2. \A in \in Inputs : Given(in)
  BY DEF Inputs, Given
<1>3. \A in \in Quiet : Given(in)
  BY <1>1 DEF Quiet, Given
<1> QED BY <1>2, <1>3

\* What an edge does, by what the collector is at: it takes a context up, it
\* is idle, it completes one, or it goes on with one.
LEMMA Phases ==
  ASSUME Typed, Pipe, NEW in, Given(in)
  PROVE  \/ /\ ~active /\ activates(in) /\ ~completes(in) /\ ~advances(in) /\ clears(in)
         \/ /\ ~active /\ ~activates(in) /\ ~completes(in) /\ ~advances(in)
         \/ /\ active /\ in.enable /\ Open /\ completes(in) /\ ~activates(in)
            /\ ~advances(in) /\ clears(in)
         \/ /\ active /\ in.enable /\ ~completes(in) /\ ~activates(in)
            /\ advances(in) /\ ~clears(in)
<1>1. active => in.enable
  BY DEF Given, Waiting
<1> QED
  BY <1>1 DEF activates, completes, advances, clears, completing_packet, packet_pop,
    packet_valid, Open, Pipe, Closed, Given, Typed, TypeOK

\* Going on with a context: a word may be read, one may move from the return
\* slot into a packet slot, a packet may be handed over.
LEMMA Advance ==
  ASSUME Typed, Pipe, Flow, NEW in, Given(in), Edge(in), active, advances(in), ~clears(in),
         ~activates(in), ~completes(in)
  PROVE  Pipe'
<1> DEFINE push == IF packet_queue_push THEN 1 ELSE 0
           pop == IF packet_pop(in) THEN 1 ELSE 0
           read == IF issue_read(in) THEN 1 ELSE 0
<1>0. /\ TypeOK /\ in.enable
      /\ packet_count_q \in 0 .. 2 /\ rd_count \in Nat /\ out_count \in Nat
      /\ packet_rd_ptr_q \in {0, 1} /\ packet_wr_ptr_q \in {0, 1}
      /\ Pixels(active_ctx) \in 1 .. AddrMod /\ AddrMod \in Nat
  BY PixelsPositive, AddrAssumption DEF Typed, TypeOK, advances
<1>1. /\ active' = TRUE /\ active_ctx' = active_ctx
      /\ rd_count' = rd_count + read /\ out_count' = out_count + pop
  <2>1. active' = (activates(in) \/ advances(in))
    BY DEF Edge, ContextEdge
  <2>2. active' = TRUE
    BY <2>1
  <2>3. /\ active_ctx' = active_ctx
        /\ rd_count' = rd_count + read /\ out_count' = out_count + pop
    BY <1>0 DEF Edge, ContextEdge
  <2> QED BY <2>2, <2>3
<1>2. rd_count' <= Pixels(active_ctx')
  BY <1>0, <1>1 DEF Pipe, issue_read, read_needed, pixels_to_collect
<1>3. CASE tag_mismatch_sticky
  <2>1. /\ tag_mismatch_sticky' /\ Closed /\ ~issue_read(in) /\ ~packet_pop(in)
        /\ ~packet_queue_push /\ ~bad_tag_return(in)
    BY <1>3 DEF Edge, DoneEdge, Pipe, Open, Closed, issue_read, read_needed, packet_pop,
      packet_valid, packet_queue_push, return_advance, bad_tag_return
  <2>2. packet_count_q' = 0 /\ ~return_valid_q'
    BY <1>0, <2>1 DEF Edge, PacketEdge, Closed
  <2> QED BY <1>1, <1>2, <2>1, <2>2 DEF Pipe, Open, Closed
<1>4. CASE ~tag_mismatch_sticky /\ bad_tag_return(in)
  <2>1. tag_mismatch_sticky' /\ packet_count_q' = 0 /\ ~return_valid_q'
    BY <1>4 DEF Edge, DoneEdge, PacketEdge
  <2> QED BY <1>1, <1>2, <2>1 DEF Pipe, Open, Closed
<1>5. CASE ~tag_mismatch_sticky /\ ~bad_tag_return(in)
  <2>1. /\ Open /\ Counted /\ Returned /\ Slots /\ ~tag_mismatch_sticky'
    BY <1>5 DEF Edge, DoneEdge, Pipe, Open
  <2>2. return_valid_q => return_tag_ok
    BY <1>0, <1>5 DEF bad_tag_return
  <2>3. /\ packet_queue_push <=> return_valid_q /\ packet_count_q < 2
        /\ return_advance <=> return_valid_q /\ packet_count_q < 2
        /\ return_slot_released <=> ~return_valid_q \/ packet_count_q < 2
        /\ packet_pop(in) => packet_count_q # 0
        /\ issue_read(in) => return_slot_released /\ columns # <<>>
    BY <2>2 DEF packet_queue_push, return_advance, packet_queue_has_space,
      return_slot_released, packet_pop, packet_valid, issue_read, columns_ready
  <2>4. /\ return_valid_q' = IF return_slot_released THEN issue_read(in) ELSE return_valid_q
        /\ packet_count_q' = packet_count_q + push - pop
        /\ packet_rd_ptr_q' = (packet_rd_ptr_q + pop) % 2
        /\ packet_wr_ptr_q' = IF return_advance THEN 1 - packet_wr_ptr_q ELSE packet_wr_ptr_q
        /\ packet_head_addr_q' = HeadAddrNext(in)
        /\ packet_ctx' = active_ctx
    BY <1>5 DEF Edge, PacketEdge
  <2>5. Counted'
    BY <1>0, <1>1, <1>2, <2>1, <2>3, <2>4 DEF Counted
  <2>6. Returned'
    <3>1. CASE issue_read(in)
      <4>1. return_addr_q' = rd_count % AddrMod /\ rd_word' = Head(columns)
        BY <3>1 DEF Edge, PacketEdge, ColumnEdge
      <4>2. rd_count < Pixels(active_ctx)
        BY <3>1 DEF issue_read, read_needed, pixels_to_collect
      <4>3. rd_count % AddrMod = rd_count
        BY <1>0, <4>2
      <4>4. rd_word'.context = active_ctx /\ rd_word'.index = rd_count
        <5>1. NextRead = [k |-> 1, n |-> rd_count] /\ NextRead \in Place
          BY <1>0, <4>2 DEF NextRead, Place
        <5>2. Waiting \in Seq(Descriptor) /\ Waiting[1] = active_ctx
          BY <1>0 DEF Waiting, Typed, TypeOK
        <5>3. columns[1].context = Waiting[1] /\ columns[1].index = rd_count
          BY <2>3, <3>1, <5>1, <5>2, ReadInOrder DEF Flow, Typed
        <5>4. Head(columns) = columns[1]
          OBVIOUS
        <5> QED BY <4>1, <5>2, <5>3, <5>4
      <4> QED BY <1>0, <1>1, <3>1, <4>1, <4>3, <4>4 DEF Returned
    <3>2. CASE ~issue_read(in)
      <4>1. return_addr_q' = return_addr_q /\ rd_word' = rd_word
        BY <3>2 DEF Edge, PacketEdge, ColumnEdge
      <4>2. return_valid_q' => return_valid_q
        <5>1. return_slot_released => return_valid_q' = issue_read(in)
          BY <2>4
        <5>2. ~return_slot_released => return_valid_q' = return_valid_q
          BY <2>4
        <5> QED BY <3>2, <5>1, <5>2
      <4>3. rd_count' = rd_count
        BY <1>0, <1>1, <3>2
      <4> QED BY <1>1, <2>1, <4>1, <4>2, <4>3 DEF Returned
    <3> QED BY <3>1, <3>2
  <2>7. Slots'
    <3> DEFINE cnt == packet_count_q
               r == packet_rd_ptr_q
               New(p, n) == packet_addr_q'[p] = n /\ packet_data_q'[p] = Word(active_ctx, n)
    <3>1. packet_queue_push => return_addr_q = out_count + cnt
      BY <1>0, <2>1, <2>3 DEF Counted, Returned
    <3>2. packet_queue_push => rd_word = Word(active_ctx, out_count + cnt)
      <4> SUFFICES ASSUME packet_queue_push PROVE rd_word = Word(active_ctx, out_count + cnt)
        OBVIOUS
      <4>1. rd_word.context = active_ctx /\ rd_word.index = out_count + cnt
        BY <1>0, <2>1, <2>3 DEF Counted, Returned
      <4>2. rd_word.tag = OwnTag(active_ctx, out_count + cnt)
        BY <2>2, <2>3, <3>1 DEF return_tag_ok, OwnTag, pixels_to_collect
      <4>3. rd_word = [context |-> rd_word.context, index |-> rd_word.index, tag |-> rd_word.tag]
        BY DEF Typed, Words
      <4> QED BY <4>1, <4>2, <4>3 DEF Word
    <3>3. packet_queue_push => New(packet_wr_ptr_q, out_count + cnt)
      <4>1. packet_queue_push =>
              /\ packet_addr_q' = [packet_addr_q EXCEPT ![packet_wr_ptr_q] = return_addr_q]
              /\ packet_data_q' = [packet_data_q EXCEPT ![packet_wr_ptr_q] = rd_word]
        BY <2>3 DEF Edge, PacketEdge
      <4> QED BY <1>0, <3>1, <3>2, <4>1 DEF Typed, TypeOK
    <3>4. \A p \in {0, 1}, n \in Nat :
            Slot(p, n) /\ ~(packet_queue_push /\ p = packet_wr_ptr_q) => New(p, n)
      <4>1. IF packet_queue_push
            THEN /\ packet_addr_q' = [packet_addr_q EXCEPT ![packet_wr_ptr_q] = return_addr_q]
                 /\ packet_data_q' = [packet_data_q EXCEPT ![packet_wr_ptr_q] = rd_word]
            ELSE packet_addr_q' = packet_addr_q /\ packet_data_q' = packet_data_q
        BY <2>3 DEF Edge, PacketEdge
      <4> QED BY <1>0, <4>1 DEF Typed, TypeOK, Slot
    <3> HIDE DEF New
    <3>5. /\ packet_wr_ptr_q' = (packet_rd_ptr_q' + packet_count_q') % 2
          /\ packet_rd_ptr_q' \in {0, 1}
      <4>1. packet_wr_ptr_q = (r + cnt) % 2
        BY <2>1 DEF Slots
      <4>2. CASE cnt = 0
        BY <1>0, <2>3, <2>4, <4>1, <4>2
      <4>3. CASE cnt = 1
        BY <1>0, <2>3, <2>4, <4>1, <4>3
      <4>4. CASE cnt = 2
        BY <1>0, <2>3, <2>4, <4>1, <4>4
      <4> QED BY <1>0, <4>2, <4>3, <4>4
    <3>6. /\ packet_count_q' # 0 => New(packet_rd_ptr_q', out_count')
          /\ packet_count_q' = 2 => New(1 - packet_rd_ptr_q', out_count' + 1)
      <4>1. packet_wr_ptr_q = (r + cnt) % 2
        BY <2>1 DEF Slots
      <4>2. CASE cnt = 0
        BY <1>0, <1>1, <2>3, <2>4, <3>3, <4>1, <4>2
      <4>3. CASE cnt = 1
        <5>1. Slot(r, out_count) /\ packet_wr_ptr_q = 1 - r /\ r # 1 - r
          BY <1>0, <2>1, <4>1, <4>3 DEF Slots
        <5>2. New(r, out_count)
          BY <1>0, <3>4, <5>1
        <5>3. packet_queue_push => New(1 - r, out_count + 1)
          BY <3>3, <4>3, <5>1
        <5> QED BY <1>0, <1>1, <2>3, <2>4, <4>3, <5>2, <5>3
      <4>4. CASE cnt = 2
        <5>1. Slot(r, out_count) /\ Slot(1 - r, out_count + 1) /\ ~packet_queue_push
          BY <1>0, <2>1, <2>3, <4>4 DEF Slots
        <5>2. New(r, out_count) /\ New(1 - r, out_count + 1)
          BY <1>0, <3>4, <5>1
        <5> QED BY <1>0, <1>1, <2>3, <2>4, <4>4, <5>1, <5>2
      <4> QED BY <1>0, <4>2, <4>3, <4>4
    <3>7. packet_count_q' # 0 => packet_head_addr_q' = out_count'
      <4>1. CASE cnt = 0
        BY <1>0, <1>1, <2>3, <2>4, <3>1, <4>1 DEF HeadAddrNext
      <4>2. CASE cnt = 1
        BY <1>0, <1>1, <2>1, <2>3, <2>4, <3>1, <4>2 DEF HeadAddrNext, Slots
      <4>3. CASE cnt = 2
        BY <1>0, <1>1, <2>1, <2>3, <2>4, <4>3 DEF HeadAddrNext, Slots, Slot
      <4> QED BY <1>0, <4>1, <4>2, <4>3
    <3> QED BY <1>1, <2>4, <3>5, <3>6, <3>7 DEF Slots, Slot, New
  <2> QED BY <1>1, <1>2, <2>1, <2>5, <2>6, <2>7 DEF Pipe, Open
<1> QED BY <1>3, <1>4, <1>5

\* Taking a context up, completing one, or doing nothing empties the pipeline.
LEMMA Otherwise ==
  ASSUME Typed, Pipe, NEW in, Given(in), Edge(in), ~advances(in)
  PROVE  Pipe'
<1>1. active' <=> activates(in)
  <2>1. active' = (activates(in) \/ advances(in))
    BY DEF Edge, ContextEdge
  <2> QED BY <2>1
<1>2. Closed'
  <2>1. CASE clears(in)
    BY <2>1 DEF Edge, PacketEdge, Closed
  <2>2. CASE ~clears(in)
    <3>1. ~active
      BY <2>2, Phases
    <3>2. Closed
      BY <3>1 DEF Pipe, Open
    <3> QED BY <2>2, <3>2 DEF Edge, PacketEdge, Closed
  <2> QED BY <2>1, <2>2
<1>3. CASE ~activates(in)
  BY <1>1, <1>2, <1>3 DEF Pipe, Open
<1>4. CASE activates(in)
  <2>1. rd_count' = 0 /\ out_count' = 0 /\ active_ctx' = Head(ctx_queue)
    BY <1>4 DEF Edge, ContextEdge
  <2>2. packet_rd_ptr_q' = 0 /\ packet_wr_ptr_q' = 0
    BY <1>4 DEF Edge, PacketEdge, clears
  <2>3. Head(ctx_queue) \in Descriptor
    BY <1>4 DEF activates, Typed
  <2>4. Pixels(active_ctx') > 0
    BY <2>1, <2>3, PixelsPositive, AddrAssumption
  <2>5. Pixels(active_ctx') \in Nat
    BY <2>1, <2>3, PixelsPositive, AddrAssumption
  <2>6. rd_count' <= Pixels(active_ctx')
    BY <2>1, <2>4, <2>5
  <2>7. packet_count_q' = 0 /\ return_valid_q' = FALSE
    BY <1>2 DEF Closed
  <2>8. Counted'
    BY <2>1, <2>6, <2>7 DEF Counted
  <2>9. Returned' /\ Slots'
    BY <2>1, <2>2, <2>7 DEF Returned, Slots
  <2> QED BY <1>2, <2>6, <2>8, <2>9 DEF Pipe
<1> QED BY <1>3, <1>4

\* Every edge keeps the slots and the counts right.
LEMMA PipeStep ==
  ASSUME CInv, NEW in, Given(in), Edge(in)
  PROVE  Pipe'
<1>1. CASE advances(in)
  BY <1>1, Advance, Phases DEF CInv, advances
<1>2. CASE ~advances(in)
  BY <1>2, Otherwise DEF CInv
<1> QED BY <1>1, <1>2

-----------------------------------------------------------------------------
(* The contexts that wait *)

\* Sequences joined at either end.
LEMMA Joined ==
  ASSUME NEW S, NEW q \in Seq(S), NEW h \in S, NEW p \in Seq(S)
  PROVE  /\ <<h>> \o q \in Seq(S) /\ <<h>> \o q # <<>>
         /\ Head(<<h>> \o q) = h /\ Tail(<<h>> \o q) = q
         /\ <<h>> \o (q \o p) = (<<h>> \o q) \o p
         /\ q # <<>> => <<Head(q)>> \o (Tail(q) \o p) = q \o p
         /\ q \o <<>> = q /\ <<>> \o q = q
         /\ q \o <<h>> = Append(q, h)
<1>1. <<h>> \in Seq(S) /\ Len(<<h>>) = 1 /\ <<h>>[1] = h
  OBVIOUS
<1>2. /\ <<h>> \o q \in Seq(S) /\ Len(<<h>> \o q) = 1 + Len(q)
      /\ \A i \in 1 .. 1 + Len(q) : (<<h>> \o q)[i] = IF i <= 1 THEN <<h>>[i] ELSE q[i - 1]
  BY <1>1, ConcatProperties
<1>3. <<h>> \o q # <<>> /\ Head(<<h>> \o q) = h
  BY <1>1, <1>2
<1>4. Tail(<<h>> \o q) = q
  <2> DEFINE T == Tail(<<h>> \o q)
  <2>1. T \in Seq(S) /\ Len(T) = Len(q) /\ \A i \in 1 .. Len(T) : T[i] = (<<h>> \o q)[i + 1]
    BY <1>2, <1>3, HeadTailProperties
  <2>2. \A i \in 1 .. Len(T) : T[i] = q[i]
    BY <1>2, <2>1
  <2> HIDE DEF T
  <2>3. T = q
    BY <2>1, <2>2
  <2> QED BY <2>3 DEF T
<1>5. <<h>> \o (q \o p) = (<<h>> \o q) \o p
  BY <1>1, ConcatAssociative
<1>6. ASSUME q # <<>> PROVE <<Head(q)>> \o (Tail(q) \o p) = q \o p
  <2>1. Head(q) \in S /\ Tail(q) \in Seq(S) /\ <<Head(q)>> \in Seq(S)
    BY <1>6
  <2>2. <<Head(q)>> \o Tail(q) = q
    BY <1>6
  <2>3. <<Head(q)>> \o (Tail(q) \o p) = (<<Head(q)>> \o Tail(q)) \o p
    BY <2>1, ConcatAssociative
  <2> QED BY <2>2, <2>3
<1>7. q \o <<>> = q /\ <<>> \o q = q
  BY ConcatEmptySeq
<1>8. q \o <<h>> = Append(q, h)
  BY AppendIsConcat
<1> QED BY <1>2, <1>3, <1>4, <1>5, <1>6, <1>7, <1>8

\* What is left of the contexts, with the one that the edge admits.
Behind(in, rest) == IF in.ctx_valid THEN Append(rest, in.ctx) ELSE rest

\* The waiting contexts are a queue: an edge that completes one drops the first,
\* and one that admits one appends it.
LEMMA WaitingStep ==
  ASSUME CInv, NEW in, Given(in), Edge(in)
  PROVE  /\ Waiting \in Seq(Descriptor) /\ (active => Waiting # <<>> /\ Head(Waiting) = active_ctx)
         /\ (~active => ctx_queue = Waiting)
         /\ Waiting' = Behind(in, IF completes(in) THEN Tail(Waiting) ELSE Waiting)
         /\ ctx_queue' \in Seq(Descriptor)
<1> DEFINE q == ctx_queue
           p == IF in.ctx_valid THEN <<in.ctx>> ELSE <<>>
<1>1. /\ q \in Seq(Descriptor) /\ active_ctx \in Descriptor /\ in.ctx \in Descriptor
      /\ active \in BOOLEAN
  BY DEF CInv, Typed, TypeOK, Given
<1>2. p \in Seq(Descriptor)
  BY <1>1
<1>3. ctx_queue' = (IF activates(in) THEN Tail(q) ELSE q) \o p
  BY DEF Edge, ContextEdge, AdmitEdge
<1>4. \A s \in Seq(Descriptor) : Behind(in, s) = s \o p
  BY <1>1, Joined DEF Behind
<1> HIDE DEF p
<1>5. active' = (activates(in) \/ advances(in))
  BY DEF Edge, ContextEdge
<1>6. Typed /\ Pipe
  BY DEF CInv
<1>7. CASE active
  <2>1. Waiting = <<active_ctx>> \o q /\ ~activates(in) /\ (completes(in) <=> ~advances(in))
    BY <1>6, <1>7, Phases DEF Waiting
  <2>2. ctx_queue' = q \o p /\ active_ctx' = active_ctx
    BY <1>3, <2>1 DEF Edge, ContextEdge
  <2>3. Waiting \in Seq(Descriptor) /\ Waiting # <<>> /\ Head(Waiting) = active_ctx
          /\ Tail(Waiting) = q
    BY <1>1, <2>1, Joined
  <2>4. CASE completes(in)
    <3>1. ~active'
      BY <1>5, <2>1, <2>4
    <3>2. Waiting' = <<>> \o (q \o p)
      BY <2>2, <3>1 DEF Waiting
    <3>3. q \o p \in Seq(Descriptor)
      BY <1>1, <1>2, ConcatProperties
    <3>4. Waiting' = q \o p
      BY <3>2, <3>3, ConcatEmptySeq
    <3> QED BY <1>1, <1>4, <1>7, <2>2, <2>3, <2>4, <3>3, <3>4
  <2>5. CASE ~completes(in)
    <3>1. active'
      BY <1>5, <2>1, <2>5
    <3>2. Waiting' = <<active_ctx>> \o (q \o p)
      BY <2>2, <3>1 DEF Waiting
    <3>3. q \o p \in Seq(Descriptor)
      BY <1>1, <1>2, ConcatProperties
    <3>4. Waiting' = Waiting \o p
      BY <1>1, <1>2, <2>1, <3>2, Joined
    <3> QED BY <1>4, <1>7, <2>2, <2>3, <2>5, <3>3, <3>4
  <2> QED BY <2>4, <2>5
<1>8. CASE ~active
  <2>1. Waiting = q
    BY <1>1, <1>8, ConcatEmptySeq DEF Waiting
  <2>2. ~completes(in) /\ ~advances(in)
    BY <1>6, <1>8, Phases
  <2>3. CASE activates(in)
    <3>1. q # <<>> /\ active' /\ active_ctx' = Head(q) /\ ctx_queue' = Tail(q) \o p
      BY <1>3, <1>5, <2>3 DEF activates, Edge, ContextEdge
    <3>2. Waiting' = <<Head(q)>> \o (Tail(q) \o p)
      BY <3>1 DEF Waiting
    <3>3. Waiting' = q \o p
      BY <1>1, <1>2, <3>1, <3>2, Joined
    <3>4. Tail(q) \o p \in Seq(Descriptor)
      <4>1. Tail(q) \in Seq(Descriptor)
        BY <1>1, <3>1
      <4> QED BY <1>2, <4>1, ConcatProperties
    <3> QED BY <1>1, <1>4, <1>8, <2>1, <2>2, <3>1, <3>3, <3>4
  <2>4. CASE ~activates(in)
    <3>1. ~active' /\ ctx_queue' = q \o p
      BY <1>3, <1>5, <2>2, <2>4
    <3>2. q \o p \in Seq(Descriptor)
      BY <1>1, <1>2, ConcatProperties
    <3>3. Waiting' = q \o p
      BY <3>1, <3>2, ConcatEmptySeq DEF Waiting
    <3> QED BY <1>1, <1>4, <1>8, <2>1, <2>2, <3>1, <3>2, <3>3
  <2> QED BY <2>3, <2>4
<1> QED BY <1>7, <1>8

-----------------------------------------------------------------------------
(* The words in the columns *)

\* A word is read for the context that is collected, and not on the edge that
\* completes it: "a legal final pop cannot coincide with an additional return".
LEMMA Reads ==
  ASSUME CInv, NEW in, Given(in), Edge(in)
  PROVE  /\ NextRead \in Place
         /\ issue_read(in) => /\ NextRead = [k |-> 1, n |-> rd_count]
                              /\ Waiting[1] = active_ctx /\ columns # <<>>
                              /\ advances(in) /\ active
         /\ completes(in) => NextRead = [k |-> 2, n |-> 0] /\ Waiting # <<>>
         /\ NextRead' = IF completes(in) THEN [k |-> 1, n |-> 0]
                        ELSE IF issue_read(in) THEN After(Waiting, 1, rd_count)
                        ELSE NextRead
<1>1. /\ rd_count \in Nat /\ active_ctx \in Descriptor /\ Pixels(active_ctx) \in Nat \ {0}
      /\ Typed /\ Pipe /\ out_count \in Nat /\ packet_count_q \in Nat
  BY PixelsPositive, AddrAssumption DEF CInv, Typed, TypeOK
<1>2. NextRead \in Place
  BY <1>1 DEF NextRead, Place
<1>3. active' = (activates(in) \/ advances(in))
  BY DEF Edge, ContextEdge
<1>4. active => Waiting # <<>> /\ Head(Waiting) = active_ctx /\ Waiting \in Seq(Descriptor)
  BY WaitingStep
<1>5. completes(in) => /\ active /\ rd_count >= Pixels(active_ctx)
                       /\ NextRead = [k |-> 2, n |-> 0]
  <2> SUFFICES ASSUME completes(in)
               PROVE  /\ active /\ rd_count >= Pixels(active_ctx)
                      /\ NextRead = [k |-> 2, n |-> 0]
    OBVIOUS
  <2>1. /\ active /\ Open /\ out_count = Pixels(active_ctx) - 1 /\ packet_count_q # 0
    BY DEF completes, completing_packet, packet_pop, packet_valid, Open, pixels_to_collect
  <2>2. rd_count >= Pixels(active_ctx)
    BY <1>1, <2>1 DEF Pipe, Counted
  <2> QED BY <1>1, <2>1, <2>2 DEF NextRead
<1>6. issue_read(in) => /\ active /\ rd_count < Pixels(active_ctx) /\ advances(in)
                        /\ columns # <<>>
  <2>1. issue_read(in) => active /\ rd_count < Pixels(active_ctx) /\ columns # <<>>
    BY DEF issue_read, read_needed, pixels_to_collect, columns_ready
  <2>2. issue_read(in) => ~completes(in)
    BY <1>1, <1>5, <2>1
  <2> QED BY <1>1, <2>1, <2>2, Phases
<1>7. issue_read(in) => /\ NextRead = [k |-> 1, n |-> rd_count] /\ Waiting[1] = active_ctx
  BY <1>1, <1>4, <1>6 DEF NextRead
<1>8. NextRead' = IF completes(in) THEN [k |-> 1, n |-> 0]
                  ELSE IF issue_read(in) THEN After(Waiting, 1, rd_count)
                  ELSE NextRead
  <2>1. CASE advances(in)
    <3>1. active /\ ~completes(in) /\ ~activates(in) /\ in.enable
      BY <1>1, <2>1, Phases DEF advances
    <3>2. active' /\ active_ctx' = active_ctx
      BY <1>3, <2>1, <3>1 DEF Edge, ContextEdge
    <3>3. rd_count' = IF issue_read(in) THEN rd_count + 1 ELSE rd_count
      BY <2>1, <3>1 DEF Edge, ContextEdge
    <3>4. CASE issue_read(in)
      <4>1. NextRead' = IF rd_count + 1 < Pixels(active_ctx)
                        THEN [k |-> 1, n |-> rd_count + 1] ELSE [k |-> 2, n |-> 0]
        BY <3>2, <3>3, <3>4 DEF NextRead
      <4>2. After(Waiting, 1, rd_count) = IF rd_count + 1 < Pixels(active_ctx)
                        THEN [k |-> 1, n |-> rd_count + 1] ELSE [k |-> 2, n |-> 0]
        BY <1>7, <3>4 DEF After
      <4> QED BY <3>1, <3>4, <4>1, <4>2
    <3>5. CASE ~issue_read(in)
      <4>1. NextRead' = NextRead
        BY <3>1, <3>2, <3>3, <3>5 DEF NextRead
      <4> QED BY <3>1, <3>5, <4>1
    <3> QED BY <3>4, <3>5
  <2>2. CASE completes(in)
    <3>1. ~active'
      BY <1>1, <1>3, <1>5, <2>2, Phases
    <3> QED BY <2>2, <3>1 DEF NextRead
  <2>3. CASE activates(in)
    <3>1. ~active /\ ~completes(in) /\ ~issue_read(in)
      BY <1>1, <1>6, <2>3, Phases DEF activates
    <3>2. active' /\ rd_count' = 0 /\ active_ctx' = Head(ctx_queue)
      BY <1>3, <2>3 DEF Edge, ContextEdge
    <3>3. Head(ctx_queue) \in Descriptor
      BY <1>1, <2>3 DEF activates, Typed
    <3>4. 0 < Pixels(active_ctx')
      BY <3>2, <3>3, PixelsPositive, AddrAssumption
    <3>5. NextRead' = [k |-> 1, n |-> 0]
      BY <3>2, <3>4 DEF NextRead
    <3>6. NextRead = [k |-> 1, n |-> 0]
      BY <3>1 DEF NextRead
    <3> QED BY <3>1, <3>5, <3>6
  <2>4. CASE ~advances(in) /\ ~completes(in) /\ ~activates(in)
    <3>1. ~active /\ ~issue_read(in)
      BY <1>1, <1>6, <2>4, Phases
    <3>2. ~active'
      BY <1>3, <2>4
    <3>3. NextRead' = NextRead
      BY <3>1, <3>2 DEF NextRead
    <3> QED BY <2>4, <3>1, <3>3
  <2> QED BY <2>1, <2>2, <2>3, <2>4
<1>9. completes(in) => Waiting # <<>>
  BY <1>4, <1>5
<1> QED BY <1>2, <1>5, <1>6, <1>7, <1>8, <1>9

\* Every edge keeps the columns in order.
LEMMA FlowStep ==
  ASSUME CInv, NEW in, Given(in), Edge(in)
  PROVE  Flow' /\ columns' \in Seq(Words) /\ rd_word' \in Words
           /\ coming' \in Seq(Descriptor) /\ arrived' \in Nat
<1> DEFINE F == IF issue_read(in) THEN After(Waiting, 1, rd_count) ELSE NextRead
           C == IF issue_read(in) THEN Tail(columns) ELSE columns
           last == arrived + 1 = Pixels(Head(coming))
           K == IF in.arrives /\ last THEN Tail(coming) ELSE coming
<1>1. /\ Waiting \in Seq(Descriptor) /\ columns \in Seq(Words) /\ coming \in Seq(Descriptor)
      /\ arrived \in Nat /\ rd_word \in Words /\ in.ctx \in Descriptor
      /\ rd_count \in Nat /\ in.arrives \in BOOLEAN /\ in.ctx_valid \in BOOLEAN
      /\ InOrder(Waiting, NextRead, columns, coming, arrived)
  BY WaitingStep DEF CInv, Typed, TypeOK, Given, Flow
<1>2. /\ NextRead \in Place /\ F \in Place
  BY <1>1, Reads DEF After, Place
<1>3. /\ C \in Seq(Words) /\ rd_word' \in Words
      /\ rd_word' = IF issue_read(in) THEN Head(columns) ELSE rd_word
  <2>1. rd_word' = IF issue_read(in) THEN Head(columns) ELSE rd_word
    BY DEF Edge, ColumnEdge
  <2>2. issue_read(in) => Head(columns) \in Words /\ Tail(columns) \in Seq(Words)
    BY <1>1, Reads
  <2> QED BY <1>1, <2>1, <2>2
<1>4. InOrder(Waiting, F, C, coming, arrived)
  <2>1. CASE issue_read(in)
    <3>1. NextRead = [k |-> 1, n |-> rd_count] /\ columns # <<>>
      BY <2>1, Reads
    <3>2. InOrder(Waiting, After(Waiting, NextRead.k, NextRead.n), Tail(columns), coming, arrived)
      BY <1>1, <1>2, <3>1, ReadInOrder
    <3> QED BY <2>1, <3>1, <3>2
  <2>2. CASE ~issue_read(in)
    BY <1>1, <2>2
  <2> QED BY <2>1, <2>2
<1>5. /\ InOrder(Waiting, F, columns', K, arrived')
      /\ columns' \in Seq(Words) /\ arrived' \in Nat /\ K \in Seq(Descriptor)
  <2>1. CASE ~in.arrives
    <3>1. columns' = C /\ arrived' = arrived
      BY <2>1 DEF Edge, ColumnEdge
    <3> QED BY <1>1, <1>3, <1>4, <2>1, <3>1
  <2>2. CASE in.arrives
    <3>1. /\ coming # <<>>
          /\ arrived' = IF last THEN 0 ELSE arrived + 1
          /\ \E tag \in {OwnTag(Head(coming), arrived)} \cup CorruptTags :
               columns' = Append(C, [Word(Head(coming), arrived) EXCEPT !.tag = tag])
      BY <2>2 DEF Edge, ColumnEdge
    <3> PICK tag \in {OwnTag(Head(coming), arrived)} \cup CorruptTags :
               columns' = Append(C, [Word(Head(coming), arrived) EXCEPT !.tag = tag])
      BY <3>1
    <3> DEFINE word == [Word(Head(coming), arrived) EXCEPT !.tag = tag]
    <3>2. /\ Head(coming) \in Descriptor /\ Tail(coming) \in Seq(Descriptor)
          /\ Head(coming) = coming[1]
      BY <1>1, <3>1
    <3>3. tag \in Tags
      BY <1>1, <3>2 DEF Tags
    <3>4. word = [context |-> Head(coming), index |-> arrived, tag |-> tag]
      BY DEF Word
    <3>5. word \in Words /\ word.context = coming[1] /\ word.index = arrived
      BY <1>1, <3>2, <3>3, <3>4 DEF Words
    <3>6. columns' = Append(C, word)
      OBVIOUS
    <3> HIDE DEF word, F, C
    <3>7. IF arrived + 1 = Pixels(coming[1])
          THEN InOrder(Waiting, F, Append(C, word), Tail(coming), 0)
          ELSE InOrder(Waiting, F, Append(C, word), coming, arrived + 1)
      BY <1>1, <1>2, <1>3, <1>4, <3>1, <3>5, ArriveInOrder
    <3>8. columns' \in Seq(Words)
      BY <1>3, <3>5, <3>6, AppendProperties
    <3>9. CASE last
      BY <2>2, <3>1, <3>2, <3>6, <3>7, <3>8, <3>9
    <3>10. CASE ~last
      BY <1>1, <2>2, <3>1, <3>2, <3>6, <3>7, <3>8, <3>10
    <3> QED BY <3>9, <3>10
  <2> QED BY <1>1, <2>1, <2>2
<1>6. coming' = K \o (IF in.ctx_valid THEN <<in.ctx>> ELSE <<>>)
  BY DEF Edge, AdmitEdge
<1> HIDE DEF F, C, K
<1>7. coming' = Behind(in, K)
  <2>1. K \o <<>> = K /\ K \o <<in.ctx>> = Append(K, in.ctx)
    BY <1>1, <1>5, Joined
  <2>2. CASE in.ctx_valid
    BY <1>6, <2>1, <2>2 DEF Behind
  <2>3. CASE ~in.ctx_valid
    BY <1>6, <2>1, <2>3 DEF Behind
  <2> QED BY <2>2, <2>3
<1>8. /\ InOrder(Behind(in, Waiting), F, columns', coming', arrived')
      /\ coming' \in Seq(Descriptor) /\ Behind(in, Waiting) \in Seq(Descriptor)
  <2>1. CASE in.ctx_valid
    <3>1. coming' = Append(K, in.ctx) /\ Behind(in, Waiting) = Append(Waiting, in.ctx)
      BY <1>7, <2>1 DEF Behind
    <3>2. InOrder(Append(Waiting, in.ctx), F, columns', Append(K, in.ctx), arrived')
      BY <1>1, <1>2, <1>5, AdmitInOrder
    <3> QED BY <1>1, <1>5, <3>1, <3>2, AppendProperties
  <2>2. CASE ~in.ctx_valid
    BY <1>1, <1>5, <1>7, <2>2 DEF Behind
  <2> QED BY <1>1, <2>1, <2>2
<1>9. Flow'
  <2>1. CASE completes(in)
    <3>1. F = [k |-> 2, n |-> 0] /\ NextRead' = [k |-> 1, n |-> 0] /\ Waiting # <<>>
      <4>1. ~issue_read(in)
        BY <2>1, Reads, Phases DEF CInv
      <4> QED BY <2>1, <4>1, Reads DEF F
    <3>2. Waiting' = Behind(in, Tail(Waiting))
      BY <2>1, WaitingStep
    <3>3. Behind(in, Waiting) # <<>> /\ Tail(Behind(in, Waiting)) = Behind(in, Tail(Waiting))
      <4>1. /\ Append(Waiting, in.ctx) # <<>>
            /\ Tail(Append(Waiting, in.ctx)) = Append(Tail(Waiting), in.ctx)
        BY <1>1, <3>1, HeadTailAppend, AppendProperties
      <4>2. CASE in.ctx_valid
        BY <4>1, <4>2 DEF Behind
      <4>3. CASE ~in.ctx_valid
        BY <3>1, <4>3 DEF Behind
      <4> QED BY <4>2, <4>3
    <3>4. InOrder(Tail(Behind(in, Waiting)), [k |-> 1, n |-> 0], columns', coming', arrived')
      BY <1>5, <1>8, <3>1, <3>3, CompleteInOrder
    <3> QED BY <3>1, <3>2, <3>3, <3>4 DEF Flow
  <2>2. CASE ~completes(in)
    <3>1. NextRead' = F
      BY <2>2, Reads DEF F
    <3>2. Waiting' = Behind(in, Waiting)
      BY <2>2, WaitingStep
    <3> QED BY <1>8, <3>1, <3>2 DEF Flow
  <2> QED BY <2>1, <2>2
<1> QED BY <1>3, <1>5, <1>8, <1>9

-----------------------------------------------------------------------------
(* The invariant holds *)

\* Every edge keeps the registers in their ranges.
LEMMA TypeStep ==
  ASSUME CInv, NEW in, Given(in), Edge(in)
  PROVE  Typed'
<1>1. /\ Typed /\ Pipe /\ active \in BOOLEAN /\ active_ctx \in Descriptor
      /\ Pixels(active_ctx) \in 1 .. AddrMod /\ AddrMod \in Nat \ {0}
      /\ rd_count \in 0 .. AddrMod /\ out_count \in 0 .. AddrMod
      /\ return_addr_q \in 0 .. AddrMod - 1 /\ packet_count_q \in 0 .. 2
      /\ packet_rd_ptr_q \in {0, 1} /\ packet_wr_ptr_q \in {0, 1}
      /\ packet_addr_q \in [{0, 1} -> 0 .. AddrMod - 1]
      /\ packet_data_q \in [{0, 1} -> Words] /\ rd_word \in Words
      /\ packet_head_addr_q \in 0 .. AddrMod - 1
      /\ context_done_ctx \in Descriptor
      /\ Len(ctx_queue) <= CTX_DEPTH /\ ctx_queue \in Seq(Descriptor)
      /\ CTX_DEPTH \in Nat \ {0} /\ in.ctx \in Descriptor
  BY PixelsPositive, AddrAssumption, DepthAssumption DEF CInv, Typed, TypeOK, Given
<1>2. /\ ctx_queue' \in Seq(Descriptor) /\ columns' \in Seq(Words) /\ rd_word' \in Words
      /\ coming' \in Seq(Descriptor) /\ arrived' \in Nat
  BY WaitingStep, FlowStep
<1>3. Len(ctx_queue') <= CTX_DEPTH
  <2> DEFINE q == IF activates(in) THEN Tail(ctx_queue) ELSE ctx_queue
             p == IF in.ctx_valid /\ ctx_ready(in) THEN <<in.ctx>> ELSE <<>>
  <2>1. ctx_queue' = q \o p
    BY DEF Edge, ContextEdge
  <2>2. q \in Seq(Descriptor) /\ Len(q) <= Len(ctx_queue)
    BY <1>1 DEF activates
  <2>3. p \in Seq(Descriptor) /\ (Len(p) = 0 \/ (Len(p) = 1 /\ Len(ctx_queue) # CTX_DEPTH))
    BY <1>1 DEF ctx_ready, ctx_full
  <2> HIDE DEF q, p
  <2>4. Len(q \o p) = Len(q) + Len(p)
    BY <2>2, <2>3, ConcatProperties
  <2>5. Len(ctx_queue) \in Nat /\ Len(q) \in Nat
    BY <1>1, <2>2
  <2>6. Len(ctx_queue') = Len(q) + Len(p)
    BY <2>1, <2>4
  <2>7. CTX_DEPTH \in Nat /\ Len(ctx_queue) <= CTX_DEPTH
    BY <1>1
  <2>8. \A a, b, d, e \in Nat :
          a <= b /\ b <= d /\ (e = 0 \/ (e = 1 /\ b # d)) => a + e <= d
    OBVIOUS
  <2>9. Len(p) \in Nat /\ (Len(p) = 0 \/ (Len(p) = 1 /\ Len(ctx_queue) # CTX_DEPTH))
    BY <2>3
  <2>10. Len(q) + Len(p) <= CTX_DEPTH
    BY <2>2, <2>5, <2>7, <2>8, <2>9
  <2> QED BY <2>6, <2>10
<1>4. \A k \in 1 .. Len(ctx_queue') : ctx_queue'[k] \in Descriptor
  BY <1>2
<1>5. active' \in BOOLEAN /\ active_ctx' \in Descriptor
  <2>1. activates(in) => Head(ctx_queue) \in Descriptor
    BY <1>1 DEF activates
  <2>2. active_ctx' \in Descriptor
    BY <1>1, <2>1 DEF Edge, ContextEdge
  <2>3. active' \in BOOLEAN
    BY DEF Edge, ContextEdge
  <2> QED BY <2>2, <2>3
<1>6. rd_count' \in 0 .. AddrMod
  BY <1>1 DEF Edge, ContextEdge, issue_read, read_needed, pixels_to_collect
<1>7. out_count' \in 0 .. AddrMod
  <2>1. packet_pop(in) => out_count + 1 <= AddrMod
    <3>1. packet_pop(in) => Open /\ packet_count_q # 0
      BY <1>1 DEF packet_pop, packet_valid, Pipe, Closed
    <3>2. Open => Counted
      BY <1>1 DEF Pipe
    <3>3. Open => rd_count <= Pixels(active_ctx)
      BY <1>1 DEF Pipe, Open
    <3> QED BY <1>1, <3>1, <3>2, <3>3 DEF Counted
  <2> QED BY <1>1, <2>1 DEF Edge, ContextEdge
<1>8. return_valid_q' \in BOOLEAN /\ return_addr_q' \in 0 .. AddrMod - 1
  <2>1. return_valid_q' \in BOOLEAN
    <3>1. return_valid_q \in BOOLEAN /\ issue_read(in) \in BOOLEAN
      BY <1>1 DEF Typed, TypeOK, issue_read
    <3> QED BY <3>1 DEF Edge, PacketEdge
  <2>2. return_addr_q' \in 0 .. AddrMod - 1
    <3>1. (rd_count % AddrMod) \in 0 .. AddrMod - 1
      BY <1>1
    <3> QED BY <1>1, <3>1 DEF Edge, PacketEdge
  <2> QED BY <2>1, <2>2
<1>9. packet_count_q' \in 0 .. 2
  BY <1>1 DEF Edge, PacketEdge, packet_pop, packet_valid, packet_queue_push, return_advance,
    packet_queue_has_space
<1>10. packet_rd_ptr_q' \in {0, 1} /\ packet_wr_ptr_q' \in {0, 1}
  <2>1. packet_rd_ptr_q' \in {0, 1}
    BY <1>1 DEF Edge, PacketEdge
  <2>2. packet_wr_ptr_q' \in {0, 1}
    BY <1>1 DEF Edge, PacketEdge
  <2> QED BY <2>1, <2>2
<1>11. /\ packet_addr_q' \in [{0, 1} -> 0 .. AddrMod - 1]
       /\ packet_data_q' \in [{0, 1} -> Words]
  BY <1>1 DEF Edge, PacketEdge
<1>12. packet_head_addr_q' \in 0 .. AddrMod - 1
  <2>1. HeadAddrNext(in) \in 0 .. AddrMod - 1
    BY <1>1 DEF HeadAddrNext
  <2> QED BY <1>1, <2>1 DEF Edge, PacketEdge
<1>13. /\ packet_ctx' \in Descriptor /\ context_done_ctx' \in Descriptor
  BY <1>1 DEF Edge, PacketEdge, DoneEdge
<1>14. context_done' \in BOOLEAN /\ tag_mismatch_sticky' \in BOOLEAN
  <2>1. context_done' \in BOOLEAN
    BY DEF Edge, DoneEdge, completes
  <2>2. tag_mismatch_sticky' \in BOOLEAN
    BY DEF Edge, DoneEdge
  <2> QED BY <2>1, <2>2
<1>15. TypeOK'
  BY <1>3, <1>4, <1>5, <1>6, <1>7, <1>8, <1>9, <1>10, <1>11, <1>12, <1>13, <1>14 DEF TypeOK
<1> QED BY <1>2, <1>11, <1>15 DEF Typed

\* Nothing waits and nothing comes.
LEMMA EmptyInOrder == InOrder(<<>>, [k |-> 1, n |-> 0], <<>>, <<>>, 0)
<1> DEFINE at == [i \in 1 .. 1 |-> [k |-> 1, n |-> 0]]
<1>1. at \in [1 .. 1 -> Place] /\ at[1] = [k |-> 1, n |-> 0]
  BY DEF Place
<1>2. \A i, j \in 1 .. 1 : ~(i < j)
  OBVIOUS
<1> HIDE DEF at
<1>3. Arriving(<<>>, <<>>, 0) = [k |-> 1, n |-> 0] /\ Len(<<>>) = 0
  BY DEF Arriving
<1>4. Lined(<<>>, [k |-> 1, n |-> 0], <<>>, Arriving(<<>>, <<>>, 0), at)
  BY <1>1, <1>2, <1>3 DEF Lined
<1>5. Coming(<<>>, <<>>, 0)
  BY DEF Coming
<1> QED BY <1>1, <1>3, <1>4, <1>5 DEF InOrder

\* What stands in a payload register after reset.
LEMMA UnknownTyped == Unknown \in Descriptor /\ Word(Unknown, 0) \in Words
<1>1. Unknown \in Descriptor
  BY DescriptorAssumption DEF Unknown
<1>2. OwnTag(Unknown, 0) \in Tags
  BY <1>1 DEF Tags
<1> QED BY <1>1, <1>2 DEF Word, Words

\* The invariant holds at first, after a reset, and when nothing happens.
LEMMA InitCInv == Init => CInv
<1> SUFFICES ASSUME Init PROVE CInv
  OBVIOUS
<1>1. TypeOK
  BY UnknownTyped, AddrAssumption, DepthAssumption DEF Init, TypeOK
<1>2. Typed
  BY <1>1, UnknownTyped DEF Init, Typed
<1>3. Pipe
  BY DEF Init, Pipe, Open, Closed
<1>4. Waiting = <<>> /\ NextRead = [k |-> 1, n |-> 0]
  BY DEF Init, Waiting, NextRead
<1>5. Flow
  BY <1>4, EmptyInOrder DEF Init, Flow
<1> QED BY <1>2, <1>3, <1>5 DEF CInv

\* A reset establishes it again.
LEMMA ResetCInv == CInv /\ Reset => CInv'
<1> SUFFICES ASSUME CInv, Reset PROVE CInv'
  OBVIOUS
<1>1. /\ packet_addr_q' \in [{0, 1} -> 0 .. AddrMod - 1]
      /\ packet_data_q' \in [{0, 1} -> Words] /\ rd_word' \in Words
  BY DEF CInv, Typed, TypeOK, Reset
<1>2. TypeOK'
  <2>1. /\ ctx_queue' = <<>> /\ Len(ctx_queue') = 0 /\ active' = FALSE
        /\ active_ctx' = Unknown /\ packet_ctx' = Unknown /\ context_done_ctx' = Unknown
        /\ rd_count' = 0 /\ out_count' = 0 /\ return_addr_q' = 0
        /\ packet_head_addr_q' = 0
    BY DEF Reset
  <2>2. /\ return_valid_q' = FALSE /\ context_done' = FALSE
        /\ tag_mismatch_sticky' = FALSE
        /\ packet_count_q' = 0 /\ packet_rd_ptr_q' = 0 /\ packet_wr_ptr_q' = 0
    BY DEF Reset
  <2>3. 0 \in 0 .. AddrMod /\ 0 \in 0 .. AddrMod - 1 /\ 0 <= CTX_DEPTH
    BY AddrAssumption, DepthAssumption
  <2>4. Len(ctx_queue') <= CTX_DEPTH
        /\ \A k \in 1 .. Len(ctx_queue') : ctx_queue'[k] \in Descriptor
    BY <2>1, <2>3
  <2>5. /\ active' \in BOOLEAN /\ active_ctx' \in Descriptor
        /\ rd_count' \in 0 .. AddrMod /\ out_count' \in 0 .. AddrMod
    BY <2>1, <2>3, UnknownTyped
  <2>6. /\ return_addr_q' \in 0 .. AddrMod - 1 /\ packet_count_q' \in 0 .. 2
        /\ packet_rd_ptr_q' \in {0, 1} /\ packet_wr_ptr_q' \in {0, 1}
    BY <2>1, <2>2, <2>3
  <2>8. return_valid_q' \in BOOLEAN
    BY <2>2
  <2>7. /\ packet_head_addr_q' \in 0 .. AddrMod - 1 /\ packet_ctx' \in Descriptor
        /\ context_done' \in BOOLEAN /\ context_done_ctx' \in Descriptor
        /\ tag_mismatch_sticky' \in BOOLEAN
    BY <2>1, <2>2, <2>3, UnknownTyped
  <2> QED BY <1>1, <2>4, <2>5, <2>6, <2>7, <2>8 DEF TypeOK
<1>3. Typed'
  BY <1>1, <1>2, UnknownTyped DEF Reset, Typed
<1>4. Pipe'
  BY DEF Reset, Pipe, Open, Closed
<1>5. Waiting' = <<>> /\ NextRead' = [k |-> 1, n |-> 0]
  BY DEF Reset, Waiting, NextRead
<1>6. columns' = <<>> /\ coming' = <<>> /\ arrived' = 0
  BY DEF Reset
<1>7. Flow'
  BY <1>5, <1>6, EmptyInOrder DEF Flow
<1> QED BY <1>3, <1>4, <1>7 DEF CInv

\* It is about the collector's variables only.
LEMMA StayCInv == CInv /\ UNCHANGED vars => CInv'
BY DEF CInv, Typed, TypeOK, Pipe, Flow, Waiting, NextRead, Open, Closed, Counted, Returned,
  Slots, Slot, vars, contextVars, packetVars, doneVars, columnVars

\* The collector's registers, slots and columns agree after every edge and reset.
THEOREM CollectorCorrect == Spec => []CInv
<1>1. CInv /\ [Next]_vars => CInv'
  <2> SUFFICES ASSUME CInv, [Next]_vars PROVE CInv'
    OBVIOUS
  <2>1. ASSUME NEW in \in Inputs \cup Quiet, Edge(in) PROVE CInv'
    <3>1. Given(in)
      BY Choices
    <3> QED BY <2>1, <3>1, PipeStep, FlowStep, TypeStep DEF CInv
  <2>2. CASE Reset
    BY <2>2, ResetCInv
  <2>3. CASE UNCHANGED vars
    BY <2>3, StayCInv
  <2> QED BY <2>1, <2>2, <2>3 DEF Next
<1> QED BY InitCInv, <1>1, PTL DEF Spec

\* Every word read is in one place until its packet is taken, and the address
\* register shows the head slot's address.
THEOREM WordsKept == Spec => []CollectorSafe
<1>1. CInv => CollectorSafe
  <2> SUFFICES ASSUME CInv PROVE CollectorSafe
    OBVIOUS
  <2>1. packet_count_q # 0 => Open
    BY DEF CInv, Pipe, Closed
  <2>2. packet_count_q # 0 => packet_head_addr_q = packet_addr_q[packet_rd_ptr_q]
    BY <2>1 DEF CInv, Pipe, Slots, Slot
  <2>3. Open => rd_count = out_count + packet_count_q + (IF return_valid_q THEN 1 ELSE 0)
    BY DEF CInv, Pipe, Counted
  <2>4. ~active => packet_count_q = 0 /\ ~return_valid_q
    BY DEF CInv, Pipe, Open, Closed
  <2> QED BY <2>2, <2>3, <2>4 DEF CollectorSafe, WordsAccounted, CInv, Typed, Open
<1> QED BY CollectorCorrect, <1>1, PTL

-----------------------------------------------------------------------------
(* The collector implements CollectOrder *)

Taken == IF active THEN out_count ELSE 0
Completed == IF context_done THEN context_done_ctx ELSE NoDescriptor

\* What is handed over is the next packet of the first context that waits.
LEMMA HandedRight ==
  ASSUME CInv, NEW in, Given(in), Edge(in), packet_pop(in)
  PROVE  /\ Open /\ in.enable /\ Waiting # <<>> /\ Head(Waiting) = active_ctx
         /\ handed' = Packet(active_ctx, out_count)
<1>1. Open /\ packet_count_q # 0
  BY DEF CInv, Pipe, Closed, packet_pop, packet_valid
<1>2. Counted /\ Slots
  BY <1>1 DEF CInv, Pipe
<1>3. Waiting # <<>> /\ Head(Waiting) = active_ctx /\ in.enable
  BY <1>1, WaitingStep DEF Open, Given
<1>4. rd_count # 0
  BY <1>1, <1>2 DEF CInv, Typed, TypeOK, Counted
<1>5. handed' = [context |-> packet_ctx, addr |-> packet_head_addr_q,
                 word |-> packet_data_q[packet_rd_ptr_q]]
  BY DEF Edge, PacketEdge
<1>6. /\ packet_ctx = active_ctx /\ packet_head_addr_q = out_count
      /\ packet_data_q[packet_rd_ptr_q] = Word(active_ctx, out_count)
  BY <1>1, <1>2, <1>4 DEF Slots, Slot
<1> QED BY <1>1, <1>3, <1>5, <1>6 DEF Packet

\* Every edge is a step of CollectOrder: it waits or it hands a packet over.
LEMMA OrderStep ==
  ASSUME CInv, NEW in, Given(in), Edge(in)
  PROVE  (Order!Wait \/ Order!Hand) /\ (tag_mismatch_sticky => tag_mismatch_sticky')
<1>1. tag_mismatch_sticky => tag_mismatch_sticky'
  BY DEF Edge, DoneEdge
<1>2. /\ Typed /\ Pipe /\ in.ctx \in Descriptor /\ out_count \in Nat
      /\ active_ctx \in Descriptor /\ Pixels(active_ctx) \in Nat \ {0}
  BY PixelsPositive, AddrAssumption DEF CInv, Typed, TypeOK, Given
<1>3. Waiting' = Behind(in, IF completes(in) THEN Tail(Waiting) ELSE Waiting)
  BY WaitingStep
<1>4. in.ctx_valid => ~tag_mismatch_sticky
  BY DEF Edge, AdmitEdge, ctx_ready
<1>5. ASSUME NEW rest, Waiting' = Behind(in, rest) PROVE Order!AcceptBehind(rest)
  <2>1. CASE in.ctx_valid
    <3>1. Waiting' = Append(rest, in.ctx) /\ ~tag_mismatch_sticky
      BY <1>4, <1>5, <2>1 DEF Behind
    <3> QED BY <1>2, <3>1 DEF Order!AcceptBehind
  <2>2. CASE ~in.ctx_valid
    BY <1>5, <2>2 DEF Behind, Order!AcceptBehind
  <2> QED BY <2>1, <2>2
<1>6. context_done' = completes(in)
  BY DEF Edge, DoneEdge
<1>7. Completed' = IF completes(in) THEN active_ctx ELSE NoDescriptor
  <2>1. context_done_ctx' = IF completes(in) THEN active_ctx ELSE context_done_ctx
    BY DEF Edge, DoneEdge
  <2> QED BY <1>6, <2>1 DEF Completed
<1>8. active' = (activates(in) \/ advances(in))
  BY DEF Edge, ContextEdge
<1>9. CASE ~packet_pop(in)
  <2>1. ~completes(in) /\ handed' = NoPacket
    BY <1>9 DEF completes, completing_packet, Edge, PacketEdge
  <2>2. Taken' = Taken
    <3>1. CASE advances(in)
      <4>1. active /\ active' /\ in.enable /\ ~activates(in)
        BY <1>2, <1>8, <3>1, Phases DEF advances
      <4>2. out_count' = out_count
        BY <1>9, <4>1 DEF Edge, ContextEdge
      <4> QED BY <4>1, <4>2 DEF Taken
    <3>2. CASE activates(in)
      <4>1. ~active /\ active' /\ out_count' = 0
        BY <1>8, <3>2 DEF activates, Edge, ContextEdge
      <4> QED BY <4>1 DEF Taken
    <3>3. CASE ~advances(in) /\ ~activates(in)
      <4>1. ~active /\ ~active'
        BY <1>2, <1>8, <2>1, <3>3, Phases
      <4> QED BY <4>1 DEF Taken
    <3> QED BY <3>1, <3>2, <3>3
  <2>3. Waiting' = Behind(in, Waiting)
    BY <1>3, <2>1
  <2>4. Order!AcceptBehind(Waiting)
    BY <1>5, <2>3
  <2>5. Completed' = NoDescriptor
    BY <1>7, <2>1
  <2>6. Order!Wait
    BY <2>1, <2>2, <2>4, <2>5 DEF Order!Wait, Taken, Completed, NoPacket
  <2> QED BY <1>1, <2>6
<1>10. CASE packet_pop(in)
  <2>1. /\ Open /\ in.enable /\ Waiting # <<>> /\ Head(Waiting) = active_ctx
        /\ handed' = Packet(active_ctx, out_count)
    BY <1>10, HandedRight
  <2>2. Taken = out_count /\ active /\ ~tag_mismatch_sticky
    BY <2>1 DEF Taken, Open
  <2>3. CASE completes(in)
    <3>1. out_count + 1 = Pixels(active_ctx)
      BY <1>2, <2>3 DEF completes, completing_packet, pixels_to_collect
    <3>2. ~active'
      BY <1>2, <1>8, <2>2, <2>3, Phases
    <3>3. Taken' = 0 /\ Completed' = active_ctx
      BY <1>7, <2>3, <3>2 DEF Taken
    <3>4. Order!AcceptBehind(Tail(Waiting))
      <4>1. Waiting' = Behind(in, Tail(Waiting))
        BY <1>3, <2>3
      <4> QED BY <1>5, <4>1
    <3>5. Order!Hand
      BY <2>1, <2>2, <3>1, <3>3, <3>4 DEF Order!Hand, Taken, Completed
    <3> QED BY <1>1, <3>5
  <2>4. CASE ~completes(in)
    <3>1. out_count + 1 < Pixels(active_ctx)
      <4>1. Counted /\ rd_count <= Pixels(active_ctx) /\ packet_count_q # 0
        BY <1>10, <2>1, <2>2 DEF CInv, Pipe, packet_pop, packet_valid
      <4>2. rd_count \in Nat /\ packet_count_q \in Nat
        BY <1>2 DEF Typed, TypeOK
      <4>3. out_count + 1 # Pixels(active_ctx)
        BY <1>2, <1>10, <2>1, <2>2, <2>4 DEF completes, completing_packet, pixels_to_collect
      <4> QED BY <1>2, <4>1, <4>2, <4>3 DEF Counted
    <3>2. advances(in) /\ ~activates(in) /\ active'
      BY <1>2, <1>8, <2>2, <2>4, Phases
    <3>3. Taken' = out_count + 1 /\ Completed' = NoDescriptor
      <4>1. out_count' = out_count + 1
        BY <1>10, <2>1, <3>2 DEF Edge, ContextEdge
      <4> QED BY <1>7, <2>4, <3>2, <4>1 DEF Taken
    <3>4. Order!AcceptBehind(Waiting)
      <4>1. Waiting' = Behind(in, Waiting)
        BY <1>3, <2>4
      <4> QED BY <1>5, <4>1
    <3>5. Order!Hand
      BY <2>1, <2>2, <3>1, <3>3, <3>4 DEF Order!Hand, Taken, Completed
    <3> QED BY <1>1, <3>5
  <2> QED BY <2>3, <2>4
<1> QED BY <1>9, <1>10

\* Contexts are collected in order, and every packet carries its own context's
\* metadata, its address, and a word with its own tag.
THEOREM CollectedInOrder == Spec => OrderSpec
<1>1. Init => Order!OrderInit
  BY DEF Init, Order!OrderInit, Waiting, NoPacket
<1>2. CInv /\ [Next]_vars => [Order!OrderNext]_(Order!orderVars)
  <2> SUFFICES ASSUME CInv, [Next]_vars PROVE [Order!OrderNext]_(Order!orderVars)
    OBVIOUS
  <2>1. ASSUME NEW in \in Inputs \cup Quiet, Edge(in) PROVE Order!OrderNext
    <3>1. Given(in)
      BY Choices
    <3> QED BY <2>1, <3>1, OrderStep DEF Order!OrderNext
  <2>2. CASE Reset
    <3>1. Order!Clear
      BY <2>2 DEF Reset, Order!Clear, Waiting, NoPacket
    <3> QED BY <3>1 DEF Order!OrderNext
  <2>3. CASE UNCHANGED vars
    BY <2>3 DEF vars, contextVars, packetVars, doneVars, columnVars, Order!orderVars, Waiting
  <2> QED BY <2>1, <2>2, <2>3 DEF Next
<1> QED BY CollectorCorrect, <1>1, <1>2, PTL DEF Spec, OrderSpec, Order!OrderSpec

-----------------------------------------------------------------------------
(* The contexts of the run: every epoch with every number of pixels, so    *)
(* that a context with one packet (also written as none) meets longer ones *)
(* before and behind it.                                                   *)

CONSTANTS Epochs, PixelCounts

MCDescriptor ==
  {[epoch |-> e, num_pixels |-> n, is_final |-> e = 0] :
     e \in Epochs, n \in PixelCounts}

\* Another context's epoch or a misplaced last marker, and a tag that is no
\* one's, as columns show that disagree.
MCCorruptTags == {<<0, TRUE>>, <<1, FALSE>>, <<9, FALSE>>}
=============================================================================
