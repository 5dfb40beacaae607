---------------------------- MODULE Datasets_proofs ----------------------------
(***************************************************************************)
(* Theorems about Datasets for any variables, pool and registry.              *)
(***************************************************************************)
EXTENDS Datasets, FiniteSetTheorems, WellFoundedInduction, TLAPS

LEMMA NatInduct ==
  ASSUME NEW S, 0 \in S, \A n \in Nat : n \in S => n + 1 \in S
  PROVE  \A n \in Nat : n \in S
<1> SUFFICES ASSUME Nat \ S # {} PROVE FALSE  OBVIOUS
<1>1. PICK n \in Nat \ S : \A j \in Nat \ S : <<j, n>> \notin OpToRel(<, Nat)
  <2>1. Nat \ S \subseteq Nat  OBVIOUS
  <2> QED  BY <2>1, NatLessThanWellFounded, WFMin
<1>2. OpToRel(<, Nat) = {ss \in Nat \X Nat : ss[1] < ss[2]}  BY DEF OpToRel
<1>3. n # 0 /\ n - 1 \in Nat  OBVIOUS
<1>4. n - 1 \notin S  BY <1>3
<1>5. ~(n - 1 < n)
  <2>1. n - 1 \in Nat \ S /\ <<n - 1, n>> \in Nat \X Nat  BY <1>3, <1>4
  <2> QED  BY <1>1, <1>2, <2>1
<1> QED  BY <1>3, <1>5

\* a function defined from one value to the next exists
Steps(N, X) == [1 .. N -> [X -> X]]
Values(N, X) == [0 .. N -> X]
Follows(f, N, base, st) == f[0] = base /\ \A i \in 1 .. N : f[i] = st[i][f[i - 1]]
LEMMA Recursion ==
  ASSUME NEW N \in Nat, NEW X, NEW base \in X, NEW st \in Steps(N, X)
  PROVE  \E f \in Values(N, X) : Follows(f, N, base, st)
<1> USE DEF Steps, Values, Follows
<1> DEFINE R(f, n) == f[0] = base /\ \A i \in 1 .. n : f[i] = st[i][f[i - 1]]
           S == {n \in Nat : n <= N => \E f \in [0 .. n -> X] : R(f, n)}
<1>1. 0 \in S
  <2>1. [i \in 0 .. 0 |-> base] \in [0 .. 0 -> X] /\ R([i \in 0 .. 0 |-> base], 0)  OBVIOUS
  <2> QED  BY <2>1
<1>2. ASSUME NEW n \in Nat, n \in S PROVE n + 1 \in S
  <2>1. CASE n + 1 <= N
    <3>1. PICK f \in [0 .. n -> X] : R(f, n)  BY <1>2, <2>1
    <3>2. f[n] \in X /\ st[n + 1] \in [X -> X]  BY <2>1
    <3>3. st[n + 1][f[n]] \in X  BY <3>2
    <3> DEFINE g == [i \in 0 .. n + 1 |-> IF i = n + 1 THEN st[n + 1][f[n]] ELSE f[i]]
    <3>4. g \in [0 .. n + 1 -> X]  BY <3>3
    <3>5. ASSUME NEW i \in 1 .. n + 1 PROVE g[i] = st[i][g[i - 1]]
      <4>1. CASE i = n + 1
        <5>1. g[i - 1] = f[n]  BY <4>1
        <5> QED  BY <4>1, <5>1
      <4>2. CASE i \in 1 .. n
        <5>1. g[i] = f[i] /\ g[i - 1] = f[i - 1]  BY <4>2
        <5> QED  BY <3>1, <4>2, <5>1
      <4> QED  BY <4>1, <4>2
    <3>6. g[0] = base
      <4>1. g[0] = f[0]  OBVIOUS
      <4> QED  BY <3>1, <4>1
    <3> HIDE DEF g
    <3>7. R(g, n + 1)  BY <3>5, <3>6
    <3> HIDE DEF R
    <3> QED  BY <3>4, <3>7
  <2> QED  BY <2>1
<1>3. \A n \in Nat : n \in S
  <2> HIDE DEF S
  <2> QED  BY <1>1, <1>2, NatInduct
<1> QED  BY <1>3

--------------------------------------------------------------------------------
(* The pool: where blocks are.                                               *)
Block == [off : Nat, len : Nat]
Item == [var : Vars, at : Nat]

USE DatasetAssumption

LEMMA TopsFacts ==
  ASSUME NEW bs \in Seq(Block)
  PROVE  /\ Tops(bs) \in [0 .. Len(bs) -> Nat] /\ Tops(bs)[0] = 0
         /\ \A i \in 1 .. Len(bs) : Tops(bs)[i] = Tops(bs)[i - 1] + Header + bs[i].len
<1> DEFINE N == Len(bs)
           st == [i \in 1 .. N |-> [x \in Nat |-> x + Header + bs[i].len]]
           F(f) == [i \in 0 .. N |-> IF i = 0 THEN 0 ELSE f[i - 1] + Header + bs[i].len]
<1>1. N \in Nat /\ \A i \in 1 .. N : bs[i] \in Block /\ bs[i].len \in Nat
  <2>1. N \in Nat /\ \A i \in 1 .. N : bs[i] \in Block  OBVIOUS
  <2>2. \A b \in Block : b.len \in Nat  BY DEF Block
  <2> QED  BY <2>1, <2>2
<1>2. st \in Steps(N, Nat)  BY <1>1 DEF Steps
<1>3. PICK f \in Values(N, Nat) : Follows(f, N, 0, st)
  <2> HIDE DEF N, st
  <2> QED  BY <1>1, <1>2, Recursion
<1>4. f = F(f)
  <2>1. /\ f \in [0 .. N -> Nat] /\ f[0] = 0
        /\ \A i \in 1 .. N : f[i] = st[i][f[i - 1]]
    BY <1>3 DEF Values, Follows
  <2>2. ASSUME NEW i \in 1 .. N PROVE st[i][f[i - 1]] = f[i - 1] + Header + bs[i].len
    <3>1. i - 1 \in 0 .. N /\ f[i - 1] \in Nat  BY <1>1, <2>1
    <3> QED  BY <3>1
  <2>3. ASSUME NEW i \in 0 .. N
        PROVE  f[i] = IF i = 0 THEN 0 ELSE f[i - 1] + Header + bs[i].len
    <3>1. CASE i = 0  BY <2>1, <3>1
    <3>2. CASE i # 0
      <4>1. i \in 1 .. N  BY <1>1, <3>2
      <4> QED  BY <2>1, <2>2, <3>2, <4>1
    <3> QED  BY <3>1, <3>2
  <2> QED  BY <2>1, <2>3
<1>5. Tops(bs) = CHOOSE top : top = F(top)  BY DEF Tops
<1>6. PICK t : t = Tops(bs) /\ t = F(t)  BY <1>4, <1>5
<1> HIDE DEF F
<1>7. \A n \in Nat : n \in {k \in Nat : k <= N => t[k] \in Nat}
  <2> DEFINE S == {k \in Nat : k <= N => t[k] \in Nat}
  <2>1. 0 \in S  BY <1>6, <1>1 DEF F
  <2>2. ASSUME NEW n \in Nat, n \in S PROVE n + 1 \in S
    <3>1. CASE n + 1 <= N
      <4>1. t[n + 1] = t[n] + Header + bs[n + 1].len  BY <1>1, <1>6, <3>1 DEF F
      <4>2. bs[n + 1].len \in Nat /\ t[n] \in Nat  BY <1>1, <2>2, <3>1
      <4> QED  BY <4>1, <4>2
    <3> QED  BY <3>1
  <2> HIDE DEF S
  <2>3. \A n \in Nat : n \in S  BY <2>1, <2>2, NatInduct
  <2> QED  BY <2>3 DEF S
<1>8. t \in [0 .. N -> Nat]  BY <1>6, <1>7, <1>1 DEF F
<1>9. t[0] = 0 /\ \A i \in 1 .. N : t[i] = t[i - 1] + Header + bs[i].len
  BY <1>1, <1>6 DEF F
<1> QED  BY <1>6, <1>8, <1>9

\* a block lies between the top of the one before it and its own
LEMMA BlockFacts ==
  ASSUME NEW bs \in Seq(Block)
  PROVE  /\ Len(bs) \in Nat /\ DOMAIN bs = 1 .. Len(bs)
         /\ \A i \in 1 .. Len(bs) : bs[i] \in Block /\ bs[i].off \in Nat /\ bs[i].len \in Nat
<1>1. \A i \in 1 .. Len(bs) : bs[i] \in Block  OBVIOUS
<1>2. \A b \in Block : b.off \in Nat /\ b.len \in Nat  BY DEF Block
<1> QED  BY <1>1, <1>2

LEMMA PlaceFacts ==
  ASSUME NEW bs \in Seq(Block)
  PROVE  /\ Used(bs) \in Nat /\ Used(bs) = Tops(bs)[Len(bs)]
         /\ \A i \in 1 .. Len(bs) :
              /\ DataAt(bs, i) \in Nat /\ Tops(bs)[i - 1] \in Nat /\ Tops(bs)[i] \in Nat
              /\ DataAt(bs, i) = Tops(bs)[i - 1] + Header
              /\ Tops(bs)[i] = DataAt(bs, i) + bs[i].len
<1>1. Len(bs) \in Nat /\ \A i \in 1 .. Len(bs) : bs[i].len \in Nat  BY BlockFacts
<1>2. /\ Tops(bs) \in [0 .. Len(bs) -> Nat]
      /\ \A i \in 1 .. Len(bs) : Tops(bs)[i] = Tops(bs)[i - 1] + Header + bs[i].len
  BY TopsFacts
<1>3. \A i \in 1 .. Len(bs) : i - 1 \in 0 .. Len(bs) /\ i \in 0 .. Len(bs)  BY <1>1
<1>4. /\ Tops(bs)[Len(bs)] \in Nat
      /\ \A i \in 1 .. Len(bs) : Tops(bs)[i - 1] \in Nat /\ Tops(bs)[i] \in Nat
  <2>1. Len(bs) \in 0 .. Len(bs) /\ \A i \in 0 .. Len(bs) : Tops(bs)[i] \in Nat
    BY <1>1, <1>2
  <2> QED  BY <1>3, <2>1
<1>5. ASSUME NEW i \in 1 .. Len(bs)
      PROVE  /\ DataAt(bs, i) \in Nat /\ DataAt(bs, i) = Tops(bs)[i - 1] + Header
             /\ Tops(bs)[i] = DataAt(bs, i) + bs[i].len
  BY <1>1, <1>2, <1>4 DEF DataAt
<1> QED  BY <1>4, <1>5 DEF Used

LEMMA TopsMonotone ==
  ASSUME NEW bs \in Seq(Block)
  PROVE  \A i, j \in 0 .. Len(bs) : i <= j => Tops(bs)[i] <= Tops(bs)[j]
<1> DEFINE N == Len(bs)
           t == Tops(bs)
           S == {n \in Nat : n <= N => \A i \in 0 .. n : t[i] <= t[n]}
<1>1. /\ N \in Nat /\ t \in [0 .. N -> Nat]
      /\ \A i \in 1 .. N : t[i - 1] <= t[i]
  <2>1. Len(bs) \in Nat  OBVIOUS
  <2>2. \A i \in 1 .. N : t[i - 1] <= t[i]
    <3> SUFFICES ASSUME NEW i \in 1 .. Len(bs) PROVE Tops(bs)[i - 1] <= Tops(bs)[i]
      OBVIOUS
    <3>1. bs[i].len \in Nat /\ Tops(bs)[i - 1] \in Nat /\ Header \in Nat  BY BlockFacts, PlaceFacts
    <3>2. Tops(bs)[i] = Tops(bs)[i - 1] + Header + bs[i].len  BY TopsFacts
    <3> QED  BY <3>1, <3>2
  <2> QED  BY <2>1, <2>2, TopsFacts
<1> HIDE DEF N, t
<1>2. 0 \in S  BY <1>1
<1>3. ASSUME NEW n \in Nat, n \in S PROVE n + 1 \in S
  <2>1. CASE n + 1 <= N
    <3>1. \A i \in 0 .. n : t[i] <= t[n]  BY <1>1, <1>3, <2>1
    <3>2. t[n] <= t[n + 1] /\ t[n] \in Nat /\ t[n + 1] \in Nat
      <4>1. n + 1 \in 1 .. N /\ n + 1 - 1 = n  BY <2>1, <1>1
      <4> QED  BY <1>1, <4>1
    <3>3. ASSUME NEW i \in 0 .. n + 1 PROVE t[i] <= t[n + 1]
      <4>1. CASE i = n + 1  BY <3>2, <4>1
      <4>2. CASE i \in 0 .. n
        <5>1. t[i] \in Nat  BY <1>1, <2>1, <4>2
        <5> QED  BY <3>1, <3>2, <4>2, <5>1
      <4> QED  BY <4>1, <4>2
    <3> QED  BY <3>3
  <2> QED  BY <2>1
<1>4. \A n \in Nat : n \in S
  <2> HIDE DEF S
  <2> QED  BY <1>2, <1>3, NatInduct
<1>5. ASSUME NEW i \in 0 .. N, NEW j \in 0 .. N, i <= j PROVE t[i] <= t[j]
  <2>1. j \in Nat /\ i \in 0 .. j /\ j <= N  BY <1>1, <1>5
  <2> QED  BY <1>4, <2>1
<1> QED  BY <1>5 DEF N, t

\* the tops depend on nothing but the lengths
LEMMA TopsSame ==
  ASSUME NEW bs \in Seq(Block), NEW cs \in Seq(Block), NEW M \in Nat, M <= Len(bs), M <= Len(cs),
         \A i \in 1 .. M : bs[i].len = cs[i].len
  PROVE  \A i \in 0 .. M : Tops(bs)[i] = Tops(cs)[i]
<1> DEFINE S == {n \in Nat : n <= M => Tops(bs)[n] = Tops(cs)[n]}
<1>1. 0 \in S  BY TopsFacts
<1>2. ASSUME NEW n \in Nat, n \in S PROVE n + 1 \in S
  <2>1. CASE n + 1 <= M
    <3>1. n + 1 \in 1 .. Len(bs) /\ n + 1 \in 1 .. Len(cs) /\ n + 1 \in 1 .. M
      BY <2>1, BlockFacts
    <3>2. Tops(bs)[n + 1] = Tops(bs)[n] + Header + bs[n + 1].len
      <4>1. (n + 1) - 1 = n  OBVIOUS
      <4> QED  BY <3>1, <4>1, TopsFacts
    <3>3. Tops(cs)[n + 1] = Tops(cs)[n] + Header + cs[n + 1].len
      <4>1. (n + 1) - 1 = n  OBVIOUS
      <4> QED  BY <3>1, <4>1, TopsFacts
    <3>4. bs[n + 1].len = cs[n + 1].len /\ Tops(bs)[n] = Tops(cs)[n]
      BY <1>2, <2>1, <3>1
    <3> QED  BY <3>2, <3>3, <3>4
  <2> QED  BY <2>1
<1>3. \A n \in Nat : n \in S
  <2> HIDE DEF S
  <2> QED  BY <1>1, <1>2, NatInduct
<1> QED  BY <1>3

--------------------------------------------------------------------------------
(* The subsequence at some indices.                                          *)

Increasing(idx, n) == \A j, k \in 1 .. n : j < k => idx[j] < idx[k]

\* the table k is what is kept of s: its entries at idx, which are I
Selects(s, I, k, idx) ==
  /\ idx \in [1 .. Len(k) -> I] /\ Increasing(idx, Len(k))
  /\ \A j \in 1 .. Len(k) : k[j] = s[idx[j]]
  /\ \A i \in I : \E j \in 1 .. Len(k) : idx[j] = i
Everything(s, I, k) ==
  Len(k) = Len(s) => I = DOMAIN s /\ \A j \in DOMAIN s : k[j] = s[j]

LEMMA KeptRecursion ==
  ASSUME NEW X, NEW s \in Seq(X), NEW I
  PROVE  \E f \in [0 .. Len(s) -> Seq(X)] :
           /\ Kept(s, I) = f[Len(s)] /\ f[0] = <<>>
           /\ \A i \in 1 .. Len(s) : f[i] = IF i \in I THEN Append(f[i - 1], s[i]) ELSE f[i - 1]
<1> DEFINE N == Len(s)
           st == [i \in 1 .. N |-> [x \in Seq(X) |-> IF i \in I THEN Append(x, s[i]) ELSE x]]
           F(f) == [i \in 0 .. N |-> IF i = 0 THEN <<>>
                                     ELSE IF i \in I THEN Append(f[i - 1], s[i]) ELSE f[i - 1]]
<1>1. N \in Nat /\ (\A i \in 1 .. N : s[i] \in X) /\ <<>> \in Seq(X)  OBVIOUS
<1>2. st \in Steps(N, Seq(X))
  <2>1. ASSUME NEW i \in 1 .. N, NEW x \in Seq(X)
        PROVE  (IF i \in I THEN Append(x, s[i]) ELSE x) \in Seq(X)
    <3>1. s[i] \in X  BY <1>1
    <3> QED  BY <3>1
  <2> QED  BY <2>1 DEF Steps
<1>3. PICK f \in Values(N, Seq(X)) : Follows(f, N, <<>>, st)
  <2>1. PICK b \in Seq(X) : b = <<>>  BY <1>1
  <2> HIDE DEF N, st
  <2> QED  BY <1>1, <1>2, <2>1, Recursion
<1>4. f = F(f)
  <2>1. /\ f \in [0 .. N -> Seq(X)] /\ f[0] = <<>>
        /\ \A i \in 1 .. N : f[i] = st[i][f[i - 1]]
    BY <1>3 DEF Values, Follows
  <2>2. ASSUME NEW i \in 1 .. N
        PROVE  st[i][f[i - 1]] = IF i \in I THEN Append(f[i - 1], s[i]) ELSE f[i - 1]
    <3>1. i - 1 \in 0 .. N /\ f[i - 1] \in Seq(X)  BY <1>1, <2>1
    <3> QED  BY <3>1
  <2> HIDE DEF st
  <2>3. ASSUME NEW i \in 0 .. N
        PROVE  f[i] = IF i = 0 THEN <<>>
                      ELSE IF i \in I THEN Append(f[i - 1], s[i]) ELSE f[i - 1]
    <3>1. CASE i = 0  BY <2>1, <3>1
    <3>2. CASE i # 0
      <4>1. i \in 1 .. N  BY <1>1, <3>2
      <4> QED  BY <2>1, <2>2, <3>2, <4>1
    <3> QED  BY <3>1, <3>2
  <2> QED  BY <2>1, <2>3
<1>5. Kept(s, I) = (CHOOSE upTo : upTo = F(upTo))[N]  BY DEF Kept
<1>6. PICK t : Kept(s, I) = t[N] /\ t = F(t)  BY <1>4, <1>5
<1>7. /\ DOMAIN t = 0 .. N /\ t[0] = <<>>
      /\ \A i \in 1 .. N : t[i] = IF i \in I THEN Append(t[i - 1], s[i]) ELSE t[i - 1]
      /\ t = [i \in 0 .. N |-> t[i]]
  <2> DEFINE T == [i \in 0 .. N |-> IF i = 0 THEN <<>>
                     ELSE IF i \in I THEN Append(t[i - 1], s[i]) ELSE t[i - 1]]
  <2>1. t = T  BY <1>6
  <2>2. DOMAIN T = 0 .. N /\ T[0] = <<>>  BY <1>1
  <2>5. T = [i \in 0 .. N |-> T[i]]  OBVIOUS
  <2>3. \A i \in 1 .. N : i \in 0 .. N /\ i # 0  BY <1>1
  <2>4. \A i \in 1 .. N : T[i] = IF i \in I THEN Append(t[i - 1], s[i]) ELSE t[i - 1]
    BY <2>3
  <2> HIDE DEF T
  <2> QED  BY <2>1, <2>2, <2>4, <2>5
<1> HIDE DEF F
<1> DEFINE S == {n \in Nat : n <= N => t[n] \in Seq(X)}
<1>8. 0 \in S  BY <1>1, <1>7
<1>9. ASSUME NEW n \in Nat, n \in S PROVE n + 1 \in S
  <2>1. CASE n + 1 <= N
    <3>1. n + 1 \in 1 .. N /\ (n + 1) - 1 = n  BY <1>1, <2>1
    <3>2. t[n + 1] = IF n + 1 \in I THEN Append(t[n], s[n + 1]) ELSE t[n]  BY <1>7, <3>1
    <3>3. s[n + 1] \in X /\ t[n] \in Seq(X)  BY <1>1, <1>9, <2>1, <3>1
    <3>4. Append(t[n], s[n + 1]) \in Seq(X)
      <4>1. PICK g \in Seq(X), y \in X : g = t[n] /\ y = s[n + 1]  BY <3>3
      <4>2. Append(g, y) \in Seq(X)  OBVIOUS
      <4> QED  BY <4>1, <4>2
    <3>5. t[n + 1] \in Seq(X)  BY <3>2, <3>3, <3>4
    <3> QED  BY <3>5
  <2> QED  BY <2>1
<1>10. \A n \in Nat : n \in S
  <2> HIDE DEF S
  <2> QED  BY <1>8, <1>9, NatInduct
<1>11. t \in [0 .. N -> Seq(X)]
  <2>1. \A i \in 0 .. N : t[i] \in Seq(X)  BY <1>1, <1>10
  <2> QED  BY <1>7, <2>1
<1> QED  BY <1>6, <1>7, <1>11

LEMMA KeptFacts ==
  ASSUME NEW X, NEW s \in Seq(X), NEW I \in SUBSET DOMAIN s
  PROVE  /\ Kept(s, I) \in Seq(X) /\ Len(Kept(s, I)) <= Len(s)
         /\ Everything(s, I, Kept(s, I)) /\ \E idx : Selects(s, I, Kept(s, I), idx)
<1> DEFINE N == Len(s)
<1>1. N \in Nat /\ DOMAIN s = 1 .. N /\ \A i \in 1 .. N : s[i] \in X  OBVIOUS
<1>2. PICK f \in [0 .. N -> Seq(X)] :
        /\ Kept(s, I) = f[N] /\ f[0] = <<>>
        /\ \A i \in 1 .. N : f[i] = IF i \in I THEN Append(f[i - 1], s[i]) ELSE f[i - 1]
  BY KeptRecursion
<1> HIDE DEF N
<1> DEFINE Upto(n) == {i \in I : i <= n}
           P(n, idx) ==
             /\ \A j \in 1 .. Len(f[n]) : f[n][j] = s[idx[j]]
             /\ \A i \in Upto(n) : \E j \in 1 .. Len(f[n]) : idx[j] = i
             /\ Increasing(idx, Len(f[n]))
           Q(n) == /\ Len(f[n]) <= n
                   /\ Len(f[n]) = n => \A j \in 1 .. n : j \in I /\ f[n][j] = s[j]
                   /\ \E idx \in [1 .. Len(f[n]) -> Upto(n)] : P(n, idx)
           S == {n \in Nat : n <= N => Q(n)}
<1>3. 0 \in S
  <2>1. f[0] = <<>> /\ Len(f[0]) = 0  BY <1>1, <1>2
  <2>2. \A i \in I : ~(i <= 0)  BY <1>1
  <2> DEFINE idx == [j \in 1 .. Len(f[0]) |-> 1]
  <2>3. idx \in [1 .. Len(f[0]) -> Upto(0)] /\ P(0, idx)  BY <2>1, <2>2 DEF Increasing
  <2> HIDE DEF idx, P
  <2>4. \A j \in 1 .. 0 : j \in I /\ f[0][j] = s[j]  OBVIOUS
  <2> QED  BY <2>1, <2>3, <2>4
<1>4. ASSUME NEW n \in Nat, n \in S PROVE n + 1 \in S
  <2>1. SUFFICES ASSUME n + 1 <= N PROVE Q(n + 1)  OBVIOUS
  <2>2. n + 1 \in 1 .. N /\ (n + 1) - 1 = n /\ n \in 0 .. N /\ n + 1 \in 0 .. N  BY <1>1, <2>1
  <2>3. f[n + 1] = IF n + 1 \in I THEN Append(f[n], s[n + 1]) ELSE f[n]  BY <1>2, <2>2
  <2>4. f[n] \in Seq(X) /\ f[n + 1] \in Seq(X) /\ s[n + 1] \in X  BY <1>1, <1>2, <2>2
  <2>5. Q(n)
    <3> HIDE DEF Q
    <3>1. n <= N  BY <1>1, <2>1
    <3> QED  BY <1>4, <3>1
  <2>6. PICK idx \in [1 .. Len(f[n]) -> Upto(n)] : P(n, idx)  BY <2>5
  <2>7. Len(f[n]) \in Nat /\ Len(f[n]) <= n  BY <2>4, <2>5
  <2>8. CASE n + 1 \notin I
    <3>1. f[n + 1] = f[n] /\ Upto(n + 1) = Upto(n)
      <4>1. \A i \in I : i \in Int /\ i # n + 1  BY <1>1, <2>8
      <4> QED  BY <2>3, <2>8, <4>1
    <3>2. P(n + 1, idx)  BY <2>6, <3>1
    <3>3. Len(f[n + 1]) <= n + 1 /\ Len(f[n + 1]) # n + 1  BY <2>7, <3>1
    <3>4. idx \in [1 .. Len(f[n + 1]) -> Upto(n + 1)]  BY <2>6, <3>1
    <3> HIDE DEF P, Upto
    <3> QED  BY <3>2, <3>3, <3>4
  <2>9. CASE n + 1 \in I
    <3> DEFINE L == Len(f[n])
    <3>1. f[n + 1] = Append(f[n], s[n + 1])  BY <2>3, <2>9
    <3>2. /\ Len(f[n + 1]) = L + 1
          /\ f[n + 1][L + 1] = s[n + 1] /\ \A j \in 1 .. L : f[n + 1][j] = f[n][j]
      <4>1. PICK g \in Seq(X), y \in X : g = f[n] /\ y = s[n + 1]  BY <2>4
      <4>2. f[n + 1] = Append(g, y)  BY <3>1, <4>1
      <4>3. Len(Append(g, y)) = Len(g) + 1 /\ Append(g, y)[Len(g) + 1] = y
            /\ \A j \in 1 .. Len(g) : Append(g, y)[j] = g[j]
        OBVIOUS
      <4> QED  BY <4>1, <4>2, <4>3
    <3> DEFINE new == [j \in 1 .. L + 1 |-> IF j = L + 1 THEN n + 1 ELSE idx[j]]
    <3>3. /\ new[L + 1] = n + 1 /\ \A j \in 1 .. L : new[j] = idx[j] /\ idx[j] \in I /\ idx[j] <= n
          /\ L \in Nat
      <4>1. L \in Nat  BY <2>7
      <4>2. \A j \in 1 .. L : idx[j] \in I /\ idx[j] <= n  BY <2>6
      <4>3. new[L + 1] = n + 1 /\ \A j \in 1 .. L : new[j] = idx[j]  BY <4>1
      <4> HIDE DEF new, L
      <4> QED  BY <4>1, <4>2, <4>3
    <3>4. new \in [1 .. L + 1 -> Upto(n + 1)]
      <4>1. \A i \in I : i \in Int  BY <1>1
      <4>2. ASSUME NEW j \in 1 .. L + 1 PROVE new[j] \in Upto(n + 1)
        <5>1. CASE j = L + 1  BY <2>9, <3>3, <5>1
        <5>2. CASE j \in 1 .. L
          <6>1. new[j] \in I /\ new[j] <= n /\ new[j] \in Int  BY <3>3, <4>1, <5>2
          <6> QED  BY <6>1
        <5> QED  BY <3>3, <5>1, <5>2
      <4> HIDE DEF Upto
      <4> QED  BY <4>2
    <3> HIDE DEF new
    <3>5. P(n + 1, new)
      <4>1. ASSUME NEW j \in 1 .. L + 1 PROVE f[n + 1][j] = s[new[j]]
        <5>1. CASE j = L + 1  BY <3>2, <3>3, <5>1
        <5>2. CASE j \in 1 .. L  BY <2>6, <3>2, <3>3, <5>2
        <5> QED  BY <3>3, <5>1, <5>2
      <4>2. ASSUME NEW i \in Upto(n + 1) PROVE \E j \in 1 .. L + 1 : new[j] = i
        <5>1. CASE i = n + 1
          <6>1. L + 1 \in 1 .. L + 1  BY <3>3
          <6> QED  BY <3>3, <5>1, <6>1
        <5>2. CASE i # n + 1
          <6>1. i \in Upto(n)  BY <1>1, <5>2
          <6>2. PICK j \in 1 .. L : idx[j] = i  BY <2>6, <6>1
          <6>3. j \in 1 .. L + 1 /\ new[j] = i  BY <3>3, <6>2
          <6> QED  BY <6>3
        <5> QED  BY <5>1, <5>2
      <4>3. Increasing(new, L + 1)
        <5> SUFFICES ASSUME NEW j \in 1 .. L + 1, NEW k \in 1 .. L + 1, j < k
                     PROVE  new[j] < new[k]
          BY DEF Increasing
        <5>1. j \in 1 .. L  BY <3>3
        <5>2. new[j] = idx[j] /\ idx[j] <= n /\ idx[j] \in Int  BY <1>1, <3>3, <5>1
        <5>3. CASE k = L + 1  BY <3>3, <5>2, <5>3
        <5>4. CASE k \in 1 .. L
          <6>1. idx[j] < idx[k] /\ new[k] = idx[k]  BY <2>6, <3>3, <5>1, <5>4 DEF Increasing
          <6> QED  BY <5>2, <6>1
        <5> QED  BY <3>3, <5>3, <5>4
      <4> QED  BY <3>2, <4>1, <4>2, <4>3
    <3>6. Len(f[n + 1]) <= n + 1  BY <2>7, <3>2
    <3>7. ASSUME Len(f[n + 1]) = n + 1, NEW j \in 1 .. n + 1
          PROVE  j \in I /\ f[n + 1][j] = s[j]
      <4>1. L = n  BY <2>7, <3>2, <3>7
      <4>2. CASE j = n + 1  BY <2>9, <3>2, <4>1, <4>2
      <4>3. CASE j \in 1 .. n  BY <2>5, <3>2, <4>1, <4>3
      <4> QED  BY <4>2, <4>3
    <3>8. new \in [1 .. Len(f[n + 1]) -> Upto(n + 1)]  BY <3>2, <3>4
    <3> HIDE DEF P, Upto
    <3> QED  BY <3>5, <3>6, <3>7, <3>8
  <2> QED  BY <2>8, <2>9
<1>5. \A n \in Nat : n \in S
  <2> HIDE DEF S
  <2> QED  BY <1>3, <1>4, NatInduct
<1>6. Q(N) /\ f[N] \in Seq(X)
  <2> HIDE DEF Q
  <2> QED  BY <1>1, <1>2, <1>5
<1>7. Upto(N) = I  BY <1>1
<1>8. PICK idx \in [1 .. Len(f[N]) -> I] : P(N, idx)  BY <1>6, <1>7
<1>9. Len(f[N]) = N => I = DOMAIN s /\ \A j \in DOMAIN s : f[N][j] = s[j]
  BY <1>1, <1>6
<1>10. Len(f[N]) <= N  BY <1>6
<1>11. \A i \in I : \E j \in 1 .. Len(f[N]) : idx[j] = i  BY <1>7, <1>8
<1>12. /\ \A j \in 1 .. Len(f[N]) : f[N][j] = s[idx[j]]
       /\ Increasing(idx, Len(f[N]))
  BY <1>8
<1> HIDE DEF P, Q, S, Upto
<1>13. Selects(s, I, f[N], idx)  BY <1>8, <1>11, <1>12 DEF Selects
<1>14. Everything(s, I, f[N])  BY <1>9 DEF Everything, N
<1> QED  BY <1>2, <1>6, <1>10, <1>13, <1>14 DEF N

\* c holds the entries of es that m still has, and no others
Current(es, m, c) ==
  /\ c \in Seq(Item) /\ Len(c) <= Len(es)
  /\ \A j \in DOMAIN c : \E i \in DOMAIN es : c[j] = es[i] /\ m[es[i].var] = es[i].at
  /\ \A i \in DOMAIN es : m[es[i].var] = es[i].at => \E j \in DOMAIN c : c[j] = es[i]

LEMMA CollectFacts ==
  ASSUME NEW es \in Seq(Item), NEW m
  PROVE  Current(es, m, Collect(es, m))
<1> DEFINE I == {i \in DOMAIN es : m[es[i].var] = es[i].at}
<1>1. I \in SUBSET DOMAIN es  OBVIOUS
<1>2. Collect(es, m) = Kept(es, I)  BY DEF Collect
<1>3. PICK k : k = Kept(es, I)  OBVIOUS
<1>4. \A i \in I : i \in DOMAIN es /\ m[es[i].var] = es[i].at  OBVIOUS
<1>5. \A i \in DOMAIN es : m[es[i].var] = es[i].at => i \in I  OBVIOUS
<1> HIDE DEF I
<1>6. k \in Seq(Item) /\ Len(k) <= Len(es)  BY <1>1, <1>3, KeptFacts
<1>11. PICK idx : Selects(es, I, k, idx)  BY <1>1, <1>3, KeptFacts
<1>7. /\ idx \in [1 .. Len(k) -> I]
      /\ \A j \in 1 .. Len(k) : k[j] = es[idx[j]]
      /\ \A i \in I : \E j \in 1 .. Len(k) : idx[j] = i
  BY <1>11 DEF Selects
<1>8. DOMAIN k = 1 .. Len(k)  BY <1>6
<1>9. \A j \in DOMAIN k : \E i \in DOMAIN es : k[j] = es[i] /\ m[es[i].var] = es[i].at
  BY <1>4, <1>7, <1>8
<1>10. \A i \in DOMAIN es : m[es[i].var] = es[i].at => \E j \in DOMAIN k : k[j] = es[i]
  BY <1>5, <1>7, <1>8
<1> QED  BY <1>2, <1>3, <1>6, <1>9, <1>10 DEF Current

--------------------------------------------------------------------------------
(* Compaction: where the kept blocks come from and where they go.            *)

\* every header names the place its block is at
WellPlaced(bs) == \A i \in DOMAIN bs : bs[i].off = DataAt(bs, i)

LEMMA HeaderNat == Header \in Nat /\ Header >= 1
BY DatasetAssumption

\* live are the blocks of bs at the indices idx
Compacts(bs, live, idx) ==
  /\ idx \in [1 .. Len(live) -> 1 .. Len(bs)] /\ Increasing(idx, Len(live))
  /\ \A j \in 1 .. Len(live) : live[j] = bs[idx[j]]

LEMMA CompactionBound ==
  ASSUME NEW bs \in Seq(Block), NEW live \in Seq(Block), NEW idx, Compacts(bs, live, idx)
  PROVE  /\ Used(live) <= Used(bs)
         /\ \A j \in 1 .. Len(live) : DataAt(live, j) <= DataAt(bs, idx[j])
<1> DEFINE N == Len(live)
           t == Tops(live)
           u == Tops(bs)
           S == {n \in Nat : n <= N => n = 0 \/ t[n] <= u[idx[n]]}
<1>0. N \in Nat /\ Len(bs) \in Nat /\ Header \in Nat  BY BlockFacts, HeaderNat
<1>1. \A j \in 1 .. N : idx[j] \in 1 .. Len(bs) /\ live[j] = bs[idx[j]] /\ live[j].len \in Nat
  BY BlockFacts DEF Compacts
<1>2. t[0] = 0 /\ \A j \in 0 .. N : t[j] \in Nat  BY TopsFacts
<1>3. \A j \in 0 .. Len(bs) : u[j] \in Nat  BY TopsFacts
<1>4. \A j \in 1 .. N : t[j] = t[j - 1] + Header + live[j].len  BY TopsFacts
<1>5. \A i \in 1 .. Len(bs) : u[i] = u[i - 1] + Header + bs[i].len  BY TopsFacts
<1>6. \A i, j \in 0 .. Len(bs) : i <= j => u[i] <= u[j]  BY TopsMonotone
<1>7. \A j, k \in 1 .. N : j < k => idx[j] < idx[k]  BY DEF Compacts, Increasing
<1> HIDE DEF t, u
<1>8. 0 \in S  OBVIOUS
<1>9. ASSUME NEW n \in Nat, n \in S PROVE n + 1 \in S
  <2>1. SUFFICES ASSUME n + 1 <= N PROVE t[n + 1] <= u[idx[n + 1]]  OBVIOUS
  <2>2. n + 1 \in 1 .. N /\ (n + 1) - 1 = n /\ n \in 0 .. N  BY <1>0, <2>1
  <2>3. t[n + 1] = t[n] + Header + live[n + 1].len  BY <1>4, <2>2
  <2> DEFINE i == idx[n + 1]
  <2>4. i \in 1 .. Len(bs) /\ i - 1 \in 0 .. Len(bs) /\ i \in 0 .. Len(bs)  BY <1>0, <1>1, <2>2
  <2>5. u[i] = u[i - 1] + Header + live[n + 1].len  BY <1>1, <1>5, <2>2, <2>4
  <2>6. t[n] \in Nat /\ u[i - 1] \in Nat /\ live[n + 1].len \in Nat  BY <1>1, <1>2, <1>3, <2>2, <2>4
  <2>7. t[n] <= u[i - 1]
    <3>1. CASE n = 0  BY <1>2, <2>6, <3>1
    <3>2. CASE n # 0
      <4>1. n \in 1 .. N  BY <2>2, <3>2
      <4>2. idx[n] < i /\ idx[n] \in 1 .. Len(bs)  BY <1>1, <1>7, <2>2, <4>1
      <4>3. idx[n] \in 0 .. Len(bs) /\ idx[n] <= i - 1  BY <1>0, <2>4, <4>2
      <4>4. u[idx[n]] <= u[i - 1] /\ u[idx[n]] \in Nat  BY <1>3, <1>6, <2>4, <4>3
      <4>5. t[n] <= u[idx[n]]  BY <1>0, <1>9, <3>2, <4>1
      <4> QED  BY <2>6, <4>4, <4>5
    <3> QED  BY <3>1, <3>2
  <2> HIDE DEF i
  <2>8. t[n + 1] <= u[i]  BY <1>0, <2>3, <2>5, <2>6, <2>7
  <2> QED  BY <2>8 DEF i
<1>10. \A n \in Nat : n \in S
  <2> HIDE DEF S
  <2> QED  BY <1>8, <1>9, NatInduct
<1>11. ASSUME NEW j \in 1 .. N PROVE t[j] <= u[idx[j]]
  <2>1. j \in Nat /\ j <= N /\ j # 0  BY <1>0
  <2> QED  BY <1>10, <2>1
<1>12. ASSUME NEW j \in 1 .. N PROVE DataAt(live, j) <= DataAt(bs, idx[j])
  <2>1. idx[j] \in 1 .. Len(bs) /\ live[j] = bs[idx[j]] /\ live[j].len \in Nat  BY <1>1
  <2>2. DataAt(live, j) \in Nat /\ t[j] = DataAt(live, j) + live[j].len  BY PlaceFacts DEF t
  <2>3. DataAt(bs, idx[j]) \in Nat /\ u[idx[j]] = DataAt(bs, idx[j]) + live[j].len
    BY <2>1, PlaceFacts DEF u
  <2> QED  BY <1>11, <2>1, <2>2, <2>3
<1>13. Used(live) <= Used(bs)
  <2>1. Used(live) = t[N] /\ Used(bs) = u[Len(bs)]  BY DEF t, u, Used
  <2>2. CASE N = 0
    <3>1. Len(bs) \in 0 .. Len(bs)  BY <1>0
    <3>2. u[Len(bs)] \in Nat  BY <1>3, <3>1
    <3> QED  BY <1>2, <2>1, <2>2, <3>2
  <2>3. CASE N # 0
    <3>1. N \in 1 .. N /\ N \in 0 .. N  BY <1>0, <2>3
    <3>2. idx[N] \in 0 .. Len(bs) /\ idx[N] <= Len(bs) /\ Len(bs) \in 0 .. Len(bs)
      BY <1>0, <1>1, <3>1
    <3>3. u[idx[N]] <= u[Len(bs)] /\ u[idx[N]] \in Nat /\ u[Len(bs)] \in Nat /\ t[N] \in Nat
      BY <1>2, <1>3, <1>6, <3>1, <3>2
    <3>4. t[N] <= u[idx[N]]  BY <1>11, <3>1
    <3> QED  BY <2>1, <3>3, <3>4
  <2> QED  BY <2>2, <2>3
<1> QED  BY <1>12, <1>13

\* the places kept blocks come from are distinct and in order
LEMMA CompactionOrder ==
  ASSUME NEW bs \in Seq(Block), NEW live \in Seq(Block), NEW idx, Compacts(bs, live, idx),
         WellPlaced(bs)
  PROVE  /\ \A j \in 1 .. Len(live) :
              /\ live[j].off = DataAt(bs, idx[j]) /\ DataAt(live, j) <= live[j].off
              /\ live[j].off + live[j].len <= Used(bs)
         /\ \A j, k \in 1 .. Len(live) : j < k => live[j].off < live[k].off
<1>0. Len(live) \in Nat /\ Len(bs) \in Nat /\ DOMAIN bs = 1 .. Len(bs) /\ Header \in Nat /\ Header >= 1
  BY BlockFacts, HeaderNat
<1>1. ASSUME NEW j \in 1 .. Len(live)
      PROVE  /\ live[j].off = DataAt(bs, idx[j]) /\ idx[j] \in 1 .. Len(bs) /\ live[j].len = bs[idx[j]].len
             /\ live[j].off \in Nat /\ live[j].len \in Nat
             /\ Tops(bs)[idx[j]] = live[j].off + live[j].len
             /\ Tops(bs)[idx[j] - 1] + Header = live[j].off
             /\ Tops(bs)[idx[j] - 1] \in Nat /\ Tops(bs)[idx[j]] \in Nat
  <2>1. idx[j] \in 1 .. Len(bs) /\ live[j] = bs[idx[j]]  BY DEF Compacts
  <2>2. live[j].off = DataAt(bs, idx[j])  BY <1>0, <2>1 DEF WellPlaced
  <2>3. live[j].off \in Nat /\ live[j].len \in Nat  BY BlockFacts
  <2> QED  BY <2>1, <2>2, <2>3, PlaceFacts
<1>2. \A j \in 1 .. Len(live) : DataAt(live, j) <= live[j].off  BY <1>1, CompactionBound
<1>3. ASSUME NEW j \in 1 .. Len(live) PROVE live[j].off + live[j].len <= Used(bs)
  <2>1. idx[j] \in 0 .. Len(bs) /\ Len(bs) \in 0 .. Len(bs) /\ idx[j] <= Len(bs)  BY <1>0, <1>1
  <2>2. Tops(bs)[idx[j]] <= Tops(bs)[Len(bs)]  BY <2>1, TopsMonotone
  <2> QED  BY <1>1, <2>2 DEF Used
<1>4. ASSUME NEW j \in 1 .. Len(live), NEW k \in 1 .. Len(live), j < k
      PROVE  live[j].off < live[k].off
  <2>1. idx[j] < idx[k]  BY <1>4 DEF Compacts, Increasing
  <2>2. idx[j] \in 0 .. Len(bs) /\ idx[k] - 1 \in 0 .. Len(bs) /\ idx[j] <= idx[k] - 1
    BY <1>0, <1>1, <2>1
  <2>3. Tops(bs)[idx[j]] <= Tops(bs)[idx[k] - 1]  BY <2>2, TopsMonotone
  <2>4. /\ Tops(bs)[idx[j]] = live[j].off + live[j].len
        /\ live[j].off \in Nat /\ live[j].len \in Nat
    BY <1>1
  <2>5. /\ Tops(bs)[idx[k] - 1] + Header = live[k].off /\ live[k].off \in Nat
        /\ Tops(bs)[idx[k] - 1] \in Nat
    BY <1>1
  <2> QED  BY <1>0, <2>3, <2>4, <2>5
<1> QED  BY <1>1, <1>2, <1>3, <1>4

--------------------------------------------------------------------------------
(* Retargeting.                                                              *)
Mems == [Vars -> Nat \cup {Null}]
Tables(E) == [entries : [1 .. E -> Item], mem : Mems]

LEMMA ItemFacts ==
  /\ \A x \in Item : x.var \in Vars /\ x.at \in Nat
  /\ \A v \in Vars, a \in Nat : Entry(v, a) \in Item /\ Entry(v, a).var = v /\ Entry(v, a).at = a
  /\ \A x \in Item, a \in Nat : [x EXCEPT !.at = a] \in Item
       /\ [x EXCEPT !.at = a].var = x.var /\ [x EXCEPT !.at = a].at = a
BY DEF Item, Entry

RetargetResult(E, x, old, new, y) ==
  /\ \A e \in 1 .. E :
       /\ y.entries[e].var = x.entries[e].var
       /\ y.entries[e].at = IF x.entries[e].at = old THEN new ELSE x.entries[e].at
  /\ \A u \in Vars :
       y.mem[u] = IF \E e \in 1 .. E : x.entries[e].at = old /\ x.entries[e].var = u
                  THEN new ELSE x.mem[u]

LEMMA RetargetFacts ==
  ASSUME NEW E \in Nat, NEW x \in Tables(E), NEW old \in Nat, NEW new \in Nat
  PROVE  /\ Retarget(x, old, new) \in Tables(E)
         /\ RetargetResult(E, x, old, new, Retarget(x, old, new))
<1>1. PICK es \in [1 .. E -> Item], m \in Mems : x.entries = es /\ x.mem = m  BY DEF Tables
<1> DEFINE hit == {i \in 1 .. E : es[i].at = old}
           es1 == [i \in 1 .. E |-> IF i \in hit THEN [es[i] EXCEPT !.at = new] ELSE es[i]]
           m1 == [v \in Vars |-> IF \E i \in hit : es[i].var = v THEN new ELSE m[v]]
<1>2. Owners(x.entries, old) = hit /\ DOMAIN x.entries = 1 .. E  BY <1>1 DEF Owners
<1>3. Retarget(x, old, new) = [entries |-> es1, mem |-> m1]
  <2> DEFINE h == Owners(x.entries, old)
  <2>1. Retarget(x, old, new) =
          [entries |-> [i \in DOMAIN x.entries |->
                     IF i \in h THEN [x.entries[i] EXCEPT !.at = new] ELSE x.entries[i]],
           mem |-> [v \in Vars |->
                 IF \E i \in h : x.entries[i].var = v THEN new ELSE x.mem[v]]]
    BY DEF Retarget
  <2>2. h = hit  BY <1>2
  <2> HIDE DEF h, hit
  <2> QED  BY <1>1, <1>2, <2>1, <2>2
<1>4. ASSUME NEW i \in 1 .. E
      PROVE  /\ es1[i] \in Item /\ es1[i].var = es[i].var
             /\ es1[i].at = IF es[i].at = old THEN new ELSE es[i].at
  <2>1. es[i] \in Item  OBVIOUS
  <2>2. CASE i \in hit
    <3>1. es1[i] = [es[i] EXCEPT !.at = new]  BY <2>2
    <3> QED  BY <2>1, <2>2, <3>1, ItemFacts
  <2>3. CASE i \notin hit
    <3>1. es1[i] = es[i]  BY <2>3
    <3> QED  BY <2>1, <2>3, <3>1
  <2> QED  BY <2>2, <2>3
<1>5. es1 \in [1 .. E -> Item]
  <2>1. \A i \in 1 .. E : es1[i] \in Item  BY <1>4
  <2> QED  BY <2>1
<1>6. m1 \in Mems
  <2>1. \A v \in Vars : m[v] \in Nat \cup {Null}  BY DEF Mems
  <2> QED  BY <2>1 DEF Mems
<1>7. \A u \in Vars : m1[u] = IF \E e \in 1 .. E : es[e].at = old /\ es[e].var = u THEN new ELSE m[u]
  OBVIOUS
<1> HIDE DEF es1, m1
<1> QED  BY <1>1, <1>3, <1>4, <1>5, <1>6, <1>7 DEF Tables, RetargetResult

\* the tables after each block
RetargetSteps(f, live, s) ==
  f[0] = s /\ \A i \in 1 .. Len(live) : f[i] = Retarget(f[i - 1], live[i].off, DataAt(live, i))

LEMMA RetargetRecursion ==
  ASSUME NEW live \in Seq(Block), NEW E \in Nat, NEW s \in Tables(E)
  PROVE  \E f \in [0 .. Len(live) -> Tables(E)] :
           Retargeted(live, s)[Len(live)] = f[Len(live)] /\ RetargetSteps(f, live, s)
<1> DEFINE N == Len(live)
           T == Tables(E)
           st == [i \in 1 .. N |-> [x \in T |-> Retarget(x, live[i].off, DataAt(live, i))]]
           F(f) == [i \in 0 .. N |-> IF i = 0 THEN s
                                     ELSE Retarget(f[i - 1], live[i].off, DataAt(live, i))]
<1>1. N \in Nat /\ \A i \in 1 .. N : live[i].off \in Nat /\ DataAt(live, i) \in Nat
  BY BlockFacts, PlaceFacts
<1>2. \A i \in 1 .. N, x \in T : Retarget(x, live[i].off, DataAt(live, i)) \in T
  BY <1>1, RetargetFacts
<1>3. s \in T  OBVIOUS
<1>4. st \in Steps(N, T)
  <2> HIDE DEF T, N
  <2> QED  BY <1>2 DEF Steps
<1>5. PICK f \in Values(N, T) : Follows(f, N, s, st)
  <2> HIDE DEF N, st, T
  <2> QED  BY <1>1, <1>3, <1>4, Recursion
<1> HIDE DEF T
<1>6. f = F(f)
  <2>1. /\ f \in [0 .. N -> T] /\ f[0] = s
        /\ \A i \in 1 .. N : f[i] = st[i][f[i - 1]]
    BY <1>5 DEF Values, Follows
  <2>2. ASSUME NEW i \in 1 .. N
        PROVE  st[i][f[i - 1]] = Retarget(f[i - 1], live[i].off, DataAt(live, i))
    <3>1. i - 1 \in 0 .. N /\ f[i - 1] \in T  BY <1>1, <2>1
    <3> QED  BY <3>1
  <2> HIDE DEF st
  <2>3. ASSUME NEW i \in 0 .. N
        PROVE  f[i] = IF i = 0 THEN s
                      ELSE Retarget(f[i - 1], live[i].off, DataAt(live, i))
    <3>1. CASE i = 0  BY <2>1, <3>1
    <3>2. CASE i # 0
      <4>1. i \in 1 .. N  BY <1>1, <3>2
      <4> QED  BY <2>1, <2>2, <3>2, <4>1
    <3> QED  BY <3>1, <3>2
  <2> QED  BY <2>1, <2>3
<1>7. Retargeted(live, s) = CHOOSE upTo : upTo = F(upTo)  BY DEF Retargeted
<1>8. PICK t : t = Retargeted(live, s) /\ t = F(t)  BY <1>6, <1>7
<1>9. /\ DOMAIN t = 0 .. N /\ t[0] = s
      /\ \A i \in 1 .. N : t[i] = Retarget(t[i - 1], live[i].off, DataAt(live, i))
      /\ t = [i \in 0 .. N |-> t[i]]
  <2> DEFINE G == [i \in 0 .. N |-> IF i = 0 THEN s
                                    ELSE Retarget(t[i - 1], live[i].off, DataAt(live, i))]
  <2>1. t = G  BY <1>8
  <2>2. DOMAIN G = 0 .. N /\ G[0] = s  BY <1>1
  <2>3. \A i \in 1 .. N : i \in 0 .. N /\ i # 0  BY <1>1
  <2>4. \A i \in 1 .. N : G[i] = Retarget(t[i - 1], live[i].off, DataAt(live, i))  BY <2>3
  <2>5. G = [i \in 0 .. N |-> G[i]]  OBVIOUS
  <2> HIDE DEF G
  <2> QED  BY <2>1, <2>2, <2>4, <2>5
<1> HIDE DEF F
<1> DEFINE S == {n \in Nat : n <= N => t[n] \in T}
<1>10. 0 \in S  BY <1>3, <1>9
<1>11. ASSUME NEW n \in Nat, n \in S PROVE n + 1 \in S
  <2>1. CASE n + 1 <= N
    <3>1. n + 1 \in 1 .. N /\ (n + 1) - 1 = n  BY <1>1, <2>1
    <3>2. t[n + 1] = Retarget(t[n], live[n + 1].off, DataAt(live, n + 1))  BY <1>9, <3>1
    <3>3. t[n] \in T  BY <1>1, <1>11, <2>1
    <3>4. t[n + 1] \in T  BY <1>2, <3>1, <3>2, <3>3
    <3> QED  BY <3>4
  <2> QED  BY <2>1
<1>12. \A n \in Nat : n \in S
  <2> HIDE DEF S
  <2> QED  BY <1>10, <1>11, NatInduct
<1>13. t \in [0 .. N -> T]
  <2>1. \A i \in 0 .. N : t[i] \in T  BY <1>1, <1>12
  <2> QED  BY <1>9, <2>1
<1> QED  BY <1>8, <1>9, <1>13 DEF RetargetSteps, T

\* every entry, and the variable it is about, name where its block went
RetargetDone(E, live, n, s, x) ==
  /\ \A e \in 1 .. E :
       /\ x.entries[e].var = s.entries[e].var
       /\ \A j \in 1 .. n : s.entries[e].at = live[j].off => x.entries[e].at = DataAt(live, j)
       /\ (\A j \in 1 .. n : s.entries[e].at # live[j].off) => x.entries[e].at = s.entries[e].at
       /\ x.mem[s.entries[e].var] = x.entries[e].at
  /\ \A u \in Vars : (\A e \in 1 .. E : s.entries[e].var # u) => x.mem[u] = s.mem[u]

LEMMA TablesFacts ==
  ASSUME NEW E \in Nat, NEW x \in Tables(E)
  PROVE  /\ \A e \in 1 .. E :
              /\ x.entries[e] \in Item /\ x.entries[e].var \in Vars /\ x.entries[e].at \in Nat
         /\ x.entries \in [1 .. E -> Item] /\ x.mem \in Mems
<1>1. x.entries \in [1 .. E -> Item] /\ x.mem \in Mems  BY DEF Tables
<1>2. \A e \in 1 .. E : x.entries[e] \in Item  BY <1>1
<1> QED  BY <1>1, <1>2, ItemFacts

LEMMA RetargetStep ==
  ASSUME NEW live \in Seq(Block), NEW E \in Nat, NEW s \in Tables(E), NEW x \in Tables(E),
         \A j \in 1 .. Len(live) : DataAt(live, j) <= live[j].off,
         \A j, k \in 1 .. Len(live) : j < k => live[j].off < live[k].off,
         NEW n \in Nat, n + 1 <= Len(live), RetargetDone(E, live, n, s, x)
  PROVE  RetargetDone(E, live, n + 1, s, Retarget(x, live[n + 1].off, DataAt(live, n + 1)))
<1> DEFINE old == live[n + 1].off
           new == DataAt(live, n + 1)
           y == Retarget(x, old, new)
<1>1. n + 1 \in 1 .. Len(live) /\ \A j \in 1 .. n : j \in 1 .. Len(live) /\ j < n + 1  BY BlockFacts
<1>2. \A j \in 1 .. Len(live) : live[j].off \in Nat /\ DataAt(live, j) \in Nat
  BY BlockFacts, PlaceFacts
<1>3. old \in Nat /\ new \in Nat  BY <1>1, <1>2
<1>4. /\ \A e \in 1 .. E :
           /\ y.entries[e].var = x.entries[e].var
           /\ y.entries[e].at = IF x.entries[e].at = old THEN new ELSE x.entries[e].at
      /\ \A u \in Vars :
           y.mem[u] = IF \E e \in 1 .. E : x.entries[e].at = old /\ x.entries[e].var = u
                      THEN new ELSE x.mem[u]
  <2> HIDE DEF old, new
  <2>1. RetargetResult(E, x, old, new, Retarget(x, old, new))  BY <1>3, RetargetFacts
  <2> QED  BY <2>1 DEF RetargetResult
<1>5. \A j \in 1 .. n : live[j].off # old /\ DataAt(live, j) # old
  <2> SUFFICES ASSUME NEW j \in 1 .. n PROVE live[j].off # old /\ DataAt(live, j) # old  OBVIOUS
  <2>1. live[j].off < old /\ DataAt(live, j) <= live[j].off  BY <1>1
  <2>2. live[j].off \in Nat /\ DataAt(live, j) \in Nat  BY <1>1, <1>2
  <2> HIDE DEF old
  <2> QED  BY <1>3, <2>1, <2>2
<1>6. \A j \in 1 .. n + 1 : j \in 1 .. n \/ j = n + 1  OBVIOUS
<1>7. \A e \in 1 .. E :
        /\ s.entries[e].var \in Vars /\ s.entries[e].at \in Nat
        /\ x.entries[e].var = s.entries[e].var /\ x.entries[e].at \in Nat
        /\ \A j \in 1 .. n : s.entries[e].at = live[j].off => x.entries[e].at = DataAt(live, j)
        /\ (\A j \in 1 .. n : s.entries[e].at # live[j].off) => x.entries[e].at = s.entries[e].at
        /\ x.mem[s.entries[e].var] = x.entries[e].at
  BY TablesFacts DEF RetargetDone
<1>8. \A u \in Vars : (\A e \in 1 .. E : s.entries[e].var # u) => x.mem[u] = s.mem[u]
  BY DEF RetargetDone
<1>9. DataAt(live, n + 1) = new /\ live[n + 1].off = old  OBVIOUS
<1> HIDE DEF old, new, y
\* the entries the step finds are those that named this block from the start
<1>10. ASSUME NEW e \in 1 .. E PROVE x.entries[e].at = old <=> s.entries[e].at = old
  <2>1. CASE \E j \in 1 .. n : s.entries[e].at = live[j].off  BY <1>5, <1>7, <2>1
  <2>2. CASE \A j \in 1 .. n : s.entries[e].at # live[j].off  BY <1>7, <2>2
  <2> QED  BY <2>1, <2>2
<1>11. ASSUME NEW e \in 1 .. E
       PROVE  /\ y.entries[e].var = s.entries[e].var
              /\ \A j \in 1 .. n + 1 : s.entries[e].at = live[j].off => y.entries[e].at = DataAt(live, j)
              /\ (\A j \in 1 .. n + 1 : s.entries[e].at # live[j].off)
                   => y.entries[e].at = s.entries[e].at
              /\ y.mem[s.entries[e].var] = y.entries[e].at
  <2>1. y.entries[e].var = s.entries[e].var  BY <1>4, <1>7
  <2>2. ASSUME NEW j \in 1 .. n + 1, s.entries[e].at = live[j].off
        PROVE  y.entries[e].at = DataAt(live, j)
    <3>1. CASE j = n + 1  BY <1>4, <1>9, <1>10, <2>2, <3>1
    <3>2. CASE j \in 1 .. n
      <4>1. x.entries[e].at = DataAt(live, j) /\ DataAt(live, j) # old  BY <1>5, <1>7, <2>2, <3>2
      <4> QED  BY <1>4, <4>1
    <3> QED  BY <1>6, <3>1, <3>2
  <2>3. ASSUME \A j \in 1 .. n + 1 : s.entries[e].at # live[j].off
        PROVE  y.entries[e].at = s.entries[e].at
    <3>1. n + 1 \in 1 .. n + 1 /\ \A j \in 1 .. n : j \in 1 .. n + 1  OBVIOUS
    <3>2. s.entries[e].at # old /\ \A j \in 1 .. n : s.entries[e].at # live[j].off
      BY <1>9, <2>3, <3>1
    <3> QED  BY <1>4, <1>7, <1>10, <3>2
  <2>4. y.mem[s.entries[e].var] = y.entries[e].at
    <3>1. s.entries[e].var \in Vars /\ x.entries[e].var = s.entries[e].var
          /\ x.mem[s.entries[e].var] = x.entries[e].at
      BY <1>7
    <3>2. CASE x.entries[e].at = old  BY <1>4, <3>1, <3>2
    <3>3. CASE x.entries[e].at # old
      <4>1. ASSUME NEW k \in 1 .. E, x.entries[k].at = old, x.entries[k].var = s.entries[e].var
            PROVE  FALSE
        <5>1. x.mem[s.entries[k].var] = x.entries[k].at /\ s.entries[k].var = s.entries[e].var
          BY <1>7, <4>1
        <5> QED  BY <3>1, <3>3, <4>1, <5>1
      <4>2. y.mem[s.entries[e].var] = x.mem[s.entries[e].var]  BY <1>4, <3>1, <4>1
      <4> QED  BY <1>4, <3>1, <3>3, <4>2
    <3> QED  BY <3>2, <3>3
  <2> QED  BY <2>1, <2>2, <2>3, <2>4
<1>12. ASSUME NEW u \in Vars, \A e \in 1 .. E : s.entries[e].var # u PROVE y.mem[u] = s.mem[u]
  BY <1>4, <1>7, <1>8, <1>12
<1>13. RetargetDone(E, live, n + 1, s, y)  BY <1>11, <1>12 DEF RetargetDone
<1> QED  BY <1>13 DEF y, old, new

LEMMA RetargetedFacts ==
  ASSUME NEW live \in Seq(Block), NEW E \in Nat, NEW s \in Tables(E),
         \A j \in 1 .. Len(live) : DataAt(live, j) <= live[j].off,
         \A j, k \in 1 .. Len(live) : j < k => live[j].off < live[k].off,
         \A e \in 1 .. E : s.mem[s.entries[e].var] = s.entries[e].at
  PROVE  /\ Retargeted(live, s)[Len(live)] \in Tables(E)
         /\ RetargetDone(E, live, Len(live), s, Retargeted(live, s)[Len(live)])
<1> DEFINE N == Len(live)
<1>1. N \in Nat  BY BlockFacts
<1>2. PICK f \in [0 .. N -> Tables(E)] : Retargeted(live, s)[N] = f[N] /\ RetargetSteps(f, live, s)
  BY RetargetRecursion
<1>3. f[0] = s /\ \A i \in 1 .. N : f[i] = Retarget(f[i - 1], live[i].off, DataAt(live, i))
  BY <1>2 DEF RetargetSteps
<1> DEFINE S == {n \in Nat : n <= N => RetargetDone(E, live, n, s, f[n])}
<1>4. 0 \in S
  <2>1. RetargetDone(E, live, 0, s, s)  BY DEF RetargetDone
  <2> QED  BY <1>3, <2>1
<1>5. ASSUME NEW n \in Nat, n \in S PROVE n + 1 \in S
  <2>1. SUFFICES ASSUME n + 1 <= N PROVE RetargetDone(E, live, n + 1, s, f[n + 1])  OBVIOUS
  <2>2. n \in 0 .. N /\ n <= N /\ n + 1 \in 1 .. N /\ (n + 1) - 1 = n  BY <1>1, <2>1
  <2>3. f[n] \in Tables(E) /\ RetargetDone(E, live, n, s, f[n])  BY <1>2, <1>5, <2>2
  <2>4. f[n + 1] = Retarget(f[n], live[n + 1].off, DataAt(live, n + 1))  BY <1>3, <2>2
  <2> QED  BY <2>1, <2>3, <2>4, RetargetStep
<1>6. \A n \in Nat : n \in S
  <2> HIDE DEF S
  <2> QED  BY <1>4, <1>5, NatInduct
<1>7. N \in 0 .. N /\ N <= N  BY <1>1
<1>8. f[N] \in Tables(E) /\ RetargetDone(E, live, N, s, f[N])  BY <1>1, <1>2, <1>6, <1>7
<1> QED  BY <1>2, <1>8

--------------------------------------------------------------------------------
(* The words move with their blocks.                                         *)
Words == [0 .. Limit - 1 -> Texts \cup {NoText}]

LEMMA MovedFacts ==
  ASSUME NEW bs \in Seq(Block), NEW live \in Seq(Block), NEW idx, Compacts(bs, live, idx),
         WellPlaced(bs), Used(bs) <= Limit, NEW w \in Words
  PROVE  /\ Moved(live, w) \in Words
         /\ \A i \in 1 .. Len(live), a \in Nat :
              DataAt(live, i) <= a /\ a < DataAt(live, i) + live[i].len =>
                Moved(live, w)[a] = w[live[i].off - DataAt(live, i) + a]
<1> DEFINE N == Len(live)
           t == Tops(live)
           here(a) == {i \in DOMAIN live : t[i - 1] <= a /\ a < t[i]}
           src(i, a) == live[i].off - DataAt(live, i) + a
<1>0. N \in Nat /\ DOMAIN live = 1 .. N /\ Header \in Nat /\ Limit \in Nat /\ Len(bs) \in Nat
  BY BlockFacts, HeaderNat, DatasetAssumption
<1>1. \A i \in 1 .. N :
        /\ DataAt(live, i) \in Nat /\ t[i - 1] \in Nat /\ t[i] \in Nat
        /\ DataAt(live, i) = t[i - 1] + Header /\ t[i] = DataAt(live, i) + live[i].len
        /\ live[i].off \in Nat /\ live[i].len \in Nat
  BY BlockFacts, PlaceFacts
<1>2. Used(live) \in Nat /\ Used(bs) \in Nat /\ Used(live) <= Limit
  <2>1. Used(live) \in Nat /\ Used(bs) \in Nat  BY PlaceFacts
  <2>2. Used(live) <= Used(bs)  BY CompactionBound
  <2> QED  BY <1>0, <2>1, <2>2
<1>3. ASSUME NEW i \in 1 .. N
      PROVE  /\ DataAt(live, i) <= live[i].off /\ live[i].off >= Header
             /\ live[i].off + live[i].len <= Limit
             /\ t[i] <= Used(live)
  <2>1. /\ live[i].off = DataAt(bs, idx[i]) /\ DataAt(live, i) <= live[i].off
        /\ live[i].off + live[i].len <= Used(bs)
    BY CompactionOrder
  <2>2. idx[i] \in 1 .. Len(bs)  BY DEF Compacts
  <2>3. DataAt(bs, idx[i]) >= Header
    <3>1. DataAt(bs, idx[i]) = Tops(bs)[idx[i] - 1] + Header /\ Tops(bs)[idx[i] - 1] \in Nat
      BY <2>2, PlaceFacts
    <3> QED  BY <1>0, <3>1
  <2>4. live[i].off \in Nat /\ live[i].len \in Nat  BY <1>1
  <2>5. i \in 0 .. N /\ N \in 0 .. N /\ i <= N  BY <1>0
  <2>6. t[i] <= t[N]  BY <2>5, TopsMonotone
  <2> QED  BY <1>0, <1>2, <2>1, <2>3, <2>4, <2>6 DEF Used
<1>4. \A i, j \in 1 .. N : i < j => t[i] <= t[j - 1]
  <2> SUFFICES ASSUME NEW i \in 1 .. N, NEW j \in 1 .. N, i < j PROVE t[i] <= t[j - 1]  OBVIOUS
  <2>1. i \in 0 .. N /\ j - 1 \in 0 .. N /\ i <= j - 1  BY <1>0
  <2> QED  BY <2>1, TopsMonotone
<1>5. DOMAIN w = 0 .. Limit - 1 /\ \A a \in 0 .. Limit - 1 : w[a] \in Texts \cup {NoText}
  BY DEF Words
<1>6. Moved(live, w) = [a \in 0 .. Limit - 1 |->
        IF here(a) = {} THEN w[a]
        ELSE LET i == CHOOSE j \in here(a) : TRUE IN w[src(i, a)]]
  BY <1>5 DEF Moved
<1>7. ASSUME NEW a \in Nat, NEW i \in 1 .. N, t[i - 1] <= a, a < t[i]
      PROVE  src(i, a) \in 0 .. Limit - 1 /\ a \in 0 .. Limit - 1
  <2>1. /\ DataAt(live, i) \in Nat /\ t[i - 1] \in Nat /\ t[i] \in Nat
        /\ DataAt(live, i) = t[i - 1] + Header /\ t[i] = DataAt(live, i) + live[i].len
        /\ live[i].off \in Nat /\ live[i].len \in Nat
    BY <1>1
  <2>2. /\ DataAt(live, i) <= live[i].off /\ live[i].off >= Header
        /\ live[i].off + live[i].len <= Limit
        /\ t[i] <= Used(live)
    BY <1>3
  <2> HIDE DEF t
  <2>3. a \in 0 .. Limit - 1  BY <1>0, <1>2, <1>7, <2>1, <2>2
  <2>4. PICK d \in Nat, o \in Nat, l \in Nat :
          d = DataAt(live, i) /\ o = live[i].off /\ l = live[i].len
    BY <2>1
  <2>5. o - d + a \in 0 .. Limit - 1
    <3>1. d <= o /\ o >= Header /\ o + l <= Limit /\ d - Header <= a /\ a < d + l
      <4>1. PICK lo \in Nat, hi \in Nat : lo = t[i - 1] /\ hi = t[i]  BY <2>1
      <4>2. lo <= a /\ a < hi  BY <1>7, <4>1
      <4>3. d = lo + Header /\ hi = d + l  BY <2>1, <2>4, <4>1
      <4>4. d <= o /\ o >= Header /\ o + l <= Limit  BY <2>2, <2>4
      <4> QED  BY <1>0, <4>2, <4>3, <4>4
    <3> QED  BY <1>0, <3>1
  <2> QED  BY <2>3, <2>4, <2>5
<1>8. \A a : \A i \in here(a) : i \in 1 .. N /\ t[i - 1] <= a /\ a < t[i]  BY <1>0
<1>9. \A a \in Nat, i \in 1 .. N : t[i - 1] <= a /\ a < t[i] => here(a) = {i}
  <2> SUFFICES ASSUME NEW a \in Nat, NEW i \in 1 .. N, t[i - 1] <= a, a < t[i]
               PROVE  here(a) = {i}
    OBVIOUS
  <2>1. i \in here(a)  BY <1>0
  <2>2. ASSUME NEW j \in here(a) PROVE j = i
    <3>1. j \in 1 .. N /\ t[j - 1] <= a /\ a < t[j]  BY <1>8
    <3>2. /\ t[i - 1] \in Nat /\ t[i] \in Nat /\ t[j - 1] \in Nat /\ t[j] \in Nat
      BY <1>1, <3>1
    <3>3. ~(i < j)
      <4>1. i < j => t[i] <= t[j - 1]  BY <1>4, <3>1
      <4> QED  BY <3>1, <3>2, <4>1
    <3>4. ~(j < i)
      <4>1. j < i => t[j] <= t[i - 1]  BY <1>4, <3>1
      <4> QED  BY <3>1, <3>2, <4>1
    <3> QED  BY <1>0, <3>1, <3>3, <3>4
  <2> HIDE DEF here
  <2> QED  BY <2>1, <2>2
<1> HIDE DEF here, src, t
<1>10. \A a \in 0 .. Limit - 1 : a \in Nat  BY <1>0
<1>11. \A a \in 0 .. Limit - 1 : Moved(live, w)[a] \in Texts \cup {NoText}
  <2> SUFFICES ASSUME NEW a \in 0 .. Limit - 1
               PROVE  Moved(live, w)[a] \in Texts \cup {NoText}
    OBVIOUS
  <2>1. CASE here(a) = {}
    <3>1. Moved(live, w)[a] = w[a]  BY <1>6, <2>1
    <3> QED  BY <1>5, <3>1
  <2>2. CASE here(a) # {}
    <3>1. PICK i : i = CHOOSE j \in here(a) : TRUE  OBVIOUS
    <3>2. i \in here(a)  BY <2>2, <3>1
    <3>3. Moved(live, w)[a] = w[src(i, a)]  BY <1>6, <2>2, <3>1
    <3>4. src(i, a) \in 0 .. Limit - 1  BY <1>7, <1>8, <1>10, <3>2
    <3> QED  BY <1>5, <3>3, <3>4
  <2> QED  BY <2>1, <2>2
<1>12. Moved(live, w) \in Words
  <2> DEFINE M == Moved(live, w)
  <2>1. M = [a \in 0 .. Limit - 1 |-> M[a]]  BY <1>6
  <2> HIDE DEF M
  <2>2. \A a \in 0 .. Limit - 1 : M[a] \in Texts \cup {NoText}  BY <1>11 DEF M
  <2>3. M \in Words  BY <2>1, <2>2 DEF Words
  <2> QED  BY <2>3 DEF M
<1>13. ASSUME NEW i \in 1 .. N, NEW a \in Nat, DataAt(live, i) <= a, a < DataAt(live, i) + live[i].len
       PROVE  Moved(live, w)[a] = w[src(i, a)]
  <2>1. t[i - 1] <= a /\ a < t[i]
    <3>1. /\ DataAt(live, i) \in Nat /\ t[i - 1] \in Nat /\ t[i] \in Nat
          /\ DataAt(live, i) = t[i - 1] + Header /\ t[i] = DataAt(live, i) + live[i].len
      BY <1>1
    <3> QED  BY <1>0, <1>13, <3>1
  <2>2. here(a) = {i} /\ a \in 0 .. Limit - 1  BY <1>7, <1>9, <2>1
  <2>3. (CHOOSE j \in here(a) : TRUE) = i /\ here(a) # {}  BY <2>2
  <2> QED  BY <1>6, <2>2, <2>3
<1> QED  BY <1>12, <1>13 DEF src

--------------------------------------------------------------------------------
(* A compaction as a whole.                                                  *)
Names(es, m, v) == \E i \in DOMAIN es : es[i] = Entry(v, m[v])
Holds(bs, m, w, v, t) ==
  \E i \in DOMAIN bs :
    bs[i].off = m[v] /\ \A a \in m[v] .. m[v] + bs[i].len - 1 : w[a] = t

Pools == [blocks : Seq(Block), entries : Seq(Item), mem : Mems, word : Words]
Pool(bs, es, m, w) == [blocks |-> bs, entries |-> es, mem |-> m, word |-> w]

Survivors(bs, es) == Kept(bs, {i \in DOMAIN bs : Referenced(bs[i], es)})

\* k holds the blocks of bs that es names, and no others
Survive(bs, es, k) ==
  /\ k \in Seq(Block) /\ \E idx : Compacts(bs, k, idx)
  /\ \A j \in 1 .. Len(k) : \E e \in DOMAIN es : es[e].at = k[j].off
  /\ \A i \in 1 .. Len(bs), e \in DOMAIN es : es[e].at = bs[i].off =>
       \E j \in 1 .. Len(k) : k[j] = bs[i]
  /\ Len(k) = Len(bs) => \A i \in 1 .. Len(bs) : k[i] = bs[i]

LEMMA SurvivorFacts ==
  ASSUME NEW bs \in Seq(Block), NEW es \in Seq(Item)
  PROVE  Survive(bs, es, Survivors(bs, es))
<1> DEFINE I == {i \in DOMAIN bs : Referenced(bs[i], es)}
<1>0. DOMAIN bs = 1 .. Len(bs)  BY BlockFacts
<1>1. I \in SUBSET DOMAIN bs  OBVIOUS
<1>2. \A b : Referenced(b, es) <=> \E e \in DOMAIN es : es[e].at = b.off
  BY DEF Referenced, Owners
<1>3. \A i \in I : i \in 1 .. Len(bs) /\ \E e \in DOMAIN es : es[e].at = bs[i].off
  BY <1>0, <1>2
<1>4. \A i \in 1 .. Len(bs), e \in DOMAIN es : es[e].at = bs[i].off => i \in I
  BY <1>0, <1>2
<1>5. PICK k : k = Kept(bs, I) /\ k = Survivors(bs, es)  BY DEF Survivors
<1> HIDE DEF I
<1>11. k \in Seq(Block) /\ Everything(bs, I, k)  BY <1>1, <1>5, KeptFacts
<1>6. k \in Seq(Block) /\ (Len(k) = Len(bs) => \A j \in DOMAIN bs : k[j] = bs[j])
  BY <1>11 DEF Everything
<1>12. PICK idx : Selects(bs, I, k, idx)  BY <1>1, <1>5, KeptFacts
<1>7. /\ idx \in [1 .. Len(k) -> I]
      /\ \A j \in 1 .. Len(k) : k[j] = bs[idx[j]]
      /\ \A i \in I : \E j \in 1 .. Len(k) : idx[j] = i
      /\ Increasing(idx, Len(k))
  BY <1>12 DEF Selects
<1>8. Compacts(bs, k, idx)  BY <1>3, <1>7 DEF Compacts
<1>9. \A j \in 1 .. Len(k) : \E e \in DOMAIN es : es[e].at = k[j].off  BY <1>3, <1>7
<1>10. \A i \in 1 .. Len(bs), e \in DOMAIN es : es[e].at = bs[i].off =>
         \E j \in 1 .. Len(k) : k[j] = bs[i]
  BY <1>4, <1>7
<1> QED  BY <1>0, <1>5, <1>6, <1>8, <1>9, <1>10 DEF Survive

\* what the step from a pool to its compaction keeps
Compacted(s, d) ==
  /\ d \in Pools /\ WellPlaced(d.blocks)
  /\ Used(d.blocks) = Used(Survivors(s.blocks, Collect(s.entries, s.mem)))
  /\ Used(d.blocks) <= Used(s.blocks) /\ Len(d.entries) <= Len(s.entries)
  /\ \A u \in Vars : s.mem[u] = Null => d.mem[u] = Null
  /\ \A u \in Vars : \A t : Names(s.entries, s.mem, u) /\ Holds(s.blocks, s.mem, s.word, u, t) =>
       Names(d.entries, d.mem, u) /\ Holds(d.blocks, d.mem, d.word, u, t)
  /\ \A i \in DOMAIN d.blocks : \E v \in Vars : d.mem[v] = d.blocks[i].off

LEMMA EntryFacts ==
  ASSUME NEW es \in Seq(Item)
  PROVE  /\ Len(es) \in Nat /\ DOMAIN es = 1 .. Len(es)
         /\ \A i \in 1 .. Len(es) : es[i] \in Item /\ es[i].var \in Vars /\ es[i].at \in Nat
                                   /\ es[i] = Entry(es[i].var, es[i].at)
<1>1. \A i \in 1 .. Len(es) : es[i] \in Item  OBVIOUS
<1>2. \A x \in Item : x.var \in Vars /\ x.at \in Nat /\ x = Entry(x.var, x.at)  BY DEF Item, Entry
<1> QED  BY <1>1, <1>2

\* an entry that names its variable's block survives the collection
LEMMA CollectNames ==
  ASSUME NEW es \in Seq(Item), NEW m \in Mems, NEW u \in Vars, Names(es, m, u)
  PROVE  Names(Collect(es, m), m, u)
<1>1. PICK i \in DOMAIN es : es[i] = Entry(u, m[u])  BY DEF Names
<1>2. m[es[i].var] = es[i].at  BY <1>1 DEF Entry
<1>4. Current(es, m, Collect(es, m))  BY CollectFacts
<1>3. PICK j \in DOMAIN Collect(es, m) : Collect(es, m)[j] = es[i]
  BY <1>2, <1>4 DEF Current
<1> QED  BY <1>1, <1>3 DEF Names

\* no block is free
LEMMA CompactedInPlace ==
  ASSUME NEW bs \in Seq(Block), NEW es \in Seq(Item), NEW m \in Mems, NEW w \in Words,
         WellPlaced(bs),
         Len(Survivors(bs, Collect(es, m))) = Len(bs)
  PROVE  Compacted(Pool(bs, es, m, w), Defragmented(Pool(bs, es, m, w)))
<1> DEFINE s == Pool(bs, es, m, w)
<1>1. PICK c : c = Collect(es, m)  OBVIOUS
<1>2. /\ c \in Seq(Item) /\ Len(c) <= Len(es)
      /\ \A j \in DOMAIN c : m[c[j].var] = c[j].at
  <2>1. Current(es, m, c)  BY <1>1, CollectFacts
  <2> QED  BY <2>1 DEF Current
<1>3. PICK k : k = Survivors(bs, c)  OBVIOUS
<1>4. /\ k \in Seq(Block)
      /\ \A j \in 1 .. Len(k) : \E e \in DOMAIN c : c[e].at = k[j].off
      /\ \A i \in 1 .. Len(bs) : k[i] = bs[i]
      /\ Len(k) = Len(bs)
  <2>1. Survive(bs, c, k)  BY <1>2, <1>3, SurvivorFacts
  <2>2. Len(k) = Len(bs)  BY <1>1, <1>3
  <2> QED  BY <2>1, <2>2 DEF Survive
<1>5. Defragmented(s) = Pool(bs, c, m, w)
  BY <1>1, <1>3 DEF Defragmented, Survivors, Pool
<1>6. Len(bs) \in Nat /\ DOMAIN bs = 1 .. Len(bs)  BY BlockFacts
<1>7. Used(bs) = Used(k) /\ Used(bs) \in Nat
  <2>1. Len(bs) <= Len(k) /\ Len(bs) <= Len(bs) /\ Len(bs) \in 0 .. Len(bs)
        /\ \A i \in 1 .. Len(bs) : bs[i].len = k[i].len
    BY <1>4, <1>6
  <2>2. Tops(bs)[Len(bs)] = Tops(k)[Len(bs)]  BY <1>4, <1>6, <2>1, TopsSame
  <2> QED  BY <1>4, <2>2, PlaceFacts DEF Used
<1>8. ASSUME NEW i \in DOMAIN bs PROVE \E v \in Vars : m[v] = bs[i].off
  <2>1. PICK e \in DOMAIN c : c[e].at = k[i].off /\ k[i] = bs[i]  BY <1>4, <1>6
  <2>2. c[e].var \in Vars  BY <1>2, EntryFacts
  <2> QED  BY <1>2, <2>1, <2>2
<1>9. \A u \in Vars : Names(es, m, u) => Names(c, m, u)  BY <1>1, CollectNames
<1>10. Pool(bs, c, m, w) \in Pools  BY <1>2 DEF Pools, Pool
<1>11. \A e : /\ Pool(bs, e, m, w).blocks = bs /\ Pool(bs, e, m, w).entries = e
              /\ Pool(bs, e, m, w).mem = m /\ Pool(bs, e, m, w).word = w
  BY DEF Pool
<1>12. PICK d : d = Pool(bs, c, m, w)  OBVIOUS
<1>13. Compacted(s, d)
  <2>1. /\ d.blocks = bs /\ d.entries = c /\ d.mem = m /\ d.word = w
        /\ s.blocks = bs /\ s.entries = es /\ s.mem = m /\ s.word = w
    BY <1>11, <1>12
  <2> HIDE DEF s
  <2>2. d \in Pools  BY <1>10, <1>12
  <2>3. Used(bs) = Used(Survivors(bs, Collect(es, m))) /\ Used(bs) <= Used(bs)  BY <1>1, <1>3, <1>7
  <2> QED  BY <1>2, <1>8, <1>9, <2>1, <2>2, <2>3 DEF Compacted
<1> QED  BY <1>5, <1>12, <1>13

LEMMA Shifted ==
  ASSUME NEW y \in Nat, NEW o \in Nat, NEW l \in Nat, NEW a \in Nat, y <= a, a < y + l
  PROVE  o - y + a \in o .. o + l - 1
OBVIOUS

\* the blocks in use, where a compaction puts them
Placed(k) == [i \in DOMAIN k |-> [k[i] EXCEPT !.off = DataAt(k, i)]]

LEMMA PlacedFacts ==
  ASSUME NEW k \in Seq(Block)
  PROVE  /\ Placed(k) \in Seq(Block) /\ Len(Placed(k)) = Len(k) /\ DOMAIN Placed(k) = 1 .. Len(k)
         /\ \A i \in 1 .. Len(k) : Placed(k)[i].off = DataAt(k, i) /\ Placed(k)[i].len = k[i].len
         /\ WellPlaced(Placed(k)) /\ Used(Placed(k)) = Used(k)
<1>1. Len(k) \in Nat /\ DOMAIN k = 1 .. Len(k) /\ \A i \in 1 .. Len(k) : k[i] \in Block
  BY BlockFacts
<1>2. \A i \in 1 .. Len(k) : DataAt(k, i) \in Nat  BY PlaceFacts
<1>3. \A b \in Block, a \in Nat :
        /\ [b EXCEPT !.off = a] \in Block
        /\ [b EXCEPT !.off = a].off = a /\ [b EXCEPT !.off = a].len = b.len
  BY DEF Block
<1>4. PICK p : p = Placed(k)  OBVIOUS
<1>5. p = [i \in 1 .. Len(k) |-> [k[i] EXCEPT !.off = DataAt(k, i)]]  BY <1>1, <1>4 DEF Placed
<1>6. \A i \in 1 .. Len(k) : p[i] \in Block /\ p[i].off = DataAt(k, i) /\ p[i].len = k[i].len
  <2> SUFFICES ASSUME NEW i \in 1 .. Len(k)
               PROVE  p[i] \in Block /\ p[i].off = DataAt(k, i) /\ p[i].len = k[i].len
    OBVIOUS
  <2>1. p[i] = [k[i] EXCEPT !.off = DataAt(k, i)]  BY <1>5
  <2>2. k[i] \in Block /\ DataAt(k, i) \in Nat  BY <1>1, <1>2
  <2> QED  BY <1>3, <2>1, <2>2
<1>7. p \in [1 .. Len(k) -> Block]
  <2>1. p = [i \in 1 .. Len(k) |-> p[i]]  BY <1>5
  <2> QED  BY <1>6, <2>1
<1>8. p \in Seq(Block) /\ Len(p) = Len(k) /\ DOMAIN p = 1 .. Len(k)  BY <1>1, <1>7
<1>9. \A i \in 0 .. Len(k) : Tops(p)[i] = Tops(k)[i]
  <2>1. Len(k) <= Len(p) /\ Len(k) <= Len(k)  BY <1>1, <1>8
  <2>2. \A i \in 1 .. Len(k) : p[i].len = k[i].len  BY <1>6
  <2> QED  BY <1>1, <1>8, <2>1, <2>2, TopsSame
<1>10. Used(p) = Used(k)
  <2>1. Len(k) \in 0 .. Len(k)  BY <1>1
  <2> QED  BY <1>8, <1>9, <2>1 DEF Used
<1>11. WellPlaced(p)
  <2> SUFFICES ASSUME NEW i \in 1 .. Len(k) PROVE p[i].off = DataAt(p, i)
    BY <1>8 DEF WellPlaced
  <2>1. i - 1 \in 0 .. Len(k)  BY <1>1
  <2>2. Tops(p)[i - 1] = Tops(k)[i - 1]  BY <1>9, <2>1
  <2> QED  BY <1>6, <2>2 DEF DataAt
<1> QED  BY <1>4, <1>6, <1>8, <1>10, <1>11

LEMMA CompactedByMoving ==
  ASSUME NEW bs \in Seq(Block), NEW es \in Seq(Item), NEW m \in Mems, NEW w \in Words,
         WellPlaced(bs), Used(bs) <= Limit,
         Len(Survivors(bs, Collect(es, m))) # Len(bs)
  PROVE  Compacted(Pool(bs, es, m, w), Defragmented(Pool(bs, es, m, w)))
<1> DEFINE s == Pool(bs, es, m, w)
<1>1. PICK c : c = Collect(es, m)  OBVIOUS
<1>2. /\ c \in Seq(Item) /\ Len(c) <= Len(es)
      /\ \A j \in DOMAIN c : m[c[j].var] = c[j].at
  <2>1. Current(es, m, c)  BY <1>1, CollectFacts
  <2> QED  BY <2>1 DEF Current
<1>3. PICK k : k = Survivors(bs, c)  OBVIOUS
<1>4. PICK idx :
        /\ k \in Seq(Block) /\ Compacts(bs, k, idx)
        /\ \A j \in 1 .. Len(k) : \E e \in DOMAIN c : c[e].at = k[j].off
        /\ \A i \in 1 .. Len(bs), e \in DOMAIN c : c[e].at = bs[i].off =>
             \E j \in 1 .. Len(k) : k[j] = bs[i]
  <2>1. Survive(bs, c, k)  BY <1>2, <1>3, SurvivorFacts
  <2> QED  BY <2>1 DEF Survive
<1> DEFINE E == Len(c)
<1>5. /\ E \in Nat /\ DOMAIN c = 1 .. E
      /\ \A e \in 1 .. E : c[e] \in Item /\ c[e].var \in Vars /\ c[e].at \in Nat
  BY <1>2, EntryFacts
<1>6. PICK s0 : s0 = [entries |-> c, mem |-> m]  OBVIOUS
<1>7. s0.entries = c /\ s0.mem = m  BY <1>6
<1>8. s0 \in Tables(E)
  <2>1. c \in [1 .. E -> Item]  BY <1>2, <1>5
  <2> HIDE DEF E
  <2> QED  BY <1>6, <2>1 DEF Tables
<1>9. PICK x : x = Retargeted(k, s0)[Len(k)]  OBVIOUS
<1>10. /\ \A j \in 1 .. Len(k) :
            /\ DataAt(k, j) <= k[j].off /\ k[j].off + k[j].len <= Used(bs)
       /\ \A i, j \in 1 .. Len(k) : i < j => k[i].off < k[j].off
  BY <1>4, CompactionOrder
<1>11. x \in Tables(E) /\ RetargetDone(E, k, Len(k), s0, x)
  <2>1. \A e \in 1 .. E : s0.mem[s0.entries[e].var] = s0.entries[e].at  BY <1>2, <1>5, <1>7
  <2>2. \A j \in 1 .. Len(k) : DataAt(k, j) <= k[j].off  BY <1>10
  <2> HIDE DEF E
  <2> QED  BY <1>4, <1>5, <1>8, <1>9, <1>10, <2>1, <2>2, RetargetedFacts
<1>12. /\ \A e \in 1 .. E :
            /\ x.entries[e].var = c[e].var
            /\ \A j \in 1 .. Len(k) : c[e].at = k[j].off => x.entries[e].at = DataAt(k, j)
            /\ x.mem[c[e].var] = x.entries[e].at
       /\ \A u \in Vars : (\A e \in 1 .. E : c[e].var # u) => x.mem[u] = m[u]
  BY <1>7, <1>11 DEF RetargetDone
<1>13. x.entries \in Seq(Item) /\ Len(x.entries) = E /\ DOMAIN x.entries = 1 .. E /\ x.mem \in Mems
  <2> HIDE DEF E
  <2>1. x.entries \in [1 .. E -> Item] /\ x.mem \in Mems  BY <1>5, <1>11, TablesFacts
  <2> QED  BY <1>5, <2>1
<1>14. Defragmented(s) = Pool(Placed(k), x.entries, x.mem, Moved(k, w))
  <2>1. s.blocks = bs /\ s.entries = es /\ s.mem = m /\ s.word = w  BY DEF Pool
  <2> HIDE DEF s
  <2>2. Kept(bs, {i \in DOMAIN bs : Referenced(bs[i], c)}) = k  BY <1>3 DEF Survivors
  <2>3. Len(k) # Len(bs)  BY <1>1, <1>3
  <2> QED  BY <1>1, <1>6, <1>9, <2>1, <2>2, <2>3 DEF Defragmented, Placed, Pool
<1>15. PICK d : d = Defragmented(s)  OBVIOUS
<1>16. /\ d.blocks = Placed(k) /\ d.entries = x.entries /\ d.mem = x.mem /\ d.word = Moved(k, w)
       /\ s.blocks = bs /\ s.entries = es /\ s.mem = m /\ s.word = w
  BY <1>14, <1>15 DEF Pool
<1>17. /\ Moved(k, w) \in Words
       /\ \A i \in 1 .. Len(k), a \in Nat :
            DataAt(k, i) <= a /\ a < DataAt(k, i) + k[i].len =>
              Moved(k, w)[a] = w[k[i].off - DataAt(k, i) + a]
  BY <1>4, MovedFacts
<1>18. PICK p : p = Placed(k)  OBVIOUS
<1>19. /\ p \in Seq(Block) /\ Len(p) = Len(k) /\ DOMAIN p = 1 .. Len(k)
       /\ \A i \in 1 .. Len(k) : p[i].off = DataAt(k, i) /\ p[i].len = k[i].len
       /\ WellPlaced(p) /\ Used(p) = Used(k)
  BY <1>4, <1>18, PlacedFacts
<1>20. d \in Pools  BY <1>13, <1>14, <1>15, <1>17, <1>18, <1>19 DEF Pools, Pool
<1>21. \A i \in 1 .. Len(k) : DataAt(k, i) \in Nat /\ k[i].off \in Nat /\ k[i].len \in Nat
  BY <1>4, PlaceFacts, BlockFacts
<1> HIDE DEF s, E
<1>22. ASSUME NEW u \in Vars, m[u] = Null PROVE x.mem[u] = Null
  <2>1. \A e \in 1 .. E : c[e].var # u  BY <1>2, <1>5, <1>22 DEF Null
  <2> QED  BY <1>12, <1>22, <2>1
<1>23. ASSUME NEW i \in DOMAIN p PROVE \E v \in Vars : x.mem[v] = p[i].off
  <2>1. i \in 1 .. Len(k)  BY <1>19
  <2>2. PICK e \in 1 .. E : c[e].at = k[i].off  BY <1>4, <1>5, <2>1
  <2>3. x.mem[c[e].var] = DataAt(k, i)  BY <1>12, <2>1, <2>2
  <2> QED  BY <1>5, <1>19, <2>1, <2>3
<1>24. ASSUME NEW u \in Vars, NEW t, Names(es, m, u), Holds(bs, m, w, u, t)
       PROVE  Names(x.entries, x.mem, u) /\ Holds(p, x.mem, Moved(k, w), u, t)
  <2>1. PICK i \in 1 .. Len(bs) :
          bs[i].off = m[u] /\ \A a \in m[u] .. m[u] + bs[i].len - 1 : w[a] = t
    BY <1>24, BlockFacts DEF Holds
  <2>2. PICK e \in 1 .. E : c[e] = Entry(u, m[u])
    <3>1. Names(c, m, u)  BY <1>1, <1>24, CollectNames
    <3> QED  BY <1>5, <3>1 DEF Names
  <2>3. c[e].var = u /\ c[e].at = bs[i].off  BY <2>1, <2>2 DEF Entry
  <2>4. PICK j \in 1 .. Len(k) : k[j] = bs[i]  BY <1>4, <1>5, <2>3
  <2>5. x.entries[e].var = u /\ x.entries[e].at = DataAt(k, j) /\ x.mem[u] = DataAt(k, j)
    BY <1>12, <2>3, <2>4
  <2>6. Names(x.entries, x.mem, u)
    <3>1. x.entries[e] = Entry(x.entries[e].var, x.entries[e].at)  BY <1>13, EntryFacts
    <3> QED  BY <1>13, <2>5, <3>1 DEF Names
  <2>7. ASSUME NEW a \in DataAt(k, j) .. DataAt(k, j) + p[j].len - 1 PROVE Moved(k, w)[a] = t
    <3>1. p[j].len = k[j].len /\ DataAt(k, j) \in Nat /\ k[j].off \in Nat /\ k[j].len \in Nat
      BY <1>19, <1>21
    <3>2. a \in Nat /\ DataAt(k, j) <= a /\ a < DataAt(k, j) + k[j].len  BY <2>7, <3>1
    <3>3. Moved(k, w)[a] = w[k[j].off - DataAt(k, j) + a]  BY <1>17, <3>2
    <3>4. k[j].off - DataAt(k, j) + a \in k[j].off .. k[j].off + k[j].len - 1
      <4>1. PICK y \in Nat, o \in Nat, l \in Nat : y = DataAt(k, j) /\ o = k[j].off /\ l = k[j].len
        BY <3>1
      <4>2. y <= a /\ a < y + l /\ a \in Nat  BY <3>2, <4>1
      <4>3. o - y + a \in o .. o + l - 1  BY <4>2, Shifted
      <4> QED  BY <4>1, <4>3
    <3>5. k[j].off = m[u] /\ k[j].len = bs[i].len  BY <2>1, <2>4
    <3> QED  BY <2>1, <3>3, <3>4, <3>5
  <2>8. Holds(p, x.mem, Moved(k, w), u, t)
    <3>1. j \in DOMAIN p /\ p[j].off = x.mem[u]  BY <1>19, <2>5
    <3> QED  BY <2>5, <2>7, <3>1 DEF Holds
  <2> QED  BY <2>6, <2>8
<1>25. Used(p) <= Used(bs) /\ Used(p) = Used(Survivors(bs, Collect(es, m)))
  BY <1>1, <1>3, <1>4, <1>19, CompactionBound
<1>26. Len(x.entries) <= Len(es)  BY <1>2, <1>13 DEF E
<1>27. Compacted(s, d)
  <2>1. d.blocks = p  BY <1>16, <1>18
  <2> QED  BY <1>16, <1>19, <1>20, <1>22, <1>23, <1>24, <1>25, <1>26, <2>1 DEF Compacted
<1> QED  BY <1>15, <1>27 DEF s

--------------------------------------------------------------------------------
(* The parts of an allocation.                                               *)
LEMMA FreshTextFacts ==
  ASSUME text \in [Vars -> Texts \cup {NoText}]
  PROVE  FreshText \in Texts
<1> DEFINE Used_ == {text[u] : u \in Vars}
<1>1. IsFiniteSet(Vars)  BY DatasetAssumption
<1>2. IsFiniteSet(Used_) /\ Cardinality(Used_) <= Cardinality(Vars)
  <2>1. PICK f : f = text  OBVIOUS
  <2>2. f \in Surjection(Vars, Used_)
    <3>1. f = [u \in Vars |-> f[u]] /\ \A u \in Vars : f[u] \in Used_  BY <2>1
    <3>2. f \in [Vars -> Used_]
      <4> HIDE DEF Used_
      <4> QED  BY <3>1
    <3>3. \A y \in Used_ : \E u \in Vars : f[u] = y  BY <2>1
    <3> HIDE DEF Used_
    <3> QED  BY <3>2, <3>3 DEF Surjection
  <2> HIDE DEF Used_
  <2> QED  BY <1>1, <2>2, FS_Surjection
<1>3. Cardinality(Vars) \in Nat  BY <1>1, FS_CardinalityType
<1>4. IsFiniteSet(Texts) /\ Cardinality(Texts) = Cardinality(Vars) + 1
  <2>1. PICK n \in Nat : n = Cardinality(Vars)  BY <1>3
  <2>2. 1 \in Int /\ n + 1 \in Int  OBVIOUS
  <2>3. IsFiniteSet(1 .. n + 1)
        /\ Cardinality(1 .. n + 1) = IF 1 > n + 1 THEN 0 ELSE n + 1 - 1 + 1
    BY <2>2, FS_Interval
  <2> QED  BY <2>1, <2>3 DEF Texts
<1>5. ~(Texts \subseteq Used_)
  <2> SUFFICES ASSUME Texts \subseteq Used_ PROVE FALSE  OBVIOUS
  <2> HIDE DEF Used_
  <2>1. Cardinality(Texts) <= Cardinality(Used_)  BY <1>2, FS_Subset
  <2>2. Cardinality(Used_) \in Nat  BY <1>2, FS_CardinalityType
  <2> QED  BY <1>2, <1>3, <1>4, <2>1, <2>2
<1>6. \E t \in Texts : \A u \in Vars : text[u] # t  BY <1>5
<1> QED  BY <1>6 DEF FreshText

LEMMA Within ==
  ASSUME NEW bs \in Seq(Block), WellPlaced(bs)
  PROVE  \A i \in 1 .. Len(bs) : Header <= bs[i].off /\ bs[i].off + bs[i].len <= Used(bs)
<1> SUFFICES ASSUME NEW i \in 1 .. Len(bs)
             PROVE  Header <= bs[i].off /\ bs[i].off + bs[i].len <= Used(bs)
  OBVIOUS
<1>1. Len(bs) \in Nat /\ i \in DOMAIN bs  BY BlockFacts
<1>2. bs[i].off = DataAt(bs, i)  BY <1>1 DEF WellPlaced
<1>3. /\ DataAt(bs, i) \in Nat /\ Tops(bs)[i - 1] \in Nat /\ Tops(bs)[i] \in Nat
      /\ DataAt(bs, i) = Tops(bs)[i - 1] + Header
      /\ Tops(bs)[i] = DataAt(bs, i) + bs[i].len
  BY PlaceFacts
<1>4. i \in 0 .. Len(bs) /\ Len(bs) \in 0 .. Len(bs) /\ i <= Len(bs)  BY <1>1
<1>5. Tops(bs)[i] <= Tops(bs)[Len(bs)]  BY <1>4, TopsMonotone
<1> QED  BY <1>2, <1>3, <1>5, HeaderNat DEF Used

LEMMA PushFacts ==
  ASSUME NEW bs \in Seq(Block), NEW n \in Nat, WellPlaced(bs)
  PROVE  /\ Push(bs, n) \in Seq(Block) /\ WellPlaced(Push(bs, n))
         /\ Used(Push(bs, n)) = Used(bs) + Header + n
         /\ Last(Push(bs, n)) = [off |-> Used(bs) + Header, len |-> n]
         /\ Len(Push(bs, n)) = Len(bs) + 1 /\ Push(bs, n)[Len(bs) + 1] = Last(Push(bs, n))
         /\ \A i \in 1 .. Len(bs) : Push(bs, n)[i] = bs[i]
<1>1. Len(bs) \in Nat /\ Used(bs) \in Nat /\ Header \in Nat  BY BlockFacts, PlaceFacts, HeaderNat
<1>12. Used(bs) + Header \in Nat  BY <1>1
<1>2. PICK b \in Block : b = [off |-> Used(bs) + Header, len |-> n]  BY <1>12 DEF Block
<1>3. PICK p : p = Push(bs, n)  OBVIOUS
<1>4. p = Append(bs, b)  BY <1>2, <1>3 DEF Push
<1>5. /\ p \in Seq(Block) /\ Len(p) = Len(bs) + 1 /\ p[Len(bs) + 1] = b
      /\ \A i \in 1 .. Len(bs) : p[i] = bs[i]
  BY <1>4
<1>6. Last(p) = b  BY <1>5 DEF Last
<1>7. \A i \in 0 .. Len(bs) : Tops(p)[i] = Tops(bs)[i]
  <2>1. Len(bs) <= Len(p) /\ Len(bs) <= Len(bs)  BY <1>1, <1>5
  <2>2. \A i \in 1 .. Len(bs) : p[i].len = bs[i].len  BY <1>5
  <2> QED  BY <1>1, <1>5, <2>1, <2>2, TopsSame
<1>8. Tops(p)[Len(bs)] = Used(bs)
  <2>1. Len(bs) \in 0 .. Len(bs)  BY <1>1
  <2> QED  BY <1>7, <2>1 DEF Used
<1>9. Used(p) = Used(bs) + Header + n
  <2>1. Len(bs) + 1 \in 1 .. Len(p) /\ (Len(bs) + 1) - 1 = Len(bs)  BY <1>1, <1>5
  <2>2. Tops(p)[Len(bs) + 1] = Tops(p)[Len(bs)] + Header + p[Len(bs) + 1].len
    BY <1>5, <2>1, TopsFacts
  <2>3. p[Len(bs) + 1].len = n  BY <1>2, <1>5
  <2>4. Used(p) = Tops(p)[Len(bs) + 1]  BY <1>5 DEF Used
  <2> QED  BY <1>8, <2>2, <2>3, <2>4
<1>10. ASSUME NEW i \in 1 .. Len(bs) + 1 PROVE p[i].off = DataAt(p, i)
  <2>1. CASE i = Len(bs) + 1
    <3>1. i - 1 = Len(bs)  BY <1>1, <2>1
    <3>2. p[i].off = Used(bs) + Header  BY <1>2, <1>5, <2>1
    <3> QED  BY <1>8, <3>1, <3>2 DEF DataAt
  <2>2. CASE i \in 1 .. Len(bs)
    <3>1. p[i].off = DataAt(bs, i)
      <4>1. i \in DOMAIN bs  BY <2>2, BlockFacts
      <4> QED  BY <1>5, <2>2, <4>1 DEF WellPlaced
    <3>2. i - 1 \in 0 .. Len(bs)  BY <1>1, <2>2
    <3>3. Tops(p)[i - 1] = Tops(bs)[i - 1]  BY <1>7, <3>2
    <3> QED  BY <3>1, <3>3 DEF DataAt
  <2> QED  BY <1>1, <2>1, <2>2
<1>11. WellPlaced(p)
  <2>1. DOMAIN p = 1 .. Len(bs) + 1  BY <1>5
  <2> QED  BY <1>10, <2>1 DEF WellPlaced
<1> QED  BY <1>2, <1>3, <1>5, <1>6, <1>9, <1>11

LEMMA WrittenFacts ==
  ASSUME NEW w \in Words, NEW b \in Block, NEW t \in Texts, Header <= b.off
  PROVE  /\ Written(w, b, 0, t) \in Words
         /\ \A a \in 0 .. Limit - 1 :
              /\ a \in b.off .. b.off + b.len - 1 => Written(w, b, 0, t)[a] = t
              /\ a < b.off - Header => Written(w, b, 0, t)[a] = w[a]
<1>1. b.off \in Nat /\ b.len \in Nat /\ Header \in Nat  BY HeaderNat DEF Block
<1>2. DOMAIN w = 0 .. Limit - 1 /\ \A a \in 0 .. Limit - 1 : w[a] \in Texts \cup {NoText}
  BY DEF Words
<1>3. PICK W : W = Written(w, b, 0, t)  OBVIOUS
<1>4. b.off + 0 = b.off  BY <1>1
<1>5. W = [a \in 0 .. Limit - 1 |-> IF a \in b.off .. b.off + b.len - 1 THEN t
                                    ELSE IF a \in b.off - Header .. b.off - 1 THEN NoText
                                    ELSE w[a]]
  BY <1>2, <1>3, <1>4 DEF Written
<1>6. W \in Words
  <2>1. \A a \in 0 .. Limit - 1 : W[a] \in Texts \cup {NoText}  BY <1>2, <1>5
  <2>2. W = [a \in 0 .. Limit - 1 |-> W[a]]  BY <1>5
  <2> QED  BY <2>1, <2>2 DEF Words
<1>7. ASSUME NEW a \in 0 .. Limit - 1, a \in b.off .. b.off + b.len - 1 PROVE W[a] = t
  BY <1>5, <1>7
<1>8. ASSUME NEW a \in 0 .. Limit - 1, a < b.off - Header PROVE W[a] = w[a]
  <2>1. a \notin b.off .. b.off + b.len - 1 /\ a \notin b.off - Header .. b.off - 1
    BY <1>1, <1>8
  <2> QED  BY <1>5, <2>1
<1> QED  BY <1>3, <1>6, <1>7, <1>8

\* a registered entry survives the registration of another
LEMMA RegisterFacts ==
  ASSUME NEW es \in Seq(Item), NEW m \in Mems, NEW v \in Vars, m[v] \in Nat, Len(es) < Cap
  PROVE  /\ CollectIfFull(Append(es, Entry(v, m[v])), m) \in Seq(Item)
         /\ Len(CollectIfFull(Append(es, Entry(v, m[v])), m)) <= Cap
         /\ Names(CollectIfFull(Append(es, Entry(v, m[v])), m), m, v)
         /\ \A u \in Vars : Names(es, m, u) =>
              Names(CollectIfFull(Append(es, Entry(v, m[v])), m), m, u)
<1>1. PICK x \in Item : x = Entry(v, m[v])  BY ItemFacts
<1>2. PICK l : l = Append(es, x)  OBVIOUS
<1>3. Len(es) \in Nat /\ DOMAIN es = 1 .. Len(es) /\ Cap \in Nat  BY DatasetAssumption
<1>4. /\ l \in Seq(Item) /\ Len(l) = Len(es) + 1 /\ DOMAIN l = 1 .. Len(es) + 1
      /\ l[Len(es) + 1] = x /\ \A i \in 1 .. Len(es) : l[i] = es[i]
  BY <1>2
<1>5. Names(l, m, v)
  <2>1. Len(es) + 1 \in DOMAIN l  BY <1>3, <1>4
  <2> QED  BY <1>1, <1>4, <2>1 DEF Names
<1>6. ASSUME NEW u \in Vars, Names(es, m, u) PROVE Names(l, m, u)
  <2>1. PICK i \in 1 .. Len(es) : es[i] = Entry(u, m[u])  BY <1>3, <1>6 DEF Names
  <2>2. i \in DOMAIN l /\ l[i] = Entry(u, m[u])  BY <1>3, <1>4, <2>1
  <2> QED  BY <2>2 DEF Names
<1>7. PICK r : r = CollectIfFull(l, m)  OBVIOUS
<1>8. r \in Seq(Item) /\ Len(r) <= Cap /\ \A u \in Vars : Names(l, m, u) => Names(r, m, u)
  <2>1. CASE Len(l) >= Cap
    <3>1. r = Collect(l, m)  BY <1>7, <2>1 DEF CollectIfFull
    <3>2. r \in Seq(Item) /\ Len(r) <= Len(l)
      <4>1. Current(l, m, r)  BY <1>4, <3>1, CollectFacts
      <4> QED  BY <4>1 DEF Current
    <3>3. \A u \in Vars : Names(l, m, u) => Names(r, m, u)  BY <1>4, <3>1, CollectNames
    <3>4. Len(r) \in Nat /\ Len(l) <= Cap  BY <1>3, <1>4, <3>2
    <3> QED  BY <1>3, <1>4, <3>2, <3>3, <3>4
  <2>2. CASE ~(Len(l) >= Cap)
    <3>1. r = l  BY <1>7, <2>2 DEF CollectIfFull
    <3>2. Len(r) <= Cap  BY <1>3, <1>4, <3>1
    <3> QED  BY <1>4, <3>1, <3>2
  <2> QED  BY <2>1, <2>2
<1> QED  BY <1>1, <1>2, <1>5, <1>6, <1>7, <1>8

LEMMA DefragmentedFacts ==
  ASSUME NEW bs \in Seq(Block), NEW es \in Seq(Item), NEW m \in Mems, NEW w \in Words,
         WellPlaced(bs), Used(bs) <= Limit
  PROVE  Compacted(Pool(bs, es, m, w), Defragmented(Pool(bs, es, m, w)))
BY CompactedInPlace, CompactedByMoving

--------------------------------------------------------------------------------
(* The invariant: beyond the types, an owner is registered and its block      *)
(* holds its text.  Without the registration nothing keeps the block.         *)
Owned == \A v \in Vars : text[v] # NoText /\ v \notin loose =>
           Names(entries, mem, v) /\ Holds(blocks, mem, word, v, text[v])
IInv == TypeOK /\ Owned

LEMMA Shape ==
  ASSUME TypeOK
  PROVE  /\ blocks \in Seq(Block) /\ entries \in Seq(Item) /\ mem \in Mems /\ word \in Words
         /\ text \in [Vars -> Texts \cup {NoText}] /\ loose \subseteq Vars
         /\ WellPlaced(blocks) /\ Used(blocks) <= Limit /\ Len(entries) <= Cap
BY DEF TypeOK, Block, Item, Mems, Words, WellPlaced

LEMMA PoolFacts ==
  ASSUME NEW bs, NEW es, NEW m, NEW w
  PROVE  /\ Pool(bs, es, m, w).blocks = bs /\ Pool(bs, es, m, w).entries = es
         /\ Pool(bs, es, m, w).mem = m /\ Pool(bs, es, m, w).word = w
         /\ bs \in Seq(Block) /\ es \in Seq(Item) /\ m \in Mems /\ w \in Words =>
              Pool(bs, es, m, w) \in Pools
BY DEF Pool, Pools

LEMMA PoolsFacts ==
  ASSUME NEW d \in Pools
  PROVE  d.blocks \in Seq(Block) /\ d.entries \in Seq(Item) /\ d.mem \in Mems /\ d.word \in Words
BY DEF Pools

Clear(v) == [mem EXCEPT ![v] = Null]

\* the state an allocation for v starts from
Ready(v, n, d) ==
  /\ d \in Pools /\ WellPlaced(d.blocks) /\ Used(d.blocks) <= Limit
  /\ Len(d.entries) <= Len(entries) /\ d.mem[v] = Null
  /\ \A u \in Vars \ {v} : \A t :
       Names(entries, mem, u) /\ Holds(blocks, mem, word, u, t) =>
         Names(d.entries, d.mem, u) /\ Holds(d.blocks, d.mem, d.word, u, t)
  /\ Len(entries) < Cap /\ ~Room(d.blocks, n) =>
       Used(d.blocks) = Used(Survivors(blocks, Collect(entries, Clear(v))))

LEMMA PreparedFacts ==
  ASSUME TypeOK, NEW v \in Vars, NEW n \in Nat
  PROVE  Ready(v, n, Prepared(v, n))
<1> DEFINE m == Clear(v)
           s == Pool(blocks, entries, m, word)
<1>1. /\ blocks \in Seq(Block) /\ entries \in Seq(Item) /\ mem \in Mems /\ word \in Words
      /\ WellPlaced(blocks) /\ Used(blocks) <= Limit /\ Len(entries) <= Cap
  BY Shape
<1>2. m \in Mems /\ m[v] = Null /\ \A u \in Vars \ {v} : m[u] = mem[u]
  BY <1>1 DEF Clear, Mems
<1>3. /\ s.blocks = blocks /\ s.entries = entries /\ s.mem = m /\ s.word = word /\ s \in Pools
  <2> HIDE DEF m
  <2> QED  BY <1>1, <1>2, PoolFacts
<1>4. Prepared(v, n) = IF Len(entries) < Cap /\ ~Room(blocks, n) THEN Defragmented(s) ELSE s
  BY DEF Prepared, Pool, Clear
<1>5. \A u \in Vars \ {v} : \A t :
        Names(entries, mem, u) /\ Holds(blocks, mem, word, u, t) =>
          Names(entries, m, u) /\ Holds(blocks, m, word, u, t)
  BY <1>2 DEF Names, Holds
<1>6. Compacted(s, Defragmented(s))
  <2> HIDE DEF m
  <2> QED  BY <1>1, <1>2, DefragmentedFacts
<1>7. Len(entries) \in Nat /\ Used(blocks) \in Nat /\ Limit \in Nat
  BY <1>1, PlaceFacts, DatasetAssumption
<1>8. PICK d : d = Prepared(v, n)  OBVIOUS
<1> HIDE DEF s
<1>9. CASE Len(entries) < Cap /\ ~Room(blocks, n)
  <2>1. d = Defragmented(s)  BY <1>4, <1>8, <1>9
  <2>2. /\ d \in Pools /\ WellPlaced(d.blocks)
        /\ Used(d.blocks) = Used(Survivors(blocks, Collect(entries, m)))
        /\ Used(d.blocks) <= Used(blocks) /\ Len(d.entries) <= Len(entries)
        /\ \A u \in Vars : m[u] = Null => d.mem[u] = Null
        /\ \A u \in Vars : \A t : Names(entries, m, u) /\ Holds(blocks, m, word, u, t) =>
             Names(d.entries, d.mem, u) /\ Holds(d.blocks, d.mem, d.word, u, t)
    <3> HIDE DEF m
    <3> QED  BY <1>3, <1>6, <2>1 DEF Compacted
  <2>3. Used(d.blocks) <= Limit
    <3>1. Used(d.blocks) \in Nat  BY <2>2, PoolsFacts, PlaceFacts
    <3> QED  BY <1>1, <1>7, <2>2, <3>1
  <2>4. d.mem[v] = Null  BY <1>2, <2>2
  <2>5. \A u \in Vars \ {v} : \A t :
          Names(entries, mem, u) /\ Holds(blocks, mem, word, u, t) =>
            Names(d.entries, d.mem, u) /\ Holds(d.blocks, d.mem, d.word, u, t)
    BY <1>5, <2>2
  <2> QED  BY <1>8, <2>2, <2>3, <2>4, <2>5 DEF Ready
<1>10. CASE ~(Len(entries) < Cap /\ ~Room(blocks, n))
  <2>1. d = s  BY <1>4, <1>8, <1>10
  <2>2. ~(Len(entries) < Cap /\ ~Room(d.blocks, n))  BY <1>3, <1>10, <2>1
  <2> HIDE DEF m
  <2>3. Len(d.entries) <= Len(entries) /\ d.mem[v] = Null  BY <1>2, <1>3, <1>7, <2>1
  <2>4. d \in Pools /\ WellPlaced(d.blocks) /\ Used(d.blocks) <= Limit  BY <1>1, <1>3, <2>1
  <2>5. \A u \in Vars \ {v} : \A t :
          Names(entries, mem, u) /\ Holds(blocks, mem, word, u, t) =>
            Names(d.entries, d.mem, u) /\ Holds(d.blocks, d.mem, d.word, u, t)
    BY <1>3, <1>5, <2>1
  <2> QED  BY <1>8, <2>2, <2>3, <2>4, <2>5 DEF Ready
<1> QED  BY <1>9, <1>10

LEMMA Below ==
  ASSUME NEW o \in Nat, NEW l \in Nat, NEW y \in Nat, o + l <= y, NEW a \in o .. o + l - 1
  PROVE  a \in Nat /\ a < y
OBVIOUS

\* an allocation for v, of n words that take text t
Given(v, n, t, r) ==
  /\ r \in Pools /\ WellPlaced(r.blocks) /\ Used(r.blocks) <= Limit /\ Len(r.entries) <= Cap
  /\ \A u \in Vars \ {v} : \A x :
       Names(entries, mem, u) /\ Holds(blocks, mem, word, u, x) =>
         Names(r.entries, r.mem, u) /\ Holds(r.blocks, r.mem, r.word, u, x)
  /\ r.mem[v] # Null => Names(r.entries, r.mem, v) /\ Holds(r.blocks, r.mem, r.word, v, t)
  /\ r.mem[v] = Null /\ Len(entries) < Cap =>
       Used(Survivors(blocks, Collect(entries, Clear(v)))) + n + Header >= Limit

LEMMA AllocatedFacts ==
  ASSUME TypeOK, NEW v \in Vars, NEW n \in Nat, NEW t \in Texts
  PROVE  Given(v, n, t, Allocated(v, n, t))
<1>1. PICK s : s = Prepared(v, n)  OBVIOUS
<1>2. Ready(v, n, s)  BY <1>1, PreparedFacts
<1>3. /\ s \in Pools /\ WellPlaced(s.blocks) /\ Used(s.blocks) <= Limit
      /\ Len(s.entries) <= Len(entries) /\ s.mem[v] = Null
      /\ \A u \in Vars \ {v} : \A x :
           Names(entries, mem, u) /\ Holds(blocks, mem, word, u, x) =>
             Names(s.entries, s.mem, u) /\ Holds(s.blocks, s.mem, s.word, u, x)
      /\ Len(entries) < Cap /\ ~Room(s.blocks, n) =>
           Used(s.blocks) = Used(Survivors(blocks, Collect(entries, Clear(v))))
  BY <1>2 DEF Ready
<1>4. /\ s.blocks \in Seq(Block) /\ s.entries \in Seq(Item) /\ s.mem \in Mems /\ s.word \in Words
  BY <1>3, PoolsFacts
<1>5. /\ Len(s.entries) \in Nat /\ Len(entries) \in Nat /\ Len(entries) <= Cap
      /\ Used(s.blocks) \in Nat /\ Limit \in Nat /\ Cap \in Nat /\ Header \in Nat
  BY <1>4, Shape, PlaceFacts, DatasetAssumption
<1> DEFINE bs == Push(s.blocks, n)
           m == [s.mem EXCEPT ![v] = Last(bs).off]
           es == CollectIfFull(Append(s.entries, Entry(v, Last(bs).off)), m)
           w == Written(s.word, Last(bs), 0, t)
<1>6. Allocated(v, n, t) = IF Len(entries) < Cap /\ Room(s.blocks, n) THEN Pool(bs, es, m, w) ELSE s
  BY <1>1 DEF Allocated, Pool
<1>7. PICK r : r = Allocated(v, n, t)  OBVIOUS
<1>8. CASE ~(Len(entries) < Cap /\ Room(s.blocks, n))
  <2>1. r = s  BY <1>6, <1>7, <1>8
  <2>2. Len(r.entries) <= Cap  BY <1>3, <1>5, <2>1
  <2>3. ASSUME Len(entries) < Cap
        PROVE  Used(Survivors(blocks, Collect(entries, Clear(v)))) + n + Header >= Limit
    <3>1. Used(s.blocks) = Used(Survivors(blocks, Collect(entries, Clear(v))))  BY <1>3, <1>8, <2>3
    <3>2. ~(Used(s.blocks) + n + Header < Limit)  BY <1>8, <2>3 DEF Room
    <3> QED  BY <1>5, <3>1, <3>2
  <2> QED  BY <1>3, <1>7, <2>1, <2>2, <2>3 DEF Given
<1>9. CASE Len(entries) < Cap /\ Room(s.blocks, n)
  <2>1. /\ bs \in Seq(Block) /\ WellPlaced(bs)
        /\ Used(bs) = Used(s.blocks) + Header + n
        /\ Last(bs) = [off |-> Used(s.blocks) + Header, len |-> n]
        /\ Len(bs) = Len(s.blocks) + 1 /\ bs[Len(s.blocks) + 1] = Last(bs)
        /\ \A i \in 1 .. Len(s.blocks) : bs[i] = s.blocks[i]
    BY <1>3, <1>4, PushFacts
  <2> HIDE DEF bs
  <2>2. PICK b : b = Last(bs)  OBVIOUS
  <2>3. b.off = Used(s.blocks) + Header /\ b.len = n  BY <2>1, <2>2
  <2>4. b \in Block /\ b.off \in Nat /\ Header <= b.off
    <3>1. Used(s.blocks) + Header \in Nat /\ Header <= Used(s.blocks) + Header  BY <1>5
    <3> QED  BY <2>1, <2>2, <2>3, <3>1 DEF Block
  <2>5. Used(bs) <= Limit /\ b.off + b.len <= Limit
    <3>1. Used(s.blocks) + n + Header < Limit  BY <1>9 DEF Room
    <3> QED  BY <1>5, <2>1, <2>3, <3>1
  <2>6. m \in Mems /\ m[v] = b.off /\ \A u \in Vars \ {v} : m[u] = s.mem[u]
    BY <1>4, <2>2, <2>4 DEF Mems
  <2> HIDE DEF m
  <2>7. /\ es \in Seq(Item) /\ Len(es) <= Cap /\ Names(es, m, v)
        /\ \A u \in Vars : Names(s.entries, m, u) => Names(es, m, u)
    <3>1. es = CollectIfFull(Append(s.entries, Entry(v, m[v])), m)  BY <2>2, <2>6
    <3>2. Len(s.entries) < Cap /\ m[v] \in Nat  BY <1>3, <1>5, <1>9, <2>4, <2>6
    <3> HIDE DEF es
    <3> QED  BY <1>4, <2>6, <3>1, <3>2, RegisterFacts
  <2>8. /\ w \in Words
        /\ \A a \in 0 .. Limit - 1 :
             /\ a \in b.off .. b.off + b.len - 1 => w[a] = t
             /\ a < b.off - Header => w[a] = s.word[a]
    BY <1>4, <2>2, <2>4, WrittenFacts
  <2> HIDE DEF es, w
  <2>9. r = Pool(bs, es, m, w)  BY <1>6, <1>7, <1>9
  <2>10. r.blocks = bs /\ r.entries = es /\ r.mem = m /\ r.word = w /\ r \in Pools
    BY <2>1, <2>6, <2>7, <2>8, <2>9, PoolFacts
  <2>11. Len(s.blocks) \in Nat /\ DOMAIN bs = 1 .. Len(s.blocks) + 1
         /\ DOMAIN s.blocks = 1 .. Len(s.blocks)
    BY <1>4, <2>1, BlockFacts
  <2>12. Holds(bs, m, w, v, t)
    <3>1. Len(s.blocks) + 1 \in DOMAIN bs  BY <2>11
    <3>2. bs[Len(s.blocks) + 1].off = m[v] /\ bs[Len(s.blocks) + 1].len = b.len
      BY <2>1, <2>2, <2>6
    <3>3. ASSUME NEW a \in m[v] .. m[v] + b.len - 1 PROVE w[a] = t
      <4>1. a \in b.off .. b.off + b.len - 1  BY <2>6
      <4>2. a \in 0 .. Limit - 1  BY <1>5, <2>3, <2>4, <2>5, <4>1
      <4> QED  BY <2>8, <4>1, <4>2
    <3> QED  BY <3>1, <3>2, <3>3 DEF Holds
  <2>13. ASSUME NEW u \in Vars \ {v}, NEW x,
                Names(s.entries, s.mem, u), Holds(s.blocks, s.mem, s.word, u, x)
         PROVE  Names(es, m, u) /\ Holds(bs, m, w, u, x)
    <3>1. m[u] = s.mem[u]  BY <2>6
    <3>2. Names(es, m, u)
      <4>1. Names(s.entries, m, u)  BY <2>13, <3>1 DEF Names
      <4> QED  BY <2>7, <4>1
    <3>3. PICK i \in 1 .. Len(s.blocks) :
            /\ s.blocks[i].off = s.mem[u]
            /\ \A a \in s.mem[u] .. s.mem[u] + s.blocks[i].len - 1 : s.word[a] = x
      BY <2>11, <2>13 DEF Holds
    <3>4. i \in DOMAIN bs /\ bs[i] = s.blocks[i]  BY <2>1, <2>11
    <3>5. /\ s.blocks[i].off \in Nat /\ s.blocks[i].len \in Nat
          /\ s.blocks[i].off + s.blocks[i].len <= Used(s.blocks)
      BY <1>3, <1>4, Within, BlockFacts
    <3>6. ASSUME NEW a \in m[u] .. m[u] + bs[i].len - 1 PROVE w[a] = x
      <4>1. PICK o \in Nat, l \in Nat :
              o = s.blocks[i].off /\ l = s.blocks[i].len /\ o + l <= Used(s.blocks)
        BY <3>5
      <4>2. a \in o .. o + l - 1  BY <3>1, <3>3, <3>4, <4>1
      <4>3. a \in 0 .. Limit - 1 /\ a < b.off - Header
        <5>1. PICK y \in Nat : y = Used(s.blocks) /\ y <= Limit /\ b.off = y + Header
          BY <1>3, <1>5, <2>3
        <5>2. o + l <= y  BY <4>1, <5>1
        <5>3. a \in Nat /\ a < y  BY <4>2, <5>2, Below
        <5> QED  BY <1>5, <5>1, <5>3
      <4>4. s.word[a] = x  BY <3>3, <4>1, <4>2
      <4> QED  BY <2>8, <4>3, <4>4
    <3>7. Holds(bs, m, w, u, x)  BY <3>1, <3>3, <3>4, <3>6 DEF Holds
    <3> QED  BY <3>2, <3>7
  <2>14. \A u \in Vars \ {v} : \A x :
           Names(entries, mem, u) /\ Holds(blocks, mem, word, u, x) =>
             Names(es, m, u) /\ Holds(bs, m, w, u, x)
    BY <1>3, <2>13
  <2>15. m[v] # Null  BY <2>4, <2>6 DEF Null
  <2> QED  BY <1>7, <2>1, <2>5, <2>7, <2>10, <2>12, <2>14, <2>15 DEF Given
<1> QED  BY <1>7, <1>8, <1>9

\* what every call leaves, before the words of no text are forgotten
Left(w) ==
  /\ blocks' \in Seq(Block) /\ entries' \in Seq(Item) /\ mem' \in Mems /\ w \in Words
  /\ text' \in [Vars -> Texts \cup {NoText}] /\ loose' \subseteq Vars
  /\ WellPlaced(blocks') /\ Used(blocks') <= Limit /\ Len(entries') <= Cap
  /\ \A v \in Vars : text'[v] # NoText /\ v \notin loose' =>
       Names(entries', mem', v) /\ Holds(blocks', mem', w, v, text'[v])

LEMMA Settle ==
  ASSUME NEW w, Left(w), word' = TextWords(w)
  PROVE  IInv'
<1>1. /\ blocks' \in Seq(Block) /\ entries' \in Seq(Item) /\ mem' \in Mems /\ w \in Words
      /\ text' \in [Vars -> Texts \cup {NoText}] /\ loose' \subseteq Vars
      /\ WellPlaced(blocks') /\ Used(blocks') <= Limit /\ Len(entries') <= Cap
  BY DEF Left
<1>2. PICK bs, m, x, W : bs = blocks' /\ m = mem' /\ x = text' /\ W = word'  OBVIOUS
<1>3. /\ bs \in Seq(Block) /\ m \in Mems /\ w \in Words /\ WellPlaced(bs) /\ Used(bs) <= Limit
      /\ Used(bs) \in Nat /\ Limit \in Nat /\ DOMAIN bs = 1 .. Len(bs)
      /\ \A i \in 1 .. Len(bs) : bs[i].off \in Nat /\ bs[i].len \in Nat
                                 /\ bs[i].off + bs[i].len <= Used(bs)
  BY <1>1, <1>2, PlaceFacts, BlockFacts, Within, DatasetAssumption
<1>4. DOMAIN w = 0 .. Limit - 1 /\ \A a \in 0 .. Limit - 1 : w[a] \in Texts \cup {NoText}
  BY <1>3 DEF Words
<1>5. W = [a \in 0 .. Limit - 1 |->
             IF \E v \in Vars, i \in DOMAIN bs :
                  x[v] = w[a] /\ m[v] = bs[i].off /\ a \in m[v] .. m[v] + bs[i].len - 1
             THEN w[a] ELSE NoText]
  BY <1>2, <1>4 DEF TextWords
<1>6. W \in Words
  <2>1. \A a \in 0 .. Limit - 1 : W[a] \in Texts \cup {NoText}  BY <1>4, <1>5
  <2>2. W = [a \in 0 .. Limit - 1 |-> W[a]]  BY <1>5
  <2> QED  BY <2>1, <2>2 DEF Words
<1>7. ASSUME NEW v \in Vars, Holds(bs, m, w, v, x[v]) PROVE Holds(bs, m, W, v, x[v])
  <2>1. PICK i \in DOMAIN bs :
          bs[i].off = m[v] /\ \A a \in m[v] .. m[v] + bs[i].len - 1 : w[a] = x[v]
    BY <1>7 DEF Holds
  <2>2. ASSUME NEW a \in m[v] .. m[v] + bs[i].len - 1 PROVE W[a] = x[v]
    <3>1. w[a] = x[v]  BY <2>1
    <3>2. a \in 0 .. Limit - 1
      <4>1. PICK o \in Nat, l \in Nat, y \in Nat :
              o = m[v] /\ l = bs[i].len /\ y = Used(bs) /\ o + l <= y
        BY <1>3, <2>1
      <4>2. a \in o .. o + l - 1  BY <4>1
      <4>3. a \in Nat /\ a < y  BY <4>1, <4>2, Below
      <4> QED  BY <1>3, <4>1, <4>3
    <3> QED  BY <1>5, <2>1, <3>1, <3>2
  <2> QED  BY <2>1, <2>2 DEF Holds
<1>8. \A v \in Vars : text'[v] # NoText /\ v \notin loose' =>
        Names(entries', mem', v) /\ Holds(blocks', mem', w, v, text'[v])
  BY DEF Left
<1>9. Owned'
  <2>1. \A v \in Vars : text'[v] # NoText /\ v \notin loose' =>
          Names(entries', mem', v) /\ Holds(blocks', mem', word', v, text'[v])
    BY <1>2, <1>7, <1>8
  <2> QED  BY <2>1 DEF Owned
<1>10. TypeOK'
  <2>1. \A i \in DOMAIN blocks' : blocks'[i].off = DataAt(blocks', i)  BY <1>1 DEF WellPlaced
  <2>2. word' \in Words  BY <1>2, <1>6
  <2> QED  BY <1>1, <2>1, <2>2 DEF TypeOK, Block, Item, Mems, Words
<1> QED  BY <1>9, <1>10 DEF IInv

LEMMA OwnedFacts ==
  ASSUME IInv, NEW v \in Vars, text[v] # NoText, v \notin loose
  PROVE  /\ Names(entries, mem, v) /\ Holds(blocks, mem, word, v, text[v])
         /\ mem[v] \in Nat /\ text[v] \in Texts
<1>1. Names(entries, mem, v) /\ Holds(blocks, mem, word, v, text[v])  BY DEF IInv, Owned
<1>2. blocks \in Seq(Block) /\ text \in [Vars -> Texts \cup {NoText}]  BY Shape DEF IInv
<1>3. PICK i \in DOMAIN blocks : blocks[i].off = mem[v]  BY <1>1 DEF Holds
<1>4. blocks[i].off \in Nat  BY <1>2, <1>3, BlockFacts
<1> QED  BY <1>1, <1>2, <1>3, <1>4

LEMMA AllocateKeeps ==
  ASSUME IInv, NEW v \in Vars, NEW n \in Sizes, Allocate(v, n)
  PROVE  IInv'
<1>1. n \in Nat  BY DatasetAssumption
<1>2. TypeOK /\ text \in [Vars -> Texts \cup {NoText}] /\ loose \subseteq Vars  BY Shape DEF IInv
<1>3. PICK t \in Texts : t = FreshText  BY <1>2, FreshTextFacts
<1>4. PICK r : r = Allocated(v, n, t)  OBVIOUS
<1>5. Given(v, n, t, r)  BY <1>1, <1>2, <1>4, AllocatedFacts
<1>6. /\ blocks' = r.blocks /\ entries' = r.entries /\ mem' = r.mem /\ word' = TextWords(r.word)
      /\ text' = [text EXCEPT ![v] = IF r.mem[v] = Null THEN NoText ELSE t]
      /\ loose' = loose \ {v}
  BY <1>3, <1>4 DEF Allocate, Become
<1>7. /\ r \in Pools /\ WellPlaced(r.blocks) /\ Used(r.blocks) <= Limit /\ Len(r.entries) <= Cap
      /\ \A u \in Vars \ {v} : \A x :
           Names(entries, mem, u) /\ Holds(blocks, mem, word, u, x) =>
             Names(r.entries, r.mem, u) /\ Holds(r.blocks, r.mem, r.word, u, x)
      /\ r.mem[v] # Null => Names(r.entries, r.mem, v) /\ Holds(r.blocks, r.mem, r.word, v, t)
  BY <1>5 DEF Given
<1>8. /\ r.blocks \in Seq(Block) /\ r.entries \in Seq(Item) /\ r.mem \in Mems /\ r.word \in Words
  BY <1>7, PoolsFacts
<1>9. text' \in [Vars -> Texts \cup {NoText}]  BY <1>2, <1>6
<1>10. ASSUME NEW u \in Vars, text'[u] # NoText, u \notin loose'
       PROVE  Names(entries', mem', u) /\ Holds(blocks', mem', r.word, u, text'[u])
  <2>1. CASE u = v
    <3>1. r.mem[v] # Null /\ text'[v] = t  BY <1>2, <1>6, <1>10, <2>1
    <3> QED  BY <1>6, <1>7, <2>1, <3>1
  <2>2. CASE u # v
    <3>1. text'[u] = text[u] /\ u \notin loose  BY <1>2, <1>6, <1>10, <2>2
    <3>2. Names(entries, mem, u) /\ Holds(blocks, mem, word, u, text[u])
      BY <1>10, <3>1, OwnedFacts
    <3> QED  BY <1>6, <1>7, <2>2, <3>1, <3>2
  <2> QED  BY <2>1, <2>2
<1>11. Left(r.word)  BY <1>2, <1>6, <1>7, <1>8, <1>9, <1>10 DEF Left
<1> QED  BY <1>6, <1>11, Settle

LEMMA DefragmentKeeps ==
  ASSUME IInv, Defragment
  PROVE  IInv'
<1>1. /\ blocks \in Seq(Block) /\ entries \in Seq(Item) /\ mem \in Mems /\ word \in Words
      /\ text \in [Vars -> Texts \cup {NoText}] /\ loose \subseteq Vars
      /\ WellPlaced(blocks) /\ Used(blocks) <= Limit /\ Len(entries) <= Cap
  BY Shape DEF IInv
<1>2. PICK s : s = Pool(blocks, entries, mem, word)  OBVIOUS
<1>3. PICK d : d = Defragmented(s)  OBVIOUS
<1>4. Compacted(s, d)  BY <1>1, <1>2, <1>3, DefragmentedFacts
<1>5. s.blocks = blocks /\ s.entries = entries /\ s.mem = mem /\ s.word = word  BY <1>2, PoolFacts
<1>6. /\ d \in Pools /\ WellPlaced(d.blocks)
      /\ Used(d.blocks) <= Used(blocks) /\ Len(d.entries) <= Len(entries)
      /\ \A u \in Vars : \A t : Names(entries, mem, u) /\ Holds(blocks, mem, word, u, t) =>
           Names(d.entries, d.mem, u) /\ Holds(d.blocks, d.mem, d.word, u, t)
  BY <1>4, <1>5 DEF Compacted
<1>7. /\ d.blocks \in Seq(Block) /\ d.entries \in Seq(Item) /\ d.mem \in Mems /\ d.word \in Words
  BY <1>6, PoolsFacts
<1>8. Used(d.blocks) <= Limit /\ Len(d.entries) <= Cap
  <2>1. Used(d.blocks) \in Nat /\ Used(blocks) \in Nat /\ Limit \in Nat /\ Cap \in Nat
        /\ Len(d.entries) \in Nat /\ Len(entries) \in Nat
    BY <1>1, <1>7, PlaceFacts, DatasetAssumption
  <2> QED  BY <1>1, <1>6, <2>1
<1>9. /\ blocks' = d.blocks /\ entries' = d.entries /\ mem' = d.mem /\ word' = TextWords(d.word)
      /\ text' = text /\ loose' = loose
  BY <1>2, <1>3 DEF Defragment, Become, Pool
<1>10. \A u \in Vars : text[u] # NoText /\ u \notin loose =>
         Names(d.entries, d.mem, u) /\ Holds(d.blocks, d.mem, d.word, u, text[u])
  BY <1>6, OwnedFacts
<1>11. Left(d.word)  BY <1>1, <1>6, <1>7, <1>8, <1>9, <1>10 DEF Left
<1> QED  BY <1>9, <1>11, Settle

LEMMA ForgetKeeps ==
  ASSUME IInv, NEW v \in Vars, Forget(v) \/ Leave(v)
  PROVE  IInv'
<1>1. /\ blocks \in Seq(Block) /\ entries \in Seq(Item) /\ mem \in Mems /\ word \in Words
      /\ text \in [Vars -> Texts \cup {NoText}] /\ loose \subseteq Vars
      /\ WellPlaced(blocks) /\ Used(blocks) <= Limit /\ Len(entries) <= Cap
  BY Shape DEF IInv
<1>2. PICK a \in Nat \cup {Null} : mem' = [mem EXCEPT ![v] = a]
  <2>1. CASE Forget(v)  BY <2>1 DEF Forget
  <2>2. CASE Leave(v)
    <3>1. \A i \in DOMAIN blocks : blocks[i].off \in Nat  BY <1>1, BlockFacts
    <3> QED  BY <2>2, <3>1 DEF Leave
  <2> QED  BY <2>1, <2>2
<1>3. /\ text' = [text EXCEPT ![v] = NoText] /\ loose' = loose \ {v}
      /\ blocks' = blocks /\ entries' = entries /\ word' = TextWords(word)
  BY DEF Forget, Leave
<1>4. mem' \in Mems /\ text' \in [Vars -> Texts \cup {NoText}]
      /\ text'[v] = NoText /\ \A u \in Vars \ {v} : mem'[u] = mem[u] /\ text'[u] = text[u]
  BY <1>1, <1>2, <1>3 DEF Mems
<1>5. ASSUME NEW u \in Vars, text'[u] # NoText, u \notin loose'
      PROVE  Names(entries', mem', u) /\ Holds(blocks', mem', word, u, text'[u])
  <2>1. u # v /\ mem'[u] = mem[u] /\ text'[u] = text[u]  BY <1>4, <1>5
  <2>2. u \notin loose  BY <1>3, <1>5, <2>1
  <2>3. Names(entries, mem, u) /\ Holds(blocks, mem, word, u, text[u])
    BY <1>5, <2>1, <2>2, OwnedFacts
  <2> QED  BY <1>3, <2>1, <2>3 DEF Names, Holds
<1>6. Left(word)  BY <1>1, <1>3, <1>4, <1>5 DEF Left
<1> QED  BY <1>3, <1>6, Settle

LEMMA CopyKeeps ==
  ASSUME IInv, NEW v \in Vars, NEW o \in Vars, Copy(v, o)
  PROVE  IInv'
<1>1. /\ blocks \in Seq(Block) /\ entries \in Seq(Item) /\ mem \in Mems /\ word \in Words
      /\ text \in [Vars -> Texts \cup {NoText}] /\ loose \subseteq Vars
      /\ WellPlaced(blocks) /\ Used(blocks) <= Limit /\ Len(entries) <= Cap
  BY Shape DEF IInv
<1>2. /\ v # o /\ text[o] # NoText /\ o \notin loose
      /\ mem' = [mem EXCEPT ![v] = mem[o]]
      /\ entries' = IF Len(entries) < Cap
                    THEN CollectIfFull(Append(entries, Entry(v, mem[o])), mem')
                    ELSE entries
      /\ text' = [text EXCEPT ![v] = text[o]]
      /\ loose' = IF Len(entries) < Cap THEN loose \ {v} ELSE loose \cup {v}
      /\ blocks' = blocks /\ word' = TextWords(word)
  BY DEF Copy
<1>3. mem[o] \in Nat /\ text[o] \in Texts /\ Holds(blocks, mem, word, o, text[o])
  BY <1>2, OwnedFacts
<1>4. /\ mem' \in Mems /\ text' \in [Vars -> Texts \cup {NoText}]
      /\ mem'[v] = mem[o] /\ text'[v] = text[o]
      /\ \A u \in Vars \ {v} : mem'[u] = mem[u] /\ text'[u] = text[u]
  BY <1>1, <1>2, <1>3 DEF Mems
<1>5. /\ entries' \in Seq(Item) /\ Len(entries') <= Cap
      /\ Len(entries) < Cap => Names(entries', mem', v)
      /\ \A u \in Vars : Names(entries, mem', u) => Names(entries', mem', u)
  <2>1. PICK m : m = mem'  OBVIOUS
  <2>2. m \in Mems /\ m[v] = mem[o] /\ m[v] \in Nat  BY <1>3, <1>4, <2>1
  <2>3. CASE Len(entries) < Cap
    <3>1. entries' = CollectIfFull(Append(entries, Entry(v, m[v])), m)  BY <1>2, <2>1, <2>2, <2>3
    <3> QED  BY <1>1, <2>1, <2>2, <2>3, <3>1, RegisterFacts
  <2>4. CASE ~(Len(entries) < Cap)  BY <1>1, <1>2, <2>4
  <2> QED  BY <2>3, <2>4
<1>6. ASSUME NEW u \in Vars, text'[u] # NoText, u \notin loose'
      PROVE  Names(entries', mem', u) /\ Holds(blocks', mem', word, u, text'[u])
  <2>1. CASE u = v
    <3>1. Len(entries) < Cap  BY <1>2, <1>6, <2>1
    <3>2. Holds(blocks, mem', word, v, text'[v])  BY <1>3, <1>4 DEF Holds
    <3> QED  BY <1>2, <1>5, <2>1, <3>1, <3>2
  <2>2. CASE u # v
    <3>1. mem'[u] = mem[u] /\ text'[u] = text[u] /\ u \notin loose  BY <1>2, <1>4, <1>6, <2>2
    <3>2. Names(entries, mem, u) /\ Holds(blocks, mem, word, u, text[u])
      BY <1>6, <3>1, OwnedFacts
    <3>3. Names(entries, mem', u) /\ Holds(blocks, mem', word, u, text'[u])
      BY <3>1, <3>2 DEF Names, Holds
    <3> QED  BY <1>2, <1>5, <3>3
  <2> QED  BY <2>1, <2>2
<1>7. loose' \subseteq Vars  BY <1>1, <1>2
<1>8. Left(word)  BY <1>1, <1>2, <1>4, <1>5, <1>6, <1>7 DEF Left
<1> QED  BY <1>2, <1>8, Settle

\* the removal of v's entry goes past no entry of a variable it does not clear
LEMMA RemoveEntryKeeps ==
  ASSUME IInv, NEW v \in Vars, RemoveEntry(v)
  PROVE  IInv'
<1>1. /\ blocks \in Seq(Block) /\ entries \in Seq(Item) /\ mem \in Mems /\ word \in Words
      /\ text \in [Vars -> Texts \cup {NoText}] /\ loose \subseteq Vars
      /\ WellPlaced(blocks) /\ Used(blocks) <= Limit /\ Len(entries) <= Cap
  BY Shape DEF IInv
<1> DEFINE I == {i \in DOMAIN entries : ~Dropped(v, i)}
<1>2. /\ text[v] # NoText /\ v \notin loose
      /\ mem' = [u \in Vars |-> IF u \in ClearedBy(v) THEN Null ELSE mem[u]]
      /\ entries' = Kept(entries, I)
      /\ text' = [u \in Vars |-> IF u \in ClearedBy(v) THEN NoText ELSE text[u]]
      /\ blocks' = blocks /\ loose' = loose /\ word' = TextWords(word)
  BY DEF RemoveEntry
<1>3. Len(entries) \in Nat /\ DOMAIN entries = 1 .. Len(entries)  BY <1>1, EntryFacts
<1>4. Reach(v) \in Nat
  <2>1. PICK k \in Own(v) : TRUE
    <3>1. Names(entries, mem, v)  BY <1>2, OwnedFacts
    <3> QED  BY <3>1 DEF Names, Own, Entry
  <2>2. Own(v) \subseteq Nat /\ Own(v) # {}  BY <1>3, <2>1 DEF Own
  <2>3. \E i \in Own(v) : \A j \in Own(v) : i <= j
    <3>1. PICK O : O = Own(v)  OBVIOUS
    <3>2. PICK i \in O : \A j \in O : <<j, i>> \notin OpToRel(<, Nat)
      BY <2>2, <3>1, NatLessThanWellFounded, WFMin
    <3>3. OpToRel(<, Nat) = {ss \in Nat \X Nat : ss[1] < ss[2]}  BY DEF OpToRel
    <3>4. ASSUME NEW j \in O PROVE i <= j
      <4>1. i \in Nat /\ j \in Nat /\ <<j, i>> \in Nat \X Nat  BY <2>2, <3>1
      <4>2. ~(j < i)  BY <3>2, <3>3, <4>1
      <4> QED  BY <4>1, <4>2
    <3> QED  BY <3>1, <3>4
  <2> QED  BY <2>2, <2>3 DEF Reach
<1>5. entries' \in Seq(Item) /\ Len(entries') <= Cap
  <2>1. I \in SUBSET DOMAIN entries  OBVIOUS
  <2> HIDE DEF I
  <2>2. PICK k : k = Kept(entries, I)  OBVIOUS
  <2>3. k \in Seq(Item) /\ Len(k) <= Len(entries)  BY <1>1, <2>1, <2>2, KeptFacts
  <2>4. Len(k) \in Nat /\ Cap \in Nat  BY <2>3, DatasetAssumption
  <2>5. Len(k) <= Cap  BY <1>1, <1>3, <2>3, <2>4
  <2> QED  BY <1>2, <2>2, <2>3, <2>5
<1>6. /\ mem' \in Mems /\ text' \in [Vars -> Texts \cup {NoText}]
      /\ \A u \in Vars \ ClearedBy(v) : mem'[u] = mem[u] /\ text'[u] = text[u]
      /\ \A u \in Vars \cap ClearedBy(v) : text'[u] = NoText
  BY <1>1, <1>2 DEF Mems
<1>7. ASSUME NEW u \in Vars, text'[u] # NoText, u \notin loose'
      PROVE  Names(entries', mem', u) /\ Holds(blocks', mem', word, u, text'[u])
  <2>1. u \notin ClearedBy(v) /\ mem'[u] = mem[u] /\ text'[u] = text[u] /\ u \notin loose
    BY <1>2, <1>6, <1>7
  <2>2. Names(entries, mem, u) /\ Holds(blocks, mem, word, u, text[u]) /\ mem[u] \in Nat
    BY <1>7, <2>1, OwnedFacts
  <2>3. PICK i \in DOMAIN entries : entries[i] = Entry(u, mem[u])  BY <2>2 DEF Names
  <2>4. entries[i].var = u /\ i \in 1 .. Len(entries)  BY <1>3, <2>3 DEF Entry
  <2>5. ~Dropped(v, i)
    <3>1. CASE i <= Reach(v)
      <4>1. i \in 1 .. Reach(v)  BY <1>4, <2>4, <3>1
      <4>2. mem[u] # mem[v]  BY <2>1, <2>4, <4>1 DEF ClearedBy
      <4> QED  BY <2>4, <3>1, <4>2 DEF Dropped
    <3>2. CASE ~(i <= Reach(v))
      <4>1. mem[u] # Null  BY <2>2 DEF Null
      <4> QED  BY <2>1, <2>4, <3>2, <4>1 DEF Dropped
    <3> QED  BY <3>1, <3>2
  <2>6. \E j \in DOMAIN entries' : entries'[j] = entries[i]
    <3>1. I \in SUBSET DOMAIN entries /\ i \in I  BY <2>5
    <3> HIDE DEF I
    <3>2. PICK k : k = Kept(entries, I)  OBVIOUS
    <3>3. PICK idx : Selects(entries, I, k, idx)  BY <1>1, <3>1, <3>2, KeptFacts
    <3>4. k \in Seq(Item)  BY <1>1, <3>1, <3>2, KeptFacts
    <3>5. PICK j \in 1 .. Len(k) : idx[j] = i  BY <3>1, <3>3 DEF Selects
    <3>6. j \in DOMAIN k /\ k[j] = entries[i]  BY <3>3, <3>4, <3>5 DEF Selects
    <3> QED  BY <1>2, <3>2, <3>6
  <2>7. Names(entries', mem', u)  BY <2>1, <2>3, <2>6 DEF Names
  <2> QED  BY <1>2, <2>1, <2>2, <2>7 DEF Holds
<1>8. Left(word)  BY <1>1, <1>2, <1>5, <1>6, <1>7 DEF Left
<1> QED  BY <1>2, <1>8, Settle

LEMMA EmptySeq ==
  ASSUME NEW X
  PROVE  <<>> \in Seq(X)
OBVIOUS

LEMMA Empty ==
  /\ <<>> \in Seq(Block) /\ <<>> \in Seq(Item) /\ Used(<<>>) = 0 /\ WellPlaced(<<>>)
  /\ Len(<<>>) = 0
<1>6. <<>> \in Seq(Block)  BY EmptySeq
<1>1. PICK bs \in Seq(Block) : bs = <<>>  BY <1>6
<1>2. Len(bs) = 0 /\ DOMAIN bs = {}  BY <1>1
<1>3. Tops(bs)[0] = 0  BY TopsFacts
<1>4. Used(bs) = 0 /\ WellPlaced(bs)  BY <1>2, <1>3 DEF Used, WellPlaced
<1>5. <<>> \in Seq(Item)  OBVIOUS
<1> QED  BY <1>1, <1>2, <1>4, <1>5

LEMMA InitHolds ==
  ASSUME Init
  PROVE  IInv
<1> USE DEF Init
<1>1. mem \in Mems /\ word \in Words /\ text \in [Vars -> Texts \cup {NoText}]
  BY DEF Mems, Words
<1>2. Owned  BY DEF Owned
<1>3. Used(blocks) <= Limit /\ Len(entries) <= Cap /\ blocks \in Seq(Block) /\ entries \in Seq(Item)
      /\ WellPlaced(blocks)
  <2>1. Limit \in Nat /\ Cap \in Nat  BY DatasetAssumption
  <2> QED  BY <2>1, Empty
<1>4. TypeOK  BY <1>1, <1>3 DEF TypeOK, Mems, Words, Block, Item, WellPlaced
<1> QED  BY <1>2, <1>4 DEF IInv

LEMMA ResetKeeps ==
  ASSUME IInv, Reset
  PROVE  IInv'
<1>1. /\ blocks' = <<>> /\ entries' = entries /\ mem' = mem /\ word' = word
      /\ text' = text /\ loose' = loose /\ \A v \in Vars : text[v] = NoText
  BY DEF Reset
<1>2. TypeOK  BY DEF IInv
<1>3. /\ blocks' \in Seq(Block) /\ WellPlaced(blocks') /\ Used(blocks') <= Limit
  <2>1. Limit \in Nat  BY DatasetAssumption
  <2> QED  BY <1>1, <2>1, Empty
<1>4. TypeOK'
  <2>1. \A i \in DOMAIN blocks' : blocks'[i].off = DataAt(blocks', i)  BY <1>3 DEF WellPlaced
  <2> QED  BY <1>1, <1>2, <1>3, <2>1 DEF TypeOK, Block
<1>5. Owned'  BY <1>1 DEF Owned
<1> QED  BY <1>4, <1>5 DEF IInv

LEMMA StepKeeps ==
  ASSUME IInv, [Next]_vars
  PROVE  IInv'
<1>1. CASE \E v \in Vars, n \in Sizes : Allocate(v, n)  BY <1>1, AllocateKeeps
<1>2. CASE \E v \in Vars : RemoveEntry(v)  BY <1>2, RemoveEntryKeeps
<1>3. CASE \E v, w \in Vars : Copy(v, w)  BY <1>3, CopyKeeps
<1>4. CASE \E v \in Vars : Forget(v)  BY <1>4, ForgetKeeps
<1>5. CASE \E v \in Vars : Leave(v)  BY <1>5, ForgetKeeps
<1>6. CASE Defragment  BY <1>6, DefragmentKeeps
<1>7. CASE Reset  BY <1>7, ResetKeeps
<1>8. CASE UNCHANGED vars
  <2>1. /\ blocks' = blocks /\ entries' = entries /\ mem' = mem /\ word' = word
        /\ text' = text /\ loose' = loose
    BY <1>8 DEF vars
  <2> QED  BY <2>1 DEF IInv, TypeOK, Owned
<1> QED  BY <1>1, <1>2, <1>3, <1>4, <1>5, <1>6, <1>7, <1>8 DEF Next

LEMMA Invariant == Spec => []IInv
<1>1. Init => IInv  BY InitHolds
<1>2. IInv /\ [Next]_vars => IInv'  BY StepKeeps
<1> QED  BY <1>1, <1>2, PTL DEF Spec

--------------------------------------------------------------------------------
(* What is shown.                                                            *)

(* The pool and the registry stay within their limits and the headers name    *)
(* the places of the blocks, for any variables, pool and registry sizes.      *)
THEOREM TypeCorrect == Spec => []TypeOK
<1>1. IInv => TypeOK  BY DEF IInv
<1> QED  BY <1>1, Invariant, PTL

(* A variable that owns a block points to it, and the block holds what its    *)
(* owner wrote, through every allocation, compaction and removal for others   *)
(* (Storage.cpp, AllocateStorage and DefragmentAndGarbageCollectStorage).     *)
THEOREM OwnersKeepTheirText == Spec => []Intact
<1>1. IInv => Intact  BY DEF IInv, Owned, Holds, Intact
<1> QED  BY <1>1, Invariant, PTL

LEMMA NoGarbageStep ==
  ASSUME IInv, Defragment
  PROVE  \A i \in DOMAIN blocks' : \E v \in Vars : mem'[v] = blocks'[i].off
<1>1. /\ blocks \in Seq(Block) /\ entries \in Seq(Item) /\ mem \in Mems /\ word \in Words
      /\ WellPlaced(blocks) /\ Used(blocks) <= Limit
  BY Shape DEF IInv
<1>2. PICK s, d : s = Pool(blocks, entries, mem, word) /\ d = Defragmented(s)  OBVIOUS
<1>3. Compacted(s, d)  BY <1>1, <1>2, DefragmentedFacts
<1>4. blocks' = d.blocks /\ mem' = d.mem  BY <1>2 DEF Defragment, Become, Pool
<1> QED  BY <1>3, <1>4 DEF Compacted

(* A compaction leaves only blocks that some variable points to, whatever the *)
(* program dropped without telling the allocator.                             *)
THEOREM NoGarbage == Spec => CompactionLeavesNoGarbage
<1>1. IInv /\ [Next]_vars =>
        [Defragment => \A i \in DOMAIN blocks' : \E v \in Vars : mem'[v] = blocks'[i].off]_vars
  BY NoGarbageStep
<1> QED  BY <1>1, Invariant, PTL DEF Spec, CompactionLeavesNoGarbage

LEMMA OthersHold ==
  ASSUME IInv, NEW v \in Vars
  PROVE  HeldWithout(v) = Used(Survivors(blocks, Collect(entries, Clear(v))))
<1>1. blocks \in Seq(Block) /\ entries \in Seq(Item) /\ mem \in Mems  BY Shape DEF IInv
<1>2. PICK m : m = Clear(v)  OBVIOUS
<1>3. m[v] = Null /\ \A u \in Vars \ {v} : m[u] = mem[u]  BY <1>1, <1>2 DEF Clear, Mems
<1>4. PICK c : c = Collect(entries, m)  OBVIOUS
<1>5. Current(entries, m, c)  BY <1>1, <1>4, CollectFacts
<1>6. /\ \A j \in DOMAIN c : \E i \in DOMAIN entries :
           c[j] = entries[i] /\ m[entries[i].var] = entries[i].at
      /\ \A i \in DOMAIN entries :
           m[entries[i].var] = entries[i].at => \E j \in DOMAIN c : c[j] = entries[i]
  BY <1>5 DEF Current
<1>7. \A i \in DOMAIN entries : entries[i].var \in Vars /\ entries[i].at \in Nat  BY <1>1, EntryFacts
<1>8. ASSUME NEW k \in DOMAIN blocks
      PROVE  Referenced(blocks[k], c) <=>
               \E i \in DOMAIN entries : entries[i].var # v /\ entries[i].at = blocks[k].off
                                        /\ mem[entries[i].var] = blocks[k].off
  <2>1. Referenced(blocks[k], c) <=> \E j \in DOMAIN c : c[j].at = blocks[k].off
    BY DEF Referenced, Owners
  <2>2. ASSUME NEW j \in DOMAIN c, c[j].at = blocks[k].off
        PROVE  \E i \in DOMAIN entries : entries[i].var # v /\ entries[i].at = blocks[k].off
                                        /\ mem[entries[i].var] = blocks[k].off
    <3>1. PICK i \in DOMAIN entries : c[j] = entries[i] /\ m[entries[i].var] = entries[i].at
      BY <1>6
    <3>2. entries[i].var # v  BY <1>3, <1>7, <3>1 DEF Null
    <3>3. mem[entries[i].var] = entries[i].at  BY <1>3, <1>7, <3>1, <3>2
    <3> QED  BY <2>2, <3>1, <3>2, <3>3
  <2>3. ASSUME NEW i \in DOMAIN entries, entries[i].var # v, entries[i].at = blocks[k].off,
               mem[entries[i].var] = blocks[k].off
        PROVE  \E j \in DOMAIN c : c[j].at = blocks[k].off
    <3>1. m[entries[i].var] = entries[i].at  BY <1>3, <1>7, <2>3
    <3> QED  BY <1>6, <2>3, <3>1
  <2> QED  BY <2>1, <2>2, <2>3
<1>9. {k \in DOMAIN blocks : Referenced(blocks[k], c)} =
      {k \in DOMAIN blocks :
         \E i \in DOMAIN entries : entries[i].var # v /\ entries[i].at = blocks[k].off
                                  /\ mem[entries[i].var] = blocks[k].off}
  BY <1>8
<1> QED  BY <1>2, <1>4, <1>9 DEF HeldWithout, Survivors

LEMMA RefusalStep ==
  ASSUME IInv, NEW v \in Vars, NEW n \in Sizes,
         mem'[v] = Null, Len(entries) < Cap, Allocate(v, n)
  PROVE  HeldWithout(v) + n + Header >= Limit
<1>1. n \in Nat  BY DatasetAssumption
<1>2. TypeOK /\ text \in [Vars -> Texts \cup {NoText}]  BY Shape DEF IInv
<1>3. PICK t \in Texts : t = FreshText  BY <1>2, FreshTextFacts
<1>4. PICK r : r = Allocated(v, n, t)  OBVIOUS
<1>5. Given(v, n, t, r)  BY <1>1, <1>2, <1>4, AllocatedFacts
<1>6. mem' = r.mem  BY <1>3, <1>4 DEF Allocate, Become
<1>7. Used(Survivors(blocks, Collect(entries, Clear(v)))) + n + Header >= Limit
  BY <1>5, <1>6 DEF Given
<1> QED  BY <1>7, OthersHold

(* Fragmentation never refuses an allocation: with an entry left, it fails    *)
(* only if what the other variables hold leaves no room even compacted.       *)
THEOREM RefusalsAreEarned == Spec => RefusedOnlyWhenFull
<1>1. IInv /\ [Next]_vars =>
        [\A v \in Vars, n \in Sizes :
           mem'[v] = Null /\ Len(entries) < Cap /\ Allocate(v, n) =>
             HeldWithout(v) + n + Header >= Limit]_vars
  BY RefusalStep
<1> QED  BY <1>1, Invariant, PTL DEF Spec, RefusedOnlyWhenFull
================================================================================
