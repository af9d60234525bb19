------------------------------ MODULE ListsProofs ------------------------------
(***************************************************************************)
(* What a loop over a list keeps (Lists), and the facts about positions    *)
(* that other proofs need.  Induction is by the least counterexample.      *)
(***************************************************************************)
EXTENDS Lists, WellFoundedInduction, TLAPS

\* A set of positions has a first one.
LEMMA FirstPosition ==
  ASSUME NEW S \in SUBSET Nat, S # {}
  PROVE  \E i \in S : \A j \in S : i <= j
  <1>1. \E i \in S : \A j \in S : ~(<<j, i>> \in OpToRel(<, Nat))
    BY NatLessThanWellFounded, WFMin
  <1>2. OpToRel(<, Nat) = {ss \in Nat \X Nat : ss[1] < ss[2]}
    BY Zenon DEF OpToRel
  <1>3. \E i \in S : \A j \in S : ~(<<j, i>> \in {ss \in Nat \X Nat : ss[1] < ss[2]})
    BY <1>1, <1>2, Zenon
  <1>4. \A i, j \in S : ~(<<j, i>> \in {ss \in Nat \X Nat : ss[1] < ss[2]}) => i <= j
    OBVIOUS
  <1> QED  BY <1>3, <1>4

\* A set of positions in a list has a last one.
LEMMA LastPosition ==
  ASSUME NEW n \in Nat, NEW S \in SUBSET (1..n), S # {}
  PROVE  \E i \in S : \A j \in S : j <= i
  <1> DEFINE Back == {n - i : i \in S}
  <1>1. Back \in SUBSET Nat /\ Back # {}  OBVIOUS
  <1>2. PICK b \in Back : \A c \in Back : b <= c
    <2> HIDE DEF Back
    <2> QED  BY <1>1, FirstPosition
  <1>3. PICK i \in S : b = n - i  OBVIOUS
  <1>4. \A j \in S : n - i <= n - j  BY <1>2, <1>3
  <1>5. \A j \in S : j \in Nat  OBVIOUS
  <1> QED  BY <1>4, <1>5

\* What holds of 0, and of one more whenever it held, holds of every number.
LEMMA ByCounting ==
  ASSUME NEW S \in SUBSET Nat, 0 \in S, \A n \in Nat : n \in S => n + 1 \in S
  PROVE  S = Nat
  <1> DEFINE Missing == Nat \ S
  <1> SUFFICES ASSUME Missing # {}  PROVE FALSE  OBVIOUS
  <1>1. PICK i \in Missing : \A j \in Missing : i <= j
    <2> Missing \in SUBSET Nat  OBVIOUS
    <2> HIDE DEF Missing
    <2> QED  BY FirstPosition
  <1>2. i # 0 /\ i - 1 \in Nat  OBVIOUS
  <1>3. i - 1 \in S  BY <1>1, <1>2
  <1>4. i - 1 + 1 \in S  BY <1>2, <1>3
  <1> QED  BY <1>4, <1>1

-------------------------------------------------------------------------------
\* The loop over the first n entries, as a function of the number of entries passed.
Looped(f, s, places, n) ==
    f = [k \in 0..n |-> IF k = 0 THEN <<>>
                        ELSE IF k \in places THEN Append(f[k - 1], s[k])
                        ELSE f[k - 1]]

\* The loop over any number of s has a result.
LEMMA LoopEnds ==
  ASSUME NEW s, NEW places, NEW n \in Nat
  PROVE  \E f : Looped(f, s, places, n)
  <1> DEFINE S == {m \in Nat : \E f : Looped(f, s, places, m)}
  <1>1. 0 \in S
    <2> DEFINE f == [k \in 0..0 |-> <<>>]
    <2>1. Looped(f, s, places, 0)  BY DEF Looped
    <2> QED  BY <2>1
  <1>2. ASSUME NEW m \in Nat, m \in S  PROVE m + 1 \in S
    <2>1. PICK g : Looped(g, s, places, m)  BY <1>2
    <2> DEFINE last == IF m + 1 \in places THEN Append(g[m], s[m + 1]) ELSE g[m]
               h == [k \in 0..(m + 1) |-> IF k = m + 1 THEN last ELSE g[k]]
    <2>2. ASSUME NEW k \in 0..(m + 1), k # 0, k # m + 1
          PROVE  h[k] = IF k \in places THEN Append(h[k - 1], s[k]) ELSE h[k - 1]
      <3>1. k \in 0..m /\ k - 1 \in 0..m /\ k - 1 # m + 1 /\ k - 1 \in 0..(m + 1)  BY <2>2
      <3>2. h[k] = g[k] /\ h[k - 1] = g[k - 1]  BY <3>1, <2>2
      <3>3. g[k] = IF k \in places THEN Append(g[k - 1], s[k]) ELSE g[k - 1]
        BY <2>1, <3>1, <2>2 DEF Looped
      <3> QED  BY <3>2, <3>3
    <2>3. h[m + 1] = IF m + 1 \in places THEN Append(h[m], s[m + 1]) ELSE h[m]
      <3>1. m + 1 \in 0..(m + 1) /\ m \in 0..(m + 1) /\ m # m + 1  OBVIOUS
      <3>2. h[m + 1] = last /\ h[m] = g[m]  BY <3>1
      <3> QED  BY <3>2
    <2>4. h[0] = <<>>
      <3>1. 0 \in 0..(m + 1) /\ 0 \in 0..m /\ 0 # m + 1  OBVIOUS
      <3>2. h[0] = g[0] /\ g[0] = <<>>  BY <3>1, <2>1 DEF Looped
      <3> QED  BY <3>2
    <2>5. h = [k \in 0..(m + 1) |-> h[k]]  OBVIOUS
    <2>6. Looped(h, s, places, m + 1)
      <3> HIDE DEF h
      <3>1. \A k \in 0..(m + 1) : h[k] = IF k = 0 THEN <<>>
                                        ELSE IF k \in places THEN Append(h[k - 1], s[k])
                                        ELSE h[k - 1]
        BY <2>2, <2>3, <2>4
      <3> QED  BY <2>5, <3>1, Zenon DEF Looped
    <2> QED  BY <2>6
  <1>3. S \in SUBSET Nat  OBVIOUS
  <1>4. S = Nat
    <2> HIDE DEF S
    <2> QED  BY <1>1, <1>2, <1>3, ByCounting
  <1> QED  BY <1>4

\* One pass of the loop.
LEMMA LoopStep ==
  ASSUME NEW f, NEW s, NEW places, NEW n \in Nat, Looped(f, s, places, n), NEW k \in 0..n, k # 0
  PROVE  f[k] = IF k \in places THEN Append(f[k - 1], s[k]) ELSE f[k - 1]
  <1> DEFINE g == [i \in 0..n |-> IF i = 0 THEN <<>>
                                  ELSE IF i \in places THEN Append(f[i - 1], s[i])
                                  ELSE f[i - 1]]
  <1>1. f = g  BY Zenon DEF Looped
  <1>2. g[k] = IF k \in places THEN Append(f[k - 1], s[k]) ELSE f[k - 1]
    OBVIOUS
  <1> HIDE DEF g
  <1> QED  BY <1>1, <1>2

\* Entries is the loop's last result.
LEMMA EntriesByLoop ==
  ASSUME NEW T, NEW s \in Seq(T), NEW places
  PROVE  \E f : Looped(f, s, places, Len(s)) /\ Entries(s, places) = f[Len(s)]
  <1>1. Len(s) \in Nat  OBVIOUS
  <1> DEFINE kept == CHOOSE f : Looped(f, s, places, Len(s))
  <1>2. Looped(kept, s, places, Len(s))
    <2>1. \E f : Looped(f, s, places, Len(s))  BY <1>1, LoopEnds
    <2> QED  BY <2>1
  <1>3. Entries(s, places) = kept[Len(s)]  BY DEF Entries, Looped
  <1> QED  BY <1>2, <1>3

\* A list is what the loop keeps of the first n entries: f tells the place of each.
Picks(f, list, s, places, n) ==
    /\ f \in [1..Len(list) -> 1..n]
    /\ \A k \in 1..Len(list) : f[k] \in places /\ list[k] = s[f[k]]
    /\ \A j, k \in 1..Len(list) : j < k => f[j] < f[k]
    /\ \A i \in 1..n : i \in places => \E k \in 1..Len(list) : f[k] = i

\* The loop keeps the entries at the places, each once and in their order.
LEMMA EntriesPick ==
  ASSUME NEW T, NEW s \in Seq(T), NEW places
  PROVE  /\ Entries(s, places) \in Seq(T) /\ Len(Entries(s, places)) <= Len(s)
         /\ \E f : Picks(f, Entries(s, places), s, places, Len(s))
  <1>0. Len(s) \in Nat  OBVIOUS
  <1>1. PICK kept : Looped(kept, s, places, Len(s)) /\ Entries(s, places) = kept[Len(s)]
    BY EntriesByLoop
  <1> DEFINE Good(n) == /\ kept[n] \in Seq(T) /\ Len(kept[n]) <= n
                        /\ \E f : Picks(f, kept[n], s, places, n)
             S == {n \in Nat : n <= Len(s) => Good(n)}
  <1>2. 0 \in S
    <2>1. kept[0] = <<>>
      <3>1. 0 \in 0..Len(s)  BY <1>0
      <3> QED  BY <1>1, <3>1 DEF Looped
    <2>2. Picks(<<>>, <<>>, s, places, 0)
      <3>1. <<>> \in [1..Len(<<>>) -> 1..0]  OBVIOUS
      <3> QED  BY <3>1 DEF Picks
    <2>3. Good(0)
      <3>1. <<>> \in Seq(T) /\ Len(<<>>) = 0  OBVIOUS
      <3>2. \E f : Picks(f, kept[0], s, places, 0)  BY <2>1, <2>2
      <3> QED  BY <2>1, <3>1, <3>2
    <2> QED
      <3> HIDE DEF Good
      <3> QED  BY <2>3
  <1>3. ASSUME NEW n \in Nat, n \in S  PROVE n + 1 \in S
    <2> SUFFICES ASSUME n + 1 <= Len(s)  PROVE Good(n + 1)
      OBVIOUS
    <2>1. Good(n)  BY <1>0, <1>3
    <2> DEFINE old == kept[n]  new == kept[n + 1]
    <2>2. PICK f : Picks(f, old, s, places, n)  BY <2>1
    <2>3. n + 1 \in 0..Len(s) /\ n + 1 # 0 /\ n + 1 - 1 = n /\ n + 1 \in 1..Len(s)
      BY <1>0
    <2>4. new = IF n + 1 \in places THEN Append(old, s[n + 1]) ELSE old
      BY <1>0, <1>1, <2>3, LoopStep
    <2>5. old \in Seq(T) /\ Len(old) \in Nat /\ Len(old) <= n  BY <2>1
    <2>6. s[n + 1] \in T  BY <2>3
    <2> HIDE DEF old, new
    <2>7. /\ f \in [1..Len(old) -> 1..n]
          /\ \A k \in 1..Len(old) : f[k] \in places /\ old[k] = s[f[k]]
          /\ \A j, k \in 1..Len(old) : j < k => f[j] < f[k]
          /\ \A i \in 1..n : i \in places => \E k \in 1..Len(old) : f[k] = i
      BY <2>2 DEF Picks
    <2>8. \A i \in 1..(n + 1) : i \in 1..n \/ i = n + 1  OBVIOUS
    <2>9. \A i \in 1..n : i \in 1..(n + 1) /\ i < n + 1  OBVIOUS
    <2>10. CASE n + 1 \notin places
      <3>1. new = old  BY <2>4, <2>10
      <3>2. f \in [1..Len(old) -> 1..(n + 1)]  BY <2>7, <2>9
      <3>3. \A i \in 1..(n + 1) : i \in places => \E k \in 1..Len(old) : f[k] = i
        BY <2>7, <2>8, <2>10
      <3>4. Picks(f, new, s, places, n + 1)  BY <2>7, <3>1, <3>2, <3>3 DEF Picks
      <3>5. new \in Seq(T) /\ Len(new) <= n + 1  BY <2>5, <3>1
      <3> QED  BY <3>4, <3>5 DEF new
    <2>11. CASE n + 1 \in places
      <3> DEFINE last == Len(old) + 1
                 g == [k \in 1..last |-> IF k = last THEN n + 1 ELSE f[k]]
      <3>1. new = Append(old, s[n + 1])  BY <2>4, <2>11
      <3>2. new \in Seq(T) /\ Len(new) = last /\ new[last] = s[n + 1]
            /\ \A k \in 1..Len(old) : new[k] = old[k]
        BY <2>5, <2>6, <3>1
      <3>3. /\ \A k \in 1..last : k \in 1..Len(old) \/ k = last
            /\ \A k \in 1..Len(old) : k \in 1..last /\ k # last /\ k < last
            /\ last \in 1..last
        BY <2>5
      <3>4. g[last] = n + 1 /\ \A k \in 1..Len(old) : g[k] = f[k]  BY <3>3
      <3>5. \A k \in 1..Len(old) : f[k] \in 1..n  BY <2>7
      <3>6. g \in [1..last -> 1..(n + 1)]
        <4>1. \A k \in 1..last : g[k] \in 1..(n + 1)  BY <3>3, <3>4, <3>5, <2>9
        <4> QED  BY <4>1
      <3> HIDE DEF g
      <3>7. \A k \in 1..last : g[k] \in places /\ new[k] = s[g[k]]
        BY <2>7, <2>11, <3>2, <3>3, <3>4
      <3>8. \A j, k \in 1..last : j < k => g[j] < g[k]
        <4> SUFFICES ASSUME NEW j \in 1..last, NEW k \in 1..last, j < k  PROVE g[j] < g[k]
          OBVIOUS
        <4>1. j \in 1..Len(old)  BY <2>5
        <4>2. CASE k = last
          BY <4>1, <4>2, <3>4, <3>5, <2>9
        <4>3. CASE k \in 1..Len(old)
          BY <4>1, <4>3, <3>4, <2>7
        <4> QED  BY <4>2, <4>3, <3>3
      <3>9. \A i \in 1..(n + 1) : i \in places => \E k \in 1..last : g[k] = i
        BY <2>7, <2>8, <3>3, <3>4
      <3> HIDE DEF last
      <3>10. Picks(g, new, s, places, n + 1)  BY <3>2, <3>6, <3>7, <3>8, <3>9 DEF Picks
      <3>11. Len(new) <= n + 1  BY <2>5, <3>2 DEF last
      <3> QED  BY <3>2, <3>10, <3>11 DEF new
    <2> QED  BY <2>10, <2>11
  <1>4. S \in SUBSET Nat  OBVIOUS
  <1>5. S = Nat
    <2> HIDE DEF S
    <2> QED  BY <1>2, <1>3, <1>4, ByCounting
  <1>6. Good(Len(s))
    <2> HIDE DEF Good
    <2> QED  BY <1>0, <1>5
  <1> QED  BY <1>1, <1>6
===============================================================================
