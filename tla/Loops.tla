-------------------------------- MODULE Loops --------------------------------
(***************************************************************************)
(* Facts behind the firmware's loops over tables and buffers: the first    *)
(* match a search stops at, what holds after every round of a loop, that a *)
(* loop written as a recursive function has a run, and what Among keeps.   *)
(***************************************************************************)
EXTENDS Integers, FiniteSetsExt, Sublists, SequenceTheorems, WellFoundedInduction, TLAPS

(* A non-empty set of naturals contains its minimum: the "first match"     *)
(* searches of the table loops find what they look for.                    *)
LEMMA MinIn ==
  ASSUME NEW S, S \subseteq Nat, S # {}
  PROVE  Min(S) \in S /\ \A y \in S : Min(S) <= y
<1>1. PICK x \in S : \A y \in S : ~ (<<y, x>> \in OpToRel(<, Nat))
  BY NatLessThanWellFounded, WFMin
<1>2. \A y \in S : ~ (y < x)
  BY <1>1 DEF OpToRel
<1>3. \A y \in S : x <= y
  BY <1>2
<1>4. QED
  BY <1>3 DEF Min

(* Induction over the rounds of a loop: what holds before the first and is *)
(* kept by each holds after every one.  P is the set of rounds after which *)
(* it holds.                                                               *)
LEMMA UpTo ==
  ASSUME NEW N \in Nat, NEW P, 0 \in P, \A n \in 0 .. N - 1 : n \in P => n + 1 \in P
  PROVE  \A n \in 0 .. N : n \in P
<1> SUFFICES ASSUME NEW m \in 0 .. N, m \notin P PROVE FALSE
  OBVIOUS
<1> DEFINE Bad == {n \in 0 .. N : n \notin P}
<1>1. Bad \subseteq Nat /\ Bad # {}
  OBVIOUS
<1>2. Min(Bad) \in Bad /\ \A y \in Bad : Min(Bad) <= y
  BY <1>1, MinIn
<1>3. PICK k \in Bad : \A y \in Bad : k <= y
  BY <1>2
<1>4. k # 0 /\ k - 1 \in 0 .. N - 1
  OBVIOUS
<1>5. k - 1 \in P
  BY <1>3, <1>4
<1>6. k \in P
  BY <1>4, <1>5
<1>7. QED
  BY <1>6

(* A loop of N rounds over states in S: round n takes state x to F[n][x],  *)
(* and a run g records the state after each round, from b on.              *)
Steps(F, N, S) == F \in [1 .. N -> [S -> S]]
Run(g, b, F, N, S) ==
  g \in [0 .. N -> S] /\ g[0] = b /\ \A n \in 1 .. N : g[n] = F[n][g[n - 1]]

(* Every such loop has a run. *)
LEMMA Iterates ==
  ASSUME NEW N \in Nat, NEW S, NEW b \in S, NEW F, Steps(F, N, S)
  PROVE  \E g : Run(g, b, F, N, S)
<1> USE DEF Steps, Run
<1> DEFINE Runs(m, g) == g[0] = b /\ \A n \in 1 .. m : g[n] = F[n][g[n - 1]]
           P == {m \in 0 .. N : \E g \in [0 .. m -> S] : Runs(m, g)}
<1>1. 0 \in P
  <2>1. PICK g \in [0 .. 0 -> S] : g = [i \in 0 .. 0 |-> b]
    OBVIOUS
  <2>2. Runs(0, g)
    BY <2>1
  <2>3. QED
    BY <2>2
<1>2. ASSUME NEW m \in 0 .. N - 1, m \in P
      PROVE  m + 1 \in P
  <2>1. PICK g \in [0 .. m -> S] : Runs(m, g)
    BY <1>2
  <2>2. m \in Nat /\ m + 1 \in 1 .. N /\ F[m + 1][g[m]] \in S
    OBVIOUS
  <2>3. PICK h \in [0 .. m + 1 -> S] :
          h = [i \in 0 .. m + 1 |-> IF i <= m THEN g[i] ELSE F[m + 1][g[m]]]
    <3>1. \A i \in 0 .. m + 1 : (IF i <= m THEN g[i] ELSE F[m + 1][g[m]]) \in S
      BY <2>2
    <3>2. QED
      BY <3>1
  <2>4. h[0] = b
    BY <2>1, <2>3
  <2>5. \A n \in 1 .. m + 1 : h[n] = F[n][h[n - 1]]
    <3> SUFFICES ASSUME NEW n \in 1 .. m + 1 PROVE h[n] = F[n][h[n - 1]]
      OBVIOUS
    <3>1. CASE n <= m
      BY <2>1, <2>3, <3>1
    <3>2. CASE n = m + 1
      BY <2>3, <3>2
    <3>3. QED
      BY <3>1, <3>2
  <2>6. Runs(m + 1, h)
    BY <2>4, <2>5
  <2> HIDE DEF Runs
  <2>7. QED
    BY <2>2, <2>6
<1> HIDE DEF P
<1>3. \A m \in 0 .. N : m \in P
  BY <1>1, <1>2, UpTo
<1>4. N \in P
  BY <1>3
<1>5. QED
  BY <1>4 DEF P

-----------------------------------------------------------------------------
(* The loop of Among, round by round: what is kept of the first n elements. *)
Keeps(g, s, S) ==
    /\ g[0] = <<>>
    /\ \A n \in 1..Len(s) : g[n] = IF s[n] \in S THEN Append(g[n - 1], s[n]) ELSE g[n - 1]

AmongStep(A, s, S) ==
    [n \in 1..Len(s) |-> [k \in Seq(A) |-> IF s[n] \in S THEN Append(k, s[n]) ELSE k]]

LEMMA AmongRuns ==
    ASSUME NEW A, NEW s \in Seq(A), NEW S
    PROVE  \E g \in [0..Len(s) -> Seq(A)] : Keeps(g, s, S) /\ Among(s, S) = g[Len(s)]
<1>0. PICK N \in Nat : N = Len(s)
    BY LenProperties
<1>1. \A n \in 1..N : s[n] \in A
    BY <1>0, ElementOfSeq
<1>2. \A n \in 1..N, k \in Seq(A) : (IF s[n] \in S THEN Append(k, s[n]) ELSE k) \in Seq(A)
    BY <1>1, AppendProperties
<1>3. Steps(AmongStep(A, s, S), N, Seq(A))
    BY <1>0, <1>2 DEF Steps, AmongStep
<1>4. <<>> \in Seq(A)
    BY EmptySeq
<1>5. PICK g : Run(g, <<>>, AmongStep(A, s, S), N, Seq(A))
    BY <1>3, <1>4, Iterates
<1>6. g \in [0..N -> Seq(A)] /\ g[0] = <<>>
    BY <1>5 DEF Run
<1>7. \A n \in 1..N : g[n] = IF s[n] \in S THEN Append(g[n - 1], s[n]) ELSE g[n - 1]
    <2> SUFFICES ASSUME NEW n \in 1..N
                 PROVE  g[n] = IF s[n] \in S THEN Append(g[n - 1], s[n]) ELSE g[n - 1]
        OBVIOUS
    <2>1. n - 1 \in 0..N
        OBVIOUS
    <2>2. g[n - 1] \in Seq(A) /\ g[n] = AmongStep(A, s, S)[n][g[n - 1]]
        BY <1>5, <2>1 DEF Run
    <2>3. QED
        BY <1>0, <2>2 DEF AmongStep
<1> DEFINE Body(f) == [n \in 0..Len(s) |->
                         IF n = 0 THEN <<>>
                         ELSE IF s[n] \in S THEN Append(f[n - 1], s[n]) ELSE f[n - 1]]
           Kept == CHOOSE f : f = Body(f)
<1>8. g = Body(g)
    <2>1. ASSUME NEW n \in 0..N PROVE g[n] = Body(g)[n]
        <3>1. CASE n = 0
            BY <1>0, <1>6, <3>1
        <3>2. CASE n # 0
            <4>1. n \in 1..N
                BY <3>2
            <4>2. QED
                BY <1>0, <1>7, <3>2, <4>1
        <3>3. QED
            BY <3>1, <3>2
    <2>2. DOMAIN g = 0..N /\ g = [n \in 0..N |-> g[n]]
        BY <1>6
    <2>3. QED
        BY <1>0, <2>1, <2>2
<1>9. Kept = Body(Kept)
    BY <1>8
<1>10. Among(s, S) = Kept[Len(s)]
    BY DEF Among
<1> HIDE DEF Kept
<1>11. \A n \in 0..N : Kept[n] = g[n]
    <2> DEFINE P == {n \in 0..N : Kept[n] = g[n]}
    <2>1. 0 \in P
        BY <1>0, <1>8, <1>9
    <2>2. ASSUME NEW n \in 0..N - 1, n \in P PROVE n + 1 \in P
        <3>1. n + 1 \in 0..N /\ n + 1 # 0 /\ (n + 1) - 1 = n
            OBVIOUS
        <3>2. /\ Kept[n + 1] = IF s[n + 1] \in S THEN Append(Kept[n], s[n + 1]) ELSE Kept[n]
              /\ g[n + 1] = IF s[n + 1] \in S THEN Append(g[n], s[n + 1]) ELSE g[n]
            BY <1>0, <1>8, <1>9, <3>1
        <3>3. QED
            BY <2>2, <3>1, <3>2
    <2> HIDE DEF P
    <2>3. \A n \in 0..N : n \in P
        BY <2>1, <2>2, UpTo
    <2>4. QED
        BY <2>3 DEF P
<1>12. QED
    BY <1>0, <1>6, <1>7, <1>10, <1>11 DEF Keeps

(* Among keeps elements of the sequence that are in the set. *)
LEMMA AmongIn ==
    ASSUME NEW A, NEW s \in Seq(A), NEW S
    PROVE  /\ Among(s, S) \in Seq(A)
           /\ \A m \in 1..Len(Among(s, S)) : \E n \in 1..Len(s) : Among(s, S)[m] = s[n] /\ s[n] \in S
<1>0. PICK N \in Nat : N = Len(s)
    BY LenProperties
<1>1. PICK g \in [0..Len(s) -> Seq(A)] : Keeps(g, s, S) /\ Among(s, S) = g[Len(s)]
    BY AmongRuns
<1> DEFINE Good(k) == \A m \in 1..Len(k) : \E n \in 1..N : k[m] = s[n] /\ s[n] \in S
           P == {n \in 0..N : Good(g[n])}
<1>2. 0 \in P
    <2>1. Len(g[0]) = 0
        BY <1>1, EmptySeq DEF Keeps
    <2>2. Good(g[0])
        BY <2>1
    <2> HIDE DEF Good
    <2>3. QED
        BY <2>2
<1>3. ASSUME NEW n \in 0..N - 1, n \in P PROVE n + 1 \in P
    <2>1. n + 1 \in 1..N /\ (n + 1) - 1 = n /\ n \in 0..N /\ n + 1 \in 0..N
        OBVIOUS
    <2>2. PICK k \in Seq(A) : k = g[n]
        BY <1>0, <1>1, <2>1
    <2>3. Good(k)
        BY <1>3, <2>2
    <2>4. g[n + 1] = IF s[n + 1] \in S THEN Append(k, s[n + 1]) ELSE k
        BY <1>0, <1>1, <2>1, <2>2 DEF Keeps
    <2>5. CASE s[n + 1] \in S
        <3>1. s[n + 1] \in A
            BY <1>0, <2>1, ElementOfSeq
        <3>2. Len(k) \in Nat /\ g[n + 1] = Append(k, s[n + 1])
            BY <2>4, <2>5
        <3>3. /\ Len(g[n + 1]) = Len(k) + 1
              /\ \A m \in 1..Len(k) : g[n + 1][m] = k[m]
              /\ g[n + 1][Len(k) + 1] = s[n + 1]
            BY <3>1, <3>2, AppendProperties
        <3>4. ASSUME NEW m \in 1..Len(g[n + 1])
              PROVE  \E i \in 1..N : g[n + 1][m] = s[i] /\ s[i] \in S
            <4>1. CASE m = Len(k) + 1
                BY <2>1, <2>5, <3>3, <4>1
            <4>2. CASE m # Len(k) + 1
                <5>1. m \in 1..Len(k)
                    BY <3>2, <3>3, <4>2
                <5>2. QED
                    BY <2>3, <3>3, <5>1
            <4>3. QED
                BY <4>1, <4>2
        <3>5. Good(g[n + 1])
            BY <3>4
        <3> HIDE DEF Good
        <3>6. QED
            BY <2>1, <3>5
    <2>6. CASE s[n + 1] \notin S
        <3> HIDE DEF Good
        <3>1. Good(g[n + 1])
            BY <2>3, <2>4, <2>6
        <3>2. QED
            BY <2>1, <3>1
    <2>7. QED
        BY <2>5, <2>6
<1> HIDE DEF P
<1>4. \A n \in 0..N : n \in P
    BY <1>2, <1>3, UpTo
<1>5. Good(g[N])
    BY <1>4 DEF P
<1>6. QED
    BY <1>0, <1>1, <1>5

(* One more element is kept at the end, or not at all. *)
LEMMA AmongAppend ==
    ASSUME NEW A, NEW s \in Seq(A), NEW e \in A, NEW S
    PROVE  Among(Append(s, e), S) = IF e \in S THEN Append(Among(s, S), e) ELSE Among(s, S)
<1>0. PICK N \in Nat : N = Len(s)
    BY LenProperties
<1>1. PICK u \in Seq(A) : u = Append(s, e)
    BY AppendProperties
<1>2. Len(u) = N + 1 /\ u[N + 1] = e /\ \A n \in 1..N : u[n] = s[n]
    BY <1>0, <1>1, AppendProperties
<1>3. PICK g \in [0..Len(s) -> Seq(A)] : Keeps(g, s, S) /\ Among(s, S) = g[Len(s)]
    BY AmongRuns
<1>4. PICK h \in [0..Len(u) -> Seq(A)] : Keeps(h, u, S) /\ Among(u, S) = h[Len(u)]
    BY AmongRuns
<1> DEFINE P == {n \in 0..N : h[n] = g[n]}
<1>5. 0 \in P
    BY <1>3, <1>4 DEF Keeps
<1>6. ASSUME NEW n \in 0..N - 1, n \in P PROVE n + 1 \in P
    <2>1. n + 1 \in 1..N /\ (n + 1) - 1 = n /\ n + 1 \in 1..(N + 1) /\ n + 1 \in 0..N
        OBVIOUS
    <2>2. /\ g[n + 1] = IF s[n + 1] \in S THEN Append(g[n], s[n + 1]) ELSE g[n]
          /\ h[n + 1] = IF u[n + 1] \in S THEN Append(h[n], u[n + 1]) ELSE h[n]
        BY <1>0, <1>2, <1>3, <1>4, <2>1 DEF Keeps
    <2>3. QED
        BY <1>2, <1>6, <2>1, <2>2
<1> HIDE DEF P
<1>7. \A n \in 0..N : n \in P
    BY <1>5, <1>6, UpTo
<1>8. h[N] = g[N]
    BY <1>7 DEF P
<1>9. N + 1 \in 1..(N + 1) /\ (N + 1) - 1 = N
    OBVIOUS
<1>10. h[N + 1] = IF e \in S THEN Append(h[N], e) ELSE h[N]
    BY <1>2, <1>4, <1>9 DEF Keeps
<1>11. QED
    BY <1>0, <1>1, <1>2, <1>3, <1>4, <1>8, <1>10


(* Among returns the whole sequence if all of it is in the set. *)
LEMMA AmongAll ==
    ASSUME NEW A, NEW s \in Seq(A), NEW S, \A n \in 1..Len(s) : s[n] \in S
    PROVE  Among(s, S) = s
<1>0. PICK N \in Nat : N = Len(s)
    BY LenProperties
<1>1. PICK g \in [0..N -> Seq(A)] : Keeps(g, s, S) /\ Among(s, S) = g[N]
    BY <1>0, AmongRuns
<1> DEFINE P == {n \in 0..N : Len(g[n]) = n /\ \A m \in 1..n : g[n][m] = s[m]}
<1>2. 0 \in P
    BY <1>1, EmptySeq DEF Keeps
<1>3. ASSUME NEW n \in 0..N - 1, n \in P PROVE n + 1 \in P
    <2>1. n + 1 \in 1..N /\ (n + 1) - 1 = n
        OBVIOUS
    <2>2. PICK k \in Seq(A) : k = g[n] /\ Len(k) = n /\ \A m \in 1..n : k[m] = s[m]
        BY <1>3
    <2>3. g[n + 1] = Append(k, s[n + 1]) /\ s[n + 1] \in A
        BY <1>0, <1>1, <2>1, <2>2, ElementOfSeq DEF Keeps
    <2>4. /\ Len(g[n + 1]) = n + 1 /\ g[n + 1][n + 1] = s[n + 1]
          /\ \A m \in 1..n : g[n + 1][m] = k[m]
        BY <2>2, <2>3, AppendProperties
    <2>5. QED
        BY <2>2, <2>4
<1> HIDE DEF P
<1>4. \A n \in 0..N : n \in P
    BY <1>2, <1>3, UpTo
<1>5. g[N] \in Seq(A) /\ Len(g[N]) = N /\ \A m \in 1..N : g[N][m] = s[m]
    BY <1>1, <1>4 DEF P
<1>6. QED
    BY <1>0, <1>1, <1>5, SeqEqual

(* What is in the set is kept. *)
LEMMA AmongKeeps ==
    ASSUME NEW A, NEW s \in Seq(A), NEW S, NEW i \in 1..Len(s), s[i] \in S
    PROVE  \E m \in 1..Len(Among(s, S)) : Among(s, S)[m] = s[i]
<1>0. PICK N \in Nat : N = Len(s)
    BY LenProperties
<1>1. PICK g \in [0..N -> Seq(A)] : Keeps(g, s, S) /\ Among(s, S) = g[N]
    BY <1>0, AmongRuns
<1> DEFINE Has(k) == \E m \in 1..Len(k) : k[m] = s[i]
           P == {n \in 0..N : i <= n => Has(g[n])}
<1>2. 0 \in P
    BY <1>0
<1>3. ASSUME NEW n \in 0..N - 1, n \in P PROVE n + 1 \in P
    <2>1. n + 1 \in 1..N /\ (n + 1) - 1 = n /\ n \in 0..N
        OBVIOUS
    <2>2. PICK k \in Seq(A) : k = g[n] /\ (i <= n => Has(k))
        BY <1>3, <2>1
    <2>3. g[n + 1] = (IF s[n + 1] \in S THEN Append(k, s[n + 1]) ELSE k) /\ s[n + 1] \in A
        BY <1>0, <1>1, <2>1, <2>2, ElementOfSeq DEF Keeps
    <2>4. PICK L \in Nat : L = Len(k)
        BY <2>2, LenProperties
    <2> DEFINE r == Append(k, s[n + 1])
    <2>a. Len(r) = L + 1 /\ r[L + 1] = s[n + 1] /\ \A m \in 1..L : r[m] = k[m]
        BY <2>2, <2>3, <2>4, AppendProperties
    <2> HIDE DEF r
    <2>5. Has(k) => Has(r)
        <3>1. ASSUME NEW m \in 1..L, k[m] = s[i] PROVE Has(r)
            <4>1. m \in 1..Len(r) /\ r[m] = s[i]
                BY <2>a, <3>1
            <4>2. QED
                BY <4>1
        <3>2. QED
            BY <2>4, <3>1
    <2>6. i = n + 1 => Has(r)
        <3>1. L + 1 \in 1..Len(r)
            BY <2>a
        <3>2. QED
            BY <2>a, <3>1
    <2>7. i <= n + 1 => Has(g[n + 1])
        BY <1>0, <2>2, <2>3, <2>5, <2>6 DEF r
    <2>8. QED
        BY <2>1, <2>7
<1> HIDE DEF P
<1>4. \A n \in 0..N : n \in P
    BY <1>2, <1>3, UpTo
<1>5. QED
    BY <1>0, <1>1, <1>4 DEF P

(* An ascending sequence stays ascending. *)
Ascending(s) == \A i, j \in 1..Len(s) : i < j => s[i] < s[j]

LEMMA AmongAscending ==
    ASSUME NEW s \in Seq(Int), NEW S, Ascending(s)
    PROVE  Ascending(Among(s, S))
<1>0. PICK N \in Nat : N = Len(s)
    BY LenProperties
<1>1. PICK g \in [0..N -> Seq(Int)] : Keeps(g, s, S) /\ Among(s, S) = g[N]
    BY <1>0, AmongRuns
<1> DEFINE Below(k, n) == \A m \in 1..Len(k), j \in 1..N : n < j => k[m] < s[j]
           P == {n \in 0..N : Ascending(g[n]) /\ Below(g[n], n)}
<1>2. 0 \in P
    BY <1>1, EmptySeq DEF Keeps, Ascending
<1>3. ASSUME NEW n \in 0..N - 1, n \in P PROVE n + 1 \in P
    <2>1. n + 1 \in 1..N /\ (n + 1) - 1 = n /\ n \in 0..N
        OBVIOUS
    <2>2. PICK k \in Seq(Int), L \in Nat : k = g[n] /\ L = Len(k) /\ Ascending(k) /\ Below(k, n)
        BY <1>3, <2>1, LenProperties
    <2>3. /\ g[n + 1] = (IF s[n + 1] \in S THEN Append(k, s[n + 1]) ELSE k)
          /\ \A m \in 1..N : s[m] \in Int
        BY <1>0, <1>1, <2>1, <2>2, ElementOfSeq DEF Keeps
    <2> DEFINE r == Append(k, s[n + 1])
    <2>a. \A m \in 1..L : k[m] \in Int
        BY <2>2, ElementOfSeq
    <2>4. /\ Len(r) = L + 1 /\ r[L + 1] = s[n + 1]
          /\ \A m \in 1..L : r[m] = k[m] /\ k[m] \in Int
        BY <2>1, <2>2, <2>3, <2>a, AppendProperties
    <2> HIDE DEF r
    <2>5. Ascending(r)
        <3>1. ASSUME NEW i \in 1..L + 1, NEW j \in 1..L + 1, i < j PROVE r[i] < r[j]
            <4>1. i \in 1..L
                BY <3>1
            <4>2. CASE j = L + 1
                BY <2>1, <2>2, <2>4, <4>1, <4>2
            <4>3. CASE j # L + 1
                <5>1. j \in 1..L
                    BY <4>3
                <5>2. k[i] < k[j]
                    BY <2>2, <3>1, <4>1, <5>1 DEF Ascending
                <5>3. QED
                    BY <2>4, <4>1, <5>1, <5>2
            <4>4. QED
                BY <4>2, <4>3
        <3>2. QED
            BY <2>4, <3>1 DEF Ascending
    <2>6. Below(r, n + 1)
        <3>1. ASSUME NEW m \in 1..L + 1, NEW j \in 1..N, n + 1 < j PROVE r[m] < s[j]
            <4>1. CASE m = L + 1
                BY <1>0, <2>1, <2>4, <3>1, <4>1 DEF Ascending
            <4>2. CASE m # L + 1
                <5>1. m \in 1..L /\ n < j
                    BY <3>1, <4>2
                <5>2. QED
                    BY <2>2, <2>4, <5>1
            <4>3. QED
                BY <4>1, <4>2
        <3>2. QED
            BY <2>4, <3>1
    <2>7. Below(k, n + 1)
        BY <2>2
    <2>8. Ascending(g[n + 1]) /\ Below(g[n + 1], n + 1)
        BY <2>2, <2>3, <2>5, <2>6, <2>7 DEF r
    <2>9. QED
        BY <2>1, <2>8
<1> HIDE DEF P
<1>4. \A n \in 0..N : n \in P
    BY <1>2, <1>3, UpTo
<1>5. QED
    BY <1>1, <1>4 DEF P


(* An array is a sequence. *)
LEMMA ArrayIsSeq ==
    ASSUME NEW n \in Nat, NEW S, NEW f \in [1..n -> S]
    PROVE  f \in Seq(S) /\ Len(f) = n
<1>1. f \in Seq(S)
    BY SeqDef
<1>2. Len(f) \in Nat /\ 1..Len(f) = 1..n
    BY <1>1, LenProperties
<1>3. QED
    BY <1>1, <1>2

(* The loop of Joined, round by round. *)
JoinsUp(g, ss) == g[0] = <<>> /\ \A n \in 1..Len(ss) : g[n] = g[n - 1] \o ss[n]

JoinStep(A, ss) == [n \in 1..Len(ss) |-> [k \in Seq(A) |-> k \o ss[n]]]

LEMMA JoinedRuns ==
    ASSUME NEW A, NEW ss \in Seq(Seq(A))
    PROVE  \E g \in [0..Len(ss) -> Seq(A)] : JoinsUp(g, ss) /\ Joined(ss) = g[Len(ss)]
<1>0. PICK N \in Nat : N = Len(ss)
    BY LenProperties
<1>1. \A n \in 1..N : ss[n] \in Seq(A)
    BY <1>0, ElementOfSeq
<1>2. \A n \in 1..N, k \in Seq(A) : k \o ss[n] \in Seq(A)
    BY <1>1, ConcatProperties
<1>3. Steps(JoinStep(A, ss), N, Seq(A))
    BY <1>0, <1>2 DEF Steps, JoinStep
<1>4. <<>> \in Seq(A)
    BY EmptySeq
<1>5. PICK g : Run(g, <<>>, JoinStep(A, ss), N, Seq(A))
    BY <1>3, <1>4, Iterates
<1>6. g \in [0..N -> Seq(A)] /\ g[0] = <<>>
    BY <1>5 DEF Run
<1>7. \A n \in 1..N : g[n] = g[n - 1] \o ss[n]
    <2> SUFFICES ASSUME NEW n \in 1..N PROVE g[n] = g[n - 1] \o ss[n]
        OBVIOUS
    <2>1. n - 1 \in 0..N
        OBVIOUS
    <2>2. g[n - 1] \in Seq(A) /\ g[n] = JoinStep(A, ss)[n][g[n - 1]]
        BY <1>5, <2>1 DEF Run
    <2>3. QED
        BY <1>0, <2>2 DEF JoinStep
<1> DEFINE Body(f) == [n \in 0..Len(ss) |-> IF n = 0 THEN <<>> ELSE f[n - 1] \o ss[n]]
           Sum == CHOOSE f : f = Body(f)
<1>8. g = Body(g)
    <2>1. ASSUME NEW n \in 0..N PROVE g[n] = Body(g)[n]
        <3>1. CASE n = 0
            BY <1>0, <1>6, <3>1
        <3>2. CASE n # 0
            <4>1. n \in 1..N
                BY <3>2
            <4>2. QED
                BY <1>0, <1>7, <3>2, <4>1
        <3>3. QED
            BY <3>1, <3>2
    <2>2. DOMAIN g = 0..N /\ g = [n \in 0..N |-> g[n]]
        BY <1>6
    <2>3. QED
        BY <1>0, <2>1, <2>2
<1>9. Sum = Body(Sum)
    BY <1>8
<1>10. Joined(ss) = Sum[Len(ss)]
    BY DEF Joined
<1> HIDE DEF Sum
<1>11. \A n \in 0..N : Sum[n] = g[n]
    <2> DEFINE P == {n \in 0..N : Sum[n] = g[n]}
    <2>1. 0 \in P
        BY <1>0, <1>8, <1>9
    <2>2. ASSUME NEW n \in 0..N - 1, n \in P PROVE n + 1 \in P
        <3>1. n + 1 \in 0..N /\ n + 1 # 0 /\ (n + 1) - 1 = n
            OBVIOUS
        <3>2. Sum[n + 1] = Sum[n] \o ss[n + 1] /\ g[n + 1] = g[n] \o ss[n + 1]
            BY <1>0, <1>8, <1>9, <3>1
        <3>3. QED
            BY <2>2, <3>1, <3>2
    <2> HIDE DEF P
    <2>3. \A n \in 0..N : n \in P
        BY <2>1, <2>2, UpTo
    <2>4. QED
        BY <2>3 DEF P
<1>12. JoinsUp(g, ss)
    BY <1>0, <1>6, <1>7 DEF JoinsUp
<1>13. Joined(ss) = g[Len(ss)] /\ g \in [0..Len(ss) -> Seq(A)]
    BY <1>0, <1>6, <1>10, <1>11
<1>14. QED
    BY <1>12, <1>13
=============================================================================
