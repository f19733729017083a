--------------------------- MODULE Console_proofs ---------------------------
(***************************************************************************)
(* Proofs about the console of a booted application: what reaches it from  *)
(* the serial line and the keyboard and what it puts on the screen, for    *)
(* every grid, every depth of the FIFO and every sequence of keystrokes,   *)
(* keydowns, polls, output calls and images; and, below, about its events. *)
(***************************************************************************)
EXTENDS Console, Events, Loops, SequenceTheorems, TLAPS

-----------------------------------------------------------------------------
(* The decoder: what a run of bytes leaves as its state and the keys so far. *)
KeyName == {"Up", "Esc", "[", "A", "x"}
Decoding == [esc : 0..2, keys : Seq(KeyName)]

(* One byte from a state of the decoder leads to one. *)
LEMMA DecodeByte ==
    ASSUME NEW e \in 0..2, NEW b \in Bytes
    PROVE  NextEsc(e, b) \in 0..2 /\ UartKey(e, b) \in KeyName \cup {NoKey}
<1>1. NextEsc(e, b) \in 0..2
    BY DEF NextEsc
<1>2. NextEsc(e, b) # 0 => UartKey(e, b) = NoKey
    <2>1. NextEsc(e, b) # 0 => (e = 0 /\ b = "ESC") \/ (e = 1 /\ b = "[")
        BY DEF NextEsc
    <2>2. QED
        BY <2>1 DEF UartKey
<1>3. e = 1 /\ NextEsc(e, b) = 0 => UartKey(e, b) = "Esc"
    BY DEF UartKey, NextEsc
<1>4. e = 2 /\ NextEsc(e, b) = 0 => UartKey(e, b) \in {"Up", NoKey}
    BY DEF UartKey
<1>5. e = 0 /\ NextEsc(e, b) = 0 => UartKey(e, b) \in {b, NoKey} /\ b # "ESC" /\ (b = "ctl" => UartKey(e, b) = NoKey)
    BY DEF UartKey, NextEsc
<1>6. QED
    BY <1>1, <1>2, <1>3, <1>4, <1>5 DEF KeyName, Bytes

LEMMA FedType ==
    ASSUME NEW st \in Decoding, NEW b \in Bytes
    PROVE  Fed(st, b) \in Decoding
<1>1. st.esc \in 0..2 /\ st.keys \in Seq(KeyName)
    BY DEF Decoding
<1>2. NextEsc(st.esc, b) \in 0..2 /\ UartKey(st.esc, b) \in KeyName \cup {NoKey}
    BY <1>1, DecodeByte
<1>3. PICK keys : keys = IF UartKey(st.esc, b) = NoKey THEN st.keys ELSE Append(st.keys, UartKey(st.esc, b))
    OBVIOUS
<1>4. keys \in Seq(KeyName)
    BY <1>1, <1>2, <1>3, AppendProperties
<1>5. QED
    BY <1>2, <1>3, <1>4 DEF Fed, Decoding

Scans(g, e, s) ==
    /\ g[0] = [esc |-> e, keys |-> <<>>]
    /\ \A n \in 1..Len(s) : g[n] = Fed(g[n - 1], s[n])

ScanStep(s) == [n \in 1..Len(s) |-> [st \in Decoding |-> Fed(st, s[n])]]

LEMMA ScannedRuns ==
    ASSUME NEW e \in 0..2, NEW s \in Seq(Bytes)
    PROVE  \E g \in [0..Len(s) -> Decoding] : Scans(g, e, s) /\ Scanned(e, s) = g[Len(s)]
<1>0. PICK N \in Nat : N = Len(s)
    BY LenProperties
<1>1. \A n \in 1..N : s[n] \in Bytes
    BY <1>0, ElementOfSeq
<1>2. \A n \in 1..N, st \in Decoding : Fed(st, s[n]) \in Decoding
    BY <1>1, FedType
<1>3. Steps(ScanStep(s), N, Decoding)
    BY <1>0, <1>2 DEF Steps, ScanStep
<1>4. PICK b \in Decoding : b = [esc |-> e, keys |-> <<>>]
    BY EmptySeq DEF Decoding
<1>5. PICK g : Run(g, b, ScanStep(s), N, Decoding)
    BY <1>3, Iterates
<1>6. g \in [0..N -> Decoding] /\ g[0] = b
    BY <1>5 DEF Run
<1>7. \A n \in 1..N : g[n] = Fed(g[n - 1], s[n])
    <2> SUFFICES ASSUME NEW n \in 1..N PROVE g[n] = Fed(g[n - 1], s[n])
        OBVIOUS
    <2>1. n - 1 \in 0..N
        OBVIOUS
    <2>2. g[n - 1] \in Decoding /\ g[n] = ScanStep(s)[n][g[n - 1]]
        BY <1>5, <2>1 DEF Run
    <2>3. QED
        BY <1>0, <2>2 DEF ScanStep
<1> DEFINE Body(f) == [n \in 0..Len(s) |->
                         IF n = 0 THEN [esc |-> e, keys |-> <<>>] ELSE Fed(f[n - 1], s[n])]
           After == CHOOSE f : f = Body(f)
<1>8. g = Body(g)
    <2>1. ASSUME NEW n \in 0..N PROVE g[n] = Body(g)[n]
        <3>1. CASE n = 0
            BY <1>0, <1>4, <1>6, <3>1
        <3>2. CASE n # 0
            <4>1. n \in 1..N
                BY <3>2
            <4>2. QED
                BY <1>0, <1>7, <3>2, <4>1
        <3>3. QED
            BY <3>1, <3>2
    <2>2. DOMAIN g = 0..N /\ g = [n \in 0..N |-> g[n]]
        BY <1>6
    <2>3. QED
        BY <1>0, <2>1, <2>2
<1>9. After = Body(After)
    BY <1>8
<1>10. Scanned(e, s) = After[Len(s)]
    BY DEF Scanned
<1> HIDE DEF After
<1>11. \A n \in 0..N : After[n] = g[n]
    <2> DEFINE P == {n \in 0..N : After[n] = g[n]}
    <2>1. 0 \in P
        BY <1>0, <1>8, <1>9
    <2>2. ASSUME NEW n \in 0..N - 1, n \in P PROVE n + 1 \in P
        <3>1. n + 1 \in 0..N /\ n + 1 # 0 /\ (n + 1) - 1 = n
            OBVIOUS
        <3>2. After[n + 1] = Fed(After[n], s[n + 1]) /\ g[n + 1] = Fed(g[n], s[n + 1])
            BY <1>0, <1>8, <1>9, <3>1
        <3>3. QED
            BY <2>2, <3>1, <3>2
    <2> HIDE DEF P
    <2>3. \A n \in 0..N : n \in P
        BY <2>1, <2>2, UpTo
    <2>4. QED
        BY <2>3 DEF P
<1>12. QED
    BY <1>0, <1>4, <1>6, <1>7, <1>10, <1>11 DEF Scans

LEMMA ScannedType ==
    ASSUME NEW e \in 0..2, NEW s \in Seq(Bytes)
    PROVE  Scanned(e, s) \in Decoding /\ Scanned(e, s).esc \in 0..2 /\ Scanned(e, s).keys \in Seq(KeyName)
<1>1. PICK g \in [0..Len(s) -> Decoding] : Scans(g, e, s) /\ Scanned(e, s) = g[Len(s)]
    BY ScannedRuns
<1>2. Len(s) \in 0..Len(s)
    BY LenProperties
<1>3. QED
    BY <1>1, <1>2 DEF Decoding

(* No byte, and one byte. *)
LEMMA ScannedShort ==
    ASSUME NEW e \in 0..2
    PROVE  /\ Scanned(e, <<>>) = [esc |-> e, keys |-> <<>>]
           /\ \A b \in Bytes :
                Scanned(e, <<b>>) =
                    [esc  |-> NextEsc(e, b),
                     keys |-> IF UartKey(e, b) = NoKey THEN <<>> ELSE <<UartKey(e, b)>>]
<1>1. Scanned(e, <<>>) = [esc |-> e, keys |-> <<>>]
    <2>1. <<>> \in Seq(Bytes) /\ Len(<<>>) = 0
        BY EmptySeq
    <2>2. PICK g \in [0..Len(<<>>) -> Decoding] :
              Scans(g, e, <<>>) /\ Scanned(e, <<>>) = g[Len(<<>>)]
        BY <2>1, ScannedRuns
    <2>3. QED
        BY <2>1, <2>2 DEF Scans
<1>2. ASSUME NEW b \in Bytes
      PROVE  Scanned(e, <<b>>) =
                 [esc  |-> NextEsc(e, b),
                  keys |-> IF UartKey(e, b) = NoKey THEN <<>> ELSE <<UartKey(e, b)>>]
    <2>0. <<b>> \in Seq(Bytes) /\ Len(<<b>>) = 1 /\ <<b>>[1] = b
        OBVIOUS
    <2>1. PICK s \in Seq(Bytes) : s = <<b>> /\ Len(s) = 1 /\ s[1] = b
        BY <2>0
    <2>2. PICK g \in [0..Len(s) -> Decoding] : Scans(g, e, s) /\ Scanned(e, s) = g[Len(s)]
        BY ScannedRuns
    <2>3. 1 \in 1..Len(s) /\ 1 - 1 = 0
        BY <2>1
    <2>4. g[1] = Fed(g[0], b) /\ g[0] = [esc |-> e, keys |-> <<>>]
        BY <2>1, <2>2, <2>3 DEF Scans
    <2>5. g[1] = [esc  |-> NextEsc(e, b),
                  keys |-> IF UartKey(e, b) = NoKey THEN <<>> ELSE Append(<<>>, UartKey(e, b))]
        BY <2>4 DEF Fed
    <2>6. Append(<<>>, UartKey(e, b)) = <<UartKey(e, b)>>
        OBVIOUS
    <2>7. QED
        BY <2>1, <2>2, <2>5, <2>6
<1>3. QED
    BY <1>1, <1>2

LEMMA KeysAssoc ==
    ASSUME NEW x \in Seq(KeyName), NEW y \in Seq(KeyName), NEW z \in Seq(KeyName)
    PROVE  z \o (x \o y) = (z \o x) \o y
BY ConcatAssociative, SMTT(30)

(* Bytes p and then q: q is decoded from the state p leaves, and its keys  *)
(* follow those of p.                                                      *)
LEMMA ScannedConcat ==
    ASSUME NEW e \in 0..2, NEW p \in Seq(Bytes), NEW q \in Seq(Bytes)
    PROVE  LET left == Scanned(e, p)
               right == Scanned(left.esc, q)
           IN  Scanned(e, p \o q) = [esc |-> right.esc, keys |-> left.keys \o right.keys]
<1> DEFINE left == Scanned(e, p)
           right == Scanned(left.esc, q)
           s == p \o q
<1>0. left \in Decoding /\ left.esc \in 0..2 /\ left.keys \in Seq(KeyName)
    BY ScannedType
<1>1. PICK M \in Nat, N \in Nat : M = Len(p) /\ N = Len(q)
    BY LenProperties
<1>2. /\ s \in Seq(Bytes) /\ Len(s) = M + N
      /\ \A n \in 1..M : s[n] = p[n]
      /\ \A n \in 1..N : s[M + n] = q[n]
    BY <1>1, ConcatProperties
<1>3. PICK f \in [0..Len(p) -> Decoding] : Scans(f, e, p) /\ left = f[Len(p)]
    BY ScannedRuns
<1>4. PICK g \in [0..Len(q) -> Decoding] : Scans(g, left.esc, q) /\ right = g[Len(q)]
    BY <1>0, ScannedRuns
<1>5. PICK h \in [0..Len(s) -> Decoding] : Scans(h, e, s) /\ Scanned(e, s) = h[Len(s)]
    BY <1>2, ScannedRuns
<1> HIDE DEF left, right, s
<1>6. h[M] = left
    <2> DEFINE P == {n \in 0..M : h[n] = f[n]}
    <2>1. 0 \in P
        BY <1>3, <1>5 DEF Scans
    <2>2. ASSUME NEW n \in 0..M - 1, n \in P PROVE n + 1 \in P
        <3>1. n + 1 \in 1..M /\ n + 1 \in 1..(M + N) /\ (n + 1) - 1 = n /\ n + 1 \in 0..M
            OBVIOUS
        <3>2. h[n + 1] = Fed(h[n], s[n + 1]) /\ f[n + 1] = Fed(f[n], p[n + 1])
            BY <1>1, <1>2, <1>3, <1>5, <3>1 DEF Scans
        <3>3. QED
            BY <1>2, <2>2, <3>1, <3>2
    <2> HIDE DEF P
    <2>3. \A n \in 0..M : n \in P
        BY <2>1, <2>2, UpTo
    <2>4. QED
        BY <1>1, <1>3, <2>3 DEF P
<1>7. h[M + N] = [esc |-> g[N].esc, keys |-> left.keys \o g[N].keys]
    <2> DEFINE Meets(n) == h[M + n] = [esc |-> g[n].esc, keys |-> left.keys \o g[n].keys]
               P == {n \in 0..N : Meets(n)}
    <2>1. 0 \in P
        <3>1. g[0] = [esc |-> left.esc, keys |-> <<>>]
            BY <1>4 DEF Scans
        <3>2. left.keys \o <<>> = left.keys
            BY <1>0, ConcatEmptySeq
        <3>3. left = [esc |-> left.esc, keys |-> left.keys]
            BY <1>0 DEF Decoding
        <3>4. Meets(0)
            BY <1>6, <3>1, <3>2, <3>3
        <3> HIDE DEF Meets
        <3>5. QED
            BY <3>4
    <2>2. ASSUME NEW n \in 0..N - 1, n \in P PROVE n + 1 \in P
        <3>1. /\ n + 1 \in 1..N /\ (n + 1) - 1 = n /\ n \in 0..N /\ n + 1 \in 0..N
              /\ M + (n + 1) \in 1..(M + N) /\ (M + (n + 1)) - 1 = M + n
            OBVIOUS
        <3>2. Meets(n)
            BY <2>2
        <3>3. g[n] \in Decoding
            BY <1>1, <3>1
        <3>4. PICK st \in Decoding : st = g[n] /\ st.esc \in 0..2 /\ st.keys \in Seq(KeyName)
            BY <3>3 DEF Decoding
        <3>5. PICK b \in Bytes : b = q[n + 1]
            BY <1>1, <3>1, ElementOfSeq
        <3>6. g[n + 1] = Fed(st, b)
            BY <1>1, <1>4, <3>1, <3>4, <3>5 DEF Scans
        <3>7. h[M + (n + 1)] = Fed([esc |-> st.esc, keys |-> left.keys \o st.keys], b)
            <4>1. h[M + (n + 1)] = Fed(h[M + n], s[M + (n + 1)])
                BY <1>2, <1>5, <3>1 DEF Scans
            <4>2. s[M + (n + 1)] = b
                BY <1>2, <3>1, <3>5
            <4>3. QED
                BY <3>2, <3>4, <4>1, <4>2
        <3>8. UartKey(st.esc, b) \in KeyName \cup {NoKey}
            BY <3>4, DecodeByte
        <3>9. Fed([esc |-> st.esc, keys |-> left.keys \o st.keys], b)
                = [esc |-> Fed(st, b).esc, keys |-> left.keys \o Fed(st, b).keys]
            <4>1. CASE UartKey(st.esc, b) = NoKey
                BY <4>1 DEF Fed
            <4>2. CASE UartKey(st.esc, b) # NoKey
                <5>1. PICK k \in KeyName : k = UartKey(st.esc, b)
                    BY <3>8, <4>2
                <5>2. Append(left.keys \o st.keys, k) = left.keys \o Append(st.keys, k)
                    <6>1. PICK u \in Seq(KeyName), v \in Seq(KeyName) : u = left.keys /\ v = st.keys
                        BY <1>0, <3>4
                    <6>2. u \o v \in Seq(KeyName) /\ <<k>> \in Seq(KeyName)
                        OBVIOUS
                    <6>3. Append(u \o v, k) = (u \o v) \o <<k>> /\ Append(v, k) = v \o <<k>>
                        BY <6>2, AppendIsConcat
                    <6>4. (u \o v) \o <<k>> = u \o (v \o <<k>>)
                        BY <6>2, KeysAssoc
                    <6>5. QED
                        BY <6>1, <6>3, <6>4
                <5>3. QED
                    BY <4>2, <5>1, <5>2 DEF Fed
            <4>3. QED
                BY <4>1, <4>2
        <3>10. Meets(n + 1)
            BY <3>6, <3>7, <3>9
        <3> HIDE DEF Meets
        <3>11. QED
            BY <3>1, <3>10
    <2> HIDE DEF P
    <2>3. \A n \in 0..N : n \in P
        BY <2>1, <2>2, UpTo
    <2>4. N \in P
        BY <2>3
    <2>5. QED
        BY <2>4 DEF P
<1>8. QED
    BY <1>1, <1>2, <1>4, <1>5, <1>7 DEF left, right, s

(* The same, with names for the parts. *)
EscOf(e, s) == Scanned(e, s).esc
KeysOf(e, s) == Scanned(e, s).keys
Joins(s, p, q) == s = p \o q

LEMMA ScanTypes ==
    ASSUME NEW e \in 0..2, NEW s \in Seq(Bytes)
    PROVE  EscOf(e, s) \in 0..2 /\ KeysOf(e, s) \in Seq(KeyName)
BY ScannedType DEF EscOf, KeysOf

LEMMA ScanJoin ==
    ASSUME NEW e \in 0..2, NEW p \in Seq(Bytes), NEW q \in Seq(Bytes), NEW s, Joins(s, p, q)
    PROVE  /\ EscOf(e, s) = EscOf(EscOf(e, p), q)
           /\ Joins(KeysOf(e, s), KeysOf(e, p), KeysOf(EscOf(e, p), q))
<1>0. s = p \o q
    BY DEF Joins
<1>1. PICK x, y, m, n :
          m = Scanned(e, p).esc /\ x = Scanned(e, p).keys
          /\ n = Scanned(m, q).esc /\ y = Scanned(m, q).keys
    OBVIOUS
<1>2. Scanned(e, p \o q) = [esc |-> Scanned(Scanned(e, p).esc, q).esc,
                            keys |-> Scanned(e, p).keys \o Scanned(Scanned(e, p).esc, q).keys]
    BY ScannedConcat
<1>3. PICK c : c = x \o y
    OBVIOUS
<1>4. PICK all : all = Scanned(e, s)
    OBVIOUS
<1>5. all = [esc |-> n, keys |-> c]
    BY <1>0, <1>1, <1>2, <1>3, <1>4, Zenon
<1>6. all.esc = n /\ all.keys = c
    BY ONLY <1>5
<1>7. QED
    BY <1>1, <1>3, <1>4, <1>6, Zenon DEF EscOf, KeysOf, Joins

-----------------------------------------------------------------------------
(* The serial line.  The half of the inductive invariant that decoding     *)
(* needs: the bytes queued end as far into a sequence as what was typed.   *)
LineInv ==
    /\ uart \in Seq(Bytes) /\ esc \in 0..2 /\ lead \in 0..2
    /\ meant \in Seq(KeyName) /\ decoded \in Seq(KeyName)
    /\ torn \in BOOLEAN
    /\ ~torn => EscOf(esc, uart) = lead /\ Joins(meant, decoded, KeysOf(esc, uart))

(* One byte more. *)
LEMMA FedStep ==
    ASSUME NEW st, NEW n, NEW x, NEW b, NEW key,
           st.esc = n, st.keys = x, UartKey(n, b) = key
    PROVE  /\ Fed(st, b).esc = NextEsc(n, b)
           /\ key = NoKey => Fed(st, b).keys = x
           /\ key # NoKey => Fed(st, b).keys = Append(x, key)
<1>1. PICK m, y : m = NextEsc(n, b) /\ y = IF key = NoKey THEN x ELSE Append(x, key)
    OBVIOUS
<1>2. Fed(st, b) = [esc |-> m, keys |-> y]
    BY <1>1, Zenon DEF Fed
<1>3. PICK r : r = Fed(st, b)
    OBVIOUS
<1>4. r = [esc |-> m, keys |-> y]
    BY <1>2, <1>3
<1>5. r.esc = m /\ r.keys = y
    BY ONLY <1>4
<1>6. QED
    BY <1>1, <1>3, <1>5

LEMMA AppendTwo ==
    ASSUME NEW a, NEW b
    PROVE  Append(<<a>>, b) = <<a, b>>
<1>1. PICK S : S = {a, b}
    OBVIOUS
<1>2. <<a>> \in Seq(S) /\ Len(<<a>>) = 1 /\ <<a>>[1] = a /\ a \in S /\ b \in S
    BY <1>1
<1>3. PICK x \in Seq(S) : x = <<a>> /\ Len(x) = 1 /\ x[1] = a
    BY <1>2
<1>4. PICK y : y = Append(x, b)
    OBVIOUS
<1>5. y \in Seq(S) /\ Len(y) = 2 /\ y[1] = a /\ y[2] = b
    BY <1>2, <1>3, <1>4, AppendProperties
<1>6. <<a, b>> \in Seq(S) /\ Len(<<a, b>>) = 2 /\ <<a, b>>[1] = a /\ <<a, b>>[2] = b
    BY <1>2
<1>7. PICK z \in Seq(S) : z = <<a, b>> /\ Len(z) = 2 /\ z[1] = a /\ z[2] = b
    BY <1>6
<1>8. Len(y) = Len(z) /\ \A i \in 1..Len(y) : y[i] = z[i]
    BY <1>5, <1>7
<1>9. y = z
    BY <1>5, <1>7, <1>8, SeqEqual
<1>10. QED
    BY <1>3, <1>4, <1>7, <1>9, Zenon

LEMMA AppendThree ==
    ASSUME NEW a, NEW b, NEW c
    PROVE  Append(<<a, b>>, c) = <<a, b, c>>
<1>1. PICK S : S = {a, b, c}
    OBVIOUS
<1>2. /\ <<a, b>> \in Seq(S) /\ Len(<<a, b>>) = 2 /\ <<a, b>>[1] = a /\ <<a, b>>[2] = b
      /\ a \in S /\ b \in S /\ c \in S
    BY <1>1
<1>3. PICK x \in Seq(S) : x = <<a, b>> /\ Len(x) = 2 /\ x[1] = a /\ x[2] = b
    BY <1>2
<1>4. PICK y : y = Append(x, c)
    OBVIOUS
<1>5. y \in Seq(S) /\ Len(y) = 3 /\ y[1] = a /\ y[2] = b /\ y[3] = c
    BY <1>2, <1>3, <1>4, AppendProperties
<1>6. /\ <<a, b, c>> \in Seq(S) /\ Len(<<a, b, c>>) = 3
      /\ <<a, b, c>>[1] = a /\ <<a, b, c>>[2] = b /\ <<a, b, c>>[3] = c
    BY <1>2
<1>7. PICK z \in Seq(S) : z = <<a, b, c>> /\ Len(z) = 3 /\ z[1] = a /\ z[2] = b /\ z[3] = c
    BY <1>6
<1>8. Len(y) = Len(z) /\ \A i \in 1..Len(y) : y[i] = z[i]
    BY <1>5, <1>7
<1>9. y = z
    BY <1>5, <1>7, <1>8, SeqEqual
<1>10. QED
    BY <1>3, <1>4, <1>7, <1>9, Zenon

(* An arrow, from each state of the decoder. *)
LEMMA ArrowBytes ==
    ASSUME NEW e \in 0..2
    PROVE  Scanned(e, <<"ESC", "[", "A">>) =
               [esc  |-> 0,
                keys |-> IF e = 0 THEN <<"Up">>
                         ELSE IF e = 1 THEN <<"Esc", "[", "A">> ELSE <<"[", "A">>]
<1>1. <<"ESC", "[", "A">> \in Seq(Bytes)
    BY DEF Bytes
<1>2. PICK s \in Seq(Bytes) :
          s = <<"ESC", "[", "A">> /\ Len(s) = 3 /\ s[1] = "ESC" /\ s[2] = "[" /\ s[3] = "A"
    BY <1>1
<1>3. PICK g \in [0..Len(s) -> Decoding] : Scans(g, e, s) /\ Scanned(e, s) = g[Len(s)]
    BY ScannedRuns
<1>4. /\ g[0].esc = e /\ g[0].keys = <<>>
      /\ g[1] = Fed(g[0], "ESC") /\ g[2] = Fed(g[1], "[") /\ g[3] = Fed(g[2], "A")
    <2>1. 1 \in 1..3 /\ 2 \in 1..3 /\ 3 \in 1..3 /\ 1 - 1 = 0 /\ 2 - 1 = 1 /\ 3 - 1 = 2
        OBVIOUS
    <2>2. QED
        BY <1>2, <1>3, <2>1 DEF Scans
<1>5. /\ NextEsc(0, "ESC") = 1 /\ NextEsc(1, "ESC") = 0 /\ NextEsc(2, "ESC") = 0
      /\ NextEsc(0, "[") = 0 /\ NextEsc(1, "[") = 2
      /\ NextEsc(0, "A") = 0 /\ NextEsc(2, "A") = 0
    BY DEF NextEsc
<1>6. /\ UartKey(0, "ESC") = NoKey /\ UartKey(1, "ESC") = "Esc" /\ UartKey(2, "ESC") = NoKey
    BY <1>5 DEF UartKey
<1>7. UartKey(0, "[") = "[" /\ UartKey(1, "[") = NoKey
    BY <1>5 DEF UartKey
<1>8. UartKey(0, "A") = "A" /\ UartKey(2, "A") = "Up"
    BY <1>5 DEF UartKey
<1>9. "Up" # NoKey /\ "Esc" # NoKey /\ "[" # NoKey /\ "A" # NoKey
    BY DEF NoKey
<1>10. Append(<<>>, "Up") = <<"Up">> /\ Append(<<>>, "Esc") = <<"Esc">> /\ Append(<<>>, "[") = <<"[">>
    OBVIOUS
<1>11. CASE e = 0
    <2>1. g[1].esc = 1 /\ g[1].keys = <<>>
        BY <1>4, <1>11, <1>5, <1>6, FedStep
    <2>2. g[2].esc = 2 /\ g[2].keys = <<>>
        BY <1>4, <2>1, <1>5, <1>7, FedStep
    <2>3. g[3].esc = 0 /\ g[3].keys = <<"Up">>
        BY <1>4, <2>2, <1>5, <1>8, <1>9, <1>10, FedStep
    <2>4. g[3] \in Decoding /\ Scanned(e, <<"ESC", "[", "A">>) = g[3]
        BY <1>2, <1>3
    <2>5. g[3] = [esc |-> 0, keys |-> <<"Up">>]
        BY <2>3, <2>4 DEF Decoding
    <2>6. QED
        BY <1>11, <2>4, <2>5
<1>12. CASE e = 1
    <2>1. g[1].esc = 0 /\ g[1].keys = <<"Esc">>
        BY <1>4, <1>12, <1>5, <1>6, <1>9, <1>10, FedStep
    <2>2. g[2].esc = 0 /\ g[2].keys = <<"Esc", "[">>
        <3>1. PICK x : x = <<"Esc">> /\ g[1].keys = x
            BY <2>1
        <3>2. g[1].keys = x /\ g[1].esc = 0 /\ g[2] = Fed(g[1], "[")
            BY <1>4, <2>1, <3>1
        <3>3. g[2].esc = 0 /\ g[2].keys = Append(x, "[")
            BY ONLY <1>5, <1>7, <1>9, <3>2, FedStep
        <3>4. QED
            BY <3>1, <3>3, AppendTwo, Zenon
    <2>3. g[3].esc = 0 /\ g[3].keys = <<"Esc", "[", "A">>
        <3>1. PICK x : x = <<"Esc", "[">> /\ g[2].keys = x
            BY <2>2
        <3>2. g[2].keys = x /\ g[2].esc = 0 /\ g[3] = Fed(g[2], "A")
            BY <1>4, <2>2, <3>1
        <3>3. g[3].esc = 0 /\ g[3].keys = Append(x, "A")
            BY ONLY <1>5, <1>8, <1>9, <3>2, FedStep
        <3>4. QED
            BY <3>1, <3>3, AppendThree, Zenon
    <2>4. g[3] \in Decoding /\ Scanned(e, <<"ESC", "[", "A">>) = g[3]
        BY <1>2, <1>3
    <2>5. g[3] = [esc |-> 0, keys |-> <<"Esc", "[", "A">>]
        BY <2>3, <2>4 DEF Decoding
    <2>6. QED
        BY <1>12, <2>4, <2>5
<1>13. CASE e = 2
    <2>1. g[1].esc = 0 /\ g[1].keys = <<>>
        BY <1>4, <1>13, <1>5, <1>6, FedStep
    <2>2. g[2].esc = 0 /\ g[2].keys = <<"[">>
        BY <1>4, <2>1, <1>5, <1>7, <1>9, <1>10, FedStep
    <2>3. g[3].esc = 0 /\ g[3].keys = <<"[", "A">>
        <3>1. PICK x : x = <<"[">> /\ g[2].keys = x
            BY <2>2
        <3>2. g[2].keys = x /\ g[2].esc = 0 /\ g[3] = Fed(g[2], "A")
            BY <1>4, <2>2, <3>1
        <3>3. g[3].esc = 0 /\ g[3].keys = Append(x, "A")
            BY ONLY <1>5, <1>8, <1>9, <3>2, FedStep
        <3>4. QED
            BY <3>1, <3>3, AppendTwo, Zenon
    <2>4. g[3] \in Decoding /\ Scanned(e, <<"ESC", "[", "A">>) = g[3]
        BY <1>2, <1>3
    <2>5. g[3] = [esc |-> 0, keys |-> <<"[", "A">>]
        BY <2>3, <2>4 DEF Decoding
    <2>6. QED
        BY <1>13, <2>4, <2>5
<1>14. QED
    BY <1>11, <1>12, <1>13

(* The decoder makes of a keystroke's bytes what the keystroke stands for, *)
(* and stops as far into a sequence.                                       *)
LEMMA KeystrokeBytes ==
    ASSUME NEW k \in Keystrokes, NEW e \in 0..2
    PROVE  /\ BytesOf(k) \in Seq(Bytes)
           /\ EscOf(e, BytesOf(k)) = LeadAfter(e, k)
           /\ KeysOf(e, BytesOf(k)) = Heard(e, k)
<1>0. k \in {"Up", "ESC", "x", "[", "A", "ctl"}
    BY InputAssumption
<1>1. CASE k # "Up"
    <2>1. k \in Bytes /\ BytesOf(k) = <<k>>
        BY <1>0, <1>1 DEF Bytes, BytesOf
    <2>2. Scanned(e, <<k>>) =
              [esc  |-> NextEsc(e, k),
               keys |-> IF UartKey(e, k) = NoKey THEN <<>> ELSE <<UartKey(e, k)>>]
        BY <2>1, ScannedShort
    <2>3. NextEsc(e, k) = LeadAfter(e, k)
        BY DEF NextEsc, LeadAfter
    <2>4. (IF UartKey(e, k) = NoKey THEN <<>> ELSE <<UartKey(e, k)>>) = Heard(e, k)
        <3>1. CASE e = 0
            <4>1. UartKey(0, k) = IF k \in {"ESC", "ctl"} THEN NoKey ELSE k
                BY <1>0, <1>1 DEF UartKey, NextEsc
            <4>2. k # NoKey
                BY <1>0 DEF NoKey
            <4>3. QED
                BY <3>1, <4>1, <4>2 DEF Heard
        <3>2. CASE e = 1
            <4>1. UartKey(1, k) = IF k = "[" THEN NoKey ELSE "Esc"
                <5>1. NextEsc(1, k) = IF k = "[" THEN 2 ELSE 0
                    BY DEF NextEsc
                <5>2. QED
                    BY <5>1 DEF UartKey
            <4>2. "Esc" # NoKey
                BY DEF NoKey
            <4>3. QED
                BY <1>1, <3>2, <4>1, <4>2 DEF Heard
        <3>3. CASE e = 2
            <4>1. UartKey(2, k) = IF k = "A" THEN "Up" ELSE NoKey
                <5>1. NextEsc(2, k) = 0
                    BY DEF NextEsc
                <5>2. QED
                    BY <5>1 DEF UartKey
            <4>2. "Up" # NoKey
                BY DEF NoKey
            <4>3. QED
                BY <1>1, <3>3, <4>1, <4>2 DEF Heard
        <3>4. QED
            BY <3>1, <3>2, <3>3
    <2>5. <<k>> \in Seq(Bytes)
        BY <2>1
    <2>6. PICK r : r = Scanned(e, <<k>>)
        OBVIOUS
    <2>7. r = [esc |-> LeadAfter(e, k), keys |-> Heard(e, k)]
        BY <2>2, <2>3, <2>4, <2>6, Zenon
    <2>8. r.esc = LeadAfter(e, k) /\ r.keys = Heard(e, k)
        BY ONLY <2>7
    <2>9. QED
        BY <2>1, <2>5, <2>6, <2>8, Zenon DEF EscOf, KeysOf
<1>2. CASE k = "Up"
    <2>1. BytesOf(k) = <<"ESC", "[", "A">> /\ <<"ESC", "[", "A">> \in Seq(Bytes)
        BY <1>2 DEF BytesOf, Bytes
    <2>2. LeadAfter(e, k) = 0
        BY <1>2 DEF LeadAfter
    <2>3. Heard(e, k) = IF e = 0 THEN <<"Up">>
                        ELSE IF e = 1 THEN <<"Esc", "[", "A">> ELSE <<"[", "A">>
        BY <1>2 DEF Heard
    <2>4. PICK r : r = Scanned(e, BytesOf(k))
        OBVIOUS
    <2>5. r = [esc |-> LeadAfter(e, k), keys |-> Heard(e, k)]
        BY <2>1, <2>2, <2>3, <2>4, ArrowBytes, Zenon
    <2>6. r.esc = LeadAfter(e, k) /\ r.keys = Heard(e, k)
        BY ONLY <2>5
    <2>7. QED
        BY <2>1, <2>4, <2>6, Zenon DEF EscOf, KeysOf
<1>3. QED
    BY <1>1, <1>2

LEMMA CutEnd ==
    ASSUME NEW x \in Seq(KeyName), NEW y \in Seq(KeyName), NEW s, Joins(s, x, y)
    PROVE  SubSeq(s, 1, Len(s) - Len(y)) = x
<1>1. PICK M \in Nat, N \in Nat : M = Len(x) /\ N = Len(y)
    BY LenProperties
<1>2. /\ s \in Seq(KeyName) /\ Len(s) = M + N
      /\ \A i \in 1..M : s[i] = x[i]
    BY <1>1, ConcatProperties DEF Joins
<1>3. Len(s) - Len(y) = M
    BY <1>1, <1>2
<1>4. \A i \in 1..M : s[i] \in KeyName
    BY <1>2, ElementOfSeq
<1>5. PICK u : u = SubSeq(s, 1, M)
    OBVIOUS
<1>6. u \in Seq(KeyName) /\ Len(u) = M /\ \A i \in 1..M : u[i] = s[i]
    <2>1. 1 \in Int /\ M \in Int /\ M - 1 + 1 = M /\ (1 <= M \/ M = 0)
        OBVIOUS
    <2>2. /\ u \in Seq(KeyName)
          /\ Len(u) = IF 1 <= M THEN M - 1 + 1 ELSE 0
          /\ \A i \in 1..(M - 1 + 1) : u[i] = s[1 + i - 1]
        BY <1>4, <1>5, <2>1, SubSeqProperties
    <2>3. QED
        BY <2>1, <2>2
<1>7. Len(u) = Len(x) /\ \A i \in 1..Len(u) : u[i] = x[i]
    BY <1>1, <1>2, <1>6
<1>8. u = x
    BY <1>6, <1>7, SeqEqual
<1>9. QED
    BY <1>3, <1>5, <1>8

LEMMA SplitAt ==
    ASSUME NEW A, NEW s \in Seq(A), NEW n \in 0..Len(s)
    PROVE  /\ SubSeq(s, 1, n) \in Seq(A) /\ SubSeq(s, n + 1, Len(s)) \in Seq(A)
           /\ s = SubSeq(s, 1, n) \o SubSeq(s, n + 1, Len(s))
<1>1. PICK N \in Nat : N = Len(s)
    BY LenProperties
<1>2. n \in Nat /\ n <= N /\ 1 \in Int /\ n \in Int /\ n + 1 \in Int /\ N \in Int
    BY <1>1
<1>3. \A i \in 1..N : s[i] \in A
    BY <1>1, ElementOfSeq
<1>4. PICK u : u = SubSeq(s, 1, n)
    OBVIOUS
<1>5. PICK v : v = SubSeq(s, n + 1, N)
    OBVIOUS
<1>6. u \in Seq(A) /\ Len(u) = n /\ \A i \in 1..n : u[i] = s[i]
    <2>1. \A i \in 1..n : s[i] \in A
        BY <1>2, <1>3
    <2>2. /\ u \in Seq(A)
          /\ Len(u) = IF 1 <= n THEN n - 1 + 1 ELSE 0
          /\ \A i \in 1..(n - 1 + 1) : u[i] = s[1 + i - 1]
        BY <1>2, <1>4, <2>1, SubSeqProperties
    <2>3. QED
        BY <1>2, <2>2
<1>7. v \in Seq(A) /\ Len(v) = N - n /\ \A i \in 1..(N - n) : v[i] = s[n + i]
    <2>1. \A i \in (n + 1)..N : s[i] \in A
        BY <1>2, <1>3
    <2>2. /\ v \in Seq(A)
          /\ Len(v) = IF n + 1 <= N THEN N - (n + 1) + 1 ELSE 0
          /\ \A i \in 1..(N - (n + 1) + 1) : v[i] = s[n + 1 + i - 1]
        BY <1>2, <1>5, <2>1, SubSeqProperties
    <2>3. QED
        BY <1>2, <2>2
<1>8. PICK w : w = u \o v
    OBVIOUS
<1>9. w \in Seq(A) /\ Len(w) = N /\ \A i \in 1..N : w[i] = s[i]
    <2>1. /\ w \in Seq(A) /\ Len(w) = Len(u) + Len(v)
          /\ \A i \in 1..Len(u) + Len(v) : w[i] = IF i <= Len(u) THEN u[i] ELSE v[i - Len(u)]
        <3>1. u \in Seq(A) /\ v \in Seq(A)
            BY <1>6, <1>7
        <3>2. QED
            BY ONLY <1>8, <3>1, ConcatProperties
    <2>2. /\ w \in Seq(A) /\ Len(w) = N
          /\ \A i \in 1..N : w[i] = IF i <= n THEN u[i] ELSE v[i - n]
        <3>1. Len(u) = n /\ Len(v) = N - n /\ n + (N - n) = N
            BY <1>2, <1>6, <1>7
        <3>2. QED
            BY ONLY <2>1, <3>1
    <2>3. ASSUME NEW i \in 1..N PROVE w[i] = s[i]
        <3>1. CASE i <= n
            <4>1. i \in 1..n /\ w[i] = u[i]
                BY <1>2, <2>2, <3>1
            <4>2. QED
                BY <1>6, <4>1
        <3>2. CASE ~(i <= n)
            <4>1. i - n \in 1..(N - n) /\ n + (i - n) = i /\ w[i] = v[i - n]
                BY <1>2, <2>2, <3>2
            <4>2. v[i - n] = s[n + (i - n)]
                BY <1>7, <4>1
            <4>3. QED
                BY <4>1, <4>2
        <3>3. QED
            BY <3>1, <3>2
    <2>4. QED
        BY <2>2, <2>3
<1>10. w = s
    BY <1>1, <1>9, SeqEqual
<1>11. QED
    BY <1>1, <1>4, <1>5, <1>6, <1>7, <1>8, <1>10, Zenon

LEMMA TypeKeepsLine ==
    ASSUME LineInv, NEW k \in Keystrokes, Type(k)
    PROVE  LineInv'
<1>0. /\ uart \in Seq(Bytes) /\ esc \in 0..2 /\ lead \in 0..2 /\ torn \in BOOLEAN
      /\ meant \in Seq(KeyName) /\ decoded \in Seq(KeyName)
    BY DEF LineInv
<1>1. PICK q \in Seq(Bytes) :
          q = BytesOf(k) /\ EscOf(lead, q) = LeadAfter(lead, k) /\ KeysOf(lead, q) = Heard(lead, k)
    BY <1>0, KeystrokeBytes
<1>2. PICK line \in Seq(Bytes) : line = uart \o q
    BY <1>0, <1>1, ConcatProperties
<1>3. /\ uart' = IF Len(line) <= FifoDepth THEN line ELSE SubSeq(line, 1, FifoDepth)
      /\ torn' = (torn \/ Len(line) > FifoDepth)
      /\ meant' = meant \o Heard(lead, k) /\ lead' = LeadAfter(lead, k)
      /\ esc' = esc /\ decoded' = decoded
    BY <1>1, <1>2 DEF Type
<1>4. PICK more \in Seq(KeyName) : more = KeysOf(lead, q) /\ meant' = meant \o more
    BY <1>0, <1>1, <1>3, ScanTypes
<1>5. meant' \in Seq(KeyName) /\ lead' \in 0..2
    BY <1>0, <1>1, <1>3, <1>4, ScanTypes, ConcatProperties
<1>6. uart' \in Seq(Bytes)
    <2>1. CASE Len(line) <= FifoDepth
        BY <1>3, <2>1
    <2>2. CASE ~(Len(line) <= FifoDepth)
        <3>1. FifoDepth \in 0..Len(line)
            BY <2>2, InputAssumption, LenProperties
        <3>2. QED
            BY <1>3, <2>2, <3>1, SplitAt
    <2>3. QED
        BY <2>1, <2>2
<1>7. torn' \in BOOLEAN
    BY <1>3, Zenon
<1>8. ASSUME ~torn'
      PROVE  EscOf(esc, uart') = lead' /\ Joins(meant', decoded, KeysOf(esc, uart'))
    <2>1. ~torn /\ uart' = line
        <3>1. ~torn /\ ~(Len(line) > FifoDepth)
            BY <1>3, <1>8, Zenon
        <3>2. Len(line) <= FifoDepth
            BY <3>1, InputAssumption, LenProperties
        <3>3. QED
            BY <1>3, <3>1, <3>2
    <2>2. EscOf(esc, uart) = lead /\ Joins(meant, decoded, KeysOf(esc, uart))
        BY <2>1 DEF LineInv
    <2>3. PICK x \in Seq(KeyName) : x = KeysOf(esc, uart) /\ meant = decoded \o x
        BY <1>0, <2>2, ScanTypes DEF Joins
    <2>4. EscOf(esc, line) = lead' /\ Joins(KeysOf(esc, line), x, more)
        <3>1. Joins(line, uart, q)
            BY <1>2 DEF Joins
        <3>2. /\ EscOf(esc, line) = EscOf(EscOf(esc, uart), q)
              /\ Joins(KeysOf(esc, line), KeysOf(esc, uart), KeysOf(EscOf(esc, uart), q))
            BY <1>0, <3>1, ScanJoin
        <3>3. QED
            BY <1>1, <1>3, <1>4, <2>2, <2>3, <3>2, Zenon
    <2>5. decoded \o (x \o more) = (decoded \o x) \o more
        <3>1. decoded \in Seq(KeyName) /\ x \in Seq(KeyName) /\ more \in Seq(KeyName)
            BY <1>0
        <3>2. QED
            BY ONLY <3>1, KeysAssoc
    <2>6. QED
        BY <1>4, <2>1, <2>3, <2>4, <2>5, Zenon DEF Joins
<1>9. QED
    BY <1>0, <1>3, <1>5, <1>6, <1>7, <1>8 DEF LineInv

LEMMA PollKeepsLine ==
    ASSUME LineInv, NEW k, UartPoll(k), UNCHANGED <<meant, lead, torn>>
    PROVE  LineInv'
<1>0. /\ uart \in Seq(Bytes) /\ esc \in 0..2 /\ lead \in 0..2 /\ torn \in BOOLEAN
      /\ meant \in Seq(KeyName) /\ decoded \in Seq(KeyName)
    BY DEF LineInv
<1>1. CASE uart = <<>> /\ UNCHANGED <<uart, esc, decoded>>
    BY <1>1 DEF LineInv
<1>2. CASE /\ uart # <<>>
           /\ k = UartKey(esc, Head(uart))
           /\ uart' = Tail(uart)
           /\ esc' = NextEsc(esc, Head(uart))
           /\ decoded' = IF k = NoKey THEN decoded ELSE Append(decoded, k)
    <2>1. PICK b \in Bytes, rest \in Seq(Bytes) : b = Head(uart) /\ rest = Tail(uart) /\ uart = <<b>> \o rest
        <3>1. Head(uart) \in Bytes /\ Tail(uart) \in Seq(Bytes)
            BY <1>0, <1>2, HeadTailProperties
        <3>2. uart = <<Head(uart)>> \o Tail(uart)
            BY <1>0, <1>2
        <3>3. QED
            BY <3>1, <3>2
    <2>2. NextEsc(esc, b) \in 0..2 /\ k \in KeyName \cup {NoKey}
        BY <1>0, <1>2, <2>1, DecodeByte
    <2>3. PICK more \in Seq(KeyName) : more = IF k = NoKey THEN <<>> ELSE <<k>>
        <3>1. <<>> \in Seq(KeyName) /\ (k # NoKey => <<k>> \in Seq(KeyName))
            BY <2>2
        <3>2. QED
            BY <3>1
    <2>4. decoded' = decoded \o more
        <3>1. CASE k = NoKey
            BY <1>0, <1>2, <2>3, <3>1, ConcatEmptySeq
        <3>2. CASE k # NoKey
            BY <1>0, <1>2, <2>2, <2>3, <3>2, AppendIsConcat
        <3>3. QED
            BY <3>1, <3>2
    <2>5. decoded' \in Seq(KeyName)
        BY <1>0, <2>4, ConcatProperties
    <2>6. PICK p \in Seq(Bytes) : p = <<b>> /\ EscOf(esc, p) = esc' /\ KeysOf(esc, p) = more
        <3>1. Scanned(esc, <<b>>) = [esc |-> esc', keys |-> more]
            BY <1>0, <1>2, <2>1, <2>3, ScannedShort
        <3>2. <<b>> \in Seq(Bytes)
            OBVIOUS
        <3>3. Scanned(esc, <<b>>).esc = esc' /\ Scanned(esc, <<b>>).keys = more
            BY ONLY <3>1
        <3>4. QED
            BY <3>2, <3>3, Zenon DEF EscOf, KeysOf
    <2>8. uart' = rest /\ esc' \in 0..2 /\ meant' = meant /\ lead' = lead /\ torn' = torn
        BY <1>2, <2>1, <2>2
    <2>9. PICK y \in Seq(KeyName) : y = KeysOf(esc', rest)
        BY <2>8, ScanTypes
    <2>10. EscOf(esc, uart) = EscOf(esc', rest) /\ Joins(KeysOf(esc, uart), more, y)
        <3>1. Joins(uart, p, rest)
            BY <2>1, <2>6 DEF Joins
        <3>2. /\ EscOf(esc, uart) = EscOf(EscOf(esc, p), rest)
              /\ Joins(KeysOf(esc, uart), KeysOf(esc, p), KeysOf(EscOf(esc, p), rest))
            BY <1>0, <3>1, ScanJoin
        <3>3. QED
            BY <2>6, <2>9, <3>2, Zenon
    <2>11. ASSUME ~torn
           PROVE  EscOf(esc', rest) = lead /\ Joins(meant, decoded', KeysOf(esc', rest))
        <3>1. EscOf(esc, uart) = lead /\ Joins(meant, decoded, KeysOf(esc, uart))
            BY <2>11 DEF LineInv
        <3>2. decoded \o (more \o y) = (decoded \o more) \o y
            <4>1. decoded \in Seq(KeyName) /\ more \in Seq(KeyName) /\ y \in Seq(KeyName)
                BY <1>0
            <4>2. QED
                BY ONLY <4>1, KeysAssoc
        <3>3. QED
            BY <2>4, <2>9, <2>10, <3>1, <3>2, Zenon DEF Joins
    <2>12. QED
        BY <1>0, <2>5, <2>8, <2>11 DEF LineInv
<1>3. QED
    BY <1>1, <1>2 DEF UartPoll

(* init forgets a half-read sequence, and with the decoder between two     *)
(* sequences what it leaves in the FIFO is decoded as before.              *)
LEMMA ResetKeepsLine ==
    ASSUME LineInv, NEW n \in 0..Len(uart), ResetInput(n), UNCHANGED meant
    PROVE  LineInv'
<1>0. /\ uart \in Seq(Bytes) /\ esc \in 0..2 /\ lead \in 0..2
      /\ meant \in Seq(KeyName) /\ decoded \in Seq(KeyName)
    BY DEF LineInv
<1>1. PICK p \in Seq(Bytes), q \in Seq(Bytes) :
          p = SubSeq(uart, 1, n) /\ q = SubSeq(uart, n + 1, Len(uart)) /\ Joins(uart, p, q)
    <2>1. /\ SubSeq(uart, 1, n) \in Seq(Bytes) /\ SubSeq(uart, n + 1, Len(uart)) \in Seq(Bytes)
          /\ uart = SubSeq(uart, 1, n) \o SubSeq(uart, n + 1, Len(uart))
        BY <1>0, SplitAt
    <2>2. QED
        BY <2>1, Zenon DEF Joins
<1>2. /\ uart' = q /\ esc' = 0 /\ meant' = meant /\ lead' = (IF q = <<>> THEN 0 ELSE lead)
      /\ torn' = (q # <<>> /\ (torn \/ EscOf(esc, p) # 0))
      /\ decoded' = IF torn' THEN decoded ELSE SubSeq(meant, 1, Len(meant) - Len(KeysOf(0, q)))
    BY <1>1 DEF ResetInput, EscBehind, KeysIn, EscOf, KeysOf
<1>3. PICK y \in Seq(KeyName) : y = KeysOf(0, q)
    BY ScanTypes
<1>4. ASSUME ~torn'
      PROVE  EscOf(0, q) = lead' /\ decoded' \in Seq(KeyName) /\ Joins(meant, decoded', y)
    <2>1. EscOf(0, q) = lead' /\ \E x \in Seq(KeyName) : Joins(meant, x, y)
        <3>1. CASE q = <<>>
            <4>1. EscOf(0, q) = 0 /\ y = <<>>
                BY <1>3, <3>1, ScannedShort DEF EscOf, KeysOf
            <4>2. meant \in Seq(KeyName) /\ meant \o <<>> = meant
                BY <1>0, ConcatEmptySeq
            <4>3. QED
                BY <1>2, <3>1, <4>1, <4>2 DEF Joins
        <3>2. CASE q # <<>> /\ ~torn /\ EscOf(esc, p) = 0
            <4>1. EscOf(esc, uart) = lead /\ Joins(meant, decoded, KeysOf(esc, uart))
                BY <3>2 DEF LineInv
            <4>2. /\ EscOf(esc, uart) = EscOf(EscOf(esc, p), q)
                  /\ Joins(KeysOf(esc, uart), KeysOf(esc, p), KeysOf(EscOf(esc, p), q))
                <5>1. p \in Seq(Bytes) /\ q \in Seq(Bytes) /\ Joins(uart, p, q)
                    BY <1>1
                <5>2. QED
                    BY ONLY <1>0, <5>1, ScanJoin
            <4>3. PICK x \in Seq(KeyName) : x = KeysOf(esc, p)
                BY <1>0, ScanTypes
            <4>4. EscOf(0, q) = lead /\ meant = decoded \o (x \o y)
                BY <1>3, <3>2, <4>1, <4>2, <4>3, Zenon DEF Joins
            <4>5. decoded \o (x \o y) = (decoded \o x) \o y
                <5>1. decoded \in Seq(KeyName) /\ x \in Seq(KeyName) /\ y \in Seq(KeyName)
                    BY <1>0
                <5>2. QED
                    BY ONLY <5>1, KeysAssoc
            <4>6. decoded \o x \in Seq(KeyName)
                BY <1>0, ConcatProperties
            <4>7. QED
                BY <1>2, <3>2, <4>4, <4>5, <4>6, Zenon DEF Joins
        <3>3. QED
            BY <1>2, <1>4, <3>1, <3>2
    <2>2. PICK x \in Seq(KeyName) : Joins(meant, x, y)
        BY <2>1
    <2>3. SubSeq(meant, 1, Len(meant) - Len(y)) = x
        BY <2>2, CutEnd
    <2>4. decoded' = x
        BY <1>2, <1>3, <1>4, <2>3, Zenon
    <2>5. QED
        BY <2>1, <2>2, <2>4, Zenon
<1>5. decoded' \in Seq(KeyName)
    BY <1>0, <1>2, <1>4
<1>6. torn' \in BOOLEAN
    BY <1>2, Zenon
<1>7. ~torn' => EscOf(esc', uart') = lead' /\ Joins(meant', decoded', KeysOf(esc', uart'))
    BY <1>2, <1>3, <1>4, Zenon
<1>7a. lead' \in 0..2 /\ meant' \in Seq(KeyName) /\ esc' \in 0..2
    BY <1>0, <1>2
<1>8. QED
    BY <1>1, <1>7a, <1>2, <1>5, <1>6, <1>7 DEF LineInv

-----------------------------------------------------------------------------
(* The keyboard.  A key that is down and was not in the last report has    *)
(* been pressed once more than it was heard: poll_new_keys may still pass  *)
(* it on, once.                                                            *)
KeyInv ==
    /\ down \in Seq(Codes) /\ prev \subseteq Codes
    /\ pressed \in [Codes -> Nat] /\ heard \in [Codes -> Nat]
    /\ \A c \in Codes :
           heard[c] <= pressed[c] /\ (c \in Range(down) \ prev => heard[c] < pressed[c])

LEMMA RangeIs ==
    ASSUME NEW A, NEW s \in Seq(A)
    PROVE  Range(s) = {s[i] : i \in 1..Len(s)} /\ Range(s) \subseteq A
<1>1. DOMAIN s = 1..Len(s)
    BY LenProperties
<1>2. \A i \in 1..Len(s) : s[i] \in A
    BY ElementOfSeq
<1>3. QED
    BY <1>1, <1>2 DEF Range

LEMMA PressKeepsKeys ==
    ASSUME KeyInv, NEW c \in Codes, Press(c)
    PROVE  KeyInv'
<1>0. /\ down \in Seq(Codes) /\ prev \subseteq Codes
      /\ pressed \in [Codes -> Nat] /\ heard \in [Codes -> Nat]
      /\ \A d \in Codes :
           heard[d] <= pressed[d] /\ (d \in Range(down) \ prev => heard[d] < pressed[d])
    BY DEF KeyInv
<1>1. /\ down' = Append(down, c) /\ prev' = prev /\ heard' = heard
      /\ pressed' = [pressed EXCEPT ![c] = @ + 1]
    BY DEF Press, KeyDown
<1>2. down' \in Seq(Codes) /\ Range(down') = Range(down) \cup {c}
    <2>1. PICK N \in Nat : N = Len(down)
        BY <1>0, LenProperties
    <2>2. PICK u \in Seq(Codes) : u = down'
        BY <1>0, <1>1, AppendProperties
    <2>3. Len(u) = N + 1 /\ u[N + 1] = c /\ \A i \in 1..N : u[i] = down[i]
        BY <1>0, <1>1, <2>1, <2>2, AppendProperties
    <2>4. Range(u) = {u[i] : i \in 1..(N + 1)} /\ Range(down) = {down[i] : i \in 1..N}
        BY <1>0, <2>1, <2>3, RangeIs
    <2>5. \A i \in 1..(N + 1) : i = N + 1 \/ i \in 1..N
        OBVIOUS
    <2>6. Range(u) = Range(down) \cup {c}
        BY <2>3, <2>4, <2>5
    <2>7. QED
        BY <2>2, <2>6
<1>3. pressed' \in [Codes -> Nat] /\ pressed'[c] = pressed[c] + 1
      /\ \A d \in Codes \ {c} : pressed'[d] = pressed[d]
    BY <1>0, <1>1
<1>4. ASSUME NEW d \in Codes
      PROVE  heard'[d] <= pressed'[d] /\ (d \in Range(down') \ prev' => heard'[d] < pressed'[d])
    <2>1. heard[d] \in Nat /\ pressed[d] \in Nat
        BY <1>0
    <2>2. CASE d = c
        BY <1>0, <1>1, <1>3, <2>1, <2>2
    <2>3. CASE d # c
        BY <1>0, <1>1, <1>2, <1>3, <2>3
    <2>4. QED
        BY <2>2, <2>3
<1>5. QED
    BY <1>0, <1>1, <1>2, <1>3, <1>4 DEF KeyInv

LEMMA ReleaseKeepsKeys ==
    ASSUME KeyInv, NEW c \in Codes, Release(c)
    PROVE  KeyInv'
<1>0. down \in Seq(Codes)
    BY DEF KeyInv
<1>1. PICK u \in Seq(Codes) : u = Among(down, Codes \ {c}) /\ u = down'
    BY <1>0, AmongIn DEF Release, KeyUp
<1>2. Range(u) \subseteq Range(down)
    <2>1. \A m \in 1..Len(u) : \E n \in 1..Len(down) : u[m] = down[n]
        <3>1. PICK S : S = Codes \ {c}
            OBVIOUS
        <3>2. \A m \in 1..Len(Among(down, S)) :
                  \E n \in 1..Len(down) : Among(down, S)[m] = down[n]
            BY <1>0, AmongIn
        <3>3. QED
            BY <1>1, <3>1, <3>2, Zenon
    <2>2. Range(u) = {u[i] : i \in 1..Len(u)} /\ Range(down) = {down[i] : i \in 1..Len(down)}
        BY <1>0, RangeIs
    <2>3. QED
        BY <2>1, <2>2
<1>3. prev' = prev /\ pressed' = pressed /\ heard' = heard
    BY DEF Release, KeyUp
<1>4. QED
    BY <1>1, <1>2, <1>3 DEF KeyInv

(* Whoever takes a report, and counts one of its new keys or none, keeps   *)
(* the bound.                                                              *)
LEMMA ReportKeepsKeys ==
    ASSUME KeyInv, TakeReport, pressed' = pressed,
           \/ heard' = heard
           \/ \E c \in Range(down) \ prev : c \in Codes /\ heard' = [heard EXCEPT ![c] = @ + 1]
    PROVE  KeyInv'
<1>0. /\ down \in Seq(Codes) /\ prev \subseteq Codes
      /\ pressed \in [Codes -> Nat] /\ heard \in [Codes -> Nat]
      /\ \A d \in Codes :
           heard[d] <= pressed[d] /\ (d \in Range(down) \ prev => heard[d] < pressed[d])
    BY DEF KeyInv
<1>1. down' = down /\ prev' = Range(down)
    BY DEF TakeReport
<1>2. prev' \subseteq Codes
    BY <1>0, <1>1, RangeIs
<1>3. heard' \in [Codes -> Nat] /\ \A d \in Codes : heard'[d] <= pressed'[d]
    <2>1. CASE heard' = heard
        BY <1>0, <2>1
    <2>2. ASSUME NEW c \in Codes, c \in Range(down) \ prev, heard' = [heard EXCEPT ![c] = @ + 1]
          PROVE  heard' \in [Codes -> Nat] /\ \A d \in Codes : heard'[d] <= pressed'[d]
        <3>1. heard[c] < pressed[c] /\ heard[c] \in Nat /\ pressed[c] \in Nat
            BY <1>0, <2>2
        <3>2. heard' \in [Codes -> Nat] /\ heard'[c] = heard[c] + 1
              /\ \A d \in Codes \ {c} : heard'[d] = heard[d]
            BY <1>0, <2>2
        <3>3. heard'[c] <= pressed[c]
            BY <3>1, <3>2
        <3>4. QED
            BY <1>0, <3>2, <3>3
    <2>3. QED
        BY <2>1, <2>2
<1>4. QED
    BY <1>0, <1>1, <1>2, <1>3 DEF KeyInv

LEMMA KeyboardPollKeepsKeys ==
    ASSUME KeyInv, NEW k, KeyboardPoll(k), pressed' = pressed
    PROVE  KeyInv'
<1>0. down \in Seq(Codes)
    BY DEF KeyInv
<1>1. CASE k = NoKey /\ NoReport /\ UNCHANGED heard
    BY <1>1 DEF KeyInv, NoReport, keyboardVars
<1>2. CASE TakeReport /\ heard' = heard
    BY <1>2, ReportKeepsKeys
<1>3. CASE /\ TakeReport /\ FirstMapped(NewKeys) # <<>>
           /\ heard' = [heard EXCEPT ![Head(FirstMapped(NewKeys))] = @ + 1]
    <2>1. PICK new \in Seq(Codes) : new = NewKeys
        BY <1>0, AmongIn DEF NewKeys
    <2>2. PICK hits \in Seq(Codes) : hits = FirstMapped(NewKeys)
        BY <2>1, AmongIn DEF FirstMapped
    <2>3. hits # <<>> /\ Len(hits) \in Nat /\ Head(hits) = hits[1] /\ 1 \in 1..Len(hits)
        BY <1>3, <2>2
    <2>4. PICK m \in 1..Len(new) : hits[1] = new[m]
        BY <2>1, <2>2, <2>3, AmongIn DEF FirstMapped
    <2>5. PICK n \in 1..Len(down) : new[m] = down[n] /\ down[n] \in Codes \ prev
        BY <1>0, <2>1, AmongIn DEF NewKeys
    <2>6. PICK c : c = down[n] /\ c \in Range(down) \ prev /\ c \in Codes
        BY <1>0, <2>5, RangeIs
    <2>7. heard' = [heard EXCEPT ![c] = @ + 1]
        BY <1>3, <2>2, <2>3, <2>4, <2>5, <2>6
    <2>8. QED
        BY <1>3, <2>6, <2>7, ReportKeepsKeys
<1>4. QED
    BY <1>1, <1>2, <1>3 DEF KeyboardPoll


-----------------------------------------------------------------------------
(* The screen.  Every text state and page that output calls can produce;   *)
(* the paper reaches to the bottom of the window.                          *)
Cells == [bg : Attributes \cup {"boot"}, ink : Seq(Printable \X Attributes)]
Lines == [Col -> Cells]
Texts == [col : 0..Cols, row : Row, attr : Attributes, cells : [Row -> Lines]]
Papers == UNION {[0..n -> Lines] : n \in Nat}
Pages ==
    {p \in [line : Nat, col : 0..Cols, top : Nat, paper : Papers] :
        /\ p.line \in p.top..(p.top + Rows - 1)
        /\ p.paper \in [0..(p.top + Rows - 1) -> Lines]}

(* The screen shows the page. *)
Shows(t, p) == t.cells = Window(p) /\ t.row = p.line - p.top /\ t.col = p.col

(* A line with one more glyph on it. *)
Inked(L, c, ch, a) ==
    [L EXCEPT ![c].ink = IF ch = " " THEN @ ELSE Append(@, <<ch, a>>)]

LEMMA GridSize == Cols \in Nat /\ Rows \in Nat /\ Cols >= 1 /\ Rows >= 1
BY TextAssumption

LEMMA BlankLine ==
    ASSUME NEW a \in Attributes \cup {"boot"}
    PROVE  BlankRow(a) \in Lines /\ BlankScreen(a) \in [Row -> Lines]
<1>1. <<>> \in Seq(Printable \X Attributes)
    BY EmptySeq
<1>2. Blank(a) \in Cells
    BY <1>1 DEF Blank, Cells
<1>3. QED
    BY <1>2 DEF BlankRow, BlankScreen, Lines

LEMMA InkedType ==
    ASSUME NEW L \in Lines, NEW c \in Col, NEW ch \in Printable, NEW a \in Attributes
    PROVE  Inked(L, c, ch, a) \in Lines
<1>1. PICK k \in Cells : k = L[c]
    BY DEF Lines
<1>2. k.ink \in Seq(Printable \X Attributes) /\ <<ch, a>> \in Printable \X Attributes
    BY DEF Cells
<1>3. PICK i \in Seq(Printable \X Attributes) :
          i = IF ch = " " THEN k.ink ELSE Append(k.ink, <<ch, a>>)
    BY <1>2, AppendProperties
<1>4. [k EXCEPT !.ink = i] \in Cells
    BY DEF Cells
<1>5. Inked(L, c, ch, a) = [L EXCEPT ![c] = [k EXCEPT !.ink = i]]
    BY <1>1, <1>3 DEF Inked
<1>6. QED
    BY <1>4, <1>5 DEF Lines

LEMMA DrawnFields ==
    ASSUME NEW t \in Texts, t.col < Cols, NEW ch \in Printable
    PROVE  \E u \in Texts :
               /\ u = Drawn(t, ch) /\ u.col = t.col + 1 /\ u.row = t.row /\ u.attr = t.attr
               /\ u.cells = [t.cells EXCEPT ![t.row] = Inked(@, t.col, ch, t.attr)]
<1>1. /\ t.col \in Col /\ t.row \in Row /\ t.attr \in Attributes /\ t.cells \in [Row -> Lines]
      /\ t.col + 1 \in 0..Cols
    BY GridSize DEF Texts, Col
<1>2. PICK L \in Lines : L = Inked(t.cells[t.row], t.col, ch, t.attr)
    BY <1>1, InkedType
<1>3. PICK g \in [Row -> Lines] : g = [t.cells EXCEPT ![t.row] = L]
    BY <1>1
<1>4. Drawn(t, ch) = [t EXCEPT !.col = t.col + 1, !.cells = g]
    BY <1>1, <1>2, <1>3 DEF Drawn, Inked, Texts
<1>5. PICK u : u = Drawn(t, ch)
    OBVIOUS
<1>6. u \in Texts /\ u.col = t.col + 1 /\ u.row = t.row /\ u.attr = t.attr /\ u.cells = g
    BY <1>1, <1>4, <1>5 DEF Texts
<1>7. QED
    BY <1>2, <1>3, <1>5, <1>6

LEMMA NewlineFields ==
    ASSUME NEW t \in Texts
    PROVE  \E u \in Texts :
               /\ u = Newline(t) /\ u.col = 0 /\ u.attr = t.attr
               /\ u.row = IF t.row + 1 < Rows THEN t.row + 1 ELSE Rows - 1
               /\ u.cells = IF t.row + 1 < Rows THEN t.cells ELSE ScrollUp(t.cells, t.attr)
<1>1. /\ t.row \in Row /\ t.attr \in Attributes /\ t.cells \in [Row -> Lines]
      /\ 0 \in 0..Cols /\ Rows - 1 \in Row
    BY GridSize DEF Texts, Row
<1>2. ScrollUp(t.cells, t.attr) \in [Row -> Lines]
    BY <1>1, BlankLine DEF ScrollUp
<1>3. CASE t.row + 1 < Rows
    <2>1. t.row + 1 \in Row
        BY <1>1, <1>3, GridSize DEF Row
    <2>2. PICK u : u = [t EXCEPT !.col = 0, !.row = t.row + 1]
        OBVIOUS
    <2>3. u = Newline(t)
        BY <1>3, <2>2 DEF Newline
    <2>4. u \in Texts /\ u.col = 0 /\ u.row = t.row + 1 /\ u.attr = t.attr /\ u.cells = t.cells
        BY <1>1, <2>1, <2>2 DEF Texts
    <2>5. QED
        BY <1>3, <2>3, <2>4
<1>4. CASE ~(t.row + 1 < Rows)
    <2>1. PICK g \in [Row -> Lines] : g = ScrollUp(t.cells, t.attr)
        BY <1>2
    <2>2. PICK u : u = [t EXCEPT !.col = 0, !.row = Rows - 1, !.cells = g]
        OBVIOUS
    <2>3. u = Newline(t)
        BY <1>4, <2>1, <2>2 DEF Newline
    <2>4. u \in Texts /\ u.col = 0 /\ u.row = Rows - 1 /\ u.attr = t.attr /\ u.cells = g
        BY <1>1, <2>2 DEF Texts
    <2>5. QED
        BY <1>4, <2>1, <2>3, <2>4
<1>5. QED
    BY <1>3, <1>4

LEMMA MarkedFields ==
    ASSUME NEW p \in Pages, p.col < Cols, NEW ch \in Printable, NEW a \in Attributes
    PROVE  \E q \in Pages :
               /\ q = Marked(p, ch, a) /\ q.col = p.col + 1 /\ q.line = p.line /\ q.top = p.top
               /\ q.paper = [p.paper EXCEPT ![p.line] = Inked(@, p.col, ch, a)]
<1>1. /\ p \in [line : Nat, col : 0..Cols, top : Nat, paper : Papers]
      /\ p.line \in p.top..(p.top + Rows - 1)
      /\ p.paper \in [0..(p.top + Rows - 1) -> Lines]
    BY DEF Pages
<1>2. /\ p.col \in Col /\ p.line \in Nat /\ p.top \in Nat /\ p.col + 1 \in 0..Cols
      /\ p.line \in 0..(p.top + Rows - 1) /\ p.top + Rows - 1 \in Nat
    BY <1>1, GridSize DEF Col
<1>3. PICK L \in Lines : L = Inked(p.paper[p.line], p.col, ch, a)
    BY <1>1, <1>2, InkedType
<1>4. PICK g \in [0..(p.top + Rows - 1) -> Lines] : g = [p.paper EXCEPT ![p.line] = L]
    BY <1>1, <1>2
<1>5. g \in Papers
    BY <1>2 DEF Papers
<1>6. Marked(p, ch, a) = [p EXCEPT !.col = p.col + 1, !.paper = g]
    BY <1>1, <1>2, <1>3, <1>4 DEF Marked, Inked
<1>7. PICK q : q = Marked(p, ch, a)
    OBVIOUS
<1>8. /\ q \in [line : Nat, col : 0..Cols, top : Nat, paper : Papers]
      /\ q.col = p.col + 1 /\ q.line = p.line /\ q.top = p.top /\ q.paper = g
    BY <1>1, <1>2, <1>5, <1>6, <1>7
<1>9. q \in Pages
    BY <1>1, <1>8 DEF Pages
<1>10. QED
    BY <1>3, <1>4, <1>7, <1>8, <1>9

LEMMA NextLineFields ==
    ASSUME NEW p \in Pages, NEW a \in Attributes
    PROVE  \E q \in Pages :
               /\ q = NextLine(p, a) /\ q.col = 0 /\ q.line = p.line + 1
               /\ q.top = IF p.line + 1 < p.top + Rows THEN p.top ELSE p.top + 1
               /\ \A l \in 0..(p.top + Rows - 1) : q.paper[l] = p.paper[l]
               /\ p.line + 1 >= p.top + Rows => q.paper[p.top + Rows] = BlankRow(a)
<1>1. /\ p \in [line : Nat, col : 0..Cols, top : Nat, paper : Papers]
      /\ p.line \in p.top..(p.top + Rows - 1)
      /\ p.paper \in [0..(p.top + Rows - 1) -> Lines]
    BY DEF Pages
<1>2. PICK n \in Nat, T \in Nat, B \in Nat : n = p.line + 1 /\ T = p.top /\ B = p.top + Rows - 1
    BY <1>1, GridSize
<1>3. BlankRow(a) \in Lines /\ DOMAIN p.paper = 0..B /\ 0 \in 0..Cols
    BY <1>1, <1>2, BlankLine, GridSize
<1>4. PICK g : g = [l \in 0..B \cup {n} |-> IF l \in 0..B THEN p.paper[l] ELSE BlankRow(a)]
    OBVIOUS
<1>5. PICK T1 : T1 = IF n < T + Rows THEN T ELSE n - Rows + 1
    OBVIOUS
<1>6. PICK q : q = [p EXCEPT !.line = n, !.col = 0, !.top = T1, !.paper = g]
    OBVIOUS
<1>7. q = NextLine(p, a)
    BY <1>1, <1>2, <1>3, <1>4, <1>5, <1>6 DEF NextLine
<1>8. /\ T1 \in Nat /\ n \in T1..(T1 + Rows - 1) /\ 0..B \cup {n} = 0..(T1 + Rows - 1)
      /\ T1 = IF n < T + Rows THEN T ELSE T + 1
      /\ T1 + Rows - 1 \in Nat
    <2>1. B = T + Rows - 1 /\ n \in Nat /\ n <= T + Rows /\ n >= T + 1
        BY <1>1, <1>2, GridSize
    <2>2. CASE n < T + Rows
        <3>1. T1 = T /\ n \in 0..B /\ n \in T..(T + Rows - 1)
            BY <1>5, <2>1, <2>2, GridSize
        <3>2. QED
            BY <2>1, <2>2, <3>1
    <2>3. CASE ~(n < T + Rows)
        <3>1. n = T + Rows /\ T1 = T + 1 /\ n = B + 1 /\ T1 + Rows - 1 = B + 1
            BY <1>5, <2>1, <2>3, GridSize
        <3>2. 0..B \cup {n} = 0..(B + 1)
            BY <3>1
        <3>3. T1 \in Nat /\ n \in T1..(B + 1) /\ B + 1 \in Nat
            BY <3>1, GridSize
        <3>4. QED
            BY <2>3, <3>1, <3>2, <3>3
    <2>4. QED
        BY <2>2, <2>3
<1>9. g \in [0..(T1 + Rows - 1) -> Lines]
    BY <1>1, <1>2, <1>3, <1>4, <1>8
<1>10. g \in Papers
    BY <1>8, <1>9 DEF Papers
<1>11. /\ q \in [line : Nat, col : 0..Cols, top : Nat, paper : Papers]
       /\ q.line = n /\ q.col = 0 /\ q.top = T1 /\ q.paper = g
    BY <1>1, <1>3, <1>6, <1>8, <1>10
<1>12. q \in Pages
    BY <1>8, <1>9, <1>11 DEF Pages
<1>13. \A l \in 0..B : g[l] = p.paper[l]
    BY <1>4
<1>14. n >= T + Rows => g[T + Rows] = BlankRow(a)
    <2>1. ASSUME n >= T + Rows PROVE n = T + Rows /\ n \notin 0..B
        <3>1. p.line \in Nat /\ p.line <= T + Rows - 1 /\ B = T + Rows - 1
            BY <1>1, <1>2, GridSize
        <3>2. n = p.line + 1
            BY <1>2
        <3>3. QED
            BY <2>1, <3>1, <3>2, GridSize
    <2>2. QED
        BY <1>4, <2>1
<1>15. QED
    BY <1>2, <1>7, <1>8, <1>11, <1>12, <1>13, <1>14


(* A glyph drawn on the screen is the glyph written on the page. *)
LEMMA ShowsGlyph ==
    ASSUME NEW t \in Texts, NEW p \in Pages, Shows(t, p), t.col < Cols, NEW ch \in Printable
    PROVE  Shows(Drawn(t, ch), Marked(p, ch, t.attr))
<1>1. PICK u \in Texts :
          /\ u = Drawn(t, ch) /\ u.col = t.col + 1 /\ u.row = t.row /\ u.attr = t.attr
          /\ u.cells = [t.cells EXCEPT ![t.row] = Inked(@, t.col, ch, t.attr)]
    BY DrawnFields
<1>2. t.attr \in Attributes /\ t.row \in Row /\ t.cells \in [Row -> Lines] /\ p.col < Cols
    BY DEF Texts, Shows
<1>3. PICK q \in Pages :
          /\ q = Marked(p, ch, t.attr) /\ q.col = p.col + 1 /\ q.line = p.line /\ q.top = p.top
          /\ q.paper = [p.paper EXCEPT ![p.line] = Inked(@, p.col, ch, t.attr)]
    BY <1>2, MarkedFields
<1>4. /\ p.top \in Nat /\ p.line \in Nat /\ p.line \in p.top..(p.top + Rows - 1)
      /\ p.paper \in [0..(p.top + Rows - 1) -> Lines]
    BY DEF Pages
<1>5. t.cells = Window(p) /\ t.row = p.line - p.top /\ t.col = p.col
    BY DEF Shows
<1>6. ASSUME NEW r \in Row PROVE u.cells[r] = q.paper[q.top + r]
    <2>1. /\ r \in Nat /\ p.top + r \in 0..(p.top + Rows - 1)
          /\ p.top + t.row = p.line /\ t.row \in Nat
        BY <1>2, <1>4, <1>5, GridSize DEF Row
    <2>2. t.cells[r] = p.paper[p.top + r]
        BY <1>5 DEF Window
    <2>3. CASE r = t.row
        <3>1. u.cells[r] = Inked(t.cells[r], t.col, ch, t.attr)
            BY <1>1, <1>2, <2>3
        <3>2. p.top + r = p.line /\ p.line \in DOMAIN p.paper
            BY <1>4, <2>1, <2>3
        <3>3. q.paper[p.line] = Inked(p.paper[p.line], p.col, ch, t.attr)
            BY <1>3, <3>2
        <3>4. QED
            BY <1>3, <1>5, <2>2, <3>1, <3>2, <3>3
    <2>4. CASE r # t.row
        <3>1. p.top + r # p.line
            BY <1>4, <2>1, <2>4
        <3>2. q.paper[p.top + r] = p.paper[p.top + r]
            BY <1>3, <1>4, <2>1, <3>1
        <3>3. u.cells[r] = t.cells[r]
            BY <1>1, <1>2, <2>4
        <3>4. QED
            BY <1>3, <2>2, <3>2, <3>3
    <2>5. QED
        BY <2>3, <2>4
<1>7. u.cells = Window(q)
    <2>1. u.cells \in [Row -> Lines]
        BY DEF Texts
    <2>2. QED
        BY <1>6, <2>1 DEF Window
<1>8. QED
    BY <1>1, <1>3, <1>5, <1>7 DEF Shows

(* A newline moves the cursor on the page, and the window when it was on   *)
(* the last row.                                                           *)
LEMMA ShowsNewline ==
    ASSUME NEW t \in Texts, NEW p \in Pages, Shows(t, p)
    PROVE  Shows(Newline(t), NextLine(p, t.attr))
<1>1. PICK u \in Texts :
          /\ u = Newline(t) /\ u.col = 0 /\ u.attr = t.attr
          /\ u.row = IF t.row + 1 < Rows THEN t.row + 1 ELSE Rows - 1
          /\ u.cells = IF t.row + 1 < Rows THEN t.cells ELSE ScrollUp(t.cells, t.attr)
    BY NewlineFields
<1>2. t.attr \in Attributes /\ t.row \in Row /\ t.cells \in [Row -> Lines]
    BY DEF Texts
<1>3. PICK q \in Pages :
          /\ q = NextLine(p, t.attr) /\ q.col = 0 /\ q.line = p.line + 1
          /\ q.top = IF p.line + 1 < p.top + Rows THEN p.top ELSE p.top + 1
          /\ \A l \in 0..(p.top + Rows - 1) : q.paper[l] = p.paper[l]
          /\ p.line + 1 >= p.top + Rows => q.paper[p.top + Rows] = BlankRow(t.attr)
    BY <1>2, NextLineFields
<1>4. p.top \in Nat /\ p.line \in Nat /\ p.line \in p.top..(p.top + Rows - 1)
    BY DEF Pages
<1>5. t.cells = Window(p) /\ t.row = p.line - p.top /\ t.col = p.col
    BY DEF Shows
<1>6. \A r \in Row : /\ r \in Nat /\ p.top + r \in 0..(p.top + Rows - 1)
                     /\ t.cells[r] = p.paper[p.top + r]
    BY <1>4, <1>5, GridSize DEF Row, Window
<1>7. u.cells \in [Row -> Lines]
    BY DEF Texts
<1>8. CASE t.row + 1 < Rows
    <2>1. q.top = p.top /\ u.row = q.line - q.top
        BY <1>1, <1>3, <1>4, <1>5, <1>8, GridSize
    <2>2. \A r \in Row : u.cells[r] = q.paper[q.top + r]
        BY <1>1, <1>3, <1>6, <1>8, <2>1
    <2>3. u.cells = Window(q)
        BY <1>7, <2>2 DEF Window
    <2>4. QED
        BY <1>1, <1>3, <2>1, <2>3 DEF Shows
<1>9. CASE ~(t.row + 1 < Rows)
    <2>1. /\ q.top = p.top + 1 /\ p.line + 1 = p.top + Rows /\ u.row = Rows - 1
          /\ u.row = q.line - q.top
        BY <1>1, <1>3, <1>4, <1>5, <1>9, GridSize
    <2>2. ASSUME NEW r \in Row PROVE u.cells[r] = q.paper[q.top + r]
        <3>1. u.cells[r] = IF r + 1 \in Row THEN t.cells[r + 1] ELSE BlankRow(t.attr)
            BY <1>1, <1>9 DEF ScrollUp
        <3>2. CASE r + 1 \in Row
            <4>1. p.top + (r + 1) = q.top + r
                BY <1>4, <1>6, <2>1
            <4>2. QED
                BY <1>3, <1>6, <3>1, <3>2, <4>1
        <3>3. CASE r + 1 \notin Row
            <4>1. q.top + r = p.top + Rows
                BY <1>4, <2>1, <3>3, GridSize DEF Row
            <4>2. q.paper[p.top + Rows] = BlankRow(t.attr)
                BY <1>3, <1>4, <2>1, GridSize
            <4>3. QED
                BY <3>1, <3>3, <4>1, <4>2
        <3>4. QED
            BY <3>2, <3>3
    <2>3. u.cells = Window(q)
        BY <1>7, <2>2 DEF Window
    <2>4. QED
        BY <1>1, <1>3, <2>1, <2>3 DEF Shows
<1>10. QED
    BY <1>8, <1>9

(* The arms of output_string's match do not overlap. *)
LEMMA OutputArm ==
    ASSUME NEW t, NEW ch
    PROVE  /\ ch = "CR" => Output(t, ch) = [t EXCEPT !.col = 0]
           /\ ch = "LF" => Output(t, ch) = Newline(t)
           /\ ch = "BS" => Output(t, ch) = [t EXCEPT !.col = IF @ > 0 THEN @ - 1 ELSE 0]
           /\ ch \in Printable => Output(t, ch) = Drawn(IF t.col >= Cols THEN Newline(t) ELSE t, ch)
<1>1. "CR" \notin Printable /\ "LF" \notin Printable /\ "BS" \notin Printable
    BY TextAssumption
<1>2. "CR" # "LF" /\ "CR" # "BS" /\ "LF" # "BS"
    OBVIOUS
<1>3. CASE ch = "CR"
    BY <1>1, <1>2, <1>3, Zenon DEF Output
<1>4. CASE ch = "LF"
    BY <1>1, <1>2, <1>4, Zenon DEF Output
<1>5. CASE ch = "BS"
    BY <1>1, <1>2, <1>5, Zenon DEF Output
<1>6. CASE ch \in Printable
    BY <1>1, <1>2, <1>6, Zenon DEF Output, PutChar
<1>7. QED
    BY <1>3, <1>4, <1>5, <1>6, Zenon

LEMMA TypedArm ==
    ASSUME NEW p, NEW ch, NEW a
    PROVE  /\ ch = "CR" => Typed(p, ch, a) = [p EXCEPT !.col = 0]
           /\ ch = "LF" => Typed(p, ch, a) = NextLine(p, a)
           /\ ch = "BS" => Typed(p, ch, a) = [p EXCEPT !.col = IF @ = 0 THEN 0 ELSE @ - 1]
           /\ ch \in Printable =>
                 Typed(p, ch, a) = Marked(IF p.col = Cols THEN NextLine(p, a) ELSE p, ch, a)
<1>1. "CR" \notin Printable /\ "LF" \notin Printable /\ "BS" \notin Printable
    BY TextAssumption
<1>2. "CR" # "LF" /\ "CR" # "BS" /\ "LF" # "BS"
    OBVIOUS
<1>3. CASE ch = "CR"
    BY <1>1, <1>2, <1>3, Zenon DEF Typed
<1>4. CASE ch = "LF"
    BY <1>1, <1>2, <1>4, Zenon DEF Typed
<1>5. CASE ch = "BS"
    BY <1>1, <1>2, <1>5, Zenon DEF Typed
<1>6. CASE ch \in Printable
    BY <1>1, <1>2, <1>6, Zenon DEF Typed
<1>7. QED
    BY <1>3, <1>4, <1>5, <1>6, Zenon

LEMMA OutputType ==
    ASSUME NEW t \in Texts, NEW ch
    PROVE  Output(t, ch) \in Texts /\ Output(t, ch).attr = t.attr
<1>0. t.col \in 0..Cols /\ Cols \in Nat
    BY GridSize DEF Texts
<1>1. CASE ch = "CR"
    BY <1>0, <1>1, OutputArm DEF Texts
<1>2. CASE ch = "LF"
    BY <1>2, NewlineFields, OutputArm
<1>3. CASE ch = "BS"
    <2>1. PICK c \in 0..Cols : c = IF t.col > 0 THEN t.col - 1 ELSE 0
        BY <1>0
    <2>2. Output(t, ch) = [t EXCEPT !.col = c]
        BY <1>3, <2>1, OutputArm
    <2>3. QED
        BY <2>2 DEF Texts
<1>4. CASE ch \in Printable
    <2>2. PICK u \in Texts : u = (IF t.col >= Cols THEN Newline(t) ELSE t) /\ u.col < Cols /\ u.attr = t.attr
        BY <1>0, NewlineFields, GridSize
    <2>3. Output(t, ch) = Drawn(u, ch)
        BY <1>4, <2>2, OutputArm, Zenon
    <2>4. QED
        <3>1. PICK v \in Texts : v = Drawn(u, ch) /\ v.attr = u.attr
            BY <1>4, <2>2, DrawnFields
        <3>2. QED
            BY <2>2, <2>3, <3>1
<1>5. CASE ch \notin {"CR", "LF", "BS"} \cup Printable
    BY <1>5 DEF Output
<1>6. QED
    BY <1>1, <1>2, <1>3, <1>4, <1>5

LEMMA TypedType ==
    ASSUME NEW p \in Pages, NEW ch, NEW a \in Attributes
    PROVE  Typed(p, ch, a) \in Pages
<1>0. p.col \in 0..Cols /\ Cols \in Nat /\ Cols >= 1
    BY GridSize DEF Pages
<1>c. ASSUME NEW c \in 0..Cols PROVE [p EXCEPT !.col = c] \in Pages
    BY DEF Pages
<1>1. CASE ch = "CR"
    <2>1. 0 \in 0..Cols /\ Typed(p, ch, a) = [p EXCEPT !.col = 0]
        BY <1>0, <1>1, TypedArm
    <2>2. QED
        BY <1>c, <2>1
<1>2. CASE ch = "LF"
    BY <1>2, NextLineFields, TypedArm
<1>3. CASE ch = "BS"
    <2>1. PICK c \in 0..Cols : c = IF p.col = 0 THEN 0 ELSE p.col - 1
        BY <1>0
    <2>2. Typed(p, ch, a) = [p EXCEPT !.col = c]
        BY <1>3, <2>1, TypedArm
    <2>3. QED
        BY <1>c, <2>2
<1>4. CASE ch \in Printable
    <2>2. PICK q \in Pages : q = (IF p.col = Cols THEN NextLine(p, a) ELSE p) /\ q.col < Cols
        BY <1>0, NextLineFields
    <2>3. Typed(p, ch, a) = Marked(q, ch, a)
        <3>1. Typed(p, ch, a) = Marked(IF p.col = Cols THEN NextLine(p, a) ELSE p, ch, a)
            BY <1>4, TypedArm
        <3>2. QED
            BY <2>2, <3>1
    <2>4. QED
        <3>1. PICK r \in Pages : r = Marked(q, ch, a)
            <4>1. q \in Pages /\ q.col < Cols
                BY <2>2
            <4>2. QED
                BY ONLY <1>4, <4>1, MarkedFields, a \in Attributes
        <3>2. QED
            BY <2>3, <3>1
<1>5. CASE ch \notin {"CR", "LF", "BS"} \cup Printable
    BY <1>5 DEF Typed
<1>6. QED
    BY <1>1, <1>2, <1>3, <1>4, <1>5

(* One character: the screen still shows the page. *)
LEMMA ShowsOutput ==
    ASSUME NEW t \in Texts, NEW p \in Pages, Shows(t, p), NEW ch
    PROVE  Shows(Output(t, ch), Typed(p, ch, t.attr))
<1>0. t.col \in 0..Cols /\ Cols \in Nat /\ Cols >= 1 /\ p.col = t.col /\ t.attr \in Attributes
    BY GridSize DEF Texts, Shows
<1>c. ASSUME NEW c \in 0..Cols PROVE Shows([t EXCEPT !.col = c], [p EXCEPT !.col = c])
    BY DEF Shows, Window, Texts, Pages
<1>1. CASE ch = "CR"
    <2>1. 0 \in 0..Cols /\ Output(t, ch) = [t EXCEPT !.col = 0]
          /\ Typed(p, ch, t.attr) = [p EXCEPT !.col = 0]
        BY <1>0, <1>1, OutputArm, TypedArm
    <2>2. QED
        BY <1>c, <2>1
<1>2. CASE ch = "LF"
    BY <1>2, ShowsNewline, OutputArm, TypedArm
<1>3. CASE ch = "BS"
    <2>1. PICK c \in 0..Cols : c = IF t.col > 0 THEN t.col - 1 ELSE 0
        BY <1>0
    <2>2. Output(t, ch) = [t EXCEPT !.col = c]
        BY <1>3, <2>1, OutputArm, TypedArm
    <2>3. c = IF p.col = 0 THEN 0 ELSE p.col - 1
        BY <1>0, <2>1
    <2>4. Typed(p, ch, t.attr) = [p EXCEPT !.col = c]
        BY <1>3, <2>3, OutputArm, TypedArm
    <2>5. QED
        BY <1>c, <2>2, <2>4
<1>4. CASE ch \in Printable
    <2>2. PICK u \in Texts : u = (IF t.col >= Cols THEN Newline(t) ELSE t) /\ u.col < Cols /\ u.attr = t.attr
        BY <1>0, NewlineFields
    <2>3. PICK q \in Pages : q = IF p.col = Cols THEN NextLine(p, t.attr) ELSE p
        BY <1>0, NextLineFields
    <2>4. Shows(u, q)
        <3>1. CASE t.col >= Cols
            BY <1>0, <2>2, <2>3, <3>1, ShowsNewline
        <3>2. CASE ~(t.col >= Cols)
            BY <1>0, <2>2, <2>3, <3>2
        <3>3. QED
            BY <3>1, <3>2
    <2>5. Output(t, ch) = Drawn(u, ch) /\ Typed(p, ch, t.attr) = Marked(q, ch, u.attr)
        <3>1. Output(t, ch) = Drawn(u, ch)
            BY <1>4, <2>2, OutputArm, Zenon
        <3>2. Typed(p, ch, t.attr) = Marked(q, ch, t.attr)
            <4>1. Typed(p, ch, t.attr)
                      = Marked(IF p.col = Cols THEN NextLine(p, t.attr) ELSE p, ch, t.attr)
                BY <1>4, TypedArm
            <4>2. QED
                BY <2>3, <4>1
        <3>3. QED
            BY <2>2, <3>1, <3>2, Zenon
    <2>6. QED
        BY <1>4, <2>2, <2>4, <2>5, ShowsGlyph
<1>5. CASE ch \notin {"CR", "LF", "BS"} \cup Printable
    BY <1>5 DEF Output, Typed
<1>6. QED
    BY <1>1, <1>2, <1>3, <1>4, <1>5


(* output_string's loop, and the page's, character by character. *)
Prints(g, t, s) ==
    g[0] = t /\ \A n \in 1..Len(s) : g[n] = Output(g[n - 1], s[n])

PrintStep(s) == [n \in 1..Len(s) |-> [x \in Texts |-> Output(x, s[n])]]

LEMMA PrintedRuns ==
    ASSUME NEW t \in Texts, NEW s, Len(s) \in Nat
    PROVE  \E g \in [0..Len(s) -> Texts] : Prints(g, t, s) /\ Printed(t, s) = g[Len(s)]
<1>0. PICK N \in Nat : N = Len(s)
    OBVIOUS
<1>1. \A n \in 1..N, x \in Texts : Output(x, s[n]) \in Texts
    BY OutputType
<1>2. Steps(PrintStep(s), N, Texts)
    BY <1>0, <1>1 DEF Steps, PrintStep
<1>3. PICK g : Run(g, t, PrintStep(s), N, Texts)
    BY <1>2, Iterates
<1>4. g \in [0..N -> Texts] /\ g[0] = t
    BY <1>3 DEF Run
<1>5. \A n \in 1..N : g[n] = Output(g[n - 1], s[n])
    <2> SUFFICES ASSUME NEW n \in 1..N PROVE g[n] = Output(g[n - 1], s[n])
        OBVIOUS
    <2>1. n - 1 \in 0..N
        OBVIOUS
    <2>2. g[n - 1] \in Texts /\ g[n] = PrintStep(s)[n][g[n - 1]]
        BY <1>3, <2>1 DEF Run
    <2>3. QED
        BY <1>0, <2>2 DEF PrintStep
<1> DEFINE Body(f) == [n \in 0..Len(s) |-> IF n = 0 THEN t ELSE Output(f[n - 1], s[n])]
           Out == CHOOSE f : f = Body(f)
<1>6. g = Body(g)
    <2>1. ASSUME NEW n \in 0..N PROVE g[n] = Body(g)[n]
        <3>1. CASE n = 0
            BY <1>0, <1>4, <3>1
        <3>2. CASE n # 0
            <4>1. n \in 1..N
                BY <3>2
            <4>2. QED
                BY <1>0, <1>5, <3>2, <4>1
        <3>3. QED
            BY <3>1, <3>2
    <2>2. DOMAIN g = 0..N /\ g = [n \in 0..N |-> g[n]]
        BY <1>4
    <2>3. QED
        BY <1>0, <2>1, <2>2
<1>7. Out = Body(Out)
    BY <1>6
<1>8. Printed(t, s) = Out[Len(s)]
    BY DEF Printed
<1> HIDE DEF Out
<1>9. \A n \in 0..N : Out[n] = g[n]
    <2> DEFINE P == {n \in 0..N : Out[n] = g[n]}
    <2>1. 0 \in P
        BY <1>0, <1>6, <1>7
    <2>2. ASSUME NEW n \in 0..N - 1, n \in P PROVE n + 1 \in P
        <3>1. n + 1 \in 0..N /\ n + 1 # 0 /\ (n + 1) - 1 = n
            OBVIOUS
        <3>2. /\ Out[n + 1] = Output(Out[n], s[n + 1])
              /\ g[n + 1] = Output(g[n], s[n + 1])
            BY <1>0, <1>6, <1>7, <3>1
        <3>3. QED
            BY <2>2, <3>1, <3>2
    <2> HIDE DEF P
    <2>3. \A n \in 0..N : n \in P
        BY <2>1, <2>2, UpTo
    <2>4. QED
        BY <2>3 DEF P
<1>10. QED
    BY <1>0, <1>4, <1>5, <1>8, <1>9 DEF Prints

Writing(g, p, s, a) ==
    g[0] = p /\ \A n \in 1..Len(s) : g[n] = Typed(g[n - 1], s[n], a)

WriteStep(s, a) == [n \in 1..Len(s) |-> [x \in Pages |-> Typed(x, s[n], a)]]

LEMMA WrittenRuns ==
    ASSUME NEW p \in Pages, NEW a \in Attributes, NEW s, Len(s) \in Nat
    PROVE  \E g \in [0..Len(s) -> Pages] : Writing(g, p, s, a) /\ Written(p, s, a) = g[Len(s)]
<1>0. PICK N \in Nat : N = Len(s)
    OBVIOUS
<1>1. \A n \in 1..N, x \in Pages : Typed(x, s[n], a) \in Pages
    BY TypedType
<1>2. Steps(WriteStep(s, a), N, Pages)
    BY <1>0, <1>1 DEF Steps, WriteStep
<1>3. PICK g : Run(g, p, WriteStep(s, a), N, Pages)
    BY <1>2, Iterates
<1>4. g \in [0..N -> Pages] /\ g[0] = p
    BY <1>3 DEF Run
<1>5. \A n \in 1..N : g[n] = Typed(g[n - 1], s[n], a)
    <2> SUFFICES ASSUME NEW n \in 1..N PROVE g[n] = Typed(g[n - 1], s[n], a)
        OBVIOUS
    <2>1. n - 1 \in 0..N
        OBVIOUS
    <2>2. g[n - 1] \in Pages /\ g[n] = WriteStep(s, a)[n][g[n - 1]]
        BY <1>3, <2>1 DEF Run
    <2>3. QED
        BY <1>0, <2>2 DEF WriteStep
<1> DEFINE Body(f) == [n \in 0..Len(s) |-> IF n = 0 THEN p ELSE Typed(f[n - 1], s[n], a)]
           Line == CHOOSE f : f = Body(f)
<1>6. g = Body(g)
    <2>1. ASSUME NEW n \in 0..N PROVE g[n] = Body(g)[n]
        <3>1. CASE n = 0
            BY <1>0, <1>4, <3>1
        <3>2. CASE n # 0
            <4>1. n \in 1..N
                BY <3>2
            <4>2. QED
                BY <1>0, <1>5, <3>2, <4>1
        <3>3. QED
            BY <3>1, <3>2
    <2>2. DOMAIN g = 0..N /\ g = [n \in 0..N |-> g[n]]
        BY <1>4
    <2>3. QED
        BY <1>0, <2>1, <2>2
<1>7. Line = Body(Line)
    BY <1>6
<1>8. Written(p, s, a) = Line[Len(s)]
    BY DEF Written
<1> HIDE DEF Line
<1>9. \A n \in 0..N : Line[n] = g[n]
    <2> DEFINE P == {n \in 0..N : Line[n] = g[n]}
    <2>1. 0 \in P
        BY <1>0, <1>6, <1>7
    <2>2. ASSUME NEW n \in 0..N - 1, n \in P PROVE n + 1 \in P
        <3>1. n + 1 \in 0..N /\ n + 1 # 0 /\ (n + 1) - 1 = n
            OBVIOUS
        <3>2. /\ Line[n + 1] = Typed(Line[n], s[n + 1], a)
              /\ g[n + 1] = Typed(g[n], s[n + 1], a)
            BY <1>0, <1>6, <1>7, <3>1
        <3>3. QED
            BY <2>2, <3>1, <3>2
    <2> HIDE DEF P
    <2>3. \A n \in 0..N : n \in P
        BY <2>1, <2>2, UpTo
    <2>4. QED
        BY <2>3 DEF P
<1>10. QED
    BY <1>0, <1>4, <1>5, <1>8, <1>9 DEF Writing

(* A string: the screen shows the page before, so it does after. *)
LEMMA ShowsString ==
    ASSUME NEW t \in Texts, NEW p \in Pages, Shows(t, p), NEW s, Len(s) \in Nat
    PROVE  /\ Printed(t, s) \in Texts /\ Printed(t, s).attr = t.attr
           /\ Written(p, s, t.attr) \in Pages /\ Shows(Printed(t, s), Written(p, s, t.attr))
<1>0. PICK N \in Nat : N = Len(s)
    OBVIOUS
<1>1. PICK a \in Attributes : a = t.attr
    BY DEF Texts
<1>2. PICK g \in [0..Len(s) -> Texts] : Prints(g, t, s) /\ Printed(t, s) = g[Len(s)]
    BY PrintedRuns
<1>3. PICK h \in [0..Len(s) -> Pages] : Writing(h, p, s, a) /\ Written(p, s, a) = h[Len(s)]
    BY WrittenRuns
<1> DEFINE P == {n \in 0..N : g[n].attr = a /\ Shows(g[n], h[n])}
<1>4. 0 \in P
    BY <1>1, <1>2, <1>3 DEF Prints, Writing
<1>5. ASSUME NEW n \in 0..N - 1, n \in P PROVE n + 1 \in P
    <2>1. n + 1 \in 1..N /\ (n + 1) - 1 = n /\ n \in 0..N /\ n + 1 \in 0..N
        OBVIOUS
    <2>2. PICK u \in Texts, q \in Pages : u = g[n] /\ q = h[n]
        BY <1>0, <2>1
    <2>3. u.attr = a /\ Shows(u, q)
        BY <1>5, <2>2
    <2>4. g[n + 1] = Output(u, s[n + 1]) /\ h[n + 1] = Typed(q, s[n + 1], a)
        BY <1>0, <1>2, <1>3, <2>1, <2>2 DEF Prints, Writing
    <2>5. Output(u, s[n + 1]).attr = a
        BY <2>3, OutputType
    <2>6. Shows(Output(u, s[n + 1]), Typed(q, s[n + 1], a))
        BY <2>3, ShowsOutput
    <2>7. QED
        BY <2>1, <2>4, <2>5, <2>6
<1> HIDE DEF P
<1>6. N \in P
    <2>1. \A n \in 0..N : n \in P
        BY <1>4, <1>5, UpTo
    <2>2. QED
        BY <2>1
<1>7. QED
    BY <1>0, <1>1, <1>2, <1>3, <1>6 DEF P


-----------------------------------------------------------------------------
Modes == [col : 0..Cols, row : Row, attr : Attributes, visible : BOOLEAN]

ModeMatches == mode.col = text.col /\ mode.row = text.row /\ mode.attr = text.attr

ScreenInv ==
    /\ text \in Texts /\ page \in Pages /\ mode \in Modes /\ spoke \in BOOLEAN
    /\ Shows(text, page)
    /\ shown = text.cells
    /\ spoke => ModeMatches

LEMMA SyncMatches ==
    ASSUME NEW m \in Modes, NEW t \in Texts
    PROVE  /\ Synced(m, t) \in Modes
           /\ Synced(m, t).col = t.col /\ Synced(m, t).row = t.row /\ Synced(m, t).attr = t.attr
<1>1. t.col \in 0..Cols /\ t.row \in Row /\ t.attr \in Attributes
    BY DEF Texts
<1>2. QED
    BY <1>1 DEF Synced, Modes

(* A blank screen shows a blank page. *)
LEMMA BlankShows ==
    ASSUME NEW a \in Attributes \cup {"boot"}, NEW t \in Texts,
           t.col = 0, t.row = 0, t.cells = BlankScreen(a)
    PROVE  NewPage(a) \in Pages /\ Shows(t, NewPage(a))
<1>1. PICK p : p = NewPage(a)
    OBVIOUS
<1>2. p.line = 0 /\ p.col = 0 /\ p.top = 0 /\ p.paper = BlankScreen(a)
    BY <1>1 DEF NewPage
<1>3. Row = 0..(Rows - 1) /\ Rows - 1 \in Nat /\ 0 + Rows - 1 = Rows - 1 /\ 0 \in 0..Cols
    BY GridSize DEF Row
<1>4. p.paper \in [0..(Rows - 1) -> Lines]
    BY <1>2, <1>3, BlankLine
<1>5. p.paper \in Papers
    BY <1>3, <1>4 DEF Papers
<1>6. p \in [line : Nat, col : 0..Cols, top : Nat, paper : Papers]
    BY <1>1, <1>2, <1>3, <1>5 DEF NewPage
<1>7. p \in Pages
    BY <1>2, <1>3, <1>4, <1>6 DEF Pages
<1>8. Window(p) = BlankScreen(a)
    BY <1>2, <1>3 DEF Window, BlankScreen
<1>9. QED
    BY <1>1, <1>2, <1>7, <1>8 DEF Shows

LEMMA BootScreen ==
    ASSUME NEW t, t = [col |-> 0, row |-> 0, attr |-> DefaultAttr, cells |-> BlankScreen("boot")]
    PROVE  t \in Texts /\ NewPage("boot") \in Pages /\ Shows(t, NewPage("boot"))
<1>1. DefaultAttr \in Attributes /\ 0 \in 0..Cols /\ 0 \in Row
    BY TextAssumption, GridSize DEF Row
<1>2. t \in Texts
    BY <1>1, BlankLine DEF Texts
<1>3. t.col = 0 /\ t.row = 0 /\ t.cells = BlankScreen("boot")
    OBVIOUS
<1>4. QED
    BY <1>2, <1>3, BlankShows

LEMMA StartKeepsScreen ==
    ASSUME ScreenInv, TextStart, spoke' = FALSE
    PROVE  ScreenInv'
<1>1. /\ text' = [col |-> 0, row |-> 0, attr |-> DefaultAttr, cells |-> BlankScreen("boot")]
      /\ shown' = text'.cells /\ page' = NewPage("boot") /\ mode' = mode
    BY DEF TextStart
<1>2. text' \in Texts /\ page' \in Pages /\ Shows(text', page')
    BY <1>1, BootScreen
<1>3. QED
    BY <1>1, <1>2 DEF ScreenInv, Shows, Window

(* A call that ends in sync_mode: Mode matches afterwards whatever it was. *)
LEMMA SyncKeepsScreen ==
    ASSUME ScreenInv, text' \in Texts, page' \in Pages, Shows(text, page)',
           shown' = text'.cells, mode' = Synced(mode, text'), spoke' \in BOOLEAN
    PROVE  ScreenInv'
<1>1. mode \in Modes
    BY DEF ScreenInv
<1>2. PICK t \in Texts : t = text'
    OBVIOUS
<1>3. /\ Synced(mode, t) \in Modes
      /\ Synced(mode, t).col = t.col /\ Synced(mode, t).row = t.row /\ Synced(mode, t).attr = t.attr
    BY <1>1, SyncMatches
<1>4. mode' \in Modes /\ ModeMatches'
    BY <1>2, <1>3 DEF ModeMatches
<1>5. QED
    BY <1>4 DEF ScreenInv

LEMMA WritesKeepScreen ==
    ASSUME ScreenInv, Writes
    PROVE  ScreenInv'
<1>0. /\ text \in Texts /\ page \in Pages /\ mode \in Modes /\ spoke \in BOOLEAN
      /\ Shows(text, page) /\ shown = text.cells
    BY DEF ScreenInv
<1>1. ASSUME NEW s \in Strings, Call(TRUE), OutputString(s) PROVE ScreenInv'
    <2>1. Len(s) \in Nat
        BY ConsoleAssumption
    <2>2. /\ text' = Printed(text, s) /\ mode' = Synced(mode, text')
          /\ shown' = text'.cells /\ page' = Written(page, s, text.attr)
        BY <1>1 DEF OutputString
    <2>3. text' \in Texts /\ page' \in Pages /\ Shows(text', page')
        BY <1>0, <2>1, <2>2, ShowsString
    <2>4. spoke' \in BOOLEAN
        BY <1>1 DEF Call
    <2>5. Shows(text, page)'
        BY <2>3 DEF Shows, Window
    <2>6. QED
        BY <2>2, <2>3, <2>4, <2>5, SyncKeepsScreen
<1>2. ASSUME NEW a \in Attributes, Call(TRUE), SetAttribute(a) PROVE ScreenInv'
    <2>1. /\ text' = [text EXCEPT !.attr = a] /\ mode' = Synced(mode, text')
          /\ shown' = shown /\ page' = page
        BY <1>2 DEF SetAttribute
    <2>2. /\ text' \in Texts /\ text'.cells = text.cells /\ text'.row = text.row
          /\ text'.col = text.col
        BY <1>0, <2>1 DEF Texts
    <2>3. Shows(text, page)'
        BY <1>0, <2>1, <2>2 DEF Shows, Window
    <2>4. spoke' \in BOOLEAN
        BY <1>2 DEF Call
    <2>5. QED
        BY <1>0, <2>1, <2>2, <2>3, <2>4, SyncKeepsScreen
<1>3. ASSUME Call(TRUE), ClearScreen PROVE ScreenInv'
    <2>1. /\ text' = [text EXCEPT !.col = 0, !.row = 0, !.cells = BlankScreen(text.attr)]
          /\ mode' = Synced(mode, text') /\ shown' = text'.cells /\ page' = NewPage(text.attr)
        BY <1>3 DEF ClearScreen
    <2>2. PICK a \in Attributes : a = text.attr
        BY <1>0 DEF Texts
    <2>3. 0 \in 0..Cols /\ 0 \in Row /\ BlankScreen(a) \in [Row -> Lines]
        BY GridSize, BlankLine DEF Row
    <2>4. PICK t : t = [text EXCEPT !.col = 0, !.row = 0, !.cells = BlankScreen(a)]
        OBVIOUS
    <2>5. t \in Texts /\ t.col = 0 /\ t.row = 0 /\ t.cells = BlankScreen(a)
        BY <1>0, <2>3, <2>4 DEF Texts
    <2>6. NewPage(a) \in Pages /\ Shows(t, NewPage(a))
        BY <2>5, BlankShows
    <2>7. text' = t /\ page' = NewPage(a)
        BY <2>1, <2>2, <2>4
    <2>8. Shows(text, page)'
        BY <2>6, <2>7 DEF Shows, Window
    <2>9. spoke' \in BOOLEAN
        BY <1>3 DEF Call
    <2>10. QED
        BY <2>1, <2>5, <2>6, <2>7, <2>8, <2>9, SyncKeepsScreen
<1>4. ASSUME NEW c \in Col, NEW r \in Row, Call(TRUE), SetCursorPosition(c, r) PROVE ScreenInv'
    <2>1. /\ text' = [text EXCEPT !.col = c, !.row = r] /\ mode' = Synced(mode, text')
          /\ shown' = shown /\ page' = [page EXCEPT !.col = c, !.line = page.top + r]
        BY <1>4 DEF SetCursorPosition
    <2>2. c \in 0..Cols /\ r \in Nat /\ r <= Rows - 1
        BY GridSize DEF Col, Row
    <2>3. /\ text' \in Texts /\ text'.cells = text.cells /\ text'.row = r /\ text'.col = c
        BY <1>0, <2>1, <2>2 DEF Texts
    <2>4. page \in [line : Nat, col : 0..Cols, top : Nat, paper : Papers]
          /\ page.paper \in [0..(page.top + Rows - 1) -> Lines]
        BY <1>0 DEF Pages
    <2>5. PICK l \in Nat : l = page.top + r /\ l \in page.top..(page.top + Rows - 1) /\ r = l - page.top
        <3>1. PICK t \in Nat : t = page.top
            BY <2>4
        <3>2. t + r \in Nat /\ t + r \in t..(t + Rows - 1) /\ r = (t + r) - t
            BY <2>2, GridSize
        <3>3. QED
            BY ONLY <3>1, <3>2
    <2>6. /\ page' \in [line : Nat, col : 0..Cols, top : Nat, paper : Papers]
          /\ page'.line = l /\ page'.col = c /\ page'.top = page.top /\ page'.paper = page.paper
        BY <2>1, <2>2, <2>4, <2>5
    <2>7. page' \in Pages
        BY <2>4, <2>5, <2>6 DEF Pages
    <2>8. Shows(text, page)'
        BY <1>0, <2>3, <2>5, <2>6 DEF Shows, Window
    <2>9. spoke' \in BOOLEAN
        BY <1>4 DEF Call
    <2>10. QED
        BY <1>0, <2>1, <2>3, <2>7, <2>8, <2>9, SyncKeepsScreen
<1>5. ASSUME NEW v \in BOOLEAN, Call(FALSE), EnableCursor(v) PROVE ScreenInv'
    <2>1. mode' = [mode EXCEPT !.visible = v] /\ text' = text /\ shown' = shown /\ page' = page
        BY <1>5 DEF EnableCursor
    <2>2. /\ mode' \in Modes /\ mode'.col = mode.col /\ mode'.row = mode.row
          /\ mode'.attr = mode.attr
        BY <1>0, <2>1 DEF Modes
    <2>3. spoke' = spoke
        BY <1>0, <1>5, Zenon DEF Call
    <2>4. QED
        BY <2>1, <2>2, <2>3 DEF ScreenInv, ModeMatches, Shows, Window
<1>6. QED
    BY <1>1, <1>2, <1>3, <1>4, <1>5 DEF Writes

-----------------------------------------------------------------------------
(* The inductive invariant of the console. *)
ConsoleInv == LineInv /\ KeyInv /\ ScreenInv

LEMMA StartsWell == Init => ConsoleInv
<1> SUFFICES ASSUME Init PROVE ConsoleInv
    OBVIOUS
<1>1. /\ uart = <<>> /\ esc = 0 /\ lead = 0 /\ meant = <<>> /\ decoded = <<>> /\ torn = FALSE
      /\ down = <<>> /\ prev = {}
      /\ pressed = [c \in Codes |-> 0] /\ heard = [c \in Codes |-> 0]
    BY DEF Init, InputInit, KeyboardInit
<1>2. LineInv
    <2>1. /\ uart \in Seq(Bytes) /\ meant \in Seq(KeyName) /\ decoded \in Seq(KeyName)
          /\ esc \in 0..2 /\ lead \in 0..2 /\ torn \in BOOLEAN
        <3>1. uart \in Seq(Bytes) /\ meant \in Seq(KeyName) /\ decoded \in Seq(KeyName)
            BY <1>1, EmptySeq
        <3>2. torn \in BOOLEAN
            BY <1>1, Zenon
        <3>3. QED
            BY <1>1, <3>1, <3>2
    <2>2. EscOf(esc, uart) = 0 /\ KeysOf(esc, uart) = <<>>
        BY <1>1, ScannedShort DEF EscOf, KeysOf
    <2>4. <<>> \o <<>> = <<>>
        BY <2>1, <1>1, ConcatEmptySeq
    <2>5. QED
        BY <1>1, <2>1, <2>2, <2>4 DEF LineInv, Joins
<1>3. KeyInv
    <2>1. down \in Seq(Codes) /\ Len(down) = 0
        BY <1>1, EmptySeq
    <2>2. Range(down) = {}
        <3>1. Range(down) = {down[i] : i \in 1..Len(down)} /\ 1..Len(down) = {}
            <4>1. PICK s \in Seq(Codes) : s = down /\ Len(s) = 0
                BY <2>1
            <4>2. Range(s) = {s[i] : i \in 1..Len(s)}
                BY RangeIs
            <4>3. 1..Len(s) = {}
                BY <4>1
            <4>4. QED
                BY <4>1, <4>2, <4>3, Zenon
        <3>2. QED
            BY <3>1, Zenon
    <2>3. QED
        BY <1>1, <2>1, <2>2 DEF KeyInv
<1>4. ScreenInv
    <2>1. /\ text = [col |-> 0, row |-> 0, attr |-> DefaultAttr, cells |-> BlankScreen("boot")]
          /\ mode = [col |-> 0, row |-> 0, attr |-> DefaultAttr, visible |-> TRUE]
          /\ shown = text.cells /\ page = NewPage("boot") /\ spoke = FALSE
        BY DEF Init, TextInit
    <2>2. text \in Texts /\ page \in Pages /\ Shows(text, page)
        BY <2>1, BootScreen
    <2>3. mode \in Modes
        BY <2>1, TextAssumption, GridSize DEF Modes, Row
    <2>4. QED
        BY <2>1, <2>2, <2>3 DEF ScreenInv
<1>5. QED
    BY <1>2, <1>3, <1>4 DEF ConsoleInv

LEMMA PollsKeep ==
    ASSUME LineInv, KeyInv, NEW k, PollKeyRaw(k)
    PROVE  LineInv' /\ KeyInv'
<1>1. UNCHANGED <<meant, lead, torn, pressed>>
    BY DEF PollKeyRaw, typedVars
<1>2. CASE UartPoll(k) /\ UNCHANGED <<keyboardVars, heard>>
    <2>1. LineInv'
        BY <1>1, <1>2, PollKeepsLine
    <2>2. KeyInv'
        BY <1>1, <1>2 DEF KeyInv, keyboardVars
    <2>3. QED
        BY <2>1, <2>2
<1>3. CASE UartPoll(NoKey) /\ KeyboardPoll(k)
    <2>1. LineInv'
        BY <1>1, <1>3, PollKeepsLine
    <2>2. KeyInv'
        BY <1>1, <1>3, KeyboardPollKeepsKeys
    <2>3. QED
        BY <2>1, <2>2
<1>4. QED
    BY <1>2, <1>3 DEF PollKeyRaw

LEMMA StepsKeep == ConsoleInv /\ [Next]_vars => ConsoleInv'
<1> SUFFICES ASSUME LineInv, KeyInv, ScreenInv, [Next]_vars PROVE LineInv' /\ KeyInv' /\ ScreenInv'
    BY DEF ConsoleInv
<1>t. ASSUME UNCHANGED <<textVars, spoke>> PROVE ScreenInv'
    BY <1>t DEF ScreenInv, ModeMatches, textVars, Shows, Window
<1>l. ASSUME UNCHANGED <<uart, esc, meant, lead, decoded, torn>> PROVE LineInv'
    BY <1>l DEF LineInv
<1>k. ASSUME UNCHANGED <<keyboardVars, pressed, heard>> PROVE KeyInv'
    BY <1>k DEF KeyInv, keyboardVars
<1>1. CASE StartImage
    <2>1. PICK n \in 0..Len(uart) : ResetInput(n)
        BY <1>1 DEF StartImage
    <2>2. /\ TakeReport \/ UNCHANGED keyboardVars
          /\ TextStart /\ spoke' = FALSE /\ UNCHANGED <<meant, pressed, heard>>
        BY <1>1 DEF StartImage
    <2>3. LineInv'
        BY <2>1, <2>2, ResetKeepsLine
    <2>4. KeyInv'
        BY <1>k, <2>2, ReportKeepsKeys
    <2>5. QED
        BY <2>2, <2>3, <2>4, StartKeepsScreen
<1>2. CASE Writes
    <2>1. UNCHANGED inputVars
        BY <1>2 DEF Writes, Call
    <2>2. QED
        BY <1>l, <1>k, <1>2, <2>1, WritesKeepScreen DEF inputVars, typedVars
<1>3. CASE Reads
    <2>1. PICK k \in Polled : PollKeyRaw(k)
        BY <1>3 DEF Reads, KeyAvailable, ReadKeyStroke
    <2>2. UNCHANGED <<textVars, spoke>>
        BY <1>3 DEF Reads
    <2>3. QED
        BY <1>t, <2>1, <2>2, PollsKeep
<1>4. CASE Arrives
    <2>0. UserInput /\ UNCHANGED <<textVars, spoke>>
        BY <1>4 DEF Arrives
    <2>1. ASSUME NEW k \in Keystrokes, Type(k) PROVE LineInv' /\ KeyInv'
        BY <1>k, <2>0, <2>1, TypeKeepsLine DEF Type
    <2>2. ASSUME NEW c \in Codes, Press(c) PROVE LineInv' /\ KeyInv'
        BY <1>l, <2>0, <2>2, PressKeepsKeys DEF Press, typedVars
    <2>3. ASSUME NEW c \in Codes, Release(c) PROVE LineInv' /\ KeyInv'
        BY <1>l, <2>0, <2>3, ReleaseKeepsKeys DEF Release, typedVars
    <2>4. QED
        BY <1>t, <2>0, <2>1, <2>2, <2>3 DEF UserInput
<1>5. CASE UNCHANGED vars
    BY <1>l, <1>k, <1>t, <1>5 DEF vars, inputVars, typedVars
<1>6. QED
    BY <1>1, <1>2, <1>3, <1>4, <1>5 DEF Next

THEOREM ConsoleCorrect == Spec => []ConsoleInv
BY StartsWell, StepsKeep, PTL DEF Spec

-----------------------------------------------------------------------------
(* Serial input is resolved without loss, duplication or reordering,       *)
(* a lone Esc included, whatever polls, WaitForKey tests, keyboard         *)
(* reports, output calls and restarts come in between, unless the FIFO     *)
(* overran or an image was started in the middle of an escape sequence     *)
(* (console.rs uart_byte_to_key, init).  A key that a WaitForKey test      *)
(* resolves is resolved, not delivered: the test drops it.                 *)
THEOREM SerialKeysArrive == Spec => []KeysFaithful
<1>1. ConsoleInv => KeysFaithful
    BY DEF ConsoleInv, LineInv, KeysFaithful, UartKeysFaithful, Queued, Joins, KeysOf
<1>2. QED
    BY <1>1, ConsoleCorrect, PTL

(* No keydown is resolved twice: a key held down over any number of polls  *)
(* and images counts once (hid.rs poll_new_keys).                          *)
THEOREM NoKeydownTwice == Spec => []KeydownsAtMostOnce
<1>1. ConsoleInv => KeydownsAtMostOnce
    BY DEF ConsoleInv, KeyInv, KeydownsAtMostOnce
<1>2. QED
    BY <1>1, ConsoleCorrect, PTL

(* Wrapping, scrolling and cursor moves lose and move nothing on a grid of *)
(* any size: the screen is the window on the page that was written         *)
(* (console.rs newline, put_char; framebuffer.rs scroll_up).               *)
THEOREM ScreenShowsThePage == Spec => []ScreenIsWindow
<1>1. ConsoleInv => ScreenIsWindow
    BY DEF ConsoleInv, ScreenInv, Shows, ScreenIsWindow
<1>2. QED
    BY <1>1, ConsoleCorrect, PTL

(* The display shows what was drawn, and Mode tells the cursor and the     *)
(* attribute in force once the image has made a call that moves, writes or *)
(* changes anything (console.rs sync_mode, framebuffer.rs flush).          *)
THEOREM CopiesFollow == Spec => []CopiesUpToDate
<1>1. ConsoleInv => CopiesUpToDate
    BY DEF ConsoleInv, ScreenInv, ModeMatches, CopiesUpToDate
<1>2. QED
    BY <1>1, ConsoleCorrect, PTL

-----------------------------------------------------------------------------
(* Events and timers, for every table size, every trigger time and         *)
(* interrupt rate, every choice of wait lists and of notify functions that *)
(* make one call, and every interleaving of calls, polls, ticks and input. *)

(* Dividing with remainder. *)
LEMMA Division ==
    ASSUME NEW a \in Nat, NEW k \in Nat \ {0}
    PROVE  /\ a \div k \in Nat /\ a % k \in Nat /\ a % k < k
           /\ a = k * (a \div k) + (a % k)
    OBVIOUS

(* Multiplying keeps the order. *)
LEMMA MulKeepsOrder ==
    ASSUME NEW a \in Nat, NEW c \in Nat, a <= c, NEW d \in Nat
    PROVE  a * d \in Nat /\ c * d \in Nat /\ a * d <= c * d
<1>1. PICK j \in Nat : c = a + j
    <2>1. c - a \in Nat /\ c = a + (c - a)
        OBVIOUS
    <2>2. QED
        BY <2>1
<1>2. a * d \in Nat /\ j * d \in Nat
    OBVIOUS
<1>3. c * d = a * d + j * d
    BY <1>1, Z3
<1>4. QED
    BY <1>2, <1>3

LEMMA Constants ==
    /\ MaxEvents \in Nat /\ Event \subseteq Nat /\ 1 \in Event
    /\ Spans \subseteq Nat /\ Notifiers \subseteq Notifier
    /\ WaitLists \subseteq Seq(Event) /\ <<>> \notin WaitLists
<1>1. MaxEvents \in Nat \ {0} /\ Spans \subseteq Nat /\ Notifiers \subseteq Notifier
      /\ WaitLists \subseteq Seq(Event) \ {<<>>}
    BY EventsAssumption
<1>2. 1 \in Event /\ Event \subseteq Nat
    BY <1>1 DEF Event
<1>3. QED
    BY <1>1, <1>2

LEMMA Clock == TickCounts \in Nat \ {0} /\ Word \in Nat \ {0} /\ Freq \in Nat
<1>1. Million \in Nat \ {0} /\ Interval \in Nat \ {0} /\ Word \in Nat \ {0} /\ Freq \in Nat
    BY EventsAssumption
<1>2. Million * Interval \in Nat \ {0}
    BY <1>1
<1>3. QED
    BY <1>1, <1>2 DEF TickCounts

(* The ticks set for a trigger time make up its microseconds, when the     *)
(* rounding fits in a u64.                                                 *)
LEMMA TicksCover ==
    ASSUME NEW span \in Nat
    PROVE  /\ Counts(span) \in Nat
           /\ MicrosToTicks(span \div 10) \in Nat
           /\ TooLong(span) \/ MicrosToTicks(span \div 10) * TickCounts >= Counts(span)
<1> DEFINE us == span \div 10
<1> DEFINE x == us * Freq
<1> DEFINE low == Min({x, Word - 1})
<1>1. us \in Nat
    BY Division
<1>2. x \in Nat /\ Word - 1 \in Nat
    BY <1>1, Clock
<1>3. Counts(span) = x
    BY DEF Counts
<1> HIDE DEF us, x
<1>4. low \in {x, Word - 1} /\ (x <= Word - 1 => low = x)
    <2>1. {x, Word - 1} # {} /\ {x, Word - 1} \subseteq Nat
        BY <1>2
    <2>2. low \in {x, Word - 1} /\ \A y \in {x, Word - 1} : low <= y
        BY <2>1, MinIn
    <2>3. QED
        BY <1>2, <2>2
<1>5. low \in Nat
    BY <1>2, <1>4
<1> HIDE DEF low
<1> DEFINE s == low + TickCounts - 1
<1>6. s \in Nat
    BY <1>5, Clock
<1> DEFINE r == s % Word
<1>7. r \in Nat
    BY <1>6, Clock, Division
<1>8. MicrosToTicks(span \div 10) = r \div TickCounts
    BY DEF MicrosToTicks, r, s, low, x, us
<1>9. r \div TickCounts \in Nat
    BY <1>7, Clock, Division
<1>10. ASSUME ~TooLong(span)
       PROVE  (r \div TickCounts) * TickCounts >= x
    <2>1. x + TickCounts <= Word
        BY <1>2, <1>3, <1>10, Clock DEF TooLong
    <2>2. low = x
        BY <1>2, <1>4, <2>1, Clock
    <2>3. s < Word
        BY <1>2, <2>1, <2>2, Clock
    <2>4. r = s
        BY <1>6, <2>3, Clock
    <2> DEFINE q == s \div TickCounts
    <2> DEFINE m == s % TickCounts
    <2>5. q \in Nat /\ m \in Nat /\ m < TickCounts /\ s = TickCounts * q + m
        BY <1>6, Clock, Division
    <2>6. s = x + TickCounts - 1
        BY <2>2
    <2> HIDE DEF q, m, s
    <2>7. TickCounts * q \in Nat /\ q * TickCounts = TickCounts * q
        BY <2>5, Clock
    <2>8. TickCounts * q >= x
        BY <1>2, <2>5, <2>6, <2>7, Clock
    <2>9. QED
        BY <2>4, <2>7, <2>8 DEF q
<1>11. QED
    BY <1>2, <1>3, <1>8, <1>9, <1>10

EventRecord ==
    [in_use : BOOLEAN, kind : Kinds, signaled : BOOLEAN, notify : Notifier,
     due : Nat \cup {NotArmed}, period : Nat, asked : Nat \cup {NotArmed}, age : Nat]

(* The ticks a number of interrupts makes up suffice for a trigger time.   *)
Enough(ticks, span) == TooLong(span) \/ ticks * TickCounts >= Counts(span)

(* The ticks gone by and the ticks left make up the time asked for, and so *)
(* does a period.                                                          *)
OnClock(e) ==
    e.due # NotArmed => /\ e.asked \in Nat /\ Enough(e.age + e.due, e.asked)
                        /\ e.period > 0 => Enough(e.period, e.asked)

Timed == {e \in EventRecord : OnClock(e)}
EventTable == [Event -> Timed]

TimerInv ==
    /\ events \in EventTable /\ called \in Nat
    /\ waiting \in Seq(Event)
    /\ waiting # <<>> => at \in 1..Len(waiting)

(* More ticks are enough for what fewer are enough for. *)
LEMMA EnoughMore ==
    ASSUME NEW span \in Nat, NEW a \in Nat, NEW c \in Nat, a <= c, Enough(a, span)
    PROVE  Enough(c, span)
<1>1. a * TickCounts \in Nat /\ c * TickCounts \in Nat /\ a * TickCounts <= c * TickCounts
    BY Clock, MulKeepsOrder
<1>2. Counts(span) \in Nat
    BY TicksCover
<1>3. QED
    BY <1>1, <1>2 DEF Enough

LEMMA EmptyRecord == EMPTY \in EventRecord /\ EMPTY.due = NotArmed
<1>1. NoNotify \in Notifier
    BY Constants DEF NoNotify, Notifier
<1>2. QED
    BY <1>1 DEF EMPTY, EventRecord, Kinds, NotArmed

(* A slot that is replaced by a record whose clock is right. *)
LEMMA Replaced ==
    ASSUME NEW es \in EventTable, NEW i \in Event, NEW f \in EventRecord, OnClock(f),
           NEW u, u = [es EXCEPT ![i] = f]
    PROVE  u \in EventTable /\ u[i] = f
BY DEF EventTable, Timed

LEMMA SlotRecord ==
    ASSUME NEW es \in EventTable, NEW i \in Event
    PROVE  es[i] \in EventRecord /\ OnClock(es[i])
BY DEF EventTable, Timed

LEMMA MaxPair == ASSUME NEW n \in Nat PROVE Max({n, 1}) \in Nat /\ Max({n, 1}) >= n
<1>1. \E x \in {n, 1} : \A y \in {n, 1} : x >= y
    OBVIOUS
<1>2. Max({n, 1}) \in {n, 1} /\ \A y \in {n, 1} : Max({n, 1}) >= y
    BY <1>1 DEF Max
<1>3. QED
    BY <1>2

(* set_timer starts a clock that is right, and leaves the event what it is.*)
LEMMA ArmedSlots ==
    ASSUME NEW es \in EventTable, NEW i \in Event, NEW span \in Nat, NEW periodic \in BOOLEAN,
           NEW u, u = Armed(es, i, span, periodic)
    PROVE  /\ u \in EventTable
           /\ u[i].due # NotArmed /\ u[i].asked = span /\ (~periodic => u[i].period = 0)
<1>1. PICK e \in EventRecord : e = es[i]
    BY SlotRecord
<1>2. PICK ticks \in Nat : ticks = MicrosToTicks(span \div 10) /\ Enough(ticks, span)
    BY TicksCover DEF Enough
<1>3. PICK p \in Nat : /\ p = IF periodic THEN Max({ticks, 1}) ELSE 0
                       /\ periodic => p >= ticks
    BY MaxPair
<1>4. PICK f : f = [e EXCEPT !.due = ticks, !.period = p, !.asked = span, !.age = 0]
    OBVIOUS
<1>5. /\ f \in EventRecord /\ f.due = ticks /\ f.asked = span /\ f.period = p /\ f.age = 0
    BY <1>4 DEF EventRecord
<1>6. u = [es EXCEPT ![i] = f]
    BY <1>1, <1>2, <1>3, <1>4 DEF Armed, EventTable
<1>7. OnClock(f)
    <2>1. 0 + ticks = ticks /\ f.age + f.due = ticks
        BY <1>5
    <2>2. p > 0 => Enough(p, span)
        <3>1. p > 0 => periodic
            BY <1>3
        <3>2. QED
            BY <1>2, <1>3, <3>1, EnoughMore
    <2>3. QED
        BY <1>2, <1>5, <2>1, <2>2 DEF OnClock
<1>8. u \in EventTable /\ u[i] = f
    BY <1>5, <1>6, <1>7 DEF EventTable, Timed
<1>9. QED
    BY <1>3, <1>5, <1>8 DEF NotArmed

LEMMA DisarmedSlots ==
    ASSUME NEW es \in EventTable, NEW i \in Event, NEW u, u = Disarmed(es, i)
    PROVE  /\ u \in EventTable /\ u[i].due = NotArmed
           /\ u[i].notify = es[i].notify /\ u[i].in_use = es[i].in_use
<1>1. PICK e \in EventRecord : e = es[i]
    BY SlotRecord
<1>2. PICK f : f = [e EXCEPT !.due = NotArmed, !.period = 0, !.asked = NotArmed, !.age = 0]
    OBVIOUS
<1>3. /\ f \in EventRecord /\ f.due = NotArmed
      /\ f.notify = e.notify /\ f.in_use = e.in_use
    BY <1>2 DEF EventRecord
<1>4. u = [es EXCEPT ![i] = f]
    BY <1>1, <1>2 DEF Disarmed, EventTable
<1>5. OnClock(f)
    BY <1>3 DEF OnClock
<1>6. u \in EventTable /\ u[i] = f
    BY <1>3, <1>4, <1>5 DEF EventTable, Timed
<1>7. QED
    BY <1>1, <1>3, <1>6

(* A periodic timer's next interval is as long as the time asked for. *)
LEMMA RenewedSlots ==
    ASSUME NEW es \in EventTable, NEW i \in Event, es[i].due # NotArmed, es[i].period > 0,
           NEW u, u = Renewed(es, i)
    PROVE  /\ u \in EventTable
           /\ u[i].notify = es[i].notify /\ u[i].in_use = es[i].in_use
<1>1. PICK e \in EventRecord : e = es[i] /\ OnClock(e)
    BY SlotRecord
<1>2. e.period \in Nat /\ e.asked \in Nat /\ Enough(e.period, e.asked)
    BY <1>1 DEF EventRecord, OnClock
<1>3. PICK f : f = [e EXCEPT !.due = e.period, !.age = 0]
    OBVIOUS
<1>4. /\ f \in EventRecord /\ f.due = e.period /\ f.age = 0
      /\ f.asked = e.asked /\ f.period = e.period
      /\ f.notify = e.notify /\ f.in_use = e.in_use
    BY <1>2, <1>3 DEF EventRecord
<1>5. u = [es EXCEPT ![i] = f]
    BY <1>1, <1>3 DEF Renewed, EventTable
<1>6. OnClock(f)
    <2>1. f.age + f.due = e.period
        BY <1>2, <1>4
    <2>2. QED
        BY <1>2, <1>4, <2>1 DEF OnClock
<1>7. u \in EventTable /\ u[i] = f
    BY <1>4, <1>5, <1>6 DEF EventTable, Timed
<1>8. QED
    BY <1>1, <1>4, <1>7

(* Only the signaled flag of a slot changes. *)
Flagged(es, i, b) == [es EXCEPT ![i].signaled = b]

LEMMA FlagSlots ==
    ASSUME NEW es \in EventTable, NEW i \in Event, NEW b \in BOOLEAN, NEW u, u = Flagged(es, i, b)
    PROVE  u \in EventTable
<1>1. PICK e \in EventRecord : e = es[i] /\ OnClock(e)
    BY SlotRecord
<1>2. PICK f : f = [e EXCEPT !.signaled = b]
    OBVIOUS
<1>3. /\ f \in EventRecord /\ f.due = e.due /\ f.asked = e.asked
      /\ f.period = e.period /\ f.age = e.age
    BY <1>2 DEF EventRecord
<1>4. u = [es EXCEPT ![i] = f]
    BY <1>1, <1>2 DEF Flagged, EventTable
<1>5. OnClock(f)
    BY <1>1, <1>3 DEF OnClock
<1>6. QED
    BY <1>3, <1>4, <1>5 DEF EventTable, Timed

LEMMA ClosedSlots ==
    ASSUME NEW es \in EventTable, NEW i \in Event, NEW u, u = [es EXCEPT ![i] = EMPTY]
    PROVE  u \in EventTable /\ u[i].due = NotArmed
<1>1. PICK e \in EventRecord : e = EMPTY /\ e.due = NotArmed
    BY EmptyRecord
<1>2. OnClock(e)
    BY <1>1 DEF OnClock
<1>3. u \in EventTable /\ u[i] = e
    BY <1>1, <1>2 DEF EventTable, Timed
<1>4. QED
    BY <1>1, <1>3

(* Whatever a notify function calls keeps the clocks right; on a timer it  *)
(* arms, cancels or closes it leaves what it asked for.                    *)
LEMMA PerformedSlots ==
    ASSUME NEW es \in EventTable, NEW n \in Notifier, NEW u, u = Performed(es, n)
    PROVE  /\ u \in EventTable
           /\ es[n.on].in_use /\ n.act = "arm" =>
                  u[n.on].due # NotArmed /\ u[n.on].asked = n.span /\ u[n.on].period = 0
           /\ es[n.on].in_use /\ n.act \in {"cancel", "close"} => u[n.on].due = NotArmed
<1>0. PICK i \in Event, span \in Nat, act \in {"none", "arm", "cancel", "close", "signal"} :
          i = n.on /\ span = n.span /\ act = n.act
    BY DEF Notifier
<1>1. CASE act = "arm" /\ es[i].in_use
    <2>1. PICK p \in BOOLEAN : p = FALSE
        OBVIOUS
    <2>2. u = Armed(es, i, span, p)
        BY <1>0, <1>1, <2>1 DEF Performed
    <2>3. /\ u \in EventTable
          /\ u[i].due # NotArmed /\ u[i].asked = span /\ (~p => u[i].period = 0)
        BY <2>2, ArmedSlots
    <2>4. QED
        BY <1>0, <1>1, <2>1, <2>3
<1>2. CASE act = "cancel" /\ es[i].in_use
    <2>1. u = Disarmed(es, i)
        BY <1>0, <1>2 DEF Performed
    <2>2. u \in EventTable /\ u[i].due = NotArmed
        BY <2>1, DisarmedSlots
    <2>3. QED
        BY <1>0, <1>2, <2>2
<1>3. CASE act = "close" /\ es[i].in_use
    <2>1. u = [es EXCEPT ![i] = EMPTY]
        BY <1>0, <1>3 DEF Performed
    <2>2. u \in EventTable /\ u[i].due = NotArmed
        BY <2>1, ClosedSlots
    <2>3. QED
        BY <1>0, <1>3, <2>2
<1>4. CASE act = "signal" /\ es[i].in_use
    <2>1. PICK b \in BOOLEAN : b = TRUE
        OBVIOUS
    <2>2. u = Flagged(es, i, b)
        BY <1>0, <1>4, <2>1 DEF Performed, Flagged
    <2>3. u \in EventTable
        BY <2>2, FlagSlots
    <2>4. QED
        BY <1>0, <1>4, <2>3
<1>5. CASE act = "none" \/ ~es[i].in_use
    <2>1. u = es
        BY <1>0, <1>5 DEF Performed
    <2>2. QED
        BY <1>0, <1>5, <2>1
<1>6. QED
    BY <1>0, <1>1, <1>2, <1>3, <1>4, <1>5

LEMMA NotifiedSlots ==
    ASSUME NEW es \in EventTable, NEW i \in Event, NEW w, w = Notified(es, i)
    PROVE  /\ w \in EventTable
           /\ es[i].notify.act # "signal" => w = Performed(es, es[i].notify)
<1>1. PICK n \in Notifier : n = es[i].notify
    BY SlotRecord DEF EventRecord
<1>2. PICK j \in Event : j = n.on
    BY DEF Notifier
<1>3. PICK inner \in Notifier : inner = es[j].notify
    BY SlotRecord DEF EventRecord
<1>4. CASE n.act # "signal"
    <2>1. w = Performed(es, n)
        BY <1>1, <1>4 DEF Notified
    <2>2. w \in EventTable
        BY <2>1, PerformedSlots
    <2>3. QED
        BY <1>1, <2>1, <2>2
<1>5. CASE n.act = "signal" /\ inner.act # "signal" /\ es[j].in_use
    <2>1. PICK v : v = Performed(es, n)
        OBVIOUS
    <2>2. v \in EventTable
        BY <2>1, PerformedSlots
    <2>3. w = Performed(v, inner)
        BY <1>1, <1>2, <1>3, <1>5, <2>1 DEF Notified
    <2>4. w \in EventTable
        BY <2>2, <2>3, PerformedSlots
    <2>5. QED
        BY <1>1, <1>5, <2>4
<1>6. CASE n.act = "signal" /\ ~(inner.act # "signal" /\ es[j].in_use)
    <2>1. w = es
        BY <1>1, <1>2, <1>3, <1>6 DEF Notified
    <2>2. QED
        BY <1>1, <1>6, <2>1
<1>7. QED
    BY <1>4, <1>5, <1>6

(* A timer that fires starts over or stops; then its notify function has   *)
(* the last word.                                                          *)
LEMMA FiredSlots ==
    ASSUME NEW es \in EventTable, NEW i \in Event, es[i].due # NotArmed, NEW u, u = Fired(es, i)
    PROVE  /\ u \in EventTable
           /\ es[i].in_use /\ es[i].notify.on = i =>
                /\ es[i].notify.act = "arm" =>
                     u[i].due # NotArmed /\ u[i].asked = es[i].notify.span /\ u[i].period = 0
                /\ es[i].notify.act \in {"cancel", "close"} => u[i].due = NotArmed
<1>1. PICK v : v = IF es[i].period > 0 THEN Renewed(es, i) ELSE Disarmed(es, i)
    OBVIOUS
<1>2. /\ v \in EventTable /\ v[i].notify = es[i].notify /\ v[i].in_use = es[i].in_use
    <2>1. CASE es[i].period > 0
        BY <1>1, <2>1, RenewedSlots
    <2>2. CASE ~(es[i].period > 0)
        BY <1>1, <2>2, DisarmedSlots
    <2>3. QED
        BY <2>1, <2>2
<1>3. u = Notified(v, i)
    BY <1>1 DEF Fired
<1>4. PICK n \in Notifier : n = es[i].notify
    BY SlotRecord DEF EventRecord
<1>5. u \in EventTable /\ (n.act # "signal" => u = Performed(v, n))
    BY <1>2, <1>3, <1>4, NotifiedSlots
<1>6. ASSUME v[n.on].in_use, n.act \in {"arm", "cancel", "close"}
      PROVE  /\ n.act = "arm" =>
                  u[n.on].due # NotArmed /\ u[n.on].asked = n.span /\ u[n.on].period = 0
             /\ n.act \in {"cancel", "close"} => u[n.on].due = NotArmed
    BY <1>2, <1>5, <1>6, PerformedSlots
<1>7. QED
    BY <1>2, <1>4, <1>5, <1>6

LEMMA ClearedSlots ==
    ASSUME NEW es \in EventTable, NEW i \in Event
    PROVE  Cleared(es, i) \in EventTable
<1>1. PICK b \in BOOLEAN : b = (es[i].signaled /\ es[i].kind # "Generic")
    OBVIOUS
<1>2. Cleared(es, i) = Flagged(es, i, b)
    BY <1>1 DEF Cleared, Flagged
<1>3. QED
    BY <1>2, FlagSlots

(* One poll of an event keeps every clock right. *)
LEMMA EvaluateKeepsTime ==
    ASSUME TimerInv, NEW i \in Event, NEW met \in BOOLEAN, Evaluate(i, met)
    PROVE  events' \in EventTable
<1>0. events \in EventTable
    BY DEF TimerInv
<1>1. CASE events' = events
    BY <1>1, <1>0
<1>2. CASE events' = Cleared(events, i)
    BY <1>0, <1>2, ClearedSlots
<1>3. CASE events' = Fired(events, i) /\ events[i].due = 0
    <2>1. events[i].due # NotArmed
        BY <1>3 DEF NotArmed
    <2>2. QED
        BY <1>0, <1>3, <2>1, FiredSlots
<1>4. QED
    BY <1>1, <1>2, <1>3 DEF Evaluate

LEMMA CreateKeepsTime ==
    ASSUME TimerInv, NEW kind \in {"Generic", "Timer"}, NEW n \in Notifiers, CreateEvent(kind, n)
    PROVE  events' \in EventTable
<1>1. PICK i \in Event : events' = [events EXCEPT ![i] = [EMPTY EXCEPT
                               !.in_use = TRUE, !.kind = kind, !.notify = n]]
    <2>1. FreeSlots # {} /\ FreeSlots \subseteq Nat /\ FreeSlots \subseteq Event
        BY Constants DEF CreateEvent, FreeSlots
    <2>2. Min(FreeSlots) \in Event
        BY <2>1, MinIn
    <2>3. QED
        BY <2>2 DEF CreateEvent
<1>2. PICK e : e = [EMPTY EXCEPT !.in_use = TRUE, !.kind = kind, !.notify = n]
    OBVIOUS
<1>3. e \in EventRecord /\ e.due = NotArmed
    <2>1. n \in Notifier
        BY Constants
    <2>2. QED
        BY <1>2, <2>1 DEF EMPTY, EventRecord, Kinds, NotArmed
<1>4. OnClock(e)
    BY <1>3 DEF OnClock
<1>5. QED
    BY <1>1, <1>2, <1>3, <1>4, Replaced DEF TimerInv

LEMMA SignalKeepsTime ==
    ASSUME TimerInv, NEW i \in Event, SignalEvent(i)
    PROVE  events' \in EventTable
<1>1. PICK b \in BOOLEAN : b = TRUE
    OBVIOUS
<1>2. PICK v : v = Flagged(events, i, b)
    OBVIOUS
<1>3. v \in EventTable
    BY <1>2, FlagSlots DEF TimerInv
<1>4. events' = Notified(v, i)
    BY <1>1, <1>2 DEF SignalEvent, Signaled, Flagged
<1>5. QED
    BY <1>3, <1>4, NotifiedSlots

(* A tick takes one off what is left and adds one to what is gone by, or   *)
(* the time is over already.                                               *)
LEMMA TickKeepsTime ==
    ASSUME TimerInv, Tick
    PROVE  events' \in EventTable
<1>1. events \in EventTable
    BY DEF TimerInv
<1>2. ASSUME NEW i \in Event
      PROVE  events'[i] \in Timed
    <2>1. PICK e \in EventRecord : e = events[i] /\ OnClock(e)
        BY <1>1, SlotRecord
    <2>2. PICK d \in Nat \cup {NotArmed} : d = IF e.due > 0 THEN e.due - 1 ELSE e.due
        BY DEF EventRecord, NotArmed
    <2>3. PICK a \in Nat : a = IF Over(e) THEN e.age ELSE e.age + 1
        BY DEF EventRecord
    <2>4. PICK f : f = [e EXCEPT !.due = d, !.age = a]
        OBVIOUS
    <2>5. /\ f \in EventRecord /\ f.due = d /\ f.age = a
          /\ f.asked = e.asked /\ f.period = e.period
        BY <2>4 DEF EventRecord
    <2>6. events'[i] = f
        BY <2>1, <2>2, <2>3, <2>4 DEF Tick
    <2>7. OnClock(f)
        <3> SUFFICES ASSUME d # NotArmed
                     PROVE  Enough(a + d, e.asked) /\ e.asked \in Nat
                            /\ (e.period > 0 => Enough(e.period, e.asked))
            BY <2>5 DEF OnClock
        <3>1. e.due \in Nat /\ e.age \in Nat /\ d \in Nat
            BY <2>2 DEF EventRecord, NotArmed
        <3>2. /\ e.asked \in Nat /\ Enough(e.age + e.due, e.asked)
              /\ e.period > 0 => Enough(e.period, e.asked)
            BY <2>1, <3>1 DEF OnClock, NotArmed
        <3>3. CASE Over(e)
            <4>1. Enough(e.age, e.asked)
                BY <3>2, <3>3 DEF Over, Enough, NotArmed
            <4>2. a = e.age /\ a + d \in Nat /\ e.age <= a + d
                BY <2>3, <3>1, <3>3
            <4>3. QED
                BY <3>1, <3>2, <4>1, <4>2, EnoughMore
        <3>4. CASE ~Over(e)
            <4>1. a = e.age + 1
                BY <2>3, <3>4
            <4>2. e.age + e.due <= a + d /\ a + d \in Nat /\ e.age + e.due \in Nat
                BY <2>2, <3>1, <4>1
            <4>3. QED
                BY <3>2, <4>2, EnoughMore
        <3>5. QED
            BY <3>3, <3>4
    <2>8. QED
        BY <2>5, <2>6, <2>7 DEF Timed
<1>3. events' = [i \in Event |-> events'[i]]
    BY DEF Tick
<1>4. QED
    BY <1>2, <1>3 DEF EventTable

(* The scan stays inside the list of the wait. *)
ScanInv ==
    /\ called \in Nat /\ waiting \in Seq(Event)
    /\ waiting # <<>> => at \in 1..Len(waiting)

LEMMA PolledEvent == TimerInv /\ waiting # <<>> => waiting[at] \in Event
BY DEF TimerInv

(* An application's call leaves the scan alone, or starts one. *)
LEMMA CallKeepsScan ==
    ASSUME TimerInv, EventCall, UNCHANGED <<waiting, at>>
    PROVE  ScanInv'
BY DEF TimerInv, EventCall, ScanInv

LEMMA StepKeepsTime ==
    ASSUME TimerInv, [EventsNext]_allEventVars
    PROVE  TimerInv'
<1> DEFINE Kept == events' \in EventTable /\ ScanInv'
<1>0. Kept => TimerInv'
    BY DEF TimerInv, ScanInv
<1>t. events \in EventTable
    BY DEF TimerInv
<1>1. ASSUME AppCalls PROVE Kept
    <2>1. ASSUME NEW kind \in {"Generic", "Timer"}, NEW n \in Notifiers, CreateEvent(kind, n)
          PROVE  Kept
        BY <2>1, CreateKeepsTime, CallKeepsScan DEF CreateEvent, Quiet
    <2>2. ASSUME NEW i \in Event, CloseEvent(i) PROVE Kept
        BY <1>t, <2>2, ClosedSlots, CallKeepsScan DEF CloseEvent, Quiet
    <2>3. ASSUME NEW i \in Event, CancelTimer(i) PROVE Kept
        BY <1>t, <2>3, DisarmedSlots, CallKeepsScan DEF CancelTimer, Quiet
    <2>4. ASSUME NEW i \in Event, SignalEvent(i) PROVE Kept
        BY <2>4, SignalKeepsTime, CallKeepsScan DEF SignalEvent, Quiet
    <2>5. ASSUME NEW i \in Event, CheckEvent(i) PROVE Kept
        <3>1. PICK met \in BOOLEAN : Evaluate(i, met)
            BY <2>5 DEF CheckEvent
        <3>2. events' \in EventTable
            BY <3>1, EvaluateKeepsTime
        <3>3. QED
            BY <2>5, <3>2, CallKeepsScan DEF CheckEvent
    <2>6. ASSUME NEW i \in Event, NEW span \in Spans, NEW p \in BOOLEAN, SetTimer(i, span, p)
          PROVE  Kept
        <3>1. PICK t \in Nat : t = span
            BY Constants
        <3>2. events' = Armed(events, i, t, p)
            BY <2>6, <3>1 DEF SetTimer
        <3>3. events' \in EventTable
            BY <1>t, <3>2, ArmedSlots
        <3>4. QED
            BY <2>6, <3>3, CallKeepsScan DEF SetTimer, Quiet
    <2>7. ASSUME NEW list \in WaitLists, WaitForEvent(list) PROVE Kept
        <3>1. list \in Seq(Event) /\ list # <<>>
            BY Constants
        <3>2. 1 \in 1..Len(list)
            BY <3>1, EmptySeq, LenProperties
        <3>3. ScanInv'
            BY <2>7, <3>1, <3>2 DEF WaitForEvent, EventCall, ScanInv, TimerInv
        <3>4. QED
            BY <1>t, <2>7, <3>3 DEF WaitForEvent
    <2>8. QED
        BY <1>1, <2>1, <2>2, <2>3, <2>4, <2>5, <2>6, <2>7 DEF AppCalls
<1>2. ASSUME PollNext PROVE Kept
    <2>1. PICK met \in BOOLEAN :
              /\ Evaluate(waiting[at], met)
              /\ waiting' = IF met THEN <<>> ELSE waiting
              /\ at' = IF met \/ at = Len(waiting) THEN 1 ELSE at + 1
        BY <1>2 DEF PollNext
    <2>2. waiting[at] \in Event /\ at \in 1..Len(waiting) /\ Len(waiting) \in Nat
        BY <1>2, PolledEvent DEF PollNext, TimerInv
    <2>3. events' \in EventTable
        BY <2>1, <2>2, EvaluateKeepsTime
    <2>4. ScanInv'
        BY <1>2, <2>1, <2>2 DEF PollNext, ScanInv, TimerInv
    <2>5. QED
        BY <2>3, <2>4
<1>3. ASSUME Tick PROVE Kept
    BY <1>3, TickKeepsTime DEF Tick, ScanInv, TimerInv
<1>4. ASSUME UNCHANGED eventVars PROVE Kept
    BY <1>t, <1>4 DEF eventVars, ScanInv, TimerInv
<1> HIDE DEF Kept
<1>5. QED
    BY <1>0, <1>1, <1>2, <1>3, <1>4 DEF EventsNext, KeysArrive, KeyRead, allEventVars

(* Time is kept: in every reachable state the tick interrupts gone by and  *)
(* those left to an armed deadline make up the time that was asked for,    *)
(* unless its rounding does not fit in a u64.                              *)
THEOREM TimeIsKept == EventsSpec => []TimerInv
<1>1. EventsInit => TimerInv
    <2> SUFFICES ASSUME EventsInit PROVE TimerInv
        OBVIOUS
    <2>1. PICK e : e = [EMPTY EXCEPT !.in_use = TRUE, !.kind = "ConsoleIn"]
        OBVIOUS
    <2>2. e \in EventRecord /\ e.due = NotArmed
        BY <2>1, EmptyRecord DEF EventRecord, Kinds
    <2>3. e \in Timed /\ EMPTY \in Timed
        BY <2>2, EmptyRecord DEF Timed, OnClock
    <2>4. events = [i \in Event |-> IF i = 1 THEN e ELSE EMPTY]
        BY <2>1 DEF EventsInit
    <2>5. events \in EventTable
        BY <2>3, <2>4 DEF EventTable
    <2>6. waiting = <<>> /\ called = 0
        BY DEF EventsInit
    <2>7. waiting \in Seq(Event)
        BY <2>6, EmptySeq
    <2>8. QED
        BY <2>5, <2>6, <2>7 DEF TimerInv
<1>2. QED
    BY <1>1, StepKeepsTime, PTL DEF EventsSpec

(* The step in which a wait returns a timer is a poll of that timer. *)
LEMMA FiringPolls ==
    ASSUME TimerInv, [EventsNext]_allEventVars, NEW i \in Event, Fires(i)
    PROVE  events[i].due = 0 /\ events' = Fired(events, i)
<1>1. waiting # <<>> /\ waiting' = <<>> /\ i = waiting[at] /\ events[i].kind = "Timer"
    BY DEF Fires
<1>2. PollNext
    BY <1>1 DEF EventsNext, AppCalls, CreateEvent, CloseEvent, CancelTimer, SetTimer, SignalEvent,
                CheckEvent, WaitForEvent, EventCall, Tick, KeysArrive, KeyRead, allEventVars, eventVars
<1>3. Evaluate(i, TRUE)
    BY <1>1, <1>2 DEF PollNext
<1>4. QED
    BY <1>1, <1>3 DEF Evaluate

(* A timer never fires unasked, and never before the tick interrupts that  *)
(* make up its microseconds have come, unless its trigger time is so long  *)
(* that micros_to_ticks leaves the range of a u64 (events.rs set_timer and *)
(* condition_met, timer.rs micros_to_ticks).                               *)
THEOREM TimersFireOnTime == EventsSpec => FiresOnTime
<1>1. ASSUME TimerInv, [EventsNext]_allEventVars, NEW i \in Event, Fires(i)
      PROVE  events[i].asked # NotArmed /\ (Over(events[i]) \/ TooLong(events[i].asked))
    <2>1. events[i].due = 0
        BY <1>1, FiringPolls
    <2>2. PICK e \in EventRecord : e = events[i] /\ OnClock(e)
        BY <1>1, SlotRecord DEF TimerInv
    <2>3. e.asked \in Nat /\ Enough(e.age + 0, e.asked) /\ e.age \in Nat
        BY <2>1, <2>2 DEF OnClock, NotArmed, EventRecord
    <2>4. e.age + 0 = e.age
        BY <2>3
    <2>5. QED
        BY <2>2, <2>3, <2>4 DEF Enough, Over, NotArmed
<1>2. TimerInv /\ [EventsNext]_allEventVars =>
        [\A i \in Event : Fires(i) =>
            /\ events[i].asked # NotArmed
            /\ Over(events[i]) \/ TooLong(events[i].asked)]_allEventVars
    BY <1>1
<1>3. QED
    BY <1>2, TimeIsKept, PTL DEF EventsSpec, FiresOnTime

(* What a timer's notify function does to its own timer, setting it again, *)
(* cancelling or closing it, is not undone by the firing it runs in:       *)
(* condition_met re-arms or disarms before it notifies.                    *)
THEOREM NotifyHasLastWord == EventsSpec => NotifyLasts
<1>1. ASSUME TimerInv, [EventsNext]_allEventVars, NEW i \in Event, Fires(i),
             events[i].in_use, events[i].notify.on = i
      PROVE  /\ events[i].notify.act = "arm" =>
                  /\ events'[i].asked = events[i].notify.span /\ events'[i].due # NotArmed
                  /\ events'[i].period = 0
             /\ events[i].notify.act \in {"cancel", "close"} => events'[i].due = NotArmed
    <2>1. events[i].due # NotArmed /\ events' = Fired(events, i) /\ events \in EventTable
        BY <1>1, FiringPolls DEF NotArmed, TimerInv
    <2>2. PICK u : u = Fired(events, i)
        OBVIOUS
    <2>3. QED
        BY <1>1, <2>1, <2>2, FiredSlots
<1>2. TimerInv /\ [EventsNext]_allEventVars =>
        [\A i \in Event : LET n == events[i].notify IN
            Fires(i) /\ events[i].in_use /\ n.on = i =>
                /\ n.act = "arm" =>
                       /\ events'[i].asked = n.span /\ events'[i].due # NotArmed
                       /\ events'[i].period = 0
                /\ n.act \in {"cancel", "close"} => events'[i].due = NotArmed]_allEventVars
    BY <1>1
<1>3. QED
    BY <1>2, TimeIsKept, PTL DEF EventsSpec, NotifyLasts
=============================================================================
