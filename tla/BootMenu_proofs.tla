--------------------------- MODULE BootMenu_proofs ---------------------------
(***************************************************************************)
(* Proofs about the boot manager: what its decoder makes of the bytes and  *)
(* keydowns of two devices, and what its screens show, for every depth of  *)
(* the FIFO, every keyboard and every sequence of keystrokes, keydowns,    *)
(* lost bytes and polls.                                                   *)
(***************************************************************************)
EXTENDS BootMenu, Loops, SequenceTheorems, TLAPS

Arrows == {"Up", "Down", "Left", "Right"}
FinalBytes == {"A", "B", "C", "D"}
PipeByte == [byte : {"ESC", "["} \cup FinalBytes \cup Keystrokes, stroke : Nat]

-----------------------------------------------------------------------------
(* The decoder: what a run of bytes leaves as its state and the keys so far. *)
Decoding == [esc : 0..2, keys : Seq(Key)]

(* One byte from a state of the decoder leads to one, and to its first     *)
(* when it completes a key.                                                *)
LEMMA DecodeByte ==
    ASSUME NEW e \in 0..2, NEW b
    PROVE  /\ EscAfter(e, b) \in 0..2
           /\ KeyOf(e, b) \in Key \cup {None}
           /\ KeyOf(e, b) # None => EscAfter(e, b) = 0
<1>1. EscAfter(e, b) \in 0..2
    BY DEF EscAfter
<1>2. Final(b) \in Key \cup {None}
    BY DEF Final, Key, None
<1>3. Plain(b) \in Key \cup {None}
    BY DEF Plain, Key, None
<1>4. CASE EscAfter(e, b) # 0
    <2>1. e # 2
        BY <1>4 DEF EscAfter
    <2>2. KeyOf(e, b) = None
        BY <1>4, <2>1 DEF KeyOf
    <2>3. QED
        BY <1>1, <2>2
<1>5. CASE EscAfter(e, b) = 0
    <2>1. KeyOf(e, b) = Final(b) \/ KeyOf(e, b) = Plain(b)
        BY <1>5 DEF KeyOf
    <2>2. QED
        BY <1>1, <1>2, <1>3, <1>5, <2>1
<1>6. QED
    BY <1>4, <1>5

LEMMA FedType ==
    ASSUME NEW st \in Decoding, NEW b \in PipeByte
    PROVE  Fed(st, b) \in Decoding
<1>1. st.esc \in 0..2 /\ st.keys \in Seq(Key)
    BY DEF Decoding
<1>2. EscAfter(st.esc, b.byte) \in 0..2 /\ KeyOf(st.esc, b.byte) \in Key \cup {None}
    BY <1>1, DecodeByte
<1>3. PICK keys : keys = IF KeyOf(st.esc, b.byte) = None THEN st.keys ELSE Append(st.keys, KeyOf(st.esc, b.byte))
    OBVIOUS
<1>4. keys \in Seq(Key)
    BY <1>1, <1>2, <1>3, AppendProperties
<1>5. QED
    BY <1>2, <1>3, <1>4 DEF Fed, Decoding

Scans(g, e, s) ==
    /\ g[0] = [esc |-> e, keys |-> <<>>]
    /\ \A n \in 1..Len(s) : g[n] = Fed(g[n - 1], s[n])

ScanStep(s) == [n \in 1..Len(s) |-> [st \in Decoding |-> Fed(st, s[n])]]

LEMMA ScannedRuns ==
    ASSUME NEW e \in 0..2, NEW s \in Seq(PipeByte)
    PROVE  \E g \in [0..Len(s) -> Decoding] : Scans(g, e, s) /\ Scanned(e, s) = g[Len(s)]
<1>0. PICK N \in Nat : N = Len(s)
    BY LenProperties
<1>1. \A n \in 1..N : s[n] \in PipeByte
    BY <1>0, ElementOfSeq
<1>2. \A n \in 1..N, st \in Decoding : Fed(st, s[n]) \in Decoding
    BY <1>1, FedType
<1>3. Steps(ScanStep(s), N, Decoding)
    BY <1>0, <1>2 DEF Steps, ScanStep
<1>4. PICK b \in Decoding : b = [esc |-> e, keys |-> <<>>]
    BY EmptySeq DEF Decoding
<1>5. PICK g : Run(g, b, ScanStep(s), N, Decoding)
    BY <1>3, Iterates
<1>6. g \in [0..N -> Decoding] /\ g[0] = b
    BY <1>5 DEF Run
<1>7. \A n \in 1..N : g[n] = Fed(g[n - 1], s[n])
    <2> SUFFICES ASSUME NEW n \in 1..N PROVE g[n] = Fed(g[n - 1], s[n])
        OBVIOUS
    <2>1. n - 1 \in 0..N
        OBVIOUS
    <2>2. g[n - 1] \in Decoding /\ g[n] = ScanStep(s)[n][g[n - 1]]
        BY <1>5, <2>1 DEF Run
    <2>3. QED
        BY <1>0, <2>2 DEF ScanStep
<1> DEFINE Body(f) == [n \in 0..Len(s) |->
                         IF n = 0 THEN [esc |-> e, keys |-> <<>>] ELSE Fed(f[n - 1], s[n])]
           After == CHOOSE f : f = Body(f)
<1>8. g = Body(g)
    <2>1. ASSUME NEW n \in 0..N PROVE g[n] = Body(g)[n]
        <3>1. CASE n = 0
            BY <1>0, <1>4, <1>6, <3>1
        <3>2. CASE n # 0
            <4>1. n \in 1..N
                BY <3>2
            <4>2. QED
                BY <1>0, <1>7, <3>2, <4>1
        <3>3. QED
            BY <3>1, <3>2
    <2>2. DOMAIN g = 0..N /\ g = [n \in 0..N |-> g[n]]
        BY <1>6
    <2>3. QED
        BY <1>0, <2>1, <2>2
<1>9. After = Body(After)
    BY <1>8
<1>10. Scanned(e, s) = After[Len(s)]
    BY DEF Scanned
<1> HIDE DEF After
<1>11. \A n \in 0..N : After[n] = g[n]
    <2> DEFINE P == {n \in 0..N : After[n] = g[n]}
    <2>1. 0 \in P
        BY <1>0, <1>8, <1>9
    <2>2. ASSUME NEW n \in 0..N - 1, n \in P PROVE n + 1 \in P
        <3>1. n + 1 \in 0..N /\ n + 1 # 0 /\ (n + 1) - 1 = n
            OBVIOUS
        <3>2. After[n + 1] = Fed(After[n], s[n + 1]) /\ g[n + 1] = Fed(g[n], s[n + 1])
            BY <1>0, <1>8, <1>9, <3>1
        <3>3. QED
            BY <2>2, <3>1, <3>2
    <2> HIDE DEF P
    <2>3. \A n \in 0..N : n \in P
        BY <2>1, <2>2, UpTo
    <2>4. QED
        BY <2>3 DEF P
<1>12. QED
    BY <1>0, <1>4, <1>6, <1>7, <1>10, <1>11 DEF Scans

LEMMA ScannedType ==
    ASSUME NEW e \in 0..2, NEW s \in Seq(PipeByte)
    PROVE  Scanned(e, s) \in Decoding /\ Scanned(e, s).esc \in 0..2 /\ Scanned(e, s).keys \in Seq(Key)
<1>1. PICK g \in [0..Len(s) -> Decoding] : Scans(g, e, s) /\ Scanned(e, s) = g[Len(s)]
    BY ScannedRuns
<1>2. Len(s) \in 0..Len(s)
    BY LenProperties
<1>3. QED
    BY <1>1, <1>2 DEF Decoding

(* No byte, and one byte. *)
LEMMA ScannedShort ==
    ASSUME NEW e \in 0..2
    PROVE  /\ Scanned(e, <<>>) = [esc |-> e, keys |-> <<>>]
           /\ \A b \in PipeByte :
                Scanned(e, <<b>>) =
                    [esc  |-> EscAfter(e, b.byte),
                     keys |-> IF KeyOf(e, b.byte) = None THEN <<>> ELSE <<KeyOf(e, b.byte)>>]
<1>1. Scanned(e, <<>>) = [esc |-> e, keys |-> <<>>]
    <2>1. <<>> \in Seq(PipeByte) /\ Len(<<>>) = 0
        BY EmptySeq
    <2>2. PICK g \in [0..Len(<<>>) -> Decoding] :
              Scans(g, e, <<>>) /\ Scanned(e, <<>>) = g[Len(<<>>)]
        BY <2>1, ScannedRuns
    <2>3. QED
        BY <2>1, <2>2 DEF Scans
<1>2. ASSUME NEW b \in PipeByte
      PROVE  Scanned(e, <<b>>) =
                 [esc  |-> EscAfter(e, b.byte),
                  keys |-> IF KeyOf(e, b.byte) = None THEN <<>> ELSE <<KeyOf(e, b.byte)>>]
    <2>0. <<b>> \in Seq(PipeByte) /\ Len(<<b>>) = 1 /\ <<b>>[1] = b
        OBVIOUS
    <2>1. PICK s \in Seq(PipeByte) : s = <<b>> /\ Len(s) = 1 /\ s[1] = b
        BY <2>0
    <2>2. PICK g \in [0..Len(s) -> Decoding] : Scans(g, e, s) /\ Scanned(e, s) = g[Len(s)]
        BY ScannedRuns
    <2>3. 1 \in 1..Len(s) /\ 1 - 1 = 0
        BY <2>1
    <2>4. g[1] = Fed(g[0], b) /\ g[0] = [esc |-> e, keys |-> <<>>]
        BY <2>1, <2>2, <2>3 DEF Scans
    <2>5. g[1] = [esc  |-> EscAfter(e, b.byte),
                  keys |-> IF KeyOf(e, b.byte) = None THEN <<>> ELSE Append(<<>>, KeyOf(e, b.byte))]
        BY <2>4 DEF Fed
    <2>6. Append(<<>>, KeyOf(e, b.byte)) = <<KeyOf(e, b.byte)>>
        OBVIOUS
    <2>7. QED
        BY <2>1, <2>2, <2>5, <2>6
<1>3. QED
    BY <1>1, <1>2

LEMMA KeysAssoc ==
    ASSUME NEW x \in Seq(Key), NEW y \in Seq(Key), NEW z \in Seq(Key)
    PROVE  z \o (x \o y) = (z \o x) \o y
BY ConcatAssociative, SMTT(30)

(* PipeByte p and then q: q is decoded from the state p leaves, and its keys  *)
(* follow those of p.                                                      *)
LEMMA ScannedConcat ==
    ASSUME NEW e \in 0..2, NEW p \in Seq(PipeByte), NEW q \in Seq(PipeByte)
    PROVE  LET left == Scanned(e, p)
               right == Scanned(left.esc, q)
           IN  Scanned(e, p \o q) = [esc |-> right.esc, keys |-> left.keys \o right.keys]
<1> DEFINE left == Scanned(e, p)
           right == Scanned(left.esc, q)
           s == p \o q
<1>0. left \in Decoding /\ left.esc \in 0..2 /\ left.keys \in Seq(Key)
    BY ScannedType
<1>1. PICK M \in Nat, N \in Nat : M = Len(p) /\ N = Len(q)
    BY LenProperties
<1>2. /\ s \in Seq(PipeByte) /\ Len(s) = M + N
      /\ \A n \in 1..M : s[n] = p[n]
      /\ \A n \in 1..N : s[M + n] = q[n]
    BY <1>1, ConcatProperties
<1>3. PICK f \in [0..Len(p) -> Decoding] : Scans(f, e, p) /\ left = f[Len(p)]
    BY ScannedRuns
<1>4. PICK g \in [0..Len(q) -> Decoding] : Scans(g, left.esc, q) /\ right = g[Len(q)]
    BY <1>0, ScannedRuns
<1>5. PICK h \in [0..Len(s) -> Decoding] : Scans(h, e, s) /\ Scanned(e, s) = h[Len(s)]
    BY <1>2, ScannedRuns
<1> HIDE DEF left, right, s
<1>6. h[M] = left
    <2> DEFINE P == {n \in 0..M : h[n] = f[n]}
    <2>1. 0 \in P
        BY <1>3, <1>5 DEF Scans
    <2>2. ASSUME NEW n \in 0..M - 1, n \in P PROVE n + 1 \in P
        <3>1. n + 1 \in 1..M /\ n + 1 \in 1..(M + N) /\ (n + 1) - 1 = n /\ n + 1 \in 0..M
            OBVIOUS
        <3>2. h[n + 1] = Fed(h[n], s[n + 1]) /\ f[n + 1] = Fed(f[n], p[n + 1])
            BY <1>1, <1>2, <1>3, <1>5, <3>1 DEF Scans
        <3>3. QED
            BY <1>2, <2>2, <3>1, <3>2
    <2> HIDE DEF P
    <2>3. \A n \in 0..M : n \in P
        BY <2>1, <2>2, UpTo
    <2>4. QED
        BY <1>1, <1>3, <2>3 DEF P
<1>7. h[M + N] = [esc |-> g[N].esc, keys |-> left.keys \o g[N].keys]
    <2> DEFINE Meets(n) == h[M + n] = [esc |-> g[n].esc, keys |-> left.keys \o g[n].keys]
               P == {n \in 0..N : Meets(n)}
    <2>1. 0 \in P
        <3>1. g[0] = [esc |-> left.esc, keys |-> <<>>]
            BY <1>4 DEF Scans
        <3>2. left.keys \o <<>> = left.keys
            BY <1>0, ConcatEmptySeq
        <3>3. left = [esc |-> left.esc, keys |-> left.keys]
            BY <1>0 DEF Decoding
        <3>4. Meets(0)
            BY <1>6, <3>1, <3>2, <3>3
        <3> HIDE DEF Meets
        <3>5. QED
            BY <3>4
    <2>2. ASSUME NEW n \in 0..N - 1, n \in P PROVE n + 1 \in P
        <3>1. /\ n + 1 \in 1..N /\ (n + 1) - 1 = n /\ n \in 0..N /\ n + 1 \in 0..N
              /\ M + (n + 1) \in 1..(M + N) /\ (M + (n + 1)) - 1 = M + n
            OBVIOUS
        <3>2. Meets(n)
            BY <2>2
        <3>3. g[n] \in Decoding
            BY <1>1, <3>1
        <3>4. PICK st \in Decoding : st = g[n] /\ st.esc \in 0..2 /\ st.keys \in Seq(Key)
            BY <3>3 DEF Decoding
        <3>5. PICK b \in PipeByte : b = q[n + 1]
            BY <1>1, <3>1, ElementOfSeq
        <3>6. g[n + 1] = Fed(st, b)
            BY <1>1, <1>4, <3>1, <3>4, <3>5 DEF Scans
        <3>7. h[M + (n + 1)] = Fed([esc |-> st.esc, keys |-> left.keys \o st.keys], b)
            <4>1. h[M + (n + 1)] = Fed(h[M + n], s[M + (n + 1)])
                BY <1>2, <1>5, <3>1 DEF Scans
            <4>2. s[M + (n + 1)] = b
                BY <1>2, <3>1, <3>5
            <4>3. QED
                BY <3>2, <3>4, <4>1, <4>2
        <3>8. KeyOf(st.esc, b.byte) \in Key \cup {None}
            BY <3>4, DecodeByte
        <3>9. Fed([esc |-> st.esc, keys |-> left.keys \o st.keys], b)
                = [esc |-> Fed(st, b).esc, keys |-> left.keys \o Fed(st, b).keys]
            <4>1. CASE KeyOf(st.esc, b.byte) = None
                BY <4>1 DEF Fed
            <4>2. CASE KeyOf(st.esc, b.byte) # None
                <5>1. PICK k \in Key : k = KeyOf(st.esc, b.byte)
                    BY <3>8, <4>2
                <5>2. Append(left.keys \o st.keys, k) = left.keys \o Append(st.keys, k)
                    <6>1. PICK u \in Seq(Key), v \in Seq(Key) : u = left.keys /\ v = st.keys
                        BY <1>0, <3>4
                    <6>2. u \o v \in Seq(Key) /\ <<k>> \in Seq(Key)
                        OBVIOUS
                    <6>3. Append(u \o v, k) = (u \o v) \o <<k>> /\ Append(v, k) = v \o <<k>>
                        BY <6>2, AppendIsConcat
                    <6>4. (u \o v) \o <<k>> = u \o (v \o <<k>>)
                        BY <6>2, KeysAssoc
                    <6>5. QED
                        BY <6>1, <6>3, <6>4
                <5>3. QED
                    BY <4>2, <5>1, <5>2 DEF Fed
            <4>3. QED
                BY <4>1, <4>2
        <3>10. Meets(n + 1)
            BY <3>6, <3>7, <3>9
        <3> HIDE DEF Meets
        <3>11. QED
            BY <3>1, <3>10
    <2> HIDE DEF P
    <2>3. \A n \in 0..N : n \in P
        BY <2>1, <2>2, UpTo
    <2>4. N \in P
        BY <2>3
    <2>5. QED
        BY <2>4 DEF P
<1>8. QED
    BY <1>1, <1>2, <1>4, <1>5, <1>7 DEF left, right, s

(* The same, with names for the parts. *)
EscOf(e, s) == Scanned(e, s).esc
KeysOf(e, s) == Scanned(e, s).keys
Joins(s, p, q) == s = p \o q

LEMMA ScanTypes ==
    ASSUME NEW e \in 0..2, NEW s \in Seq(PipeByte)
    PROVE  EscOf(e, s) \in 0..2 /\ KeysOf(e, s) \in Seq(Key)
BY ScannedType DEF EscOf, KeysOf

LEMMA ScanJoin ==
    ASSUME NEW e \in 0..2, NEW p \in Seq(PipeByte), NEW q \in Seq(PipeByte), NEW s, Joins(s, p, q)
    PROVE  /\ EscOf(e, s) = EscOf(EscOf(e, p), q)
           /\ Joins(KeysOf(e, s), KeysOf(e, p), KeysOf(EscOf(e, p), q))
<1>0. s = p \o q
    BY DEF Joins
<1>1. PICK x, y, m, n :
          m = Scanned(e, p).esc /\ x = Scanned(e, p).keys
          /\ n = Scanned(m, q).esc /\ y = Scanned(m, q).keys
    OBVIOUS
<1>2. Scanned(e, p \o q) = [esc |-> Scanned(Scanned(e, p).esc, q).esc,
                            keys |-> Scanned(e, p).keys \o Scanned(Scanned(e, p).esc, q).keys]
    BY ScannedConcat
<1>3. PICK c : c = x \o y
    OBVIOUS
<1>4. PICK all : all = Scanned(e, s)
    OBVIOUS
<1>5. all = [esc |-> n, keys |-> c]
    BY <1>0, <1>1, <1>2, <1>3, <1>4, Zenon
<1>6. all.esc = n /\ all.keys = c
    BY ONLY <1>5
<1>7. QED
    BY <1>1, <1>3, <1>4, <1>6, Zenon DEF EscOf, KeysOf, Joins

-----------------------------------------------------------------------------
(* The bytes of a keystroke. *)
FirstByte(k) == BytesOf(k)[1]
LastByte(k) == BytesOf(k)[Len(BytesOf(k))]
Contents(s) == {s[i] : i \in 1..Len(s)}

(* An arrow is three different bytes, any other keystroke is one. *)
LEMMA ThreeBytes ==
    ASSUME NEW k \in Arrows
    PROVE  \E f \in FinalBytes :
               /\ BytesOf(k) = <<"ESC", "[", f>> /\ Final(f) = k /\ Meaning(k) = k
               /\ Len(BytesOf(k)) = 3
               /\ BytesOf(k)[1] = "ESC" /\ BytesOf(k)[2] = "[" /\ BytesOf(k)[3] = f
               /\ FirstByte(k) = "ESC" /\ LastByte(k) = f
               /\ Contents(BytesOf(k)) = {"ESC", "[", f}
<1>1. PICK f \in FinalBytes : BytesOf(k) = <<"ESC", "[", f>> /\ Final(f) = k
    <2>1. CASE k = "Up"
        BY <2>1 DEF BytesOf, Final, FinalBytes
    <2>2. CASE k = "Down"
        BY <2>2 DEF BytesOf, Final, FinalBytes
    <2>3. CASE k = "Left"
        BY <2>3 DEF BytesOf, Final, FinalBytes
    <2>4. CASE k = "Right"
        BY <2>4 DEF BytesOf, Final, FinalBytes
    <2>5. QED
        BY <2>1, <2>2, <2>3, <2>4 DEF Arrows
<1>2. Meaning(k) = k
    BY DEF Meaning, Arrows
<1>3. PICK s : s = <<"ESC", "[", f>>
    OBVIOUS
<1>4. Len(s) = 3 /\ s[1] = "ESC" /\ s[2] = "[" /\ s[3] = f
    BY <1>3
<1>5. 1..3 = {1, 2, 3}
    OBVIOUS
<1>6. Contents(s) = {"ESC", "[", f}
    BY <1>4, <1>5 DEF Contents
<1>7. QED
    BY <1>1, <1>2, <1>3, <1>4, <1>6 DEF FirstByte, LastByte

LEMMA OneByte ==
    ASSUME NEW k, k \notin Arrows
    PROVE  /\ BytesOf(k) = <<k>> /\ Len(BytesOf(k)) = 1 /\ BytesOf(k)[1] = k
           /\ FirstByte(k) = k /\ LastByte(k) = k
           /\ Contents(BytesOf(k)) = {k}
<1>1. BytesOf(k) = <<k>>
    BY DEF BytesOf, Arrows
<1>2. PICK s : s = <<k>>
    OBVIOUS
<1>3. Len(s) = 1 /\ s[1] = k
    BY <1>2
<1>4. 1..1 = {1}
    OBVIOUS
<1>5. Contents(s) = {k}
    BY <1>3, <1>4 DEF Contents
<1>6. QED
    BY <1>1, <1>2, <1>3, <1>5 DEF FirstByte, LastByte

(* A byte by itself is what its keystroke was meant as, or nothing. *)
LEMMA PlainMeaning ==
    ASSUME NEW k, k \notin Arrows \cup MenuCodes
    PROVE  Plain(k) = Meaning(k)
<1>1. CASE k \in {"k", "j", "h", "l", "CR", "BS", "q"}
    BY <1>1 DEF Plain, Meaning
<1>2. CASE k \notin {"k", "j", "h", "l", "CR", "BS", "q"}
    <2>1. Plain(k) = None
        BY <1>2 DEF Plain
    <2>2. Meaning(k) = None
        BY <1>2 DEF Meaning, Arrows, MenuCodes
    <2>3. QED
        BY <2>1, <2>2
<1>3. QED
    BY <1>1, <1>2

LEMMA FinalsAndHeadsPlain ==
    ASSUME NEW b \in FinalBytes \cup {"ESC", "["}
    PROVE  Plain(b) = None
BY DEF Plain, FinalBytes

LEMMA OthersNotFinal ==
    ASSUME NEW b, b \notin FinalBytes
    PROVE  Final(b) = None
BY DEF Final, FinalBytes

(* Whatever the decoder has seen before, a byte of a keystroke completes a *)
(* key only if it is the last one, and the key is what was meant, or the   *)
(* arrow a capital letter ends.                                            *)
LEMMA ActsOnlyAsMeant ==
    ASSUME NEW k \in Keystrokes, NEW b \in Contents(BytesOf(k)), NEW e \in 0..2,
           KeyOf(e, b) # None
    PROVE  b = LastByte(k) /\ KeyOf(e, b) \in Senses(k)
<1>1. EscAfter(e, b) = 0 /\ KeyOf(e, b) = IF e = 2 THEN Final(b) ELSE Plain(b)
    <2>1. EscAfter(e, b) = 0
        BY DecodeByte
    <2>2. QED
        BY <2>1 DEF KeyOf
<1>2. CASE k \in Arrows
    <2>1. PICK f \in FinalBytes :
              /\ Final(f) = k /\ Meaning(k) = k
              /\ LastByte(k) = f /\ Contents(BytesOf(k)) = {"ESC", "[", f}
        BY <1>2, ThreeBytes
    <2>2. b \in {"ESC", "[", f}
        BY <2>1
    <2>3. Plain(b) = None
        BY <2>2, FinalsAndHeadsPlain
    <2>4. b # f => Final(b) = None
        <3>1. "ESC" \notin FinalBytes /\ "[" \notin FinalBytes
            BY DEF FinalBytes
        <3>2. QED
            BY <2>2, <3>1, OthersNotFinal
    <2>5. QED
        BY <1>1, <2>1, <2>3, <2>4 DEF Senses
<1>3. CASE k \notin Arrows
    <2>1. b = k /\ LastByte(k) = k
        BY <1>3, OneByte
    <2>2. k \notin MenuCodes
        BY MenuAssumption
    <2>3. Plain(b) = Meaning(k)
        BY <1>3, <2>1, <2>2, PlainMeaning
    <2>4. QED
        BY <1>1, <2>1, <2>3 DEF Senses
<1>4. QED
    BY <1>2, <1>3

(* What is left of a keystroke without its first byte does nothing. *)
LEMMA TailsAreSilent ==
    ASSUME NEW k, NEW b \in Contents(BytesOf(k)), b # FirstByte(k)
    PROVE  EscAfter(0, b) = 0 /\ KeyOf(0, b) = None
<1>1. k \in Arrows
    BY OneByte
<1>2. PICK f \in FinalBytes : FirstByte(k) = "ESC" /\ Contents(BytesOf(k)) = {"ESC", "[", f}
    BY <1>1, ThreeBytes
<1>3. b # "ESC" /\ b \in FinalBytes \cup {"ESC", "["}
    BY <1>2
<1>4. EscAfter(0, b) = 0
    BY <1>3 DEF EscAfter
<1>5. Plain(b) = None
    BY <1>3, FinalsAndHeadsPlain
<1>6. QED
    BY <1>4, <1>5 DEF KeyOf

-----------------------------------------------------------------------------
(* A report of the keyboard: the loop over the bytes of one code, and the  *)
(* loop over the codes.                                                    *)
Feeding == [esc : 0..2, key : Key \cup {None}, stroke : Nat]

LEMMA FeedByteType ==
    ASSUME NEW st \in Feeding, NEW b, NEW n \in Nat
    PROVE  FeedByte(st, b, n) \in Feeding
<1>1. st.esc \in 0..2
    BY DEF Feeding
<1>2. EscAfter(st.esc, b) \in 0..2 /\ KeyOf(st.esc, b) \in Key \cup {None}
    BY <1>1, DecodeByte
<1>3. QED
    BY <1>2 DEF FeedByte, Feeding

FeedsBytes(g, st, s, m) ==
    /\ g[0] = st
    /\ \A n \in 1..Len(s) : g[n] = FeedByte(g[n - 1], s[n], m)

CodeStep(s, m) == [n \in 1..Len(s) |-> [st \in Feeding |-> FeedByte(st, s[n], m)]]

LEMMA FeedCodeRuns ==
    ASSUME NEW st \in Feeding, NEW c, StrokeOf(c) \in Nat, Len(MenuBytes(c)) \in Nat
    PROVE  \E g \in [0..Len(MenuBytes(c)) -> Feeding] :
               /\ FeedsBytes(g, st, MenuBytes(c), StrokeOf(c))
               /\ FeedCode(st, c) = g[Len(MenuBytes(c))]
<1>00. PICK s : s = MenuBytes(c)
    OBVIOUS
<1>0. PICK m \in Nat, N \in Nat : s = MenuBytes(c) /\ m = StrokeOf(c) /\ N = Len(s)
    BY <1>00
<1>1. \A n \in 1..N, x \in Feeding : FeedByte(x, s[n], m) \in Feeding
    BY FeedByteType
<1>2. Steps(CodeStep(s, m), N, Feeding)
    BY <1>0, <1>1 DEF Steps, CodeStep
<1>3. PICK g : Run(g, st, CodeStep(s, m), N, Feeding)
    BY <1>2, Iterates
<1>4. g \in [0..N -> Feeding] /\ g[0] = st
    BY <1>3 DEF Run
<1>5. \A n \in 1..N : g[n] = FeedByte(g[n - 1], s[n], m)
    <2> SUFFICES ASSUME NEW n \in 1..N PROVE g[n] = FeedByte(g[n - 1], s[n], m)
        OBVIOUS
    <2>1. n - 1 \in 0..N
        OBVIOUS
    <2>2. g[n - 1] \in Feeding /\ g[n] = CodeStep(s, m)[n][g[n - 1]]
        BY <1>3, <2>1 DEF Run
    <2>3. QED
        BY <1>0, <2>2 DEF CodeStep
<1> DEFINE Body(f) == [n \in 0..Len(s) |-> IF n = 0 THEN st ELSE FeedByte(f[n - 1], s[n], m)]
           After == CHOOSE f : f = Body(f)
<1>6. g = Body(g)
    <2>1. ASSUME NEW n \in 0..N PROVE g[n] = Body(g)[n]
        <3>1. CASE n = 0
            BY <1>0, <1>4, <3>1
        <3>2. CASE n # 0
            <4>1. n \in 1..N
                BY <3>2
            <4>2. QED
                BY <1>0, <1>5, <3>2, <4>1
        <3>3. QED
            BY <3>1, <3>2
    <2>2. DOMAIN g = 0..N /\ g = [n \in 0..N |-> g[n]]
        BY <1>4
    <2>3. QED
        BY <1>0, <2>1, <2>2
<1>7. After = Body(After)
    BY <1>6
<1>8. FeedCode(st, c) = After[Len(s)]
    BY <1>0 DEF FeedCode
<1> HIDE DEF After
<1>9. \A n \in 0..N : After[n] = g[n]
    <2> DEFINE P == {n \in 0..N : After[n] = g[n]}
    <2>1. 0 \in P
        BY <1>0, <1>6, <1>7
    <2>2. ASSUME NEW n \in 0..N - 1, n \in P PROVE n + 1 \in P
        <3>1. n + 1 \in 0..N /\ n + 1 # 0 /\ (n + 1) - 1 = n
            OBVIOUS
        <3>2. /\ After[n + 1] = FeedByte(After[n], s[n + 1], m)
              /\ g[n + 1] = FeedByte(g[n], s[n + 1], m)
            BY <1>0, <1>6, <1>7, <3>1
        <3>3. QED
            BY <2>2, <3>1, <3>2
    <2> HIDE DEF P
    <2>3. \A n \in 0..N : n \in P
        BY <2>1, <2>2, UpTo
    <2>4. QED
        BY <2>3 DEF P
<1>10. QED
    BY <1>0, <1>4, <1>5, <1>8, <1>9 DEF FeedsBytes

(* What a code of the keyboard sends. *)
LEMMA CodeBytes ==
    ASSUME NEW c
    PROVE  \/ MenuBytes(c) = <<>>
           \/ \E b : MenuBytes(c) = <<b>> /\ Plain(b) = Meaning(c) /\ b # "ESC" /\ b # "[" /\ b \notin FinalBytes
           \/ \E f \in FinalBytes : MenuBytes(c) = <<"ESC", "[", f>> /\ Final(f) = Meaning(c)
<1>1. CASE c = "up"
    <2>1. MenuBytes(c) = <<"ESC", "[", "A">>
        BY <1>1 DEF MenuBytes, BytesOf
    <2>2. QED
        BY <1>1, <2>1 DEF Meaning, Final, FinalBytes
<1>2. CASE c = "down"
    <2>1. MenuBytes(c) = <<"ESC", "[", "B">>
        BY <1>2 DEF MenuBytes, BytesOf
    <2>2. QED
        BY <1>2, <2>1 DEF Meaning, Final, FinalBytes
<1>3. CASE c = "left"
    <2>1. MenuBytes(c) = <<"ESC", "[", "D">>
        BY <1>3 DEF MenuBytes, BytesOf
    <2>2. QED
        BY <1>3, <2>1 DEF Meaning, Final, FinalBytes
<1>4. CASE c = "right"
    <2>1. MenuBytes(c) = <<"ESC", "[", "C">>
        BY <1>4 DEF MenuBytes, BytesOf
    <2>2. QED
        BY <1>4, <2>1 DEF Meaning, Final, FinalBytes
<1>5. CASE c = "enter"
    <2>1. MenuBytes(c) = <<"CR">>
        BY <1>5 DEF MenuBytes
    <2>2. QED
        BY <1>5, <2>1 DEF Meaning, Plain, FinalBytes
<1>6. CASE c = "back"
    <2>1. MenuBytes(c) = <<"BS">>
        BY <1>6 DEF MenuBytes
    <2>2. QED
        BY <1>6, <2>1 DEF Meaning, Plain, FinalBytes
<1>7. CASE c = "key_j"
    <2>1. MenuBytes(c) = <<"j">>
        BY <1>7 DEF MenuBytes
    <2>2. QED
        BY <1>7, <2>1 DEF Meaning, Plain, FinalBytes
<1>8. CASE c = "key_k"
    <2>1. MenuBytes(c) = <<"k">>
        BY <1>8 DEF MenuBytes
    <2>2. QED
        BY <1>8, <2>1 DEF Meaning, Plain, FinalBytes
<1>9. CASE c \notin MenuCodes
    BY <1>9 DEF MenuBytes, MenuCodes
<1>10. QED
    BY <1>1, <1>2, <1>3, <1>4, <1>5, <1>6, <1>7, <1>8, <1>9 DEF MenuCodes

(* The decoder is left as it was, or between two sequences; a key is what  *)
(* the code was pressed for.                                               *)
FedBy(st, x, c) ==
    /\ x \in Feeding
    /\ st.key # None => x = st
    /\ st.key = None => /\ x.esc \in {st.esc, 0}
                        /\ x.key # None => x.key = Meaning(c) /\ x.stroke = StrokeOf(c) /\ x.esc = 0

LEMMA FedByte ==
    ASSUME NEW st \in Feeding, NEW b, NEW n \in Nat, st.key = None
    PROVE  /\ FeedByte(st, b, n).esc = EscAfter(st.esc, b)
           /\ FeedByte(st, b, n).key = KeyOf(st.esc, b)
           /\ FeedByte(st, b, n).stroke = n
BY DEF FeedByte

LEMMA FeedCodeFeeds ==
    ASSUME NEW st \in Feeding, NEW c, StrokeOf(c) \in Nat
    PROVE  FedBy(st, FeedCode(st, c), c)
<1>0. PICK m \in Nat : m = StrokeOf(c)
    OBVIOUS
<1>00. st.esc \in 0..2
    BY DEF Feeding
<1>1. CASE MenuBytes(c) = <<>>
    <2>1. Len(MenuBytes(c)) = 0
        BY <1>1
    <2>2. FeedCode(st, c) = st
        BY <2>1, FeedCodeRuns DEF FeedsBytes
    <2>3. QED
        BY <2>2 DEF FedBy
<1>2. ASSUME NEW b, MenuBytes(c) = <<b>>, Plain(b) = Meaning(c), b # "ESC", b # "[", b \notin FinalBytes
      PROVE  FedBy(st, FeedCode(st, c), c)
    <2>1. Len(MenuBytes(c)) = 1 /\ MenuBytes(c)[1] = b
        BY <1>2
    <2>2. PICK g \in [0..1 -> Feeding] : FeedsBytes(g, st, MenuBytes(c), m) /\ FeedCode(st, c) = g[1]
        BY <1>0, <2>1, FeedCodeRuns
    <2>3. g[1] = FeedByte(st, b, m)
        <3>1. 1 \in 1..1 /\ 1 - 1 = 0
            OBVIOUS
        <3>2. QED
            BY <2>1, <2>2, <3>1 DEF FeedsBytes
    <2>4. g[1] \in Feeding
        BY <2>2
    <2>5. CASE st.key # None
        BY <2>2, <2>3, <2>4, <2>5 DEF FedBy, FeedByte
    <2>6. CASE st.key = None
        <3>1. EscAfter(st.esc, b) = 0
            BY <1>00, <1>2 DEF EscAfter
        <3>2. Final(b) = None
            BY <1>2, OthersNotFinal
        <3>3. KeyOf(st.esc, b) \in {None, Meaning(c)}
            BY <1>00, <1>2, <3>1, <3>2 DEF KeyOf
        <3>4. g[1].esc = 0 /\ g[1].key \in {None, Meaning(c)} /\ g[1].stroke = m
            BY <2>3, <2>6, <3>1, <3>3, FedByte
        <3>5. QED
            BY <1>0, <2>2, <2>4, <2>6, <3>4 DEF FedBy
    <2>7. QED
        BY <2>5, <2>6
<1>3. ASSUME NEW f \in FinalBytes, MenuBytes(c) = <<"ESC", "[", f>>, Final(f) = Meaning(c)
      PROVE  FedBy(st, FeedCode(st, c), c)
    <2>1. /\ Len(MenuBytes(c)) = 3 /\ MenuBytes(c)[1] = "ESC"
          /\ MenuBytes(c)[2] = "[" /\ MenuBytes(c)[3] = f
        BY <1>3
    <2>2. PICK g \in [0..3 -> Feeding] : FeedsBytes(g, st, MenuBytes(c), m) /\ FeedCode(st, c) = g[3]
        BY <1>0, <2>1, FeedCodeRuns
    <2>3. g[1] = FeedByte(st, "ESC", m) /\ g[2] = FeedByte(g[1], "[", m) /\ g[3] = FeedByte(g[2], f, m)
        <3>1. 1 \in 1..3 /\ 2 \in 1..3 /\ 3 \in 1..3 /\ 1 - 1 = 0 /\ 2 - 1 = 1 /\ 3 - 1 = 2
            OBVIOUS
        <3>2. QED
            BY <2>1, <2>2, <3>1 DEF FeedsBytes
    <2>4. g[1] \in Feeding /\ g[2] \in Feeding /\ g[3] \in Feeding
        BY <2>2
    <2>5. CASE st.key # None
        <3>1. g[1] = st
            BY <2>3, <2>5 DEF FeedByte
        <3>2. g[2] = st
            BY <2>3, <2>5, <3>1 DEF FeedByte
        <3>3. g[3] = st
            BY <2>3, <2>5, <3>2 DEF FeedByte
        <3>4. QED
            BY <2>2, <2>4, <2>5, <3>3 DEF FedBy
    <2>6. CASE st.key = None
        <3> DEFINE idle == st.esc = 0
        <3>0. Plain("ESC") = None /\ Plain("[") = None /\ Plain(f) = None
            BY FinalsAndHeadsPlain
        <3>00. Final("ESC") = None
            BY DEF Final
        <3>01. f # "ESC" /\ f # "["
            BY DEF FinalBytes
        <3>1. g[1].key = None /\ g[1].esc = IF idle THEN 1 ELSE 0
            <4>1. EscAfter(st.esc, "ESC") = IF idle THEN 1 ELSE 0
                BY <1>00 DEF EscAfter
            <4>2. KeyOf(st.esc, "ESC") = None
                BY <1>00, <3>0, <3>00, <4>1 DEF KeyOf
            <4>3. QED
                BY <2>3, <2>6, <4>1, <4>2, FedByte
        <3>2. g[2].key = None /\ g[2].esc = IF idle THEN 2 ELSE 0
            <4>1. EscAfter(g[1].esc, "[") = IF idle THEN 2 ELSE 0
                BY <3>1 DEF EscAfter
            <4>2. KeyOf(g[1].esc, "[") = None
                BY <3>0, <3>1, <4>1 DEF KeyOf
            <4>3. QED
                BY <2>3, <2>4, <3>1, <4>1, <4>2, FedByte
        <3>3. g[3].esc = 0 /\ g[3].key \in {None, Meaning(c)} /\ g[3].stroke = m
            <4>1. EscAfter(g[2].esc, f) = 0
                BY <3>01, <3>2 DEF EscAfter
            <4>2. KeyOf(g[2].esc, f) \in {None, Meaning(c)}
                BY <1>3, <3>0, <3>2, <4>1 DEF KeyOf
            <4>3. QED
                BY <2>3, <2>4, <3>2, <4>1, <4>2, FedByte
        <3>4. QED
            BY <1>0, <2>2, <2>4, <2>6, <3>3 DEF FedBy
    <2>7. QED
        BY <2>5, <2>6
<1>4. QED
    BY <1>1, <1>2, <1>3, CodeBytes

(* The loop over the new codes. *)
FeedsCodes(g, e, s) ==
    /\ g[0] = [esc |-> e, key |-> None, stroke |-> 0]
    /\ \A n \in 1..Len(s) : g[n] = FeedCode(g[n - 1], s[n])

ReportStep(s) == [n \in 1..Len(s) |-> [st \in Feeding |-> FeedCode(st, s[n])]]

LEMMA FeedReportRuns ==
    ASSUME NEW e \in 0..2, NewKeys \in Seq(Codes), \A c \in Contents(NewKeys) : StrokeOf(c) \in Nat
    PROVE  \E g \in [0..Len(NewKeys) -> Feeding] :
               FeedsCodes(g, e, NewKeys) /\ FeedReport(e) = g[Len(NewKeys)]
<1>00. PICK s \in Seq(Codes) : s = NewKeys
    OBVIOUS
<1>0. PICK N \in Nat : N = Len(s)
    BY LenProperties
<1>1. \A n \in 1..N : StrokeOf(s[n]) \in Nat
    BY <1>00, <1>0 DEF Contents
<1>2. \A n \in 1..N, st \in Feeding : FeedCode(st, s[n]) \in Feeding
    BY <1>1, FeedCodeFeeds DEF FedBy
<1>3. Steps(ReportStep(s), N, Feeding)
    BY <1>0, <1>2 DEF Steps, ReportStep
<1>4. PICK b \in Feeding : b = [esc |-> e, key |-> None, stroke |-> 0]
    BY DEF Feeding
<1>5. PICK g : Run(g, b, ReportStep(s), N, Feeding)
    BY <1>3, Iterates
<1>6. g \in [0..N -> Feeding] /\ g[0] = b
    BY <1>5 DEF Run
<1>7. \A n \in 1..N : g[n] = FeedCode(g[n - 1], s[n])
    <2> SUFFICES ASSUME NEW n \in 1..N PROVE g[n] = FeedCode(g[n - 1], s[n])
        OBVIOUS
    <2>1. n - 1 \in 0..N
        OBVIOUS
    <2>2. g[n - 1] \in Feeding /\ g[n] = ReportStep(s)[n][g[n - 1]]
        BY <1>5, <2>1 DEF Run
    <2>3. QED
        BY <1>0, <2>2 DEF ReportStep
<1> DEFINE Body(f) == [n \in 0..Len(s) |->
                         IF n = 0 THEN [esc |-> e, key |-> None, stroke |-> 0]
                         ELSE FeedCode(f[n - 1], s[n])]
           After == CHOOSE f : f = Body(f)
<1>8. g = Body(g)
    <2>1. ASSUME NEW n \in 0..N PROVE g[n] = Body(g)[n]
        <3>1. CASE n = 0
            BY <1>0, <1>4, <1>6, <3>1
        <3>2. CASE n # 0
            <4>1. n \in 1..N
                BY <3>2
            <4>2. QED
                BY <1>0, <1>7, <3>2, <4>1
        <3>3. QED
            BY <3>1, <3>2
    <2>2. DOMAIN g = 0..N /\ g = [n \in 0..N |-> g[n]]
        BY <1>6
    <2>3. QED
        BY <1>0, <2>1, <2>2
<1>9. After = Body(After)
    BY <1>8
<1>10. FeedReport(e) = After[Len(s)]
    BY <1>00 DEF FeedReport
<1> HIDE DEF After
<1>11. \A n \in 0..N : After[n] = g[n]
    <2> DEFINE P == {n \in 0..N : After[n] = g[n]}
    <2>1. 0 \in P
        BY <1>0, <1>8, <1>9
    <2>2. ASSUME NEW n \in 0..N - 1, n \in P PROVE n + 1 \in P
        <3>1. n + 1 \in 0..N /\ n + 1 # 0 /\ (n + 1) - 1 = n
            OBVIOUS
        <3>2. After[n + 1] = FeedCode(After[n], s[n + 1]) /\ g[n + 1] = FeedCode(g[n], s[n + 1])
            BY <1>0, <1>8, <1>9, <3>1
        <3>3. QED
            BY <2>2, <3>1, <3>2
    <2> HIDE DEF P
    <2>3. \A n \in 0..N : n \in P
        BY <2>1, <2>2, UpTo
    <2>4. QED
        BY <2>3 DEF P
<1>12. QED
    BY <1>00, <1>0, <1>4, <1>6, <1>7, <1>10, <1>11 DEF FeedsCodes

(* A report leaves the decoder as it was or between two sequences, and the *)
(* key it completes, if any, is that of one of its new codes.              *)
LEMMA ReportActsAsMeant ==
    ASSUME NEW e \in 0..2, NewKeys \in Seq(Codes), \A c \in Contents(NewKeys) : StrokeOf(c) \in Nat
    PROVE  /\ FeedReport(e) \in Feeding
           /\ FeedReport(e).esc \in {e, 0}
           /\ FeedReport(e).key # None => FeedReport(e).esc = 0
           /\ FeedReport(e).key # None =>
                  \E c \in Contents(NewKeys) :
                      FeedReport(e).key = Meaning(c) /\ FeedReport(e).stroke = StrokeOf(c)
<1>00. PICK s \in Seq(Codes) : s = NewKeys
    OBVIOUS
<1>0. PICK N \in Nat : N = Len(s)
    BY LenProperties
<1>1. PICK g \in [0..N -> Feeding] : FeedsCodes(g, e, s) /\ FeedReport(e) = g[N]
    BY <1>00, <1>0, FeedReportRuns
<1> DEFINE Good(x) == /\ x.esc \in {e, 0}
                      /\ x.key # None => x.esc = 0
                      /\ x.key # None => \E c \in Contents(s) : x.key = Meaning(c) /\ x.stroke = StrokeOf(c)
           P == {n \in 0..N : Good(g[n])}
<1>2. 0 \in P
    <2>1. g[0] = [esc |-> e, key |-> None, stroke |-> 0]
        BY <1>1 DEF FeedsCodes
    <2>2. g[0].esc = e /\ g[0].key = None
        BY <2>1
    <2>3. Good(g[0])
        BY <2>2
    <2> HIDE DEF Good
    <2>4. QED
        BY <2>3
<1>3. ASSUME NEW n \in 0..N - 1, n \in P PROVE n + 1 \in P
    <2>1. n + 1 \in 1..N /\ (n + 1) - 1 = n /\ n \in 0..N /\ n + 1 \in 0..N
        OBVIOUS
    <2>2. PICK st \in Feeding, x \in Feeding : st = g[n] /\ x = g[n + 1]
        BY <2>1
    <2>3. PICK c \in Contents(s) : c = s[n + 1]
        BY <1>0, <2>1 DEF Contents
    <2>4. x = FeedCode(st, c)
        BY <1>0, <1>1, <2>1, <2>2, <2>3 DEF FeedsCodes
    <2>5. StrokeOf(c) \in Nat
        BY <1>00
    <2>6. FedBy(st, x, c)
        BY <2>4, <2>5, FeedCodeFeeds
    <2>7. Good(st)
        BY <1>3, <2>2
    <2>8. Good(x)
        BY <2>6, <2>7 DEF FedBy
    <2> HIDE DEF Good
    <2>9. QED
        BY <2>1, <2>2, <2>8
<1> HIDE DEF P
<1>4. \A n \in 0..N : n \in P
    BY <1>2, <1>3, UpTo
<1>5. Good(g[N]) /\ g[N] \in Feeding
    BY <1>4 DEF P
<1>6. QED
    BY <1>00, <1>1, <1>5

-----------------------------------------------------------------------------
(* The bytes on their way, in the FIFO and behind it on the wire, are in   *)
(* the order in which they were typed.  Of one keystroke, what comes       *)
(* before another byte is not its last, and what comes after not its first. *)
Before(h, x, y) ==
    \/ x.stroke < y.stroke
    \/ /\ x.stroke = y.stroke
       /\ x.byte # LastByte(h[x.stroke]) /\ y.byte # FirstByte(h[y.stroke])

Pairwise(h, s) == \A i, j \in 1..Len(s) : i < j => Before(h, s[i], s[j])

Across(h, s, t) == \A i \in 1..Len(s), j \in 1..Len(t) : Before(h, s[i], t[j])

Ordered(h, s, t) == Pairwise(h, s) /\ Pairwise(h, t) /\ Across(h, s, t)

LEMMA ContentsOf ==
    ASSUME NEW A, NEW s \in Seq(A)
    PROVE  /\ Contents(s) \subseteq A
           /\ s = <<>> => Contents(s) = {}
           /\ Range(s) = Contents(s)
<1>1. Len(s) \in Nat /\ DOMAIN s = 1..Len(s) /\ \A i \in 1..Len(s) : s[i] \in A
    BY LenProperties, ElementOfSeq
<1>2. s = <<>> => Len(s) = 0
    BY EmptySeq
<1>3. QED
    BY <1>1, <1>2 DEF Contents, Range

(* A byte is taken from the front. *)
LEMMA HeadTail ==
    ASSUME NEW A, NEW s \in Seq(A), s # <<>>
    PROVE  /\ Head(s) \in A /\ Tail(s) \in Seq(A) /\ Head(s) \in Contents(s)
           /\ Len(Tail(s)) = Len(s) - 1 /\ Len(s) >= 1 /\ Len(s) \in Nat /\ Head(s) = s[1]
           /\ \A i \in 1..Len(Tail(s)) : i + 1 \in 1..Len(s) /\ Tail(s)[i] = s[i + 1]
           /\ Contents(Tail(s)) \subseteq Contents(s)
<1>1. /\ Head(s) \in A /\ Head(s) = s[1] /\ Tail(s) \in Seq(A)
      /\ Len(Tail(s)) = Len(s) - 1
      /\ \A i \in 1..Len(Tail(s)) : Tail(s)[i] = s[i + 1]
    BY HeadTailProperties
<1>2. Len(s) \in Nat /\ Len(s) >= 1
    BY EmptySeq, LenProperties
<1>3. 1 \in 1..Len(s) /\ \A i \in 1..Len(Tail(s)) : i + 1 \in 1..Len(s)
    BY <1>1, <1>2
<1>4. Contents(Tail(s)) \subseteq Contents(s)
    BY <1>1, <1>3 DEF Contents
<1>5. QED
    BY <1>1, <1>2, <1>3, <1>4 DEF Contents

LEMMA TailOrdered ==
    ASSUME NEW A, NEW s \in Seq(A), NEW t \in Seq(A), NEW h, Ordered(h, s, t), s # <<>>
    PROVE  /\ Ordered(h, Tail(s), t)
           /\ \A x \in Contents(Tail(s)) \cup Contents(t) : Before(h, Head(s), x)
<1>1. PICK u \in Seq(A), N \in Nat, b \in A : u = Tail(s) /\ N = Len(u) /\ b = Head(s)
    BY HeadTail, LenProperties
<1>2. Len(s) = N + 1 /\ \A i \in 1..N : i + 1 \in 1..(N + 1) /\ u[i] = s[i + 1]
    BY <1>1, HeadTail
<1>3. b = s[1] /\ 1 \in 1..(N + 1)
    BY <1>1, HeadTail
<1>4. Pairwise(h, u)
    <2>1. ASSUME NEW i \in 1..N, NEW j \in 1..N, i < j PROVE Before(h, u[i], u[j])
        <3>1. i + 1 < j + 1 /\ i + 1 \in 1..Len(s) /\ j + 1 \in 1..Len(s)
            BY <1>2, <2>1
        <3>2. Before(h, s[i + 1], s[j + 1])
            BY <3>1 DEF Ordered, Pairwise
        <3>3. QED
            BY <1>2, <3>2
    <2>2. QED
        BY <1>1, <2>1 DEF Pairwise
<1>5. Across(h, u, t)
    <2>1. ASSUME NEW i \in 1..N, NEW j \in 1..Len(t) PROVE Before(h, u[i], t[j])
        <3>1. i + 1 \in 1..Len(s) /\ u[i] = s[i + 1]
            BY <1>2
        <3>2. Before(h, s[i + 1], t[j])
            BY <3>1 DEF Ordered, Across
        <3>3. QED
            BY <3>1, <3>2
    <2>2. QED
        BY <1>1, <2>1 DEF Across
<1>6. \A x \in Contents(u) : Before(h, b, x)
    <2>1. ASSUME NEW i \in 1..N PROVE Before(h, b, u[i])
        <3>1. 1 < i + 1 /\ 1 \in 1..Len(s) /\ i + 1 \in 1..Len(s)
            BY <1>2, <1>3
        <3>2. Before(h, s[1], s[i + 1])
            BY <3>1 DEF Ordered, Pairwise
        <3>3. QED
            BY <1>2, <1>3, <3>2
    <2>2. QED
        BY <1>1, <2>1 DEF Contents
<1>7. \A x \in Contents(t) : Before(h, b, x)
    BY <1>2, <1>3 DEF Ordered, Across, Contents
<1>8. QED
    BY <1>1, <1>4, <1>5, <1>6, <1>7 DEF Ordered

(* A byte on the wire is lost. *)
LEMMA LossOrdered ==
    ASSUME NEW A, NEW s \in Seq(A), NEW t \in Seq(A), NEW h, Ordered(h, s, t), t # <<>>
    PROVE  Ordered(h, s, Tail(t))
<1>1. PICK u \in Seq(A), N \in Nat : u = Tail(t) /\ N = Len(u)
    BY HeadTail, LenProperties
<1>2. \A i \in 1..N : i + 1 \in 1..Len(t) /\ u[i] = t[i + 1]
    BY <1>1, HeadTail
<1>3. Pairwise(h, u)
    <2>1. ASSUME NEW i \in 1..N, NEW j \in 1..N, i < j PROVE Before(h, u[i], u[j])
        <3>1. i + 1 < j + 1 /\ i + 1 \in 1..Len(t) /\ j + 1 \in 1..Len(t)
            BY <1>2, <2>1
        <3>2. Before(h, t[i + 1], t[j + 1])
            BY <3>1 DEF Ordered, Pairwise
        <3>3. QED
            BY <1>2, <3>2
    <2>2. QED
        BY <1>1, <2>1 DEF Pairwise
<1>4. Across(h, s, u)
    BY <1>1, <1>2 DEF Ordered, Across
<1>5. QED
    BY <1>1, <1>3, <1>4 DEF Ordered

(* A byte arrives. *)
LEMMA ArrivalOrdered ==
    ASSUME NEW A, NEW s \in Seq(A), NEW t \in Seq(A), NEW h, Ordered(h, s, t), t # <<>>
    PROVE  /\ Ordered(h, Append(s, Head(t)), Tail(t))
           /\ Append(s, Head(t)) \in Seq(A)
           /\ Len(Append(s, Head(t))) = Len(s) + 1
           /\ Contents(Append(s, Head(t))) \subseteq Contents(s) \cup Contents(t)
<1>1. PICK b \in A, N \in Nat : b = Head(t) /\ b = t[1] /\ N = Len(s)
    BY HeadTail, LenProperties
<1>2. PICK v \in Seq(A) : v = Append(s, b)
    BY AppendProperties
<1>3. Len(v) = N + 1 /\ v[N + 1] = b /\ \A i \in 1..N : v[i] = s[i]
    BY <1>1, <1>2, AppendProperties
<1>4. Ordered(h, s, Tail(t))
    BY LossOrdered
<1>5. PICK u \in Seq(A) : u = Tail(t)
    BY HeadTail
<1>6. 1 \in 1..Len(t) /\ \A i \in 1..Len(u) : i + 1 \in 1..Len(t) /\ u[i] = t[i + 1] /\ 1 < i + 1
    <2>1. Len(u) \in Nat /\ Len(t) \in Nat /\ Len(u) = Len(t) - 1 /\ Len(t) >= 1
        BY <1>5, HeadTail
    <2>2. QED
        BY <1>5, <2>1, HeadTail
<1>7. Pairwise(h, v)
    <2>1. ASSUME NEW i \in 1..(N + 1), NEW j \in 1..(N + 1), i < j PROVE Before(h, v[i], v[j])
        <3>1. i \in 1..N /\ v[i] = s[i]
            BY <1>3, <2>1
        <3>2. CASE j = N + 1
            BY <1>1, <1>3, <1>6, <3>1, <3>2 DEF Ordered, Across
        <3>3. CASE j # N + 1
            <4>1. j \in 1..N /\ v[j] = s[j]
                BY <1>3, <3>3
            <4>2. QED
                BY <1>1, <2>1, <3>1, <4>1 DEF Ordered, Pairwise
        <3>4. QED
            BY <3>2, <3>3
    <2>2. QED
        BY <1>3, <2>1 DEF Pairwise
<1>8. Across(h, v, u)
    <2>1. ASSUME NEW i \in 1..(N + 1), NEW j \in 1..Len(u) PROVE Before(h, v[i], u[j])
        <3>1. CASE i = N + 1
            BY <1>1, <1>3, <1>6, <3>1 DEF Ordered, Pairwise
        <3>2. CASE i # N + 1
            <4>1. i \in 1..N /\ v[i] = s[i]
                BY <1>3, <3>2
            <4>2. QED
                BY <1>1, <1>4, <1>5, <4>1 DEF Ordered, Across
        <3>3. QED
            BY <3>1, <3>2
    <2>2. QED
        BY <1>3, <2>1 DEF Across
<1>9. Contents(v) \subseteq Contents(s) \cup Contents(t)
    <2>1. ASSUME NEW i \in 1..(N + 1) PROVE v[i] \in Contents(s) \cup Contents(t)
        <3>1. CASE i = N + 1
            BY <1>1, <1>3, <1>6, <3>1 DEF Contents
        <3>2. CASE i # N + 1
            <4>1. i \in 1..Len(s) /\ v[i] = s[i]
                BY <1>1, <1>3, <3>2
            <4>2. QED
                BY <4>1 DEF Contents
        <3>3. QED
            BY <3>1, <3>2
    <2>2. QED
        BY <1>3, <2>1 DEF Contents
<1>10. QED
    BY <1>1, <1>2, <1>3, <1>4, <1>5, <1>7, <1>8, <1>9 DEF Ordered

(* Bytes are typed, after all the others. *)
LEMMA TypingOrdered ==
    ASSUME NEW A, NEW s \in Seq(A), NEW t \in Seq(A), NEW u \in Seq(A), NEW h,
           Ordered(h, s, t), Pairwise(h, u),
           \A x \in Contents(s) \cup Contents(t), y \in Contents(u) : Before(h, x, y)
    PROVE  /\ Ordered(h, s, t \o u)
           /\ t \o u \in Seq(A)
           /\ Contents(t \o u) \subseteq Contents(t) \cup Contents(u)
<1>1. PICK M \in Nat, N \in Nat : M = Len(t) /\ N = Len(u)
    BY LenProperties
<1>2. PICK v \in Seq(A) : v = t \o u
    BY ConcatProperties
<1>3. Len(v) = M + N /\ (\A i \in 1..M : v[i] = t[i]) /\ (\A i \in 1..N : v[M + i] = u[i])
    BY <1>1, <1>2, ConcatProperties
<1>4. \A i \in 1..(M + N) : (i \in 1..M /\ v[i] = t[i]) \/ (i - M \in 1..N /\ v[i] = u[i - M])
    <2>1. ASSUME NEW i \in 1..(M + N)
          PROVE  (i \in 1..M /\ v[i] = t[i]) \/ (i - M \in 1..N /\ v[i] = u[i - M])
        <3>1. CASE i <= M
            BY <1>3, <3>1
        <3>2. CASE i > M
            <4>1. i - M \in 1..N /\ M + (i - M) = i
                BY <3>2
            <4>2. QED
                BY <1>3, <4>1
        <3>3. QED
            BY <3>1, <3>2
    <2>2. QED
        BY <2>1
<1>5. /\ \A i \in 1..M : t[i] \in Contents(t)
      /\ \A i \in 1..N : u[i] \in Contents(u)
      /\ \A i \in 1..Len(s) : s[i] \in Contents(s)
    BY <1>1 DEF Contents
<1>6. Pairwise(h, v)
    <2>1. ASSUME NEW i \in 1..(M + N), NEW j \in 1..(M + N), i < j PROVE Before(h, v[i], v[j])
        <3>1. CASE i \in 1..M /\ v[i] = t[i] /\ j \in 1..M /\ v[j] = t[j]
            BY <1>1, <2>1, <3>1 DEF Ordered, Pairwise
        <3>2. CASE i \in 1..M /\ v[i] = t[i] /\ j - M \in 1..N /\ v[j] = u[j - M]
            BY <1>5, <3>2
        <3>3. CASE i - M \in 1..N /\ v[i] = u[i - M] /\ j - M \in 1..N /\ v[j] = u[j - M]
            <4>1. i - M < j - M
                BY <2>1
            <4>2. QED
                BY <1>1, <3>3, <4>1 DEF Pairwise
        <3>4. ~ (i - M \in 1..N /\ j \in 1..M)
            BY <2>1
        <3>5. QED
            BY <1>4, <3>1, <3>2, <3>3, <3>4
    <2>2. QED
        BY <1>3, <2>1 DEF Pairwise
<1>7. Across(h, s, v)
    <2>1. ASSUME NEW i \in 1..Len(s), NEW j \in 1..(M + N) PROVE Before(h, s[i], v[j])
        <3>1. CASE j \in 1..M /\ v[j] = t[j]
            BY <1>1, <3>1 DEF Ordered, Across
        <3>2. CASE j - M \in 1..N /\ v[j] = u[j - M]
            BY <1>5, <3>2
        <3>3. QED
            BY <1>4, <3>1, <3>2
    <2>2. QED
        BY <1>3, <2>1 DEF Across
<1>8. Contents(v) \subseteq Contents(t) \cup Contents(u)
    <2>1. \A i \in 1..(M + N) : v[i] \in Contents(t) \cup Contents(u)
        BY <1>4, <1>5
    <2>2. QED
        BY <1>3, <2>1 DEF Contents
<1>9. QED
    BY <1>2, <1>6, <1>7, <1>8 DEF Ordered

-----------------------------------------------------------------------------
(* Types.  Outside the menu's own loop its decoder is between sequences.   *)
Act == [key : Key, stroke : Nat]

MenuTypes ==
    /\ TypeOK
    /\ fifo \in Seq(PipeByte) /\ wire \in Seq(PipeByte)
    /\ strokes \in Seq(Keystrokes \cup Codes)
    /\ acts \in Seq(Act)
    /\ down \in Seq(Codes)
    /\ screen # "menu" => esc = 0

LEMMA NewCodes ==
    ASSUME down \in Seq(Codes)
    PROVE  NewKeys \in Seq(Codes) /\ Contents(NewKeys) \subseteq Contents(down) \ prev
<1>1. PICK s \in Seq(Codes) : s = NewKeys
    BY AmongIn DEF NewKeys
<1>2. \A m \in 1..Len(s) : \E n \in 1..Len(down) : s[m] = down[n] /\ down[n] \in Codes \ prev
    BY <1>1, AmongIn DEF NewKeys
<1>3. QED
    BY <1>1, <1>2 DEF Contents

LEMMA KeyUpKeeps ==
    ASSUME down \in Seq(Codes), NEW c, KeyUp(c)
    PROVE  /\ down' \in Seq(Codes) /\ Contents(down') \subseteq Contents(down)
           /\ prev' = prev /\ c \in Contents(down)
<1>1. PICK s \in Seq(Codes) : s = down'
    BY AmongIn DEF KeyUp
<1>2. \A m \in 1..Len(s) : \E n \in 1..Len(down) : s[m] = down[n] /\ down[n] \in Codes \ {c}
    BY <1>1, AmongIn DEF KeyUp
<1>3. Range(down) = Contents(down)
    BY ContentsOf
<1>4. Contents(s) \subseteq Contents(down)
    BY <1>2 DEF Contents
<1>5. QED
    BY <1>1, <1>3, <1>4 DEF KeyUp

LEMMA KeyDownAdds ==
    ASSUME down \in Seq(Codes), NEW c \in Codes, KeyDown(c)
    PROVE  /\ down' \in Seq(Codes) /\ Contents(down') \subseteq Contents(down) \cup {c}
           /\ prev' = prev
<1>1. PICK s \in Seq(Codes) : s = down' /\ s = Append(down, c)
    BY AppendProperties DEF KeyDown
<1>2. PICK N \in Nat : N = Len(down)
    BY LenProperties
<1>3. Len(s) = N + 1 /\ s[N + 1] = c /\ \A n \in 1..N : s[n] = down[n]
    BY <1>1, <1>2, AppendProperties
<1>4. \A n \in 1..(N + 1) : s[n] \in Contents(down) \cup {c}
    <2>1. ASSUME NEW n \in 1..(N + 1) PROVE s[n] \in Contents(down) \cup {c}
        <3>1. CASE n = N + 1
            BY <1>3, <3>1
        <3>2. CASE n # N + 1
            <4>1. n \in 1..Len(down) /\ s[n] = down[n]
                BY <1>2, <1>3, <3>2
            <4>2. QED
                BY <4>1 DEF Contents
        <3>3. QED
            BY <3>1, <3>2
    <2>2. QED
        BY <2>1
<1>5. Contents(s) \subseteq Contents(down) \cup {c}
    BY <1>3, <1>4 DEF Contents
<1>6. QED
    BY <1>1, <1>5 DEF KeyDown

(* When a code last went down. *)
LastDown(h, c, n) ==
    n \in DOMAIN h /\ h[n] = c /\ \A m \in DOMAIN h : h[m] = c => m <= n

LEMMA StrokeFound ==
    ASSUME strokes \in Seq(Keystrokes \cup Codes), NEW c, NEW n, LastDown(strokes, c, n)
    PROVE  StrokeOf(c) = n /\ n \in Nat
<1>1. DOMAIN strokes \subseteq Nat
    BY LenProperties
<1>2. PICK m : m = StrokeOf(c)
    OBVIOUS
<1>3. m \in DOMAIN strokes /\ strokes[m] = c /\ \A i \in DOMAIN strokes : strokes[i] = c => i <= m
    BY <1>2 DEF StrokeOf, LastDown
<1>4. n <= m /\ m <= n /\ n \in Nat /\ m \in Nat
    BY <1>1, <1>3 DEF LastDown
<1>5. QED
    BY <1>2, <1>4

Acted == {acts[i].stroke : i \in DOMAIN acts}

(* A key the next report brings was pressed, and has not been heard of.    *)
Unheard(c) == \E n \in DOMAIN strokes : LastDown(strokes, c, n) /\ n \notin ended /\ n \notin Acted

KeysUnheard == \A c \in Contents(down) \ prev : Unheard(c)

LEMMA NewKeysUnheard ==
    ASSUME MenuTypes, KeysUnheard
    PROVE  /\ NewKeys \in Seq(Codes)
           /\ \A c \in Contents(NewKeys) :
                  /\ c \in Codes /\ StrokeOf(c) \in Nat /\ StrokeOf(c) \in DOMAIN strokes
                  /\ strokes[StrokeOf(c)] = c
                  /\ StrokeOf(c) \notin ended /\ StrokeOf(c) \notin Acted
<1>1. down \in Seq(Codes) /\ strokes \in Seq(Keystrokes \cup Codes)
    BY DEF MenuTypes
<1>2. NewKeys \in Seq(Codes) /\ Contents(NewKeys) \subseteq Contents(down) \ prev
    BY <1>1, NewCodes
<1>3. ASSUME NEW c \in Contents(NewKeys)
      PROVE  /\ c \in Codes /\ StrokeOf(c) \in Nat /\ StrokeOf(c) \in DOMAIN strokes
             /\ strokes[StrokeOf(c)] = c
             /\ StrokeOf(c) \notin ended /\ StrokeOf(c) \notin Acted
    <2>1. c \in Codes
        BY <1>1, <1>2, ContentsOf
    <2>2. Unheard(c)
        BY <1>2 DEF KeysUnheard
    <2>3. PICK n \in DOMAIN strokes : LastDown(strokes, c, n) /\ n \notin ended /\ n \notin Acted
        BY <2>2 DEF Unheard
    <2>4. StrokeOf(c) = n /\ n \in Nat
        BY <1>1, <2>3, StrokeFound
    <2>5. QED
        BY <2>1, <2>3, <2>4 DEF LastDown
<1>4. QED
    BY <1>2, <1>3

(* A poll of either device, as the decoder sees it. *)
LEMMA PollResult ==
    ASSUME MenuTypes, KeysUnheard, NEW from \in 0..2, NEW e, NEW k, Poll(from, e, k)
    PROVE  e \in 0..2 /\ k \in Key \cup {None} /\ (k # None => e = 0)
<1>1. CASE PollUart(from, e, k)
    BY <1>1, DecodeByte DEF PollUart
<1>2. CASE PollKeyboard(from, e, k)
    <2>1. NewKeys \in Seq(Codes) /\ \A c \in Contents(NewKeys) : StrokeOf(c) \in Nat
        BY NewKeysUnheard
    <2>2. /\ FeedReport(from) \in Feeding
          /\ FeedReport(from).key # None => FeedReport(from).esc = 0
        BY <2>1, ReportActsAsMeant
    <2>3. QED
        BY <1>2, <2>2 DEF PollKeyboard, Feeding
<1>3. QED
    BY <1>1, <1>2 DEF Poll

(* Whichever screen polls, the decoder of the screen that is left to poll  *)
(* next is in the state this poll left.                                    *)
LEMMA ScreenPolls ==
    ASSUME esc \in 0..2, sesc \in 0..2, screen # "menu" => esc = 0,
           \A from \in 0..2, e \in 0..2, k \in Key \cup {None} : Poll(from, e, k) => (k # None => e = 0),
           MenuPoll \/ SettingsPoll
    PROVE  /\ \E k \in Key \cup {None} : Poll(Decoder, Decoder', k)
           /\ Decoder \in 0..2 /\ esc' \in 0..2 /\ sesc' \in 0..2
           /\ screen' # "menu" => esc' = 0
<1>1. esc \in 0..2 /\ sesc \in 0..2 /\ (screen # "menu" => esc = 0)
    OBVIOUS
<1>2. CASE MenuPoll
    <2>1. PICK e \in 0..2, k \in Key \cup {None} :
              screen = "menu" /\ Poll(esc, e, k) /\ esc' = e /\ MenuKey(k)
        BY <1>2 DEF MenuPoll
    <2>2. k # None => e = 0
        BY <1>1, <2>1
    <2>3. Decoder = esc
        BY <2>1 DEF Decoder
    <2>4. CASE k \in {"Up", "Down"} /\ Show("menu", selected', cfg) /\ UNCHANGED <<row, sesc>>
        <3>1. screen' = "menu" /\ sesc' = sesc
            BY <2>4 DEF Show
        <3>2. Decoder' = e
            BY <2>1, <3>1 DEF Decoder
        <3>3. QED
            BY <1>1, <2>1, <2>3, <3>1, <3>2
    <2>5. CASE k = "Enter" /\ sesc' = 0
        <3>1. esc' = 0 /\ sesc' = 0 /\ e = 0
            BY <2>1, <2>2, <2>5 DEF None
        <3>2. Decoder' = 0
            BY <3>1 DEF Decoder
        <3>3. QED
            BY <1>1, <2>1, <2>3, <3>1, <3>2
    <2>6. CASE UNCHANGED <<screen, selected, row, sesc, drawn>>
        <3>1. screen' = "menu" /\ sesc' = sesc
            BY <2>1, <2>6
        <3>2. Decoder' = e
            BY <2>1, <3>1 DEF Decoder
        <3>3. QED
            BY <1>1, <2>1, <2>3, <3>1, <3>2
    <2>7. QED
        BY <2>1, <2>4, <2>5, <2>6 DEF MenuKey
<1>3. CASE SettingsPoll
    <2>1. PICK e \in 0..2, k \in Key \cup {None} :
              /\ screen = "settings" /\ Poll(sesc, e, k) /\ sesc' = e /\ SettingsKey(k)
              /\ esc' = esc
        BY <1>3 DEF SettingsPoll
    <2>2. k # None => e = 0
        BY <1>1, <2>1
    <2>3. Decoder = sesc /\ esc = 0
        BY <1>1, <2>1 DEF Decoder
    <2>4. screen' = "settings" \/ (screen' = "menu" /\ k # None)
        BY <2>1 DEF SettingsKey, Show, None
    <2>5. Decoder' = e
        <3>1. CASE screen' = "settings"
            BY <2>1, <3>1 DEF Decoder
        <3>2. CASE screen' = "menu" /\ k # None
            BY <2>1, <2>2, <2>3, <3>2 DEF Decoder
        <3>3. QED
            BY <2>4, <3>1, <3>2
    <2>6. QED
        BY <1>1, <2>1, <2>3, <2>5
<1>4. QED
    BY <1>2, <1>3

-----------------------------------------------------------------------------
(* The inductive invariant behind StrokesActAsMeant.                       *)
InPipe == Contents(fifo) \cup Contents(wire)

(* A byte on its way is one of the keystroke it is numbered with. *)
Owned(h, x) ==
    /\ x.stroke \in DOMAIN h /\ h[x.stroke] \in Keystrokes
    /\ x.byte \in Contents(BytesOf(h[x.stroke]))

Owners == \A x \in InPipe : Owned(strokes, x)

(* Nothing is left of a keystroke that has acted. *)
ActedGone == \A x \in InPipe : x.stroke \notin Acted

(* Nothing older is left than a keystroke that ended a wait, and what is   *)
(* left of that one will be read between two sequences, without its start. *)
EndedFirst == \A n \in ended, x \in InPipe : strokes[n] \in Keystrokes => n <= x.stroke

EndedSilent ==
    \A x \in InPipe :
        x.stroke \in ended => x.byte # FirstByte(strokes[x.stroke]) /\ Decoder = 0

PipeInv == Ordered(strokes, fifo, wire) /\ Owners /\ ActedGone /\ EndedFirst /\ EndedSilent

MenuInv == MenuTypes /\ PipeInv /\ KeysUnheard /\ StrokesActAsMeant

LEMMA PipeTypes ==
    ASSUME MenuTypes
    PROVE  /\ \A x \in InPipe : x \in PipeByte /\ x.stroke \in Nat
           /\ DOMAIN strokes \subseteq Nat /\ DOMAIN strokes = 1..Len(strokes) /\ Len(strokes) \in Nat
           /\ Acted \subseteq DOMAIN strokes /\ ended \subseteq DOMAIN strokes
           /\ DOMAIN acts = 1..Len(acts) /\ Len(acts) \in Nat
<1>1. /\ fifo \in Seq(PipeByte) /\ wire \in Seq(PipeByte)
      /\ strokes \in Seq(Keystrokes \cup Codes) /\ acts \in Seq(Act)
    BY DEF MenuTypes
<1>2. InPipe \subseteq PipeByte
    BY <1>1, ContentsOf DEF InPipe
<1>3. \A x \in InPipe : x.stroke \in Nat
    BY <1>2 DEF PipeByte
<1>4. Acted \subseteq DOMAIN strokes /\ ended \subseteq DOMAIN strokes
    BY DEF MenuTypes, TypeOK, Acted
<1>5. QED
    BY <1>1, <1>2, <1>3, <1>4, LenProperties

(* Bytes that only leave the pipe take nothing away from the invariant. *)
LEMMA PipeShrinks ==
    ASSUME PipeInv, InPipe' \subseteq InPipe, Ordered(strokes, fifo', wire'),
           UNCHANGED <<strokes, acts, ended>>, Decoder' = Decoder
    PROVE  PipeInv'
<1>1. Owners'
    BY DEF PipeInv, Owners, Owned
<1>2. Acted' = Acted
    BY DEF Acted
<1>3. ActedGone'
    BY <1>2 DEF PipeInv, ActedGone
<1>4. EndedFirst'
    BY DEF PipeInv, EndedFirst
<1>5. EndedSilent'
    BY DEF PipeInv, EndedSilent
<1>6. Ordered(strokes, fifo, wire)'
    OBVIOUS
<1>7. QED
    BY <1>1, <1>3, <1>4, <1>5, <1>6 DEF PipeInv

LEMMA KeysStayUnheard ==
    ASSUME KeysUnheard, Contents(down)' \subseteq Contents(down), prev' = prev \/ Contents(down)' \subseteq prev',
           UNCHANGED <<strokes, acts, ended>>
    PROVE  KeysUnheard'
<1>1. Acted' = Acted
    BY DEF Acted
<1>2. \A c : Unheard(c) => Unheard(c)'
    BY <1>1 DEF Unheard, LastDown
<1>3. QED
    BY <1>2 DEF KeysUnheard

(* The FIFO's first byte is read: the rest is behind it. *)
LEMMA ByteRead ==
    ASSUME MenuTypes, PipeInv, fifo # <<>>, fifo' = Tail(fifo), wire' = wire
    PROVE  /\ Head(fifo) \in InPipe /\ Head(fifo) \in PipeByte /\ InPipe' \subseteq InPipe
           /\ Ordered(strokes, fifo', wire')
           /\ fifo' \in Seq(PipeByte) /\ Len(fifo') <= FifoDepth
           /\ \A x \in InPipe' : Before(strokes, Head(fifo), x)
<1>1. fifo \in Seq(PipeByte) /\ wire \in Seq(PipeByte) /\ Len(fifo) <= FifoDepth
    BY DEF MenuTypes, TypeOK
<1>2. /\ Head(fifo) \in PipeByte /\ Tail(fifo) \in Seq(PipeByte) /\ Head(fifo) \in Contents(fifo)
      /\ Contents(Tail(fifo)) \subseteq Contents(fifo)
      /\ Len(Tail(fifo)) = Len(fifo) - 1 /\ Len(fifo) \in Nat
    BY <1>1, HeadTail
<1>3. /\ Ordered(strokes, Tail(fifo), wire)
      /\ \A x \in Contents(Tail(fifo)) \cup Contents(wire) : Before(strokes, Head(fifo), x)
    BY <1>1, TailOrdered DEF PipeInv
<1>4. Len(Tail(fifo)) <= FifoDepth
    BY <1>1, <1>2, MenuAssumption
<1>5. QED
    BY <1>2, <1>3, <1>4 DEF InPipe

(* A key is resolved, or none. *)
LEMMA ResolvedActs ==
    ASSUME MenuTypes, NEW k \in Key \cup {None}, NEW n \in Nat, Resolved(k, n)
    PROVE  /\ acts' \in Seq(Act)
           /\ k = None => acts' = acts /\ Acted' = Acted
           /\ k # None => /\ Acted' = Acted \cup {n}
                          /\ DOMAIN acts' = 1..(Len(acts) + 1)
                          /\ acts'[Len(acts) + 1] = [key |-> k, stroke |-> n]
                          /\ \A i \in 1..Len(acts) : acts'[i] = acts[i]
<1>1. acts \in Seq(Act)
    BY DEF MenuTypes
<1>2. CASE k = None
    BY <1>1, <1>2 DEF Resolved, Acted
<1>3. CASE k # None
    <2>1. PICK a \in Act : a = [key |-> k, stroke |-> n]
        BY <1>3 DEF Act
    <2>2. acts' = Append(acts, a)
        BY <1>3, <2>1 DEF Resolved
    <2>3. PICK N \in Nat : N = Len(acts)
        BY <1>1, LenProperties
    <2>4. /\ acts' \in Seq(Act) /\ Len(acts') = N + 1 /\ acts'[N + 1] = a
          /\ \A i \in 1..N : acts'[i] = acts[i]
        BY <1>1, <2>2, <2>3, AppendProperties
    <2>5. DOMAIN acts' = 1..(N + 1) /\ DOMAIN acts = 1..N
        BY <1>1, <2>3, <2>4, LenProperties
    <2>6. Acted' = Acted \cup {n}
        <3>1. a.stroke = n
            BY <2>1
        <3>2. \A i \in 1..(N + 1) : i \in 1..N \/ i = N + 1
            OBVIOUS
        <3>3. N + 1 \in 1..(N + 1) /\ \A i \in 1..N : i \in 1..(N + 1)
            OBVIOUS
        <3>4. Acted' = {acts'[i].stroke : i \in 1..(N + 1)} /\ Acted = {acts[i].stroke : i \in 1..N}
            BY <2>5 DEF Acted
        <3>5. QED
            BY <2>4, <3>1, <3>2, <3>3, <3>4
    <2>7. QED
        BY <1>3, <2>1, <2>3, <2>4, <2>5, <2>6
<1>4. QED
    BY <1>2, <1>3

(* The history is extended by a key as it was meant, of a stroke that had  *)
(* not acted and had not ended a wait.                                     *)
LEMMA ActsStayAsMeant ==
    ASSUME MenuTypes, StrokesActAsMeant, NEW k \in Key \cup {None}, NEW n \in Nat, Resolved(k, n),
           k # None => k \in Senses(strokes[n]) /\ n \notin Acted /\ n \notin ended
    PROVE  StrokesActAsMeant'
<1>1. strokes' = strokes /\ ended' = ended
    BY DEF Resolved
<1>2. CASE k = None
    <2>1. acts' = acts
        BY <1>2, ResolvedActs
    <2>2. QED
        BY <1>1, <2>1 DEF StrokesActAsMeant
<1>3. CASE k # None
    <2>1. PICK N \in Nat : N = Len(acts) /\ DOMAIN acts = 1..N
        BY PipeTypes
    <2>2. /\ DOMAIN acts' = 1..(N + 1)
          /\ acts'[N + 1] = [key |-> k, stroke |-> n]
          /\ \A i \in 1..N : acts'[i] = acts[i]
        BY <1>3, <2>1, ResolvedActs
    <2>3. acts'[N + 1].key = k /\ acts'[N + 1].stroke = n
        BY <2>2
    <2>4. \A i \in 1..N : acts[i].stroke \in Acted
        BY <2>1 DEF Acted
    <2>5. \A i \in 1..(N + 1) : i \in 1..N \/ i = N + 1
        OBVIOUS
    <2>6. \A i \in DOMAIN acts' : acts'[i].key \in Senses(strokes[acts'[i].stroke])
        BY <1>3, <2>1, <2>2, <2>3, <2>5 DEF StrokesActAsMeant
    <2>7. \A i, j \in DOMAIN acts' : acts'[i].stroke = acts'[j].stroke => i = j
        <3>1. ASSUME NEW i \in 1..(N + 1), NEW j \in 1..(N + 1), acts'[i].stroke = acts'[j].stroke
              PROVE  i = j
            <4>1. CASE i = N + 1 /\ j \in 1..N
                BY <1>3, <2>2, <2>3, <2>4, <3>1, <4>1
            <4>2. CASE j = N + 1 /\ i \in 1..N
                BY <1>3, <2>2, <2>3, <2>4, <3>1, <4>2
            <4>3. CASE i \in 1..N /\ j \in 1..N
                BY <2>1, <2>2, <3>1, <4>3 DEF StrokesActAsMeant
            <4>4. QED
                BY <2>5, <4>1, <4>2, <4>3
        <3>2. QED
            BY <2>2, <3>1
    <2>8. \A i \in DOMAIN acts' : acts'[i].stroke \notin ended
        BY <1>3, <2>1, <2>2, <2>3, <2>5 DEF StrokesActAsMeant
    <2>9. QED
        BY <1>1, <2>6, <2>7, <2>8 DEF StrokesActAsMeant
<1>4. QED
    BY <1>2, <1>3

(* What a keystroke does does not concern the keys of the keyboard. *)
LEMMA KeysUnheardBySerial ==
    ASSUME MenuTypes, KeysUnheard, UNCHANGED <<down, prev, strokes>>,
           NEW n, n \in DOMAIN strokes, strokes[n] \in Keystrokes,
           Acted' \subseteq Acted \cup {n}, ended' \subseteq ended \cup {n}
    PROVE  KeysUnheard'
<1>1. Contents(down) \subseteq Codes
    BY ContentsOf DEF MenuTypes
<1>2. ASSUME NEW c \in Codes, Unheard(c) PROVE Unheard(c)'
    <2>1. PICK m \in DOMAIN strokes : LastDown(strokes, c, m) /\ m \notin ended /\ m \notin Acted
        BY <1>2 DEF Unheard
    <2>2. strokes[m] = c
        BY <2>1 DEF LastDown
    <2>3. m # n
        BY <2>2, MenuAssumption
    <2>4. m \notin ended' /\ m \notin Acted'
        BY <2>1, <2>3
    <2>5. QED
        BY <2>1, <2>4 DEF Unheard
<1>3. QED
    BY <1>1, <1>2 DEF KeysUnheard

LEMMA UartPollKeeps ==
    ASSUME MenuInv, NEW e, NEW k, PollUart(Decoder, e, k),
           Decoder \in 0..2, Decoder' = e
    PROVE  PipeInv' /\ KeysUnheard' /\ StrokesActAsMeant' /\ acts' \in Seq(Act)
           /\ fifo' \in Seq(PipeByte) /\ Len(fifo') <= FifoDepth /\ Acted' \subseteq DOMAIN strokes
<1>0. /\ MenuTypes /\ PipeInv /\ KeysUnheard /\ StrokesActAsMeant
      /\ Owners /\ ActedGone /\ EndedFirst /\ EndedSilent
    BY DEF MenuInv, PipeInv
<1>1. PICK x0 : x0 = Head(fifo)
    OBVIOUS
<1>2. /\ fifo # <<>> /\ e = EscAfter(Decoder, x0.byte) /\ k = KeyOf(Decoder, x0.byte)
      /\ fifo' = Tail(fifo) /\ Resolved(k, x0.stroke) /\ wire' = wire /\ strokes' = strokes /\ ended' = ended
      /\ down' = down /\ prev' = prev
    BY <1>1 DEF PollUart, Resolved, keyboardVars
<1>3. /\ x0 \in InPipe /\ InPipe' \subseteq InPipe
      /\ Ordered(strokes, fifo', wire') /\ fifo' \in Seq(PipeByte) /\ Len(fifo') <= FifoDepth
      /\ \A x \in InPipe' : Before(strokes, x0, x)
    BY <1>0, <1>1, <1>2, ByteRead
<1>4. PICK n, b : n \in Nat /\ n = x0.stroke /\ b = x0.byte
    BY <1>0, <1>3, PipeTypes
<1>5. n \in DOMAIN strokes /\ strokes[n] \in Keystrokes /\ b \in Contents(BytesOf(strokes[n]))
    BY <1>0, <1>3, <1>4 DEF Owners, Owned
<1>6. k \in Key \cup {None}
    BY <1>2, DecodeByte
<1>7. n \in ended => Decoder = 0 /\ e = 0 /\ k = None
    <2>1. n \in ended => b # FirstByte(strokes[n]) /\ Decoder = 0
        BY <1>0, <1>3, <1>4 DEF EndedSilent
    <2>2. QED
        BY <1>2, <1>4, <1>5, <2>1, TailsAreSilent
<1>8. k # None => b = LastByte(strokes[n]) /\ k \in Senses(strokes[n]) /\ n \notin Acted /\ n \notin ended
    <2>1. k # None => b = LastByte(strokes[n]) /\ k \in Senses(strokes[n])
        BY <1>2, <1>4, <1>5, ActsOnlyAsMeant
    <2>2. n \notin Acted
        BY <1>0, <1>3, <1>4 DEF ActedGone
    <2>3. QED
        BY <1>7, <2>1, <2>2
<1>9. StrokesActAsMeant' /\ acts' \in Seq(Act)
    BY <1>0, <1>2, <1>4, <1>6, <1>8, ActsStayAsMeant, ResolvedActs
<1>10. (k = None => Acted' = Acted) /\ (k # None => Acted' = Acted \cup {n})
    BY <1>0, <1>2, <1>4, <1>6, ResolvedActs
<1>11. \A x \in InPipe' : x.stroke \in Nat /\ n <= x.stroke /\ (n = x.stroke => b # LastByte(strokes[n]))
    <2>1. \A x \in InPipe' : x.stroke \in Nat
        BY <1>0, <1>3, PipeTypes
    <2>2. QED
        BY <1>3, <1>4, <2>1 DEF Before
<1>12. Owners'
    BY <1>0, <1>2, <1>3 DEF Owners, Owned
<1>13. ActedGone'
    <2>1. ASSUME NEW x \in InPipe' PROVE x.stroke \notin Acted'
        <3>1. x.stroke \notin Acted
            BY <1>0, <1>3 DEF ActedGone
        <3>2. k # None => x.stroke # n
            BY <1>8, <1>11
        <3>3. QED
            BY <1>10, <3>1, <3>2
    <2>2. QED
        BY <2>1 DEF ActedGone
<1>14. EndedFirst'
    BY <1>0, <1>2, <1>3 DEF EndedFirst
<1>15. EndedSilent'
    <2>1. ASSUME NEW x \in InPipe', x.stroke \in ended
          PROVE  x.byte # FirstByte(strokes[x.stroke]) /\ e = 0
        <3>1. x.byte # FirstByte(strokes[x.stroke])
            BY <1>0, <1>3, <2>1 DEF EndedSilent
        <3>2. strokes[x.stroke] \in Keystrokes
            BY <1>0, <1>3 DEF Owners, Owned
        <3>3. x.stroke <= n
            BY <1>0, <1>3, <1>4, <2>1, <3>2 DEF EndedFirst
        <3>4. x.stroke = n
            BY <1>4, <1>11, <3>3
        <3>5. QED
            BY <1>7, <2>1, <3>1, <3>4
    <2>2. QED
        BY <1>2, <2>1 DEF EndedSilent
<1>16. PipeInv'
    BY <1>2, <1>3, <1>12, <1>13, <1>14, <1>15 DEF PipeInv
<1>17. KeysUnheard'
    BY <1>0, <1>2, <1>5, <1>10, KeysUnheardBySerial
<1>18. Acted' \subseteq DOMAIN strokes
    BY <1>0, <1>5, <1>10, PipeTypes
<1>19. QED
    BY <1>3, <1>9, <1>16, <1>17, <1>18

(* Nothing in the pipe belongs to a keydown. *)
LEMMA NoCodeInPipe ==
    ASSUME MenuInv, NEW x \in InPipe
    PROVE  strokes[x.stroke] \notin Codes
BY MenuAssumption DEF MenuInv, PipeInv, Owners, Owned

(* A report is read: whatever it brings is no longer new. *)
LEMMA ReportRead ==
    ASSUME MenuTypes, TakeReport
    PROVE  down' = down /\ KeysUnheard'
<1>1. down \in Seq(Codes)
    BY DEF MenuTypes
<1>2. down' = down /\ prev' = Contents(down)
    BY <1>1, ContentsOf DEF TakeReport
<1>3. QED
    BY <1>2 DEF KeysUnheard

LEMMA KeyboardPollKeeps ==
    ASSUME MenuInv, NEW e, NEW k, PollKeyboard(Decoder, e, k),
           Decoder \in 0..2, Decoder' = e
    PROVE  PipeInv' /\ KeysUnheard' /\ StrokesActAsMeant' /\ acts' \in Seq(Act)
           /\ Acted' \subseteq DOMAIN strokes /\ down' = down
<1>0. /\ MenuTypes /\ PipeInv /\ KeysUnheard /\ StrokesActAsMeant
      /\ Owners /\ ActedGone /\ EndedFirst /\ EndedSilent
    BY DEF MenuInv, PipeInv
<1>1. PICK n : n = FeedReport(Decoder).stroke
    OBVIOUS
<1>2. /\ e = FeedReport(Decoder).esc /\ k = FeedReport(Decoder).key /\ Resolved(k, n) /\ TakeReport
      /\ fifo' = fifo /\ wire' = wire /\ strokes' = strokes /\ ended' = ended
    BY <1>1 DEF PollKeyboard, Resolved
<1>3. /\ NewKeys \in Seq(Codes)
      /\ \A c \in Contents(NewKeys) :
             /\ c \in Codes /\ StrokeOf(c) \in Nat /\ StrokeOf(c) \in DOMAIN strokes
             /\ strokes[StrokeOf(c)] = c
             /\ StrokeOf(c) \notin ended /\ StrokeOf(c) \notin Acted
    BY <1>0, NewKeysUnheard
<1>4. /\ FeedReport(Decoder) \in Feeding /\ e \in {Decoder, 0}
      /\ k # None => \E c \in Contents(NewKeys) : k = Meaning(c) /\ n = StrokeOf(c)
    BY <1>1, <1>2, <1>3, ReportActsAsMeant
<1>5. n \in Nat /\ k \in Key \cup {None}
    BY <1>1, <1>2, <1>4 DEF Feeding
<1>6. k # None => /\ n \in DOMAIN strokes /\ strokes[n] \in Codes /\ k \in Senses(strokes[n])
                  /\ n \notin ended /\ n \notin Acted
    BY <1>3, <1>4 DEF Senses
<1>7. StrokesActAsMeant' /\ acts' \in Seq(Act)
    BY <1>0, <1>2, <1>5, <1>6, ActsStayAsMeant, ResolvedActs
<1>8. (k = None => Acted' = Acted) /\ (k # None => Acted' = Acted \cup {n})
    BY <1>0, <1>2, <1>5, ResolvedActs
<1>9. KeysUnheard' /\ down' = down
    BY <1>0, <1>2, ReportRead
<1>10. InPipe' = InPipe
    BY <1>2 DEF InPipe
<1>11. Owners' /\ EndedFirst'
    BY <1>0, <1>2, <1>10 DEF Owners, Owned, EndedFirst
<1>12. ActedGone'
    <2>1. ASSUME NEW x \in InPipe PROVE x.stroke \notin Acted'
        <3>1. x.stroke \notin Acted
            BY <1>0 DEF ActedGone
        <3>2. k # None => x.stroke # n
            BY <1>6, NoCodeInPipe
        <3>3. QED
            BY <1>8, <3>1, <3>2
    <2>2. QED
        BY <1>10, <2>1 DEF ActedGone
<1>13. EndedSilent'
    BY <1>0, <1>2, <1>4, <1>10 DEF EndedSilent
<1>14. PipeInv'
    BY <1>0, <1>2, <1>11, <1>12, <1>13 DEF PipeInv
<1>15. Acted' \subseteq DOMAIN strokes
    BY <1>0, <1>6, <1>8, PipeTypes
<1>16. QED
    BY <1>7, <1>9, <1>14, <1>15

(* A byte ends a wait: nothing of it is left that could act. *)
LEMMA ByteEndsWait ==
    ASSUME MenuInv, fifo # <<>>, fifo' = Tail(fifo), UNCHANGED <<wire, strokes, acts, down, prev>>,
           ended' = ended \cup {Head(fifo).stroke}, Decoder' = 0
    PROVE  PipeInv' /\ KeysUnheard' /\ StrokesActAsMeant' /\ fifo' \in Seq(PipeByte)
           /\ Len(fifo') <= FifoDepth /\ ended' \subseteq DOMAIN strokes
<1>0. /\ MenuTypes /\ PipeInv /\ KeysUnheard /\ StrokesActAsMeant
      /\ Owners /\ ActedGone /\ EndedFirst /\ EndedSilent
    BY DEF MenuInv, PipeInv
<1>1. PICK x0 : x0 = Head(fifo)
    OBVIOUS
<1>2. /\ x0 \in InPipe /\ InPipe' \subseteq InPipe
      /\ Ordered(strokes, fifo', wire') /\ fifo' \in Seq(PipeByte) /\ Len(fifo') <= FifoDepth
      /\ \A x \in InPipe' : Before(strokes, x0, x)
    BY <1>0, <1>1, ByteRead
<1>3. PICK n \in Nat : n = x0.stroke
    BY <1>0, <1>2, PipeTypes
<1>4. n \in DOMAIN strokes /\ strokes[n] \in Keystrokes /\ n \notin Acted
    BY <1>0, <1>2, <1>3 DEF Owners, Owned, ActedGone
<1>5. \A x \in InPipe' : n <= x.stroke /\ (x.stroke = n => x.byte # FirstByte(strokes[x.stroke]))
    <2>1. \A x \in InPipe' : x.stroke \in Nat
        BY <1>0, <1>2, PipeTypes
    <2>2. QED
        BY <1>2, <1>3, <2>1 DEF Before
<1>6. Acted' = Acted /\ ended' = ended \cup {n}
    BY <1>1, <1>3 DEF Acted
<1>7. Owners' /\ ActedGone'
    BY <1>0, <1>2, <1>6 DEF Owners, Owned, ActedGone
<1>8. EndedFirst'
    BY <1>0, <1>2, <1>5, <1>6 DEF EndedFirst
<1>9. EndedSilent'
    BY <1>0, <1>2, <1>5, <1>6 DEF EndedSilent
<1>10. PipeInv'
    BY <1>2, <1>7, <1>8, <1>9 DEF PipeInv
<1>11. KeysUnheard'
    BY <1>0, <1>4, <1>6, KeysUnheardBySerial
<1>12. StrokesActAsMeant'
    <2>1. \A i \in DOMAIN acts : acts[i].stroke \in Acted
        BY DEF Acted
    <2>2. \A i \in DOMAIN acts : acts[i].stroke # n
        BY <1>4, <2>1
    <2>3. QED
        BY <1>0, <1>6, <2>2 DEF StrokesActAsMeant
<1>13. ended' \subseteq DOMAIN strokes
    BY <1>0, <1>4, <1>6, PipeTypes
<1>14. QED
    BY <1>2, <1>10, <1>11, <1>12, <1>13

(* A keydown ends a wait, or several do. *)
LEMMA ReportEndsWait ==
    ASSUME MenuInv, TakeReport, UNCHANGED <<fifo, wire, strokes, acts>>,
           ended' = ended \cup {StrokeOf(c) : c \in Range(NewKeys)}, Decoder' = 0
    PROVE  PipeInv' /\ KeysUnheard' /\ StrokesActAsMeant' /\ down' = down /\ ended' \subseteq DOMAIN strokes
<1>0. /\ MenuTypes /\ PipeInv /\ KeysUnheard /\ StrokesActAsMeant
      /\ Owners /\ ActedGone /\ EndedFirst /\ EndedSilent
    BY DEF MenuInv, PipeInv
<1>1. /\ NewKeys \in Seq(Codes)
      /\ \A c \in Contents(NewKeys) :
             /\ c \in Codes /\ StrokeOf(c) \in DOMAIN strokes
             /\ strokes[StrokeOf(c)] = c /\ StrokeOf(c) \notin Acted
    BY <1>0, NewKeysUnheard
<1>2. Range(NewKeys) = Contents(NewKeys)
    BY <1>1, ContentsOf
<1>3. PICK by : ended' = ended \cup by /\ by = {StrokeOf(c) : c \in Contents(NewKeys)}
    BY <1>2
<1>4. \A n \in by : n \in DOMAIN strokes /\ strokes[n] \in Codes /\ n \notin Acted
    BY <1>1, <1>3
<1>5. KeysUnheard' /\ down' = down
    BY <1>0, ReportRead
<1>6. InPipe' = InPipe /\ Acted' = Acted
    BY DEF InPipe, Acted
<1>7. Owners' /\ ActedGone'
    BY <1>0, <1>6 DEF Owners, Owned, ActedGone
<1>8. EndedFirst'
    <2>1. \A n \in by : strokes[n] \notin Keystrokes
        BY <1>4, MenuAssumption
    <2>2. QED
        BY <1>0, <1>3, <1>6, <2>1 DEF EndedFirst
<1>9. EndedSilent'
    <2>1. \A x \in InPipe : x.stroke \notin by
        BY <1>4, NoCodeInPipe
    <2>2. QED
        BY <1>0, <1>3, <1>6, <2>1 DEF EndedSilent
<1>10. PipeInv'
    BY <1>0, <1>7, <1>8, <1>9 DEF PipeInv
<1>11. StrokesActAsMeant'
    <2>1. \A i \in DOMAIN acts : acts[i].stroke \in Acted
        BY DEF Acted
    <2>2. \A i \in DOMAIN acts : acts[i].stroke \notin by
        BY <1>4, <2>1
    <2>3. QED
        BY <1>0, <1>3, <2>2 DEF StrokesActAsMeant
<1>12. ended' \subseteq DOMAIN strokes
    BY <1>0, <1>3, <1>4, PipeTypes
<1>13. QED
    BY <1>5, <1>10, <1>11, <1>12

(* A stroke is added to the history; the older ones keep their numbers. *)
LEMMA StrokeAdded ==
    ASSUME MenuTypes, NEW k \in Keystrokes \cup Codes, Stroke(k)
    PROVE  /\ strokes' \in Seq(Keystrokes \cup Codes)
           /\ Len(strokes') = Len(strokes) + 1 /\ Len(strokes) \in Nat
           /\ DOMAIN strokes' = DOMAIN strokes \cup {Len(strokes) + 1}
           /\ strokes'[Len(strokes) + 1] = k
           /\ \A n \in DOMAIN strokes :
                  strokes'[n] = strokes[n] /\ n \in Nat /\ n < Len(strokes) + 1
<1>1. strokes \in Seq(Keystrokes \cup Codes) /\ strokes' = Append(strokes, k)
    BY DEF MenuTypes, Stroke
<1>2. PICK N \in Nat : N = Len(strokes) /\ DOMAIN strokes = 1..N
    BY <1>1, LenProperties
<1>3. /\ strokes' \in Seq(Keystrokes \cup Codes) /\ Len(strokes') = N + 1
      /\ strokes'[N + 1] = k /\ \A n \in 1..N : strokes'[n] = strokes[n]
    BY <1>1, <1>2, AppendProperties
<1>4. DOMAIN strokes' = 1..(N + 1)
    BY <1>3, LenProperties
<1>5. 1..(N + 1) = 1..N \cup {N + 1} /\ \A n \in 1..N : n \in Nat /\ n < N + 1
    OBVIOUS
<1>6. QED
    BY <1>2, <1>3, <1>4, <1>5

LEMMA OlderStrokesStay ==
    ASSUME MenuInv, NEW k \in Keystrokes \cup Codes, Stroke(k), UNCHANGED <<acts, ended>>
    PROVE  /\ StrokesActAsMeant'
           /\ Ordered(strokes', fifo, wire)
           /\ \A x \in InPipe : Owned(strokes', x) /\ strokes'[x.stroke] = strokes[x.stroke]
           /\ \A c : c # k /\ Unheard(c) => Unheard(c)'
           /\ Acted' = Acted /\ Acted \subseteq DOMAIN strokes' /\ ended' \subseteq DOMAIN strokes'
<1>0. /\ MenuTypes /\ PipeInv /\ StrokesActAsMeant /\ Owners /\ Ordered(strokes, fifo, wire)
    BY DEF MenuInv, PipeInv
<1>1. PICK N \in Nat :
          /\ N = Len(strokes) /\ DOMAIN strokes' = DOMAIN strokes \cup {N + 1} /\ strokes'[N + 1] = k
          /\ \A n \in DOMAIN strokes : strokes'[n] = strokes[n] /\ n \in Nat /\ n < N + 1
    BY <1>0, StrokeAdded
<1>2. Acted' = Acted /\ Acted \subseteq DOMAIN strokes /\ ended \subseteq DOMAIN strokes
    BY <1>0, PipeTypes DEF Acted
<1>3. StrokesActAsMeant'
    <2>1. \A i \in DOMAIN acts : acts[i].stroke \in DOMAIN strokes
        BY <1>2 DEF Acted
    <2>2. \A i \in DOMAIN acts : strokes'[acts[i].stroke] = strokes[acts[i].stroke]
        BY <1>1, <2>1
    <2>3. QED
        BY <1>0, <2>2 DEF StrokesActAsMeant
<1>4. \A x \in InPipe : strokes'[x.stroke] = strokes[x.stroke] /\ Owned(strokes', x)
    <2>1. ASSUME NEW x \in InPipe
          PROVE  strokes'[x.stroke] = strokes[x.stroke] /\ Owned(strokes', x)
        <3>1. Owned(strokes, x)
            BY <1>0 DEF Owners
        <3>2. strokes'[x.stroke] = strokes[x.stroke] /\ x.stroke \in DOMAIN strokes'
            BY <1>1, <3>1 DEF Owned
        <3>3. QED
            BY <3>1, <3>2 DEF Owned
    <2>2. QED
        BY <2>1
<1>5. \A x, y \in InPipe : Before(strokes, x, y) => Before(strokes', x, y)
    BY <1>4 DEF Before
<1>6. Ordered(strokes', fifo, wire)
    <2>1. (\A i \in 1..Len(fifo) : fifo[i] \in InPipe) /\ (\A i \in 1..Len(wire) : wire[i] \in InPipe)
        BY DEF InPipe, Contents
    <2>2. Pairwise(strokes', fifo)
        BY <1>0, <1>5, <2>1 DEF Ordered, Pairwise
    <2>3. Pairwise(strokes', wire)
        BY <1>0, <1>5, <2>1 DEF Ordered, Pairwise
    <2>4. Across(strokes', fifo, wire)
        BY <1>0, <1>5, <2>1 DEF Ordered, Across
    <2>5. QED
        BY <2>2, <2>3, <2>4 DEF Ordered
<1>7. ASSUME NEW c, c # k, Unheard(c) PROVE Unheard(c)'
    <2>1. PICK n \in DOMAIN strokes : LastDown(strokes, c, n) /\ n \notin ended /\ n \notin Acted
        BY <1>7 DEF Unheard
    <2>2. LastDown(strokes', c, n)
        BY <1>1, <1>7, <2>1 DEF LastDown
    <2>3. n \in DOMAIN strokes' /\ n \notin ended' /\ n \notin Acted'
        BY <1>1, <1>2, <2>1
    <2>4. QED
        BY <2>2, <2>3 DEF Unheard
<1>8. QED
    BY <1>1, <1>2, <1>3, <1>4, <1>6, <1>7

(* The bytes of one keystroke are in its order. *)
LEMMA NumberedBytes ==
    ASSUME NEW k \in Keystrokes, NEW n \in Nat, NEW h, n \in DOMAIN h, h[n] = k
    PROVE  /\ Numbered(BytesOf(k), n) \in Seq(PipeByte)
           /\ Pairwise(h, Numbered(BytesOf(k), n))
           /\ \A x \in Contents(Numbered(BytesOf(k), n)) : x.stroke = n /\ Owned(h, x)
<1>1. PICK s, u : s = BytesOf(k) /\ u = Numbered(s, n)
    OBVIOUS
<1>2. CASE k \in Arrows
    <2>1. PICK f \in FinalBytes :
              /\ s = <<"ESC", "[", f>> /\ Len(s) = 3 /\ s[1] = "ESC" /\ s[2] = "[" /\ s[3] = f
              /\ FirstByte(k) = "ESC" /\ LastByte(k) = f /\ Contents(s) = {"ESC", "[", f}
        BY <1>1, <1>2, ThreeBytes
    <2>2. s \in Seq({"ESC", "["} \cup FinalBytes \cup Keystrokes)
        BY <2>1
    <2>3. DOMAIN s = 1..3
        BY <2>1, <2>2, LenProperties
    <2>4. u = [i \in 1..3 |-> [byte |-> s[i], stroke |-> n]]
        BY <1>1, <2>3 DEF Numbered
    <2>5. \A i \in 1..3 : s[i] \in Contents(s)
        BY <2>1 DEF Contents
    <2>6. \A i \in 1..3 : u[i] \in PipeByte /\ u[i].byte = s[i] /\ u[i].stroke = n
        BY <2>1, <2>4, <2>5 DEF PipeByte
    <2>7. u \in Seq(PipeByte) /\ Len(u) = 3
        <3>1. u \in [1..3 -> PipeByte] /\ 3 \in Nat
            BY <2>4, <2>6
        <3>2. u \in Seq(PipeByte)
            BY <3>1, SeqDef
        <3>3. DOMAIN u = 1..3
            BY <3>1
        <3>4. QED
            BY <3>1, <3>2, <3>3, LenProperties
    <2>8. f # "ESC" /\ f # "["
        BY DEF FinalBytes
    <2>9. Pairwise(h, u)
        <3>1. ASSUME NEW i \in 1..3, NEW j \in 1..3, i < j PROVE Before(h, u[i], u[j])
            <4>1. s[i] # f /\ s[j] # "ESC"
                <5>1. (i = 1 \/ i = 2) /\ (j = 2 \/ j = 3)
                    BY <3>1
                <5>2. QED
                    BY <2>1, <2>8, <5>1
            <4>2. QED
                BY <2>1, <2>6, <4>1 DEF Before
        <3>2. QED
            BY <2>7, <3>1 DEF Pairwise
    <2>10. \A x \in Contents(u) : x.stroke = n /\ Owned(h, x)
        <3>1. ASSUME NEW i \in 1..3 PROVE u[i].stroke = n /\ Owned(h, u[i])
            BY <1>1, <2>5, <2>6 DEF Owned
        <3>2. QED
            BY <2>7, <3>1 DEF Contents
    <2>11. QED
        BY <1>1, <2>7, <2>9, <2>10
<1>3. CASE k \notin Arrows
    <2>1. s = <<k>> /\ Len(s) = 1 /\ s[1] = k /\ Contents(s) = {k}
        BY <1>1, <1>3, OneByte
    <2>2. DOMAIN s = 1..1
        BY <2>1
    <2>3. u = [i \in 1..1 |-> [byte |-> s[i], stroke |-> n]]
        BY <1>1, <2>2 DEF Numbered
    <2>4. \A i \in 1..1 : u[i] \in PipeByte /\ u[i].byte = k /\ u[i].stroke = n
        BY <2>1, <2>3 DEF PipeByte
    <2>5. u \in Seq(PipeByte) /\ Len(u) = 1
        <3>1. u \in [1..1 -> PipeByte] /\ 1 \in Nat
            BY <2>3, <2>4
        <3>2. u \in Seq(PipeByte)
            BY <3>1, SeqDef
        <3>3. DOMAIN u = 1..1
            BY <3>1
        <3>4. QED
            BY <3>1, <3>2, <3>3, LenProperties
    <2>6. Pairwise(h, u)
        BY <2>5 DEF Pairwise
    <2>7. \A x \in Contents(u) : x.stroke = n /\ Owned(h, x)
        <3>1. ASSUME NEW i \in 1..1 PROVE u[i].stroke = n /\ Owned(h, u[i])
            BY <1>1, <2>1, <2>4 DEF Owned
        <3>2. QED
            BY <2>5, <3>1 DEF Contents
    <2>8. QED
        BY <1>1, <2>5, <2>6, <2>7
<1>4. QED
    BY <1>2, <1>3

(* A stroke was added: what it means for the bytes that were on their way. *)
LEMMA TypeKeeps ==
    ASSUME MenuInv, NEW k \in Keystrokes, Type(k)
    PROVE  PipeInv' /\ KeysUnheard' /\ StrokesActAsMeant' /\ wire' \in Seq(PipeByte)
           /\ strokes' \in Seq(Keystrokes \cup Codes)
           /\ Acted' \subseteq DOMAIN strokes' /\ ended' \subseteq DOMAIN strokes'
<1>0. /\ MenuTypes /\ PipeInv /\ KeysUnheard /\ StrokesActAsMeant
      /\ Owners /\ ActedGone /\ EndedFirst /\ EndedSilent
    BY DEF MenuInv, PipeInv
<1>1. /\ Stroke(k) /\ acts' = acts /\ ended' = ended /\ fifo' = fifo /\ down' = down /\ prev' = prev
      /\ screen' = screen /\ esc' = esc /\ sesc' = sesc
      /\ wire' = wire \o Numbered(BytesOf(k), Len(strokes'))
    BY DEF Type, keyboardVars, menuVars
<1>2. PICK N \in Nat :
          /\ N = Len(strokes) /\ Len(strokes') = N + 1
          /\ strokes' \in Seq(Keystrokes \cup Codes)
          /\ DOMAIN strokes' = DOMAIN strokes \cup {N + 1} /\ strokes'[N + 1] = k
          /\ \A n \in DOMAIN strokes : strokes'[n] = strokes[n] /\ n \in Nat /\ n < N + 1
    BY <1>0, <1>1, StrokeAdded
<1>3. /\ StrokesActAsMeant' /\ Ordered(strokes', fifo, wire)
      /\ \A x \in InPipe : Owned(strokes', x) /\ strokes'[x.stroke] = strokes[x.stroke]
      /\ \A c : c # k /\ Unheard(c) => Unheard(c)'
      /\ Acted' = Acted /\ Acted \subseteq DOMAIN strokes' /\ ended' \subseteq DOMAIN strokes'
    BY <1>1, OlderStrokesStay
<1>4. PICK u \in Seq(PipeByte) :
          /\ u = Numbered(BytesOf(k), N + 1) /\ Pairwise(strokes', u)
          /\ \A x \in Contents(u) : x.stroke = N + 1 /\ Owned(strokes', x)
    BY <1>2, NumberedBytes
<1>5. \A x \in InPipe : x.stroke \in DOMAIN strokes /\ x.stroke \in Nat /\ x.stroke < N + 1
    BY <1>0, <1>2 DEF Owners, Owned
<1>6. /\ Ordered(strokes', fifo, wire \o u) /\ wire \o u \in Seq(PipeByte)
      /\ Contents(wire \o u) \subseteq Contents(wire) \cup Contents(u)
    <2>1. fifo \in Seq(PipeByte) /\ wire \in Seq(PipeByte)
        BY <1>0 DEF MenuTypes
    <2>2. \A x \in Contents(fifo) \cup Contents(wire), y \in Contents(u) : Before(strokes', x, y)
        BY <1>4, <1>5 DEF Before, InPipe
    <2>3. QED
        BY <1>3, <1>4, <2>1, <2>2, TypingOrdered
<1>7. wire' = wire \o u
    BY <1>1, <1>2, <1>4
<1>8. \A x \in InPipe' : x \in InPipe \/ x \in Contents(u)
    BY <1>1, <1>6, <1>7 DEF InPipe
<1>9. N + 1 \notin DOMAIN strokes
    BY <1>2
<1>10. Acted \subseteq DOMAIN strokes /\ ended \subseteq DOMAIN strokes
    BY <1>0, PipeTypes
<1>11. Owners'
    BY <1>3, <1>4, <1>8 DEF Owners
<1>12. ActedGone'
    <2>1. \A x \in Contents(u) : x.stroke \notin Acted
        BY <1>4, <1>9, <1>10
    <2>2. QED
        BY <1>0, <1>3, <1>8, <2>1 DEF ActedGone
<1>13. EndedFirst'
    <2>1. ASSUME NEW n \in ended, NEW x \in InPipe', strokes'[n] \in Keystrokes PROVE n <= x.stroke
        <3>1. n \in DOMAIN strokes /\ strokes'[n] = strokes[n] /\ n \in Nat /\ n < N + 1
            BY <1>2, <1>10
        <3>2. CASE x \in InPipe
            BY <1>0, <2>1, <3>1, <3>2 DEF EndedFirst
        <3>3. CASE x \in Contents(u)
            BY <1>4, <3>1, <3>3
        <3>4. QED
            BY <1>8, <3>2, <3>3
    <2>2. QED
        BY <1>1, <2>1 DEF EndedFirst
<1>14. EndedSilent'
    <2>1. Decoder' = Decoder
        BY <1>1 DEF Decoder
    <2>2. \A x \in Contents(u) : x.stroke \notin ended
        BY <1>4, <1>9, <1>10
    <2>3. QED
        BY <1>0, <1>1, <1>3, <1>8, <2>1, <2>2 DEF EndedSilent
<1>15. PipeInv'
    BY <1>1, <1>6, <1>7, <1>11, <1>12, <1>13, <1>14 DEF PipeInv
<1>16. KeysUnheard'
    <2>1. Contents(down) \subseteq Codes /\ k \notin Codes
        BY <1>0, ContentsOf, MenuAssumption DEF MenuTypes
    <2>2. QED
        BY <1>0, <1>1, <1>3, <2>1 DEF KeysUnheard
<1>17. QED
    BY <1>2, <1>3, <1>6, <1>7, <1>15, <1>16

LEMMA PressKeeps ==
    ASSUME MenuInv, NEW c \in Codes, Press(c)
    PROVE  PipeInv' /\ KeysUnheard' /\ StrokesActAsMeant' /\ down' \in Seq(Codes)
           /\ strokes' \in Seq(Keystrokes \cup Codes)
           /\ Acted' \subseteq DOMAIN strokes' /\ ended' \subseteq DOMAIN strokes'
<1>0. /\ MenuTypes /\ PipeInv /\ KeysUnheard /\ StrokesActAsMeant
      /\ Owners /\ ActedGone /\ EndedFirst /\ EndedSilent
    BY DEF MenuInv, PipeInv
<1>1. /\ Stroke(c) /\ acts' = acts /\ ended' = ended /\ fifo' = fifo /\ wire' = wire
      /\ screen' = screen /\ esc' = esc /\ sesc' = sesc /\ KeyDown(c)
    BY DEF Press, menuVars
<1>2. PICK N \in Nat :
          /\ N = Len(strokes) /\ Len(strokes') = N + 1
          /\ strokes' \in Seq(Keystrokes \cup Codes)
          /\ DOMAIN strokes' = DOMAIN strokes \cup {N + 1} /\ strokes'[N + 1] = c
          /\ \A n \in DOMAIN strokes : strokes'[n] = strokes[n] /\ n \in Nat /\ n < N + 1
    BY <1>0, <1>1, StrokeAdded
<1>3. /\ StrokesActAsMeant' /\ Ordered(strokes', fifo, wire)
      /\ \A x \in InPipe : Owned(strokes', x) /\ strokes'[x.stroke] = strokes[x.stroke]
      /\ \A d : d # c /\ Unheard(d) => Unheard(d)'
      /\ Acted' = Acted /\ Acted \subseteq DOMAIN strokes' /\ ended' \subseteq DOMAIN strokes'
    BY <1>1, OlderStrokesStay
<1>4. down' \in Seq(Codes) /\ Contents(down') \subseteq Contents(down) \cup {c} /\ prev' = prev
    BY <1>0, <1>1, KeyDownAdds DEF MenuTypes
<1>5. InPipe' = InPipe /\ Decoder' = Decoder
    BY <1>1 DEF InPipe, Decoder
<1>6. Acted \subseteq DOMAIN strokes /\ ended \subseteq DOMAIN strokes
    BY <1>0, PipeTypes
<1>7. Owners' /\ ActedGone'
    BY <1>0, <1>3, <1>5 DEF Owners, ActedGone
<1>8. EndedFirst'
    BY <1>0, <1>1, <1>2, <1>5, <1>6 DEF EndedFirst
<1>9. EndedSilent'
    BY <1>0, <1>1, <1>3, <1>5 DEF EndedSilent
<1>10. PipeInv'
    BY <1>1, <1>3, <1>7, <1>8, <1>9 DEF PipeInv
<1>11. Unheard(c)'
    <2>1. N + 1 \notin DOMAIN strokes
        BY <1>2
    <2>2. LastDown(strokes', c, N + 1)
        BY <1>2 DEF LastDown
    <2>3. N + 1 \in DOMAIN strokes' /\ N + 1 \notin ended' /\ N + 1 \notin Acted'
        BY <1>1, <1>2, <1>3, <1>6, <2>1
    <2>4. QED
        BY <2>2, <2>3 DEF Unheard
<1>12. KeysUnheard'
    <2>1. ASSUME NEW d \in Contents(down') \ prev' PROVE Unheard(d)'
        <3>1. CASE d = c
            BY <1>11, <3>1
        <3>2. CASE d # c
            BY <1>0, <1>3, <1>4, <3>2 DEF KeysUnheard
        <3>3. QED
            BY <3>1, <3>2
    <2>2. QED
        BY <2>1 DEF KeysUnheard
<1>13. QED
    BY <1>2, <1>3, <1>4, <1>10, <1>12

LEMMA ArriveKeeps ==
    ASSUME MenuInv, Arrive
    PROVE  PipeInv' /\ KeysUnheard' /\ StrokesActAsMeant'
           /\ fifo' \in Seq(PipeByte) /\ wire' \in Seq(PipeByte) /\ Len(fifo') <= FifoDepth
<1>0. MenuTypes /\ PipeInv /\ KeysUnheard /\ StrokesActAsMeant /\ Ordered(strokes, fifo, wire)
    BY DEF MenuInv, PipeInv
<1>1. /\ wire # <<>> /\ wire' = Tail(wire) /\ UNCHANGED <<strokes, acts, ended, down, prev, screen, esc, sesc>>
      /\ \/ Len(fifo) < FifoDepth /\ fifo' = Append(fifo, Head(wire))
         \/ fifo' = fifo
    BY DEF Arrive, keyboardVars, menuVars
<1>2. fifo \in Seq(PipeByte) /\ wire \in Seq(PipeByte) /\ Len(fifo) <= FifoDepth /\ Len(fifo) \in Nat
    BY <1>0, LenProperties DEF MenuTypes, TypeOK
<1>3. Tail(wire) \in Seq(PipeByte) /\ Contents(Tail(wire)) \subseteq Contents(wire)
    BY <1>1, <1>2, HeadTail
<1>4. /\ Ordered(strokes, fifo', wire') /\ Contents(fifo') \subseteq InPipe
      /\ fifo' \in Seq(PipeByte) /\ Len(fifo') <= FifoDepth
    <2>1. CASE Len(fifo) < FifoDepth /\ fifo' = Append(fifo, Head(wire))
        <3>1. /\ Ordered(strokes, fifo', Tail(wire)) /\ fifo' \in Seq(PipeByte)
              /\ Len(fifo') = Len(fifo) + 1
              /\ Contents(fifo') \subseteq Contents(fifo) \cup Contents(wire)
            BY <1>0, <1>1, <1>2, <2>1, ArrivalOrdered
        <3>2. Len(fifo') <= FifoDepth
            BY <1>2, <2>1, <3>1, MenuAssumption
        <3>3. QED
            BY <1>1, <3>1, <3>2 DEF InPipe
    <2>2. CASE fifo' = fifo
        <3>1. Ordered(strokes, fifo, Tail(wire))
            BY <1>0, <1>1, <1>2, LossOrdered
        <3>2. QED
            BY <1>1, <1>2, <2>2, <3>1 DEF InPipe
    <2>3. QED
        BY <1>1, <2>1, <2>2
<1>5. InPipe' \subseteq InPipe
    BY <1>1, <1>3, <1>4 DEF InPipe
<1>6. Decoder' = Decoder
    BY <1>1 DEF Decoder
<1>7. PipeInv'
    BY <1>0, <1>1, <1>4, <1>5, <1>6, PipeShrinks
<1>8. KeysUnheard'
    BY <1>0, <1>1, KeysStayUnheard
<1>9. StrokesActAsMeant'
    BY <1>0, <1>1 DEF StrokesActAsMeant
<1>10. QED
    BY <1>1, <1>3, <1>4, <1>7, <1>8, <1>9

-----------------------------------------------------------------------------
(* The screens.                                                            *)
Screens == {"menu", "settings", "working", "anykey", "rebooting", "off"}

ScreenTypes ==
    /\ selected \in 0..(ITEMS - 1) /\ row \in 0..(ROWS - 1)
    /\ screen \in Screens /\ cfg \in Settings

LEMMA MovedType ==
    ASSUME NEW n \in Nat \ {0}, NEW at \in 0..(n - 1), NEW k \in {"Up", "Down"}
    PROVE  Moved(at, k, n) \in 0..(n - 1)
<1>1. CASE k = "Up"
    <2>1. Moved(at, k, n) = IF at = 0 THEN n - 1 ELSE at - 1
        BY <1>1 DEF Moved
    <2>2. QED
        BY <2>1
<1>2. CASE k = "Down"
    <2>1. Moved(at, k, n) = (at + 1) % n
        BY <1>2 DEF Moved
    <2>2. at + 1 \in Nat
        OBVIOUS
    <2>3. QED
        BY <2>1, <2>2
<1>3. QED
    BY <1>1, <1>2

LEMMA OpensType ==
    ASSUME NEW item \in 0..(ITEMS - 1)
    PROVE  Opens(item) \in Screens /\ Opens(item) # "menu"
<1>1. item \in {0, 1, 2, 3, 4}
    BY DEF ITEMS
<1>2. QED
    BY <1>1 DEF Opens, Screens

LEMMA ChangedType ==
    ASSUME NEW c \in Settings, NEW r \in 0..(ROWS - 1), NEW f \in BOOLEAN
    PROVE  Changed(c, r, f) \in Settings
<1>1. r \in {0, 1, 2}
    BY DEF ROWS
<1>2. CASE r = 0
    <2>1. Changed(c, r, f) = [c EXCEPT !.verbose = ~@]
        BY <1>2 DEF Changed
    <2>2. QED
        BY <2>1 DEF Settings
<1>3. CASE r = 1
    <2>1. PICK t \in 0..2 : t = (c.theme + (IF f THEN 1 ELSE 2)) % 3
        BY DEF Settings, Themes
    <2>2. Changed(c, r, f) = [c EXCEPT !.theme = t]
        BY <1>3, <2>1 DEF Changed, Themes
    <2>3. QED
        BY <2>2 DEF Settings, Themes
<1>4. CASE r = 2
    <2>1. Changed(c, r, f) = [c EXCEPT !.usb = ~@]
        BY <1>4 DEF Changed
    <2>2. QED
        BY <2>1 DEF Settings
<1>5. QED
    BY <1>1, <1>2, <1>3, <1>4

(* The selections stay in their lists, and the display shows the screen    *)
(* that polls next.                                                        *)
LEMMA MenuKeyShows ==
    ASSUME ScreenTypes, DisplayTellsTheTruth, screen = "menu", NEW k, MenuKey(k)
    PROVE  ScreenTypes' /\ DisplayTellsTheTruth'
<1>1. CASE /\ k \in {"Up", "Down"} /\ selected' = Moved(selected, k, ITEMS)
           /\ Show("menu", selected', cfg) /\ UNCHANGED <<row, sesc>> /\ UNCHANGED cfg
    <2>0. ITEMS \in Nat \ {0}
        BY DEF ITEMS
    <2>1. selected' \in 0..(ITEMS - 1)
        BY <1>1, <2>0, MovedType DEF ScreenTypes
    <2>2. QED
        BY <1>1, <2>1 DEF Show, ScreenTypes, DisplayTellsTheTruth, Screens
<1>2. CASE Show(Opens(selected), 0, cfg) /\ row' = 0 /\ UNCHANGED selected /\ UNCHANGED cfg
    <2>1. Opens(selected) \in Screens /\ Opens(selected) # "menu"
        BY OpensType DEF ScreenTypes
    <2>2. 0 \in 0..(ROWS - 1)
        BY DEF ROWS
    <2>3. ScreenTypes'
        BY <1>2, <2>1, <2>2 DEF Show, ScreenTypes
    <2>4. screen' # "menu" /\ drawn' = Picture(screen', row', cfg')
        BY <1>2, <2>1 DEF Show
    <2>5. QED
        BY <2>3, <2>4 DEF DisplayTellsTheTruth
<1>3. CASE UNCHANGED <<screen, selected, row, sesc, drawn>> /\ UNCHANGED cfg
    BY <1>3 DEF ScreenTypes, DisplayTellsTheTruth
<1>4. QED
    BY <1>1, <1>2, <1>3 DEF MenuKey

LEMMA SettingsKeyShows ==
    ASSUME ScreenTypes, DisplayTellsTheTruth, screen = "settings", NEW k, SettingsKey(k),
           UNCHANGED selected
    PROVE  ScreenTypes' /\ DisplayTellsTheTruth'
<1>1. CASE /\ k \in {"Up", "Down"} /\ row' = Moved(row, k, ROWS)
           /\ Show("settings", row', cfg) /\ UNCHANGED cfg
    <2>0. ROWS \in Nat \ {0}
        BY DEF ROWS
    <2>1. row' \in 0..(ROWS - 1)
        BY <1>1, <2>0, MovedType DEF ScreenTypes
    <2>2. QED
        BY <1>1, <2>1 DEF Show, ScreenTypes, DisplayTellsTheTruth, Screens
<1>2. CASE /\ cfg' = Changed(cfg, row, k # "Left") /\ Show("settings", row, cfg') /\ UNCHANGED row
    <2>1. cfg' \in Settings
        BY <1>2, ChangedType DEF ScreenTypes
    <2>2. QED
        BY <1>2, <2>1 DEF Show, ScreenTypes, DisplayTellsTheTruth, Screens
<1>3. CASE Show("menu", selected, cfg) /\ UNCHANGED <<row, cfg>>
    BY <1>3 DEF Show, ScreenTypes, DisplayTellsTheTruth, Screens
<1>4. CASE UNCHANGED <<screen, drawn, row, cfg>>
    BY <1>4 DEF ScreenTypes, DisplayTellsTheTruth
<1>5. QED
    BY <1>1, <1>2, <1>3, <1>4 DEF SettingsKey

LEMMA WorkDoneShows ==
    ASSUME ScreenTypes, WorkDone
    PROVE  ScreenTypes' /\ DisplayTellsTheTruth'
<1>1. cfg' \in Settings
    <2>1. CASE cfg' = cfg
        BY <2>1 DEF ScreenTypes
    <2>2. CASE cfg' \in Settings
        BY <2>2
    <2>3. QED
        BY <2>1, <2>2 DEF WorkDone
<1>2. screen' = "anykey" /\ selected' = selected /\ row' = row
    BY DEF WorkDone, Show
<1>3. QED
    BY <1>1, <1>2 DEF ScreenTypes, DisplayTellsTheTruth, Screens

LEMMA AnyKeyShows ==
    ASSUME ScreenTypes, DisplayTellsTheTruth, AnyKeyPoll
    PROVE  ScreenTypes' /\ DisplayTellsTheTruth'
<1>1. selected' = selected /\ row' = row /\ cfg' = cfg
    BY DEF AnyKeyPoll
<1>2. \/ UNCHANGED <<screen, drawn>> \/ Show("menu", selected, cfg) \/ Show("off", 0, cfg)
    BY DEF AnyKeyPoll
<1>3. QED
    BY <1>1, <1>2 DEF Show, ScreenTypes, DisplayTellsTheTruth, Screens

LEMMA StepShows ==
    ASSUME ScreenTypes, DisplayTellsTheTruth, [Next]_vars
    PROVE  ScreenTypes' /\ DisplayTellsTheTruth'
<1>1. CASE MenuPoll
    BY <1>1, MenuKeyShows DEF MenuPoll
<1>2. CASE SettingsPoll
    BY <1>2, SettingsKeyShows DEF SettingsPoll
<1>3. CASE AnyKeyPoll
    BY <1>3, AnyKeyShows
<1>4. CASE WorkDone
    BY <1>4, WorkDoneShows
<1>5. CASE AppReads
    BY <1>5 DEF AppReads, menuVars, ScreenTypes, DisplayTellsTheTruth
<1>6. CASE Arrive
    BY <1>6 DEF Arrive, menuVars, ScreenTypes, DisplayTellsTheTruth
<1>7. CASE \E k \in Keystrokes : Type(k)
    BY <1>7 DEF Type, menuVars, ScreenTypes, DisplayTellsTheTruth
<1>8. CASE \E c \in Codes : Press(c) \/ Release(c)
    BY <1>8 DEF Press, Release, menuVars, ScreenTypes, DisplayTellsTheTruth
<1>9. CASE UNCHANGED vars
    BY <1>9 DEF vars, menuVars, ScreenTypes, DisplayTellsTheTruth
<1>10. QED
    BY <1>1, <1>2, <1>3, <1>4, <1>5, <1>6, <1>7, <1>8, <1>9 DEF Next

LEMMA InitShows ==
    ASSUME Init
    PROVE  ScreenTypes /\ DisplayTellsTheTruth
<1>1. cfg \in Settings
    <2>1. cfg \in [verbose : {TRUE}, theme : {0}, usb : BOOLEAN]
        BY DEF Init
    <2>2. {TRUE} \subseteq BOOLEAN /\ {0} \subseteq 0..(Themes - 1)
        BY DEF Themes
    <2>3. QED
        BY <2>1, <2>2, Zenon DEF Settings
<1>2. QED
    BY <1>1 DEF Init, ScreenTypes, DisplayTellsTheTruth, Screens, ITEMS, ROWS

(* What the display shows is what the next key acts on, in every behaviour *)
(* of the menu (ui.rs run, select, run_settings).                          *)
THEOREM DisplayIsTrue == Spec => []DisplayTellsTheTruth
<1>1. Init => ScreenTypes /\ DisplayTellsTheTruth
    BY InitShows
<1>2. ScreenTypes /\ DisplayTellsTheTruth /\ [Next]_vars => (ScreenTypes /\ DisplayTellsTheTruth)'
    BY StepShows
<1>3. QED
    BY <1>1, <1>2, PTL DEF Spec

-----------------------------------------------------------------------------
(* The invariant is kept by every step.                                    *)

(* The types, from their parts. *)
LEMMA TypesFromParts ==
    ASSUME ScreenTypes, esc \in 0..2, sesc \in 0..2, screen # "menu" => esc = 0,
           fifo \in Seq(PipeByte), Len(fifo) <= FifoDepth, wire \in Seq(PipeByte),
           strokes \in Seq(Keystrokes \cup Codes), acts \in Seq(Act), down \in Seq(Codes),
           ended \subseteq DOMAIN strokes, Acted \subseteq DOMAIN strokes
    PROVE  MenuTypes
<1>1. \A i \in DOMAIN acts : acts[i].stroke \in DOMAIN strokes
    BY DEF Acted
<1>2. TypeOK
    BY <1>1 DEF TypeOK, ScreenTypes, Screens, Settings
<1>3. QED
    BY <1>2 DEF MenuTypes

LEMMA NextTypesFromParts ==
    ASSUME ScreenTypes', esc' \in 0..2, sesc' \in 0..2, screen' # "menu" => esc' = 0,
           fifo' \in Seq(PipeByte), Len(fifo') <= FifoDepth, wire' \in Seq(PipeByte),
           strokes' \in Seq(Keystrokes \cup Codes), acts' \in Seq(Act), down' \in Seq(Codes),
           ended' \subseteq DOMAIN strokes', Acted' \subseteq DOMAIN strokes'
    PROVE  MenuTypes'
<1>1. \A i \in DOMAIN acts' : acts'[i].stroke \in DOMAIN strokes'
    BY DEF Acted
<1>2. TypeOK'
    BY <1>1 DEF TypeOK, ScreenTypes, Screens, Settings
<1>3. QED
    BY <1>2 DEF MenuTypes

LEMMA PartsOfTypes ==
    ASSUME MenuTypes
    PROVE  /\ ScreenTypes /\ esc \in 0..2 /\ sesc \in 0..2 /\ (screen # "menu" => esc = 0)
           /\ fifo \in Seq(PipeByte) /\ Len(fifo) <= FifoDepth /\ wire \in Seq(PipeByte)
           /\ strokes \in Seq(Keystrokes \cup Codes) /\ acts \in Seq(Act) /\ down \in Seq(Codes)
           /\ ended \subseteq DOMAIN strokes /\ Acted \subseteq DOMAIN strokes
<1>1. ended \subseteq DOMAIN strokes /\ Acted \subseteq DOMAIN strokes
    BY PipeTypes
<1>2. ScreenTypes
    BY DEF MenuTypes, TypeOK, ScreenTypes, Screens, Settings
<1>3. QED
    BY <1>1, <1>2 DEF MenuTypes, TypeOK

LEMMA ScreenPollKeeps ==
    ASSUME MenuInv, ScreenTypes', MenuPoll \/ SettingsPoll
    PROVE  MenuInv'
<1>0. MenuTypes /\ PipeInv /\ KeysUnheard /\ StrokesActAsMeant
    BY DEF MenuInv
<1>00. esc \in 0..2 /\ sesc \in 0..2 /\ (screen # "menu" => esc = 0)
    BY <1>0, PartsOfTypes
<1>01. \A from \in 0..2, e \in 0..2, k \in Key \cup {None} : Poll(from, e, k) => (k # None => e = 0)
    BY <1>0, PollResult
<1>1. PICK k \in Key \cup {None} : Poll(Decoder, Decoder', k)
    BY <1>00, <1>01, ScreenPolls
<1>2. Decoder \in 0..2 /\ esc' \in 0..2 /\ sesc' \in 0..2 /\ (screen' # "menu" => esc' = 0)
    BY <1>00, <1>01, ScreenPolls
<1>3. strokes' = strokes /\ ended' = ended /\ wire' = wire
    BY <1>1 DEF Poll, PollUart, PollKeyboard, Resolved
<1>4. /\ strokes \in Seq(Keystrokes \cup Codes) /\ wire \in Seq(PipeByte) /\ ended \subseteq DOMAIN strokes
      /\ down \in Seq(Codes) /\ fifo \in Seq(PipeByte) /\ Len(fifo) <= FifoDepth
    BY <1>0, PartsOfTypes
<1>5. CASE PollUart(Decoder, Decoder', k)
    <2>1. /\ PipeInv' /\ KeysUnheard' /\ StrokesActAsMeant' /\ acts' \in Seq(Act)
          /\ fifo' \in Seq(PipeByte) /\ Len(fifo') <= FifoDepth /\ Acted' \subseteq DOMAIN strokes
        BY <1>2, <1>5, UartPollKeeps
    <2>2. down' = down
        BY <1>5 DEF PollUart, keyboardVars
    <2>3. MenuTypes'
        BY <1>2, <1>3, <1>4, <2>1, <2>2, NextTypesFromParts
    <2>4. QED
        BY <2>1, <2>3 DEF MenuInv
<1>6. CASE PollKeyboard(Decoder, Decoder', k)
    <2>1. /\ PipeInv' /\ KeysUnheard' /\ StrokesActAsMeant' /\ acts' \in Seq(Act)
          /\ Acted' \subseteq DOMAIN strokes /\ down' = down
        BY <1>2, <1>6, KeyboardPollKeeps
    <2>2. fifo' = fifo
        BY <1>6 DEF PollKeyboard
    <2>3. MenuTypes'
        BY <1>2, <1>3, <1>4, <2>1, <2>2, NextTypesFromParts
    <2>4. QED
        BY <2>1, <2>3 DEF MenuInv
<1>7. QED
    BY <1>1, <1>5, <1>6 DEF Poll

LEMMA AnyKeyPollKeeps ==
    ASSUME MenuInv, ScreenTypes', AnyKeyPoll
    PROVE  MenuInv'
<1>0. MenuTypes /\ PipeInv /\ KeysUnheard /\ StrokesActAsMeant
    BY DEF MenuInv
<1>1. PICK pressed \in BOOLEAN, by \in SUBSET DOMAIN strokes :
          AnyKey(pressed, by) /\ ended' = ended \cup by
    BY DEF AnyKeyPoll
<1>2. /\ screen \in {"anykey", "rebooting"} /\ esc' = esc /\ sesc' = sesc
      /\ UNCHANGED <<wire, strokes, acts>>
    BY DEF AnyKeyPoll
<1>3. screen' # "settings"
    BY <1>2 DEF AnyKeyPoll, Show
<1>4. /\ strokes \in Seq(Keystrokes \cup Codes) /\ wire \in Seq(PipeByte) /\ ended \subseteq DOMAIN strokes
      /\ down \in Seq(Codes) /\ fifo \in Seq(PipeByte) /\ Len(fifo) <= FifoDepth
      /\ acts \in Seq(Act) /\ Acted \subseteq DOMAIN strokes
      /\ esc \in 0..2 /\ sesc \in 0..2 /\ (screen # "menu" => esc = 0)
    BY <1>0, PartsOfTypes
<1>5. esc = 0 /\ Decoder' = 0
    BY <1>2, <1>3, <1>4 DEF Decoder
<1>6. Acted' = Acted
    BY <1>2 DEF Acted
<1>7. CASE fifo # <<>> /\ by = {Head(fifo).stroke} /\ fifo' = Tail(fifo) /\ UNCHANGED keyboardVars
    <2>1. down' = down /\ prev' = prev
        BY <1>7 DEF keyboardVars
    <2>2. PipeInv' /\ KeysUnheard' /\ StrokesActAsMeant' /\ fifo' \in Seq(PipeByte)
          /\ Len(fifo') <= FifoDepth /\ ended' \subseteq DOMAIN strokes
        BY <1>1, <1>2, <1>5, <1>7, <2>1, ByteEndsWait
    <2>3. MenuTypes'
        BY <1>2, <1>4, <1>5, <1>6, <2>1, <2>2, NextTypesFromParts
    <2>4. QED
        BY <2>2, <2>3 DEF MenuInv
<1>8. CASE TakeReport /\ by = {StrokeOf(c) : c \in Range(NewKeys)} /\ UNCHANGED fifo
    <2>1. PipeInv' /\ KeysUnheard' /\ StrokesActAsMeant' /\ down' = down /\ ended' \subseteq DOMAIN strokes
        BY <1>1, <1>2, <1>5, <1>8, ReportEndsWait
    <2>2. MenuTypes'
        BY <1>2, <1>4, <1>5, <1>6, <1>8, <2>1, NextTypesFromParts
    <2>3. QED
        BY <2>1, <2>2 DEF MenuInv
<1>9. QED
    BY <1>1, <1>7, <1>8 DEF AnyKey

LEMMA OthersKeep ==
    ASSUME MenuInv, ScreenTypes',
           WorkDone \/ AppReads \/ (\E c \in Codes : Release(c)) \/ UNCHANGED vars
    PROVE  MenuInv'
<1>0. MenuTypes /\ PipeInv /\ KeysUnheard /\ StrokesActAsMeant /\ Ordered(strokes, fifo, wire)
    BY DEF MenuInv, PipeInv
<1>1. /\ strokes \in Seq(Keystrokes \cup Codes) /\ wire \in Seq(PipeByte) /\ ended \subseteq DOMAIN strokes
      /\ down \in Seq(Codes) /\ fifo \in Seq(PipeByte) /\ Len(fifo) <= FifoDepth
      /\ acts \in Seq(Act) /\ Acted \subseteq DOMAIN strokes
      /\ esc \in 0..2 /\ sesc \in 0..2 /\ (screen # "menu" => esc = 0)
    BY <1>0, PartsOfTypes
<1>2. /\ UNCHANGED <<wire, strokes, acts, ended, esc, sesc>>
      /\ screen' = screen \/ (screen = "working" /\ screen' = "anykey")
    <2>1. CASE WorkDone
        BY <2>1 DEF WorkDone, Show, deviceVars, historyVars
    <2>2. CASE AppReads
        BY <2>2 DEF AppReads, menuVars
    <2>3. CASE \E c \in Codes : Release(c)
        BY <2>3 DEF Release, menuVars, historyVars
    <2>4. CASE UNCHANGED vars
        BY <2>4 DEF vars, deviceVars, menuVars, historyVars
    <2>5. QED
        BY <2>1, <2>2, <2>3, <2>4
<1>3. Decoder' = Decoder /\ (screen' # "menu" => esc' = 0)
    BY <1>1, <1>2 DEF Decoder
<1>4. /\ Contents(down)' \subseteq Contents(down)
      /\ prev' = prev \/ Contents(down)' \subseteq prev'
      /\ down' \in Seq(Codes)
      /\ fifo' = fifo \/ (fifo # <<>> /\ fifo' = Tail(fifo))
    <2>1. CASE WorkDone \/ UNCHANGED vars
        BY <1>1, <2>1 DEF WorkDone, vars, deviceVars, keyboardVars
    <2>2. CASE AppReads /\ fifo # <<>> /\ fifo' = Tail(fifo) /\ UNCHANGED keyboardVars
        BY <1>1, <2>2 DEF keyboardVars
    <2>3. CASE AppReads /\ TakeReport /\ UNCHANGED fifo
        <3>1. down' = down /\ prev' = Contents(down)
            BY <1>1, <2>3, ContentsOf DEF TakeReport
        <3>2. QED
            BY <1>1, <2>3, <3>1
    <2>4. CASE \E c \in Codes : Release(c)
        <3>1. PICK c \in Codes : KeyUp(c) /\ fifo' = fifo
            BY <2>4 DEF Release
        <3>2. QED
            BY <1>1, <3>1, KeyUpKeeps
    <2>5. QED
        BY <2>1, <2>2, <2>3, <2>4 DEF AppReads
<1>5. /\ InPipe' \subseteq InPipe /\ Ordered(strokes, fifo', wire')
      /\ fifo' \in Seq(PipeByte) /\ Len(fifo') <= FifoDepth
    <2>1. CASE fifo' = fifo
        BY <1>0, <1>1, <1>2, <2>1 DEF InPipe
    <2>2. CASE fifo # <<>> /\ fifo' = Tail(fifo)
        BY <1>0, <1>2, <2>2, ByteRead
    <2>3. QED
        BY <1>4, <2>1, <2>2
<1>6. PipeInv'
    BY <1>0, <1>2, <1>3, <1>5, PipeShrinks
<1>7. KeysUnheard'
    BY <1>0, <1>2, <1>4, KeysStayUnheard
<1>8. StrokesActAsMeant' /\ Acted' = Acted
    BY <1>0, <1>2 DEF StrokesActAsMeant, Acted
<1>9. MenuTypes'
    BY <1>1, <1>2, <1>3, <1>4, <1>5, <1>8, NextTypesFromParts
<1>10. QED
    BY <1>6, <1>7, <1>8, <1>9 DEF MenuInv

LEMMA UsersKeep ==
    ASSUME MenuInv, ScreenTypes',
           Arrive \/ (\E k \in Keystrokes : Type(k)) \/ (\E c \in Codes : Press(c))
    PROVE  MenuInv'
<1>0. MenuTypes
    BY DEF MenuInv
<1>1. /\ strokes \in Seq(Keystrokes \cup Codes) /\ wire \in Seq(PipeByte) /\ ended \subseteq DOMAIN strokes
      /\ down \in Seq(Codes) /\ fifo \in Seq(PipeByte) /\ Len(fifo) <= FifoDepth
      /\ acts \in Seq(Act) /\ Acted \subseteq DOMAIN strokes
      /\ esc \in 0..2 /\ sesc \in 0..2 /\ (screen # "menu" => esc = 0)
    BY <1>0, PartsOfTypes
<1>2. esc' = esc /\ sesc' = sesc /\ screen' = screen /\ acts' = acts /\ ended' = ended
    BY DEF Arrive, Type, Press, menuVars
<1>3. CASE Arrive
    <2>1. /\ PipeInv' /\ KeysUnheard' /\ StrokesActAsMeant'
          /\ fifo' \in Seq(PipeByte) /\ wire' \in Seq(PipeByte) /\ Len(fifo') <= FifoDepth
        BY <1>3, ArriveKeeps
    <2>2. down' = down /\ strokes' = strokes /\ Acted' = Acted
        BY <1>2, <1>3 DEF Arrive, keyboardVars, Acted
    <2>3. MenuTypes'
        BY <1>1, <1>2, <2>1, <2>2, NextTypesFromParts
    <2>4. QED
        BY <2>1, <2>3 DEF MenuInv
<1>4. CASE \E k \in Keystrokes : Type(k)
    <2>1. PICK k \in Keystrokes : Type(k)
        BY <1>4
    <2>2. PipeInv' /\ KeysUnheard' /\ StrokesActAsMeant' /\ wire' \in Seq(PipeByte)
          /\ strokes' \in Seq(Keystrokes \cup Codes)
          /\ Acted' \subseteq DOMAIN strokes' /\ ended' \subseteq DOMAIN strokes'
        BY <2>1, TypeKeeps
    <2>3. down' = down /\ fifo' = fifo
        BY <2>1 DEF Type, keyboardVars
    <2>4. MenuTypes'
        BY <1>1, <1>2, <2>2, <2>3, NextTypesFromParts
    <2>5. QED
        BY <2>2, <2>4 DEF MenuInv
<1>5. CASE \E c \in Codes : Press(c)
    <2>1. PICK c \in Codes : Press(c)
        BY <1>5
    <2>2. PipeInv' /\ KeysUnheard' /\ StrokesActAsMeant' /\ down' \in Seq(Codes)
          /\ strokes' \in Seq(Keystrokes \cup Codes)
          /\ Acted' \subseteq DOMAIN strokes' /\ ended' \subseteq DOMAIN strokes'
        BY <2>1, PressKeeps
    <2>3. wire' = wire /\ fifo' = fifo
        BY <2>1 DEF Press
    <2>4. MenuTypes'
        BY <1>1, <1>2, <2>2, <2>3, NextTypesFromParts
    <2>5. QED
        BY <2>2, <2>4 DEF MenuInv
<1>6. QED
    BY <1>3, <1>4, <1>5

LEMMA InitMenuInv ==
    ASSUME Init
    PROVE  MenuInv
<1>1. ScreenTypes
    BY InitShows
<1>2. /\ fifo = <<>> /\ wire = <<>> /\ strokes = <<>> /\ acts = <<>> /\ down = <<>>
      /\ ended = {} /\ esc = 0 /\ sesc = 0
    BY DEF Init, KeyboardInit
<1>3. Acted = {} /\ InPipe = {} /\ Contents(down) = {}
    <2>1. Len(<<>>) = 0 /\ 1..0 = {} /\ DOMAIN <<>> = {}
        BY EmptySeq
    <2>2. QED
        BY <1>2, <2>1 DEF Acted, InPipe, Contents
<1>4. MenuTypes
    <2>1. <<>> \in Seq(PipeByte) /\ <<>> \in Seq(Keystrokes \cup Codes) /\ <<>> \in Seq(Act) /\ <<>> \in Seq(Codes)
        BY EmptySeq
    <2>2. Len(<<>>) <= FifoDepth
        BY EmptySeq, MenuAssumption
    <2>3. QED
        BY <1>1, <1>2, <1>3, <2>1, <2>2, TypesFromParts
<1>5. Ordered(strokes, fifo, wire)
    BY <1>2, EmptySeq DEF Ordered, Pairwise, Across
<1>6. PipeInv
    BY <1>2, <1>3, <1>5 DEF PipeInv, Owners, ActedGone, EndedFirst, EndedSilent
<1>7. KeysUnheard
    BY <1>3 DEF KeysUnheard
<1>8. StrokesActAsMeant
    BY <1>2, EmptySeq DEF StrokesActAsMeant
<1>9. QED
    BY <1>4, <1>6, <1>7, <1>8 DEF MenuInv

LEMMA StepKeepsMenuInv ==
    ASSUME MenuInv, DisplayTellsTheTruth, [Next]_vars
    PROVE  MenuInv'
<1>1. ScreenTypes'
    BY PartsOfTypes, StepShows DEF MenuInv
<1>2. CASE MenuPoll \/ SettingsPoll
    BY <1>1, <1>2, ScreenPollKeeps
<1>3. CASE AnyKeyPoll
    BY <1>1, <1>3, AnyKeyPollKeeps
<1>4. CASE WorkDone \/ AppReads \/ (\E c \in Codes : Release(c)) \/ UNCHANGED vars
    BY <1>1, <1>4, OthersKeep
<1>5. CASE Arrive \/ (\E k \in Keystrokes : Type(k)) \/ (\E c \in Codes : Press(c))
    BY <1>1, <1>5, UsersKeep
<1>6. QED
    BY <1>2, <1>3, <1>4, <1>5 DEF Next

(* No keystroke or keydown does what it was not meant for, none acts twice *)
(* and one that ended a wait does not act, whatever is lost and however    *)
(* the two devices' bytes meet in the decoder; only a typed capital A to D *)
(* may end an arrow that lost its last byte (ui.rs decode_byte,            *)
(* poll_menu_key, wait_for_key; hid.rs poll_new_keys).                     *)
THEOREM KeysActAsMeant == Spec => []StrokesActAsMeant
<1>1. Init => MenuInv /\ DisplayTellsTheTruth
    BY InitMenuInv, InitShows
<1>2. MenuInv /\ DisplayTellsTheTruth /\ [Next]_vars => (MenuInv /\ DisplayTellsTheTruth)'
    <2> SUFFICES ASSUME MenuInv, DisplayTellsTheTruth, [Next]_vars
                 PROVE  MenuInv' /\ DisplayTellsTheTruth'
        OBVIOUS
    <2>1. ScreenTypes
        BY PartsOfTypes DEF MenuInv
    <2>2. QED
        BY <2>1, StepKeepsMenuInv, StepShows
<1>3. MenuInv => StrokesActAsMeant
    BY DEF MenuInv
<1>4. QED
    BY <1>1, <1>2, <1>3, PTL DEF Spec

-----------------------------------------------------------------------------
(* The serial line alone.                                                  *)
SerialFacts ==
    /\ fifo \in Seq(PipeByte) /\ wire \in Seq(PipeByte)
    /\ strokes \in Seq(Keystrokes) /\ acts \in Seq(Act)
    /\ fresh = FALSE /\ down = <<>>
    /\ esc \in 0..2 /\ sesc \in 0..2 /\ (screen # "menu" => esc = 0)
    /\ meant \in Seq(Key) /\ lead \in 0..2
    /\ EscOf(Decoder, fifo \o wire) = lead
    /\ Joins(meant, Resolutions, KeysOf(Decoder, fifo \o wire))

SerialInv == clean => SerialFacts

(* A keystroke is decoded to what it stands for, and leaves the decoder as *)
(* far into a sequence.                                                    *)
LEMMA KeystrokeScan ==
    ASSUME NEW e \in 0..2, NEW k \in Keystrokes, NEW n \in Nat, NEW u \in Seq(PipeByte),
           u = Numbered(BytesOf(k), n)
    PROVE  EscOf(e, u) = LeadAfter(e, k) /\ KeysOf(e, u) = Heard(e, k)
<1>1. CASE k \in Arrows
    <2>1. PICK f \in FinalBytes :
              /\ Len(BytesOf(k)) = 3 /\ Final(f) = k /\ Meaning(k) = k /\ BytesOf(k) = <<"ESC", "[", f>>
              /\ BytesOf(k)[1] = "ESC" /\ BytesOf(k)[2] = "[" /\ BytesOf(k)[3] = f
        BY <1>1, ThreeBytes
    <2>2. DOMAIN BytesOf(k) = 1..3
        BY <2>1
    <2>3. u = [i \in 1..3 |-> [byte |-> BytesOf(k)[i], stroke |-> n]]
        BY <2>2 DEF Numbered
    <2>4. u[1].byte = "ESC" /\ u[2].byte = "[" /\ u[3].byte = f
        BY <2>1, <2>3
    <2>5. Len(u) = 3
        <3>1. DOMAIN u = 1..3 /\ 3 \in Nat
            BY <2>3
        <3>2. QED
            BY <3>1, LenProperties
    <2>6. PICK g \in [0..3 -> Decoding] : Scans(g, e, u) /\ Scanned(e, u) = g[3]
        BY <2>5, ScannedRuns
    <2>7. /\ g[0] = [esc |-> e, keys |-> <<>>]
          /\ g[1] = Fed(g[0], u[1]) /\ g[2] = Fed(g[1], u[2]) /\ g[3] = Fed(g[2], u[3])
        <3>1. 1 \in 1..3 /\ 2 \in 1..3 /\ 3 \in 1..3 /\ 1 - 1 = 0 /\ 2 - 1 = 1 /\ 3 - 1 = 2
            OBVIOUS
        <3>2. QED
            BY <2>5, <2>6, <3>1 DEF Scans
    <2>8. LeadAfter(e, k) = 0
        BY <1>1 DEF LeadAfter, Arrows
    <2>9. k # None /\ Append(<<>>, k) = <<k>> /\ Final(k) = None
        BY <1>1, OthersNotFinal DEF Arrows, None, FinalBytes
    <2>10. CASE e = 0
        <3>1. EscAfter(0, "ESC") = 1 /\ EscAfter(1, "[") = 2 /\ EscAfter(2, f) = 0
            BY DEF EscAfter
        <3>2. KeyOf(0, "ESC") = None
            BY <3>1 DEF KeyOf
        <3>3. KeyOf(1, "[") = None
            BY <3>1 DEF KeyOf
        <3>4. KeyOf(2, f) = k
            BY <2>1, <3>1 DEF KeyOf
        <3>5. g[1] = [esc |-> 1, keys |-> <<>>]
            BY <2>4, <2>7, <2>10, <3>1, <3>2 DEF Fed
        <3>6. g[2] = [esc |-> 2, keys |-> <<>>]
            BY <2>4, <2>7, <3>1, <3>3, <3>5 DEF Fed
        <3>7. g[3] = [esc |-> 0, keys |-> <<k>>]
            <4>1. PICK x : x = <<k>> /\ Append(<<>>, k) = x
                BY <2>9
            <4>2. g[2].esc = 2 /\ g[2].keys = <<>>
                BY <3>6
            <4>3. Fed(g[2], u[3]) = [esc |-> 0, keys |-> x]
                BY <2>4, <2>9, <3>1, <3>4, <4>1, <4>2, Zenon DEF Fed
            <4>4. QED
                BY <2>7, <4>1, <4>3, Zenon
        <3>8. Scanned(e, u).esc = 0 /\ Scanned(e, u).keys = <<k>>
            BY <2>6, <3>7
        <3>9. Heard(e, k) = <<k>>
            BY <2>1, <2>9, <2>10 DEF Heard
        <3>10. QED
            BY <2>8, <3>8, <3>9 DEF EscOf, KeysOf
    <2>11. CASE e \in {1, 2}
        <3>1. EscAfter(e, "ESC") = 0 /\ EscAfter(0, "[") = 0 /\ EscAfter(0, f) = 0
            BY <2>11 DEF EscAfter, FinalBytes
        <3>2. KeyOf(e, "ESC") = None
            <4>1. Plain("ESC") = None /\ Final("ESC") = None
                BY FinalsAndHeadsPlain, OthersNotFinal DEF FinalBytes
            <4>2. QED
                BY <3>1, <4>1 DEF KeyOf
        <3>3. KeyOf(0, "[") = None
            <4>1. Plain("[") = None
                BY FinalsAndHeadsPlain
            <4>2. QED
                BY <3>1, <4>1 DEF KeyOf
        <3>4. KeyOf(0, f) = None
            <4>1. Plain(f) = None
                BY FinalsAndHeadsPlain
            <4>2. QED
                BY <3>1, <4>1 DEF KeyOf
        <3>5. g[1] = [esc |-> 0, keys |-> <<>>]
            BY <2>4, <2>7, <3>1, <3>2 DEF Fed
        <3>6. g[2] = [esc |-> 0, keys |-> <<>>]
            BY <2>4, <2>7, <3>1, <3>3, <3>5 DEF Fed
        <3>7. g[3] = [esc |-> 0, keys |-> <<>>]
            BY <2>4, <2>7, <3>1, <3>4, <3>6 DEF Fed
        <3>8. Scanned(e, u).esc = 0 /\ Scanned(e, u).keys = <<>>
            BY <2>6, <3>7
        <3>9. Heard(e, k) = <<>>
            BY <1>1, <2>9, <2>11 DEF Heard, Arrows
        <3>10. QED
            BY <2>8, <3>8, <3>9 DEF EscOf, KeysOf
    <2>12. QED
        BY <2>10, <2>11
<1>2. CASE k \notin Arrows
    <2>1. BytesOf(k) = <<k>> /\ BytesOf(k)[1] = k
        BY <1>2, OneByte
    <2>2. DOMAIN BytesOf(k) = 1..1
        BY <2>1
    <2>3. u = [i \in 1..1 |-> [byte |-> BytesOf(k)[i], stroke |-> n]]
        BY <2>2 DEF Numbered
    <2>4. PICK b \in PipeByte : b = u[1] /\ b.byte = k /\ u = <<b>>
        <3>1. DOMAIN u = 1..1 /\ 1 \in Nat
            BY <2>3
        <3>2. Len(u) = 1
            BY <3>1, LenProperties
        <3>3. u[1] \in PipeByte /\ u[1].byte = k
            BY <2>1, <2>3, <3>2, ElementOfSeq
        <3>4. u = <<u[1]>>
            BY <3>2
        <3>5. QED
            BY <3>3, <3>4
    <2>5. EscAfter(e, k) = LeadAfter(e, k)
        BY DEF EscAfter, LeadAfter
    <2>6. KeyOf(e, k) = IF e = 2 THEN Final(k) ELSE Meaning(k)
        <3>1. k \notin Arrows \cup MenuCodes
            BY <1>2, MenuAssumption
        <3>2. Plain(k) = Meaning(k)
            BY <3>1, PlainMeaning
        <3>3. e = 2 => EscAfter(e, k) = 0
            BY DEF EscAfter
        <3>4. EscAfter(e, k) # 0 => Plain(k) = None
            <4>1. EscAfter(e, k) # 0 => k \in {"ESC", "["}
                BY DEF EscAfter
            <4>2. QED
                BY <4>1, FinalsAndHeadsPlain
        <3>5. QED
            BY <3>2, <3>3, <3>4 DEF KeyOf
    <2>7. Heard(e, k) = IF KeyOf(e, k) = None THEN <<>> ELSE <<KeyOf(e, k)>>
        BY <1>2, <2>6 DEF Heard, Arrows
    <2>8. Scanned(e, <<b>>) = [esc  |-> EscAfter(e, b.byte),
                               keys |-> IF KeyOf(e, b.byte) = None THEN <<>> ELSE <<KeyOf(e, b.byte)>>]
        BY ScannedShort
    <2>9. PICK ks, m : ks = Heard(e, k) /\ m = LeadAfter(e, k)
        OBVIOUS
    <2>10. Scanned(e, u) = [esc |-> m, keys |-> ks]
        BY <2>4, <2>5, <2>7, <2>8, <2>9, Zenon
    <2>11. Scanned(e, u).esc = m /\ Scanned(e, u).keys = ks
        BY ONLY <2>10
    <2>12. QED
        BY <2>9, <2>11 DEF EscOf, KeysOf
<1>3. QED
    BY <1>1, <1>2

(* The keys resolved, as they grow. *)
LEMMA ResolutionsType ==
    ASSUME acts \in Seq(Act)
    PROVE  Resolutions \in Seq(Key)
<1>1. PICK N \in Nat : N = Len(acts) /\ DOMAIN acts = 1..N
    BY LenProperties
<1>2. \A i \in 1..N : acts[i].key \in Key
    <2>1. \A i \in 1..N : acts[i] \in Act
        BY <1>1, ElementOfSeq
    <2>2. QED
        BY <2>1 DEF Act
<1>3. Resolutions \in [1..N -> Key]
    BY <1>1, <1>2 DEF Resolutions
<1>4. QED
    BY <1>3, SeqDef

LEMMA ResolutionsGrow ==
    ASSUME acts \in Seq(Act), NEW k \in Key \cup {None}, NEW n \in Nat, Resolved(k, n)
    PROVE  /\ acts' \in Seq(Act)
           /\ Joins(Resolutions', Resolutions, IF k = None THEN <<>> ELSE <<k>>)
<1>0. Resolutions \in Seq(Key)
    BY ResolutionsType
<1>1. CASE k = None
    <2>1. acts' = acts
        BY <1>1 DEF Resolved
    <2>2. Resolutions' = Resolutions /\ Resolutions \o <<>> = Resolutions
        BY <1>0, <2>1, ConcatEmptySeq DEF Resolutions
    <2>3. QED
        BY <1>1, <2>1, <2>2 DEF Joins
<1>2. CASE k # None
    <2>0. [key |-> k, stroke |-> n] \in Act
        BY <1>2 DEF Act
    <2>1. PICK a \in Act : a = [key |-> k, stroke |-> n] /\ a.key = k
        BY <2>0
    <2>2. acts' = Append(acts, a)
        BY <1>2, <2>1 DEF Resolved
    <2>3. PICK N \in Nat : N = Len(acts) /\ DOMAIN acts = 1..N
        BY LenProperties
    <2>4. /\ acts' \in Seq(Act) /\ Len(acts') = N + 1 /\ acts'[N + 1] = a
          /\ \A i \in 1..N : acts'[i] = acts[i]
        BY <2>2, <2>3, AppendProperties
    <2>5. DOMAIN acts' = 1..(N + 1)
        BY <2>4, LenProperties
    <2>6. PICK r, r1 : r = Resolutions /\ r1 = Resolutions'
        OBVIOUS
    <2>7. /\ r = [i \in 1..N |-> acts[i].key] /\ r1 = [i \in 1..(N + 1) |-> acts'[i].key]
        BY <2>3, <2>5, <2>6 DEF Resolutions
    <2>8. k \in Key /\ r \in Seq(Key)
        BY <1>0, <1>2, <2>6
    <2>9. Len(r) = N
        <3>1. DOMAIN r = 1..N
            BY <2>7
        <3>2. QED
            BY <2>8, <3>1, LenProperties
    <2>10. PICK s \in Seq(Key) : s = Append(r, k)
        BY <2>8, AppendProperties
    <2>11. Len(s) = N + 1 /\ s[N + 1] = k /\ \A i \in 1..N : s[i] = r[i]
        BY <2>8, <2>9, <2>10, AppendProperties
    <2>12. \A i \in 1..(N + 1) : r1[i] = s[i]
        <3>1. ASSUME NEW i \in 1..(N + 1) PROVE r1[i] = s[i]
            <4>1. CASE i = N + 1
                BY <2>1, <2>4, <2>7, <2>11, <4>1
            <4>2. CASE i # N + 1
                <5>1. i \in 1..N
                    BY <4>2
                <5>2. QED
                    BY <2>4, <2>7, <2>11, <5>1
            <4>3. QED
                BY <4>1, <4>2
        <3>2. QED
            BY <3>1
    <2>13. r1 = s
        <3>1. s = [i \in 1..(N + 1) |-> s[i]]
            BY <2>11
        <3>2. QED
            BY <2>7, <2>12, <3>1
    <2>14. Append(r, k) = r \o <<k>>
        BY <2>8, AppendIsConcat
    <2>15. QED
        BY <1>2, <2>4, <2>6, <2>10, <2>13, <2>14 DEF Joins
<1>3. QED
    BY <1>1, <1>2

LEMMA BytesAssoc ==
    ASSUME NEW x \in Seq(PipeByte), NEW y \in Seq(PipeByte), NEW z \in Seq(PipeByte)
    PROVE  z \o (x \o y) = (z \o x) \o y
BY ConcatAssociative, SMTT(30)

(* The first byte leaves, or moves from the wire into the FIFO. *)
LEMMA PipeSplits ==
    ASSUME NEW s \in Seq(PipeByte), NEW t \in Seq(PipeByte)
    PROVE  /\ s # <<>> => s \o t = <<Head(s)>> \o (Tail(s) \o t)
           /\ t # <<>> => Append(s, Head(t)) \o Tail(t) = s \o t
<1>1. ASSUME s # <<>> PROVE s \o t = <<Head(s)>> \o (Tail(s) \o t)
    <2>1. Head(s) \in PipeByte /\ Tail(s) \in Seq(PipeByte)
        BY <1>1, HeadTail
    <2>2a. PICK b \in PipeByte : b = Head(s)
        BY <2>1
    <2>2b. <<b>> \in Seq(PipeByte)
        OBVIOUS
    <2>2. PICK h \in Seq(PipeByte), u \in Seq(PipeByte) : h = <<Head(s)>> /\ u = Tail(s)
        BY <2>1, <2>2a, <2>2b
    <2>3. s = h \o u
        BY <1>1, <2>2
    <2>4. h \o (u \o t) = (h \o u) \o t
        BY ONLY BytesAssoc, h \in Seq(PipeByte), u \in Seq(PipeByte), t \in Seq(PipeByte)
    <2>5. QED
        BY <2>2, <2>3, <2>4, Zenon
<1>2. ASSUME t # <<>> PROVE Append(s, Head(t)) \o Tail(t) = s \o t
    <2>1. Head(t) \in PipeByte /\ Tail(t) \in Seq(PipeByte)
        BY <1>2, HeadTail
    <2>2a. PICK b \in PipeByte : b = Head(t)
        BY <2>1
    <2>2b. <<b>> \in Seq(PipeByte)
        OBVIOUS
    <2>2. PICK h \in Seq(PipeByte), u \in Seq(PipeByte) : h = <<Head(t)>> /\ u = Tail(t)
        BY <2>1, <2>2a, <2>2b
    <2>3. t = h \o u
        BY <1>2, <2>2
    <2>4. Append(s, Head(t)) = s \o h
        BY <2>1, <2>2, AppendIsConcat
    <2>5. s \o (h \o u) = (s \o h) \o u
        BY ONLY BytesAssoc, h \in Seq(PipeByte), u \in Seq(PipeByte), s \in Seq(PipeByte)
    <2>6. QED
        BY <2>2, <2>3, <2>4, <2>5, Zenon
<1>3. QED
    BY <1>1, <1>2

(* A poll of the serial line takes one byte, and nothing else changes what *)
(* the rest will be decoded to.                                            *)
LEMMA SerialPoll ==
    ASSUME SerialFacts, NEW k \in Key \cup {None}, PollUart(Decoder, Decoder', k),
           esc' \in 0..2, sesc' \in 0..2, screen' # "menu" => esc' = 0
    PROVE  SerialFacts'
<1>0. /\ fifo \in Seq(PipeByte) /\ wire \in Seq(PipeByte)
      /\ strokes \in Seq(Keystrokes) /\ acts \in Seq(Act)
      /\ meant \in Seq(Key) /\ lead \in 0..2
      /\ EscOf(Decoder, fifo \o wire) = lead
      /\ Joins(meant, Resolutions, KeysOf(Decoder, fifo \o wire))
    BY DEF SerialFacts
<1>00. Decoder \in 0..2 /\ Decoder' \in 0..2
    BY DEF SerialFacts, Decoder
<1>1. /\ fifo # <<>> /\ fifo' = Tail(fifo) /\ wire' = wire /\ strokes' = strokes
      /\ Decoder' = EscAfter(Decoder, Head(fifo).byte) /\ k = KeyOf(Decoder, Head(fifo).byte)
      /\ Resolved(k, Head(fifo).stroke) /\ fresh' = fresh /\ down' = down
    BY DEF PollUart, Resolved, keyboardVars
<1>2. PICK b \in PipeByte : b = Head(fifo) /\ b.stroke \in Nat
    <2>1. Head(fifo) \in PipeByte
        BY <1>0, <1>1, HeadTail
    <2>2. QED
        BY <2>1 DEF PipeByte
<1>3. PICK rest \in Seq(PipeByte) : rest = fifo' \o wire'
    <2>1. Tail(fifo) \in Seq(PipeByte)
        BY <1>0, <1>1, HeadTail
    <2>2. QED
        BY <1>0, <1>1, <2>1, ConcatProperties
<1>4. fifo' \in Seq(PipeByte)
    BY <1>0, <1>1, HeadTail
<1>5. PICK pipe : pipe = fifo \o wire
    OBVIOUS
<1>6. PICK more : more = IF k = None THEN <<>> ELSE <<k>>
    OBVIOUS
<1>7. more \in Seq(Key)
    <2>1. <<>> \in Seq(Key) /\ (k # None => <<k>> \in Seq(Key))
        OBVIOUS
    <2>2. QED
        BY <1>6, <2>1
<1>8. PICK p \in Seq(PipeByte) :
          p = <<b>> /\ EscOf(Decoder, p) = Decoder' /\ KeysOf(Decoder, p) = more
    <2>1. Scanned(Decoder, <<b>>) = [esc |-> Decoder', keys |-> more]
        BY <1>00, <1>1, <1>2, <1>6, ScannedShort
    <2>2. <<b>> \in Seq(PipeByte)
        OBVIOUS
    <2>3. Scanned(Decoder, <<b>>).esc = Decoder' /\ Scanned(Decoder, <<b>>).keys = more
        BY ONLY <2>1
    <2>4. QED
        BY <2>2, <2>3, Zenon DEF EscOf, KeysOf
<1>9. Joins(pipe, p, rest)
    <2>1. fifo \o wire = <<Head(fifo)>> \o (Tail(fifo) \o wire)
        BY <1>0, <1>1, PipeSplits
    <2>2. QED
        BY <1>1, <1>2, <1>3, <1>5, <1>8, <2>1, Zenon DEF Joins
<1>10. PICK y \in Seq(Key) : y = KeysOf(Decoder', rest)
    BY <1>00, ScanTypes
<1>11. EscOf(Decoder, pipe) = EscOf(Decoder', rest) /\ Joins(KeysOf(Decoder, pipe), more, y)
    <2>1. /\ EscOf(Decoder, pipe) = EscOf(EscOf(Decoder, p), rest)
          /\ Joins(KeysOf(Decoder, pipe), KeysOf(Decoder, p), KeysOf(EscOf(Decoder, p), rest))
        BY <1>00, <1>9, ScanJoin
    <2>2. QED
        BY <1>8, <1>10, <2>1, Zenon
<1>12. acts' \in Seq(Act) /\ Joins(Resolutions', Resolutions, more)
    BY <1>0, <1>1, <1>2, <1>6, ResolutionsGrow
<1>13. PICK r \in Seq(Key) : r = Resolutions
    BY <1>0, ResolutionsType
<1>14. r \o (more \o y) = (r \o more) \o y
    BY ONLY KeysAssoc, <1>7, r \in Seq(Key), y \in Seq(Key)
<1>15. meant' = meant /\ lead' = lead
    BY <1>1 DEF Resolved, meantVars
<1>16. EscOf(Decoder', fifo' \o wire') = lead' /\ Joins(meant', Resolutions', KeysOf(Decoder', fifo' \o wire'))
    <2>1. EscOf(Decoder, pipe) = lead /\ Joins(meant, Resolutions, KeysOf(Decoder, pipe))
        BY <1>0, <1>5, Zenon
    <2>2. QED
        BY <1>3, <1>10, <1>11, <1>12, <1>13, <1>14, <1>15, <2>1, Zenon DEF Joins
<1>17. fresh' = FALSE /\ down' = <<>>
    BY <1>1 DEF SerialFacts
<1>18. QED
    BY <1>0, <1>1, <1>4, <1>12, <1>15, <1>16, <1>17 DEF SerialFacts

LEMMA SerialType ==
    ASSUME SerialFacts, NEW k \in Keystrokes, Type(k)
    PROVE  SerialFacts'
<1>0. /\ fifo \in Seq(PipeByte) /\ wire \in Seq(PipeByte)
      /\ strokes \in Seq(Keystrokes) /\ acts \in Seq(Act)
      /\ meant \in Seq(Key) /\ lead \in 0..2
      /\ EscOf(Decoder, fifo \o wire) = lead
      /\ Joins(meant, Resolutions, KeysOf(Decoder, fifo \o wire))
    BY DEF SerialFacts
<1>00. Decoder \in 0..2
    BY DEF SerialFacts, Decoder
<1>1. /\ strokes' = Append(strokes, k) /\ wire' = wire \o Numbered(BytesOf(k), Len(strokes'))
      /\ fifo' = fifo /\ acts' = acts /\ fresh' = fresh /\ down' = down
      /\ esc' = esc /\ sesc' = sesc /\ screen' = screen
    BY DEF Type, Stroke, keyboardVars, menuVars
<1>2. PICK more : more = Heard(lead, k)
    OBVIOUS
<1>3. strokes' \in Seq(Keystrokes) /\ Joins(meant', meant, more) /\ lead' = LeadAfter(lead, k)
    BY <1>0, <1>1, <1>2, AppendProperties DEF Type, Joins
<1>4. PICK n \in Nat : n = Len(strokes') /\ n \in DOMAIN strokes' /\ strokes'[n] = k
    <2>1. PICK N \in Nat : N = Len(strokes)
        BY <1>0, LenProperties
    <2>2. Len(strokes') = N + 1 /\ strokes'[N + 1] = k
        BY <1>0, <1>1, <2>1, AppendProperties
    <2>3. DOMAIN strokes' = 1..(N + 1) /\ N + 1 \in Nat
        BY <1>3, <2>2, LenProperties
    <2>4. QED
        BY <2>2, <2>3
<1>5. PICK u \in Seq(PipeByte) : u = Numbered(BytesOf(k), n)
    BY <1>4, NumberedBytes
<1>6. EscOf(lead, u) = lead' /\ KeysOf(lead, u) = more
    BY <1>0, <1>2, <1>3, <1>5, KeystrokeScan
<1>7. PICK pipe \in Seq(PipeByte) : pipe = fifo \o wire
    BY <1>0, ConcatProperties
<1>8. PICK pipe1 : pipe1 = fifo' \o wire'
    OBVIOUS
<1>9. Joins(pipe1, pipe, u) /\ wire' \in Seq(PipeByte)
    <2>1. wire' = wire \o u
        BY <1>1, <1>4, <1>5
    <2>2. fifo \o (wire \o u) = (fifo \o wire) \o u
        BY ONLY BytesAssoc, <1>0, u \in Seq(PipeByte)
    <2>3. wire \o u \in Seq(PipeByte)
        BY <1>0, ConcatProperties
    <2>4. QED
        BY <1>1, <1>7, <1>8, <2>1, <2>2, <2>3, Zenon DEF Joins
<1>10. Decoder' = Decoder /\ Resolutions' = Resolutions
    BY <1>1 DEF Decoder, Resolutions
<1>11. PICK y \in Seq(Key) : y = KeysOf(Decoder, pipe)
    BY <1>00, ScanTypes
<1>12. EscOf(Decoder, pipe) = lead /\ Joins(meant, Resolutions, y)
    BY <1>0, <1>7, <1>11, Zenon
<1>13. EscOf(Decoder, pipe1) = lead' /\ Joins(KeysOf(Decoder, pipe1), y, more)
    <2>1. /\ EscOf(Decoder, pipe1) = EscOf(EscOf(Decoder, pipe), u)
          /\ Joins(KeysOf(Decoder, pipe1), KeysOf(Decoder, pipe), KeysOf(EscOf(Decoder, pipe), u))
        BY <1>00, <1>9, ScanJoin
    <2>2. QED
        BY <1>6, <1>11, <1>12, <2>1, Zenon
<1>14. PICK r \in Seq(Key) : r = Resolutions
    BY <1>0, ResolutionsType
<1>15. more \in Seq(Key) /\ lead' \in 0..2 /\ meant' \in Seq(Key)
    <2>1. KeysOf(lead, u) \in Seq(Key) /\ EscOf(lead, u) \in 0..2
        BY <1>0, ScanTypes
    <2>2. more \in Seq(Key) /\ lead' \in 0..2
        BY <1>6, <2>1
    <2>3. meant \o more \in Seq(Key)
        BY <1>0, <2>2, ConcatProperties
    <2>4. QED
        BY <1>3, <2>2, <2>3 DEF Joins
<1>16. r \o (y \o more) = (r \o y) \o more
    BY ONLY KeysAssoc, <1>15, r \in Seq(Key), y \in Seq(Key)
<1>17. EscOf(Decoder', fifo' \o wire') = lead' /\ Joins(meant', Resolutions', KeysOf(Decoder', fifo' \o wire'))
    BY <1>3, <1>8, <1>10, <1>12, <1>13, <1>14, <1>16, Zenon DEF Joins
<1>18. fresh' = FALSE /\ down' = <<>> /\ esc' \in 0..2 /\ sesc' \in 0..2 /\ (screen' # "menu" => esc' = 0)
    BY <1>1 DEF SerialFacts
<1>19. QED
    BY <1>0, <1>1, <1>3, <1>9, <1>15, <1>17, <1>18 DEF SerialFacts

(* Steps that leave the bytes, the decoder and the histories as they are. *)
LEMMA SerialStays ==
    ASSUME SerialFacts, UNCHANGED <<strokes, acts, meant, lead, fresh, down, esc, sesc>>,
           fifo' \o wire' = fifo \o wire, fifo' \in Seq(PipeByte), wire' \in Seq(PipeByte),
           Decoder' = Decoder, screen' # "menu" => esc = 0
    PROVE  SerialFacts'
<1>1. meant' = meant /\ lead' = lead /\ Resolutions' = Resolutions
    BY DEF Resolutions
<1>2. EscOf(Decoder, fifo \o wire) = lead /\ Joins(meant, Resolutions, KeysOf(Decoder, fifo \o wire))
    BY DEF SerialFacts
<1>3. EscOf(Decoder', fifo' \o wire') = lead' /\ Joins(meant', Resolutions', KeysOf(Decoder', fifo' \o wire'))
    BY <1>1, <1>2, Zenon
<1>4. QED
    BY <1>3 DEF SerialFacts

LEMMA StepKeepsSerialInv ==
    ASSUME SerialInv, [Next]_vars
    PROVE  SerialInv'
<1> SUFFICES ASSUME clean' PROVE SerialFacts'
    BY DEF SerialInv
<1>0. ASSUME clean
      PROVE  /\ SerialFacts /\ fifo \in Seq(PipeByte) /\ wire \in Seq(PipeByte)
             /\ esc \in 0..2 /\ sesc \in 0..2 /\ (screen # "menu" => esc = 0)
    BY <1>0 DEF SerialInv, SerialFacts
<1>1. CASE MenuPoll \/ SettingsPoll
    <2>1. \A from, e, k : Poll(from, e, k) => clean' = clean
        BY DEF Poll, PollUart, PollKeyboard
    <2>2. clean
        BY <1>1, <2>1 DEF MenuPoll, SettingsPoll
    <2>3. /\ SerialFacts /\ esc \in 0..2 /\ sesc \in 0..2 /\ (screen # "menu" => esc = 0)
        BY <1>0, <2>2
    <2>4. \A from, e, k : Poll(from, e, k) => PollUart(from, e, k)
        BY <2>3 DEF Poll, PollKeyboard, TakeReport, SerialFacts
    <2>5. \A from \in 0..2, e \in 0..2, k \in Key \cup {None} : Poll(from, e, k) => (k # None => e = 0)
        <3>1. \A from \in 0..2, e \in 0..2, k \in Key \cup {None} : PollUart(from, e, k) => (k # None => e = 0)
            BY DecodeByte DEF PollUart
        <3>2. QED
            BY <2>4, <3>1
    <2>6. /\ \E k \in Key \cup {None} : Poll(Decoder, Decoder', k)
          /\ esc' \in 0..2 /\ sesc' \in 0..2 /\ (screen' # "menu" => esc' = 0)
        BY <1>1, <2>3, <2>5, ScreenPolls
    <2>7. PICK k \in Key \cup {None} : PollUart(Decoder, Decoder', k)
        BY <2>4, <2>6
    <2>8. QED
        BY <2>3, <2>6, <2>7, SerialPoll
<1>2. CASE AnyKeyPoll
    BY <1>2 DEF AnyKeyPoll
<1>3. CASE WorkDone
    <2>1. /\ clean' = clean /\ UNCHANGED <<strokes, acts, meant, lead, fifo, wire, fresh, down, esc, sesc>>
          /\ screen = "working" /\ screen' = "anykey"
        BY <1>3 DEF WorkDone, Show, deviceVars, keyboardVars, historyVars, meantVars
    <2>2. Decoder' = Decoder
        BY <2>1 DEF Decoder
    <2>3. QED
        BY <1>0, <2>1, <2>2, SerialStays
<1>4. CASE AppReads
    BY <1>4 DEF AppReads
<1>5. CASE Arrive
    <2>1. /\ clean' = clean /\ UNCHANGED <<strokes, acts, meant, lead, fresh, down, esc, sesc, screen>>
          /\ wire # <<>> /\ wire' = Tail(wire) /\ fifo' = Append(fifo, Head(wire))
        BY <1>5 DEF Arrive, keyboardVars, menuVars, meantVars
    <2>2. Decoder' = Decoder
        BY <2>1 DEF Decoder
    <2>3. fifo' \o wire' = fifo \o wire
        <3>1. Append(fifo, Head(wire)) \o Tail(wire) = fifo \o wire
            BY <1>0, <2>1, PipeSplits
        <3>2. QED
            BY <2>1, <3>1, Zenon
    <2>4. fifo' \in Seq(PipeByte) /\ wire' \in Seq(PipeByte)
        BY <1>0, <2>1, HeadTail, AppendProperties
    <2>5. QED
        BY <1>0, <2>1, <2>2, <2>3, <2>4, SerialStays
<1>6. CASE \E k \in Keystrokes : Type(k)
    <2>1. PICK k \in Keystrokes : Type(k)
        BY <1>6
    <2>2. clean
        BY <2>1 DEF Type
    <2>3. QED
        BY <1>0, <2>1, <2>2, SerialType
<1>7. CASE \E c \in Codes : Press(c)
    BY <1>7 DEF Press
<1>8. CASE \E c \in Codes : Release(c)
    <2>1. PICK c \in Codes : KeyUp(c) /\ clean' = clean
        BY <1>8 DEF Release, historyVars
    <2>2. down = <<>>
        BY <1>0, <2>1 DEF SerialFacts
    <2>3. c \in Range(down) /\ Range(down) = {}
        BY <2>1, <2>2, EmptySeq DEF KeyUp, Range
    <2>4. QED
        BY <2>3
<1>9. CASE UNCHANGED vars
    <2>1. clean' = clean /\ UNCHANGED <<strokes, acts, meant, lead, fifo, wire, fresh, down, esc, sesc, screen>>
        BY <1>9 DEF vars, deviceVars, keyboardVars, menuVars, historyVars, meantVars
    <2>2. Decoder' = Decoder
        BY <2>1 DEF Decoder
    <2>3. QED
        BY <1>0, <2>1, <2>2, SerialStays
<1>10. QED
    BY <1>1, <1>2, <1>3, <1>4, <1>5, <1>6, <1>7, <1>8, <1>9 DEF Next

LEMMA InitSerialInv ==
    ASSUME Init
    PROVE  SerialInv
<1>1. /\ fifo = <<>> /\ wire = <<>> /\ strokes = <<>> /\ acts = <<>> /\ down = <<>> /\ fresh = FALSE
      /\ esc = 0 /\ sesc = 0 /\ screen = "menu" /\ meant = <<>> /\ lead = 0
    BY DEF Init, KeyboardInit
<1>2. /\ <<>> \in Seq(PipeByte) /\ <<>> \in Seq(Keystrokes) /\ <<>> \in Seq(Act) /\ <<>> \in Seq(Key)
      /\ <<>> \in Seq(Key \cup {None}) /\ Len(<<>>) = 0 /\ DOMAIN <<>> = {}
    BY EmptySeq
<1>3. <<>> \o <<>> = <<>>
    OBVIOUS
<1>4. Decoder = 0 /\ 0 \in 0..2
    BY <1>1 DEF Decoder
<1>5. EscOf(0, <<>>) = 0 /\ KeysOf(0, <<>>) = <<>>
    <2>1. Scanned(0, <<>>) = [esc |-> 0, keys |-> <<>>]
        BY <1>4, ScannedShort
    <2>2. QED
        BY <2>1 DEF EscOf, KeysOf
<1>6. Resolutions = <<>>
    BY <1>1, <1>2 DEF Resolutions
<1>8. Joins(meant, Resolutions, KeysOf(0, <<>>))
    BY <1>1, <1>3, <1>5, <1>6 DEF Joins
<1>9. QED
    BY <1>1, <1>2, <1>3, <1>4, <1>5, <1>8 DEF SerialInv, SerialFacts

(* As long as only the serial line is used, by the menu and the settings   *)
(* screen, and the FIFO loses no byte, the keys resolved followed by those *)
(* still on their way are the ones the keystrokes stand for, each once and *)
(* in order, with Esc standing for none and spoiling an arrow after it     *)
(* (ui.rs decode_byte, run_settings).                                      *)
THEOREM SerialLineIsFaithful == Spec => []SerialKeysFaithful
<1>1. Init => SerialInv
    BY InitSerialInv
<1>2. SerialInv /\ [Next]_vars => SerialInv'
    BY StepKeepsSerialInv
<1>3. SerialInv => SerialKeysFaithful
    <2> SUFFICES ASSUME SerialInv, clean PROVE Resolutions \o Coming = meant
        BY DEF SerialKeysFaithful
    <2>1. Joins(meant, Resolutions, KeysOf(Decoder, fifo \o wire))
        BY DEF SerialInv, SerialFacts
    <2>2. QED
        BY <2>1, Zenon DEF Joins, KeysOf, Coming
<1>4. QED
    BY <1>1, <1>2, <1>3, PTL DEF Spec

(* The selections never leave their lists, so select's unreachable!() arm  *)
(* and the row of apply_change are never missed (ui.rs select,             *)
(* apply_change).                                                          *)
THEOREM SelectionsInLists == Spec => [](selected \in 0..(ITEMS - 1) /\ row \in 0..(ROWS - 1))
<1>1. Init => ScreenTypes /\ DisplayTellsTheTruth
    BY InitShows
<1>2. ScreenTypes /\ DisplayTellsTheTruth /\ [Next]_vars => (ScreenTypes /\ DisplayTellsTheTruth)'
    BY StepShows
<1>3. ScreenTypes => selected \in 0..(ITEMS - 1) /\ row \in 0..(ROWS - 1)
    BY DEF ScreenTypes
<1>4. QED
    BY <1>1, <1>2, <1>3, PTL DEF Spec
=============================================================================
