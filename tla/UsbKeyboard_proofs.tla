------------------------- MODULE UsbKeyboard_proofs -------------------------
(***************************************************************************)
(* Proofs about the search for a keyboard, for a hub with any number of    *)
(* ports, any devices with any configuration descriptors, and every way    *)
(* the transfers of the search may fail, time out or complete late.        *)
(***************************************************************************)
EXTENDS UsbKeyboard, Loops, SequenceTheorems, TLAPS

Phases == {"setup", "data", "status"}
BusEntry == [on : BOOLEAN, live : BOOLEAN, addr : 0..2, cfg : BOOLEAN]

UsbType ==
    /\ bus \in [Position -> BusEntry]
    /\ plugged \in [Position -> Kinds \cup Roots]
    /\ plugged[0] # "hub" => \A p \in 1..Ports : plugged[p] = "none"
    /\ heard \subseteq Position /\ port \in Position
    /\ step \in Requests \cup {"core", "rootPower", "stop"} /\ phase \in Phases
    /\ hub \in 0..1 /\ dev \in 0..2
    /\ inflight \in BOOLEAN /\ owed \in BOOLEAN /\ clean \in BOOLEAN
    /\ ep \in Nat /\ seen \in Kinds \cup Roots \cup {"none"}
    /\ result \in {"searching", "found", "none"}

(* The device the driver means: where two answer, the one it hears.        *)
Meant == First(Answering(dev))

(* What a finished keyboard, and one that only waits to be configured,     *)
(* have behind them.                                                       *)
FoundInv ==
    /\ result # "searching" => step = "stop"
    /\ inflight => step \in Requests
    /\ owed => phase = "setup"
    /\ step \in Requests /\ phase # "setup" /\ heard # {} => heard \in Hears(To)
    /\ step = "cfg" /\ phase = "status" /\ heard # {} =>
           heard = {Meant} /\ seen = plugged[Meant]
    /\ step = "setCfg" =>
           Answering(dev) # {} /\ ep \in ReportEndpoints(plugged[Meant])
    /\ FoundKeyboardWorks

(* A keyboard at K is the first device on the way.                         *)
Leads(K) ==
    /\ IsKeyboard(plugged[K])
    /\ K # 0 => plugged[0] = "hub" /\ \A q \in 1..(K - 1) : plugged[q] = "none"

(* The device the request goes to. *)
Target(K) == IF step \in DeviceSteps THEN K ELSE 0

Untouched == {"core", "rootPower"} \cup HubSteps \cup {"power", "status", "reset"}
AtTheRoot == {"core", "rootPower", "rootDesc", "hubAddr"}
Unaddressed == {"clearReset", "clearConn", "speed", "desc", "setAddr"}

(* Nothing but the hub and the keyboard answers, each at an address of its *)
(* own, and the driver is on its way to that keyboard.                     *)
Way(K) ==
    /\ ~owed /\ result # "none" /\ (step = "stop" => result = "found")
    /\ \A p \in Position \ {0, K} : ~bus[p].live
    /\ step \in Untouched /\ K # 0 => ~bus[K].live
    /\ step \in AtTheRoot \cup {"hubDesc"} => port = 0 /\ dev = 0
    /\ step \in AtTheRoot => hub = 0
    /\ step \in {"hubAddr", "hubDesc"} \cup PortSteps => K # 0
    /\ step \in {"rootDesc", "hubAddr"} => bus[0].live /\ bus[0].addr = 0
    /\ step \in {"hubDesc"} \cup PortSteps \/ (step \in DeviceSteps /\ K # 0) =>
           bus[0].live /\ bus[0].addr = 1 /\ hub = 1
    /\ step \in PortSteps => port \in 1..K /\ dev = 0
    /\ step = "status" => bus[port].on
    /\ step \in (PortSteps \ {"power", "status"}) \cup DeviceSteps => port = K
    /\ step \in Unaddressed => bus[K].live /\ bus[K].addr = 0 /\ dev = 0
    /\ step \in DeviceSteps \ Unaddressed =>
           bus[K].live /\ bus[K].addr = NewAddress /\ dev = NewAddress
    /\ step \in Requests /\ phase # "setup" => heard = {Target(K)}
    /\ step = "rootDesc" /\ phase = "status" => seen = plugged[0]
    /\ step = "status" /\ phase = "status" => seen = plugged[port]
    /\ step = "cfg" /\ phase = "status" => seen = plugged[K]

CleanInv == \A K \in Position : Leads(K) /\ clean => Way(K)


-----------------------------------------------------------------------------
(* The scan of a configuration, round by round.                            *)
Scanning == [at : Nat, kbd : BOOLEAN, ep : Nat]
Begun == [at |-> 0, kbd |-> FALSE, ep |-> 0]

LEMMA ScanType ==
    ASSUME NEW st \in Scanning, NEW d \in Descriptor
    PROVE  Scan(st, d) \in Scanning
<1>1. PICK end \in Nat : end = st.at + d.len
    BY DEF Scanning, Descriptor, Lengths
<1>2. CASE st.ep # 0 \/ d.len = 0 \/ end > CfgBytes
    <2>1. Scan(st, d) = [st EXCEPT !.at = CfgBytes]
        BY <1>1, <1>2 DEF Scan
    <2>2. QED
        BY <2>1 DEF Scanning, CfgBytes
<1>3. CASE ~(st.ep # 0 \/ d.len = 0 \/ end > CfgBytes)
    <2>1. PICK k : k = IF d.type = "interface" THEN d.kbd ELSE st.kbd
        OBVIOUS
    <2>2. PICK e : e = IF d.type = "endpoint" /\ st.kbd /\ d.in THEN d.ep ELSE 0
        OBVIOUS
    <2>3. Scan(st, d) = [at |-> end, kbd |-> k, ep |-> e]
        BY <1>1, <1>3, <2>1, <2>2 DEF Scan
    <2>4. k \in BOOLEAN
        BY <2>1 DEF Descriptor, Scanning
    <2>5. e \in Nat
        BY <2>2 DEF Descriptor
    <2>6. QED
        BY <2>3, <2>4, <2>5 DEF Scanning
<1>4. QED
    BY <1>2, <1>3

(* One round: the scan is over, or takes one more descriptor.              *)
LEMMA ScanOver ==
    ASSUME NEW st \in Scanning, NEW d \in Descriptor,
           st.ep # 0 \/ d.len = 0 \/ st.at + d.len > CfgBytes
    PROVE  Scan(st, d).at = CfgBytes /\ Scan(st, d).ep = st.ep
BY DEF Scan, Scanning

LEMMA ScanOn ==
    ASSUME NEW st \in Scanning, NEW d \in Descriptor,
           st.ep = 0, d.len # 0, ~(st.at + d.len > CfgBytes)
    PROVE  /\ Scan(st, d).at = st.at + d.len
           /\ Scan(st, d).kbd = IF d.type = "interface" THEN d.kbd ELSE st.kbd
           /\ Scan(st, d).ep = IF d.type = "endpoint" /\ st.kbd /\ d.in THEN d.ep ELSE 0
BY DEF Scan


(* Rounds(g, c): g[n] is the state of the scan after n descriptors.  Adds  *)
(* likewise for the bytes before each descriptor's end.                    *)
Rounds(g, c) == g[0] = Begun /\ \A n \in 1..Len(c) : g[n] = Scan(g[n - 1], c[n])
Adds(g, c) == g[0] = 0 /\ \A n \in 1..Len(c) : g[n] = g[n - 1] + c[n].len

ScanSteps(c) == [n \in 1..Len(c) |-> [st \in Scanning |-> Scan(st, c[n])]]
AddSteps(c) == [n \in 1..Len(c) |-> [k \in Nat |-> k + c[n].len]]

LEMMA ScannedRuns ==
    ASSUME NEW c \in Seq(Descriptor)
    PROVE  \E g \in [0..Len(c) -> Scanning] : Rounds(g, c) /\ Scanned(c) = g[Len(c)]
<1>0. PICK N \in Nat : N = Len(c)
    BY LenProperties
<1>1. \A n \in 1..N : c[n] \in Descriptor
    BY <1>0, ElementOfSeq
<1>2. \A n \in 1..N, st \in Scanning : Scan(st, c[n]) \in Scanning
    BY <1>1, ScanType
<1>3. Steps(ScanSteps(c), N, Scanning)
    BY <1>0, <1>2 DEF Steps, ScanSteps
<1>4. Begun \in Scanning
    BY DEF Begun, Scanning
<1>5. PICK g : Run(g, Begun, ScanSteps(c), N, Scanning)
    BY <1>3, <1>4, Iterates
<1>6. g \in [0..N -> Scanning] /\ g[0] = Begun
    BY <1>5 DEF Run
<1>7. \A n \in 1..N : g[n] = Scan(g[n - 1], c[n])
    <2> SUFFICES ASSUME NEW n \in 1..N PROVE g[n] = Scan(g[n - 1], c[n])
        OBVIOUS
    <2>1. n - 1 \in 0..N
        OBVIOUS
    <2>2. g[n - 1] \in Scanning /\ g[n] = ScanSteps(c)[n][g[n - 1]]
        BY <1>5, <2>1 DEF Run
    <2>3. QED
        BY <1>0, <2>2 DEF ScanSteps
<1> DEFINE Body(f) == [n \in 0..Len(c) |->
                         IF n = 0 THEN [at |-> 0, kbd |-> FALSE, ep |-> 0] ELSE Scan(f[n - 1], c[n])]
           After == CHOOSE f : f = Body(f)
<1>8. g = Body(g)
    <2>1. ASSUME NEW n \in 0..N PROVE g[n] = Body(g)[n]
        <3>1. CASE n = 0
            BY <1>0, <1>6, <3>1 DEF Begun
        <3>2. CASE n # 0
            <4>1. n \in 1..N
                BY <3>2
            <4>2. QED
                BY <1>0, <1>7, <3>2, <4>1
        <3>3. QED
            BY <3>1, <3>2
    <2>2. DOMAIN g = 0..N /\ g = [n \in 0..N |-> g[n]]
        BY <1>6
    <2>3. QED
        BY <1>0, <2>1, <2>2
<1>9. After = Body(After)
    BY <1>8
<1>10. Scanned(c) = After[Len(c)]
    BY DEF Scanned
<1> HIDE DEF After
<1>11. \A n \in 0..N : After[n] = g[n]
    <2> DEFINE P == {n \in 0..N : After[n] = g[n]}
    <2>1. 0 \in P
        BY <1>0, <1>8, <1>9
    <2>2. ASSUME NEW n \in 0..N - 1, n \in P PROVE n + 1 \in P
        <3>1. n + 1 \in 0..N /\ n + 1 # 0 /\ (n + 1) - 1 = n
            OBVIOUS
        <3>2. After[n + 1] = Scan(After[n], c[n + 1]) /\ g[n + 1] = Scan(g[n], c[n + 1])
            BY <1>0, <1>8, <1>9, <3>1
        <3>3. QED
            BY <2>2, <3>1, <3>2
    <2> HIDE DEF P
    <2>3. \A n \in 0..N : n \in P
        BY <2>1, <2>2, UpTo
    <2>4. QED
        BY <2>3 DEF P
<1>12. QED
    BY <1>0, <1>6, <1>7, <1>10, <1>11 DEF Rounds

LEMMA BytesAdd ==
    ASSUME NEW c \in Seq(Descriptor)
    PROVE  BytesUpTo(c) \in [0..Len(c) -> Nat] /\ Adds(BytesUpTo(c), c)
<1>0. PICK N \in Nat : N = Len(c)
    BY LenProperties
<1>1. \A n \in 1..N : c[n] \in Descriptor
    BY <1>0, ElementOfSeq
<1>2. \A n \in 1..N, k \in Nat : k + c[n].len \in Nat
    BY <1>1 DEF Descriptor, Lengths
<1>3. Steps(AddSteps(c), N, Nat)
    BY <1>0, <1>2 DEF Steps, AddSteps
<1>5. PICK g : Run(g, 0, AddSteps(c), N, Nat)
    BY <1>3, Iterates
<1>6. g \in [0..N -> Nat] /\ g[0] = 0
    BY <1>5 DEF Run
<1>7. \A n \in 1..N : g[n] = g[n - 1] + c[n].len
    <2> SUFFICES ASSUME NEW n \in 1..N PROVE g[n] = g[n - 1] + c[n].len
        OBVIOUS
    <2>1. n - 1 \in 0..N
        OBVIOUS
    <2>2. g[n - 1] \in Nat /\ g[n] = AddSteps(c)[n][g[n - 1]]
        BY <1>5, <2>1 DEF Run
    <2>3. QED
        BY <1>0, <2>2 DEF AddSteps
<1> DEFINE Body(f) == [n \in 0..Len(c) |-> IF n = 0 THEN 0 ELSE f[n - 1] + c[n].len]
           Sum == CHOOSE f : f = Body(f)
<1>8. g = Body(g)
    <2>1. ASSUME NEW n \in 0..N PROVE g[n] = Body(g)[n]
        <3>1. CASE n = 0
            BY <1>0, <1>6, <3>1
        <3>2. CASE n # 0
            <4>1. n \in 1..N
                BY <3>2
            <4>2. QED
                BY <1>0, <1>7, <3>2, <4>1
        <3>3. QED
            BY <3>1, <3>2
    <2>2. DOMAIN g = 0..N /\ g = [n \in 0..N |-> g[n]]
        BY <1>6
    <2>3. QED
        BY <1>0, <2>1, <2>2
<1>9. Sum = Body(Sum)
    BY <1>8
<1>10. BytesUpTo(c) = Sum
    BY DEF BytesUpTo
<1> HIDE DEF Sum
<1>11. \A n \in 0..N : Sum[n] = g[n]
    <2> DEFINE P == {n \in 0..N : Sum[n] = g[n]}
    <2>1. 0 \in P
        BY <1>0, <1>8, <1>9
    <2>2. ASSUME NEW n \in 0..N - 1, n \in P PROVE n + 1 \in P
        <3>1. n + 1 \in 0..N /\ n + 1 # 0 /\ (n + 1) - 1 = n
            OBVIOUS
        <3>2. Sum[n + 1] = Sum[n] + c[n + 1].len /\ g[n + 1] = g[n] + c[n + 1].len
            BY <1>0, <1>8, <1>9, <3>1
        <3>3. QED
            BY <2>2, <3>1, <3>2
    <2> HIDE DEF P
    <2>3. \A n \in 0..N : n \in P
        BY <2>1, <2>2, UpTo
    <2>4. QED
        BY <2>3 DEF P
<1>12. Sum = g
    <2>1. DOMAIN Sum = 0..N /\ Sum = [n \in 0..N |-> Sum[n]]
        BY <1>0, <1>9
    <2>2. QED
        BY <1>6, <1>11, <2>1
<1>13. QED
    BY <1>0, <1>6, <1>7, <1>10, <1>12 DEF Adds


LEMMA BytesGrow ==
    ASSUME NEW c \in Seq(Descriptor), NEW j \in 0..Len(c), NEW i \in 0..j
    PROVE  BytesUpTo(c)[i] <= BytesUpTo(c)[j]
<1>len. PICK N \in Nat : N = Len(c)
    BY LenProperties
<1>sum. PICK B \in [0..N -> Nat] : B = BytesUpTo(c)
    BY <1>len, BytesAdd
<1>0. N = Len(c) /\ B = BytesUpTo(c)
    BY <1>len, <1>sum
<1>1. \A n \in 1..N : B[n] = B[n - 1] + c[n].len /\ c[n].len \in Nat
    <2>1. \A n \in 1..N : c[n] \in Descriptor
        BY <1>0, ElementOfSeq
    <2>2. QED
        BY <1>0, <2>1, BytesAdd DEF Adds, Descriptor, Lengths
<1> DEFINE P == {n \in 0..N : \A m \in 0..n : B[m] <= B[n]}
<1>2. 0 \in P
    OBVIOUS
<1>3. ASSUME NEW n \in 0..N - 1, n \in P PROVE n + 1 \in P
    <2>1. n + 1 \in 1..N /\ (n + 1) - 1 = n /\ n \in 0..N
        OBVIOUS
    <2>2. B[n + 1] = B[n] + c[n + 1].len /\ c[n + 1].len \in Nat
        BY <1>1, <2>1
    <2>3. ASSUME NEW m \in 0..(n + 1) PROVE B[m] <= B[n + 1]
        <3>1. m \in 0..N /\ B[m] \in Nat /\ B[n] \in Nat /\ B[n + 1] \in Nat
            BY <2>1
        <3>2. CASE m = n + 1
            BY <3>1, <3>2
        <3>3. CASE m # n + 1
            <4>1. m \in 0..n
                BY <3>3
            <4>2. B[m] <= B[n]
                BY <1>3, <4>1
            <4>3. QED
                BY <2>2, <3>1, <4>2, SMTT(30)
        <3>4. QED
            BY <3>2, <3>3
    <2>4. QED
        BY <2>1, <2>3
<1> HIDE DEF P
<1>4. \A n \in 0..N : n \in P
    BY <1>2, <1>3, UpTo
<1>5. QED
    BY <1>0, <1>4 DEF P

(* The nearest interface among the first n descriptors is a keyboard's.    *)
KbdBefore(c, n) ==
    \E i \in 1..n : /\ c[i].type = "interface" /\ c[i].kbd
                    /\ \A m \in (i + 1)..n : c[m].type # "interface"

LEMMA NearestInterface ==
    ASSUME NEW c, NEW n \in Nat
    PROVE  /\ c[n + 1].type = "interface" => (KbdBefore(c, n + 1) <=> c[n + 1].kbd)
           /\ c[n + 1].type # "interface" => (KbdBefore(c, n + 1) <=> KbdBefore(c, n))
<1>1. ASSUME c[n + 1].type = "interface", KbdBefore(c, n + 1) PROVE c[n + 1].kbd
    <2>1. PICK i \in 1..(n + 1) : /\ c[i].type = "interface" /\ c[i].kbd
                                  /\ \A m \in (i + 1)..(n + 1) : c[m].type # "interface"
        BY <1>1 DEF KbdBefore
    <2>2. ~(n + 1 \in (i + 1)..(n + 1))
        BY <1>1, <2>1
    <2>3. i = n + 1
        BY <2>2
    <2>4. QED
        BY <2>1, <2>3
<1>2. ASSUME c[n + 1].type = "interface", c[n + 1].kbd PROVE KbdBefore(c, n + 1)
    <2>1. n + 1 \in 1..(n + 1) /\ \A m \in ((n + 1) + 1)..(n + 1) : FALSE
        OBVIOUS
    <2>2. QED
        BY <1>2, <2>1 DEF KbdBefore
<1>3. ASSUME c[n + 1].type # "interface", KbdBefore(c, n + 1) PROVE KbdBefore(c, n)
    <2>1. PICK i \in 1..(n + 1) : /\ c[i].type = "interface" /\ c[i].kbd
                                  /\ \A m \in (i + 1)..(n + 1) : c[m].type # "interface"
        BY <1>3 DEF KbdBefore
    <2>2. i # n + 1
        BY <1>3, <2>1
    <2>3. i \in 1..n /\ \A m \in (i + 1)..n : m \in (i + 1)..(n + 1)
        BY <2>2
    <2>4. QED
        BY <2>1, <2>3 DEF KbdBefore
<1>4. ASSUME c[n + 1].type # "interface", KbdBefore(c, n) PROVE KbdBefore(c, n + 1)
    <2>1. PICK i \in 1..n : /\ c[i].type = "interface" /\ c[i].kbd
                            /\ \A m \in (i + 1)..n : c[m].type # "interface"
        BY <1>4 DEF KbdBefore
    <2>2. i \in 1..(n + 1)
        OBVIOUS
    <2>3. \A m \in (i + 1)..(n + 1) : m = n + 1 \/ m \in (i + 1)..n
        OBVIOUS
    <2>4. \A m \in (i + 1)..(n + 1) : c[m].type # "interface"
        BY <1>4, <2>1, <2>3
    <2>5. QED
        BY <2>1, <2>2, <2>4 DEF KbdBefore
<1>5. QED
    BY <1>1, <1>2, <1>3, <1>4


LEMMA ReportsAtIs ==
    ASSUME NEW c, NEW n \in Nat
    PROVE  ReportsAt(c, n + 1) <=>
               /\ c[n + 1].type = "endpoint" /\ c[n + 1].in
               /\ BytesUpTo(c)[n + 1] <= CfgBytes /\ (\A m \in 1..(n + 1) : c[m].len # 0)
               /\ KbdBefore(c, n)
<1>1. (n + 1) - 1 = n
    OBVIOUS
<1>2. QED
    BY <1>1 DEF ReportsAt, KbdBefore

(* What the scan knows after n descriptors: the first report endpoint, or  *)
(* that there is none among them and, if it goes on, where it is and in    *)
(* which interface.                                                        *)
Knows(st, c, n) ==
    /\ st.ep # 0 => \E j \in 1..n : ReportsAt(c, j) /\ c[j].ep = st.ep
    /\ st.ep = 0 => \A j \in 1..n : ~ReportsAt(c, j)
    /\ st.ep = 0 =>
           \/ st.at = CfgBytes /\ \A j \in (n + 1)..Len(c) : ~ReportsAt(c, j)
           \/ /\ st.at = BytesUpTo(c)[n] /\ \A m \in 1..n : c[m].len # 0
              /\ st.kbd <=> KbdBefore(c, n)

LEMMA ScanLearns ==
    ASSUME NEW c \in Seq(Descriptor), NEW n \in Nat, n < Len(c),
           NEW st \in Scanning, Knows(st, c, n)
    PROVE  Knows(Scan(st, c[n + 1]), c, n + 1)
<1>0. PICK N \in Nat : N = Len(c)
    BY LenProperties
<1>1. n + 1 \in 1..N /\ n \in 0..N /\ n + 1 \in 0..N /\ (n + 1) - 1 = n
    BY <1>0
<1>2. PICK d \in Descriptor : d = c[n + 1]
    BY <1>0, <1>1, ElementOfSeq
<1>3. PICK next \in Scanning : next = Scan(st, d)
    BY ScanType
<1>4. d.len \in Nat /\ d.len # 1 /\ st.at \in Nat /\ st.ep \in Nat
    BY DEF Descriptor, Lengths, Scanning
<1>5. PICK here \in Nat : here = BytesUpTo(c)[n]
    BY <1>0, <1>1, BytesAdd
<1>6. BytesUpTo(c)[n + 1] = here + d.len
    BY <1>0, <1>1, <1>2, <1>5, BytesAdd DEF Adds
<1>7. \A j \in 1..(n + 1) : j = n + 1 \/ j \in 1..n
    OBVIOUS
<1>8. \A j \in ((n + 1) + 1)..N : j \in (n + 1)..N
    BY <1>1
(* The scan stops here, for good. *)
<1>9. ASSUME st.ep = 0, next.ep = 0, next.at = CfgBytes,
             \A j \in (n + 1)..N : ~ReportsAt(c, j)
      PROVE  Knows(next, c, n + 1)
    <2>1. \A j \in 1..(n + 1) : ~ReportsAt(c, j)
        BY <1>1, <1>7, <1>9 DEF Knows
    <2>2. QED
        BY <1>0, <1>8, <1>9, <2>1 DEF Knows
<1>10. CASE st.ep # 0
    <2>1. next.ep = st.ep
        BY <1>3, <1>10, ScanOver
    <2>2. PICK j \in 1..n : ReportsAt(c, j) /\ c[j].ep = st.ep
        BY <1>10 DEF Knows
    <2>3. j \in 1..(n + 1)
        OBVIOUS
    <2>4. Knows(next, c, n + 1)
        BY <1>10, <2>1, <2>2, <2>3 DEF Knows
    <2>5. QED
        BY <1>2, <1>3, <2>4
<1>11. CASE st.ep = 0 /\ st.at = CfgBytes /\ \A j \in (n + 1)..Len(c) : ~ReportsAt(c, j)
    <2>1. d.len = 0 \/ st.at + d.len > CfgBytes
        BY <1>4, <1>11 DEF CfgBytes
    <2>2. next.at = CfgBytes /\ next.ep = 0
        BY <1>3, <1>11, <2>1, ScanOver
    <2>3. QED
        BY <1>0, <1>2, <1>3, <1>9, <1>11, <2>2
<1>12. CASE /\ st.ep = 0 /\ st.at = here /\ \A m \in 1..n : c[m].len # 0
            /\ st.kbd <=> KbdBefore(c, n)
    <2>1. CASE d.len = 0
        <3>1. next.at = CfgBytes /\ next.ep = 0
            BY <1>3, <1>12, <2>1, ScanOver
        <3>2. ASSUME NEW j \in (n + 1)..N PROVE ~ReportsAt(c, j)
            <4>1. n + 1 \in 1..j
                BY <1>1
            <4>2. QED
                BY <1>2, <2>1, <4>1 DEF ReportsAt
        <3>3. QED
            BY <1>2, <1>3, <1>9, <1>12, <3>1, <3>2
    <2>2. CASE d.len # 0 /\ here + d.len > CfgBytes
        <3>1. next.at = CfgBytes /\ next.ep = 0
            BY <1>3, <1>12, <2>2, ScanOver
        <3>2. ASSUME NEW j \in (n + 1)..N PROVE ~ReportsAt(c, j)
            <4>1. n + 1 \in 0..j /\ j \in 0..N
                BY <1>1
            <4>2. BytesUpTo(c)[n + 1] <= BytesUpTo(c)[j] /\ BytesUpTo(c)[j] \in Nat
                BY <1>0, <4>1, BytesGrow, BytesAdd
            <4>3. ~(BytesUpTo(c)[j] <= CfgBytes)
                BY <1>4, <1>6, <2>2, <4>2 DEF CfgBytes
            <4>4. QED
                BY <4>3 DEF ReportsAt
        <3>3. QED
            BY <1>2, <1>3, <1>9, <1>12, <3>1, <3>2
    <2>3. CASE d.len # 0 /\ ~(here + d.len > CfgBytes)
        <3>1. /\ next.at = here + d.len
              /\ next.kbd = IF d.type = "interface" THEN d.kbd ELSE st.kbd
              /\ next.ep = IF d.type = "endpoint" /\ st.kbd /\ d.in THEN d.ep ELSE 0
            BY <1>3, <1>12, <2>3, ScanOn
        <3>2. next.kbd <=> KbdBefore(c, n + 1)
            BY <1>2, <1>12, <3>1, NearestInterface
        <3>3. \A m \in 1..(n + 1) : c[m].len # 0
            BY <1>2, <1>7, <1>12, <2>3
        <3>4. here + d.len <= CfgBytes
            BY <1>4, <2>3 DEF CfgBytes
        <3>5. ReportsAt(c, n + 1) <=> d.type = "endpoint" /\ d.in /\ st.kbd
            BY <1>2, <1>6, <1>12, <3>3, <3>4, ReportsAtIs
        <3>6. CASE d.type = "endpoint" /\ st.kbd /\ d.in
            <4>1. next.ep = d.ep /\ d.ep # 0
                BY <3>1, <3>6 DEF Descriptor
            <4>2. ReportsAt(c, n + 1) /\ n + 1 \in 1..(n + 1)
                BY <3>5, <3>6
            <4>3. Knows(next, c, n + 1)
                BY <1>2, <4>1, <4>2 DEF Knows
            <4>4. QED
                BY <1>2, <1>3, <4>3
        <3>7. CASE ~(d.type = "endpoint" /\ st.kbd /\ d.in)
            <4>1. next.ep = 0 /\ ~ReportsAt(c, n + 1)
                BY <3>1, <3>5, <3>7
            <4>2. \A j \in 1..(n + 1) : ~ReportsAt(c, j)
                BY <1>7, <1>12, <4>1 DEF Knows
            <4>3. Knows(next, c, n + 1)
                BY <1>6, <3>1, <3>2, <3>3, <4>1, <4>2 DEF Knows
            <4>4. QED
                BY <1>2, <1>3, <4>3
        <3>8. QED
            BY <3>6, <3>7
    <2>4. QED
        BY <2>1, <2>2, <2>3
<1>13. QED
    BY <1>5, <1>10, <1>11, <1>12 DEF Knows

(* find_hid_keyboard_endpoint finds a report endpoint if there is one.     *)
LEMMA EndpointIsRight ==
    ASSUME NEW k \in Kinds \cup Roots \cup {"none"}
    PROVE  /\ EndpointOf(k) \in Nat
           /\ EndpointOf(k) # 0 => EndpointOf(k) \in ReportEndpoints(k)
           /\ EndpointOf(k) # 0 <=> IsKeyboard(k)
<1>1. CASE k \in {"none", "hub"}
    BY <1>1 DEF EndpointOf, IsKeyboard, ReportEndpoints
<1>2. CASE k \notin {"none", "hub"}
    <2>1. PICK c \in Seq(Descriptor) : c = Configuration[k]
        BY <1>2, UsbAssumption
    <2>2. PICK N \in Nat : N = Len(c)
        BY LenProperties
    <2>3. PICK g \in [0..Len(c) -> Scanning] : Rounds(g, c) /\ Scanned(c) = g[Len(c)]
        BY ScannedRuns
    <2> DEFINE P == {n \in 0..N : Knows(g[n], c, n)}
    <2>4. 0 \in P
        <3>1. BytesUpTo(c)[0] = 0
            BY BytesAdd DEF Adds
        <3>2. g[0].at = 0 /\ g[0].kbd = FALSE /\ g[0].ep = 0
            BY <2>3 DEF Rounds, Begun
        <3>3. Knows(g[0], c, 0)
            BY <3>1, <3>2 DEF Knows, KbdBefore
        <3>4. QED
            BY <3>3
    <2>5. ASSUME NEW n \in 0..N - 1, n \in P PROVE n + 1 \in P
        <3>1. n + 1 \in 1..N /\ (n + 1) - 1 = n /\ n \in 0..N /\ n \in Nat /\ n < N
            OBVIOUS
        <3>2. g[n] \in Scanning /\ g[n + 1] = Scan(g[n], c[n + 1])
            BY <2>2, <2>3, <3>1 DEF Rounds
        <3>3. Knows(g[n + 1], c, n + 1)
            BY <2>2, <2>5, <3>1, <3>2, ScanLearns
        <3>4. QED
            BY <3>1, <3>3
    <2> HIDE DEF P
    <2>6. \A n \in 0..N : n \in P
        BY <2>4, <2>5, UpTo
    <2>7. Knows(g[N], c, N) /\ g[N] \in Scanning /\ EndpointOf(k) = g[N].ep
        <3>1. N \in P
            BY <2>6
        <3>2. QED
            BY <1>2, <2>1, <2>2, <2>3, <3>1 DEF P, EndpointOf
    <2>8. ReportEndpoints(k) = {c[j].ep : j \in {j \in 1..N : ReportsAt(c, j)}}
        BY <1>2, <2>1, <2>2, LenProperties DEF ReportEndpoints
    <2>9. g[N].ep \in Nat
        BY <2>7 DEF Scanning
    <2>10. QED
        BY <2>7, <2>8, <2>9 DEF Knows, IsKeyboard
<1>3. QED
    BY <1>1, <1>2


-----------------------------------------------------------------------------
(* The order of the requests.                                              *)
LEMMA FollowingIs ==
    /\ DOMAIN Following = {"hubAddr", "power", "reset", "clearReset", "clearConn", "speed",
                           "desc", "setAddr", "cfgHdr"}
    /\ Following["hubAddr"] = "hubDesc" /\ Following["power"] = "status"
    /\ Following["reset"] = "clearReset" /\ Following["clearReset"] = "clearConn"
    /\ Following["clearConn"] = "speed" /\ Following["speed"] = "desc"
    /\ Following["desc"] = "setAddr" /\ Following["setAddr"] = "cfgHdr"
    /\ Following["cfgHdr"] = "cfg"
BY DEF Following


LEMMA Sets ==
    /\ Ports \in Nat /\ Position = 0..Ports /\ 0 \in Position
    /\ {"core", "rootPower", "stop"} \cap Requests = {}
    /\ \A s \in DOMAIN Following : s \in Requests /\ Following[s] \in Requests
    /\ Ignored \subseteq DOMAIN Following /\ {"power", "reset", "desc", "setCfg", "cfg"} \subseteq Requests
BY UsbAssumption, FollowingIs DEF Position, Requests, HubSteps, PortSteps, DeviceSteps, Ignored

LEMMA FirstIn == ASSUME NEW S \in SUBSET Position, S # {} PROVE First(S) \in S
<1>1. S \subseteq Nat
    BY Sets
<1>2. Min(S) \in S /\ \A y \in S : Min(S) <= y
    BY <1>1, MinIn
<1>3. QED
    BY <1>2 DEF First

(* Whoever hears a request, the first to answer does.                      *)
LEMMA HearsFirst ==
    ASSUME NEW a, NEW H \in Hears(a)
    PROVE  /\ Answering(a) # {} /\ H # {} /\ H \subseteq Answering(a)
           /\ First(Answering(a)) \in H
           /\ \A p : H = {p} => p = First(Answering(a))
<1>1. Answering(a) # {} /\ (H = Answering(a) \/ H = {First(Answering(a))})
    BY DEF Hears
<1>2. Answering(a) \in SUBSET Position
    BY DEF Answering
<1>3. First(Answering(a)) \in Answering(a)
    BY <1>1, <1>2, FirstIn
<1>4. QED
    BY <1>1, <1>3

LEMMA NextPortGoes ==
    ASSUME UsbType, NextPort
    PROVE  /\ phase' = "setup" /\ port' \in Position
           /\ \/ step' = "power" /\ result' = result
              \/ step' = "stop" /\ result' = "none"
BY Sets DEF UsbType, NextPort, Goto, Ends

(* Where a failed request leaves the driver.                               *)
LEMMA FailsGoes ==
    ASSUME UsbType, step \in Requests, Fails
    PROVE  /\ phase' = "setup" /\ port' \in Position /\ dev' = 0 /\ hub' = hub /\ ep' = ep
           /\ \/ step \in Ignored /\ step' = Following[step] /\ port' = port /\ result' = result
              \/ step' = "power" /\ result' = result
              \/ step' = "stop" /\ result' = "none"
<1>1. dev' = 0 /\ hub' = hub /\ ep' = ep
    BY DEF Fails
<1>2. CASE step \in Ignored /\ Goto(Following[step]) /\ UNCHANGED <<port, result>>
    BY <1>1, <1>2 DEF Goto, UsbType
<1>3. CASE Ends("none") /\ UNCHANGED port
    BY <1>1, <1>3 DEF Ends, UsbType
<1>4. CASE NextPort
    BY <1>1, <1>4, NextPortGoes
<1>5. QED
    BY <1>2, <1>3, <1>4 DEF Fails

(* Where a request that succeeded does.                                    *)
LEMMA SucceedsGoes ==
    ASSUME UsbType, step \in Requests, Succeeds
    PROVE  /\ phase' = "setup" /\ port' \in Position /\ hub' \in 0..1 /\ dev' \in 0..2 /\ ep' \in Nat
           /\ step' \in Requests \cup {"stop"}
           /\ \/ step' # "stop" /\ result' = result
              \/ step' = "stop" /\ result' = "none"
              \/ step' = "stop" /\ result' = "found" /\ step = "setCfg" /\ dev' = dev /\ ep' = ep
           /\ step' = "setCfg" => /\ step = "cfg" /\ dev' = dev
                                  /\ ep' = EndpointOf(seen) /\ EndpointOf(seen) # 0
           /\ step' = "cfg" => step = "cfgHdr"
<1>0. /\ port \in Position /\ hub \in 0..1 /\ dev \in 0..2 /\ ep \in Nat
      /\ NewAddress \in 0..2 /\ EndpointOf(seen) \in Nat
    BY EndpointIsRight DEF UsbType, NewAddress
<1>1. CASE /\ step \in DOMAIN Following
           /\ Goto(Following[step])
           /\ hub' = IF step = "hubAddr" THEN 1 ELSE hub
           /\ dev' = IF step = "setAddr" THEN NewAddress ELSE dev
           /\ UNCHANGED <<port, ep, result>>
    <2>1. step' = Following[step] /\ phase' = "setup" /\ Following[step] \in Requests
        BY <1>1, Sets DEF Goto
    <2>2. step' # "stop" /\ step' # "setCfg" /\ (step' = "cfg" => step = "cfgHdr")
        BY <1>1, <2>1, FollowingIs
    <2>3. QED
        BY <1>0, <1>1, <2>1, <2>2
<1>2. CASE /\ step = "rootDesc"
           /\ Goto(IF seen = "hub" THEN "hubAddr" ELSE "desc")
           /\ UNCHANGED <<port, hub, dev, ep, result>>
    BY <1>0, <1>2, Sets, FollowingIs DEF Goto
<1>3. CASE /\ step \in {"hubDesc", "status"}
           /\ IF step = "hubDesc" \/ seen = "none" THEN NextPort
              ELSE Goto("reset") /\ UNCHANGED <<port, result>>
           /\ UNCHANGED <<hub, dev, ep>>
    <2>1. CASE NextPort
        BY <1>0, <1>3, <2>1, NextPortGoes, Sets
    <2>2. CASE Goto("reset") /\ UNCHANGED <<port, result>>
        BY <1>0, <1>3, <2>2, Sets DEF Goto
    <2>3. QED
        BY <1>3, <2>1, <2>2
<1>4. CASE /\ step = "cfg"
           /\ EndpointOf(seen) # 0 /\ Goto("setCfg") /\ ep' = EndpointOf(seen)
           /\ UNCHANGED <<port, hub, dev, result>>
    BY <1>0, <1>4, Sets DEF Goto
<1>5. CASE step = "cfg" /\ EndpointOf(seen) = 0 /\ Fails
    <2>1. step \notin Ignored
        BY <1>5 DEF Ignored
    <2>2. QED
        BY <1>0, <1>5, <2>1, FailsGoes, Sets
<1>6. CASE step = "setCfg" /\ Ends("found") /\ UNCHANGED <<port, hub, dev, ep>>
    BY <1>0, <1>6, Sets DEF Ends
<1>7. QED
    BY <1>1, <1>2, <1>3, <1>4, <1>5, <1>6 DEF Succeeds


(* What a request does to the bus.                                         *)
Readdressed(a) == [p \in Position |-> IF p \in heard THEN [bus[p] EXCEPT !.addr = a] ELSE bus[p]]
Configured == [p \in Position |-> IF p \in heard THEN [bus[p] EXCEPT !.cfg = TRUE] ELSE bus[p]]
PoweredUp == [bus EXCEPT ![port].on = TRUE]
Acting == {"hubAddr", "setAddr", "setCfg", "power", "reset"}

LEMMA AppliedCases ==
    /\ step = "hubAddr" => Applied = Readdressed(1)
    /\ step = "setAddr" => Applied = Readdressed(NewAddress)
    /\ step = "setCfg" => Applied = Configured
    /\ step = "power" => Applied = PoweredUp
    /\ step = "reset" => Applied = [bus EXCEPT ![port] = Fresh(port)]
    /\ step \notin Acting => Applied = bus
BY DEF Applied, Readdressed, Configured, PoweredUp, Acting

LEMMA ReaddressedIs ==
    ASSUME UsbType, NEW a \in 0..2
    PROVE  /\ Readdressed(a) \in [Position -> BusEntry]
           /\ \A p \in Position : /\ Readdressed(a)[p].live = bus[p].live
                                  /\ Readdressed(a)[p].on = bus[p].on
                                  /\ Readdressed(a)[p].addr = IF p \in heard THEN a ELSE bus[p].addr
<1>1. ASSUME NEW p \in Position
      PROVE  /\ Readdressed(a)[p] \in BusEntry /\ Readdressed(a)[p].live = bus[p].live
             /\ Readdressed(a)[p].on = bus[p].on
             /\ Readdressed(a)[p].addr = IF p \in heard THEN a ELSE bus[p].addr
    <2>1. PICK e \in BusEntry : e = bus[p]
        BY DEF UsbType
    <2>2. PICK f : f = [e EXCEPT !.addr = a]
        OBVIOUS
    <2>3. f \in BusEntry /\ f.live = e.live /\ f.on = e.on /\ f.addr = a
        BY <2>2 DEF BusEntry
    <2>4. Readdressed(a)[p] = IF p \in heard THEN f ELSE e
        BY <2>1, <2>2 DEF Readdressed
    <2>5. QED
        BY <2>1, <2>3, <2>4
<1>2. Readdressed(a) = [p \in Position |-> Readdressed(a)[p]]
    BY DEF Readdressed
<1>3. QED
    BY <1>1, <1>2

LEMMA ConfiguredIs ==
    ASSUME UsbType
    PROVE  /\ Configured \in [Position -> BusEntry]
           /\ \A p \in Position : /\ Configured[p].live = bus[p].live
                                  /\ Configured[p].addr = bus[p].addr
                                  /\ p \in heard => Configured[p].cfg
<1>1. ASSUME NEW p \in Position
      PROVE  /\ Configured[p] \in BusEntry /\ Configured[p].live = bus[p].live
             /\ Configured[p].addr = bus[p].addr /\ (p \in heard => Configured[p].cfg)
    <2>1. PICK e \in BusEntry : e = bus[p]
        BY DEF UsbType
    <2>2. PICK f : f = [e EXCEPT !.cfg = TRUE]
        OBVIOUS
    <2>3. f \in BusEntry /\ f.live = e.live /\ f.addr = e.addr /\ f.cfg = TRUE
        BY <2>2 DEF BusEntry
    <2>4. Configured[p] = IF p \in heard THEN f ELSE e
        BY <2>1, <2>2 DEF Configured
    <2>5. QED
        BY <2>1, <2>3, <2>4
<1>2. Configured = [p \in Position |-> Configured[p]]
    BY DEF Configured
<1>3. QED
    BY <1>1, <1>2

LEMMA PoweredIs ==
    ASSUME UsbType
    PROVE  /\ PoweredUp \in [Position -> BusEntry] /\ PoweredUp[port].on
           /\ \A p \in Position : PoweredUp[p].live = bus[p].live /\ PoweredUp[p].addr = bus[p].addr
<1>1. PICK e \in BusEntry : e = bus[port]
    BY DEF UsbType
<1>2. PICK f : f = [e EXCEPT !.on = TRUE]
    OBVIOUS
<1>3. f \in BusEntry /\ f.live = e.live /\ f.addr = e.addr /\ f.on = TRUE
    BY <1>2 DEF BusEntry
<1>4. PoweredUp = [bus EXCEPT ![port] = f]
    BY <1>1, <1>2 DEF PoweredUp, UsbType
<1>5. QED
    BY <1>1, <1>3, <1>4 DEF UsbType

LEMMA FreshIs ==
    ASSUME UsbType, NEW p \in Position
    PROVE  /\ Fresh(p) \in BusEntry /\ Fresh(p).addr = 0 /\ Fresh(p).on
           /\ Fresh(p).live = (plugged[p] # "none")
<1>1. PICK b \in BOOLEAN : b = (plugged[p] # "none")
    OBVIOUS
<1>2. Fresh(p) = [on |-> TRUE, live |-> b, addr |-> 0, cfg |-> FALSE]
    BY <1>1 DEF Fresh
<1>3. Fresh(p) \in BusEntry /\ Fresh(p).addr = 0 /\ Fresh(p).on = TRUE /\ Fresh(p).live = b
    BY <1>2 DEF BusEntry
<1>4. QED
    BY <1>1, <1>3

LEMMA AppliedType ==
    ASSUME UsbType
    PROVE  Applied \in [Position -> BusEntry]
<1>1. bus \in [Position -> BusEntry] /\ port \in Position
    BY DEF UsbType
<1>2. NewAddress \in 0..2
    BY DEF NewAddress
<1>3. PICK a \in 0..2 : a = 1
    OBVIOUS
<1>4. Readdressed(a) \in [Position -> BusEntry] /\ Readdressed(NewAddress) \in [Position -> BusEntry]
    BY <1>2, ReaddressedIs
<1>5. [bus EXCEPT ![port] = Fresh(port)] \in [Position -> BusEntry]
    BY <1>1, FreshIs
<1>6. QED
    BY <1>1, <1>3, <1>4, <1>5, AppliedCases, ConfiguredIs, PoweredIs DEF Acting


-----------------------------------------------------------------------------
(* Types.                                                                  *)
Waits == inflight => step \in Requests

LEMMA StageGoes ==
    ASSUME UsbType, step \in Requests, StageDone
    PROVE  /\ phase' \in Phases /\ port' \in Position /\ hub' \in 0..1 /\ dev' \in 0..2 /\ ep' \in Nat
           /\ step' \in Requests \cup {"stop"}
           /\ result' \in {"searching", "found", "none"}
           /\ phase # "status" => /\ phase' = IF phase = "setup" /\ step \in WithData THEN "data" ELSE "status"
                                  /\ UNCHANGED <<step, port, hub, dev, ep, result>>
           /\ phase = "status" => Succeeds
<1>1. CASE phase = "status"
    <2>1. Succeeds
        BY <1>1 DEF StageDone
    <2>2. QED
        BY <1>1, <2>1, SucceedsGoes DEF UsbType, Phases
<1>2. CASE phase # "status"
    BY <1>2 DEF StageDone, UsbType, Phases
<1>3. QED
    BY <1>1, <1>2

LEMMA UsbTypeStep ==
    ASSUME UsbType, Waits, [Next]_vars
    PROVE  UsbType' /\ Waits'
<1>1. CASE ResetCore
    BY <1>1, Sets DEF ResetCore, Goto, Ends, Quiet, UsbType, Waits, Phases
<1>2. CASE ResetPort
    <2>1. 0 \in Position /\ bus' = [bus EXCEPT ![0] = Fresh(0)]
        BY <1>2, Sets DEF ResetPort
    <2>2. bus' \in [Position -> BusEntry]
        BY <2>1, FreshIs DEF UsbType
    <2>3. /\ step' \in {"stop", "rootDesc"} /\ phase' = "setup"
          /\ result' \in {"none", result}
        BY <1>2 DEF ResetPort, Goto, Ends
    <2>4. inflight' = FALSE
        BY <1>2, Sets DEF ResetPort, Quiet, Waits, UsbType
    <2>5. "rootDesc" \in Requests
        BY DEF Requests, HubSteps
    <2>6. QED
        BY <1>2, <2>2, <2>3, <2>4, <2>5 DEF ResetPort, Quiet, UsbType, Waits, Phases
<1>3. CASE Start
    BY <1>3 DEF Start, deviceVars, driverVars, UsbType, Waits
<1>4. CASE Completes
    <2>1. step \in Requests
        BY <1>4 DEF Completes, Waits
    <2>2. StageDone /\ inflight' = FALSE /\ owed' = FALSE /\ plugged' = plugged /\ clean' = clean
        BY <1>4 DEF Completes
    <2>3. bus' \in [Position -> BusEntry]
        BY <1>4, AppliedType DEF Completes, UsbType
    <2>4. heard' \subseteq Position
        <3>1. CASE \E H \in Hears(To) : heard' = H
            <4>1. PICK H \in Hears(To) : heard' = H
                BY <3>1
            <4>2. H \subseteq Answering(To)
                BY HearsFirst
            <4>3. QED
                BY <4>1, <4>2 DEF Answering
        <3>2. CASE heard' = heard
            BY <3>2 DEF UsbType
        <3>3. QED
            BY <1>4, <3>1, <3>2 DEF Completes
    <2>5. seen' \in Kinds \cup Roots \cup {"none"}
        <3>1. CASE \E p \in heard : seen' = Told(p)
            BY <3>1 DEF UsbType, Told
        <3>2. CASE seen' = seen
            BY <3>2 DEF UsbType
        <3>3. QED
            BY <1>4, <3>1, <3>2 DEF Completes
    <2>6. QED
        BY <2>1, <2>2, <2>3, <2>4, <2>5, StageGoes DEF UsbType, Waits
<1>5. ASSUME NEW timeout \in BOOLEAN, Breaks(timeout) PROVE UsbType' /\ Waits'
    <2>1. step \in Requests /\ Fails
        BY <1>5 DEF Breaks, Waits
    <2>2. bus' \in [Position -> BusEntry]
        BY <1>5, AppliedType DEF Breaks, UsbType
    <2>3. clean' \in BOOLEAN
        BY <1>5 DEF Breaks
    <2>4. step' \in Requests \cup {"stop"} /\ result' \in {"searching", "found", "none"}
        BY <2>1, FailsGoes, Sets DEF UsbType
    <2>5. /\ heard' = {} /\ inflight' = FALSE /\ plugged' = plugged /\ seen' = seen
        BY <1>5 DEF Breaks
    <2>6. phase' = "setup" /\ port' \in Position /\ dev' = 0 /\ hub' = hub /\ ep' = ep
        BY <2>1, FailsGoes
    <2>7. owed' \in BOOLEAN
        BY <1>5 DEF Breaks
    <2>8. heard' \subseteq Position /\ hub' \in 0..1 /\ dev' \in 0..2 /\ ep' \in Nat
        BY <2>5, <2>6 DEF UsbType
    <2>9. /\ plugged' \in [Position -> Kinds \cup Roots] /\ seen' \in Kinds \cup Roots \cup {"none"}
          /\ plugged'[0] # "hub" => \A p \in 1..Ports : plugged'[p] = "none"
        BY <2>5 DEF UsbType
    <2>10. UsbType'
        BY <2>2, <2>3, <2>4, <2>5, <2>6, <2>7, <2>8, <2>9 DEF UsbType, Phases
    <2>11. QED
        BY <2>5, <2>10 DEF Waits
<1>6. CASE Stale
    <2>1. step \in Requests
        BY <1>6 DEF Stale, Waits
    <2>2. QED
        BY <1>6, <2>1, StageGoes DEF Stale, UsbType, Waits
<1>7. CASE UNCHANGED vars
    BY <1>7 DEF vars, deviceVars, channelVars, driverVars, UsbType, Waits
<1>8. QED
    BY <1>1, <1>2, <1>3, <1>4, <1>5, <1>6, <1>7 DEF Next, Error, Timeout


-----------------------------------------------------------------------------
(* A keyboard that is found works.                                         *)

(* Only these parts of the state matter between requests.                  *)
LEMMA BetweenRequests ==
    ASSUME phase' = "setup", step' # "setCfg", result' # "found",
           result' # "searching" => step' = "stop", inflight' = FALSE
    PROVE  FoundInv'
BY DEF FoundInv, FoundKeyboardWorks

(* Devices that keep their place and address answer as before.             *)
LEMMA SameAnswers ==
    ASSUME NEW a, \A p \in Position : bus'[p].live = bus[p].live /\ bus'[p].addr = bus[p].addr
    PROVE  Answering(a)' = Answering(a)
BY DEF Answering

(* A stage before the last moves on to the next. *)
LEMMA StageKeepsFound ==
    ASSUME UsbType, FoundInv, step \in Requests, phase # "status", StageDone,
           UNCHANGED <<plugged, bus>>, inflight' = FALSE, owed' = FALSE,
           heard' # {} => heard' \in Hears(To),
           step = "cfg" /\ phase' = "status" /\ heard' # {} => heard' = {Meant} /\ seen' = plugged[Meant]
    PROVE  FoundInv'
<1>1. UNCHANGED <<step, port, hub, dev, ep, result>>
    BY StageGoes
<1>2. To' = To /\ Meant' = Meant /\ Answering(dev)' = Answering(dev) /\ Hears(To)' = Hears(To)
    BY <1>1 DEF To, Meant, Answering, Hears
<1>3. (result # "searching" => step = "stop")' /\ (inflight => step \in Requests)'
      /\ (owed => phase = "setup")'
    BY <1>1 DEF FoundInv
<1>4. (step \in Requests /\ phase # "setup" /\ heard # {} => heard \in Hears(To))'
    BY <1>2
<1>5. (step = "cfg" /\ phase = "status" /\ heard # {} => heard = {Meant} /\ seen = plugged[Meant])'
    BY <1>1, <1>2
<1>6. (step = "setCfg" => Answering(dev) # {} /\ ep \in ReportEndpoints(plugged[Meant]))'
    BY <1>1, <1>2 DEF FoundInv, ReportEndpoints
<1>7. result # "found"
    BY Sets DEF FoundInv
<1>8. FoundKeyboardWorks'
    BY <1>1, <1>7 DEF FoundKeyboardWorks
<1>9. QED
    BY <1>3, <1>4, <1>5, <1>6, <1>8 DEF FoundInv

LEMMA FoundStep ==
    ASSUME UsbType, FoundInv, [Next]_vars
    PROVE  FoundInv'
<1>0. Waits /\ (step \in Requests => result = "searching")
    BY Sets DEF FoundInv, Waits, UsbType
<1>1. CASE ResetCore
    <2>1. /\ phase' = "setup" /\ inflight' = FALSE /\ step' \in {"rootPower", "stop"}
          /\ (result' = "none" /\ step' = "stop") \/ result' = result
        BY <1>0, <1>1, Sets DEF ResetCore, Goto, Ends, Quiet, Waits, UsbType
    <2>2. result = "searching"
        BY <1>1 DEF FoundInv, ResetCore, UsbType
    <2>3. QED
        BY <2>1, <2>2, BetweenRequests
<1>2. CASE ResetPort
    <2>1. /\ phase' = "setup" /\ inflight' = FALSE /\ step' \in {"rootDesc", "stop"}
          /\ (result' = "none" /\ step' = "stop") \/ result' = result
        BY <1>0, <1>2, Sets DEF ResetPort, Goto, Ends, Quiet, Waits, UsbType
    <2>2. result = "searching"
        BY <1>2 DEF FoundInv, ResetPort, UsbType
    <2>3. QED
        BY <2>1, <2>2, BetweenRequests
<1>3. CASE UNCHANGED <<plugged, bus, heard, step, phase, owed, port, hub, dev, seen, ep, result>>
           /\ (inflight' => step \in Requests)
    BY <1>3 DEF FoundInv, FoundKeyboardWorks, Meant, To, Hears, Answering, ReportEndpoints
<1>4. CASE Completes
    <2>1. /\ step \in Requests /\ StageDone /\ inflight' = FALSE /\ owed' = FALSE
          /\ plugged' = plugged
        BY <1>0, <1>4 DEF Completes, Waits
    <2>2. CASE phase = "setup"
        <3>1. heard' \in Hears(To) /\ UNCHANGED <<bus, seen>>
            BY <1>4, <2>2 DEF Completes
        <3>2. step = "cfg" => phase' = "data"
            BY <2>1, <2>2, StageGoes DEF WithData
        <3>3. QED
            BY <2>1, <2>2, <3>1, <3>2, StageKeepsFound
    <2>3. CASE phase = "data"
        <3>1. PICK p \in heard : heard = {p} /\ seen' = Told(p)
            BY <1>4, <2>3 DEF Completes
        <3>2. UNCHANGED <<bus, heard>>
            BY <1>4, <2>3 DEF Completes
        <3>3. heard \in Hears(To)
            BY <2>1, <2>3, <3>1 DEF FoundInv
        <3>4. step = "cfg" => p = Meant /\ seen' = plugged[Meant]
            <4>1. step = "cfg" => To = dev /\ Told(p) = plugged[p]
                BY DEF To, DeviceSteps, Told
            <4>2. QED
                BY <3>1, <3>3, <4>1, HearsFirst DEF Meant
        <3>5. QED
            BY <2>1, <2>3, <3>1, <3>2, <3>3, <3>4, StageKeepsFound
    <2>4. CASE phase = "status"
        <3>1. Succeeds /\ heard # {} /\ bus' = Applied /\ UNCHANGED <<heard, seen>>
            BY <1>4, <2>1, <2>4, StageGoes DEF Completes
        <3>2. heard \in Hears(To)
            BY <2>1, <2>4, <3>1 DEF FoundInv
        <3>3. CASE step' # "setCfg" /\ result' # "found"
            BY <1>0, <2>1, <3>1, <3>3, SucceedsGoes, BetweenRequests
        <3>4. CASE step' = "setCfg"
            <4>1. /\ phase' = "setup" /\ step = "cfg" /\ dev' = dev /\ result' = result
                  /\ ep' = EndpointOf(seen) /\ EndpointOf(seen) # 0
                BY <2>1, <3>1, <3>4, SucceedsGoes
            <4>2. bus' = bus
                BY <3>1, <4>1, AppliedCases DEF Acting
            <4>3. Meant' = Meant /\ Answering(dev)' = Answering(dev)
                BY <4>1, <4>2 DEF Meant, Answering
            <4>4. seen = plugged[Meant] /\ heard = {Meant}
                BY <2>4, <3>1, <4>1 DEF FoundInv
            <4>5. To = dev
                BY <4>1 DEF To, DeviceSteps
            <4>6. Answering(dev) # {}
                BY <3>2, <4>5, HearsFirst
            <4>7. ep' \in ReportEndpoints(plugged[Meant])
                BY <4>1, <4>4, EndpointIsRight DEF UsbType
            <4>8. (Answering(dev) # {} /\ ep \in ReportEndpoints(plugged[Meant]))'
                BY <2>1, <4>3, <4>6, <4>7 DEF ReportEndpoints
            <4>9. QED
                BY <1>0, <2>1, <3>4, <4>1, <4>8 DEF FoundInv, FoundKeyboardWorks
        <3>5. CASE result' = "found"
            <4>1. /\ phase' = "setup" /\ step' = "stop" /\ step = "setCfg" /\ dev' = dev /\ ep' = ep
                BY <1>0, <2>1, <3>1, <3>5, SucceedsGoes
            <4>2. bus' = Configured
                BY <3>1, <4>1, AppliedCases
            <4>3. Answering(dev)' = Answering(dev)
                <5>1. Answering(dev)' = {p \in Position : bus'[p].live /\ bus'[p].addr = dev}
                    BY <4>1 DEF Answering
                <5>2. QED
                    BY <4>2, <5>1, ConfiguredIs DEF Answering
            <4>4. Meant' = Meant
                BY <4>3 DEF Meant
            <4>5. Answering(dev) # {} /\ ep \in ReportEndpoints(plugged[Meant])
                BY <4>1 DEF FoundInv
            <4>6. To = dev
                BY <4>1 DEF To, DeviceSteps
            <4>7. Meant \in heard /\ Meant \in Position
                BY <3>2, <4>6, HearsFirst DEF Meant, Answering
            <4>8. bus'[Meant].cfg
                BY <4>2, <4>7, ConfiguredIs
            <4>9. FoundKeyboardWorks'
                BY <2>1, <4>1, <4>3, <4>4, <4>5, <4>8 DEF FoundKeyboardWorks, Meant, ReportEndpoints
            <4>10. QED
                BY <2>1, <4>1, <4>9 DEF FoundInv
        <3>6. QED
            BY <3>3, <3>4, <3>5
    <2>5. QED
        BY <2>2, <2>3, <2>4 DEF UsbType, Phases
<1>5. ASSUME NEW timeout, Breaks(timeout) PROVE FoundInv'
    <2>1. step \in Requests /\ Fails /\ inflight' = FALSE
        BY <1>0, <1>5 DEF Breaks, Waits
    <2>2. step \in Ignored => Following[step] \in {"clearConn", "speed"}
        BY FollowingIs DEF Ignored
    <2>3. QED
        BY <1>0, <2>1, <2>2, FailsGoes, BetweenRequests
<1>6. CASE Stale
    <2>1. /\ step \in Requests /\ phase = "setup" /\ StageDone /\ heard' = {}
          /\ inflight' = FALSE /\ owed' = FALSE /\ UNCHANGED <<plugged, bus, seen>>
        BY <1>0, <1>6 DEF Stale, Waits, FoundInv
    <2>2. QED
        BY <2>1, StageKeepsFound
<1>7. CASE Start
    BY <1>3, <1>7 DEF Start, deviceVars, driverVars
<1>8. CASE UNCHANGED vars
    BY <1>0, <1>3, <1>8 DEF vars, deviceVars, channelVars, driverVars, Waits
<1>9. QED
    BY <1>1, <1>2, <1>4, <1>5, <1>6, <1>7, <1>8 DEF Next, Error, Timeout


LEMMA UsbInit == Init => UsbType /\ FoundInv
<1> SUFFICES ASSUME Init PROVE UsbType /\ FoundInv
    OBVIOUS
<1>1. Unpowered \in BusEntry
    BY DEF Unpowered, BusEntry
<1>2. bus \in [Position -> BusEntry]
    BY <1>1 DEF Init
<1>3. /\ plugged \in [Position -> Kinds \cup Roots]
      /\ plugged[0] # "hub" => \A p \in 1..Ports : plugged[p] = "none"
    BY DEF Init
<1>start. /\ heard = {} /\ step = "core" /\ phase = "setup" /\ inflight = FALSE /\ owed = FALSE
      /\ port = 0 /\ hub = 0 /\ dev = 0 /\ seen = "none" /\ ep = 0
      /\ result = "searching" /\ clean = TRUE
    BY DEF Init
<1>4. UsbType
    <2>1. heard \subseteq Position /\ port \in Position /\ hub \in 0..1 /\ dev \in 0..2 /\ ep \in Nat
        BY <1>start, Sets
    <2>2. /\ step \in Requests \cup {"core", "rootPower", "stop"} /\ phase \in Phases
          /\ seen \in Kinds \cup Roots \cup {"none"} /\ result \in {"searching", "found", "none"}
        BY <1>start DEF Phases
    <2>3. inflight \in BOOLEAN /\ owed \in BOOLEAN /\ clean \in BOOLEAN
        BY <1>start
    <2>4. QED
        BY <1>2, <1>3, <2>1, <2>2, <2>3 DEF UsbType
<1>5. FoundInv
    BY Sets DEF Init, FoundInv, FoundKeyboardWorks
<1>6. QED
    BY <1>4, <1>5

(* Addresses, positions and steps stay in range, for every number of ports *)
(* (find_keyboard's loop, the addresses it hands out).                     *)
THEOREM UsbTypeCorrect == Spec => []TypeOK
<1>1. UsbType /\ FoundInv /\ [Next]_vars => (UsbType /\ FoundInv)'
    BY UsbTypeStep, FoundStep DEF FoundInv, Waits
<1>2. UsbType => TypeOK
    BY DEF UsbType, TypeOK, BusEntry, Phases
<1>3. QED
    BY <1>1, <1>2, UsbInit, PTL DEF Spec

(* A keyboard that find_keyboard returns is one, and is configured,        *)
(* whatever failed, timed out or completed late on the way                 *)
(* (enumerate_as_keyboard, control_transfer, set_address).                 *)
THEOREM FoundKeyboardsWork == Spec => []FoundKeyboardWorks
<1>1. UsbType /\ FoundInv /\ [Next]_vars => (UsbType /\ FoundInv)'
    BY UsbTypeStep, FoundStep DEF FoundInv, Waits
<1>2. FoundInv => FoundKeyboardWorks
    BY DEF FoundInv
<1>3. QED
    BY <1>1, <1>2, UsbInit, PTL DEF Spec


-----------------------------------------------------------------------------
(* A keyboard that leads is found.                                         *)

LEMMA LeadsIs ==
    ASSUME UsbType, NEW K \in Position, Leads(K)
    PROVE  /\ plugged[K] \notin {"none", "hub"} /\ plugged[0] # "none"
           /\ K # 0 <=> plugged[0] = "hub"
           /\ EndpointOf(plugged[K]) # 0
           /\ K \in Nat /\ K <= Ports /\ \A q \in 1..(K - 1) : plugged[q] = "none"
<1>1. plugged[K] \notin {"none", "hub"}
    BY DEF Leads, IsKeyboard, ReportEndpoints
<1>2. plugged[K] \in Kinds \cup Roots \cup {"none"} /\ IsKeyboard(plugged[K])
    BY DEF UsbType, Leads
<1>3. EndpointOf(plugged[K]) # 0
    BY <1>2, EndpointIsRight
<1>4. K \in Nat /\ K <= Ports /\ Ports \in Nat
    BY Sets
<1>5. K = 0 => \A q \in 1..(K - 1) : FALSE
    OBVIOUS
<1>6. QED
    BY <1>1, <1>3, <1>4, <1>5 DEF Leads

(* Reset, it answers at the default address. *)
LEMMA LeadResets ==
    ASSUME UsbType, NEW K \in Position, Leads(K)
    PROVE  Fresh(K).live /\ Fresh(K).addr = 0
<1>1. plugged[K] # "none"
    BY LeadsIs
<1>2. Fresh(K).live = TRUE
    BY <1>1, FreshIs
<1>3. Fresh(K).addr = 0
    BY FreshIs
<1>4. QED
    BY <1>2, <1>3

LEMMA OneAnswers ==
    ASSUME UsbType, NEW K \in Position, Leads(K), Way(K), step \in Requests
    PROVE  /\ Answering(To) = {Target(K)} /\ Target(K) \in Position
           /\ \A H \in Hears(To) : H = {Target(K)}
<1>0. 0 \in Position /\ Target(K) \in Position
    BY Sets DEF Target
<1>1. /\ bus[Target(K)].live /\ bus[Target(K)].addr = To
      /\ \A p \in Position \ {Target(K)} : bus[p].live => bus[p].addr # To
    <2>1. CASE step \in {"rootDesc", "hubAddr"}
        BY <1>0, <2>1 DEF Way, Target, To, DeviceSteps, AtTheRoot, Untouched, HubSteps
    <2>2. CASE step \in {"hubDesc", "power", "status", "reset"}
        BY <1>0, <2>2 DEF Way, Target, To, DeviceSteps, PortSteps, Untouched, HubSteps
    <2>3. CASE step \in {"clearReset", "clearConn", "speed"}
        BY <1>0, <2>3 DEF Way, Target, To, DeviceSteps, PortSteps, Unaddressed
    <2>4. CASE step \in DeviceSteps /\ K = 0
        <3>1. \A p \in Position \ {0} : ~bus[p].live
            BY <2>4 DEF Way
        <3>2. bus[0].live /\ bus[0].addr = dev
            BY <2>4 DEF Way, Unaddressed, DeviceSteps
        <3>3. QED
            BY <2>4, <3>1, <3>2 DEF Target, To
    <2>5. CASE step \in DeviceSteps /\ K # 0
        <3>1. bus[K].live /\ bus[K].addr = dev /\ dev \in {0, 2}
            BY <2>5 DEF Way, Unaddressed, DeviceSteps, NewAddress
        <3>2. bus[0].addr = 1 /\ \A p \in Position \ {0, K} : ~bus[p].live
            BY <2>5 DEF Way
        <3>3. QED
            BY <2>5, <3>1, <3>2 DEF Target, To
    <2>6. QED
        BY <2>1, <2>2, <2>3, <2>4, <2>5 DEF Requests, HubSteps, PortSteps
<1>2. Answering(To) = {Target(K)}
    BY <1>0, <1>1 DEF Answering
<1>3. First({Target(K)}) = Target(K)
    BY <1>0, FirstIn
<1>4. QED
    BY <1>0, <1>2, <1>3 DEF Hears

(* A request before its last stage. *)
LEMMA StageKeepsWay ==
    ASSUME UsbType, NEW K \in Position, Leads(K), Way(K), step \in Requests, phase # "status",
           StageDone, UNCHANGED <<plugged, bus>>, owed' = FALSE,
           heard' = {Target(K)},
           phase = "setup" \/ seen' = Told(Target(K))
    PROVE  Way(K)'
<1>1. /\ UNCHANGED <<step, port, hub, dev, ep, result>>
      /\ phase' = IF phase = "setup" /\ step \in WithData THEN "data" ELSE "status"
    BY StageGoes
<1>2. Target(K)' = Target(K) /\ NewAddress' = NewAddress
    BY <1>1 DEF Target, NewAddress
<1>3. ASSUME step \in {"rootDesc", "status", "cfg"}, phase' = "status" PROVE seen' = Told(Target(K))
    BY <1>1, <1>3 DEF WithData
<1>4. /\ step = "rootDesc" /\ phase' = "status" => seen' = plugged[0]
      /\ step = "status" /\ phase' = "status" => seen' = plugged[port]
      /\ step = "cfg" /\ phase' = "status" => seen' = plugged[K]
    BY <1>3 DEF Told, Target, DeviceSteps, Way
<1>5. QED
    BY <1>1, <1>2, <1>4 DEF Way


(* A request that succeeds leads on to the next.                           *)
LEMMA SuccessKeepsWay ==
    ASSUME UsbType, NEW K \in Position, Leads(K), Way(K), step \in Requests, phase = "status",
           Succeeds, bus' = Applied, UNCHANGED <<plugged, heard, seen>>, owed' = FALSE
    PROVE  Way(K)'
<1> USE DEF Way, Untouched, AtTheRoot, Unaddressed, HubSteps, PortSteps, DeviceSteps, Requests
<1>0. 0 \in Position /\ K \in Nat /\ Ports \in Nat /\ K <= Ports /\ port \in Position /\ port \in Nat
    BY Sets, LeadsIs DEF UsbType
<1>1. heard = {Target(K)} /\ result # "none" /\ \A p \in Position \ {0, K} : ~bus[p].live
    OBVIOUS
<1>2. CASE step = "rootDesc"
    <2>1. bus' = bus
        BY <1>2, AppliedCases DEF Acting
    <2>2. /\ step' = (IF K # 0 THEN "hubAddr" ELSE "desc") /\ phase' = "setup"
          /\ UNCHANGED <<port, hub, dev, ep, result>>
        BY <1>2, LeadsIs, FollowingIs DEF Succeeds, Goto
    <2>3. QED
        BY <1>0, <1>1, <1>2, <2>1, <2>2
<1>3. CASE step = "hubAddr"
    <2>1. PICK a \in 0..2 : a = 1
        OBVIOUS
    <2>2. bus' = Readdressed(a) /\ heard = {0}
        BY <1>1, <1>3, <2>1, AppliedCases DEF Target
    <2>3. /\ bus'[0].addr = 1 /\ \A p \in Position : bus'[p].live = bus[p].live
        BY <1>0, <2>1, <2>2, ReaddressedIs
    <2>4. /\ step' = "hubDesc" /\ phase' = "setup" /\ hub' = 1 /\ UNCHANGED <<port, dev, ep, result>>
        BY <1>3, FollowingIs DEF Succeeds, Goto
    <2>5. QED
        BY <1>0, <1>1, <1>3, <2>3, <2>4
<1>4. CASE step = "hubDesc"
    <2>1. bus' = bus
        BY <1>4, AppliedCases DEF Acting
    <2>2. NextPort /\ UNCHANGED <<hub, dev, ep>> /\ port = 0 /\ K # 0
        BY <1>4, FollowingIs DEF Succeeds
    <2>3. step' = "power" /\ phase' = "setup" /\ port' = 1 /\ result' = result
        BY <1>0, <2>2 DEF NextPort, Goto
    <2>4. QED
        BY <1>0, <1>1, <1>4, <2>1, <2>2, <2>3
<1>5. CASE step = "power"
    <2>1. bus' = PoweredUp
        BY <1>5, AppliedCases
    <2>2. /\ bus'[port].on
          /\ \A p \in Position : bus'[p].live = bus[p].live /\ bus'[p].addr = bus[p].addr
        BY <2>1, PoweredIs
    <2>3. step' = "status" /\ phase' = "setup" /\ UNCHANGED <<port, hub, dev, ep, result>>
        BY <1>5, FollowingIs DEF Succeeds, Goto
    <2>4. QED
        BY <1>0, <1>1, <1>5, <2>2, <2>3
<1>6. CASE step = "status"
    <2>1. bus' = bus
        BY <1>6, AppliedCases DEF Acting
    <2>2. /\ seen = plugged[port] /\ port \in 1..K /\ UNCHANGED <<hub, dev, ep>>
          /\ IF seen = "none" THEN NextPort ELSE Goto("reset") /\ UNCHANGED <<port, result>>
        BY <1>6, FollowingIs DEF Succeeds
    <2>3. CASE seen = "none"
        <3>1. port # K
            BY <2>2, <2>3, LeadsIs
        <3>2. step' = "power" /\ phase' = "setup" /\ port' = port + 1 /\ result' = result
            BY <1>0, <2>2, <2>3, <3>1 DEF NextPort, Goto
        <3>3. port' \in 1..K
            BY <1>0, <2>2, <3>1, <3>2
        <3>4. QED
            BY <1>0, <1>1, <1>6, <2>1, <2>2, <3>2, <3>3
    <2>4. CASE seen # "none"
        <3>1. port = K
            <4>1. port # K => port \in 1..(K - 1)
                BY <1>0, <2>2
            <4>2. QED
                BY <2>2, <2>4, <4>1, LeadsIs
        <3>2. step' = "reset" /\ phase' = "setup" /\ port' = port /\ result' = result
            BY <2>2, <2>4 DEF Goto
        <3>3. QED
            BY <1>0, <1>1, <1>6, <2>1, <2>2, <3>1, <3>2
    <2>5. QED
        BY <2>3, <2>4
<1>7. CASE step = "reset"
    <2>1. port = K /\ K # 0 /\ bus' = [bus EXCEPT ![K] = Fresh(K)]
        BY <1>7, AppliedCases
    <2>2. /\ bus'[K] = Fresh(K) /\ \A p \in Position \ {K} : bus'[p] = bus[p]
        BY <2>1 DEF UsbType
    <2>3. bus'[K].live /\ bus'[K].addr = 0
        BY <2>2, LeadResets
    <2>4. step' = "clearReset" /\ phase' = "setup" /\ UNCHANGED <<port, hub, dev, ep, result>>
        BY <1>7, FollowingIs DEF Succeeds, Goto
    <2>5. QED
        BY <1>0, <1>1, <1>7, <2>1, <2>2, <2>3, <2>4
<1>8. CASE step \in {"clearReset", "clearConn", "speed", "desc"}
    <2>1. bus' = bus
        BY <1>8, AppliedCases DEF Acting
    <2>2. /\ step' = Following[step] /\ phase' = "setup"
          /\ UNCHANGED <<port, hub, dev, ep, result>>
        BY <1>8, FollowingIs DEF Succeeds, Goto
    <2>3. step' \in {"clearConn", "speed", "desc", "setAddr"} /\ (step \in {"clearReset", "clearConn"} <=> step' \in {"clearConn", "speed"})
        BY <1>8, <2>2, FollowingIs
    <2>4. QED
        BY <1>0, <1>1, <1>8, <2>1, <2>2, <2>3
<1>9. CASE step = "setAddr"
    <2>1. PICK a \in 0..2 : a = NewAddress
        BY DEF NewAddress
    <2>2. bus' = Readdressed(a) /\ heard = {K}
        BY <1>1, <1>9, <2>1, AppliedCases DEF Target
    <2>3. /\ bus'[K].addr = a
          /\ \A p \in Position : bus'[p].live = bus[p].live /\ (p # K => bus'[p].addr = bus[p].addr)
        BY <2>2, ReaddressedIs
    <2>4. /\ step' = "cfgHdr" /\ phase' = "setup" /\ dev' = a /\ UNCHANGED <<port, hub, ep, result>>
        BY <1>9, <2>1, FollowingIs DEF Succeeds, Goto
    <2>5. NewAddress' = a
        BY <2>1, <2>4 DEF NewAddress
    <2>6. QED
        BY <1>0, <1>1, <1>9, <2>3, <2>4, <2>5
<1>10. CASE step \in {"cfgHdr", "cfg"}
    <2>1. bus' = bus
        BY <1>10, AppliedCases DEF Acting
    <2>2. step = "cfg" => EndpointOf(seen) # 0
        BY LeadsIs
    <2>3. /\ step' = (IF step = "cfg" THEN "setCfg" ELSE "cfg") /\ phase' = "setup"
          /\ UNCHANGED <<port, hub, dev, result>>
        BY <1>10, <2>2, FollowingIs DEF Succeeds, Goto
    <2>4. NewAddress' = NewAddress
        BY <2>3 DEF NewAddress
    <2>5. QED
        BY <1>0, <1>1, <1>10, <2>1, <2>3, <2>4
<1>11. CASE step = "setCfg"
    <2>1. \A p \in Position : bus'[p].live = bus[p].live
        BY <1>11, AppliedCases, ConfiguredIs
    <2>2. step' = "stop" /\ result' = "found"
        BY <1>11, FollowingIs DEF Succeeds, Ends
    <2>3. QED
        BY <1>0, <1>1, <1>11, <2>1, <2>2
<1>12. QED
    BY <1>2, <1>3, <1>4, <1>5, <1>6, <1>7, <1>8, <1>9, <1>10, <1>11


LEMMA WayStep ==
    ASSUME UsbType, Waits, NEW K \in Position, Leads(K), clean => Way(K), [Next]_vars, clean'
    PROVE  Way(K)'
<1>0. 0 \in Position /\ (step \in Requests => step \notin {"core", "rootPower", "stop"})
    BY Sets
<1>1. CASE ResetCore
    <2>1. /\ step = "core" /\ step' = "rootPower" /\ phase' = "setup" /\ clean' = clean
          /\ UNCHANGED <<bus, result, port, owed, hub, dev>>
        BY <1>1 DEF ResetCore, Goto, Ends, Quiet
    <2>2. QED
        BY <2>1 DEF Way, Untouched, AtTheRoot, Unaddressed, HubSteps, PortSteps, DeviceSteps, Requests
<1>2. CASE ResetPort
    <2>1. /\ step = "rootPower" /\ clean /\ bus' = [bus EXCEPT ![0] = Fresh(0)]
          /\ UNCHANGED <<port, owed, hub, dev>>
        BY <1>2 DEF ResetPort, Quiet
    <2>2. step' = "rootDesc" /\ phase' = "setup" /\ result' = result
        BY <1>2, LeadsIs DEF ResetPort, Goto
    <2>3. bus'[0] = Fresh(0) /\ \A p \in Position \ {0} : bus'[p] = bus[p]
        BY <1>0, <2>1 DEF UsbType
    <2>4. bus'[0].live /\ bus'[0].addr = 0
        BY <1>0, <2>3, FreshIs, LeadsIs
    <2>5. QED
        BY <2>1, <2>2, <2>3, <2>4
           DEF Way, Untouched, AtTheRoot, Unaddressed, HubSteps, PortSteps, DeviceSteps, Requests
<1>3. CASE UNCHANGED <<plugged, bus, heard, step, phase, owed, port, hub, dev, seen, ep, result, clean>>
    BY <1>3 DEF Way, Target, NewAddress
<1>4. CASE Completes
    <2>1. /\ step \in Requests /\ clean /\ StageDone /\ owed' = FALSE /\ plugged' = plugged
        BY <1>4 DEF Completes, Waits
    <2>2. CASE phase = "setup"
        <3>1. heard' \in Hears(To) /\ bus' = bus
            BY <1>4, <2>2 DEF Completes
        <3>2. heard' = {Target(K)}
            BY <2>1, <3>1, OneAnswers
        <3>3. QED
            BY <2>1, <2>2, <3>1, <3>2, StageKeepsWay
    <2>3. CASE phase = "data"
        <3>1. heard = {Target(K)}
            BY <2>1, <2>3 DEF Way
        <3>2. UNCHANGED <<bus, heard>> /\ seen' = Told(Target(K))
            BY <1>4, <2>3, <3>1 DEF Completes
        <3>3. QED
            BY <2>1, <2>3, <3>1, <3>2, StageKeepsWay
    <2>4. CASE phase = "status"
        <3>1. Succeeds /\ bus' = Applied /\ UNCHANGED <<heard, seen>>
            BY <1>4, <2>1, <2>4, StageGoes DEF Completes
        <3>2. QED
            BY <2>1, <2>4, <3>1, SuccessKeepsWay
    <2>5. QED
        BY <2>2, <2>3, <2>4 DEF UsbType, Phases
<1>5. ASSUME NEW timeout \in BOOLEAN, Breaks(timeout) PROVE Way(K)'
    <2>1. step \in Requests /\ clean /\ Way(K) /\ Fails
        BY <1>5 DEF Breaks, Waits
    <2>2. ~Unanswered
        <3>1. Answering(To) = {Target(K)} /\ Target(K) \in Position
            BY <2>1, OneAnswers
        <3>2. phase # "setup" => heard = {Target(K)}
            BY <2>1 DEF Way
        <3>3. QED
            BY <3>1, <3>2 DEF Unanswered
    <2>3. step \in Ignored /\ ~timeout
        BY <1>5, <2>2 DEF Breaks
    <2>4. step \in {"clearReset", "clearConn"} /\ bus' = bus
        BY <1>5, <2>3, AppliedCases DEF Breaks, Ignored, Acting
    <2>5. port \in 1..K
        BY <2>1, <2>4 DEF Way, PortSteps
    <2>6. step \notin HubSteps /\ port # 0
        BY <2>4, <2>5 DEF HubSteps
    <2>7. step' = Following[step] /\ phase' = "setup" /\ UNCHANGED <<port, result, hub>> /\ dev' = 0
        BY <2>1, <2>3, <2>6 DEF Fails, Goto
    <2>8. step' \in {"clearConn", "speed"}
        BY <2>4, <2>7, FollowingIs
    <2>9. owed' = FALSE
        BY <1>5, <2>3 DEF Breaks
    <2>10. QED
        BY <2>1, <2>4, <2>5, <2>7, <2>8, <2>9
           DEF Way, Untouched, AtTheRoot, Unaddressed, HubSteps, PortSteps, DeviceSteps, Requests
<1>6. CASE Stale
    BY <1>6 DEF Stale
<1>7. CASE Start
    BY <1>3, <1>7 DEF Start, deviceVars, driverVars
<1>8. CASE UNCHANGED vars
    BY <1>3, <1>8 DEF vars, deviceVars, channelVars, driverVars
<1>9. QED
    BY <1>1, <1>2, <1>4, <1>5, <1>6, <1>7, <1>8 DEF Next, Error, Timeout

LEMMA PluggedStays == UsbType /\ [Next]_vars => plugged' = plugged
BY DEF Next, ResetCore, ResetPort, Quiet, Start, Completes, Error, Timeout, Breaks, Stale,
       vars, deviceVars

(* A keyboard that is the first device on the way is found when no         *)
(* transfer fails, at the root or at any port, for every number of ports   *)
(* (find_keyboard, hub_power_and_reset_port, enumerate_as_keyboard).       *)
THEOREM LeadingKeyboardFound == Spec => []FirstKeyboardFound
<1>1. Init => CleanInv
    <2> SUFFICES ASSUME Init, NEW K \in Position PROVE Way(K)
        BY DEF CleanInv
    <2>1. \A p \in Position : bus[p].live = FALSE
        BY DEF Init, Unpowered
    <2>2. /\ step = "core" /\ owed = FALSE /\ port = 0 /\ hub = 0 /\ dev = 0
          /\ result = "searching"
        BY DEF Init
    <2>3. QED
        BY <2>1, <2>2 DEF Way, Untouched, AtTheRoot, Unaddressed, HubSteps, PortSteps, DeviceSteps, Requests
<1>2. UsbType /\ FoundInv /\ CleanInv /\ [Next]_vars => (UsbType /\ FoundInv /\ CleanInv)'
    <2> SUFFICES ASSUME UsbType, FoundInv, CleanInv, [Next]_vars
                 PROVE  (UsbType /\ FoundInv /\ CleanInv)'
        OBVIOUS
    <2>1. Waits
        BY DEF FoundInv, Waits
    <2>2. ASSUME NEW K \in Position, Leads(K)', clean' PROVE Way(K)'
        <3>1. Leads(K)
            BY <2>2, PluggedStays DEF Leads, IsKeyboard, ReportEndpoints
        <3>2. clean => Way(K)
            BY <3>1 DEF CleanInv
        <3>3. QED
            BY <2>1, <2>2, <3>1, <3>2, WayStep
    <2>3. CleanInv'
        BY <2>2 DEF CleanInv
    <2>4. QED
        BY <2>1, <2>3, UsbTypeStep, FoundStep
<1>3. UsbType /\ CleanInv => FirstKeyboardFound
    <2> SUFFICES ASSUME UsbType, CleanInv, clean, result = "none"
                 PROVE  /\ ~IsKeyboard(plugged[0])
                        /\ \A p \in 1..Ports :
                               (\A q \in 1..(p - 1) : plugged[q] = "none") => ~IsKeyboard(plugged[p])
        BY DEF FirstKeyboardFound
    <2>1. \A K \in Position : ~Leads(K)
        BY DEF CleanInv, Way
    <2>2. ~IsKeyboard(plugged[0])
        BY <2>1, Sets DEF Leads
    <2>3. ASSUME NEW p \in 1..Ports, \A q \in 1..(p - 1) : plugged[q] = "none", IsKeyboard(plugged[p])
          PROVE  FALSE
        <3>1. plugged[p] # "none"
            BY <2>3 DEF IsKeyboard, ReportEndpoints
        <3>2. plugged[0] = "hub"
            BY <3>1 DEF UsbType
        <3>3. p \in Position
            BY Sets
        <3>4. QED
            BY <2>1, <2>3, <3>2, <3>3 DEF Leads
    <2>4. QED
        BY <2>2, <2>3
<1>4. QED
    BY <1>1, <1>2, <1>3, UsbInit, PTL DEF Spec
=============================================================================
