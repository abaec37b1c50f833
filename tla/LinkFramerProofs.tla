--------------------------- MODULE LinkFramerProofs ---------------------------
(***************************************************************************)
(* Proofs about the bytes on the UART: a frame that finds the parser       *)
(* between frames is received, and two frames are all a disturbance costs. *)
(***************************************************************************)
EXTENDS LinkFramer, TLAPS, SequenceTheorems, WellFoundedInduction

LEMMA Induction ==
  ASSUME NEW S \in SUBSET Nat, 0 \in S, \A n \in S : n + 1 \in S
  PROVE  \A n \in Nat : n \in S
<1> DEFINE R == {ss \in Nat \X Nat : ss[1] < ss[2]}
           T == Nat \ S
<1>1. OpToRel(<, Nat) = R
  BY DEF OpToRel
<1>2. IsWellFoundedOn(R, Nat)
  BY <1>1, NatLessThanWellFounded
<1>3. ASSUME T # {} PROVE FALSE
  <2> HIDE DEF R
  <2>1. T \subseteq Nat
    OBVIOUS
  <2>2. PICK m \in T : \A k \in T : ~(<<k, m>> \in R)
    BY <1>2, <1>3, <2>1, WFMin
  <2>3. m \in Nat /\ m # 0 /\ m - 1 \in Nat
    BY <2>1, <2>2
  <2>4. <<m - 1, m>> \in R
    BY <2>3 DEF R
  <2>5. m - 1 \in S
    BY <2>2, <2>3, <2>4
  <2>6. (m - 1) + 1 \in S
    BY <2>5
  <2> QED
    BY <2>2, <2>3, <2>6
<1> QED
  BY <1>3

---------------------------------------------------------------------------
(* The loop of receiver_task() over the bytes of a read. *)

LEMMA ParsedExists ==
  ASSUME NEW p, NEW bytes, NEW n \in Nat
  PROVE  \E g : g = [i \in 0..n |-> IF i = 0 THEN p ELSE parse(g[i - 1], bytes[i])]
<1> DEFINE S == {m \in Nat :
      \E g : g = [i \in 0..m |-> IF i = 0 THEN p ELSE parse(g[i - 1], bytes[i])]}
<1>1. 0 \in S
  <2> DEFINE g == [i \in 0..0 |-> p]
  <2>1. g = [i \in 0..0 |-> IF i = 0 THEN p ELSE parse(g[i - 1], bytes[i])]
    OBVIOUS
  <2> QED
    BY <2>1
<1>2. ASSUME NEW m \in S PROVE m + 1 \in S
  <2>1. PICK g : g = [i \in 0..m |-> IF i = 0 THEN p ELSE parse(g[i - 1], bytes[i])]
    BY <1>2
  <2> DEFINE h == [i \in 0..m + 1 |-> IF i = m + 1 THEN parse(g[m], bytes[m + 1]) ELSE g[i]]
  <2>2. ASSUME NEW i \in 0..m + 1
        PROVE h[i] = IF i = 0 THEN p ELSE parse(h[i - 1], bytes[i])
    <3>1. CASE i = m + 1
      <4>1. h[i - 1] = g[m]  BY <3>1
      <4> QED  BY <3>1, <4>1
    <3>2. CASE i # m + 1
      <4>1. i \in 0..m /\ h[i] = g[i]  BY <3>2
      <4>2. g[i] = IF i = 0 THEN p ELSE parse(g[i - 1], bytes[i])  BY <2>1, <4>1
      <4>3. i # 0 => h[i - 1] = g[i - 1]  BY <4>1
      <4> QED  BY <4>1, <4>2, <4>3
    <3> QED  BY <3>1, <3>2
  <2>3. h = [i \in 0..m + 1 |-> IF i = 0 THEN p ELSE parse(h[i - 1], bytes[i])]
    BY <2>2
  <2> HIDE DEF h
  <2>4. \E k : k = [i \in 0..m + 1 |-> IF i = 0 THEN p ELSE parse(k[i - 1], bytes[i])]
    BY <2>3
  <2>5. m + 1 \in Nat
    OBVIOUS
  <2> QED
    BY <2>4, <2>5
<1> HIDE DEF S
<1>3. S \in SUBSET Nat
  BY DEF S
<1>4. n \in S
  BY <1>1, <1>2, <1>3, Induction
<1> QED
  BY <1>4 DEF S

LEMMA ParsedStep ==
  ASSUME NEW p, NEW bytes, Len(bytes) \in Nat
  PROVE  /\ Parsed(p, bytes)[0] = p
         /\ \A i \in 1..Len(bytes) :
              Parsed(p, bytes)[i] = parse(Parsed(p, bytes)[i - 1], bytes[i])
<1> DEFINE f == Parsed(p, bytes)
<1>1. f = CHOOSE g : g = [i \in 0..Len(bytes) |->
                            IF i = 0 THEN p ELSE parse(g[i - 1], bytes[i])]
  BY DEF Parsed
<1>2. f = [i \in 0..Len(bytes) |-> IF i = 0 THEN p ELSE parse(f[i - 1], bytes[i])]
  BY <1>1, ParsedExists
<1> HIDE DEF f
<1>3. f[0] = p /\ \A i \in 1..Len(bytes) : f[i] = parse(f[i - 1], bytes[i])
  BY <1>2
<1> QED
  BY <1>3 DEF f

---------------------------------------------------------------------------
(* Frames. *)

Byte == 0..255

LEMMA ClampWithin ==
  ASSUME NEW v \in Int, NEW lo \in Int, NEW hi \in Int, lo <= hi
  PROVE  clamp(v, lo, hi) \in Int /\ lo <= clamp(v, lo, hi) /\ clamp(v, lo, hi) <= hi
BY DEF clamp

LEMMA DivByte ==
  ASSUME NEW v \in Int
  PROVE  (v % 256) + 256 * (v \div 256) = v
OBVIOUS

LEMMA DivType ==
  ASSUME NEW v \in Int
  PROVE  v \div 256 \in Int
OBVIOUS

LEMMA ModByte ==
  ASSUME NEW v \in Int
  PROVE  v % 256 \in 0..255
OBVIOUS

LEMMA ModMod ==
  ASSUME NEW v \in Int
  PROVE  (v % 65536) % 256 = v % 256
OBVIOUS

LEMMA ModWord ==
  ASSUME NEW v \in Int, v < 65536, 0 <= v
  PROVE  v % 65536 = v
OBVIOUS

LEMMA ModNeg ==
  ASSUME NEW v \in Int, v < 0, 0 <= v + 65536
  PROVE  v % 65536 = v + 65536
OBVIOUS

LEMMA ModNeg8 ==
  ASSUME NEW v \in Int, v < 0, 0 <= v + 256
  PROVE  v % 256 = v + 256
OBVIOUS

LEMMA Mod8 ==
  ASSUME NEW v \in Int, v < 256, 0 <= v
  PROVE  v % 256 = v
OBVIOUS

LEMMA Bytes16Read ==
  ASSUME NEW v \in Int, -32768 <= v, v <= 32767
  PROVE  \E b1 \in Byte, b2 \in Byte :
           Bytes16(v) = <<b1, b2>> /\ Signed(b1 + 256 * b2, 32768) = v
<1>1. PICK w : w = v % 65536
  OBVIOUS
<1>2. (v >= 0 => w = v) /\ (v < 0 => w = v + 65536)
  <2>1. v >= 0 => w = v
    BY <1>1, ModWord
  <2>2. v < 0 => w = v + 65536
    BY <1>1, ModNeg
  <2> QED
    BY <2>1, <2>2
<1>3. w \in Int /\ 0 <= w /\ w < 65536
  BY <1>2
<1>4. PICK b1, b2 : b1 = w % 256 /\ b2 = w \div 256
  OBVIOUS
<1>5. b1 \in 0..255
  BY <1>3, <1>4, ModByte
<1>6. b2 \in Int
  BY <1>3, <1>4, DivType
<1>7. b1 + 256 * b2 = w
  BY <1>3, <1>4, DivByte
<1>8. b2 \in 0..255
  BY <1>3, <1>5, <1>6, <1>7
<1>9. Bytes16(v) = <<b1, b2>>
  BY <1>1, <1>4, ModMod DEF Bytes16
<1>10. Signed(b1 + 256 * b2, 32768) = v
  BY <1>2, <1>7 DEF Signed
<1>11. b1 \in Byte /\ b2 \in Byte
  BY <1>5, <1>8 DEF Byte
<1> QED
  BY <1>9, <1>10, <1>11

LEMMA Byte8Read ==
  ASSUME NEW v \in Int, -128 <= v, v <= 127
  PROVE  v % 256 \in Byte /\ Signed(v % 256, 128) = v
<1> DEFINE w == v % 256
<1>a. v >= 0 => w = v  BY Mod8
<1>b. v < 0 => w = v + 256  BY ModNeg8
<1> HIDE DEF w
<1>2. w \in Byte /\ Signed(w, 128) = v
  BY <1>a, <1>b DEF Signed, Byte
<1> QED
  BY <1>2 DEF w

LEMMA ConcatOfFour ==
  ASSUME NEW a, NEW b, NEW c, NEW d, NEW e, NEW f
  PROVE  <<a>> \o <<b, c>> \o <<d, e>> \o <<f>> = <<a, b, c, d, e, f>>
<1> DEFINE S == {a, b, c, d, e, f}
<1>1. PICK s1, s2, s3, s4 :
        s1 = <<a>> /\ s2 = <<b, c>> /\ s3 = <<d, e>> /\ s4 = <<f>>
  OBVIOUS
<1>2. /\ s1 \in Seq(S) /\ s2 \in Seq(S) /\ s3 \in Seq(S) /\ s4 \in Seq(S)
      /\ Len(s1) = 1 /\ Len(s2) = 2 /\ Len(s3) = 2 /\ Len(s4) = 1
      /\ s1[1] = a /\ s2[1] = b /\ s2[2] = c /\ s3[1] = d /\ s3[2] = e /\ s4[1] = f
  BY <1>1
<1> HIDE DEF S
<1>3. PICK l3 : l3 = s1 \o s2
  OBVIOUS
<1>4. l3 \in Seq(S) /\ Len(l3) = 3 /\ l3[1] = a /\ l3[2] = b /\ l3[3] = c
  <2>1. /\ s1 \o s2 \in Seq(S) /\ Len(s1 \o s2) = Len(s1) + Len(s2)
        /\ \A i \in 1..Len(s1) + Len(s2) :
             (s1 \o s2)[i] = IF i <= Len(s1) THEN s1[i] ELSE s2[i - Len(s1)]
    BY <1>2, ConcatProperties
  <2> QED
    BY <1>2, <1>3, <2>1
<1>5. PICK l5 : l5 = l3 \o s3
  OBVIOUS
<1>6. /\ l5 \in Seq(S) /\ Len(l5) = 5 /\ l5[1] = a /\ l5[2] = b /\ l5[3] = c
      /\ l5[4] = d /\ l5[5] = e
  <2>1. /\ l3 \o s3 \in Seq(S) /\ Len(l3 \o s3) = Len(l3) + Len(s3)
        /\ \A i \in 1..Len(l3) + Len(s3) :
             (l3 \o s3)[i] = IF i <= Len(l3) THEN l3[i] ELSE s3[i - Len(l3)]
    BY <1>2, <1>4, ConcatProperties
  <2> QED
    BY <1>2, <1>4, <1>5, <2>1
<1>7. PICK l6 : l6 = l5 \o s4
  OBVIOUS
<1>8. /\ l6 \in Seq(S) /\ Len(l6) = 6 /\ l6[1] = a /\ l6[2] = b /\ l6[3] = c
      /\ l6[4] = d /\ l6[5] = e /\ l6[6] = f
  <2>1. /\ l5 \o s4 \in Seq(S) /\ Len(l5 \o s4) = Len(l5) + Len(s4)
        /\ \A i \in 1..Len(l5) + Len(s4) :
             (l5 \o s4)[i] = IF i <= Len(l5) THEN l5[i] ELSE s4[i - Len(l5)]
    BY <1>2, <1>6, ConcatProperties
  <2> QED
    BY <1>2, <1>6, <1>7, <2>1
<1>9. l6 = <<a, b, c, d, e, f>>
  BY <1>8
<1> QED
  BY <1>1, <1>3, <1>5, <1>7, <1>9

\* handle_frame() gets from the payload what the sender put in, and the lengths
\* of the two agree.
LEMMA PayloadRead ==
  ASSUME NEW e \in Events
  PROVE  /\ e.type \in DOMAIN TypeByte
         /\ Payload(e) \in Seq(Byte)
         /\ Len(Payload(e)) = LengthOf[e.type] /\ LengthOf[e.type] \in {1, 6, 7}
         /\ TypeByte[e.type] \in Byte
         /\ EventIn(e.type, Payload(e)) = Sent(e)
<1>1. CASE e \in [type : {"mouse"}, buttons : 0..255, dx : Int, dy : Int, wheel : Int]
  <2> DEFINE cx == clamp(e.dx, -32768, 32767)
             cy == clamp(e.dy, -32768, 32767)
             cz == clamp(e.wheel, -128, 127)
  <2>a. PICK x, y, z : x = cx /\ y = cy /\ z = cz
    OBVIOUS
  <2>b. e.dx \in Int /\ e.dy \in Int /\ e.wheel \in Int
    BY <1>1
  <2>1. x \in Int /\ -32768 <= x /\ x <= 32767
    BY <2>a, <2>b DEF clamp
  <2>c. y \in Int /\ -32768 <= y /\ y <= 32767
    BY <2>a, <2>b DEF clamp
  <2>d. z \in Int /\ -128 <= z /\ z <= 127
    BY <2>a, <2>b DEF clamp
  <2>2. Payload(e) = <<e.buttons>> \o Bytes16(x) \o Bytes16(y) \o <<z % 256>>
    BY <1>1, <2>a DEF Payload
  <2>3. Sent(e) = [type |-> "mouse", buttons |-> e.buttons, dx |-> x, dy |-> y, wheel |-> z]
    <3> HIDE DEF cx, cy, cz
    <3>1. e.type = "mouse"
      BY <1>1
    <3>2. Sent(e) = [e EXCEPT !.dx = cx, !.dy = cy, !.wheel = cz]
      BY <3>1 DEF Sent, cx, cy, cz
    <3> QED
      BY <1>1, <2>a, <3>1, <3>2
  <2>4. PICK x1 \in Byte, x2 \in Byte : Bytes16(x) = <<x1, x2>> /\ Signed(x1 + 256 * x2, 32768) = x
    BY <2>1, Bytes16Read
  <2>5. PICK y1 \in Byte, y2 \in Byte : Bytes16(y) = <<y1, y2>> /\ Signed(y1 + 256 * y2, 32768) = y
    BY <2>c, Bytes16Read
  <2>6. PICK z1 \in Byte : z % 256 = z1 /\ Signed(z1, 128) = z
    BY <2>d, Byte8Read
  <2>7. Payload(e) = <<e.buttons, x1, x2, y1, y2, z1>>
    BY <2>2, <2>4, <2>5, <2>6, ConcatOfFour
  <2>8. e.buttons \in Byte /\ e.type = "mouse"
    BY <1>1 DEF Byte
  <2>9. EventIn("mouse", Payload(e)) = Sent(e)
    BY <2>3, <2>4, <2>5, <2>6, <2>7 DEF EventIn
  <2> QED
    BY <2>7, <2>8, <2>9 DEF TypeByte, LengthOf, Byte
<1>2. CASE e \in [type : {"keyboard"}, modifiers : 0..255, keys : [1..6 -> 0..255]]
  <2>1. e.type = "keyboard" /\ Sent(e) = e /\ e.modifiers \in Byte /\ e.keys \in [1..6 -> Byte]
    BY <1>2 DEF Sent, Byte
  <2>2. e.keys \in Seq(Byte) /\ Len(e.keys) = 6
    <3>1. e.keys \in Seq(Byte)
      BY <2>1, SeqDef
    <3> QED
      BY <2>1, <3>1
  <2>3. Payload(e) = <<e.modifiers>> \o e.keys
    BY <2>1 DEF Payload
  <2>4. Payload(e) \in Seq(Byte) /\ Len(Payload(e)) = 7
    <3>1. <<e.modifiers>> \in Seq(Byte) /\ Len(<<e.modifiers>>) = 1
      BY <2>1
    <3>2. /\ <<e.modifiers>> \o e.keys \in Seq(Byte)
          /\ Len(<<e.modifiers>> \o e.keys) = Len(<<e.modifiers>>) + Len(e.keys)
      BY <2>2, <3>1, ConcatProperties
    <3> QED
      BY <2>2, <2>3, <3>1, <3>2
  <2>5. Payload(e)[1] = e.modifiers /\ Tail(Payload(e)) = e.keys
    BY <2>1, <2>2, <2>3
  <2>6. e = [type |-> "keyboard", modifiers |-> e.modifiers, keys |-> e.keys]
    BY <1>2
  <2>7. EventIn("keyboard", Payload(e)) = e
    BY <2>5, <2>6 DEF EventIn
  <2> QED
    BY <2>1, <2>4, <2>7 DEF TypeByte, LengthOf, Byte
<1>3. CASE e \in [type : {"keepalive"}, present : 0..255]
  <2>1. e.type = "keepalive" /\ Sent(e) = e /\ Payload(e) = <<e.present>> /\ e.present \in Byte
    BY <1>3 DEF Sent, Payload, Byte
  <2>2. EventIn("keepalive", Payload(e)) = e
    BY <1>3, <2>1 DEF EventIn
  <2> QED
    BY <2>1, <2>2 DEF TypeByte, LengthOf, Byte
<1>4. CASE e \in [type : {"mode"}, passthrough : 0..255]
  <2>1. e.type = "mode" /\ Sent(e) = e /\ Payload(e) = <<e.passthrough>> /\ e.passthrough \in Byte
    BY <1>4 DEF Sent, Payload, Byte
  <2>2. EventIn("mode", Payload(e)) = e
    BY <1>4, <2>1 DEF EventIn
  <2> QED
    BY <2>1, <2>2 DEF TypeByte, LengthOf, Byte
<1> QED
  BY <1>1, <1>2, <1>3, <1>4, EventsAssumption DEF LinkEvents

LEMMA FrameShape ==
  ASSUME NEW e \in Events
  PROVE  LET f == FrameOf[e]  pl == Payload(e)  n == Len(pl)
         IN /\ n \in {1, 6, 7}
            /\ f \in Seq(Byte) /\ Len(f) = n + 5
            /\ f[1] = Sync0 /\ f[2] = Sync1 /\ f[3] = TypeByte[e.type] /\ f[4] = n
            /\ \A k \in 1..n : f[k + 4] = pl[k]
            /\ f[n + 5] = Crc(<<TypeByte[e.type], n>> \o pl)
<1> DEFINE pl == Payload(e)
           n == Len(pl)
           b == <<TypeByte[e.type], n>> \o pl
           c == Crc(b)
<1>1. e.type \in DOMAIN TypeByte /\ pl \in Seq(Byte) /\ n = LengthOf[e.type]
  BY PayloadRead
<1>2. n \in {1, 6, 7} /\ TypeByte[e.type] \in Byte
  BY PayloadRead
<1>3. c \in Byte
  BY CrcAssumption DEF Body, Byte
<1>4. FrameOf[e] = <<Sync0, Sync1>> \o b \o <<c>>
  BY DEF FrameOf, frame_send, Body
<1> HIDE DEF c, pl
<1>5. b \in Seq(Byte) /\ Len(b) = n + 2 /\ b[1] = TypeByte[e.type] /\ b[2] = n
      /\ \A k \in 1..n : b[k + 2] = pl[k]
  BY <1>1, <1>2 DEF Byte
<1> HIDE DEF b
<1>6. Sync0 \in Byte /\ Sync1 \in Byte
  BY DEF Sync0, Sync1, Byte
<1>7. FrameOf[e] \in Seq(Byte) /\ Len(FrameOf[e]) = n + 5
  BY <1>3, <1>4, <1>5, <1>6, <1>2
<1>8. \A k \in 1..n : FrameOf[e][k + 4] = pl[k]
  BY <1>2, <1>3, <1>4, <1>5, <1>6
<1>9. FrameOf[e][1] = Sync0 /\ FrameOf[e][2] = Sync1
      /\ FrameOf[e][3] = b[1] /\ FrameOf[e][4] = b[2] /\ FrameOf[e][n + 5] = c
  BY <1>2, <1>3, <1>4, <1>5, <1>6
<1> QED
  BY <1>2, <1>5, <1>7, <1>8, <1>9 DEF pl, b, c

---------------------------------------------------------------------------
(* The parser. *)

States == {"s0", "s1", "type", "len", "payload", "crc"}

\* What the locals of receiver_task() hold in each state.
ParserOK(p) ==
  /\ p \in [state : States, type : Byte, len : 0..PayloadMax, payload : Seq(Byte)]
  /\ p.state \in {"s0", "s1", "type", "len"} => p.payload = <<>>
  /\ p.state = "payload" => Len(p.payload) < p.len

\* The most bytes the parser can still take before it is between frames again.
Rem(p) ==
  CASE p.state = "type"    -> PayloadMax + 3
    [] p.state = "len"     -> PayloadMax + 2
    [] p.state = "payload" -> p.len - Len(p.payload) + 1
    [] p.state = "crc"     -> 1
    [] OTHER               -> 0

LEMMA RemRange ==
  ASSUME NEW p, ParserOK(p)
  PROVE  /\ Rem(p) \in 0..PayloadMax + 3
         /\ Between(p) <=> Rem(p) = 0
<1>1. p.state \in States /\ p.len \in 0..PayloadMax /\ Len(p.payload) \in Nat /\ PayloadMax \in Nat
  BY FramerAssumption DEF ParserOK
<1>2. p.state = "payload" => Len(p.payload) < p.len
  BY DEF ParserOK
<1> QED
  BY <1>1, <1>2 DEF Rem, Between, States

LEMMA IdleOK == ParserOK(Idle)
BY FramerAssumption DEF ParserOK, Idle, States, Byte

\* A byte leaves the locals as they should be, and brings the end of what the
\* parser takes for a frame closer by one.
LEMMA ParseStep ==
  ASSUME NEW p, ParserOK(p), NEW b \in Byte
  PROVE  /\ ParserOK(parse(p, b))
         /\ ~Between(p) => \/ parse(p, b) = Idle
                           \/ ~Between(parse(p, b)) /\ Rem(parse(p, b)) <= Rem(p) - 1
<1>0. /\ p \in [state : States, type : Byte, len : 0..PayloadMax, payload : Seq(Byte)]
      /\ PayloadMax \in Nat /\ b \in Nat
  BY FramerAssumption DEF ParserOK, Byte
<1>1. CASE p.state = "s0"
  <2>1. parse(p, b) = IF b = Sync0 THEN [p EXCEPT !.state = "s1"] ELSE p
    BY <1>1 DEF parse
  <2>2. Between(p)
    BY <1>1 DEF Between
  <2> QED
    BY <1>0, <1>1, <2>1, <2>2 DEF ParserOK, States
<1>2. CASE p.state = "s1"
  <2>1. parse(p, b) = AfterSync0(p, b)
    BY <1>2 DEF parse
  <2>2. Between(p)
    BY <1>2 DEF Between
  <2>3. ParserOK([p EXCEPT !.state = "type"])
    BY <1>0, <1>2 DEF ParserOK, States
  <2> QED
    BY <2>1, <2>2, <2>3, IdleOK DEF AfterSync0
<1>3. CASE p.state = "type"
  <2>1. parse(p, b) = [p EXCEPT !.type = b, !.state = "len"]
    BY <1>3 DEF parse
  <2> DEFINE q == [p EXCEPT !.type = b, !.state = "len"]
  <2>2. /\ q \in [state : States, type : Byte, len : 0..PayloadMax, payload : Seq(Byte)]
        /\ q.state = "len" /\ q.payload = p.payload
    BY <1>0 DEF States
  <2>3. p.payload = <<>>
    BY <1>3 DEF ParserOK
  <2> HIDE DEF q
  <2>4. ParserOK(q) /\ ~Between(q) /\ Rem(q) = PayloadMax + 2
    BY <2>2, <2>3 DEF ParserOK, Between, Rem
  <2> QED
    BY <1>0, <1>3, <2>1, <2>4 DEF q, Rem
<1>4. CASE p.state = "len"
  <2>1. parse(p, b) = AfterType(p, b)
    BY <1>4 DEF parse
  <2>2. CASE b > PayloadMax
    BY <2>1, <2>2, IdleOK DEF AfterType
  <2>3. CASE ~(b > PayloadMax)
    <3> DEFINE q == [p EXCEPT !.len = b, !.state = IF b = 0 THEN "crc" ELSE "payload"]
    <3>1. parse(p, b) = q
      BY <2>1, <2>3 DEF AfterType
    <3>2. /\ q \in [state : States, type : Byte, len : 0..PayloadMax, payload : Seq(Byte)]
          /\ q.state = (IF b = 0 THEN "crc" ELSE "payload") /\ q.payload = <<>> /\ q.len = b
      <4>1. p.payload = <<>>
        BY <1>4 DEF ParserOK
      <4>2. b \in 0..PayloadMax
        BY <1>0, <2>3
      <4>3. "crc" \in States /\ "payload" \in States
        BY DEF States
      <4>4. /\ q.state = (IF b = 0 THEN "crc" ELSE "payload")
            /\ q.payload = p.payload /\ q.len = b
        BY <1>0
      <4>5. q \in [state : States, type : Byte, len : 0..PayloadMax, payload : Seq(Byte)]
        BY <1>0, <4>2, <4>3
      <4> QED
        BY <4>1, <4>4, <4>5
    <3> HIDE DEF q
    <3>3. ParserOK(q)
      BY <1>0, <3>2 DEF ParserOK
    <3>4. ~Between(q) /\ Rem(q) = b + 1
      <4>1. CASE b = 0
        BY <3>2, <4>1 DEF Between, Rem
      <4>2. CASE b # 0
        <5>1. q.state = "payload" /\ Len(q.payload) = 0
          BY <3>2, <4>2
        <5> QED
          BY <1>0, <3>2, <5>1 DEF Between, Rem
      <4> QED
        BY <4>1, <4>2
    <3>5. Rem(p) = PayloadMax + 2
      BY <1>4 DEF Rem
    <3> QED
      BY <1>0, <2>3, <3>1, <3>3, <3>4, <3>5
  <2> QED
    BY <2>2, <2>3
<1>5. CASE p.state = "payload"
  <2> DEFINE q == Collect(p, b)
  <2>1. parse(p, b) = q
    BY <1>5 DEF parse
  <2>2. Len(p.payload) \in Nat /\ p.len \in 0..PayloadMax /\ Len(p.payload) < p.len
    BY <1>0, <1>5 DEF ParserOK
  <2>a. Append(p.payload, b) \in Seq(Byte)
    BY <1>0, AppendProperties
  <2>3. /\ q \in [state : States, type : Byte, len : 0..PayloadMax, payload : Seq(Byte)]
        /\ q.state = (IF Len(p.payload) + 1 = p.len THEN "crc" ELSE "payload")
        /\ q.payload = Append(p.payload, b) /\ q.len = p.len
    BY <1>0, <1>5, <2>a DEF Collect, States
  <2>4. Len(q.payload) = Len(p.payload) + 1
    BY <1>0, <2>3
  <2> HIDE DEF q
  <2>5. ParserOK(q)
    BY <1>0, <2>2, <2>3, <2>4 DEF ParserOK
  <2>6. ~Between(q) /\ Rem(q) = p.len - Len(p.payload)
    BY <2>2, <2>3, <2>4 DEF Between, Rem
  <2>7. Rem(p) = p.len - Len(p.payload) + 1
    BY <1>5 DEF Rem
  <2> QED
    BY <2>1, <2>2, <2>5, <2>6, <2>7
<1>6. CASE p.state = "crc"
  BY <1>6, IdleOK DEF parse
<1> QED
  BY <1>0, <1>1, <1>2, <1>3, <1>4, <1>5, <1>6 DEF States

LEMMA ParsedOK ==
  ASSUME NEW p, ParserOK(p), NEW bytes \in Seq(Byte)
  PROVE  \A i \in 0..Len(bytes) : ParserOK(Parsed(p, bytes)[i])
<1> DEFINE A == Parsed(p, bytes)
           S == {n \in Nat : n <= Len(bytes) => ParserOK(A[n])}
<1>0. /\ Len(bytes) \in Nat
      /\ A[0] = p
      /\ \A i \in 1..Len(bytes) : A[i] = parse(A[i - 1], bytes[i]) /\ bytes[i] \in Byte
  BY ParsedStep
<1> HIDE DEF A
<1>1. 0 \in S
  BY <1>0
<1>2. ASSUME NEW n \in S PROVE n + 1 \in S
  <2>1. ASSUME n + 1 <= Len(bytes) PROVE ParserOK(A[n + 1])
    <3>1. /\ n + 1 \in 1..Len(bytes) /\ (n + 1) - 1 = n /\ ParserOK(A[n])
      BY <1>0, <1>2, <2>1
    <3>2. A[n + 1] = parse(A[n], bytes[n + 1]) /\ bytes[n + 1] \in Byte
      BY <1>0, <3>1
    <3> QED
      BY <3>1, <3>2, ParseStep
  <2> QED
    BY <2>1
<1> HIDE DEF S
<1>3. \A n \in Nat : n \in S
  <2>1. S \in SUBSET Nat
    BY DEF S
  <2> QED
    BY <1>1, <1>2, <2>1, Induction
<1>4. \A i \in 0..Len(bytes) : ParserOK(A[i])
  BY <1>0, <1>3 DEF S
<1> QED
  BY <1>4 DEF A

---------------------------------------------------------------------------
(* A frame that finds the parser between frames. *)

\* The four bytes in front of the payload.
LEMMA Preamble ==
  ASSUME NEW e \in Events, NEW p, ParserOK(p), Between(p), PayloadMax >= 7
  PROVE  LET A == Parsed(p, FrameOf[e])
         IN /\ A[0].state # "crc" /\ A[1].state # "crc"
            /\ A[2].state # "crc" /\ A[3].state # "crc"
            /\ A[4].state = "payload" /\ A[4].type = TypeByte[e.type]
            /\ A[4].len = Len(Payload(e)) /\ A[4].payload = <<>>
<1> DEFINE f == FrameOf[e]
           A == Parsed(p, f)
           n == Len(Payload(e))
<1>1. /\ f[1] = Sync0 /\ f[2] = Sync1 /\ f[3] = TypeByte[e.type] /\ f[4] = n
      /\ n \in {1, 6, 7} /\ f \in Seq(Byte) /\ Len(f) = n + 5
  BY FrameShape
<1>2. A[0] = p /\ \A i \in 1..Len(f) : A[i] = parse(A[i - 1], f[i])
  BY <1>1, ParsedStep
<1> HIDE DEF A, f, n
<1>3. /\ A[1] = parse(A[0], f[1]) /\ A[2] = parse(A[1], f[2])
      /\ A[3] = parse(A[2], f[3]) /\ A[4] = parse(A[3], f[4])
  BY <1>1, <1>2
<1>4. /\ p \in [state : States, type : Byte, len : 0..PayloadMax, payload : Seq(Byte)]
      /\ p.state \in {"s0", "s1"} /\ p.payload = <<>>
  BY DEF ParserOK, Between
<1>5. A[1] = [p EXCEPT !.state = "s1"]
  <2>1. CASE p.state = "s0"
    BY <1>1, <1>2, <1>3, <2>1 DEF parse
  <2>2. CASE p.state = "s1"
    <3>1. A[1] = AfterSync0(p, Sync0)
      BY <1>1, <1>2, <1>3, <2>2 DEF parse
    <3>2. A[1] = p
      BY <3>1 DEF AfterSync0, Sync0, Sync1
    <3> QED
      BY <1>4, <2>2, <3>2
  <2> QED
    BY <1>4, <2>1, <2>2
<1>6. A[2] = [p EXCEPT !.state = "type"]
  <2>1. A[1].state = "s1"
    BY <1>4, <1>5
  <2>2. A[2] = [A[1] EXCEPT !.state = "type"]
    BY <1>1, <1>3, <2>1 DEF parse, AfterSync0
  <2> QED
    BY <1>4, <1>5, <2>2
<1>7. A[3] = [p EXCEPT !.type = TypeByte[e.type], !.state = "len"]
  <2>1. A[2].state = "type"
    BY <1>4, <1>6
  <2>2. A[3] = [A[2] EXCEPT !.type = TypeByte[e.type], !.state = "len"]
    BY <1>1, <1>3, <2>1 DEF parse
  <2> QED
    BY <1>4, <1>6, <2>2
<1>8. A[4] = [p EXCEPT !.type = TypeByte[e.type], !.len = n, !.state = "payload"]
  <2>1. A[3].state = "len"
    BY <1>4, <1>7
  <2>2. A[4] = AfterType(A[3], n)
    BY <1>1, <1>3, <2>1 DEF parse
  <2>3. ~(n > PayloadMax) /\ n # 0
    BY <1>1, FramerAssumption
  <2>4. A[4] = [A[3] EXCEPT !.len = n, !.state = "payload"]
    BY <2>2, <2>3 DEF AfterType
  <2> QED
    BY <1>4, <1>7, <2>4
<1>9. /\ A[0].state # "crc" /\ A[1].state # "crc"
      /\ A[2].state # "crc" /\ A[3].state # "crc"
      /\ A[4].state = "payload" /\ A[4].type = TypeByte[e.type]
      /\ A[4].len = n /\ A[4].payload = <<>>
  BY <1>2, <1>4, <1>5, <1>6, <1>7, <1>8
<1> QED
  BY <1>9 DEF A, f, n

\* The payload, byte by byte.
LEMMA Collected ==
  ASSUME NEW e \in Events, NEW p, ParserOK(p), Between(p), PayloadMax >= 7
  PROVE  LET A == Parsed(p, FrameOf[e])  n == Len(Payload(e))
         IN \A k \in 0..n :
              /\ A[k + 4].type = TypeByte[e.type] /\ A[k + 4].len = n
              /\ A[k + 4].state = IF k = n THEN "crc" ELSE "payload"
              /\ A[k + 4].payload \in Seq(Byte) /\ Len(A[k + 4].payload) = k
              /\ \A j \in 1..k : A[k + 4].payload[j] = Payload(e)[j]
<1> DEFINE f == FrameOf[e]
           pl == Payload(e)
           n == Len(pl)
           A == Parsed(p, f)
           At(k) == /\ A[k + 4].type = TypeByte[e.type] /\ A[k + 4].len = n
                    /\ A[k + 4].state = IF k = n THEN "crc" ELSE "payload"
                    /\ A[k + 4].payload \in Seq(Byte) /\ Len(A[k + 4].payload) = k
                    /\ \A j \in 1..k : A[k + 4].payload[j] = pl[j]
           S == {k \in Nat : k <= n => At(k)}
<1>1. /\ n \in {1, 6, 7} /\ f \in Seq(Byte) /\ Len(f) = n + 5
      /\ \A k \in 1..n : f[k + 4] = pl[k]
  BY FrameShape
<1>2. /\ \A i \in 1..Len(f) : A[i] = parse(A[i - 1], f[i])
      /\ \A i \in 0..Len(f) : ParserOK(A[i])
  BY <1>1, ParsedStep, ParsedOK
<1>3. /\ A[4].state = "payload" /\ A[4].type = TypeByte[e.type]
      /\ A[4].len = n /\ A[4].payload = <<>>
  BY Preamble
<1> HIDE DEF A, f, pl
<1>4. 0 \in S
  <2>1. A[4].payload \in Seq(Byte) /\ Len(A[4].payload) = 0
    BY <1>3
  <2>2. 0 # n
    <3>1. n \in {1, 6, 7}
      BY <1>1, Zenon
    <3> HIDE DEF n
    <3> QED
      BY <3>1
  <2>3. A[0 + 4] = A[4] /\ 1..0 = {}
    OBVIOUS
  <2>4. At(0)
    BY <1>3, <2>1, <2>2, <2>3
  <2> HIDE DEF At
  <2> QED
    BY <2>4
<1>5. ASSUME NEW k \in S PROVE k + 1 \in S
  <2>1. ASSUME k + 1 <= n PROVE At(k + 1)
    <3>1. k \in Nat /\ k # n /\ At(k) /\ n \in Nat
      BY <1>1, <1>5, <2>1
    <3> DEFINE q == A[k + 4]
               b == f[(k + 1) + 4]
    <3>2. (k + 1) + 4 \in 1..Len(f) /\ ((k + 1) + 4) - 1 = k + 4 /\ k + 1 \in 1..n
      BY <1>1, <2>1, <3>1
    <3>3. A[(k + 1) + 4] = parse(q, b) /\ b = pl[k + 1] /\ b \in Byte
      BY <1>1, <1>2, <3>2
    <3>4. /\ q.state = "payload" /\ q.type = TypeByte[e.type] /\ q.len = n
          /\ q.payload \in Seq(Byte) /\ Len(q.payload) = k
          /\ \A j \in 1..k : q.payload[j] = pl[j]
      BY <3>1
    <3>5. q \in [state : States, type : Byte, len : 0..PayloadMax, payload : Seq(Byte)]
      <4>1. k + 4 \in 0..Len(f)
        BY <1>1, <2>1, <3>1
      <4> QED
        BY <1>2, <4>1 DEF ParserOK
    <3> HIDE DEF q, b
    <3>6. parse(q, b) = Collect(q, b)
      BY <3>4 DEF parse
    <3>7. /\ Collect(q, b).type = q.type /\ Collect(q, b).len = q.len
          /\ Collect(q, b).payload = Append(q.payload, b)
          /\ Collect(q, b).state = IF k + 1 = n THEN "crc" ELSE "payload"
      BY <3>4, <3>5 DEF Collect
    <3>8. /\ Append(q.payload, b) \in Seq(Byte) /\ Len(Append(q.payload, b)) = k + 1
          /\ \A j \in 1..k : Append(q.payload, b)[j] = q.payload[j]
          /\ Append(q.payload, b)[k + 1] = b
      BY <3>3, <3>4, AppendProperties
    <3>9. \A j \in 1..k + 1 : Append(q.payload, b)[j] = pl[j]
      BY <3>1, <3>3, <3>4, <3>8
    <3> QED
      BY <3>3, <3>4, <3>6, <3>7, <3>8, <3>9
  <2> HIDE DEF At
  <2> QED
    BY <2>1
<1>a. \A k \in S : k <= n => At(k)
  OBVIOUS
<1> HIDE DEF S
<1>6. \A k \in Nat : k \in S
  <2>1. S \in SUBSET Nat
    BY DEF S
  <2> QED
    BY <1>4, <1>5, <2>1, Induction
<1>7. \A k \in 0..n : At(k)
  <2> HIDE DEF At
  <2>1. \A k \in 0..n : k \in S /\ k <= n
    BY <1>1, <1>6
  <2> QED
    BY <2>1, <1>a
<1> QED
  BY <1>7 DEF A, f, pl

\* The last byte completes the frame, and the one before it nothing.
LEMMA CleanFrame ==
  ASSUME NEW e \in Events, NEW p, ParserOK(p), Between(p), PayloadMax >= 7
  PROVE  LET f == FrameOf[e]  A == Parsed(p, f)
         IN /\ A[Len(f)] = Idle
            /\ UNION {Completed(A[i - 1], f[i]) : i \in DOMAIN f} = {Sent(e)}
<1> DEFINE f == FrameOf[e]
           pl == Payload(e)
           n == Len(pl)
           A == Parsed(p, f)
<1>1. /\ n \in {1, 6, 7} /\ f \in Seq(Byte) /\ Len(f) = n + 5
      /\ f[n + 5] = Crc(<<TypeByte[e.type], n>> \o pl)
  BY FrameShape
<1>2. A[n + 5] = parse(A[n + 4], f[n + 5])
  <2>1. n + 5 \in 1..Len(f) /\ (n + 5) - 1 = n + 4
    BY <1>1
  <2> QED
    BY <1>1, <2>1, ParsedStep
<1>3. /\ A[0].state # "crc" /\ A[1].state # "crc"
      /\ A[2].state # "crc" /\ A[3].state # "crc"
  BY Preamble
<1>4. \A k \in 0..n :
        /\ A[k + 4].type = TypeByte[e.type] /\ A[k + 4].len = n
        /\ A[k + 4].state = IF k = n THEN "crc" ELSE "payload"
        /\ A[k + 4].payload \in Seq(Byte) /\ Len(A[k + 4].payload) = k
        /\ \A j \in 1..k : A[k + 4].payload[j] = pl[j]
  BY Collected
<1>5. /\ pl \in Seq(Byte) /\ n = LengthOf[e.type] /\ e.type \in DOMAIN TypeByte
      /\ EventIn(e.type, pl) = Sent(e)
  BY PayloadRead
<1> HIDE DEF A, f, pl
<1>6. /\ A[n + 4].type = TypeByte[e.type] /\ A[n + 4].len = n
      /\ A[n + 4].state = "crc" /\ A[n + 4].payload = pl
  <2>1. n \in 0..n
    BY <1>1
  <2>2. /\ A[n + 4].payload \in Seq(Byte) /\ Len(A[n + 4].payload) = n
        /\ \A j \in 1..n : A[n + 4].payload[j] = pl[j]
    BY <1>4, <2>1
  <2>3. A[n + 4].payload = pl
    BY <1>5, <2>2, SeqEqual
  <2> QED
    BY <1>4, <2>1, <2>3
<1>7. A[Len(f)] = Idle
  BY <1>1, <1>2, <1>6 DEF parse
<1>8. ASSUME NEW i \in DOMAIN f, i # n + 5 PROVE Completed(A[i - 1], f[i]) = {}
  <2>1. A[i - 1].state # "crc"
    <3>1. i \in 1..n + 4
      BY <1>1, <1>8
    <3>2. CASE i <= 4
      <4>1. i - 1 = 0 \/ i - 1 = 1 \/ i - 1 = 2 \/ i - 1 = 3
        BY <3>1, <3>2
      <4> QED
        BY <1>3, <4>1
    <3>3. CASE ~(i <= 4)
      <4>1. i - 5 \in 0..n /\ i - 5 # n /\ (i - 5) + 4 = i - 1
        BY <1>1, <3>1, <3>3
      <4>2. A[(i - 5) + 4].state = "payload"
        BY <1>4, <4>1
      <4> QED
        BY <4>1, <4>2
    <3> QED
      BY <3>2, <3>3
  <2> QED
    BY <2>1 DEF Completed, Intact
<1>9. n + 5 \in DOMAIN f /\ Completed(A[(n + 5) - 1], f[n + 5]) = {Sent(e)}
  <2>1. n + 5 \in DOMAIN f /\ (n + 5) - 1 = n + 4
    BY <1>1
  <2>2. Intact(A[n + 4], f[n + 5])
    BY <1>1, <1>6 DEF Intact
  <2>3. Completed(A[n + 4], f[n + 5]) =
          {EventIn(t, pl) : t \in {u \in DOMAIN TypeByte :
                                     TypeByte[u] = TypeByte[e.type] /\ LengthOf[u] = n}}
    BY <1>6, <2>2 DEF Completed
  <2>4. {u \in DOMAIN TypeByte : TypeByte[u] = TypeByte[e.type] /\ LengthOf[u] = n} = {e.type}
    <3>1. \A u \in DOMAIN TypeByte : TypeByte[u] = TypeByte[e.type] => u = e.type
      BY <1>5 DEF TypeByte
    <3> QED
      BY <1>5, <3>1
  <2>5. {EventIn(t, pl) : t \in {e.type}} = {Sent(e)}
    BY <1>5
  <2> QED
    BY <2>1, <2>3, <2>4, <2>5
<1>10. UNION {Completed(A[i - 1], f[i]) : i \in DOMAIN f} = {Sent(e)}
  <2>1. \A x : x \in {Sent(e)} => x \in UNION {Completed(A[i - 1], f[i]) : i \in DOMAIN f}
    BY <1>9
  <2>2. \A x : x \in UNION {Completed(A[i - 1], f[i]) : i \in DOMAIN f} => x \in {Sent(e)}
    BY <1>8, <1>9
  <2> QED
    BY <2>1, <2>2
<1> QED
  BY <1>7, <1>10 DEF A, f

---------------------------------------------------------------------------
(* A frame that finds the parser inside what it takes for a frame. *)

LEMMA Resync ==
  ASSUME NEW e \in Events, ~HasSync(Tail(FrameOf[e])),
         NEW p, ParserOK(p), ~Between(p)
  PROVE  LET f == FrameOf[e]  q == Parsed(p, f)[Len(f)]
         IN Between(q) \/ Rem(q) <= Rem(p) - Len(f)
<1> DEFINE f == FrameOf[e]
           A == Parsed(p, f)
           At(i) == \/ ~Between(A[i]) /\ Rem(A[i]) <= Rem(p) - i
                    \/ /\ Between(A[i]) /\ i >= 1
                       /\ A[i].state = "s1" => i >= 2 /\ f[i] = Sync0
           S == {i \in Nat : i <= Len(f) => At(i)}
<1>0. PICK n : n \in {1, 6, 7} /\ f \in Seq(Byte) /\ Len(f) = n + 5 /\ f[1] = Sync0 /\ f[2] = Sync1
  BY FrameShape
<1>1. f \in Seq(Byte) /\ Len(f) \in Nat /\ Len(f) >= 6 /\ f[1] = Sync0 /\ f[2] = Sync1
  <2> HIDE DEF f
  <2> QED
    BY <1>0
<1>2. /\ A[0] = p
      /\ \A i \in 1..Len(f) : A[i] = parse(A[i - 1], f[i]) /\ f[i] \in Byte
      /\ \A i \in 0..Len(f) : ParserOK(A[i]) /\ Rem(A[i]) \in Int
  <2> HIDE DEF f
  <2>1. A[0] = p /\ \A i \in 1..Len(f) : A[i] = parse(A[i - 1], f[i])
    BY <1>1, ParsedStep
  <2>2. \A i \in 1..Len(f) : f[i] \in Byte
    BY <1>1
  <2>3. \A i \in 0..Len(f) : ParserOK(A[i])
    BY <1>1, ParsedOK
  <2> HIDE DEF A
  <2>4. \A i \in 0..Len(f) : Rem(A[i]) \in Int
    BY <2>3, RemRange
  <2> QED
    BY <2>1, <2>2, <2>3, <2>4
<1>3. ~HasSync(Tail(f))
  OBVIOUS
<1>4. \A i \in 2..Len(f) - 1 : ~(f[i] = Sync0 /\ f[i + 1] = Sync1)
  <2> SUFFICES ASSUME NEW i \in 2..Len(f) - 1, f[i] = Sync0, f[i + 1] = Sync1
               PROVE  FALSE
    OBVIOUS
  <2> HIDE DEF f
  <2>1. /\ Tail(f) \in Seq(Byte) /\ Len(Tail(f)) = Len(f) - 1
        /\ \A j \in 1..Len(f) - 1 : Tail(f)[j] = f[j + 1]
    BY <1>1
  <2>2. /\ i - 1 \in 1..Len(Tail(f)) - 1
        /\ Tail(f)[i - 1] = Sync0 /\ Tail(f)[(i - 1) + 1] = Sync1
    BY <1>1, <2>1
  <2> QED
    BY <1>3, <2>2 DEF HasSync
<1> HIDE DEF A, f
<1>5. Rem(p) \in Int
  BY <1>1, <1>2
<1>6. 0 \in S
  BY <1>2, <1>5
<1>7. ASSUME NEW i \in S PROVE i + 1 \in S
  <2>1. ASSUME i + 1 <= Len(f) PROVE At(i + 1)
    <3>1. /\ i \in Nat /\ At(i) /\ i \in 0..Len(f)
          /\ i + 1 \in 1..Len(f) /\ (i + 1) - 1 = i
      BY <1>1, <1>7, <2>1
    <3>2. /\ A[i + 1] = parse(A[i], f[i + 1]) /\ f[i + 1] \in Byte
          /\ ParserOK(A[i]) /\ Rem(A[i]) \in Int
      BY <1>2, <3>1
    <3>3. CASE ~Between(A[i])
      <4>1. \/ A[i + 1] = Idle
            \/ ~Between(A[i + 1]) /\ Rem(A[i + 1]) <= Rem(A[i]) - 1
        BY <3>2, <3>3, ParseStep
      <4>2. CASE A[i + 1] = Idle
        BY <3>1, <4>2 DEF Between, Idle
      <4>3. CASE ~Between(A[i + 1]) /\ Rem(A[i + 1]) <= Rem(A[i]) - 1
        <5>1. Rem(A[i]) <= Rem(p) - i /\ Rem(A[i + 1]) \in Int
          BY <1>2, <3>1, <3>3
        <5> QED
          BY <1>5, <3>1, <3>2, <4>3, <5>1
      <4> QED
        BY <4>1, <4>2, <4>3
    <3>4. CASE Between(A[i])
      <4>1. i >= 1 /\ (A[i].state = "s1" => i >= 2 /\ f[i] = Sync0)
        BY <3>1, <3>4
      <4>2. A[i] \in [state : States, type : Byte, len : 0..PayloadMax, payload : Seq(Byte)]
        BY <3>2 DEF ParserOK
      <4>3. CASE A[i].state = "s0"
        <5>1. A[i + 1] = IF f[i + 1] = Sync0 THEN [A[i] EXCEPT !.state = "s1"] ELSE A[i]
          BY <3>2, <4>3 DEF parse
        <5>2. A[i + 1].state = IF f[i + 1] = Sync0 THEN "s1" ELSE "s0"
          BY <4>2, <4>3, <5>1
        <5> QED
          BY <3>1, <4>1, <5>2 DEF Between
      <4>4. CASE A[i].state = "s1"
        <5>1. f[i + 1] # Sync1
          BY <1>1, <1>4, <3>1, <4>1, <4>4
        <5>2. A[i + 1] = IF f[i + 1] = Sync0 THEN A[i] ELSE Idle
          BY <3>2, <4>4, <5>1 DEF parse, AfterSync0
        <5>3. A[i + 1].state = IF f[i + 1] = Sync0 THEN "s1" ELSE "s0"
          BY <4>4, <5>2 DEF Idle
        <5> QED
          BY <3>1, <4>1, <5>3 DEF Between
      <4> QED
        BY <3>4, <4>3, <4>4 DEF Between
    <3> QED
      BY <3>3, <3>4
  <2> HIDE DEF At
  <2> QED
    BY <2>1
<1>a. \A i \in S : i <= Len(f) => At(i)
  OBVIOUS
<1> HIDE DEF S
<1>8. Len(f) \in S
  <2>1. S \in SUBSET Nat
    BY DEF S
  <2> QED
    BY <1>1, <1>6, <1>7, <2>1, Induction
<1>9. At(Len(f))
  <2> HIDE DEF At
  <2> QED
    BY <1>1, <1>8, <1>a
<1>10. Between(A[Len(f)]) \/ Rem(A[Len(f)]) <= Rem(p) - Len(f)
  BY <1>9
<1> QED
  BY <1>10 DEF A, f

---------------------------------------------------------------------------
(* The inductive invariant. *)

ParserInv == ParserOK(parser) /\ missed \in Nat

\* A frame costs what the parser takes for a frame at least its six bytes, so
\* two of them use up the longest.
CatchesUp ==
  ~decoy => \/ missed = 0
            \/ missed = 1 /\ Rem(parser) <= PayloadMax - 3
            \/ missed = 2 /\ Rem(parser) = 0

FramerInv == ParserInv /\ CleanFrameIsReceived

LEMMA FramerInit == Init => FramerInv /\ CatchesUp
BY IdleOK DEF Init, FramerInv, ParserInv, CatchesUp, CleanFrameIsReceived

LEMMA ReadOK ==
  ASSUME ParserInv, NEW bytes \in Seq(Byte), receiver_task(bytes)
  PROVE  ParserOK(parser')
<1>1. parser' = Parsed(parser, bytes)[Len(bytes)]
  BY DEF receiver_task
<1>2. Len(bytes) \in 0..Len(bytes)
  OBVIOUS
<1> QED
  BY <1>1, <1>2, ParsedOK DEF ParserInv

\* A whole frame, from either side.
LEMMA FrameKeeps ==
  ASSUME FramerInv, NEW e \in Events, Frame(e), PayloadMax >= 7
  PROVE  /\ FramerInv'
         /\ PayloadMax <= 9 /\ CatchesUp => CatchesUp'
<1> DEFINE f == FrameOf[e]
           A == Parsed(parser, f)
<1>1. ParserOK(parser) /\ missed \in Nat /\ PayloadMax \in Nat /\ MaxMissed \in Nat
  BY FramerAssumption DEF FramerInv, ParserInv
<1>2. PICK n : n \in {1, 6, 7} /\ f \in Seq(Byte) /\ Len(f) = n + 5
  BY FrameShape
<1>3. /\ parser' = A[Len(f)] /\ clean' = Between(parser)
      /\ received' = UNION {Completed(A[i - 1], f[i]) : i \in DOMAIN f}
      /\ sent' = {Sent(e)}
      /\ missed' = IF Sent(e) \in received' THEN 0 ELSE clamp(missed + 1, 0, MaxMissed)
      /\ decoy' = (decoy \/ HasSync(Tail(f)))
  BY DEF Frame, receiver_task
<1>4. ParserOK(parser')
  <2>1. Frame(e) => receiver_task(f)
    BY DEF Frame
  <2> HIDE DEF f
  <2> QED
    BY <1>2, <2>1, ReadOK DEF FramerInv
<1>5. missed' \in Nat /\ missed' <= missed + 1
  BY <1>1, <1>3 DEF clamp
<1>6. CASE Between(parser)
  <2>1. parser' = Idle /\ received' = {Sent(e)}
    BY <1>1, <1>3, <1>6, CleanFrame
  <2>2. missed' = 0
    BY <1>3, <2>1
  <2> QED
    BY <1>3, <1>4, <2>1, <2>2 DEF FramerInv, ParserInv, CatchesUp, CleanFrameIsReceived
<1>7. CASE ~Between(parser)
  <2>1. FramerInv'
    BY <1>3, <1>4, <1>5, <1>7 DEF FramerInv, ParserInv, CleanFrameIsReceived
  <2>2. ASSUME PayloadMax <= 9, CatchesUp, ~decoy' PROVE
          \/ missed' = 0
          \/ missed' = 1 /\ Rem(parser') <= PayloadMax - 3
          \/ missed' = 2 /\ Rem(parser') = 0
    <3>1. ~decoy /\ ~HasSync(Tail(f))
      BY <1>3, <2>2
    <3>2. Between(parser') \/ Rem(parser') <= Rem(parser) - Len(f)
      BY <1>1, <1>3, <1>7, <3>1, Resync
    <3>3. /\ Rem(parser) \in Nat /\ Rem(parser) # 0 /\ Rem(parser) <= PayloadMax + 3
          /\ Rem(parser') \in Nat /\ (Between(parser') <=> Rem(parser') = 0)
      BY <1>1, <1>4, <1>7, RemRange
    <3>4. Rem(parser') = 0 \/ Rem(parser') <= Rem(parser) - 6
      <4> HIDE DEF f
      <4> QED
        BY <1>2, <3>2, <3>3
    <3>5. missed = 0 \/ (missed = 1 /\ Rem(parser) <= PayloadMax - 3)
      BY <2>2, <3>1, <3>3 DEF CatchesUp
    <3> HIDE DEF f, A
    <3>6. CASE missed = 0
      <4>1. missed' = 0 \/ missed' = 1
        BY <1>5, <3>6
      <4>2. Rem(parser') <= PayloadMax - 3
        BY <1>1, <3>3, <3>4
      <4> QED
        BY <4>1, <4>2
    <3>7. CASE missed = 1 /\ Rem(parser) <= PayloadMax - 3
      <4>1. missed' = 0 \/ missed' = 1 \/ missed' = 2
        BY <1>5, <3>7
      <4>2. Rem(parser') = 0
        BY <1>1, <2>2, <3>3, <3>4, <3>7
      <4> QED
        BY <1>1, <4>1, <4>2
    <3> QED
      BY <3>5, <3>6, <3>7
  <2>3. PayloadMax <= 9 /\ CatchesUp => CatchesUp'
    BY <2>2 DEF CatchesUp
  <2> QED
    BY <2>1, <2>3
<1> QED
  BY <1>6, <1>7

LEMMA NoiseKeeps ==
  ASSUME FramerInv, NEW bytes \in Seq(Byte), Noise(bytes)
  PROVE  FramerInv' /\ CatchesUp'
<1>1. receiver_task(bytes) /\ sent' = {} /\ missed' = 0
  BY DEF Noise
<1>2. ParserOK(parser')
  BY <1>1, ReadOK DEF FramerInv
<1> QED
  BY <1>1, <1>2 DEF FramerInv, ParserInv, CatchesUp, CleanFrameIsReceived

LEMMA FramerNext ==
  ASSUME FramerInv, [Next]_vars, PayloadMax >= 7
  PROVE  /\ FramerInv'
         /\ PayloadMax <= 9 /\ CatchesUp => CatchesUp'
<1>1. ASSUME NEW e \in Events, Frame(e)
      PROVE  FramerInv' /\ (PayloadMax <= 9 /\ CatchesUp => CatchesUp')
  BY <1>1, FrameKeeps
<1>2. ASSUME Stray PROVE FramerInv' /\ CatchesUp'
  <2>1. PICK b \in NoiseBytes : Noise(<<b>>)
    BY <1>2 DEF Stray
  <2>2. <<b>> \in Seq(Byte)
    BY FramerAssumption DEF Byte
  <2> QED
    BY <2>1, <2>2, NoiseKeeps
<1>3. ASSUME Truncated PROVE FramerInv' /\ CatchesUp'
  <2>a. PICK e \in Events : \E i \in 1..Len(FrameOf[e]) - 1 :
          Noise(SubSeq(FrameOf[e], 1, i)) \/ Noise(SubSeq(FrameOf[e], i + 1, Len(FrameOf[e])))
    BY <1>3 DEF Truncated
  <2>1. PICK i \in 1..Len(FrameOf[e]) - 1 :
          Noise(SubSeq(FrameOf[e], 1, i)) \/ Noise(SubSeq(FrameOf[e], i + 1, Len(FrameOf[e])))
    BY <2>a
  <2>2. PICK n : n \in {1, 6, 7} /\ FrameOf[e] \in Seq(Byte) /\ Len(FrameOf[e]) = n + 5
    BY FrameShape
  <2>3. /\ SubSeq(FrameOf[e], 1, i) \in Seq(Byte)
        /\ SubSeq(FrameOf[e], i + 1, Len(FrameOf[e])) \in Seq(Byte)
    BY <2>2, SubSeqProperties
  <2> QED
    BY <2>1, <2>3, NoiseKeeps
<1>4. CASE UNCHANGED vars
  BY <1>4 DEF vars, FramerInv, ParserInv, CatchesUp, CleanFrameIsReceived
<1> QED
  BY <1>1, <1>2, <1>3, <1>4 DEF Next

---------------------------------------------------------------------------

\* A frame that begins while the parser of receiver_task() is between frames is
\* received whole and with the value that was sent, for every set of events,
\* every noise and every checksum, as long as the buffer holds the longest
\* payload of the protocol.
THEOREM CleanFrameIsReceivedAlways ==
  ASSUME PayloadMax >= 7
  PROVE  Spec => []CleanFrameIsReceived
<1>1. Init => FramerInv
  BY FramerInit
<1>2. FramerInv /\ [Next]_vars => FramerInv'
  BY FramerNext
<1>3. FramerInv => CleanFrameIsReceived
  BY DEF FramerInv
<1> QED
  BY <1>1, <1>2, <1>3, PTL DEF Spec

\* At most two frames in a row are lost once the line is quiet and the frames
\* hold no sync word of their own.  With a buffer of more than nine bytes the
\* parser could sit out a third frame of six bytes: 8 is the value of the code.
THEOREM BackInStepAlways ==
  ASSUME PayloadMax \in 7..9
  PROVE  Spec => []BackInStep
<1>0. PayloadMax >= 7 /\ PayloadMax <= 9
  OBVIOUS
<1>1. Init => FramerInv /\ CatchesUp
  BY FramerInit
<1>2. FramerInv /\ CatchesUp /\ [Next]_vars => FramerInv' /\ CatchesUp'
  BY <1>0, FramerNext
<1>3. FramerInv /\ CatchesUp => BackInStep
  BY DEF FramerInv, ParserInv, CatchesUp, BackInStep
<1> QED
  BY <1>1, <1>2, <1>3, PTL DEF Spec
===============================================================================
