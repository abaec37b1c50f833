--------------------------- MODULE ReportTableProofs ---------------------------
(***************************************************************************)
(* Proofs about the descriptor parser and the table of reports: what a map *)
(* is read as does not depend on the maps read before it; a well-formed    *)
(* map is read as it declares; and the classes read off the table are      *)
(* those declared.                                                         *)
(*                                                                         *)
(* The first follows from a second parser, just powered on, that reads the *)
(* same map: the two agree from item to item.  The second has ReadInv,     *)
(* what a parser holds before each item of a well-formed map.  The parser  *)
(* lists reports at the marks of a map, the ends of its collections and    *)
(* the items where one goes on to a further id; MarkDeclares says that     *)
(* what is declared between two marks is what it then lists.  The third    *)
(* adds what a report becomes as those of a map are merged into it.        *)
(***************************************************************************)
EXTENDS ReportTable, FiniteSetTheorems, WellFoundedInduction, TLAPS

LEMMA Induction ==
  ASSUME NEW S \in SUBSET Nat, 0 \in S, \A n \in S : n + 1 \in S
  PROVE  \A n \in Nat : n \in S
<1> DEFINE R == {ss \in Nat \X Nat : ss[1] < ss[2]}
           T == Nat \ S
<1>1. OpToRel(<, Nat) = R
  BY DEF OpToRel
<1>2. IsWellFoundedOn(R, Nat)
  BY <1>1, NatLessThanWellFounded
<1>3. ASSUME T # {} PROVE FALSE
  <2> HIDE DEF R
  <2>1. T \subseteq Nat
    OBVIOUS
  <2>2. PICK m \in T : \A k \in T : ~(<<k, m>> \in R)
    BY <1>2, <1>3, <2>1, WFMin
  <2>3. m \in Nat /\ m # 0 /\ m - 1 \in Nat
    BY <2>1, <2>2
  <2>4. <<m - 1, m>> \in R
    BY <2>3 DEF R
  <2>5. m - 1 \in S
    BY <2>2, <2>3, <2>4
  <2>6. (m - 1) + 1 \in S
    BY <2>5
  <2> QED
    BY <2>2, <2>3, <2>6
<1> QED
  BY <1>3

---------------------------------------------------------------------------
(* The parser, item by item. *)

Read(q, item) == IF q.ok THEN handle_cmd(q, item) ELSE q

LEMMA AfterExists ==
  ASSUME NEW p, NEW items, NEW n \in Nat
  PROVE  \E g : g = [k \in 0..n |-> IF k = 0 THEN p ELSE Read(g[k - 1], items[k])]
<1> DEFINE S == {m \in Nat :
                   \E g : g = [k \in 0..m |-> IF k = 0 THEN p ELSE Read(g[k - 1], items[k])]}
<1>1. 0 \in S
  <2> DEFINE g == [k \in 0..0 |-> p]
  <2>1. g = [k \in 0..0 |-> IF k = 0 THEN p ELSE Read(g[k - 1], items[k])]
    OBVIOUS
  <2> QED
    BY <2>1
<1>2. ASSUME NEW m \in S PROVE m + 1 \in S
  <2>1. PICK g : g = [k \in 0..m |-> IF k = 0 THEN p ELSE Read(g[k - 1], items[k])]
    BY <1>2
  <2> DEFINE h == [k \in 0..m + 1 |-> IF k = m + 1 THEN Read(g[m], items[m + 1]) ELSE g[k]]
  <2>2. ASSUME NEW k \in 0..m + 1
        PROVE h[k] = IF k = 0 THEN p ELSE Read(h[k - 1], items[k])
    <3>1. CASE k = m + 1
      <4>1. h[k - 1] = g[m]  BY <3>1
      <4> QED  BY <3>1, <4>1
    <3>2. CASE k # m + 1
      <4>1. k \in 0..m /\ h[k] = g[k]  BY <3>2
      <4>2. g[k] = IF k = 0 THEN p ELSE Read(g[k - 1], items[k])  BY <2>1, <4>1
      <4>3. k # 0 => h[k - 1] = g[k - 1]  BY <4>1
      <4> QED  BY <4>1, <4>2, <4>3
    <3> QED  BY <3>1, <3>2
  <2>3. h = [k \in 0..m + 1 |-> IF k = 0 THEN p ELSE Read(h[k - 1], items[k])]
    BY <2>2
  <2> HIDE DEF h
  <2>4. \E f : f = [k \in 0..m + 1 |-> IF k = 0 THEN p ELSE Read(f[k - 1], items[k])]
    BY <2>3
  <2>5. m + 1 \in Nat
    OBVIOUS
  <2> QED
    BY <2>4, <2>5
<1> HIDE DEF S
<1>3. S \in SUBSET Nat
  BY DEF S
<1>4. n \in S
  BY <1>1, <1>2, <1>3, Induction
<1> QED
  BY <1>4 DEF S

LEMMA AfterStep ==
  ASSUME NEW p, NEW items, Len(items) \in Nat
  PROVE  /\ ParserAfter(p, items)[0] = p
         /\ \A k \in 1..Len(items) :
              ParserAfter(p, items)[k] = Read(ParserAfter(p, items)[k - 1], items[k])
<1> DEFINE f == ParserAfter(p, items)
<1>1. f = CHOOSE g : g = [k \in 0..Len(items) |-> IF k = 0 THEN p
                            ELSE Read(g[k - 1], items[k])]
  BY DEF ParserAfter, Read
<1>2. f = [k \in 0..Len(items) |-> IF k = 0 THEN p ELSE Read(f[k - 1], items[k])]
  BY <1>1, AfterExists
<1> HIDE DEF f
<1>3. f[0] = p /\ \A k \in 1..Len(items) : f[k] = Read(f[k - 1], items[k])
  BY <1>2
<1> QED
  BY <1>3 DEF f

\* It stops at the first error.
LEMMA StoppedStays ==
  ASSUME NEW p, NEW items, Len(items) \in Nat,
         NEW j \in 0..Len(items), ~ParserAfter(p, items)[j].ok
  PROVE  ~ParserAfter(p, items)[Len(items)].ok
<1> DEFINE f == ParserAfter(p, items)
           S == {n \in Nat : j + n <= Len(items) => f[j + n] = f[j]}
<1>0. ~f[j].ok /\ \A k \in 1..Len(items) : ~f[k - 1].ok => f[k] = f[k - 1]
  BY AfterStep DEF Read
<1> HIDE DEF f
<1>1. 0 \in S
  OBVIOUS
<1>2. ASSUME NEW n \in S PROVE n + 1 \in S
  <2>1. CASE j + n + 1 <= Len(items)
    <3>1. j + n + 1 \in 1..Len(items) /\ (j + n + 1) - 1 = j + n /\ j + (n + 1) = j + n + 1
      BY <2>1
    <3>2. f[j + n] = f[j]
      BY <1>2, <2>1
    <3>3. f[j + n + 1] = f[j]
      BY <1>0, <3>1, <3>2
    <3> QED
      BY <3>1, <3>3
  <2> QED
    BY <2>1
<1> HIDE DEF S
<1>3. S \in SUBSET Nat
  BY DEF S
<1>4. Len(items) - j \in S
  BY <1>1, <1>2, <1>3, Induction
<1>5. f[Len(items)] = f[j]
  BY <1>4 DEF S
<1> QED
  BY <1>0, <1>5 DEF f

---------------------------------------------------------------------------
(* Two parsers in the same collection. *)

Names == {"step", "depth", "usagePage", "usage", "innerUsagePage", "innerUsage", "id",
          "len", "size", "count", "newMap", "temp", "ok"}
Steps == {"USAGE_PAGE", "USAGE", "COLLECTION", "END_COLLECTION"}

IsParser(p) == p = [n \in Names |-> p[n]] /\ p.step \in Steps

\* q reads its first map; p may have leftovers of an earlier one, which it
\* drops before it lists the first report.
SameMap(p, q) ==
  /\ p.newMap = q.newMap
  /\ q.newMap => q.temp = NULL
  /\ ~q.newMap => p.temp = q.temp

SameFields(p, q) == \A n \in Names \ {"temp"} : p[n] = q[n]

Agree(p, q) ==
  /\ p.ok = q.ok
  /\ p.ok =>
       /\ p.step = q.step
       /\ SameMap(p, q)
       /\ p.step \in {"USAGE", "COLLECTION"} =>
            \A n \in Names \ {"temp", "depth"} : p[n] = q[n]
       /\ p.step = "END_COLLECTION" => SameFields(p, q)

Collected(p) == IF p.temp = NULL \/ p.newMap THEN EmptyMap ELSE p.temp
Fits(p)      == Len(Collected(p).reports \o ReportsOf(p)) <= MaxReports

LEMMA ReportFields ==
  ASSUME NEW p, IsParser(p)
  PROVE  LET r == handle_report(p)
         IN /\ r = [n \in Names |-> r[n]]
            /\ \A n \in Names \ {"temp", "newMap", "step", "ok"} : r[n] = p[n]
            /\ r.step = IF Fits(p) THEN p.step ELSE "USAGE_PAGE"
            /\ r.newMap = (p.newMap /\ ~Fits(p))
            /\ r.ok = Fits(p)
<1> DEFINE all == Collected(p).reports \o ReportsOf(p)
           new == [usages  |-> Collected(p).usages \cup ({ClassOf(p.usagePage, p.usage)} \ {"GENERIC"}),
                   reports |-> IF Fits(p) THEN all ELSE SubSeq(all, 1, MaxReports)]
<1>1. handle_report(p) = [p EXCEPT !.temp = new, !.newMap = @ /\ ~Fits(p),
                                   !.step = IF Fits(p) THEN @ ELSE "USAGE_PAGE", !.ok = Fits(p)]
  BY DEF handle_report, Collected, Fits
<1> HIDE DEF new
<1>2. DOMAIN p = Names
  BY DEF IsParser
<1> QED
  BY <1>1, <1>2 DEF Names

LEMMA ReportAlike ==
  ASSUME NEW p, NEW q, IsParser(p), IsParser(q), SameMap(p, q), SameFields(p, q)
  PROVE  /\ Fits(p) = Fits(q)
         /\ handle_report(p).temp = handle_report(q).temp
<1>1. ReportsOf(p) = ReportsOf(q)
  BY DEF ReportsOf, SameFields, Names
<1>2. Collected(p) = Collected(q)
  BY DEF SameMap, Collected
<1>3. Fits(p) = Fits(q)
  BY <1>1, <1>2 DEF Fits
<1>4. p.usagePage = q.usagePage /\ p.usage = q.usage
  BY DEF SameFields, Names
<1>5. DOMAIN p = Names /\ DOMAIN q = Names
  BY DEF IsParser
<1> QED
  BY <1>1, <1>2, <1>3, <1>4, <1>5 DEF handle_report, Collected, Fits, Names

Twins(p, q) == IsParser(p) /\ IsParser(q) /\ SameFields(p, q) /\ SameMap(p, q)
Alike(p, q) == IsParser(p) /\ IsParser(q) /\ Agree(p, q)

LEMMA TwinsAreAlike ==
  ASSUME NEW p, NEW q, Twins(p, q)
  PROVE  Alike(p, q)
BY DEF Twins, Alike, Agree, SameFields, Names

LEMMA StoppedAreAlike ==
  ASSUME NEW p, NEW q, IsParser(p), IsParser(q), p.ok = q.ok, ~p.ok
  PROVE  Alike(p, q)
BY DEF Alike, Agree

LEMMA SetField ==
  ASSUME NEW p, NEW q, Twins(p, q), NEW n \in Names \ {"temp", "newMap", "step", "ok"}, NEW v
  PROVE  LET r == [p EXCEPT ![n] = v]
             s == [q EXCEPT ![n] = v]
         IN Twins(r, s) /\ r.ok = p.ok /\ r.step = p.step
BY DEF Twins, IsParser, SameFields, SameMap, Names

LEMMA SetStep ==
  ASSUME NEW p, NEW q, Alike(p, q), p.ok => SameMap(p, q)
  PROVE  Alike([p EXCEPT !.step = "USAGE_PAGE"], [q EXCEPT !.step = "USAGE_PAGE"])
<1> DEFINE r == [p EXCEPT !.step = "USAGE_PAGE"]
           s == [q EXCEPT !.step = "USAGE_PAGE"]
<1>1. IsParser(r) /\ IsParser(s)
  BY DEF Alike, IsParser, Names, Steps
<1>2. /\ r.ok = p.ok /\ s.ok = q.ok /\ r.step = "USAGE_PAGE" /\ s.step = "USAGE_PAGE"
      /\ r.temp = p.temp /\ s.temp = q.temp /\ r.newMap = p.newMap /\ s.newMap = q.newMap
  BY DEF Alike, IsParser, Names
<1> QED
  BY <1>1, <1>2 DEF Alike, Agree, SameMap

LEMMA ReportTwins ==
  ASSUME NEW p, NEW q, Twins(p, q)
  PROVE  LET r == handle_report(p)
             s == handle_report(q)
         IN /\ Alike(r, s)
            /\ r.ok = s.ok
            /\ r.ok => Twins(r, s) /\ r.step = p.step
<1> DEFINE r == handle_report(p)
           s == handle_report(q)
<1>0. IsParser(p) /\ IsParser(q) /\ SameFields(p, q) /\ SameMap(p, q)
  BY DEF Twins
<1>1. Fits(p) = Fits(q) /\ r.temp = s.temp
  BY <1>0, ReportAlike
<1>2. /\ r = [n \in Names |-> r[n]]
      /\ \A n \in Names \ {"temp", "newMap", "step", "ok"} : r[n] = p[n]
      /\ r.step = IF Fits(p) THEN p.step ELSE "USAGE_PAGE"
      /\ r.newMap = (p.newMap /\ ~Fits(p))
      /\ r.ok = Fits(p)
  BY <1>0, ReportFields
<1>3. /\ s = [n \in Names |-> s[n]]
      /\ \A n \in Names \ {"temp", "newMap", "step", "ok"} : s[n] = q[n]
      /\ s.step = IF Fits(q) THEN q.step ELSE "USAGE_PAGE"
      /\ s.newMap = (q.newMap /\ ~Fits(q))
      /\ s.ok = Fits(q)
  BY <1>0, ReportFields
<1> HIDE DEF r, s
<1>4. IsParser(r) /\ IsParser(s)
  BY <1>0, <1>2, <1>3 DEF IsParser, Steps
<1>5. p.step = q.step /\ p.newMap = q.newMap
  BY <1>0 DEF SameFields, Names
<1>6. r.step = s.step /\ r.newMap = s.newMap /\ r.ok = s.ok
  BY <1>1, <1>2, <1>3, <1>5
<1>7. \A n \in Names \ {"temp", "newMap", "step", "ok"} : r[n] = s[n]
  BY <1>0, <1>2, <1>3 DEF SameFields
<1>8. SameFields(r, s)
  BY <1>6, <1>7 DEF SameFields, Names
<1>9. CASE r.ok
  <2>1. Fits(p) /\ Fits(q) /\ ~r.newMap /\ ~s.newMap
    BY <1>9, <1>1, <1>2, <1>3
  <2>2. SameMap(r, s)
    BY <1>1, <1>6, <2>1 DEF SameMap
  <2>3. Twins(r, s)
    BY <1>4, <1>8, <2>2 DEF Twins
  <2> QED
    BY <1>2, <1>6, <2>1, <2>3, TwinsAreAlike DEF r, s
<1>10. CASE ~r.ok
  BY <1>10, <1>4, <1>6, StoppedAreAlike DEF r, s
<1> QED
  BY <1>9, <1>10

LEMMA ChangeIdAlike ==
  ASSUME NEW p, NEW q, Twins(p, q), p.ok, NEW v
  PROVE  Alike(ChangeId(p, v), ChangeId(q, v))
<1> DEFINE C(x) == x.id # 0 /\ x.id # v /\ WholeBytes(x)
           N(x) == [handle_report(x) EXCEPT !.len = [t \in Types |-> 0],
                                            !.usage = x.innerUsage,
                                            !.usagePage = x.innerUsagePage]
           next(x) == IF C(x) THEN N(x) ELSE x
<1>1. C(p) = C(q) /\ p.innerUsage = q.innerUsage /\ p.innerUsagePage = q.innerUsagePage /\ p.ok = q.ok
  BY DEF Twins, SameFields, Names, WholeBytes
<1>2. \A x : ChangeId(x, v) = IF next(x).ok THEN [next(x) EXCEPT !.id = W8(v)]
                                           ELSE handle_report(x)
  BY DEF ChangeId
<1>3. CASE ~C(p)
  <2>1. ChangeId(p, v) = [p EXCEPT !["id"] = W8(v)] /\ ChangeId(q, v) = [q EXCEPT !["id"] = W8(v)]
    BY <1>1, <1>2, <1>3
  <2>2. "id" \in Names \ {"temp", "newMap", "step", "ok"}
    BY DEF Names
  <2>3. Twins([p EXCEPT !["id"] = W8(v)], [q EXCEPT !["id"] = W8(v)])
    BY <2>2, SetField
  <2> QED
    BY <2>1, <2>3, TwinsAreAlike
<1>4. CASE C(p)
  <2> DEFINE r == handle_report(p)
             s == handle_report(q)
  <2>1. Alike(r, s) /\ r.ok = s.ok /\ (r.ok => Twins(r, s))
    BY ReportTwins
  <2>2. next(p) = N(p) /\ next(q) = N(q)
    BY <1>1, <1>4
  <2> HIDE DEF r, s
  <2>3. DOMAIN r = Names /\ DOMAIN s = Names
    BY <2>1 DEF Alike, IsParser
  <2>4. N(p).ok = r.ok /\ N(q).ok = s.ok
    BY <2>3 DEF Names, r, s
  <2>5. CASE ~r.ok
    BY <1>2, <2>1, <2>2, <2>4, <2>5 DEF r, s
  <2>6. CASE r.ok
    <3> DEFINE L(x) == [x EXCEPT !["len"] = [t \in Types |-> 0]]
               U(x) == [x EXCEPT !["usage"] = p.innerUsage]
               G(x) == [x EXCEPT !["usagePage"] = p.innerUsagePage]
               I(x) == [x EXCEPT !["id"] = W8(v)]
    <3>1. {"len", "usage", "usagePage", "id"} \subseteq Names \ {"temp", "newMap", "step", "ok"}
      BY DEF Names
    <3>2. Twins(L(r), L(s))
      BY <2>1, <2>6, <3>1, SetField
    <3> DEFINE r1 == L(r)  s1 == L(s)
    <3> HIDE DEF r1, s1
    <3>3. Twins(U(r1), U(s1))
      BY <3>2, <3>1, SetField DEF r1, s1
    <3> DEFINE r2 == U(r1)  s2 == U(s1)
    <3> HIDE DEF r2, s2
    <3>4. Twins(G(r2), G(s2))
      BY <3>3, <3>1, SetField DEF r2, s2
    <3> DEFINE r3 == G(r2)  s3 == G(s2)
    <3> HIDE DEF r3, s3
    <3>5. Twins(I(r3), I(s3))
      BY <3>4, <3>1, SetField DEF r3, s3
    <3>6. N(p) = r3 /\ N(q) = s3
      BY <1>1 DEF r, s, r1, s1, r2, s2, r3, s3
    <3>7. ChangeId(p, v) = I(r3) /\ ChangeId(q, v) = I(s3)
      BY <1>2, <2>1, <2>2, <2>4, <2>6, <3>6
    <3> QED
      BY <3>5, <3>7, TwinsAreAlike
  <2> QED
    BY <2>5, <2>6
<1> QED
  BY <1>3, <1>4

LEMMA EndCollectionAlike ==
  ASSUME NEW p, NEW q, Twins(p, q), p.ok
  PROVE  Alike(EndCollection(p), EndCollection(q))
<1> DEFINE next(x) == [x EXCEPT !["depth"] = W8(x.depth + 255)]
           a == next(p)
           b == next(q)
<1>1. p.depth = q.depth /\ WholeBytes(p) = WholeBytes(q)
  BY DEF Twins, SameFields, Names, WholeBytes
<1>2. Twins(a, b)
  <2>1. "depth" \in Names \ {"temp", "newMap", "step", "ok"}
    BY DEF Names
  <2>2. b = [q EXCEPT !["depth"] = W8(p.depth + 255)]
    BY <1>1
  <2> QED
    BY <2>1, <2>2, SetField
<1>3. \A x : EndCollection(x) =
        IF next(x).depth # 0 THEN next(x)
        ELSE IF WholeBytes(x) THEN [handle_report(next(x)) EXCEPT !.step = "USAGE_PAGE"]
        ELSE [next(x) EXCEPT !.step = "USAGE_PAGE"]
  BY DEF EndCollection
<1>4. /\ EndCollection(p) = IF a.depth # 0 THEN a
                            ELSE IF WholeBytes(p) THEN [handle_report(a) EXCEPT !.step = "USAGE_PAGE"]
                            ELSE [a EXCEPT !.step = "USAGE_PAGE"]
      /\ EndCollection(q) = IF b.depth # 0 THEN b
                            ELSE IF WholeBytes(q) THEN [handle_report(b) EXCEPT !.step = "USAGE_PAGE"]
                            ELSE [b EXCEPT !.step = "USAGE_PAGE"]
  BY <1>3
<1> HIDE DEF a, b
<1>5. a.depth = b.depth /\ SameMap(a, b) /\ Alike(a, b)
  BY <1>2, TwinsAreAlike DEF Twins, SameFields, Names
<1>6. /\ Alike(handle_report(a), handle_report(b))
      /\ handle_report(a).ok => SameMap(handle_report(a), handle_report(b))
  BY <1>2, ReportTwins DEF Twins
<1>7. CASE a.depth # 0
  BY <1>4, <1>5, <1>7
<1>8. CASE a.depth = 0 /\ WholeBytes(p)
  BY <1>1, <1>4, <1>5, <1>6, <1>8, SetStep
<1>9. CASE a.depth = 0 /\ ~WholeBytes(p)
  BY <1>1, <1>4, <1>5, <1>9, SetStep
<1> QED
  BY <1>7, <1>8, <1>9

LEMMA InCollectionAlike ==
  ASSUME NEW p, NEW q, Twins(p, q), p.ok, NEW item
  PROVE  Alike(InCollection(p, item), InCollection(q, item))
<1> DEFINE Set(x, n, v) == [x EXCEPT ![n] = v]
           Free == Names \ {"temp", "newMap", "step", "ok"}
           cmd == item.cmd
           value == item.value
<1>0. \A n \in Names \ {"temp"} : p[n] = q[n]
  BY DEF Twins, SameFields
<1>1. \A n \in Free : \A v : Alike(Set(p, n, v), Set(q, n, v))
  <2> TAKE n \in Free
  <2> TAKE v
  <2>1. Twins(Set(p, n, v), Set(q, n, v))
    BY SetField
  <2> QED
    BY <2>1, TwinsAreAlike
<1>2. Alike(p, q)
  BY TwinsAreAlike
<1>3. {"innerUsagePage", "innerUsage", "size", "count", "len", "depth"} \subseteq Free
  BY DEF Names
<1> HIDE DEF Set, Free
<1>4. CASE cmd = "REPORT_ID"
  BY <1>4, ChangeIdAlike DEF InCollection, Types
<1>5. CASE cmd = "USAGE_PAGE"
  <2>1. /\ InCollection(p, item) = Set(p, "innerUsagePage", W16(value))
        /\ InCollection(q, item) = Set(q, "innerUsagePage", W16(value))
    BY <1>5 DEF InCollection, Set, Types
  <2> QED
    BY <1>1, <1>3, <2>1
<1>6. CASE cmd = "USAGE"
  <2>1. /\ InCollection(p, item) = Set(p, "innerUsage", W16(value))
        /\ InCollection(q, item) = Set(q, "innerUsage", W16(value))
    BY <1>6 DEF InCollection, Set, Types
  <2> QED
    BY <1>1, <1>3, <2>1
<1>7. CASE cmd = "REPORT_SIZE"
  <2>1. /\ InCollection(p, item) = Set(p, "size", W16(value))
        /\ InCollection(q, item) = Set(q, "size", W16(value))
    BY <1>7 DEF InCollection, Set, Types
  <2> QED
    BY <1>1, <1>3, <2>1
<1>8. CASE cmd = "REPORT_COUNT"
  <2>1. /\ InCollection(p, item) = Set(p, "count", W16(value))
        /\ InCollection(q, item) = Set(q, "count", W16(value))
    BY <1>8 DEF InCollection, Set, Types
  <2> QED
    BY <1>1, <1>3, <2>1
<1>9. CASE cmd \in Types
  <2> DEFINE v == [p.len EXCEPT ![cmd] = W16(p.len[cmd] + p.size * p.count)]
  <2>1. p.len = q.len /\ p.size = q.size /\ p.count = q.count
    BY <1>0 DEF Names
  <2>2. AddMain(p, cmd) = Set(p, "len", v)
    BY DEF AddMain, Set
  <2>3. AddMain(q, cmd) = Set(q, "len", v)
    BY <2>1 DEF AddMain, Set
  <2>4. InCollection(p, item) = AddMain(p, cmd) /\ InCollection(q, item) = AddMain(q, cmd)
    BY <1>9 DEF InCollection, Types
  <2> QED
    BY <1>1, <1>3, <2>2, <2>3, <2>4
<1>10. CASE cmd = "COLLECTION"
  <2>1. p.depth = q.depth
    BY <1>0 DEF Names
  <2>2. /\ InCollection(p, item) = Set(p, "depth", W8(p.depth + 1))
        /\ InCollection(q, item) = Set(q, "depth", W8(p.depth + 1))
    BY <1>10, <2>1 DEF InCollection, Set, Types
  <2> QED
    BY <1>1, <1>3, <2>2
<1>11. CASE cmd = "END_COLLECTION"
  BY <1>11, EndCollectionAlike DEF InCollection, Types
<1>12. CASE cmd \notin {"REPORT_ID", "USAGE_PAGE", "USAGE", "REPORT_SIZE", "REPORT_COUNT",
                         "COLLECTION", "END_COLLECTION"} \cup Types
  BY <1>2, <1>12 DEF InCollection
<1> QED
  BY <1>4, <1>5, <1>6, <1>7, <1>8, <1>9, <1>10, <1>11, <1>12

LEMMA RejectAlike ==
  ASSUME NEW p, NEW q, IsParser(p), IsParser(q)
  PROVE  Alike(Reject(p), Reject(q))
BY DEF Alike, Agree, Reject, IsParser, Names, Steps

\* One item leaves two parsers alike that were alike before.
LEMMA ItemAlike ==
  ASSUME NEW p, NEW q, Alike(p, q), p.ok, NEW item
  PROVE  Alike(handle_cmd(p, item), handle_cmd(q, item))
<1>0. IsParser(p) /\ IsParser(q) /\ p.step = q.step /\ p.ok = q.ok /\ SameMap(p, q)
  BY DEF Alike, Agree
<1>1. CASE p.step = "USAGE_PAGE"
  <2>1. CASE item.cmd = "USAGE_PAGE"
    <3> DEFINE r == BeginCollection(p, item.value)
               s == BeginCollection(q, item.value)
    <3>1. handle_cmd(p, item) = r /\ handle_cmd(q, item) = s
      BY <1>0, <1>1, <2>1 DEF handle_cmd
    <3>2. IsParser(r) /\ IsParser(s)
      BY DEF BeginCollection, PowerOn, IsParser, Names, Steps
    <3>3. \A n \in Names \ {"temp", "depth", "newMap"} : r[n] = s[n]
      BY DEF BeginCollection, PowerOn, Names
    <3>4. /\ r.temp = p.temp /\ s.temp = q.temp /\ r.newMap = p.newMap /\ s.newMap = q.newMap
          /\ r.step = "USAGE" /\ s.step = "USAGE" /\ r.ok = TRUE /\ s.ok = TRUE
      BY DEF BeginCollection, PowerOn
    <3> QED
      BY <1>0, <3>1, <3>2, <3>3, <3>4 DEF Alike, Agree, SameMap, Names
  <2> QED
    BY <1>0, <1>1, <2>1, RejectAlike DEF handle_cmd
<1>2. CASE p.step = "USAGE"
  <2>1. CASE item.cmd = "USAGE"
    <3> DEFINE r == [p EXCEPT !.usage = W16(item.value), !.step = "COLLECTION"]
               s == [q EXCEPT !.usage = W16(item.value), !.step = "COLLECTION"]
    <3>1. handle_cmd(p, item) = r /\ handle_cmd(q, item) = s
      BY <1>0, <1>2, <2>1 DEF handle_cmd
    <3>2. IsParser(r) /\ IsParser(s)
      BY <1>0 DEF IsParser, Names, Steps
    <3>3. \A n \in Names \ {"temp", "depth"} : r[n] = s[n]
      BY <1>0, <1>2 DEF Alike, Agree, IsParser, Names
    <3>4. /\ r.temp = p.temp /\ s.temp = q.temp /\ r.newMap = p.newMap /\ s.newMap = q.newMap
          /\ r.step = "COLLECTION"
      BY <1>0 DEF IsParser, Names
    <3>5. SameMap(r, s)
      BY <1>0, <3>4 DEF SameMap
    <3>6. r.ok = s.ok /\ r.step = s.step
      BY <3>3 DEF Names
    <3> HIDE DEF r, s
    <3>7. Agree(r, s)
      BY <3>3, <3>4, <3>5, <3>6 DEF Agree
    <3> QED
      BY <3>1, <3>2, <3>7 DEF Alike
  <2> QED
    BY <1>0, <1>2, <2>1, RejectAlike DEF handle_cmd
<1>3. CASE p.step = "COLLECTION"
  <2>1. CASE item.cmd = "COLLECTION" /\ item.value = 1
    <3> DEFINE r == [p EXCEPT !.id = 0, !.depth = 1, !.step = "END_COLLECTION"]
               s == [q EXCEPT !.id = 0, !.depth = 1, !.step = "END_COLLECTION"]
    <3>1. handle_cmd(p, item) = r /\ handle_cmd(q, item) = s
      BY <1>0, <1>3, <2>1 DEF handle_cmd
    <3>2. IsParser(r) /\ IsParser(s)
      BY <1>0 DEF IsParser, Names, Steps
    <3>3. SameFields(r, s)
      BY <1>0, <1>3 DEF Alike, Agree, IsParser, SameFields, Names
    <3>4. r.temp = p.temp /\ s.temp = q.temp /\ r.newMap = p.newMap /\ s.newMap = q.newMap
      BY <1>0 DEF IsParser, Names
    <3>5. Twins(r, s)
      BY <1>0, <3>2, <3>3, <3>4 DEF Twins, SameMap
    <3> QED
      BY <3>1, <3>5, TwinsAreAlike
  <2> QED
    BY <1>0, <1>3, <2>1, RejectAlike DEF handle_cmd
<1>4. CASE p.step = "END_COLLECTION"
  <2>1. Twins(p, q)
    BY <1>0, <1>4 DEF Alike, Agree, Twins
  <2>2. handle_cmd(p, item) = InCollection(p, item) /\ handle_cmd(q, item) = InCollection(q, item)
    BY <1>0, <1>4 DEF handle_cmd
  <2> QED
    BY <2>1, <2>2, InCollectionAlike
<1> QED
  BY <1>0, <1>1, <1>2, <1>3, <1>4 DEF IsParser, Steps

LEMMA ItemIsParser ==
  ASSUME NEW p, IsParser(p), p.ok, NEW item
  PROVE  IsParser(handle_cmd(p, item))
<1> DEFINE q == IF p.newMap THEN [p EXCEPT !.temp = NULL] ELSE p
<1>1. IsParser(q) /\ \A n \in Names \ {"temp"} : q[n] = p[n]
  BY DEF IsParser, Names, Steps
<1>2. q.temp = IF p.newMap THEN NULL ELSE p.temp
  BY DEF IsParser, Names
<1> HIDE DEF q
<1>3. q.newMap = p.newMap /\ q.step = p.step /\ q.ok = p.ok
  BY <1>1 DEF Names
<1>4. Alike(p, q)
  BY <1>1, <1>2, <1>3 DEF Alike, Agree, SameMap, SameFields
<1> QED
  BY <1>4, ItemAlike DEF Alike

---------------------------------------------------------------------------
(* The parser in hand beside one just powered on that reads the same map. *)

Shadow == ParserAfter(BeginMap(PowerOn), Map.items)

TraceInv ==
  /\ IsParser(parser)
  /\ pc \in {"idle", "service", "parsing", "merging"}
  /\ pc # "idle" => device \in Devices /\ service \in Nat \ {0}
  /\ pc \in {"parsing", "merging"} => Map \in ReportMap
  /\ pc = "parsing" => /\ pos \in 0..Len(Map.items)
                       /\ parser.ok
                       /\ entry.step = "USAGE_PAGE" => Alike(parser, Shadow[pos])
  /\ EarlierMapsLeaveNoTrace

LEMMA LengthType ==
  ASSUME NEW map \in ReportMap
  PROVE  map.items \in Seq(MapItem) /\ Len(map.items) \in Nat
BY DEF ReportMap

LEMMA PowerOnIsParser == IsParser(PowerOn)
BY DEF IsParser, PowerOn, Names, Steps

LEMMA BeginAlike ==
  ASSUME NEW p, IsParser(p)
  PROVE  /\ IsParser(BeginMap(p)) /\ BeginMap(p).ok
         /\ p.step = "USAGE_PAGE" => Alike(BeginMap(p), BeginMap(PowerOn))
<1> DEFINE r == BeginMap(p)
           s == BeginMap(PowerOn)
<1>1. /\ IsParser(r) /\ r.ok = TRUE /\ r.newMap = TRUE /\ r.step = p.step
  BY DEF BeginMap, IsParser, Names, Steps
<1>2. /\ IsParser(s) /\ s.ok = TRUE /\ s.newMap = TRUE /\ s.step = "USAGE_PAGE" /\ s.temp = NULL
  BY DEF BeginMap, PowerOn, IsParser, Names, Steps
<1> HIDE DEF r, s
<1>3. p.step = "USAGE_PAGE" => Alike(r, s)
  BY <1>1, <1>2 DEF Alike, Agree, SameMap
<1> QED
  BY <1>1, <1>3 DEF r, s

LEMMA TraceStart == Init => TraceInv
BY PowerOnIsParser DEF Init, TraceInv, EarlierMapsLeaveNoTrace

\* A map whose parse stops early is rejected by the other parser too.
LEMMA Rejected ==
  ASSUME NEW map \in ReportMap, NEW k \in 0..Len(map.items),
         ~ParserAfter(BeginMap(PowerOn), map.items)[k].ok
  PROVE  parse(PowerOn, map) = NULL
BY LengthType, StoppedStays DEF parse, Accepts, EndOfMap

LEMMA TraceStep == TraceInv /\ [Next]_vars => TraceInv'
<1> SUFFICES ASSUME TraceInv, [Next]_vars PROVE TraceInv'
  OBVIOUS
<1>1. ASSUME NEW d \in Devices, Open(d) PROVE TraceInv'
  BY <1>1 DEF TraceInv, Open, EarlierMapsLeaveNoTrace
<1>2. CASE NextService
  <2>1. CASE pc' = "idle" \/ pc' = "service"
    BY <1>2, <2>1 DEF TraceInv, NextService, EarlierMapsLeaveNoTrace
  <2>2. CASE /\ service <= Len(device.maps)
             /\ Map # NULL
             /\ parser' = BeginMap(parser)
             /\ entry' = parser
             /\ pos' = 0
             /\ pc' = "parsing"
             /\ UNCHANGED service
    <3>1. pc = "service" /\ UNCHANGED device /\ device \in Devices /\ service \in Nat \ {0}
      BY <1>2 DEF TraceInv, NextService
    <3>2. device.maps \in Seq(ReportMap \cup {NULL})
      BY <3>1, DevicesAssumption
    <3>3. service \in 1..Len(device.maps)
      BY <2>2, <3>1, <3>2
    <3>4. Map \in ReportMap \cup {NULL}
      BY <3>2, <3>3 DEF Map
    <3>5. Map' = Map /\ Map \in ReportMap
      BY <2>2, <3>1, <3>4 DEF Map
    <3>6. Shadow'[0] = BeginMap(PowerOn)
      BY <3>5, LengthType, AfterStep DEF Shadow
    <3>7. /\ IsParser(parser') /\ parser'.ok
          /\ entry'.step = "USAGE_PAGE" => Alike(parser', Shadow'[0])
      BY <2>2, <3>6, BeginAlike DEF TraceInv
    <3> QED
      BY <2>2, <3>1, <3>5, <3>7, LengthType DEF TraceInv, EarlierMapsLeaveNoTrace
  <2> QED
    BY <1>2, <2>1, <2>2 DEF NextService
<1>3. CASE ReadItem
  <2>1. /\ pc = "parsing" /\ Map \in ReportMap /\ Map' = Map /\ IsParser(parser) /\ parser.ok
        /\ pos \in 0..Len(Map.items) /\ pos < Len(Map.items)
        /\ device \in Devices /\ service \in Nat \ {0}
        /\ parser' = handle_cmd(parser, Map.items[pos + 1]) /\ pos' = pos + 1
        /\ UNCHANGED <<device, service, entry>>
    BY <1>3 DEF TraceInv, ReadItem, Map
  <2>2. Len(Map.items) \in Nat /\ pos + 1 \in 1..Len(Map.items) /\ (pos + 1) - 1 = pos
    BY <2>1, LengthType
  <2>3. IsParser(parser')
    BY <2>1, ItemIsParser
  <2>4. Shadow' = Shadow
    BY <2>1 DEF Shadow
  <2>5. entry.step = "USAGE_PAGE" => Alike(parser', Shadow[pos + 1])
    <3>1. Shadow[pos + 1] = Read(Shadow[pos], Map.items[pos + 1])
      BY <2>2, AfterStep DEF Shadow
    <3>2. entry.step = "USAGE_PAGE" => Alike(parser, Shadow[pos]) /\ Shadow[pos].ok
      BY <2>1 DEF TraceInv, Alike, Agree
    <3> QED
      BY <2>1, <3>1, <3>2, ItemAlike DEF Read
  <2>6. CASE parser'.ok /\ UNCHANGED <<result, pc>>
    BY <2>1, <2>2, <2>3, <2>4, <2>5, <2>6 DEF TraceInv, EarlierMapsLeaveNoTrace
  <2>7. CASE ~parser'.ok /\ EndParse(NULL)
    <3>1. entry.step = "USAGE_PAGE" => ~Shadow[pos + 1].ok
      BY <2>5, <2>7 DEF Alike, Agree
    <3>2. entry.step = "USAGE_PAGE" => parse(PowerOn, Map) = NULL
      <4>1. pos + 1 \in 0..Len(Map.items)
        BY <2>2
      <4> QED
        BY <2>1, <3>1, <4>1, Rejected DEF Shadow
    <3>3. EarlierMapsLeaveNoTrace'
      BY <2>1, <2>7, <3>2 DEF EarlierMapsLeaveNoTrace, EndParse
    <3> QED
      BY <2>1, <2>3, <2>7, <3>3 DEF TraceInv, EndParse
  <2> QED
    BY <1>3, <2>6, <2>7 DEF ReadItem
<1>4. CASE EndOfData
  <2>1. /\ pc = "parsing" /\ Map \in ReportMap /\ Map' = Map /\ IsParser(parser) /\ parser.ok
        /\ pos = Len(Map.items) /\ device \in Devices /\ service \in Nat \ {0}
        /\ UNCHANGED <<device, service, entry>>
        /\ pc' = "merging"
    BY <1>4 DEF TraceInv, EndOfData, EndParse, Map
  <2>2. EndOfMap(PowerOn, Map) = Shadow[pos]
    BY <2>1 DEF EndOfMap, Shadow
  <2>3. entry.step = "USAGE_PAGE" => /\ Shadow[pos].ok
                                    /\ \/ Shadow[pos].temp = NULL
                                       \/ Shadow[pos].temp = parser.temp
    BY <2>1 DEF TraceInv, Alike, Agree, SameMap
  <2>4. CASE ~Map.whole /\ EndParse(NULL) /\ UNCHANGED parser
    BY <2>1, <2>4 DEF TraceInv, EarlierMapsLeaveNoTrace, EndParse, parse, Accepts
  <2>5. CASE /\ Map.whole /\ parser.temp # NULL
             /\ EndParse(Handed(parser.temp))
             /\ parser' = TakeMap(parser)
    <3>1. IsParser(parser')
      BY <2>1, <2>5 DEF IsParser, TakeMap, Names, Steps
    <3>2. entry.step = "USAGE_PAGE" => \/ Restarts(PowerOn, Map)
                                      \/ parse(PowerOn, Map) = Handed(parser.temp)
      BY <2>2, <2>3, <2>5 DEF Restarts, parse, Accepts
    <3>3. EarlierMapsLeaveNoTrace'
      BY <2>1, <2>5, <3>2 DEF EarlierMapsLeaveNoTrace, EndParse
    <3> QED
      BY <2>1, <3>1, <3>3 DEF TraceInv
  <2> QED
    BY <1>4, <2>4, <2>5 DEF EndOfData
<1>5. CASE Restart
  BY <1>5, PowerOnIsParser DEF TraceInv, Restart, EarlierMapsLeaveNoTrace
<1>6. CASE MergeMap
  BY <1>6 DEF TraceInv, MergeMap, EarlierMapsLeaveNoTrace
<1>7. CASE UNCHANGED vars
  BY <1>7 DEF TraceInv, vars, EarlierMapsLeaveNoTrace, Map, Shadow
<1> QED
  BY <1>1, <1>2, <1>3, <1>4, <1>5, <1>6, <1>7 DEF Next

(* Earlier maps leave no trace, for any peripherals and any descriptors:  *)
(* what a map is read as is what a parser just powered on reads in it,    *)
(* unless a map before it ended inside a collection or it lists nothing.  *)
THEOREM EarlierMapsLeaveNoTraceAlways == Spec => []EarlierMapsLeaveNoTrace
<1>1. TraceInv => EarlierMapsLeaveNoTrace
  BY DEF TraceInv
<1> QED
  BY <1>1, TraceStart, TraceStep, PTL DEF Spec

---------------------------------------------------------------------------
(* The last of a set of positions. *)

LEMMA MaxExists ==
  ASSUME NEW n \in Nat, NEW S \in SUBSET (0..n), S # {}
  PROVE  \E m \in S : \A y \in S : m >= y
<1> DEFINE Has == {m \in Nat : \A X \in SUBSET (0..m) :
                                 X # {} => \E x \in X : \A y \in X : x >= y}
<1>1. 0 \in Has
  <2> SUFFICES ASSUME NEW X \in SUBSET (0..0), X # {}
               PROVE  \E x \in X : \A y \in X : x >= y
    OBVIOUS
  <2>1. \A x \in X : x = 0
    OBVIOUS
  <2>2. \E x \in X : x = 0
    BY <2>1
  <2> QED
    BY <2>1, <2>2
<1>2. ASSUME NEW m \in Has PROVE m + 1 \in Has
  <2> SUFFICES ASSUME NEW X \in SUBSET (0..m + 1), X # {}
               PROVE  \E x \in X : \A y \in X : x >= y
    OBVIOUS
  <2>1. CASE m + 1 \in X
    BY <2>1
  <2>2. CASE m + 1 \notin X
    <3>1. X \in SUBSET (0..m)
      BY <2>2
    <3> QED
      BY <1>2, <3>1
  <2> QED
    BY <2>1, <2>2
<1> HIDE DEF Has
<1>3. Has \in SUBSET Nat
  BY DEF Has
<1>4. n \in Has
  BY <1>1, <1>2, <1>3, Induction
<1> QED
  BY <1>4 DEF Has

LEMMA MaxIs ==
  ASSUME NEW S \in SUBSET Int, NEW m \in S, \A y \in S : m >= y
  PROVE  Max(S) = m
<1>1. PICK x \in S : x = Max(S) /\ \A y \in S : x >= y
  BY DEF Max
<1>2. x >= m /\ m >= x /\ x \in Int /\ m \in Int
  BY <1>1
<1> QED
  BY <1>1, <1>2

LastBefore(S, k) == Max({m \in S : m < k})

LEMMA LastBeforeIs ==
  ASSUME NEW S \in SUBSET Nat, 0 \in S, NEW k \in Nat \ {0}
  PROVE  /\ LastBefore(S, k) \in S /\ LastBefore(S, k) \in Nat
         /\ LastBefore(S, k) < k
         /\ \A m \in S : m < k => m <= LastBefore(S, k)
<1> DEFINE T == {m \in S : m < k}
<1>1. 0 \in T /\ \A m \in T : m \in 0..k
  OBVIOUS
<1> HIDE DEF T
<1>2. PICK m \in T : \A y \in T : m >= y
  <2>1. T \in SUBSET (0..k) /\ T # {}
    BY <1>1
  <2> QED
    BY <2>1, MaxExists
<1>3. T \in SUBSET Int
  BY <1>1
<1>4. Max(T) = m
  BY <1>2, <1>3, MaxIs
<1>5. LastBefore(S, k) = m
  BY <1>4 DEF LastBefore, T
<1> QED
  BY <1>2, <1>5 DEF T

LEMMA LastBeforeUnique ==
  ASSUME NEW S \in SUBSET Nat, NEW k \in Nat, NEW m \in S, m < k,
         \A i \in S : ~(m < i /\ i < k)
  PROVE  LastBefore(S, k) = m
<1> DEFINE T == {i \in S : i < k}
<1>1. m \in T /\ \A y \in T : m >= y
  OBVIOUS
<1>2. \A i \in T : i \in Int
  OBVIOUS
<1> HIDE DEF T
<1>3. Max(T) = m
  BY <1>1, <1>2, MaxIs
<1> QED
  BY <1>3 DEF LastBefore, T

LEMMA LastBeforeStep ==
  ASSUME NEW S \in SUBSET Nat, 0 \in S, NEW k \in Nat \ {0}
  PROVE  LastBefore(S, k + 1) = IF k \in S THEN k ELSE LastBefore(S, k)
<1>1. CASE k \in S
  <2>1. \A i \in S : ~(k < i /\ i < k + 1)
    OBVIOUS
  <2> QED
    BY <1>1, <2>1, LastBeforeUnique
<1>2. CASE k \notin S
  <2> DEFINE m == LastBefore(S, k)
  <2>1. m \in S /\ m \in Nat /\ m < k /\ \A i \in S : i < k => i <= m
    BY LastBeforeIs
  <2> HIDE DEF m
  <2>2. m < k + 1 /\ \A i \in S : ~(m < i /\ i < k + 1)
    BY <1>2, <2>1
  <2>3. LastBefore(S, k + 1) = m
    BY <2>1, <2>2, LastBeforeUnique
  <2> QED
    BY <1>2, <2>3 DEF m
<1> QED
  BY <1>1, <1>2

\* No member lies between m and k.
LEMMA LastBeforeSame ==
  ASSUME NEW S \in SUBSET Nat, 0 \in S, NEW k \in Nat \ {0}, NEW j \in Nat,
         LastBefore(S, k) < j, j <= k
  PROVE  LastBefore(S, j) = LastBefore(S, k)
<1> DEFINE m == LastBefore(S, k)
<1>1. m \in S /\ m \in Nat /\ \A i \in S : i < k => i <= m
  BY LastBeforeIs
<1> HIDE DEF m
<1>2. m < j /\ \A i \in S : ~(m < i /\ i < j)
  BY <1>1 DEF m
<1>3. LastBefore(S, j) = m
  BY <1>1, <1>2, LastBeforeUnique
<1> QED
  BY <1>3 DEF m

---------------------------------------------------------------------------
(* The nesting of collections. *)

LEMMA NestingStep ==
  ASSUME NEW items
  PROVE  /\ Nesting(items, 0) = 0
         /\ \A k \in Nat :
              /\ Nesting(items, k) \in Int
              /\ items[k + 1].cmd = "COLLECTION" =>
                   Nesting(items, k + 1) = Nesting(items, k) + 1
              /\ items[k + 1].cmd = "END_COLLECTION" =>
                   Nesting(items, k + 1) = Nesting(items, k) - 1
              /\ items[k + 1].cmd \notin {"COLLECTION", "END_COLLECTION"} =>
                   Nesting(items, k + 1) = Nesting(items, k)
<1> DEFINE At(k, cmd) == {i \in 1..k : items[i].cmd = cmd}
           Count(k, cmd) == Cardinality(At(k, cmd))
<1>1. \A k : Nesting(items, k) = Count(k, "COLLECTION") - Count(k, "END_COLLECTION")
  BY DEF Nesting
<1>2. ASSUME NEW k \in Nat, NEW cmd
      PROVE  /\ IsFiniteSet(At(k, cmd))
             /\ Count(k, cmd) \in Nat
             /\ Count(k + 1, cmd) = IF items[k + 1].cmd = cmd THEN Count(k, cmd) + 1
                                    ELSE Count(k, cmd)
  <2>1. IsFiniteSet(1..k)
    BY FS_Interval
  <2>2. At(k, cmd) \in SUBSET (1..k)
    OBVIOUS
  <2> DEFINE a == At(k, cmd)
             b == At(k + 1, cmd)
  <2>3. b = IF items[k + 1].cmd = cmd THEN a \cup {k + 1} ELSE a
    <3>1. 1..k + 1 = (1..k) \cup {k + 1}
      OBVIOUS
    <3> QED
      BY <3>1
  <2>4. k + 1 \notin a
    OBVIOUS
  <2> HIDE DEF a, b
  <2>5. IsFiniteSet(a)
    BY <2>1, <2>2, FS_Subset DEF a
  <2>6. Cardinality(a) \in Nat
    BY <2>5, FS_CardinalityType
  <2>7. Cardinality(a \cup {k + 1}) = Cardinality(a) + 1
    BY <2>4, <2>5, FS_AddElement
  <2>8. Cardinality(b) = IF items[k + 1].cmd = cmd THEN Cardinality(a) + 1 ELSE Cardinality(a)
    BY <2>3, <2>7
  <2> QED
    BY <2>5, <2>6, <2>8 DEF a, b
<1>3. At(0, "COLLECTION") = {} /\ At(0, "END_COLLECTION") = {}
  OBVIOUS
<1>4. Count(0, "COLLECTION") = 0 /\ Count(0, "END_COLLECTION") = 0
  BY <1>3, FS_EmptySet
<1> HIDE DEF Count, At
<1>5. Nesting(items, 0) = 0
  BY <1>1, <1>4
<1>6. ASSUME NEW k \in Nat
      PROVE  /\ Nesting(items, k) \in Int
             /\ items[k + 1].cmd = "COLLECTION" =>
                  Nesting(items, k + 1) = Nesting(items, k) + 1
             /\ items[k + 1].cmd = "END_COLLECTION" =>
                  Nesting(items, k + 1) = Nesting(items, k) - 1
             /\ items[k + 1].cmd \notin {"COLLECTION", "END_COLLECTION"} =>
                  Nesting(items, k + 1) = Nesting(items, k)
  BY <1>1, <1>2
<1> QED
  BY <1>5, <1>6

---------------------------------------------------------------------------
(* What the parser makes of a descriptor: what it declares, except that    *)
(* nothing outlives a collection, and that a further id of a collection is *)
(* of the class of the usage named last.                                   *)

OwnFields(items, k) ==
  {j \in Mains(items) : /\ Before(items, j) = Before(items, k)
                        /\ items[j].cmd = items[k].cmd
                        /\ OwnValue(items, j, "REPORT_ID") = OwnValue(items, k, "REPORT_ID")}

OwnBits(items, fields) ==
  LET Wide(j) == IF j \in fields
                  THEN OwnValue(items, j, "REPORT_SIZE") * OwnValue(items, j, "REPORT_COUNT") ELSE 0
      upto[j \in 0..Len(items)] == IF j = 0 THEN 0 ELSE upto[j - 1] + Wide(j)
  IN upto[Len(items)]

OwnClass(items, k) ==
  LET start == Before(items, k)
      changes == {i \in Changes(items) : start < i /\ i < k}
  IN IF changes = {} THEN ClassOf(items[start + 1].value, items[start + 2].value)
     ELSE ClassOf(OwnValue(items, Max(changes), "USAGE_PAGE"),
                  OwnValue(items, Max(changes), "USAGE"))

OwnDeclaredAt(items, k) ==
  Entries(OwnClass(items, k), OwnValue(items, k, "REPORT_ID"), items[k].cmd,
          OwnBits(items, OwnFields(items, k)))

OwnDeclared(items) == UNION {OwnDeclaredAt(items, k) : k \in Mains(items)}

OwnWellFormed(items) ==
  /\ WithinWidths(items)
  /\ Headed(items)
  /\ \A k \in Mains(items) :
       /\ OwnBits(items, OwnFields(items, k)) % 8 = 0
       /\ OwnBits(items, OwnFields(items, k)) < 65536
  /\ \A j, k \in Mains(items) :
       OwnValue(items, j, "REPORT_ID") = OwnValue(items, k, "REPORT_ID") =>
         /\ Before(items, j) = Before(items, k)
         /\ j < k => \A i \in j..k : items[i].cmd = "REPORT_ID" =>
                       items[i].value = OwnValue(items, k, "REPORT_ID")
  /\ \A k \in Mains(items) : OwnValue(items, k, "REPORT_ID") = 0 =>
       \A i \in DOMAIN items : items[i].cmd = "REPORT_ID" => Before(items, i) # Before(items, k)
  /\ Cardinality(OwnDeclared(items)) <= MaxReports

---------------------------------------------------------------------------
(* The collections of a well-formed descriptor. *)

Descriptor(items) == items \in Seq(MapItem) /\ OwnWellFormed(items)

\* Where the parser lists reports: at the ends of the collections, and where
\* one goes on to a further id.
Marks(items) == Ends(items) \cup Changes(items)
Mark(items, k) == LastBefore(Marks(items), k)

LEMMA Positions ==
  ASSUME NEW items, items \in Seq(MapItem)
  PROVE  /\ Len(items) \in Nat
         /\ DOMAIN items = 1..Len(items)
         /\ \A k \in 1..Len(items) : items[k].cmd \in STRING /\ items[k].value \in Nat
<1>1. \A k \in 1..Len(items) : items[k] \in MapItem
  OBVIOUS
<1> QED
  BY <1>1 DEF MapItem

LEMMA EndsAre ==
  ASSUME NEW items, Descriptor(items)
  PROVE  /\ Ends(items) \in SUBSET Nat
         /\ 0 \in Ends(items)
         /\ \A e \in Ends(items) : e <= Len(items)
         /\ Len(items) \in Ends(items) /\ Len(items) \in Nat \ {0}
         /\ items[Len(items)].cmd = "END_COLLECTION"
         /\ \A e \in Ends(items) : e # 0 => items[e].cmd = "END_COLLECTION"
         /\ \A k \in 1..Len(items) :
              k \in Ends(items) <=> items[k].cmd = "END_COLLECTION" /\ Nesting(items, k) = 0
<1>1. Len(items) \in Nat /\ DOMAIN items = 1..Len(items)
  BY Positions DEF Descriptor
<1>2. Len(items) \in Ends(items) \ {0}
  BY DEF Descriptor, OwnWellFormed, Headed
<1> QED
  BY <1>1, <1>2 DEF Ends

LEMMA MarksAre ==
  ASSUME NEW items, Descriptor(items)
  PROVE  /\ Marks(items) \in SUBSET Nat
         /\ 0 \in Marks(items)
         /\ \A m \in Marks(items) : m # 0 => m \in 1..Len(items) /\ items[m].cmd \in {"END_COLLECTION", "REPORT_ID"}
<1>1. Changes(items) \subseteq 1..Len(items) /\ \A m \in Changes(items) : items[m].cmd = "REPORT_ID"
  BY Positions DEF Changes, Descriptor
<1>2. \A m \in Ends(items) : m # 0 => m \in 1..Len(items)
  BY EndsAre
<1> QED
  BY <1>1, <1>2, EndsAre DEF Marks

LEMMA BeforeIs ==
  ASSUME NEW items, Descriptor(items), NEW k \in Nat \ {0}
  PROVE  /\ Before(items, k) = LastBefore(Ends(items), k)
         /\ Before(items, k) \in Ends(items) /\ Before(items, k) \in Nat
         /\ Before(items, k) < k
         /\ \A e \in Ends(items) : e < k => e <= Before(items, k)
         /\ Mark(items, k) \in Marks(items) /\ Mark(items, k) \in Nat
         /\ Mark(items, k) < k
         /\ \A m \in Marks(items) : m < k => m <= Mark(items, k)
         /\ Before(items, k) <= Mark(items, k)
<1>1. Before(items, k) = LastBefore(Ends(items), k)
  BY DEF Before, LastBefore
<1> DEFINE e == LastBefore(Ends(items), k)
           m == LastBefore(Marks(items), k)
<1>2. e \in Ends(items) /\ e \in Nat /\ e < k /\ \A i \in Ends(items) : i < k => i <= e
  BY EndsAre, LastBeforeIs
<1>3. m \in Marks(items) /\ m \in Nat /\ m < k /\ \A i \in Marks(items) : i < k => i <= m
  BY MarksAre, LastBeforeIs
<1>4. e \in Marks(items)
  BY <1>2 DEF Marks
<1> HIDE DEF e, m
<1>5. e <= m
  BY <1>2, <1>3, <1>4
<1> QED
  BY <1>1, <1>2, <1>3, <1>5 DEF Mark, e, m

\* A collection opens with its page, its usage and an application collection.
LEMMA Heads ==
  ASSUME NEW items, Descriptor(items), NEW e \in Ends(items), e # Len(items)
  PROVE  /\ e \in Nat /\ e + 3 < Len(items)
         /\ items[e + 1].cmd = "USAGE_PAGE"
         /\ items[e + 2].cmd = "USAGE"
         /\ items[e + 3].cmd = "COLLECTION" /\ items[e + 3].value = 1
         /\ Nesting(items, e + 3) = 1
<1> DEFINE N == Len(items)
<1>1. e \in Nat /\ N \in Nat /\ e < N /\ items[N].cmd = "END_COLLECTION"
  BY EndsAre
<1>2. /\ items[e + 1].cmd = "USAGE_PAGE"
      /\ items[e + 2].cmd = "USAGE"
      /\ items[e + 3].cmd = "COLLECTION" /\ items[e + 3].value = 1
  BY DEF Descriptor, OwnWellFormed, Headed
<1> HIDE DEF N
<1>3. e + 1 # N /\ e + 2 # N /\ e + 3 # N
  BY <1>1, <1>2
<1>4. e + 3 < N
  BY <1>1, <1>3
<1>5. Nesting(items, e) = 0
  <2>1. CASE e = 0
    BY <2>1, NestingStep
  <2>2. CASE e # 0
    <3>1. e \in 1..Len(items)
      BY <1>1, <2>2 DEF N
    <3> QED
      BY <3>1, EndsAre
  <2> QED
    BY <2>1, <2>2
<1>6. /\ e \in Nat /\ e + 1 \in Nat /\ e + 2 \in Nat
      /\ (e + 1) + 1 = e + 2 /\ (e + 2) + 1 = e + 3
  BY <1>1
<1>7. Nesting(items, e + 1) = 0
  BY <1>2, <1>5, <1>6, NestingStep
<1>8. Nesting(items, e + 2) = 0
  BY <1>2, <1>6, <1>7, NestingStep
<1>9. Nesting(items, e + 3) = 1
  BY <1>2, <1>6, <1>8, NestingStep
<1> QED
  BY <1>1, <1>2, <1>4, <1>9 DEF N

\* The items between two marks are in the same collection.
LEMMA NextPosition ==
  ASSUME NEW items, Descriptor(items), NEW k \in Nat \ {0}
  PROVE  /\ Before(items, k + 1) = IF k \in Ends(items) THEN k ELSE Before(items, k)
         /\ Mark(items, k + 1) = IF k \in Marks(items) THEN k ELSE Mark(items, k)
<1>1. k + 1 \in Nat \ {0}
  OBVIOUS
<1>2. /\ Before(items, k + 1) = LastBefore(Ends(items), k + 1)
      /\ Before(items, k) = LastBefore(Ends(items), k)
  BY <1>1, BeforeIs
<1>3. LastBefore(Ends(items), k + 1) = IF k \in Ends(items) THEN k ELSE LastBefore(Ends(items), k)
  BY EndsAre, LastBeforeStep
<1>4. LastBefore(Marks(items), k + 1) = IF k \in Marks(items) THEN k ELSE LastBefore(Marks(items), k)
  BY MarksAre, LastBeforeStep
<1> QED
  BY <1>2, <1>3, <1>4 DEF Mark

LEMMA SameCollection ==
  ASSUME NEW items, Descriptor(items), NEW k \in Nat \ {0}, NEW j \in Nat,
         Before(items, k) < j, j <= k
  PROVE  Before(items, j) = Before(items, k)
<1>1. j \in Nat \ {0} /\ Before(items, k) = LastBefore(Ends(items), k)
  BY BeforeIs
<1>2. Before(items, j) = LastBefore(Ends(items), j)
  BY <1>1, BeforeIs
<1> QED
  BY <1>1, <1>2, EndsAre, LastBeforeSame

---------------------------------------------------------------------------
(* The values that hold at an item. *)

LEMMA ValueIs ==
  ASSUME NEW items, Descriptor(items), NEW k \in 1..Len(items) + 1, NEW cmd
  PROVE  LET range == (Before(items, k) + 4)..(k - 1)
         IN /\ OwnValue(items, k, cmd) \in Nat
            /\ (\A i \in range : items[i].cmd # cmd) => OwnValue(items, k, cmd) = 0
            /\ \A i \in range :
                 items[i].cmd = cmd /\ (\A j \in i + 1..k - 1 : items[j].cmd # cmd) =>
                   OwnValue(items, k, cmd) = items[i].value
            /\ OwnValue(items, k, cmd) # 0 =>
                 \E i \in range : /\ items[i].cmd = cmd
                                 /\ OwnValue(items, k, cmd) = items[i].value
                                 /\ \A j \in i + 1..k - 1 : items[j].cmd # cmd
<1> DEFINE range == (Before(items, k) + 4)..(k - 1)
           at == {i \in range : items[i].cmd = cmd}
<1>1. k \in Nat \ {0} /\ Before(items, k) \in Nat /\ Len(items) \in Nat
  BY BeforeIs, EndsAre
<1>2. OwnValue(items, k, cmd) = IF at = {} THEN 0 ELSE items[Max(at)].value
  BY DEF OwnValue
<1>3. range \subseteq 0..k /\ range \subseteq 1..Len(items)
  BY <1>1
<1>4. at \subseteq range /\ \A i \in at : items[i].cmd = cmd
  OBVIOUS
<1>5. CASE at = {}
  <2>1. \A i \in range : items[i].cmd # cmd
    BY <1>5
  <2>2. OwnValue(items, k, cmd) = 0
    BY <1>2, <1>5
  <2> HIDE DEF range
  <2> QED
    BY <2>1, <2>2 DEF range
<1>6. CASE at # {}
  <2>0. \A i \in range : items[i].cmd = cmd => i \in at
    OBVIOUS
  <2> HIDE DEF at
  <2>1. at \in SUBSET (0..k)
    BY <1>3, <1>4
  <2>2. PICK m \in at : \A y \in at : m >= y
    BY <1>1, <1>6, <2>1, MaxExists
  <2>3. at \in SUBSET Int
    BY <1>3, <1>4
  <2>4. Max(at) = m
    BY <2>2, <2>3, MaxIs
  <2>5. OwnValue(items, k, cmd) = items[m].value
    BY <1>2, <1>6, <2>4
  <2>6. m \in range /\ items[m].cmd = cmd /\ m \in 1..Len(items)
    BY <1>3, <1>4, <2>2
  <2>7. items[m].value \in Nat
    BY <2>6, Positions DEF Descriptor
  <2>8. \A j \in range : items[j].cmd = cmd => j <= m
    BY <2>0, <2>2, <2>3
  <2>9. \A j \in m + 1..k - 1 : items[j].cmd # cmd
    BY <1>1, <2>6, <2>8
  <2>10. ASSUME NEW i \in range, items[i].cmd = cmd, \A j \in i + 1..k - 1 : items[j].cmd # cmd
         PROVE  i = m
    BY <1>1, <2>6, <2>8, <2>10
  <2> HIDE DEF range
  <2> QED
    BY <2>5, <2>6, <2>7, <2>9, <2>10 DEF range
<1> QED
  BY <1>5, <1>6

\* At the start of a collection nothing holds yet.
LEMMA ValueStart ==
  ASSUME NEW items, Descriptor(items), NEW k \in 1..Len(items) + 1,
         k <= Before(items, k) + 4, NEW cmd
  PROVE  OwnValue(items, k, cmd) = 0
<1>1. Before(items, k) \in Nat /\ Len(items) \in Nat
  BY BeforeIs, EndsAre
<1>2. \A i \in (Before(items, k) + 4)..(k - 1) : items[i].cmd # cmd
  BY <1>1
<1> QED
  BY <1>2, ValueIs

LEMMA ValueStep ==
  ASSUME NEW items, Descriptor(items), NEW k \in 1..Len(items), k \notin Ends(items),
         Before(items, k) + 4 <= k, NEW cmd
  PROVE  OwnValue(items, k + 1, cmd) =
           IF items[k].cmd = cmd THEN items[k].value ELSE OwnValue(items, k, cmd)
<1> DEFINE b == Before(items, k)
<1>1. /\ Len(items) \in Nat /\ k \in Nat \ {0} /\ b \in Nat
      /\ k \in 1..Len(items) + 1 /\ k + 1 \in 1..Len(items) + 1 /\ (k + 1) - 1 = k
  BY BeforeIs, EndsAre
<1>2. Before(items, k + 1) = b
  BY <1>1, NextPosition
<1>3. b + 4 <= k
  OBVIOUS
<1> HIDE DEF b
<1> DEFINE v == OwnValue(items, k + 1, cmd)
           u == OwnValue(items, k, cmd)
<1>4. /\ (\A i \in b + 4..k : items[i].cmd # cmd) => v = 0
      /\ \A i \in b + 4..k :
           items[i].cmd = cmd /\ (\A j \in i + 1..k : items[j].cmd # cmd) => v = items[i].value
  <2> DEFINE range == (Before(items, k + 1) + 4)..((k + 1) - 1)
  <2>1. /\ (\A i \in range : items[i].cmd # cmd) => v = 0
        /\ \A i \in range :
             items[i].cmd = cmd /\ (\A j \in i + 1..(k + 1) - 1 : items[j].cmd # cmd) =>
               v = items[i].value
    BY <1>1, ValueIs
  <2>2. range = b + 4..k
    BY <1>1, <1>2
  <2>3. (k + 1) - 1 = k
    BY <1>1
  <2> HIDE DEF range
  <2>4. (\A i \in b + 4..k : items[i].cmd # cmd) => v = 0
    BY <2>1, <2>2
  <2>5. ASSUME NEW i \in b + 4..k, items[i].cmd = cmd, \A j \in i + 1..k : items[j].cmd # cmd
        PROVE  v = items[i].value
    BY <2>1, <2>2, <2>3, <2>5
  <2> QED
    BY <2>4, <2>5
<1>5. /\ (\A i \in b + 4..k - 1 : items[i].cmd # cmd) => u = 0
      /\ u # 0 =>
           \E i \in b + 4..k - 1 : /\ items[i].cmd = cmd
                                 /\ u = items[i].value
                                 /\ \A j \in i + 1..k - 1 : items[j].cmd # cmd
      /\ \A i \in b + 4..k - 1 :
           items[i].cmd = cmd /\ (\A j \in i + 1..k - 1 : items[j].cmd # cmd) => u = items[i].value
  <2> DEFINE range == (Before(items, k) + 4)..(k - 1)
  <2>1. k \in 1..Len(items) + 1
    BY <1>1
  <2>2. (\A i \in range : items[i].cmd # cmd) => OwnValue(items, k, cmd) = 0
    BY <2>1, ValueIs
  <2>3. \A i \in range :
          items[i].cmd = cmd /\ (\A j \in i + 1..k - 1 : items[j].cmd # cmd) =>
            OwnValue(items, k, cmd) = items[i].value
    BY <2>1, ValueIs
  <2>4. OwnValue(items, k, cmd) # 0 =>
          \E i \in range : /\ items[i].cmd = cmd
                           /\ OwnValue(items, k, cmd) = items[i].value
                           /\ \A j \in i + 1..k - 1 : items[j].cmd # cmd
    BY <2>1, ValueIs
  <2> QED
    BY <2>2, <2>3, <2>4 DEF b
<1> HIDE DEF u, v
<1>6. CASE items[k].cmd = cmd
  <2>1. k \in b + 4..k /\ \A j \in k + 1..k : items[j].cmd # cmd
    BY <1>1, <1>3
  <2>2. v = items[k].value
    BY <1>4, <1>6, <2>1
  <2> QED
    BY <1>6, <2>2 DEF v
<1>7. CASE items[k].cmd # cmd /\ \A i \in b + 4..k - 1 : items[i].cmd # cmd
  <2>1. \A i \in b + 4..k : items[i].cmd # cmd
    BY <1>1, <1>7
  <2> QED
    BY <1>4, <1>5, <1>7, <2>1 DEF u, v
<1>8. CASE items[k].cmd # cmd /\ \E i \in b + 4..k - 1 : items[i].cmd = cmd
  <2> DEFINE at == {i \in b + 4..k - 1 : items[i].cmd = cmd}
  <2>1. at \in SUBSET (0..k) /\ at # {}
    BY <1>1, <1>8
  <2> HIDE DEF at
  <2>2. PICK m \in at : \A y \in at : m >= y
    BY <1>1, <2>1, MaxExists
  <2>3. m \in b + 4..k - 1 /\ items[m].cmd = cmd
    BY DEF at
  <2>4. \A j \in b + 4..k - 1 : items[j].cmd = cmd => j <= m
    BY <2>2 DEF at
  <2>5. \A j \in m + 1..k - 1 : items[j].cmd # cmd
    BY <1>1, <2>3, <2>4
  <2>6. m \in b + 4..k /\ \A j \in m + 1..k : items[j].cmd # cmd
    BY <1>1, <1>8, <2>3, <2>5
  <2>7. u = items[m].value
    BY <1>5, <2>3, <2>5
  <2>8. v = items[m].value
    BY <1>4, <2>3, <2>6
  <2> QED
    BY <1>8, <2>7, <2>8 DEF u, v
<1> QED
  BY <1>6, <1>7, <1>8

---------------------------------------------------------------------------
(* The length of a report, a sum over the items. *)

Width(items, fields, j) ==
  IF j \in fields
  THEN OwnValue(items, j, "REPORT_SIZE") * OwnValue(items, j, "REPORT_COUNT") ELSE 0

LEMMA UptoExists ==
  ASSUME NEW items, NEW fields, NEW n \in Nat
  PROVE  \E g : g = [j \in 0..n |-> IF j = 0 THEN 0 ELSE g[j - 1] + Width(items, fields, j)]
<1> DEFINE S == {m \in Nat :
                   \E g : g = [j \in 0..m |-> IF j = 0 THEN 0
                                              ELSE g[j - 1] + Width(items, fields, j)]}
<1>1. 0 \in S
  <2> DEFINE g == [j \in 0..0 |-> 0]
  <2>1. g = [j \in 0..0 |-> IF j = 0 THEN 0 ELSE g[j - 1] + Width(items, fields, j)]
    OBVIOUS
  <2> QED
    BY <2>1
<1>2. ASSUME NEW m \in S PROVE m + 1 \in S
  <2>1. PICK g : g = [j \in 0..m |-> IF j = 0 THEN 0 ELSE g[j - 1] + Width(items, fields, j)]
    BY <1>2
  <2> DEFINE h == [j \in 0..m + 1 |-> IF j = m + 1 THEN g[m] + Width(items, fields, m + 1) ELSE g[j]]
  <2>2. ASSUME NEW j \in 0..m + 1
        PROVE h[j] = IF j = 0 THEN 0 ELSE h[j - 1] + Width(items, fields, j)
    <3>1. CASE j = m + 1
      <4>1. h[j - 1] = g[m]  BY <3>1
      <4> QED  BY <3>1, <4>1
    <3>2. CASE j # m + 1
      <4>1. j \in 0..m /\ h[j] = g[j]  BY <3>2
      <4>2. g[j] = IF j = 0 THEN 0 ELSE g[j - 1] + Width(items, fields, j)  BY <2>1, <4>1
      <4>3. j # 0 => h[j - 1] = g[j - 1]  BY <4>1
      <4> QED  BY <4>1, <4>2, <4>3
    <3> QED  BY <3>1, <3>2
  <2>3. h = [j \in 0..m + 1 |-> IF j = 0 THEN 0 ELSE h[j - 1] + Width(items, fields, j)]
    BY <2>2
  <2> HIDE DEF h
  <2>4. \E f : f = [j \in 0..m + 1 |-> IF j = 0 THEN 0 ELSE f[j - 1] + Width(items, fields, j)]
    BY <2>3
  <2>5. m + 1 \in Nat
    OBVIOUS
  <2> QED
    BY <2>4, <2>5
<1> HIDE DEF S
<1>3. S \in SUBSET Nat
  BY DEF S
<1>4. n \in S
  BY <1>1, <1>2, <1>3, Induction
<1> QED
  BY <1>4 DEF S

\* f sums the widths of the items up to each position.
SumsUp(f, items, fields) ==
  /\ f[0] = 0
  /\ \A j \in 1..Len(items) : f[j] = f[j - 1] + Width(items, fields, j)
  /\ OwnBits(items, fields) = f[Len(items)]

LEMMA BitsAre ==
  ASSUME NEW items, Len(items) \in Nat, NEW fields
  PROVE  \E f : SumsUp(f, items, fields)
<1> DEFINE f == CHOOSE g : g = [j \in 0..Len(items) |-> IF j = 0 THEN 0
                                                       ELSE g[j - 1] + Width(items, fields, j)]
<1>1. OwnBits(items, fields) = f[Len(items)]
  BY DEF OwnBits, Width
<1>2. f = [j \in 0..Len(items) |-> IF j = 0 THEN 0 ELSE f[j - 1] + Width(items, fields, j)]
  BY UptoExists
<1> HIDE DEF f
<1>3. f[0] = 0 /\ \A j \in 1..Len(items) : f[j] = f[j - 1] + Width(items, fields, j)
  BY <1>2
<1> QED
  BY <1>1, <1>3 DEF SumsUp

LEMMA BitsNone ==
  ASSUME NEW items, Len(items) \in Nat
  PROVE  OwnBits(items, {}) = 0
<1>1. PICK f : SumsUp(f, items, {})
  BY BitsAre
<1>2. \A j \in 1..Len(items) : f[j] = f[j - 1] + 0
  BY <1>1 DEF Width, SumsUp
<1> DEFINE S == {m \in Nat : m <= Len(items) => f[m] = 0}
<1>3. 0 \in S
  BY <1>1 DEF SumsUp
<1>4. ASSUME NEW m \in S PROVE m + 1 \in S
  <2>1. CASE m + 1 <= Len(items)
    <3>1. m + 1 \in 1..Len(items) /\ (m + 1) - 1 = m /\ f[m] = 0
      BY <1>4, <2>1
    <3>2. f[m + 1] = 0
      BY <1>2, <3>1
    <3> QED
      BY <3>2
  <2> QED
    BY <2>1
<1> HIDE DEF S
<1>5. S \in SUBSET Nat
  BY DEF S
<1>6. Len(items) \in S
  BY <1>3, <1>4, <1>5, Induction
<1> QED
  BY <1>1, <1>6 DEF S, SumsUp

LEMMA BitsNat ==
  ASSUME NEW items, Descriptor(items), NEW fields
  PROVE  OwnBits(items, fields) \in Nat
<1>1. Len(items) \in Nat
  BY EndsAre
<1>2. PICK f : SumsUp(f, items, fields)
  BY <1>1, BitsAre
<1>3. \A j \in 1..Len(items) : Width(items, fields, j) \in Nat
  <2> TAKE j \in 1..Len(items)
  <2>1. j \in 1..Len(items) + 1
    BY <1>1
  <2>2. OwnValue(items, j, "REPORT_SIZE") \in Nat /\ OwnValue(items, j, "REPORT_COUNT") \in Nat
    BY <2>1, ValueIs
  <2>3. \A a, b \in Nat : a * b \in Nat
    OBVIOUS
  <2> QED
    BY <2>2, <2>3 DEF Width
<1> DEFINE S == {m \in Nat : m <= Len(items) => f[m] \in Nat}
<1>4. 0 \in S
  BY <1>2 DEF SumsUp
<1>5. ASSUME NEW m \in S PROVE m + 1 \in S
  <2>1. CASE m + 1 <= Len(items)
    <3>1. m + 1 \in 1..Len(items) /\ (m + 1) - 1 = m /\ f[m] \in Nat
      BY <1>1, <1>5, <2>1
    <3>2. f[m + 1] = f[m] + Width(items, fields, m + 1) /\ Width(items, fields, m + 1) \in Nat
      BY <1>2, <1>3, <3>1 DEF SumsUp
    <3>3. f[m + 1] \in Nat
      BY <3>1, <3>2
    <3> QED
      BY <3>3
  <2> QED
    BY <1>1, <2>1
<1> HIDE DEF S
<1>6. S \in SUBSET Nat
  BY DEF S
<1>7. Len(items) \in S
  BY <1>1, <1>4, <1>5, <1>6, Induction
<1> QED
  BY <1>1, <1>2, <1>7 DEF S, SumsUp

LEMMA BitsAdd ==
  ASSUME NEW items, Descriptor(items), NEW fields, NEW n \in 1..Len(items), n \notin fields
  PROVE  OwnBits(items, fields \cup {n}) =
           OwnBits(items, fields) + OwnValue(items, n, "REPORT_SIZE") * OwnValue(items, n, "REPORT_COUNT")
<1> DEFINE more == fields \cup {n}
           w == OwnValue(items, n, "REPORT_SIZE") * OwnValue(items, n, "REPORT_COUNT")
<1>1. Len(items) \in Nat
  BY EndsAre
<1>2. PICK f : SumsUp(f, items, fields)
  BY <1>1, BitsAre
<1>3. PICK g : SumsUp(g, items, more)
  BY <1>1, BitsAre
<1>4. w \in Nat
  <2>1. n \in 1..Len(items) + 1
    BY <1>1
  <2>2. OwnValue(items, n, "REPORT_SIZE") \in Nat /\ OwnValue(items, n, "REPORT_COUNT") \in Nat
    BY <2>1, ValueIs
  <2> QED
    BY <2>2
<1>5. /\ Width(items, more, n) = w
      /\ Width(items, fields, n) = 0
      /\ \A j : j # n => Width(items, more, j) = Width(items, fields, j)
  BY DEF Width
<1>6. \A j \in 1..Len(items) : Width(items, fields, j) \in Nat
  <2> TAKE j \in 1..Len(items)
  <2>1. j \in 1..Len(items) + 1
    BY <1>1
  <2>2. OwnValue(items, j, "REPORT_SIZE") \in Nat /\ OwnValue(items, j, "REPORT_COUNT") \in Nat
    BY <2>1, ValueIs
  <2>3. \A a, b \in Nat : a * b \in Nat
    OBVIOUS
  <2> QED
    BY <2>2, <2>3 DEF Width
<1> HIDE DEF w, more
<1> DEFINE S == {m \in Nat : m <= Len(items) =>
                               f[m] \in Nat /\ g[m] = f[m] + (IF n <= m THEN w ELSE 0)}
<1>7. 0 \in S
  BY <1>1, <1>2, <1>3 DEF SumsUp
<1>8. ASSUME NEW m \in S PROVE m + 1 \in S
  <2>1. CASE m + 1 <= Len(items)
    <3>1. m + 1 \in 1..Len(items) /\ (m + 1) - 1 = m
      BY <1>1, <2>1
    <3>2. f[m] \in Nat /\ g[m] = f[m] + (IF n <= m THEN w ELSE 0)
      BY <1>1, <1>8, <2>1
    <3>3. /\ f[m + 1] = f[m] + Width(items, fields, m + 1)
          /\ g[m + 1] = g[m] + Width(items, more, m + 1)
          /\ Width(items, fields, m + 1) \in Nat
      BY <1>2, <1>3, <1>6, <3>1 DEF SumsUp
    <3>4. CASE m + 1 = n
      <4>1. Width(items, more, m + 1) = w /\ Width(items, fields, m + 1) = 0
        BY <1>5, <3>4
      <4>2. f[m + 1] \in Nat /\ g[m + 1] = f[m + 1] + w /\ n <= m + 1
        BY <1>4, <3>2, <3>3, <3>4, <4>1
      <4> QED
        BY <4>2
    <3>5. CASE m + 1 # n
      <4>1. Width(items, more, m + 1) = Width(items, fields, m + 1)
        BY <1>5, <3>5
      <4>2. n <= m <=> n <= m + 1
        BY <1>1, <3>5
      <4> DEFINE d == Width(items, fields, m + 1)
      <4> HIDE DEF d
      <4>3. f[m + 1] = f[m] + d /\ g[m + 1] = g[m] + d /\ d \in Nat
        BY <3>3, <4>1 DEF d
      <4>4. f[m + 1] \in Nat /\ g[m + 1] = f[m + 1] + (IF n <= m + 1 THEN w ELSE 0)
        BY <1>4, <3>2, <4>2, <4>3
      <4> QED
        BY <4>4
    <3> QED
      BY <3>4, <3>5
  <2> QED
    BY <1>1, <2>1
<1> HIDE DEF S
<1>9. S \in SUBSET Nat
  BY DEF S
<1>10. Len(items) \in S
  BY <1>1, <1>7, <1>8, <1>9, Induction
<1>11. g[Len(items)] = f[Len(items)] + w
  BY <1>1, <1>10 DEF S
<1> QED
  BY <1>2, <1>3, <1>11 DEF more, w, SumsUp

---------------------------------------------------------------------------
(* Sequences that list a set, each member once. *)

Lists(s, S) == s \in Seq(S) /\ ToSet(s) = S /\ IsInjective(s)

LEMMA ListsNone == Lists(<<>>, {})
BY DEF Lists, ToSet, IsInjective

LEMMA ListsOne ==
  ASSUME NEW a
  PROVE  Lists(<<a>>, {a})
BY DEF Lists, ToSet, IsInjective

LEMMA ListsBoth ==
  ASSUME NEW A, NEW B, NEW s, NEW t, Lists(s, A), Lists(t, B), A \cap B = {}
  PROVE  Lists(s \o t, A \cup B)
<1> DEFINE u == s \o t
<1>1. /\ s \in Seq(A) /\ t \in Seq(B)
      /\ \A i \in 1..Len(s) : s[i] \in A
      /\ \A i \in 1..Len(t) : t[i] \in B
      /\ Len(s) \in Nat /\ Len(t) \in Nat /\ DOMAIN s = 1..Len(s) /\ DOMAIN t = 1..Len(t)
  BY DEF Lists
<1>2. /\ \A a \in A : \E i \in 1..Len(s) : s[i] = a
      /\ \A b \in B : \E i \in 1..Len(t) : t[i] = b
  BY <1>1 DEF Lists, ToSet
<1>3. /\ \A i, j \in 1..Len(s) : s[i] = s[j] => i = j
      /\ \A i, j \in 1..Len(t) : t[i] = t[j] => i = j
  BY <1>1 DEF Lists, IsInjective
<1>4. s \in Seq(A \cup B) /\ t \in Seq(A \cup B)
  BY <1>1
<1>5. /\ u \in Seq(A \cup B)
      /\ Len(u) = Len(s) + Len(t) /\ DOMAIN u = 1..Len(u)
      /\ \A i \in 1..Len(s) : u[i] = s[i]
      /\ \A i \in Len(s) + 1..Len(u) : u[i] = t[i - Len(s)]
  BY <1>4
<1> HIDE DEF u
<1>6. \A i \in Len(s) + 1..Len(u) : i - Len(s) \in 1..Len(t)
  BY <1>1, <1>5
<1>7. ASSUME NEW x \in A \cup B PROVE \E i \in DOMAIN u : u[i] = x
  <2>1. CASE x \in A
    <3>1. PICK i \in 1..Len(s) : s[i] = x
      BY <1>2, <2>1
    <3>2. i \in DOMAIN u /\ u[i] = x
      BY <1>1, <1>5, <3>1
    <3> QED
      BY <3>2
  <2>2. CASE x \in B
    <3>1. PICK i \in 1..Len(t) : t[i] = x
      BY <1>2, <2>2
    <3>2. i + Len(s) \in Len(s) + 1..Len(u) /\ (i + Len(s)) - Len(s) = i
      BY <1>1, <1>5
    <3>3. i + Len(s) \in DOMAIN u
      BY <1>1, <1>5
    <3>4. u[i + Len(s)] = x
      BY <1>5, <3>1, <3>2
    <3> QED
      BY <3>3, <3>4
  <2> QED
    BY <2>1, <2>2
<1>8. \A i \in DOMAIN u : u[i] \in A \cup B
  BY <1>5
<1>9. ToSet(u) = A \cup B
  BY <1>7, <1>8 DEF ToSet
<1>10. ASSUME NEW i \in DOMAIN u, NEW j \in DOMAIN u, u[i] = u[j] PROVE i = j
  <2>1. i \in 1..Len(u) /\ j \in 1..Len(u)
    BY <1>5
  <2>2. CASE i <= Len(s) /\ j <= Len(s)
    BY <1>1, <1>3, <1>5, <1>10, <2>1, <2>2
  <2>3. CASE i > Len(s) /\ j > Len(s)
    <3>1. t[i - Len(s)] = t[j - Len(s)] /\ i - Len(s) \in 1..Len(t) /\ j - Len(s) \in 1..Len(t)
      BY <1>1, <1>5, <1>6, <1>10, <2>1, <2>3
    <3>2. i - Len(s) = j - Len(s)
      BY <1>3, <3>1
    <3> QED
      BY <1>1, <2>1, <3>2
  <2>4. CASE i <= Len(s) /\ j > Len(s)
    <3>1. u[i] \in A
      BY <1>1, <1>5, <2>1, <2>4
    <3>2. u[j] = t[j - Len(s)] /\ j - Len(s) \in 1..Len(t)
      BY <1>1, <1>5, <1>6, <2>1, <2>4
    <3>3. u[j] \in B
      BY <1>1, <3>2
    <3> QED
      BY <1>10, <3>1, <3>3
  <2>5. CASE i > Len(s) /\ j <= Len(s)
    <3>1. u[j] \in A
      BY <1>1, <1>5, <2>1, <2>5
    <3>2. u[i] = t[i - Len(s)] /\ i - Len(s) \in 1..Len(t)
      BY <1>1, <1>5, <1>6, <2>1, <2>5
    <3>3. u[i] \in B
      BY <1>1, <3>2
    <3> QED
      BY <1>10, <3>1, <3>3
  <2> QED
    BY <1>1, <2>1, <2>2, <2>3, <2>4, <2>5
<1>11. IsInjective(u)
  BY <1>10 DEF IsInjective
<1> QED
  BY <1>5, <1>9, <1>11 DEF Lists, u

LEMMA ListsLength ==
  ASSUME NEW S, IsFiniteSet(S), NEW s, Lists(s, S)
  PROVE  Len(s) \in Nat /\ Len(s) <= Cardinality(S)
<1>1. s \in Seq(S) /\ Len(s) \in Nat
  BY DEF Lists
<1>2. s \in [1..Len(s) -> S]
  BY <1>1
<1>3. s \in Injection(1..Len(s), S)
  BY <1>2 DEF Lists, Injection
<1>4. Cardinality(1..Len(s)) <= Cardinality(S)
  BY <1>3, FS_Injection
<1>5. Cardinality(1..Len(s)) = Len(s)
  <2> DEFINE n == Len(s)
  <2>1. n \in Nat /\ n \in Int /\ 1 \in Int
    BY <1>1
  <2> HIDE DEF n
  <2>2. Cardinality(1..n) = IF 1 <= n THEN n - 1 + 1 ELSE 0
    BY <2>1, FS_Interval
  <2>3. Cardinality(1..n) = n
    BY <2>1, <2>2
  <2> QED
    BY <2>3 DEF n
<1> QED
  BY <1>1, <1>4, <1>5

---------------------------------------------------------------------------
(* What the parser lists of one report. *)

Line(class, id, type, bits, boot) ==
  IF bits = 0 THEN <<>>
  ELSE <<[usage |-> class, id |-> id, type |-> type, mode |-> "REPORT", len |-> bits \div 8]>>
       \o (IF boot = 0 THEN <<>>
           ELSE <<[usage |-> class, id |-> id, type |-> type, mode |-> "BOOT", len |-> boot]>>)

LEMMA LineLists ==
  ASSUME NEW class, NEW id, NEW type, NEW bits, NEW boot,
         Listed(class, type),
         IF boot = 0 THEN Modes(class) = {"REPORT"}
         ELSE Modes(class) = {"REPORT", "BOOT"} /\ BootLength(class, type) = boot
  PROVE  Lists(Line(class, id, type, bits, boot), Entries(class, id, type, bits))
<1> DEFINE r == [usage |-> class, id |-> id, type |-> type, mode |-> "REPORT", len |-> bits \div 8]
           b == [usage |-> class, id |-> id, type |-> type, mode |-> "BOOT", len |-> boot]
<1>1. CASE bits = 0
  <2>1. Line(class, id, type, bits, boot) = <<>> /\ Entries(class, id, type, bits) = {}
    BY <1>1 DEF Line, Entries
  <2> QED
    BY <2>1, ListsNone
<1>2. CASE bits # 0 /\ boot = 0
  <2>1. Line(class, id, type, bits, boot) = <<r>> \o <<>>
    BY <1>2 DEF Line
  <2>2. Entries(class, id, type, bits) = {r}
    BY <1>2 DEF Entries
  <2> HIDE DEF r
  <2>3. Lists(<<r>> \o <<>>, {r} \cup {})
    BY ListsOne, ListsNone, ListsBoth
  <2> QED
    BY <2>1, <2>2, <2>3
<1>3. CASE bits # 0 /\ boot # 0
  <2>1. Line(class, id, type, bits, boot) = <<r>> \o <<b>>
    BY <1>3 DEF Line
  <2>2. Entries(class, id, type, bits) = {r, b}
    BY <1>3 DEF Entries
  <2>3. r # b
    <3>1. r.mode = "REPORT" /\ b.mode = "BOOT"
      OBVIOUS
    <3> HIDE DEF r, b
    <3> QED
      BY <3>1
  <2> HIDE DEF r, b
  <2>4. Lists(<<r>>, {r}) /\ Lists(<<b>>, {b})
    BY ListsOne
  <2>5. {r} \cap {b} = {} /\ {r} \cup {b} = {r, b}
    BY <2>3
  <2>6. Lists(<<r>> \o <<b>>, {r} \cup {b})
    BY <2>4, <2>5, ListsBoth
  <2> QED
    BY <2>1, <2>2, <2>5, <2>6
<1> QED
  BY <1>1, <1>2, <1>3

\* The reports of the three kinds, of one id and class.
Section(class, id, len) == UNION {Entries(class, id, t, len[t]) : t \in Types}

LEMMA EntryFields ==
  ASSUME NEW class, NEW id, NEW type, NEW bits, NEW r \in Entries(class, id, type, bits)
  PROVE  r.usage = class /\ r.id = id /\ r.type = type
BY DEF Entries

LEMMA ReportsLists ==
  ASSUME NEW p
  PROVE  Lists(ReportsOf(p), Section(ClassOf(p.usagePage, p.usage), p.id, p.len))
<1> DEFINE class == ClassOf(p.usagePage, p.usage)
           L(type, boot) == Line(class, p.id, type, p.len[type], boot)
           E(type) == Entries(class, p.id, type, p.len[type])
<1>1. ReportsOf(p) = CASE class = "KEYBOARD" -> L("INPUT", 8) \o L("OUTPUT", 1)
                       [] class = "MOUSE"    -> L("INPUT", 3)
                       [] OTHER -> L("INPUT", 0) \o L("OUTPUT", 0) \o L("FEATURE", 0)
  BY DEF ReportsOf, Line
<1>2. Section(class, p.id, p.len) = (E("INPUT") \cup E("OUTPUT")) \cup E("FEATURE")
  BY DEF Section, Types
<1>3. /\ E("INPUT") \cap E("OUTPUT") = {}
      /\ (E("INPUT") \cup E("OUTPUT")) \cap E("FEATURE") = {}
  <2>1. \A t \in Types : \A r \in E(t) : r.type = t
    BY EntryFields
  <2> HIDE DEF E
  <2> QED
    BY <2>1 DEF Types
<1> HIDE DEF class
<1>4. CASE class = "KEYBOARD"
  <2>1. Lists(L("INPUT", 8), E("INPUT"))
    BY <1>4, LineLists DEF Listed, Modes, BootLength
  <2>2. Lists(L("OUTPUT", 1), E("OUTPUT"))
    BY <1>4, LineLists DEF Listed, Modes, BootLength
  <2>3. E("FEATURE") = {}
    BY <1>4 DEF Entries, Listed
  <2> HIDE DEF L, E
  <2>4. Lists(L("INPUT", 8) \o L("OUTPUT", 1), E("INPUT") \cup E("OUTPUT"))
    BY <1>3, <2>1, <2>2, ListsBoth
  <2>5. ReportsOf(p) = L("INPUT", 8) \o L("OUTPUT", 1)
    BY <1>1, <1>4
  <2>6. Section(class, p.id, p.len) = E("INPUT") \cup E("OUTPUT")
    BY <1>2, <2>3
  <2> QED
    BY <2>4, <2>5, <2>6 DEF class
<1>5. CASE class = "MOUSE"
  <2>1. Lists(L("INPUT", 3), E("INPUT"))
    BY <1>5, LineLists DEF Listed, Modes, BootLength
  <2>2. E("FEATURE") = {} /\ E("OUTPUT") = {}
    BY <1>5 DEF Entries, Listed
  <2> HIDE DEF L, E
  <2>3. ReportsOf(p) = L("INPUT", 3)
    BY <1>1, <1>5
  <2>4. Section(class, p.id, p.len) = E("INPUT")
    BY <1>2, <2>2
  <2> QED
    BY <2>1, <2>3, <2>4 DEF class
<1>6. CASE class \notin {"KEYBOARD", "MOUSE"}
  <2>1. \A t \in Types : Lists(L(t, 0), E(t))
    <3> TAKE t \in Types
    <3>1. Listed(class, t) /\ Modes(class) = {"REPORT"}
      BY <1>6 DEF Listed, Modes
    <3> QED
      BY <3>1, LineLists
  <2>2. ReportsOf(p) = L("INPUT", 0) \o L("OUTPUT", 0) \o L("FEATURE", 0)
    BY <1>1, <1>6
  <2> HIDE DEF L, E
  <2>3. Lists(L("INPUT", 0), E("INPUT")) /\ Lists(L("OUTPUT", 0), E("OUTPUT"))
        /\ Lists(L("FEATURE", 0), E("FEATURE"))
    BY <2>1 DEF Types
  <2>4. Lists(L("INPUT", 0) \o L("OUTPUT", 0), E("INPUT") \cup E("OUTPUT"))
    BY <1>3, <2>3, ListsBoth
  <2> DEFINE two == L("INPUT", 0) \o L("OUTPUT", 0)
             Two == E("INPUT") \cup E("OUTPUT")
  <2> HIDE DEF two, Two
  <2>5. Lists(two \o L("FEATURE", 0), Two \cup E("FEATURE"))
    BY <1>3, <2>3, <2>4, ListsBoth DEF two, Two
  <2> QED
    BY <1>2, <2>2, <2>5 DEF class, two, Two
<1> QED
  BY <1>4, <1>5, <1>6

---------------------------------------------------------------------------
(* The main items from one mark to the next are the fields of one id. *)

\* The items of a kind after c and up to n.
Part(items, c, n, t) == {j \in Mains(items) : c < j /\ j <= n /\ items[j].cmd = t}

\* The main items since the mark before k have the id that holds at k.
OneId(items, k) ==
  \A j \in Mains(items) :
    Mark(items, k) < j /\ j < k => OwnValue(items, j, "REPORT_ID") = OwnValue(items, k, "REPORT_ID")

LEMMA MainsAre ==
  ASSUME NEW items, Descriptor(items)
  PROVE  /\ Mains(items) \in SUBSET Nat
         /\ \A j \in Mains(items) : /\ j \in 1..Len(items) /\ j # 0
                                    /\ items[j].cmd \in Types
                                    /\ j \notin Marks(items)
<1>1. \A j \in Mains(items) : j \in 1..Len(items) /\ items[j].cmd \in Types
  BY Positions DEF Mains, Descriptor
<1>2. Len(items) \in Nat
  BY EndsAre
<1> QED
  BY <1>1, <1>2, MarksAre DEF Types

\* The fields of an id do not start before the mark where the id is taken up,
LEMMA FieldsAfter ==
  ASSUME NEW items, Descriptor(items), NEW k \in 1..Len(items),
         NEW j \in Mains(items), Mark(items, k) < j, j < k,
         NEW i \in OwnFields(items, j)
  PROVE  Mark(items, k) < i
<1> DEFINE b == Before(items, k)
           c == Mark(items, k)
           v == OwnValue(items, j, "REPORT_ID")
<1>0. Len(items) \in Nat /\ k \in Nat \ {0} /\ j \in Nat \ {0}
  BY EndsAre, MainsAre
<1>1. /\ b \in Nat /\ c \in Nat /\ c \in Marks(items) /\ b <= c /\ c < k
      /\ \A e \in Ends(items) : e < k => e <= b
  BY <1>0, BeforeIs
<1>2. b < j /\ Before(items, j) = b
  BY <1>0, <1>1, SameCollection
<1>3. /\ i \in Mains(items) /\ i \in 1..Len(items) /\ i \in Nat \ {0} /\ i \notin Marks(items)
      /\ Before(items, i) = b /\ OwnValue(items, i, "REPORT_ID") = v
  BY <1>0, <1>2, MainsAre DEF OwnFields
<1>4. b < i
  BY <1>3, BeforeIs
<1> SUFFICES ASSUME ~(c < i) PROVE FALSE
  OBVIOUS
<1> HIDE DEF b, c
<1>5. i < c /\ b < c /\ c < j
  BY <1>1, <1>3, <1>4 DEF c
<1>6. c \in Changes(items)
  BY <1>1, <1>5 DEF Marks
<1>7. /\ c \in 1..Len(items) /\ items[c].cmd = "REPORT_ID"
      /\ OwnValue(items, c, "REPORT_ID") \notin {0, items[c].value}
  BY <1>6, Positions DEF Changes, Descriptor
<1>8. Before(items, c) = b
  BY <1>0, <1>1, <1>5, SameCollection DEF b
<1>9. \A x \in i..j : items[x].cmd = "REPORT_ID" => items[x].value = v
  <2>1. i < j
    BY <1>0, <1>1, <1>3, <1>5
  <2> QED
    BY <1>3, <2>1 DEF Descriptor, OwnWellFormed
<1>10. items[c].value = v
  BY <1>0, <1>1, <1>3, <1>5, <1>7, <1>9
<1>11. PICK x \in b + 4..c - 1 : /\ items[x].cmd = "REPORT_ID"
                                 /\ OwnValue(items, c, "REPORT_ID") = items[x].value
                                 /\ \A y \in x + 1..c - 1 : items[y].cmd # "REPORT_ID"
  <2>1. c \in 1..Len(items) + 1
    BY <1>0, <1>7
  <2> QED
    BY <1>7, <1>8, <2>1, ValueIs
<1>12. items[x].value # v
  BY <1>7, <1>10, <1>11
<1>13. x < i
  <2>1. x \in Nat /\ x # i /\ ~(x \in i..j)
    BY <1>1, <1>3, <1>9, <1>11, <1>12 DEF Mains, Types
  <2> QED
    BY <1>0, <1>1, <1>3, <1>5, <1>11, <2>1
<1>14. x \in b + 4..i - 1 /\ \A y \in x + 1..i - 1 : items[y].cmd # "REPORT_ID"
  BY <1>1, <1>3, <1>5, <1>11, <1>13
<1>15. OwnValue(items, i, "REPORT_ID") = items[x].value
  <2>1. i \in 1..Len(items) + 1
    BY <1>0, <1>3
  <2>2. \A y \in (Before(items, i) + 4)..(i - 1) :
          items[y].cmd = "REPORT_ID" /\ (\A z \in y + 1..i - 1 : items[z].cmd # "REPORT_ID") =>
            OwnValue(items, i, "REPORT_ID") = items[y].value
    BY <2>1, ValueIs
  <2>3. x \in (Before(items, i) + 4)..(i - 1)
    BY <1>3, <1>14
  <2> QED
    BY <1>11, <1>14, <2>2, <2>3
<1> QED
  BY <1>3, <1>12, <1>15

\* and end with the mark where it is given up.
LEMMA FieldsUpTo ==
  ASSUME NEW items, Descriptor(items), NEW k \in 1..Len(items), k \in Marks(items),
         OneId(items, k), NEW j \in Mains(items), Mark(items, k) < j, j < k,
         NEW i \in OwnFields(items, j)
  PROVE  i < k
<1> DEFINE b == Before(items, k)
           v == OwnValue(items, k, "REPORT_ID")
<1>0. Len(items) \in Nat /\ k \in Nat \ {0} /\ j \in Nat \ {0}
  BY EndsAre, MainsAre
<1>1. b \in Nat /\ b <= Mark(items, k) /\ Mark(items, k) \in Nat /\ b < k
  BY <1>0, BeforeIs
<1>2. b < j /\ Before(items, j) = b
  BY <1>0, <1>1, SameCollection
<1>3. OwnValue(items, j, "REPORT_ID") = v
  BY DEF OneId
<1>4. /\ i \in Mains(items) /\ i \in 1..Len(items) /\ i \in Nat \ {0} /\ i \notin Marks(items)
      /\ Before(items, i) = b /\ OwnValue(items, i, "REPORT_ID") = v
  BY <1>0, <1>2, <1>3, MainsAre DEF OwnFields
<1> SUFFICES ASSUME ~(i < k) PROVE FALSE
  OBVIOUS
<1> HIDE DEF b, v
<1>5. k < i
  BY <1>0, <1>4
<1>6. CASE k \in Ends(items)
  BY <1>0, <1>1, <1>4, <1>5, <1>6, BeforeIs
<1>7. CASE k \notin Ends(items)
  <2>1. k \in Changes(items)
    BY <1>7 DEF Marks
  <2>2. items[k].cmd = "REPORT_ID" /\ v # items[k].value
    BY <2>1 DEF Changes, v
  <2>3. j < i /\ k \in j..i
    BY <1>0, <1>4, <1>5
  <2>4. \A x \in j..i : items[x].cmd = "REPORT_ID" => items[x].value = v
    BY <1>3, <1>4, <2>3 DEF Descriptor, OwnWellFormed
  <2> QED
    BY <2>2, <2>3, <2>4
<1> QED
  BY <1>6, <1>7

LEMMA MarkFields ==
  ASSUME NEW items, Descriptor(items), NEW k \in 1..Len(items), k \in Marks(items),
         OneId(items, k), NEW j \in Mains(items), Mark(items, k) < j, j < k
  PROVE  OwnFields(items, j) = Part(items, Mark(items, k), k - 1, items[j].cmd)
<1>0. Len(items) \in Nat /\ k \in Nat \ {0} /\ j \in Nat \ {0} /\ Mains(items) \in SUBSET Nat
  BY EndsAre, MainsAre
<1>1. ASSUME NEW i \in OwnFields(items, j) PROVE i \in Part(items, Mark(items, k), k - 1, items[j].cmd)
  <2>1. Mark(items, k) < i /\ i < k
    BY FieldsAfter, FieldsUpTo
  <2>2. i \in Mains(items) /\ i \in Nat /\ items[i].cmd = items[j].cmd
    BY <1>0 DEF OwnFields
  <2>3. i <= k - 1
    BY <1>0, <2>1, <2>2
  <2> QED
    BY <2>1, <2>2, <2>3 DEF Part
<1>2. ASSUME NEW i \in Part(items, Mark(items, k), k - 1, items[j].cmd) PROVE i \in OwnFields(items, j)
  <2>1. /\ i \in Mains(items) /\ i \in Nat /\ items[i].cmd = items[j].cmd
        /\ Mark(items, k) < i /\ i < k
    BY <1>0 DEF Part
  <2>2. Before(items, k) \in Nat /\ Mark(items, k) \in Nat /\ Before(items, k) <= Mark(items, k)
    BY <1>0, BeforeIs
  <2>3. Before(items, i) = Before(items, k)
    BY <1>0, <2>1, <2>2, SameCollection
  <2>4. Before(items, j) = Before(items, k)
    BY <1>0, <2>2, SameCollection
  <2>5. OwnValue(items, i, "REPORT_ID") = OwnValue(items, j, "REPORT_ID")
    BY <2>1 DEF OneId
  <2> QED
    BY <2>1, <2>3, <2>4, <2>5 DEF OwnFields
<1> QED
  BY <1>1, <1>2

\* The class changes only at marks.
LEMMA MarkClass ==
  ASSUME NEW items, Descriptor(items), NEW k \in Nat \ {0}, NEW j \in Nat,
         Mark(items, k) < j, j <= k
  PROVE  OwnClass(items, j) = OwnClass(items, k)
<1> DEFINE b == Before(items, k)
           X(n) == {i \in Changes(items) : b < i /\ i < n}
<1>1. /\ b \in Nat /\ Mark(items, k) \in Nat /\ b <= Mark(items, k)
      /\ \A m \in Marks(items) : m < k => m <= Mark(items, k)
  BY BeforeIs
<1>2. Before(items, j) = b
  BY <1>1, SameCollection
<1>3. Changes(items) \subseteq Marks(items) /\ Marks(items) \in SUBSET Nat
  BY MarksAre DEF Marks
<1>4. \A i \in Changes(items) : i < j <=> i < k
  BY <1>1, <1>3
<1>5. X(j) = X(k)
  BY <1>4
<1>6. \A n : Before(items, n) = b =>
        OwnClass(items, n) =
          IF X(n) = {} THEN ClassOf(items[b + 1].value, items[b + 2].value)
          ELSE ClassOf(OwnValue(items, Max(X(n)), "USAGE_PAGE"), OwnValue(items, Max(X(n)), "USAGE"))
  BY DEF OwnClass
<1> HIDE DEF X
<1> QED
  BY <1>2, <1>5, <1>6

---------------------------------------------------------------------------
(* What a descriptor declares up to a position. *)

DeclaredUpTo(items, n) == UNION {OwnDeclaredAt(items, k) : k \in {j \in Mains(items) : j <= n}}

LEMMA EntriesAre ==
  ASSUME NEW class \in Classes, NEW id \in Nat, NEW type \in Types, NEW bits \in Nat
  PROVE  /\ Entries(class, id, type, bits) \subseteq Report
         /\ IsFiniteSet(Entries(class, id, type, bits))
<1> DEFINE R(mode) == [usage |-> class, id |-> id, type |-> type, mode |-> mode,
                       len |-> IF mode = "BOOT" THEN BootLength(class, type) ELSE bits \div 8]
           two == {R("REPORT"), R("BOOT")}
<1>1. Entries(class, id, type, bits) \subseteq two
  BY DEF Entries, Modes
<1>2. BootLength(class, type) \in Nat /\ bits \div 8 \in Nat
  BY DEF BootLength
<1>3. two \subseteq Report
  <2>1. R("REPORT") \in Report
    BY <1>2 DEF Report
  <2>2. R("BOOT") \in Report
    BY <1>2 DEF Report
  <2> HIDE DEF R
  <2> QED
    BY <2>1, <2>2
<1>4. IsFiniteSet(two)
  <2> HIDE DEF R
  <2>1. IsFiniteSet({R("REPORT")})
    BY FS_Singleton
  <2>2. IsFiniteSet({R("REPORT")} \cup {R("BOOT")})
    BY <2>1, FS_AddElement
  <2>3. two = {R("REPORT")} \cup {R("BOOT")}
    OBVIOUS
  <2> QED
    BY <2>2, <2>3
<1> HIDE DEF two
<1> QED
  BY <1>1, <1>3, <1>4, FS_Subset

LEMMA ClassesAre ==
  ASSUME NEW page, NEW usage
  PROVE  ClassOf(page, usage) \in Classes
BY DEF ClassOf, Classes

LEMMA DeclaredAre ==
  ASSUME NEW items, Descriptor(items), NEW k \in Mains(items)
  PROVE  OwnDeclaredAt(items, k) \subseteq Report /\ IsFiniteSet(OwnDeclaredAt(items, k))
<1>1. k \in 1..Len(items) /\ Len(items) \in Nat
  BY MainsAre, EndsAre
<1>2. OwnClass(items, k) \in Classes
  BY ClassesAre DEF OwnClass
<1>3. OwnValue(items, k, "REPORT_ID") \in Nat
  <2>1. k \in 1..Len(items) + 1
    BY <1>1
  <2> QED
    BY <2>1, ValueIs
<1>4. items[k].cmd \in Types
  BY MainsAre
<1>5. OwnBits(items, OwnFields(items, k)) \in Nat
  BY BitsNat
<1> QED
  BY <1>2, <1>3, <1>4, <1>5, EntriesAre DEF OwnDeclaredAt

LEMMA UpToAre ==
  ASSUME NEW items, Descriptor(items), NEW n \in Nat
  PROVE  DeclaredUpTo(items, n) \subseteq Report /\ IsFiniteSet(DeclaredUpTo(items, n))
<1>0. Mains(items) \in SUBSET Nat /\ \A j \in Mains(items) : j # 0
  BY MainsAre
<1>1. DeclaredUpTo(items, n) \subseteq Report
  BY DeclaredAre DEF DeclaredUpTo
<1> DEFINE S == {m \in Nat : IsFiniteSet(DeclaredUpTo(items, m))}
<1>2. 0 \in S
  <2>1. DeclaredUpTo(items, 0) = {}
    BY <1>0 DEF DeclaredUpTo
  <2> QED
    BY <2>1, FS_EmptySet
<1>3. ASSUME NEW m \in S PROVE m + 1 \in S
  <2>1. \A j \in Mains(items) : j <= m + 1 <=> j <= m \/ j = m + 1
    BY <1>0
  <2>2. CASE m + 1 \in Mains(items)
    <3>1. DeclaredUpTo(items, m + 1) = DeclaredUpTo(items, m) \cup OwnDeclaredAt(items, m + 1)
      BY <2>1, <2>2 DEF DeclaredUpTo
    <3>2. IsFiniteSet(OwnDeclaredAt(items, m + 1))
      BY <2>2, DeclaredAre
    <3>3. IsFiniteSet(DeclaredUpTo(items, m))
      OBVIOUS
    <3>4. IsFiniteSet(DeclaredUpTo(items, m) \cup OwnDeclaredAt(items, m + 1))
      BY <3>2, <3>3, FS_Union
    <3> QED
      BY <3>1, <3>4
  <2>3. CASE m + 1 \notin Mains(items)
    <3>1. DeclaredUpTo(items, m + 1) = DeclaredUpTo(items, m)
      BY <2>1, <2>3 DEF DeclaredUpTo
    <3> QED
      BY <3>1
  <2> QED
    BY <2>2, <2>3
<1> HIDE DEF S
<1>4. S \in SUBSET Nat
  BY DEF S
<1>5. n \in S
  BY <1>2, <1>3, <1>4, Induction
<1> QED
  BY <1>1, <1>5 DEF S

LEMMA UpToEnd ==
  ASSUME NEW items, Descriptor(items)
  PROVE  /\ OwnDeclared(items) = DeclaredUpTo(items, Len(items))
         /\ \A n : DeclaredUpTo(items, n) \subseteq OwnDeclared(items)
<1>1. \A j \in Mains(items) : j <= Len(items)
  BY MainsAre, EndsAre
<1> QED
  BY <1>1 DEF OwnDeclared, DeclaredUpTo

\* There is room for what is declared.
LEMMA Room ==
  ASSUME NEW items, Descriptor(items), NEW n \in Nat, NEW s, Lists(s, DeclaredUpTo(items, n))
  PROVE  Len(s) <= MaxReports
<1> DEFINE U == DeclaredUpTo(items, n)
           D == OwnDeclared(items)
<1>1. IsFiniteSet(U) /\ IsFiniteSet(D) /\ U \subseteq D
  <2>1. Len(items) \in Nat
    BY EndsAre
  <2> QED
    BY <2>1, UpToAre, UpToEnd
<1>2. Cardinality(U) \in Nat /\ Cardinality(D) \in Nat /\ Cardinality(U) <= Cardinality(D)
  BY <1>1, FS_Subset, FS_CardinalityType
<1>3. Cardinality(D) <= MaxReports
  BY DEF Descriptor, OwnWellFormed
<1>4. Len(s) \in Nat /\ Len(s) <= Cardinality(U)
  BY <1>1, ListsLength
<1> HIDE DEF U, D
<1> QED
  BY <1>2, <1>3, <1>4, ReportParserAssumption

\* What comes to be declared from one mark to the next.
LEMMA MarkDeclares ==
  ASSUME NEW items, Descriptor(items), NEW k \in 1..Len(items), k \in Marks(items),
         OneId(items, k),
         NEW len, \A t \in Types : len[t] = OwnBits(items, Part(items, Mark(items, k), k - 1, t))
  PROVE  LET old == DeclaredUpTo(items, Mark(items, k))
             new == Section(OwnClass(items, k), OwnValue(items, k, "REPORT_ID"), len)
         IN /\ \A t \in Types : len[t] \in Nat /\ len[t] % 8 = 0 /\ len[t] < 65536
            /\ DeclaredUpTo(items, k) = old \cup new
            /\ old \cap new = {}
<1> DEFINE c == Mark(items, k)
           class == OwnClass(items, k)
           id == OwnValue(items, k, "REPORT_ID")
           P(t) == Part(items, c, k - 1, t)
           old == DeclaredUpTo(items, c)
           new == Section(class, id, len)
<1>0. /\ Len(items) \in Nat /\ k \in Nat \ {0} /\ Mains(items) \in SUBSET Nat
      /\ \A j \in Mains(items) : j # k /\ items[j].cmd \in Types
      /\ c \in Nat /\ c < k
  BY EndsAre, MainsAre, BeforeIs
<1>1. ASSUME NEW t \in Types, NEW j \in P(t)
      PROVE  j \in Mains(items) /\ c < j /\ j < k /\ items[j].cmd = t
  BY <1>0 DEF Part
<1>2. ASSUME NEW j \in Mains(items), c < j, j < k
      PROVE  /\ OwnFields(items, j) = P(items[j].cmd)
             /\ OwnDeclaredAt(items, j) = Entries(class, id, items[j].cmd, len[items[j].cmd])
             /\ items[j].cmd \in Types
  <2>1. OwnFields(items, j) = P(items[j].cmd)
    BY <1>2, MarkFields
  <2>2. OwnClass(items, j) = class
    BY <1>0, <1>2, MarkClass
  <2>3. OwnValue(items, j, "REPORT_ID") = id
    BY <1>2 DEF OneId
  <2> QED
    BY <1>0, <2>1, <2>2, <2>3 DEF OwnDeclaredAt
<1> HIDE DEF class, id
<1>3. ASSUME NEW t \in Types PROVE len[t] \in Nat /\ len[t] % 8 = 0 /\ len[t] < 65536
  <2>1. CASE P(t) = {}
    <3>1. len[t] = 0
      BY <1>0, <2>1, BitsNone
    <3> QED
      BY <3>1
  <2>2. CASE P(t) # {}
    <3>1. PICK j \in P(t) : TRUE
      BY <2>2
    <3>2. j \in Mains(items) /\ len[t] = OwnBits(items, OwnFields(items, j))
      BY <1>1, <1>2
    <3>3. len[t] \in Nat
      BY <3>2, BitsNat
    <3> QED
      BY <3>2, <3>3 DEF Descriptor, OwnWellFormed
  <2> QED
    BY <2>1, <2>2
<1>4. ASSUME NEW r \in DeclaredUpTo(items, k) PROVE r \in old \cup new
  <2>1. PICK j \in Mains(items) : j <= k /\ r \in OwnDeclaredAt(items, j)
    BY DEF DeclaredUpTo
  <2>2. CASE j <= c
    BY <2>1, <2>2 DEF DeclaredUpTo
  <2>3. CASE c < j
    <3>1. j < k
      BY <1>0, <2>1
    <3>2. r \in Entries(class, id, items[j].cmd, len[items[j].cmd]) /\ items[j].cmd \in Types
      BY <1>2, <2>1, <2>3, <3>1
    <3> QED
      BY <3>2 DEF Section
  <2> QED
    BY <1>0, <2>2, <2>3
<1>5. ASSUME NEW r \in new
      PROVE  \E j \in Mains(items) : c < j /\ j < k /\ r \in OwnDeclaredAt(items, j)
  <2>1. PICK t \in Types : r \in Entries(class, id, t, len[t])
    BY DEF Section
  <2>2. len[t] # 0
    BY <2>1 DEF Entries
  <2>3. P(t) # {}
    BY <1>0, <2>2, BitsNone
  <2>4. PICK j \in P(t) : TRUE
    BY <2>3
  <2>5. j \in Mains(items) /\ c < j /\ j < k /\ items[j].cmd = t
    BY <1>1
  <2>6. OwnDeclaredAt(items, j) = Entries(class, id, t, len[t])
    BY <1>2, <2>5
  <2> QED
    BY <2>1, <2>5, <2>6
<1>6. DeclaredUpTo(items, k) = old \cup new
  <2>1. old \subseteq DeclaredUpTo(items, k)
    BY <1>0 DEF DeclaredUpTo
  <2>2. new \subseteq DeclaredUpTo(items, k)
    BY <1>0, <1>5 DEF DeclaredUpTo
  <2> QED
    BY <1>4, <2>1, <2>2
<1>7. ASSUME NEW r \in old, r \in new PROVE FALSE
  <2>1. PICK i \in Mains(items) : i <= c /\ r \in OwnDeclaredAt(items, i)
    BY DEF DeclaredUpTo
  <2>2. PICK j \in Mains(items) : c < j /\ j < k /\ r \in OwnDeclaredAt(items, j)
    BY <1>5, <1>7
  <2>3. \A n \in Mains(items) : r \in OwnDeclaredAt(items, n) =>
          r.id = OwnValue(items, n, "REPORT_ID") /\ r.type = items[n].cmd
    BY EntryFields DEF OwnDeclaredAt
  <2>4. /\ OwnValue(items, i, "REPORT_ID") = OwnValue(items, j, "REPORT_ID")
        /\ items[i].cmd = items[j].cmd
    BY <2>1, <2>2, <2>3
  <2>5. Before(items, i) = Before(items, j)
    BY <2>4 DEF Descriptor, OwnWellFormed
  <2>6. i \in OwnFields(items, j)
    BY <2>4, <2>5 DEF OwnFields
  <2>7. c < i
    BY <2>2, <2>6, FieldsAfter
  <2> QED
    BY <1>0, <2>1, <2>7
<1> QED
  BY <1>3, <1>6, <1>7 DEF class, id

---------------------------------------------------------------------------
(* The parser on a well-formed descriptor. *)

Listing(p) == IF p.newMap THEN <<>> ELSE p.temp.reports

\* The parser has listed the reports S.
Kept(p, S) == (~p.newMap => p.temp \in ParsedMap) /\ Lists(Listing(p), S)

LEMMA ReportKept ==
  ASSUME NEW p, IsParser(p), NEW S, Kept(p, S),
         NEW T, T = Section(ClassOf(p.usagePage, p.usage), p.id, p.len),
         S \cap T = {}, S \cup T \subseteq Report,
         \A s : Lists(s, S \cup T) => Len(s) <= MaxReports
  PROVE  /\ Fits(p)
         /\ ~handle_report(p).newMap
         /\ Kept(handle_report(p), S \cup T)
<1> DEFINE all == Collected(p).reports \o ReportsOf(p)
           class == ClassOf(p.usagePage, p.usage)
           r == handle_report(p)
<1>1. /\ Collected(p).reports = Listing(p)
      /\ Collected(p).usages \subseteq Classes
  <2>1. CASE p.newMap
    BY <2>1 DEF Collected, Listing, EmptyMap
  <2>2. CASE ~p.newMap
    <3>1. p.temp \in ParsedMap /\ p.temp # NULL
      BY <2>2, NullAssumption DEF Kept
    <3>2. Collected(p) = p.temp
      BY <2>2, <3>1 DEF Collected
    <3> QED
      BY <2>2, <3>1, <3>2 DEF Listing, ParsedMap
  <2> QED
    BY <2>1, <2>2
<1>2. Lists(all, S \cup T)
  <2>1. Lists(ReportsOf(p), T)
    BY ReportsLists
  <2> QED
    BY <1>1, <2>1, ListsBoth DEF Kept
<1>3. Fits(p)
  BY <1>2 DEF Fits
<1>4. r.newMap = FALSE
  <2>1. r.newMap = (p.newMap /\ ~Fits(p))
    BY ReportFields
  <2> HIDE DEF r
  <2> QED
    BY <1>3, <2>1
<1>5. r.temp = [usages |-> Collected(p).usages \cup ({class} \ {"GENERIC"}), reports |-> all]
  <2>1. "temp" \in DOMAIN p
    BY DEF IsParser, Names
  <2> QED
    BY <1>3, <2>1 DEF handle_report, Collected, Fits
<1>6. all \in Seq(Report)
  <2>1. all \in Seq(S \cup T)
    BY <1>2 DEF Lists
  <2> HIDE DEF all
  <2> QED
    BY <2>1
<1>7. class \in Classes
  BY ClassesAre
<1> HIDE DEF r, class, all
<1>8. r.temp \in ParsedMap /\ r.temp.reports = all
  BY <1>1, <1>5, <1>6, <1>7 DEF ParsedMap
<1>9. Listing(r) = all
  BY <1>4, <1>8 DEF Listing
<1>10. Kept(r, S \cup T)
  BY <1>2, <1>8, <1>9 DEF Kept
<1> QED
  BY <1>3, <1>4, <1>10 DEF r

\* Nothing has been read of the collection but its head.
Fresh(p) == /\ p.id = 0 /\ p.size = 0 /\ p.count = 0
            /\ p.innerUsagePage = 0 /\ p.innerUsage = 0
            /\ p.len = [t \in Types |-> 0]

\* Before item k, past the head of its collection.
Inside(p, items, k) ==
  /\ p.step = "END_COLLECTION"
  /\ p.depth = Nesting(items, k - 1) /\ p.depth > 0
  /\ p.id = OwnValue(items, k, "REPORT_ID")
  /\ p.size = OwnValue(items, k, "REPORT_SIZE")
  /\ p.count = OwnValue(items, k, "REPORT_COUNT")
  /\ p.innerUsagePage = OwnValue(items, k, "USAGE_PAGE")
  /\ p.innerUsage = OwnValue(items, k, "USAGE")
  /\ ClassOf(p.usagePage, p.usage) = OwnClass(items, k)
  /\ p.len = [t \in Types |-> W16(OwnBits(items, Part(items, Mark(items, k), k - 1, t)))]
  /\ OneId(items, k)

\* The parser before item k: e is the end of the collection before.
ReadInv(p, items, k) ==
  LET e == Before(items, k)
  IN /\ p.ok
     /\ e # 0 => ~p.newMap
     /\ Kept(p, DeclaredUpTo(items, Mark(items, k)))
     /\ k = e + 1  => p.step = "USAGE_PAGE"
     /\ k = e + 2  => /\ p.step = "USAGE" /\ Fresh(p)
                      /\ p.usagePage = items[e + 1].value
     /\ k = e + 3  => /\ p.step = "COLLECTION" /\ Fresh(p)
                      /\ p.usagePage = items[e + 1].value
                      /\ p.usage = items[e + 2].value
     /\ k >= e + 4 => Inside(p, items, k)

LEMMA WidthsAre ==
  ASSUME NEW items, Descriptor(items), NEW k \in 1..Len(items)
  PROVE  /\ items[k].value \in Nat
         /\ items[k].cmd # "OTHER" => W16(items[k].value) = items[k].value
         /\ items[k].cmd = "REPORT_ID" =>
              items[k].value # 0 /\ W8(items[k].value) = items[k].value
         /\ Nesting(items, k) \in Int /\ Nesting(items, k) < 256
<1>1. items[k].value \in Nat
  BY Positions DEF Descriptor
<1>2. /\ items[k].cmd # "OTHER" => items[k].value < 65536
      /\ items[k].cmd = "REPORT_ID" => items[k].value \in 1..255
      /\ Nesting(items, k) < 256
  BY Positions DEF Descriptor, OwnWellFormed, WithinWidths
<1>3. Nesting(items, k) \in Int
  <2>1. k \in Nat
    BY EndsAre
  <2> QED
    BY <2>1, NestingStep
<1> DEFINE v == items[k].value
<1> HIDE DEF v
<1>4. v \in Nat /\ v < 65536 => W16(v) = v
  BY DEF W16
<1>5. v \in 1..255 => v # 0 /\ W8(v) = v
  BY DEF W8
<1>6. items[k].cmd = "REPORT_ID" => items[k].value # 0 /\ W8(items[k].value) = items[k].value
  BY <1>2, <1>5 DEF v
<1>7. items[k].cmd # "OTHER" => W16(items[k].value) = items[k].value
  BY <1>1, <1>2, <1>4 DEF v
<1> QED
  BY <1>1, <1>2, <1>3, <1>6, <1>7

\* The head of a collection.
LEMMA HeadStep ==
  ASSUME NEW items, Descriptor(items), NEW k \in 1..Len(items), k <= Before(items, k) + 3,
         NEW p, IsParser(p), ReadInv(p, items, k)
  PROVE  ReadInv(handle_cmd(p, items[k]), items, k + 1)
<1> DEFINE e == Before(items, k)
           q == handle_cmd(p, items[k])
<1>0. Len(items) \in Nat /\ k \in Nat \ {0} /\ k + 1 \in 1..Len(items) + 1 /\ k + 1 \in Nat \ {0}
  BY EndsAre
<1>1. e \in Ends(items) /\ e \in Nat /\ e < k /\ e # Len(items)
  BY <1>0, BeforeIs
<1>2. /\ e + 3 < Len(items)
      /\ items[e + 1].cmd = "USAGE_PAGE"
      /\ items[e + 2].cmd = "USAGE"
      /\ items[e + 3].cmd = "COLLECTION" /\ items[e + 3].value = 1
      /\ Nesting(items, e + 3) = 1
  BY <1>1, Heads
<1> DEFINE c == Mark(items, k)
<1>3. /\ p.ok /\ (e # 0 => ~p.newMap) /\ Kept(p, DeclaredUpTo(items, c))
      /\ k = e + 1  => p.step = "USAGE_PAGE"
      /\ k = e + 2  => /\ p.step = "USAGE" /\ Fresh(p)
                       /\ p.usagePage = items[e + 1].value
      /\ k = e + 3  => /\ p.step = "COLLECTION" /\ Fresh(p)
                       /\ p.usagePage = items[e + 1].value
                       /\ p.usage = items[e + 2].value
  BY DEF ReadInv
<1>4. k <= e + 3
  OBVIOUS
<1> HIDE DEF e, q, c
<1>5. items[k].cmd \in {"USAGE_PAGE", "USAGE", "COLLECTION"}
  BY <1>0, <1>1, <1>2, <1>4
<1>6. k \notin Marks(items)
  BY <1>0, <1>5, MarksAre
<1>7. Before(items, k + 1) = e /\ Mark(items, k + 1) = c
  BY <1>0, <1>6, NextPosition DEF Marks, e, c
<1>8. W16(items[k].value) = items[k].value
  BY <1>5, WidthsAre
<1>9. IsParser(q)
  BY <1>3, ItemIsParser DEF q
<1> SUFFICES /\ q.ok
             /\ q.newMap = p.newMap /\ q.temp = p.temp
             /\ k = e + 1 => /\ q.step = "USAGE" /\ Fresh(q)
                             /\ q.usagePage = items[e + 1].value
             /\ k = e + 2 => /\ q.step = "COLLECTION" /\ Fresh(q)
                             /\ q.usagePage = items[e + 1].value
                             /\ q.usage = items[e + 2].value
             /\ k = e + 3 => Inside(q, items, k + 1)
  <2> SUFFICES ReadInv(q, items, k + 1)
    BY DEF q
  <2>1. Kept(q, DeclaredUpTo(items, c))
    BY <1>3 DEF Kept, Listing
  <2>2. /\ k + 1 = e + 2 <=> k = e + 1
        /\ k + 1 = e + 3 <=> k = e + 2
        /\ k + 1 >= e + 4 <=> k = e + 3
        /\ k + 1 # e + 1
    BY <1>0, <1>1, <1>4
  <2> QED
    BY <1>3, <1>7, <2>1, <2>2 DEF ReadInv
<1>10. CASE k = e + 1
  <2>1. q = BeginCollection(p, items[k].value)
    BY <1>2, <1>3, <1>10 DEF q, handle_cmd
  <2> QED
    BY <1>1, <1>8, <1>10, <2>1 DEF BeginCollection, PowerOn, Fresh
<1>11. CASE k = e + 2
  <2>1. q = [p EXCEPT !.usage = W16(items[k].value), !.step = "COLLECTION"]
    BY <1>2, <1>3, <1>11 DEF q, handle_cmd
  <2>2. DOMAIN p = Names
    BY DEF IsParser
  <2> QED
    BY <1>1, <1>3, <1>8, <1>11, <2>1, <2>2 DEF Fresh, Names
<1>12. CASE k = e + 3
  <2>1. q = [p EXCEPT !.id = 0, !.depth = 1, !.step = "END_COLLECTION"]
    BY <1>2, <1>3, <1>12 DEF q, handle_cmd
  <2>2. DOMAIN p = Names
    BY DEF IsParser
  <2>3. /\ q.ok /\ q.newMap = p.newMap /\ q.temp = p.temp /\ q.step = "END_COLLECTION"
        /\ Fresh(q) /\ q.depth = 1 /\ q.usagePage = items[e + 1].value /\ q.usage = items[e + 2].value
    BY <1>3, <1>12, <2>1, <2>2 DEF Fresh, Names
  <2>4. \A cmd : OwnValue(items, k + 1, cmd) = 0
    <3>1. k + 1 <= Before(items, k + 1) + 4
      BY <1>1, <1>7, <1>12
    <3> QED
      BY <1>0, <3>1, ValueStart
  <2>5. (k + 1) - 1 = k /\ k = e + 3
    BY <1>0, <1>12
  <2>6. \A i \in Nat : e < i /\ i < k + 1 => i \in {e + 1, e + 2, e + 3}
    BY <1>0, <1>1, <1>12
  <2>7. \A i \in Nat : e < i /\ i < k + 1 => items[i].cmd \in {"USAGE_PAGE", "USAGE", "COLLECTION"}
    BY <1>2, <2>6
  <2>8. e <= c
    BY <1>0, BeforeIs DEF e, c
  <2>9. c \in Nat
    BY <1>0, BeforeIs DEF c
  <2>10. ClassOf(q.usagePage, q.usage) = OwnClass(items, k + 1)
    <3>1. \A i \in Changes(items) : i \in Nat /\ items[i].cmd = "REPORT_ID"
      BY <1>0, Positions DEF Changes, Descriptor
    <3>2. {i \in Changes(items) : e < i /\ i < k + 1} = {}
      BY <2>7, <3>1
    <3> QED
      BY <1>7, <2>3, <3>2 DEF OwnClass
  <2>11. \A j \in Mains(items) : ~(c < j /\ j < k + 1)
    <3>1. \A j \in Mains(items) : j \in Nat /\ items[j].cmd \in Types
      BY MainsAre
    <3>2. \A j \in Mains(items) : c < j => e < j
      BY <1>1, <2>8, <2>9, <3>1
    <3> QED
      BY <2>7, <3>1, <3>2 DEF Types
  <2>12. OneId(items, k + 1)
    BY <1>7, <2>11 DEF OneId
  <2>13. \A t \in Types : W16(OwnBits(items, Part(items, c, k, t))) = 0
    <3> TAKE t \in Types
    <3>1. \A j \in Mains(items) : j <= k => j < k + 1
      BY <1>0, MainsAre
    <3>2. Part(items, c, k, t) = {}
      BY <2>11, <3>1 DEF Part
    <3>3. OwnBits(items, Part(items, c, k, t)) = 0
      BY <1>0, <3>2, BitsNone
    <3> QED
      BY <3>3 DEF W16
  <2>14. q.len = [t \in Types |-> W16(OwnBits(items, Part(items, c, k, t)))]
    BY <2>3, <2>13 DEF Fresh
  <2>15. Inside(q, items, k + 1)
    BY <1>2, <1>7, <2>3, <2>4, <2>5, <2>10, <2>12, <2>14 DEF Inside, Fresh
  <2> QED
    BY <1>0, <1>1, <1>12, <2>3, <2>15
<1> QED
  BY <1>0, <1>1, <1>4, <1>10, <1>11, <1>12

\* What an item between two marks changes.
LEMMA PlainPosition ==
  ASSUME NEW items, Descriptor(items), NEW k \in 1..Len(items), k \notin Marks(items),
         Before(items, k) + 4 <= k, OneId(items, k)
  PROVE  /\ Before(items, k + 1) = Before(items, k)
         /\ Mark(items, k + 1) = Mark(items, k)
         /\ OwnClass(items, k + 1) = OwnClass(items, k)
         /\ \A cmd : OwnValue(items, k + 1, cmd) =
                      IF items[k].cmd = cmd THEN items[k].value ELSE OwnValue(items, k, cmd)
         /\ \A t \in Types :
              OwnBits(items, Part(items, Mark(items, k), k, t)) =
                OwnBits(items, Part(items, Mark(items, k), k - 1, t))
                + (IF items[k].cmd = t
                   THEN OwnValue(items, k, "REPORT_SIZE") * OwnValue(items, k, "REPORT_COUNT") ELSE 0)
         /\ OneId(items, k + 1)
         /\ items[k].cmd = "REPORT_ID" =>
              OwnValue(items, k, "REPORT_ID") \in {0, items[k].value}
<1> DEFINE c == Mark(items, k)
           P(n, t) == Part(items, c, n, t)
<1>0. /\ Len(items) \in Nat /\ k \in Nat \ {0} /\ k + 1 \in Nat \ {0}
      /\ c \in Nat /\ c < k /\ c < k + 1 /\ Before(items, k) <= c
      /\ \A j \in Mains(items) : j \in Nat /\ items[j].cmd \in Types
  BY EndsAre, MainsAre, BeforeIs
<1>1. Before(items, k + 1) = Before(items, k) /\ Mark(items, k + 1) = c
  BY <1>0, NextPosition DEF Marks
<1>2. OwnClass(items, k) = OwnClass(items, k + 1)
  BY <1>0, <1>1, MarkClass
<1>3. \A cmd : OwnValue(items, k + 1, cmd) =
               IF items[k].cmd = cmd THEN items[k].value ELSE OwnValue(items, k, cmd)
  BY ValueStep DEF Marks
<1>4. ASSUME items[k].cmd = "REPORT_ID"
      PROVE  OwnValue(items, k, "REPORT_ID") \in {0, items[k].value}
  BY <1>4, Positions DEF Marks, Changes, Descriptor
<1>5. ASSUME NEW t \in Types
      PROVE  OwnBits(items, P(k, t)) =
               OwnBits(items, P(k - 1, t))
               + (IF items[k].cmd = t
                  THEN OwnValue(items, k, "REPORT_SIZE") * OwnValue(items, k, "REPORT_COUNT") ELSE 0)
  <2>1. \A j \in Mains(items) : j <= k <=> j <= k - 1 \/ j = k
    BY <1>0
  <2>2. CASE items[k].cmd = t
    <3>1. k \in Mains(items)
      BY <2>2, Positions DEF Mains, Descriptor
    <3>2. P(k, t) = P(k - 1, t) \cup {k}
      BY <1>0, <2>1, <2>2, <3>1 DEF Part
    <3>3. k \notin P(k - 1, t)
      BY <1>0 DEF Part
    <3> QED
      BY <2>2, <3>2, <3>3, BitsAdd
  <2>3. CASE items[k].cmd # t
    <3>1. P(k, t) = P(k - 1, t)
      BY <2>1, <2>3 DEF Part
    <3>2. OwnBits(items, P(k - 1, t)) \in Nat
      BY BitsNat
    <3> QED
      BY <2>3, <3>1, <3>2
  <2> QED
    BY <2>2, <2>3
<1>6. ASSUME NEW j \in Mains(items), c < j, j < k + 1
      PROVE  OwnValue(items, j, "REPORT_ID") = OwnValue(items, k + 1, "REPORT_ID")
  <2>1. CASE j = k
    BY <1>0, <1>3, <2>1 DEF Types
  <2>2. CASE j # k
    <3>1. j < k
      BY <1>0, <1>6, <2>2
    <3>2. OwnValue(items, j, "REPORT_ID") = OwnValue(items, k, "REPORT_ID")
      BY <1>6, <3>1 DEF OneId
    <3>3. Before(items, j) = Before(items, k)
      <4>1. Before(items, k) < j /\ Before(items, k) \in Nat
        BY <1>0, <1>6, BeforeIs
      <4> QED
        BY <1>0, <3>1, <4>1, SameCollection
    <3>4. items[k].cmd = "REPORT_ID" => OwnValue(items, k, "REPORT_ID") # 0
      BY <3>2, <3>3, Positions DEF Descriptor, OwnWellFormed
    <3> QED
      BY <1>3, <1>4, <3>2, <3>4
  <2> QED
    BY <2>1, <2>2
<1>7. OneId(items, k + 1)
  BY <1>1, <1>6 DEF OneId
<1> QED
  BY <1>1, <1>2, <1>3, <1>4, <1>5, <1>7

\* An item between two marks.
LEMMA PlainStep ==
  ASSUME NEW items, Descriptor(items), NEW k \in 1..Len(items), k \notin Marks(items),
         Before(items, k) + 4 <= k, NEW p, IsParser(p), ReadInv(p, items, k)
  PROVE  ReadInv(handle_cmd(p, items[k]), items, k + 1)
<1> DEFINE e == Before(items, k)
           c == Mark(items, k)
           q == handle_cmd(p, items[k])
           cmd == items[k].cmd
           value == items[k].value
           V(x) == OwnValue(items, k, x)
           D == Nesting(items, k)
           L(n) == [t \in Types |-> W16(OwnBits(items, Part(items, c, n, t)))]
<1>0. /\ Len(items) \in Nat /\ k \in Nat \ {0} /\ e \in Nat /\ e + 4 <= k
      /\ k \in 1..Len(items) + 1
  BY EndsAre, BeforeIs
<1>1. /\ p.ok /\ (e # 0 => ~p.newMap) /\ Kept(p, DeclaredUpTo(items, c)) /\ Inside(p, items, k)
  BY <1>0 DEF ReadInv
<1>2. /\ p.step = "END_COLLECTION" /\ p.depth = Nesting(items, k - 1) /\ p.depth > 0
      /\ p.id = V("REPORT_ID") /\ p.size = V("REPORT_SIZE") /\ p.count = V("REPORT_COUNT")
      /\ p.innerUsagePage = V("USAGE_PAGE") /\ p.innerUsage = V("USAGE")
      /\ ClassOf(p.usagePage, p.usage) = OwnClass(items, k)
      /\ p.len = L(k - 1)
      /\ OneId(items, k)
  BY <1>1 DEF Inside
<1>3. /\ Before(items, k + 1) = e
      /\ Mark(items, k + 1) = c
      /\ OwnClass(items, k + 1) = OwnClass(items, k)
      /\ \A x : OwnValue(items, k + 1, x) = IF cmd = x THEN value ELSE V(x)
      /\ \A t \in Types : OwnBits(items, Part(items, c, k, t)) =
           OwnBits(items, Part(items, c, k - 1, t))
           + (IF cmd = t THEN V("REPORT_SIZE") * V("REPORT_COUNT") ELSE 0)
      /\ OneId(items, k + 1)
      /\ cmd = "REPORT_ID" => V("REPORT_ID") \in {0, value}
  BY <1>2, PlainPosition
<1>4. /\ value \in Nat /\ (cmd # "OTHER" => W16(value) = value)
      /\ cmd = "REPORT_ID" => value # 0 /\ W8(value) = value
      /\ D \in Int /\ D < 256
  BY WidthsAre
<1>5. /\ p.depth \in Int
      /\ cmd = "COLLECTION" => D = p.depth + 1
      /\ cmd = "END_COLLECTION" => D = p.depth - 1 /\ D # 0
      /\ cmd \notin {"COLLECTION", "END_COLLECTION"} => D = p.depth
  <2>1. k - 1 \in Nat /\ (k - 1) + 1 = k
    BY <1>0
  <2>2. /\ Nesting(items, k - 1) \in Int
        /\ cmd = "COLLECTION" => D = Nesting(items, k - 1) + 1
        /\ cmd = "END_COLLECTION" => D = Nesting(items, k - 1) - 1
        /\ cmd \notin {"COLLECTION", "END_COLLECTION"} => D = Nesting(items, k - 1)
    BY <2>1, NestingStep
  <2>3. cmd = "END_COLLECTION" => D # 0
    BY EndsAre DEF Marks
  <2> QED
    BY <1>2, <2>2, <2>3
<1>6. IsParser(q)
  BY <1>1, ItemIsParser
<1>7. q = InCollection(p, items[k])
  BY <1>2 DEF handle_cmd
<1>8. /\ \A t \in Types : V("REPORT_SIZE") * V("REPORT_COUNT") \in Nat
      /\ \A t \in Types : OwnBits(items, Part(items, c, k - 1, t)) \in Nat
  <2>1. \A a, b \in Nat : a * b \in Nat
    OBVIOUS
  <2>2. V("REPORT_SIZE") \in Nat /\ V("REPORT_COUNT") \in Nat
    BY <1>0, ValueIs
  <2> QED
    BY <2>1, <2>2, BitsNat
<1>9. DOMAIN p = Names
  BY DEF IsParser
<1>10. cmd \notin Types => L(k) = L(k - 1)
  <2>1. cmd \notin Types => \A t \in Types : OwnBits(items, Part(items, c, k, t)) =
                                           OwnBits(items, Part(items, c, k - 1, t))
    BY <1>3, <1>8
  <2> QED
    BY <2>1
<1> HIDE DEF e, c, q, cmd, value, V, D, L
<1> SUFFICES /\ q.ok /\ q.newMap = p.newMap /\ q.temp = p.temp /\ q.step = "END_COLLECTION"
             /\ q.usagePage = p.usagePage /\ q.usage = p.usage
             /\ q.depth = D /\ D > 0
             /\ q.id = IF cmd = "REPORT_ID" THEN value ELSE p.id
             /\ q.size = IF cmd = "REPORT_SIZE" THEN value ELSE p.size
             /\ q.count = IF cmd = "REPORT_COUNT" THEN value ELSE p.count
             /\ q.innerUsagePage = IF cmd = "USAGE_PAGE" THEN value ELSE p.innerUsagePage
             /\ q.innerUsage = IF cmd = "USAGE" THEN value ELSE p.innerUsage
             /\ q.len = L(k)
  <2>1. Kept(q, DeclaredUpTo(items, c))
    BY <1>1 DEF Kept, Listing
  <2>2. (k + 1) - 1 = k /\ k + 1 >= e + 4 /\ k + 1 # e + 1 /\ k + 1 # e + 2 /\ k + 1 # e + 3
    BY <1>0
  <2>3. /\ q.id = OwnValue(items, k + 1, "REPORT_ID")
        /\ q.size = OwnValue(items, k + 1, "REPORT_SIZE")
        /\ q.count = OwnValue(items, k + 1, "REPORT_COUNT")
        /\ q.innerUsagePage = OwnValue(items, k + 1, "USAGE_PAGE")
        /\ q.innerUsage = OwnValue(items, k + 1, "USAGE")
    BY <1>2, <1>3
  <2>4. Inside(q, items, k + 1)
    BY <1>2, <1>3, <2>2, <2>3 DEF Inside, D, L
  <2>5. ReadInv(q, items, k + 1)
    BY <1>1, <1>3, <2>1, <2>2, <2>4 DEF ReadInv
  <2> QED
    BY <2>5 DEF q
<1>11. CASE cmd = "REPORT_ID"
  <2>1. q = [p EXCEPT !.id = W8(value)]
    <3>1. q = ChangeId(p, value)
      BY <1>7, <1>11 DEF InCollection, Types, cmd, value
    <3>2. p.id = 0 \/ p.id = value
      BY <1>2, <1>3, <1>11
    <3> QED
      BY <1>1, <3>1, <3>2 DEF ChangeId
  <2> QED
    BY <1>1, <1>2, <1>4, <1>5, <1>9, <1>10, <1>11, <2>1 DEF Names, Types
<1>12. CASE cmd = "USAGE_PAGE"
  <2>1. q = [p EXCEPT !.innerUsagePage = value]
    BY <1>4, <1>7, <1>12 DEF InCollection, Types, cmd, value
  <2> QED
    BY <1>1, <1>2, <1>5, <1>9, <1>10, <1>12, <2>1 DEF Names, Types
<1>13. CASE cmd = "USAGE"
  <2>1. q = [p EXCEPT !.innerUsage = value]
    BY <1>4, <1>7, <1>13 DEF InCollection, Types, cmd, value
  <2> QED
    BY <1>1, <1>2, <1>5, <1>9, <1>10, <1>13, <2>1 DEF Names, Types
<1>14. CASE cmd = "REPORT_SIZE"
  <2>1. q = [p EXCEPT !.size = value]
    BY <1>4, <1>7, <1>14 DEF InCollection, Types, cmd, value
  <2> QED
    BY <1>1, <1>2, <1>5, <1>9, <1>10, <1>14, <2>1 DEF Names, Types
<1>15. CASE cmd = "REPORT_COUNT"
  <2>1. q = [p EXCEPT !.count = value]
    BY <1>4, <1>7, <1>15 DEF InCollection, Types, cmd, value
  <2> QED
    BY <1>1, <1>2, <1>5, <1>9, <1>10, <1>15, <2>1 DEF Names, Types
<1>16. CASE cmd \in Types
  <2>1. q = AddMain(p, cmd)
    BY <1>7, <1>16 DEF InCollection, Types, cmd
  <2> DEFINE w == p.size * p.count
  <2>2. q = [p EXCEPT !.len = [p.len EXCEPT ![cmd] = W16(p.len[cmd] + w)]]
    BY <2>1 DEF AddMain
  <2>3. \A a, b \in Nat : W16(W16(a) + b) = W16(a + b)
    BY DEF W16
  <2>4. w \in Nat /\ w = V("REPORT_SIZE") * V("REPORT_COUNT")
    BY <1>2, <1>8 DEF Types
  <2> HIDE DEF w
  <2>5. \A t \in Types : L(k)[t] = IF t = cmd THEN W16(p.len[t] + w) ELSE p.len[t]
    <3> TAKE t \in Types
    <3> DEFINE b == OwnBits(items, Part(items, c, k - 1, t))
    <3>1. L(k)[t] = W16(b + (IF cmd = t THEN w ELSE 0)) /\ p.len[t] = W16(b) /\ b \in Nat
      BY <1>2, <1>3, <1>8, <2>4 DEF L
    <3> HIDE DEF b
    <3>2. CASE t = cmd
      BY <2>3, <2>4, <3>1, <3>2
    <3>3. CASE t # cmd
      BY <3>1, <3>3
    <3> QED
      BY <3>2, <3>3
  <2>6. L(k) = [p.len EXCEPT ![cmd] = W16(p.len[cmd] + w)]
    <3>1. DOMAIN p.len = Types /\ L(k) = [t \in Types |-> L(k)[t]]
      BY <1>2 DEF L
    <3> QED
      BY <1>16, <2>5, <3>1
  <2>7. q.len = L(k)
    BY <1>9, <2>2, <2>6 DEF Names
  <2>8. \A n \in Names \ {"len"} : q[n] = p[n]
    BY <1>9, <2>2
  <2> QED
    BY <1>1, <1>2, <1>5, <1>16, <2>7, <2>8 DEF Names, Types
<1>17. CASE cmd = "COLLECTION"
  <2>1. q = [p EXCEPT !.depth = W8(p.depth + 1)]
    BY <1>7, <1>17 DEF InCollection, Types, cmd
  <2>2. W8(p.depth + 1) = D /\ D > 0
    BY <1>2, <1>4, <1>5, <1>17 DEF W8
  <2> QED
    BY <1>1, <1>2, <1>9, <1>10, <1>17, <2>1, <2>2 DEF Names, Types
<1>18. CASE cmd = "END_COLLECTION"
  <2>1. q = EndCollection(p)
    BY <1>7, <1>18 DEF InCollection, Types, cmd
  <2>2. W8(p.depth + 255) = D /\ D > 0
    <3>1. p.depth < 256
      <4>1. k - 1 \in 1..Len(items)
        BY <1>0
      <4> QED
        BY <1>2, <4>1, WidthsAre
    <3> DEFINE d == p.depth
    <3>2. d \in Int /\ d > 0 /\ d < 256 /\ D = d - 1 /\ D # 0
      BY <1>2, <1>5, <1>18, <3>1
    <3> HIDE DEF d
    <3>3. W8(d + 255) = d - 1 /\ d - 1 > 0
      BY <3>2 DEF W8
    <3> QED
      BY <3>2, <3>3 DEF d
  <2>3. q = [p EXCEPT !.depth = D]
    <3>1. [p EXCEPT !.depth = D].depth # 0
      BY <1>4, <1>9, <2>2 DEF Names
    <3> QED
      BY <2>1, <2>2, <3>1 DEF EndCollection
  <2> QED
    BY <1>1, <1>2, <1>9, <1>10, <1>18, <2>2, <2>3 DEF Names, Types
<1>19. CASE cmd \notin {"REPORT_ID", "USAGE_PAGE", "USAGE", "REPORT_SIZE", "REPORT_COUNT",
                         "COLLECTION", "END_COLLECTION"} \cup Types
  <2>1. q = p
    BY <1>7, <1>19 DEF InCollection, cmd
  <2> QED
    BY <1>1, <1>2, <1>5, <1>10, <1>19, <2>1
<1> QED
  BY <1>11, <1>12, <1>13, <1>14, <1>15, <1>16, <1>17, <1>18, <1>19

\* At a mark the parser lists what has come to be declared since the last.
LEMMA MarkReport ==
  ASSUME NEW items, Descriptor(items), NEW k \in 1..Len(items), k \in Marks(items),
         NEW p, IsParser(p), Inside(p, items, k), Kept(p, DeclaredUpTo(items, Mark(items, k))),
         NEW q, IsParser(q), \A n \in Names \ {"depth"} : q[n] = p[n]
  PROVE  /\ WholeBytes(q)
         /\ Fits(q)
         /\ ~handle_report(q).newMap
         /\ Kept(handle_report(q), DeclaredUpTo(items, k))
<1> DEFINE S == DeclaredUpTo(items, Mark(items, k))
           len == [t \in Types |-> OwnBits(items, Part(items, Mark(items, k), k - 1, t))]
           T == Section(OwnClass(items, k), OwnValue(items, k, "REPORT_ID"), len)
<1>1. OneId(items, k)
  BY DEF Inside
<1>2. \A t \in Types : len[t] = OwnBits(items, Part(items, Mark(items, k), k - 1, t))
  OBVIOUS
<1> HIDE DEF len
<1>3. /\ \A t \in Types : len[t] \in Nat /\ len[t] % 8 = 0 /\ len[t] < 65536
      /\ DeclaredUpTo(items, k) = S \cup T
      /\ S \cap T = {}
  BY <1>1, <1>2, MarkDeclares
<1>4. \A t \in Types : W16(len[t]) = len[t]
  BY <1>3 DEF W16
<1>5. p.len = len
  BY <1>2, <1>4 DEF Inside, len
<1>6. /\ q.len = len /\ q.id = OwnValue(items, k, "REPORT_ID")
      /\ ClassOf(q.usagePage, q.usage) = OwnClass(items, k)
      /\ q.newMap = p.newMap /\ q.temp = p.temp
  BY <1>5 DEF Inside, Names
<1>7. Kept(q, S)
  BY <1>6 DEF Kept, Listing
<1>8. T = Section(ClassOf(q.usagePage, q.usage), q.id, q.len)
  BY <1>6
<1>9. k \in Nat /\ S \cup T \subseteq Report
  BY <1>3, EndsAre, UpToAre
<1> DEFINE U == DeclaredUpTo(items, k)
<1>10. \A s : Lists(s, U) => Len(s) <= MaxReports
  BY <1>9, Room
<1> HIDE DEF S, T
<1>11. WholeBytes(q)
  BY <1>3, <1>6 DEF WholeBytes
<1>12. /\ Fits(q)
       /\ ~handle_report(q).newMap
       /\ Kept(handle_report(q), S \cup T)
  <2>1. S \cup T = U
    BY <1>3
  <2>2. \A s : Lists(s, S \cup T) => Len(s) <= MaxReports
    BY <1>10, <2>1
  <2> HIDE DEF U
  <2>3. S \cap T = {} /\ S \cup T \subseteq Report
    BY <1>3, <1>9
  <2> QED
    BY <1>7, <1>8, <2>2, <2>3, ReportKept
<1> QED
  BY <1>3, <1>11, <1>12

LEMMA PastHead ==
  ASSUME NEW items, Descriptor(items), NEW k \in 1..Len(items), k \in Marks(items)
  PROVE  Before(items, k) + 4 <= k
<1> DEFINE e == Before(items, k)
<1>1. Len(items) \in Nat /\ k \in Nat \ {0}
  BY EndsAre
<1>2. e \in Ends(items) /\ e \in Nat /\ e < k /\ e # Len(items)
  BY <1>1, BeforeIs
<1>3. items[e + 1].cmd = "USAGE_PAGE" /\ items[e + 2].cmd = "USAGE" /\ items[e + 3].cmd = "COLLECTION"
  BY <1>2, Heads
<1>4. items[k].cmd \in {"END_COLLECTION", "REPORT_ID"}
  BY <1>1, MarksAre
<1> HIDE DEF e
<1>5. k # e + 1 /\ k # e + 2 /\ k # e + 3
  BY <1>3, <1>4
<1> QED
  BY <1>1, <1>2, <1>5 DEF e

\* The collection goes on to a further id.
LEMMA ChangeStep ==
  ASSUME NEW items, Descriptor(items), NEW k \in 1..Len(items), k \in Changes(items),
         NEW p, IsParser(p), ReadInv(p, items, k)
  PROVE  ReadInv(handle_cmd(p, items[k]), items, k + 1)
<1> DEFINE e == Before(items, k)
           q == handle_cmd(p, items[k])
           value == items[k].value
           r == handle_report(p)
<1>0. /\ Len(items) \in Nat /\ k \in Nat \ {0} /\ k \in Marks(items) /\ (k + 1) - 1 = k
      /\ k - 1 \in Nat /\ (k - 1) + 1 = k
  BY EndsAre DEF Marks
<1>1. /\ items[k].cmd = "REPORT_ID"
      /\ OwnValue(items, k, "REPORT_ID") # 0 /\ OwnValue(items, k, "REPORT_ID") # value
      /\ k \notin Ends(items)
  <2>1. items[k].cmd = "REPORT_ID" /\ OwnValue(items, k, "REPORT_ID") \notin {0, value}
    BY DEF Changes
  <2> QED
    BY <1>0, <2>1, EndsAre
<1>2. e \in Nat /\ e + 4 <= k /\ Before(items, k + 1) = e /\ Mark(items, k + 1) = k
  BY <1>0, <1>1, PastHead, BeforeIs, NextPosition
<1>3. p.ok /\ Inside(p, items, k) /\ Kept(p, DeclaredUpTo(items, Mark(items, k)))
  BY <1>2 DEF ReadInv
<1>4. WholeBytes(p) /\ Fits(p) /\ ~r.newMap /\ Kept(r, DeclaredUpTo(items, k))
  BY <1>0, <1>3, MarkReport
<1>5. /\ r = [n \in Names |-> r[n]]
      /\ \A n \in Names \ {"temp", "newMap", "step", "ok"} : r[n] = p[n]
      /\ r.step = p.step /\ r.ok
  BY <1>4, ReportFields
<1>6. W8(value) = value
  BY <1>1, WidthsAre
<1>7. p.step = "END_COLLECTION" /\ p.id = OwnValue(items, k, "REPORT_ID")
  BY <1>3 DEF Inside
<1>8. q = ChangeId(p, value)
  BY <1>1, <1>7 DEF handle_cmd, InCollection, Types
<1> DEFINE next == [r EXCEPT !.len = [t \in Types |-> 0],
                             !.usage = p.innerUsage, !.usagePage = p.innerUsagePage]
<1>9. q = IF next.ok THEN [next EXCEPT !.id = W8(value)] ELSE r
  BY <1>1, <1>4, <1>7, <1>8 DEF ChangeId
<1> HIDE DEF r, q, e, value
<1>10. DOMAIN r = Names
  BY <1>5
<1>11. next.ok /\ DOMAIN next = Names
  BY <1>5, <1>10 DEF Names
<1>12. q = [next EXCEPT !.id = value]
  BY <1>6, <1>9, <1>11
<1>13. /\ q.ok /\ q.step = "END_COLLECTION" /\ q.newMap = r.newMap /\ q.temp = r.temp
       /\ q.id = value /\ q.len = [t \in Types |-> 0]
       /\ q.usagePage = p.innerUsagePage /\ q.usage = p.innerUsage
       /\ q.depth = p.depth /\ q.size = p.size /\ q.count = p.count
       /\ q.innerUsagePage = p.innerUsagePage /\ q.innerUsage = p.innerUsage
  BY <1>5, <1>7, <1>10, <1>12 DEF Names
<1> HIDE DEF next
<1>14. Kept(q, DeclaredUpTo(items, k)) /\ ~q.newMap
  BY <1>4, <1>13 DEF Kept, Listing
<1>15. \A x : OwnValue(items, k + 1, x) =
            IF x = "REPORT_ID" THEN value ELSE OwnValue(items, k, x)
  <2> TAKE x
  <2>1. Before(items, k) + 4 <= k
    BY <1>2 DEF e
  <2>2. OwnValue(items, k + 1, x) =
          IF items[k].cmd = x THEN items[k].value ELSE OwnValue(items, k, x)
    BY <1>1, <2>1, ValueStep
  <2> QED
    BY <1>1, <2>2 DEF value
<1>16. Nesting(items, k) = Nesting(items, k - 1)
  <2>1. PICK n \in Nat : n = k - 1 /\ n + 1 = k
    BY <1>0
  <2>2. items[n + 1].cmd \notin {"COLLECTION", "END_COLLECTION"}
    BY <1>1, <2>1
  <2>3. Nesting(items, n + 1) = Nesting(items, n)
    BY <2>2, NestingStep
  <2> QED
    BY <2>1, <2>3
<1>17. OwnClass(items, k + 1) = ClassOf(OwnValue(items, k, "USAGE_PAGE"), OwnValue(items, k, "USAGE"))
  <2> DEFINE X == {i \in Changes(items) : e < i /\ i < k + 1}
  <2>1. Changes(items) \in SUBSET Nat
    BY MarksAre DEF Marks
  <2>2. e < k /\ k < k + 1
    BY <1>0, <1>2
  <2>3. k \in X /\ X \in SUBSET Int /\ \A i \in X : k >= i
    BY <1>0, <2>1, <2>2
  <2> HIDE DEF X
  <2>4. Max(X) = k /\ X # {}
    BY <2>3, MaxIs
  <2> QED
    BY <1>2, <2>4 DEF OwnClass, X
<1>18. \A j \in Mains(items) : ~(k < j /\ j < k + 1)
  BY <1>0, MainsAre
<1>19. \A t \in Types : W16(OwnBits(items, Part(items, k, k, t))) = 0
  <2> TAKE t \in Types
  <2>1. Part(items, k, k, t) = {}
    BY <1>0, MainsAre DEF Part
  <2>2. OwnBits(items, Part(items, k, k, t)) = 0
    BY <1>0, <2>1, BitsNone
  <2> QED
    BY <2>2 DEF W16
<1>20. q.len = [t \in Types |-> W16(OwnBits(items, Part(items, k, k, t)))]
  BY <1>13, <1>19
<1>21. OneId(items, k + 1)
  BY <1>2, <1>18 DEF OneId
<1>22. Inside(q, items, k + 1)
  BY <1>0, <1>2, <1>3, <1>13, <1>15, <1>16, <1>17, <1>20, <1>21 DEF Inside
<1>23. k + 1 # e + 1 /\ k + 1 # e + 2 /\ k + 1 # e + 3
  BY <1>0, <1>2
<1>24. ReadInv(q, items, k + 1)
  BY <1>2, <1>13, <1>14, <1>22, <1>23 DEF ReadInv
<1> QED
  BY <1>24 DEF q

\* The collection ends.
LEMMA EndStep ==
  ASSUME NEW items, Descriptor(items), NEW k \in 1..Len(items), k \in Ends(items),
         NEW p, IsParser(p), ReadInv(p, items, k)
  PROVE  ReadInv(handle_cmd(p, items[k]), items, k + 1)
<1> DEFINE q == handle_cmd(p, items[k])
           next == [p EXCEPT !.depth = 0]
           r == handle_report(next)
<1>0. /\ Len(items) \in Nat /\ k \in Nat \ {0} /\ k \in Marks(items)
      /\ k - 1 \in Nat /\ (k - 1) + 1 = k
  BY EndsAre DEF Marks
<1>1. items[k].cmd = "END_COLLECTION" /\ Nesting(items, k) = 0
  BY EndsAre
<1>2. Before(items, k) \in Nat /\ Before(items, k) + 4 <= k
  BY <1>0, PastHead, BeforeIs
<1>3. p.ok /\ Inside(p, items, k) /\ Kept(p, DeclaredUpTo(items, Mark(items, k)))
  BY <1>2 DEF ReadInv
<1>4. DOMAIN p = Names
  BY DEF IsParser
<1>5. IsParser(next) /\ \A n \in Names \ {"depth"} : next[n] = p[n]
  BY <1>4 DEF IsParser, Names
<1> HIDE DEF next
<1>6. WholeBytes(next) /\ Fits(next) /\ ~r.newMap /\ Kept(r, DeclaredUpTo(items, k))
  BY <1>0, <1>3, <1>5, MarkReport
<1>7. r = [n \in Names |-> r[n]] /\ r.ok
  BY <1>5, <1>6, ReportFields
<1>8. W8(p.depth + 255) = 0
  <2>1. Nesting(items, k - 1) \in Int /\ Nesting(items, k) = Nesting(items, k - 1) - 1
    <3>1. PICK n \in Nat : n = k - 1 /\ n + 1 = k
      BY <1>0
    <3>2. items[n + 1].cmd = "END_COLLECTION"
      BY <1>1, <3>1
    <3>3. Nesting(items, n) \in Int /\ Nesting(items, n + 1) = Nesting(items, n) - 1
      BY <3>2, NestingStep
    <3> QED
      BY <3>1, <3>3
  <2>2. p.depth = 1
    BY <1>1, <1>3, <2>1 DEF Inside
  <2> QED
    BY <2>2 DEF W8
<1>9. WholeBytes(p)
  BY <1>5, <1>6 DEF WholeBytes, Names
<1>10. q = [r EXCEPT !.step = "USAGE_PAGE"]
  <2>1. q = EndCollection(p)
    BY <1>1, <1>3 DEF handle_cmd, InCollection, Types, Inside
  <2>2. next.depth = 0
    BY <1>4 DEF Names, next
  <2>3. EndCollection(p) = IF next.depth # 0 THEN next
                           ELSE IF WholeBytes(p) THEN [r EXCEPT !.step = "USAGE_PAGE"]
                           ELSE [next EXCEPT !.step = "USAGE_PAGE"]
    BY <1>8 DEF EndCollection, next
  <2> QED
    BY <1>9, <2>1, <2>2, <2>3
<1> HIDE DEF r, q
<1>11. q.ok /\ q.step = "USAGE_PAGE" /\ q.newMap = r.newMap /\ q.temp = r.temp
  BY <1>7, <1>10 DEF Names
<1>12. Kept(q, DeclaredUpTo(items, k)) /\ ~q.newMap
  BY <1>6, <1>11 DEF Kept, Listing
<1>13. Before(items, k + 1) = k /\ Mark(items, k + 1) = k
  BY <1>0, NextPosition
<1>14. k + 1 # k + 2 /\ k + 1 # k + 3 /\ ~(k + 1 >= k + 4)
  BY <1>0
<1>15. ReadInv(q, items, k + 1)
  BY <1>11, <1>12, <1>13, <1>14 DEF ReadInv
<1> QED
  BY <1>15 DEF q

\* One item of a well-formed descriptor.
LEMMA ReadStep ==
  ASSUME NEW items, Descriptor(items), NEW k \in 1..Len(items),
         NEW p, IsParser(p), ReadInv(p, items, k)
  PROVE  ReadInv(handle_cmd(p, items[k]), items, k + 1)
<1>1. CASE k <= Before(items, k) + 3
  BY <1>1, HeadStep
<1>2. CASE k \in Marks(items)
  BY <1>2, ChangeStep, EndStep DEF Marks
<1>3. CASE k \notin Marks(items) /\ ~(k <= Before(items, k) + 3)
  <2>1. Before(items, k) + 4 <= k
    <3>1. k \in Nat \ {0}
      BY EndsAre
    <3>2. Before(items, k) \in Nat
      BY <3>1, BeforeIs
    <3> QED
      BY <1>3, <3>1, <3>2
  <2> QED
    BY <1>3, <2>1, PlainStep
<1> QED
  BY <1>1, <1>2, <1>3

LEMMA ReadStart ==
  ASSUME NEW items, Descriptor(items), NEW p, IsParser(p), p.step = "USAGE_PAGE"
  PROVE  ReadInv(BeginMap(p), items, 1)
<1> DEFINE q == BeginMap(p)
<1>1. q.ok = TRUE /\ q.newMap = TRUE /\ q.step = "USAGE_PAGE"
  BY DEF BeginMap, IsParser, Names
<1> HIDE DEF q
<1>2. Before(items, 1) = 0 /\ Mark(items, 1) = 0
  BY BeforeIs
<1>3. DeclaredUpTo(items, 0) = {}
  BY MainsAre DEF DeclaredUpTo
<1>4. Kept(q, {})
  BY <1>1, ListsNone DEF Kept, Listing
<1>5. ReadInv(q, items, 1)
  BY <1>1, <1>2, <1>3, <1>4 DEF ReadInv
<1> QED
  BY <1>5 DEF q

\* At the end of the descriptor all of it has been listed.
LEMMA ReadEnd ==
  ASSUME NEW items, Descriptor(items), NEW p, ReadInv(p, items, Len(items) + 1)
  PROVE  /\ p.step = "USAGE_PAGE"
         /\ p.temp # NULL
         /\ Lists(p.temp.reports, OwnDeclared(items))
<1> DEFINE n == Len(items)
<1>1. n \in Nat \ {0} /\ n \in Ends(items)
  BY EndsAre
<1>2. Before(items, n + 1) = n /\ Mark(items, n + 1) = n
  BY <1>1, NextPosition DEF Marks
<1>3. /\ p.step = "USAGE_PAGE" /\ ~p.newMap /\ Kept(p, DeclaredUpTo(items, n))
  BY <1>1, <1>2 DEF ReadInv
<1> QED
  BY <1>3, NullAssumption, UpToEnd DEF Kept, Listing

\* After an error the parser waits for the head of a collection.
LEMMA ErrorStep ==
  ASSUME NEW p, IsParser(p), p.ok, NEW item, ~handle_cmd(p, item).ok
  PROVE  handle_cmd(p, item).step = "USAGE_PAGE"
<1> DEFINE q == handle_cmd(p, item)
<1>0. DOMAIN p = Names
  BY DEF IsParser
<1>1. CASE q = Reject(p)
  BY <1>0, <1>1 DEF Reject, Names
<1>2. CASE p.step # "END_COLLECTION" /\ q # Reject(p)
  BY <1>0, <1>2 DEF handle_cmd, BeginCollection, PowerOn, Names, IsParser, Steps
<1>3. CASE p.step = "END_COLLECTION"
  <2>0. q = InCollection(p, item)
    BY <1>3 DEF handle_cmd
  <2>1. CASE item.cmd = "REPORT_ID"
    <3> DEFINE r == handle_report(p)
               next == IF p.id # 0 /\ p.id # item.value /\ WholeBytes(p)
                       THEN [r EXCEPT !.len = [t \in Types |-> 0],
                                      !.usage = p.innerUsage, !.usagePage = p.innerUsagePage]
                       ELSE p
    <3>1. q = IF next.ok THEN [next EXCEPT !.id = W8(item.value)] ELSE r
      BY <2>0, <2>1 DEF InCollection, ChangeId, Types
    <3>2. r = [n \in Names |-> r[n]] /\ r.ok = Fits(p) /\ (~Fits(p) => r.step = "USAGE_PAGE")
      BY ReportFields
    <3> HIDE DEF r
    <3>3. DOMAIN next = Names /\ (~next.ok => ~r.ok)
      BY <1>0, <3>2 DEF Names
    <3> HIDE DEF next
    <3>4. CASE next.ok
      BY <3>1, <3>3, <3>4 DEF Names
    <3>5. CASE ~next.ok
      BY <3>1, <3>2, <3>3, <3>5
    <3> QED
      BY <3>4, <3>5
  <2>2. CASE item.cmd = "END_COLLECTION"
    <3> DEFINE next == [p EXCEPT !.depth = W8(@ + 255)]
               r == handle_report(next)
    <3>1. q = IF next.depth # 0 THEN next
              ELSE IF WholeBytes(p) THEN [r EXCEPT !.step = "USAGE_PAGE"]
              ELSE [next EXCEPT !.step = "USAGE_PAGE"]
      BY <2>0, <2>2 DEF InCollection, EndCollection, Types
    <3>2. IsParser(next) /\ next.ok
      BY <1>0 DEF IsParser, Names
    <3> HIDE DEF next
    <3>3. r = [n \in Names |-> r[n]]
      BY <3>2, ReportFields
    <3>4. DOMAIN next = Names
      BY <3>2 DEF IsParser
    <3> HIDE DEF r
    <3> QED
      BY <3>1, <3>2, <3>3, <3>4 DEF Names
  <2>3. CASE item.cmd \notin {"REPORT_ID", "END_COLLECTION"}
    <3>1. q.ok = p.ok
      BY <1>0, <2>0, <2>3 DEF InCollection, AddMain, Names, Types
    <3> QED
      BY <3>1
  <2> QED
    BY <2>1, <2>2, <2>3
<1> QED
  BY <1>1, <1>2, <1>3

---------------------------------------------------------------------------
(* As long as no map has ended inside a collection. *)

MapsAreListed ==
  pc = "merging" /\ ~misled /\ Map.whole /\ OwnWellFormed(Map.items) =>
    Lists(Parsed, OwnDeclared(Map.items))

DeclaredInv ==
  /\ ~misled /\ pc # "parsing" => parser.step = "USAGE_PAGE"
  /\ ~misled /\ pc = "parsing" /\ OwnWellFormed(Map.items) => ReadInv(parser, Map.items, pos + 1)
  /\ MapsAreListed

LEMMA DeclaredStart == Init => DeclaredInv
BY DEF Init, DeclaredInv, MapsAreListed, PowerOn

LEMMA DeclaredStep == TraceInv /\ TraceInv' /\ DeclaredInv /\ [Next]_vars => DeclaredInv'
<1> SUFFICES ASSUME TraceInv, TraceInv', DeclaredInv, [Next]_vars PROVE DeclaredInv'
  OBVIOUS
<1>1. ASSUME NEW d \in Devices, Open(d) PROVE DeclaredInv'
  BY <1>1 DEF DeclaredInv, Open, MapsAreListed
<1>2. CASE NextService
  <2>1. CASE (pc' = "idle" \/ pc' = "service") /\ UNCHANGED parser
    BY <1>2, <2>1 DEF DeclaredInv, NextService, MapsAreListed
  <2>2. CASE parser' = BeginMap(parser) /\ pos' = 0 /\ pc' = "parsing"
    <3>1. pc = "service" /\ misled' = misled /\ IsParser(parser)
      BY <1>2 DEF NextService, TraceInv
    <3>2. Map' \in ReportMap
      BY <2>2 DEF TraceInv
    <3> DEFINE items == Map'.items
    <3>3. items \in Seq(MapItem)
      BY <3>2, LengthType
    <3>4. ASSUME ~misled, OwnWellFormed(items) PROVE ReadInv(parser', items, pos' + 1)
      <4>1. parser.step = "USAGE_PAGE"
        BY <3>1, <3>4 DEF DeclaredInv
      <4>2. Descriptor(items)
        BY <3>3, <3>4 DEF Descriptor
      <4> HIDE DEF items
      <4>3. ReadInv(BeginMap(parser), items, 1)
        BY <3>1, <4>1, <4>2, ReadStart
      <4> QED
        BY <2>2, <4>3
    <3>5. MapsAreListed'
      BY <2>2 DEF MapsAreListed
    <3> QED
      BY <2>2, <3>1, <3>4, <3>5 DEF DeclaredInv
  <2> QED
    BY <1>2, <2>1, <2>2 DEF NextService
<1>3. CASE ReadItem
  <2> DEFINE items == Map.items
  <2>1. /\ pc = "parsing" /\ IsParser(parser) /\ parser.ok
        /\ pos \in 0..Len(items) /\ pos < Len(items)
        /\ parser' = handle_cmd(parser, items[pos + 1]) /\ pos' = pos + 1
        /\ Map' = Map /\ misled' = misled /\ Map \in ReportMap
    BY <1>3 DEF TraceInv, ReadItem, Map
  <2>2. items \in Seq(MapItem) /\ Len(items) \in Nat
    BY <2>1, LengthType
  <2>3. ASSUME ~misled, OwnWellFormed(items) PROVE ReadInv(parser', items, pos' + 1)
    <3>1. ReadInv(parser, items, pos + 1)
      BY <2>1, <2>3 DEF DeclaredInv
    <3>2. Descriptor(items)
      BY <2>2, <2>3 DEF Descriptor
    <3>3. pos + 1 \in 1..Len(items)
      BY <2>1, <2>2
    <3> HIDE DEF items
    <3>4. ReadInv(handle_cmd(parser, items[pos + 1]), items, (pos + 1) + 1)
      BY <2>1, <3>1, <3>2, <3>3, ReadStep
    <3> QED
      BY <2>1, <3>4
  <2>4. CASE parser'.ok /\ UNCHANGED <<result, pc>>
    BY <2>1, <2>3, <2>4 DEF DeclaredInv, MapsAreListed
  <2>5. CASE ~parser'.ok /\ EndParse(NULL)
    <3>1. parser'.step = "USAGE_PAGE"
      BY <2>1, <2>5, ErrorStep
    <3>2. ~(~misled /\ OwnWellFormed(items))
      BY <2>3, <2>5 DEF ReadInv
    <3>3. pc' = "merging"
      BY <2>5 DEF EndParse
    <3> QED
      BY <2>1, <3>1, <3>2, <3>3 DEF DeclaredInv, MapsAreListed
  <2> QED
    BY <1>3, <2>4, <2>5 DEF ReadItem
<1>4. CASE EndOfData
  <2> DEFINE items == Map.items
  <2>1. /\ pc = "parsing" /\ IsParser(parser) /\ pos = Len(items) /\ Map' = Map /\ Map \in ReportMap
        /\ misled' = (misled \/ parser.step # "USAGE_PAGE")
    BY <1>4 DEF TraceInv, EndOfData, Map
  <2>2. items \in Seq(MapItem)
    BY <2>1, LengthType
  <2>3. ASSUME ~misled, OwnWellFormed(items)
        PROVE  /\ parser.temp # NULL
               /\ Lists(parser.temp.reports, OwnDeclared(items))
    <3>1. ReadInv(parser, items, Len(items) + 1)
      BY <2>1, <2>3 DEF DeclaredInv
    <3>2. Descriptor(items)
      BY <2>2, <2>3 DEF Descriptor
    <3> HIDE DEF items
    <3> QED
      BY <3>1, <3>2, ReadEnd
  <2>4. CASE ~Map.whole /\ EndParse(NULL) /\ UNCHANGED parser
    BY <2>1, <2>4 DEF DeclaredInv, MapsAreListed, EndParse
  <2>5. CASE /\ Map.whole /\ parser.temp # NULL
             /\ EndParse(Handed(parser.temp))
             /\ parser' = TakeMap(parser)
    <3>1. parser'.step = parser.step
      BY <2>1, <2>5 DEF IsParser, TakeMap, Names
    <3>2. pc' = "merging" /\ Parsed' = parser.temp.reports
      BY <2>5 DEF EndParse, Handed, Parsed
    <3>3. MapsAreListed'
      BY <2>1, <2>3, <2>5, <3>2 DEF MapsAreListed
    <3> QED
      BY <2>1, <3>1, <3>2, <3>3 DEF DeclaredInv
  <2> QED
    BY <1>4, <2>4, <2>5 DEF EndOfData
<1>5. CASE Restart
  BY <1>5 DEF DeclaredInv, Restart, MapsAreListed, PowerOn
<1>6. CASE MergeMap
  BY <1>6 DEF DeclaredInv, MergeMap, MapsAreListed
<1>7. CASE UNCHANGED vars
  BY <1>7 DEF DeclaredInv, vars, MapsAreListed, Map, Parsed
<1> QED
  BY <1>1, <1>2, <1>3, <1>4, <1>5, <1>6, <1>7 DEF Next

---------------------------------------------------------------------------
(* On a well-formed descriptor the parser's rules and the specification's  *)
(* come to the same.                                                       *)

\* The sums of the fields are the same where the values are.
LEMMA SameBits ==
  ASSUME NEW items \in Seq(MapItem), Restated(items), NEW fields, fields \subseteq Mains(items)
  PROVE  OwnBits(items, fields) = Bits(items, fields)
<1> DEFINE Wide(j) == IF j \in fields
                      THEN Value(items, j, "REPORT_SIZE") * Value(items, j, "REPORT_COUNT") ELSE 0
           L == Len(items)
           g == CHOOSE h : h = [j \in 0..L |-> IF j = 0 THEN 0 ELSE h[j - 1] + Wide(j)]
<1>1. L \in Nat
  OBVIOUS
<1>2. \A j : Width(items, fields, j) = Wide(j)
  <2>1. ASSUME NEW j \in fields
        PROVE  /\ OwnValue(items, j, "REPORT_SIZE") = Value(items, j, "REPORT_SIZE")
               /\ OwnValue(items, j, "REPORT_COUNT") = Value(items, j, "REPORT_COUNT")
    BY <2>1 DEF Restated
  <2> QED
    BY <2>1 DEF Width
<1>3. Bits(items, fields) = g[L]
  BY DEF Bits
<1> HIDE DEF Wide
<1>4. g = [j \in 0..L |-> IF j = 0 THEN 0 ELSE g[j - 1] + Wide(j)]
  <2>1. PICK f : f = [j \in 0..L |-> IF j = 0 THEN 0 ELSE f[j - 1] + Width(items, fields, j)]
    BY <1>1, UptoExists
  <2>2. f = [j \in 0..L |-> IF j = 0 THEN 0 ELSE f[j - 1] + Wide(j)]
    BY <1>2, <2>1
  <2> QED
    BY <2>2
<1> HIDE DEF g
<1>5. PICK f : SumsUp(f, items, fields)
  BY <1>1, BitsAre
<1> DEFINE S == {m \in Nat : m <= L => f[m] = g[m]}
<1>6. 0 \in S
  <2>1. f[0] = 0 /\ g[0] = 0
    BY <1>1, <1>4, <1>5 DEF SumsUp
  <2> QED
    BY <2>1
<1>7. ASSUME NEW m \in S PROVE m + 1 \in S
  <2>1. CASE m + 1 <= L
    <3>1. m \in Nat /\ m + 1 \in 1..L /\ m + 1 \in 0..L /\ (m + 1) - 1 = m /\ f[m] = g[m] /\ m + 1 # 0
      BY <1>1, <1>7, <2>1
    <3>2. f[m + 1] = f[m] + Wide(m + 1)
      BY <1>2, <1>5, <3>1 DEF SumsUp
    <3>3. g[m + 1] = g[m] + Wide(m + 1)
      BY <1>4, <3>1
    <3>4. f[m + 1] = g[m + 1]
      BY <3>1, <3>2, <3>3
    <3> QED
      BY <3>4
  <2> QED
    BY <1>1, <2>1
<1> HIDE DEF S
<1>8. S \in SUBSET Nat
  BY DEF S
<1>9. L \in S
  BY <1>1, <1>6, <1>7, <1>8, Induction
<1>10. f[L] = g[L]
  BY <1>1, <1>9 DEF S
<1> QED
  BY <1>3, <1>5, <1>10 DEF SumsUp

\* A further id of a collection is of the collection's class.
LEMMA SameClass ==
  ASSUME NEW items \in Seq(MapItem), Headed(items), ClassesStay(items), NEW k \in Mains(items)
  PROVE  OwnClass(items, k) = DeclaredClass(items, k)
<1> DEFINE E == Ends(items)
           b == Before(items, k)
           X == {i \in Changes(items) : b < i /\ i < k}
<1>1. /\ Len(items) \in Nat /\ k \in 1..Len(items)
      /\ E \in SUBSET Nat /\ 0 \in E
      /\ Changes(items) \subseteq 1..Len(items)
  BY Positions DEF Mains, Ends, Changes
<1>2. /\ b = LastBefore(E, k)
      /\ \A i : Before(items, i) = LastBefore(E, i)
  BY DEF Before, LastBefore
<1>3. OwnClass(items, k) =
        IF X = {} THEN DeclaredClass(items, k)
        ELSE ClassOf(OwnValue(items, Max(X), "USAGE_PAGE"), OwnValue(items, Max(X), "USAGE"))
  BY DEF OwnClass, DeclaredClass
<1> HIDE DEF E, b, X
<1>4. CASE X # {}
  <2>1. X \in SUBSET (0..k) /\ X \subseteq Changes(items) /\ \A i \in X : b < i /\ i < k /\ i \in Nat
    BY <1>1 DEF X
  <2>2. PICK m \in X : \A y \in X : m >= y
    <3>1. k \in Nat /\ X \in SUBSET (0..k)
      BY <1>1, <2>1
    <3> QED
      BY <1>4, <3>1, MaxExists
  <2>3. Max(X) = m
    <3>1. X \in SUBSET Int
      BY <2>1
    <3> QED
      BY <2>2, <3>1, MaxIs
  <2>4. Before(items, m) = b
    BY <1>1, <1>2, <2>1, <2>2, LastBeforeSame
  <2>5. DeclaredClass(items, m) = DeclaredClass(items, k)
    BY <2>4 DEF DeclaredClass, b
  <2>6. ClassOf(OwnValue(items, m, "USAGE_PAGE"), OwnValue(items, m, "USAGE"))
          = DeclaredClass(items, m)
    BY <2>1, <2>2 DEF ClassesStay
  <2> QED
    BY <1>3, <1>4, <2>3, <2>5, <2>6
<1> QED
  BY <1>3, <1>4

LEMMA AsDeclared ==
  ASSUME NEW items \in Seq(MapItem), WellFormed(items)
  PROVE  Descriptor(items) /\ OwnDeclared(items) = Declared(items)
<1>1. Orderly(items) /\ Restated(items) /\ ClassesStay(items)
  BY DEF WellFormed
<1>2. \A k \in Mains(items) : OwnValue(items, k, "REPORT_ID") = Value(items, k, "REPORT_ID")
  BY <1>1 DEF Restated
<1>3. \A j, k \in Mains(items) :
        Value(items, j, "REPORT_ID") = Value(items, k, "REPORT_ID") =>
          Before(items, j) = Before(items, k)
  BY <1>1 DEF Orderly, IdsInOrder
<1>4. ASSUME NEW k \in Mains(items) PROVE OwnFields(items, k) = Fields(items, k)
  BY <1>2, <1>3 DEF OwnFields, Fields
<1>5. ASSUME NEW k \in Mains(items)
      PROVE  OwnBits(items, OwnFields(items, k)) = Bits(items, Fields(items, k))
  <2>1. Fields(items, k) \subseteq Mains(items)
    BY DEF Fields
  <2> QED
    BY <1>1, <1>4, <2>1, SameBits
<1>6. ASSUME NEW k \in Mains(items) PROVE OwnClass(items, k) = DeclaredClass(items, k)
  BY <1>1, SameClass DEF Orderly
<1>7. \A k \in Mains(items) : OwnDeclaredAt(items, k) = DeclaredAt(items, k)
  BY <1>2, <1>5, <1>6 DEF OwnDeclaredAt, DeclaredAt
<1>8. OwnDeclared(items) = Declared(items)
  BY <1>7 DEF OwnDeclared, Declared
<1>9. OwnWellFormed(items)
  <2>1. WithinWidths(items) /\ Headed(items) /\ Cardinality(OwnDeclared(items)) <= MaxReports
    BY <1>1, <1>8 DEF Orderly
  <2>2. \A k \in Mains(items) :
          /\ OwnBits(items, OwnFields(items, k)) % 8 = 0
          /\ OwnBits(items, OwnFields(items, k)) < 65536
    BY <1>1, <1>5 DEF Orderly, WholeReports
  <2>3. ASSUME NEW j \in Mains(items), NEW k \in Mains(items),
               OwnValue(items, j, "REPORT_ID") = OwnValue(items, k, "REPORT_ID")
        PROVE  /\ Before(items, j) = Before(items, k)
               /\ j < k => \A i \in j..k : items[i].cmd = "REPORT_ID" =>
                             items[i].value = OwnValue(items, k, "REPORT_ID")
    <3>1. Value(items, j, "REPORT_ID") = Value(items, k, "REPORT_ID")
      BY <1>2, <2>3
    <3>2. OwnValue(items, k, "REPORT_ID") = Value(items, k, "REPORT_ID")
      BY <1>2
    <3> QED
      BY <1>1, <3>1, <3>2 DEF Orderly, IdsInOrder
  <2>4. ASSUME NEW k \in Mains(items), OwnValue(items, k, "REPORT_ID") = 0
        PROVE  \A i \in DOMAIN items :
                 items[i].cmd = "REPORT_ID" => Before(items, i) # Before(items, k)
    <3>1. Value(items, k, "REPORT_ID") = 0
      BY <1>2, <2>4
    <3> QED
      BY <1>1, <3>1 DEF Orderly, IdsInOrder
  <2> QED
    BY <2>1, <2>2, <2>3, <2>4 DEF OwnWellFormed
<1> QED
  BY <1>8, <1>9 DEF Descriptor

(* A well-formed descriptor, of any length, is read as the HID             *)
(* specification has it: each report it declares once, with its id, kind,  *)
(* length and class, and no other.  WellFormed names the maps of which it  *)
(* holds: those that are orderly, restate sizes, counts and ids in each    *)
(* collection, and stay with one class in it.                              *)
THEOREM MapsAreReadAsDeclaredAlways == Spec => []MapsAreReadAsDeclared
<1>1. TraceInv /\ DeclaredInv => MapsAreReadAsDeclared
  <2> SUFFICES ASSUME TraceInv, DeclaredInv, pc = "merging", ~misled, Map.whole,
                      WellFormed(Map.items)
               PROVE  ToSet(Parsed) = Declared(Map.items) /\ IsInjective(Parsed)
    BY DEF MapsAreReadAsDeclared
  <2>1. Map.items \in Seq(MapItem)
    BY LengthType DEF TraceInv
  <2>2. OwnWellFormed(Map.items) /\ OwnDeclared(Map.items) = Declared(Map.items)
    BY <2>1, AsDeclared DEF Descriptor
  <2>3. Lists(Parsed, OwnDeclared(Map.items))
    BY <2>2 DEF DeclaredInv, MapsAreListed
  <2> QED
    BY <2>2, <2>3 DEF Lists
<1> QED
  BY <1>1, TraceStart, TraceStep, DeclaredStart, DeclaredStep, PTL DEF Spec

---------------------------------------------------------------------------
(* Reports of one id have one class. *)

LEMMA ClassOfId ==
  ASSUME NEW items, Descriptor(items), NEW j \in Mains(items), NEW k \in Mains(items), j < k,
         OwnValue(items, j, "REPORT_ID") = OwnValue(items, k, "REPORT_ID")
  PROVE  OwnClass(items, j) = OwnClass(items, k)
<1> DEFINE b == Before(items, k)
           v == OwnValue(items, k, "REPORT_ID")
           X(n) == {i \in Changes(items) : b < i /\ i < n}
<1>0. /\ Len(items) \in Nat
      /\ k \in Nat \ {0} /\ j \in Nat \ {0} /\ j \in 1..Len(items) /\ k \in 1..Len(items)
      /\ items[j].cmd # "REPORT_ID"
  BY EndsAre, MainsAre DEF Types
<1>1. /\ Before(items, j) = b
      /\ \A i \in j..k : items[i].cmd = "REPORT_ID" => items[i].value = v
  BY DEF Descriptor, OwnWellFormed
<1>2. b \in Nat /\ b < j
  BY <1>0, <1>1, BeforeIs
<1>3. \A n : Before(items, n) = b =>
        OwnClass(items, n) =
          IF X(n) = {} THEN ClassOf(items[b + 1].value, items[b + 2].value)
          ELSE ClassOf(OwnValue(items, Max(X(n)), "USAGE_PAGE"), OwnValue(items, Max(X(n)), "USAGE"))
  BY DEF OwnClass
<1>4. ASSUME NEW i \in Changes(items), j <= i, i < k PROVE FALSE
  <2>1. /\ i \in 1..Len(items) /\ i \in Nat \ {0} /\ items[i].cmd = "REPORT_ID"
        /\ OwnValue(items, i, "REPORT_ID") \notin {0, items[i].value}
    BY <1>0, Positions DEF Changes, Descriptor
  <2>2. i \in j..k /\ items[i].value = v
    BY <1>0, <1>1, <1>4, <2>1
  <2> HIDE DEF b, v
  <2>3. Before(items, i) = b
    <3>1. b < i /\ i <= k
      BY <1>0, <1>2, <1>4, <2>1
    <3> QED
      BY <1>0, <2>1, <3>1, SameCollection DEF b
  <2>4. PICK x \in b + 4..i - 1 : /\ items[x].cmd = "REPORT_ID"
                                  /\ OwnValue(items, i, "REPORT_ID") = items[x].value
                                  /\ \A y \in x + 1..i - 1 : items[y].cmd # "REPORT_ID"
    <3>1. i \in 1..Len(items) + 1
      BY <1>0, <2>1
    <3> QED
      BY <2>1, <2>3, <3>1, ValueIs
  <2>5. items[x].value # v /\ x \in Nat
    BY <1>2, <2>1, <2>2, <2>4
  <2>6. x < j
    BY <1>0, <1>1, <1>4, <2>1, <2>4, <2>5
  <2>7. x \in b + 4..j - 1 /\ \A y \in x + 1..j - 1 : items[y].cmd # "REPORT_ID"
    BY <1>0, <1>2, <1>4, <2>1, <2>4, <2>5, <2>6
  <2>8. OwnValue(items, j, "REPORT_ID") = items[x].value
    <3>1. j \in 1..Len(items) + 1
      BY <1>0
    <3>2. \A y \in (Before(items, j) + 4)..(j - 1) :
            items[y].cmd = "REPORT_ID" /\ (\A z \in y + 1..j - 1 : items[z].cmd # "REPORT_ID") =>
              OwnValue(items, j, "REPORT_ID") = items[y].value
      BY <3>1, ValueIs
    <3>3. x \in (Before(items, j) + 4)..(j - 1)
      BY <1>1, <2>7
    <3> QED
      BY <2>4, <2>7, <3>2, <3>3
  <2> QED
    BY <2>5, <2>8 DEF v
<1>5. Changes(items) \in SUBSET Nat
  BY MarksAre DEF Marks
<1> HIDE DEF b
<1>6. \A i \in Changes(items) : i < j <=> i < k
  BY <1>0, <1>4, <1>5
<1>7. X(j) = X(k)
  BY <1>6
<1> HIDE DEF X
<1> QED
  BY <1>1, <1>3, <1>7 DEF b

LEMMA OneClass ==
  ASSUME NEW items, Descriptor(items),
         NEW r \in OwnDeclared(items), NEW s \in OwnDeclared(items), r.id = s.id
  PROVE  r.usage = s.usage
<1>1. PICK j \in Mains(items) : r \in OwnDeclaredAt(items, j)
  BY DEF OwnDeclared
<1>2. PICK k \in Mains(items) : s \in OwnDeclaredAt(items, k)
  BY DEF OwnDeclared
<1>3. r.usage = OwnClass(items, j) /\ r.id = OwnValue(items, j, "REPORT_ID")
  BY <1>1, EntryFields DEF OwnDeclaredAt
<1>4. s.usage = OwnClass(items, k) /\ s.id = OwnValue(items, k, "REPORT_ID")
  BY <1>2, EntryFields DEF OwnDeclaredAt
<1>5. OwnValue(items, j, "REPORT_ID") = OwnValue(items, k, "REPORT_ID")
  BY <1>3, <1>4
<1>6. j < k \/ k < j \/ j = k
  BY MainsAre
<1>7. OwnClass(items, j) = OwnClass(items, k)
  BY <1>5, <1>6, ClassOfId
<1> QED
  BY <1>3, <1>4, <1>7

\* Whatever is declared is declared in report protocol.
LEMMA InReportMode ==
  ASSUME NEW items, NEW r \in OwnDeclared(items)
  PROVE  \E s \in OwnDeclared(items) :
           s.mode = "REPORT" /\ s.id = r.id /\ s.type = r.type /\ s.usage = r.usage
<1>1. PICK k \in Mains(items) : r \in OwnDeclaredAt(items, k)
  BY DEF OwnDeclared
<1> DEFINE class == OwnClass(items, k)
           id == OwnValue(items, k, "REPORT_ID")
           bits == OwnBits(items, OwnFields(items, k))
           s == [usage |-> class, id |-> id, type |-> items[k].cmd, mode |-> "REPORT",
                 len |-> bits \div 8]
<1>2. r.usage = class /\ r.id = id /\ r.type = items[k].cmd
  BY <1>1, EntryFields DEF OwnDeclaredAt
<1>3. ~(bits = 0 \/ ~Listed(class, items[k].cmd))
  <2> HIDE DEF class, id, bits
  <2> QED
    BY <1>1 DEF OwnDeclaredAt, Entries, class, id, bits
<1>4. s \in OwnDeclaredAt(items, k)
  <2>1. "REPORT" \in Modes(class)
    BY DEF Modes
  <2> HIDE DEF class, id, bits
  <2>2. s \in {[usage |-> class, id |-> id, type |-> items[k].cmd, mode |-> mode,
                len |-> IF mode = "BOOT" THEN BootLength(class, items[k].cmd) ELSE bits \div 8] :
                  mode \in Modes(class)}
    BY <2>1
  <2>3. s \in Entries(class, id, items[k].cmd, bits)
    BY <1>3, <2>2 DEF Entries
  <2> QED
    BY <2>3 DEF OwnDeclaredAt, class, id, bits
<1>5. s \in OwnDeclared(items)
  BY <1>4 DEF OwnDeclared
<1>6. s.mode = "REPORT" /\ s.id = id /\ s.type = items[k].cmd /\ s.usage = class
  OBVIOUS
<1> HIDE DEF s, class, id
<1> QED
  BY <1>2, <1>5, <1>6

---------------------------------------------------------------------------
(* A report completed from a map. *)

Step(f, list, n) == MergeReport(f[n - 1], list[n])

LEMMA CompleteExists ==
  ASSUME NEW x, NEW list, NEW n \in Nat
  PROVE  \E g : g = [k \in 0..n |-> IF k = 0 THEN x ELSE Step(g, list, k)]
<1> DEFINE S == {m \in Nat : \E g : g = [k \in 0..m |-> IF k = 0 THEN x ELSE Step(g, list, k)]}
<1>1. 0 \in S
  <2> DEFINE g == [k \in 0..0 |-> x]
  <2>1. g = [k \in 0..0 |-> IF k = 0 THEN x ELSE Step(g, list, k)]
    OBVIOUS
  <2> QED
    BY <2>1
<1>2. ASSUME NEW m \in S PROVE m + 1 \in S
  <2>1. PICK g : g = [k \in 0..m |-> IF k = 0 THEN x ELSE Step(g, list, k)]
    BY <1>2
  <2> DEFINE h == [k \in 0..m + 1 |-> IF k = m + 1 THEN MergeReport(g[m], list[m + 1]) ELSE g[k]]
  <2>2. ASSUME NEW k \in 0..m + 1
        PROVE h[k] = IF k = 0 THEN x ELSE Step(h, list, k)
    <3>1. CASE k = m + 1
      <4>1. h[k - 1] = g[m]  BY <3>1
      <4>2. h[k] = MergeReport(g[m], list[m + 1])  BY <3>1
      <4> HIDE DEF h
      <4> QED  BY <3>1, <4>1, <4>2 DEF Step
    <3>2. CASE k # m + 1
      <4>1. k \in 0..m /\ h[k] = g[k]  BY <3>2
      <4>2. g[k] = IF k = 0 THEN x ELSE Step(g, list, k)  BY <2>1, <4>1
      <4>3. k # 0 => h[k - 1] = g[k - 1]  BY <4>1
      <4> HIDE DEF h
      <4> QED  BY <4>1, <4>2, <4>3 DEF Step
    <3> QED  BY <3>1, <3>2
  <2>3. h = [k \in 0..m + 1 |-> IF k = 0 THEN x ELSE Step(h, list, k)]
    BY <2>2
  <2> HIDE DEF h
  <2>4. \E f : f = [k \in 0..m + 1 |-> IF k = 0 THEN x ELSE Step(f, list, k)]
    BY <2>3
  <2>5. m + 1 \in Nat
    OBVIOUS
  <2> QED
    BY <2>4, <2>5
<1> HIDE DEF S
<1>3. S \in SUBSET Nat
  BY DEF S
<1>4. n \in S
  BY <1>1, <1>2, <1>3, Induction
<1> QED
  BY <1>4 DEF S

\* f is the report after each of those merged.
Completes(f, x, list) ==
  /\ f[0] = x
  /\ \A n \in 1..Len(list) : f[n] = MergeReport(f[n - 1], list[n])
  /\ Complete(x, list) = f[Len(list)]

LEMMA CompleteIs ==
  ASSUME NEW x, NEW list, Len(list) \in Nat
  PROVE  \E f : Completes(f, x, list)
<1> DEFINE f == CHOOSE g : g = [n \in 0..Len(list) |-> IF n = 0 THEN x ELSE Step(g, list, n)]
<1>1. Complete(x, list) = f[Len(list)]
  BY DEF Complete, Step
<1>2. f = [n \in 0..Len(list) |-> IF n = 0 THEN x ELSE Step(f, list, n)]
  BY CompleteExists
<1> HIDE DEF f
<1>3. f[0] = x /\ \A n \in 1..Len(list) : f[n] = MergeReport(f[n - 1], list[n])
  BY <1>2 DEF Step
<1> QED
  BY <1>1, <1>3 DEF Completes

\* What holds of a report and survives each merge holds of it completed.
Known == {"mode", "type", "usage", "id", "len", "service"}

LEMMA MergeFields ==
  ASSUME NEW x, DOMAIN x = Known, NEW r
  PROVE  LET y == MergeReport(x, r)
             same == x.mode = r.mode /\ x.type = r.type
             boot == x.mode = "BOOT" /\ x.usage = r.usage
         IN /\ DOMAIN y = Known
            /\ y.mode = x.mode /\ y.type = x.type /\ y.service = x.service
            /\ same /\ boot => y.id = r.id /\ y.usage = x.usage
            /\ same /\ ~boot /\ x.id = r.id => y.usage = r.usage /\ y.id = x.id
            /\ ~(same /\ boot) /\ ~(same /\ ~boot /\ x.id = r.id) => y = x
<1> DEFINE same == x.mode = r.mode /\ x.type = r.type
           boot == x.mode = "BOOT" /\ x.usage = r.usage
           y == MergeReport(x, r)
<1>1. CASE same /\ boot
  <2>1. y = [x EXCEPT !.id = r.id, !.len = r.len]
    BY <1>1 DEF MergeReport
  <2> HIDE DEF y
  <2>2. /\ DOMAIN y = Known /\ y.mode = x.mode /\ y.type = x.type /\ y.service = x.service
        /\ y.id = r.id /\ y.usage = x.usage
    BY <2>1 DEF Known
  <2> QED
    BY <1>1, <2>2 DEF y
<1>2. CASE same /\ ~boot /\ x.id = r.id
  <2>1. y = [x EXCEPT !.usage = r.usage, !.len = r.len]
    BY <1>2 DEF MergeReport
  <2> HIDE DEF y
  <2>2. /\ DOMAIN y = Known /\ y.mode = x.mode /\ y.type = x.type /\ y.service = x.service
        /\ y.id = x.id /\ y.usage = r.usage
    BY <2>1 DEF Known
  <2> QED
    BY <1>2, <2>2 DEF y
<1>3. CASE ~(same /\ boot) /\ ~(same /\ ~boot /\ x.id = r.id)
  <2>1. y = x
    BY <1>3 DEF MergeReport
  <2> HIDE DEF y
  <2> QED
    BY <1>3, <2>1 DEF y
<1> QED
  BY <1>1, <1>2, <1>3

Kin(x, y) == DOMAIN y = Known /\ y.mode = x.mode /\ y.type = x.type /\ y.service = x.service

LEMMA CompleteKin ==
  ASSUME NEW x, DOMAIN x = Known, NEW list, Len(list) \in Nat,
         NEW f, Completes(f, x, list), NEW n \in 0..Len(list)
  PROVE  Kin(x, f[n])
<1> DEFINE S == {m \in Nat : m <= Len(list) => Kin(x, f[m])}
<1>1. 0 \in S
  BY DEF Completes, Kin
<1>2. ASSUME NEW m \in S PROVE m + 1 \in S
  <2>1. SUFFICES ASSUME m + 1 <= Len(list) PROVE Kin(x, f[m + 1])
    OBVIOUS
  <2>2. m + 1 \in 1..Len(list) /\ (m + 1) - 1 = m /\ m <= Len(list)
    BY <2>1
  <2>3. f[m + 1] = MergeReport(f[m], list[m + 1])
    BY <2>2 DEF Completes
  <2>4. Kin(x, f[m])
    BY <1>2, <2>2
  <2>5. Kin(f[m], f[m + 1])
    BY <2>3, <2>4, MergeFields DEF Kin
  <2> QED
    BY <2>4, <2>5 DEF Kin
<1> HIDE DEF S
<1>3. S \in SUBSET Nat
  BY DEF S
<1>4. n \in S
  BY <1>1, <1>2, <1>3, Induction
<1> QED
  BY <1>4 DEF S

LEMMA ListsAre ==
  ASSUME NEW D, NEW list, Lists(list, D)
  PROVE  /\ Len(list) \in Nat
         /\ \A i \in 1..Len(list) : list[i] \in D
         /\ \A r \in D : \E i \in 1..Len(list) : r = list[i]
BY DEF Lists, ToSet

\* A report of report mode takes the class its id is declared with.
LEMMA ReportCompleted ==
  ASSUME NEW items, Descriptor(items), NEW list, Lists(list, OwnDeclared(items)),
         NEW x, DOMAIN x = Known, x.mode = "REPORT", x.usage = "GENERIC"
  PROVE  LET y == Complete(x, list)
             Same == {r \in OwnDeclared(items) : r.type = x.type /\ r.id = x.id}
         IN /\ y.type = x.type /\ y.service = x.service
            /\ \A r \in Same : y.usage = r.usage
            /\ Same = {} => y.usage = "GENERIC"
<1> DEFINE D == OwnDeclared(items)
           L == Len(list)
           Match(r) == r.mode = "REPORT" /\ r.type = x.type /\ r.id = x.id
<1>0. /\ L \in Nat /\ \A i \in 1..L : list[i] \in D
      /\ \A r \in D : \E i \in 1..L : r = list[i]
  BY ListsAre
<1>1. PICK f : Completes(f, x, list)
  BY <1>0, CompleteIs
<1> DEFINE Good(n) == /\ f[n].id = x.id
                      /\ f[n].usage = "GENERIC" \/ \E r \in D : r.type = x.type /\ r.id = x.id
                      /\ \A i \in 1..n : Match(list[i]) => f[n].usage = list[i].usage
           S == {n \in Nat : n <= L => Good(n)}
<1>2. 0 \in S
  BY <1>1 DEF Completes
<1>3. ASSUME NEW n \in S PROVE n + 1 \in S
  <2>1. SUFFICES ASSUME n + 1 <= L PROVE Good(n + 1)
    OBVIOUS
  <2>2. n + 1 \in 1..L /\ (n + 1) - 1 = n /\ n <= L /\ n \in 0..L
    BY <1>0, <2>1
  <2> DEFINE r == list[n + 1]
             u == f[n]
             w == f[n + 1]
  <2>3. w = MergeReport(u, r)
    BY <1>1, <2>2 DEF Completes
  <2>4. Kin(x, u)
    BY <1>0, <1>1, <2>2, CompleteKin
  <2>5. Good(n)
    BY <1>3, <2>2
  <2>6. r \in D
    BY <1>0, <2>2
  <2> HIDE DEF D
  <2>7. \A i \in 1..n : list[i] \in D
    BY <1>0, <2>2
  <2>8. CASE Match(r)
    <3>1. w.usage = r.usage /\ w.id = u.id
      <4>1. DOMAIN u = Known /\ u.mode = "REPORT" /\ u.mode = r.mode /\ u.type = r.type /\ u.id = r.id
        BY <2>4, <2>5, <2>8 DEF Kin
      <4> HIDE DEF u, w, r, Good
      <4> QED
        BY <2>3, <4>1, MergeFields
    <3>2. \A i \in 1..n : Match(list[i]) => list[i].usage = r.usage
      <4>1. SUFFICES ASSUME NEW i \in 1..n, Match(list[i]) PROVE list[i].usage = r.usage
        OBVIOUS
      <4>2. list[i] \in D /\ list[i].id = r.id
        BY <2>7, <2>8, <4>1
      <4> HIDE DEF r
      <4> QED
        BY <2>6, <4>2, OneClass DEF D
    <3>3. \A i \in 1..n + 1 : i \in 1..n \/ i = n + 1
      BY <2>2
    <3>4. \A i \in 1..n + 1 : Match(list[i]) => w.usage = list[i].usage
      BY <3>1, <3>2, <3>3
    <3> QED
      BY <2>5, <2>6, <2>8, <3>1, <3>4
  <2>9. CASE ~Match(r)
    <3>1. w = u
      <4>1. DOMAIN u = Known /\ u.mode = "REPORT" /\ ~(u.mode = r.mode /\ u.type = r.type /\ u.id = r.id)
        BY <2>4, <2>5, <2>9 DEF Kin
      <4> HIDE DEF u, w, r, Good
      <4> QED
        BY <2>3, <4>1, MergeFields
    <3>2. \A i \in 1..n + 1 : i \in 1..n \/ i = n + 1
      BY <2>2
    <3>3. \A i \in 1..n + 1 : Match(list[i]) => w.usage = list[i].usage
      BY <2>5, <2>9, <3>1, <3>2
    <3> QED
      BY <2>5, <3>1, <3>3
  <2> QED
    BY <2>8, <2>9
<1> HIDE DEF S
<1>4. S \in SUBSET Nat
  BY DEF S
<1>5. L \in S
  BY <1>0, <1>2, <1>3, <1>4, Induction
<1>6. Good(L)
  BY <1>0, <1>5 DEF S
<1>7. Kin(x, f[L]) /\ Complete(x, list) = f[L]
  <2>1. L \in 0..L
    BY <1>0
  <2> QED
    BY <1>0, <1>1, <2>1, CompleteKin DEF Completes
<1>8. ASSUME NEW r \in D, r.type = x.type, r.id = x.id PROVE f[L].usage = r.usage
  <2>1. PICK s \in D : s.mode = "REPORT" /\ s.id = r.id /\ s.type = r.type /\ s.usage = r.usage
    BY InReportMode
  <2>2. PICK i \in 1..L : s = list[i]
    BY <1>0
  <2>3. Match(list[i])
    BY <1>8, <2>1, <2>2
  <2> QED
    BY <1>6, <2>1, <2>2, <2>3
<1> QED
  BY <1>6, <1>7, <1>8 DEF Kin

\* One of boot mode keeps its class.
LEMMA BootCompleted ==
  ASSUME NEW items, Descriptor(items), NEW list, Lists(list, OwnDeclared(items)),
         NEW x, DOMAIN x = Known, x.mode = "BOOT", x.id = 0,
         \A r \in OwnDeclared(items) :
           r.mode = "BOOT" /\ r.type = x.type /\ r.id = 0 => r.usage = x.usage
  PROVE  LET y == Complete(x, list)
         IN y.type = x.type /\ y.service = x.service /\ y.usage = x.usage
<1> DEFINE D == OwnDeclared(items)
           L == Len(list)
           Own(id) == id = 0 \/ \E r \in D : r.usage = x.usage /\ r.id = id
<1>0. L \in Nat /\ \A i \in 1..L : list[i] \in D
  BY ListsAre
<1>1. PICK f : Completes(f, x, list)
  BY <1>0, CompleteIs
<1> DEFINE S == {n \in Nat : n <= L => f[n].usage = x.usage /\ Own(f[n].id)}
<1>2. 0 \in S
  BY <1>1 DEF Completes
<1>3. ASSUME NEW n \in S PROVE n + 1 \in S
  <2>1. SUFFICES ASSUME n + 1 <= L PROVE f[n + 1].usage = x.usage /\ Own(f[n + 1].id)
    OBVIOUS
  <2>2. n + 1 \in 1..L /\ (n + 1) - 1 = n /\ n <= L /\ n \in 0..L
    BY <1>0, <2>1
  <2> DEFINE r == list[n + 1]
             u == f[n]
             w == f[n + 1]
  <2>3. w = MergeReport(u, r)
    BY <1>1, <2>2 DEF Completes
  <2>4. Kin(x, u)
    BY <1>0, <1>1, <2>2, CompleteKin
  <2>5. u.usage = x.usage /\ Own(u.id)
    BY <1>3, <2>2
  <2>6. r \in D
    BY <1>0, <2>2
  <2>7. ASSUME r.mode = "BOOT", r.type = x.type, r.id = u.id PROVE r.usage = x.usage
    <3>1. CASE u.id = 0
      BY <2>6, <2>7, <3>1
    <3>2. CASE u.id # 0
      <4>1. PICK s \in D : s.usage = x.usage /\ s.id = u.id
        BY <2>5, <3>2
      <4>2. r.id = s.id
        BY <2>7, <4>1
      <4> HIDE DEF r, u
      <4>3. r.usage = s.usage
        BY <2>6, <4>2, OneClass
      <4> QED
        BY <4>1, <4>3
    <3> QED
      BY <3>1, <3>2
  <2> DEFINE same == u.mode = r.mode /\ u.type = r.type
             boot == u.mode = "BOOT" /\ u.usage = r.usage
  <2>8. /\ same /\ boot => w.id = r.id /\ w.usage = u.usage
        /\ same /\ ~boot /\ u.id = r.id => w.usage = r.usage /\ w.id = u.id
        /\ ~(same /\ boot) /\ ~(same /\ ~boot /\ u.id = r.id) => w = u
    <3>1. DOMAIN u = Known
      BY <2>4 DEF Kin
    <3> HIDE DEF u, w, r
    <3> QED
      BY <2>3, <3>1, MergeFields
  <2>9. u.mode = "BOOT" /\ u.type = x.type
    BY <2>4 DEF Kin
  <2> HIDE DEF u, w, r, D
  <2>10. CASE same /\ boot
    BY <2>5, <2>6, <2>8, <2>10 DEF w
  <2>11. CASE same /\ ~boot /\ u.id = r.id
    BY <2>5, <2>7, <2>8, <2>9, <2>11 DEF w
  <2>12. CASE ~(same /\ boot) /\ ~(same /\ ~boot /\ u.id = r.id)
    BY <2>5, <2>8, <2>12 DEF w
  <2> QED
    BY <2>10, <2>11, <2>12
<1> HIDE DEF S
<1>4. S \in SUBSET Nat
  BY DEF S
<1>5. L \in S
  BY <1>0, <1>2, <1>3, <1>4, Induction
<1>6. f[L].usage = x.usage
  BY <1>0, <1>5 DEF S
<1>7. Kin(x, f[L]) /\ Complete(x, list) = f[L]
  <2>1. L \in 0..L
    BY <1>0
  <2> QED
    BY <1>0, <1>1, <2>1, CompleteKin DEF Completes
<1> QED
  BY <1>6, <1>7 DEF Kin

---------------------------------------------------------------------------
(* The table of reports. *)

\* The class the table tells of a report, if any.
Told(x) == (IF x.type = "INPUT" THEN {x.usage} ELSE {}) \ {"GENERIC"}

LEMMA CharacteristicIs ==
  ASSUME NEW c \in Char
  PROVE  LET x == Characteristic(c)
         IN /\ DOMAIN x = Known /\ x.service = c.service
            /\ c.uuid = "RPT" => /\ x.mode = "REPORT" /\ x.usage = "GENERIC"
                                 /\ c.ref = NULL => x.type = "unknown"
                                 /\ c.ref # NULL => x.type = c.ref.type /\ x.id = c.ref.id
            /\ c.uuid # "RPT" /\ c.ref = NULL =>
                 /\ x.mode = "BOOT" /\ x.id = 0
                 /\ x.usage = (IF c.uuid = "BOOT_MOUSE_INP" THEN "MOUSE" ELSE "KEYBOARD")
                 /\ x.type = (IF c.uuid = "BOOT_KBD_OUT" THEN "OUTPUT" ELSE "INPUT")
<1>1. c.uuid \in {"BOOT_KBD_INP", "BOOT_KBD_OUT", "BOOT_MOUSE_INP", "RPT"}
  BY DEF Char
<1>2. CASE c.uuid = "RPT"
  BY <1>2 DEF Characteristic, Known
<1>3. CASE c.uuid = "BOOT_KBD_INP"
  BY <1>3 DEF Characteristic, Known
<1>4. CASE c.uuid = "BOOT_KBD_OUT"
  BY <1>4 DEF Characteristic, Known
<1>5. CASE c.uuid = "BOOT_MOUSE_INP"
  BY <1>5 DEF Characteristic, Known
<1> QED
  BY <1>1, <1>2, <1>3, <1>4, <1>5

LEMMA CharacteristicCompleted ==
  ASSUME NEW items, Descriptor(items), OwnDeclared(items) = Declared(items),
         NEW list, Lists(list, Declared(items)), NEW c \in Char, Consistent(c, items)
  PROVE  LET x == Complete(Characteristic(c), list)
         IN x.service = c.service /\ Told(x) = InputClasses(c, items) \ {"GENERIC"}
<1> DEFINE D == Declared(items)
           x == Characteristic(c)
           y == Complete(x, list)
<1>0. /\ c.uuid \in {"BOOT_KBD_INP", "BOOT_KBD_OUT", "BOOT_MOUSE_INP", "RPT"}
      /\ \A r \in D : r.type \in Types
  <2>1. Len(items) \in Nat
    BY EndsAre
  <2>2. D \subseteq Report
    BY <2>1, UpToAre, UpToEnd
  <2> QED
    BY <2>2 DEF Char, Report
<1>1. CASE c.uuid = "RPT"
  <2> DEFINE Same == {r \in D : r.type = x.type /\ r.id = x.id}
  <2>1. /\ DOMAIN x = Known /\ x.service = c.service /\ x.mode = "REPORT" /\ x.usage = "GENERIC"
        /\ c.ref = NULL => x.type = "unknown"
        /\ c.ref # NULL => x.type = c.ref.type /\ x.id = c.ref.id
    BY <1>1, CharacteristicIs
  <2> HIDE DEF x
  <2>2. /\ y.type = x.type /\ y.service = x.service
        /\ \A r \in Same : y.usage = r.usage
        /\ Same = {} => y.usage = "GENERIC"
    BY <2>1, ReportCompleted
  <2> HIDE DEF y
  <2>3. CASE c.ref = NULL
    <3>1. InputClasses(c, items) = {}
      BY <1>1, <2>3 DEF InputClasses
    <3>2. Told(y) = {}
      BY <2>1, <2>2, <2>3 DEF Told
    <3> QED
      BY <2>1, <2>2, <3>1, <3>2 DEF y, x
  <2>4. CASE c.ref # NULL
    <3>1. InputClasses(c, items) =
            {r.usage : r \in {e \in D : e.type = "INPUT" /\ e.id = x.id /\ e.type = x.type}}
      BY <2>1, <2>4 DEF InputClasses
    <3> HIDE DEF D
    <3>2. CASE x.type = "INPUT"
      <4>1. InputClasses(c, items) = {r.usage : r \in Same}
        BY <3>1, <3>2
      <4>2. Told(y) = {y.usage} \ {"GENERIC"}
        BY <2>2, <3>2 DEF Told
      <4> HIDE DEF Same
      <4>3. {y.usage} \ {"GENERIC"} = {r.usage : r \in Same} \ {"GENERIC"}
        BY <2>2
      <4> QED
        BY <2>1, <2>2, <4>1, <4>2, <4>3 DEF y, x
    <3>3. CASE x.type # "INPUT"
      <4>1. InputClasses(c, items) = {}
        BY <3>1, <3>3
      <4>2. Told(y) = {}
        BY <2>2, <3>3 DEF Told
      <4> QED
        BY <2>1, <2>2, <4>1, <4>2 DEF y, x
    <3> QED
      BY <3>2, <3>3
  <2> QED
    BY <2>3, <2>4
<1>2. CASE c.uuid # "RPT"
  <2> DEFINE class == IF c.uuid = "BOOT_MOUSE_INP" THEN "MOUSE" ELSE "KEYBOARD"
  <2>1. /\ c.ref = NULL
        /\ \A r \in D : r.mode = "BOOT" /\ r.type = "INPUT" /\ r.id = 0 => r.usage = class
    BY <1>2 DEF Consistent
  <2>2. /\ DOMAIN x = Known /\ x.service = c.service /\ x.mode = "BOOT" /\ x.id = 0
        /\ x.usage = class
        /\ x.type = IF c.uuid = "BOOT_KBD_OUT" THEN "OUTPUT" ELSE "INPUT"
    BY <1>2, <2>1, CharacteristicIs
  <2> HIDE DEF x, D
  <2>3. CASE c.uuid = "BOOT_KBD_OUT"
    <3>1. Kin(x, y)
      <4>1. Len(list) \in Nat
        BY ListsAre
      <4>2. PICK f : Completes(f, x, list)
        BY <4>1, CompleteIs
      <4>3. Len(list) \in 0..Len(list)
        BY <4>1
      <4>4. Kin(x, f[Len(list)])
        BY <2>2, <4>1, <4>2, <4>3, CompleteKin
      <4> QED
        BY <4>2, <4>4 DEF Completes
    <3>2. InputClasses(c, items) = {}
      BY <2>1, <2>3 DEF InputClasses
    <3>3. Told(y) = {}
      BY <2>2, <2>3, <3>1 DEF Told, Kin
    <3> QED
      BY <2>2, <3>1, <3>2, <3>3 DEF x, Kin
  <2>4. CASE c.uuid # "BOOT_KBD_OUT"
    <3>1. x.type = "INPUT"
      BY <2>2, <2>4
    <3>2. y.type = "INPUT" /\ y.service = c.service /\ y.usage = class
      BY <2>1, <2>2, <3>1, BootCompleted DEF D
    <3> HIDE DEF y
    <3>3. InputClasses(c, items) = {class}
      BY <1>0, <1>2, <2>1, <2>4 DEF InputClasses
    <3>4. Told(y) = {class} \ {"GENERIC"}
      BY <3>2 DEF Told
    <3> QED
      BY <3>2, <3>3, <3>4 DEF y, x
  <2> QED
    BY <2>3, <2>4
<1> QED
  BY <1>1, <1>2

\* A report is completed when the map of its service has been read.
TableInv ==
  pc # "idle" /\ ~misled /\ Proper(device) =>
    /\ DOMAIN reports = DOMAIN device.chars
    /\ \A i \in DOMAIN device.chars :
         LET c == device.chars[i]
         IN /\ reports[i].service = c.service
            /\ c.service < service =>
                 Told(reports[i]) = InputClasses(c, device.maps[c.service].items) \ {"GENERIC"}
            /\ c.service >= service => reports[i] = Characteristic(c)

LEMMA DeviceTypes ==
  ASSUME NEW d \in Devices
  PROVE  /\ d.maps \in Seq(ReportMap \cup {NULL}) /\ Len(d.maps) \in Nat
         /\ DOMAIN d.maps = 1..Len(d.maps)
         /\ \A i \in DOMAIN d.chars : /\ d.chars[i] \in Char
                                      /\ d.chars[i].service \in 1..Len(d.maps)
BY DevicesAssumption

LEMMA TableStart == Init => TableInv
BY DEF Init, TableInv

LEMMA MergeStep ==
  ASSUME TraceInv, DeclaredInv, TableInv, MergeMap
  PROVE  TableInv'
<1>1. /\ pc = "merging" /\ pc' = "service" /\ service' = service + 1
      /\ reports' = IF result = NULL THEN reports ELSE Merge(reports, result)
      /\ UNCHANGED <<device, misled>>
      /\ device \in Devices /\ service \in Nat \ {0} /\ Map \in ReportMap
  BY DEF TraceInv, MergeMap
<1> SUFFICES ASSUME ~misled, Proper(device)
             PROVE  /\ DOMAIN reports' = DOMAIN device.chars
                    /\ \A i \in DOMAIN device.chars :
                         LET c == device.chars[i]
                         IN /\ reports'[i].service = c.service
                            /\ c.service < service + 1 =>
                                 Told(reports'[i]) =
                                   InputClasses(c, device.maps[c.service].items) \ {"GENERIC"}
                            /\ c.service >= service + 1 => reports'[i] = Characteristic(c)
  BY <1>1 DEF TableInv
<1>2. /\ DOMAIN reports = DOMAIN device.chars
      /\ \A i \in DOMAIN device.chars :
           LET c == device.chars[i]
           IN /\ reports[i].service = c.service
              /\ c.service < service =>
                   Told(reports[i]) = InputClasses(c, device.maps[c.service].items) \ {"GENERIC"}
              /\ c.service >= service => reports[i] = Characteristic(c)
  BY <1>1 DEF TableInv
<1>3. DOMAIN reports' = DOMAIN device.chars
  BY <1>1, <1>2 DEF Merge
<1>4. ASSUME NEW i \in DOMAIN device.chars
      PROVE LET c == device.chars[i]
            IN /\ reports'[i].service = c.service
               /\ c.service < service + 1 =>
                    Told(reports'[i]) =
                      InputClasses(c, device.maps[c.service].items) \ {"GENERIC"}
               /\ c.service >= service + 1 => reports'[i] = Characteristic(c)
  <2> DEFINE c == device.chars[i]
             told == InputClasses(c, device.maps[c.service].items) \ {"GENERIC"}
  <2>1. c \in Char /\ c.service \in 1..Len(device.maps) /\ c.service \in Nat
    BY <1>1, DeviceTypes
  <2>2. CASE c.service # service
    <3>1. reports'[i] = reports[i]
      BY <1>1, <1>2, <2>2 DEF Merge
    <3>2. /\ c.service < service + 1 => c.service < service
          /\ c.service >= service + 1 => c.service >= service
      BY <1>1, <2>1, <2>2
    <3> QED
      BY <1>2, <3>1, <3>2
  <2>3. CASE c.service = service
    <3> DEFINE items == Map.items
    <3>1. Map.whole /\ WellFormed(items) /\ Consistent(c, items)
      <4>1. DOMAIN device.maps = 1..Len(device.maps)
        BY <1>1, DeviceTypes
      <4> QED
        BY <2>1, <2>3, <4>1 DEF Proper, Map
    <3>2. Descriptor(items) /\ OwnDeclared(items) = Declared(items)
      BY <1>1, <3>1, LengthType, AsDeclared
    <3>3. Lists(Parsed, Declared(items))
      BY <1>1, <3>1, <3>2 DEF DeclaredInv, MapsAreListed, Descriptor
    <3>4. reports[i] = Characteristic(c) /\ reports[i].service = service
      BY <1>1, <1>2, <2>3
    <3>5. reports'[i] = Complete(Characteristic(c), Parsed)
      <4>1. CASE result # NULL
        BY <1>1, <1>2, <3>4, <4>1 DEF Merge, Parsed
      <4>2. CASE result = NULL
        <5>1. Parsed = <<>> /\ Len(Parsed) = 0
          BY <4>2 DEF Parsed
        <5>2. Complete(Characteristic(c), Parsed) = Characteristic(c)
          BY <5>1, CompleteIs DEF Completes
        <5> QED
          BY <1>1, <3>4, <4>2, <5>2
      <4> QED
        BY <4>1, <4>2
    <3>6. items = device.maps[c.service].items
      BY <2>3 DEF Map
    <3> HIDE DEF c, items
    <3>7. /\ reports'[i].service = c.service
          /\ Told(reports'[i]) = InputClasses(c, items) \ {"GENERIC"}
      BY <2>1, <3>1, <3>2, <3>3, <3>5, CharacteristicCompleted
    <3>8. ~(c.service >= service + 1)
      BY <1>1, <2>3
    <3> QED
      BY <3>6, <3>7, <3>8 DEF c
  <2> QED
    BY <2>2, <2>3
<1> QED
  BY <1>3, <1>4

LEMMA TableStep == TraceInv /\ DeclaredInv /\ TableInv /\ [Next]_vars => TableInv'
<1> SUFFICES ASSUME TraceInv, DeclaredInv, TableInv, [Next]_vars PROVE TableInv'
  OBVIOUS
<1>1. ASSUME NEW d \in Devices, Open(d) PROVE TableInv'
  <2>1. /\ device' = d /\ service' = 1
        /\ reports' = [i \in DOMAIN d.chars |-> Characteristic(d.chars[i])]
    BY <1>1 DEF Open
  <2>2. \A i \in DOMAIN d.chars :
          /\ reports'[i] = Characteristic(d.chars[i])
          /\ reports'[i].service = d.chars[i].service
          /\ ~(d.chars[i].service < 1)
    BY <2>1, DeviceTypes, CharacteristicIs
  <2> QED
    BY <2>1, <2>2 DEF TableInv
<1>2. CASE NextService
  <2>1. pc = "service" /\ UNCHANGED <<device, reports, misled>> /\ device \in Devices /\ service \in Nat
    BY <1>2 DEF NextService, TraceInv
  <2>2. CASE pc' = "idle"
    BY <2>2 DEF TableInv
  <2>3. CASE (Map = NULL \/ reports = <<>>) /\ service <= Len(device.maps)
    <3>1. Proper(device) => Map # NULL
      <4>1. service \in DOMAIN device.maps
        <5>1. service # 0
          BY <2>1 DEF TraceInv
        <5> QED
          BY <2>1, <2>3, <5>1, DeviceTypes
      <4> QED
        BY <4>1 DEF Proper, Map
    <3>2. Proper(device) /\ ~misled => DOMAIN device.chars = {} /\ DOMAIN reports' = DOMAIN device.chars
      BY <2>1, <2>3, <3>1 DEF TableInv
    <3> QED
      BY <2>1, <3>2 DEF TableInv
  <2>4. CASE UNCHANGED service
    BY <2>1, <2>4 DEF TableInv
  <2> QED
    BY <1>2, <2>2, <2>3, <2>4 DEF NextService
<1>3. CASE ReadItem
  BY <1>3 DEF TableInv, ReadItem
<1>4. CASE EndOfData
  <2>1. UNCHANGED <<device, service, reports>> /\ (~misled' => ~misled) /\ pc = "parsing"
    BY <1>4 DEF EndOfData
  <2> QED
    BY <2>1 DEF TableInv
<1>5. CASE Restart
  BY <1>5 DEF TableInv, Restart
<1>6. CASE MergeMap
  BY <1>6, MergeStep
<1>7. CASE UNCHANGED vars
  BY <1>7 DEF TableInv, vars
<1> QED
  BY <1>1, <1>2, <1>3, <1>4, <1>5, <1>6, <1>7 DEF Next

(* The classes by which the bridge decides what a device is are those its  *)
(* input reports are declared with, for any peripheral of any number of    *)
(* services and characteristics, whatever was opened before.               *)
THEOREM MaskIsDeclaredAlways == Spec => []MaskIsDeclared
<1>1. TraceInv /\ TableInv => MaskIsDeclared
  <2> SUFFICES ASSUME TraceInv, TableInv, pc = "service", service > Len(device.maps), ~misled,
                      Proper(device)
               PROVE  device_usage_mask =
                        (UNION {InputClasses(device.chars[i], device.maps[device.chars[i].service].items) :
                                  i \in DOMAIN device.chars}) \ {"GENERIC"}
    BY DEF MaskIsDeclared
  <2> DEFINE chars == device.chars
             Stands(i) == InputClasses(chars[i], device.maps[chars[i].service].items)
  <2>1. device \in Devices /\ service \in Nat
    BY DEF TraceInv
  <2>2. \A i \in DOMAIN chars : chars[i].service < service
    <3>1. \A i \in DOMAIN chars : chars[i].service \in 1..Len(device.maps)
      BY <2>1, DeviceTypes
    <3>2. Len(device.maps) \in Nat
      BY <2>1, DeviceTypes
    <3> QED
      BY <2>1, <3>1, <3>2
  <2>3. /\ DOMAIN reports = DOMAIN chars
        /\ \A i \in DOMAIN chars : Told(reports[i]) = Stands(i) \ {"GENERIC"}
    BY <2>2 DEF TableInv
  <2> DEFINE all == UNION {Told(reports[i]) : i \in DOMAIN chars}
             stand == UNION {Stands(i) : i \in DOMAIN chars}
  <2>4. device_usage_mask = all
    BY <2>3 DEF device_usage_mask, Told
  <2>5. all = stand \ {"GENERIC"}
    <3> HIDE DEF chars, Stands
    <3>1. \A y : y \in all <=> \E i \in DOMAIN chars : y \in Told(reports[i])
      OBVIOUS
    <3>2. \A y : y \in stand <=> \E i \in DOMAIN chars : y \in Stands(i)
      OBVIOUS
    <3>3. \A i \in DOMAIN chars : \A y :
            y \in Told(reports[i]) <=> y \in Stands(i) /\ y # "GENERIC"
      BY <2>3
    <3> HIDE DEF all, stand
    <3>4. \A y : y \in all <=> y \in stand /\ y # "GENERIC"
      BY <3>1, <3>2, <3>3
    <3> QED
      BY <3>4
  <2>6. stand = UNION {InputClasses(device.chars[i], device.maps[device.chars[i].service].items) :
                         i \in DOMAIN device.chars}
    OBVIOUS
  <2> HIDE DEF all, stand
  <2> QED
    BY <2>4, <2>5, <2>6
<1>2. Init => TraceInv /\ DeclaredInv /\ TableInv
  BY TraceStart, DeclaredStart, TableStart
<1>3. TraceInv /\ DeclaredInv /\ TableInv /\ [Next]_vars => (TraceInv /\ DeclaredInv /\ TableInv)'
  BY TraceStep, DeclaredStep, TableStep
<1> QED
  BY <1>1, <1>2, <1>3, PTL DEF Spec
================================================================================
