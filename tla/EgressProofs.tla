---------------------------- MODULE EgressProofs -----------------------------
(***************************************************************************)
(* Proofs about Egress.  The playlist: for any number of publications,     *)
(* chunks and players, the window lists consecutive segments whose parts   *)
(* are in decode order, no URI is given out twice, every listed part is    *)
(* served, and a blocking reload is not answered early.                    *)
(*                                                                         *)
(* The argument is that URIs are given out in order: every URI that is     *)
(* listed, cached, about to be cached or about to be purged is before the  *)
(* one the next part will get, and within the window parts are in the      *)
(* order of their URIs, so an eviction cannot take a part that stays.      *)
(*                                                                         *)
(* The archive: for any number of publications, fragments and crashes, a   *)
(* row serves its fragment, scans are exact and signed assets are whole.   *)
(* There the argument is that a publication never uses a file number       *)
(* twice, so that a file is only lost to another publication.              *)
(***************************************************************************)
EXTENDS Egress, SequenceTheorems, FiniteSetTheorems, TLAPS

\* A URI was given out before the part <<n, i>> was named.
Past(u, n, i) == (u[1] \in Nat /\ u[1] < n) \/ (u \in Nat \X Nat /\ u[1] = n /\ u[2] < i)

Precedes(q, r) == q.dts <= r.dts /\ Past(q.uri, r.uri[1], r.uri[2])
Sorted(x) == \A a, b \in DOMAIN x : a < b => Precedes(x[a], x[b])
Below(x, y) == \A a \in DOMAIN x, b \in DOMAIN y : Precedes(x[a], y[b])

\* The rows of the window and the open segment are in the order of the URIs.
InUriOrder(s, p) ==
  /\ Sorted(p)
  /\ \A k \in DOMAIN s : Sorted(s[k].parts) /\ Below(s[k].parts, p)
  /\ \A j, k \in DOMAIN s : j < k => Below(s[j].parts, s[k].parts)

\* The window holds the last closed segments, in sequence.
Window(s, n) ==
  /\ Len(s) <= MaxSegments /\ (s = <<>> => n = 0)
  /\ \A k \in DOMAIN s : s[k].seq = n - Len(s) + k - 1

PartsOf(s, p) == (UNION {ToSet(s[k].parts) : k \in DOMAIN s}) \cup ToSet(p)
PastParts(ps, n, i, d) == \A q \in ps : q.dts <= d /\ Past(q.uri, n, i)

\* The URIs in the cache, and those that tasks still have to purge.
PastCache == \A u \in DOMAIN cache : Past(u, next, index) /\ cache[u] # <<>>
PastEvicted ==
  \A t \in Tasks : \A u \in job[t].evicted :
    Past(u, next, index) /\ \A q \in PartsOf(segs, pend) : q.uri # u

\* A part on its way to the cache is the only one of its name.
InHand ==
  \A p \in Pubs : Busy(p) =>
    LET part == job[p].part
    IN /\ part \in PartType /\ Past(part.uri, next, index) /\ part.uri \notin DOMAIN cache
       /\ \A q \in PartsOf(segs, pend) : q.uri = part.uri => q = part
       /\ \A o \in Pubs : Busy(o) /\ o # p => job[o].part.uri # part.uri

\* What a task has to coalesce is one closed segment.
ClosedWork ==
  \A t \in Tasks :
    /\ job[t].at = "coalesce" => job[t].work # {}
    /\ \A g \in job[t].work : g.seq < next /\ \A h \in job[t].work : g = h

Served ==
  \A q \in PartsOf(segs, pend) :
    \/ q.uri \in DOMAIN cache /\ cache[q.uri] = <<<<q.from, q.dts>>>>
    \/ \E p \in Pubs : Busy(p) /\ job[p].part = q

\* A reload that was found ready stays so.
Has(c, s, p, n) ==
  \/ \E k \in DOMAIN s : s[k].seq >= reload[c].msn
  \/ reload[c].part # -1 /\ n = reload[c].msn /\ reload[c].part + 1 \in DOMAIN p
Rendering == \A c \in Clients : reload[c].at = "render" => Has(c, segs, pend, next)

\* A task that has an init segment in hand has read it, and has a chunk to push.
Shown ==
  \A p \in Pubs : job[p].at \in {"first", "again", "mark", "push"} => drain[p].init > 0 /\ drain[p].read < Chunks

\* Every publication is announced to have stopped once at most.
Departed == {p \in Pubs : phase[p] = "over"}
StopsFit == stops <= Cardinality(Departed)

HInv ==
  /\ TypeOK /\ Window(segs, next) /\ InUriOrder(segs, pend)
  /\ PastParts(PartsOf(segs, pend), next, index, last)
  /\ PastCache /\ PastEvicted /\ InHand /\ ClosedWork /\ Served /\ Rendering
  /\ Shown /\ StopsFit
-----------------------------------------------------------------------------
(* Closing a segment.                                                      *)

LEMMA SegUriIsNoPart == \A n : <<n>> \notin Nat \X Nat
OBVIOUS

\* A window w is s with the open segment p closed as segment n, less the
\* segments past MaxSegments.
Slid(w, s, p, n, over) ==
  /\ over \in {0, 1} /\ (over = 1 => Len(s) = MaxSegments) /\ (over = 0 => Len(s) < MaxSegments)
  /\ Len(w) = Len(s) + 1 - over
  /\ \A k \in 1..Len(w) : w[k] = IF k + over <= Len(s) THEN s[k + over] ELSE w[Len(w)]
  /\ w[Len(w)].seq = n /\ w[Len(w)].parts = p

LEMMA CloseSlides ==
  ASSUME NEW b, b.segs \in Seq(SegType), b.pend \in Seq(PartType), b.next \in Nat, b.mark \in BOOLEAN,
         b.pend # <<>>, Window(b.segs, b.next)
  PROVE  /\ Closed(b).segs \in Seq(SegType) /\ Closed(b).pend = <<>> /\ Closed(b).next = b.next + 1
         /\ Closed(b).index = 0 /\ Closed(b).mark = FALSE
         /\ \E over \in {0, 1} :
              /\ Slid(Closed(b).segs, b.segs, b.pend, b.next, over)
              /\ Closed(b).evicted = IF over = 0 THEN {} ELSE UrisOf(b.segs[1])
<1> DEFINE seg == [seq |-> b.next, parts |-> b.pend, disc |-> b.mark]
           all == Append(b.segs, seg)
           over == IF Len(all) > MaxSegments THEN Len(all) - MaxSegments ELSE 0
           w == SubSeq(all, over + 1, Len(all))
<1>1. seg \in SegType /\ seg.seq = b.next /\ seg.parts = b.pend
  BY DEF SegType
<1>2. Closed(b) = [segs |-> w, pend |-> <<>>, next |-> b.next + 1, index |-> 0, mark |-> FALSE,
                   evicted |-> Evicted(all, over)]
  BY DEF Closed
<1> HIDE DEF seg
<1>3. /\ all \in Seq(SegType) /\ Len(all) = Len(b.segs) + 1 /\ Len(b.segs) \in Nat
      /\ all[Len(all)] = seg /\ \A k \in 1..Len(b.segs) : all[k] = b.segs[k]
  BY <1>1, AppendProperties, LenProperties
<1>4. MaxSegments \in Nat \ {0} /\ Len(b.segs) <= MaxSegments
  BY HlsAssumption DEF Window
<1>5. over \in {0, 1} /\ (over = 1 => Len(b.segs) = MaxSegments) /\ (over = 0 => Len(b.segs) < MaxSegments)
  BY <1>3, <1>4
<1> HIDE DEF all, over
<1>6. w \in Seq(SegType) /\ Len(w) = Len(all) - over /\ \A k \in 1..Len(w) : w[k] = all[k + over]
  BY <1>3, <1>4, <1>5, SubSeqProperties
<1> HIDE DEF w
<1>7. w[Len(w)] = seg
  BY <1>3, <1>4, <1>5, <1>6
<1>8. Slid(w, b.segs, b.pend, b.next, over)
  BY <1>1, <1>3, <1>4, <1>5, <1>6, <1>7 DEF Slid
<1>9. Evicted(all, over) = IF over = 0 THEN {} ELSE UrisOf(all[1])
  BY <1>5 DEF Evicted
<1>10. over = 1 => all[1] = b.segs[1]
  BY <1>3, <1>4, <1>5
<1> QED BY <1>2, <1>5, <1>6, <1>8, <1>9, <1>10

LEMMA SegmentsTyped ==
  ASSUME NEW s \in Seq(SegType)
  PROVE  /\ Len(s) \in Nat /\ DOMAIN s = 1..Len(s)
         /\ \A k \in DOMAIN s : s[k] \in SegType /\ s[k].seq \in Nat /\ s[k].parts \in Seq(PartType)
<1>1. Len(s) \in Nat /\ DOMAIN s = 1..Len(s)
  BY LenProperties
<1>2. ASSUME NEW k \in DOMAIN s PROVE s[k] \in SegType
  BY <1>1, <1>2, ElementOfSeq
<1>3. ASSUME NEW g \in SegType PROVE g.seq \in Nat /\ g.parts \in Seq(PartType)
  BY <1>3 DEF SegType
<1> QED BY <1>1, <1>2, <1>3

LEMMA PartsTyped ==
  ASSUME NEW s \in Seq(SegType), NEW p \in Seq(PartType), NEW q \in PartsOf(s, p)
  PROVE  q \in PartType /\ q.uri \in Nat \X Nat /\ q.dts \in Nat
<1>1. ASSUME NEW x \in Seq(PartType), q \in ToSet(x) PROVE q \in PartType
  <2>1. PICK a \in DOMAIN x : q = x[a]
    BY <1>1 DEF ToSet
  <2>2. a \in 1..Len(x)
    BY <2>1, LenProperties
  <2> QED BY <2>1, <2>2, ElementOfSeq
<1>2. q \in PartType
  <2>1. CASE q \in ToSet(p)
    BY <1>1, <2>1
  <2>2. CASE q \notin ToSet(p)
    <3>1. PICK k \in DOMAIN s : q \in ToSet(s[k].parts)
      BY <2>2 DEF PartsOf
    <3>2. s[k].parts \in Seq(PartType)
      BY <3>1, SegmentsTyped
    <3> QED BY <1>1, <3>1, <3>2
  <2> QED BY <2>1, <2>2
<1>3. q.uri \in Nat \X Nat /\ q.dts \in 0..Chunks
  BY <1>2 DEF PartType
<1> QED BY <1>2, <1>3, HlsAssumption

\* The segment that slides out of the window is no longer listed, and what
\* stays listed was listed before.
LEMMA SlideKeepsParts ==
  ASSUME NEW s \in Seq(SegType), NEW p \in Seq(PartType), NEW w \in Seq(SegType),
         NEW n \in Nat, NEW over \in {0, 1}, Slid(w, s, p, n, over), Window(s, n), InUriOrder(s, p)
  PROVE  /\ Window(w, n + 1) /\ InUriOrder(w, <<>>)
         /\ PartsOf(w, <<>>) \subseteq PartsOf(s, p)
         /\ \A g \in CoalesceWork(s, w) : g = w[Len(w)]
         /\ over = 1 => /\ 1 \in DOMAIN s /\ s[1].seq < n + 1
                        /\ \A q \in PartsOf(w, <<>>), a \in DOMAIN s[1].parts : Precedes(s[1].parts[a], q)
<1>a. /\ Len(w) \in Nat /\ Len(w) >= 1 /\ Len(s) \in Nat /\ Len(w) = Len(s) + 1 - over
      /\ n \in Nat /\ over \in {0, 1} /\ Len(w) <= MaxSegments
  <2>1. Len(s) \in Nat /\ Len(w) \in Nat
    BY SegmentsTyped
  <2>2. MaxSegments \in Nat \ {0}
    BY HlsAssumption
  <2>3. Len(w) = Len(s) + 1 - over /\ (over = 1 => Len(s) = MaxSegments) /\ (over = 0 => Len(s) < MaxSegments)
    BY DEF Slid
  <2>4. CASE over = 0
    BY <2>1, <2>2, <2>3, <2>4
  <2>5. CASE over = 1
    BY <2>1, <2>2, <2>3, <2>5
  <2> QED BY <2>4, <2>5
<1>b. DOMAIN w = 1..Len(w) /\ DOMAIN s = 1..Len(s) /\ Len(w) \in DOMAIN w
  BY <1>a, SegmentsTyped
<1>1. w[Len(w)].seq = n /\ w[Len(w)].parts = p
  BY DEF Slid
<1>2. ASSUME NEW k \in 1..Len(w), k # Len(w) PROVE k + over \in DOMAIN s /\ w[k] = s[k + over]
  <2>2. k \in 1..Len(w) /\ k # Len(w)
    BY <1>2
  <2>3. k \in Nat \ {0} /\ k < Len(w)
    BY <1>a, <2>2
  <2>4. k + over <= Len(s) /\ k + over \in 1..Len(s)
    BY <1>a, <2>3
  <2> QED BY <1>b, <1>2, <2>4 DEF Slid
<1>3. ASSUME NEW k \in DOMAIN s PROVE s[k].seq = n - Len(s) + k - 1
  BY <1>3 DEF Window
<1>4. Window(w, n + 1)
  <2>1. ASSUME NEW k \in DOMAIN w PROVE w[k].seq = n + 1 - Len(w) + k - 1
    <3>0. k \in 1..Len(w)
      BY <1>b, <2>1
    <3>1. CASE k = Len(w)
      <4>1. w[k].seq = n
        BY <1>1, <3>1
      <4>2. n = n + 1 - Len(w) + k - 1
        BY <1>a, <3>1
      <4> QED BY <4>1, <4>2
    <3>2. CASE k # Len(w)
      <4>1. k + over \in DOMAIN s /\ w[k] = s[k + over]
        BY <1>2, <3>0, <3>2
      <4>2. w[k].seq = n - Len(s) + (k + over) - 1
        BY <1>3, <4>1
      <4>3. n - Len(s) + (k + over) - 1 = n + 1 - Len(w) + k - 1
        BY <1>a, <3>0
      <4> QED BY <4>2, <4>3
    <3> QED BY <3>1, <3>2
  <2>2. w # <<>> /\ Len(w) <= MaxSegments
    BY <1>a
  <2> QED BY <2>1, <2>2 DEF Window
<1>5. InUriOrder(w, <<>>)
  <2>1. Sorted(<<>>) /\ \A x : Below(x, <<>>)
    BY DEF Sorted, Below
  <2>2. ASSUME NEW k \in DOMAIN w PROVE Sorted(w[k].parts)
    <3>1. CASE k = Len(w)
      BY <1>1, <3>1 DEF InUriOrder
    <3>2. CASE k # Len(w)
      <4>1. k + over \in DOMAIN s /\ w[k] = s[k + over]
        BY <1>b, <1>2, <2>2, <3>2
      <4> QED BY <4>1 DEF InUriOrder
    <3> QED BY <3>1, <3>2
  <2>3. ASSUME NEW j \in DOMAIN w, NEW k \in DOMAIN w, j < k PROVE Below(w[j].parts, w[k].parts)
    <3>0. j \in 1..Len(w) /\ k \in 1..Len(w) /\ j < k
      BY <1>b, <2>3
    <3>a. j # Len(w) /\ j + over < k + over
      BY <1>a, <3>0
    <3>1. j + over \in DOMAIN s /\ w[j] = s[j + over]
      BY <1>2, <3>0, <3>a
    <3>2. CASE k = Len(w)
      BY <1>1, <3>1, <3>2 DEF InUriOrder
    <3>3. CASE k # Len(w)
      <4>1. k + over \in DOMAIN s /\ w[k] = s[k + over] /\ j + over < k + over
        BY <1>2, <3>0, <3>a, <3>3
      <4> QED BY <3>1, <4>1 DEF InUriOrder
    <3> QED BY <3>2, <3>3
  <2> QED BY <2>1, <2>2, <2>3 DEF InUriOrder
<1>6. ASSUME NEW q \in PartsOf(w, <<>>)
      PROVE  q \in ToSet(p) \/ \E j \in DOMAIN s : j > over /\ q \in ToSet(s[j].parts)
  <2>1. q \notin ToSet(<<>>)
    BY DEF ToSet
  <2>2. PICK k \in DOMAIN w : q \in ToSet(w[k].parts)
    BY <1>6, <2>1 DEF PartsOf
  <2>3. CASE k = Len(w)
    BY <1>1, <2>2, <2>3
  <2>4. CASE k # Len(w)
    <3>1. k \in 1..Len(w)
      BY <1>b
    <3>2. k + over \in DOMAIN s /\ w[k] = s[k + over]
      BY <1>2, <2>4, <3>1
    <3>3. k + over > over
      BY <1>a, <3>1
    <3> QED BY <2>2, <3>2, <3>3
  <2> QED BY <2>3, <2>4
<1>7. PartsOf(w, <<>>) \subseteq PartsOf(s, p)
  BY <1>6 DEF PartsOf
<1>8. ASSUME NEW g \in CoalesceWork(s, w) PROVE g = w[Len(w)]
  <2>1. PICK k \in DOMAIN w : g = w[k]
    BY <1>8 DEF CoalesceWork, ToSet
  <2>2. CASE k # Len(w)
    <3>0. k \in 1..Len(w)
      BY <1>b
    <3>1. k + over \in DOMAIN s /\ g = s[k + over]
      BY <1>2, <2>1, <2>2, <3>0
    <3>a. k + over \in 1..Len(s)
      BY <1>b, <3>1
    <3>b. Len(s) \in 1..Len(s)
      BY <1>a, <3>a
    <3>c. Len(s) \in DOMAIN s /\ s # <<>>
      BY <1>b, <3>b
    <3>2. g.seq > s[Len(s)].seq
      BY <1>8, <3>c DEF CoalesceWork
    <3>3. g.seq = n - Len(s) + (k + over) - 1 /\ s[Len(s)].seq = n - Len(s) + Len(s) - 1
      BY <1>3, <3>1, <3>c
    <3>4. n - Len(s) + (k + over) - 1 <= n - Len(s) + Len(s) - 1
      BY <1>a, <3>a
    <3>5. n - Len(s) + (k + over) - 1 \in Int /\ n - Len(s) + Len(s) - 1 \in Int
      BY <1>a, <3>a
    <3> QED BY <3>2, <3>3, <3>4, <3>5
  <2> QED BY <2>1, <2>2
<1>9. ASSUME over = 1
      PROVE  /\ 1 \in DOMAIN s /\ s[1].seq < n + 1
             /\ \A q \in PartsOf(w, <<>>), a \in DOMAIN s[1].parts : Precedes(s[1].parts[a], q)
  <2>1. 1 \in DOMAIN s
    <3>1. Len(s) >= 1
      <4>1. Len(s) = MaxSegments /\ MaxSegments \in Nat \ {0}
        BY <1>9, HlsAssumption DEF Slid
      <4> QED BY <1>a, <4>1
    <3> QED BY <1>a, <1>b, <3>1
  <2>2. s[1].seq = n - Len(s) + 1 - 1
    BY <1>3, <2>1
  <2>a. n - Len(s) + 1 - 1 < n + 1
    BY <1>a
  <2>3. s[1].seq < n + 1
    BY <2>2, <2>a
  <2>4. ASSUME NEW q \in PartsOf(w, <<>>), NEW a \in DOMAIN s[1].parts PROVE Precedes(s[1].parts[a], q)
    <3>1. CASE q \in ToSet(p)
      <4>1. Below(s[1].parts, p)
        BY <2>1 DEF InUriOrder
      <4> QED BY <2>4, <3>1, <4>1 DEF Below, ToSet
    <3>2. CASE q \notin ToSet(p)
      <4>1. PICK j \in DOMAIN s : j > 1 /\ q \in ToSet(s[j].parts)
        BY <1>6, <1>9, <2>4, <3>2
      <4>2. Below(s[1].parts, s[j].parts)
        BY <2>1, <4>1 DEF InUriOrder
      <4> QED BY <2>4, <4>1, <4>2 DEF Below, ToSet
    <3> QED BY <3>1, <3>2
  <2> QED BY <2>1, <2>3, <2>4
<1> QED BY <1>4, <1>5, <1>7, <1>8, <1>9

\* A reload that found what it asked for finds it after the segment is closed.
LEMMA SlideKeepsReady ==
  ASSUME NEW s \in Seq(SegType), NEW p \in Seq(PartType), NEW w \in Seq(SegType),
         NEW n \in Nat, NEW over \in {0, 1}, Slid(w, s, p, n, over), Window(s, n), TypeOK,
         NEW r \in Clients, Has(r, s, p, n)
  PROVE  Has(r, w, <<>>, n + 1)
<1>1. Len(w) \in Nat /\ Len(s) \in Nat /\ DOMAIN w = 1..Len(w) /\ DOMAIN s = 1..Len(s)
  BY SegmentsTyped
<1>2. reload[r].msn \in Nat
  BY DEF TypeOK
<1>3. n >= reload[r].msn
  <2>1. CASE reload[r].msn = n
    BY <1>2, <2>1
  <2>2. CASE \E k \in DOMAIN s : s[k].seq >= reload[r].msn
    <3>1. PICK k \in DOMAIN s : s[k].seq >= reload[r].msn
      BY <2>2
    <3>2. s[k].seq = n - Len(s) + k - 1
      BY <3>1 DEF Window
    <3>3. k \in 1..Len(s)
      BY <1>1
    <3>4. n - Len(s) + k - 1 < n
      BY <1>1, <3>3
    <3>5. n - Len(s) + k - 1 \in Int
      BY <1>1, <3>3
    <3> QED BY <1>2, <3>1, <3>2, <3>4, <3>5
  <2> QED BY <2>1, <2>2 DEF Has
<1>4. Len(w) \in DOMAIN w /\ w[Len(w)].seq = n
  <2>1. MaxSegments \in Nat \ {0} /\ Len(w) = Len(s) + 1 - over /\ (over = 1 => Len(s) = MaxSegments)
    BY HlsAssumption DEF Slid
  <2>2. Len(w) >= 1
    <3>1. CASE over = 0
      BY <1>1, <2>1, <3>1
    <3>2. CASE over = 1
      BY <1>1, <2>1, <3>2
    <3> QED BY <3>1, <3>2
  <2> QED BY <1>1, <2>2 DEF Slid
<1> QED BY <1>3, <1>4 DEF Has

\* The builder b may be closed.
Closable(b) ==
  /\ b.segs \in Seq(SegType) /\ b.pend \in Seq(PartType) /\ b.next \in Nat /\ b.index \in Nat
  /\ b.mark \in BOOLEAN /\ b.evicted = {}
  /\ Window(b.segs, b.next) /\ InUriOrder(b.segs, b.pend)
  /\ \A q \in PartsOf(b.segs, b.pend) : q.uri[1] <= b.next

\* What becomes of the builder b when its pending segment is closed: the window
\* stays in order, what it lists was listed, what it evicts is not listed any
\* more, one segment at most is new, and a reload that was ready still is.
Keeps(c, b) ==
  /\ c.segs \in Seq(SegType) /\ c.pend \in {<<>>, b.pend} /\ c.mark \in BOOLEAN
  /\ \/ c.next = b.next /\ c.index = b.index
     \/ c.next = b.next + 1 /\ c.index = 0 /\ c.pend = <<>>
  /\ Window(c.segs, c.next) /\ InUriOrder(c.segs, c.pend)
  /\ PartsOf(c.segs, c.pend) \subseteq PartsOf(b.segs, b.pend)
  /\ \A u \in c.evicted : /\ u \in Seq(Nat) /\ u[1] \in Nat /\ u[1] < c.next
                          /\ u \notin Nat \X Nat \/ \E q \in PartsOf(b.segs, b.pend) : u = q.uri
                          /\ \A q \in PartsOf(c.segs, c.pend) : q.uri # u
  /\ \A g, h \in CoalesceWork(b.segs, c.segs) : g \in SegType /\ g.seq < c.next /\ g = h
  /\ \A r \in Clients : Has(r, b.segs, b.pend, b.next) => Has(r, c.segs, c.pend, c.next)

LEMMA NothingNew ==
  ASSUME NEW s \in Seq(SegType), NEW n \in Nat, Window(s, n)
  PROVE  CoalesceWork(s, s) = {}
<1> SUFFICES ASSUME NEW g \in CoalesceWork(s, s) PROVE FALSE
  OBVIOUS
<1>1. PICK k \in DOMAIN s : s[k] = g
  BY DEF CoalesceWork, ToSet
<1>2. Len(s) \in Nat /\ DOMAIN s = 1..Len(s)
  BY SegmentsTyped
<1>3. s # <<>> /\ Len(s) \in DOMAIN s
  BY <1>1, <1>2
<1>4. g.seq > s[Len(s)].seq
  BY <1>3 DEF CoalesceWork
<1>5. s[k].seq = n - Len(s) + k - 1 /\ s[Len(s)].seq = n - Len(s) + Len(s) - 1
  BY <1>1, <1>3 DEF Window
<1> QED BY <1>1, <1>2, <1>4, <1>5

LEMMA KeepsItself == ASSUME NEW b, Closable(b) PROVE Keeps(b, b)
<1>1. CoalesceWork(b.segs, b.segs) = {}
  BY NothingNew DEF Closable
<1>2. /\ b.mark \in BOOLEAN /\ b.segs \in Seq(SegType) /\ b.evicted = {}
      /\ Window(b.segs, b.next) /\ InUriOrder(b.segs, b.pend)
  BY DEF Closable
<1> QED BY <1>1, <1>2 DEF Keeps

LEMMA CloseKeeps ==
  ASSUME TypeOK, NEW b, Closable(b)
  PROVE  Keeps(Closed(b), b)
<1> DEFINE c == Closed(b)
<1>1. CASE b.pend = <<>>
  <2>1. c = b
    BY <1>1 DEF Closed
  <2> QED BY <2>1, KeepsItself
<1>2. CASE b.pend # <<>>
  <2>1. /\ c.segs \in Seq(SegType) /\ c.pend = <<>> /\ c.next = b.next + 1 /\ c.index = 0 /\ c.mark = FALSE
        /\ \E o \in {0, 1} : Slid(c.segs, b.segs, b.pend, b.next, o) /\ c.evicted = IF o = 0 THEN {} ELSE UrisOf(b.segs[1])
    BY <1>2, CloseSlides DEF Closable
  <2> HIDE DEF c
  <2>2. PICK over \in {0, 1} :
          Slid(c.segs, b.segs, b.pend, b.next, over) /\ c.evicted = IF over = 0 THEN {} ELSE UrisOf(b.segs[1])
    BY <2>1
  <2>3. /\ b.segs \in Seq(SegType) /\ b.pend \in Seq(PartType) /\ b.next \in Nat
        /\ Window(b.segs, b.next) /\ InUriOrder(b.segs, b.pend)
    BY DEF Closable
  <2>4. /\ Window(c.segs, b.next + 1) /\ InUriOrder(c.segs, <<>>)
        /\ PartsOf(c.segs, <<>>) \subseteq PartsOf(b.segs, b.pend)
        /\ \A g \in CoalesceWork(b.segs, c.segs) : g = c.segs[Len(c.segs)]
        /\ over = 1 => /\ 1 \in DOMAIN b.segs /\ b.segs[1].seq < b.next + 1
                       /\ \A q \in PartsOf(c.segs, <<>>), a \in DOMAIN b.segs[1].parts : Precedes(b.segs[1].parts[a], q)
    BY <2>1, <2>2, <2>3, SlideKeepsParts
  <2>5. ASSUME NEW u \in c.evicted
        PROVE  /\ u \in Seq(Nat) /\ u[1] \in Nat /\ u[1] < b.next + 1 /\ \A q \in PartsOf(c.segs, <<>>) : q.uri # u
               /\ u \notin Nat \X Nat \/ \E q \in PartsOf(b.segs, b.pend) : u = q.uri
    <3>1. over = 1 /\ u \in UrisOf(b.segs[1])
      BY <2>2, <2>5
    <3>2. CASE u = SegUri(b.segs[1].seq)
      <4>1. b.segs[1].seq \in Nat
        BY <2>3, <2>4, <3>1, SegmentsTyped
      <4>2. u = <<b.segs[1].seq>> /\ u \in Seq(Nat) /\ u[1] = b.segs[1].seq /\ u[1] \in Nat
        BY <3>2, <4>1 DEF SegUri
      <4>3. ASSUME NEW q \in PartsOf(c.segs, <<>>) PROVE q.uri \in Nat \X Nat
        <5>1. q \in PartsOf(b.segs, b.pend)
          BY <2>4
        <5> QED BY <2>3, <5>1, PartsTyped
      <4> QED BY <2>4, <3>1, <4>2, <4>3, SegUriIsNoPart
    <3>3. CASE u # SegUri(b.segs[1].seq)
      <4>1. PICK a \in DOMAIN b.segs[1].parts : u = b.segs[1].parts[a].uri
        BY <3>1, <3>3 DEF UrisOf, ToSet
      <4>2. b.segs[1].parts[a] \in PartsOf(b.segs, b.pend)
        BY <2>4, <3>1, <4>1 DEF PartsOf, ToSet
      <4>3. u \in Nat \X Nat
        BY <2>3, <4>1, <4>2, PartsTyped
      <4>4. u[1] <= b.next
        BY <4>1, <4>2 DEF Closable
      <4>5. u \in Seq(Nat) /\ u[1] \in Nat /\ u[2] \in Nat
        <5>1. PICK x \in Nat, y \in Nat : u = <<x, y>>
          BY <4>3
        <5> QED BY <5>1
      <4>6. u[1] < b.next + 1
        BY <2>3, <4>4, <4>5
      <4>7. ASSUME NEW q \in PartsOf(c.segs, <<>>), q.uri = u PROVE FALSE
        <5>1. Past(u, u[1], u[2])
          BY <2>4, <3>1, <4>1, <4>7 DEF Precedes
        <5> QED BY <4>5, <5>1 DEF Past
      <4> QED BY <4>1, <4>2, <4>5, <4>6, <4>7
    <3> QED BY <3>2, <3>3
  <2>6. ASSUME NEW g \in CoalesceWork(b.segs, c.segs), NEW h \in CoalesceWork(b.segs, c.segs)
        PROVE  g \in SegType /\ g.seq < b.next + 1 /\ g = h
    <3>1. g = c.segs[Len(c.segs)] /\ h = c.segs[Len(c.segs)]
      BY <2>4
    <3>2. PICK k \in DOMAIN c.segs : g = c.segs[k]
      BY DEF CoalesceWork, ToSet
    <3>3. g \in SegType
      BY <2>1, <3>2, SegmentsTyped
    <3>4. g.seq = b.next
      BY <2>2, <3>1 DEF Slid
    <3> QED BY <2>3, <3>1, <3>3, <3>4
  <2>7. ASSUME NEW r \in Clients, Has(r, b.segs, b.pend, b.next)
        PROVE  Has(r, c.segs, <<>>, b.next + 1)
    BY <2>1, <2>2, <2>3, <2>7, SlideKeepsReady
  <2>8. c.mark \in BOOLEAN /\ c.pend \in {<<>>, b.pend} /\ c.next = b.next + 1 /\ c.index = 0 /\ c.pend = <<>>
    BY <2>1
  <2>9. Window(c.segs, c.next) /\ InUriOrder(c.segs, c.pend) /\ PartsOf(c.segs, c.pend) \subseteq PartsOf(b.segs, b.pend)
    BY <2>4, <2>8
  <2>10. \A u \in c.evicted : /\ u \in Seq(Nat) /\ u[1] \in Nat /\ u[1] < c.next /\ \A q \in PartsOf(c.segs, c.pend) : q.uri # u
                              /\ u \notin Nat \X Nat \/ \E q \in PartsOf(b.segs, b.pend) : u = q.uri
    BY <2>5, <2>8
  <2>11. \A g, h \in CoalesceWork(b.segs, c.segs) : g \in SegType /\ g.seq < c.next /\ g = h
    BY <2>6, <2>8
  <2>12. \A r \in Clients : Has(r, b.segs, b.pend, b.next) => Has(r, c.segs, c.pend, c.next)
    BY <2>7, <2>8
  <2>13. Keeps(c, b)
    BY <2>1, <2>8, <2>9, <2>10, <2>11, <2>12 DEF Keeps
  <2> QED BY <2>13 DEF c
<1> QED BY <1>1, <1>2

-----------------------------------------------------------------------------
(* The bytes of a segment: what the loop over its parts puts together.      *)

LEMMA Countable ==
  ASSUME NEW S, 0 \in S, \A n \in Nat : n \in S => n + 1 \in S
  PROVE  \A n \in Nat : n \in S
<1> SUFFICES ASSUME NEW n \in Nat, n \notin S PROVE FALSE
  OBVIOUS
<1> DEFINE B == {k \in 0..n : k \notin S}
           pred == [k \in B |-> k - 1]
<1>1. \A k \in B : k - 1 \in B
  <2> SUFFICES ASSUME NEW k \in B PROVE k - 1 \in B
    OBVIOUS
  <2>1. k \in Nat /\ k # 0 /\ k <= n /\ k \notin S
    OBVIOUS
  <2>2. k - 1 \in 0..n /\ (k - 1) + 1 = k
    BY <2>1
  <2> QED BY <2>1, <2>2
<1>2. IsFiniteSet(B)
  <2>1. IsFiniteSet(0..n)
    BY FS_Interval
  <2>2. B \in SUBSET (0..n)
    OBVIOUS
  <2> QED BY <2>1, <2>2, FS_Subset
<1>3. n \in B /\ \A k \in B : k \in Int /\ k - 1 # n
  OBVIOUS
<1> HIDE DEF B
<1>4. pred \in Injection(B, B)
  BY <1>1, <1>3 DEF Injection, IsInjective
<1>5. pred \in Surjection(B, B)
  BY <1>2, <1>4, FS_Injection
<1> QED BY <1>3, <1>5 DEF Surjection

Bytes == Seq(Inits \X (0..Chunks))

LEMMA BodyTyped ==
  ASSUME NEW f, \A u \in DOMAIN f : f[u] \in Bytes, NEW seg \in SegType
  PROVE  Body(f, seg) \in Bytes
<1> DEFINE N == Len(seg.parts)
           step(h, n) == IF n = 0 THEN <<>>
                         ELSE IF seg.parts[n].uri \in DOMAIN f THEN h[n - 1] \o f[seg.parts[n].uri]
                         ELSE h[n - 1]
           Good(h, k) == DOMAIN h = 0..k /\ \A n \in 0..k : h[n] \in Bytes /\ h[n] = step(h, n)
           S == {k \in Nat : \E h : Good(h, k)}
<1>0. N \in Nat
  <2>1. seg.parts \in Seq(PartType)
    BY DEF SegType
  <2> QED BY <2>1, LenProperties
<1>1. 0 \in S
  <2>1. Good([n \in 0..0 |-> <<>>], 0)
    BY DEF Bytes
  <2> QED BY <2>1
<1>2. ASSUME NEW k \in Nat, k \in S PROVE k + 1 \in S
  <2>1. PICK h : Good(h, k)
    BY <1>2
  <2> DEFINE e == [n \in 0..k+1 |-> IF n = k + 1 THEN step(h, k + 1) ELSE h[n]]
             u == seg.parts[k + 1].uri
  <2>2. k + 1 \in Nat /\ (k + 1) - 1 = k /\ k + 1 # 0 /\ k \in 0..k
    OBVIOUS
  <2>3. step(h, k + 1) \in Bytes
    <3>1. h[k] \in Bytes
      BY <2>1, <2>2
    <3>2. CASE u \in DOMAIN f
      <4>1. step(h, k + 1) = h[k] \o f[u]
        BY <2>2, <3>2
      <4>2. f[u] \in Bytes
        BY <3>2
      <4> HIDE DEF step, u
      <4> DEFINE T == Inits \X (0..Chunks)
      <4>3. h[k] \in Seq(T) /\ f[u] \in Seq(T)
        BY <3>1, <4>2 DEF Bytes
      <4> HIDE DEF T
      <4>4. h[k] \o f[u] \in Seq(T)
        BY <4>3, ConcatProperties
      <4> QED BY <4>1, <4>4 DEF Bytes, T
    <3>3. CASE u \notin DOMAIN f
      BY <2>2, <3>1, <3>3
    <3> QED BY <3>2, <3>3
  <2>4. ASSUME NEW n \in 0..k+1 PROVE e[n] \in Bytes /\ e[n] = step(e, n)
    <3>1. n = k + 1 \/ (n \in 0..k /\ n # k + 1)
      OBVIOUS
    <3>2. e[n] \in Bytes /\ e[n] = step(h, n)
      BY <2>1, <2>3, <3>1
    <3>3. CASE n = 0
      BY <3>2, <3>3
    <3>4. CASE n # 0
      <4>1. n - 1 \in 0..k /\ n - 1 # k + 1 /\ n - 1 \in 0..k+1
        BY <3>4
      <4>2. e[n-1] = h[n-1]
        BY <4>1
      <4> HIDE DEF e
      <4> QED BY <3>2, <3>4, <4>2
    <3> QED BY <3>3, <3>4
  <2>5. DOMAIN e = 0..k+1
    OBVIOUS
  <2>6. Good(e, k + 1)
    <3> HIDE DEF e, step
    <3> QED BY <2>4, <2>5
  <2> HIDE DEF e
  <2> QED BY <2>2, <2>6
<1>3. N \in S
  <2> HIDE DEF S, N
  <2> QED BY <1>0, <1>1, <1>2, Countable
<1>4. PICK h : Good(h, N)
  BY <1>3
<1> DEFINE buf == CHOOSE g : g = [n \in 0..N |-> step(g, n)]
<1>5. Body(f, seg) = buf[N]
  BY DEF Body
<1> HIDE DEF N
<1>6. h = [n \in 0..N |-> step(h, n)] /\ h[N] \in Bytes
  BY <1>0, <1>4
<1>7. buf = [n \in 0..N |-> step(buf, n)]
  BY <1>6
<1>8. buf[N] = h[N]
  <2>1. \A n \in 0..N : buf[n] = step(buf, n)
    BY <1>7
  <2> DEFINE P == {n \in Nat : n <= N => buf[n] = h[n]}
  <2>2. 0 \in P
    BY <1>0, <1>4, <2>1
  <2>3. ASSUME NEW n \in Nat, n \in P PROVE n + 1 \in P
    <3> SUFFICES ASSUME n + 1 <= N PROVE buf[n + 1] = h[n + 1]
      OBVIOUS
    <3>1. n + 1 \in 0..N /\ n + 1 # 0 /\ (n + 1) - 1 = n /\ n <= N
      BY <1>0
    <3>2. buf[n] = h[n] /\ buf[n+1] = step(buf, n + 1) /\ h[n+1] = step(h, n + 1)
      BY <1>4, <2>1, <2>3, <3>1
    <3> HIDE DEF buf
    <3> QED BY <3>1, <3>2
  <2> HIDE DEF P, buf
  <2>4. N \in P
    BY <1>0, <2>2, <2>3, Countable
  <2> QED BY <1>0, <2>4 DEF P
<1> QED BY <1>5, <1>6, <1>8

-----------------------------------------------------------------------------
(* What the steps do to a task and to the waiting reloads.                 *)

\* No reload becomes ready to render, and none changes what it asked for.
Asking == [at : {"idle", "check", "checked", "asleep", "render", "expired"}, msn : Nat, part : Nat \cup {-1}]
OnlyWoken ==
  /\ reload' \in [Clients -> Asking]
  /\ \A c \in Clients : /\ reload'[c].msn = reload[c].msn /\ reload'[c].part = reload[c].part
                        /\ reload'[c].at = "render" => reload[c].at = "render"

LEMMA NotifyOnlyWakes ==
  ASSUME TypeOK, NotifyWaiters \/ UNCHANGED reload
  PROVE  OnlyWoken
<1>1. reload \in [Clients -> Asking]
  BY DEF TypeOK, Asking
<1>2. CASE UNCHANGED reload
  BY <1>1, <1>2 DEF OnlyWoken
<1>3. CASE NotifyWaiters
  <2>1. ASSUME NEW c \in Clients
        PROVE  /\ Woken(c) \in Asking /\ Woken(c).msn = reload[c].msn /\ Woken(c).part = reload[c].part
               /\ Woken(c).at = "render" => reload[c].at = "render"
    <3>1. reload[c] \in Asking
      BY <1>1
    <3> QED BY <3>1 DEF Woken, Asking
  <2>2. reload' = [c \in Clients |-> Woken(c)]
    BY <1>3 DEF NotifyWaiters
  <2> QED BY <2>1, <2>2 DEF OnlyWoken
<1> QED BY <1>2, <1>3

\* A task moves on within its operation, with nothing new in hand.
Moves(t, where) ==
  /\ job' \in [Tasks -> JobType] /\ \A u \in Tasks : u # t => job'[u] = job[u]
  /\ job'[t].at = where /\ job'[t].work = job[t].work /\ job'[t].evicted = job[t].evicted

LEMMA AtMoves ==
  ASSUME TypeOK, NEW t \in Tasks, NEW where \in {"idle", "first", "again", "mark", "push"}, At(t, where)
  PROVE  Moves(t, where)
<1>1. job \in [Tasks -> JobType] /\ job[t] \in JobType
  BY DEF TypeOK
<1>2. job' = [job EXCEPT ![t].at = where]
  BY DEF At
<1>3. [job[t] EXCEPT !.at = where] \in JobType
  BY <1>1 DEF JobType
<1>4. job' \in [Tasks -> JobType] /\ job'[t] = [job[t] EXCEPT !.at = where]
  BY <1>1, <1>2, <1>3
<1>5. \A u \in Tasks : u # t => job'[u] = job[u]
  BY <1>1, <1>2
<1>6. job'[t].at = where /\ job'[t].work = job[t].work /\ job'[t].evicted = job[t].evicted
  BY <1>1, <1>4 DEF JobType
<1> QED BY <1>4, <1>5, <1>6 DEF Moves

\* The operation of task t goes on with j, or with what is left of it.
GoesOn(t, j) ==
  /\ job' \in [Tasks -> JobType] /\ \A u \in Tasks : u # t => job'[u] = job[u]
  /\ job'[t].at \in {"idle", "coalesce", "purge"} /\ (job'[t].at = "coalesce" => job'[t].work # {})
  /\ job'[t].work \subseteq j.work /\ job'[t].evicted \subseteq j.evicted

LEMMA GoOnGoesOn ==
  ASSUME TypeOK, NEW t \in Tasks, NEW j \in JobType, j.at \in {"coalesce", "purge"}, GoOn(t, j)
  PROVE  GoesOn(t, j) /\ OnlyWoken
<1> DEFINE at == IF j.at = "coalesce" /\ j.work = {} THEN "purge" ELSE j.at
           over == at = "purge" /\ j.evicted = {}
           new == IF over THEN Idle ELSE [j EXCEPT !.at = at]
<1>1. job' = [job EXCEPT ![t] = new] /\ (NotifyWaiters \/ UNCHANGED reload)
  BY DEF GoOn
<1>2. job \in [Tasks -> JobType]
  BY DEF TypeOK
<1>3. /\ new \in JobType /\ new.at \in {"idle", "coalesce", "purge"} /\ (new.at = "coalesce" => new.work # {})
      /\ new.work \subseteq j.work /\ new.evicted \subseteq j.evicted
  <2>1. CASE over
    <3>1. Idle \in JobType /\ Idle.at = "idle" /\ Idle.work = {} /\ Idle.evicted = {}
      BY DEF Idle, JobType
    <3> QED BY <2>1, <3>1
  <2>2. CASE ~over
    <3>1. at \in {"coalesce", "purge"} /\ (at = "coalesce" => j.work # {})
      OBVIOUS
    <3> HIDE DEF at
    <3>2. [j EXCEPT !.at = at] \in JobType
      BY <3>1 DEF JobType
    <3>3. /\ [j EXCEPT !.at = at].at = at /\ [j EXCEPT !.at = at].work = j.work
          /\ [j EXCEPT !.at = at].evicted = j.evicted
      BY DEF JobType
    <3>4. new = [j EXCEPT !.at = at]
      BY <2>2
    <3> HIDE DEF new
    <3> QED BY <3>1, <3>2, <3>3, <3>4
  <2> QED BY <2>1, <2>2
<1> HIDE DEF new
<1>4. job' \in [Tasks -> JobType] /\ job'[t] = new /\ \A u \in Tasks : u # t => job'[u] = job[u]
  BY <1>1, <1>2, <1>3
<1>5. OnlyWoken
  BY <1>1, NotifyOnlyWakes
<1> QED BY <1>3, <1>4, <1>5 DEF GoesOn

-----------------------------------------------------------------------------
(* Steps that leave the playlist and the cache alone.                      *)

\* What the tasks have in hand, apart from how far they are.
SameInHand ==
  /\ job' \in [Tasks -> JobType]
  /\ \A t \in Tasks : /\ job'[t].work = job[t].work /\ job'[t].evicted = job[t].evicted
                      /\ job'[t].at = "coalesce" => job[t].at = "coalesce"
  /\ \A p \in Pubs : /\ job'[p].at = "insert" <=> job[p].at = "insert"
                     /\ job[p].at = "insert" => job'[p].part = job[p].part

LEMMA MovesKeepHand ==
  ASSUME NEW t \in Tasks, NEW where \in {"idle", "first", "again", "mark", "push"}, Moves(t, where),
         job[t].at # "insert"
  PROVE  SameInHand
<1>1. ASSUME NEW u \in Tasks
      PROVE  /\ job'[u].work = job[u].work /\ job'[u].evicted = job[u].evicted
             /\ job'[u].at = "coalesce" => job[u].at = "coalesce"
             /\ job'[u].at = "insert" <=> job[u].at = "insert"
             /\ job[u].at = "insert" => job'[u].part = job[u].part
  <2>1. CASE u = t
    BY <2>1 DEF Moves
  <2>2. CASE u # t
    BY <2>2 DEF Moves
  <2> QED BY <2>1, <2>2
<1>2. Pubs \subseteq Tasks
  BY DEF Tasks
<1> QED BY <1>1, <1>2 DEF SameInHand, Moves

SourceTyped ==
  /\ phase \in [Pubs -> {"new", "live", "over"}] /\ stops \in 0..Cardinality(Pubs) /\ StopsFit
  /\ drain \in [Pubs -> [init : 0..MaxInits, read : 0..Chunks, start : -1..Chunks]]

LEMMA QuietStep ==
  ASSUME HInv, UNCHANGED <<segs, pend, next, index, last, ended, cache>>, mark' \in BOOLEAN,
         init' \in Inits \cup {<<>>}, SourceTyped', SameInHand, Shown', reload' \in [Clients -> Asking],
         \A c \in Clients : reload'[c].at = "render" =>
           /\ reload'[c].msn = reload[c].msn /\ reload'[c].part = reload[c].part
           /\ reload[c].at = "render" \/ Has(c, segs, pend, next)
  PROVE  HInv'
<1>1. TypeOK'
  <2>1. TypeOK
    BY DEF HInv
  <2> QED BY <2>1 DEF TypeOK, SourceTyped, SameInHand, Asking
<1>2. /\ Window(segs, next)' /\ InUriOrder(segs, pend)' /\ PastParts(PartsOf(segs, pend), next, index, last)'
      /\ PastCache'
  <2>1. /\ Window(segs, next) /\ InUriOrder(segs, pend) /\ PastParts(PartsOf(segs, pend), next, index, last)
        /\ PastCache
    BY DEF HInv
  <2>2. /\ segs' = segs /\ pend' = pend /\ next' = next /\ index' = index /\ last' = last /\ cache' = cache
    OBVIOUS
  <2>3. Window(segs', next') /\ InUriOrder(segs', pend') /\ PastParts(PartsOf(segs', pend'), next', index', last')
    BY <2>1, <2>2
  <2>4. PastCache'
    BY <2>1, <2>2 DEF PastCache
  <2> QED BY <2>3, <2>4
<1>3. PastEvicted'
  BY DEF HInv, PastEvicted, SameInHand
<1>4. InHand'
  BY DEF HInv, InHand, Busy, SameInHand
<1>5. ClosedWork'
  BY DEF HInv, ClosedWork, SameInHand
<1>6. Served'
  <2> SUFFICES ASSUME NEW q \in PartsOf(segs, pend)
               PROVE  \/ q.uri \in DOMAIN cache /\ cache[q.uri] = <<<<q.from, q.dts>>>>
                      \/ \E p \in Pubs : Busy(p)' /\ job'[p].part = q
    BY DEF Served
  <2>1. \/ q.uri \in DOMAIN cache /\ cache[q.uri] = <<<<q.from, q.dts>>>>
        \/ \E p \in Pubs : Busy(p) /\ job[p].part = q
    BY DEF HInv, Served
  <2> QED BY <2>1 DEF Busy, SameInHand
<1>7. Rendering'
  <2> SUFFICES ASSUME NEW c \in Clients, reload'[c].at = "render"
               PROVE  Has(c, segs, pend, next)'
    BY DEF Rendering
  <2>1. Has(c, segs, pend, next)
    BY DEF HInv, Rendering
  <2> QED BY <2>1 DEF Has
<1> QED BY <1>1, <1>2, <1>3, <1>4, <1>5, <1>6, <1>7 DEF HInv, SourceTyped

LEMMA HandTyped ==
  ASSUME HInv
  PROVE  /\ TypeOK /\ Shown /\ SourceTyped /\ Pubs \subseteq Tasks /\ Bus \in Tasks
         /\ job \in [Tasks -> JobType] /\ reload \in [Clients -> Asking] /\ mark \in BOOLEAN
         /\ init \in Inits \cup {<<>>} /\ drain \in [Pubs -> [init : 0..MaxInits, read : 0..Chunks, start : -1..Chunks]]
         /\ Chunks \in Nat \ {0} /\ MaxInits \in Nat \ {0}
         /\ \A p \in Pubs : /\ drain[p].init \in 0..MaxInits /\ drain[p].read \in 0..Chunks
                            /\ drain[p].start \in -1..Chunks
<1>1. TypeOK /\ Shown /\ StopsFit
  BY DEF HInv
<1>2. SourceTyped
  BY <1>1 DEF TypeOK, SourceTyped
<1>3. reload \in [Clients -> Asking]
  BY <1>1 DEF TypeOK, Asking
<1> QED BY <1>1, <1>2, <1>3, HlsAssumption DEF TypeOK, Tasks

LEMMA SameHand == ASSUME job \in [Tasks -> JobType], UNCHANGED job PROVE SameInHand
BY DEF SameInHand

\* The announcement of a stop: one more publication is over.
LEMMA PublicationSteps ==
  ASSUME HInv, NEW p \in Pubs, Publish(p) \/ Unpublish(p)
  PROVE  HInv'
<1>1. /\ UNCHANGED <<segs, pend, next, index, last, ended, mark, cache, init, drain, job, reload>>
  BY DEF Publish, Unpublish, builder
<1>2. phase \in [Pubs -> {"new", "live", "over"}] /\ stops \in Nat /\ stops <= Cardinality(Departed)
      /\ IsFiniteSet(Pubs)
  BY HandTyped, HlsAssumption DEF SourceTyped, StopsFit
<1>3. SourceTyped'
  <2>1. IsFiniteSet(Departed) /\ Departed \subseteq Pubs /\ Cardinality(Departed) \in Nat
    BY <1>2, FS_Subset, FS_CardinalityType DEF Departed
  <2>2. CASE Publish(p)
    <3>1. phase' = [phase EXCEPT ![p] = "live"] /\ stops' = stops /\ phase[p] = "new"
      BY <2>2 DEF Publish
    <3>2. {q \in Pubs : phase'[q] = "over"} = {q \in Pubs : phase[q] = "over"}
      BY <1>2, <3>1
    <3>3. Departed' = Departed
      BY <3>2 DEF Departed
    <3> QED BY <1>1, <1>2, <3>1, <3>3, HandTyped DEF SourceTyped, StopsFit
  <2>3. CASE Unpublish(p)
    <3>1. phase' = [phase EXCEPT ![p] = "over"] /\ stops' = stops + 1 /\ phase[p] = "live"
      BY <2>3 DEF Unpublish
    <3>2. {q \in Pubs : phase'[q] = "over"} = {q \in Pubs : phase[q] = "over"} \cup {p}
      BY <1>2, <3>1
    <3>3. Departed' = Departed \cup {p} /\ p \notin Departed
      BY <3>1, <3>2 DEF Departed
    <3>4. Cardinality(Departed \cup {p}) = Cardinality(Departed) + 1
      BY <2>1, <3>3, FS_AddElement
    <3>5. Departed \cup {p} \subseteq Pubs
      BY <2>1
    <3>6. Cardinality(Departed \cup {p}) <= Cardinality(Pubs) /\ Cardinality(Pubs) \in Nat
      BY <1>2, <3>5, FS_Subset, FS_CardinalityType
    <3>7. stops' \in 0..Cardinality(Pubs) /\ stops' <= Cardinality(Departed \cup {p})
      BY <1>2, <2>1, <3>1, <3>4, <3>6
    <3>8. StopsFit'
      BY <3>3, <3>7 DEF StopsFit
    <3>9. phase' \in [Pubs -> {"new", "live", "over"}]
      BY <1>2, <3>1
    <3> QED BY <1>1, <3>7, <3>8, <3>9, HandTyped DEF SourceTyped
  <2> QED BY <2>2, <2>3
<1>4. Shown'
  BY <1>1, HandTyped DEF Shown
<1> QED BY <1>1, <1>3, <1>4, HandTyped, SameHand, QuietStep

\* A drain's step before the chunk is pushed, and one whose chunk is refused.
LEMMA DrainMoves ==
  ASSUME HInv, NEW p \in Pubs, NEW where \in {"idle", "first", "again", "mark", "push"}, At(p, where),
         job[p].at # "insert", UNCHANGED <<segs, pend, next, index, last, ended, cache, phase, stops>>,
         mark' \in BOOLEAN, init' \in Inits \cup {<<>>},
         drain' \in [Pubs -> [init : 0..MaxInits, read : 0..Chunks, start : -1..Chunks]],
         \A q \in Pubs : q # p => drain'[q] = drain[q],
         where # "idle" => drain'[p].init > 0 /\ drain'[p].read < Chunks,
         NotifyWaiters \/ UNCHANGED reload
  PROVE  HInv'
<1>1. Moves(p, where) /\ SameInHand /\ OnlyWoken
  BY HandTyped, AtMoves, MovesKeepHand, NotifyOnlyWakes
<1>2. SourceTyped'
  BY HandTyped DEF SourceTyped, StopsFit, Departed
<1>3. Shown'
  <2> SUFFICES ASSUME NEW q \in Pubs, job'[q].at \in {"first", "again", "mark", "push"}
               PROVE  drain'[q].init > 0 /\ drain'[q].read < Chunks
    BY DEF Shown
  <2>1. CASE q = p
    BY <1>1, <2>1 DEF Moves
  <2>2. CASE q # p
    <3>1. job'[q] = job[q] /\ drain'[q] = drain[q]
      BY <1>1, <2>2, HandTyped DEF Moves
    <3> QED BY <3>1, HandTyped DEF Shown
  <2> QED BY <2>1, <2>2
<1> QED BY <1>1, <1>2, <1>3, QuietStep DEF OnlyWoken

LEMMA ReadTyped ==
  ASSUME HInv, NEW p \in Pubs, NEW key, drain[p].read < Chunks, Read(p, key)
  PROVE  /\ drain' \in [Pubs -> [init : 0..MaxInits, read : 0..Chunks, start : -1..Chunks]]
         /\ drain'[p].init = drain[p].init /\ drain'[p].read = drain[p].read + 1
         /\ \A q \in Pubs : q # p => drain'[q] = drain[q]
<1> DEFINE x == IF StartsSegment(p, key) THEN drain[p].read ELSE drain[p].start
<1>1. /\ drain \in [Pubs -> [init : 0..MaxInits, read : 0..Chunks, start : -1..Chunks]]
      /\ drain[p].read \in 0..Chunks /\ drain[p].start \in -1..Chunks /\ Chunks \in Nat
  BY HandTyped
<1>2. drain' = [drain EXCEPT ![p].read = @ + 1, ![p].start = x]
  BY DEF Read
<1>3. x \in -1..Chunks
  BY <1>1
<1>4. drain[p].read + 1 \in 0..Chunks
  BY <1>1
<1> HIDE DEF x
<1> QED BY <1>1, <1>2, <1>3, <1>4

LEMMA DrainQuiet ==
  ASSUME HInv, NEW p \in Pubs, NEW key, NEW dur,
         InitRead(p) \/ InitWrite(p) \/ InitMark(p) \/ Refuse(p, key, dur)
  PROVE  HInv'
<1> DEFINE Drains == [init : 0..MaxInits, read : 0..Chunks, start : -1..Chunks]
<1>0. /\ drain \in [Pubs -> Drains] /\ drain[p] \in Drains /\ drain[p].init \in 0..MaxInits
      /\ drain[p].read \in 0..Chunks /\ Chunks \in Nat /\ MaxInits \in Nat
  BY HandTyped
<1>1. CASE InitRead(p)
  <2>1. /\ drain' = [drain EXCEPT ![p].init = @ + 1, ![p].start = -1] /\ job[p].at = "idle"
        /\ drain[p].read < Chunks /\ drain[p].init < MaxInits
        /\ UNCHANGED <<segs, pend, next, index, last, mark, ended, cache, init, phase, stops, reload>>
    BY <1>1 DEF InitRead, HasFragment, builder
  <2>2. PICK where \in {"first", "again"} : At(p, where)
    BY <1>1 DEF InitRead
  <2>3. drain[p].init + 1 \in 0..MaxInits /\ drain[p].init + 1 > 0 /\ -1 \in -1..Chunks
    BY <1>0, <2>1
  <2>4. /\ drain' \in [Pubs -> Drains] /\ drain'[p].init = drain[p].init + 1 /\ drain'[p].read = drain[p].read
        /\ \A q \in Pubs : q # p => drain'[q] = drain[q]
    BY <1>0, <2>1, <2>3
  <2>5. drain'[p].init > 0 /\ drain'[p].read < Chunks
    BY <2>1, <2>3, <2>4
  <2>6. mark' \in BOOLEAN /\ init' \in Inits \cup {<<>>}
    BY <2>1, HandTyped
  <2> QED BY <2>1, <2>2, <2>4, <2>5, <2>6, DrainMoves
<1>2. CASE InitWrite(p)
  <2>1. /\ init' = <<p, drain[p].init>> /\ job[p].at \in {"first", "again"}
        /\ UNCHANGED <<segs, pend, next, index, last, mark, ended, cache, phase, drain, stops>>
        /\ NotifyWaiters \/ UNCHANGED reload
    BY <1>2 DEF InitWrite, builder, source
  <2>2. PICK where \in {"push", "mark"} : At(p, where)
    BY <1>2 DEF InitWrite
  <2>3. drain[p].init > 0 /\ drain[p].read < Chunks
    BY <2>1, HandTyped DEF Shown
  <2>4. drain[p].init \in 1..MaxInits
    BY <1>0, <2>3
  <2>5. init' \in Inits \cup {<<>>}
    BY <2>1, <2>4 DEF Inits
  <2> QED BY <2>1, <2>2, <2>3, <2>5, HandTyped, DrainMoves
<1>3. CASE InitMark(p)
  <2>1. /\ mark' = TRUE /\ job[p].at = "mark" /\ At(p, "push") /\ NotifyWaiters
        /\ UNCHANGED <<segs, pend, next, index, last, ended, cache, init, phase, drain, stops>>
    BY <1>3 DEF InitMark, source
  <2>2. drain[p].init > 0 /\ drain[p].read < Chunks
    BY <2>1, HandTyped DEF Shown
  <2> QED BY <2>1, <2>2, HandTyped, DrainMoves
<1>4. CASE Refuse(p, key, dur)
  <2>1. /\ job[p].at \in {"idle", "push"} /\ drain[p].read < Chunks /\ At(p, "idle")
        /\ UNCHANGED <<segs, pend, next, index, last, mark, ended, cache, init, phase, stops, reload>>
    BY <1>4, HandTyped DEF Refuse, Ready, HasFragment, Shown, builder
  <2>2. Read(p, key)
    BY <1>4 DEF Refuse
  <2>3. /\ drain' \in [Pubs -> Drains] /\ \A q \in Pubs : q # p => drain'[q] = drain[q]
    BY <2>1, <2>2, HandTyped, ReadTyped
  <2> QED BY <2>1, <2>3, HandTyped, DrainMoves
<1> QED BY <1>1, <1>2, <1>3, <1>4

\* The reloads: only a check may find one ready.
LEMMA ReloadSteps ==
  ASSUME HInv, NEW c \in Clients, (\E part \in BOOLEAN : Ask(c, part)) \/ Serve(c)
  PROVE  HInv'
<1>1. UNCHANGED <<segs, pend, next, index, last, mark, ended, cache, init, phase, drain, stops, job>>
  BY DEF Ask, Serve, Check, Sleep, Deadline, Render, quiet, builder, source
<1>2. /\ reload \in [Clients -> Asking] /\ reload[c] \in Asking /\ segs \in Seq(SegType) /\ pend \in Seq(PartType)
      /\ next \in Nat /\ Window(segs, next)
  BY HandTyped DEF HInv, TypeOK
<1>3. OpenSeq \in Nat /\ OpenSeq = next
  <2>1. CASE segs = <<>>
    BY <1>2, <2>1 DEF OpenSeq, Window
  <2>2. CASE segs # <<>>
    <3>1. Len(segs) \in Nat /\ Len(segs) \in DOMAIN segs
      BY <1>2, <2>2
    <3>2. segs[Len(segs)].seq = next - Len(segs) + Len(segs) - 1
      BY <1>2, <3>1 DEF Window
    <3>3. next - Len(segs) + Len(segs) - 1 + 1 = next
      BY <1>2, <3>1
    <3>4. OpenSeq = segs[Len(segs)].seq + 1
      BY <2>2 DEF OpenSeq
    <3> QED BY <1>2, <3>2, <3>3, <3>4
  <2> QED BY <2>1, <2>2
<1>4. PICK x \in Asking : /\ reload' = [reload EXCEPT ![c] = x]
                          /\ x.at = "render" => /\ x.msn = reload[c].msn /\ x.part = reload[c].part
                                                /\ Has(c, segs, pend, next)
  <2>1. CASE \E part \in BOOLEAN : Ask(c, part)
    <3>1. PICK part \in BOOLEAN : Ask(c, part)
      BY <2>1
    <3> DEFINE x == [reload[c] EXCEPT !.at = "check", !.msn = OpenSeq, !.part = IF part THEN Len(pend) ELSE -1]
    <3>2. reload' = [reload EXCEPT ![c] = x]
      BY <3>1 DEF Ask
    <3>3. x \in Asking /\ x.at = "check"
      <4>1. (IF part THEN Len(pend) ELSE -1) \in Nat \cup {-1}
        BY <1>2
      <4> QED BY <1>2, <1>3, <4>1 DEF Asking
    <3> QED BY <3>2, <3>3
  <2>2. CASE Check(c)
    <3>1. reload' = [reload EXCEPT ![c].at = IF HasAsked(c) THEN "render" ELSE "checked"]
      BY <2>2 DEF Check, Step
    <3> DEFINE x == [reload[c] EXCEPT !.at = IF HasAsked(c) THEN "render" ELSE "checked"]
    <3>2. reload' = [reload EXCEPT ![c] = x]
      BY <1>2, <3>1
    <3>3. x \in Asking /\ x.msn = reload[c].msn /\ x.part = reload[c].part /\ (x.at = "render" => HasAsked(c))
      BY <1>2 DEF Asking
    <3>4. HasAsked(c) => Has(c, segs, pend, next)
      <4>1. reload[c].part # -1 /\ Len(pend) > reload[c].part => reload[c].part + 1 \in DOMAIN pend
        <5>1. reload[c].part \in Nat \cup {-1} /\ DOMAIN pend = 1..Len(pend) /\ Len(pend) \in Nat
          BY <1>2 DEF Asking
        <5> QED BY <5>1
      <4> QED BY <1>3, <4>1 DEF HasAsked, Has
    <3> QED BY <3>2, <3>3, <3>4
  <2>3. CASE Sleep(c)
    <3> DEFINE x == [reload[c] EXCEPT !.at = "asleep"]
    <3>1. reload' = [reload EXCEPT ![c] = x]
      BY <1>2, <2>3 DEF Sleep, Step
    <3>2. x \in Asking /\ x.at = "asleep"
      BY <1>2 DEF Asking
    <3> QED BY <3>1, <3>2
  <2>4. CASE Deadline(c) \/ Render(c)
    <3>1. NoRequest \in Asking /\ [NoRequest EXCEPT !.at = "expired"] \in Asking
          /\ NoRequest.at = "idle" /\ [NoRequest EXCEPT !.at = "expired"].at = "expired"
      BY DEF NoRequest, Asking
    <3> QED BY <2>4, <3>1 DEF Deadline, Render
  <2> QED BY <2>1, <2>2, <2>3, <2>4 DEF Serve
<1>5. reload' \in [Clients -> Asking]
  BY <1>2, <1>4
<1>6. ASSUME NEW d \in Clients, reload'[d].at = "render"
      PROVE  /\ reload'[d].msn = reload[d].msn /\ reload'[d].part = reload[d].part
             /\ reload[d].at = "render" \/ Has(d, segs, pend, next)
  <2>1. CASE d = c
    BY <1>2, <1>4, <1>6, <2>1
  <2>2. CASE d # c
    BY <1>2, <1>4, <1>6, <2>2
  <2> QED BY <2>1, <2>2
<1>7. SourceTyped' /\ Shown'
  BY <1>1, HandTyped DEF SourceTyped, StopsFit, Departed, Shown
<1> QED BY <1>1, <1>5, <1>6, <1>7, HandTyped, SameHand, QuietStep

-----------------------------------------------------------------------------
(* The cache, after the builder's lock is released.                        *)

CacheTyped == \A u \in DOMAIN cache : u \in Seq(Nat) /\ cache[u] \in Bytes

\* No step of a task changes what a URI names.
Fixed == \A u \in DOMAIN cache \cap DOMAIN cache' : cache'[u] = cache[u]

LEMMA CacheStep ==
  ASSUME HInv, UNCHANGED <<builder, init, source>>, NEW t \in Tasks, NEW j,
         GoesOn(t, j), j.work \subseteq job[t].work, j.evicted \subseteq job[t].evicted, OnlyWoken,
         CacheTyped', PastCache', InHand', Served'
  PROVE  HInv'
<1>1. /\ UNCHANGED <<segs, pend, next, index, last, mark, ended, init, phase, drain, stops>>
      /\ job' \in [Tasks -> JobType] /\ reload' \in [Clients -> Asking]
  BY DEF builder, source, GoesOn, OnlyWoken
<1>2. ASSUME NEW u \in Tasks
      PROVE  /\ job'[u].work \subseteq job[u].work /\ job'[u].evicted \subseteq job[u].evicted
             /\ job'[u].at = "coalesce" => job'[u].work # {}
             /\ job'[u].at \in {"first", "again", "mark", "push"} => job'[u].at = job[u].at
  <2>1. CASE u = t
    BY <2>1 DEF GoesOn
  <2>2. CASE u # t
    BY <2>2 DEF GoesOn, HInv, ClosedWork
  <2> QED BY <2>1, <2>2
<1>3. TypeOK'
  <2>1. TypeOK
    BY DEF HInv
  <2> QED BY <1>1, <2>1 DEF TypeOK, CacheTyped, Bytes, Asking
<1>4. /\ Window(segs, next)' /\ InUriOrder(segs, pend)' /\ PastParts(PartsOf(segs, pend), next, index, last)'
  <2>1. /\ Window(segs, next) /\ InUriOrder(segs, pend) /\ PastParts(PartsOf(segs, pend), next, index, last)
    BY DEF HInv
  <2>2. /\ segs' = segs /\ pend' = pend /\ next' = next /\ index' = index /\ last' = last
    BY <1>1
  <2> QED BY <2>1, <2>2
<1>5. PastEvicted'
  BY <1>1, <1>2 DEF HInv, PastEvicted
<1>6. ClosedWork'
  <2> SUFFICES ASSUME NEW u \in Tasks
               PROVE  /\ job'[u].at = "coalesce" => job'[u].work # {}
                      /\ \A g \in job'[u].work : g.seq < next /\ \A h \in job'[u].work : g = h
    BY <1>1 DEF ClosedWork
  <2>1. \A g \in job[u].work : g.seq < next /\ \A h \in job[u].work : g = h
    BY DEF HInv, ClosedWork
  <2> QED BY <1>2, <2>1
<1>7. Rendering'
  <2> SUFFICES ASSUME NEW c \in Clients, reload'[c].at = "render"
               PROVE  Has(c, segs, pend, next)'
    BY DEF Rendering
  <2>1. Has(c, segs, pend, next)
    BY DEF HInv, Rendering, OnlyWoken
  <2> QED BY <1>1, <2>1 DEF Has, OnlyWoken
<1>8. Shown'
  BY <1>1, <1>2, HandTyped DEF Shown
<1>9. StopsFit'
  BY <1>1 DEF HInv, StopsFit, Departed
<1> QED BY <1>3, <1>4, <1>5, <1>6, <1>7, <1>8, <1>9 DEF HInv

LEMMA UriIsSeq == ASSUME NEW u \in Nat \X Nat PROVE u \in Seq(Nat)
<1>1. PICK x \in Nat, y \in Nat : u = <<x, y>>
  OBVIOUS
<1> QED BY <1>1

LEMMA InsertStep ==
  ASSUME HInv, NEW p \in Pubs, Insert(p)
  PROVE  HInv' /\ Fixed
<1> DEFINE part == job[p].part
           body == <<<<part.from, part.dts>>>>
           j == [job[p] EXCEPT !.at = "coalesce", !.part = <<>>]
<1>1. /\ job[p].at = "insert" /\ cache' = Put(cache, part.uri, body) /\ GoOn(p, j)
      /\ UNCHANGED <<builder, init, source>>
  BY DEF Insert
<1>2. job[p] \in JobType /\ p \in Tasks
  BY HandTyped
<1>3. j \in JobType /\ j.at = "coalesce" /\ j.work = job[p].work /\ j.evicted = job[p].evicted
  BY <1>2 DEF JobType
<1> HIDE DEF j
<1>4. GoesOn(p, j) /\ OnlyWoken
  BY <1>1, <1>2, <1>3, GoOnGoesOn, HandTyped
<1>5. /\ part \in PartType /\ Past(part.uri, next, index) /\ part.uri \notin DOMAIN cache
      /\ \A q \in PartsOf(segs, pend) : q.uri = part.uri => q = part
      /\ \A o \in Pubs : Busy(o) /\ o # p => job[o].part.uri # part.uri
  BY <1>1 DEF HInv, InHand, Busy
<1>6. part.uri \in Seq(Nat) /\ part.from \in Inits /\ part.dts \in 0..Chunks
  BY <1>5, UriIsSeq DEF PartType
<1>7. body \in Bytes /\ body # <<>>
  <2>1. <<part.from, part.dts>> \in Inits \X (0..Chunks)
    BY <1>6
  <2> QED BY <2>1 DEF Bytes
<1> HIDE DEF body
<1>8. /\ DOMAIN cache' = DOMAIN cache \cup {part.uri} /\ cache'[part.uri] = body
      /\ \A x \in DOMAIN cache : cache'[x] = cache[x]
  <2>1. cache' = [x \in DOMAIN cache \cup {part.uri} |-> IF x = part.uri THEN body ELSE cache[x]]
    BY <1>1 DEF Put
  <2> HIDE DEF part
  <2> QED BY <1>5, <2>1
<1>9. /\ segs' = segs /\ pend' = pend /\ next' = next /\ index' = index
  BY <1>1 DEF builder
<1>10. CacheTyped'
  BY <1>6, <1>7, <1>8 DEF HInv, TypeOK, CacheTyped, Bytes
<1>11. PastCache'
  BY <1>5, <1>7, <1>8, <1>9 DEF HInv, PastCache
<1>12. ASSUME NEW o \in Pubs, Busy(o)' PROVE o # p /\ Busy(o) /\ job'[o] = job[o]
  BY <1>4, <1>12, HandTyped DEF GoesOn, Busy
<1>13. ASSUME NEW o \in Pubs, Busy(o), o # p PROVE Busy(o)' /\ job'[o] = job[o]
  BY <1>4, <1>13, HandTyped DEF GoesOn, Busy
<1>14. InHand'
  BY <1>5, <1>8, <1>9, <1>12 DEF HInv, InHand
<1>15. Served'
  <2> SUFFICES ASSUME NEW q \in PartsOf(segs, pend)
               PROVE  \/ q.uri \in DOMAIN cache' /\ cache'[q.uri] = <<<<q.from, q.dts>>>>
                      \/ \E o \in Pubs : Busy(o)' /\ job'[o].part = q
    BY <1>9 DEF Served
  <2>1. CASE q.uri \in DOMAIN cache /\ cache[q.uri] = <<<<q.from, q.dts>>>>
    BY <1>8, <2>1
  <2>2. CASE \E o \in Pubs : Busy(o) /\ job[o].part = q
    <3>1. PICK o \in Pubs : Busy(o) /\ job[o].part = q
      BY <2>2
    <3>2. CASE o = p
      BY <1>8, <3>1, <3>2 DEF body
    <3>3. CASE o # p
      BY <1>13, <3>1, <3>3
    <3> QED BY <3>2, <3>3
  <2> QED BY <2>1, <2>2 DEF HInv, Served
<1>16. Fixed
  BY <1>8 DEF Fixed
<1> QED BY <1>1, <1>2, <1>3, <1>4, <1>10, <1>11, <1>14, <1>15, <1>16, CacheStep

LEMMA CoalesceStep ==
  ASSUME HInv, NEW t \in Tasks, Coalesce(t)
  PROVE  HInv' /\ Fixed
<1> DEFINE j == [job[t] EXCEPT !.at = "purge", !.work = {}]
<1>1. job[t].at = "coalesce" /\ GoOn(t, j) /\ UNCHANGED <<builder, init, source>>
  BY DEF Coalesce
<1>2. PICK g \in job[t].work : cache' = Coalesced(cache, g)
  BY DEF Coalesce
<1>3. job[t] \in JobType
  BY HandTyped
<1>4. j \in JobType /\ j.at = "purge" /\ j.work = {} /\ j.evicted = job[t].evicted
  BY <1>3 DEF JobType
<1> HIDE DEF j
<1>5. GoesOn(t, j) /\ OnlyWoken
  BY <1>1, <1>4, GoOnGoesOn, HandTyped
<1>6. g \in SegType /\ g.seq \in Nat /\ g.seq < next
  BY <1>3 DEF JobType, SegType, HInv, ClosedWork
<1> DEFINE u == SegUri(g.seq)
           body == Body(cache, g)
<1>7. /\ u \in Seq(Nat) /\ u \notin Nat \X Nat /\ Past(u, next, index)
  BY <1>6, SegUriIsNoPart DEF SegUri, Past
<1>8. CacheTyped
  BY DEF HInv, TypeOK, CacheTyped, Bytes
<1>9. body \in Bytes
  BY <1>6, <1>8, BodyTyped DEF CacheTyped
<1> HIDE DEF u, body
<1>10. \/ cache' = cache
       \/ /\ u \notin DOMAIN cache /\ body # <<>> /\ DOMAIN cache' = DOMAIN cache \cup {u} /\ cache'[u] = body
          /\ \A x \in DOMAIN cache : cache'[x] = cache[x]
  <2>1. cache' = IF u \in DOMAIN cache \/ body = <<>> THEN cache ELSE Put(cache, u, body)
    BY <1>2 DEF Coalesced, u, body
  <2>2. CASE u \in DOMAIN cache \/ body = <<>>
    BY <2>1, <2>2
  <2>3. CASE ~(u \in DOMAIN cache \/ body = <<>>)
    <3>1. cache' = Put(cache, u, body) /\ u \notin DOMAIN cache /\ body # <<>>
      BY <2>1, <2>3
    <3>2. cache' = [x \in DOMAIN cache \cup {u} |-> IF x = u THEN body ELSE cache[x]]
      BY <3>1 DEF Put
    <3> QED BY <3>1, <3>2
  <2> QED BY <2>2, <2>3
<1>11. /\ segs' = segs /\ pend' = pend /\ next' = next /\ index' = index
  BY <1>1 DEF builder
<1>12. CacheTyped'
  BY <1>7, <1>8, <1>9, <1>10 DEF CacheTyped
<1>13. PastCache'
  BY <1>7, <1>10, <1>11 DEF HInv, PastCache
<1>14. ASSUME NEW o \in Pubs PROVE (Busy(o)' <=> Busy(o)) /\ (Busy(o) => job'[o] = job[o])
  <2>1. CASE o = t
    BY <1>1, <1>5, <2>1 DEF GoesOn, Busy
  <2>2. CASE o # t
    BY <1>5, <2>2, HandTyped DEF GoesOn, Busy
  <2> QED BY <2>1, <2>2
<1>15. InHand'
  <2> SUFFICES ASSUME NEW o \in Pubs, Busy(o)
               PROVE  /\ job[o].part \in PartType /\ Past(job[o].part.uri, next, index) /\ job[o].part.uri \notin DOMAIN cache'
                      /\ \A q \in PartsOf(segs, pend) : q.uri = job[o].part.uri => q = job[o].part
                      /\ \A r \in Pubs : Busy(r) /\ r # o => job[r].part.uri # job[o].part.uri
    BY <1>11, <1>14 DEF InHand
  <2>1. /\ job[o].part \in PartType /\ Past(job[o].part.uri, next, index) /\ job[o].part.uri \notin DOMAIN cache
        /\ \A q \in PartsOf(segs, pend) : q.uri = job[o].part.uri => q = job[o].part
        /\ \A r \in Pubs : Busy(r) /\ r # o => job[r].part.uri # job[o].part.uri
    BY DEF HInv, InHand
  <2>2. job[o].part.uri \in Nat \X Nat
    BY <2>1 DEF PartType
  <2> QED BY <1>7, <1>10, <2>1, <2>2
<1>16. Served'
  <2> SUFFICES ASSUME NEW q \in PartsOf(segs, pend)
               PROVE  \/ q.uri \in DOMAIN cache' /\ cache'[q.uri] = <<<<q.from, q.dts>>>>
                      \/ \E o \in Pubs : Busy(o)' /\ job'[o].part = q
    BY <1>11 DEF Served
  <2>1. \/ q.uri \in DOMAIN cache /\ cache[q.uri] = <<<<q.from, q.dts>>>>
        \/ \E o \in Pubs : Busy(o) /\ job[o].part = q
    BY DEF HInv, Served
  <2> QED BY <1>10, <1>14, <2>1
<1>17. Fixed
  BY <1>10 DEF Fixed
<1> QED BY <1>1, <1>4, <1>5, <1>12, <1>13, <1>15, <1>16, <1>17, CacheStep

LEMMA PurgeStep ==
  ASSUME HInv, NEW t \in Tasks, Purge(t)
  PROVE  HInv' /\ Fixed
<1> DEFINE j == [job[t] EXCEPT !.evicted = {}]
<1>1. /\ job[t].at = "purge" /\ GoOn(t, j) /\ UNCHANGED <<builder, init, source>>
      /\ cache' = [u \in DOMAIN cache \ job[t].evicted |-> cache[u]]
  BY DEF Purge
<1>2. job[t] \in JobType
  BY HandTyped
<1>3. j \in JobType /\ j.at = "purge" /\ j.work = job[t].work /\ j.evicted = {}
  BY <1>1, <1>2 DEF JobType
<1> HIDE DEF j
<1>4. GoesOn(t, j) /\ OnlyWoken
  BY <1>1, <1>3, GoOnGoesOn, HandTyped
<1>5. /\ segs' = segs /\ pend' = pend /\ next' = next /\ index' = index
  BY <1>1 DEF builder
<1>6. /\ DOMAIN cache' = DOMAIN cache \ job[t].evicted
      /\ \A u \in DOMAIN cache' : u \in DOMAIN cache /\ cache'[u] = cache[u]
  BY <1>1
<1>7. CacheTyped'
  BY <1>6 DEF HInv, TypeOK, CacheTyped, Bytes
<1>8. PastCache'
  BY <1>5, <1>6 DEF HInv, PastCache
<1>9. ASSUME NEW o \in Pubs PROVE (Busy(o)' <=> Busy(o)) /\ (Busy(o) => job'[o] = job[o])
  <2>1. CASE o = t
    BY <1>1, <1>4, <2>1 DEF GoesOn, Busy
  <2>2. CASE o # t
    BY <1>4, <2>2, HandTyped DEF GoesOn, Busy
  <2> QED BY <2>1, <2>2
<1>10. InHand'
  BY <1>5, <1>6, <1>9 DEF HInv, InHand
<1>11. Served'
  <2> SUFFICES ASSUME NEW q \in PartsOf(segs, pend)
               PROVE  \/ q.uri \in DOMAIN cache' /\ cache'[q.uri] = <<<<q.from, q.dts>>>>
                      \/ \E o \in Pubs : Busy(o)' /\ job'[o].part = q
    BY <1>5 DEF Served
  <2>1. q.uri \notin job[t].evicted
    BY DEF HInv, PastEvicted
  <2>2. \/ q.uri \in DOMAIN cache /\ cache[q.uri] = <<<<q.from, q.dts>>>>
        \/ \E o \in Pubs : Busy(o) /\ job[o].part = q
    BY DEF HInv, Served
  <2> QED BY <1>6, <1>9, <2>1, <2>2
<1>12. Fixed
  BY <1>6 DEF Fixed
<1> QED BY <1>1, <1>3, <1>4, <1>7, <1>8, <1>10, <1>11, <1>12, CacheStep

-----------------------------------------------------------------------------
(* The builder, under its lock.                                            *)

\* b0 is the builder as the lock finds it, or with the next part named.
Locked(b0) ==
  /\ b0.segs = segs /\ b0.pend = pend /\ b0.next = next /\ b0.index \in {index, index + 1}
  /\ b0.mark = mark /\ b0.evicted = {}

LEMMA LockedCloses ==
  ASSUME HInv, NEW b0, Locked(b0)
  PROVE  Closable(b0)
<1>1. /\ segs \in Seq(SegType) /\ pend \in Seq(PartType) /\ next \in Nat /\ index \in Nat /\ mark \in BOOLEAN
      /\ Window(segs, next) /\ InUriOrder(segs, pend)
  BY DEF HInv, TypeOK
<1>2. ASSUME NEW q \in PartsOf(segs, pend) PROVE q.uri[1] <= next
  <2>1. Past(q.uri, next, index)
    BY DEF HInv, PastParts
  <2>2. q.uri \in Nat \X Nat
    BY <1>1, PartsTyped
  <2>3. q.uri[1] \in Nat
    BY <2>2
  <2> QED BY <1>1, <2>1, <2>3 DEF Past
<1>3. b0.index \in Nat
  BY <1>1 DEF Locked
<1> QED BY <1>1, <1>2, <1>3 DEF Closable, Locked

\* Task t releases the builder as b, with the parts new appended to it.
Released(b, t, new) ==
  /\ segs' = b.segs /\ next' = b.next /\ index' = b.index /\ cache' = cache /\ last <= last'
  /\ PartsOf(segs', pend') = PartsOf(b.segs, b.pend) \cup new /\ DOMAIN b.pend \subseteq DOMAIN pend'
  /\ \A u \in Tasks : u # t => job'[u] = job[u]
  /\ job[t].at # "insert" /\ job'[t].evicted \subseteq b.evicted
  /\ job'[t].work \subseteq CoalesceWork(segs, b.segs) /\ (job'[t].at = "coalesce" => job'[t].work # {})

LEMMA UriOrder ==
  ASSUME NEW n \in Nat, NEW i \in Nat, NEW m \in Nat, NEW k \in Nat, (m = n /\ i <= k) \/ m = n + 1
  PROVE  /\ \A u : Past(u, n, i) => Past(u, m, k)
         /\ ~Past(<<n, i>>, n, i) /\ (i < k \/ m = n + 1 => Past(<<n, i>>, m, k))
<1>1. ASSUME NEW u, Past(u, n, i) PROVE Past(u, m, k)
  <2>1. CASE u[1] \in Nat /\ u[1] < n
    BY <2>1 DEF Past
  <2>2. CASE u \in Nat \X Nat /\ u[1] = n /\ u[2] < i
    <3>1. u[2] \in Nat
      BY <2>2
    <3> QED BY <1>1, <2>2, <3>1 DEF Past
  <2> QED BY <1>1, <2>1, <2>2 DEF Past
<1>2. <<n, i>>[1] = n /\ <<n, i>>[2] = i /\ <<n, i>> \in Nat \X Nat
  OBVIOUS
<1>3. ~Past(<<n, i>>, n, i)
  BY <1>2 DEF Past
<1>4. i < k \/ m = n + 1 => Past(<<n, i>>, m, k)
  BY <1>2 DEF Past
<1> QED BY <1>1, <1>3, <1>4

\* The parts new to the list: none, or the part t has in hand.
Fresh(t, new) ==
  /\ \A p \in Pubs : p = t => (Busy(p)' <=> new = {job'[p].part}) /\ (Busy(p)' \/ new = {})
  /\ t = Bus => new = {}
  /\ \A q \in new : q \in PartType /\ q.uri = <<next, index>> /\ q.dts = last' /\ Past(q.uri, next', index')

LEMMA BuilderStep ==
  ASSUME HInv, NEW b0, Locked(b0), NEW b, Keeps(b, b0), NEW t \in Tasks, NEW new, Released(b, t, new),
         Fresh(t, new), OnlyWoken, TypeOK', InUriOrder(segs', pend'), Shown', StopsFit'
  PROVE  HInv'
<1>1. /\ segs \in Seq(SegType) /\ pend \in Seq(PartType) /\ next \in Nat /\ index \in Nat /\ last \in Int
      /\ last' \in Int /\ next' \in Nat /\ index' \in Nat /\ Bus \notin Pubs /\ Tasks = Pubs \cup {Bus}
  BY HlsAssumption DEF HInv, TypeOK, Tasks
<1>2. (next' = next /\ index' \in {index, index + 1}) \/ next' = next + 1
  BY DEF Keeps, Locked, Released
<1>3. \A u : Past(u, next, index) => Past(u, next', index')
  <2>1. (next' = next /\ index <= index') \/ next' = next + 1
    BY <1>1, <1>2
  <2> QED BY <1>1, <2>1, UriOrder
<1>4. ~Past(<<next, index>>, next, index)
  BY <1>1, UriOrder
<1>5. /\ PartsOf(b.segs, b.pend) \subseteq PartsOf(segs, pend)
      /\ PartsOf(segs', pend') = PartsOf(b.segs, b.pend) \cup new
      /\ \A q \in new : q \in PartType /\ q.uri = <<next, index>> /\ q.dts = last' /\ Past(q.uri, next', index')
      /\ last <= last' /\ cache' = cache
  BY DEF Keeps, Locked, Released, Fresh
<1>6. ASSUME NEW q \in PartsOf(segs, pend) PROVE q.dts <= last /\ Past(q.uri, next, index) /\ q.dts \in Int
  <2>1. q.dts \in Nat
    BY <1>1, PartsTyped
  <2> QED BY <2>1 DEF HInv, PastParts
<1>7. Window(segs, next)'
  <2>1. Window(segs', next')
    BY DEF Keeps, Released
  <2> QED BY <2>1
<1>8. PastParts(PartsOf(segs, pend), next, index, last)'
  <2>1. ASSUME NEW q \in PartsOf(segs', pend') PROVE q.dts <= last' /\ Past(q.uri, next', index')
    <3>1. CASE q \in new
      BY <1>1, <1>5, <3>1
    <3>2. CASE q \in PartsOf(segs, pend)
      BY <1>1, <1>3, <1>5, <1>6, <3>2
    <3> QED BY <1>5, <2>1, <3>1, <3>2
  <2> QED BY <2>1 DEF PastParts
<1>9. PastCache'
  BY <1>3, <1>5 DEF HInv, PastCache
<1>10. PastEvicted'
  <2> SUFFICES ASSUME NEW r \in Tasks, NEW u \in job'[r].evicted
               PROVE  Past(u, next', index') /\ \A q \in PartsOf(segs', pend') : q.uri # u
    BY DEF PastEvicted
  <2>1. CASE r = t
    <3>1. u \in b.evicted
      BY <2>1 DEF Released
    <3>2. /\ u[1] \in Nat /\ u[1] < b.next
          /\ u \notin Nat \X Nat \/ \E q \in PartsOf(b0.segs, b0.pend) : u = q.uri
          /\ \A q \in PartsOf(b.segs, b.pend) : q.uri # u
      BY <3>1 DEF Keeps
    <3>3. Past(u, next', index')
      BY <3>2 DEF Past, Released
    <3>4. u # <<next, index>>
      <4>1. <<next, index>> \in Nat \X Nat
        BY <1>1
      <4>2. CASE u \notin Nat \X Nat
        BY <4>1, <4>2
      <4>3. CASE \E q \in PartsOf(b0.segs, b0.pend) : u = q.uri
        BY <1>4, <1>6, <4>3 DEF Locked
      <4> QED BY <3>2, <4>2, <4>3
    <3> QED BY <1>5, <3>2, <3>3, <3>4
  <2>2. CASE r # t
    <3>1. u \in job[r].evicted
      BY <2>2 DEF Released
    <3>2. Past(u, next, index) /\ \A q \in PartsOf(segs, pend) : q.uri # u
      BY <3>1 DEF HInv, PastEvicted
    <3> QED BY <1>3, <1>4, <1>5, <3>2
  <2> QED BY <2>1, <2>2
<1>11. ASSUME NEW p \in Pubs, p # t
       PROVE  (Busy(p)' <=> Busy(p)) /\ job'[p] = job[p]
  BY <1>1, <1>11 DEF Released, Busy
<1>12. ASSUME NEW p \in Pubs, Busy(p)
       PROVE  /\ p # t /\ job[p].part \in PartType /\ Past(job[p].part.uri, next, index)
              /\ job[p].part.uri \notin DOMAIN cache /\ job[p].part.uri # <<next, index>>
              /\ \A q \in PartsOf(segs, pend) : q.uri = job[p].part.uri => q = job[p].part
              /\ \A o \in Pubs : Busy(o) /\ o # p => job[o].part.uri # job[p].part.uri
  <2>1. p # t
    BY <1>12 DEF Released, Busy
  <2> QED BY <1>4, <1>12, <2>1 DEF HInv, InHand
<1>13. InHand'
  <2> SUFFICES ASSUME NEW p \in Pubs, Busy(p)'
               PROVE  /\ job'[p].part \in PartType /\ Past(job'[p].part.uri, next', index')
                      /\ job'[p].part.uri \notin DOMAIN cache'
                      /\ \A q \in PartsOf(segs', pend') : q.uri = job'[p].part.uri => q = job'[p].part
                      /\ \A o \in Pubs : Busy(o)' /\ o # p => job'[o].part.uri # job'[p].part.uri
    BY DEF InHand
  <2>1. CASE p = t
    <3>1. job'[p].part \in new /\ new = {job'[p].part}
      BY <2>1 DEF Fresh
    <3>2. job'[p].part.uri \notin DOMAIN cache'
      BY <1>4, <1>5, <3>1 DEF HInv, PastCache
    <3>3. \A q \in PartsOf(segs', pend') : q.uri = job'[p].part.uri => q = job'[p].part
      BY <1>4, <1>5, <1>6, <3>1
    <3>4. \A o \in Pubs : Busy(o)' /\ o # p => job'[o].part.uri # job'[p].part.uri
      BY <1>5, <1>11, <1>12, <2>1, <3>1
    <3> QED BY <1>5, <3>1, <3>2, <3>3, <3>4
  <2>2. CASE p # t
    <3>1. Busy(p) /\ job'[p] = job[p]
      BY <1>11, <2>2
    <3>2. \A q \in PartsOf(segs', pend') : q.uri = job[p].part.uri => q = job[p].part
      BY <1>5, <1>12, <3>1
    <3>3. ASSUME NEW o \in Pubs, Busy(o)', o # p PROVE job'[o].part.uri # job[p].part.uri
      <4>1. CASE o = t
        <5>1. job'[o].part \in new
          BY <3>3, <4>1 DEF Fresh
        <5> QED BY <1>5, <1>12, <3>1, <5>1
      <4>2. CASE o # t
        BY <1>11, <1>12, <3>1, <3>3, <4>2
      <4> QED BY <4>1, <4>2
    <3> QED BY <1>3, <1>5, <1>12, <3>1, <3>2, <3>3
  <2> QED BY <2>1, <2>2
<1>14. ClosedWork'
  <2> SUFFICES ASSUME NEW r \in Tasks
               PROVE  /\ job'[r].at = "coalesce" => job'[r].work # {}
                      /\ \A g \in job'[r].work : g.seq < next' /\ \A h \in job'[r].work : g = h
    BY DEF ClosedWork
  <2>1. CASE r = t
    BY <2>1 DEF Released, Keeps, Locked
  <2>2. CASE r # t
    <3>1. job'[r] = job[r]
      BY <2>2 DEF Released
    <3>2. /\ job[r].at = "coalesce" => job[r].work # {}
          /\ \A g \in job[r].work : g.seq < next /\ \A h \in job[r].work : g = h
      BY DEF HInv, ClosedWork
    <3>3. ASSUME NEW g \in job[r].work PROVE g.seq \in Nat
      BY <3>3 DEF HInv, TypeOK, JobType, SegType
    <3> QED BY <1>1, <1>2, <3>1, <3>2, <3>3
  <2> QED BY <2>1, <2>2
<1>15. Served'
  <2> SUFFICES ASSUME NEW q \in PartsOf(segs', pend')
               PROVE  \/ q.uri \in DOMAIN cache' /\ cache'[q.uri] = <<<<q.from, q.dts>>>>
                      \/ \E p \in Pubs : Busy(p)' /\ job'[p].part = q
    BY DEF Served
  <2>1. CASE q \in new
    <3>1. t \in Pubs
      BY <1>1, <2>1 DEF Fresh
    <3>2. Busy(t)' /\ job'[t].part = q
      BY <2>1, <3>1 DEF Fresh
    <3> QED BY <3>1, <3>2
  <2>2. CASE q \in PartsOf(segs, pend)
    <3>1. \/ q.uri \in DOMAIN cache /\ cache[q.uri] = <<<<q.from, q.dts>>>>
          \/ \E p \in Pubs : Busy(p) /\ job[p].part = q
      BY <2>2 DEF HInv, Served
    <3> QED BY <1>5, <1>11, <1>12, <3>1
  <2> QED BY <1>5, <2>1, <2>2
<1>16. Rendering'
  <2> SUFFICES ASSUME NEW c \in Clients, reload'[c].at = "render"
               PROVE  Has(c, segs, pend, next)'
    BY DEF Rendering
  <2>1. Has(c, b0.segs, b0.pend, b0.next)
    BY DEF HInv, Rendering, OnlyWoken, Locked
  <2>2. Has(c, b.segs, b.pend, b.next)
    BY <2>1 DEF Keeps
  <2> QED BY <2>2 DEF Has, OnlyWoken, Released
<1>17. InUriOrder(segs, pend)'
  OBVIOUS
<1> QED BY <1>7, <1>8, <1>9, <1>10, <1>13, <1>14, <1>15, <1>16, <1>17 DEF HInv

LEMMA NowLocked == Locked(Now) /\ (index \in Nat => Locked([Now EXCEPT !.index = @ + 1]))
BY DEF Locked, Now

LEMMA KeptTyped ==
  ASSUME HInv, NEW b0, Locked(b0), NEW b, Keeps(b, b0)
  PROVE  /\ b.segs \in Seq(SegType) /\ b.pend \in Seq(PartType) /\ b.next \in Nat /\ b.index \in Nat
         /\ b.mark \in BOOLEAN /\ InUriOrder(b.segs, b.pend)
         /\ (b.next = next /\ b.index = b0.index) \/ (b.next = next + 1 /\ b.index = 0)
         /\ b.evicted \subseteq Seq(Nat) /\ CoalesceWork(segs, b.segs) \subseteq SegType
         /\ PartsOf(b.segs, b.pend) \subseteq PartsOf(segs, pend)
<1>1. pend \in Seq(PartType) /\ next \in Nat /\ index \in Nat
  BY DEF HInv, TypeOK
<1>2. b0.segs = segs /\ b0.pend = pend /\ b0.next = next /\ b0.index \in Nat
  BY <1>1 DEF Locked
<1>3. /\ b.segs \in Seq(SegType) /\ b.mark \in BOOLEAN /\ InUriOrder(b.segs, b.pend)
      /\ PartsOf(b.segs, b.pend) \subseteq PartsOf(segs, pend)
  BY <1>2 DEF Keeps
<1>4. b.pend \in {<<>>, pend}
  BY <1>2 DEF Keeps
<1>5. b.evicted \subseteq Seq(Nat) /\ CoalesceWork(segs, b.segs) \subseteq SegType
  BY <1>2 DEF Keeps
<1>6. (b.next = next /\ b.index = b0.index) \/ (b.next = next + 1 /\ b.index = 0)
  BY <1>2 DEF Keeps
<1>7. b.next \in Nat /\ b.index \in Nat
  BY <1>1, <1>2, <1>6
<1>8. b.pend \in Seq(PartType)
  <2>1. <<>> \in Seq(PartType)
    OBVIOUS
  <2> HIDE DEF PartType
  <2> QED BY <1>1, <1>4, <2>1
<1> QED BY <1>3, <1>5, <1>6, <1>7, <1>8

LEMMA FinalizeStep == ASSUME HInv, Finalize PROVE HInv' /\ Fixed
<1> DEFINE b == Closed(Now)
           j == [at |-> "coalesce", part |-> <<>>, work |-> CoalesceWork(segs, b.segs), evicted |-> b.evicted]
<1>1. /\ stops > 0 /\ job[Bus].at = "idle" /\ stops' = stops - 1 /\ Become(b) /\ GoOn(Bus, j) /\ ended' = TRUE
      /\ UNCHANGED <<last, cache, init, phase, drain>>
  BY DEF Finalize
<1>2. TypeOK /\ Locked(Now) /\ Keeps(b, Now)
  BY NowLocked, LockedCloses, CloseKeeps DEF HInv
<1> HIDE DEF b
<1>3. j \in JobType
  <2>1. j.work \subseteq SegType /\ j.evicted \subseteq Seq(Nat)
    BY <1>2, KeptTyped
  <2> QED BY <2>1 DEF JobType
<1>4. j.at = "coalesce" /\ j.work = CoalesceWork(segs, b.segs) /\ j.evicted = b.evicted
  OBVIOUS
<1> HIDE DEF j
<1>5. GoesOn(Bus, j) /\ OnlyWoken
  BY <1>1, <1>2, <1>3, <1>4, GoOnGoesOn, HandTyped
<1>6. segs' = b.segs /\ pend' = b.pend /\ next' = b.next /\ index' = b.index /\ mark' = b.mark
  BY <1>1 DEF Become
<1>7. last \in Int /\ Bus \in Tasks /\ Bus \notin Pubs /\ Pubs \subseteq Tasks
  BY <1>2, HandTyped, HlsAssumption DEF TypeOK
<1>8. Released(b, Bus, {})
  BY <1>1, <1>4, <1>5, <1>6, <1>7 DEF Released, GoesOn
<1>9. Fresh(Bus, {})
  BY <1>7 DEF Fresh
<1>10. InUriOrder(segs', pend')
  BY <1>2, <1>6 DEF Keeps
<1>11. Shown'
  BY <1>1, <1>5, <1>7, HandTyped DEF Shown, GoesOn
<1>12. stops \in Nat /\ Cardinality(Departed) \in Nat /\ stops <= Cardinality(Departed) /\ stops \in 0..Cardinality(Pubs)
       /\ Cardinality(Pubs) \in Nat
  <2>1. IsFiniteSet(Departed) /\ IsFiniteSet(Pubs)
    BY HlsAssumption, FS_Subset DEF Departed
  <2> QED BY <2>1, HandTyped, FS_CardinalityType DEF SourceTyped, StopsFit
<1>13. stops' <= Cardinality(Departed) /\ stops' \in 0..Cardinality(Pubs)
  BY <1>1, <1>12
<1>14. StopsFit'
  BY <1>1, <1>13 DEF StopsFit, Departed
<1>15. TypeOK'
  <2>1. /\ segs' \in Seq(SegType) /\ pend' \in Seq(PartType) /\ next' \in Nat /\ index' \in Nat /\ mark' \in BOOLEAN
    BY <1>2, <1>6, KeptTyped
  <2>2. job' \in [Tasks -> JobType] /\ reload' \in [Clients -> Asking]
    BY <1>5 DEF GoesOn, OnlyWoken
  <2> QED BY <1>1, <1>2, <1>13, <2>1, <2>2 DEF TypeOK, Asking
<1>16. HInv'
  BY <1>2, <1>5, <1>7, <1>8, <1>9, <1>10, <1>11, <1>14, <1>15, BuilderStep
<1>17. Fixed
  BY <1>1 DEF Fixed
<1> QED BY <1>16, <1>17

LEMMA Appended ==
  ASSUME NEW x \in Seq(PartType), NEW q \in PartType
  PROVE  /\ Append(x, q) \in Seq(PartType) /\ ToSet(Append(x, q)) = ToSet(x) \cup {q}
         /\ DOMAIN x \subseteq DOMAIN Append(x, q)
         /\ \A a \in DOMAIN Append(x, q) :
              (a \in DOMAIN x /\ Append(x, q)[a] = x[a]) \/ (a \notin DOMAIN x /\ a = Len(x) + 1 /\ Append(x, q)[a] = q)
<1>1. /\ Len(x) \in Nat /\ DOMAIN x = 1..Len(x) /\ Append(x, q) \in Seq(PartType)
      /\ Len(Append(x, q)) = Len(x) + 1 /\ DOMAIN Append(x, q) = 1..Len(x) + 1
      /\ Append(x, q)[Len(x) + 1] = q /\ \A a \in 1..Len(x) : Append(x, q)[a] = x[a]
  BY AppendProperties, LenProperties
<1> DEFINE y == Append(x, q)
<1> HIDE DEF y
<1>2. \A a \in DOMAIN y : (a \in DOMAIN x /\ y[a] = x[a]) \/ (a \notin DOMAIN x /\ a = Len(x) + 1 /\ y[a] = q)
  <2> SUFFICES ASSUME NEW a \in 1..Len(x) + 1
               PROVE  (a \in 1..Len(x) /\ y[a] = x[a]) \/ (a \notin 1..Len(x) /\ a = Len(x) + 1 /\ y[a] = q)
    BY <1>1 DEF y
  <2>1. a \in 1..Len(x) \/ (a \notin 1..Len(x) /\ a = Len(x) + 1)
    BY <1>1
  <2> QED BY <1>1, <2>1 DEF y
<1>3. DOMAIN x \subseteq DOMAIN y /\ Len(x) + 1 \in DOMAIN y
  BY <1>1 DEF y
<1>4. ToSet(y) = ToSet(x) \cup {q}
  <2>1. ASSUME NEW r \in ToSet(y) PROVE r \in ToSet(x) \cup {q}
    BY <1>2 DEF ToSet
  <2>2. ASSUME NEW r \in ToSet(x) PROVE r \in ToSet(y)
    BY <1>1, <1>3 DEF ToSet, y
  <2>3. q \in ToSet(y)
    BY <1>1, <1>3 DEF ToSet, y
  <2> QED BY <2>1, <2>2, <2>3
<1> QED BY <1>1, <1>2, <1>3, <1>4 DEF y

\* The order of the URIs extends to a part that all the others precede.
LEMMA AppendedInOrder ==
  ASSUME NEW s \in Seq(SegType), NEW x \in Seq(PartType), NEW q \in PartType, InUriOrder(s, x),
         \A r \in PartsOf(s, x) : Precedes(r, q)
  PROVE  InUriOrder(s, Append(x, q))
<1> DEFINE y == Append(x, q)
<1>1. \A a \in DOMAIN y : (a \in DOMAIN x /\ y[a] = x[a]) \/ (a \notin DOMAIN x /\ a = Len(x) + 1 /\ y[a] = q)
  BY Appended
<1>2. Len(x) \in Nat /\ DOMAIN x = 1..Len(x)
  BY LenProperties
<1> HIDE DEF y
<1>3. Sorted(y)
  <2> SUFFICES ASSUME NEW a \in DOMAIN y, NEW b \in DOMAIN y, a < b PROVE Precedes(y[a], y[b])
    BY DEF Sorted
  <2>1. CASE b \in DOMAIN x
    <3>1. a \in DOMAIN x
      BY <1>1, <1>2, <2>1
    <3> QED BY <1>1, <2>1, <3>1 DEF InUriOrder, Sorted
  <2>2. CASE b \notin DOMAIN x
    <3>1. b = Len(x) + 1 /\ y[b] = q
      BY <1>1, <2>2
    <3>2. a # Len(x) + 1
      BY <1>2, <3>1
    <3>3. a \in DOMAIN x /\ y[a] = x[a]
      BY <1>1, <3>2
    <3>4. y[a] \in PartsOf(s, x)
      BY <3>3 DEF PartsOf, ToSet
    <3> QED BY <3>1, <3>4
  <2> QED BY <2>1, <2>2
<1>4. ASSUME NEW k \in DOMAIN s PROVE Below(s[k].parts, y)
  <2> SUFFICES ASSUME NEW a \in DOMAIN s[k].parts, NEW b \in DOMAIN y PROVE Precedes(s[k].parts[a], y[b])
    BY DEF Below
  <2>1. CASE b \in DOMAIN x
    BY <1>1, <2>1 DEF InUriOrder, Below
  <2>2. CASE b \notin DOMAIN x
    <3>1. s[k].parts[a] \in PartsOf(s, x)
      BY DEF PartsOf, ToSet
    <3> QED BY <1>1, <2>2, <3>1
  <2> QED BY <2>1, <2>2
<1> QED BY <1>3, <1>4 DEF InUriOrder, y

LEMMA PushStep ==
  ASSUME HInv, NEW p \in Pubs, NEW key \in BOOLEAN, NEW dur \in Durations, Push(p, key, dur)
  PROVE  HInv' /\ Fixed
<1> DEFINE named == [Now EXCEPT !.index = @ + 1]
           part == [uri |-> <<next, index>>, dts |-> drain[p].read, from |-> <<p, drain[p].init>>]
           b == IF StartsSegment(p, key) THEN Closed(named) ELSE named
           new == [at |-> "insert", part |-> part, work |-> CoalesceWork(segs, b.segs), evicted |-> b.evicted]
<1>1. /\ Become([b EXCEPT !.pend = Append(@, part)]) /\ job' = [job EXCEPT ![p] = new]
      /\ last' = drain[p].read /\ Read(p, key) /\ UNCHANGED <<ended, cache, init, phase, stops, reload>>
      /\ last <= drain[p].read /\ Ready(p)
  BY DEF Push, Accept
<1>2. /\ TypeOK /\ next \in Nat /\ index \in Nat /\ job \in [Tasks -> JobType] /\ p \in Tasks /\ Bus \notin Pubs
      /\ reload \in [Clients -> Asking] /\ drain[p].read \in 0..Chunks /\ drain[p].init \in 0..MaxInits /\ Chunks \in Nat
      /\ MaxInits \in Nat /\ last \in Int /\ Pubs \subseteq Tasks /\ Tasks = Pubs \cup {Bus}
  <2>1. next \in Nat /\ index \in Nat /\ last \in Int
    <3>1. TypeOK
      BY HandTyped
    <3>2. last \in -1..Chunks
      BY <3>1 DEF TypeOK
    <3> QED BY <3>1, <3>2 DEF TypeOK
  <2>2. Bus \notin Pubs /\ Tasks = Pubs \cup {Bus}
    BY HlsAssumption DEF Tasks
  <2> QED BY <2>1, <2>2, HandTyped
<1>3. drain[p].read < Chunks /\ job[p].at \in {"idle", "push"}
  BY <1>1, HandTyped DEF Ready, HasFragment, Shown
<1>4. Locked(named) /\ named.index = index + 1
  BY <1>2, NowLocked DEF Now
<1>5. Keeps(b, named)
  <2>1. Closable(named)
    BY <1>4, LockedCloses
  <2>2. Keeps(named, named) /\ Keeps(Closed(named), named)
    BY <1>2, <2>1, KeepsItself, CloseKeeps
  <2> QED BY <2>2
<1>6. \E s, q, n, i, m, e : b = [segs |-> s, pend |-> q, next |-> n, index |-> i, mark |-> m, evicted |-> e]
  <2>1. named = [segs |-> segs, pend |-> pend, next |-> next, index |-> index + 1, mark |-> mark, evicted |-> {}]
    BY DEF Now
  <2> HIDE DEF named
  <2>2. Closed(named) = named \/ \E s, q, n, i, m, e :
          Closed(named) = [segs |-> s, pend |-> q, next |-> n, index |-> i, mark |-> m, evicted |-> e]
    BY DEF Closed
  <2> QED BY <2>1, <2>2
<1> HIDE DEF b
<1>7. segs' = b.segs /\ pend' = Append(b.pend, part) /\ next' = b.next /\ index' = b.index /\ mark' = b.mark
  <2>1. PICK s, q, n, i, m, e : b = [segs |-> s, pend |-> q, next |-> n, index |-> i, mark |-> m, evicted |-> e]
    BY <1>6
  <2> DEFINE c == [b EXCEPT !.pend = Append(@, part)]
  <2>2. c.segs = s /\ c.pend = Append(q, part) /\ c.next = n /\ c.index = i /\ c.mark = m
    BY <2>1
  <2> QED BY <1>1, <2>1, <2>2 DEF Become
<1>8. part \in PartType /\ part.uri = <<next, index>> /\ part.dts = drain[p].read
  <2>1. <<p, drain[p].init>> \in Inits
    BY <1>2, <1>3 DEF Inits
  <2> QED BY <1>2, <2>1 DEF PartType
<1> HIDE DEF part
<1>9. /\ b.segs \in Seq(SegType) /\ b.pend \in Seq(PartType) /\ b.mark \in BOOLEAN
      /\ (b.next = next /\ b.index = index + 1) \/ (b.next = next + 1 /\ b.index = 0)
      /\ InUriOrder(b.segs, b.pend) /\ PartsOf(b.segs, b.pend) \subseteq PartsOf(segs, pend)
  BY <1>4, <1>5, KeptTyped
<1>10. new \in JobType /\ new.at = "insert" /\ new.part = part /\ new.work = CoalesceWork(segs, b.segs)
       /\ new.evicted = b.evicted
  <2>1. CoalesceWork(segs, b.segs) \subseteq SegType /\ b.evicted \subseteq Seq(Nat)
    BY <1>4, <1>5, KeptTyped
  <2> QED BY <1>8, <2>1 DEF JobType
<1> HIDE DEF new
<1>11. job' \in [Tasks -> JobType] /\ job'[p] = new /\ \A u \in Tasks : u # p => job'[u] = job[u]
  BY <1>1, <1>2, <1>10
<1>12. /\ pend' \in Seq(PartType) /\ ToSet(pend') = ToSet(b.pend) \cup {part} /\ DOMAIN b.pend \subseteq DOMAIN pend'
  BY <1>7, <1>8, <1>9, Appended
<1>13. PartsOf(segs', pend') = PartsOf(b.segs, b.pend) \cup {part}
  BY <1>7, <1>12 DEF PartsOf
<1>14. Released(b, p, {part})
  BY <1>1, <1>3, <1>7, <1>10, <1>11, <1>12, <1>13 DEF Released
<1>15. Past(part.uri, next', index')
  <2>1. next' \in Nat /\ index' \in Nat /\ ((next' = next /\ index <= index') \/ next' = next + 1)
        /\ (index < index' \/ next' = next + 1)
    BY <1>2, <1>7, <1>9
  <2> QED BY <1>2, <1>8, <2>1, UriOrder
<1>16. Fresh(p, {part})
  BY <1>1, <1>2, <1>8, <1>10, <1>11, <1>15 DEF Fresh, Busy
<1>17. ASSUME NEW r \in PartsOf(b.segs, b.pend) PROVE Precedes(r, part)
  <2>1. Past(r.uri, next, index) /\ r.dts <= last
    BY <1>9, <1>17 DEF HInv, PastParts
  <2>2. r.dts \in Nat
    BY <1>9, <1>17, PartsTyped
  <2>3. part.uri[1] = next /\ part.uri[2] = index /\ r.dts <= part.dts
    BY <1>1, <1>2, <1>8, <2>1, <2>2
  <2> QED BY <2>1, <2>3 DEF Precedes
<1>18. InUriOrder(segs', pend')
  BY <1>7, <1>8, <1>9, <1>17, AppendedInOrder
<1>19. OnlyWoken
  BY <1>1, <1>2, NotifyOnlyWakes
<1>20. /\ drain' \in [Pubs -> [init : 0..MaxInits, read : 0..Chunks, start : -1..Chunks]]
       /\ \A q \in Pubs : q # p => drain'[q] = drain[q]
  BY <1>1, <1>3, ReadTyped
<1>21. Shown'
  <2> SUFFICES ASSUME NEW q \in Pubs, job'[q].at \in {"first", "again", "mark", "push"}
               PROVE  drain'[q].init > 0 /\ drain'[q].read < Chunks
    BY DEF Shown
  <2>1. q # p
    BY <1>10, <1>11
  <2>2. job'[q] = job[q] /\ drain'[q] = drain[q]
    BY <1>2, <1>11, <1>20, <2>1
  <2> QED BY <2>2, HandTyped DEF Shown
<1>22. StopsFit'
  BY <1>1 DEF HInv, StopsFit, Departed
<1>23. TypeOK'
  <2>1. next' \in Nat /\ index' \in Nat /\ last' \in -1..Chunks /\ segs' \in Seq(SegType) /\ mark' \in BOOLEAN
    <3>1. segs' \in Seq(SegType) /\ mark' \in BOOLEAN
      BY <1>7, <1>9
    <3>2. next' \in Nat /\ index' \in Nat
      <4>1. next \in Nat /\ index \in Nat
        BY <1>2
      <4> QED BY <1>7, <1>9, <4>1
    <3>3. last' \in -1..Chunks
      BY <1>1, <1>2
    <3> QED BY <3>1, <3>2, <3>3
  <2> QED BY <1>1, <1>2, <1>11, <1>12, <1>20, <2>1 DEF TypeOK, Asking
<1>24. HInv'
  BY <1>2, <1>4, <1>5, <1>14, <1>16, <1>18, <1>19, <1>21, <1>22, <1>23, BuilderStep
<1>25. Fixed
  BY <1>1 DEF Fixed
<1> QED BY <1>24, <1>25

-----------------------------------------------------------------------------
(* The invariant.                                                          *)

LEMMA NoParts == PartsOf(<<>>, <<>>) = {}
BY DEF PartsOf, ToSet

LEMMA InitHInv == Init => HInv
<1> SUFFICES ASSUME Init PROVE HInv
  OBVIOUS
<1>1. /\ segs = <<>> /\ pend = <<>> /\ next = 0 /\ index = 0 /\ last = -1 /\ mark = FALSE /\ ended = FALSE
      /\ cache = <<>> /\ init = <<>> /\ phase = [p \in Pubs |-> "new"] /\ stops = 0
      /\ drain = [p \in Pubs |-> [init |-> 0, read |-> 0, start |-> -1]]
      /\ job = [t \in Tasks |-> Idle] /\ reload = [c \in Clients |-> NoRequest]
  BY DEF Init
<1>2. /\ Chunks \in Nat /\ MaxInits \in Nat /\ MaxSegments \in Nat /\ Cardinality(Pubs) \in Nat
      /\ Cardinality(Departed) \in Nat /\ Pubs \subseteq Tasks
  <2>1. IsFiniteSet(Pubs) /\ IsFiniteSet(Departed)
    BY HlsAssumption, FS_Subset DEF Departed
  <2> QED BY <2>1, FS_CardinalityType, HlsAssumption DEF Tasks
<1>3. Idle \in JobType /\ Idle.at = "idle" /\ Idle.work = {} /\ Idle.evicted = {}
  BY DEF Idle, JobType
<1>4. NoRequest \in Asking /\ NoRequest.at = "idle"
  BY DEF NoRequest, Asking
<1>5. TypeOK
  <2>1. [init |-> 0, read |-> 0, start |-> -1] \in [init : 0..MaxInits, read : 0..Chunks, start : -1..Chunks]
    BY <1>2
  <2>2. stops \in 0..Cardinality(Pubs) /\ last \in -1..Chunks
    BY <1>1, <1>2
  <2>3. \A u \in DOMAIN cache : u \in Seq(Nat) /\ cache[u] \in Seq(Inits \X (0..Chunks))
    BY <1>1
  <2>4. segs \in Seq(SegType) /\ pend \in Seq(PartType)
    BY <1>1
  <2>5. job \in [Tasks -> JobType]
    BY <1>1, <1>3
  <2>6. reload \in [Clients -> Asking]
    BY <1>1, <1>4
  <2>7. drain \in [Pubs -> [init : 0..MaxInits, read : 0..Chunks, start : -1..Chunks]]
    BY <1>1, <2>1
  <2>8. init \in Inits \cup {<<>>} /\ phase \in [Pubs -> {"new", "live", "over"}] /\ next \in Nat /\ index \in Nat
        /\ mark \in BOOLEAN /\ ended \in BOOLEAN
    BY <1>1
  <2> QED BY <2>2, <2>3, <2>4, <2>5, <2>6, <2>7, <2>8 DEF TypeOK, Asking
<1>6. Window(segs, next) /\ InUriOrder(segs, pend)
  BY <1>1, <1>2 DEF Window, InUriOrder, Sorted
<1>7. PartsOf(segs, pend) = {}
  BY <1>1, NoParts
<1>8. \A t \in Tasks : job[t].at = "idle" /\ job[t].work = {} /\ job[t].evicted = {}
  BY <1>1, <1>3
<1>9. PastParts(PartsOf(segs, pend), next, index, last) /\ Served
  BY <1>7 DEF PastParts, Served
<1>10. PastEvicted /\ ClosedWork
  BY <1>8 DEF PastEvicted, ClosedWork
<1>11. InHand /\ Shown
  BY <1>2, <1>8 DEF InHand, Shown, Busy
<1>12. PastCache
  BY <1>1 DEF PastCache
<1>13. Rendering
  BY <1>1, <1>4 DEF Rendering
<1>14. StopsFit
  BY <1>1, <1>2 DEF StopsFit
<1> QED BY <1>5, <1>6, <1>9, <1>10, <1>11, <1>12, <1>13, <1>14 DEF HInv

LEMMA DrainKeepsCache ==
  ASSUME NEW p \in Pubs, Publish(p) \/ Unpublish(p) \/ InitRead(p) \/ InitWrite(p) \/ InitMark(p)
                         \/ \E key \in BOOLEAN, dur \in Durations : Refuse(p, key, dur)
  PROVE  Fixed
<1>1. cache' = cache
  BY DEF Publish, Unpublish, InitRead, InitWrite, InitMark, Refuse
<1> QED BY <1>1 DEF Fixed

LEMMA HlsStep == ASSUME HInv, [Next]_vars PROVE HInv' /\ Fixed
<1>1. CASE UNCHANGED vars
  <2>1. /\ UNCHANGED <<segs, pend, next, index, last, ended, mark, cache, init, phase, drain, stops, job, reload>>
    BY <1>1 DEF vars, builder, source
  <2>2. SourceTyped' /\ Shown'
    BY <2>1, HandTyped DEF SourceTyped, StopsFit, Departed, Shown
  <2> QED BY <2>1, <2>2, HandTyped, SameHand, QuietStep DEF Fixed
<1>2. ASSUME NEW p \in Pubs, Publish(p) \/ Unpublish(p) PROVE HInv' /\ Fixed
  BY <1>2, PublicationSteps, DrainKeepsCache
<1>3. ASSUME NEW p \in Pubs, Drain(p) PROVE HInv' /\ Fixed
  <2>1. CASE \E key \in BOOLEAN, dur \in Durations : Push(p, key, dur)
    BY <2>1, PushStep
  <2>2. CASE InitRead(p) \/ InitWrite(p) \/ InitMark(p) \/ \E key \in BOOLEAN, dur \in Durations : Refuse(p, key, dur)
    <3>1. Fixed
      BY <2>2, DrainKeepsCache
    <3>2. HInv'
      <4>1. CASE \E key \in BOOLEAN, dur \in Durations : Refuse(p, key, dur)
        BY <4>1, DrainQuiet
      <4>2. CASE InitRead(p) \/ InitWrite(p) \/ InitMark(p)
        BY <4>2, DrainQuiet
      <4> QED BY <2>2, <4>1, <4>2
    <3> QED BY <3>1, <3>2
  <2> QED BY <1>3, <2>1, <2>2 DEF Drain
<1>4. ASSUME NEW t \in Tasks, Cache(t) PROVE HInv' /\ Fixed
  BY <1>4, InsertStep, CoalesceStep, PurgeStep DEF Cache
<1>5. ASSUME NEW c \in Clients, (\E part \in BOOLEAN : Ask(c, part)) \/ Serve(c) PROVE HInv' /\ Fixed
  <2>1. cache' = cache
    BY <1>5 DEF Ask, Serve, Check, Sleep, Deadline, Render, quiet
  <2> QED BY <1>5, <2>1, ReloadSteps DEF Fixed
<1> QED BY <1>1, <1>2, <1>3, <1>4, <1>5, FinalizeStep DEF Next

-----------------------------------------------------------------------------
(* What the invariant says of the playlist.                                *)

LEMMA RowsOf ==
  ASSUME segs \in Seq(SegType), pend \in Seq(PartType)
  PROVE  /\ DOMAIN Rows = 1..Len(segs) + 1 /\ Rows[Len(segs) + 1] = pend
         /\ \A k \in DOMAIN segs : k \in 1..Len(segs) /\ Rows[k] = segs[k].parts
         /\ DOMAIN segs = 1..Len(segs) /\ Len(segs) \in Nat
<1> DEFINE closed == [k \in DOMAIN segs |-> segs[k].parts]
<1>1. /\ Len(segs) \in Nat /\ DOMAIN segs = 1..Len(segs) /\ \A k \in DOMAIN segs : segs[k].parts \in Seq(PartType)
  BY SegmentsTyped
<1>2. closed \in Seq(Seq(PartType)) /\ Len(closed) = Len(segs) /\ \A k \in 1..Len(segs) : closed[k] = segs[k].parts
  <2>1. closed \in [1..Len(segs) -> Seq(PartType)] /\ \A k \in 1..Len(segs) : closed[k] = segs[k].parts
    BY <1>1
  <2> HIDE DEF closed
  <2> QED BY <1>1, <2>1, SeqDef, LenProperties
<1>3. Rows = Append(closed, pend)
  BY DEF Rows
<1> HIDE DEF closed
<1>4. /\ Len(Append(closed, pend)) = Len(closed) + 1 /\ Append(closed, pend)[Len(closed) + 1] = pend
      /\ DOMAIN Append(closed, pend) = 1..Len(closed) + 1
      /\ \A k \in 1..Len(closed) : Append(closed, pend)[k] = closed[k]
  BY <1>1, <1>2, AppendProperties, LenProperties
<1> QED BY <1>1, <1>2, <1>3, <1>4

LEMMA PartsAreListed ==
  ASSUME segs \in Seq(SegType), pend \in Seq(PartType)
  PROVE  Parts = PartsOf(segs, pend)
<1>1. ASSUME NEW q \in Parts PROVE q \in PartsOf(segs, pend)
  <2>1. PICK k \in DOMAIN Rows : q \in ToSet(Rows[k])
    BY <1>1 DEF Parts
  <2>2. CASE k = Len(segs) + 1
    BY <2>1, <2>2, RowsOf DEF PartsOf
  <2>3. CASE k # Len(segs) + 1
    <3>1. k \in DOMAIN segs
      BY <2>1, <2>3, RowsOf
    <3> QED BY <2>1, <3>1, RowsOf DEF PartsOf
  <2> QED BY <2>2, <2>3
<1>2. ASSUME NEW q \in PartsOf(segs, pend) PROVE q \in Parts
  <2>1. CASE q \in ToSet(pend)
    <3>1. Len(segs) + 1 \in DOMAIN Rows /\ Rows[Len(segs) + 1] = pend
      BY RowsOf
    <3> QED BY <2>1, <3>1 DEF Parts
  <2>2. CASE q \notin ToSet(pend)
    <3>1. PICK k \in DOMAIN segs : q \in ToSet(segs[k].parts)
      BY <1>2, <2>2 DEF PartsOf
    <3>2. k \in DOMAIN Rows /\ Rows[k] = segs[k].parts
      BY RowsOf
    <3> QED BY <3>1, <3>2 DEF Parts
  <2> QED BY <2>1, <2>2
<1> QED BY <1>1, <1>2

LEMMA HInvImplies == HInv => PlaylistInv
<1> SUFFICES ASSUME HInv PROVE PlaylistInv
  OBVIOUS
<1>1. /\ TypeOK /\ segs \in Seq(SegType) /\ pend \in Seq(PartType) /\ next \in Nat /\ index \in Nat
      /\ Window(segs, next) /\ InUriOrder(segs, pend) /\ Pubs \subseteq Tasks
  BY HandTyped DEF HInv, TypeOK
<1>2. Parts = PartsOf(segs, pend)
  BY <1>1, PartsAreListed
<1>3. WindowInOrder
  <2>1. ASSUME NEW j \in DOMAIN Rows, NEW k \in DOMAIN Rows, j <= k,
               NEW a \in DOMAIN Rows[j], NEW b \in DOMAIN Rows[k], j < k \/ a <= b
        PROVE  Rows[j][a].dts <= Rows[k][b].dts
    <3>1. j \in 1..Len(segs) + 1 /\ k \in 1..Len(segs) + 1 /\ Len(segs) \in Nat /\ DOMAIN segs = 1..Len(segs)
      BY <1>1, RowsOf
    <3>2. Sorted(Rows[k]) /\ Rows[k] \in Seq(PartType)
      <4>1. CASE k \in DOMAIN segs
        BY <1>1, <4>1, RowsOf, SegmentsTyped DEF InUriOrder
      <4>2. CASE k = Len(segs) + 1
        BY <1>1, <4>2, RowsOf DEF InUriOrder
      <4> QED BY <3>1, <4>1, <4>2
    <3>3. CASE j < k
      <4>1. j \in DOMAIN segs /\ Rows[j] = segs[j].parts
        <5>1. j \in 1..Len(segs)
          BY <3>1, <3>3
        <5> QED BY <1>1, <3>1, <5>1, RowsOf
      <4>2. Below(Rows[j], Rows[k])
        <5>1. CASE k \in DOMAIN segs
          BY <1>1, <3>3, <4>1, <5>1, RowsOf DEF InUriOrder
        <5>2. CASE k = Len(segs) + 1
          BY <1>1, <4>1, <5>2, RowsOf DEF InUriOrder
        <5> QED BY <3>1, <5>1, <5>2
      <4> QED BY <4>2 DEF Below, Precedes
    <3>4. CASE j = k
      <4>1. a <= b
        BY <2>1, <3>1, <3>4
      <4>2. a \in DOMAIN Rows[k] /\ a \in 1..Len(Rows[k]) /\ b \in 1..Len(Rows[k]) /\ Len(Rows[k]) \in Nat
        BY <3>2, <3>4, LenProperties
      <4>3. CASE a < b
        BY <3>2, <3>4, <4>2, <4>3 DEF Sorted, Precedes
      <4>4. CASE a = b
        <5>1. Rows[k][b] \in PartType
          BY <3>2, <4>2, ElementOfSeq
        <5>2. Rows[k][b].dts \in 0..Chunks /\ Chunks \in Nat
          BY <5>1, HlsAssumption DEF PartType
        <5>3. Rows[k][b].dts <= Rows[k][b].dts
          BY <5>2
        <5> QED BY <3>4, <4>4, <5>3
      <4>5. a < b \/ a = b
        BY <4>1, <4>2
      <4> QED BY <4>3, <4>4, <4>5
    <3> QED BY <2>1, <3>1, <3>3, <3>4
  <2> QED BY <1>1, <2>1 DEF WindowInOrder, Window
<1>4. NextUriUnused
  <2>1. ASSUME NEW u, Past(u, next, index) PROVE u # <<next, index>> /\ u # SegUri(next)
    <3>1. <<next>>[1] = next /\ <<next, index>>[1] = next /\ <<next, index>>[2] = index /\ <<next>> \notin Nat \X Nat
      BY SegUriIsNoPart
    <3>2. ~Past(<<next>>, next, index) /\ ~Past(<<next, index>>, next, index)
      <4>1. next \in Nat /\ index \in Nat /\ ~(next < next) /\ ~(index < index)
        BY <1>1
      <4>2. ~Past(<<next>>, next, index)
        BY <3>1, <4>1 DEF Past
      <4>3. ~Past(<<next, index>>, next, index)
        BY <3>1, <4>1 DEF Past
      <4> QED BY <4>2, <4>3
    <3> QED BY <2>1, <3>2 DEF SegUri
  <2>2. \A u \in DOMAIN cache : Past(u, next, index)
    BY DEF HInv, PastCache
  <2>3. \A u \in PartUris : Past(u, next, index)
    BY <1>2 DEF PartUris, HInv, PastParts
  <2>4. ASSUME NEW u \in SegUris PROVE Past(u, next, index)
    <3>1. PICK k \in DOMAIN segs : u = <<segs[k].seq>>
      BY <2>4 DEF SegUris, SegUri, ToSet
    <3>2. k \in 1..Len(segs) /\ Len(segs) \in Nat /\ segs[k].seq \in Nat /\ segs[k].seq = next - Len(segs) + k - 1
      BY <1>1, SegmentsTyped DEF Window
    <3>3. next - Len(segs) + k - 1 < next
      BY <1>1, <3>2
    <3> QED BY <3>1, <3>2, <3>3 DEF Past
  <2>5. \A p \in Pubs : Busy(p) => Past(job[p].part.uri, next, index)
    BY DEF HInv, InHand
  <2> QED BY <2>1, <2>2, <2>3, <2>4, <2>5 DEF NextUriUnused
<1>5. ListedPartServed
  BY <1>2 DEF HInv, Served, ListedPartServed
<1> QED BY <1>1, <1>3, <1>4, <1>5 DEF PlaylistInv

LEMMA HInvHolds == EgressSpec => []HInv
<1>1. EgressInit => HInv
  BY InitHInv DEF EgressInit
<1>2. HInv /\ [EgressNext]_egress => HInv'
  BY HlsStep DEF EgressNext, egress
<1> QED BY <1>1, <1>2, PTL DEF EgressSpec

\* However pushes, finalisations and evictions of any number of publications
\* interleave, playlist and cache agree (push, close_pending_segment,
\* push_chunk_bytes, finalize).
THEOREM PlaylistAgrees == EgressSpec => []PlaylistInv
BY HInvHolds, HInvImplies, PTL

\* The bytes that are served under a URI never change (push_chunk_bytes,
\* coalesce_closed_segments, purge_evicted_uris).
THEOREM BodiesNeverChange == EgressSpec => BodiesFixed
<1>1. HInv /\ [EgressNext]_egress => [Fixed]_vars
  BY HlsStep DEF EgressNext, egress
<1> QED BY <1>1, HInvHolds, PTL DEF EgressSpec, BodiesFixed, Fixed

\* A reload that is answered before its deadline has what it asked for
\* (render_playlist).
THEOREM ReloadsNotEarly == EgressSpec => ReloadNotEarly
<1> DEFINE Answer ==
      \A c \in Clients : reload[c].at = "render" /\ reload'[c].at = "idle" =>
        LET msn == reload[c].msn
            part == reload[c].part
        IN \/ \E g \in ToSet(segs) : g.seq >= msn
           \/ part # -1 /\ next = msn /\ part + 1 \in DOMAIN pend
<1>1. HInv => Answer
  <2> SUFFICES ASSUME HInv, NEW c \in Clients, reload[c].at = "render"
               PROVE  \/ \E g \in ToSet(segs) : g.seq >= reload[c].msn
                      \/ reload[c].part # -1 /\ next = reload[c].msn /\ reload[c].part + 1 \in DOMAIN pend
    OBVIOUS
  <2>1. Has(c, segs, pend, next)
    BY DEF HInv, Rendering
  <2> QED BY <2>1 DEF Has, ToSet
<1> QED BY <1>1, HInvHolds, PTL DEF ReloadNotEarly

-----------------------------------------------------------------------------
(* The archive: sets of decode times in the order of their keys.           *)

LEMMA HasMax ==
  ASSUME NEW T \in SUBSET Nat, IsFiniteSet(T), T # {}
  PROVE  Max(T) \in T /\ \A y \in T : y <= Max(T)
<1> DEFINE Bounded(V) == \E x \in V : \A y \in V : y <= x
           S == {n \in Nat : \A V \in SUBSET Nat : IsFiniteSet(V) /\ Cardinality(V) = n + 1 => Bounded(V)}
<1>1. 0 \in S
  <2> SUFFICES ASSUME NEW V \in SUBSET Nat, IsFiniteSet(V), Cardinality(V) = 1 PROVE Bounded(V)
    OBVIOUS
  <2>1. PICK x : V = {x}
    BY FS_Singleton
  <2> QED BY <2>1
<1>2. ASSUME NEW n \in Nat, n \in S PROVE n + 1 \in S
  <2> SUFFICES ASSUME NEW V \in SUBSET Nat, IsFiniteSet(V), Cardinality(V) = n + 2 PROVE Bounded(V)
    OBVIOUS
  <2>1. PICK x : x \in V
    BY FS_EmptySet
  <2>2. IsFiniteSet(V \ {x}) /\ Cardinality(V \ {x}) = n + 1
    BY <2>1, FS_RemoveElement
  <2>3. V \ {x} \in SUBSET Nat
    OBVIOUS
  <2>4. PICK y \in V \ {x} : \A z \in V \ {x} : z <= y
    BY <1>2, <2>2, <2>3
  <2>5. x \in Nat /\ y \in Nat /\ y \in V
    BY <2>1, <2>4
  <2>6. CASE x <= y
    BY <2>4, <2>5, <2>6
  <2>7. CASE y <= x
    <3>1. \A z \in V : z <= x
      BY <2>4, <2>5, <2>7
    <3> QED BY <2>1, <3>1
  <2> QED BY <2>5, <2>6, <2>7
<1>3. \A n \in Nat : n \in S
  <2> HIDE DEF S
  <2> QED BY <1>1, <1>2, Countable
<1>4. Cardinality(T) \in Nat /\ Cardinality(T) # 0
  BY FS_CardinalityType, FS_EmptySet
<1>5. Cardinality(T) - 1 \in Nat /\ (Cardinality(T) - 1) + 1 = Cardinality(T)
  BY <1>4
<1>6. PICK x \in T : \A y \in T : y <= x
  BY <1>3, <1>5
<1>7. \A y \in T : x >= y
  BY <1>6
<1> QED BY <1>6, <1>7 DEF Max

Rising(s) == \A j, k \in DOMAIN s : j < k => s[j] < s[k]

LEMMA Enumerable ==
  ASSUME NEW T \in SUBSET Nat, IsFiniteSet(T)
  PROVE  \E s \in [1..Cardinality(T) -> T] : Rising(s)
<1> DEFINE S == {n \in Nat : \A V \in SUBSET Nat :
                   IsFiniteSet(V) /\ Cardinality(V) = n => \E s \in [1..n -> V] : Rising(s)}
<1>1. 0 \in S
  <2> SUFFICES ASSUME NEW V \in SUBSET Nat PROVE \E s \in [1..0 -> V] : Rising(s)
    OBVIOUS
  <2>1. [k \in 1..0 |-> 0] \in [1..0 -> V]
    OBVIOUS
  <2>2. Rising([k \in 1..0 |-> 0])
    BY DEF Rising
  <2> QED BY <2>1, <2>2
<1>2. ASSUME NEW n \in Nat, n \in S PROVE n + 1 \in S
  <2> SUFFICES ASSUME NEW V \in SUBSET Nat, IsFiniteSet(V), Cardinality(V) = n + 1
               PROVE  \E s \in [1..n+1 -> V] : Rising(s)
    OBVIOUS
  <2> DEFINE m == Max(V)
  <2>0. V # {}
    BY FS_EmptySet
  <2>1. m \in V /\ \A y \in V : y <= m
    BY <2>0, HasMax
  <2> HIDE DEF m
  <2>2. IsFiniteSet(V \ {m}) /\ Cardinality(V \ {m}) = n
    BY <2>1, FS_RemoveElement
  <2>3. PICK s \in [1..n -> V \ {m}] : Rising(s)
    <3>1. V \ {m} \in SUBSET Nat
      OBVIOUS
    <3> QED BY <1>2, <2>2, <3>1
  <2> DEFINE r == [k \in 1..n+1 |-> IF k = n + 1 THEN m ELSE s[k]]
  <2>4. r \in [1..n+1 -> V]
    BY <2>1, <2>3
  <2>5. ASSUME NEW j \in 1..n+1, NEW k \in 1..n+1, j < k PROVE r[j] < r[k]
    <3>1. j \in 1..n /\ r[j] = s[j] /\ s[j] \in V \ {m}
      BY <2>3, <2>5
    <3>2. CASE k = n + 1
      <4>1. s[j] <= m /\ s[j] # m /\ s[j] \in Nat /\ m \in Nat
        BY <2>1, <3>1
      <4> QED BY <3>1, <3>2, <4>1
    <3>3. CASE k # n + 1
      <4>1. k \in 1..n /\ r[k] = s[k]
        BY <3>3
      <4> QED BY <2>3, <2>5, <3>1, <4>1 DEF Rising
    <3> QED BY <3>2, <3>3
  <2>6. Rising(r)
    BY <2>5 DEF Rising
  <2> QED BY <2>4, <2>6
<1>3. \A n \in Nat : n \in S
  <2> HIDE DEF S
  <2> QED BY <1>1, <1>2, Countable
<1> QED BY <1>3, FS_CardinalityType

\* The keys of a range scan come out in order, each once (Ordered).
LEMMA OrderedKeys ==
  ASSUME NEW T \in SUBSET Nat, IsFiniteSet(T)
  PROVE  /\ Ordered(T) \in [1..Cardinality(T) -> T] /\ Cardinality(T) \in Nat
         /\ Rising(Ordered(T)) /\ ToSet(Ordered(T)) = T
<1> DEFINE s == Ordered(T)
           n == Cardinality(T)
           R == {s[k] : k \in 1..n}
<1>1. s \in [1..n -> T] /\ Rising(s)
  BY Enumerable DEF Ordered, Rising
<1>2. n \in Nat
  BY FS_CardinalityType
<1> HIDE DEF s
<1>3. R \in SUBSET T
  BY <1>1
<1>4. s \in [1..n -> R]
  BY <1>1
<1>5. \A j, k \in 1..n : s[j] = s[k] => j = k
  <2> SUFFICES ASSUME NEW j \in 1..n, NEW k \in 1..n, j # k PROVE s[j] # s[k]
    OBVIOUS
  <2>1. s[j] \in Nat /\ s[k] \in Nat
    BY <1>1
  <2>2. CASE j < k
    BY <1>1, <2>1, <2>2 DEF Rising
  <2>3. CASE k < j
    BY <1>1, <2>1, <2>3 DEF Rising
  <2> QED BY <1>2, <2>2, <2>3
<1>6. ExistsBijection(1..n, R)
  <2>1. s \in Bijection(1..n, R)
    BY <1>4, <1>5 DEF Bijection, Injection, Surjection, IsInjective
  <2> QED BY <2>1 DEF ExistsBijection
<1>7. IsFiniteSet(1..n) /\ Cardinality(1..n) = n
  <2>1. IsFiniteSet(1..n) /\ Cardinality(1..n) = IF 1 > n THEN 0 ELSE n - 1 + 1
    BY <1>2, FS_Interval
  <2> QED BY <1>2, <2>1
<1>8. IsFiniteSet(R) /\ Cardinality(R) = n
  BY <1>6, <1>7, FS_Bijection
<1>9. R = T
  BY <1>3, <1>8, FS_Subset
<1>10. ToSet(s) = R
  BY <1>1 DEF ToSet
<1> QED BY <1>1, <1>2, <1>9, <1>10 DEF s

-----------------------------------------------------------------------------
(* The archive's invariant.                                                *)

Contents == Recorded \cup {Missing, Torn}
Ats == {"new", "read", "init", "keep", "end", "list", "sign", "seal", "done"}
TapType == [at : Ats, read : 0..Fragments, seq : 0..Fragments, init : BOOLEAN,
            list : Seq(Numbers) \cup Seq(Contents)]
WriteType == [at : {"open", "fill", "record"}, pub : Recordings, seq : Numbers, mixed : BOOLEAN,
              dts : Times, end : Nat]
RowType == [seq : Numbers, pub : Recordings, end : Nat]

\* Another publication than p has used the file number n.
Reused(p, n) == \E q \in Recordings \ {p} : tap[q].seq >= n
Unused(p) == \A q \in Recordings : tap[q].at # "new" => q = p

ArchiveTypes ==
  /\ tap \in [Recordings -> TapType] /\ files \in [Numbers -> Contents]
  /\ initFile \in BOOLEAN /\ crashes \in 0..MaxCrashes
  /\ signed \in [asset : Seq(Contents), manifest : Seq(Contents)]

\* A drain keeps no more fragments than it has read.
TapFits(p) ==
  /\ tap[p].at = "new" => tap[p].seq = 0
  /\ tap[p].at \in {"new", "read"} => tap[p].seq <= tap[p].read
  /\ tap[p].at \in {"init", "keep"} => tap[p].seq < tap[p].read

\* A blocking task has a file number of its publication to itself, and what it
\* has written is in the file until another publication uses it.
WriteFits(w) ==
  /\ w \in WriteType /\ w.dts < w.end /\ w.seq <= tap[w.pub].seq
  /\ w.mixed => Reused(w.pub, w.seq)
  /\ w.at = "record" => files[w.seq] = Content(w) \/ Reused(w.pub, w.seq)
OneWriter == \A v, w \in writes : v.pub = w.pub /\ v.seq = w.seq => v = w

RowFits(d) ==
  /\ d \in Times /\ rows[d] \in RowType /\ d < rows[d].end /\ rows[d].seq <= tap[rows[d].pub].seq
  /\ files[rows[d].seq] = <<rows[d].pub, d>> \/ Reused(rows[d].pub, rows[d].seq)
  /\ \A w \in writes : ~(w.pub = rows[d].pub /\ w.seq = rows[d].seq)

\* Whole fragments in decode order.
Whole(s) ==
  /\ \A k \in DOMAIN s : s[k] \in Recorded
  /\ \A j, k \in DOMAIN s : j < k => s[j][2] < s[k][2]

\* While one publication is all there was: the files it is about to sign stay
\* as they are, and so does what it has read of them.
Listed(p) ==
  /\ tap[p].at = "list" =>
       /\ tap[p].list \in Seq(Numbers)
       /\ Unused(p) =>
            /\ \A k \in DOMAIN tap[p].list :
                 files[tap[p].list[k]] \in Recorded /\ \A w \in writes : w.seq # tap[p].list[k]
            /\ \A j, k \in DOMAIN tap[p].list :
                 j < k => files[tap[p].list[j]][2] < files[tap[p].list[k]][2]
  /\ tap[p].at \in {"sign", "seal"} =>
       tap[p].list \in Seq(Contents) /\ (Unused(p) => Whole(tap[p].list))
  /\ tap[p].at = "seal" /\ Unused(p) => signed.asset = tap[p].list /\ signed.manifest = <<>>

Pair == signed.manifest \in {<<>>, signed.asset} /\ Whole(signed.asset)
SignedFits ==
  /\ (\A p \in Recordings : tap[p].at \notin {"seal", "done"}) => signed = Unsigned
  /\ \A p \in Recordings : Unused(p) => Pair

AInv ==
  /\ ArchiveTypes /\ OneWriter /\ SignedFits
  /\ \A p \in Recordings : TapFits(p) /\ Listed(p)
  /\ \A w \in writes : WriteFits(w)
  /\ \A d \in DOMAIN rows : RowFits(d)

LEMMA NumbersAreNat == Numbers \subseteq Nat /\ Fragments \in Nat /\ \A n \in Numbers : n > 0
BY ArchiveAssumption DEF Numbers

LEMMA TimesAreNat ==
  /\ Times \subseteq Nat /\ IsFiniteSet(Times)
  /\ \A n \in 1..Fragments : n * Period \in Times
<1> DEFINE f == [k \in 1..Fragments |-> k * Period]
<1>1. Fragments \in Nat /\ Period \in Nat
  BY ArchiveAssumption
<1>2. ASSUME NEW k \in 1..Fragments PROVE k * Period \in Nat
  BY <1>1
<1>3. f \in Surjection(1..Fragments, Times)
  BY DEF Surjection, Times
<1>4. IsFiniteSet(1..Fragments)
  BY <1>1, FS_Interval
<1>5. IsFiniteSet(Times)
  <2> HIDE DEF f
  <2> QED BY <1>3, <1>4, FS_Surjection
<1> QED BY <1>2, <1>5 DEF Times

LEMMA OverTyped ==
  ASSUME ArchiveTypes, NEW p \in Recordings
  PROVE  /\ Over(p) \in TapType /\ Over(p).at = "done" /\ Over(p).seq = tap[p].seq
         /\ [Over(p) EXCEPT !.at = "end"] \in TapType
         /\ [Over(p) EXCEPT !.at = "end"].at = "end" /\ [Over(p) EXCEPT !.at = "end"].seq = tap[p].seq
<1>1. tap[p].seq \in 0..Fragments /\ 0 \in 0..Fragments
  BY NumbersAreNat DEF ArchiveTypes, TapType
<1>2. <<>> \in Seq(Numbers)
  OBVIOUS
<1> QED BY <1>1, <1>2 DEF Over, NewTap, TapType, Ats

LEMMA CountsAreNat ==
  ASSUME ArchiveTypes
  PROVE  \A q \in Recordings : tap[q].seq \in Nat /\ tap[q].read \in Nat
BY DEF ArchiveTypes, TapType

\* What only grows as drains go on and end.
LEMMA TapsGrow ==
  ASSUME tap \in [Recordings -> TapType], tap' \in [Recordings -> TapType],
         \A q \in Recordings : tap[q].seq <= tap'[q].seq /\ (tap[q].at # "new" => tap'[q].at # "new")
  PROVE  /\ \A q \in Recordings, n \in Numbers : Reused(q, n) => Reused(q, n)'
         /\ \A q \in Recordings : Unused(q)' => Unused(q)
<1>1. ASSUME NEW q \in Recordings, NEW n \in Numbers, Reused(q, n) PROVE Reused(q, n)'
  <2>1. PICK o \in Recordings \ {q} : tap[o].seq >= n
    BY <1>1 DEF Reused
  <2>2. tap[o].seq \in Int /\ tap'[o].seq \in Int /\ n \in Int /\ tap[o].seq <= tap'[o].seq
    BY NumbersAreNat DEF TapType
  <2>3. tap'[o].seq >= n
    BY <2>1, <2>2
  <2> QED BY <2>3 DEF Reused
<1>2. ASSUME NEW q \in Recordings, Unused(q)' PROVE Unused(q)
  BY <1>2 DEF Unused
<1> QED BY <1>1, <1>2

\* Another file number in use is no obstacle for a write's publication.
LEMMA UsedByOther ==
  ASSUME AInv, NEW w \in writes, NEW q \in Recordings, q # w.pub
  PROVE  Reused(q, w.seq)
BY DEF AInv, WriteFits, WriteType, Reused

\* A step of a drain that neither keeps a fragment nor writes.
LEMMA TapMoves ==
  ASSUME AInv, NEW p \in Recordings, NEW t \in TapType, Tap(p, t), UNCHANGED <<writes, files, rows, crashes>>,
         initFile' \in BOOLEAN, t.at # "new", t.seq = tap[p].seq,
         t.at = "read" => t.seq <= t.read, t.at \in {"init", "keep"} => t.seq < t.read,
         Listed(p)', SignedFits',
         signed' \in [asset : Seq(Contents), manifest : Seq(Contents)],
         signed' = signed \/ tap[p].at # "new"
  PROVE  AInv'
<1>1. tap \in [Recordings -> TapType] /\ tap' \in [Recordings -> TapType]
  BY DEF AInv, ArchiveTypes, Tap
<1>2. tap'[p] = t /\ \A q \in Recordings : q # p => tap'[q] = tap[q]
  BY <1>1 DEF Tap
<1>3. \A q \in Recordings : tap[q].seq = tap'[q].seq /\ tap[q].seq \in Int
  BY <1>1, <1>2 DEF TapType
<1>4. \A q \in Recordings : tap[q].seq <= tap'[q].seq /\ (tap[q].at # "new" => tap'[q].at # "new")
  BY <1>2, <1>3
<1>5. /\ \A q \in Recordings, n \in Numbers : Reused(q, n) => Reused(q, n)'
      /\ \A q \in Recordings : Unused(q)' => Unused(q)
  BY <1>1, <1>4, TapsGrow
<1>6. ArchiveTypes' /\ OneWriter'
  BY <1>1 DEF AInv, ArchiveTypes, OneWriter
<1>7. ASSUME NEW w \in writes PROVE WriteFits(w)'
  <2>1. WriteFits(w) /\ w \in WriteType
    BY DEF AInv, WriteFits
  <2>2. w.pub \in Recordings /\ w.seq \in Numbers
    BY <2>1 DEF WriteType
  <2> QED BY <1>3, <1>5, <2>1, <2>2 DEF WriteFits, Content
<1>8. ASSUME NEW d \in DOMAIN rows PROVE RowFits(d)'
  <2>1. RowFits(d)
    BY DEF AInv
  <2>2. rows[d].pub \in Recordings /\ rows[d].seq \in Numbers
    BY <2>1 DEF RowFits, RowType
  <2> QED BY <1>3, <1>5, <2>1, <2>2 DEF RowFits
<1>9. ASSUME NEW q \in Recordings, q # p PROVE TapFits(q)' /\ Listed(q)'
  <2>1. TapFits(q) /\ Listed(q) /\ tap'[q] = tap[q] /\ (Unused(q)' => Unused(q))
    BY <1>2, <1>5, <1>9 DEF AInv
  <2>2. TapFits(q)'
    BY <2>1 DEF TapFits
  <2>3. Unused(q)' => signed' = signed
    BY <1>2, <1>9 DEF Unused
  <2>4. Listed(q)'
    BY <2>1, <2>3 DEF Listed
  <2> QED BY <2>2, <2>4
<1>10. TapFits(p)'
  BY <1>2 DEF TapFits
<1> QED BY <1>6, <1>7, <1>8, <1>9, <1>10 DEF AInv

LEMMA ReadingSteps ==
  ASSUME AInv, NEW p \in Recordings,
         \/ Install(p) \/ Lagged(p) \/ NextFragment(p) \/ PassOver(p) \/ Finish(p) \/ FinalizeFailed(p)
         \/ \E ok \in BOOLEAN : WriteInit(p, ok)
  PROVE  AInv'
<1> DEFINE t == tap'[p]
           Fine ==
             /\ t \in TapType /\ Tap(p, t) /\ t.seq = tap[p].seq /\ t.at \notin {"new", "list", "sign", "seal"}
             /\ t.at = "read" => t.seq <= t.read
             /\ t.at \in {"init", "keep"} => t.seq < t.read
             /\ tap[p].at \in {"seal", "done"} => t.at = "done"
             /\ UNCHANGED <<writes, files, rows, signed, crashes>> /\ initFile' \in BOOLEAN
<1>1. tap \in [Recordings -> TapType] /\ tap[p] \in TapType /\ TapFits(p) /\ Fragments \in Nat
  BY NumbersAreNat DEF AInv, ArchiveTypes
<1>2. tap[p].read \in 0..Fragments /\ tap[p].seq \in 0..Fragments
  BY <1>1 DEF TapType
<1>3. Fine
  <2>1. CASE Install(p)
    BY <1>1, <1>2, <2>1 DEF Install, Tap, TapType, Ats, TapFits, disk, AInv, ArchiveTypes
  <2>2. CASE Lagged(p)
    <3>1. /\ t = [tap[p] EXCEPT !.at = "read", !.read = tap[p].read + 1, !.seq = tap[p].seq]
          /\ Tap(p, t) /\ tap[p].at = "read" /\ tap[p].read < Fragments
          /\ UNCHANGED <<writes, files, rows, signed, crashes>> /\ initFile' \in BOOLEAN
      BY <1>1, <2>2 DEF Lagged, Tap, TapType, disk, AInv, ArchiveTypes
    <3>2. tap[p].read + 1 \in 0..Fragments /\ tap[p].seq <= tap[p].read + 1
      BY <1>1, <1>2, <3>1 DEF TapFits
    <3>3. t \in TapType /\ t.at = "read" /\ t.seq = tap[p].seq /\ t.read = tap[p].read + 1
      <4> HIDE DEF t
      <4> QED BY <1>1, <1>2, <3>1, <3>2 DEF TapType, Ats
    <3> QED BY <3>1, <3>2, <3>3
  <2>3. CASE NextFragment(p)
    <3>1. /\ t = [tap[p] EXCEPT !.at = "init", !.read = tap[p].read + 1, !.seq = tap[p].seq]
          /\ Tap(p, t) /\ tap[p].at = "read" /\ tap[p].read < Fragments
          /\ UNCHANGED <<writes, files, rows, signed, crashes>> /\ initFile' \in BOOLEAN
      BY <1>1, <2>3 DEF NextFragment, Tap, TapType, disk, AInv, ArchiveTypes
    <3>2. tap[p].read + 1 \in 0..Fragments /\ tap[p].seq < tap[p].read + 1
      BY <1>1, <1>2, <3>1 DEF TapFits
    <3>3. t \in TapType /\ t.at = "init" /\ t.seq = tap[p].seq /\ t.read = tap[p].read + 1
      <4> HIDE DEF t
      <4> QED BY <1>1, <1>2, <3>1, <3>2 DEF TapType, Ats
    <3> QED BY <3>1, <3>2, <3>3
  <2>4. CASE PassOver(p)
    <3>1. /\ t = [tap[p] EXCEPT !.at = "read", !.read = Number(p), !.seq = tap[p].seq]
          /\ Tap(p, t) /\ tap[p].at \in {"read", "keep"} /\ AtHand(p)
          /\ UNCHANGED <<writes, files, rows, signed, crashes>> /\ initFile' \in BOOLEAN
      BY <1>1, <2>4 DEF PassOver, AtHand, Tap, TapType, disk, AInv, ArchiveTypes
    <3>2. Number(p) \in 0..Fragments /\ tap[p].seq <= Number(p)
      BY <1>1, <1>2, <3>1 DEF TapFits, AtHand, Number
    <3>3. t \in TapType /\ t.at = "read" /\ t.seq = tap[p].seq /\ t.read = Number(p)
      <4> HIDE DEF t
      <4> QED BY <1>1, <1>2, <3>1, <3>2 DEF TapType, Ats
    <3> QED BY <3>1, <3>2, <3>3
  <2>5. CASE Finish(p)
    <3>1. ArchiveTypes
      BY DEF AInv
    <3> QED BY <1>1, <2>5, <3>1, OverTyped DEF Finish, Tap, disk, ArchiveTypes
  <2>6. CASE FinalizeFailed(p)
    <3>1. ArchiveTypes
      BY DEF AInv
    <3> QED BY <1>1, <2>6, <3>1, OverTyped DEF FinalizeFailed, Tap, disk, ArchiveTypes
  <2>7. ASSUME NEW ok \in BOOLEAN, WriteInit(p, ok)
        PROVE  Fine
    BY <1>1, <1>2, <2>7 DEF WriteInit, Tap, TapType, Ats, TapFits, AInv, ArchiveTypes
  <2> QED BY <2>1, <2>2, <2>3, <2>4, <2>5, <2>6, <2>7
<1> HIDE DEF t
<1>4. tap'[p] = t /\ \A q \in Recordings : q # p => tap'[q] = tap[q]
  BY <1>1, <1>3 DEF Tap
<1>5. Listed(p)'
  BY <1>3, <1>4 DEF Listed
<1>6. SignedFits'
  <2>1. (\A q \in Recordings : tap'[q].at \notin {"seal", "done"}) =>
          (\A q \in Recordings : tap[q].at \notin {"seal", "done"})
    BY <1>3, <1>4
  <2>2. \A q \in Recordings : Unused(q)' => Unused(q)
    BY <1>3, <1>4 DEF Unused
  <2> QED BY <1>3, <2>1, <2>2 DEF AInv, SignedFits, Pair
<1>7. signed' \in [asset : Seq(Contents), manifest : Seq(Contents)]
  BY <1>3 DEF AInv, ArchiveTypes
<1> QED BY <1>3, <1>5, <1>6, <1>7, TapMoves


LEMMA KeepStep == ASSUME AInv, NEW p \in Recordings, NEW duration \in Lengths, Keep(p, duration) PROVE AInv'
<1> DEFINE n == Number(p)
           w == [at |-> "open", pub |-> p, seq |-> tap[p].seq + 1, mixed |-> FALSE,
                 dts |-> n * Period, end |-> n * Period + duration]
           t == [tap[p] EXCEPT !.at = "read", !.read = n, !.seq = @ + 1]
<1>1. tap \in [Recordings -> TapType] /\ tap[p] \in TapType /\ TapFits(p) /\ AtHand(p)
  BY DEF AInv, ArchiveTypes, Keep
<1>2. tap[p].read \in 0..Fragments /\ tap[p].seq \in 0..Fragments /\ Fragments \in Nat
  BY <1>1, NumbersAreNat DEF TapType
<1>3. n \in 1..Fragments /\ tap[p].seq + 1 \in Numbers /\ tap[p].seq + 1 <= n
  <2>1. CASE tap[p].at = "keep"
    BY <1>1, <1>2, <2>1 DEF Number, TapFits, Numbers
  <2>2. CASE tap[p].at = "read" /\ tap[p].read < Fragments
    BY <1>1, <1>2, <2>2 DEF Number, TapFits, Numbers
  <2> QED BY <1>1, <2>1, <2>2 DEF AtHand
<1>4. n * Period \in Times /\ n * Period \in Nat /\ duration \in Nat /\ duration > 0
  BY <1>3, TimesAreNat, ArchiveAssumption
<1>5. tap' = [tap EXCEPT ![p] = t] /\ writes' = writes \cup {w} /\ UNCHANGED <<files, rows, initFile, signed, crashes>>
  BY DEF Keep, Tap, disk
<1>6. t \in TapType /\ t.at = "read" /\ t.read = n /\ t.seq = tap[p].seq + 1
  <2>1. t = [tap[p] EXCEPT !.at = "read", !.read = n, !.seq = tap[p].seq + 1]
    OBVIOUS
  <2>2. n \in 0..Fragments /\ tap[p].seq + 1 \in 0..Fragments /\ "read" \in Ats
    BY <1>3 DEF Numbers, Ats
  <2> HIDE DEF t, n
  <2> QED BY <1>1, <2>1, <2>2 DEF TapType
<1>7. w \in WriteType /\ w.dts < w.end /\ w.pub = p /\ w.seq = tap[p].seq + 1 /\ w.at = "open" /\ ~w.mixed
  <2> DEFINE d == n * Period
  <2>1. d \in Times /\ d \in Nat
    BY <1>4
  <2> HIDE DEF d
  <2> QED BY <1>3, <1>4, <2>1 DEF WriteType, d
<1> HIDE DEF n, w, t
<1>8. tap' \in [Recordings -> TapType]
  BY <1>1, <1>5, <1>6
<1>9. tap'[p] = t /\ \A q \in Recordings : q # p => tap'[q] = tap[q]
  BY <1>1, <1>5
<1>10. \A q \in Recordings : tap[q].seq <= tap'[q].seq /\ tap[q].seq \in Int /\ tap'[q].seq \in Int /\ (tap[q].at # "new" => tap'[q].at # "new")
  <2> SUFFICES ASSUME NEW q \in Recordings PROVE tap[q].seq <= tap'[q].seq /\ tap[q].seq \in Int /\ tap'[q].seq \in Int /\ (tap[q].at # "new" => tap'[q].at # "new")
    OBVIOUS
  <2>1. tap[q].seq \in Int
    BY <1>1 DEF TapType
  <2> QED BY <1>2, <1>6, <1>9, <2>1
<1>11. /\ \A q \in Recordings, m \in Numbers : Reused(q, m) => Reused(q, m)'
       /\ \A q \in Recordings : Unused(q)' => Unused(q)
  BY <1>1, <1>8, <1>10, TapsGrow
<1>12. ArchiveTypes'
  BY <1>5, <1>8 DEF AInv, ArchiveTypes
<1>13. ASSUME NEW v \in writes PROVE WriteFits(v)' /\ (v.pub = p => v.seq # w.seq)
  <2>1. WriteFits(v) /\ v \in WriteType
    BY DEF AInv, WriteFits
  <2>2. v.pub \in Recordings /\ v.seq \in Numbers /\ v.seq \in Nat
    BY <2>1, NumbersAreNat DEF WriteType
  <2>3. v.seq <= tap[v.pub].seq /\ tap[v.pub].seq <= tap'[v.pub].seq /\ tap[v.pub].seq \in Int /\ tap'[v.pub].seq \in Int
    BY <1>10, <2>1, <2>2 DEF WriteFits
  <2>4. v.seq <= tap'[v.pub].seq
    BY <2>2, <2>3
  <2>5. v.pub = p => v.seq # w.seq
    BY <1>2, <1>7, <2>2, <2>3
  <2> QED BY <1>5, <1>11, <2>1, <2>2, <2>4, <2>5 DEF WriteFits, Content
<1>14. ASSUME NEW v, v = w PROVE WriteFits(v)'
  <2>1. v.seq <= tap'[v.pub].seq
    BY <1>2, <1>6, <1>7, <1>9, <1>14
  <2>2. v \in WriteType /\ v.dts < v.end /\ ~v.mixed /\ v.at = "open"
    BY <1>7, <1>14
  <2> QED BY <2>1, <2>2 DEF WriteFits
<1>15. OneWriter'
  BY <1>5, <1>7, <1>13 DEF AInv, OneWriter
<1>16. ASSUME NEW d \in DOMAIN rows PROVE RowFits(d)'
  <2>1. RowFits(d) /\ rows[d] \in RowType
    BY DEF AInv, RowFits
  <2>2. rows[d].pub \in Recordings /\ rows[d].seq \in Numbers /\ rows[d].seq \in Nat
    BY <2>1, NumbersAreNat DEF RowType
  <2>3. rows[d].seq <= tap[rows[d].pub].seq /\ tap[rows[d].pub].seq <= tap'[rows[d].pub].seq
        /\ tap[rows[d].pub].seq \in Int /\ tap'[rows[d].pub].seq \in Int
    BY <1>10, <2>1, <2>2 DEF RowFits
  <2>4. rows[d].seq <= tap'[rows[d].pub].seq
    BY <2>2, <2>3
  <2>5. ~(w.pub = rows[d].pub /\ w.seq = rows[d].seq)
    BY <1>2, <1>7, <2>2, <2>3
  <2>6. \A v \in writes' : ~(v.pub = rows[d].pub /\ v.seq = rows[d].seq)
    BY <1>5, <2>1, <2>5 DEF RowFits
  <2> QED BY <1>5, <1>11, <2>1, <2>2, <2>4, <2>6 DEF RowFits
<1>17. ASSUME NEW q \in Recordings PROVE TapFits(q)' /\ Listed(q)'
  <2>1. CASE q = p
    <3>1. t.seq <= t.read
      BY <1>3, <1>6
    <3> QED BY <1>6, <1>9, <2>1, <3>1 DEF TapFits, Listed
  <2>2. CASE q # p
    <3>1. TapFits(q) /\ Listed(q) /\ tap'[q] = tap[q]
      BY <1>9, <2>2 DEF AInv
    <3>2. tap'[q].at # "new" => ~Unused(q)'
      BY <1>6, <1>9, <2>2 DEF Unused
    <3>3. Listed(q)'
      BY <3>1, <3>2 DEF Listed
    <3>4. TapFits(q)'
      BY <3>1 DEF TapFits
    <3> QED BY <3>3, <3>4
  <2> QED BY <2>1, <2>2
<1>18. SignedFits'
  <2>1. tap[p].at \notin {"seal", "done"}
    BY <1>1 DEF AtHand
  <2>2. (\A q \in Recordings : tap'[q].at \notin {"seal", "done"}) =>
          (\A q \in Recordings : tap[q].at \notin {"seal", "done"})
    BY <1>9, <2>1
  <2> QED BY <1>5, <1>11, <2>2 DEF AInv, SignedFits, Pair
<1>19. ASSUME NEW v \in writes' PROVE WriteFits(v)'
  <2>1. v \in writes \/ v = w
    BY <1>5
  <2> QED BY <1>13, <1>14, <2>1
<1>20. DOMAIN rows' = DOMAIN rows
  BY <1>5
<1> QED BY <1>12, <1>15, <1>16, <1>17, <1>18, <1>19, <1>20 DEF AInv

\* v after a task has filled the file of w, when s holds.
Marked(v, w, s) == IF s /\ v.seq = w.seq /\ v.at = "fill" THEN [v EXCEPT !.mixed = TRUE] ELSE v

\* A blocking task puts something into its file and goes on; others may learn
\* that they no longer have the file to themselves.
LEMMA FileStep ==
  ASSUME AInv, NEW w \in writes, NEW content \in Contents, NEW x \in WriteType, NEW s \in BOOLEAN,
         files' = [files EXCEPT ![w.seq] = content], UNCHANGED <<tap, rows, initFile, signed, crashes>>,
         \A y \in writes' : y = x \/ \E v \in writes \ {w} : y = Marked(v, w, s),
         x.pub = w.pub, x.seq = w.seq, x.dts = w.dts, x.end = w.end, x.mixed = w.mixed,
         x.at = "record" => content = Content(w) \/ Reused(w.pub, w.seq)
  PROVE  AInv'
<1>1. /\ WriteFits(w) /\ w \in WriteType /\ w.pub \in Recordings /\ w.seq \in Numbers
  BY DEF AInv, WriteFits, WriteType
<1>2. /\ \A q \in Recordings, n \in Numbers : Reused(q, n)' <=> Reused(q, n)
      /\ \A q \in Recordings : Unused(q)' <=> Unused(q)
  BY DEF Reused, Unused
<1>3. files \in [Numbers -> Contents] /\ files' \in [Numbers -> Contents]
  BY <1>1 DEF AInv, ArchiveTypes
<1>4. files'[w.seq] = content /\ \A n \in Numbers : n # w.seq => files'[n] = files[n]
  BY <1>1, <1>3
<1>5. ArchiveTypes'
  BY <1>3 DEF AInv, ArchiveTypes
<1>6. WriteFits(x)'
  <2>1. Content(x) = Content(w) /\ x.dts < x.end /\ x.seq <= tap[x.pub].seq /\ (x.mixed => Reused(x.pub, x.seq))
    BY <1>1 DEF WriteFits, Content
  <2> QED BY <1>1, <1>2, <1>4, <2>1 DEF WriteFits, Content
<1>7. ASSUME NEW v \in writes \ {w} PROVE WriteFits(Marked(v, w, s))' /\ Marked(v, w, s).pub = v.pub /\ Marked(v, w, s).seq = v.seq /\ ~(v.pub = w.pub /\ v.seq = w.seq)
  <2>1. WriteFits(v) /\ v \in WriteType /\ v.pub \in Recordings /\ v.seq \in Numbers
    BY DEF AInv, WriteFits, WriteType
  <2>2. ~(v.pub = w.pub /\ v.seq = w.seq)
    BY DEF AInv, OneWriter
  <2>3. Marked(v, w, s) \in WriteType /\ Marked(v, w, s).pub = v.pub /\ Marked(v, w, s).seq = v.seq /\ Marked(v, w, s).at = v.at /\ Marked(v, w, s).dts = v.dts /\ Marked(v, w, s).end = v.end
        /\ (Marked(v, w, s).mixed => v.mixed \/ v.seq = w.seq)
    <3>1. CASE Marked(v, w, s) = v
      BY <2>1, <3>1
    <3>2. CASE v.seq = w.seq /\ Marked(v, w, s) = [v EXCEPT !.mixed = TRUE]
      BY <2>1, <3>2 DEF WriteType
    <3> QED BY <3>1, <3>2 DEF Marked
  <2>4. v.seq = w.seq => Reused(v.pub, v.seq)
    <3>1. v.seq = w.seq => v.pub # w.pub
      BY <2>2
    <3> QED BY <2>1, <3>1, UsedByOther
  <2>5. Marked(v, w, s).mixed => Reused(Marked(v, w, s).pub, Marked(v, w, s).seq)'
    BY <1>2, <2>1, <2>3, <2>4 DEF WriteFits
  <2>6. Marked(v, w, s).at = "record" => files'[Marked(v, w, s).seq] = Content(Marked(v, w, s)) \/ Reused(Marked(v, w, s).pub, Marked(v, w, s).seq)'
    BY <1>2, <1>4, <2>1, <2>3, <2>4 DEF WriteFits, Content
  <2>7. Marked(v, w, s).dts < Marked(v, w, s).end /\ Marked(v, w, s).seq <= tap[Marked(v, w, s).pub].seq
    BY <2>1, <2>3 DEF WriteFits
  <2>8. WriteFits(Marked(v, w, s))'
    BY <2>3, <2>5, <2>6, <2>7 DEF WriteFits, Content
  <2> QED BY <2>2, <2>3, <2>8
<1>8. OneWriter'
  <2> SUFFICES ASSUME NEW a \in writes', NEW b \in writes', a.pub = b.pub, a.seq = b.seq PROVE a = b
    BY DEF OneWriter
  <2>1. CASE a = x /\ b = x
    BY <2>1
  <2>2. CASE a = x /\ b # x
    <3>1. PICK v \in writes \ {w} : b = Marked(v, w, s)
      BY <2>2
    <3> QED BY <1>7, <2>2, <3>1
  <2>3. CASE a # x /\ b = x
    <3>1. PICK v \in writes \ {w} : a = Marked(v, w, s)
      BY <2>3
    <3> QED BY <1>7, <2>3, <3>1
  <2>4. CASE a # x /\ b # x
    <3>1. PICK u \in writes \ {w} : a = Marked(u, w, s)
      BY <2>4
    <3>2. PICK v \in writes \ {w} : b = Marked(v, w, s)
      BY <2>4
    <3>3. u.pub = v.pub /\ u.seq = v.seq
      BY <1>7, <3>1, <3>2
    <3>4. u = v
      BY <3>3 DEF AInv, OneWriter
    <3> QED BY <3>1, <3>2, <3>4
  <2> QED BY <2>1, <2>2, <2>3, <2>4
<1>9. ASSUME NEW y \in writes' PROVE \E v \in writes : y.pub = v.pub /\ y.seq = v.seq
  <2>1. CASE y = x
    BY <2>1
  <2>2. CASE y # x
    <3>1. PICK v \in writes \ {w} : y = Marked(v, w, s)
      BY <2>2
    <3> QED BY <1>7, <3>1
  <2> QED BY <2>1, <2>2
<1>10. ASSUME NEW d \in DOMAIN rows PROVE RowFits(d)'
  <2>1. RowFits(d) /\ rows[d].pub \in Recordings /\ rows[d].seq \in Numbers
    BY DEF AInv, RowFits, RowType
  <2>2. CASE rows[d].seq = w.seq
    <3>1. rows[d].pub # w.pub
      BY <2>1, <2>2 DEF RowFits
    <3>2. Reused(rows[d].pub, rows[d].seq)
      BY <2>1, <2>2, <3>1, UsedByOther
    <3> QED BY <1>2, <1>9, <2>1, <3>2 DEF RowFits
  <2>3. CASE rows[d].seq # w.seq
    BY <1>2, <1>4, <1>9, <2>1, <2>3 DEF RowFits
  <2> QED BY <2>2, <2>3
<1>11. ASSUME NEW q \in Recordings PROVE TapFits(q)' /\ Listed(q)'
  <2>1. TapFits(q) /\ Listed(q) /\ (Unused(q)' <=> Unused(q))
    BY <1>2 DEF AInv
  <2>2. TapFits(q)'
    BY <2>1 DEF TapFits
  <2>3. ASSUME tap[q].at = "list", Unused(q), NEW k \in DOMAIN tap[q].list
        PROVE  files'[tap[q].list[k]] = files[tap[q].list[k]] /\ \A y \in writes' : y.seq # tap[q].list[k]
    <3>1. tap[q].list \in Seq(Numbers) /\ \A v \in writes : v.seq # tap[q].list[k]
      BY <2>1, <2>3 DEF Listed
    <3>2. tap[q].list[k] \in Numbers /\ tap[q].list[k] # w.seq
      BY <3>1
    <3> QED BY <1>4, <1>9, <3>1, <3>2
  <2>4. Listed(q)'
    BY <2>1, <2>3 DEF Listed
  <2> QED BY <2>2, <2>4
<1>12. SignedFits'
  BY <1>2 DEF AInv, SignedFits, Pair
<1> QED BY <1>5, <1>6, <1>7, <1>8, <1>10, <1>11, <1>12 DEF AInv


LEMMA OpenStep == ASSUME AInv, NEW w \in writes, OpenFile(w) PROVE AInv'
<1> DEFINE x == [w EXCEPT !.at = "fill"]
<1>1. w \in WriteType /\ Torn \in Contents
  BY DEF AInv, WriteFits, Contents
<1>2. x \in WriteType /\ x.at = "fill" /\ x.pub = w.pub /\ x.seq = w.seq /\ x.dts = w.dts /\ x.end = w.end /\ x.mixed = w.mixed
  BY <1>1 DEF WriteType
<1>3. \A y \in writes' : y = x \/ \E v \in writes \ {w} : y = Marked(v, w, FALSE)
  BY DEF OpenFile, Becomes, Marked
<1>4. files' = [files EXCEPT ![w.seq] = Torn] /\ UNCHANGED <<tap, rows, initFile, signed, crashes>>
  BY DEF OpenFile
<1> HIDE DEF x
<1> QED BY <1>1, <1>2, <1>3, <1>4, FileStep

LEMMA FillStep ==
  ASSUME AInv, NEW w \in writes, NEW result \in {Content(w), Torn}, FillFile(w, result) PROVE AInv'
<1> DEFINE x == [w EXCEPT !.at = "record"]
<1>1. w \in WriteType /\ WriteFits(w)
  BY DEF AInv, WriteFits
<1>2. x \in WriteType /\ x.pub = w.pub /\ x.seq = w.seq /\ x.dts = w.dts /\ x.end = w.end /\ x.mixed = w.mixed /\ x.at = "record"
  BY <1>1 DEF WriteType
<1>3. result \in Contents
  BY <1>1 DEF WriteType, Content, Contents, Recorded
<1>4. result = Content(w) \/ Reused(w.pub, w.seq)
  BY <1>1 DEF FillFile, WriteFits
<1>5. ASSUME NEW y \in writes' PROVE y = x \/ \E v \in writes \ {w} : y = Marked(v, w, TRUE)
  <2>1. PICK v \in (writes \ {w}) \cup {x} :
          y = IF v # w /\ v.seq = w.seq /\ v.at = "fill" THEN [v EXCEPT !.mixed = TRUE] ELSE v
    BY DEF FillFile, Becomes
  <2>2. CASE v = x
    BY <1>2, <2>1, <2>2
  <2>3. CASE v \in writes \ {w}
    BY <2>1, <2>3 DEF Marked
  <2> QED BY <2>1, <2>2, <2>3
<1>6. files' = [files EXCEPT ![w.seq] = result] /\ UNCHANGED <<tap, rows, initFile, signed, crashes>>
  BY DEF FillFile
<1> HIDE DEF x
<1> QED BY <1>2, <1>3, <1>4, <1>5, <1>6, FileStep

\* A blocking task that is gone is in nobody's way; the row it may leave is
\* right.
LEMMA LastStep == ASSUME AInv, NEW w \in writes, Record(w) \/ GiveUp(w) PROVE AInv'
<1>1. WriteFits(w) /\ w \in WriteType /\ w.pub \in Recordings /\ w.seq \in Numbers /\ w.dts \in Times
  BY DEF AInv, WriteFits, WriteType
<1>2. writes' = writes \ {w} /\ UNCHANGED <<tap, files, initFile, signed, crashes>>
  BY DEF Record, GiveUp, disk
<1>3. /\ \A q \in Recordings, n \in Numbers : Reused(q, n)' <=> Reused(q, n)
      /\ \A q \in Recordings : Unused(q)' <=> Unused(q)
  BY <1>2 DEF Reused, Unused
<1>4. ArchiveTypes' /\ OneWriter' /\ SignedFits'
  BY <1>2, <1>3 DEF AInv, ArchiveTypes, OneWriter, SignedFits, Pair
<1>5. ASSUME NEW q \in Recordings PROVE TapFits(q)' /\ Listed(q)'
  <2>1. TapFits(q) /\ Listed(q)
    BY DEF AInv
  <2>2. TapFits(q)'
    BY <1>2, <2>1 DEF TapFits
  <2>3. Listed(q)'
    BY <1>2, <1>3, <2>1 DEF Listed
  <2> QED BY <2>2, <2>3
<1>6. ASSUME NEW v \in writes' PROVE WriteFits(v)'
  <2>1. WriteFits(v) /\ v.pub \in Recordings /\ v.seq \in Numbers
    BY <1>2 DEF AInv, WriteFits, WriteType
  <2> QED BY <1>2, <1>3, <2>1 DEF WriteFits
<1>7. ASSUME NEW d \in DOMAIN rows, rows'[d] = rows[d] PROVE RowFits(d)'
  <2>1. RowFits(d) /\ rows[d].pub \in Recordings /\ rows[d].seq \in Numbers
    BY DEF AInv, RowFits, RowType
  <2> QED BY <1>2, <1>3, <1>7, <2>1 DEF RowFits
<1>8. CASE GiveUp(w)
  <2>1. rows' = rows
    BY <1>8 DEF GiveUp, disk
  <2> QED BY <1>2, <1>4, <1>5, <1>6, <1>7, <2>1 DEF AInv
<1>9. CASE Record(w)
  <2>1. rows' = [e \in DOMAIN rows \cup {w.dts} |-> IF e = w.dts THEN Row(w) ELSE rows[e]] /\ w.at = "record"
    BY <1>9 DEF Record, WithRow
  <2>2. DOMAIN rows' = DOMAIN rows \cup {w.dts} /\ rows'[w.dts] = Row(w)
        /\ \A e \in DOMAIN rows : e # w.dts => rows'[e] = rows[e]
    BY <2>1
  <2>3. Row(w) \in RowType /\ Row(w).seq = w.seq /\ Row(w).pub = w.pub /\ Row(w).end = w.end
    BY <1>1 DEF Row, RowType, WriteType
  <2>4. \A v \in writes' : ~(v.pub = w.pub /\ v.seq = w.seq)
    BY <1>2 DEF AInv, OneWriter
  <2>5. files[w.seq] = <<w.pub, w.dts>> \/ Reused(w.pub, w.seq)
    BY <1>1, <2>1 DEF WriteFits, Content
  <2>6. w.dts < w.end /\ w.seq <= tap[w.pub].seq
    BY <1>1 DEF WriteFits
  <2>7. RowFits(w.dts)'
    BY <1>1, <1>2, <1>3, <2>2, <2>3, <2>4, <2>5, <2>6 DEF RowFits
  <2>8. \A d \in DOMAIN rows' : RowFits(d)'
    BY <1>7, <2>2, <2>7
  <2> QED BY <1>2, <1>4, <1>5, <1>6, <2>8 DEF AInv
<1> QED BY <1>8, <1>9

\* What the index holds, and what a scan from the start returns of it.
LEMMA IndexKeys ==
  ASSUME AInv
  PROVE  /\ DOMAIN rows \in SUBSET Nat /\ IsFiniteSet(DOMAIN rows)
         /\ \A d \in DOMAIN rows : rows[d].end \in Nat /\ d < rows[d].end
<1>1. DOMAIN rows \in SUBSET Times
  BY DEF AInv, RowFits
<1>2. IsFiniteSet(DOMAIN rows)
  BY <1>1, TimesAreNat, FS_Subset
<1> QED BY <1>1, <1>2, TimesAreNat DEF AInv, RowFits, RowType

Found(from, to) == Leading(from) \cup {d \in DOMAIN rows : from <= d /\ d < to}

LEMMA ScanKeys ==
  ASSUME AInv, NEW from, NEW to
  PROVE  /\ Found(from, to) \in SUBSET DOMAIN rows
         /\ {d \in DOMAIN rows : d < from} # {} => Max({d \in DOMAIN rows : d < from}) \in DOMAIN rows
              /\ \A d \in DOMAIN rows : d < from => d <= Max({e \in DOMAIN rows : e < from})
         /\ Ordered(Found(from, to)) \in [1..Cardinality(Found(from, to)) -> Found(from, to)]
         /\ Cardinality(Found(from, to)) \in Nat
         /\ Rising(Ordered(Found(from, to))) /\ ToSet(Ordered(Found(from, to))) = Found(from, to)
<1> DEFINE before == {d \in DOMAIN rows : d < from}
           T == Found(from, to)
<1>1. DOMAIN rows \in SUBSET Nat /\ IsFiniteSet(DOMAIN rows)
  BY IndexKeys
<1>2. before \in SUBSET Nat /\ IsFiniteSet(before)
  <2>1. before \in SUBSET DOMAIN rows
    OBVIOUS
  <2> QED BY <1>1, <2>1, FS_Subset
<1>3. before # {} => Max(before) \in before /\ \A d \in before : d <= Max(before)
  <2> HIDE DEF before
  <2> QED BY <1>2, HasMax
<1>4. T \in SUBSET DOMAIN rows
  BY <1>3 DEF Leading, Found
<1> HIDE DEF T
<1>5. T \in SUBSET Nat /\ IsFiniteSet(T)
  BY <1>1, <1>4, FS_Subset
<1>6. /\ Ordered(T) \in [1..Cardinality(T) -> T] /\ Cardinality(T) \in Nat
      /\ Rising(Ordered(T)) /\ ToSet(Ordered(T)) = T
  BY <1>5, OrderedKeys
<1> QED BY <1>3, <1>4, <1>6 DEF T


\* The rows a drain finds when it ends: of files that nobody writes any more.
LEMMA ListStep == ASSUME AInv, NEW p \in Recordings, ListRows(p) PROVE AInv'
<1> DEFINE to == Max(Times) + 1
           found == find_range(0, to)
           s == [k \in DOMAIN found |-> rows[found[k]].seq]
<1>1. tap \in [Recordings -> TapType] /\ tap[p] \in TapType /\ tap[p].at = "end" /\ ArchiveTypes
  BY DEF AInv, ArchiveTypes, ListRows
<1>2. UNCHANGED <<writes, files, rows, initFile, signed, crashes>>
  BY DEF ListRows, disk
<1>3. CASE Tap(p, Over(p))
  <2>1. Over(p) \in TapType /\ Over(p).at = "done" /\ Over(p).seq = tap[p].seq
    BY <1>1, OverTyped
  <2>2. tap'[p] = Over(p) /\ \A q \in Recordings : q # p => tap'[q] = tap[q]
    BY <1>1, <1>3 DEF Tap
  <2>3. Listed(p)'
    BY <2>1, <2>2 DEF Listed
  <2>4. SignedFits'
    <3>1. \A q \in Recordings : Unused(q)' => Unused(q)
      BY <1>1, <2>1, <2>2 DEF Unused
    <3>2. ~(\A q \in Recordings : tap'[q].at \notin {"seal", "done"})
      BY <2>1, <2>2
    <3> QED BY <1>2, <3>1, <3>2 DEF AInv, SignedFits, Pair
  <2>5. initFile' \in BOOLEAN /\ signed' \in [asset : Seq(Contents), manifest : Seq(Contents)]
    BY <1>1, <1>2 DEF ArchiveTypes
  <2>6. Over(p).at # "new" /\ (Over(p).at = "read" => Over(p).seq <= Over(p).read)
        /\ (Over(p).at \in {"init", "keep"} => Over(p).seq < Over(p).read)
    BY <2>1
  <2> QED BY <1>2, <1>3, <2>1, <2>3, <2>4, <2>5, <2>6, TapMoves
<1>4. CASE found # <<>> /\ Tap(p, [tap[p] EXCEPT !.at = "list", !.list = s])
  <2> DEFINE T == Found(0, to)
             n == Cardinality(T)
             t == [tap[p] EXCEPT !.at = "list", !.list = s]
  <2>1. found = Ordered(T)
    BY <1>4 DEF find_range, Found
  <2>2. T \in SUBSET DOMAIN rows /\ found \in [1..n -> T] /\ n \in Nat /\ Rising(found)
    <3> HIDE DEF to, found
    <3> QED BY <2>1, ScanKeys
  <2> HIDE DEF T, n, found, to
  <2>3. \A k \in 1..n : found[k] \in DOMAIN rows /\ RowFits(found[k]) /\ rows[found[k]].seq \in Numbers
    BY <2>2 DEF AInv, RowFits, RowType
  <2>4. s \in [1..n -> Numbers] /\ \A k \in 1..n : s[k] = rows[found[k]].seq
    BY <2>2, <2>3
  <2> HIDE DEF s
  <2>5. s \in Seq(Numbers) /\ DOMAIN s = 1..n
    BY <2>2, <2>4
  <2>6. t \in TapType /\ t.at = "list" /\ t.list = s /\ t.seq = tap[p].seq
    BY <1>1, <2>5 DEF TapType, Ats
  <2> HIDE DEF t
  <2>7. Tap(p, t)
    BY <1>4 DEF t
  <2>8. tap'[p] = t /\ \A q \in Recordings : q # p => tap'[q] = tap[q]
    BY <1>1, <2>7 DEF Tap
  <2>9. \A q \in Recordings : Unused(q)' => Unused(q)
    BY <1>1, <2>6, <2>8 DEF Unused
  <2>10. ASSUME NEW q \in Recordings, NEW m \in Numbers, tap[q].seq >= m PROVE tap[q].at # "new"
    <3>1. TapFits(q)
      BY DEF AInv
    <3>2. m \in Nat /\ m > 0
      BY NumbersAreNat
    <3> QED BY <2>10, <3>1, <3>2 DEF TapFits
  <2>11. ASSUME Unused(p), NEW d \in DOMAIN rows
         PROVE  files[rows[d].seq] = <<p, d>> /\ <<p, d>> \in Recorded /\ \A w \in writes : w.seq # rows[d].seq
    <3>1. RowFits(d) /\ rows[d].pub \in Recordings /\ rows[d].seq \in Numbers /\ d \in Times
      BY DEF AInv, RowFits, RowType
    <3>2. tap[rows[d].pub].seq >= rows[d].seq
      <4>1. tap[rows[d].pub].seq \in Nat
        BY <1>1, <3>1, CountsAreNat
      <4>2. rows[d].seq \in Nat
        BY <3>1, NumbersAreNat
      <4>3. rows[d].seq <= tap[rows[d].pub].seq
        BY <3>1 DEF RowFits
      <4> QED BY <4>1, <4>2, <4>3
    <3>3. rows[d].pub = p
      BY <2>10, <2>11, <3>1, <3>2 DEF Unused
    <3>4. ~Reused(p, rows[d].seq)
      <4>1. \A q \in Recordings : tap[q].seq >= rows[d].seq => q = p
        BY <2>10, <2>11, <3>1 DEF Unused
      <4> QED BY <4>1 DEF Reused
    <3>5. ASSUME NEW w \in writes, w.seq = rows[d].seq PROVE FALSE
      <4>1. w.pub \in Recordings /\ w.seq \in Numbers /\ w.seq <= tap[w.pub].seq
        BY DEF AInv, WriteFits, WriteType
      <4>2. tap[w.pub].seq >= w.seq
        <5>1. tap[w.pub].seq \in Nat
          BY <1>1, <4>1, CountsAreNat
        <5>2. w.seq \in Nat
          BY <4>1, NumbersAreNat
        <5> QED BY <4>1, <5>1, <5>2
      <4>3. w.pub = p
        BY <2>10, <2>11, <4>1, <4>2 DEF Unused
      <4> QED BY <3>1, <3>3, <3>5, <4>3 DEF RowFits
    <3> QED BY <3>1, <3>3, <3>4, <3>5 DEF RowFits, Recorded
  <2>12. ASSUME Unused(p)
         PROVE  /\ \A k \in DOMAIN s : files[s[k]] \in Recorded /\ \A w \in writes : w.seq # s[k]
                /\ \A j, k \in DOMAIN s : j < k => files[s[j]][2] < files[s[k]][2]
    <3>1. ASSUME NEW k \in 1..n PROVE files[s[k]] = <<p, found[k]>> /\ files[s[k]] \in Recorded /\ \A w \in writes : w.seq # s[k]
      <4>1. found[k] \in DOMAIN rows /\ s[k] = rows[found[k]].seq
        BY <2>3, <2>4
      <4>2. /\ files[rows[found[k]].seq] = <<p, found[k]>> /\ <<p, found[k]>> \in Recorded
            /\ \A w \in writes : w.seq # rows[found[k]].seq
        BY <2>11, <2>12, <4>1
      <4> QED BY <4>1, <4>2
    <3>2. ASSUME NEW j \in 1..n, NEW k \in 1..n, j < k PROVE files[s[j]][2] < files[s[k]][2]
      <4>1. found[j] < found[k]
        BY <2>2, <3>2 DEF Rising
      <4> QED BY <3>1, <4>1
    <3> QED BY <2>5, <3>1, <3>2
  <2>13. Listed(p)'
    <3>1. tap'[p].at = "list" /\ tap'[p].list = s /\ files' = files /\ writes' = writes
      BY <1>2, <2>6, <2>8
    <3> QED BY <2>5, <2>9, <2>12, <3>1 DEF Listed
  <2>14. SignedFits'
    <3>1. (\A q \in Recordings : tap'[q].at \notin {"seal", "done"}) => \A q \in Recordings : tap[q].at \notin {"seal", "done"}
      BY <1>1, <2>8
    <3> QED BY <1>2, <2>9, <3>1 DEF AInv, SignedFits, Pair
  <2>15. initFile' \in BOOLEAN /\ signed' \in [asset : Seq(Contents), manifest : Seq(Contents)]
    BY <1>1, <1>2 DEF ArchiveTypes
  <2> QED BY <1>2, <2>6, <2>7, <2>13, <2>14, <2>15, TapMoves
<1> QED BY <1>3, <1>4 DEF ListRows

LEMMA ConcatStep == ASSUME AInv, NEW p \in Recordings, Concat(p) PROVE AInv'
<1> DEFINE l == tap[p].list
           s == [k \in DOMAIN l |-> files[l[k]]]
           t == [tap[p] EXCEPT !.at = "sign", !.list = s]
<1>1. tap \in [Recordings -> TapType] /\ tap[p] \in TapType /\ tap[p].at = "list" /\ Listed(p) /\ files \in [Numbers -> Contents]
  BY DEF AInv, ArchiveTypes, Concat
<1>2. l \in Seq(Numbers)
  BY <1>1 DEF Listed
<1>3. s \in Seq(Contents) /\ DOMAIN s = DOMAIN l
  BY <1>1, <1>2
<1>4. Unused(p) => Whole(s)
  BY <1>1, <1>3 DEF Listed, Whole
<1>5. Tap(p, t) /\ UNCHANGED <<writes, files, rows, initFile, signed, crashes>>
  BY DEF Concat, disk
<1> HIDE DEF l, s
<1>6. t \in TapType /\ t.at = "sign" /\ t.list = s /\ t.seq = tap[p].seq
  BY <1>1, <1>3 DEF TapType, Ats
<1> HIDE DEF t
<1>7. tap'[p] = t /\ \A q \in Recordings : q # p => tap'[q] = tap[q]
  BY <1>1, <1>5 DEF Tap
<1>8. \A q \in Recordings : Unused(q)' => Unused(q)
  BY <1>1, <1>6, <1>7 DEF Unused
<1>9. Listed(p)'
  BY <1>3, <1>4, <1>6, <1>7, <1>8 DEF Listed
<1>10. SignedFits'
  <2>1. (\A q \in Recordings : tap'[q].at \notin {"seal", "done"}) => \A q \in Recordings : tap[q].at \notin {"seal", "done"}
    BY <1>1, <1>7
  <2> QED BY <1>5, <1>8, <2>1 DEF AInv, SignedFits, Pair
<1>11. initFile' \in BOOLEAN /\ signed' \in [asset : Seq(Contents), manifest : Seq(Contents)]
  BY <1>5 DEF AInv, ArchiveTypes
<1> QED BY <1>5, <1>6, <1>9, <1>10, <1>11, TapMoves


\* While only one publication was there, nothing was signed before.
LEMMA SealSteps == ASSUME AInv, NEW p \in Recordings, WriteAsset(p) \/ WriteManifest(p) PROVE AInv'
<1> DEFINE l == tap[p].list
<1>1. tap \in [Recordings -> TapType] /\ tap[p] \in TapType /\ Listed(p) /\ ArchiveTypes
      /\ signed \in [asset : Seq(Contents), manifest : Seq(Contents)]
  BY DEF AInv, ArchiveTypes
<1>2. UNCHANGED <<writes, files, rows, initFile, crashes>>
  BY DEF WriteAsset, WriteManifest
<1>3. l \in Seq(Contents) /\ (Unused(p) => Whole(l))
  BY <1>1 DEF WriteAsset, WriteManifest, Listed
<1>4. CASE WriteAsset(p)
  <2> DEFINE t == [tap[p] EXCEPT !.at = "seal"]
  <2>1. t \in TapType /\ t.at = "seal" /\ t.list = l /\ t.seq = tap[p].seq /\ Tap(p, t)
    BY <1>1, <1>4 DEF WriteAsset, TapType, Ats
  <2>2. tap[p].at = "sign" /\ signed' = [signed EXCEPT !.asset = l]
    BY <1>4 DEF WriteAsset
  <2> HIDE DEF l, t
  <2>3. tap'[p] = t /\ \A q \in Recordings : q # p => tap'[q] = tap[q]
    BY <1>1, <2>1 DEF Tap
  <2>4. \A q \in Recordings : Unused(q)' => Unused(q)
    BY <2>1, <2>2, <2>3 DEF Unused
  <2>5. signed' \in [asset : Seq(Contents), manifest : Seq(Contents)] /\ signed'.asset = l /\ signed'.manifest = signed.manifest
    BY <1>1, <1>3, <2>2
  <2>6. Unused(p) => signed = Unsigned
    <3>1. ASSUME Unused(p), NEW q \in Recordings PROVE tap[q].at \notin {"seal", "done"}
      BY <2>2, <3>1 DEF Unused
    <3> QED BY <3>1 DEF AInv, SignedFits
  <2>7. Unused(p)' => signed'.manifest = <<>>
    BY <2>4, <2>5, <2>6 DEF Unsigned
  <2>8. Listed(p)'
    BY <1>3, <2>1, <2>3, <2>4, <2>5, <2>7 DEF Listed
  <2>9. ASSUME NEW q \in Recordings, Unused(q)' PROVE q = p
    BY <2>1, <2>3, <2>9 DEF Unused
  <2>10. SignedFits'
    <3>1. ~(\A q \in Recordings : tap'[q].at \notin {"seal", "done"})
      BY <2>1, <2>3
    <3>2. Unused(p)' => Pair'
      BY <1>3, <2>4, <2>5, <2>7 DEF Pair
    <3> QED BY <2>9, <3>1, <3>2 DEF SignedFits
  <2>11. initFile' \in BOOLEAN
    BY <1>1, <1>2 DEF ArchiveTypes
  <2> QED BY <1>2, <2>1, <2>2, <2>5, <2>8, <2>10, <2>11, TapMoves
<1>5. CASE WriteManifest(p)
  <2> DEFINE t == Over(p)
  <2>1. t \in TapType /\ t.at = "done" /\ t.seq = tap[p].seq /\ Tap(p, t)
    BY <1>1, <1>5, OverTyped DEF WriteManifest
  <2>2. tap[p].at = "seal" /\ signed' = [signed EXCEPT !.manifest = l]
    BY <1>5 DEF WriteManifest
  <2>3. Unused(p) => signed.asset = l
    BY <1>1, <2>2 DEF Listed
  <2> HIDE DEF l, t
  <2>4. tap'[p] = t /\ \A q \in Recordings : q # p => tap'[q] = tap[q]
    BY <1>1, <2>1 DEF Tap
  <2>5. \A q \in Recordings : Unused(q)' => Unused(q)
    BY <2>1, <2>2, <2>4 DEF Unused
  <2>6. signed' \in [asset : Seq(Contents), manifest : Seq(Contents)] /\ signed'.asset = signed.asset /\ signed'.manifest = l
    BY <1>1, <1>3, <2>2
  <2>7. Listed(p)'
    BY <2>1, <2>4 DEF Listed
  <2>8. ASSUME NEW q \in Recordings, Unused(q)' PROVE q = p
    BY <2>1, <2>4, <2>8 DEF Unused
  <2>9. SignedFits'
    <3>1. ~(\A q \in Recordings : tap'[q].at \notin {"seal", "done"})
      BY <2>1, <2>4
    <3>2. Unused(p)' => Pair'
      BY <1>3, <2>3, <2>5, <2>6 DEF Pair
    <3> QED BY <2>8, <3>1, <3>2 DEF SignedFits
  <2>10. initFile' \in BOOLEAN
    BY <1>1, <1>2 DEF ArchiveTypes
  <2> QED BY <1>2, <2>1, <2>2, <2>6, <2>7, <2>9, <2>10, TapMoves
<1> QED BY <1>4, <1>5

LEMMA CrashStep == ASSUME AInv, Crash PROVE AInv'
<1>1. tap \in [Recordings -> TapType] /\ ArchiveTypes
  BY DEF AInv, ArchiveTypes
<1>2. \A p \in Recordings : tap'[p] = IF tap[p].at = "new" THEN tap[p] ELSE Over(p)
  BY DEF Crash
<1>3. ASSUME NEW p \in Recordings
      PROVE  /\ tap'[p] \in TapType /\ tap'[p].seq = tap[p].seq
             /\ tap'[p].at = IF tap[p].at = "new" THEN "new" ELSE "done"
  BY <1>1, <1>2, OverTyped
<1>4. tap' \in [Recordings -> TapType]
  BY <1>3 DEF Crash
<1>5. writes' = {} /\ UNCHANGED <<files, rows, initFile, signed>> /\ crashes' \in 0..MaxCrashes
  BY <1>1, ArchiveAssumption DEF Crash, ArchiveTypes
<1>6. /\ \A q \in Recordings, n \in Numbers : Reused(q, n)' <=> Reused(q, n)
      /\ \A q \in Recordings : Unused(q)' => Unused(q)
  BY <1>3 DEF Reused, Unused
<1>7. ArchiveTypes'
  BY <1>1, <1>4, <1>5 DEF ArchiveTypes
<1>8. \A p \in Recordings : TapFits(p)' /\ Listed(p)'
  <2> SUFFICES ASSUME NEW p \in Recordings PROVE TapFits(p)' /\ Listed(p)'
    OBVIOUS
  <2>1. TapFits(p)
    BY DEF AInv
  <2>2. CASE tap[p].at = "new"
    <3>1. tap'[p] = tap[p]
      BY <1>2, <2>2
    <3> QED BY <2>1, <2>2, <3>1 DEF TapFits, Listed
  <2>3. CASE tap[p].at # "new"
    <3>1. tap'[p].at = "done"
      BY <1>3, <2>3
    <3> QED BY <3>1 DEF TapFits, Listed
  <2> QED BY <2>2, <2>3
<1>9. ASSUME NEW d \in DOMAIN rows PROVE RowFits(d)'
  <2>1. RowFits(d) /\ rows[d].pub \in Recordings /\ rows[d].seq \in Numbers
    BY DEF AInv, RowFits, RowType
  <2> QED BY <1>3, <1>5, <1>6, <2>1 DEF RowFits
<1>10. SignedFits'
  <2>1. ~(\A q \in Recordings : tap'[q].at \notin {"seal", "done"})
    BY <1>3 DEF Crash
  <2> QED BY <1>5, <1>6, <2>1 DEF AInv, SignedFits, Pair
<1>11. OneWriter' /\ \A w \in writes' : WriteFits(w)'
  BY <1>5 DEF OneWriter
<1> QED BY <1>5, <1>7, <1>8, <1>9, <1>10, <1>11 DEF AInv

LEMMA InitAInv == ArchiveInit => AInv
<1> SUFFICES ASSUME ArchiveInit PROVE AInv
  OBVIOUS
<1>1. NewTap \in TapType /\ Missing \in Contents /\ <<>> \in Seq(Contents)
  <2>1. 0 \in 0..Fragments
    BY NumbersAreNat
  <2>2. <<>> \in Seq(Numbers) /\ <<>> \in Seq(Contents)
    OBVIOUS
  <2> QED BY <2>1, <2>2 DEF NewTap, TapType, Ats, Contents, Missing
<1>2. ArchiveTypes
  <2>1. tap \in [Recordings -> TapType] /\ files \in [Numbers -> Contents] /\ initFile \in BOOLEAN
    BY <1>1 DEF ArchiveInit
  <2>2. crashes \in 0..MaxCrashes
    BY ArchiveAssumption DEF ArchiveInit
  <2>3. signed \in [asset : Seq(Contents), manifest : Seq(Contents)]
    BY <1>1 DEF ArchiveInit, Unsigned
  <2> QED BY <2>1, <2>2, <2>3 DEF ArchiveTypes
<1>3. \A p \in Recordings : tap[p] = NewTap
  BY DEF ArchiveInit
<1>4. \A p \in Recordings : TapFits(p) /\ Listed(p)
  BY <1>3 DEF TapFits, Listed, NewTap
<1>5. SignedFits
  BY DEF ArchiveInit, SignedFits, Pair, Whole, Unsigned
<1>6. OneWriter /\ DOMAIN rows = {} /\ writes = {}
  BY DEF ArchiveInit, OneWriter
<1> QED BY <1>2, <1>4, <1>5, <1>6 DEF AInv

LEMMA ArchiveStep == ASSUME AInv, [ArchiveNext]_archive PROVE AInv'
<1>1. CASE UNCHANGED archive
  <2>1. /\ \A q \in Recordings, n \in Numbers : Reused(q, n)' <=> Reused(q, n)
        /\ \A q \in Recordings : Unused(q)' <=> Unused(q)
    BY <1>1 DEF archive, Reused, Unused
  <2>2. ArchiveTypes' /\ OneWriter' /\ SignedFits'
    BY <1>1, <2>1 DEF archive, AInv, ArchiveTypes, OneWriter, SignedFits, Pair
  <2>3. \A p \in Recordings : TapFits(p)' /\ Listed(p)'
    BY <1>1, <2>1 DEF archive, AInv, TapFits, Listed
  <2>4. ASSUME NEW w \in writes PROVE WriteFits(w)'
    <3>1. WriteFits(w) /\ w.pub \in Recordings /\ w.seq \in Numbers
      BY DEF AInv, WriteFits, WriteType
    <3> QED BY <1>1, <2>1, <3>1 DEF archive, WriteFits
  <2>5. ASSUME NEW d \in DOMAIN rows PROVE RowFits(d)'
    <3>1. RowFits(d) /\ rows[d].pub \in Recordings /\ rows[d].seq \in Numbers
      BY DEF AInv, RowFits, RowType
    <3> QED BY <1>1, <2>1, <3>1 DEF archive, RowFits
  <2> QED BY <1>1, <2>2, <2>3, <2>4, <2>5 DEF archive, AInv
<1>2. ASSUME NEW p \in Recordings, Tapping(p) PROVE AInv'
  BY <1>2, ReadingSteps, KeepStep DEF Tapping
<1>3. ASSUME NEW p \in Recordings, Finalizing(p) PROVE AInv'
  BY <1>3, ReadingSteps, ListStep, ConcatStep, SealSteps DEF Finalizing
<1>4. ASSUME NEW w \in writes, Blocking(w) PROVE AInv'
  BY <1>4, OpenStep, LastStep, FillStep DEF Blocking
<1> QED BY <1>1, <1>2, <1>3, <1>4, CrashStep DEF ArchiveNext

LEMMA AInvImplies == AInv => ArchiveInv
<1> SUFFICES ASSUME AInv PROVE ArchiveInv
  OBVIOUS
<1>1. ArchiveTypeOK
  <2>1. ASSUME NEW p \in Recordings PROVE tap[p].at \in Ats /\ tap[p].read \in 0..Fragments /\ tap[p].seq \in 0..Fragments
    BY DEF AInv, ArchiveTypes, TapType
  <2>2. ASSUME NEW w \in writes PROVE w.at \in {"open", "fill", "record"} /\ w.seq \in Numbers
    BY DEF AInv, WriteFits, WriteType
  <2>3. ASSUME NEW d \in DOMAIN rows PROVE rows[d].end > d /\ rows[d].seq \in Numbers
    <3>1. d \in Nat /\ rows[d].end \in Nat /\ d < rows[d].end
      BY IndexKeys
    <3>2. rows[d].seq \in Numbers
      BY DEF AInv, RowFits, RowType
    <3> QED BY <3>1, <3>2
  <2>4. \A n \in Numbers : files[n] \in Recorded \cup {Missing, Torn}
    BY DEF AInv, ArchiveTypes, Contents
  <2> QED BY <2>1, <2>2, <2>3, <2>4 DEF AInv, ArchiveTypes, ArchiveTypeOK, Ats
<1>2. RowServesItsFragment
  BY DEF AInv, RowFits, RowServesItsFragment, Reused
<1>3. RangeExact
  <2> SUFFICES ASSUME NEW from \in 0..(Max(Times) + Period), NEW to \in 0..(Max(Times) + Period), from < to
               PROVE  LET found == find_range(from, to) IN
                      /\ ToSet(found) \subseteq Overlap(from, to)
                      /\ \A d \in Overlap(from, to) \ ToSet(found) : d < from /\ Hiding(d, from) # {}
                      /\ \A j, k \in DOMAIN found : j < k => found[j] < found[k]
    BY DEF RangeExact
  <2> DEFINE T == Found(from, to)
             before == {d \in DOMAIN rows : d < from}
             found == find_range(from, to)
  <2>1. /\ T \in SUBSET DOMAIN rows
        /\ before # {} => Max(before) \in DOMAIN rows /\ \A d \in DOMAIN rows : d < from => d <= Max(before)
        /\ Ordered(T) \in [1..Cardinality(T) -> T] /\ Cardinality(T) \in Nat
        /\ Rising(Ordered(T)) /\ ToSet(Ordered(T)) = T
    BY ScanKeys
  <2>2. CASE Fragments = 0
    <3>1. Times = {}
      BY <2>2 DEF Times
    <3>2. DOMAIN rows = {}
      BY <3>1 DEF AInv, RowFits
    <3>3. T = {}
      BY <2>1, <3>2
    <3>4. ToSet(found) = {} /\ \A j, k \in DOMAIN found : j < k => found[j] < found[k]
      <4>1. found = <<>> \/ found = Ordered(T)
        BY DEF find_range, Found
      <4> HIDE DEF found, T
      <4>2. CASE found = <<>>
        BY <4>2 DEF ToSet
      <4>3. CASE found = Ordered(T)
        BY <2>1, <3>3, <4>3 DEF Rising
      <4> QED BY <4>1, <4>2, <4>3
    <3>5. Overlap(from, to) = {}
      BY <3>2 DEF Overlap
    <3> QED BY <3>4, <3>5
  <2>3. CASE Fragments # 0
    <3>1. Max(Times) \in Nat /\ Period \in Nat
      <4>1. 1 \in 1..Fragments
        BY <2>3, NumbersAreNat
      <4>2. Times # {}
        BY <4>1 DEF Times
      <4> QED BY <4>2, TimesAreNat, HasMax, ArchiveAssumption
    <3>2. from \in Nat /\ to \in Nat /\ ~(to <= from)
      BY <3>1
    <3>3. found = Ordered(T)
      BY <3>2 DEF find_range, Found
    <3>4. \A d \in DOMAIN rows : d \in Nat /\ rows[d].end \in Nat /\ d < rows[d].end
      BY IndexKeys
    <3>5. T \subseteq Overlap(from, to)
      <4> SUFFICES ASSUME NEW d \in T PROVE d \in DOMAIN rows /\ d < to /\ rows[d].end > from
        BY DEF Overlap
      <4>1. d \in DOMAIN rows /\ d \in Nat /\ rows[d].end \in Nat /\ d < rows[d].end
        BY <2>1, <3>4
      <4>2. CASE from <= d /\ d < to
        BY <3>2, <4>1, <4>2
      <4>3. CASE d \in Leading(from)
        <5>1. before # {} /\ d = Max(before) /\ rows[d].end > from
          BY <4>3 DEF Leading
        <5>2. before \in SUBSET Nat /\ IsFiniteSet(before)
          <6>1. before \in SUBSET DOMAIN rows
            OBVIOUS
          <6> QED BY <6>1, IndexKeys, FS_Subset
        <5>3. d < from
          <6> HIDE DEF before
          <6>1. d \in before
            BY <5>1, <5>2, HasMax
          <6> QED BY <6>1 DEF before
        <5> QED BY <3>2, <4>1, <5>1, <5>3
      <4> QED BY <4>2, <4>3 DEF Found
    <3>6. ASSUME NEW d \in Overlap(from, to) \ T PROVE d < from /\ Hiding(d, from) # {}
      <4>1. d \in DOMAIN rows /\ d < to /\ rows[d].end > from /\ d \notin T
        BY DEF Overlap
      <4>2. d \in Nat /\ rows[d].end \in Nat
        BY <3>4, <4>1
      <4>3. d < from
        <5>1. ~ (from <= d)
          BY <4>1 DEF Found
        <5> QED BY <3>2, <4>2, <5>1
      <4>4. before # {} /\ Max(before) \in DOMAIN rows /\ d <= Max(before) /\ Max(before) \in Nat
        BY <2>1, <3>4, <4>1, <4>3
      <4>5. before \in SUBSET Nat /\ IsFiniteSet(before)
        <5>1. before \in SUBSET DOMAIN rows
          OBVIOUS
        <5> QED BY <5>1, IndexKeys, FS_Subset
      <4>6. Max(before) < from
        <5> HIDE DEF before
        <5>1. Max(before) \in before
          BY <4>4, <4>5, HasMax
        <5> QED BY <5>1 DEF before
      <4>7. d # Max(before)
        BY <4>1, <4>4 DEF Leading, Found
      <4>8. d < Max(before)
        <5> HIDE DEF before
        <5> QED BY <4>2, <4>4, <4>7
      <4> QED BY <4>3, <4>4, <4>6, <4>8 DEF Hiding
    <3>7. \A j, k \in DOMAIN found : j < k => found[j] < found[k]
      BY <2>1, <3>3 DEF Rising
    <3>8. ToSet(found) = T
      BY <2>1, <3>3
    <3> HIDE DEF T
    <3> QED BY <3>5, <3>6, <3>7, <3>8
  <2> QED BY <2>2, <2>3
<1>4. AssetSound
  <2> SUFFICES ASSUME \A p, q \in Recordings : tap[p].at # "new" /\ tap[q].at # "new" => p = q
               PROVE  Pair
    BY DEF AssetSound, Pair, Whole
  <2>1. CASE \E p \in Recordings : tap[p].at # "new"
    <3>1. PICK p \in Recordings : tap[p].at # "new"
      BY <2>1
    <3>2. Unused(p)
      BY <3>1 DEF Unused
    <3> QED BY <3>2 DEF AInv, SignedFits
  <2>2. CASE \A p \in Recordings : tap[p].at = "new"
    <3>1. signed = Unsigned
      BY <2>2 DEF AInv, SignedFits
    <3> QED BY <3>1 DEF Unsigned, Pair, Whole
  <2> QED BY <2>1, <2>2
<1> QED BY <1>1, <1>2, <1>3, <1>4 DEF ArchiveInv

\* Whatever the order of the blocking writes, wherever the process crashes and
\* however often the name is published: a row serves its fragment unless another
\* publication took its file number, a scan finds only rows that overlap it, in
\* order, and misses one only behind a row that starts inside it before the
\* query, and the signed asset of a name published once is whole (write_segment,
\* record, find_range, finalize_c2pa).
THEOREM ArchiveSound == EgressSpec => []ArchiveInv
<1>1. EgressInit => AInv
  BY InitAInv DEF EgressInit
<1>2. AInv /\ [EgressNext]_egress => AInv'
  BY ArchiveStep DEF EgressNext, egress
<1> QED BY <1>1, <1>2, AInvImplies, PTL DEF EgressSpec
=============================================================================
