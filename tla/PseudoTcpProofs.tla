---------------------------- MODULE PseudoTcpProofs ----------------------------
(***************************************************************************)
(* Proofs about PseudoTcp.  Its four safety invariants are theorems of     *)
(* Spec, for every buffer, packet and list of segment sizes: the stream    *)
(* that is read is the one that was written, what is sent fits the peer's  *)
(* buffer, the segments are the send buffer, and bytes that are not read   *)
(* yet always have a timer or an event that moves them.                    *)
(*                                                                         *)
(* The first follows from IInv, which is inductive.  It says, end by end,  *)
(* that the send buffer holds the bytes from snd_una up to the last one    *)
(* written, each with its number as its value (Buffered), that the list    *)
(* of segments is as long as the buffer and snd_nxt lies behind those that *)
(* were sent (Listed), and that the bytes received and those saved out of  *)
(* order lie in rbuf where their numbers say (Received, Saved); across the *)
(* ends, that no end takes for acknowledged what its peer has not received *)
(* (EndOK), and that a packet holds the bytes its number says, from the    *)
(* first one on that its peer still needs (Contents): what lies before may *)
(* come from an address outside the buffer.  The next two follow from      *)
(* WInv, which is inductive together with IInv: until an end was forced    *)
(* through a closed window, segments lie without a gap, every packet ends  *)
(* where a segment does and is acknowledged there, and nothing sent or     *)
(* under way lies beyond the window.  The last follows from MInv, also     *)
(* inductive with IInv: what is under way has the timer (Clocked), a       *)
(* reader with bytes to read was told or will be (Tells), a writer who     *)
(* waits has a full buffer (Asked), and an end with bytes to send that did *)
(* not fail has a timer or a closed window (Moving).                       *)
(*                                                                         *)
(* A handler is a composition of functions on the control block.  Each has *)
(* its lemma, named after it: ...Good says that it keeps what holds of the *)
(* block throughout a handler (Good), ...Tight the same of the windows     *)
(* (Tight), ...Lives and ...Flows of what moves the stream (Leaves,        *)
(* Flows), ...Is which fields it changes and how.  Held, Fits and Lives    *)
(* say what holds of the block when the handler of an end is done with it, *)
(* and StepPreserves draws the invariants from that; ...Keeps is the lemma *)
(* of an action.                                                           *)
(***************************************************************************)
EXTENDS PseudoTcp, SequenceTheorems, WellFoundedInduction, TLAPS
(* Induction, from the order of the naturals: the library's own theorem    *)
(* speaks of predicates.                                                   *)
LEMMA Least ==
  ASSUME NEW S, S \subseteq Nat, S # {}
  PROVE  \E m \in S : \A k \in S : m <= k
<1> DEFINE R == {p \in Nat \X Nat : p[1] < p[2]}
<1>1. IsWellFoundedOn(R, Nat)
  BY NatLessThanWellFounded DEF OpToRel
<1> HIDE DEF R
<1>2. PICK m \in S : \A k \in S : ~(<<k, m>> \in R)
  BY <1>1, WFMin
<1>3. ASSUME NEW k \in S PROVE m <= k
  <2>1. m \in Nat /\ k \in Nat
    OBVIOUS
  <2>2. ~(<<k, m>> \in Nat \X Nat /\ k < m)
    BY <1>2 DEF R
  <2> QED
    BY <2>1, <2>2
<1> QED
  BY <1>3

LEMMA Induction ==
  ASSUME NEW S, 0 \in S, \A n \in Nat : n \in S => n + 1 \in S
  PROVE  Nat \subseteq S
<1> SUFFICES ASSUME Nat \ S # {} PROVE FALSE
  OBVIOUS
<1>1. PICK m \in Nat \ S : \A k \in Nat \ S : m <= k
  BY Least
<1>2. m # 0 /\ m - 1 \in Nat
  BY <1>1
<1>3. m - 1 \in S
  BY <1>1, <1>2
<1>4. (m - 1) + 1 \in S
  BY <1>2, <1>3
<1> QED
  BY <1>1, <1>2, <1>4

(* A set of integers that is bounded has a largest and a smallest element. *)
LEMMA MaxIs ==
  ASSUME NEW S, S \subseteq Int, S # {}, NEW b \in Int, \A s \in S : s <= b
  PROVE  Max(S) \in S /\ \A s \in S : s <= Max(S)
<1> DEFINE T == {b - s : s \in S}
<1>1. T \subseteq Nat
  OBVIOUS
<1>0. T # {}
  OBVIOUS
<1>2. PICK m \in T : \A k \in T : m <= k
  BY <1>0, <1>1, Least
<1>3. PICK x \in S : m = b - x
  OBVIOUS
<1>4. \A s \in S : x >= s
  <2> TAKE s \in S
  <2>1. b - x <= b - s
    BY <1>2, <1>3
  <2>2. x \in Int /\ s \in Int
    OBVIOUS
  <2> QED
    BY <2>1, <2>2
<1>5. Max(S) \in S /\ \A s \in S : Max(S) >= s
  BY <1>4 DEF Max
<1>6. \A s \in S : Max(S) \in Int /\ s \in Int
  BY <1>5
<1> QED
  BY <1>5, <1>6

LEMMA MinIs ==
  ASSUME NEW S, S \subseteq Int, S # {}, NEW b \in Int, \A s \in S : b <= s
  PROVE  Min(S) \in S /\ \A s \in S : Min(S) <= s
<1> DEFINE T == {s - b : s \in S}
<1>1. T \subseteq Nat
  OBVIOUS
<1>0. T # {}
  OBVIOUS
<1>2. PICK m \in T : \A k \in T : m <= k
  BY <1>0, <1>1, Least
<1>3. PICK x \in S : m = x - b
  OBVIOUS
<1>4. \A s \in S : x <= s
  <2> TAKE s \in S
  <2>1. x - b <= s - b
    BY <1>2, <1>3
  <2>2. x \in Int /\ s \in Int
    OBVIOUS
  <2> QED
    BY <2>1, <2>2
<1> QED
  BY <1>4 DEF Min

LEMMA MinOfTwo ==
  ASSUME NEW a \in Int, NEW b \in Int
  PROVE  /\ Min({a, b}) \in {a, b} /\ Min({a, b}) <= a /\ Min({a, b}) <= b
         /\ a <= b => Min({a, b}) = a
         /\ b <= a => Min({a, b}) = b
BY DEF Min

LEMMA MaxOfTwo ==
  ASSUME NEW a \in Int, NEW b \in Int
  PROVE  /\ Max({a, b}) \in {a, b} /\ Max({a, b}) >= a /\ Max({a, b}) >= b
         /\ a <= b => Max({a, b}) = b
         /\ b <= a => Max({a, b}) = a
BY DEF Max

LEMMA SegmentIs ==
  ASSUME NEW list \in Seq(Segments)
  PROVE  /\ Len(list) \in Nat /\ DOMAIN list = 1 .. Len(list)
         /\ \A k \in 1 .. Len(list) :
              /\ list[k] \in Segments
              /\ list[k].seq \in Nat /\ list[k].len \in Nat \ {0}
              /\ list[k].xmit \in Nat /\ list[k].ctl \in BOOLEAN
<1>1. \A k \in 1 .. Len(list) : list[k] \in Segments
  BY ElementOfSeq
<1>2. \A seg \in Segments :
        /\ seg.seq \in Nat /\ seg.len \in Nat \ {0}
        /\ seg.xmit \in Nat /\ seg.ctl \in BOOLEAN
  BY DEF Segments
<1> QED
  BY <1>1, <1>2

(* The recursive function of Offsets has the values its definition says.   *)
LEMMA OffsetsExist ==
  ASSUME NEW list, Len(list) \in Nat
  PROVE  Offsets(list) = [k \in 0 .. Len(list) |->
                            IF k = 0 THEN 0 ELSE Offsets(list)[k - 1] + list[k].len]
<1> DEFINE N == Len(list)
           Prefix(g, n) ==
             g = [k \in 0 .. n |-> IF k = 0 THEN 0 ELSE g[k - 1] + list[k].len]
           G == {n \in Nat : \E g : Prefix(g, n)}
<1>1. 0 \in G
  <2> DEFINE g == [k \in 0 .. 0 |-> 0]
  <2>1. Prefix(g, 0)
    OBVIOUS
  <2> QED
    BY <2>1
<1>2. ASSUME NEW n \in Nat, n \in G PROVE n + 1 \in G
  <2>1. PICK g : Prefix(g, n)
    BY <1>2
  <2> DEFINE h == [k \in 0 .. n + 1 |-> IF k = n + 1 THEN g[n] + list[n + 1].len ELSE g[k]]
             e(k) == IF k = 0 THEN 0 ELSE h[k - 1] + list[k].len
  <2>2. \A k \in 0 .. n : g[k] = IF k = 0 THEN 0 ELSE g[k - 1] + list[k].len
    BY <2>1
  <2>3. \A k \in 0 .. n : h[k] = g[k]
    OBVIOUS
  <2>4. h[n + 1] = g[n] + list[n + 1].len
    OBVIOUS
  <2>5. \A k \in 0 .. n + 1 : h[k] = e(k)
    BY <2>2, <2>3, <2>4
  <2>6. h = [k \in 0 .. n + 1 |-> h[k]]
    OBVIOUS
  <2> HIDE DEF h
  <2>7. h = [k \in 0 .. n + 1 |-> e(k)]
    BY <2>5, <2>6
  <2> QED
    BY <2>7
<1> HIDE DEF G
<1>3. Nat \subseteq G
  BY <1>1, <1>2, Induction
<1>4. \E g : Prefix(g, N)
  BY <1>3 DEF G
<1> QED
  BY <1>4 DEF Offsets

LEMMA OffsetsAre ==
  ASSUME NEW list \in Seq(Segments)
  PROVE  /\ Offsets(list) \in [0 .. Len(list) -> Nat]
         /\ Offsets(list)[0] = 0
         /\ \A k \in 1 .. Len(list) :
              Offsets(list)[k] = Offsets(list)[k - 1] + list[k].len
<1> DEFINE N == Len(list)
           off == Offsets(list)
           G == {n \in Nat : n <= N => off[n] \in Nat}
<1>1. off = [k \in 0 .. N |-> IF k = 0 THEN 0 ELSE off[k - 1] + list[k].len]
  BY OffsetsExist
<1> HIDE DEF off
<1>2. off[0] = 0 /\ \A k \in 1 .. N : off[k] = off[k - 1] + list[k].len
  BY <1>1
<1>3. \A k \in 1 .. N : list[k].len \in Nat
  BY SegmentIs
<1>4. Nat \subseteq G
  <2>1. 0 \in G
    BY <1>2
  <2>2. \A n \in Nat : n \in G => n + 1 \in G
    BY <1>2, <1>3
  <2> HIDE DEF G
  <2> QED
    BY <2>1, <2>2, Induction
<1>5. \A n \in 0 .. N : off[n] \in Nat
  BY <1>4
<1>6. off \in [0 .. N -> Nat]
  BY <1>1, <1>5
<1> QED
  BY <1>2, <1>6 DEF off

(* Whatever begins at 0 and grows by the segments' lengths is Offsets.     *)
LEMMA OffsetsOnly ==
  ASSUME NEW list \in Seq(Segments), NEW g, g[0] = 0,
         \A k \in 1 .. Len(list) : g[k] = g[k - 1] + list[k].len
  PROVE  \A k \in 0 .. Len(list) : Offsets(list)[k] = g[k]
<1> DEFINE N == Len(list)
           off == Offsets(list)
           G == {n \in Nat : n <= N => off[n] = g[n]}
<1>1. off[0] = 0 /\ \A k \in 1 .. N : off[k] = off[k - 1] + list[k].len
  BY OffsetsAre
<1> HIDE DEF off
<1>2. Nat \subseteq G
  <2>1. 0 \in G
    BY <1>1
  <2>2. \A n \in Nat : n \in G => n + 1 \in G
    BY <1>1
  <2> HIDE DEF G
  <2> QED
    BY <2>1, <2>2, Induction
<1> QED
  BY <1>2 DEF off

LEMMA OffsetsGrow ==
  ASSUME NEW list \in Seq(Segments), NEW i \in 0 .. Len(list), NEW j \in i .. Len(list)
  PROVE  /\ Offsets(list)[i] \in Nat /\ Offsets(list)[j] \in Nat
         /\ Offsets(list)[j] >= Offsets(list)[i] + (j - i)
<1> DEFINE N == Len(list)
           off == Offsets(list)
           G == {n \in Nat : i + n <= N => off[i + n] >= off[i] + n}
<1>1. off \in [0 .. N -> Nat] /\ \A k \in 1 .. N : off[k] = off[k - 1] + list[k].len
  BY OffsetsAre
<1>2. \A k \in 1 .. N : list[k].len \in Nat \ {0}
  BY SegmentIs
<1> HIDE DEF off
<1>3. Nat \subseteq G
  <2>1. 0 \in G
    BY <1>1
  <2>2. ASSUME NEW n \in Nat, n \in G PROVE n + 1 \in G
    <3> SUFFICES ASSUME i + (n + 1) <= N PROVE off[i + (n + 1)] >= off[i] + (n + 1)
      OBVIOUS
    <3>1. off[i + n] >= off[i] + n
      BY <2>2
    <3>2. i + (n + 1) \in 1 .. N /\ (i + (n + 1)) - 1 = i + n
      OBVIOUS
    <3>3. off[i + (n + 1)] = off[i + n] + list[i + (n + 1)].len
      BY <1>1, <3>2
    <3>4. list[i + (n + 1)].len \in Nat \ {0}
      BY <1>2, <3>2
    <3>5. i + n \in 0 .. N /\ i \in 0 .. N
      OBVIOUS
    <3>6. off[i + n] \in Nat /\ off[i] \in Nat
      BY <1>1, <3>5
    <3> DEFINE a == off[i]
               b == off[i + n]
               l == list[i + (n + 1)].len
    <3>7. off[i + (n + 1)] = b + l /\ b >= a + n /\ a \in Nat /\ b \in Nat /\ l \in Nat \ {0}
      BY <3>1, <3>3, <3>4, <3>6
    <3> HIDE DEF a, b, l
    <3>8. b + l >= a + (n + 1)
      BY <3>7
    <3> QED
      BY <3>7, <3>8 DEF a
  <2> HIDE DEF G
  <2> QED
    BY <2>1, <2>2, Induction
<1>4. j - i \in G
  BY <1>3
<1>5. i + (j - i) = j
  OBVIOUS
<1>6. off[j] >= off[i] + (j - i)
  BY <1>4, <1>5
<1> QED
  BY <1>1, <1>6 DEF off

LEMMA JoinedTwo ==
  ASSUME NEW S, NEW a \in Seq(S), NEW b \in Seq(S), NEW s, s = a \o b
  PROVE  /\ s \in Seq(S) /\ Len(s) = Len(a) + Len(b)
         /\ \A j \in 1 .. Len(a) : s[j] = a[j]
         /\ \A j \in 1 .. Len(b) : s[Len(a) + j] = b[j]
OBVIOUS

LEMMA JoinedSegments ==
  ASSUME NEW S, NEW a \in Seq(S), NEW b \in Seq(S), NEW c \in Seq(S),
         NEW s, s = (a \o b) \o c
  PROVE  /\ s \in Seq(S) /\ Len(s) = Len(a) + Len(b) + Len(c)
         /\ \A j \in 1 .. Len(a) : s[j] = a[j]
         /\ \A j \in 1 .. Len(b) : s[Len(a) + j] = b[j]
         /\ \A j \in 1 .. Len(c) : s[Len(a) + Len(b) + j] = c[j]
<1>1. Len(a) \in Nat /\ Len(b) \in Nat /\ Len(c) \in Nat
  OBVIOUS
<1> DEFINE ab == a \o b
<1>2. /\ ab \in Seq(S) /\ Len(ab) = Len(a) + Len(b)
      /\ \A j \in 1 .. Len(a) : ab[j] = a[j]
      /\ \A j \in 1 .. Len(b) : ab[Len(a) + j] = b[j]
  BY JoinedTwo
<1> HIDE DEF ab
<1>3. s = ab \o c
  BY DEF ab
<1>4. /\ s \in Seq(S) /\ Len(s) = Len(ab) + Len(c)
      /\ \A j \in 1 .. Len(ab) : s[j] = ab[j]
      /\ \A j \in 1 .. Len(c) : s[Len(ab) + j] = c[j]
  <2>1. ab \in Seq(S)
    BY <1>2
  <2> QED
    BY <2>1, <1>3, JoinedTwo
<1>5. \A j \in 1 .. Len(b) : Len(a) + j \in 1 .. Len(ab)
  BY <1>1, <1>2
<1>6. \A j \in 1 .. Len(a) : j \in 1 .. Len(ab)
  BY <1>1, <1>2
<1> QED
  BY <1>2, <1>4, <1>5, <1>6

(* What the lists are that replace segment i, and that cut it after n.     *)
Spliced(cut, list, i, part) ==
  /\ cut \in Seq(Segments) /\ Len(cut) = (i - 1) + Len(part) + (Len(list) - i)
  /\ \A j \in 1 .. i - 1 : cut[j] = list[j]
  /\ \A j \in 1 .. Len(part) : cut[(i - 1) + j] = part[j]
  /\ \A j \in 1 .. Len(list) - i : cut[(i - 1) + Len(part) + j] = list[i + j]

CutAfter(cut, list, i, n, sent, d) ==
  /\ d = IF n < list[i].len THEN 1 ELSE 0
  /\ cut \in Seq(Segments) /\ Len(cut) = Len(list) + d
  /\ \A j \in 1 .. i - 1 : cut[j] = list[j]
  /\ cut[i].seq = list[i].seq /\ cut[i].len = n
  /\ cut[i].xmit = list[i].xmit + sent /\ cut[i].ctl = list[i].ctl
  /\ d = 1 => /\ cut[i + 1].seq = list[i].seq + n
              /\ cut[i + 1].len = list[i].len - n
              /\ cut[i + 1].xmit = list[i].xmit /\ cut[i + 1].ctl = list[i].ctl
  /\ \A j \in i + 1 .. Len(list) : cut[j + d] = list[j]
  /\ \A j \in 0 .. i - 1 : Offsets(cut)[j] = Offsets(list)[j]
  /\ Offsets(cut)[i] = Offsets(list)[i - 1] + n
  /\ \A j \in i .. Len(list) : Offsets(cut)[j + d] = Offsets(list)[j]

LEMMA ReplacedIs ==
  ASSUME NEW list \in Seq(Segments), NEW i \in 1 .. Len(list), NEW part \in Seq(Segments),
         NEW cut, cut = Replaced(list, i, part)
  PROVE  Spliced(cut, list, i, part)
<1> DEFINE front == SubSeq(list, 1, i - 1)
           back  == SubSeq(list, i + 1, Len(list))
<1>0. Len(list) \in Nat
  OBVIOUS
<1>1. /\ front \in Seq(Segments) /\ Len(front) = i - 1
      /\ \A j \in 1 .. i - 1 : front[j] = list[j]
  BY SubSeqProperties
<1>2. /\ back \in Seq(Segments) /\ Len(back) = Len(list) - i
      /\ \A j \in 1 .. Len(list) - i : back[j] = list[i + j]
  BY <1>0, SubSeqProperties
<1>3. cut = (front \o part) \o back
  BY DEF Replaced
<1> HIDE DEF front, back
<1>4. /\ cut \in Seq(Segments) /\ Len(cut) = Len(front) + Len(part) + Len(back)
      /\ \A j \in 1 .. Len(front) : cut[j] = front[j]
      /\ \A j \in 1 .. Len(part) : cut[Len(front) + j] = part[j]
      /\ \A j \in 1 .. Len(back) : cut[Len(front) + Len(part) + j] = back[j]
  <2>1. front \in Seq(Segments) /\ part \in Seq(Segments) /\ back \in Seq(Segments)
    BY <1>1, <1>2
  <2> QED
    BY <2>1, <1>3, JoinedSegments
<1> QED
  BY <1>1, <1>2, <1>4 DEF Spliced

(* A segment cut in two, in its list.                                      *)
LEMMA CutList ==
  ASSUME NEW list \in Seq(Segments), NEW i \in 1 .. Len(list), NEW sent \in {0, 1},
         NEW n \in 1 .. list[i].len
  PROVE  \E d : CutAfter(Replaced(list, i, SegmentCut(list[i], n, sent)), list, i, n, sent, d)
<1> DEFINE cut == Replaced(list, i, SegmentCut(list[i], n, sent))
           d == IF n < list[i].len THEN 1 ELSE 0
           seg == list[i]
           first == [seg EXCEPT !.len = n, !.xmit = @ + sent]
           rest == [seg EXCEPT !.seq = @ + n, !.len = @ - n]
           part == SegmentCut(list[i], n, sent)
<1>1. /\ list[i] \in Segments /\ list[i].seq \in Nat /\ list[i].len \in Nat \ {0}
      /\ list[i].xmit \in Nat /\ list[i].ctl \in BOOLEAN
      /\ Len(list) \in Nat
  BY SegmentIs
<1>2. d \in {0, 1} /\ (d = 1 <=> n < list[i].len)
  OBVIOUS
<1> HIDE DEF d
<1>3. /\ first \in Segments /\ (d = 1 => rest \in Segments)
      /\ first.seq = list[i].seq /\ first.len = n
      /\ first.xmit = list[i].xmit + sent /\ first.ctl = list[i].ctl
      /\ rest.seq = list[i].seq + n /\ rest.len = list[i].len - n
      /\ rest.xmit = list[i].xmit /\ rest.ctl = list[i].ctl
  <2> DEFINE e == seg.xmit + sent
             q == seg.seq + n
             l == seg.len - n
  <2>1. /\ seg \in Segments /\ n \in Nat \ {0} /\ e \in Nat /\ q \in Nat
        /\ n < seg.len => l \in Nat \ {0}
    BY <1>1
  <2>2. first = [seg EXCEPT !.len = n, !.xmit = e] /\ rest = [seg EXCEPT !.seq = q, !.len = l]
    OBVIOUS
  <2> HIDE DEF seg, first, rest, e, q, l
  <2>3. /\ first \in Segments
        /\ first.seq = seg.seq /\ first.len = n /\ first.xmit = e /\ first.ctl = seg.ctl
    BY <2>1, <2>2 DEF Segments
  <2>4. /\ n < seg.len => rest \in Segments
        /\ rest.seq = q /\ rest.len = l /\ rest.xmit = seg.xmit /\ rest.ctl = seg.ctl
    BY <2>1, <2>2 DEF Segments
  <2> QED
    BY <1>2, <2>3, <2>4 DEF seg, e, q, l
<1>14. part = <<first>> \o (IF d = 1 THEN <<rest>> ELSE <<>>)
  BY <1>2 DEF SegmentCut
<1> HIDE DEF first, rest, part
<1>4. /\ part \in Seq(Segments) /\ Len(part) = 1 + d
      /\ part[1] = first /\ (d = 1 => part[2] = rest)
  BY <1>3, <1>14, <1>2
<1>7. cut = Replaced(list, i, part)
  BY DEF part
<1> HIDE DEF cut
<1>8. /\ cut \in Seq(Segments) /\ Len(cut) = Len(list) + d
      /\ \A j \in 1 .. i - 1 : cut[j] = list[j]
      /\ \A j \in 1 .. 1 + d : cut[(i - 1) + j] = part[j]
      /\ \A j \in 1 .. Len(list) - i : cut[(i - 1) + (1 + d) + j] = list[i + j]
  <2>1. part \in Seq(Segments)
    BY <1>4
  <2>2. Spliced(cut, list, i, part)
    BY <2>1, <1>7, ReplacedIs
  <2>3. /\ cut \in Seq(Segments) /\ Len(cut) = (i - 1) + (1 + d) + (Len(list) - i)
        /\ \A j \in 1 .. i - 1 : cut[j] = list[j]
        /\ \A j \in 1 .. 1 + d : cut[(i - 1) + j] = part[j]
        /\ \A j \in 1 .. Len(list) - i : cut[(i - 1) + (1 + d) + j] = list[i + j]
    BY <2>2, <1>4, Zenon DEF Spliced
  <2>4. (i - 1) + (1 + d) + (Len(list) - i) = Len(list) + d
    BY <1>1, <1>2
  <2> QED
    BY <2>3, <2>4
<1>9. /\ \A j \in 1 .. i - 1 : cut[j] = list[j]
      /\ cut[i] = first
      /\ d = 1 => cut[i + 1] = rest
      /\ \A j \in i + 1 .. Len(list) : cut[j + d] = list[j]
  <2>1. \A j \in 1 .. i - 1 : cut[j] = list[j]
    BY <1>1, <1>2, <1>8
  <2>2. cut[i] = first
    BY <1>1, <1>2, <1>4, <1>8
  <2>3. ASSUME d = 1 PROVE cut[i + 1] = rest
    BY <1>1, <2>3, <1>4, <1>8
  <2>4. ASSUME NEW j \in i + 1 .. Len(list) PROVE cut[j + d] = list[j]
    <3>1. /\ j - i \in 1 .. Len(list) - i
          /\ (i - 1) + (1 + d) + (j - i) = j + d /\ i + (j - i) = j
      BY <1>1, <1>2
    <3> QED
      BY <3>1, <1>8
  <2> QED
    BY <2>1, <2>2, <2>3, <2>4
<1> DEFINE off == Offsets(list)
           g == [j \in 0 .. Len(cut) |->
                   IF j < i THEN off[j] ELSE IF j = i THEN off[i - 1] + n ELSE off[j - d]]
<1>11. /\ off \in [0 .. Len(list) -> Nat] /\ off[0] = 0
       /\ \A k \in 1 .. Len(list) : off[k] = off[k - 1] + list[k].len
  BY <1>1, <1>2, OffsetsAre
<1>12. \A j \in 0 .. Len(cut) : Offsets(cut)[j] = g[j]
  <2>1. \A j \in 0 .. Len(cut) :
          g[j] = IF j < i THEN off[j] ELSE IF j = i THEN off[i - 1] + n ELSE off[j - d]
    OBVIOUS
  <2> HIDE DEF g, off
  <2>2. g[0] = 0
    BY <1>1, <1>2, <1>8, <1>11, <2>1
  <2>3. ASSUME NEW j \in 1 .. Len(cut) PROVE g[j] = g[j - 1] + cut[j].len
    <3>0. j - 1 \in 0 .. Len(cut) /\ j \in 0 .. Len(cut) /\ j \in Int
      BY <1>1, <1>2, <1>8
    <3>1. CASE j < i
      <4>1. g[j] = off[j] /\ g[j - 1] = off[j - 1]
        BY <1>1, <3>0, <3>1, <2>1
      <4>2. cut[j] = list[j] /\ j \in 1 .. Len(list)
        BY <1>1, <3>1, <3>0, <1>9
      <4> QED
        BY <4>1, <4>2, <1>11
    <3>2. CASE j = i
      <4>1. g[j] = off[i - 1] + n /\ g[j - 1] = off[i - 1]
        BY <1>1, <1>2, <3>0, <3>2, <2>1
      <4> QED
        BY <1>1, <1>2, <4>1, <1>9, <1>3, <3>2
    <3>3. CASE j > i
      <4>0. j - d \in i .. Len(list) /\ j - d \in 1 .. Len(list)
        BY <1>1, <1>2, <1>8, <3>3
      <4>1. g[j] = off[j - d]
        BY <1>1, <1>2, <3>0, <3>3, <2>1
      <4>2. CASE j = i + 1
        <5>1. g[j - 1] = off[i - 1] + n
          BY <1>1, <1>2, <4>2, <3>0, <2>1
        <5>2. CASE d = 1
          <6>1. cut[j].len = list[i].len - n /\ j - d = i
            BY <1>1, <1>2, <5>2, <4>2, <1>9, <1>3
          <6>2. off[i] = off[i - 1] + list[i].len
            BY <1>1, <1>2, <1>11
          <6>3. off[i - 1] \in Nat /\ list[i].len \in Nat
            BY SMTT(30), <1>1, <1>11
          <6> QED
            BY <1>1, <1>2, <4>1, <5>1, <6>1, <6>2, <6>3
        <5>3. CASE d = 0
          <6>1. n = list[i].len
            BY <1>1, <1>2, <5>3
          <6>2. cut[j] = list[j] /\ j \in 1 .. Len(list) /\ j - 1 = i /\ j - d = j
            BY <1>1, <1>2, <5>3, <4>2, <4>0, <1>9
          <6>3. off[i] = off[i - 1] + list[i].len /\ off[j] = off[j - 1] + list[j].len
            BY <1>1, <1>2, <1>11, <6>2
          <6> QED
            BY <1>1, <1>2, <4>1, <5>1, <6>1, <6>2, <6>3
        <5> QED
          BY <1>1, <1>2, <5>2, <5>3
      <4>3. CASE j # i + 1
        <5>1. g[j - 1] = off[(j - d) - 1] 
          BY <1>1, <1>2, <4>3, <3>3, <3>0, <2>1
        <5>2. j - d \in i + 1 .. Len(list) /\ (j - d) + d = j
          BY <1>1, <1>2, <4>0, <4>3, <3>3
        <5>3. cut[j] = list[j - d]
          BY <1>1, <1>2, <5>2, <1>9
        <5> QED
          BY <1>1, <1>2, <4>0, <4>1, <5>1, <5>3, <1>11
      <4> QED
        BY <1>1, <1>2, <4>2, <4>3
    <3> QED
      BY <1>1, <1>2, <3>0, <3>1, <3>2, <3>3
  <2> QED
    BY <1>1, <1>2, <1>8, <2>2, <2>3, OffsetsOnly
<1>13. /\ \A j \in 0 .. i - 1 : Offsets(cut)[j] = off[j]
       /\ Offsets(cut)[i] = off[i - 1] + n
       /\ \A j \in i .. Len(list) : Offsets(cut)[j + d] = off[j]
  <2>1. \A j \in 0 .. Len(cut) :
          Offsets(cut)[j] =
            IF j < i THEN off[j] ELSE IF j = i THEN off[i - 1] + n ELSE off[j - d]
    BY <1>1, <1>2, <1>12
  <2> HIDE DEF g
  <2>2. \A j \in 0 .. i - 1 : Offsets(cut)[j] = off[j]
    BY <1>1, <1>2, <2>1, <1>8
  <2>3. Offsets(cut)[i] = off[i - 1] + n
    BY <1>1, <1>2, <2>1, <1>8
  <2>4. ASSUME NEW j \in i .. Len(list) PROVE Offsets(cut)[j + d] = off[j]
    <3>1. j + d \in 0 .. Len(cut) /\ ~(j + d < i)
      BY <1>1, <1>2, <1>8
    <3>2. CASE j + d = i
      BY <1>2, <3>2, <1>1, <1>11, <2>3
    <3>3. CASE j + d # i
      BY <1>2, <1>1, <2>1, <3>1, <3>3
    <3> QED
      BY <1>1, <1>2, <3>2, <3>3
  <2> QED
    BY <1>1, <1>2, <2>2, <2>3, <2>4
<1> HIDE DEF first, rest
<1>15. /\ d = IF n < list[i].len THEN 1 ELSE 0
       /\ cut \in Seq(Segments) /\ Len(cut) = Len(list) + d
       /\ \A j \in 1 .. i - 1 : cut[j] = list[j]
       /\ \A j \in i + 1 .. Len(list) : cut[j + d] = list[j]
  BY <1>8, <1>9 DEF d
<1>16. /\ cut[i].seq = list[i].seq /\ cut[i].len = n
       /\ cut[i].xmit = list[i].xmit + sent /\ cut[i].ctl = list[i].ctl
  BY <1>3, <1>9
<1>17. d = 1 => /\ cut[i + 1].seq = list[i].seq + n
                /\ cut[i + 1].len = list[i].len - n
                /\ cut[i + 1].xmit = list[i].xmit /\ cut[i + 1].ctl = list[i].ctl
  BY <1>3, <1>9
<1>18. CutAfter(cut, list, i, n, sent, d)
  BY <1>13, <1>15, <1>16, <1>17 DEF CutAfter
<1> QED
  BY <1>18 DEF cut

(* The list with n more bytes in its last segment, with one more segment,  *)
(* and without the first n bytes, `gone' whole segments and a part.        *)
LongerBy(new, list, n) ==
  LET N == Len(list)
  IN /\ new \in Seq(Segments) /\ Len(new) = N
     /\ \A j \in 1 .. N - 1 : new[j] = list[j]
     /\ new[N].seq = list[N].seq /\ new[N].len = list[N].len + n
     /\ new[N].xmit = list[N].xmit /\ new[N].ctl = list[N].ctl
     /\ \A j \in 0 .. N - 1 : Offsets(new)[j] = Offsets(list)[j]
     /\ Offsets(new)[N] = Offsets(list)[N] + n

FollowedBy(new, list, seg) ==
  LET N == Len(list)
  IN /\ new \in Seq(Segments) /\ Len(new) = N + 1
     /\ \A j \in 1 .. N : new[j] = list[j]
     /\ new[N + 1] = seg
     /\ \A j \in 0 .. N : Offsets(new)[j] = Offsets(list)[j]
     /\ Offsets(new)[N + 1] = Offsets(list)[N] + seg.len

Without(new, list, n, gone, part) ==
  LET N == Len(list)
  IN /\ gone \in 0 .. N /\ part \in Nat /\ Offsets(list)[gone] + part = n
     /\ IF gone = N THEN part = 0 ELSE part < list[gone + 1].len
     /\ new \in Seq(Segments) /\ Len(new) = N - gone
     /\ \A j \in 1 .. N - gone :
          /\ new[j].seq = list[gone + j].seq
          /\ new[j].len = IF j = 1 THEN list[gone + j].len - part ELSE list[gone + j].len
          /\ new[j].xmit = list[gone + j].xmit /\ new[j].ctl = list[gone + j].ctl
     /\ \A j \in 1 .. N - gone : Offsets(new)[j] = Offsets(list)[gone + j] - n

LEMMA LengthenedIs ==
  ASSUME NEW list \in Seq(Segments), list # <<>>, NEW n \in Nat,
         NEW new, new = Lengthened(list, n)
  PROVE  LongerBy(new, list, n)
<1> DEFINE N == Len(list)
           l == list[N].len + n
           seg == [list[N] EXCEPT !.len = l]
<1>1. N \in Nat \ {0} /\ N \in 1 .. N
  BY EmptySeq
<1>2. list[N] \in Segments /\ l \in Nat \ {0}
  BY <1>1, SegmentIs
<1>3. new = [list EXCEPT ![N] = seg]
  BY DEF Lengthened
<1> HIDE DEF l
<1>4. /\ seg \in Segments
      /\ seg.seq = list[N].seq /\ seg.len = l
      /\ seg.xmit = list[N].xmit /\ seg.ctl = list[N].ctl
  BY <1>2 DEF Segments
<1> HIDE DEF seg
<1>5. /\ new \in Seq(Segments) /\ Len(new) = N
      /\ new[N] = seg
      /\ \A j \in 1 .. N - 1 : new[j] = list[j]
  BY <1>1, <1>3, <1>4, ExceptSeq
<1> DEFINE off == Offsets(list)
           g == [j \in 0 .. N |-> IF j = N THEN off[N] + n ELSE off[j]]
<1>6. /\ off \in [0 .. N -> Nat] /\ off[0] = 0
      /\ \A k \in 1 .. N : off[k] = off[k - 1] + list[k].len
  BY OffsetsAre
<1>7. \A j \in 0 .. N : Offsets(new)[j] = g[j]
  <2>1. \A j \in 0 .. N : g[j] = IF j = N THEN off[N] + n ELSE off[j]
    OBVIOUS
  <2> HIDE DEF g, off
  <2>2. g[0] = 0
    BY <1>1, <1>6, <2>1
  <2>3. ASSUME NEW j \in 1 .. Len(new) PROVE g[j] = g[j - 1] + new[j].len
    <3>1. j \in 1 .. N /\ j - 1 \in 0 .. N /\ j - 1 # N
      BY <1>1, <1>5
    <3>2. g[j - 1] = off[j - 1] /\ off[j] = off[j - 1] + list[j].len
      BY <2>1, <3>1, <1>6
    <3>3. CASE j = N
      <4>1. off[N - 1] \in Nat /\ list[N].len \in Nat
        BY <1>1, <1>6, SegmentIs
      <4>2. g[j] = off[N] + n /\ new[j].len = list[N].len + n
        BY <3>1, <3>3, <2>1, <1>4, <1>5 DEF l
      <4> QED
        BY <3>2, <3>3, <4>1, <4>2
    <3>4. CASE j # N
      BY <1>1, <3>1, <3>4, <2>1, <1>5, <3>2
    <3> QED
      BY <3>3, <3>4
  <2>4. \A k \in 1 .. Len(new) : g[k] = g[k - 1] + new[k].len
    BY <2>3
  <2>5. new \in Seq(Segments)
    BY <1>5
  <2>6. \A k \in 0 .. Len(new) : Offsets(new)[k] = g[k]
    BY <2>2, <2>4, <2>5, OffsetsOnly
  <2> QED
    BY <1>5, <2>6
<1>8. Offsets(new)[N] = off[N] + n /\ \A j \in 0 .. N - 1 : Offsets(new)[j] = off[j]
  BY <1>1, <1>7
<1> QED
  BY <1>4, <1>5, <1>8 DEF LongerBy, l

LEMMA AppendedIs ==
  ASSUME NEW list \in Seq(Segments), NEW seg \in Segments,
         NEW new, new = Append(list, seg)
  PROVE  FollowedBy(new, list, seg)
<1> DEFINE N == Len(list)
<1>1. N \in Nat
  OBVIOUS
<1>2. /\ new \in Seq(Segments) /\ Len(new) = N + 1
      /\ new[N + 1] = seg
      /\ \A j \in 1 .. N : new[j] = list[j]
  OBVIOUS
<1> DEFINE off == Offsets(list)
           g == [j \in 0 .. N + 1 |-> IF j = N + 1 THEN off[N] + seg.len ELSE off[j]]
<1>6. /\ off \in [0 .. N -> Nat] /\ off[0] = 0
      /\ \A k \in 1 .. N : off[k] = off[k - 1] + list[k].len
  BY OffsetsAre
<1>7. \A j \in 0 .. N + 1 : Offsets(new)[j] = g[j]
  <2>1. \A j \in 0 .. N + 1 : g[j] = IF j = N + 1 THEN off[N] + seg.len ELSE off[j]
    OBVIOUS
  <2> HIDE DEF g, off
  <2>2. g[0] = 0
    BY <1>1, <1>6, <2>1
  <2>3. ASSUME NEW j \in 1 .. Len(new) PROVE g[j] = g[j - 1] + new[j].len
    <3>1. j \in 1 .. N + 1 /\ j - 1 \in 0 .. N /\ j - 1 # N + 1
      BY <1>1, <1>2
    <3>2. g[j - 1] = off[j - 1]
      BY <1>1, <2>1, <3>1
    <3>3. CASE j = N + 1
      BY <1>1, <1>2, <2>1, <3>1, <3>2, <3>3
    <3>4. CASE j # N + 1
      <4>1. g[j] = off[j] /\ new[j] = list[j] /\ j \in 1 .. N
        BY <1>1, <3>1, <3>4, <2>1, <1>2
      <4> QED
        BY <3>2, <4>1, <1>6
    <3> QED
      BY <3>3, <3>4
  <2>4. \A k \in 1 .. Len(new) : g[k] = g[k - 1] + new[k].len
    BY <2>3
  <2>5. new \in Seq(Segments)
    BY <1>2
  <2>6. \A k \in 0 .. Len(new) : Offsets(new)[k] = g[k]
    BY <2>2, <2>4, <2>5, OffsetsOnly
  <2> QED
    BY <1>2, <2>6
<1>8. Offsets(new)[N + 1] = off[N] + seg.len /\ \A j \in 0 .. N : Offsets(new)[j] = off[j]
  BY <1>1, <1>7
<1> QED
  BY <1>2, <1>8 DEF FollowedBy

LEMMA FreedIs ==
  ASSUME NEW list \in Seq(Segments), NEW n \in 0 .. Offsets(list)[Len(list)],
         NEW new, new = Freed(list, n)
  PROVE  \E gone, part : Without(new, list, n, gone, part)
<1> DEFINE N == Len(list)
           off == Offsets(list)
           S == {k \in 0 .. N : off[k] <= n}
           gone == Max(S)
           part == n - off[gone]
<1>1. N \in Nat
  OBVIOUS
<1>2. /\ off \in [0 .. N -> Nat] /\ off[0] = 0
      /\ \A k \in 1 .. N : off[k] = off[k - 1] + list[k].len
  BY OffsetsAre
<1>3. gone \in S /\ \A s \in S : s <= gone
  <2>1. S # {} /\ S \subseteq Int /\ \A s \in S : s <= N
    BY <1>1, <1>2
  <2>2. N \in Int
    BY <1>1
  <2> HIDE DEF S
  <2> QED
    BY <2>1, <2>2, MaxIs
<1>4. new = [i \in 1 .. N - gone |->
              IF i = 1 THEN [list[gone + 1] EXCEPT !.len = @ - part] ELSE list[gone + i]]
  BY DEF Freed
<1>5. gone \in 0 .. N /\ off[gone] <= n
  BY <1>3
<1>6. part \in Nat /\ off[gone] + part = n /\ n \in Nat
  BY <1>2, <1>5
<1>7. IF gone = N THEN part = 0 ELSE part < list[gone + 1].len
  <2>1. CASE gone = N
    BY <2>1, <1>2, <1>5
  <2>2. CASE gone # N
    <3>1. gone + 1 \in 1 .. N /\ gone + 1 \in 0 .. N
      BY <2>2, <1>5
    <3>2. gone + 1 \notin S
      BY <1>3, <1>5
    <3>3. off[gone + 1] > n
      BY <3>1, <3>2, <1>2
    <3>4. off[gone + 1] = off[gone] + list[gone + 1].len
      BY <3>1, <1>2, <1>5
    <3>5. off[gone] \in Nat /\ list[gone + 1].len \in Nat
      BY <3>1, <1>2, <1>5, SegmentIs
    <3> QED
      BY <2>2, <3>3, <3>4, <3>5
  <2> QED
    BY <2>1, <2>2
<1> HIDE DEF S, gone, part
<1>8. ASSUME NEW j \in 1 .. N - gone
      PROVE  /\ new[j] \in Segments
             /\ new[j].seq = list[gone + j].seq
             /\ new[j].len = IF j = 1 THEN list[gone + j].len - part ELSE list[gone + j].len
             /\ new[j].xmit = list[gone + j].xmit /\ new[j].ctl = list[gone + j].ctl
  <2>1. gone + j \in 1 .. N
    BY <1>1, <1>5
  <2>2. CASE j = 1
    <3> DEFINE seg == list[gone + 1]
               l == seg.len - part
    <3>1. seg \in Segments /\ l \in Nat \ {0}
      BY <2>2, <1>5, <2>1, <1>6, <1>7, SegmentIs
    <3>2. new[1] = [seg EXCEPT !.len = l]
      BY <1>4, <2>2
    <3> HIDE DEF seg, l
    <3>3. /\ new[1] \in Segments
          /\ new[1].seq = seg.seq /\ new[1].len = l
          /\ new[1].xmit = seg.xmit /\ new[1].ctl = seg.ctl
      BY <3>1, <3>2 DEF Segments
    <3> QED
      BY <2>2, <3>3 DEF seg, l
  <2>3. CASE j # 1
    BY <1>4, <2>3, <2>1, SegmentIs
  <2> QED
    BY <2>2, <2>3
<1>9. new \in Seq(Segments) /\ Len(new) = N - gone
  <2>1. N - gone \in Nat
    BY <1>1, <1>5
  <2>2. new = [j \in 1 .. N - gone |-> new[j]]
    BY <1>4
  <2>3. \A j \in 1 .. N - gone : new[j] \in Segments
    BY <1>8
  <2>4. new \in [1 .. N - gone -> Segments]
    BY <2>2, <2>3
  <2> QED
    BY <2>1, <2>4
<1>10. ASSUME NEW j \in 1 .. N - gone PROVE Offsets(new)[j] = off[gone + j] - n
  <2> DEFINE g == [k \in 0 .. N - gone |-> IF k = 0 THEN 0 ELSE off[gone + k] - n]
  <2>1. \A k \in 0 .. N - gone : g[k] = IF k = 0 THEN 0 ELSE off[gone + k] - n
    OBVIOUS
  <2> HIDE DEF g, off
  <2>2. g[0] = 0
    BY <2>1, <1>1, <1>5
  <2>3. ASSUME NEW k \in 1 .. Len(new) PROVE g[k] = g[k - 1] + new[k].len
    <3>1. k \in 1 .. N - gone /\ gone + k \in 1 .. N /\ k - 1 \in 0 .. N - gone
          /\ gone + (k - 1) = (gone + k) - 1
      BY <1>1, <1>5, <1>9
    <3>2. g[k] = off[gone + k] - n /\ off[gone + k] = off[gone + (k - 1)] + list[gone + k].len
      BY <3>1, <2>1, <1>2
    <3>3. /\ off[gone + (k - 1)] \in Nat /\ off[gone] \in Nat
          /\ list[gone + k].len \in Nat /\ n \in Nat
      <4>1. gone + (k - 1) \in 0 .. N /\ gone \in 0 .. N
        BY <3>1, <1>1, <1>5
      <4> QED
        BY <4>1, <3>1, <1>2, <1>6, SegmentIs
    <3>4. CASE k = 1
      <4>1. g[k - 1] = 0 /\ new[k].len = list[gone + k].len - part /\ gone + (k - 1) = gone
        BY <3>1, <3>4, <2>1, <1>5, <1>8
      <4> QED
        BY <4>1, <3>2, <3>3, <1>6
    <3>5. CASE k # 1
      BY <3>1, <3>5, <2>1, <1>8, <3>2, <3>3
    <3> QED
      BY <3>4, <3>5
  <2>4. \A k \in 1 .. Len(new) : g[k] = g[k - 1] + new[k].len
    BY <2>3
  <2>5. \A k \in 0 .. Len(new) : Offsets(new)[k] = g[k]
    BY <1>9, <2>2, <2>4, OffsetsOnly
  <2> QED
    BY <2>5, <2>1, <1>1, <1>5, <1>9 DEF off
<1>11. Without(new, list, n, gone, part)
  BY <1>5, <1>6, <1>7, <1>8, <1>9, <1>10 DEF Without
<1> QED
  BY <1>11

(***************************************************************************)
(* The invariant.  A control block is a record: DOMAIN x = Fields lets the *)
(* provers follow an update of some of its fields.                         *)
(***************************************************************************)
Fields ==
  {"state", "shutdown", "sbuf", "slist", "snd_una", "snd_nxt", "snd_wnd",
   "rbuf", "rlen", "rlist", "rcv_nxt", "rcv_wnd", "readEnable", "writeEnable",
   "t_ack", "rto_base", "mss", "msslevel", "mtu_advise", "dup_acks", "recover",
   "probes", "canRead", "canWrite", "out", "room", "trouble", "mtu", "cwnd",
   "sflags", "newData", "ignored", "forced"}

States == {"TCP_LISTEN", "TCP_SYN_SENT", "TCP_SYN_RECEIVED", "TCP_ESTABLISHED",
           "TCP_CLOSED", "DELETED"}
Ended  == {"TCP_CLOSED", "DELETED"}

Typed(x) ==
  /\ DOMAIN x = Fields
  /\ x.state \in States /\ x.shutdown \in BOOLEAN
  /\ x.sbuf \in Seq(Int) /\ x.slist \in Seq(Segments)
  /\ x.snd_una \in Nat /\ x.snd_nxt \in Nat /\ x.snd_wnd \in Nat /\ x.recover \in Nat
  /\ x.rcv_nxt \in Nat /\ x.rcv_wnd \in Int
  /\ x.mss \in Nat \ {0} /\ x.mtu_advise \in Nat \ {0}
  /\ x.msslevel \in 1 .. Len(Maxima)
  /\ x.dup_acks \in 0 .. 255
  /\ x.room \in Nat /\ x.mtu \in Nat /\ x.cwnd \in Nat

(* No segment reaches beyond top.  The first s segments were sent.         *)
Below(list, top) ==
  \A i \in 1 .. Len(list) :
    /\ list[i].seq + list[i].len <= top
    /\ IF list[i].ctl THEN list[i].seq = 0 /\ list[i].len = 1 ELSE list[i].seq >= 1

SentTo(list, s) ==
  s \in 0 .. Len(list) /\ \A i \in 1 .. Len(list) : list[i].xmit > 0 <=> i <= s

(* The send buffer holds the bytes from snd_una up to top, each with its   *)
(* number as its value.                                                    *)
Buffered(x, top) ==
  /\ x.snd_una + slen(x) = top /\ slen(x) <= BufSize
  /\ \A k \in 1 .. slen(x) : x.sbuf[k] = x.snd_una + k - 1
  /\ Below(x.slist, top)

(* The segments are as long as the buffer, and snd_nxt is behind those that*)
(* were sent.                                                              *)
SentUpTo(x, s) == SentTo(x.slist, s) /\ x.snd_nxt = x.snd_una + Offsets(x.slist)[s]

Listed(x) ==
  /\ Offsets(x.slist)[Len(x.slist)] = slen(x)
  /\ \E s \in Nat : SentUpTo(x, s)
  /\ x.recover <= x.snd_nxt

(* A packet of an end that has written w bytes; una is the first number    *)
(* that its peer may still need.                                           *)
PacketOK(p, w) ==
  /\ p.seq \in Int /\ p.ack \in Nat /\ p.wnd \in Nat /\ p.ctl \in BOOLEAN
  /\ p.data \in Seq(Int)
  /\ p.seq + Len(p.data) <= w + 1
  /\ IF p.ctl THEN p.seq = 0 /\ Len(p.data) = 1 ELSE p.data # <<>> => p.seq >= 1

Contents(p, una) ==
  \A k \in 1 .. Len(p.data) : p.seq + k - 1 >= una => p.data[k] = p.seq + k - 1

(* What holds of the sending half throughout a handler.                    *)
Top(x, w) == IF x.state = "TCP_LISTEN" THEN 0 ELSE w + 1

Outgoing(x, w) ==
  \A p \in x.out : /\ PacketOK(p, w) /\ Contents(p, x.snd_una) /\ p.ack <= x.rcv_nxt
                   /\ x.state = "TCP_LISTEN" => ~p.ctl

Good(x, w) ==
  /\ Typed(x) /\ Outgoing(x, w)
  /\ x.state \notin Ended => Buffered(x, Top(x, w)) /\ Listed(x)

(* The receiving half: its peer wrote w bytes, its user has read rd.  The  *)
(* k-th byte of the buffer is number Len(rd) + k of the stream.            *)
Saved(x, w, n, r) ==
  /\ r.seq \in Nat /\ r.len \in Nat
  /\ x.rcv_nxt <= r.seq /\ r.seq + r.len <= w + 1
  /\ r.seq + r.len <= n + BufSize + 1
  /\ \A k \in 1 .. BufSize : r.seq <= n + k /\ n + k < r.seq + r.len => x.rbuf[k] = n + k

Received(x, w, n) ==
  /\ x.rbuf \in [1 .. BufSize -> Int]
  /\ IF x.rcv_nxt = 0 THEN n = 0 /\ x.rlen = 0 /\ x.rlist = {}
     ELSE x.rcv_nxt = n + x.rlen + 1
  /\ \A k \in 1 .. x.rlen : x.rbuf[k] = n + k
  /\ \A r \in x.rlist : Saved(x, w, n, r)

Receiver(x, w, rd) ==
  /\ x.rcv_nxt <= w + 1 /\ x.rlen \in 0 .. BufSize
  /\ x.shutdown => ~x.canRead
  /\ ~x.shutdown => Received(x, w, Len(rd))

Deleted(e) == tcb[e].state = "DELETED"

(* What relates the two ends: what one has received, the other has sent.   *)
EndOK(e) ==
  LET f == Peer(e)
      x == tcb[e]
      y == tcb[f]
  IN /\ Good(x, written[e]) /\ x.out = {}
     /\ written[e] \in Nat /\ read[e] \in Seq(Int)
     /\ x.state = "TCP_LISTEN" => written[e] = 0
     /\ x.shutdown => x.state \in {"TCP_ESTABLISHED", "DELETED"}
     /\ Deleted(e) => x.shutdown
     /\ ~Deleted(e) => Receiver(x, written[f], read[e])
     /\ ~Deleted(e) /\ ~Deleted(f) => x.snd_una <= y.rcv_nxt
     /\ x.state \in {"TCP_SYN_RECEIVED", "TCP_ESTABLISHED"} => x.rcv_nxt >= 1
     /\ (x.state = "TCP_ESTABLISHED" \/ written[e] > 0) /\ ~Deleted(f) => y.rcv_nxt >= 1

PacketsOK(e) ==
  LET f == Peer(e)
  IN \A p \in net[f] :
       /\ PacketOK(p, written[e]) /\ p.ack <= written[f] + 1
       /\ ~Deleted(e) => p.ack <= tcb[e].rcv_nxt
       /\ ~Deleted(f) => Contents(p, tcb[f].rcv_nxt)

(* Only the initiator connects: the other answers what it received.        *)
Answered ==
  LET y == tcb["responder"]
  IN /\ y.state # "TCP_SYN_SENT"
     /\ y.state # "DELETED" => \A p \in net["initiator"] : p.ctl => y.rcv_nxt >= 1

Functions ==
  DOMAIN tcb = Ends /\ DOMAIN net = Ends /\ DOMAIN written = Ends /\ DOMAIN read = Ends

IInv ==
  /\ Functions
  /\ \A e \in Ends : EndOK(e) /\ PacketsOK(e)
  /\ Answered
  /\ StreamIsIntact

-----------------------------------------------------------------------------
(* y is x but for the fields in S.                                         *)
Same(x, y, S) == DOMAIN y = Fields /\ \A f \in Fields \ S : y[f] = x[f]

MssFields  == {"mss", "msslevel", "cwnd", "rto_base"}
SentFields == MssFields \cup {"out", "room", "t_ack", "slist", "snd_nxt"}

(* transmit() wrote n bytes of segment i.                                  *)
Transmitted(x, y, i, n) ==
  LET seg == x.slist[i]
  IN /\ Same(x, y, SentFields)
     /\ y.out = x.out \cup {Header(x, seg.seq, seg.ctl, Bytes(x, seg.seq, n))}
     /\ y.room = x.room - 1 /\ x.room > 0
     /\ y.slist = Replaced(x.slist, i, SegmentCut(seg, n, 1))
     /\ y.snd_nxt = IF seg.xmit = 0 THEN x.snd_nxt + n ELSE x.snd_nxt
     /\ y.mss \in Nat \ {0} /\ y.msslevel \in 1 .. Len(Maxima) /\ y.cwnd \in Nat

LEMMA MaximaAre ==
  /\ Len(Maxima) \in Nat \ {0}
  /\ \A l \in 1 .. Len(Maxima) : Maxima[l] \in Nat \ {0}
BY TcpConstants, EmptySeq, ElementOfSeq

LEMMA AtLevelIs ==
  ASSUME NEW x, Typed(x), NEW l \in 1 .. Len(Maxima), NEW y, y = AtLevel(x, l)
  PROVE  /\ Same(x, y, MssFields)
         /\ y.mss \in Nat \ {0} /\ y.msslevel \in 1 .. Len(Maxima) /\ y.cwnd \in Nat
         /\ l # x.msslevel => y.mss = Maxima[l]
         /\ y.rto_base = x.rto_base
<1>1. CASE l = x.msslevel
  BY <1>1 DEF AtLevel, Typed, Same
<1>2. CASE l # x.msslevel
  <2> DEFINE m == Maxima[l]
             c == 2 * Maxima[l]
  <2>1. m \in Nat \ {0} /\ c \in Nat
    BY MaximaAre
  <2>2. y = [x EXCEPT !.msslevel = l, !.mss = m, !.cwnd = c]
    BY <1>2 DEF AtLevel
  <2> HIDE DEF m, c
  <2>3. /\ Same(x, y, MssFields)
        /\ y.msslevel = l /\ y.mss = m /\ y.cwnd = c /\ y.rto_base = x.rto_base
    BY <2>2 DEF Typed, Same, Fields, MssFields
  <2> QED
    BY <2>1, <2>3 DEF m
<1> QED
  BY <1>1, <1>2

LEMMA SmallerIs ==
  ASSUME NEW x, NEW n, Smaller(x, n) # {}, Typed(x)
  PROVE  /\ Min(Smaller(x, n)) \in x.msslevel + 1 .. Len(Maxima)
         /\ Maxima[Min(Smaller(x, n))] < n
<1>1. Len(Maxima) \in Nat /\ x.msslevel \in Nat
  BY MaximaAre DEF Typed
<1>2. /\ Smaller(x, n) \subseteq Int /\ x.msslevel + 1 \in Int
      /\ \A s \in Smaller(x, n) : x.msslevel + 1 <= s
  BY <1>1 DEF Smaller
<1>3. Min(Smaller(x, n)) \in Smaller(x, n)
  BY <1>2, MinIs
<1> QED
  BY <1>3 DEF Smaller

(* The block of a path that takes less, and how much of the segment goes.  *)
Path(x, want) ==
  IF want <= x.mtu \/ x.room = 0 THEN x
  ELSE IF Smaller(x, want) = {} THEN AtLevel(x, Len(Maxima))
  ELSE AtLevel(x, Min(Smaller(x, want)))

Portion(x, want) == IF want <= x.mtu THEN want ELSE Path(x, want).mss

MssTyped(y) == y.mss \in Nat \ {0} /\ y.msslevel \in 1 .. Len(Maxima) /\ y.cwnd \in Nat

LEMMA WantIs ==
  ASSUME NEW a \in Nat \ {0}, NEW b \in Nat \ {0}
  PROVE  Min({a, b}) \in 1 .. a
<1> DEFINE m == Min({a, b})
<1>1. a \in Int /\ b \in Int
  OBVIOUS
<1>2. m \in {a, b} /\ m <= a
  BY <1>1, MinOfTwo
<1> HIDE DEF m
<1>3. m \in 1 .. a
  BY <1>2
<1> QED
  BY <1>3 DEF m

LEMMA PathIs ==
  ASSUME NEW x, Typed(x), NEW want \in Nat
  PROVE  /\ Same(x, Path(x, want), MssFields) /\ MssTyped(Path(x, want))
         /\ want <= x.mtu => Portion(x, want) = want
         /\ ~(want <= x.mtu) /\ x.room > 0 /\ Smaller(x, want) # {} =>
              Portion(x, want) \in 1 .. want
<1> DEFINE y == Path(x, want)
<1>1. /\ x.mss \in Nat \ {0} /\ x.room \in Nat /\ x.mtu \in Nat
      /\ x.msslevel \in 1 .. Len(Maxima) /\ Len(Maxima) \in Nat \ {0}
  BY MaximaAre DEF Typed
<1>2. CASE want <= x.mtu \/ x.room = 0
  BY <1>2, <1>1 DEF Path, Typed, Same, MssTyped, Portion
<1>3. CASE ~(want <= x.mtu \/ x.room = 0) /\ Smaller(x, want) = {}
  <2> DEFINE l == Len(Maxima)
  <2>1. y = AtLevel(x, l) /\ l \in 1 .. Len(Maxima)
    BY <1>1, <1>3 DEF Path
  <2> HIDE DEF l, y
  <2>2. Same(x, y, MssFields) /\ MssTyped(y)
    BY <2>1, AtLevelIs DEF MssTyped
  <2> QED
    BY <2>2, <1>3 DEF y
<1>4. CASE ~(want <= x.mtu \/ x.room = 0) /\ Smaller(x, want) # {}
  <2> DEFINE l == Min(Smaller(x, want))
  <2>1. y = AtLevel(x, l)
    BY <1>4 DEF Path
  <2>2. l \in x.msslevel + 1 .. Len(Maxima) /\ Maxima[l] < want
    BY <1>4, SmallerIs
  <2> HIDE DEF l, y
  <2>3. l \in 1 .. Len(Maxima) /\ l # x.msslevel
    BY <2>2, <1>1
  <2>4. Same(x, y, MssFields) /\ MssTyped(y) /\ y.mss = Maxima[l]
    BY <2>1, <2>3, AtLevelIs DEF MssTyped
  <2>5. y.mss \in 1 .. want
    BY <2>2, <2>4 DEF MssTyped
  <2> QED
    BY <2>4, <2>5, <1>4 DEF y, Portion
<1> QED
  BY <1>2, <1>3, <1>4

(* The block after a packet with n bytes of the segment was written.       *)
LEMMA WrittenIs ==
  ASSUME NEW x, Typed(x), x.room > 0, NEW y, Same(x, y, MssFields),
         y.mss \in Nat \ {0}, y.msslevel \in 1 .. Len(Maxima), y.cwnd \in Nat,
         NEW i \in 1 .. Len(x.slist), NEW n,
         NEW z, z = [Written(y, x.slist[i].seq, x.slist[i].ctl, Bytes(x, x.slist[i].seq, n)) EXCEPT
                      !.slist = Replaced(@, i, SegmentCut(x.slist[i], n, 1)),
                      !.snd_nxt = IF x.slist[i].xmit = 0 THEN @ + n ELSE @,
                      !.rto_base = TRUE]
  PROVE  Transmitted(x, z, i, n)
<1> DEFINE seg  == x.slist[i]
           list == Replaced(x.slist, i, SegmentCut(seg, n, 1))
           nxt  == IF seg.xmit = 0 THEN x.snd_nxt + n ELSE x.snd_nxt
           data == Bytes(x, seg.seq, n)
           wr   == Written(y, seg.seq, seg.ctl, data)
<1>1. /\ y.slist = x.slist /\ y.snd_nxt = x.snd_nxt /\ y.out = x.out /\ y.room = x.room
      /\ y.rcv_nxt = x.rcv_nxt /\ y.rcv_wnd = x.rcv_wnd /\ DOMAIN y = Fields
  BY DEF Same, Fields, MssFields
<1>2. /\ Same(y, wr, {"out", "room", "t_ack"})
      /\ wr.out = y.out \cup {Header(y, seg.seq, seg.ctl, data)} /\ wr.room = y.room - 1
  BY <1>1 DEF Written, Same, Fields
<1>3. z = [wr EXCEPT !.slist = list, !.snd_nxt = nxt, !.rto_base = TRUE]
  BY <1>1, <1>2 DEF Same, Fields
<1>4. Header(y, seg.seq, seg.ctl, data) = Header(x, seg.seq, seg.ctl, data)
  BY <1>1 DEF Header
<1> HIDE DEF list, nxt, data, wr
<1>5. /\ DOMAIN z = Fields
      /\ \A f \in Fields \ {"slist", "snd_nxt", "rto_base"} : z[f] = wr[f]
      /\ z.slist = list /\ z.snd_nxt = nxt
  BY <1>2, <1>3 DEF Same, Fields
<1>6. \A f \in Fields \ SentFields : z[f] = x[f]
  BY ZenonT(30), <1>2, <1>5 DEF Same, Fields, SentFields, MssFields
<1>7. /\ z.out = wr.out /\ z.room = wr.room /\ z.mss = y.mss /\ z.msslevel = y.msslevel
      /\ z.cwnd = y.cwnd
  BY ZenonT(30), <1>2, <1>5 DEF Same, Fields
<1> QED
  BY <1>1, <1>2, <1>4, <1>5, <1>6, <1>7 DEF Transmitted, Same, list, nxt, data

(* The block after n bytes of segment seg, the i-th, were written from y.  *)
Passed(x, y, seg, i, n) ==
  [Written(y, seg.seq, seg.ctl, Bytes(x, seg.seq, n)) EXCEPT
     !.slist = Replaced(@, i, SegmentCut(seg, n, 1)),
     !.snd_nxt = IF seg.xmit = 0 THEN @ + n ELSE @,
     !.rto_base = TRUE]

Outcome(x, i, seg, want, t) ==
  \/ t.result = "trFail" /\ t.x \in {x, Path(x, want)}
  \/ t.result = "trWait" /\ t.x = Blocked(x)
  \/ /\ t.result = "trOK" /\ x.room > 0 /\ (want <= x.mtu \/ Smaller(x, want) # {})
     /\ t.x = Passed(x, Path(x, want), seg, i, Portion(x, want))

LEMMA TransmitCases ==
  ASSUME NEW x, Typed(x), NEW i \in 1 .. Len(x.slist), NEW t, t = Transmit(x, i),
         NEW seg, seg = x.slist[i], NEW want, want = Min({seg.len, x.mss})
  PROVE  Outcome(x, i, seg, want, t)
<1> DEFINE tried == seg.xmit >= XmitLimit(x)
<1>1. x.room \in Nat
  BY DEF Typed
<1>2. x.room = 0 \/ x.room > 0
  BY <1>1
<1>3. CASE tried \/ (x.room = 0 /\ x.trouble = "WR_FAIL")
  BY <1>3 DEF Transmit, Outcome
<1>4. CASE ~tried /\ x.room = 0 /\ x.trouble # "WR_FAIL"
  BY <1>4 DEF Transmit, Outcome
<1>5. CASE ~tried /\ x.room > 0 /\ ~(want <= x.mtu) /\ Smaller(x, want) = {}
  <2>1. x.room # 0
    BY <1>5, <1>1
  <2>2. t = [result |-> "trFail", x |-> Path(x, want)]
    BY <2>1, <1>5 DEF Transmit, Path
  <2> QED
    BY <2>2 DEF Outcome
<1>6. CASE ~tried /\ x.room > 0 /\ (want <= x.mtu \/ Smaller(x, want) # {})
  <2>1. x.room # 0
    BY <1>6, <1>1
  <2>2. t = [result |-> "trOK", x |-> Passed(x, Path(x, want), seg, i, Portion(x, want))]
    BY <2>1, <1>6 DEF Transmit, Path, Portion, Passed
  <2>3. t.result = "trOK" /\ t.x = Passed(x, Path(x, want), seg, i, Portion(x, want))
    BY <2>2
  <2> QED
    BY <2>3, <1>6 DEF Outcome
<1> QED
  BY <1>2, <1>3, <1>4, <1>5, <1>6

LEMMA TransmitIs ==
  ASSUME NEW x, Typed(x), NEW i \in 1 .. Len(x.slist), NEW t, t = Transmit(x, i)
  PROVE  \/ t.result \in {"trFail", "trWait"} /\ Same(x, t.x, MssFields) /\ MssTyped(t.x)
         \/ t.result = "trOK" /\ \E n \in 1 .. x.slist[i].len : Transmitted(x, t.x, i, n)
<1> DEFINE seg  == x.slist[i]
           want == Min({seg.len, x.mss})
           y    == Path(x, want)
           n    == Portion(x, want)
           z    == Passed(x, y, seg, i, n)
<1>1. x.room \in Nat /\ seg.len \in Nat \ {0} /\ x.mss \in Nat \ {0} /\ x.mtu \in Nat
  BY SegmentIs DEF Typed
<1>2. Outcome(x, i, seg, want, t)
  BY TransmitCases
<1>3. want \in 1 .. seg.len
  BY <1>1, WantIs
<1> HIDE DEF want
<1>4. /\ Same(x, y, MssFields) /\ MssTyped(y)
      /\ want <= x.mtu \/ (x.room > 0 /\ Smaller(x, want) # {}) => n \in 1 .. seg.len
  BY <1>1, <1>3, PathIs
<1> HIDE DEF y, n, z
<1>5. CASE /\ t.result = "trOK" /\ t.x = z
           /\ x.room > 0 /\ (want <= x.mtu \/ Smaller(x, want) # {})
  <2>1. Transmitted(x, z, i, n)
    BY <1>4, <1>5, WrittenIs DEF z, Passed, MssTyped
  <2> QED
    BY <1>4, <1>5, <2>1
<1>6. CASE t.result = "trFail" /\ (t.x = x \/ t.x = y)
  BY <1>4, <1>6 DEF Typed, Same, MssTyped
<1>7. CASE t.result = "trWait" /\ t.x = Blocked(x)
  BY <1>7 DEF Blocked, Typed, Same, Fields, MssFields, MssTyped
<1> QED
  BY <1>2, <1>5, <1>6, <1>7 DEF Outcome, y, n, z

(* A segment cut, in a list whose first s segments were sent: part of a    *)
(* segment that was sent is sent again, or part of the first that was not. *)
CutWell(new, list, s, n, sent, i, top) ==
  /\ new \in Seq(Segments) /\ Below(new, top) /\ Len(new) >= Len(list)
  /\ Offsets(new)[Len(new)] = Offsets(list)[Len(list)]
  /\ \E s2 \in Nat :
       /\ SentTo(new, s2) /\ (sent = 0 => s2 = s)
       /\ Offsets(new)[s2] = Offsets(list)[s] + (IF sent = 1 /\ list[i].xmit = 0 THEN n ELSE 0)

LEMMA CutKeeps ==
  ASSUME NEW list \in Seq(Segments), NEW top \in Nat, Below(list, top),
         NEW s \in Nat, SentTo(list, s), NEW i \in 1 .. Len(list), NEW sent \in {0, 1},
         i <= s + 1, sent = 0 => i = s + 1,
         NEW n \in 1 .. list[i].len,
         NEW new, new = Replaced(list, i, SegmentCut(list[i], n, sent))
  PROVE  CutWell(new, list, s, n, sent, i, top)
<1> DEFINE N == Len(list)
<1>1. \E d : CutAfter(new, list, i, n, sent, d)
  BY CutList
<1>2. PICK d : CutAfter(new, list, i, n, sent, d)
  BY <1>1
<1>3. /\ N \in Nat /\ s \in 0 .. N /\ i \in 1 .. N
      /\ \A j \in 1 .. N : /\ list[j].seq \in Nat /\ list[j].len \in Nat \ {0}
                           /\ list[j].xmit \in Nat /\ list[j].ctl \in BOOLEAN
  BY SegmentIs DEF SentTo
<1>4. /\ d \in {0, 1} /\ new \in Seq(Segments) /\ Len(new) = N + d
      /\ \A j \in 1 .. i - 1 : new[j] = list[j]
      /\ new[i].seq = list[i].seq /\ new[i].len = n
      /\ new[i].xmit = list[i].xmit + sent /\ new[i].ctl = list[i].ctl
      /\ d = 1 => /\ n < list[i].len
                  /\ new[i + 1].seq = list[i].seq + n
                  /\ new[i + 1].len = list[i].len - n
                  /\ new[i + 1].xmit = list[i].xmit /\ new[i + 1].ctl = list[i].ctl
      /\ \A j \in i + 1 .. N : new[j + d] = list[j]
  <2>1. d = (IF n < list[i].len THEN 1 ELSE 0)
    BY <1>2 DEF CutAfter
  <2>2. d \in {0, 1} /\ (d = 1 => n < list[i].len)
    BY <2>1
  <2> QED
    BY <1>2, <2>2, Zenon DEF CutAfter
<1>5. /\ \A j \in 0 .. i - 1 : Offsets(new)[j] = Offsets(list)[j]
      /\ Offsets(new)[i] = Offsets(list)[i - 1] + n
      /\ \A j \in i .. N : Offsets(new)[j + d] = Offsets(list)[j]
  BY <1>2 DEF CutAfter
<1>6. ASSUME NEW j \in 1 .. Len(new)
      PROVE  \/ j \in 1 .. i - 1 /\ new[j] = list[j]
             \/ j = i
             \/ d = 1 /\ j = i + 1
             \/ \E k \in i + 1 .. N : j = k + d /\ new[j] = list[k]
  <2>1. CASE j \in 1 .. i - 1
    BY <2>1, <1>4
  <2>2. CASE j > i + d
    <3> DEFINE k == j - d
    <3>1. k \in i + 1 .. N /\ j = k + d
      BY <1>3, <1>4, <2>2
    <3> HIDE DEF k
    <3> QED
      BY <3>1, <1>4
  <2>3. j \in 1 .. i - 1 \/ j = i \/ (d = 1 /\ j = i + 1) \/ j > i + d
    BY <1>3, <1>4
  <2> QED
    BY <2>1, <2>2, <2>3
<1>7. Below(new, top)
  <2>1. \A j \in 1 .. N : /\ list[j].seq + list[j].len <= top
                          /\ IF list[j].ctl THEN list[j].seq = 0 /\ list[j].len = 1
                             ELSE list[j].seq >= 1
    BY DEF Below
  <2> SUFFICES ASSUME NEW j \in 1 .. Len(new)
               PROVE  /\ new[j].seq + new[j].len <= top
                      /\ IF new[j].ctl THEN new[j].seq = 0 /\ new[j].len = 1
                         ELSE new[j].seq >= 1
    BY DEF Below
  <2>2. CASE j \in 1 .. i - 1 /\ new[j] = list[j]
    BY <2>1, <2>2, <1>3
  <2>3. CASE j = i
    BY SMTT(30), <2>1, <2>3, <1>3, <1>4
  <2>4. CASE d = 1 /\ j = i + 1
    <3>1. n \in Nat /\ n >= 1 /\ n < list[i].len
      BY <2>4, <1>3, <1>4
    <3>2. ~list[i].ctl /\ list[i].seq >= 1 /\ list[i].seq + list[i].len <= top
      BY <3>1, <2>1, <1>3
    <3>3. /\ new[j].seq = list[i].seq + n /\ new[j].len = list[i].len - n
          /\ new[j].ctl = list[i].ctl
      BY <2>4, <1>4
    <3>4. list[i].seq \in Nat /\ list[i].len \in Nat /\ top \in Nat
      BY <1>3
    <3>5. new[j].seq + new[j].len <= top /\ new[j].seq >= 1
      <4> DEFINE a == list[i].seq
                 l == list[i].len
      <4>1. a \in Nat /\ l \in Nat /\ a >= 1 /\ a + l <= top
        BY <3>2, <3>4
      <4>2. new[j].seq = a + n /\ new[j].len = l - n
        BY <3>3
      <4> HIDE DEF a, l
      <4>3. (a + n) + (l - n) = a + l /\ a + n >= 1
        BY <4>1, <3>1
      <4> QED
        BY <4>1, <4>2, <4>3
    <3> QED
      BY <3>2, <3>3, <3>5
  <2>5. CASE \E k \in i + 1 .. N : j = k + d /\ new[j] = list[k]
    BY <2>5, <1>3, <2>1
  <2> QED
    BY <1>6, <2>2, <2>3, <2>4, <2>5
<1>8. Offsets(new)[Len(new)] = Offsets(list)[N] /\ Len(new) >= N
  <2>1. Offsets(new)[Len(new)] = Offsets(list)[N]
    BY SMTT(30), <1>3, <1>4, <1>5
  <2>2. Len(new) >= N
    BY <1>3, <1>4
  <2> QED
    BY <2>1, <2>2
<1>9. \A j \in 1 .. N : list[j].xmit > 0 <=> j <= s
  BY DEF SentTo
<1>10. CASE sent = 0
  <2>1. i = s + 1 /\ list[i].xmit = 0
    BY <1>10, <1>3, <1>9
  <2>2. Offsets(new)[s] = Offsets(list)[s]
    BY <1>3, <1>5, <2>1
  <2>3. ASSUME NEW j \in 1 .. Len(new)
        PROVE  new[j].xmit > 0 <=> j <= s
    <3>1. CASE j \in 1 .. i - 1 /\ new[j] = list[j]
      BY <3>1, <2>1, <1>3, <1>9
    <3>2. CASE j = i
      BY <3>2, <2>1, <1>10, <1>3, <1>4
    <3>3. CASE d = 1 /\ j = i + 1
      BY <3>3, <2>1, <1>3, <1>4
    <3>4. CASE \E k \in i + 1 .. N : j = k + d /\ new[j] = list[k]
      BY <3>4, <1>3, <1>4, <2>1, <1>9
    <3> QED
      BY <1>6, <3>1, <3>2, <3>3, <3>4
  <2>4. SentTo(new, s)
    BY <1>3, <1>4, <2>3 DEF SentTo
  <2>5. Offsets(list)[s] \in Nat
    BY <1>3, OffsetsAre
  <2> QED
    BY <1>4, <1>7, <1>8, <1>10, <2>2, <2>4, <2>5 DEF CutWell
<1>11. CASE sent = 1 /\ i <= s
  <2>1. list[i].xmit > 0
    BY <1>11, <1>3, <1>9
  <2>2. Offsets(new)[s + d] = Offsets(list)[s]
    BY <1>3, <1>5, <1>11
  <2>3. ASSUME NEW j \in 1 .. Len(new)
        PROVE  new[j].xmit > 0 <=> j <= s + d
    <3>1. CASE j \in 1 .. i - 1 /\ new[j] = list[j]
      BY <3>1, <1>3, <1>4, <1>11, <1>9
    <3>2. CASE j = i
      BY SMTT(30), <3>2, <2>1, <1>11, <1>3, <1>4
    <3>3. CASE d = 1 /\ j = i + 1
      BY <3>3, <2>1, <1>11, <1>3, <1>4
    <3>4. CASE \E k \in i + 1 .. N : j = k + d /\ new[j] = list[k]
      BY <3>4, <1>3, <1>4, <1>9
    <3> QED
      BY <1>6, <3>1, <3>2, <3>3, <3>4
  <2>4. SentTo(new, s + d) /\ s + d \in Nat
    BY <1>3, <1>4, <2>3 DEF SentTo
  <2>5. Offsets(list)[s] \in Nat /\ list[i].xmit # 0
    BY <1>3, <2>1, OffsetsAre
  <2> QED
    BY <1>4, <1>7, <1>8, <1>11, <2>2, <2>4, <2>5 DEF CutWell
<1>12. CASE sent = 1 /\ i = s + 1
  <2>1. list[i].xmit = 0
    BY <1>12, <1>3, <1>9
  <2>2. Offsets(new)[i] = Offsets(list)[s] + n
    BY <1>3, <1>5, <1>12
  <2>3. ASSUME NEW j \in 1 .. Len(new)
        PROVE  new[j].xmit > 0 <=> j <= i
    <3>1. CASE j \in 1 .. i - 1 /\ new[j] = list[j]
      BY <3>1, <1>3, <1>4, <1>12, <1>9
    <3>2. CASE j = i
      BY <3>2, <2>1, <1>12, <1>3, <1>4
    <3>3. CASE d = 1 /\ j = i + 1
      BY <3>3, <2>1, <1>12, <1>3, <1>4
    <3>4. CASE \E k \in i + 1 .. N : j = k + d /\ new[j] = list[k]
      BY <3>4, <1>3, <1>4, <1>12, <1>9
    <3> QED
      BY <1>6, <3>1, <3>2, <3>3, <3>4
  <2>4. SentTo(new, i) /\ i \in Nat
    BY <1>3, <1>4, <2>3 DEF SentTo
  <2> QED
    BY <1>4, <1>7, <1>8, <1>12, <2>1, <2>2, <2>4 DEF CutWell
<1> QED
  BY <1>10, <1>11, <1>12

LEMMA HeaderIs ==
  ASSUME NEW x, Typed(x), NEW seq \in Int, NEW ctl \in BOOLEAN, NEW data \in Seq(Int),
         NEW p, p = Header(x, seq, ctl, data)
  PROVE  /\ p.seq = seq /\ p.ack = x.rcv_nxt /\ p.ctl = ctl /\ p.data = data
         /\ p.ack \in Nat /\ p.wnd \in Nat
<1>1. x.rcv_wnd \in Int /\ x.rcv_nxt \in Nat
  BY DEF Typed
<1>2. \A a \in Int, m \in Nat \ {0} : a % m \in Nat
  OBVIOUS
<1>3. 2^16 \in Nat \ {0}
  OBVIOUS
<1>4. x.rcv_wnd % 2^16 \in Nat
  BY <1>1, <1>2, <1>3
<1> QED
  BY <1>1, <1>4 DEF Header

(* What is under way lies in the buffer.                                   *)
LEMMA FlightIs ==
  ASSUME NEW x, NEW w \in Nat, Good(x, w), x.state \notin Ended, NEW s \in Nat, SentUpTo(x, s)
  PROVE  /\ s \in 0 .. Len(x.slist) /\ Len(x.slist) \in Nat /\ slen(x) \in Nat
         /\ Offsets(x.slist)[s] \in Nat /\ Offsets(x.slist)[s] <= slen(x)
         /\ InFlight(x) = Offsets(x.slist)[s]
         /\ x.snd_nxt <= x.snd_una + slen(x) /\ x.snd_una + slen(x) <= w + 1
         /\ s < Len(x.slist) <=> InFlight(x) < slen(x)
         /\ s = 0 <=> InFlight(x) = 0
<1> DEFINE list == x.slist
           N == Len(list)
<1>1. list \in Seq(Segments) /\ x.snd_una \in Nat /\ x.snd_nxt \in Nat /\ slen(x) \in Nat
  BY SMTT(30) DEF Good, Typed, slen
<1>2. s \in 0 .. N /\ x.snd_nxt = x.snd_una + Offsets(list)[s]
  BY DEF SentUpTo, SentTo
<1>3. Offsets(list)[N] = slen(x) /\ x.snd_una + slen(x) <= w + 1
  BY DEF Good, Buffered, Listed, Top
<1>4. N \in Nat
  BY <1>1
<1>5. /\ Offsets(list)[0] = 0 /\ Offsets(list)[s] \in Nat
      /\ Offsets(list)[s] >= s /\ Offsets(list)[N] >= Offsets(list)[s] + (N - s)
  <2>1. 0 \in 0 .. N /\ s \in 0 .. N /\ N \in s .. N
    BY <1>2, <1>4
  <2>2. Offsets(list)[0] = 0
    BY <1>1, OffsetsAre
  <2>3. Offsets(list)[s] >= Offsets(list)[0] + (s - 0) /\ Offsets(list)[s] \in Nat
    BY <1>1, <2>1, OffsetsGrow
  <2>4. Offsets(list)[N] >= Offsets(list)[s] + (N - s)
    BY <1>1, <2>1, OffsetsGrow
  <2> QED
    BY <1>2, <2>2, <2>3, <2>4
<1> DEFINE o == Offsets(list)[s]
<1>6. o \in Nat /\ o >= s /\ slen(x) >= o + (N - s) /\ InFlight(x) = o
  BY <1>1, <1>2, <1>3, <1>5 DEF InFlight
<1>7. s = N => o = slen(x)
  BY <1>3
<1>8. s = 0 => o = 0
  BY <1>5
<1> HIDE DEF o, N
<1>9. o <= slen(x) /\ (s < N <=> o < slen(x)) /\ (s = 0 <=> o = 0)
  BY <1>1, <1>2, <1>4, <1>6, <1>7, <1>8
<1> QED
  BY <1>1, <1>2, <1>3, <1>4, <1>6, <1>9 DEF o, N

(* A packet with bytes of a segment carries each byte's number.            *)
LEMMA BytesAre ==
  ASSUME NEW x, NEW w \in Nat, Good(x, w), x.state \notin Ended,
         NEW i \in 1 .. Len(x.slist), NEW n \in 1 .. x.slist[i].len,
         NEW p, p = Header(x, x.slist[i].seq, x.slist[i].ctl, Bytes(x, x.slist[i].seq, n))
  PROVE  PacketOK(p, w) /\ Contents(p, x.snd_una) /\ p.ack = x.rcv_nxt
<1> DEFINE seq == x.slist[i].seq
           len == x.slist[i].len
           ctl == x.slist[i].ctl
           una == x.snd_una
           top == una + slen(x)
           data == Bytes(x, seq, n)
<1>1. /\ x.slist \in Seq(Segments) /\ una \in Nat /\ x.sbuf \in Seq(Int)
      /\ slen(x) \in Nat /\ x.rcv_nxt \in Nat
  BY SMTT(30) DEF Good, Typed, slen
<1>2. seq \in Nat /\ len \in Nat \ {0} /\ ctl \in BOOLEAN
  BY <1>1, SegmentIs
<1>3. /\ seq + len <= top /\ top <= w + 1
      /\ IF ctl THEN seq = 0 /\ len = 1 ELSE seq >= 1
  BY DEF Good, Buffered, Below, Top
<1>4. \A k \in 1 .. slen(x) : x.sbuf[k] = una + k - 1
  BY DEF Good, Buffered
<1>5. n \in Nat \ {0} /\ n <= len
  BY <1>2
<1>10. top = una + slen(x)
  OBVIOUS
<1> DEFINE m == slen(x)
<1> HIDE DEF seq, len, ctl, una, top, m
<1>11. m \in Nat /\ top = una + m
  BY <1>1, <1>10 DEF m
<1>6. /\ data \in Seq(Int) /\ Len(data) = n
      /\ \A k \in 1 .. n : seq + k - 1 >= una => data[k] = seq + k - 1
  <2> DEFINE b == [k \in 1 .. n |-> LET j == seq - una + k
                                    IN IF j \in DOMAIN x.sbuf THEN x.sbuf[j] ELSE Junk]
  <2>1. data = b
    BY DEF Bytes, una
  <2>2. \A k \in 1 .. n : b[k] \in Int
    BY <1>1, <1>2 DEF Junk
  <2>3. ASSUME NEW k \in 1 .. n, seq + k - 1 >= una
        PROVE  b[k] = seq + k - 1
    <3> DEFINE j == seq - una + k
    <3>1. j \in 1 .. m /\ una + j - 1 = seq + k - 1
      BY <1>1, <1>2, <1>3, <1>5, <1>11, <2>3
    <3>2. DOMAIN x.sbuf = 1 .. m
      BY <1>1 DEF slen, m
    <3>3. b[k] = x.sbuf[j]
      BY <3>1, <3>2
    <3> HIDE DEF j, b
    <3>4. x.sbuf[j] = una + j - 1
      BY <1>4, <3>1 DEF m
    <3> QED
      BY <3>1, <3>3, <3>4
  <2>4. b \in [1 .. n -> Int]
    BY <2>2
  <2> HIDE DEF b
  <2>5. b \in Seq(Int) /\ Len(b) = n
    BY <2>4, <1>5
  <2> QED
    BY <2>1, <2>3, <2>5
<1> HIDE DEF data
<1>7. /\ p.seq = seq /\ p.ack = x.rcv_nxt /\ p.ctl = ctl /\ p.data = data
      /\ p.ack \in Nat /\ p.wnd \in Nat
  <2>1. p = Header(x, seq, ctl, data) /\ seq \in Int /\ Typed(x)
    BY <1>2 DEF data, Good, seq, ctl
  <2> QED
    BY <2>1, <1>2, <1>6, HeaderIs
<1>8. PacketOK(p, w)
  <2>1. p.seq + Len(p.data) <= w + 1
    BY <1>1, <1>2, <1>3, <1>5, <1>6, <1>7, <1>11
  <2>2. IF p.ctl THEN p.seq = 0 /\ Len(p.data) = 1 ELSE p.data # <<>> => p.seq >= 1
    BY <1>2, <1>3, <1>5, <1>6, <1>7
  <2> QED
    BY <2>1, <2>2, <1>2, <1>6, <1>7 DEF PacketOK
<1>9. Contents(p, una)
  BY <1>6, <1>7 DEF Contents
<1> QED
  BY <1>7, <1>8, <1>9 DEF una

LEMMA SameLonger ==
  ASSUME NEW x, NEW y, NEW S, NEW T, S \subseteq T, Same(x, y, S)
  PROVE  Same(x, y, T)
BY DEF Same

(* One more packet.                                                        *)
LEMMA OutgoingMore ==
  ASSUME NEW x, NEW y, NEW w, Outgoing(x, w), NEW p, y.out \subseteq x.out \cup {p},
         PacketOK(p, w), Contents(p, x.snd_una), p.ack = x.rcv_nxt, x.rcv_nxt \in Nat,
         x.state = "TCP_LISTEN" => ~p.ctl,
         y.state = x.state, y.snd_una = x.snd_una, y.rcv_nxt = x.rcv_nxt
  PROVE  Outgoing(y, w)
BY DEF Outgoing

(* The sending half does not depend on the other fields.                   *)
LEMMA GoodSame ==
  ASSUME NEW x, NEW y, NEW w, Good(x, w), Typed(y), Outgoing(y, w),
         y.sbuf = x.sbuf, y.slist = x.slist, y.snd_una = x.snd_una, y.snd_nxt = x.snd_nxt,
         y.recover = x.recover \/ y.recover = x.snd_nxt, y.state = x.state
  PROVE  Good(y, w)
BY DEF Good, Typed, Buffered, Top, slen, SentUpTo, Listed

(* An end that listens has nothing to send.                                *)
LEMMA ListenIs ==
  ASSUME NEW x, NEW w \in Nat, Good(x, w), x.state = "TCP_LISTEN"
  PROVE  x.snd_una = 0 /\ x.snd_nxt = 0 /\ slen(x) = 0 /\ Len(x.slist) = 0 /\ x.slist = <<>>
<1> DEFINE list == x.slist
<1>1. x.state \notin Ended
  BY DEF Ended
<1>2. PICK s \in Nat : SentUpTo(x, s)
  BY <1>1 DEF Good, Listed
<1>3. list \in Seq(Segments) /\ Len(list) \in Nat /\ slen(x) \in Nat /\ x.snd_una \in Nat
  BY SMTT(30) DEF Good, Typed, slen
<1>4. x.snd_una + slen(x) = 0 /\ Offsets(list)[Len(list)] = slen(x)
  BY <1>1 DEF Good, Buffered, Listed, Top
<1>5. slen(x) = 0 /\ x.snd_una = 0
  BY <1>3, <1>4
<1>6. 0 \in 0 .. Len(list) /\ Len(list) \in 0 .. Len(list)
  BY <1>3
<1> HIDE DEF list
<1>7. Offsets(list)[Len(list)] >= Offsets(list)[0] + (Len(list) - 0) /\ Offsets(list)[0] = 0
  BY <1>3, <1>6, OffsetsGrow, OffsetsAre
<1>8. Len(list) = 0
  BY <1>3, <1>4, <1>5, <1>7
<1>9. list = <<>>
  BY <1>3, <1>8, EmptySeq
<1>10. x.snd_nxt = 0
  BY <1>2, <1>7, <1>8, <1>5 DEF SentUpTo, SentTo, list
<1> QED
  BY <1>5, <1>8, <1>9, <1>10 DEF list

LEMMA TransmittedGood ==
  ASSUME NEW x, NEW w \in Nat, Good(x, w), x.state \notin Ended,
         NEW s \in Nat, SentUpTo(x, s), NEW i \in 1 .. Len(x.slist), i <= s + 1,
         NEW n \in 1 .. x.slist[i].len, NEW y, Transmitted(x, y, i, n)
  PROVE  Good(y, w)
<1> DEFINE p == Header(x, x.slist[i].seq, x.slist[i].ctl, Bytes(x, x.slist[i].seq, n))
           top == Top(x, w)
           new == y.slist
           list == x.slist
           add == IF list[i].xmit = 0 THEN n ELSE 0
<1>1. Typed(x) /\ Outgoing(x, w) /\ Buffered(x, top) /\ Listed(x)
  BY DEF Good
<1>2. /\ Same(x, y, SentFields) /\ y.out = x.out \cup {p} /\ y.room = x.room - 1 /\ x.room > 0
      /\ new = Replaced(list, i, SegmentCut(list[i], n, 1))
      /\ y.snd_nxt = IF list[i].xmit = 0 THEN x.snd_nxt + n ELSE x.snd_nxt
      /\ MssTyped(y)
  BY DEF Transmitted, MssTyped
<1>3. /\ y.state = x.state /\ y.sbuf = x.sbuf /\ y.snd_una = x.snd_una
      /\ y.recover = x.recover /\ y.rcv_nxt = x.rcv_nxt
  BY <1>2 DEF Same, Fields, SentFields, MssFields
<1>4. /\ list \in Seq(Segments) /\ top \in Nat /\ x.snd_una \in Nat /\ x.snd_nxt \in Nat
      /\ x.recover \in Nat /\ x.room \in Nat /\ x.rcv_nxt \in Nat
  BY <1>1 DEF Typed, Top
<1>5. n \in Nat /\ add \in Nat /\ y.snd_nxt = x.snd_nxt + add
  BY <1>4, <1>2, SegmentIs
<1> HIDE DEF p, top, new, list, add
<1>6. CutWell(new, list, s, n, 1, i, top)
  <2>1. Below(list, top) /\ SentTo(list, s) /\ i \in 1 .. Len(list) /\ n \in 1 .. list[i].len
    BY <1>1 DEF Buffered, SentUpTo, list
  <2> QED
    BY <2>1, <1>2, <1>4, CutKeeps
<1>7. new \in Seq(Segments) /\ Below(new, top) /\ Offsets(new)[Len(new)] = Offsets(list)[Len(list)]
  BY <1>6 DEF CutWell
<1>8. PICK s2 \in Nat : SentTo(new, s2) /\ Offsets(new)[s2] = Offsets(list)[s] + add
  BY <1>6 DEF CutWell, add
<1>9. Typed(y)
  <2>1. y.room \in Nat
    BY <1>2, <1>4
  <2>2. y.snd_nxt \in Nat
    BY SMTT(30), <1>4, <1>5
  <2>3. y.slist \in Seq(Segments)
    BY <1>7 DEF new
  <2> QED
    BY <2>1, <2>2, <2>3, <1>1, <1>2 DEF Typed, Same, Fields, SentFields, MssFields, MssTyped
<1>10. Outgoing(y, w)
  <2>1. PacketOK(p, w) /\ Contents(p, x.snd_una) /\ p.ack = x.rcv_nxt
    BY BytesAre DEF p
  <2>2. x.state # "TCP_LISTEN"
    BY ListenIs DEF list
  <2> QED
    BY <1>1, <1>2, <1>3, <1>4, <2>1, <2>2, OutgoingMore
<1>11. Buffered(y, Top(y, w))
  BY <1>1, <1>3, <1>7 DEF Buffered, Top, slen, top, new
<1>12. Listed(y)
  <2>1. y.snd_nxt = y.snd_una + Offsets(new)[s2]
    <3>1. x.snd_nxt = x.snd_una + Offsets(list)[s] /\ Offsets(list)[s] \in Nat
      BY FlightIs DEF SentUpTo, list
    <3> QED
      BY <3>1, <1>3, <1>4, <1>5, <1>8
  <2>2. SentUpTo(y, s2)
    BY <2>1, <1>8 DEF SentUpTo, new
  <2>3. y.recover <= y.snd_nxt
    BY <1>1, <1>3, <1>4, <1>5 DEF Listed
  <2>4. Offsets(new)[Len(new)] = slen(y)
    BY <1>1, <1>3, <1>7 DEF Listed, slen, list
  <2> QED
    BY <2>2, <2>3, <2>4 DEF Listed, new
<1> QED
  BY <1>9, <1>10, <1>11, <1>12 DEF Good

LEMMA TransmitGood ==
  ASSUME NEW x, NEW w \in Nat, Good(x, w), x.state \notin Ended,
         NEW s \in Nat, SentUpTo(x, s), NEW i \in 1 .. Len(x.slist), i <= s + 1,
         NEW t, t = Transmit(x, i)
  PROVE  Good(t.x, w) /\ Same(x, t.x, SentFields)
<1>1. Typed(x) /\ Outgoing(x, w)
  BY DEF Good
<1>2. \/ t.result \in {"trFail", "trWait"} /\ Same(x, t.x, MssFields) /\ MssTyped(t.x)
      \/ t.result = "trOK" /\ \E n \in 1 .. x.slist[i].len : Transmitted(x, t.x, i, n)
  BY <1>1, TransmitIs
<1>3. CASE \E n \in 1 .. x.slist[i].len : Transmitted(x, t.x, i, n)
  BY <1>3, TransmittedGood DEF Transmitted
<1>4. CASE Same(x, t.x, MssFields) /\ MssTyped(t.x)
  <2> DEFINE y == t.x
  <2> HIDE DEF y
  <2>0. Same(x, y, MssFields) /\ MssTyped(y)
    BY <1>4 DEF y
  <2>1. Typed(y) /\ Same(x, y, SentFields)
    BY <2>0, <1>1 DEF Typed, Same, Fields, SentFields, MssFields, MssTyped
  <2>2. /\ y.sbuf = x.sbuf /\ y.slist = x.slist /\ y.snd_una = x.snd_una /\ y.state = x.state
        /\ y.snd_nxt = x.snd_nxt /\ y.recover = x.recover /\ y.out = x.out /\ y.rcv_nxt = x.rcv_nxt
    BY <2>0 DEF Same, Fields, MssFields
  <2>3. Outgoing(y, w)
    BY <1>1, <2>2 DEF Outgoing
  <2>4. Good(y, w)
    BY <2>1, <2>2, <2>3, GoodSame
  <2> QED
    BY <2>1, <2>4 DEF y
<1> QED
  BY <1>2, <1>3, <1>4

SendFields == SentFields \cup {"sflags", "ignored"}

LEMMA AckGood ==
  ASSUME NEW x, NEW w \in Nat, Good(x, w), x.state \notin Ended,
         NEW seq, seq \in {x.snd_nxt, x.snd_nxt - 1}, NEW y, y = Ack(x, seq)
  PROVE  Good(y, w) /\ Same(x, y, {"out", "room", "t_ack"})
<1>1. Typed(x) /\ Outgoing(x, w) /\ x.snd_nxt \in Nat /\ x.room \in Nat /\ x.rcv_nxt \in Nat
  BY DEF Good, Typed
<1>2. CASE x.room = 0
  BY <1>2, <1>1 DEF Ack, Same, Typed
<1>3. CASE x.room # 0
  <2> DEFINE p == Header(x, seq, FALSE, <<>>)
  <2>1. y = Written(x, seq, FALSE, <<>>)
    BY <1>3 DEF Ack
  <2>2. /\ Same(x, y, {"out", "room", "t_ack"})
        /\ y.out = x.out \cup {p} /\ y.room = x.room - 1
    BY <2>1, <1>1 DEF Written, Same, Fields, Typed
  <2>3. y.room \in Nat
    BY <1>1, <1>3, <2>2
  <2>4. Typed(y)
    BY <1>1, <2>2, <2>3 DEF Typed, Same, Fields
  <2>5. /\ y.sbuf = x.sbuf /\ y.slist = x.slist /\ y.snd_una = x.snd_una /\ y.state = x.state
        /\ y.snd_nxt = x.snd_nxt /\ y.recover = x.recover /\ y.rcv_nxt = x.rcv_nxt
    BY <2>2 DEF Same, Fields
  <2>6. /\ p.seq = seq /\ p.ack = x.rcv_nxt /\ p.ctl = FALSE /\ p.data = <<>>
        /\ p.ack \in Nat /\ p.wnd \in Nat
    <3>1. seq \in Int /\ <<>> \in Seq(Int)
      BY <1>1
    <3> HIDE DEF p
    <3> QED
      BY <1>1, <3>1, HeaderIs DEF p
  <2>7. seq \in Int /\ seq <= w + 1
    <3>1. PICK s \in Nat : SentUpTo(x, s)
      BY DEF Good, Listed
    <3>2. x.snd_nxt <= x.snd_una + slen(x) /\ x.snd_una + slen(x) <= w + 1 /\ slen(x) \in Nat
      BY <3>1, FlightIs
    <3>3. x.snd_una \in Nat
      BY <1>1 DEF Typed
    <3> QED
      BY <1>1, <3>2, <3>3
  <2> HIDE DEF p
  <2>8. PacketOK(p, w) /\ Contents(p, x.snd_una)
    <3>1. Len(p.data) = 0 /\ p.data \in Seq(Int)
      BY <2>6
    <3>2. p.seq + Len(p.data) <= w + 1
      BY <2>6, <2>7, <3>1
    <3>3. ~p.ctl /\ p.ctl \in BOOLEAN /\ p.seq \in Int
      BY <2>6, <2>7
    <3>4. PacketOK(p, w)
      BY <2>6, <3>1, <3>2, <3>3 DEF PacketOK
    <3>5. \A k \in 1 .. Len(p.data) : FALSE
      BY <3>1
    <3> QED
      BY <3>4, <3>5 DEF Contents
  <2>9. Outgoing(y, w)
    BY <1>1, <2>2, <2>5, <2>6, <2>8, OutgoingMore
  <2> QED
    BY <2>2, <2>4, <2>5, <2>9, GoodSame
<1> QED
  BY <1>2, <1>3

LEMMA AcknowledgeGood ==
  ASSUME NEW x, NEW w \in Nat, Good(x, w), x.state \notin Ended, NEW y, y = Acknowledge(x)
  PROVE  Good(y, w) /\ Same(x, y, {"out", "room", "t_ack"})
<1>1. Typed(x) /\ Outgoing(x, w)
  BY DEF Good
<1>2. CASE y = x
  BY <1>1, <1>2 DEF Same, Typed
<1>3. CASE y = Ack(x, x.snd_nxt)
  BY <1>3, AckGood
<1>4. CASE y = [x EXCEPT !.t_ack = TRUE]
  <2>1. Same(x, y, {"out", "room", "t_ack"}) /\ y.out = x.out /\ y.room = x.room
    BY <1>1, <1>4 DEF Same, Fields, Typed
  <2>2. Typed(y)
    BY <1>1, <2>1 DEF Typed, Same, Fields
  <2>3. /\ y.sbuf = x.sbuf /\ y.slist = x.slist /\ y.snd_una = x.snd_una /\ y.state = x.state
        /\ y.snd_nxt = x.snd_nxt /\ y.recover = x.recover /\ y.rcv_nxt = x.rcv_nxt
    BY <2>1 DEF Same, Fields
  <2>4. Outgoing(y, w)
    BY <1>1, <2>1, <2>3 DEF Outgoing
  <2> QED
    BY <2>1, <2>2, <2>3, <2>4, GoodSame
<1> QED
  BY <1>2, <1>3, <1>4 DEF Acknowledge

(* Never more is available than the buffer holds and was not sent.         *)
LEMMA AvailableIs ==
  ASSUME NEW x, Typed(x), NEW free, free = slen(x) - InFlight(x), free \in Nat
  PROVE  Available(x) \in 0 .. free
<1> DEFINE flight == InFlight(x)
           win == Window(x)
           useable == Max({win - flight, 0})
           ready == Min({free, x.mss})
<1>1. /\ x.mss \in Nat \ {0} /\ x.snd_wnd \in Nat /\ x.cwnd \in Nat /\ flight \in Int
      /\ x.dup_acks \in 0 .. 255
  BY DEF Typed, InFlight
<1>2. win \in Int
  <2> DEFINE a == x.snd_wnd
             b == x.cwnd + LimitedTransmit(x)
  <2>1. LimitedTransmit(x) \in Int
    BY <1>1 DEF LimitedTransmit
  <2>2. a \in Int /\ b \in Int
    BY <1>1, <2>1
  <2>3. win = Min({a, b})
    BY DEF Window
  <2> HIDE DEF a, b, win
  <2>4. Min({a, b}) \in {a, b}
    BY <2>2, MinOfTwo
  <2> QED
    BY <2>2, <2>3, <2>4
<1>3. useable \in Nat
  <2> DEFINE a == win - flight
  <2>1. a \in Int
    BY <1>1, <1>2
  <2> HIDE DEF a
  <2>2. Max({a, 0}) \in {a, 0} /\ Max({a, 0}) >= 0
    BY <2>1, MaxOfTwo
  <2> QED
    BY <2>1, <2>2 DEF a
<1>4. ready \in 0 .. free
  <2> DEFINE a == x.mss
  <2>1. a \in Int /\ free \in Int /\ a >= 1
    BY <1>1
  <2> HIDE DEF a
  <2>2. Min({free, a}) \in {free, a} /\ Min({free, a}) <= free
    BY <2>1, MinOfTwo
  <2> QED
    BY <2>1, <2>2 DEF a
<1>5. Available(x) = IF ready <= useable THEN ready
                     ELSE IF useable * 4 < x.snd_wnd THEN 0 ELSE useable
  BY DEF Available
<1> HIDE DEF ready, useable
<1> QED
  BY <1>3, <1>4, <1>5

(* The first segment that was not sent.                                    *)
LEMMA UnsentIs ==
  ASSUME NEW list, NEW s \in Nat, SentTo(list, s), s < Len(list), Len(list) \in Nat,
         NEW i, i = CHOOSE j \in DOMAIN list :
                      list[j].xmit = 0 /\ \A k \in 1 .. j - 1 : list[k].xmit > 0,
         list \in Seq(Segments)
  PROVE  i = s + 1
<1>1. /\ DOMAIN list = 1 .. Len(list)
      /\ \A j \in 1 .. Len(list) : list[j].xmit \in Nat
  BY SegmentIs
<1>2. \A j \in 1 .. Len(list) : list[j].xmit > 0 <=> j <= s
  BY DEF SentTo
<1>3. s + 1 \in 1 .. Len(list)
  OBVIOUS
<1>4. list[s + 1].xmit = 0
  BY <1>2, <1>3, <1>1
<1>5. \A k \in 1 .. s + 1 - 1 : list[k].xmit > 0
  BY <1>2
<1>6. /\ i \in 1 .. Len(list) /\ list[i].xmit = 0
      /\ \A k \in 1 .. i - 1 : list[k].xmit > 0
  BY SMTT(30), <1>1, <1>3, <1>4, <1>5
<1>7. ~(i <= s)
  BY <1>6, <1>2
<1>8. ~(s + 1 < i)
  <2> SUFFICES ASSUME s + 1 < i PROVE FALSE
    OBVIOUS
  <2>1. s + 1 \in 1 .. i - 1
    BY <1>6
  <2>2. list[s + 1].xmit > 0
    BY <1>6, <2>1
  <2> QED
    BY <2>2, <1>4
<1> QED
  BY <1>6, <1>7, <1>8

LEMMA GoodSmall ==
  ASSUME NEW x, NEW w, NEW y, Good(x, w), Same(x, y, {"sflags", "ignored", "probes", "newData", "forced"})
  PROVE  Good(y, w)
<1>1. Typed(x) /\ Outgoing(x, w)
  BY DEF Good
<1>2. Typed(y)
  BY <1>1 DEF Typed, Same, Fields
<1>3. /\ y.sbuf = x.sbuf /\ y.slist = x.slist /\ y.snd_una = x.snd_una /\ y.state = x.state
      /\ y.snd_nxt = x.snd_nxt /\ y.recover = x.recover /\ y.out = x.out /\ y.rcv_nxt = x.rcv_nxt
  BY DEF Same, Fields
<1>4. Outgoing(y, w)
  BY <1>1, <1>3 DEF Outgoing
<1> QED
  BY <1>2, <1>3, <1>4, GoodSame

(* The segment that goes next, cut to what the windows allow.              *)
Unsent(list) ==
  CHOOSE j \in DOMAIN list : list[j].xmit = 0 /\ \A k \in 1 .. j - 1 : list[k].xmit > 0

SplitWell(x, y, w, i, part) ==
  /\ Good(y, w) /\ Same(x, y, {"slist"})
  /\ i \in 1 .. Len(x.slist) /\ part \in 1 .. x.slist[i].len /\ x.slist[i].xmit = 0
  /\ part <= Available(x)
  /\ y.slist = Replaced(x.slist, i, SegmentCut(x.slist[i], part, 0))
  /\ i \in 1 .. Len(y.slist) /\ \E s \in Nat : SentUpTo(y, s) /\ i = s + 1

LEMMA SplitGood ==
  ASSUME NEW x, NEW w \in Nat, Good(x, w), x.state \notin Ended,
         NEW n, n = Available(x), n # 0,
         NEW i, i = Unsent(x.slist),
         NEW part, part = Min({n, x.slist[i].len}),
         NEW split, split = [x EXCEPT !.slist = Replaced(@, i, SegmentCut(@[i], part, 0))]
  PROVE  SplitWell(x, split, w, i, part)
<1> DEFINE list == x.slist
           new  == Replaced(list, i, SegmentCut(list[i], part, 0))
<1>1. Typed(x) /\ Outgoing(x, w) /\ Buffered(x, Top(x, w)) /\ Listed(x) /\ list \in Seq(Segments)
  BY DEF Good, Typed
<1>2. PICK s \in Nat : SentUpTo(x, s)
  BY <1>1 DEF Listed
<1>3. /\ s \in 0 .. Len(list) /\ Len(list) \in Nat /\ slen(x) \in Nat
      /\ InFlight(x) \in Nat /\ InFlight(x) <= slen(x)
      /\ s < Len(list) <=> InFlight(x) < slen(x)
  BY <1>2, FlightIs
<1>4. n \in 1 .. slen(x) - InFlight(x)
  <2> DEFINE free == slen(x) - InFlight(x)
  <2>1. free \in Nat
    BY <1>3
  <2> HIDE DEF free
  <2>2. n \in 0 .. free
    BY <2>1, <1>1, AvailableIs DEF free
  <2> QED
    BY <2>1, <2>2 DEF free
<1>5. s < Len(list)
  BY <1>3, <1>4
<1>6. i = s + 1
  BY <1>2, <1>3, <1>5, <1>1, UnsentIs DEF SentUpTo, Unsent
<1>7. /\ i \in 1 .. Len(list) /\ list[i].len \in Nat \ {0} /\ list[i].xmit = 0
  <2>1. i \in 1 .. Len(list) /\ ~(i <= s)
    BY <1>3, <1>5, <1>6
  <2>2. \A j \in 1 .. Len(list) : list[j].len \in Nat \ {0} /\ list[j].xmit \in Nat
    BY <1>1, SegmentIs
  <2>3. \A j \in 1 .. Len(list) : list[j].xmit > 0 <=> j <= s
    BY <1>2 DEF SentUpTo, SentTo
  <2> HIDE DEF list
  <2>4. list[i].len \in Nat \ {0} /\ list[i].xmit \in Nat /\ ~(list[i].xmit > 0)
    BY <2>1, <2>2, <2>3
  <2> QED
    BY <2>1, <2>4
<1>8. part \in 1 .. list[i].len /\ part <= n
  <2> DEFINE a == list[i].len
  <2>1. n \in Int /\ n >= 1 /\ a \in Int /\ a >= 1
    BY <1>3, <1>4, <1>7
  <2>2. part = Min({n, a})
    OBVIOUS
  <2> HIDE DEF a
  <2>3. Min({n, a}) \in {n, a} /\ Min({n, a}) <= a /\ Min({n, a}) <= n
    BY <2>1, MinOfTwo
  <2>4. part \in 1 .. a /\ part <= n
    BY <2>1, <2>2, <2>3
  <2> QED
    BY <2>4 DEF a
<1>9. split = [x EXCEPT !.slist = new]
  OBVIOUS
<1>10. CutWell(new, list, s, part, 0, i, Top(x, w))
  <2>0. i <= s + 1 /\ SentTo(list, s)
    BY <1>2, <1>6 DEF SentUpTo
  <2>1. Below(list, Top(x, w)) /\ Top(x, w) \in Nat
    BY <1>1 DEF Buffered, Top
  <2> HIDE DEF new
  <2>2. new = Replaced(list, i, SegmentCut(list[i], part, 0))
    BY DEF new
  <2> QED
    BY <2>0, <2>1, <2>2, <1>1, <1>6, <1>7, <1>8, CutKeeps
<1> HIDE DEF new
<1>11. /\ new \in Seq(Segments) /\ Below(new, Top(x, w))
       /\ Offsets(new)[Len(new)] = Offsets(list)[Len(list)] /\ Len(new) >= Len(list)
  BY <1>10 DEF CutWell
<1>12. SentTo(new, s) /\ Offsets(new)[s] = Offsets(list)[s] + 0
  BY <1>10 DEF CutWell
<1>13. Same(x, split, {"slist"}) /\ split.slist = new
  BY <1>9, <1>1 DEF Same, Fields, Typed
<1>14. Typed(split)
  BY <1>1, <1>11, <1>13 DEF Typed, Same, Fields
<1>15. /\ split.sbuf = x.sbuf /\ split.snd_una = x.snd_una /\ split.state = x.state
       /\ split.snd_nxt = x.snd_nxt /\ split.recover = x.recover /\ split.out = x.out
       /\ split.rcv_nxt = x.rcv_nxt
  BY <1>13 DEF Same, Fields
<1>16. SentUpTo(split, s)
  BY <1>2, <1>12, <1>13, <1>15, FlightIs DEF SentUpTo
<1>17. Good(split, w)
  <2>1. Outgoing(split, w)
    BY <1>1, <1>15 DEF Outgoing
  <2>2. Buffered(split, Top(split, w))
    BY <1>1, <1>11, <1>13, <1>15 DEF Buffered, Top, slen
  <2>3. Listed(split)
    BY <1>1, <1>11, <1>13, <1>15, <1>16 DEF Listed, slen
  <2> QED
    BY <1>14, <2>1, <2>2, <2>3 DEF Good
<1>18. i \in 1 .. Len(new)
  BY <1>11, <1>3, <1>7
<1> QED
  BY <1>6, <1>7, <1>8, <1>13, <1>16, <1>17, <1>18 DEF SplitWell, new

LEMMA SendOneGood ==
  ASSUME NEW x, NEW w \in Nat, Good(x, w), x.state \notin Ended, NEW y, y = SendOne(x)
  PROVE  Good(y, w) /\ Same(x, y, SendFields)
<1> DEFINE n == Available(x)
           list == x.slist
           i == CHOOSE j \in DOMAIN list :
                  list[j].xmit = 0 /\ \A k \in 1 .. j - 1 : list[k].xmit > 0
           part == Min({n, list[i].len})
           split == [x EXCEPT !.slist = Replaced(@, i, SegmentCut(@[i], Min({n, @[i].len}), 0))]
           t == Transmit(split, i)
           F(v) == [v.x EXCEPT !.sflags = IF v.result = "trOK" THEN "sfNone" ELSE "return",
                               !.ignored = @ \/ v.result = "trFail"]
<1>1. Typed(x) /\ Outgoing(x, w) /\ Buffered(x, Top(x, w)) /\ Listed(x) /\ list \in Seq(Segments)
  BY DEF Good, Typed
<1>2. CASE x.sflags = "return"
  BY <1>2, <1>1 DEF SendOne, Same, Typed
<1>3. CASE x.sflags # "return" /\ n = 0
  <2> DEFINE a == Acknowledge(x)
  <2>1. y = [a EXCEPT !.sflags = "return"]
    BY <1>3 DEF SendOne
  <2>2. Good(a, w) /\ Same(x, a, {"out", "room", "t_ack"})
    BY AcknowledgeGood
  <2> HIDE DEF a
  <2>3. Same(a, y, {"sflags", "ignored", "probes", "newData", "forced"}) /\ Same(x, y, SendFields)
    BY <2>1, <2>2 DEF Same, Fields, SendFields, SentFields, MssFields
  <2> QED
    BY <2>2, <2>3, GoodSmall
<1>4. CASE x.sflags # "return" /\ n # 0 /\ InFlight(x) > 0 /\ n < x.mss
  <2>1. y = [x EXCEPT !.sflags = "return"]
    BY <1>4 DEF SendOne
  <2>2. Same(x, y, {"sflags", "ignored", "probes", "newData", "forced"}) /\ Same(x, y, SendFields)
    BY <2>1, <1>1 DEF Same, Fields, SendFields, SentFields, MssFields, Typed
  <2> QED
    BY <2>2, GoodSmall
<1>5. CASE x.sflags # "return" /\ n # 0 /\ ~(InFlight(x) > 0 /\ n < x.mss)
  <2>1. y = F(t)
    <3>1. y = With(t, F)
      BY <1>5 DEF SendOne
    <3> HIDE DEF t
    <3> QED
      BY <3>1 DEF With
  <2>2. SplitWell(x, split, w, i, part)
    <3>1. Good(x, w) /\ x.state \notin Ended /\ n # 0
      BY <1>5
    <3>2. split = [x EXCEPT !.slist = Replaced(@, i, SegmentCut(@[i], part, 0))]
      OBVIOUS
    <3> HIDE DEF n, split
    <3> QED
      BY <3>1, <3>2, SplitGood DEF n, Unsent
  <2> HIDE DEF i, part, split
  <2>3. /\ Good(split, w) /\ Same(x, split, {"slist"}) /\ i \in 1 .. Len(split.slist)
        /\ \E s \in Nat : SentUpTo(split, s) /\ i = s + 1
    BY <2>2 DEF SplitWell
  <2>4. split.state \notin Ended
    BY <2>3 DEF Same, Fields
  <2>5. Good(t.x, w) /\ Same(split, t.x, SentFields)
    BY <2>3, <2>4, TransmitGood
  <2> HIDE DEF t
  <2> DEFINE r == t.x
             sf == IF t.result = "trOK" THEN "sfNone" ELSE "return"
             ig == r.ignored \/ t.result = "trFail"
  <2>6. y = [r EXCEPT !.sflags = sf, !.ignored = ig]
    BY <2>1
  <2> HIDE DEF r, sf, ig
  <2>7. Same(r, y, {"sflags", "ignored"}) /\ Same(r, y, {"sflags", "ignored", "probes", "newData", "forced"})
    BY <2>5, <2>6 DEF Same, Fields, r
  <2>8. Same(x, y, SendFields)
    BY <2>3, <2>5, <2>7 DEF Same, Fields, SendFields, SentFields, MssFields, r
  <2> QED
    BY <2>5, <2>7, <2>8, GoodSmall DEF r
<1> QED
  BY <1>2, <1>3, <1>4, <1>5

(* The recursive function of AttemptSend: the block after n turns.         *)
Turns(a) ==
  CHOOSE f : f = [n \in 0 .. BufSize + 1 |-> IF n = 0 THEN a ELSE With(f[n - 1], SendOne)]

LEMMA TurnsExist ==
  ASSUME NEW a
  PROVE  Turns(a) = [n \in 0 .. BufSize + 1 |->
                       IF n = 0 THEN a ELSE With(Turns(a)[n - 1], SendOne)]
<1> DEFINE Prefix(g, n) ==
             g = [k \in 0 .. n |-> IF k = 0 THEN a ELSE With(g[k - 1], SendOne)]
           G == {n \in Nat : \E g : Prefix(g, n)}
<1>1. 0 \in G
  <2> DEFINE g == [k \in 0 .. 0 |-> a]
  <2>1. Prefix(g, 0)
    OBVIOUS
  <2> QED
    BY <2>1
<1>2. ASSUME NEW n \in Nat, n \in G PROVE n + 1 \in G
  <2>1. PICK g : Prefix(g, n)
    BY <1>2
  <2> DEFINE h == [k \in 0 .. n + 1 |-> IF k = n + 1 THEN With(g[n], SendOne) ELSE g[k]]
             e(k) == IF k = 0 THEN a ELSE With(h[k - 1], SendOne)
  <2>2. \A k \in 0 .. n : g[k] = IF k = 0 THEN a ELSE With(g[k - 1], SendOne)
    BY <2>1
  <2>3. \A k \in 0 .. n : h[k] = g[k]
    OBVIOUS
  <2>4. h[n + 1] = With(g[n], SendOne)
    OBVIOUS
  <2>5. \A k \in 0 .. n + 1 : h[k] = e(k)
    BY <2>2, <2>3, <2>4
  <2>6. h = [k \in 0 .. n + 1 |-> h[k]]
    OBVIOUS
  <2> HIDE DEF h
  <2>7. h = [k \in 0 .. n + 1 |-> e(k)]
    BY <2>5, <2>6
  <2> QED
    BY <2>7
<1> HIDE DEF G
<1>3. Nat \subseteq G
  BY <1>1, <1>2, Induction
<1>4. BufSize + 1 \in Nat
  BY TcpConstants
<1>5. \E g : Prefix(g, BufSize + 1)
  BY <1>3, <1>4 DEF G
<1> QED
  BY <1>5 DEF Turns

LEMMA AttemptSendGood ==
  ASSUME NEW x, NEW w \in Nat, Good(x, w), x.state \notin Ended, NEW sflags,
         NEW y, y = AttemptSend(x, sflags)
  PROVE  Good(y, w) /\ Same(x, y, SendFields)
<1> DEFINE a == [x EXCEPT !.sflags = sflags]
           f == Turns(a)
           M == BufSize + 1
           G == {n \in Nat : n <= M => Good(f[n], w) /\ Same(x, f[n], SendFields)}
<1>1. y = f[M]
  BY DEF AttemptSend, Turns
<1>2. M \in Nat
  BY TcpConstants
<1>3. f = [n \in 0 .. M |-> IF n = 0 THEN a ELSE With(f[n - 1], SendOne)]
  BY TurnsExist
<1> HIDE DEF f, M
<1>4. 0 \in G
  <2>1. f[0] = a
    BY <1>2, <1>3
  <2>2. DOMAIN x = Fields
    BY DEF Good, Typed
  <2>3. Same(x, a, {"sflags", "ignored", "probes", "newData", "forced"}) /\ Same(x, a, SendFields)
    BY <2>2 DEF Same, Fields, SendFields, SentFields, MssFields
  <2> QED
    BY <2>1, <2>3, GoodSmall
<1> HIDE DEF a
<1>5. ASSUME NEW n \in Nat, n \in G PROVE n + 1 \in G
  <2> SUFFICES ASSUME n + 1 <= M
               PROVE  Good(f[n + 1], w) /\ Same(x, f[n + 1], SendFields)
    OBVIOUS
  <2> DEFINE v == f[n]
             u == f[n + 1]
  <2>1. Good(v, w) /\ Same(x, v, SendFields)
    BY <1>2, <1>5
  <2>2. u = With(f[n], SendOne)
    BY <1>2, <1>3
  <2> HIDE DEF u
  <2>3. u = SendOne(v)
    BY <2>2 DEF With
  <2>4. v.state \notin Ended
    BY <2>1 DEF Same, Fields, SendFields, SentFields, MssFields
  <2> HIDE DEF v
  <2>5. Good(u, w) /\ Same(v, u, SendFields)
    BY <2>1, <2>3, <2>4, SendOneGood
  <2>6. Same(x, u, SendFields)
    BY <2>1, <2>5 DEF Same
  <2> QED
    BY <2>5, <2>6 DEF u
<1> HIDE DEF G
<1>6. Nat \subseteq G
  BY <1>4, <1>5, Induction
<1> QED
  BY <1>1, <1>2, <1>6 DEF G

(* A block that is closed has no more to answer for than its packets.      *)
LEMMA ClosedownGood ==
  ASSUME NEW x, NEW w, Good(x, w), NEW y, y = Closedown(x)
  PROVE  Good(y, w) /\ Same(x, y, {"state", "sbuf"}) /\ y.state = "TCP_CLOSED"
<1>1. Typed(x) /\ Outgoing(x, w)
  BY DEF Good
<1>2. Same(x, y, {"state", "sbuf"}) /\ y.state = "TCP_CLOSED" /\ y.sbuf = <<>>
  BY <1>1 DEF Closedown, Same, Fields, Typed
<1>3. Typed(y)
  <2>1. y.sbuf \in Seq(Int)
    BY <1>2
  <2> QED
    BY <1>1, <1>2, <2>1 DEF Typed, Same, Fields, States
<1>4. y.out = x.out /\ y.snd_una = x.snd_una /\ y.rcv_nxt = x.rcv_nxt
  BY <1>2 DEF Same, Fields
<1>5. Outgoing(y, w)
  BY <1>1, <1>2, <1>4 DEF Outgoing
<1> QED
  BY <1>2, <1>3, <1>5 DEF Good, Ended

ResendFields == SentFields \cup {"state", "sbuf", "forced"}

LEMMA RetransmitGood ==
  ASSUME NEW x, NEW w \in Nat, Good(x, w), x.state \notin Ended, x.slist # <<>>,
         NEW y, y = Retransmit(x)
  PROVE  /\ Good(y, w) /\ Same(x, y, ResendFields) /\ y.state \in {x.state, "TCP_CLOSED"}
         /\ y.state # "TCP_CLOSED" => y.sbuf = x.sbuf
<1> DEFINE t == Transmit(x, 1)
           F(v) == IF v.result = "trFail" THEN Closedown(v.x)
                   ELSE [v.x EXCEPT !.forced = @ \/ Forced(x, v)]
           z == t.x
<1>1. y = F(t)
  <2>1. y = With(t, F)
    BY DEF Retransmit
  <2> HIDE DEF t
  <2> QED
    BY <2>1 DEF With
<1>2. PICK s \in Nat : SentUpTo(x, s)
  BY DEF Good, Listed
<1>3. 1 \in 1 .. Len(x.slist) /\ 1 <= s + 1
  BY EmptySeq DEF Good, Typed
<1> HIDE DEF t
<1>4. Good(t.x, w) /\ Same(x, t.x, SentFields)
  BY <1>2, <1>3, TransmitGood DEF t
<1>5. CASE t.result = "trFail"
  <2>1. y = Closedown(z)
    BY <1>1, <1>5
  <2> HIDE DEF z
  <2>2. Good(z, w) /\ Same(x, z, SentFields)
    BY <1>4 DEF z
  <2>4. Good(y, w) /\ Same(z, y, {"state", "sbuf"}) /\ y.state = "TCP_CLOSED"
    BY <2>1, <2>2, ClosedownGood
  <2>5. Same(x, y, ResendFields)
    BY <2>2, <2>4 DEF Same, ResendFields
  <2> QED
    BY <2>4, <2>5
<1>6. CASE t.result # "trFail"
  <2> DEFINE flag == z.forced \/ Forced(x, t)
  <2>1. y = [z EXCEPT !.forced = flag]
    BY <1>1, <1>6
  <2> HIDE DEF z, flag
  <2>2. Good(z, w) /\ Same(x, z, SentFields)
    BY <1>4 DEF z
  <2>3. Same(z, y, {"forced"})
    BY <2>1, <2>2 DEF Same, Fields
  <2>4. Good(y, w)
    BY <2>3, <2>2, SameLonger, GoodSmall
  <2>5. Same(x, y, ResendFields)
    BY <2>2, <2>3 DEF Same, ResendFields
  <2>6. y.state = x.state /\ y.sbuf = x.sbuf
    BY <2>2, <2>3 DEF Same, Fields, SentFields, MssFields
  <2> QED
    BY <2>4, <2>5, <2>6
<1> QED
  BY <1>5, <1>6

LEMMA LastOf ==
  ASSUME NEW N \in Nat, NEW j \in 1 .. N + 1
  PROVE  j \in 1 .. N \/ j = N + 1
OBVIOUS

LEMMA TopIs ==
  ASSUME NEW una \in Nat, NEW m \in Nat, NEW n \in Nat, NEW top, una + m = top,
         NEW b \in Nat, n <= b - m
  PROVE  una + (m + n) = top + n /\ m + n <= b
OBVIOUS

(* n more bytes at the end of the list: in the last segment while it may   *)
(* still grow, or in a segment of their own.                               *)
Grown(new, list, s, n, top) ==
  /\ new \in Seq(Segments) /\ Below(new, top + n)
  /\ Offsets(new)[Len(new)] = Offsets(list)[Len(list)] + n
  /\ SentTo(new, s) /\ Offsets(new)[s] = Offsets(list)[s]

LEMMA LengthenedKeeps ==
  ASSUME NEW list \in Seq(Segments), list # <<>>, NEW top \in Nat, Below(list, top),
         NEW s \in Nat, SentTo(list, s), NEW n \in Nat,
         list[Len(list)].xmit = 0, ~list[Len(list)].ctl,
         NEW new, new = Lengthened(list, n)
  PROVE  Grown(new, list, s, n, top)
<1> DEFINE N == Len(list)
<1>1. N \in Nat \ {0} /\ s \in 0 .. N
  BY EmptySeq DEF SentTo
<1>2. \A j \in 1 .. N : /\ list[j].seq \in Nat /\ list[j].len \in Nat \ {0}
                        /\ list[j].xmit \in Nat /\ list[j].ctl \in BOOLEAN
  BY SegmentIs
<1>3. LongerBy(new, list, n)
  BY LengthenedIs
<1>4. /\ new \in Seq(Segments) /\ Len(new) = N
      /\ \A j \in 1 .. N - 1 : new[j] = list[j]
      /\ new[N].seq = list[N].seq /\ new[N].len = list[N].len + n
      /\ new[N].xmit = list[N].xmit /\ new[N].ctl = list[N].ctl
  BY <1>3, Zenon DEF LongerBy
<1>5. /\ \A j \in 0 .. N - 1 : Offsets(new)[j] = Offsets(list)[j]
      /\ Offsets(new)[N] = Offsets(list)[N] + n
  BY <1>3, Zenon DEF LongerBy
<1>6. s <= N - 1
  BY <1>1 DEF SentTo
<1> HIDE DEF N
<1>7. Below(new, top + n)
  <2> SUFFICES ASSUME NEW j \in 1 .. N
               PROVE  /\ new[j].seq + new[j].len <= top + n
                      /\ IF new[j].ctl THEN new[j].seq = 0 /\ new[j].len = 1
                         ELSE new[j].seq >= 1
    BY <1>4 DEF Below
  <2>1. /\ list[j].seq + list[j].len <= top
        /\ IF list[j].ctl THEN list[j].seq = 0 /\ list[j].len = 1 ELSE list[j].seq >= 1
    BY DEF Below, N
  <2>2. CASE j \in 1 .. N - 1
    <3>1. new[j] = list[j]
      BY <2>2, <1>4
    <3> DEFINE a == list[j].seq
               l == list[j].len
    <3>2. a \in Nat /\ l \in Nat
      BY <1>2
    <3>3. a + l <= top /\ new[j].seq = a /\ new[j].len = l
      BY <2>1, <3>1
    <3> HIDE DEF a, l
    <3>4. a + l <= top + n
      BY <3>2, <3>3
    <3>5. IF new[j].ctl THEN new[j].seq = 0 /\ new[j].len = 1 ELSE new[j].seq >= 1
      BY <2>1, <3>1
    <3> QED
      BY <3>3, <3>4, <3>5
  <2>3. CASE j = N
    <3> DEFINE a == list[N].seq
               l == list[N].len
    <3>1. a \in Nat /\ l \in Nat /\ a + l <= top /\ a >= 1
      BY <2>1, <2>3, <1>1, <1>2 DEF N
    <3>2. new[j].seq = a /\ new[j].len = l + n /\ ~new[j].ctl
      BY <2>3, <1>4 DEF N
    <3> HIDE DEF a, l
    <3>3. a + (l + n) <= top + n
      BY <3>1
    <3> QED
      BY <3>1, <3>2, <3>3
  <2> QED
    BY <2>2, <2>3, <1>1
<1>8. SentTo(new, s)
  BY <1>1, <1>4 DEF SentTo, N
<1> QED
  BY <1>1, <1>4, <1>5, <1>6, <1>7, <1>8 DEF Grown, N

(* A segment of the connection request, or of what the user writes.        *)
NewSegment(seg, n, ctl, top) ==
  /\ seg.seq = top /\ seg.len = n /\ seg.xmit = 0 /\ seg.ctl = ctl
  /\ IF ctl THEN top = 0 /\ n = 1 ELSE top >= 1

LEMMA AppendedKeeps ==
  ASSUME NEW list \in Seq(Segments), NEW top \in Nat, Below(list, top),
         NEW s \in Nat, SentTo(list, s), NEW n \in Nat \ {0}, NEW ctl \in BOOLEAN,
         NEW seg \in Segments, NewSegment(seg, n, ctl, top),
         NEW new, new = Append(list, seg)
  PROVE  Grown(new, list, s, n, top)
<1> DEFINE N == Len(list)
<1>1. N \in Nat /\ s \in 0 .. N
  BY DEF SentTo
<1>2. \A j \in 1 .. N : /\ list[j].seq \in Nat /\ list[j].len \in Nat \ {0}
                        /\ list[j].xmit \in Nat /\ list[j].ctl \in BOOLEAN
  BY SegmentIs
<1>3. seg.seq = top /\ seg.len = n /\ seg.xmit = 0 /\ seg.ctl = ctl
  BY DEF NewSegment
<1>4. FollowedBy(new, list, seg)
  BY <1>3, AppendedIs
<1>5. /\ new \in Seq(Segments) /\ Len(new) = N + 1
      /\ \A j \in 1 .. N : new[j] = list[j]
      /\ new[N + 1] = seg
  BY <1>4, Zenon DEF FollowedBy
<1>6. /\ \A j \in 0 .. N : Offsets(new)[j] = Offsets(list)[j]
      /\ Offsets(new)[N + 1] = Offsets(list)[N] + seg.len
  BY <1>4, Zenon DEF FollowedBy
<1> HIDE DEF N
<1>7. Below(new, top + n)
  BY <1>5, <1>2, <1>3, <1>1, LastOf DEF Below, N, NewSegment
<1>8. SentTo(new, s)
  BY <1>5, <1>1, <1>3, LastOf DEF SentTo, N
<1> QED
  BY <1>1, <1>3, <1>5, <1>6, <1>7, <1>8 DEF Grown, N

Concat(s, a, b) ==
  /\ s \in Seq(Int) /\ Len(s) = Len(a) + Len(b)
  /\ \A k \in 1 .. Len(a) : s[k] = a[k]
  /\ \A k \in 1 .. Len(b) : s[Len(a) + k] = b[k]

LEMMA JoinedBytes ==
  ASSUME NEW a \in Seq(Int), NEW b \in Seq(Int), NEW s, s = a \o b
  PROVE  Concat(s, a, b)
BY JoinedTwo DEF Concat

LEMMA FrontIs ==
  ASSUME NEW data \in Seq(Int), NEW n \in 0 .. Len(data)
  PROVE  /\ SubSeq(data, 1, n) \in Seq(Int) /\ Len(SubSeq(data, 1, n)) = n
         /\ \A k \in 1 .. n : SubSeq(data, 1, n)[k] = data[k]
BY SubSeqProperties

(* data are the bytes that come next; a connection request is the first.   *)
Following(data, ctl, top, list) ==
  /\ \A k \in 1 .. Len(data) : data[k] = top + k - 1
  /\ IF ctl THEN list = <<>> /\ top = 0 /\ Len(data) = 1 ELSE top >= 1

LEMMA QueuedGood ==
  ASSUME NEW x, Typed(x), NEW top \in Nat, Buffered(x, top), Listed(x),
         NEW data \in Seq(Int), NEW ctl \in BOOLEAN, slen(x) < BufSize, Len(data) >= 1,
         Following(data, ctl, top, x.slist),
         NEW n, n = Min({Len(data), BufSize - slen(x)}),
         NEW y, y = Queued(x, data, ctl)
  PROVE  /\ Typed(y) /\ Buffered(y, top + n) /\ Listed(y) /\ Same(x, y, {"sbuf", "slist"})
         /\ n \in 1 .. Len(data)
<1> DEFINE m == slen(x)
           last == x.slist[Len(x.slist)]
           seg == [seq |-> x.snd_una + slen(x), len |-> n, xmit |-> 0, ctl |-> ctl]
           list == x.slist
           new == IF list # <<>> /\ last.ctl = ctl /\ last.xmit = 0
                  THEN Lengthened(list, n) ELSE Append(list, seg)
           part == SubSeq(data, 1, n)
           buf == x.sbuf \o part
<1>1. /\ list \in Seq(Segments) /\ x.sbuf \in Seq(Int) /\ m \in Nat /\ x.snd_una \in Nat
      /\ x.snd_nxt \in Nat /\ x.recover \in Nat
  BY DEF Typed, slen
<1>2. x.snd_una + m = top /\ Below(list, top) /\ \A k \in 1 .. m : x.sbuf[k] = x.snd_una + k - 1
  BY DEF Buffered
<1>0. /\ \A k \in 1 .. Len(data) : data[k] = top + k - 1
      /\ IF ctl THEN list = <<>> /\ top = 0 /\ Len(data) = 1 ELSE top >= 1
  BY DEF Following
<1>3. n \in 1 .. Len(data) /\ n <= BufSize - m /\ n \in Nat \ {0}
  <2> DEFINE a == Len(data)
             b == BufSize - m
  <2>1. a \in Int /\ b \in Int /\ a >= 1 /\ b >= 1
    BY <1>1, TcpConstants
  <2> HIDE DEF a, b
  <2>2. Min({a, b}) \in {a, b} /\ Min({a, b}) <= a /\ Min({a, b}) <= b
    BY <2>1, MinOfTwo
  <2>3. n = Min({a, b})
    BY DEF a, b
  <2>4. n \in 1 .. a /\ n <= b
    BY <2>1, <2>2, <2>3
  <2> QED
    BY <2>4 DEF a, b
<1>4. y = [x EXCEPT !.sbuf = buf, !.slist = new]
  BY DEF Queued
<1>5. PICK s \in Nat : SentUpTo(x, s)
  BY DEF Listed
<1>6. Grown(new, list, s, n, top)
  <2>1. SentTo(list, s)
    BY <1>5 DEF SentUpTo
  <2>2. CASE list # <<>> /\ last.ctl = ctl /\ last.xmit = 0
    <3>1. ~ctl
      BY <2>2, <1>0
    <3>2. list[Len(list)].xmit = 0 /\ ~list[Len(list)].ctl /\ new = Lengthened(list, n)
      BY <2>2, <3>1
    <3> HIDE DEF new
    <3> QED
      BY <2>1, <2>2, <3>2, <1>1, <1>2, <1>3, LengthenedKeeps
  <2>3. CASE ~(list # <<>> /\ last.ctl = ctl /\ last.xmit = 0)
    <3>1. new = Append(list, seg) /\ seg = [seq |-> top, len |-> n, xmit |-> 0, ctl |-> ctl]
      BY <2>3, <1>2
    <3>2. seg \in Segments /\ NewSegment(seg, n, ctl, top)
      BY <1>0, <1>3, <3>1 DEF Segments, NewSegment
    <3> HIDE DEF new, seg
    <3> QED
      BY <2>1, <3>1, <3>2, <1>1, <1>2, <1>3, AppendedKeeps
  <2> QED
    BY <2>2, <2>3
<1>7. /\ buf \in Seq(Int) /\ Len(buf) = m + n
      /\ \A k \in 1 .. m + n : buf[k] = x.snd_una + k - 1
  <2>1. /\ part \in Seq(Int) /\ Len(part) = n
        /\ \A k \in 1 .. n : part[k] = data[k]
    <3>1. n \in 0 .. Len(data) /\ n \in Nat /\ Len(data) \in Nat
      BY <1>3
    <3> QED
      BY <3>1, FrontIs
  <2> HIDE DEF part
  <2>2. /\ buf \in Seq(Int) /\ Len(buf) = m + n
        /\ \A k \in 1 .. m : buf[k] = x.sbuf[k]
        /\ \A k \in 1 .. n : buf[m + k] = part[k]
    <3>1. buf = x.sbuf \o part
      OBVIOUS
    <3> DEFINE a == x.sbuf
    <3>2. Len(a) = m /\ a \in Seq(Int) /\ buf = a \o part
      BY <1>1 DEF slen
    <3> HIDE DEF buf, m, a
    <3>3. Concat(buf, a, part)
      BY <3>2, <2>1, JoinedBytes
    <3> QED
      BY <3>2, <3>3, <2>1, Zenon DEF a, Concat
  <2> HIDE DEF buf
  <2>3. ASSUME NEW k \in 1 .. m + n PROVE buf[k] = x.snd_una + k - 1
    <3>1. CASE k \in 1 .. m
      BY <3>1, <2>2, <1>2
    <3>2. CASE k > m
      <4> DEFINE j == k - m
      <4>0. k \in 1 .. m + n /\ m \in Nat /\ n \in Nat /\ k > m
        BY <3>2, <1>1, <1>3
      <4>1. j \in 1 .. n /\ k = m + j /\ j \in 1 .. Len(data)
        <5>1. j \in 1 .. n /\ k = m + j
          BY <4>0
        <5> HIDE DEF j
        <5>2. n \in 1 .. Len(data)
          BY <1>3
        <5> QED
          BY <5>1, <5>2
      <4>2. buf[k] = data[j] /\ data[j] = top + j - 1
        BY <4>1, <2>1, <2>2, <1>0
      <4>3. top + j - 1 = x.snd_una + k - 1
        BY SMTT(30), <1>1, <1>2, <4>1
      <4> QED
        BY <4>2, <4>3
    <3> QED
      BY <3>1, <3>2, <1>1
  <2> QED
    BY <2>2, <2>3
<1> HIDE DEF new, buf
<1>8. DOMAIN x = Fields
  BY DEF Typed
<1>9. Same(x, y, {"sbuf", "slist"}) /\ y.sbuf = buf /\ y.slist = new
  BY <1>4, <1>8 DEF Same, Fields
<1>10. new \in Seq(Segments)
  BY <1>6 DEF Grown
<1>11. Typed(y)
  BY <1>7, <1>9, <1>10 DEF Typed, Same, Fields
<1>12. /\ y.snd_una = x.snd_una /\ y.snd_nxt = x.snd_nxt /\ y.recover = x.recover
       /\ slen(y) = m + n
  BY <1>7, <1>9 DEF Same, Fields, slen
<1>13. Buffered(y, top + n)
  <2>1. x.snd_una + (m + n) = top + n /\ m + n <= BufSize
    <3>1. BufSize \in Nat
      BY TcpConstants
    <3> DEFINE una == x.snd_una
    <3>2. una \in Nat /\ m \in Nat /\ n \in Nat /\ una + m = top /\ n <= BufSize - m
      BY <1>1, <1>2, <1>3
    <3> HIDE DEF m, una
    <3>3. una + (m + n) = top + n /\ m + n <= BufSize
      BY SMTT(30), <3>1, <3>2, TopIs
    <3> QED
      BY <3>3 DEF una
  <2>2. Below(y.slist, top + n)
    BY <1>6, <1>9 DEF Grown
  <2> QED
    BY <2>1, <2>2, <1>7, <1>9, <1>12 DEF Buffered
<1>14. Listed(y)
  BY <1>6, <1>5, <1>9, <1>12 DEF Listed, Grown, SentUpTo
<1> QED
  BY <1>3, <1>9, <1>11, <1>13, <1>14

AdjustFields == {"mss", "msslevel", "cwnd"}

LEMMA AdjustMtuIs ==
  ASSUME NEW x, Typed(x), NEW y, y = AdjustMtu(x)
  PROVE  Same(x, y, AdjustFields) /\ MssTyped(y)
<1> DEFINE adv == x.mtu_advise
           levels == {l \in 1 .. Len(Maxima) : Maxima[l] <= adv \/ l = Len(Maxima)}
           level == Min(levels)
           win == Max({x.cwnd, adv})
<1>1. DOMAIN x = Fields /\ adv \in Nat \ {0} /\ x.cwnd \in Nat /\ Len(Maxima) \in Nat \ {0}
  BY MaximaAre DEF Typed
<1>2. level \in 1 .. Len(Maxima)
  <2>1. levels \subseteq 1 .. Len(Maxima) /\ Len(Maxima) \in levels
    BY <1>1
  <2> HIDE DEF levels
  <2>2. levels \subseteq Int /\ levels # {} /\ 1 \in Int /\ \A s \in levels : 1 <= s
    BY <2>1, <1>1
  <2>3. level \in levels
    BY <2>2, MinIs
  <2> QED
    BY <2>1, <2>3
<1>3. win \in Nat
  <2> DEFINE c == x.cwnd
  <2>1. c \in Int /\ adv \in Int /\ c >= 0 /\ adv >= 0
    BY <1>1
  <2> HIDE DEF c, adv
  <2>2. Max({c, adv}) \in {c, adv}
    BY <2>1, MaxOfTwo
  <2>3. Max({c, adv}) \in Nat
    BY <2>1, <2>2
  <2> QED
    BY <2>3 DEF c
<1>4. y = [x EXCEPT !.mss = adv, !.msslevel = level, !.cwnd = win]
  BY DEF AdjustMtu
<1> HIDE DEF adv, level, win
<1> QED
  BY <1>1, <1>2, <1>3, <1>4 DEF Same, Fields, AdjustFields, MssTyped

LEMMA GoodMss ==
  ASSUME NEW x, NEW w, Good(x, w), NEW y, Same(x, y, AdjustFields), MssTyped(y)
  PROVE  Good(y, w)
<1>1. Typed(x) /\ Outgoing(x, w)
  BY DEF Good
<1>2. Typed(y)
  BY <1>1 DEF Typed, Same, Fields, AdjustFields, MssTyped
<1>3. /\ y.sbuf = x.sbuf /\ y.slist = x.slist /\ y.snd_una = x.snd_una /\ y.state = x.state
      /\ y.snd_nxt = x.snd_nxt /\ y.recover = x.recover /\ y.out = x.out /\ y.rcv_nxt = x.rcv_nxt
  BY DEF Same, Fields, AdjustFields
<1>4. Outgoing(y, w)
  BY <1>1, <1>3 DEF Outgoing
<1> QED
  BY <1>2, <1>3, <1>4, GoodSame

(* While it is open or opens, what a state says of the sending half does   *)
(* not change with the state.                                              *)
Opening == {"TCP_SYN_SENT", "TCP_SYN_RECEIVED", "TCP_ESTABLISHED"}
OpenFields == AdjustFields \cup {"state", "canRead", "canWrite"}

LEMMA GoodState ==
  ASSUME NEW x, NEW w, Good(x, w), x.state \in Opening,
         NEW y, Same(x, y, {"state", "canRead", "canWrite"}), y.state \in Opening
  PROVE  Good(y, w)
<1>1. Typed(x) /\ Outgoing(x, w) /\ Buffered(x, w + 1) /\ Listed(x)
  BY DEF Good, Opening, Ended, Top
<1>2. Typed(y)
  BY <1>1 DEF Typed, Same, Fields, Opening, States
<1>3. /\ y.sbuf = x.sbuf /\ y.slist = x.slist /\ y.snd_una = x.snd_una
      /\ y.snd_nxt = x.snd_nxt /\ y.recover = x.recover /\ y.out = x.out /\ y.rcv_nxt = x.rcv_nxt
  BY DEF Same, Fields
<1>4. y.state # "TCP_LISTEN"
  BY DEF Opening
<1>5. Outgoing(y, w)
  BY <1>1, <1>3, <1>4 DEF Outgoing
<1>6. Buffered(y, Top(y, w))
  BY <1>1, <1>3, <1>4 DEF Buffered, Top, slen
<1>7. \A s \in Nat : SentUpTo(x, s) => SentUpTo(y, s)
  BY <1>3 DEF SentUpTo
<1>8. Listed(y)
  BY <1>1, <1>3, <1>7 DEF Listed, slen
<1> QED
  BY <1>2, <1>5, <1>6, <1>8 DEF Good

LEMMA OpenedGood ==
  ASSUME NEW x, NEW w, Good(x, w), x.state \in Opening, NEW y, y = Opened(x)
  PROVE  /\ Good(y, w) /\ Same(x, y, OpenFields)
         /\ y.state = "TCP_ESTABLISHED" /\ y.canRead = ~x.shutdown
<1> DEFINE a == AdjustMtu(x)
           sh == ~x.shutdown
<1>1. Typed(x)
  BY DEF Good
<1>2. Same(x, a, AdjustFields) /\ MssTyped(a)
  BY <1>1, AdjustMtuIs
<1>3. y = [a EXCEPT !.state = "TCP_ESTABLISHED", !.canRead = sh, !.canWrite = sh]
  BY DEF Opened
<1> HIDE DEF a, sh
<1>4. Good(a, w)
  BY <1>2, GoodMss
<1>5. a.state = x.state
  BY <1>2 DEF Same, Fields, AdjustFields
<1>6. /\ Same(a, y, {"state", "canRead", "canWrite"})
      /\ y.state = "TCP_ESTABLISHED" /\ y.canRead = sh
  BY <1>2, <1>3 DEF Same, Fields
<1>7. Same(x, y, OpenFields)
  BY <1>2, <1>6 DEF Same, Fields, OpenFields
<1>8. Good(y, w)
  BY <1>4, <1>5, <1>6, GoodState DEF Opening
<1> QED
  BY <1>6, <1>7, <1>8 DEF sh

ConnectFields == OpenFields \cup {"sbuf", "slist"}

Requested(z) == Queued(z, <<Connect>>, TRUE)

(* The connection request: the block of an end that listens, or that is to *)
(* connect, in its next state and with the request in its buffer.          *)
LEMMA RequestGood ==
  ASSUME NEW x, NEW w \in Nat, w = 0, Good(x, w), x.state = "TCP_LISTEN",
         NEW z, Same(x, z, {"state"}), z.state \in Opening,
         NEW y, y = Requested(z)
  PROVE  /\ Good(y, w) /\ Same(x, y, {"state", "sbuf", "slist"}) /\ y.state = z.state
         /\ y.snd_una = 0 /\ y.snd_nxt = 0
<1> DEFINE data == <<Connect>>
           n == Min({Len(data), BufSize - slen(z)})
<1>1. Typed(x) /\ Outgoing(x, w)
  BY DEF Good
<1>2. x.snd_una = 0 /\ x.snd_nxt = 0 /\ slen(x) = 0 /\ x.slist = <<>>
  BY ListenIs
<1>3. Buffered(x, 0) /\ Listed(x)
  BY DEF Good, Ended, Top
<1>5. /\ z.sbuf = x.sbuf /\ z.slist = x.slist /\ z.snd_una = x.snd_una
      /\ z.snd_nxt = x.snd_nxt /\ z.recover = x.recover /\ z.out = x.out /\ z.rcv_nxt = x.rcv_nxt
  BY DEF Same, Fields
<1>6. Typed(z) /\ Buffered(z, 0) /\ Listed(z)
  <2>1. Typed(z)
    BY <1>1 DEF Typed, Same, Fields, Opening, States
  <2>2. Buffered(z, 0)
    BY <1>3, <1>5 DEF Buffered, slen
  <2>3. \A s \in Nat : SentUpTo(x, s) => SentUpTo(z, s)
    BY <1>5 DEF SentUpTo
  <2>4. Listed(z)
    BY <1>3, <1>5, <2>3 DEF Listed, slen
  <2> QED
    BY <2>1, <2>2, <2>4
<1>7. data \in Seq(Int) /\ Len(data) = 1 /\ data[1] = 0
  BY DEF Connect
<1>8. slen(z) = 0 /\ slen(z) < BufSize
  BY <1>2, <1>5, TcpConstants DEF slen
<1>9. Following(data, TRUE, 0, z.slist)
  BY <1>2, <1>5, <1>7 DEF Following
<1> DEFINE zero == 0
           yes == TRUE
<1> HIDE DEF data, n, zero, yes
<1>11. /\ Typed(y) /\ Buffered(y, zero + n) /\ Listed(y) /\ Same(z, y, {"sbuf", "slist"})
       /\ n \in 1 .. Len(data)
  <2>1. n = Min({Len(data), BufSize - slen(z)}) /\ Len(data) >= 1
    BY <1>7 DEF n
  <2>3. y = Queued(z, data, yes)
    BY DEF data, yes, Requested
  <2>2. /\ zero \in Nat /\ yes \in BOOLEAN /\ Buffered(z, zero)
        /\ Following(data, yes, zero, z.slist) /\ y = Queued(z, data, yes)
    BY <1>6, <1>9, <2>3 DEF zero, yes
  <2> QED
    BY <2>1, <2>2, <1>6, <1>7, <1>8, QueuedGood
<1>12. zero + n = 1
  BY <1>7, <1>11 DEF zero
<1>13. Same(x, y, {"state", "sbuf", "slist"}) /\ y.state = z.state
  BY <1>11 DEF Same, Fields
<1>14. y.snd_una = x.snd_una /\ y.snd_nxt = x.snd_nxt /\ y.out = x.out /\ y.rcv_nxt = x.rcv_nxt
  BY <1>13 DEF Same, Fields
<1>15. y.state # "TCP_LISTEN"
  BY <1>13 DEF Opening
<1>16. Outgoing(y, w)
  BY <1>1, <1>14, <1>15 DEF Outgoing
<1>17. Buffered(y, Top(y, w))
  BY <1>12, <1>15, <1>11 DEF Top
<1> QED
  BY <1>2, <1>11, <1>13, <1>14, <1>16, <1>17 DEF Good

Joined(x, y, p, w) ==
  /\ Good(y, w) /\ Same(x, y, ConnectFields) /\ y.canRead \in {x.canRead, ~x.shutdown}
  /\ \/ y.state = x.state /\ ~(p.ctl /\ x.state \in {"TCP_LISTEN", "TCP_SYN_SENT"})
     \/ /\ p.ctl /\ x.state = "TCP_LISTEN" /\ y.state = "TCP_SYN_RECEIVED"
        /\ y.snd_una = 0 /\ y.snd_nxt = 0
     \/ p.ctl /\ x.state = "TCP_SYN_SENT" /\ y.state = "TCP_ESTABLISHED"

LEMMA ConnectPartGood ==
  ASSUME NEW x, NEW w \in Nat, Good(x, w), x.state \notin Ended, x.state = "TCP_LISTEN" => w = 0,
         NEW p, NEW y, y = ConnectPart(x, p)
  PROVE  Joined(x, y, p, w)
<1> SUFFICES /\ Good(y, w) /\ Same(x, y, ConnectFields) /\ y.canRead \in {x.canRead, ~x.shutdown}
             /\ \/ y.state = x.state /\ ~(p.ctl /\ x.state \in {"TCP_LISTEN", "TCP_SYN_SENT"})
                \/ /\ p.ctl /\ x.state = "TCP_LISTEN" /\ y.state = "TCP_SYN_RECEIVED"
                   /\ y.snd_una = 0 /\ y.snd_nxt = 0
                \/ p.ctl /\ x.state = "TCP_SYN_SENT" /\ y.state = "TCP_ESTABLISHED"
  BY DEF Joined
<1>1. Typed(x)
  BY DEF Good
<1>2. CASE p.ctl /\ x.state = "TCP_LISTEN"
  <2>1. y = Queued([x EXCEPT !.state = "TCP_SYN_RECEIVED"], <<Connect>>, TRUE)
    BY <1>2 DEF ConnectPart
  <2> DEFINE z == [x EXCEPT !.state = "TCP_SYN_RECEIVED"]
  <2>2. /\ w = 0 /\ Same(x, z, {"state"}) /\ z.state = "TCP_SYN_RECEIVED" /\ z.state \in Opening
        /\ y = Requested(z)
    BY <1>1, <1>2, <2>1 DEF Opening, Same, Fields, Typed, Requested
  <2> HIDE DEF z
  <2>3. /\ Good(y, w) /\ Same(x, y, {"state", "sbuf", "slist"}) /\ y.state = "TCP_SYN_RECEIVED"
        /\ y.snd_una = 0 /\ y.snd_nxt = 0
    BY <2>2, <1>2, RequestGood
  <2>4. Same(x, y, ConnectFields) /\ y.canRead = x.canRead
    BY <2>3 DEF Same, Fields, ConnectFields, OpenFields, AdjustFields
  <2> QED
    BY <2>3, <2>4, <1>2
<1>3. CASE p.ctl /\ x.state = "TCP_SYN_SENT"
  BY <1>3, OpenedGood DEF ConnectPart, Opening, Same, ConnectFields
<1>4. CASE ~(p.ctl /\ x.state \in {"TCP_LISTEN", "TCP_SYN_SENT"})
  BY <1>4, <1>1 DEF ConnectPart, Same, Typed
<1> QED
  BY <1>2, <1>3, <1>4

(* The first n bytes acknowledged: the rest of the list is as long as the  *)
(* rest of the buffer, and as much of it was sent.                         *)
FreedWell(new, list, s, n, top) ==
  /\ new \in Seq(Segments) /\ Below(new, top)
  /\ Offsets(new)[Len(new)] = Offsets(list)[Len(list)] - n
  /\ \E s2 \in Nat : SentTo(new, s2) /\ Offsets(new)[s2] = Offsets(list)[s] - n

LEMMA FreedKeeps ==
  ASSUME NEW list \in Seq(Segments), NEW top \in Nat, Below(list, top),
         NEW s \in Nat, SentTo(list, s), NEW n \in 0 .. Offsets(list)[s],
         NEW new, new = Freed(list, n)
  PROVE  FreedWell(new, list, s, n, top)
<1> DEFINE N == Len(list)
           off == Offsets(list)
<1>1. N \in Nat /\ s \in 0 .. N
  BY DEF SentTo
<1>2. \A j \in 1 .. N : /\ list[j].seq \in Nat /\ list[j].len \in Nat \ {0}
                        /\ list[j].xmit \in Nat /\ list[j].ctl \in BOOLEAN
  BY SegmentIs
<1>3. off[s] \in Nat /\ off[N] \in Nat /\ off[N] >= off[s]
  BY <1>1, OffsetsGrow
<1>4. n \in Nat /\ n <= off[s] /\ n \in 0 .. Offsets(list)[Len(list)]
  BY <1>3
<1>5. PICK gone, part : Without(new, list, n, gone, part)
  BY <1>4, FreedIs
<1>6. /\ gone \in 0 .. N /\ part \in Nat /\ off[gone] + part = n
      /\ gone < N => part < list[gone + 1].len
      /\ gone = N => part = 0
      /\ new \in Seq(Segments) /\ Len(new) = N - gone
  BY <1>5, <1>1 DEF Without
<1>7. \A j \in 1 .. N - gone :
        /\ new[j].seq = list[gone + j].seq
        /\ new[j].len = IF j = 1 THEN list[gone + j].len - part ELSE list[gone + j].len
        /\ new[j].xmit = list[gone + j].xmit /\ new[j].ctl = list[gone + j].ctl
  BY <1>5, Zenon DEF Without
<1>8. \A j \in 1 .. N - gone : Offsets(new)[j] = off[gone + j] - n
  BY <1>5, Zenon DEF Without
<1>9. Offsets(new)[0] = 0
  BY <1>6, OffsetsAre
<1> HIDE DEF N, off
<1>10. gone <= s /\ off[gone] \in Nat
  <2>0. off[gone] \in Nat
    BY <1>1, <1>6, OffsetsGrow DEF N, off
  <2>1. CASE gone > s
    <3>1. gone \in s .. N
      BY <1>1, <1>6, <2>1
    <3>2. off[gone] >= off[s] + (gone - s)
      BY <1>1, <3>1, OffsetsGrow DEF off, N
    <3> QED
      BY <1>1, <1>3, <1>4, <1>6, <2>0, <2>1, <3>2
  <2> QED
    BY <1>1, <1>6, <2>0, <2>1
<1>11. Below(new, top)
  <2> SUFFICES ASSUME NEW j \in 1 .. N - gone
               PROVE  /\ new[j].seq + new[j].len <= top
                      /\ IF new[j].ctl THEN new[j].seq = 0 /\ new[j].len = 1
                         ELSE new[j].seq >= 1
    BY <1>6 DEF Below
  <2> DEFINE a == list[gone + j].seq
             l == list[gone + j].len
             c == list[gone + j].ctl
  <2>1. gone + j \in 1 .. N
    BY <1>1, <1>6
  <2>2. a + l <= top /\ (IF c THEN a = 0 /\ l = 1 ELSE a >= 1)
    BY <2>1 DEF Below, N
  <2>3. a \in Nat /\ l \in Nat /\ l >= 1 /\ c \in BOOLEAN
    BY <1>2, <2>1
  <2>4. new[j].seq = a /\ new[j].ctl = c /\ new[j].len = IF j = 1 THEN l - part ELSE l
    BY <1>7
  <2>5. j = 1 => part < l
    BY <1>1, <1>6
  <2> HIDE DEF a, l, c
  <2>6. CASE j = 1
    BY <1>6, <2>2, <2>3, <2>5, <2>6, <2>4
  <2>7. CASE j # 1
    BY <2>2, <2>4, <2>7
  <2> QED
    BY <2>6, <2>7
<1>12. Offsets(new)[Len(new)] = off[N] - n
  BY <1>1, <1>3, <1>6, <1>9, <1>8
<1>13. s - gone \in Nat /\ SentTo(new, s - gone)
  <2>1. s - gone \in 0 .. N - gone /\ s - gone \in Nat
    BY <1>1, <1>6, <1>10
  <2>2. \A j \in 1 .. N : list[j].xmit > 0 <=> j <= s
    BY DEF SentTo, N
  <2>3. ASSUME NEW j \in 1 .. N - gone
        PROVE  new[j].xmit > 0 <=> j <= s - gone
    <3>1. gone + j \in 1 .. N /\ (gone + j <= s <=> j <= s - gone)
      BY <1>1, <1>6
    <3>2. new[j].xmit = list[gone + j].xmit
      BY <1>7
    <3> QED
      BY <3>1, <3>2, <2>2
  <2> QED
    BY <2>1, <2>3, <1>6 DEF SentTo
<1>14. Offsets(new)[s - gone] = off[s] - n
  <2>1. CASE gone = s
    <3>1. part = 0 /\ off[s] = n
      BY <2>1, <1>3, <1>4, <1>6, <1>10
    <3>2. s - gone = 0
      BY <2>1, <1>1
    <3> QED
      BY <3>1, <3>2, <1>3, <1>9
  <2>2. CASE gone < s
    <3>1. s - gone \in 1 .. N - gone /\ gone + (s - gone) = s
      BY <2>2, <1>1, <1>6
    <3> QED
      BY <3>1, <1>8
  <2> QED
    BY <2>1, <2>2, <1>1, <1>6, <1>10
<1> QED
  BY <1>6, <1>11, <1>12, <1>13, <1>14 DEF FreedWell, N, off

(* The bytes of the buffer after n were taken from its front.              *)
LEMMA BackIs ==
  ASSUME NEW buf \in Seq(Int), NEW n \in 0 .. Len(buf), NEW new,
         new = SubSeq(buf, n + 1, Len(buf))
  PROVE  /\ new \in Seq(Int) /\ Len(new) = Len(buf) - n
         /\ \A k \in 1 .. Len(buf) - n : new[k] = buf[n + k]
BY SubSeqProperties

(* The first bytes of the buffer acknowledged.                             *)
TakenOff(x, y, p) ==
  /\ Same(x, y, {"snd_wnd", "snd_una", "rto_base", "sbuf", "slist"})
  /\ y.snd_wnd = p.wnd /\ y.snd_una = p.ack
  /\ y.sbuf = SubSeq(x.sbuf, (p.ack - x.snd_una) + 1, Len(x.sbuf))
  /\ y.slist = Freed(x.slist, p.ack - x.snd_una)

LEMMA TakenOffGood ==
  ASSUME NEW x, NEW w \in Nat, Good(x, w), x.state \notin Ended,
         NEW p, p.ack \in Nat, p.wnd \in Nat, p.ack > x.snd_una, p.ack <= x.snd_nxt,
         NEW y, TakenOff(x, y, p)
  PROVE  Good(y, w)
<1> DEFINE una == x.snd_una
           n == p.ack - una
           m == slen(x)
           top == Top(x, w)
           list == x.slist
           new == y.slist
<1>1. /\ Typed(x) /\ Outgoing(x, w) /\ Buffered(x, top) /\ Listed(x)
      /\ list \in Seq(Segments) /\ una \in Nat /\ x.snd_nxt \in Nat /\ m \in Nat
      /\ x.sbuf \in Seq(Int) /\ top \in Nat
  BY DEF Good, Typed, slen, Top
<1>2. PICK s \in Nat : SentUpTo(x, s)
  BY <1>1 DEF Listed
<1>3. /\ Offsets(list)[s] \in Nat /\ Offsets(list)[s] <= m
      /\ x.snd_nxt = una + Offsets(list)[s] /\ SentTo(list, s)
  BY <1>2, FlightIs DEF SentUpTo
<1>4. n \in 0 .. Offsets(list)[s] /\ n \in 0 .. m /\ p.ack = una + n
  <2> DEFINE o == Offsets(list)[s]
             ack == p.ack
  <2>1. o \in Nat /\ o <= m /\ x.snd_nxt = una + o /\ ack \in Nat /\ ack > una /\ ack <= una + o
    BY <1>3
  <2>2. n = ack - una
    OBVIOUS
  <2> HIDE DEF o, ack, una, m, n
  <2>3. n \in 0 .. o /\ n \in 0 .. m /\ ack = una + n
    BY <2>1, <2>2, <1>1
  <2> QED
    BY <2>3 DEF o, ack
<1>5. /\ Same(x, y, {"snd_wnd", "snd_una", "rto_base", "sbuf", "slist"})
      /\ y.snd_wnd = p.wnd /\ y.snd_una = p.ack
      /\ y.sbuf = SubSeq(x.sbuf, n + 1, Len(x.sbuf))
      /\ new = Freed(list, n)
  BY DEF TakenOff
<1>6. /\ y.state = x.state /\ y.snd_nxt = x.snd_nxt /\ y.recover = x.recover /\ y.out = x.out
      /\ y.rcv_nxt = x.rcv_nxt
  BY <1>5 DEF Same, Fields
<1> HIDE DEF n, m, top, list, new, una
<1>7. FreedWell(new, list, s, n, top)
  BY <1>1, <1>3, <1>4, <1>5, FreedKeeps DEF Buffered, list
<1>8. /\ new \in Seq(Segments) /\ Below(new, top)
      /\ Offsets(new)[Len(new)] = Offsets(list)[Len(list)] - n
  BY <1>7 DEF FreedWell
<1>9. PICK s2 \in Nat : SentTo(new, s2) /\ Offsets(new)[s2] = Offsets(list)[s] - n
  BY <1>7 DEF FreedWell
<1>10. /\ y.sbuf \in Seq(Int) /\ slen(y) = m - n
       /\ \A k \in 1 .. m - n : y.sbuf[k] = x.sbuf[n + k]
  <2> DEFINE buf == x.sbuf
             b == y.sbuf
  <2>1. buf \in Seq(Int) /\ n \in 0 .. Len(buf) /\ b = SubSeq(buf, n + 1, Len(buf)) /\ Len(buf) = m
    BY <1>1, <1>4, <1>5 DEF m, slen
  <2> HIDE DEF buf, b
  <2>2. /\ b \in Seq(Int) /\ Len(b) = Len(buf) - n
        /\ \A k \in 1 .. Len(buf) - n : b[k] = buf[n + k]
    BY <2>1, BackIs
  <2> QED
    BY <2>1, <2>2, Zenon DEF buf, b, slen
<1>11. Typed(y)
  BY <1>8, <1>1, <1>5, <1>10 DEF new, Typed, Same, Fields
<1>12. Outgoing(y, w)
  <2> SUFFICES ASSUME NEW q \in x.out
               PROVE  /\ PacketOK(q, w) /\ Contents(q, p.ack) /\ q.ack <= x.rcv_nxt
                      /\ x.state = "TCP_LISTEN" => ~q.ctl
    BY <1>5, <1>6 DEF Outgoing
  <2>1. /\ PacketOK(q, w) /\ Contents(q, x.snd_una) /\ q.ack <= x.rcv_nxt
        /\ x.state = "TCP_LISTEN" => ~q.ctl
    BY <1>1 DEF Outgoing
  <2>2. q.seq \in Int /\ q.data \in Seq(Int)
    BY <2>1 DEF PacketOK
  <2>3. Contents(q, p.ack)
    <3> SUFFICES ASSUME NEW k \in 1 .. Len(q.data), q.seq + k - 1 >= p.ack
                 PROVE  q.data[k] = q.seq + k - 1
      BY DEF Contents
    <3>1. q.seq + k - 1 >= x.snd_una
      BY <1>1, <2>2 DEF una
    <3> QED
      BY <3>1, <2>1 DEF Contents
  <2> QED
    BY <2>1, <2>3
<1>13. Buffered(y, Top(y, w))
  <2>1. Top(y, w) = top
    BY <1>6 DEF Top, top
  <2>2. una + m = top /\ m <= BufSize /\ \A k \in 1 .. m : x.sbuf[k] = una + k - 1
    BY <1>1 DEF Buffered, m, una
  <2>3. (una + n) + (m - n) = top /\ m - n <= BufSize
    BY <1>1, <1>4, <2>2, TcpConstants
  <2>4. ASSUME NEW k \in 1 .. m - n PROVE y.sbuf[k] = (una + n) + k - 1
    <3>1. n + k \in 1 .. m
      BY <1>1, <1>4
    <3>2. y.sbuf[k] = una + (n + k) - 1
      BY <3>1, <1>10, <2>2
    <3> QED
      BY <3>2, <1>1, <1>4
  <2>5. y.snd_una = una + n
    BY <1>4, <1>5
  <2> QED
    BY <2>1, <2>3, <2>4, <2>5, <1>8, <1>10 DEF Buffered, new
<1>14. Listed(y)
  <2>1. Offsets(list)[Len(list)] = m /\ x.recover <= x.snd_nxt
    BY <1>1 DEF Listed, list, m
  <2>2. y.snd_nxt = y.snd_una + Offsets(new)[s2]
    <3> DEFINE o == Offsets(list)[s]
    <3>1. o \in Nat /\ n \in Nat /\ una \in Nat /\ x.snd_nxt = una + o
      BY <1>1, <1>3, <1>4
    <3> HIDE DEF o
    <3>2. una + o = (una + n) + (o - n)
      BY <3>1
    <3> QED
      BY <3>1, <3>2, <1>4, <1>5, <1>6, <1>9 DEF o
  <2>3. SentUpTo(y, s2)
    BY <2>2, <1>9 DEF SentUpTo, new
  <2> QED
    BY <2>1, <2>3, <1>6, <1>8, <1>10 DEF Listed, new
<1> QED
  BY <1>11, <1>12, <1>13, <1>14 DEF Good

QuietFields == {"snd_wnd", "dup_acks", "recover", "writeEnable", "canWrite"}
AckFields == ResendFields \cup OpenFields \cup QuietFields \cup {"snd_una"}

(* What the user's events and the counters say does not touch the buffer.  *)
LEMMA GoodQuiet ==
  ASSUME NEW x, NEW w, Good(x, w), NEW y, Same(x, y, QuietFields),
         y.snd_wnd \in Nat, y.dup_acks \in 0 .. 255,
         y.recover = x.recover \/ y.recover = x.snd_nxt
  PROVE  Good(y, w)
<1>1. Typed(x) /\ Outgoing(x, w) /\ x.snd_nxt \in Nat /\ x.recover \in Nat
  BY DEF Good, Typed
<1>2. Typed(y)
  BY <1>1 DEF Typed, Same, Fields, QuietFields
<1>3. /\ y.sbuf = x.sbuf /\ y.slist = x.slist /\ y.snd_una = x.snd_una /\ y.state = x.state
      /\ y.snd_nxt = x.snd_nxt /\ y.out = x.out /\ y.rcv_nxt = x.rcv_nxt
  BY DEF Same, Fields, QuietFields
<1>4. Outgoing(y, w)
  BY <1>1, <1>3 DEF Outgoing
<1> QED
  BY <1>2, <1>3, <1>4, GoodSame

LEMMA SentSegments ==
  ASSUME NEW x, NEW w \in Nat, Good(x, w), x.state \notin Ended,
         x.snd_nxt > x.snd_una \/ InFlight(x) # 0
  PROVE  x.slist # <<>>
<1>1. PICK s \in Nat : SentUpTo(x, s)
  BY DEF Good, Listed
<1>2. s \in 0 .. Len(x.slist) /\ (s = 0 <=> InFlight(x) = 0)
  BY <1>1, FlightIs
<1>3. InFlight(x) # 0
  BY DEF InFlight, Good, Typed
<1>4. Len(x.slist) # 0
  BY <1>2, <1>3
<1> QED
  BY <1>4

LEMMA RecoveryGood ==
  ASSUME NEW x, NEW w \in Nat, Good(x, w), x.state \notin Ended, NEW y, y = Recovery(x)
  PROVE  /\ Good(y, w) /\ Same(x, y, ResendFields \cup {"dup_acks"})
         /\ y.state \in {x.state, "TCP_CLOSED"}
<1>1. Typed(x)
  BY DEF Good
<1>2. CASE x.dup_acks < 3 \/ x.snd_una >= x.recover
  <2>1. y = [x EXCEPT !.dup_acks = 0]
    BY <1>2 DEF Recovery
  <2>2. Same(x, y, QuietFields) /\ y.dup_acks = 0 /\ y.snd_wnd = x.snd_wnd /\ y.recover = x.recover
    BY <2>1, <1>1 DEF Same, Fields, QuietFields, Typed
  <2>3. y.snd_wnd \in Nat /\ y.dup_acks \in 0 .. 255
    BY <2>2, <1>1 DEF Typed
  <2>4. Good(y, w)
    BY <2>2, <2>3, GoodQuiet
  <2>5. Same(x, y, ResendFields \cup {"dup_acks"}) /\ y.state = x.state
    BY <2>1, <1>1 DEF Same, Fields, ResendFields, Typed
  <2> QED
    BY <2>4, <2>5
<1>3. CASE ~(x.dup_acks < 3 \/ x.snd_una >= x.recover)
  <2>1. y = Retransmit(x)
    BY <1>3 DEF Recovery
  <2>2. x.snd_nxt > x.snd_una
    <3>1. x.recover <= x.snd_nxt /\ x.snd_una \in Nat /\ x.recover \in Nat /\ x.snd_nxt \in Nat
      BY <1>1 DEF Good, Listed, Typed
    <3> QED
      BY <3>1, <1>3
  <2>3. /\ Good(y, w) /\ Same(x, y, ResendFields) /\ y.state \in {x.state, "TCP_CLOSED"}
    BY <2>1, <2>2, SentSegments, RetransmitGood
  <2>4. Same(x, y, ResendFields \cup {"dup_acks"})
    BY <2>3 DEF Same
  <2> QED
    BY <2>3, <2>4
<1> QED
  BY <1>2, <1>3

(* What an acknowledgment leaves: y.snd_una is the number it names, and the*)
(* connection that was asked for opens.                                    *)
Acked(x, y, p) ==
  /\ Same(x, y, AckFields) /\ y.canRead \in {x.canRead, ~x.shutdown}
  /\ y.snd_una = x.snd_una \/ (y.snd_una = p.ack /\ p.ack > x.snd_una)
  /\ \/ y.state \in {x.state, "TCP_CLOSED"}
     \/ x.state = "TCP_SYN_RECEIVED" /\ y.state = "TCP_ESTABLISHED" /\ p.ack > x.snd_una
  /\ x.snd_nxt = x.snd_una => y.state = x.state /\ y.snd_una = x.snd_una

LEMMA NewAckGood ==
  ASSUME NEW x, NEW w \in Nat, Good(x, w), x.state \notin Ended,
         NEW p, p.ack \in Nat, p.wnd \in Nat, p.ack > x.snd_una, p.ack <= x.snd_nxt,
         NEW y, y = NewAck(x, p)
  PROVE  Good(y, w) /\ Acked(x, y, p)
<1> DEFINE n == p.ack - x.snd_una
           a == [x EXCEPT !.snd_wnd = p.wnd, !.snd_una = p.ack,
                          !.rto_base = p.ack # x.snd_nxt,
                          !.sbuf = SubSeq(@, n + 1, Len(@)),
                          !.slist = Freed(@, n)]
           v == With(a, Recovery)
           z == IF v.state = "TCP_SYN_RECEIVED" /\ ~p.ctl THEN Opened(v) ELSE v
           sh == ~x.shutdown
           u == [z EXCEPT !.writeEnable = FALSE, !.canWrite = sh]
<1>1. Typed(x) /\ x.snd_una \in Nat /\ x.snd_nxt \in Nat
  BY DEF Good, Typed
<1>2. TakenOff(x, a, p) /\ a.state = x.state /\ a.snd_una = p.ack /\ a.canRead = x.canRead
      /\ a.shutdown = x.shutdown
  BY <1>1 DEF TakenOff, Same, Fields, Typed
<1>3. \/ v.state = "TCP_CLOSED" /\ y = v
      \/ v.state # "TCP_CLOSED" /\ (y = z \/ y = u)
  BY DEF NewAck
<1>4. v = Recovery(a)
  <2> HIDE DEF a
  <2> QED
    BY DEF With
<1> HIDE DEF a, v
<1>5. Good(a, w)
  BY <1>2, TakenOffGood
<1>6. /\ Good(v, w) /\ Same(a, v, ResendFields \cup {"dup_acks"})
      /\ v.state \in {x.state, "TCP_CLOSED"}
  BY <1>2, <1>4, <1>5, RecoveryGood
<1>7. v.snd_una = p.ack /\ v.canRead = x.canRead /\ v.shutdown = x.shutdown
  BY <1>2, <1>6 DEF Same, Fields, ResendFields, SentFields, MssFields
<1>8. Same(x, v, AckFields)
  <2>1. Same(x, a, AckFields)
    BY <1>2 DEF TakenOff, Same, Fields, AckFields, ResendFields, SentFields, QuietFields, MssFields
  <2> QED
    BY <2>1, <1>6 DEF Same, AckFields, QuietFields
<1>9. x.snd_nxt # x.snd_una
  BY <1>1
<1>10. CASE v.state = "TCP_CLOSED"
  BY <1>3, <1>6, <1>7, <1>8, <1>9, <1>10 DEF Acked
<1>11. CASE v.state # "TCP_CLOSED"
  <2>1. /\ Good(z, w) /\ Same(x, z, AckFields) /\ z.canRead \in {x.canRead, sh}
        /\ z.snd_una = p.ack
        /\ \/ z.state = x.state
           \/ x.state = "TCP_SYN_RECEIVED" /\ z.state = "TCP_ESTABLISHED"
    <3>1. CASE v.state = "TCP_SYN_RECEIVED" /\ ~p.ctl
      <4>1. z = Opened(v)
        BY <3>1
      <4> HIDE DEF z
      <4>2. /\ Good(z, w) /\ Same(v, z, OpenFields)
            /\ z.state = "TCP_ESTABLISHED" /\ z.canRead = ~v.shutdown
        BY <3>1, <4>1, <1>6, OpenedGood DEF Opening
      <4>3. Same(x, z, AckFields)
        BY <4>2, <1>8 DEF Same, AckFields
      <4>4. z.snd_una = v.snd_una
        BY <4>2 DEF Same, Fields, OpenFields, AdjustFields
      <4>5. x.state = "TCP_SYN_RECEIVED"
        BY <3>1, <1>6
      <4> QED
        BY <4>2, <4>3, <4>4, <4>5, <1>7
    <3>2. CASE ~(v.state = "TCP_SYN_RECEIVED" /\ ~p.ctl)
      BY <3>2, <1>6, <1>7, <1>8, <1>11
    <3> QED
      BY <3>1, <3>2
  <2> HIDE DEF z, sh
  <2>2. CASE y = z
    BY <2>1, <2>2, <1>9 DEF Acked, sh
  <2>3. CASE y = u
    <3>1. DOMAIN z = Fields /\ Typed(z)
      BY <2>1 DEF Same, Good
    <3>2. Same(z, y, {"writeEnable", "canWrite"})
      BY <2>3, <3>1 DEF Same, Fields
    <3>3. Same(z, y, QuietFields) /\ y.snd_wnd = z.snd_wnd /\ y.dup_acks = z.dup_acks
          /\ y.recover = z.recover /\ y.state = z.state /\ y.snd_una = z.snd_una
          /\ y.canRead = z.canRead
      BY <3>2 DEF Same, Fields, QuietFields
    <3>4. y.snd_wnd \in Nat /\ y.dup_acks \in 0 .. 255
      BY <3>1, <3>3 DEF Typed
    <3>5. Good(y, w)
      BY <2>1, <3>3, <3>4, GoodQuiet
    <3>6. Same(x, y, AckFields)
      BY <2>1, <3>3 DEF Same, AckFields
    <3> QED
      BY <2>1, <3>3, <3>5, <3>6, <1>9 DEF Acked, sh
  <2> QED
    BY <2>2, <2>3, <1>3, <1>11
<1> QED
  BY <1>10, <1>11

LEMMA CountIs ==
  ASSUME NEW c \in 0 .. 255
  PROVE  (c + 1) % 256 \in 0 .. 255
OBVIOUS

LEMMA OldAckGood ==
  ASSUME NEW x, NEW w \in Nat, Good(x, w), x.state \notin Ended,
         NEW p, p.ack \in Nat, p.wnd \in Nat, NEW y, y = OldAck(x, p)
  PROVE  Good(y, w) /\ Acked(x, y, p)
<1> DEFINE v == [x EXCEPT !.snd_wnd = p.wnd]
           dup == (v.dup_acks + 1) % 256
           d == [v EXCEPT !.dup_acks = dup]
           u == [v EXCEPT !.dup_acks = 0]
           r == Retransmit(d)
           k == [r EXCEPT !.recover = r.snd_nxt]
<1>1. Typed(x) /\ x.snd_una \in Nat /\ x.snd_nxt \in Nat /\ x.dup_acks \in 0 .. 255
  BY DEF Good, Typed
<1>2. /\ Same(x, v, {"snd_wnd"}) /\ v.snd_wnd = p.wnd /\ v.dup_acks = x.dup_acks
      /\ Same(x, v, QuietFields) /\ v.recover = x.recover
  BY <1>1 DEF Same, Fields, QuietFields, Typed
<1>3. dup \in 0 .. 255
  BY <1>1, <1>2, CountIs
<1>4. \/ y = v
      \/ y = u
      \/ y = d
      \/ InFlight(x) # 0 /\ (IF r.state = "TCP_CLOSED" THEN y = r ELSE y = k)
  <2> HIDE DEF dup
  <2> QED
    BY DEF OldAck, dup
<1> HIDE DEF v, dup
<1>5. /\ Same(x, u, QuietFields) /\ u.snd_wnd = p.wnd /\ u.dup_acks = 0 /\ u.recover = x.recover
      /\ Same(x, d, QuietFields) /\ d.snd_wnd = p.wnd /\ d.dup_acks = dup /\ d.recover = x.recover
  BY <1>2 DEF Same, Fields, QuietFields
<1>6. Good(v, w) /\ Good(u, w) /\ Good(d, w)
  <2>1. v.dup_acks \in 0 .. 255 /\ v.snd_wnd \in Nat
    BY <1>1, <1>2
  <2>2. Good(v, w)
    BY <2>1, <1>2, GoodQuiet
  <2> HIDE DEF u, d
  <2>3. 0 \in 0 .. 255
    OBVIOUS
  <2>4. Good(u, w)
    BY <2>3, <1>5, GoodQuiet
  <2>5. Good(d, w)
    BY <1>3, <1>5, GoodQuiet
  <2> QED
    BY <2>2, <2>4, <2>5
<1>7. ASSUME Same(x, y, QuietFields)
      PROVE  Acked(x, y, p)
  BY <1>7 DEF Same, Fields, QuietFields, AckFields, Acked
<1>8. CASE y = v \/ y = u \/ y = d
  BY <1>2, <1>5, <1>6, <1>7, <1>8
<1>9. CASE InFlight(x) # 0 /\ (IF r.state = "TCP_CLOSED" THEN y = r ELSE y = k)
  <2>1. d.state = x.state /\ d.slist = x.slist /\ d.snd_una = x.snd_una /\ d.canRead = x.canRead
    BY <1>5 DEF Same, Fields, QuietFields
  <2>2. x.slist # <<>> /\ x.snd_nxt # x.snd_una
    BY <1>1, <1>9, SentSegments DEF InFlight
  <2> HIDE DEF d, r
  <2>3. Good(r, w) /\ Same(d, r, ResendFields) /\ r.state \in {x.state, "TCP_CLOSED"}
    BY <1>6, <2>1, <2>2, RetransmitGood DEF r
  <2>4. r.snd_una = x.snd_una /\ r.canRead = x.canRead
    BY <2>1, <2>3 DEF Same, Fields, ResendFields, SentFields, MssFields
  <2>5. Same(x, r, AckFields)
    BY <1>5, <2>3 DEF Same, AckFields
  <2>6. Acked(x, r, p)
    BY <2>2, <2>3, <2>4, <2>5 DEF Acked
  <2>7. CASE y = r
    BY <2>3, <2>6, <2>7
  <2>8. CASE y = k
    <3>1. Typed(r)
      BY <2>3 DEF Good
    <3>2. Same(r, y, QuietFields) /\ y.snd_wnd = r.snd_wnd /\ y.dup_acks = r.dup_acks
          /\ y.recover = r.snd_nxt /\ y.state = r.state /\ y.snd_una = r.snd_una
          /\ y.canRead = r.canRead
      BY <2>8, <3>1 DEF Same, Fields, QuietFields, Typed
    <3>3. y.snd_wnd \in Nat /\ y.dup_acks \in 0 .. 255
      BY <3>1, <3>2 DEF Typed
    <3>4. Good(y, w)
      BY <2>3, <3>2, <3>3, GoodQuiet
    <3>5. Same(x, y, AckFields)
      BY <2>5, <3>2 DEF Same, AckFields
    <3> QED
      BY <2>2, <2>3, <2>4, <3>2, <3>4, <3>5 DEF Acked
  <2> QED
    BY <1>9, <2>7, <2>8
<1> QED
  BY <1>4, <1>8, <1>9

LEMMA AckPartGood ==
  ASSUME NEW x, NEW w \in Nat, Good(x, w), x.state \notin Ended,
         NEW p, p.ack \in Nat, p.wnd \in Nat, NEW y, y = AckPart(x, p)
  PROVE  Good(y, w) /\ Acked(x, y, p)
<1>1. Typed(x)
  BY DEF Good
<1>2. CASE p.ack > x.snd_una /\ p.ack <= x.snd_nxt
  <2>1. p.ack # x.snd_una
    BY <1>1, <1>2 DEF Typed
  <2>2. y = NewAck(x, p)
    BY <1>2, <2>1 DEF AckPart
  <2> QED
    BY <1>2, <2>2, NewAckGood
<1>3. CASE ~(p.ack > x.snd_una /\ p.ack <= x.snd_nxt) /\ p.ack = x.snd_una
  BY <1>3, OldAckGood DEF AckPart
<1>4. CASE ~(p.ack > x.snd_una /\ p.ack <= x.snd_nxt) /\ p.ack # x.snd_una
  BY <1>4, <1>1 DEF AckPart, Acked, Same, Typed
<1> QED
  BY <1>2, <1>3, <1>4

(* What Trimmed leaves of a packet's data: bytes from nxt on, as many as   *)
(* there is room for.                                                      *)
TrimmedWell(s, p, nxt, room) ==
  /\ s.seq \in {p.seq, nxt} /\ s.seq \in Int /\ s.seq >= nxt /\ s.seq >= p.seq /\ s.data \in Seq(Int)
  /\ s.data # <<>> =>
       /\ s.seq + Len(s.data) <= p.seq + Len(p.data)
       /\ s.seq - nxt + Len(s.data) <= room
       /\ p.seq + Len(p.data) <= nxt + room => s.seq + Len(s.data) = p.seq + Len(p.data)
       /\ \A k \in 1 .. Len(s.data) : s.data[k] = p.data[(s.seq - p.seq) + k]

LEMMA CutIs ==
  ASSUME NEW data \in Seq(Int), NEW old \in 0 .. Len(data), NEW m \in 0 .. Len(data) - old,
         NEW part, part = SubSeq(data, old + 1, old + m)
  PROVE  part \in Seq(Int) /\ Len(part) = m /\ \A k \in 1 .. m : part[k] = data[old + k]
BY SubSeqProperties

(* The arithmetic of Trimmed: how many bytes go from the front, and how    *)
(* many remain.                                                            *)
TrimIs(pseq, L, nxt, room, old, seq, m) ==
  /\ old \in 0 .. L /\ seq \in {pseq, nxt} /\ seq \in Int /\ seq >= nxt /\ seq >= pseq
  /\ m \in 0 .. L - old
  /\ m > 0 => old = seq - pseq /\ seq + m <= pseq + L /\ seq - nxt + m <= room
  /\ m > 0 /\ pseq + L <= nxt + room => seq + m = pseq + L
  /\ pseq = nxt /\ L = 1 /\ room >= 1 => m = 1

LEMMA MaxCases ==
  ASSUME NEW a \in Int, NEW b \in Int, NEW m, m = Max({a, b})
  PROVE  m \in Int /\ ((a <= b /\ m = b) \/ (b <= a /\ m = a))
BY MaxOfTwo

LEMMA MinCases ==
  ASSUME NEW a \in Int, NEW b \in Int, NEW m, m = Min({a, b})
  PROVE  m \in Int /\ ((a <= b /\ m = a) \/ (b <= a /\ m = b))
<1>1. m \in {a, b} /\ m <= a /\ m <= b
  BY MinOfTwo
<1> QED
  BY <1>1

LEMMA TrimArithmetic ==
  ASSUME NEW pseq \in Int, NEW L \in Nat, NEW nxt \in Nat, NEW room \in Nat,
         NEW behind, behind = Max({nxt - pseq, 0}),
         NEW old, old = Min({behind, L}),
         NEW seq, seq = Max({pseq, nxt}),
         NEW over, over = Max({seq + (L - old) - nxt - room, 0}),
         NEW m, m = Max({(L - old) - over, 0})
  PROVE  TrimIs(pseq, L, nxt, room, old, seq, m)
<1>1. behind \in Int /\ ((nxt - pseq <= 0 /\ behind = 0) \/ (0 <= nxt - pseq /\ behind = nxt - pseq))
  <2> DEFINE a == nxt - pseq
             b == 0
  <2>1. a \in Int /\ b \in Int /\ behind = Max({a, b})
    OBVIOUS
  <2> HIDE DEF a, b
  <2>2. behind \in Int /\ ((a <= b /\ behind = b) \/ (b <= a /\ behind = a))
    BY <2>1, MaxCases
  <2> QED
    BY <2>2 DEF a, b
<1>2. old \in Int /\ ((behind <= L /\ old = behind) \/ (L <= behind /\ old = L))
  <2>1. behind \in Int /\ L \in Int
    BY <1>1
  <2> QED
    BY ZenonT(30), <2>1, MinCases
<1>3. seq \in Int /\ ((pseq <= nxt /\ seq = nxt) \/ (nxt <= pseq /\ seq = pseq))
  BY MaxCases
<1>4. over \in Int /\ over >= 0 /\ over >= seq + (L - old) - nxt - room
      /\ (over = 0 \/ over = seq + (L - old) - nxt - room)
  <2> DEFINE a == seq + (L - old) - nxt - room
             b == 0
  <2>1. a \in Int /\ b \in Int /\ over = Max({a, b})
    BY <1>2, <1>3
  <2> HIDE DEF a, b
  <2>2. over \in Int /\ ((a <= b /\ over = b) \/ (b <= a /\ over = a))
    BY <2>1, MaxCases
  <2>3. over >= b /\ over >= a /\ (over = b \/ over = a)
    BY <2>1, <2>2
  <2> QED
    BY <2>2, <2>3 DEF a, b
<1>5. m \in Int /\ (((L - old) - over <= 0 /\ m = 0) \/ (0 <= (L - old) - over /\ m = (L - old) - over))
  <2> DEFINE a == (L - old) - over
             b == 0
  <2>1. a \in Int /\ b \in Int /\ m = Max({a, b})
    BY <1>2, <1>4
  <2> HIDE DEF a, b
  <2>2. m \in Int /\ ((a <= b /\ m = b) \/ (b <= a /\ m = a))
    BY <2>1, MaxCases
  <2> QED
    BY <2>2 DEF a, b
<1> DEFINE goal == TrimIs(pseq, L, nxt, room, old, seq, m)
<1>6. old \in 0 .. L /\ seq \in {pseq, nxt} /\ seq >= nxt /\ seq >= pseq /\ m \in 0 .. L - old
  BY <1>1, <1>2, <1>3, <1>4, <1>5
<1>7. ASSUME m > 0
      PROVE  old = seq - pseq /\ seq + m <= pseq + L /\ seq - nxt + m <= room
  <2>1. m = (L - old) - over /\ old < L
    BY <1>4, <1>5, <1>6, <1>7
  <2>2. old = behind
    BY <1>1, <1>2, <2>1
  <2>3. old = seq - pseq
    BY <1>1, <1>3, <2>2
  <2>4. seq + m <= pseq + L
    BY <1>4, <1>3, <1>2, <2>1, <2>3
  <2>5. seq - nxt + m <= room
    BY <1>4, <1>3, <1>2, <2>1
  <2> QED
    BY <2>3, <2>4, <2>5
<1>8. ASSUME pseq = nxt, L = 1, room >= 1
      PROVE  m = 1
  BY <1>1, <1>2, <1>3, <1>8, <1>4, <1>5
<1>9. ASSUME m > 0, pseq + L <= nxt + room
      PROVE  seq + m = pseq + L
  <2>1. old = seq - pseq /\ m = (L - old) - over
    BY <1>5, <1>7, <1>9, <1>4
  <2>2. over = 0
    BY <2>1, <1>2, <1>3, <1>4, <1>9
  <2> QED
    BY <2>1, <2>2, <1>2, <1>3
<1> QED
  BY <1>3, <1>6, <1>7, <1>8, <1>9 DEF TrimIs

LEMMA TrimmedIs ==
  ASSUME NEW x, NEW p, p.data \in Seq(Int), p.seq \in Int, x.rcv_nxt \in Nat,
         x.rlen \in 0 .. BufSize, NEW s, s = Trimmed(x, p)
  PROVE  /\ TrimmedWell(s, p, x.rcv_nxt, BufSize - x.rlen)
         /\ p.seq = x.rcv_nxt /\ Len(p.data) = 1 /\ x.rlen < BufSize => Len(s.data) = 1
<1> DEFINE L == Len(p.data)
           nxt == x.rcv_nxt
           pseq == p.seq
           room == BufSize - x.rlen
           behind == Max({nxt - pseq, 0})
           old == Min({behind, L})
           seq == Max({pseq, nxt})
           over == Max({seq + (L - old) - nxt - room, 0})
           m == Max({(L - old) - over, 0})
           part == SubSeq(p.data, old + 1, old + m)
<1>1. s = [seq |-> seq, data |-> part]
  BY DEF Trimmed
<1>2. L \in Nat /\ nxt \in Nat /\ pseq \in Int /\ room \in Nat /\ (x.rlen < BufSize => room >= 1)
  BY TcpConstants
<1> HIDE DEF L, nxt, pseq, room
<1>3. TrimIs(pseq, L, nxt, room, old, seq, m)
  <2> HIDE DEF behind, old, seq, over, m
  <2> QED
    BY <1>2, TrimArithmetic DEF behind, old, seq, over, m
<1> HIDE DEF behind, old, seq, over, m
<1>4. /\ old \in 0 .. L /\ seq \in {pseq, nxt} /\ seq \in Int /\ seq >= nxt /\ seq >= pseq
      /\ m \in 0 .. L - old
      /\ m > 0 => old = seq - pseq /\ seq + m <= pseq + L /\ seq - nxt + m <= room
      /\ m > 0 /\ pseq + L <= nxt + room => seq + m = pseq + L
      /\ pseq = nxt /\ L = 1 /\ room >= 1 => m = 1
  BY <1>3 DEF TrimIs
<1> HIDE DEF part
<1>5. /\ part \in Seq(Int) /\ Len(part) = m
      /\ \A k \in 1 .. m : part[k] = p.data[old + k]
  <2> DEFINE d == p.data
  <2>1. /\ d \in Seq(Int) /\ old \in 0 .. Len(d) /\ m \in 0 .. Len(d) - old
        /\ part = SubSeq(d, old + 1, old + m)
    BY <1>4 DEF L, part
  <2> HIDE DEF d
  <2>2. part \in Seq(Int) /\ Len(part) = m /\ \A k \in 1 .. m : part[k] = d[old + k]
    BY <2>1, CutIs
  <2> QED
    BY <2>2 DEF d
<1>6. s.seq = seq /\ s.data = part
  BY <1>1
<1>7. part # <<>> => m > 0
  BY <1>2, <1>4, <1>5, EmptySeq
<1>8. TrimmedWell(s, p, nxt, room)
  BY <1>4, <1>5, <1>6, <1>7 DEF pseq, L, TrimmedWell
<1> QED
  BY <1>2, <1>4, <1>5, <1>6, <1>8 DEF nxt, room, pseq, L

(* Where the saved segments lead: every number before it lies in one.      *)
ReachedWell(saved, n, to) ==
  /\ to \in Int /\ to >= n
  /\ to = n \/ \E r \in saved : to = r.seq + r.len
  /\ \A m \in Int : n <= m /\ m < to => \E r \in saved : r.seq <= m /\ m < r.seq + r.len

LEMMA ReachedIs ==
  ASSUME NEW saved, NEW n \in Int, NEW b \in Int,
         \A r \in saved : r.seq \in Int /\ r.len \in Int /\ r.seq + r.len <= b,
         NEW to, to = Reached(saved, n)
  PROVE  ReachedWell(saved, n, to)
<1> DEFINE E == {n} \cup {r.seq + r.len : r \in saved}
           In(m) == \E r \in saved : r.seq <= m /\ m < r.seq + r.len
           M == {m \in E : m >= n /\ \A r \in saved : ~(r.seq <= m /\ m < r.seq + r.len)}
           c == IF n <= b THEN b ELSE n
<1>1. E \subseteq Int /\ n \in E /\ c \in Int /\ \A m \in E : m <= c
  OBVIOUS
<1>2. \A r \in saved : r.seq + r.len \in E
  OBVIOUS
<1>3. to = Min(M)
  BY DEF Reached
<1>4. \A m \in E : m >= n /\ ~In(m) => m \in M
  OBVIOUS
<1>5. \A m \in M : m \in E /\ m >= n
  OBVIOUS
<1>6. \A m \in E : m = n \/ \E r \in saved : m = r.seq + r.len
  OBVIOUS
<1> HIDE DEF E, M, c
<1>7. M # {}
  <2>1. Max(E) \in E /\ \A m \in E : m <= Max(E)
    BY <1>1, MaxIs
  <2> DEFINE t == Max(E)
  <2> HIDE DEF t
  <2>2. t \in E /\ t \in Int /\ t >= n /\ \A m \in E : m <= t
    BY <2>1, <1>1 DEF t
  <2>3. ASSUME NEW r \in saved, t < r.seq + r.len PROVE FALSE
    BY <2>2, <2>3, <1>1, <1>2
  <2> QED
    BY <2>2, <2>3, <1>4
<1>8. to \in M /\ \A m \in M : to <= m
  BY <1>1, <1>5, <1>3, <1>7, MinIs
<1>9. to \in E /\ to \in Int /\ to >= n
  BY <1>1, <1>5, <1>8
<1>10. ASSUME NEW m \in Int, n <= m, m < to
       PROVE  In(m)
  <2> DEFINE S == {q \in E : q <= m}
             q == Max(S)
  <2>1. S \subseteq Int /\ n \in S /\ \A i \in S : i <= m
    BY <1>1, <1>10
  <2>2. \A i \in E : i <= m => i \in S
    OBVIOUS
  <2>3. S \subseteq E
    OBVIOUS
  <2> HIDE DEF S
  <2>4. q \in S /\ \A i \in S : i <= q
    BY <2>1, MaxIs
  <2> HIDE DEF q
  <2>5. q \in E /\ q \in Int /\ q >= n /\ q <= m
    BY <2>1, <2>3, <2>4, <1>1
  <2>6. q \notin M
    BY <2>5, <1>8, <1>9, <1>10
  <2>7. In(q)
    BY <2>5, <2>6, <1>4
  <2>8. PICK r \in saved : r.seq <= q /\ q < r.seq + r.len
    BY <2>7
  <2>9. ~(r.seq + r.len <= m)
    BY <2>2, <2>4, <2>5, <2>8, <1>1, <1>2
  <2>10. r.seq <= m /\ m < r.seq + r.len
    BY <2>5, <2>8, <2>9
  <2> QED
    BY <2>10
<1>11. to = n \/ \E r \in saved : to = r.seq + r.len
  BY <1>6, <1>9
<1> QED
  BY <1>9, <1>10, <1>11 DEF ReachedWell

DataFields == {"rbuf", "rlen", "rlist", "rcv_nxt", "rcv_wnd", "sflags", "newData"}

(* Progress of the receiving half leaves the sending half as it is.        *)
LEMMA GoodReceived ==
  ASSUME NEW x, NEW w, Good(x, w), NEW y, Same(x, y, DataFields),
         y.rcv_nxt \in Nat, y.rcv_nxt >= x.rcv_nxt, y.rcv_wnd \in Int
  PROVE  Good(y, w)
<1>1. /\ DOMAIN y = Fields
      /\ y.state = x.state /\ y.shutdown = x.shutdown /\ y.sbuf = x.sbuf /\ y.slist = x.slist
      /\ y.snd_una = x.snd_una /\ y.snd_nxt = x.snd_nxt /\ y.snd_wnd = x.snd_wnd
      /\ y.recover = x.recover /\ y.mss = x.mss /\ y.mtu_advise = x.mtu_advise
      /\ y.msslevel = x.msslevel /\ y.dup_acks = x.dup_acks /\ y.room = x.room
      /\ y.mtu = x.mtu /\ y.cwnd = x.cwnd /\ y.out = x.out
  BY DEF Same, Fields, DataFields
<1>2. Typed(y)
  BY <1>1 DEF Good, Typed
<1>3. Outgoing(y, w)
  <2>1. x.rcv_nxt \in Nat
    BY DEF Good, Typed
  <2>2. ASSUME NEW p \in y.out
        PROVE  /\ PacketOK(p, w) /\ Contents(p, y.snd_una) /\ p.ack <= y.rcv_nxt
               /\ y.state = "TCP_LISTEN" => ~p.ctl
    BY <1>1, <2>2, <2>1 DEF Good, Outgoing, PacketOK
  <2> QED
    BY <2>2 DEF Outgoing
<1> QED
  BY <1>1, <1>2, <1>3, GoodSame

(* What is stored of a segment: every byte of it at the place of its       *)
(* number, and no byte that is right becomes wrong.                        *)
StoredWell(x, z, s, n) ==
  /\ Same(x, z, {"rbuf"}) /\ z.rbuf \in [1 .. BufSize -> Int]
  /\ \A k \in 1 .. BufSize :
       /\ s.seq <= n + k /\ n + k < s.seq + Len(s.data) => z.rbuf[k] = n + k
       /\ x.rbuf[k] = n + k => z.rbuf[k] = n + k

(* The bytes of a segment are their numbers.                               *)
Numbered(s) == \A i \in 1 .. Len(s.data) : s.data[i] = s.seq + i - 1

LEMMA StoredIs ==
  ASSUME NEW x, Typed(x), x.rbuf \in [1 .. BufSize -> Int], x.rlen \in Nat,
         NEW n \in Nat, x.rcv_nxt = n + x.rlen + 1,
         NEW s, s.seq \in Int, s.data \in Seq(Int), Numbered(s),
         NEW z, z = Stored(x, s)
  PROVE  StoredWell(x, z, s, n)
<1> DEFINE seq == s.seq
           data == s.data
           L == Len(data)
           old == x.rbuf
           base == x.rlen + s.seq - x.rcv_nxt
           buf == [k \in 1 .. BufSize |-> IF k - base \in DOMAIN data THEN data[k - base] ELSE old[k]]
<1>1. z = [x EXCEPT !.rbuf = buf]
  BY DEF Stored
<1>2. base \in Int /\ base = seq - n - 1 /\ seq \in Int
  <2> DEFINE a == x.rlen
             c == x.rcv_nxt
  <2>1. a \in Nat /\ seq \in Int /\ c = n + a + 1
    OBVIOUS
  <2> HIDE DEF a, c, seq
  <2>2. a + seq - c \in Int /\ a + seq - c = seq - n - 1
    BY <2>1
  <2> QED
    BY <2>1, <2>2 DEF a, c, seq
<1>3. L \in Nat /\ DOMAIN data = 1 .. L /\ \A i \in 1 .. L : data[i] = seq + i - 1
  BY DEF Numbered
<1>4. old \in [1 .. BufSize -> Int] /\ BufSize \in Nat
  BY TcpConstants
<1>5. Same(x, z, {"rbuf"}) /\ z.rbuf = buf
  <2> HIDE DEF buf
  <2> QED
    BY <1>1 DEF Same, Typed, Fields
<1> HIDE DEF base, seq, data, L, old
<1>6. ASSUME NEW k \in 1 .. BufSize
      PROVE  /\ buf[k] \in Int
             /\ seq <= n + k /\ n + k < seq + L => buf[k] = n + k
             /\ old[k] = n + k => buf[k] = n + k
  <2>1. CASE k - base \in 1 .. L
    <3>1. buf[k] = data[k - base]
      BY <2>1, <1>3
    <3>2. data[k - base] = seq + (k - base) - 1
      BY <2>1, <1>3
    <3>3. buf[k] = n + k
      BY <3>1, <3>2, <1>2
    <3> QED
      BY <3>3
  <2>2. CASE k - base \notin 1 .. L
    BY <2>2, <1>3, <1>2, <1>4
  <2> QED
    BY <2>1, <2>2
<1>7. buf \in [1 .. BufSize -> Int]
  BY <1>6
<1>8. \A k \in 1 .. BufSize :
        /\ s.seq <= n + k /\ n + k < s.seq + Len(s.data) => z.rbuf[k] = n + k
        /\ x.rbuf[k] = n + k => z.rbuf[k] = n + k
  BY <1>5, <1>6 DEF seq, data, L, old
<1> QED
  BY <1>5, <1>7, <1>8 DEF StoredWell

(* A packet that its peer, who has written v bytes, sent to x.             *)
Arrives(x, p, v) ==
  /\ PacketOK(p, v) /\ Contents(p, x.rcv_nxt)
  /\ p.data # <<>> /\ ~p.ctl => x.rcv_nxt >= 1

(* What is left of its data: not beyond v, nor beyond the buffer.          *)
Fitting(s, x, v) ==
  /\ s.seq \in Int /\ s.data \in Seq(Int) /\ s.seq >= x.rcv_nxt /\ Len(s.data) \in Nat \ {0}
  /\ s.seq + Len(s.data) <= v + 1
  /\ s.seq + Len(s.data) <= x.rcv_nxt + (BufSize - x.rlen)
  /\ Numbered(s)

LEMMA FittingIs ==
  ASSUME NEW x, Typed(x), x.rlen \in 0 .. BufSize, NEW v \in Nat,
         NEW p, Arrives(x, p, v), NEW s, s = Trimmed(x, p), s.data # <<>>
  PROVE  /\ Fitting(s, x, v) /\ s.seq \in {p.seq, x.rcv_nxt}
         /\ s.seq + Len(s.data) <= p.seq + Len(p.data)
<1>1. p.data \in Seq(Int) /\ p.seq \in Int /\ p.seq + Len(p.data) <= v + 1
  BY DEF Arrives, PacketOK
<1>2. x.rcv_nxt \in Nat
  BY DEF Typed
<1>3. TrimmedWell(s, p, x.rcv_nxt, BufSize - x.rlen)
  BY <1>1, <1>2, TrimmedIs
<1>4. /\ s.seq \in {p.seq, x.rcv_nxt} /\ s.seq \in Int /\ s.seq >= x.rcv_nxt
      /\ s.seq >= p.seq /\ s.data \in Seq(Int)
      /\ s.seq + Len(s.data) <= p.seq + Len(p.data)
      /\ s.seq - x.rcv_nxt + Len(s.data) <= BufSize - x.rlen
  BY <1>3 DEF TrimmedWell
<1>5. Len(s.data) \in Nat \ {0} /\ Len(p.data) \in Nat
  BY <1>1, <1>4, EmptySeq
<1>6. ASSUME NEW i \in 1 .. Len(s.data)
      PROVE  s.data[i] = s.seq + i - 1
  <2> DEFINE a == s.seq
             b == p.seq
             c == x.rcv_nxt
             N == Len(s.data)
             M == Len(p.data)
             k == (a - b) + i
  <2>1. s.data[i] = p.data[k]
    BY <1>3, <1>6 DEF TrimmedWell
  <2>2. k \in 1 .. Len(p.data) /\ p.seq + k - 1 >= x.rcv_nxt /\ p.seq + k - 1 = s.seq + i - 1
    <3>1. /\ a \in Int /\ b \in Int /\ c \in Nat /\ N \in Nat /\ M \in Nat /\ i \in 1 .. N
          /\ a >= c /\ a >= b /\ a + N <= b + M
      BY <1>1, <1>2, <1>4, <1>5, <1>6
    <3> HIDE DEF a, b, c, N, M
    <3>2. k \in 1 .. M /\ b + k - 1 >= c /\ b + k - 1 = a + i - 1
      BY <3>1
    <3> QED
      BY <3>2 DEF a, b, c, M
  <2> HIDE DEF k
  <2>3. p.data[k] = p.seq + k - 1
    BY <2>2 DEF Arrives, Contents
  <2> QED
    BY <2>1, <2>2, <2>3
<1>7. Numbered(s)
  BY <1>6 DEF Numbered
<1>8. BufSize \in Nat
  BY TcpConstants
<1>9. /\ s.seq + Len(s.data) <= v + 1
      /\ s.seq + Len(s.data) <= x.rcv_nxt + (BufSize - x.rlen)
  <2> DEFINE a == s.seq
             b == p.seq
             c == x.rcv_nxt
             r == x.rlen
             N == Len(s.data)
             M == Len(p.data)
  <2>1. /\ a \in Int /\ b \in Int /\ c \in Nat /\ N \in Nat /\ M \in Nat /\ r \in Int
        /\ a + N <= b + M /\ a - c + N <= BufSize - r /\ b + M <= v + 1
    BY <1>1, <1>2, <1>4, <1>5, <1>8
  <2> HIDE DEF a, b, c, N, M, r
  <2>2. a + N <= v + 1 /\ a + N <= c + (BufSize - r)
    BY <2>1, <1>8
  <2> QED
    BY <2>2 DEF a, c, N, r
<1> QED
  BY <1>4, <1>5, <1>7, <1>9 DEF Fitting

(* A segment in order, and all that was saved behind it.                   *)
Advanced(x, y, s) ==
  LET to == Reached(x.rlist, x.rcv_nxt + Len(s.data))
      z  == Stored(x, s)
  IN /\ Same(x, y, DataFields) /\ y.rbuf = z.rbuf
     /\ y.rlen = x.rlen + (to - x.rcv_nxt) /\ y.rcv_nxt = to
     /\ y.rcv_wnd = x.rcv_wnd - (to - x.rcv_nxt)
     /\ y.rlist = {r \in x.rlist : r.seq > to}

(* The saved segments end within what was written and within the buffer.   *)
LEMMA SavedIs ==
  ASSUME NEW x, NEW v, NEW n, Received(x, v, n), NEW r \in x.rlist
  PROVE  Saved(x, v, n, r)
BY DEF Received

LEMMA SavedKeeps ==
  ASSUME NEW x, NEW v, NEW n, NEW r, Saved(x, v, n, r), NEW y,
         y.rcv_nxt <= r.seq, \A k \in 1 .. BufSize : x.rbuf[k] = n + k => y.rbuf[k] = n + k
  PROVE  Saved(y, v, n, r)
BY DEF Saved

LEMMA ReachedFits ==
  ASSUME NEW x, NEW v \in Nat, NEW n \in Nat, Received(x, v, n), x.rcv_nxt \in Nat,
         NEW next \in Int, next <= v + 1, next <= n + BufSize + 1,
         NEW to, to = Reached(x.rlist, next)
  PROVE  ReachedWell(x.rlist, next, to) /\ to <= v + 1 /\ to <= n + BufSize + 1
<1>1. BufSize \in Nat
  BY TcpConstants
<1>2. ASSUME NEW r \in x.rlist
      PROVE  /\ r.seq \in Int /\ r.len \in Int /\ r.seq + r.len <= v + 1
             /\ r.seq + r.len <= n + BufSize + 1
  BY <1>2, SavedIs DEF Saved
<1> DEFINE saved == x.rlist
           b == v + 1
<1>3. b \in Int /\ \A r \in saved : r.seq \in Int /\ r.len \in Int /\ r.seq + r.len <= b
  BY <1>2
<1>4. to = Reached(saved, next)
  OBVIOUS
<1> HIDE DEF saved, b
<1>5. ReachedWell(saved, next, to)
  BY <1>3, <1>4, ReachedIs
<1>6. to = next \/ \E r \in x.rlist : to = r.seq + r.len
  BY <1>5 DEF ReachedWell, saved
<1> QED
  BY <1>2, <1>5, <1>6 DEF saved

LEMMA AdvancedGood ==
  ASSUME NEW x, NEW w, Good(x, w), NEW v \in Nat, NEW n \in Nat,
         Received(x, v, n), x.rcv_nxt >= 1, x.rlen \in 0 .. BufSize,
         NEW s, Fitting(s, x, v), s.seq = x.rcv_nxt, NEW y, Advanced(x, y, s)
  PROVE  /\ Good(y, w) /\ y.rcv_nxt >= x.rcv_nxt /\ y.rcv_nxt <= v + 1
         /\ y.rlen \in 0 .. BufSize /\ Received(y, v, n)
<1> DEFINE nxt == x.rcv_nxt
           rlen == x.rlen
           L == Len(s.data)
           next == nxt + L
           to == Reached(x.rlist, next)
           z == Stored(x, s)
<1>1. Typed(x) /\ x.rcv_wnd \in Int /\ nxt \in Nat
  BY DEF Good, Typed
<1>2. x.rbuf \in [1 .. BufSize -> Int] /\ nxt = n + rlen + 1
  BY <1>1 DEF Received
<1>3. BufSize \in Nat /\ rlen \in 0 .. BufSize /\ rlen \in Nat
  BY TcpConstants
<1>4. L \in Nat \ {0} /\ nxt + L <= v + 1 /\ nxt + L <= nxt + (BufSize - rlen)
  BY DEF Fitting
<1>5. StoredWell(x, z, s, n)
  <2>1. s.seq \in Int /\ s.data \in Seq(Int) /\ Numbered(s)
    BY DEF Fitting
  <2> HIDE DEF z
  <2> QED
    BY <1>1, <1>2, <1>3, <2>1, StoredIs DEF z
<1>6. next \in Int /\ next <= v + 1 /\ next <= n + BufSize + 1 /\ next > nxt
  <2> HIDE DEF nxt, rlen, L
  <2> QED
    BY <1>1, <1>2, <1>3, <1>4
<1>7. ReachedWell(x.rlist, next, to) /\ to <= v + 1 /\ to <= n + BufSize + 1
  <2> HIDE DEF next, to
  <2> QED
    BY <1>1, <1>6, ReachedFits DEF to
<1>8. to \in Int /\ to >= next /\ to > nxt
  BY <1>7, <1>6, <1>1 DEF ReachedWell
<1>9. /\ Same(x, y, DataFields) /\ y.rbuf = z.rbuf
      /\ y.rlen = rlen + (to - nxt) /\ y.rcv_nxt = to
      /\ y.rcv_wnd = x.rcv_wnd - (to - nxt)
      /\ y.rlist = {r \in x.rlist : r.seq > to}
  BY DEF Advanced
<1> HIDE DEF nxt, rlen, L, next, to, z
<1>10. y.rcv_nxt \in Nat /\ y.rcv_nxt >= nxt /\ y.rcv_nxt <= v + 1 /\ y.rcv_wnd \in Int
  BY <1>1, <1>7, <1>8, <1>9
<1>11. Good(y, w)
  BY <1>9, <1>10, GoodReceived DEF nxt
<1>12. y.rlen \in 0 .. BufSize /\ to = n + y.rlen + 1 /\ to >= 1
  BY <1>1, <1>2, <1>3, <1>7, <1>8, <1>9
<1>13. \A k \in 1 .. BufSize : x.rbuf[k] = n + k => y.rbuf[k] = n + k
  BY <1>5, <1>9 DEF StoredWell
<1>14. ASSUME NEW k \in 1 .. y.rlen
       PROVE  y.rbuf[k] = n + k
  <2>1. k \in 1 .. BufSize /\ n + k < to
    BY <1>3, <1>12, <1>14
  <2>2. CASE k \in 1 .. rlen
    BY <2>2, <2>1, <1>13 DEF Received, rlen
  <2>3. CASE k \notin 1 .. rlen /\ n + k < next
    <3>1. nxt <= n + k
      BY <2>1, <2>3, <1>2, <1>3
    <3>2. s.seq <= n + k /\ n + k < s.seq + Len(s.data)
      BY <3>1, <2>3 DEF nxt, next, L
    <3> QED
      BY <3>2, <2>1, <1>5, <1>9 DEF StoredWell
  <2>4. CASE ~(n + k < next)
    <3> DEFINE m == n + k
    <3>1. m \in Int /\ next <= m /\ m < to
      BY <2>1, <2>4, <1>6
    <3>2. PICK r \in x.rlist : r.seq <= m /\ m < r.seq + r.len
      BY <3>1, <1>7 DEF ReachedWell
    <3>3. Saved(x, v, n, r)
      BY SavedIs
    <3>4. x.rbuf[k] = n + k
      BY <2>1, <3>2, <3>3 DEF Saved
    <3> QED
      BY <3>4, <2>1, <1>13
  <2> QED
    BY <2>2, <2>3, <2>4
<1>15. ASSUME NEW r \in y.rlist
       PROVE  Saved(y, v, n, r)
  BY <1>9, <1>15, <1>8, <1>13, SavedIs, SavedKeeps DEF Saved
<1>16. Received(y, v, n)
  BY <1>5, <1>9, <1>12, <1>8, <1>14, <1>15 DEF StoredWell, Received
<1> QED
  BY <1>10, <1>11, <1>12, <1>16 DEF nxt

(* A segment beyond the next number is saved.                              *)
SavedToo(x, y, s) ==
  /\ Same(x, y, {"rbuf", "rlist"}) /\ y.rbuf = Stored(x, s).rbuf
  /\ y.rlist = x.rlist \cup {[seq |-> s.seq, len |-> Len(s.data)]}

LEMMA SavedTooGood ==
  ASSUME NEW x, NEW w, Good(x, w), NEW v \in Nat, NEW n \in Nat,
         Received(x, v, n), x.rcv_nxt >= 1, x.rlen \in 0 .. BufSize,
         NEW s, Fitting(s, x, v), NEW y, SavedToo(x, y, s)
  PROVE  Good(y, w) /\ Received(y, v, n) /\ y.rcv_nxt = x.rcv_nxt /\ y.rlen = x.rlen
<1> DEFINE z == Stored(x, s)
           q == [seq |-> s.seq, len |-> Len(s.data)]
<1>1. Typed(x) /\ x.rcv_wnd \in Int /\ x.rcv_nxt \in Nat
  BY DEF Good, Typed
<1>2. x.rbuf \in [1 .. BufSize -> Int] /\ x.rcv_nxt = n + x.rlen + 1
  <2>1. x.rcv_nxt # 0
    BY <1>1
  <2> QED
    BY <2>1 DEF Received
<1>3. BufSize \in Nat /\ x.rlen \in Nat
  BY TcpConstants
<1>4. /\ s.seq \in Int /\ s.data \in Seq(Int) /\ Numbered(s) /\ s.seq >= x.rcv_nxt
      /\ Len(s.data) \in Nat
      /\ s.seq + Len(s.data) <= v + 1
      /\ s.seq + Len(s.data) <= x.rcv_nxt + (BufSize - x.rlen)
  BY DEF Fitting
<1>5. StoredWell(x, z, s, n)
  <2> HIDE DEF z
  <2> QED
    BY <1>1, <1>2, <1>3, <1>4, StoredIs DEF z
<1>6. Same(x, y, {"rbuf", "rlist"}) /\ y.rbuf = z.rbuf /\ y.rlist = x.rlist \cup {q}
  BY DEF SavedToo
<1>7. q.seq = s.seq /\ q.len = Len(s.data)
  OBVIOUS
<1> HIDE DEF z, q
<1>8. y.rcv_nxt = x.rcv_nxt /\ y.rlen = x.rlen /\ y.rcv_wnd = x.rcv_wnd /\ Same(x, y, DataFields)
  BY <1>6 DEF Same, Fields, DataFields
<1>9. Good(y, w)
  BY <1>1, <1>8, GoodReceived
<1>10. \A k \in 1 .. BufSize : x.rbuf[k] = n + k => y.rbuf[k] = n + k
  BY <1>5, <1>6 DEF StoredWell
<1>11. Saved(y, v, n, q)
  <2>1. q.seq \in Nat /\ q.len \in Nat /\ x.rcv_nxt <= q.seq /\ q.seq + q.len <= v + 1
    BY <1>1, <1>4, <1>7
  <2>2. q.seq + q.len <= n + BufSize + 1
    <3> DEFINE a == q.seq + q.len
               c == x.rcv_nxt
               r == x.rlen
    <3>1. a \in Int /\ c \in Int /\ r \in Int /\ c = n + r + 1 /\ a <= c + (BufSize - r)
      BY <1>1, <1>2, <1>3, <1>4, <1>7
    <3> HIDE DEF a, c, r
    <3>2. a <= n + BufSize + 1
      BY <3>1, <1>3
    <3> QED
      BY <3>2 DEF a
  <2>3. \A k \in 1 .. BufSize : q.seq <= n + k /\ n + k < q.seq + q.len => y.rbuf[k] = n + k
    BY <1>5, <1>6, <1>7 DEF StoredWell
  <2> QED
    BY <2>1, <2>2, <2>3, <1>8 DEF Saved
<1>12. ASSUME NEW r \in x.rlist
       PROVE  Saved(y, v, n, r)
  BY <1>8, <1>10, SavedIs, SavedKeeps DEF Saved
<1>13. \A r \in y.rlist : Saved(y, v, n, r)
  BY <1>6, <1>11, <1>12
<1>14. \A k \in 1 .. y.rlen : y.rbuf[k] = n + k
  <2> SUFFICES ASSUME NEW k \in 1 .. x.rlen PROVE y.rbuf[k] = n + k
    BY <1>8
  <2>1. k \in 1 .. BufSize
    BY <1>3
  <2>2. x.rbuf[k] = n + k
    BY DEF Received
  <2> QED
    BY <2>1, <2>2, <1>10
<1>15. Received(y, v, n)
  <2>1. y.rbuf \in [1 .. BufSize -> Int]
    BY <1>5, <1>6 DEF StoredWell
  <2>2. y.rcv_nxt # 0 /\ y.rcv_nxt = n + y.rlen + 1
    BY <1>1, <1>2, <1>8
  <2> QED
    BY <2>1, <2>2, <1>13, <1>14 DEF Received
<1> QED
  BY <1>8, <1>9, <1>15

(* What the data of a packet does to its receiver.                         *)
Progress(x, y, p, v, n) ==
  /\ y.rcv_nxt >= x.rcv_nxt /\ y.rcv_nxt <= v + 1 /\ y.rlen \in 0 .. BufSize
  /\ ~y.shutdown => Received(y, v, n)
  /\ p.ctl /\ (x.rcv_nxt >= 1 \/ ~x.shutdown) => y.rcv_nxt >= 1

LEMMA ReceivedSame ==
  ASSUME NEW x, NEW v, NEW n, Received(x, v, n), NEW y,
         y.rbuf = x.rbuf, y.rlen = x.rlen, y.rlist = x.rlist, y.rcv_nxt = x.rcv_nxt
  PROVE  Received(y, v, n)
BY SavedIs DEF Saved, Received

(* Only the number of the next byte moves: the packet that opens a         *)
(* connection, or data for a user who has closed the stream.               *)
LEMMA SkippedGood ==
  ASSUME NEW x, NEW w, Good(x, w), x.rlen \in 0 .. BufSize,
         NEW v \in Nat, NEW n \in Nat, ~x.shutdown => Received(x, v, n),
         NEW p, Arrives(x, p, v), p.ctl \/ x.shutdown,
         NEW s, s = Trimmed(x, p), s.data # <<>>, s.seq = x.rcv_nxt,
         NEW y, y = [x EXCEPT !.rcv_nxt = x.rcv_nxt + Len(s.data)]
  PROVE  Good(y, w) /\ Progress(x, y, p, v, n) /\ Same(x, y, DataFields)
<1> DEFINE nxt == x.rcv_nxt
           L == Len(s.data)
           next == nxt + L
<1>1. Typed(x) /\ x.rcv_wnd \in Int /\ nxt \in Nat
  BY DEF Good, Typed
<1>2. /\ Fitting(s, x, v) /\ s.seq \in {p.seq, x.rcv_nxt}
      /\ s.seq + Len(s.data) <= p.seq + Len(p.data)
  BY <1>1, FittingIs
<1>3. L \in Nat \ {0} /\ next <= v + 1 /\ next <= p.seq + Len(p.data)
  BY <1>2 DEF Fitting
<1>4. y = [x EXCEPT !.rcv_nxt = next]
  OBVIOUS
<1> HIDE DEF next
<1>5. /\ y.rcv_nxt = next /\ y.rlen = x.rlen /\ y.shutdown = x.shutdown /\ y.rcv_wnd = x.rcv_wnd
      /\ y.rbuf = x.rbuf /\ y.rlist = x.rlist /\ Same(x, y, DataFields)
  BY SMTT(30), <1>1, <1>4 DEF Same, Fields, DataFields, Typed
<1>6. next \in Nat /\ next >= nxt /\ next >= 1
  <2> HIDE DEF nxt, L
  <2> QED
    BY <1>1, <1>3 DEF next
<1>7. Good(y, w)
  BY <1>1, <1>5, <1>6, GoodReceived DEF nxt
<1>8. ASSUME ~x.shutdown
      PROVE  Received(y, v, n)
  <2>1. p.ctl /\ p.seq = 0 /\ Len(p.data) = 1
    BY <1>8 DEF Arrives, PacketOK
  <2>2. next <= 1
    BY <1>3, <2>1
  <2>3. nxt = 0 /\ next = 1
    <3> HIDE DEF nxt, L
    <3> QED
      BY <2>2, <1>1, <1>3 DEF next
  <2>4. Received(x, v, n) /\ n = 0 /\ x.rlen = 0 /\ x.rlist = {} /\ x.rbuf \in [1 .. BufSize -> Int]
    BY <1>8, <2>3 DEF Received
  <2>5. y.rcv_nxt = 1 /\ y.rlen = 0 /\ y.rlist = {} /\ y.rbuf \in [1 .. BufSize -> Int]
    BY <1>5, <2>3, <2>4
  <2>6. y.rcv_nxt = n + y.rlen + 1
    BY <2>4, <2>5
  <2> QED
    BY <2>4, <2>5, <2>6 DEF Received
<1>9. Progress(x, y, p, v, n)
  BY <1>3, <1>5, <1>6, <1>8 DEF Progress, nxt
<1> QED
  BY <1>5, <1>7, <1>9

(* The four ways in which process() takes the part s of a packet's data.   *)
DataCases(x, y, p, s) ==
  \/ y = x /\ (s.data = <<>> \/ s.seq # x.rcv_nxt)
  \/ /\ s.data # <<>> /\ (p.ctl \/ x.shutdown) /\ s.seq = x.rcv_nxt
     /\ y = [x EXCEPT !.rcv_nxt = x.rcv_nxt + Len(s.data)]
  \/ s.data # <<>> /\ ~(p.ctl \/ x.shutdown) /\ s.seq = x.rcv_nxt /\ Advanced(x, y, s)
  \/ s.data # <<>> /\ ~(p.ctl \/ x.shutdown) /\ s.seq # x.rcv_nxt /\ SavedToo(x, y, s)

LEMMA DataPartIs ==
  ASSUME NEW x, DOMAIN x = Fields, NEW p, NEW s, s = Trimmed(x, p), NEW y, y = DataPart(x, p)
  PROVE  DataCases(x, y, p, s)
<1> DEFINE next == x.rcv_nxt + Len(s.data)
           to == Reached(x.rlist, next)
           new == to - x.rcv_nxt
           flag == IF to > next THEN "sfImmediateAck" ELSE x.sflags
           left == {r \in x.rlist : r.seq > to}
           more == x.rlist \cup {[seq |-> s.seq, len |-> Len(s.data)]}
           z == Stored(x, s)
<1>1. /\ s.data = <<>> => y = x
      /\ s.data # <<>> /\ (p.ctl \/ x.shutdown) =>
           y = IF s.seq = x.rcv_nxt THEN [x EXCEPT !.rcv_nxt = next] ELSE x
      /\ s.data # <<>> /\ ~(p.ctl \/ x.shutdown) /\ s.seq = x.rcv_nxt =>
           y = [z EXCEPT !.rlen = @ + new, !.rcv_nxt = to, !.rcv_wnd = @ - new,
                         !.rlist = {r \in @ : r.seq > to},
                         !.sflags = IF to > next THEN "sfImmediateAck" ELSE @,
                         !.newData = TRUE]
      /\ s.data # <<>> /\ ~(p.ctl \/ x.shutdown) /\ s.seq # x.rcv_nxt =>
           y = [z EXCEPT !.rlist = @ \cup {[seq |-> s.seq, len |-> Len(s.data)]}]
  BY DEF DataPart
<1>2. z = [x EXCEPT !.rbuf = z.rbuf]
  <2> DEFINE b == [k \in 1 .. BufSize |->
                     LET i == k - (x.rlen + s.seq - x.rcv_nxt)
                     IN IF i \in DOMAIN s.data THEN s.data[i] ELSE x.rbuf[k]]
  <2>1. z = [x EXCEPT !.rbuf = b]
    BY DEF Stored
  <2> HIDE DEF b, z
  <2>2. z.rbuf = b
    BY <2>1 DEF Fields
  <2> QED
    BY <2>1, <2>2
<1> HIDE DEF z
<1>3. ASSUME s.data # <<>>, ~(p.ctl \/ x.shutdown), s.seq = x.rcv_nxt
      PROVE  Advanced(x, y, s)
  <2>1. y = [z EXCEPT !.rlen = @ + new, !.rcv_nxt = to, !.rcv_wnd = @ - new,
                      !.rlist = {r \in @ : r.seq > to},
                      !.sflags = IF to > next THEN "sfImmediateAck" ELSE @,
                      !.newData = TRUE]
    BY <1>1, <1>3
  <2> DEFINE b == z.rbuf
             rlen == x.rlen + new
             wnd == x.rcv_wnd - new
  <2>2. z = [x EXCEPT !.rbuf = b]
    BY <1>2
  <2> HIDE DEF b, to, new, next
  <2>3. y = [x EXCEPT !.rbuf = b, !.rlen = rlen, !.rcv_nxt = to, !.rcv_wnd = wnd, !.rlist = left,
                      !.sflags = flag, !.newData = TRUE]
    BY <2>1, <2>2 DEF Fields
  <2> HIDE DEF flag, left, rlen, wnd
  <2>4. /\ y.rbuf = b /\ y.rlen = rlen /\ y.rcv_nxt = to /\ y.rcv_wnd = wnd /\ y.rlist = left
        /\ Same(x, y, DataFields)
    BY ZenonT(30), <2>3 DEF Same, Fields, DataFields
  <2> QED
    BY <2>4 DEF Advanced, b, z, rlen, wnd, new, to, next, left
<1>4. ASSUME s.data # <<>>, ~(p.ctl \/ x.shutdown), s.seq # x.rcv_nxt
      PROVE  SavedToo(x, y, s)
  <2>1. y = [z EXCEPT !.rlist = @ \cup {[seq |-> s.seq, len |-> Len(s.data)]}]
    BY <1>1, <1>4
  <2> DEFINE b == z.rbuf
  <2>2. z = [x EXCEPT !.rbuf = b]
    BY <1>2
  <2> HIDE DEF b
  <2>3. y = [x EXCEPT !.rbuf = b, !.rlist = more]
    BY <2>1, <2>2 DEF Fields
  <2> HIDE DEF more
  <2>4. y.rbuf = b /\ y.rlist = more /\ Same(x, y, {"rbuf", "rlist"})
    BY <2>3 DEF Same, Fields
  <2> QED
    BY <2>4 DEF SavedToo, b, z, more
<1> QED
  BY <1>1, <1>3, <1>4 DEF DataCases

LEMMA DataPartGood ==
  ASSUME NEW x, NEW w, Good(x, w), x.rlen \in 0 .. BufSize,
         NEW v \in Nat, x.rcv_nxt <= v + 1, NEW n \in Nat, ~x.shutdown => Received(x, v, n),
         NEW p, Arrives(x, p, v), NEW y, y = DataPart(x, p)
  PROVE  Good(y, w) /\ Progress(x, y, p, v, n) /\ Same(x, y, DataFields)
<1> DEFINE s == Trimmed(x, p)
<1>1. Typed(x) /\ x.rcv_nxt \in Nat /\ DOMAIN x = Fields /\ x.shutdown \in BOOLEAN /\ p.ctl \in BOOLEAN
  BY DEF Good, Typed, Arrives, PacketOK
<1>2. s.seq \in {p.seq, x.rcv_nxt} /\ s.seq >= x.rcv_nxt
      /\ (p.seq = x.rcv_nxt /\ Len(p.data) = 1 /\ x.rlen < BufSize => Len(s.data) = 1)
  BY <1>1, TrimmedIs DEF Arrives, PacketOK, TrimmedWell
<1>3. ASSUME p.ctl, x.rcv_nxt = 0, ~x.shutdown
      PROVE  s.seq = x.rcv_nxt /\ Len(s.data) = 1
  <2>1. p.seq = 0 /\ Len(p.data) = 1
    BY <1>3 DEF Arrives, PacketOK
  <2>2. x.rlen = 0
    BY <1>3 DEF Received
  <2>3. BufSize >= 1
    BY TcpConstants
  <2>4. x.rlen < BufSize
    BY <2>2, <2>3, TcpConstants
  <2>5. p.seq = x.rcv_nxt
    BY <1>3, <2>1
  <2> HIDE DEF s
  <2> QED
    BY <1>2, <2>1, <2>4, <2>5
<1>4. s = Trimmed(x, p)
  OBVIOUS
<1> HIDE DEF s
<1>5. DataCases(x, y, p, s)
  BY <1>1, <1>4, DataPartIs
<1>6. CASE y = x /\ (s.data = <<>> \/ s.seq # x.rcv_nxt)
  <2>1. p.ctl /\ (x.rcv_nxt >= 1 \/ ~x.shutdown) => x.rcv_nxt >= 1
    <3> SUFFICES ASSUME p.ctl, x.rcv_nxt = 0, ~x.shutdown PROVE FALSE
      BY <1>1
    <3>1. s.seq = x.rcv_nxt /\ Len(s.data) = 1
      BY <1>3
    <3>2. s.data = <<>>
      BY <3>1, <1>6
    <3> QED
      BY <3>1, <3>2
  <2> QED
    BY <1>6, <1>1, <2>1 DEF Progress, Same
<1>7. CASE /\ s.data # <<>> /\ (p.ctl \/ x.shutdown) /\ s.seq = x.rcv_nxt
           /\ y = [x EXCEPT !.rcv_nxt = x.rcv_nxt + Len(s.data)]
  BY <1>4, <1>7, SkippedGood
<1>8. ASSUME s.data # <<>>, ~(p.ctl \/ x.shutdown)
      PROVE  Fitting(s, x, v) /\ x.rcv_nxt >= 1 /\ Received(x, v, n)
  <2>1. Fitting(s, x, v)
    BY <1>1, <1>8, FittingIs DEF s
  <2>2. p.data # <<>>
    <3>1. s.seq + Len(s.data) <= p.seq + Len(p.data) /\ s.seq >= p.seq
      BY <1>1, <1>8, TrimmedIs DEF Arrives, PacketOK, TrimmedWell, s
    <3> QED
      BY SMTT(30), <3>1, <2>1 DEF Fitting, Arrives, PacketOK
  <2> QED
    BY <2>1, <2>2, <1>8 DEF Arrives
<1>9. CASE s.data # <<>> /\ ~(p.ctl \/ x.shutdown) /\ s.seq = x.rcv_nxt /\ Advanced(x, y, s)
  BY <1>8, <1>9, AdvancedGood DEF Progress, Advanced
<1>10. CASE s.data # <<>> /\ ~(p.ctl \/ x.shutdown) /\ s.seq # x.rcv_nxt /\ SavedToo(x, y, s)
  BY <1>8, <1>10, <1>1, SavedTooGood DEF Progress, SavedToo, Same, Fields, DataFields
<1> QED
  BY <1>5, <1>6, <1>7, <1>9, <1>10 DEF DataCases

-----------------------------------------------------------------------------
(***************************************************************************)
(* The windows.  Segments lie without a gap, and numbers at which a packet *)
(* begins or ends stay numbers at which segments do: whole segments are    *)
(* acknowledged, and none is cut at the receiver.                          *)
(***************************************************************************)
Aligned(una, list) ==
  \A i \in 1 .. Len(list) : list[i].seq = una + Offsets(list)[i - 1]

Edges(una, list) == {una + Offsets(list)[k] : k \in 0 .. Len(list)}

LEMMA CutAligned ==
  ASSUME NEW list \in Seq(Segments), NEW una \in Nat, Aligned(una, list),
         NEW i \in 1 .. Len(list), NEW n \in 1 .. list[i].len, NEW sent,
         NEW cut, NEW d, CutAfter(cut, list, i, n, sent, d)
  PROVE  /\ Aligned(una, cut) /\ Edges(una, list) \subseteq Edges(una, cut)
         /\ list[i].seq + n \in Edges(una, cut)
         /\ list[i].seq = una + Offsets(list)[i - 1]
<1> DEFINE N == Len(list)
           a == Offsets(list)
           b == Offsets(cut)
<1>1. N \in Nat /\ d \in {0, 1} /\ i \in Nat
  BY DEF CutAfter
<1>2. /\ cut \in Seq(Segments) /\ Len(cut) = N + d
      /\ \A j \in 1 .. i - 1 : cut[j] = list[j]
      /\ cut[i].seq = list[i].seq
      /\ d = 1 => cut[i + 1].seq = list[i].seq + n
      /\ \A j \in i + 1 .. N : cut[j + d] = list[j]
      /\ \A j \in 0 .. i - 1 : b[j] = a[j]
      /\ b[i] = a[i - 1] + n
      /\ \A j \in i .. N : b[j + d] = a[j]
  BY Zenon DEF CutAfter
<1>3. \A j \in 1 .. N : list[j].seq = una + a[j - 1]
  BY DEF Aligned
<1>4. a \in [0 .. N -> Nat]
  BY OffsetsAre
<1>5. n \in Nat
  BY SegmentIs
<1> HIDE DEF a, b
<1>6. list[i].seq = una + a[i - 1] /\ a[i - 1] \in Nat
  BY <1>3, <1>4
<1>7. ASSUME NEW j \in 1 .. N + d PROVE cut[j].seq = una + b[j - 1]
  <2>1. CASE j <= i - 1
    <3>1. j \in 1 .. i - 1 /\ j - 1 \in 0 .. i - 1 /\ j \in 1 .. N
      BY <2>1, <1>1
    <3> QED
      BY <3>1, <1>2, <1>3
  <2>2. CASE j = i
    BY <1>1, <1>2, <2>2, <1>6
  <2>3. CASE j = i + 1 /\ d = 1
    BY <2>3, <1>1, <1>2, <1>5, <1>6
  <2>4. CASE j > i + d
    <3> DEFINE k == j - d
    <3>1. k \in i + 1 .. N /\ j = k + d /\ k - 1 \in i .. N /\ j - 1 = (k - 1) + d /\ k \in 1 .. N
      BY <2>4, <1>1
    <3>2. cut[j] = list[k] /\ b[j - 1] = a[k - 1]
      BY <3>1, <1>2
    <3> QED
      BY <3>1, <3>2, <1>3
  <2> QED
    BY <2>1, <2>2, <2>3, <2>4, <1>1
<1>8. Aligned(una, cut)
  BY <1>2, <1>7 DEF Aligned, b
<1>9. ASSUME NEW k \in 0 .. N PROVE una + a[k] \in Edges(una, cut)
  <2>1. CASE k <= i - 1
    <3>1. k \in 0 .. i - 1 /\ k \in 0 .. N + d
      BY <2>1, <1>1
    <3>2. b[k] = a[k]
      BY <3>1, <1>2
    <3> QED
      BY <3>1, <3>2, <1>2 DEF Edges, b
  <2>2. CASE k >= i
    BY <2>2, <1>1, <1>2 DEF Edges, b
  <2> QED
    BY <2>1, <2>2, <1>1
<1>10. Edges(una, list) \subseteq Edges(una, cut)
  BY <1>9 DEF Edges, a
<1>11. list[i].seq + n \in Edges(una, cut)
  BY <1>1, <1>2, <1>5, <1>6 DEF Edges, b
<1> QED
  BY <1>6, <1>8, <1>10, <1>11 DEF a

LEMMA LongerAligned ==
  ASSUME NEW list \in Seq(Segments), list # <<>>, NEW una \in Nat, Aligned(una, list),
         NEW n \in Nat, NEW new, LongerBy(new, list, n)
  PROVE  /\ Aligned(una, new)
         /\ \A m \in Edges(una, list) :
              m \in Edges(una, new) \/ m = una + Offsets(list)[Len(list)]
<1> DEFINE N == Len(list)
           a == Offsets(list)
           b == Offsets(new)
<1>1. N \in Nat \ {0}
  BY EmptySeq
<1>2. /\ Len(new) = N /\ \A j \in 1 .. N - 1 : new[j] = list[j]
      /\ new[N].seq = list[N].seq
      /\ \A j \in 0 .. N - 1 : b[j] = a[j]
  BY Zenon DEF LongerBy
<1>3. \A j \in 1 .. N : list[j].seq = una + a[j - 1]
  BY DEF Aligned
<1> HIDE DEF N, a, b
<1>4. ASSUME NEW j \in 1 .. N PROVE new[j].seq = una + b[j - 1]
  <2>1. j - 1 \in 0 .. N - 1
    BY <1>1
  <2>2. b[j - 1] = a[j - 1] /\ list[j].seq = una + a[j - 1]
    BY <2>1, <1>2, <1>3
  <2>3. j \in 1 .. N - 1 \/ j = N
    BY <1>1
  <2>4. new[j].seq = list[j].seq
    BY <2>3, <1>2
  <2> QED
    BY <2>2, <2>4
<1>5. Aligned(una, new)
  BY <1>2, <1>4 DEF Aligned, b
<1>6. ASSUME NEW k \in 0 .. N
      PROVE  una + a[k] \in Edges(una, new) \/ una + a[k] = una + a[N]
  BY <1>2, <1>1 DEF Edges, b
<1> QED
  BY <1>5, <1>6 DEF Edges, a, N

LEMMA FollowedAligned ==
  ASSUME NEW list \in Seq(Segments), NEW una \in Nat, Aligned(una, list),
         NEW seg, seg.seq = una + Offsets(list)[Len(list)],
         NEW new, FollowedBy(new, list, seg)
  PROVE  Aligned(una, new) /\ Edges(una, list) \subseteq Edges(una, new)
<1> DEFINE N == Len(list)
           a == Offsets(list)
           b == Offsets(new)
<1>1. N \in Nat
  OBVIOUS
<1>2. /\ Len(new) = N + 1 /\ \A j \in 1 .. N : new[j] = list[j]
      /\ new[N + 1] = seg
      /\ \A j \in 0 .. N : b[j] = a[j]
  BY Zenon DEF FollowedBy
<1>3. \A j \in 1 .. N : list[j].seq = una + a[j - 1]
  BY DEF Aligned
<1>4. seg.seq = una + a[N]
  OBVIOUS
<1> HIDE DEF N, a, b
<1>5. ASSUME NEW j \in 1 .. N + 1 PROVE new[j].seq = una + b[j - 1]
  <2>1. j - 1 \in 0 .. N
    BY <1>1
  <2>2. b[j - 1] = a[j - 1]
    BY <2>1, <1>2
  <2>3. CASE j \in 1 .. N
    BY <2>2, <2>3, <1>2, <1>3
  <2>4. CASE j = N + 1
    BY <2>4, <1>1, <2>2, <1>2, <1>4
  <2> QED
    BY <2>3, <2>4, <1>1
<1>6. Aligned(una, new)
  BY <1>2, <1>5 DEF Aligned, b
<1>7. \A k \in 0 .. N : k \in 0 .. N + 1 /\ una + a[k] = una + b[k]
  BY <1>1, <1>2
<1> QED
  BY <1>2, <1>6, <1>7 DEF Edges, a, b, N

(* Bytes up to the end of a segment acknowledged: nothing of a segment is. *)
LEMMA WithoutAligned ==
  ASSUME NEW list \in Seq(Segments), NEW una \in Nat, Aligned(una, list),
         NEW top \in Edges(una, list), NEW new, NEW gone, NEW part,
         Without(new, list, top - una, gone, part)
  PROVE  /\ Aligned(top, new)
         /\ \A m \in Edges(una, list) : m <= top \/ m \in Edges(top, new)
<1> DEFINE N == Len(list)
           a == Offsets(list)
           b == Offsets(new)
           n == top - una
<1>1. N \in Nat /\ a \in [0 .. N -> Nat]
  BY OffsetsAre
<1>2. PICK k \in 0 .. N : top = una + a[k]
  BY DEF Edges
<1>3. /\ gone \in 0 .. N /\ part \in Nat /\ a[gone] + part = n
      /\ IF gone = N THEN part = 0 ELSE part < list[gone + 1].len
      /\ new \in Seq(Segments) /\ Len(new) = N - gone
      /\ \A j \in 1 .. N - gone : new[j].seq = list[gone + j].seq
      /\ \A j \in 1 .. N - gone : b[j] = a[gone + j] - n
  BY Zenon DEF Without
<1>4. \A j \in 1 .. N : list[j].seq = una + a[j - 1]
  BY DEF Aligned
<1>5. \A j \in 1 .. N : a[j] = a[j - 1] + list[j].len
  BY OffsetsAre
<1>6. \A i \in 0 .. N : \A j \in i .. N : a[j] >= a[i] + (j - i)
  BY OffsetsGrow
<1>7. b[0] = 0
  BY <1>3, OffsetsAre
<1>8. \A j \in 1 .. N : list[j].len \in Nat
  BY SegmentIs
<1>9. n = a[k] /\ n \in Nat /\ a[gone] \in Nat /\ a[k] \in Nat /\ top = una + n
  <2> HIDE DEF a
  <2>1. a[k] \in Nat /\ a[gone] \in Nat
    BY <1>1, <1>2, <1>3
  <2>2. n = a[k] /\ top = una + n
    BY <2>1, <1>2
  <2> QED
    BY <2>1, <2>2
<1> HIDE DEF N, a, b, n
<1>10. gone = k
  <2>1. CASE k < gone
    <3>1. a[gone] >= a[k] + (gone - k)
      BY <2>1, <1>1, <1>3, <1>6
    <3> DEFINE u == a[gone]
               v == a[k]
    <3>2. u \in Nat /\ v \in Nat /\ u + part = v /\ u >= v + (gone - k)
      BY <3>1, <1>3, <1>9
    <3> HIDE DEF u, v
    <3> QED
      BY <3>2, <2>1, <1>1, <1>3
  <2>2. CASE k > gone
    <3>1. gone + 1 \in 1 .. N /\ k \in gone + 1 .. N /\ gone + 1 \in 0 .. N /\ (gone + 1) - 1 = gone
      BY <2>2, <1>1, <1>3
    <3>2. a[gone + 1] = a[gone] + list[gone + 1].len
      BY <3>1, <1>5
    <3>3. a[k] >= a[gone + 1] + (k - (gone + 1))
      BY <3>1, <1>6
    <3>4. part < list[gone + 1].len /\ a[gone + 1] \in Nat /\ list[gone + 1].len \in Nat
      BY <3>1, <1>1, <1>3, <1>8
    <3> DEFINE u == a[gone]
               v == a[k]
               l == list[gone + 1].len
    <3>5. /\ u \in Nat /\ v \in Nat /\ l \in Nat /\ part \in Nat /\ part < l /\ u + part = v
          /\ v >= (u + l) + (k - (gone + 1))
      BY <3>2, <3>3, <3>4, <1>3, <1>9
    <3> HIDE DEF u, v, l
    <3> QED
      BY <3>1, <3>5, <1>1, <1>3
  <2> QED
    BY <2>1, <2>2, <1>1, <1>3
<1>11. ASSUME NEW j \in 1 .. N - gone PROVE new[j].seq = top + b[j - 1]
  <2>1. gone + j \in 1 .. N /\ (gone + j) - 1 = gone + (j - 1) /\ gone + (j - 1) \in 0 .. N
    BY <1>1, <1>3
  <2>2. new[j].seq = una + a[gone + (j - 1)] /\ a[gone + (j - 1)] \in Nat
    BY <2>1, <1>1, <1>3, <1>4
  <2>3. b[j - 1] = a[gone + (j - 1)] - n
    <3>1. CASE j = 1
      BY <3>1, <1>1, <1>10, <1>7, <1>9
    <3>2. CASE j # 1
      BY <3>2, <1>1, <1>3
    <3> QED
      BY <3>1, <3>2
  <2> QED
    BY <2>2, <2>3, <1>9
<1>12. Aligned(top, new)
  BY <1>3, <1>11 DEF Aligned, b
<1>13. ASSUME NEW j \in 0 .. N PROVE una + a[j] <= top \/ una + a[j] \in Edges(top, new)
  <2>1. CASE j <= k
    <3>1. a[k] >= a[j] + (k - j) /\ a[j] \in Nat
      BY <2>1, <1>1, <1>6
    <3> QED
      BY <2>1, <3>1, <1>9
  <2>2. CASE j > k
    <3> DEFINE i == j - gone
    <3>1. i \in 1 .. N - gone /\ i \in 0 .. N - gone /\ gone + i = j
      BY <2>2, <1>1, <1>3, <1>10
    <3>2. b[i] = a[j] - n /\ a[j] \in Nat
      BY <3>1, <1>1, <1>3
    <3>3. una + a[j] = top + b[i]
      BY <3>2, <1>9
    <3> QED
      BY <3>1, <3>3, <1>3 DEF Edges, b
  <2> QED
    BY <2>1, <2>2, <1>1
<1> QED
  BY <1>12, <1>13 DEF Edges, a, N

(* A number up to which x has sent that is not within one of its segments. *)
Mark(x, m) ==
  m \in Int /\ (m <= x.snd_una \/ (m <= x.snd_nxt /\ m \in Edges(x.snd_una, x.slist)))

Marked(x, p) == p.data # <<>> => Mark(x, p.seq + Len(p.data))
Onward(o, x) == \A m : Mark(o, m) => Mark(x, m)

(* Nothing that x has sent or may send lies beyond b.                      *)
Inside(x, b) == x.snd_nxt <= b /\ x.snd_una + x.snd_wnd <= b

(* What holds of the halves of the block x of a handler that began with o: *)
(* B has the edge of the peer's window and Z the peer, while there is one  *)
(* and, in Z, while it was not forced beyond its window.                   *)
Sends(o, x, B) ==
  /\ Aligned(x.snd_una, x.slist) /\ Onward(o, x)
  /\ \A p \in x.out : Marked(x, p)
  /\ \A b \in B : Inside(x, b)

Edge(x) == x.rcv_nxt + x.rcv_wnd

Receives(o, x, Z) ==
  \A z \in Z :
    /\ 0 <= x.rcv_wnd /\ x.rcv_wnd + x.rlen <= BufSize /\ Edge(o) <= Edge(x)
    /\ Mark(z, x.rcv_nxt) /\ \A r \in x.rlist : Mark(z, r.seq + r.len)
    /\ \A p \in x.out : Mark(z, p.ack) /\ p.ack + p.wnd <= Edge(x)

Tight(o, x, B, Z) ==
  /\ o.forced => x.forced
  /\ ~x.forced => Sends(o, x, B)
  /\ Receives(o, x, Z)

LEMMA WindowTold ==
  ASSUME NEW a \in Nat
  PROVE  a % 2^16 \in Nat /\ a % 2^16 <= a
OBVIOUS

(* x writes one packet more, which says how far x has received.            *)
ReceivingSame(x, y) ==
  y.rcv_nxt = x.rcv_nxt /\ y.rcv_wnd = x.rcv_wnd /\ y.rlen = x.rlen /\ y.rlist = x.rlist

LEMMA ReceivesMore ==
  ASSUME NEW o, NEW x, NEW Z, Receives(o, x, Z), x.rcv_nxt \in Nat, x.rcv_wnd \in Int,
         NEW y, ReceivingSame(x, y), NEW p, y.out \subseteq x.out \cup {p},
         p \in x.out \/ (p.ack = x.rcv_nxt /\ p.wnd = x.rcv_wnd % 2^16)
  PROVE  Receives(o, y, Z)
<1> SUFFICES ASSUME NEW z \in Z
             PROVE  /\ 0 <= y.rcv_wnd /\ y.rcv_wnd + y.rlen <= BufSize /\ Edge(o) <= Edge(y)
                    /\ Mark(z, y.rcv_nxt) /\ \A r \in y.rlist : Mark(z, r.seq + r.len)
                    /\ \A q \in y.out : Mark(z, q.ack) /\ q.ack + q.wnd <= Edge(y)
  BY DEF Receives
<1>1. /\ 0 <= x.rcv_wnd /\ x.rcv_wnd + x.rlen <= BufSize /\ Edge(o) <= Edge(x)
      /\ Mark(z, x.rcv_nxt) /\ \A r \in x.rlist : Mark(z, r.seq + r.len)
      /\ \A q \in x.out : Mark(z, q.ack) /\ q.ack + q.wnd <= Edge(x)
  BY DEF Receives
<1>2. /\ y.rcv_nxt = x.rcv_nxt /\ y.rcv_wnd = x.rcv_wnd /\ y.rlen = x.rlen /\ y.rlist = x.rlist
      /\ Edge(y) = Edge(x)
  BY DEF ReceivingSame, Edge
<1>3. p \in x.out \/ (Mark(z, p.ack) /\ p.ack + p.wnd <= Edge(x))
  <2> SUFFICES ASSUME p.ack = x.rcv_nxt, p.wnd = x.rcv_wnd % 2^16
               PROVE  Mark(z, p.ack) /\ p.ack + p.wnd <= Edge(x)
    OBVIOUS
  <2> DEFINE a == x.rcv_wnd
             m == a % 2^16
  <2>1. a \in Nat /\ Edge(x) = x.rcv_nxt + a /\ p.wnd = m
    BY <1>1 DEF Edge
  <2> HIDE DEF a
  <2>2. m \in Nat /\ m <= a
    BY <2>1, WindowTold
  <2> HIDE DEF m
  <2> QED
    BY <2>1, <2>2, <1>1
<1>4. ASSUME NEW q \in y.out
      PROVE  Mark(z, q.ack) /\ q.ack + q.wnd <= Edge(y)
  BY <1>1, <1>2, <1>3
<1> QED
  BY <1>1, <1>2, <1>4

SendingSame(x, y) ==
  /\ y.slist = x.slist /\ y.snd_una = x.snd_una /\ y.snd_nxt = x.snd_nxt
  /\ y.snd_wnd = x.snd_wnd

LEMMA MarkSame ==
  ASSUME NEW x, NEW y, SendingSame(x, y), NEW m, Mark(x, m)
  PROVE  Mark(y, m)
BY DEF SendingSame, Mark

LEMMA SendsMore ==
  ASSUME NEW o, NEW x, NEW B, Sends(o, x, B), NEW y, SendingSame(x, y),
         NEW p, y.out \subseteq x.out \cup {p}, p \in x.out \/ p.data = <<>>
  PROVE  Sends(o, y, B)
BY MarkSame DEF Sends, SendingSame, Onward, Marked, Inside

LEMMA TightMore ==
  ASSUME NEW o, NEW x, Typed(x), NEW B, NEW Z, Tight(o, x, B, Z),
         NEW y, SendingSame(x, y), ReceivingSame(x, y), (y.forced <=> x.forced),
         NEW p, y.out \subseteq x.out \cup {p},
         p \in x.out \/ (p.data = <<>> /\ p.ack = x.rcv_nxt /\ p.wnd = x.rcv_wnd % 2^16)
  PROVE  Tight(o, y, B, Z)
BY ReceivesMore, SendsMore DEF Typed, Tight

(* What does not concern the windows.                                      *)
TightFields == {"slist", "snd_una", "snd_nxt", "snd_wnd", "rcv_nxt", "rcv_wnd",
                "rlen", "rlist", "forced", "out"}

LEMMA SameKeeps ==
  ASSUME NEW x, NEW y, NEW S, Same(x, y, S), S \cap TightFields = {}
  PROVE  SendingSame(x, y) /\ ReceivingSame(x, y) /\ (y.forced <=> x.forced) /\ y.out = x.out
BY DEF TightFields, Fields, Same, SendingSame, ReceivingSame

LEMMA TightOut ==
  ASSUME NEW o, NEW x, NEW B, NEW Z, Tight(o, x, B, Z),
         NEW y, SendingSame(x, y), ReceivingSame(x, y), (y.forced <=> x.forced), y.out = x.out
  PROVE  Tight(o, y, B, Z)
<1>1. Receives(o, x, Z) => Receives(o, y, Z)
  BY DEF Receives, ReceivingSame, Edge
<1>2. Sends(o, x, B) => Sends(o, y, B)
  BY MarkSame DEF Sends, Marked, Onward, SendingSame, Inside
<1> QED
  BY <1>1, <1>2 DEF Tight

LEMMA TightSame ==
  ASSUME NEW o, NEW x, NEW B, NEW Z, Tight(o, x, B, Z),
         NEW y, NEW S, Same(x, y, S), S \cap TightFields = {}
  PROVE  Tight(o, y, B, Z)
BY SameKeeps, TightOut

LEMMA AckTight ==
  ASSUME NEW x, Typed(x), NEW o, NEW B, NEW Z, Tight(o, x, B, Z),
         NEW seq, NEW y, y = Ack(x, seq)
  PROVE  Tight(o, y, B, Z)
<1>1. CASE x.room = 0
  BY <1>1 DEF Ack
<1>2. CASE x.room # 0
  <2> DEFINE p == Header(x, seq, FALSE, <<>>)
  <2>1. y = [x EXCEPT !.out = @ \cup {p}, !.room = @ - 1, !.t_ack = FALSE]
    BY <1>2 DEF Ack, Written
  <2>2. p.data = <<>> /\ p.ack = x.rcv_nxt /\ p.wnd = x.rcv_wnd % 2^16
    BY DEF Header
  <2> HIDE DEF p
  <2>3. DOMAIN x = Fields
    BY DEF Typed
  <2>4. /\ y.out = x.out \cup {p} /\ SendingSame(x, y) /\ ReceivingSame(x, y)
        /\ (y.forced <=> x.forced)
    BY <2>1, <2>3 DEF Fields, SendingSame, ReceivingSame
  <2> QED
    BY <2>2, <2>4, TightMore
<1> QED
  BY <1>1, <1>2

LEMMA AcknowledgeTight ==
  ASSUME NEW x, Typed(x), NEW o, NEW B, NEW Z, Tight(o, x, B, Z), NEW y, y = Acknowledge(x)
  PROVE  Tight(o, y, B, Z)
<1>1. CASE y = x
  BY <1>1
<1>2. CASE y = Ack(x, x.snd_nxt)
  BY <1>2, AckTight
<1>3. CASE y = [x EXCEPT !.t_ack = TRUE]
  <2>1. DOMAIN x = Fields
    BY DEF Typed
  <2>2. Same(x, y, {"t_ack"}) /\ {"t_ack"} \cap TightFields = {}
    BY <1>3, <2>1 DEF Same, Fields, TightFields
  <2> QED
    BY <2>2, TightSame
<1> QED
  BY <1>1, <1>2, <1>3 DEF Acknowledge

LEMMA EdgesKept ==
  ASSUME NEW x, x.snd_nxt \in Int, NEW y, y.snd_una = x.snd_una, y.snd_nxt \in Int,
         y.snd_nxt >= x.snd_nxt,
         Edges(x.snd_una, x.slist) \subseteq Edges(x.snd_una, y.slist)
  PROVE  Onward(x, y)
<1> SUFFICES ASSUME NEW m, Mark(x, m) PROVE Mark(y, m)
  BY DEF Onward
<1>1. m \in Int /\ (m <= x.snd_una \/ (m <= x.snd_nxt /\ m \in Edges(x.snd_una, x.slist)))
  BY DEF Mark
<1>2. CASE m <= x.snd_una
  BY <1>1, <1>2 DEF Mark
<1>3. CASE m <= x.snd_nxt /\ m \in Edges(x.snd_una, x.slist)
  <2>1. m \in Edges(y.snd_una, y.slist)
    BY <1>3
  <2>2. m <= y.snd_nxt
    BY <1>1, <1>3
  <2> QED
    BY <1>1, <2>1, <2>2 DEF Mark
<1> QED
  BY <1>1, <1>2, <1>3

LEMMA SendsOn ==
  ASSUME NEW o, NEW x, NEW B, Sends(o, x, B), NEW y, Onward(x, y),
         Aligned(y.snd_una, y.slist), NEW p, y.out \subseteq x.out \cup {p},
         p \in x.out \/ Marked(y, p), \A b \in B : Inside(y, b)
  PROVE  Sends(o, y, B)
<1>1. Onward(o, x) /\ \A q \in x.out : Marked(x, q)
  BY DEF Sends
<1>2. Onward(o, y)
  BY <1>1 DEF Onward
<1>3. \A q \in x.out : Marked(y, q)
  BY <1>1 DEF Onward, Marked
<1>4. \A q \in y.out : Marked(y, q)
  BY <1>3
<1> QED
  BY <1>2, <1>4 DEF Sends

(* A packet with n bytes of segment i, up to a number at which a segment   *)
(* of the list that remains ends.                                          *)
LEMMA PacketMarked ==
  ASSUME NEW x, NEW w \in Nat, Good(x, w), x.state \notin Ended,
         NEW i \in 1 .. Len(x.slist), NEW n \in 1 .. x.slist[i].len,
         NEW p, p = Header(x, x.slist[i].seq, x.slist[i].ctl, Bytes(x, x.slist[i].seq, n))
  PROVE  p.seq = x.slist[i].seq /\ Len(p.data) = n
<1>1. PacketOK(p, w)
  BY BytesAre
<1>2. p.data \in Seq(Int)
  BY <1>1 DEF PacketOK
<1>3. p.seq = x.slist[i].seq /\ p.data = Bytes(x, x.slist[i].seq, n)
  BY DEF Header
<1>4. DOMAIN p.data = 1 .. n
  BY <1>3 DEF Bytes
<1>5. n \in Nat \ {0}
  <2>1. x.slist \in Seq(Segments)
    BY DEF Good, Typed
  <2> QED
    BY <2>1, SegmentIs
<1> DEFINE d == p.data
<1>6. d \in Seq(Int) /\ DOMAIN d = 1 .. n
  BY <1>2, <1>4
<1> HIDE DEF d
<1>7. Len(d) = n
  BY <1>5, <1>6
<1> QED
  BY <1>3, <1>7 DEF d

LEMMA TransmittedSends ==
  ASSUME NEW x, NEW w \in Nat, Good(x, w), x.state \notin Ended,
         NEW s \in Nat, SentUpTo(x, s), NEW i \in 1 .. Len(x.slist), i <= s + 1,
         NEW n \in 1 .. x.slist[i].len, NEW y, Transmitted(x, y, i, n),
         NEW o, NEW B, Sends(o, x, B),
         x.slist[i].xmit = 0 => y.snd_nxt <= x.snd_una + x.snd_wnd,
         \A b \in B : b \in Int
  PROVE  Sends(o, y, B)
<1> DEFINE list == x.slist
           new  == y.slist
           una  == x.snd_una
           p    == Header(x, list[i].seq, list[i].ctl, Bytes(x, list[i].seq, n))
           a    == Offsets(list)
<1>1. list \in Seq(Segments) /\ una \in Nat /\ x.snd_nxt \in Nat /\ x.snd_wnd \in Nat
  BY DEF Good, Typed
<1>2. /\ Same(x, y, SentFields) /\ y.out = x.out \cup {p}
      /\ new = Replaced(list, i, SegmentCut(list[i], n, 1))
      /\ y.snd_nxt = IF list[i].xmit = 0 THEN x.snd_nxt + n ELSE x.snd_nxt
  BY DEF Transmitted
<1>3. y.snd_una = una /\ y.snd_wnd = x.snd_wnd
  BY <1>2 DEF Same, Fields, SentFields, MssFields
<1>4. p.seq = list[i].seq /\ Len(p.data) = n
  BY PacketMarked
<1>5. /\ Aligned(una, list) /\ \A b \in B : Inside(x, b)
  BY DEF Sends
<1>6. n \in Nat /\ list[i].xmit \in Nat /\ list[i].len \in Nat /\ n <= list[i].len
  BY <1>1, SegmentIs
<1>7. /\ x.snd_nxt = una + a[s] /\ s \in 0 .. Len(list) /\ Len(list) \in Nat
      /\ list[i].xmit > 0 <=> i <= s
  BY DEF SentUpTo, SentTo
<1>8. a \in [0 .. Len(list) -> Nat] /\ a[i] = a[i - 1] + list[i].len
  BY <1>1, OffsetsAre
<1> HIDE DEF list, new, una, p
<1>9. PICK d : CutAfter(new, list, i, n, 1, d)
  BY <1>1, <1>2, CutList DEF list
<1>10. /\ Aligned(una, new) /\ Edges(una, list) \subseteq Edges(una, new)
       /\ list[i].seq + n \in Edges(una, new)
       /\ list[i].seq = una + a[i - 1]
  BY <1>1, <1>5, <1>9, CutAligned DEF list
<1> HIDE DEF a
<1>11. y.snd_nxt \in Nat /\ y.snd_nxt >= x.snd_nxt
  BY <1>1, <1>2, <1>6
<1>12. Onward(x, y)
  BY <1>1, <1>3, <1>10, <1>11, EdgesKept DEF una, list, new
<1>13. list[i].seq + n <= y.snd_nxt
  <2>1. a[i - 1] \in Nat /\ i \in Nat /\ a[s] \in Nat /\ a[i] \in Nat
    BY <1>7, <1>8 DEF list
  <2>2. CASE i <= s
    <3>1. a[s] >= a[i] + (s - i)
      <4>1. i \in 0 .. Len(list) /\ s \in i .. Len(list)
        BY <2>2, <1>7 DEF list
      <4> QED
        BY <4>1, <1>1, OffsetsGrow DEF a
    <3>2. y.snd_nxt = una + a[s]
      BY <2>2, <1>2, <1>6, <1>7
    <3>3. list[i].seq = una + a[i - 1] /\ a[i] = a[i - 1] + list[i].len
      BY <1>8, <1>10
    <3> DEFINE bs == a[s]
               bi == a[i]
               bu == a[i - 1]
               l  == list[i].len
    <3>4. /\ bs \in Nat /\ bi \in Nat /\ bu \in Nat /\ l \in Nat /\ una \in Nat /\ n \in Nat
          /\ bs >= bi + (s - i) /\ bi = bu + l /\ n <= l /\ i \in Nat /\ i <= s
          /\ y.snd_nxt = una + bs /\ list[i].seq = una + bu
      BY <2>1, <2>2, <3>1, <3>2, <3>3, <1>1, <1>6
    <3> HIDE DEF bs, bi, bu, l
    <3>5. (una + bu) + n <= una + bs
      BY <3>4
    <3> QED
      BY <3>4, <3>5
  <2>3. CASE i = s + 1
    <3>1. list[i].xmit = 0
      BY <2>3, <1>6, <1>7
    <3>2. i - 1 = s
      BY <2>3
    <3> QED
      BY <3>1, <3>2, <1>2, <1>7, <1>10, <2>1, <1>1, <1>6
  <2> QED
    BY <2>2, <2>3, <2>1
<1>14. Mark(y, p.seq + Len(p.data))
  <2>1. list[i].seq \in Nat
    BY <1>1, SegmentIs DEF list
  <2> QED
    BY <2>1, <1>3, <1>4, <1>6, <1>10, <1>13 DEF Mark, new
<1>15. \A b \in B : Inside(y, b)
  <2> SUFFICES ASSUME NEW b \in B PROVE Inside(y, b)
    OBVIOUS
  <2>1. x.snd_nxt <= b /\ una + x.snd_wnd <= b /\ b \in Int
    BY <1>5 DEF Inside, una
  <2>2. list[i].xmit = 0 => y.snd_nxt <= una + x.snd_wnd
    BY DEF una, list
  <2>3. y.snd_nxt <= b
    <3> DEFINE v == una + x.snd_wnd
    <3>1. v \in Nat
      BY <1>1
    <3> HIDE DEF v
    <3>2. v <= b /\ (list[i].xmit = 0 => y.snd_nxt <= v)
      BY <2>1, <2>2 DEF v
    <3> QED
      BY <2>1, <3>1, <3>2, <1>2, <1>11
  <2> QED
    BY <2>1, <2>3, <1>3 DEF Inside
<1>16. Marked(y, p)
  BY <1>14 DEF Marked
<1> QED
  BY <1>2, <1>3, <1>10, <1>12, <1>15, <1>16, SendsOn DEF new

LEMMA TransmittedReceives ==
  ASSUME NEW x, Typed(x), NEW i, NEW n, NEW y, Transmitted(x, y, i, n),
         NEW o, NEW Z, Receives(o, x, Z)
  PROVE  Receives(o, y, Z)
<1> DEFINE p == Header(x, x.slist[i].seq, x.slist[i].ctl, Bytes(x, x.slist[i].seq, n))
<1>1. Same(x, y, SentFields) /\ y.out = x.out \cup {p}
  BY DEF Transmitted
<1>2. p.ack = x.rcv_nxt /\ p.wnd = x.rcv_wnd % 2^16
  BY DEF Header
<1> HIDE DEF p
<1>3. ReceivingSame(x, y)
  BY <1>1 DEF Same, Fields, SentFields, MssFields, ReceivingSame
<1>4. x.rcv_nxt \in Nat /\ x.rcv_wnd \in Int
  BY DEF Typed
<1> QED
  BY <1>1, <1>2, <1>3, <1>4, ReceivesMore

LEMMA PositivePart ==
  ASSUME NEW a \in Int, NEW b \in Int
  PROVE  /\ Max({a - b, 0}) \in Int
         /\ Max({a - b, 0}) = 0 \/ Max({a - b, 0}) = a - b
<1> DEFINE d == a - b
<1>1. d \in Int
  OBVIOUS
<1> HIDE DEF d
<1>2. Max({d, 0}) \in {d, 0}
  BY <1>1, MaxOfTwo
<1> QED
  BY <1>1, <1>2 DEF d

(* What is available fits the window that the peer has told.               *)
LEMMA AvailableFits ==
  ASSUME NEW x, Typed(x), NEW n, n = Available(x), n \in Nat \ {0}
  PROVE  x.snd_nxt + n <= x.snd_una + x.snd_wnd
<1> DEFINE flight == InFlight(x)
           free == slen(x) - flight
           win == Window(x)
           useable == Max({win - flight, 0})
           ready == Min({free, x.mss})
<1>1. /\ x.mss \in Nat \ {0} /\ x.snd_wnd \in Nat /\ x.cwnd \in Nat /\ flight \in Int
      /\ x.dup_acks \in 0 .. 255 /\ x.snd_nxt \in Nat /\ x.snd_una \in Nat /\ slen(x) \in Nat
  BY DEF Typed, slen, InFlight
<1>2. win \in Int /\ win <= x.snd_wnd
  <2> DEFINE a == x.snd_wnd
             b == x.cwnd + LimitedTransmit(x)
  <2>1. LimitedTransmit(x) \in Int
    BY <1>1 DEF LimitedTransmit
  <2>2. a \in Int /\ b \in Int
    BY <1>1, <2>1
  <2>3. win = Min({a, b})
    BY DEF Window
  <2> HIDE DEF a, b, win
  <2>4. Min({a, b}) \in {a, b} /\ Min({a, b}) <= a
    BY <2>2, MinOfTwo
  <2> QED
    BY <2>2, <2>3, <2>4 DEF a
<1>3. useable \in Int /\ (useable = 0 \/ useable = win - flight)
  BY <1>1, <1>2, PositivePart
<1>4. ready \in Int
  <2> DEFINE a == x.mss
  <2>1. a \in Int /\ free \in Int
    BY <1>1
  <2> HIDE DEF a, free
  <2>2. Min({free, a}) \in {free, a}
    BY <2>1, MinOfTwo
  <2> QED
    BY <2>1, <2>2 DEF a
<1>5. n = IF ready <= useable THEN ready
          ELSE IF useable * 4 < x.snd_wnd THEN 0 ELSE useable
  BY DEF Available
<1> HIDE DEF ready, useable, win
<1>6. n <= useable
  BY <1>3, <1>4, <1>5
<1>7. n <= win - flight
  <2> HIDE DEF flight
  <2> QED
    BY <1>1, <1>2, <1>3, <1>6
<1>8. flight = x.snd_nxt - x.snd_una
  BY DEF InFlight
<1> HIDE DEF flight
<1> QED
  BY <1>1, <1>2, <1>7, <1>8

(* One segment more: it stays within the window if it was sent before or   *)
(* if snd_nxt does.                                                        *)
TransmitWell(o, x, i, t, B, Z) ==
  /\ Receives(o, t.x, Z) /\ (t.x.forced <=> x.forced)
  /\ (/\ Sends(o, x, B)
      /\ t.result = "trOK" /\ x.slist[i].xmit = 0 =>
           t.x.snd_nxt <= x.snd_una + x.snd_wnd) => Sends(o, t.x, B)

LEMMA TransmitTight ==
  ASSUME NEW x, NEW w \in Nat, Good(x, w), x.state \notin Ended,
         NEW s \in Nat, SentUpTo(x, s), NEW i \in 1 .. Len(x.slist), i <= s + 1,
         NEW t, t = Transmit(x, i), NEW o, NEW B, \A b \in B : b \in Int,
         NEW Z, Receives(o, x, Z)
  PROVE  TransmitWell(o, x, i, t, B, Z)
<1>1. Typed(x) /\ Outgoing(x, w)
  BY DEF Good
<1>2. \/ t.result \in {"trFail", "trWait"} /\ Same(x, t.x, MssFields) /\ MssTyped(t.x)
      \/ t.result = "trOK" /\ \E n \in 1 .. x.slist[i].len : Transmitted(x, t.x, i, n)
  BY <1>1, TransmitIs
<1> DEFINE y == t.x
<1> HIDE DEF y
<1>3. CASE t.result = "trOK" /\ \E n \in 1 .. x.slist[i].len : Transmitted(x, t.x, i, n)
  <2>1. PICK n \in 1 .. x.slist[i].len : Transmitted(x, y, i, n)
    BY <1>3 DEF y
  <2>2. Receives(o, y, Z)
    BY <2>1, <1>1, TransmittedReceives
  <2>3. y.forced <=> x.forced
    BY <2>1 DEF Transmitted, Same, Fields, SentFields, MssFields
  <2>4. Sends(o, x, B) /\ (x.slist[i].xmit = 0 => y.snd_nxt <= x.snd_una + x.snd_wnd)
          => Sends(o, y, B)
    BY <2>1, TransmittedSends
  <2> QED
    BY <1>3, <2>2, <2>3, <2>4 DEF TransmitWell, y
<1>4. CASE Same(x, t.x, MssFields)
  <2>1. MssFields \cap TightFields = {}
    BY DEF MssFields, TightFields
  <2>2. SendingSame(x, y) /\ ReceivingSame(x, y) /\ (y.forced <=> x.forced) /\ y.out = x.out
    BY <1>4, <2>1, SameKeeps DEF y
  <2>3. Receives(o, y, Z)
    BY <2>2 DEF Receives, ReceivingSame, Edge
  <2>4. Sends(o, x, B) => Sends(o, y, B)
    <3> SUFFICES ASSUME Sends(o, x, B) PROVE Sends(o, y, B)
      OBVIOUS
    <3> DEFINE p == [data |-> <<>>]
    <3>1. y.out \subseteq x.out \cup {p} /\ p.data = <<>>
      BY <2>2
    <3> HIDE DEF p
    <3> QED
      BY <2>2, <3>1, SendsMore
  <2> QED
    BY <2>2, <2>3, <2>4 DEF TransmitWell, y
<1> QED
  BY <1>2, <1>3, <1>4

(* Cutting a segment in two keeps the numbers at which segments end.       *)
LEMMA SplitTight ==
  ASSUME NEW x, NEW w \in Nat, Good(x, w), NEW y, NEW i, NEW part,
         SplitWell(x, y, w, i, part), NEW o, NEW B, NEW Z, Tight(o, x, B, Z)
  PROVE  Tight(o, y, B, Z) /\ y.slist[i].len = part /\ y.slist[i].xmit = 0
<1> DEFINE list == x.slist
           new == y.slist
<1>1. /\ Same(x, y, {"slist"}) /\ i \in 1 .. Len(list) /\ part \in 1 .. list[i].len
      /\ list[i].xmit = 0 /\ new = Replaced(list, i, SegmentCut(list[i], part, 0))
  BY DEF SplitWell
<1>2. list \in Seq(Segments) /\ x.snd_una \in Nat /\ x.snd_nxt \in Nat
  BY DEF Good, Typed
<1>3. /\ y.snd_una = x.snd_una /\ y.snd_nxt = x.snd_nxt /\ y.snd_wnd = x.snd_wnd
      /\ ReceivingSame(x, y) /\ (y.forced <=> x.forced) /\ y.out = x.out
  BY <1>1 DEF Same, Fields, ReceivingSame
<1> HIDE DEF new
<1>4. PICK d : CutAfter(new, list, i, part, 0, d)
  BY <1>1, <1>2, CutList
<1>5. new[i].len = part /\ new[i].xmit = list[i].xmit + 0
  BY <1>4 DEF CutAfter
<1>6. new[i].len = part /\ new[i].xmit = 0
  BY <1>1, <1>5
<1> HIDE DEF list
<1>7. Receives(o, y, Z)
  BY <1>3 DEF Tight, Receives, ReceivingSame, Edge
<1>8. ASSUME Sends(o, x, B) PROVE Sends(o, y, B)
  <2>1. Aligned(x.snd_una, list) /\ \A b \in B : Inside(x, b)
    BY <1>8 DEF Sends, list
  <2>2. Aligned(x.snd_una, new) /\ Edges(x.snd_una, list) \subseteq Edges(x.snd_una, new)
    BY <1>1, <1>2, <1>4, <2>1, CutAligned
  <2>3. Onward(x, y)
    BY <1>2, <1>3, <2>2, EdgesKept DEF new, list
  <2>4. Aligned(y.snd_una, y.slist)
    BY <2>2, <1>3 DEF new
  <2>5. \A b \in B : Inside(y, b)
    BY <2>1, <1>3 DEF Inside
  <2>6. \A q \in x.out : Marked(x, q)
    BY <1>8 DEF Sends
  <2>7. \A q \in y.out : Marked(y, q)
    BY <1>3, <2>3, <2>6 DEF Onward, Marked
  <2>8. Onward(o, y)
    BY <1>8, <2>3 DEF Sends, Onward
  <2> QED
    BY <2>4, <2>5, <2>7, <2>8 DEF Sends
<1> QED
  BY <1>3, <1>6, <1>7, <1>8 DEF Tight, new

LEMMA SendOneTight ==
  ASSUME NEW x, NEW w \in Nat, Good(x, w), x.state \notin Ended, NEW y, y = SendOne(x),
         NEW o, NEW B, \A b \in B : b \in Int, NEW Z, Tight(o, x, B, Z)
  PROVE  Tight(o, y, B, Z)
<1> DEFINE n == Available(x)
           list == x.slist
           i == CHOOSE j \in DOMAIN list :
                  list[j].xmit = 0 /\ \A k \in 1 .. j - 1 : list[k].xmit > 0
           part == Min({n, list[i].len})
           split == [x EXCEPT !.slist = Replaced(@, i, SegmentCut(@[i], Min({n, @[i].len}), 0))]
           t == Transmit(split, i)
           F(v) == [v.x EXCEPT !.sflags = IF v.result = "trOK" THEN "sfNone" ELSE "return",
                               !.ignored = @ \/ v.result = "trFail"]
<1>1. Typed(x) /\ DOMAIN x = Fields
  BY DEF Good, Typed
<1>2. CASE x.sflags = "return"
  BY <1>2 DEF SendOne
<1>3. CASE x.sflags # "return" /\ n = 0
  <2> DEFINE a == Acknowledge(x)
  <2>1. y = [a EXCEPT !.sflags = "return"]
    BY <1>3 DEF SendOne
  <2>2. Good(a, w) /\ Tight(o, a, B, Z)
    BY <1>1, AcknowledgeGood, AcknowledgeTight
  <2> HIDE DEF a
  <2>3. DOMAIN a = Fields
    BY <2>2 DEF Good, Typed
  <2>4. Same(a, y, {"sflags"}) /\ {"sflags"} \cap TightFields = {}
    BY <2>1, <2>3 DEF Same, Fields, TightFields
  <2> QED
    BY <2>2, <2>4, TightSame
<1>4. CASE x.sflags # "return" /\ n # 0 /\ InFlight(x) > 0 /\ n < x.mss
  <2>1. y = [x EXCEPT !.sflags = "return"]
    BY <1>4 DEF SendOne
  <2>2. Same(x, y, {"sflags"}) /\ {"sflags"} \cap TightFields = {}
    BY <2>1, <1>1 DEF Same, Fields, TightFields
  <2> QED
    BY <2>2, TightSame
<1>5. CASE x.sflags # "return" /\ n # 0 /\ ~(InFlight(x) > 0 /\ n < x.mss)
  <2>1. y = F(t)
    <3>1. y = With(t, F)
      BY <1>5 DEF SendOne
    <3> HIDE DEF t
    <3> QED
      BY <3>1 DEF With
  <2>2. SplitWell(x, split, w, i, part)
    <3>1. Good(x, w) /\ x.state \notin Ended /\ n # 0
      BY <1>5
    <3>2. split = [x EXCEPT !.slist = Replaced(@, i, SegmentCut(@[i], part, 0))]
      OBVIOUS
    <3> HIDE DEF n, split
    <3> QED
      BY <3>1, <3>2, SplitGood DEF n, Unsent
  <2> HIDE DEF i, part, split
  <2>3. /\ Good(split, w) /\ Same(x, split, {"slist"}) /\ i \in 1 .. Len(split.slist)
        /\ \E s \in Nat : SentUpTo(split, s) /\ i = s + 1
        /\ part <= n /\ part \in 1 .. x.slist[i].len /\ i \in 1 .. Len(x.slist)
    BY <2>2 DEF SplitWell
  <2>4. split.state \notin Ended
    BY <2>3 DEF Same, Fields
  <2>5. Tight(o, split, B, Z) /\ split.slist[i].len = part /\ split.slist[i].xmit = 0
    BY <2>2, SplitTight
  <2>6. PICK s \in Nat : SentUpTo(split, s) /\ i = s + 1
    BY <2>3
  <2>7. i <= s + 1 /\ Receives(o, split, Z)
    BY <2>5, <2>6 DEF Tight
  <2>8. TransmitWell(o, split, i, t, B, Z)
    BY <2>3, <2>4, <2>6, <2>7, TransmitTight
  <2>9. n \in Nat \ {0}
    <3>1. PICK u \in Nat : SentUpTo(x, u)
      BY DEF Good, Listed
    <3> DEFINE free == slen(x) - InFlight(x)
    <3>2. free \in Nat
      BY <3>1, FlightIs
    <3> HIDE DEF free
    <3>3. n \in 0 .. free
      BY <3>2, <1>1, AvailableIs DEF free
    <3> QED
      BY <3>2, <3>3, <1>5
  <2>10. x.snd_nxt + n <= x.snd_una + x.snd_wnd
    BY <1>1, <2>9, AvailableFits
  <2>11. t.result = "trOK" => t.x.snd_nxt <= x.snd_una + x.snd_wnd
    <3> SUFFICES ASSUME t.result = "trOK" PROVE t.x.snd_nxt <= x.snd_una + x.snd_wnd
      OBVIOUS
    <3>1. PICK m \in 1 .. split.slist[i].len : Transmitted(split, t.x, i, m)
      BY <2>3, TransmitIs DEF Good
    <3> HIDE DEF t
    <3>2. t.x.snd_nxt = split.snd_nxt + m /\ split.snd_nxt = x.snd_nxt
      BY <3>1, <2>3, <2>5 DEF Transmitted, Same, Fields
    <3>3. m \in 1 .. part /\ part \in Int
      <4>1. x.slist \in Seq(Segments)
        BY <1>1 DEF Typed
      <4> HIDE DEF n
      <4>2. x.slist[i].len \in Nat
        BY <4>1, <2>3, SegmentIs
      <4> QED
        BY <4>2, <2>3, <2>5, <3>1
    <3>4. x.snd_nxt \in Nat /\ x.snd_una \in Nat /\ x.snd_wnd \in Nat
      BY <1>1 DEF Typed
    <3> HIDE DEF n
    <3> QED
      BY <2>3, <2>9, <2>10, <3>2, <3>3, <3>4
  <2>12. t.x.forced <=> x.forced
    BY <2>3, <2>8 DEF TransmitWell, Same, Fields
  <2>13. x.snd_una = split.snd_una /\ x.snd_wnd = split.snd_wnd /\ (split.forced <=> x.forced)
    BY <2>3 DEF Same, Fields
  <2> HIDE DEF t, n
  <2>14. Tight(o, t.x, B, Z)
    BY <2>5, <2>8, <2>11, <2>12, <2>13 DEF TransmitWell, Tight
  <2> DEFINE r == t.x
             sf == IF t.result = "trOK" THEN "sfNone" ELSE "return"
             ig == r.ignored \/ t.result = "trFail"
  <2>15. DOMAIN r = Fields
    BY <2>3, <2>4, <2>6, <2>7, TransmitGood DEF t, Good, Typed
  <2>16. y = [r EXCEPT !.sflags = sf, !.ignored = ig]
    BY <2>1
  <2> HIDE DEF r, sf, ig
  <2>17. Same(r, y, {"sflags", "ignored"}) /\ {"sflags", "ignored"} \cap TightFields = {}
    BY <2>15, <2>16 DEF Same, Fields, TightFields
  <2> QED
    BY <2>14, <2>17, TightSame DEF r
<1> QED
  BY <1>2, <1>3, <1>4, <1>5

LEMMA AttemptSendTight ==
  ASSUME NEW x, NEW w \in Nat, Good(x, w), x.state \notin Ended, NEW sflags,
         NEW y, y = AttemptSend(x, sflags),
         NEW o, NEW B, \A b \in B : b \in Int, NEW Z, Tight(o, x, B, Z)
  PROVE  Tight(o, y, B, Z)
<1> DEFINE a == [x EXCEPT !.sflags = sflags]
           f == Turns(a)
           M == BufSize + 1
           G == {n \in Nat : n <= M =>
                   Good(f[n], w) /\ f[n].state \notin Ended /\ Tight(o, f[n], B, Z)}
<1>1. y = f[M]
  BY DEF AttemptSend, Turns
<1>2. M \in Nat
  BY TcpConstants
<1>3. f = [n \in 0 .. M |-> IF n = 0 THEN a ELSE With(f[n - 1], SendOne)]
  BY TurnsExist
<1> HIDE DEF f, M
<1>4. 0 \in G
  <2>1. f[0] = a
    BY <1>2, <1>3
  <2>2. DOMAIN x = Fields
    BY DEF Good, Typed
  <2>3. /\ Same(x, a, {"sflags", "ignored", "probes", "newData", "forced"})
        /\ Same(x, a, {"sflags"}) /\ {"sflags"} \cap TightFields = {}
        /\ a.state = x.state
    BY <2>2 DEF Same, Fields, TightFields
  <2> HIDE DEF a
  <2>4. Good(a, w) /\ Tight(o, a, B, Z)
    BY <2>3, GoodSmall, TightSame
  <2> QED
    BY <2>1, <2>3, <2>4
<1> HIDE DEF a
<1>5. ASSUME NEW n \in Nat, n \in G PROVE n + 1 \in G
  <2> SUFFICES ASSUME n + 1 <= M
               PROVE  Good(f[n + 1], w) /\ f[n + 1].state \notin Ended /\ Tight(o, f[n + 1], B, Z)
    OBVIOUS
  <2> DEFINE v == f[n]
             u == f[n + 1]
  <2>1. Good(v, w) /\ v.state \notin Ended /\ Tight(o, v, B, Z)
    BY <1>2, <1>5
  <2>2. u = With(f[n], SendOne)
    BY <1>2, <1>3
  <2> HIDE DEF u
  <2>3. u = SendOne(v)
    BY <2>2 DEF With
  <2> HIDE DEF v
  <2>4. Good(u, w) /\ Same(v, u, SendFields)
    BY <2>1, <2>3, SendOneGood
  <2>5. u.state = v.state
    BY <2>4 DEF Same, Fields, SendFields, SentFields, MssFields
  <2>6. Tight(o, u, B, Z)
    BY <2>1, <2>3, SendOneTight
  <2> QED
    BY <2>1, <2>4, <2>5, <2>6 DEF u
<1> HIDE DEF G
<1>6. Nat \subseteq G
  BY <1>4, <1>5, Induction
<1> QED
  BY <1>1, <1>2, <1>6 DEF G

LEMMA ClosedownTight ==
  ASSUME NEW x, DOMAIN x = Fields, NEW y, y = Closedown(x),
         NEW o, NEW B, NEW Z, Tight(o, x, B, Z)
  PROVE  Tight(o, y, B, Z)
<1>1. Same(x, y, {"state", "sbuf"}) /\ {"state", "sbuf"} \cap TightFields = {}
  BY DEF Closedown, Same, Fields, TightFields
<1> QED
  BY <1>1, TightSame

(* A retransmission; the first of a segment may go beyond the window, and  *)
(* is remembered.                                                          *)
LEMMA RetransmitTight ==
  ASSUME NEW x, NEW w \in Nat, Good(x, w), x.state \notin Ended, x.slist # <<>>,
         NEW y, y = Retransmit(x),
         NEW o, NEW B, \A b \in B : b \in Int, NEW Z, Tight(o, x, B, Z)
  PROVE  Tight(o, y, B, Z)
<1> DEFINE t == Transmit(x, 1)
           F(v) == IF v.result = "trFail" THEN Closedown(v.x)
                   ELSE [v.x EXCEPT !.forced = @ \/ Forced(x, v)]
           z == t.x
<1>1. y = F(t)
  <2>1. y = With(t, F)
    BY DEF Retransmit
  <2> HIDE DEF t
  <2> QED
    BY <2>1 DEF With
<1>2. PICK s \in Nat : SentUpTo(x, s)
  BY DEF Good, Listed
<1>3. 1 \in 1 .. Len(x.slist) /\ 1 <= s + 1
  BY EmptySeq DEF Good, Typed
<1> HIDE DEF t
<1>4. Good(z, w) /\ Same(x, z, SentFields)
  BY <1>2, <1>3, TransmitGood DEF t
<1>5. TransmitWell(o, x, 1, t, B, Z)
  BY <1>2, <1>3, TransmitTight DEF Tight, t
<1> HIDE DEF z
<1>6. Receives(o, z, Z) /\ (z.forced <=> x.forced) /\ (o.forced => x.forced)
  BY <1>5 DEF TransmitWell, z, Tight
<1>7. DOMAIN z = Fields /\ z.snd_una = x.snd_una
  BY <1>4 DEF Good, Typed, Same, Fields, SentFields, MssFields
<1>8. CASE t.result = "trFail"
  BY <1>1, <1>8, <1>5, <1>6, <1>7, ClosedownTight DEF z, Tight, TransmitWell
<1>9. CASE t.result # "trFail"
  <2> DEFINE flag == z.forced \/ Forced(x, t)
  <2>1. y = [z EXCEPT !.forced = flag]
    BY <1>1, <1>9 DEF z
  <2> HIDE DEF flag
  <2>2. y.forced = flag /\ SendingSame(z, y) /\ ReceivingSame(z, y) /\ y.out = z.out
    BY <2>1, <1>7 DEF Fields, SendingSame, ReceivingSame
  <2>3. Receives(o, y, Z)
    BY <1>6, <2>2 DEF Receives, ReceivingSame, Edge
  <2>4. ASSUME ~y.forced PROVE Sends(o, y, B)
    <3>1. ~z.forced /\ ~Forced(x, t)
      BY <2>2, <2>4 DEF flag
    <3>2. Sends(o, x, B)
      BY <1>6, <3>1 DEF Tight
    <3>3. t.result = "trOK" /\ x.slist[1].xmit = 0 => z.snd_nxt <= x.snd_una + x.snd_wnd
      <4>1. t.result = "trOK" /\ x.slist[1].xmit = 0 => ~(InFlight(z) > x.snd_wnd)
        BY <3>1 DEF Forced, z
      <4>2. z.snd_nxt \in Nat /\ x.snd_una \in Nat /\ x.snd_wnd \in Nat
        BY <1>4 DEF Good, Typed
      <4>3. InFlight(z) = z.snd_nxt - x.snd_una
        BY <1>7 DEF InFlight
      <4> QED
        BY <4>1, <4>2, <4>3
    <3>4. Sends(o, z, B)
      BY <3>2, <3>3, <1>5 DEF TransmitWell, z
    <3> DEFINE p == [data |-> <<>>]
    <3>5. y.out \subseteq z.out \cup {p} /\ p.data = <<>>
      BY <2>2
    <3> HIDE DEF p
    <3> QED
      BY <2>2, <3>4, <3>5, SendsMore
  <2>5. o.forced => y.forced
    BY <1>6, <2>2 DEF flag
  <2> QED
    BY <2>3, <2>4, <2>5 DEF Tight
<1> QED
  BY <1>8, <1>9

(* The sending half of a block whose windows and packets do not change.    *)
LEMMA SendsKept ==
  ASSUME NEW o, NEW x, NEW B, Sends(o, x, B), NEW y, Onward(x, y),
         Aligned(y.snd_una, y.slist), y.out = x.out,
         y.snd_una = x.snd_una, y.snd_nxt = x.snd_nxt, y.snd_wnd = x.snd_wnd
  PROVE  Sends(o, y, B)
BY DEF Sends, Inside, Onward, Marked

(* Nothing up to which was sent ends where the last segment still grows.   *)
LEMMA QueuedTight ==
  ASSUME NEW x, Typed(x), Listed(x), NEW data, NEW ctl \in BOOLEAN,
         NEW n \in Nat \ {0}, n = Min({Len(data), BufSize - slen(x)}),
         NEW y, y = Queued(x, data, ctl), NEW o, NEW B, NEW Z, Tight(o, x, B, Z)
  PROVE  Tight(o, y, B, Z)
<1> DEFINE list == x.slist
           last == list[Len(list)]
           seg == [seq |-> x.snd_una + slen(x), len |-> n, xmit |-> 0, ctl |-> ctl]
           new == IF list # <<>> /\ last.ctl = ctl /\ last.xmit = 0
                  THEN Lengthened(list, n) ELSE Append(list, seg)
           buf == x.sbuf \o SubSeq(data, 1, n)
           una == x.snd_una
<1>1. /\ list \in Seq(Segments) /\ slen(x) \in Nat /\ una \in Nat /\ x.snd_nxt \in Nat
      /\ DOMAIN x = Fields
  BY DEF Typed, slen
<1>2. y = [x EXCEPT !.sbuf = buf, !.slist = new]
  BY DEF Queued
<1> HIDE DEF buf, new
<1>3. /\ y.slist = new /\ y.snd_una = una /\ y.snd_nxt = x.snd_nxt /\ y.snd_wnd = x.snd_wnd
      /\ ReceivingSame(x, y) /\ y.out = x.out /\ (y.forced <=> x.forced)
  BY <1>1, <1>2 DEF Fields, ReceivingSame
<1>4. PICK s \in Nat : SentUpTo(x, s)
  BY DEF Listed
<1>5. s \in 0 .. Len(list) /\ x.snd_nxt = una + Offsets(list)[s] /\ Len(list) \in Nat
  BY <1>1, <1>4 DEF SentUpTo, SentTo
<1>6. Offsets(list)[Len(list)] = slen(x)
  BY DEF Listed
<1>7. ASSUME Aligned(una, list)
      PROVE  /\ Aligned(una, new)
             /\ \A m \in Edges(una, list) : m <= x.snd_nxt => m \in Edges(una, new)
  <2>1. CASE list # <<>> /\ last.ctl = ctl /\ last.xmit = 0
    <3>1. new = Lengthened(list, n)
      BY <2>1 DEF new
    <3> DEFINE N == Len(list)
               top == Offsets(list)[N]
               bot == Offsets(list)[s]
    <3>2. LongerBy(new, list, n)
      BY <2>1, <3>1, <1>1, LengthenedIs
    <3> HIDE DEF list
    <3>3. /\ Aligned(una, new)
          /\ \A m \in Edges(una, list) : m \in Edges(una, new) \/ m = una + top
      BY <2>1, <3>2, <1>1, <1>7, LongerAligned
    <3>4. s < N
      BY <2>1, <1>1, <1>4, <1>5, EmptySeq DEF SentUpTo, SentTo, list
    <3>5. top >= bot + (N - s) /\ top \in Nat /\ bot \in Nat
      BY <1>5, <1>1, OffsetsAre, OffsetsGrow
    <3>6. x.snd_nxt = una + bot
      BY <1>5
    <3> HIDE DEF top, bot, N, una
    <3>7. ~(una + top <= x.snd_nxt)
      BY <1>5, <1>1, <3>4, <3>5, <3>6 DEF N, una
    <3> QED
      BY <3>3, <3>7
  <2>2. CASE ~(list # <<>> /\ last.ctl = ctl /\ last.xmit = 0)
    <3>1. new = Append(list, seg)
      BY <2>2 DEF new
    <3>2. seg \in Segments /\ seg.seq = una + Offsets(list)[Len(list)]
      BY <1>1, <1>6 DEF Segments
    <3> HIDE DEF seg
    <3>3. FollowedBy(new, list, seg)
      BY <3>1, <3>2, <1>1, AppendedIs
    <3>4. Aligned(una, new) /\ Edges(una, list) \subseteq Edges(una, new)
      BY <3>2, <3>3, <1>1, <1>7, FollowedAligned
    <3> QED
      BY <3>4
  <2> QED
    BY <2>1, <2>2
<1>8. Receives(o, y, Z)
  BY <1>3 DEF Tight, Receives, ReceivingSame, Edge
<1>9. ASSUME Sends(o, x, B) PROVE Sends(o, y, B)
  <2>1. Aligned(una, list)
    BY <1>9 DEF Sends
  <2>2. /\ Aligned(una, new)
        /\ \A m \in Edges(una, list) : m <= x.snd_nxt => m \in Edges(una, new)
    BY <2>1, <1>7
  <2>3. Onward(x, y)
    BY <2>2, <1>3 DEF Onward, Mark
  <2>4. Aligned(y.snd_una, y.slist)
    BY <2>2, <1>3
  <2> QED
    BY <2>3, <2>4, <1>3, <1>9, SendsKept
<1> QED
  BY <1>3, <1>8, <1>9 DEF Tight

LEMMA OpenedTight ==
  ASSUME NEW x, NEW w, Good(x, w), x.state \in Opening, NEW y, y = Opened(x),
         NEW o, NEW B, NEW Z, Tight(o, x, B, Z)
  PROVE  Tight(o, y, B, Z)
BY OpenedGood, TightSame DEF OpenFields, AdjustFields, TightFields

LEMMA RequestTight ==
  ASSUME NEW x, NEW w \in Nat, w = 0, Good(x, w), x.state = "TCP_LISTEN",
         NEW z, Same(x, z, {"state"}), z.state \in Opening,
         NEW y, y = Requested(z), NEW o, NEW B, NEW Z, Tight(o, x, B, Z)
  PROVE  Tight(o, y, B, Z)
<1>1. Typed(x) /\ Listed(x)
  BY DEF Good, Ended
<1>2. slen(x) = 0
  BY ListenIs
<1>3. /\ z.sbuf = x.sbuf /\ z.slist = x.slist /\ z.snd_una = x.snd_una
      /\ z.snd_nxt = x.snd_nxt /\ z.recover = x.recover
  BY DEF Same, Fields
<1>4. Typed(z)
  BY <1>1 DEF Typed, Same, Fields, Opening, States
<1>5. Listed(z)
  BY <1>3, <1>1 DEF SentUpTo, Listed, slen
<1>6. Tight(o, z, B, Z)
  BY TightSame DEF TightFields
<1> DEFINE data == <<Connect>>
           yes == TRUE
           n == Min({Len(data), BufSize - slen(z)})
<1>7. n = 1
  <2> DEFINE l == Len(data)
             c == BufSize - slen(z)
  <2>1. slen(z) = 0
    BY <1>2, <1>3 DEF slen
  <2>2. l = 1 /\ c \in Int /\ 1 <= c
    BY <2>1, TcpConstants
  <2>3. n = Min({l, c})
    OBVIOUS
  <2> HIDE DEF n, l, c
  <2>4. Min({l, c}) = l
    BY <2>2, MinOfTwo
  <2> QED
    BY <2>2, <2>3, <2>4
<1>8. y = Queued(z, data, yes) /\ yes \in BOOLEAN
  BY DEF Requested
<1> HIDE DEF data, yes
<1>9. n \in Nat \ {0} /\ n = Min({Len(data), BufSize - slen(z)})
  BY <1>7
<1> HIDE DEF n
<1> QED
  BY <1>4, <1>5, <1>6, <1>8, <1>9, QueuedTight

LEMMA ConnectPartTight ==
  ASSUME NEW x, NEW w \in Nat, Good(x, w), x.state \notin Ended, x.state = "TCP_LISTEN" => w = 0,
         NEW p, NEW y, y = ConnectPart(x, p), NEW o, NEW B, NEW Z, Tight(o, x, B, Z)
  PROVE  Tight(o, y, B, Z)
<1>1. DOMAIN x = Fields
  BY DEF Good, Typed
<1>2. CASE p.ctl /\ x.state = "TCP_LISTEN"
  <2> DEFINE z == [x EXCEPT !.state = "TCP_SYN_RECEIVED"]
  <2>1. y = Requested(z)
    BY <1>2 DEF ConnectPart, Requested
  <2>2. w = 0 /\ Same(x, z, {"state"}) /\ z.state \in Opening
    BY <1>1, <1>2 DEF Opening, Same, Fields
  <2> HIDE DEF z
  <2> QED
    BY <2>1, <2>2, <1>2, RequestTight
<1>3. CASE p.ctl /\ x.state = "TCP_SYN_SENT"
  BY <1>3, OpenedTight DEF ConnectPart, Opening
<1>4. CASE ~(p.ctl /\ x.state \in {"TCP_LISTEN", "TCP_SYN_SENT"})
  BY <1>4 DEF ConnectPart
<1> QED
  BY <1>2, <1>3, <1>4

(* The peer acknowledges where a segment of x ends, and tells no more room *)
(* than it has.                                                            *)
AckFits(x, p, B) == Mark(x, p.ack) /\ \A b \in B : p.ack + p.wnd <= b

LEMMA TakenOffTight ==
  ASSUME NEW x, NEW w \in Nat, Good(x, w), x.state \notin Ended,
         NEW p, p.ack \in Nat, p.wnd \in Nat, p.ack > x.snd_una, p.ack <= x.snd_nxt,
         NEW y, TakenOff(x, y, p), NEW o, NEW B, NEW Z, Tight(o, x, B, Z),
         ~x.forced => AckFits(x, p, B)
  PROVE  Tight(o, y, B, Z)
<1> DEFINE una == x.snd_una
           n == p.ack - una
           list == x.slist
           new == y.slist
<1>1. /\ Listed(x) /\ list \in Seq(Segments) /\ una \in Nat /\ x.snd_nxt \in Nat
  BY DEF Good, Typed
<1>2. /\ y.snd_wnd = p.wnd /\ y.snd_una = p.ack /\ new = Freed(list, n)
      /\ y.snd_nxt = x.snd_nxt /\ y.out = x.out /\ ReceivingSame(x, y)
      /\ (y.forced <=> x.forced)
  BY DEF TakenOff, Same, Fields, ReceivingSame
<1>3. Receives(o, y, Z)
  BY <1>2 DEF Tight, Receives, ReceivingSame, Edge
<1>4. n \in 0 .. Offsets(list)[Len(list)]
  <2>1. PICK s \in Nat : SentUpTo(x, s)
    BY <1>1 DEF Listed
  <2> DEFINE ofs == Offsets(list)[s]
             total == Offsets(list)[Len(list)]
             ack == p.ack
  <2>2. /\ ofs \in Nat /\ ofs <= slen(x) /\ x.snd_nxt = una + ofs /\ total = slen(x)
        /\ slen(x) \in Nat
    BY <1>1, <2>1, FlightIs DEF SentUpTo, Listed
  <2>3. ack \in Nat /\ ack > una /\ ack <= x.snd_nxt /\ n = ack - una
    OBVIOUS
  <2>4. una \in Nat
    BY <1>1
  <2> HIDE DEF ofs, total, ack, una, n
  <2>5. n \in 0 .. total
    BY <2>2, <2>3, <2>4
  <2> QED
    BY <2>5 DEF total
<1> HIDE DEF new
<1>5. PICK gone, part : Without(new, list, n, gone, part)
  BY <1>1, <1>2, <1>4, FreedIs
<1>6. ASSUME Sends(o, x, B), AckFits(x, p, B) PROVE Sends(o, y, B)
  <2>1. Aligned(una, list) /\ \A b \in B : Inside(x, b)
    BY <1>6 DEF Sends
  <2>2. p.ack \in Edges(una, list)
    BY <1>1, <1>6 DEF AckFits, Mark
  <2>3. /\ Aligned(p.ack, new)
        /\ \A m \in Edges(una, list) : m <= p.ack \/ m \in Edges(p.ack, new)
    <3> DEFINE top == p.ack
    <3>1. top \in Edges(una, list) /\ Without(new, list, top - una, gone, part)
      BY <1>5, <2>2
    <3> HIDE DEF list, una, top
    <3>2. /\ Aligned(top, new)
          /\ \A m \in Edges(una, list) : m <= top \/ m \in Edges(top, new)
      BY <3>1, <1>1, <2>1, WithoutAligned
    <3> QED
      BY <3>2 DEF top
  <2>4. Onward(x, y)
    BY <1>1, <1>2, <2>3 DEF Onward, Mark, new
  <2>5. \A b \in B : Inside(y, b)
    BY <1>2, <1>6, <2>1 DEF Inside, AckFits
  <2>6. Onward(o, y) /\ \A q \in x.out : Marked(y, q)
    BY <1>6, <2>4 DEF Sends, Onward, Marked
  <2> QED
    BY <1>2, <2>3, <2>5, <2>6 DEF Sends, new
<1> QED
  BY <1>2, <1>3, <1>6 DEF Tight

LEMMA WindowTight ==
  ASSUME NEW x, NEW p, p.ack = x.snd_una, NEW y, Same(x, y, {"snd_wnd"}), y.snd_wnd = p.wnd,
         NEW o, NEW B, NEW Z, Tight(o, x, B, Z), ~x.forced => AckFits(x, p, B)
  PROVE  Tight(o, y, B, Z)
<1>1. /\ y.slist = x.slist /\ y.snd_una = x.snd_una /\ y.snd_nxt = x.snd_nxt
      /\ y.out = x.out /\ ReceivingSame(x, y) /\ (y.forced <=> x.forced)
  BY DEF Same, Fields, ReceivingSame
<1>2. Receives(o, y, Z)
  BY <1>1 DEF Tight, Receives, ReceivingSame, Edge
<1>3. ASSUME Sends(o, x, B), AckFits(x, p, B) PROVE Sends(o, y, B)
  BY <1>1, <1>3 DEF Mark, Sends, Onward, Marked, Inside, AckFits
<1> QED
  BY <1>1, <1>2, <1>3 DEF Tight

LEMMA RecoveryTight ==
  ASSUME NEW x, NEW w \in Nat, Good(x, w), x.state \notin Ended, NEW y, y = Recovery(x),
         NEW o, NEW B, \A b \in B : b \in Int, NEW Z, Tight(o, x, B, Z)
  PROVE  Tight(o, y, B, Z)
<1>1. Typed(x)
  BY DEF Good
<1>2. CASE x.dup_acks < 3 \/ x.snd_una >= x.recover
  <2>1. y = [x EXCEPT !.dup_acks = 0]
    BY <1>2 DEF Recovery
  <2>2. Same(x, y, {"dup_acks"}) /\ {"dup_acks"} \cap TightFields = {}
    BY <2>1, <1>1 DEF Same, Fields, TightFields, Typed
  <2> QED
    BY <2>2, TightSame
<1>3. CASE ~(x.dup_acks < 3 \/ x.snd_una >= x.recover)
  <2>1. y = Retransmit(x)
    BY <1>3 DEF Recovery
  <2>2. x.snd_nxt > x.snd_una
    <3>1. x.recover <= x.snd_nxt /\ x.snd_una \in Nat /\ x.recover \in Nat /\ x.snd_nxt \in Nat
      BY <1>1 DEF Good, Listed, Typed
    <3> QED
      BY <3>1, <1>3
  <2>3. x.slist # <<>>
    BY <2>2, SentSegments
  <2> QED
    BY <2>1, <2>3, RetransmitTight
<1> QED
  BY <1>2, <1>3

LEMMA NewAckTight ==
  ASSUME NEW x, NEW w \in Nat, Good(x, w), x.state \notin Ended,
         NEW p, p.ack \in Nat, p.wnd \in Nat, p.ack > x.snd_una, p.ack <= x.snd_nxt,
         NEW y, y = NewAck(x, p), NEW o, NEW B, \A b \in B : b \in Int,
         NEW Z, Tight(o, x, B, Z), ~x.forced => AckFits(x, p, B)
  PROVE  Tight(o, y, B, Z)
<1> DEFINE n == p.ack - x.snd_una
           a == [x EXCEPT !.snd_wnd = p.wnd, !.snd_una = p.ack,
                          !.rto_base = p.ack # x.snd_nxt,
                          !.sbuf = SubSeq(@, n + 1, Len(@)),
                          !.slist = Freed(@, n)]
           v == With(a, Recovery)
           z == IF v.state = "TCP_SYN_RECEIVED" /\ ~p.ctl THEN Opened(v) ELSE v
           sh == ~x.shutdown
           u == [z EXCEPT !.writeEnable = FALSE, !.canWrite = sh]
<1>1. Typed(x)
  BY DEF Good
<1>2. TakenOff(x, a, p) /\ a.state = x.state
  BY <1>1 DEF TakenOff, Same, Fields, Typed
<1>3. y = v \/ y = z \/ y = u
  BY DEF NewAck
<1>4. v = Recovery(a)
  <2> HIDE DEF a
  <2> QED
    BY DEF With
<1> HIDE DEF a, v
<1>5. Good(a, w) /\ Tight(o, a, B, Z)
  BY <1>2, TakenOffGood, TakenOffTight
<1>6. Good(v, w) /\ Tight(o, v, B, Z)
  BY <1>2, <1>4, <1>5, RecoveryGood, RecoveryTight
<1>7. Good(z, w) /\ Tight(o, z, B, Z)
  <2>1. CASE v.state = "TCP_SYN_RECEIVED" /\ ~p.ctl
    <3>1. z = Opened(v) /\ v.state \in Opening
      BY <2>1 DEF Opening
    <3> HIDE DEF z
    <3> QED
      BY <3>1, <1>6, OpenedGood, OpenedTight
  <2>2. CASE ~(v.state = "TCP_SYN_RECEIVED" /\ ~p.ctl)
    BY <2>2, <1>6
  <2> QED
    BY <2>1, <2>2
<1> HIDE DEF z, sh
<1>8. Tight(o, u, B, Z)
  <2>1. DOMAIN z = Fields
    BY <1>7 DEF Good, Typed
  <2>2. Same(z, u, {"writeEnable", "canWrite"}) /\ {"writeEnable", "canWrite"} \cap TightFields = {}
    BY <2>1 DEF Same, Fields, TightFields
  <2> HIDE DEF u
  <2> QED
    BY <2>2, <1>7, TightSame
<1> QED
  BY <1>3, <1>6, <1>7, <1>8

LEMMA OldAckTight ==
  ASSUME NEW x, NEW w \in Nat, Good(x, w), x.state \notin Ended,
         NEW p, p.ack \in Nat, p.wnd \in Nat, p.ack = x.snd_una,
         NEW y, y = OldAck(x, p), NEW o, NEW B, \A b \in B : b \in Int,
         NEW Z, Tight(o, x, B, Z), ~x.forced => AckFits(x, p, B)
  PROVE  Tight(o, y, B, Z)
<1> DEFINE v == [x EXCEPT !.snd_wnd = p.wnd]
           dup == (v.dup_acks + 1) % 256
           d == [v EXCEPT !.dup_acks = dup]
           u == [v EXCEPT !.dup_acks = 0]
           r == Retransmit(d)
           k == [r EXCEPT !.recover = r.snd_nxt]
<1>1. Typed(x) /\ x.snd_una \in Nat /\ x.snd_nxt \in Nat /\ x.dup_acks \in 0 .. 255
  BY DEF Good, Typed
<1>2. /\ Same(x, v, {"snd_wnd"}) /\ v.snd_wnd = p.wnd /\ v.dup_acks = x.dup_acks
      /\ Same(x, v, QuietFields) /\ v.recover = x.recover
  BY <1>1 DEF Same, Fields, QuietFields, Typed
<1>3. dup \in 0 .. 255
  BY <1>1, <1>2, CountIs
<1>4. \/ y = v
      \/ y = u
      \/ y = d
      \/ InFlight(x) # 0 /\ (IF r.state = "TCP_CLOSED" THEN y = r ELSE y = k)
  <2> HIDE DEF dup
  <2> QED
    BY DEF OldAck, dup
<1> HIDE DEF v, dup
<1>5. Tight(o, v, B, Z)
  BY <1>2, WindowTight
<1>6. /\ Same(v, u, {"dup_acks"}) /\ Same(v, d, {"dup_acks"}) /\ {"dup_acks"} \cap TightFields = {}
      /\ Same(x, d, QuietFields) /\ d.snd_wnd = p.wnd /\ d.dup_acks = dup /\ d.recover = x.recover
  BY <1>2 DEF Same, Fields, QuietFields, TightFields
<1> HIDE DEF u, d
<1>7. Tight(o, u, B, Z) /\ Tight(o, d, B, Z)
  BY <1>5, <1>6, TightSame
<1>8. CASE y = v \/ y = u \/ y = d
  BY <1>5, <1>7, <1>8
<1>9. CASE InFlight(x) # 0 /\ (IF r.state = "TCP_CLOSED" THEN y = r ELSE y = k)
  <2>1. d.state = x.state /\ d.slist = x.slist
    BY <1>6 DEF Same, Fields, QuietFields
  <2>2. Good(d, w)
    BY <1>3, <1>6, GoodQuiet
  <2>3. x.slist # <<>>
    BY <1>9, SentSegments
  <2>4. Good(r, w) /\ Tight(o, r, B, Z)
    BY <2>1, <2>2, <2>3, <1>7, RetransmitGood, RetransmitTight
  <2> HIDE DEF r
  <2>5. Tight(o, k, B, Z)
    <3>1. DOMAIN r = Fields
      BY <2>4 DEF Good, Typed
    <3>2. Same(r, k, {"recover"}) /\ {"recover"} \cap TightFields = {}
      BY <3>1 DEF Same, Fields, TightFields
    <3> HIDE DEF k
    <3> QED
      BY <3>2, <2>4, TightSame
  <2> QED
    BY <1>9, <2>4, <2>5
<1> QED
  BY <1>4, <1>8, <1>9

LEMMA AckPartTight ==
  ASSUME NEW x, NEW w \in Nat, Good(x, w), x.state \notin Ended,
         NEW p, p.ack \in Nat, p.wnd \in Nat, NEW y, y = AckPart(x, p),
         NEW o, NEW B, \A b \in B : b \in Int, NEW Z, Tight(o, x, B, Z),
         ~o.forced => AckFits(o, p, B)
  PROVE  Tight(o, y, B, Z)
<1>1. Typed(x)
  BY DEF Good
<1>2. ~x.forced => AckFits(x, p, B)
  BY DEF Tight, Sends, Onward, AckFits
<1>3. CASE p.ack > x.snd_una /\ p.ack <= x.snd_nxt
  <2>1. p.ack # x.snd_una
    BY <1>1, <1>3 DEF Typed
  <2>2. y = NewAck(x, p)
    BY <1>3, <2>1 DEF AckPart
  <2> QED
    BY <1>2, <1>3, <2>2, NewAckTight
<1>4. CASE ~(p.ack > x.snd_una /\ p.ack <= x.snd_nxt) /\ p.ack = x.snd_una
  BY <1>4, <1>2, OldAckTight DEF AckPart
<1>5. CASE ~(p.ack > x.snd_una /\ p.ack <= x.snd_nxt) /\ p.ack # x.snd_una
  BY <1>5 DEF AckPart
<1> QED
  BY <1>3, <1>4, <1>5

(* The receiving half moves on: the window does not shrink.                *)
Moves(x, y, Z) ==
  \A z \in Z :
    /\ 0 <= y.rcv_wnd /\ y.rcv_wnd + y.rlen <= BufSize /\ Edge(x) <= Edge(y)
    /\ Mark(z, y.rcv_nxt) /\ \A r \in y.rlist : Mark(z, r.seq + r.len)

LEMMA MovedTight ==
  ASSUME NEW x, NEW w, Good(x, w), NEW o, Edge(o) \in Int, NEW B, NEW Z, Tight(o, x, B, Z),
         NEW y, SendingSame(x, y), y.out = x.out, (y.forced <=> x.forced),
         Edge(y) \in Int, Moves(x, y, Z)
  PROVE  Tight(o, y, B, Z)
<1>1. Edge(x) \in Int /\ \A q \in x.out : q.ack \in Nat /\ q.wnd \in Nat
  BY DEF Good, Typed, Edge, Outgoing, PacketOK
<1>2. ASSUME NEW z \in Z
      PROVE  /\ 0 <= y.rcv_wnd /\ y.rcv_wnd + y.rlen <= BufSize /\ Edge(o) <= Edge(y)
             /\ Mark(z, y.rcv_nxt) /\ \A r \in y.rlist : Mark(z, r.seq + r.len)
             /\ \A q \in y.out : Mark(z, q.ack) /\ q.ack + q.wnd <= Edge(y)
  BY <1>1 DEF Moves, Tight, Receives
<1>3. Receives(o, y, Z)
  BY <1>2 DEF Receives
<1>4. ASSUME Sends(o, x, B) PROVE Sends(o, y, B)
  BY <1>4, MarkSame DEF Sends, Marked, Onward, SendingSame, Inside
<1> QED
  BY <1>3, <1>4 DEF Tight

(* Nothing that the peer of an end has sent lies beyond the window that it *)
(* had, and where the data of the packet p ends, a segment of it ended.    *)
Given(o, p, Z) ==
  \A z \in Z : Marked(z, p) /\ \A m : Mark(z, m) => m <= Edge(o)

(* So nothing is cut off the end of the data.                              *)
LEMMA UncutIs ==
  ASSUME NEW x, Typed(x), x.rlen \in 0 .. BufSize, NEW o, Edge(o) \in Int,
         NEW B, NEW Z, Tight(o, x, B, Z), NEW p, p.data \in Seq(Int), p.seq \in Int, Given(o, p, Z),
         NEW s, s = Trimmed(x, p), s.data # <<>>, NEW z \in Z
  PROVE  Mark(z, s.seq + Len(s.data)) /\ s.seq + Len(s.data) <= Edge(x)
<1> DEFINE L == Len(p.data)
           m == Len(s.data)
           room == BufSize - x.rlen
           nxt == x.rcv_nxt
           wnd == x.rcv_wnd
<1>1. nxt \in Nat /\ wnd \in Int /\ BufSize \in Nat /\ x.rlen \in Nat
  BY TcpConstants DEF Typed
<1>2. TrimmedWell(s, p, nxt, room)
  BY <1>1, TrimmedIs
<1>3. /\ s.seq \in Int /\ s.seq >= p.seq /\ m \in Nat \ {0} /\ L \in Nat /\ s.seq + m <= p.seq + L
      /\ p.seq + L <= nxt + room => s.seq + m = p.seq + L
  BY <1>2, EmptySeq DEF TrimmedWell
<1>4. p.data # <<>>
  BY <1>3
<1>5. Mark(z, p.seq + L) /\ p.seq + L <= Edge(o)
  BY <1>4 DEF Given, Marked
<1>6. Edge(o) <= Edge(x) /\ Edge(x) = nxt + wnd /\ wnd + x.rlen <= BufSize
  BY DEF Tight, Receives, Edge
<1> DEFINE bot == Edge(o)
           end == p.seq + L
<1>7. end \in Int /\ end <= bot /\ bot <= nxt + wnd /\ wnd + x.rlen <= BufSize
  BY <1>3, <1>5, <1>6
<1> HIDE DEF end, bot
<1>8. end <= nxt + room /\ end <= nxt + wnd
  <2> HIDE DEF nxt, wnd
  <2>1. bot \in Int
    BY DEF bot
  <2> QED
    BY <1>1, <1>7, <2>1
<1>9. s.seq + m = end
  BY <1>3, <1>8 DEF end
<1> QED
  BY <1>5, <1>6, <1>8, <1>9 DEF end

LEMMA AdvancedTight ==
  ASSUME NEW x, NEW w, Good(x, w), x.rlen \in 0 .. BufSize, NEW v \in Nat, NEW n, Received(x, v, n),
         NEW o, Edge(o) \in Int, NEW B, NEW Z, Tight(o, x, B, Z),
         NEW p, p.data \in Seq(Int), p.seq \in Int, Given(o, p, Z),
         NEW s, s = Trimmed(x, p), s.data # <<>>, s.seq = x.rcv_nxt, NEW y, Advanced(x, y, s)
  PROVE  Tight(o, y, B, Z)
<1> DEFINE nxt == x.rcv_nxt
           wnd == x.rcv_wnd
           L == Len(s.data)
           next == nxt + L
           to == Reached(x.rlist, next)
<1>1. Typed(x) /\ nxt \in Nat /\ wnd \in Int /\ x.rlen \in Nat /\ BufSize \in Nat
  BY TcpConstants DEF Good, Typed
<1>2. TrimmedWell(s, p, nxt, BufSize - x.rlen)
  BY <1>1, TrimmedIs
<1>3. L \in Nat
  BY <1>2 DEF TrimmedWell
<1>4. /\ Same(x, y, DataFields) /\ y.rlen = x.rlen + (to - nxt) /\ y.rcv_nxt = to
      /\ y.rcv_wnd = wnd - (to - nxt) /\ y.rlist = {r \in x.rlist : r.seq > to}
  BY DEF Advanced
<1>5. \A r \in x.rlist : r.seq \in Int /\ r.len \in Int /\ r.seq + r.len <= v + 1
  BY SavedIs DEF Saved
<1>6. to \in Int /\ (to = next \/ \E r \in x.rlist : to = r.seq + r.len)
  <2> DEFINE saved == x.rlist
             b == v + 1
  <2>1. /\ b \in Int /\ \A r \in saved : r.seq \in Int /\ r.len \in Int /\ r.seq + r.len <= b
        /\ to = Reached(saved, next) /\ next \in Int
    BY <1>1, <1>3, <1>5
  <2> HIDE DEF saved, b, to, next
  <2>2. ReachedWell(saved, next, to)
    BY <2>1, ReachedIs
  <2> QED
    BY <2>2 DEF ReachedWell, saved
<1> HIDE DEF to
<1>7. SendingSame(x, y) /\ y.out = x.out /\ (y.forced <=> x.forced)
  BY <1>4 DEF Same, Fields, DataFields, SendingSame
<1>8. Edge(y) = Edge(x) /\ Edge(y) \in Int
  BY <1>1, <1>4, <1>6 DEF Edge
<1>9. ASSUME NEW z \in Z
      PROVE  /\ 0 <= y.rcv_wnd /\ y.rcv_wnd + y.rlen <= BufSize
             /\ Mark(z, y.rcv_nxt) /\ \A r \in y.rlist : Mark(z, r.seq + r.len)
  <2>1. /\ wnd + x.rlen <= BufSize /\ Edge(o) <= Edge(x) /\ \A r \in x.rlist : Mark(z, r.seq + r.len)
    BY DEF Tight, Receives
  <2>2. Mark(z, next) /\ next <= Edge(x)
    BY <1>1, UncutIs
  <2>3. Mark(z, to) /\ to <= Edge(x)
    BY <2>2, <2>1, <1>6, <1>8 DEF Given
  <2>4. Edge(x) = nxt + wnd
    BY DEF Edge
  <2> HIDE DEF nxt, wnd, next
  <2> QED
    BY <2>1, <2>3, <2>4, <1>1, <1>4, <1>6
<1>10. Moves(x, y, Z)
  BY <1>8, <1>9 DEF Moves
<1> QED
  BY <1>7, <1>8, <1>10, MovedTight

LEMMA DataPartTight ==
  ASSUME NEW x, NEW w, Good(x, w), x.rlen \in 0 .. BufSize, NEW v \in Nat, NEW n,
         ~x.shutdown => Received(x, v, n),
         NEW o, Edge(o) \in Int, NEW B, NEW Z, Tight(o, x, B, Z),
         NEW p, p.data \in Seq(Int), p.seq \in Int, Given(o, p, Z),
         NEW y, y = DataPart(x, p)
  PROVE  Tight(o, y, B, Z)
<1> DEFINE s == Trimmed(x, p)
<1>1. Typed(x) /\ DOMAIN x = Fields /\ x.rcv_nxt \in Nat /\ x.rcv_wnd \in Int /\ x.rlen \in Nat
      /\ BufSize \in Nat
  BY TcpConstants DEF Good, Typed
<1>2. s = Trimmed(x, p)
  OBVIOUS
<1> HIDE DEF s
<1>3. DataCases(x, y, p, s)
  BY <1>1, <1>2, DataPartIs
<1>4. TrimmedWell(s, p, x.rcv_nxt, BufSize - x.rlen)
  BY <1>1, <1>2, TrimmedIs
<1>5. s.data \in Seq(Int) /\ Len(s.data) \in Nat
  BY <1>4 DEF TrimmedWell
<1>6. CASE y = x
  BY <1>6
<1>7. CASE /\ s.data # <<>> /\ s.seq = x.rcv_nxt
           /\ y = [x EXCEPT !.rcv_nxt = x.rcv_nxt + Len(s.data)]
  <2> DEFINE m == x.rcv_nxt + Len(s.data)
  <2>1. m \in Nat /\ m >= x.rcv_nxt
    BY <1>1, <1>5
  <2>2. \A z \in Z : Mark(z, m)
    BY <1>1, <1>2, <1>7, UncutIs
  <2>3. y = [x EXCEPT !.rcv_nxt = m]
    BY <1>7
  <2> HIDE DEF m
  <2>4. Same(x, y, {"rcv_nxt"}) /\ y.rcv_nxt = m
    BY <2>3, <1>1 DEF Same, Fields
  <2>5. /\ SendingSame(x, y) /\ y.out = x.out /\ (y.forced <=> x.forced)
        /\ y.rcv_wnd = x.rcv_wnd /\ y.rlen = x.rlen /\ y.rlist = x.rlist
    BY <2>4 DEF Same, Fields, SendingSame
  <2>6. Edge(y) \in Int /\ Edge(x) <= Edge(y)
    BY <2>1, <2>4, <2>5, <1>1 DEF Edge
  <2>7. Moves(x, y, Z)
    BY <2>2, <2>4, <2>5, <2>6 DEF Moves, Tight, Receives
  <2> QED
    BY <2>5, <2>6, <2>7, MovedTight
<1>8. CASE s.data # <<>> /\ ~(p.ctl \/ x.shutdown) /\ s.seq = x.rcv_nxt /\ Advanced(x, y, s)
  BY <1>2, <1>8, AdvancedTight
<1>9. CASE s.data # <<>> /\ SavedToo(x, y, s)
  <2> DEFINE q == [seq |-> s.seq, len |-> Len(s.data)]
  <2>1. Same(x, y, {"rbuf", "rlist"}) /\ y.rlist = x.rlist \cup {q}
    BY <1>9 DEF SavedToo
  <2>2. q.seq + q.len = s.seq + Len(s.data)
    OBVIOUS
  <2> HIDE DEF q
  <2>3. /\ SendingSame(x, y) /\ y.out = x.out /\ (y.forced <=> x.forced)
        /\ y.rcv_wnd = x.rcv_wnd /\ y.rlen = x.rlen /\ y.rcv_nxt = x.rcv_nxt
    BY <2>1 DEF Same, Fields, SendingSame
  <2>4. \A z \in Z : Mark(z, q.seq + q.len)
    BY <1>1, <1>2, <1>9, <2>2, UncutIs
  <2>5. Edge(y) \in Int /\ Edge(x) <= Edge(y)
    BY <2>3, <1>1 DEF Edge
  <2>6. Moves(x, y, Z)
    BY <2>1, <2>3, <2>4, <2>5 DEF Moves, Tight, Receives
  <2> QED
    BY <2>3, <2>5, <2>6, MovedTight
<1> QED
  BY <1>3, <1>6, <1>7, <1>8, <1>9 DEF DataCases

-----------------------------------------------------------------------------
(* The two ends.                                                           *)
LEMMA PeerIs ==
  ASSUME NEW e \in Ends
  PROVE  Peer(e) \in Ends /\ Peer(e) # e /\ Peer(Peer(e)) = e /\ Ends = {e, Peer(e)}
BY DEF Peer, Ends

(* The peer writes on: what was true of a packet and of a receiver stays.  *)
LEMMA PacketMore ==
  ASSUME NEW p, NEW w \in Nat, NEW v \in Nat, w <= v, PacketOK(p, w)
  PROVE  PacketOK(p, v)
BY DEF PacketOK

LEMMA ContentsMore ==
  ASSUME NEW p, p.seq \in Int, NEW a \in Int, NEW b \in Int, a <= b, Contents(p, a)
  PROVE  Contents(p, b)
BY DEF Contents

LEMMA ReceiverMore ==
  ASSUME NEW x, x.rcv_nxt \in Int, NEW w \in Nat, NEW v \in Nat, w <= v,
         NEW rd, Receiver(x, w, rd)
  PROVE  Receiver(x, v, rd)
<1> DEFINE n == Len(rd)
<1>1. x.rcv_nxt <= v + 1
  BY DEF Receiver
<1>2. ASSUME ~x.shutdown
      PROVE  Received(x, v, n)
  <2>1. Received(x, w, n)
    BY <1>2 DEF Receiver
  <2> HIDE DEF n
  <2>2. ASSUME NEW r \in x.rlist
        PROVE  Saved(x, v, n, r)
    BY <2>1, SavedIs DEF Saved
  <2> QED
    BY <2>1, <2>2 DEF Received
<1> QED
  BY <1>1, <1>2 DEF Receiver

-----------------------------------------------------------------------------
(* What is true of the block y that a handler at e leaves, when the user   *)
(* of e has then written w bytes and read rd.                              *)
Intact(rd, v) ==
  rd \in Seq(Int) /\ Len(rd) <= v /\ \A k \in 1 .. Len(rd) : rd[k] = k

Quiet(y) == y.rcv_nxt >= 1 \/ (y.state \in {"TCP_LISTEN", "TCP_CLOSED"} /\ \A p \in y.out : ~p.ctl)

Held(e, y, w, rd) ==
  LET f == Peer(e)
  IN /\ Good(y, w) /\ y.state # "DELETED"
     /\ w \in Nat /\ w >= written[e] /\ (y.state = "TCP_LISTEN" => w = 0)
     /\ Intact(rd, written[f]) /\ Receiver(y, written[f], rd)
     /\ y.rcv_nxt >= tcb[e].rcv_nxt
     /\ ~Deleted(f) => y.snd_una <= tcb[f].rcv_nxt
     /\ y.state \in {"TCP_SYN_RECEIVED", "TCP_ESTABLISHED"} => y.rcv_nxt >= 1
     /\ (y.state = "TCP_ESTABLISHED" \/ w > 0) /\ ~Deleted(f) => tcb[f].rcv_nxt >= 1
     /\ e = "responder" => y.state # "TCP_SYN_SENT" /\ Quiet(y)

(* The block that is kept: it is deleted, or only what belongs to the      *)
(* handler is reset.                                                       *)
HandlerFields == {"out", "room", "trouble", "mtu", "cwnd", "sflags", "newData", "ignored"}

Empty(z) == z.sbuf = <<>> /\ z.slist = <<>> /\ z.snd_nxt = 0

Result(y, z) ==
  /\ Typed(z) /\ z.out = {}
  /\ \/ z.state = "DELETED" /\ z.shutdown /\ Empty(z)
     \/ Same(y, z, HandlerFields) /\ (z.shutdown => z.state = "TCP_ESTABLISHED")

NetStep(e, y) ==
  /\ DOMAIN net' = Ends /\ net'[e] \subseteq net[e]
  /\ net'[Peer(e)] \subseteq net[Peer(e)] \cup y.out

Moved(e, z, w, rd) ==
  LET f == Peer(e)
  IN /\ Functions'
     /\ tcb'[e] = z /\ written'[e] = w /\ read'[e] = rd
     /\ tcb'[f] = tcb[f] /\ written'[f] = written[f] /\ read'[f] = read[f]

Step(e, y, z, w, rd) == Result(y, z) /\ NetStep(e, y) /\ Moved(e, z, w, rd)

LEMMA ResultIs ==
  ASSUME NEW e, NEW y, NEW w, NEW rd, Held(e, y, w, rd), NEW z, Result(y, z)
  PROVE  /\ Good(z, w) /\ z.out = {} /\ (z.state = "TCP_LISTEN" => w = 0)
         /\ z.shutdown => z.state \in {"TCP_ESTABLISHED", "DELETED"}
         /\ z.state = "DELETED" => z.shutdown
         /\ z.state # "DELETED" =>
              /\ z.state = y.state /\ z.rcv_nxt = y.rcv_nxt /\ z.snd_una = y.snd_una
              /\ Receiver(z, written[Peer(e)], rd)
<1>1. CASE z.state = "DELETED"
  BY <1>1 DEF Result, Same, Fields, HandlerFields, Held, Outgoing, Good, Ended
<1>2. CASE z.state # "DELETED"
  <2>1. Typed(z) /\ z.out = {} /\ Same(y, z, HandlerFields) /\ (z.shutdown => z.state = "TCP_ESTABLISHED")
    BY <1>2 DEF Result
  <2>2. /\ z.state = y.state /\ z.rcv_nxt = y.rcv_nxt /\ z.snd_una = y.snd_una
        /\ z.sbuf = y.sbuf /\ z.slist = y.slist /\ z.snd_nxt = y.snd_nxt /\ z.recover = y.recover
        /\ z.rbuf = y.rbuf /\ z.rlen = y.rlen /\ z.rlist = y.rlist
        /\ z.shutdown = y.shutdown /\ z.canRead = y.canRead
    BY <2>1 DEF Same, Fields, HandlerFields
  <2>3. Good(y, w) /\ (y.state = "TCP_LISTEN" => w = 0) /\ Receiver(y, written[Peer(e)], rd)
    BY DEF Held
  <2>4. Outgoing(z, w)
    BY <2>1 DEF Outgoing
  <2>5. Good(z, w)
    BY <2>1, <2>2, <2>3, <2>4, GoodSame
  <2>6. Receiver(z, written[Peer(e)], rd)
    <3> DEFINE n == Len(rd)
               v == written[Peer(e)]
    <3>1. ASSUME ~z.shutdown
          PROVE  Received(z, v, n)
      <4>1. Received(y, v, n)
        BY <3>1, <2>2, <2>3 DEF Receiver
      <4> HIDE DEF n, v
      <4> QED
        BY <4>1, <2>2, ReceivedSame
    <3> QED
      BY <3>1, <2>2, <2>3 DEF Receiver
  <2> QED
    BY <1>2, <2>1, <2>2, <2>3, <2>5, <2>6
<1> QED
  BY <1>1, <1>2

LEMMA StepOwn ==
  ASSUME IInv, NEW e \in Ends, NEW y, NEW z, NEW w, NEW rd,
         Held(e, y, w, rd), Step(e, y, z, w, rd)
  PROVE  EndOK(e)'
<1> DEFINE f == Peer(e)
<1>1. f \in Ends /\ f # e /\ Peer(f) = e
  BY PeerIs
<1>2. /\ tcb'[e] = z /\ written'[e] = w /\ read'[e] = rd
      /\ tcb'[f] = tcb[f] /\ written'[f] = written[f]
  BY DEF Step, Moved
<1>3. /\ Good(z, w) /\ z.out = {} /\ (z.state = "TCP_LISTEN" => w = 0)
      /\ z.shutdown => z.state \in {"TCP_ESTABLISHED", "DELETED"}
      /\ z.state = "DELETED" => z.shutdown
      /\ z.state # "DELETED" =>
           /\ z.state = y.state /\ z.rcv_nxt = y.rcv_nxt /\ z.snd_una = y.snd_una
           /\ Receiver(z, written[f], rd)
  BY ResultIs DEF Step
<1>4. /\ w \in Nat /\ rd \in Seq(Int)
      /\ ~Deleted(f) => y.snd_una <= tcb[f].rcv_nxt
      /\ y.state \in {"TCP_SYN_RECEIVED", "TCP_ESTABLISHED"} => y.rcv_nxt >= 1
      /\ (y.state = "TCP_ESTABLISHED" \/ w > 0) /\ ~Deleted(f) => tcb[f].rcv_nxt >= 1
  BY DEF Held, Intact
<1> HIDE DEF f
<1>5. Good(tcb'[e], written'[e]) /\ tcb'[e].out = {} /\ written'[e] \in Nat /\ read'[e] \in Seq(Int)
  BY <1>2, <1>3, <1>4
<1>6. /\ tcb'[e].state = "TCP_LISTEN" => written'[e] = 0
      /\ tcb'[e].shutdown => tcb'[e].state \in {"TCP_ESTABLISHED", "DELETED"}
      /\ tcb'[e].state = "DELETED" => tcb'[e].shutdown
      /\ tcb'[e].state # "DELETED" => Receiver(tcb'[e], written'[f], read'[e])
      /\ tcb'[e].state # "DELETED" /\ tcb'[f].state # "DELETED" => tcb'[e].snd_una <= tcb'[f].rcv_nxt
      /\ tcb'[e].state \in {"TCP_SYN_RECEIVED", "TCP_ESTABLISHED"} => tcb'[e].rcv_nxt >= 1
      /\ (tcb'[e].state = "TCP_ESTABLISHED" \/ written'[e] > 0) /\ tcb'[f].state # "DELETED" =>
           tcb'[f].rcv_nxt >= 1
  BY <1>2, <1>3, <1>4 DEF Deleted
<1> QED
  BY <1>5, <1>6 DEF EndOK, Deleted, f

LEMMA StepOther ==
  ASSUME IInv, NEW e \in Ends, NEW y, NEW z, NEW w, NEW rd,
         Held(e, y, w, rd), Step(e, y, z, w, rd), ~Deleted(e)
  PROVE  EndOK(Peer(e))'
<1> DEFINE f == Peer(e)
<1>1. f \in Ends /\ f # e /\ Peer(f) = e
  BY PeerIs
<1>2. /\ tcb'[e] = z /\ written'[e] = w
      /\ tcb'[f] = tcb[f] /\ written'[f] = written[f] /\ read'[f] = read[f]
  BY DEF Step, Moved
<1>3. z.state # "DELETED" => z.rcv_nxt = y.rcv_nxt
  BY ResultIs DEF Step
<1>4. w \in Nat /\ w >= written[e] /\ y.rcv_nxt >= tcb[e].rcv_nxt
  BY DEF Held
<1>5. EndOK(e) /\ EndOK(f)
  BY <1>1 DEF IInv
<1>6. /\ written[e] \in Nat /\ tcb[e].rcv_nxt \in Nat /\ y.rcv_nxt \in Nat
      /\ tcb[f].rcv_nxt \in Nat /\ tcb[f].snd_una \in Nat
  BY <1>5 DEF EndOK, Good, Typed, Held
<1>7. /\ Good(tcb[f], written[f]) /\ tcb[f].out = {}
      /\ written[f] \in Nat /\ read[f] \in Seq(Int)
      /\ tcb[f].state = "TCP_LISTEN" => written[f] = 0
      /\ tcb[f].shutdown => tcb[f].state \in {"TCP_ESTABLISHED", "DELETED"}
      /\ tcb[f].state = "DELETED" => tcb[f].shutdown
      /\ tcb[f].state # "DELETED" => Receiver(tcb[f], written[e], read[f])
      /\ tcb[f].state # "DELETED" => tcb[f].snd_una <= tcb[e].rcv_nxt
      /\ tcb[f].state \in {"TCP_SYN_RECEIVED", "TCP_ESTABLISHED"} => tcb[f].rcv_nxt >= 1
      /\ (tcb[f].state = "TCP_ESTABLISHED" \/ written[f] > 0) => tcb[e].rcv_nxt >= 1
  BY <1>1, <1>5 DEF EndOK, Deleted
<1> HIDE DEF f
<1>8. tcb[f].state # "DELETED" => Receiver(tcb[f], w, read[f])
  BY <1>4, <1>6, <1>7, ReceiverMore
<1>9. /\ tcb[f].state # "DELETED" => tcb[f].snd_una <= y.rcv_nxt
      /\ (tcb[f].state = "TCP_ESTABLISHED" \/ written[f] > 0) => y.rcv_nxt >= 1
  BY <1>4, <1>6, <1>7
<1>10. /\ Good(tcb'[f], written'[f]) /\ tcb'[f].out = {} /\ written'[f] \in Nat /\ read'[f] \in Seq(Int)
       /\ tcb'[f].state = "TCP_LISTEN" => written'[f] = 0
       /\ tcb'[f].shutdown => tcb'[f].state \in {"TCP_ESTABLISHED", "DELETED"}
       /\ tcb'[f].state = "DELETED" => tcb'[f].shutdown
       /\ tcb'[f].state # "DELETED" => Receiver(tcb'[f], written'[e], read'[f])
       /\ tcb'[f].state # "DELETED" /\ tcb'[e].state # "DELETED" => tcb'[f].snd_una <= tcb'[e].rcv_nxt
       /\ tcb'[f].state \in {"TCP_SYN_RECEIVED", "TCP_ESTABLISHED"} => tcb'[f].rcv_nxt >= 1
       /\ (tcb'[f].state = "TCP_ESTABLISHED" \/ written'[f] > 0) /\ tcb'[e].state # "DELETED" =>
            tcb'[e].rcv_nxt >= 1
  BY <1>2, <1>3, <1>7, <1>8, <1>9
<1>11. EndOK(f)'
  BY <1>1, <1>10 DEF EndOK, Deleted
<1> QED
  BY <1>11 DEF f

LEMMA StepOut ==
  ASSUME IInv, NEW e \in Ends, NEW y, NEW z, NEW w, NEW rd,
         Held(e, y, w, rd), Step(e, y, z, w, rd), ~Deleted(e)
  PROVE  PacketsOK(e)'
<1> DEFINE f == Peer(e)
<1>1. f \in Ends /\ f # e /\ Peer(f) = e
  BY PeerIs
<1>2. /\ tcb'[e] = z /\ written'[e] = w
      /\ tcb'[f] = tcb[f] /\ written'[f] = written[f]
  BY DEF Step, Moved
<1>3. z.state # "DELETED" => z.rcv_nxt = y.rcv_nxt
  BY ResultIs DEF Step
<1>4. /\ w \in Nat /\ w >= written[e] /\ y.rcv_nxt >= tcb[e].rcv_nxt /\ Good(y, w)
      /\ Receiver(y, written[f], rd) /\ (~Deleted(f) => y.snd_una <= tcb[f].rcv_nxt)
  BY DEF Held
<1>5. EndOK(e) /\ EndOK(f) /\ PacketsOK(e)
  BY <1>1 DEF IInv
<1>6. /\ written[e] \in Nat /\ tcb[e].rcv_nxt \in Nat /\ y.rcv_nxt \in Nat /\ y.snd_una \in Nat
      /\ tcb[f].rcv_nxt \in Nat /\ written[f] \in Nat /\ y.rcv_nxt <= written[f] + 1
  BY <1>4, <1>5 DEF EndOK, Good, Typed, Receiver
<1>7. net'[f] \subseteq net[f] \cup y.out
  BY DEF Step, NetStep
<1> HIDE DEF f
<1>8. ASSUME NEW p \in net'[f]
      PROVE  /\ PacketOK(p, w) /\ p.ack <= written[f] + 1 /\ p.ack <= y.rcv_nxt
             /\ ~Deleted(f) => Contents(p, tcb[f].rcv_nxt)
  <2>1. CASE p \in net[f]
    <3>1. /\ PacketOK(p, written[e]) /\ p.ack <= written[f] + 1 /\ p.ack <= tcb[e].rcv_nxt
          /\ ~Deleted(f) => Contents(p, tcb[f].rcv_nxt)
      BY <2>1, <1>5 DEF PacketsOK, f
    <3>2. p.ack \in Nat
      BY <3>1 DEF PacketOK
    <3>3. PacketOK(p, w)
      BY <3>1, <1>4, <1>6, PacketMore
    <3>4. p.ack <= y.rcv_nxt
      BY <3>1, <3>2, <1>4, <1>6
    <3> QED
      BY <3>1, <3>3, <3>4
  <2>2. CASE p \in y.out
    <3>1. PacketOK(p, w) /\ Contents(p, y.snd_una) /\ p.ack <= y.rcv_nxt
      BY <2>2, <1>4 DEF Good, Outgoing
    <3>2. p.ack \in Nat /\ p.seq \in Int
      BY <3>1 DEF PacketOK
    <3>3. ~Deleted(f) => Contents(p, tcb[f].rcv_nxt)
      BY <3>1, <3>2, <1>4, <1>6, ContentsMore
    <3>4. p.ack <= written[f] + 1
      BY <3>1, <3>2, <1>6
    <3> QED
      BY <3>1, <3>3, <3>4
  <2> QED
    BY <1>7, <1>8, <2>1, <2>2
<1>9. \A p \in net'[f] :
        /\ PacketOK(p, written'[e]) /\ p.ack <= written'[f] + 1
        /\ tcb'[e].state # "DELETED" => p.ack <= tcb'[e].rcv_nxt
        /\ tcb'[f].state # "DELETED" => Contents(p, tcb'[f].rcv_nxt)
  BY <1>2, <1>3, <1>8 DEF Deleted
<1> QED
  BY <1>9 DEF PacketsOK, Deleted, f

LEMMA StepIn ==
  ASSUME IInv, NEW e \in Ends, NEW y, NEW z, NEW w, NEW rd,
         Held(e, y, w, rd), Step(e, y, z, w, rd), ~Deleted(e)
  PROVE  PacketsOK(Peer(e))'
<1> DEFINE f == Peer(e)
<1>1. f \in Ends /\ f # e /\ Peer(f) = e
  BY PeerIs
<1>2. /\ tcb'[e] = z /\ written'[e] = w
      /\ tcb'[f] = tcb[f] /\ written'[f] = written[f]
  BY DEF Step, Moved
<1>3. z.state # "DELETED" => z.rcv_nxt = y.rcv_nxt
  BY ResultIs DEF Step
<1>4. w \in Nat /\ w >= written[e] /\ y.rcv_nxt >= tcb[e].rcv_nxt /\ Good(y, w)
  BY DEF Held
<1>5. EndOK(e) /\ PacketsOK(f)
  BY <1>1 DEF IInv
<1>6. written[e] \in Nat /\ tcb[e].rcv_nxt \in Nat /\ y.rcv_nxt \in Nat
  BY <1>4, <1>5 DEF EndOK, Good, Typed
<1>7. net'[e] \subseteq net[e]
  BY DEF Step, NetStep
<1> HIDE DEF f
<1>8. ASSUME NEW p \in net'[e]
      PROVE  /\ PacketOK(p, written[f]) /\ p.ack <= w + 1
             /\ ~Deleted(f) => p.ack <= tcb[f].rcv_nxt
             /\ Contents(p, y.rcv_nxt)
  <2>1. /\ PacketOK(p, written[f]) /\ p.ack <= written[e] + 1
        /\ ~Deleted(f) => p.ack <= tcb[f].rcv_nxt
        /\ Contents(p, tcb[e].rcv_nxt)
    BY <1>1, <1>5, <1>7, <1>8 DEF PacketsOK
  <2>2. p.ack \in Nat /\ p.seq \in Int
    BY <2>1 DEF PacketOK
  <2>3. Contents(p, y.rcv_nxt)
    BY <2>1, <2>2, <1>4, <1>6, ContentsMore
  <2>4. p.ack <= w + 1
    BY <2>1, <2>2, <1>4, <1>6
  <2> QED
    BY <2>1, <2>3, <2>4
<1>9. \A p \in net'[e] :
        /\ PacketOK(p, written'[f]) /\ p.ack <= written'[e] + 1
        /\ tcb'[f].state # "DELETED" => p.ack <= tcb'[f].rcv_nxt
        /\ tcb'[e].state # "DELETED" => Contents(p, tcb'[e].rcv_nxt)
  BY <1>2, <1>3, <1>8 DEF Deleted
<1>10. PacketsOK(f)'
  BY <1>1, <1>9 DEF PacketsOK, Deleted
<1> QED
  BY <1>10 DEF f

LEMMA StepAnswered ==
  ASSUME IInv, NEW e \in Ends, NEW y, NEW z, NEW w, NEW rd,
         Held(e, y, w, rd), Step(e, y, z, w, rd), ~Deleted(e)
  PROVE  Answered'
<1> DEFINE f == Peer(e)
<1>1. f \in Ends /\ f # e
  BY PeerIs
<1>2. tcb'[e] = z /\ tcb'[f] = tcb[f]
  BY DEF Step, Moved
<1>3. z.state # "DELETED" => z.state = y.state /\ z.rcv_nxt = y.rcv_nxt
  BY ResultIs DEF Step
<1>4. Good(y, w) /\ y.rcv_nxt >= tcb[e].rcv_nxt /\ (e = "responder" => y.state # "TCP_SYN_SENT" /\ Quiet(y))
  BY DEF Held
<1>5. Answered /\ EndOK(e)
  BY DEF IInv
<1>6. tcb[e].rcv_nxt \in Nat /\ y.rcv_nxt \in Nat
  BY <1>4, <1>5 DEF EndOK, Good, Typed
<1>7. net'[e] \subseteq net[e] /\ net'[f] \subseteq net[f] \cup y.out
  BY DEF Step, NetStep
<1> HIDE DEF f
<1>8. CASE e = "responder"
  <2>1. f = "initiator"
    BY <1>1, <1>8 DEF Ends
  <2>2. ASSUME z.state # "DELETED", NEW p \in net'[f], p.ctl
        PROVE  y.rcv_nxt >= 1
    <3>1. CASE p \in net[f]
      <4>1. tcb[e].rcv_nxt >= 1
        BY <2>1, <2>2, <3>1, <1>5, <1>8 DEF Answered, Deleted
      <4> QED
        BY <4>1, <1>4, <1>6
    <3>2. CASE p \in y.out
      BY <2>2, <3>2, <1>4, <1>8 DEF Quiet
    <3> QED
      BY <3>1, <3>2, <1>7, <2>2
  <2>3. z.state # "TCP_SYN_SENT"
    BY <1>3, <1>4, <1>8
  <2>4. tcb'["responder"].state # "TCP_SYN_SENT"
    BY <2>3, <1>2, <1>8
  <2>5. tcb'["responder"].state # "DELETED" =>
          \A p \in net'["initiator"] : p.ctl => tcb'["responder"].rcv_nxt >= 1
    BY <2>1, <2>2, <1>2, <1>3, <1>8
  <2> QED
    BY <2>4, <2>5 DEF Answered
<1>9. CASE e = "initiator"
  BY <1>1, <1>9, <1>5, <1>2, <1>7 DEF Ends, Answered
<1> QED
  BY <1>8, <1>9 DEF Ends

LEMMA IntactIs ==
  ASSUME IInv, NEW e \in Ends
  PROVE  Intact(read[e], written[Peer(e)])
BY DEF IInv, EndOK, StreamIsIntact, Intact

LEMMA IntactNow ==
  ASSUME \A e \in Ends : Intact(read'[e], written'[Peer(e)])
  PROVE  StreamIsIntact'
BY DEF Intact, StreamIsIntact

LEMMA IntactMore ==
  ASSUME NEW rd, NEW v \in Nat, NEW w \in Nat, v <= w, Intact(rd, v)
  PROVE  Intact(rd, w)
BY DEF Intact

(* A handler that holds what it should keeps the invariant.                *)
LEMMA StepKeeps ==
  ASSUME IInv, NEW e \in Ends, ~Deleted(e), NEW y, NEW z, NEW w, NEW rd,
         Held(e, y, w, rd), Step(e, y, z, w, rd)
  PROVE  IInv'
<1> DEFINE f == Peer(e)
<1>1. f \in Ends /\ f # e /\ Peer(f) = e /\ Ends = {e, f}
  BY PeerIs
<1>2. /\ Functions' /\ written'[e] = w /\ read'[e] = rd
      /\ written'[f] = written[f] /\ read'[f] = read[f]
  BY DEF Step, Moved
<1>3. EndOK(e)' /\ EndOK(f)' /\ PacketsOK(e)' /\ PacketsOK(f)'
  BY StepOwn, StepOther, StepOut, StepIn
<1>4. Answered'
  BY StepAnswered
<1>5. Intact(rd, written[f]) /\ w \in Nat /\ w >= written[e]
  BY DEF Held
<1>6. written[e] \in Nat /\ Intact(read[f], written[e])
  BY <1>1, IntactIs DEF IInv, EndOK
<1> HIDE DEF f
<1>7. Intact(read[f], w)
  BY <1>5, <1>6, IntactMore
<1>8. \A a \in Ends : Intact(read'[a], written'[Peer(a)])
  BY <1>1, <1>2, <1>5, <1>7 DEF f
<1>9. StreamIsIntact'
  BY <1>8, IntactNow
<1>10. \A a \in Ends : EndOK(a)' /\ PacketsOK(a)'
  BY <1>1, <1>3
<1> QED
  BY <1>2, <1>4, <1>9, <1>10 DEF IInv

-----------------------------------------------------------------------------
(* A user of an end, and the flags that only concern him.                  *)
UserFields == {"canRead", "canWrite", "readEnable", "writeEnable", "shutdown"}

LEMMA GoodUser ==
  ASSUME NEW x, NEW w, Good(x, w), NEW y, Same(x, y, UserFields), y.shutdown \in BOOLEAN
  PROVE  Good(y, w)
<1>1. /\ DOMAIN y = Fields
      /\ y.state = x.state /\ y.sbuf = x.sbuf /\ y.slist = x.slist
      /\ y.snd_una = x.snd_una /\ y.snd_nxt = x.snd_nxt /\ y.snd_wnd = x.snd_wnd
      /\ y.recover = x.recover /\ y.mss = x.mss /\ y.mtu_advise = x.mtu_advise
      /\ y.msslevel = x.msslevel /\ y.dup_acks = x.dup_acks /\ y.room = x.room
      /\ y.mtu = x.mtu /\ y.cwnd = x.cwnd /\ y.out = x.out
      /\ y.rcv_nxt = x.rcv_nxt /\ y.rcv_wnd = x.rcv_wnd
  BY DEF Same, Fields, UserFields
<1>2. Typed(y)
  BY <1>1 DEF Good, Typed
<1>3. Outgoing(y, w)
  BY <1>1 DEF Good, Outgoing
<1> QED
  BY <1>1, <1>2, <1>3, GoodSame

(* What a handler that does not receive leaves as it is.                   *)
ReceiverKept(x, y) ==
  /\ y.rbuf = x.rbuf /\ y.rlen = x.rlen /\ y.rlist = x.rlist /\ y.rcv_nxt = x.rcv_nxt
  /\ y.shutdown = x.shutdown /\ (y.shutdown => ~y.canRead)

LEMMA ReceiverSame ==
  ASSUME NEW x, NEW v, NEW rd, Receiver(x, v, rd), NEW y, ReceiverKept(x, y)
  PROVE  Receiver(y, v, rd)
<1> DEFINE n == Len(rd)
<1>1. ASSUME ~y.shutdown
      PROVE  Received(y, v, n)
  <2>1. Received(x, v, n)
    BY <1>1 DEF Receiver, ReceiverKept
  <2> HIDE DEF n
  <2> QED
    BY <2>1, ReceivedSame DEF ReceiverKept
<1> QED
  BY <1>1 DEF Receiver, ReceiverKept

LEMMA BlockIs ==
  /\ Typed(Block0) /\ Block0.out = {} /\ Block0.state = "TCP_LISTEN" /\ ~Block0.shutdown
  /\ Block0.snd_una = 0 /\ Block0.snd_nxt = 0 /\ Block0.sbuf = <<>> /\ Block0.slist = <<>>
  /\ Block0.recover = 0 /\ Block0.rcv_nxt = 0 /\ Block0.rlen = 0 /\ Block0.rlist = {}
  /\ Block0.rbuf \in [1 .. BufSize -> Int]
<1> DEFINE buf == [k \in 1 .. BufSize |-> Junk]
           last == LastMax
           first == Maxima[1]
<1>1. last \in Nat \ {0} /\ first \in Nat \ {0} /\ 1 \in 1 .. Len(Maxima)
  BY MaximaAre DEF LastMax
<1>2. buf \in [1 .. BufSize -> Int]
  BY DEF Junk
<1>3. BufSize \in Int
  BY TcpConstants
<1>4. <<>> \in Seq(Int) /\ <<>> \in Seq(Segments)
  BY EmptySeq
<1>5. /\ DOMAIN Block0 = Fields
      /\ Block0.state = "TCP_LISTEN" /\ Block0.shutdown = FALSE
      /\ Block0.sbuf = <<>> /\ Block0.slist = <<>> /\ Block0.snd_una = 0 /\ Block0.snd_nxt = 0
      /\ Block0.snd_wnd = 1 /\ Block0.recover = 0 /\ Block0.rcv_nxt = 0 /\ Block0.rlen = 0
      /\ Block0.rlist = {} /\ Block0.rbuf = buf /\ Block0.rcv_wnd = BufSize
      /\ Block0.mss = last /\ Block0.mtu_advise = first /\ Block0.msslevel = 1
      /\ Block0.dup_acks = 0 /\ Block0.room = 0 /\ Block0.mtu = 0 /\ Block0.cwnd = 0
      /\ Block0.out = {}
  <2> HIDE DEF buf, last, first
  <2> QED
    BY DEF Block0, Fields, buf, last, first
<1> HIDE DEF buf, last, first
<1>6. Typed(Block0)
  <2>1. Block0.state \in States /\ Block0.shutdown \in BOOLEAN
    BY <1>5 DEF States
  <2>2. Block0.sbuf \in Seq(Int) /\ Block0.slist \in Seq(Segments)
    BY <1>4, <1>5
  <2>3. /\ Block0.snd_una \in Nat /\ Block0.snd_nxt \in Nat /\ Block0.snd_wnd \in Nat
        /\ Block0.recover \in Nat /\ Block0.rcv_nxt \in Nat /\ Block0.rcv_wnd \in Int
        /\ Block0.mss \in Nat \ {0} /\ Block0.mtu_advise \in Nat \ {0}
        /\ Block0.msslevel \in 1 .. Len(Maxima) /\ Block0.dup_acks \in 0 .. 255
        /\ Block0.room \in Nat /\ Block0.mtu \in Nat /\ Block0.cwnd \in Nat
    BY <1>1, <1>3, <1>5
  <2> QED
    BY <1>5, <2>1, <2>2, <2>3 DEF Typed
<1> QED
  BY <1>2, <1>5, <1>6

LEMMA TypedSame ==
  ASSUME NEW x, Typed(x), NEW y, Same(x, y, HandlerFields \cup {"state", "shutdown"}),
         y.state \in States, y.shutdown \in BOOLEAN,
         y.room \in Nat, y.mtu \in Nat, y.cwnd \in Nat
  PROVE  Typed(y)
BY DEF Same, Fields, HandlerFields, Typed

LEMMA DeletedIs ==
  ASSUME NEW z, z = [Block0 EXCEPT !.state = "DELETED", !.shutdown = TRUE, !.out = {}, !.room = 0,
                       !.trouble = "WR_BLOCKING", !.mtu = 0, !.cwnd = 0, !.sflags = "sfNone",
                       !.newData = FALSE, !.ignored = FALSE]
  PROVE  Typed(z) /\ z.out = {} /\ z.state = "DELETED" /\ z.shutdown /\ Empty(z)
BY BlockIs, TypedSame DEF Typed, Same, Fields, HandlerFields, States, Empty

(* Done() and check().                                                     *)
Reset(x) ==
  [x EXCEPT !.out = {}, !.room = 0, !.trouble = "WR_BLOCKING", !.mtu = 0, !.cwnd = 0,
            !.sflags = "sfNone", !.newData = FALSE, !.ignored = FALSE]

LEMMA ResetIs ==
  ASSUME NEW x, Typed(x), NEW z, z = Reset(x)
  PROVE  Typed(z) /\ z.out = {} /\ Same(x, z, HandlerFields)
BY TypedSame DEF Typed, Reset, Same, Fields, HandlerFields

LEMMA DoneIs ==
  ASSUME NEW e, NEW y, Done(e, y)
  PROVE  tcb' = [tcb EXCEPT ![e] = Reset(y)]
BY DEF Done, Reset

LEMMA CheckedIs ==
  ASSUME NEW y, Typed(y), NEW z, z = Reset(Checked(y))
  PROVE  Result(y, z)
<1>1. CASE y.shutdown /\ (y.state # "TCP_ESTABLISHED" \/ (y.sbuf = <<>> /\ ~y.t_ack))
  <2> DEFINE out == y.out
             ignored == y.ignored \/ y.state = "TCP_CLOSED"
             b == [Block0 EXCEPT !.state = "DELETED", !.shutdown = TRUE, !.out = out,
                                 !.ignored = ignored]
  <2>1. Checked(y) = b
    BY <1>1 DEF Checked
  <2>2. DOMAIN Block0 = Fields
    BY BlockIs DEF Typed
  <2> HIDE DEF out, ignored
  <2>3. z = [Block0 EXCEPT !.state = "DELETED", !.shutdown = TRUE, !.out = {}, !.room = 0,
                       !.trouble = "WR_BLOCKING", !.mtu = 0, !.cwnd = 0, !.sflags = "sfNone",
                       !.newData = FALSE, !.ignored = FALSE]
    BY <2>1, <2>2 DEF Reset, Fields
  <2>4. Typed(z) /\ z.out = {} /\ z.state = "DELETED" /\ z.shutdown /\ Empty(z)
    BY <2>3, DeletedIs
  <2> QED
    BY <2>4 DEF Result
<1>2. CASE ~(y.shutdown /\ (y.state # "TCP_ESTABLISHED" \/ (y.sbuf = <<>> /\ ~y.t_ack)))
  BY <1>2, ResetIs DEF Checked, Same, Fields, HandlerFields, Result
<1> QED
  BY <1>1, <1>2

LEMMA UncheckedIs ==
  ASSUME NEW y, Typed(y), y.shutdown => y.state = "TCP_ESTABLISHED", NEW z, z = Reset(y)
  PROVE  Result(y, z)
BY ResetIs DEF Same, Fields, HandlerFields, Result

(* What was written is on its way or lost.                                 *)
LEMMA SentIs ==
  ASSUME NEW e \in Ends, NEW y, NEW before, Sent(e, y, before), DOMAIN before = Ends,
         before[e] \subseteq net[e], before[Peer(e)] = net[Peer(e)]
  PROVE  NetStep(e, y)
BY PeerIs DEF Sent, NetStep

LEMMA HeldBlock ==
  ASSUME IInv, NEW e \in Ends, ~Deleted(e)
  PROVE  /\ Held(e, tcb[e], written[e], read[e]) /\ tcb[e].out = {}
         /\ tcb[e].shutdown => tcb[e].state = "TCP_ESTABLISHED"
<1> DEFINE f == Peer(e)
           x == tcb[e]
           w == written[e]
           rd == read[e]
<1>1. EndOK(e) /\ Answered
  BY DEF IInv
<1>2. /\ Good(x, w) /\ x.out = {} /\ w \in Nat /\ x.state # "DELETED"
      /\ x.state = "TCP_LISTEN" => w = 0
      /\ x.shutdown => x.state = "TCP_ESTABLISHED"
      /\ Receiver(x, written[f], rd)
      /\ ~Deleted(f) => x.snd_una <= tcb[f].rcv_nxt
      /\ x.state \in {"TCP_SYN_RECEIVED", "TCP_ESTABLISHED"} => x.rcv_nxt >= 1
      /\ (x.state = "TCP_ESTABLISHED" \/ w > 0) /\ ~Deleted(f) => tcb[f].rcv_nxt >= 1
  BY <1>1 DEF EndOK, Deleted
<1>3. Intact(rd, written[f])
  BY IntactIs
<1>4. x.rcv_nxt \in Nat /\ x.state \in States
  BY <1>2 DEF Good, Typed
<1>5. e = "responder" => x.state # "TCP_SYN_SENT" /\ Quiet(x)
  <2> SUFFICES ASSUME e = "responder" PROVE x.state # "TCP_SYN_SENT" /\ Quiet(x)
    OBVIOUS
  <2>1. x.state # "TCP_SYN_SENT"
    BY <1>1 DEF Answered
  <2>2. x.rcv_nxt >= 1 \/ x.state \in {"TCP_LISTEN", "TCP_CLOSED"}
    BY <2>1, <1>2, <1>4 DEF States
  <2> HIDE DEF x
  <2> QED
    BY <2>1, <2>2, <1>2 DEF Quiet
<1>6. w >= written[e] /\ x.rcv_nxt >= tcb[e].rcv_nxt
  BY <1>2, <1>4
<1> QED
  BY <1>2, <1>3, <1>5, <1>6 DEF Held

(* A part of a handler that neither receives nor changes the state.        *)
LEMMA HeldLike ==
  ASSUME NEW e, NEW x, NEW w, NEW rd, Held(e, x, w, rd), NEW y, Good(y, w),
         Receiver(y, written[Peer(e)], rd), y.rcv_nxt = x.rcv_nxt,
         y.state = x.state, y.snd_una = x.snd_una,
         y.out = x.out \/ x.state \notin Ended
  PROVE  Held(e, y, w, rd)
<1> DEFINE f == Peer(e)
<1>1. /\ x.state # "DELETED"
      /\ w \in Nat /\ w >= written[e] /\ (x.state = "TCP_LISTEN" => w = 0)
      /\ Intact(rd, written[f])
      /\ x.rcv_nxt >= tcb[e].rcv_nxt
      /\ ~Deleted(f) => x.snd_una <= tcb[f].rcv_nxt
      /\ x.state \in {"TCP_SYN_RECEIVED", "TCP_ESTABLISHED"} => x.rcv_nxt >= 1
      /\ (x.state = "TCP_ESTABLISHED" \/ w > 0) /\ ~Deleted(f) => tcb[f].rcv_nxt >= 1
      /\ e = "responder" => x.state # "TCP_SYN_SENT" /\ Quiet(x)
  BY DEF Held
<1> HIDE DEF f
<1>2. ASSUME Quiet(x)
      PROVE  Quiet(y)
  BY <1>2 DEF Quiet, Good, Outgoing, Ended
<1> QED
  BY <1>1, <1>2 DEF Held, f

LEMMA HeldSame ==
  ASSUME NEW e, NEW x, NEW w, NEW rd, Held(e, x, w, rd), NEW y, Good(y, w),
         ReceiverKept(x, y), y.state = x.state, y.snd_una = x.snd_una,
         y.out = x.out \/ x.state \notin Ended
  PROVE  Held(e, y, w, rd)
BY ReceiverSame, HeldLike DEF Held, ReceiverKept

LinkFields == {"room", "trouble", "mtu", "cwnd"}

LEMMA HandlingIs ==
  ASSUME NEW e, Typed(tcb[e]), NEW link \in Links(e), NEW x, x = Handling(e, link)
  PROVE  Typed(x) /\ Same(tcb[e], x, LinkFields)
<1> DEFINE c == tcb[e]
           top == Max({BufSize, c.mss})
<1>1. link.room \in Rooms /\ link.mtu \in PathMtus /\ link.cwnd \in c.mss .. top
  <2> HIDE DEF top
  <2> QED
    BY DEF Links, top
<1>2. c.mss \in Nat \ {0} /\ BufSize \in Int
  BY TcpConstants DEF Typed
<1>3. top \in Int
  <2> DEFINE m == c.mss
  <2>1. m \in Int
    BY <1>2
  <2> HIDE DEF m
  <2>2. Max({BufSize, m}) \in {BufSize, m}
    BY <2>1, <1>2, MaxOfTwo
  <2> QED
    BY <2>1, <2>2, <1>2 DEF m
<1> HIDE DEF top
<1>4. link.room \in Nat /\ link.mtu \in Nat /\ link.cwnd \in Nat
  <2>1. link.room \in Nat /\ link.mtu \in Nat
    BY <1>1, TcpConstants
  <2> DEFINE m == c.mss
             l == link.cwnd
  <2>2. m \in Nat /\ l \in m .. top
    BY <1>1, <1>2
  <2> HIDE DEF m, l
  <2>3. l \in Nat
    BY <2>2, <1>3
  <2> QED
    BY <2>1, <2>3 DEF l
<1> DEFINE room == link.room
           trouble == link.trouble
           mtu == link.mtu
           cwnd == link.cwnd
<1>5. x = [c EXCEPT !.room = room, !.trouble = trouble, !.mtu = mtu, !.cwnd = cwnd] /\ DOMAIN c = Fields
  BY DEF Handling, Typed
<1> HIDE DEF c, room, trouble, mtu, cwnd
<1>6. /\ Same(c, x, LinkFields) /\ x.room = room /\ x.mtu = mtu /\ x.cwnd = cwnd
  BY <1>5 DEF Same, Fields, LinkFields
<1>7. Same(c, x, HandlerFields \cup {"state", "shutdown"}) /\ x.state = c.state /\ x.shutdown = c.shutdown
  BY <1>6 DEF Same, Fields, LinkFields, HandlerFields
<1>8. Typed(c)
  BY DEF c
<1>9. x.state \in States /\ x.shutdown \in BOOLEAN
  BY <1>7, <1>8 DEF Typed
<1>10. x.room \in Nat /\ x.mtu \in Nat /\ x.cwnd \in Nat
  BY <1>4, <1>6 DEF room, mtu, cwnd
<1>11. Typed(x)
  BY <1>7, <1>8, <1>9, <1>10, TypedSame
<1> QED
  BY <1>6, <1>11 DEF c

(* The block with which a handler begins.                                  *)
Begun(e, x) ==
  /\ Held(e, x, written[e], read[e]) /\ x.out = {}
  /\ x.shutdown => x.state = "TCP_ESTABLISHED"
  /\ Same(tcb[e], x, LinkFields)

LEMMA HandlingHeld ==
  ASSUME IInv, NEW e \in Ends, ~Deleted(e), NEW link \in Links(e), NEW x, x = Handling(e, link)
  PROVE  Begun(e, x)
<1> DEFINE c == tcb[e]
           w == written[e]
           rd == read[e]
<1>1. Held(e, c, w, rd) /\ c.out = {} /\ (c.shutdown => c.state = "TCP_ESTABLISHED")
  BY HeldBlock
<1>2. Good(c, w) /\ Typed(c)
  BY <1>1 DEF Held, Good
<1>3. Typed(x) /\ Same(c, x, LinkFields)
  BY <1>2, HandlingIs
<1> HIDE DEF c, w, rd
<1>4. /\ x.state = c.state /\ x.sbuf = c.sbuf /\ x.slist = c.slist
      /\ x.snd_una = c.snd_una /\ x.snd_nxt = c.snd_nxt /\ x.recover = c.recover
      /\ x.out = c.out /\ x.shutdown = c.shutdown /\ x.rcv_nxt = c.rcv_nxt
      /\ x.rbuf = c.rbuf /\ x.rlen = c.rlen /\ x.rlist = c.rlist /\ x.canRead = c.canRead
  BY <1>3 DEF Same, Fields, LinkFields
<1>5. Good(x, w)
  BY <1>1, <1>4, <1>2, <1>3, GoodSame DEF Outgoing
<1>6. ReceiverKept(c, x)
  BY <1>1, <1>4 DEF Held, Receiver, ReceiverKept
<1>7. Held(e, x, w, rd)
  BY <1>1, <1>4, <1>5, <1>6, HeldSame
<1> QED
  BY <1>1, <1>3, <1>4, <1>7 DEF Begun, c, w, rd

(* The end gives the connection up.                                        *)
LEMMA HeldClosed ==
  ASSUME NEW e, NEW x, NEW w, NEW rd, Held(e, x, w, rd), NEW y, Good(y, w),
         ReceiverKept(x, y), y.state = "TCP_CLOSED", y.snd_una = x.snd_una,
         x.rcv_nxt >= 1 \/ (x.out = {} /\ y.out = {})
         \/ x.state \notin {"TCP_LISTEN", "TCP_CLOSED"}
  PROVE  Held(e, y, w, rd)
<1> DEFINE f == Peer(e)
<1>1. /\ w \in Nat /\ w >= written[e]
      /\ Intact(rd, written[f]) /\ Receiver(x, written[f], rd)
      /\ x.rcv_nxt >= tcb[e].rcv_nxt
      /\ ~Deleted(f) => x.snd_una <= tcb[f].rcv_nxt
      /\ w > 0 /\ ~Deleted(f) => tcb[f].rcv_nxt >= 1
      /\ e = "responder" => Quiet(x)
  BY DEF Held
<1>2. y.rcv_nxt = x.rcv_nxt
  BY DEF ReceiverKept
<1> HIDE DEF f
<1>3. Receiver(y, written[f], rd)
  BY <1>1, ReceiverSame
<1>4. ASSUME Quiet(x)
      PROVE  Quiet(y)
  BY <1>2, <1>4 DEF Quiet
<1> QED
  BY <1>1, <1>2, <1>3, <1>4 DEF Held, f

-----------------------------------------------------------------------------
(* The windows.  What was sent and not forced ends where segments end, and *)
(* within the window that the peer has, whatever of it is under way.       *)
Tied(e) ==
  LET f == Peer(e)
      x == tcb[e]
      y == tcb[f]
  IN ~Deleted(e) /\ ~x.forced =>
       /\ Aligned(x.snd_una, x.slist)
       /\ \A p \in net[e] : Mark(x, p.ack)
       /\ ~Deleted(f) =>
            /\ Inside(x, Edge(y)) /\ 0 <= y.rcv_wnd /\ y.rcv_wnd + y.rlen <= BufSize
            /\ \A p \in net[e] : p.ack + p.wnd <= Edge(y)
            /\ Mark(x, y.rcv_nxt) /\ \A r \in y.rlist : Mark(x, r.seq + r.len)
            /\ \A p \in net[f] : Marked(x, p)

WInv == \A e \in Ends : Tied(e) /\ (Deleted(e) => Empty(tcb[e]))

(* What a handler at e must keep to.                                       *)
Bound(e) == {Edge(y) : y \in IF Deleted(Peer(e)) THEN {} ELSE {tcb[Peer(e)]}}
Source(e) ==
  IF Deleted(Peer(e)) \/ tcb[Peer(e)].forced THEN {} ELSE {tcb[Peer(e)]}

Fits(e, y) == WInv => Tight(tcb[e], y, Bound(e), Source(e))

LEMMA BoundIs ==
  ASSUME IInv, NEW e \in Ends
  PROVE  /\ \A b \in Bound(e) : b \in Int
         /\ ~Deleted(Peer(e)) => Edge(tcb[Peer(e)]) \in Bound(e)
         /\ \A b \in Bound(e) : ~Deleted(Peer(e)) /\ b = Edge(tcb[Peer(e)])
BY PeerIs DEF IInv, EndOK, Good, Typed, Edge, Bound

LEMMA FitsBlock ==
  ASSUME IInv, NEW e \in Ends, ~Deleted(e)
  PROVE  Fits(e, tcb[e])
<1> SUFFICES ASSUME WInv PROVE Tight(tcb[e], tcb[e], Bound(e), Source(e))
  BY DEF Fits
<1> DEFINE x == tcb[e]
           f == Peer(e)
           v == tcb[f]
<1>1. f \in Ends /\ Peer(f) = e
  BY PeerIs
<1>2. Tied(e) /\ Tied(f) /\ EndOK(e)
  BY <1>1 DEF WInv, IInv
<1>3. x.out = {} /\ Edge(x) \in Int
  BY <1>2 DEF EndOK, Good, Typed, Edge
<1>4. ASSUME ~x.forced PROVE Sends(x, x, Bound(e))
  <2>1. /\ Aligned(x.snd_una, x.slist)
        /\ ~Deleted(f) => Inside(x, Edge(v))
    BY <1>2, <1>4 DEF Tied
  <2>2. \A b \in Bound(e) : Inside(x, b)
    BY <2>1, BoundIs
  <2> HIDE DEF x
  <2> QED
    BY <2>1, <2>2, <1>3 DEF Sends, Onward
<1>5. ASSUME NEW z \in Source(e)
      PROVE  /\ 0 <= x.rcv_wnd /\ x.rcv_wnd + x.rlen <= BufSize
             /\ Mark(z, x.rcv_nxt) /\ \A r \in x.rlist : Mark(z, r.seq + r.len)
  BY <1>5, <1>1, <1>2 DEF Source, Tied
<1>6. Receives(x, x, Source(e))
  <2> HIDE DEF x
  <2>1. Edge(x) <= Edge(x)
    BY <1>3
  <2> QED
    BY <2>1, <1>3, <1>5 DEF Receives
<1> QED
  BY <1>4, <1>6 DEF Tight

LEMMA FitsSame ==
  ASSUME NEW e, NEW x, Fits(e, x), NEW y, NEW S, Same(x, y, S), S \cap TightFields = {}
  PROVE  Fits(e, y)
BY TightSame DEF Fits

(* What the end that steps has sent.                                       *)
LEMMA TiedOwn ==
  ASSUME IInv, WInv, NEW e \in Ends, ~Deleted(e), NEW y, NEW z, NEW w, NEW rd,
         Step(e, y, z, w, rd), Tight(tcb[e], y, Bound(e), Source(e))
  PROVE  Tied(e)'
<1> DEFINE f == Peer(e)
           x == tcb[e]
           v == tcb[f]
<1>1. f \in Ends /\ f # e /\ Peer(f) = e
  BY PeerIs
<1>2. tcb'[e] = z /\ tcb'[f] = v /\ Result(y, z)
  BY DEF Step, Moved
<1>3. net'[e] \subseteq net[e] /\ net'[f] \subseteq net[f] \cup y.out
  BY DEF Step, NetStep
<1>4. Tied(e)
  BY DEF WInv
<1> HIDE DEF f
<1>5. ASSUME z.state # "DELETED", ~z.forced
      PROVE  /\ Aligned(z.snd_una, z.slist)
             /\ \A p \in net'[e] : Mark(z, p.ack)
             /\ ~Deleted(f) =>
                  /\ Inside(z, Edge(v)) /\ 0 <= v.rcv_wnd /\ v.rcv_wnd + v.rlen <= BufSize
                  /\ \A p \in net'[e] : p.ack + p.wnd <= Edge(v)
                  /\ Mark(z, v.rcv_nxt) /\ \A r \in v.rlist : Mark(z, r.seq + r.len)
                  /\ \A p \in net'[f] : Marked(z, p)
  <2>1. Same(y, z, HandlerFields)
    BY <1>2, <1>5 DEF Result
  <2>2. SendingSame(y, z) /\ (y.forced <=> z.forced)
    BY <2>1 DEF Same, Fields, HandlerFields, SendingSame
  <2>3. Sends(x, y, Bound(e)) /\ ~x.forced
    BY <2>2, <1>5 DEF Tight
  <2>4. /\ Aligned(y.snd_una, y.slist) /\ Onward(x, y)
        /\ \A p \in y.out : Marked(y, p)
        /\ \A b \in Bound(e) : Inside(y, b)
    BY <2>3 DEF Sends
  <2>5. \A m : Mark(x, m) => Mark(z, m)
    BY <2>2, <2>4, MarkSame DEF Onward
  <2>6. /\ \A p \in net[e] : Mark(x, p.ack)
        /\ ~Deleted(f) =>
             /\ 0 <= v.rcv_wnd /\ v.rcv_wnd + v.rlen <= BufSize
             /\ \A p \in net[e] : p.ack + p.wnd <= Edge(v)
             /\ Mark(x, v.rcv_nxt) /\ \A r \in v.rlist : Mark(x, r.seq + r.len)
             /\ \A p \in net[f] : Marked(x, p)
    BY <1>4, <2>3 DEF Tied, f
  <2> HIDE DEF x, v
  <2>7. ASSUME NEW p \in net'[f], ~Deleted(f) PROVE Marked(z, p)
    <3>1. CASE p \in net[f]
      BY <3>1, <2>5, <2>6, <2>7 DEF Marked
    <3>2. CASE p \in y.out
      BY <3>2, <2>2, <2>4, MarkSame DEF Marked
    <3> QED
      BY <3>1, <3>2, <1>3, <2>7
  <2>8. ~Deleted(f) => Inside(z, Edge(v))
    BY <2>2, <2>4, BoundIs DEF Inside, SendingSame, f, v
  <2>9. Aligned(z.snd_una, z.slist)
    BY <2>2, <2>4 DEF SendingSame
  <2> QED
    BY <1>3, <2>5, <2>6, <2>7, <2>8, <2>9
<1>6. Deleted(e)' <=> z.state = "DELETED"
  BY <1>2 DEF Deleted
<1>7. Deleted(f)' <=> Deleted(f)
  BY <1>2 DEF Deleted
<1> HIDE DEF x, v
<1> QED
  BY <1>1, <1>2, <1>5, <1>6, <1>7 DEF Tied, f

(***************************************************************************)
(* What moves the stream.  Throughout a handler, what is under way has the *)
(* timer of retransmissions (Clocked).  Between handlers, a reader who has *)
(* to be told of new bytes was told or will be (Tells), a writer who was   *)
(* told to wait will be told again when the buffer empties (Asked), and    *)
(* while anything is to be sent a timer runs (Moving).                     *)
(***************************************************************************)
Clocked(x) == x.snd_nxt # x.snd_una => x.rto_base

Tells(x) == x.shutdown \/ x.canRead \/ (x.readEnable /\ x.rlen = 0)

Waits(x) == x.state = "TCP_ESTABLISHED" /\ ~x.shutdown /\ ~x.canWrite

Asked(x) == Waits(x) => x.writeEnable /\ slen(x) >= (BufSize * 2) \div 3

Moving(x) == x.sbuf # <<>> => x.rto_base \/ x.snd_wnd = 0 \/ x.ignored

(* The congestion window takes a segment.                                  *)
Wide(x) == x.cwnd >= x.mss

ClockFields == {"snd_nxt", "snd_una", "rto_base"}
TellFields == {"shutdown", "canRead", "readEnable", "rlen"}
AskFields == {"state", "shutdown", "canWrite", "writeEnable", "sbuf"}
MoveFields == {"sbuf", "rto_base", "snd_wnd", "ignored"}
WideFields == {"cwnd", "mss"}

LEMMA ClockedSame ==
  ASSUME NEW x, Clocked(x), NEW y, NEW S, Same(x, y, S), ClockFields \cap S = {}
  PROVE  Clocked(y)
BY DEF Clocked, Same, Fields, ClockFields

LEMMA TellsSame ==
  ASSUME NEW x, Tells(x), NEW y, NEW S, Same(x, y, S), TellFields \cap S = {}
  PROVE  Tells(y)
BY DEF Tells, Same, Fields, TellFields

LEMMA AskedSame ==
  ASSUME NEW x, Asked(x), NEW y, NEW S, Same(x, y, S), AskFields \cap S = {}
  PROVE  Asked(y)
BY DEF Same, Fields, AskFields, Asked, Waits, slen

LEMMA MovingSame ==
  ASSUME NEW x, Moving(x), NEW y, NEW S, Same(x, y, S), MoveFields \cap S = {}
  PROVE  Moving(y)
BY DEF Moving, Same, Fields, MoveFields

LEMMA WideSame ==
  ASSUME NEW x, Wide(x), NEW y, NEW S, Same(x, y, S), WideFields \cap S = {}
  PROVE  Wide(y)
BY DEF Wide, Same, Fields, WideFields

(* A step of the sender: the timer runs, or nothing more is under way.     *)
LEMMA ClockedSent ==
  ASSUME NEW x, Clocked(x), NEW y, Same(x, y, SendFields),
         y.rto_base \/ (y.snd_nxt = x.snd_nxt /\ y.rto_base = x.rto_base)
  PROVE  Clocked(y)
BY DEF Clocked, Same, Fields, SendFields, SentFields, MssFields

LEMMA AtLevelWide ==
  ASSUME NEW x, Typed(x), Wide(x), NEW l \in 1 .. Len(Maxima), NEW y, y = AtLevel(x, l)
  PROVE  Wide(y)
<1>1. CASE l = x.msslevel
  BY <1>1 DEF AtLevel
<1>2. CASE l # x.msslevel
  <2> DEFINE m == Maxima[l]
             c == 2 * Maxima[l]
  <2>1. m \in Nat \ {0} /\ c >= m
    BY MaximaAre
  <2>2. y = [x EXCEPT !.msslevel = l, !.mss = m, !.cwnd = c]
    BY <1>2 DEF AtLevel
  <2> HIDE DEF m, c
  <2>3. y.mss = m /\ y.cwnd = c
    BY <2>2 DEF Typed, Fields
  <2> QED
    BY <2>1, <2>3 DEF Wide
<1> QED
  BY <1>1, <1>2

LEMMA PathWide ==
  ASSUME NEW x, Typed(x), Wide(x), NEW want
  PROVE  Wide(Path(x, want))
<1>1. CASE want <= x.mtu \/ x.room = 0
  BY <1>1 DEF Path
<1>2. CASE ~(want <= x.mtu \/ x.room = 0) /\ Smaller(x, want) = {}
  BY <1>2, MaximaAre, AtLevelWide DEF Path
<1>3. CASE ~(want <= x.mtu \/ x.room = 0) /\ Smaller(x, want) # {}
  <2> DEFINE l == Min(Smaller(x, want))
  <2>1. Path(x, want) = AtLevel(x, l)
    BY <1>3 DEF Path
  <2>2. l \in x.msslevel + 1 .. Len(Maxima) /\ x.msslevel \in 1 .. Len(Maxima)
    BY <1>3, SmallerIs DEF Typed
  <2> HIDE DEF l
  <2>3. l \in 1 .. Len(Maxima)
    BY <2>2, MaximaAre
  <2> QED
    BY <2>1, <2>3, AtLevelWide
<1> QED
  BY <1>1, <1>2, <1>3

LEMMA PathClock ==
  ASSUME NEW x, Typed(x), NEW want
  PROVE  Path(x, want).rto_base = x.rto_base
<1>1. CASE want <= x.mtu \/ x.room = 0
  BY <1>1 DEF Path
<1>2. CASE ~(want <= x.mtu \/ x.room = 0) /\ Smaller(x, want) = {}
  BY <1>2, MaximaAre, AtLevelIs DEF Path
<1>3. CASE ~(want <= x.mtu \/ x.room = 0) /\ Smaller(x, want) # {}
  <2> DEFINE l == Min(Smaller(x, want))
  <2>1. Path(x, want) = AtLevel(x, l)
    BY <1>3 DEF Path
  <2>2. l \in x.msslevel + 1 .. Len(Maxima) /\ x.msslevel \in 1 .. Len(Maxima)
    BY <1>3, SmallerIs DEF Typed
  <2> HIDE DEF l
  <2>3. l \in 1 .. Len(Maxima)
    BY <2>2, MaximaAre
  <2> QED
    BY <2>1, <2>3, AtLevelIs
<1> QED
  BY <1>1, <1>2, <1>3

(* transmit() starts the timer, except where it fails; a socket that is    *)
(* full with nothing under way is the case the code has a timer for.       *)
LEMMA TransmitClocked ==
  ASSUME NEW x, Typed(x), Clocked(x), NEW i \in 1 .. Len(x.slist), NEW t, t = Transmit(x, i)
  PROVE  /\ Clocked(t.x) /\ Same(x, t.x, SentFields) /\ (Wide(x) => Wide(t.x))
         /\ x.rto_base \/ t.result # "trFail" => t.x.rto_base
<1> DEFINE seg  == x.slist[i]
           want == Min({seg.len, x.mss})
           y    == Path(x, want)
           n    == Portion(x, want)
           z    == Passed(x, y, seg, i, n)
<1>1. /\ seg.len \in Nat \ {0} /\ x.mss \in Nat \ {0} /\ x.snd_nxt \in Nat /\ x.snd_una \in Nat
      /\ DOMAIN x = Fields
  BY SegmentIs DEF Typed
<1>2. want \in Nat
  BY <1>1, WantIs
<1>3. Outcome(x, i, seg, want, t)
  BY TransmitCases
<1> HIDE DEF seg, want
<1>4. /\ Same(x, y, MssFields) /\ y.rto_base = x.rto_base
      /\ Wide(x) => Wide(y)
  BY <1>2, PathIs, PathClock, PathWide
<1> HIDE DEF y, n, z
<1>5. CASE t.result = "trOK" /\ t.x = z
  <2>1. Same(y, z, SentFields) /\ z.rto_base = TRUE /\ z.cwnd = y.cwnd /\ z.mss = y.mss
    BY <1>4 DEF z, Passed, Written, Same, Fields, SentFields, MssFields
  <2>2. Same(x, z, SendFields) /\ Same(x, z, SentFields)
    BY <1>4, <2>1 DEF Same, SendFields, SentFields
  <2>3. Clocked(z)
    BY <2>1, <2>2, ClockedSent
  <2> QED
    BY <1>4, <1>5, <2>1, <2>2, <2>3 DEF Wide
<1>6. CASE t.result = "trFail" /\ t.x = x
  BY <1>1, <1>6 DEF Same
<1>7. CASE t.result = "trFail" /\ t.x = y
  BY <1>4, <1>7, ClockedSent DEF Same, Fields, SendFields, SentFields, MssFields
<1>8. CASE t.result = "trWait" /\ t.x = Blocked(x)
  <2> DEFINE b == Blocked(x)
             on == x.rto_base \/ InFlight(x) = 0
  <2>1. b = [x EXCEPT !.rto_base = on]
    BY DEF Blocked
  <2>2. on
    BY <1>1 DEF InFlight, Clocked
  <2> HIDE DEF b, on
  <2>3. b.rto_base /\ Same(x, b, {"rto_base"}) /\ Same(x, b, SendFields) /\ Same(x, b, SentFields)
    BY <1>1, <2>1, <2>2 DEF Same, Fields, SendFields, SentFields, MssFields
  <2>4. Clocked(b)
    BY <2>3, ClockedSent
  <2>5. Wide(x) => Wide(b)
    BY <2>3, WideSame DEF WideFields
  <2> QED
    BY <1>8, <2>3, <2>4, <2>5 DEF b
<1> QED
  BY <1>3, <1>5, <1>6, <1>7, <1>8 DEF Outcome, y, n, z

(* With nothing under way, only a closed window holds bytes back.          *)
LEMMA AvailableIdle ==
  ASSUME NEW x, Typed(x), Wide(x), x.snd_nxt = x.snd_una, x.sbuf # <<>>, Available(x) = 0
  PROVE  x.snd_wnd = 0
<1> DEFINE size == slen(x)
           win == Window(x)
           useable == Max({win - 0, 0})
           ready == Min({size - 0, x.mss})
           wnd == x.snd_wnd
           cw == x.cwnd + LimitedTransmit(x)
<1>1. /\ x.mss \in Nat \ {0} /\ wnd \in Nat /\ x.cwnd \in Nat /\ x.dup_acks \in 0 .. 255
      /\ InFlight(x) = 0
  BY DEF Typed, InFlight
<1>2. size \in Nat \ {0}
  BY EmptySeq DEF Typed, slen
<1>3. LimitedTransmit(x) \in Nat
  BY <1>1 DEF LimitedTransmit
<1>4. cw \in Nat /\ cw >= x.mss
  BY <1>1, <1>3 DEF Wide
<1>5. win = Min({wnd, cw})
  BY DEF Window
<1>6. Available(x) = IF ready <= useable THEN ready
                     ELSE IF useable * 4 < wnd THEN 0 ELSE useable
  BY <1>1 DEF Available
<1> HIDE DEF size, wnd, cw, win, useable, ready
<1>7. win \in {wnd, cw} /\ win \in Nat
  <2>1. wnd \in Int /\ cw \in Int
    BY <1>1, <1>4
  <2> QED
    BY <1>1, <1>4, <1>5, <2>1, MinOfTwo
<1>8. useable = win
  <2>1. win - 0 \in Int /\ 0 \in Int /\ 0 <= win - 0 /\ win - 0 = win
    BY <1>7
  <2> QED
    BY <2>1, MaxOfTwo DEF useable
<1>9. ready \in Nat \ {0} /\ ready <= x.mss
  <2>1. size - 0 \in Int /\ x.mss \in Int /\ size - 0 > 0 /\ x.mss > 0
    BY <1>1, <1>2
  <2>2. ready \in {size - 0, x.mss} /\ ready <= x.mss
    BY <2>1, MinOfTwo DEF ready
  <2> QED
    BY <2>1, <2>2
<1>10. ~(ready <= useable)
  BY <1>6, <1>9
<1>11. win = wnd
  BY <1>1, <1>4, <1>7, <1>8, <1>9, <1>10
<1>12. ~(useable * 4 < wnd)
  BY <1>7, <1>8, <1>11
<1>13. wnd = 0
  BY <1>6, <1>8, <1>10, <1>11, <1>12
<1> QED
  BY <1>13 DEF wnd

(* A turn of attemptSend(), unless the last one ended the loop, leaves the *)
(* timer running, a closed window or a failure behind.                     *)
LEMMA SendOneMoves ==
  ASSUME NEW x, NEW w \in Nat, Good(x, w), x.state \notin Ended, Clocked(x), Wide(x),
         NEW y, y = SendOne(x)
  PROVE  /\ Clocked(y) /\ Wide(y)
         /\ Moving(y) \/ (x.sflags = "return" /\ y = x)
<1> DEFINE n == Available(x)
           list == x.slist
           i == CHOOSE j \in DOMAIN list :
                  list[j].xmit = 0 /\ \A k \in 1 .. j - 1 : list[k].xmit > 0
           part == Min({n, list[i].len})
           split == [x EXCEPT !.slist = Replaced(@, i, SegmentCut(@[i], Min({n, @[i].len}), 0))]
           t == Transmit(split, i)
           F(v) == [v.x EXCEPT !.sflags = IF v.result = "trOK" THEN "sfNone" ELSE "return",
                               !.ignored = @ \/ v.result = "trFail"]
<1>1. Typed(x) /\ DOMAIN x = Fields /\ x.snd_nxt \in Nat /\ x.snd_una \in Nat
  BY DEF Good, Typed
<1>2. CASE x.sflags = "return"
  BY <1>2 DEF SendOne
<1>3. CASE x.sflags # "return" /\ n = 0
  <2> DEFINE a == Acknowledge(x)
  <2>1. y = [a EXCEPT !.sflags = "return"]
    BY <1>3 DEF SendOne
  <2>2. Same(x, a, {"out", "room", "t_ack"})
    BY AcknowledgeGood
  <2>3. Moving(x)
    BY <1>1, <1>3, AvailableIdle DEF Moving, Clocked
  <2> HIDE DEF a, n
  <2>4. Same(x, y, {"out", "room", "t_ack", "sflags"})
    BY <2>1, <2>2 DEF Same, Fields
  <2> QED
    BY <2>3, <2>4, ClockedSame, MovingSame, WideSame DEF ClockFields, MoveFields, WideFields
<1>4. CASE x.sflags # "return" /\ n # 0 /\ InFlight(x) > 0 /\ n < x.mss
  <2>1. y = [x EXCEPT !.sflags = "return"]
    BY <1>4 DEF SendOne
  <2>2. Same(x, y, {"sflags"})
    BY <2>1, <1>1 DEF Same, Fields
  <2>3. Moving(x)
    BY <1>1, <1>4 DEF InFlight, Clocked, Moving
  <2> QED
    BY <2>2, <2>3, ClockedSame, MovingSame, WideSame DEF ClockFields, MoveFields, WideFields
<1>5. CASE x.sflags # "return" /\ n # 0 /\ ~(InFlight(x) > 0 /\ n < x.mss)
  <2>1. y = F(t)
    <3>1. y = With(t, F)
      BY <1>5 DEF SendOne
    <3> HIDE DEF t
    <3> QED
      BY <3>1 DEF With
  <2>2. SplitWell(x, split, w, i, part)
    <3>1. Good(x, w) /\ x.state \notin Ended /\ n # 0
      BY <1>5
    <3>2. split = [x EXCEPT !.slist = Replaced(@, i, SegmentCut(@[i], part, 0))]
      OBVIOUS
    <3> HIDE DEF n, split
    <3> QED
      BY <3>1, <3>2, SplitGood DEF n, Unsent
  <2> HIDE DEF i, part, split
  <2>3. Typed(split) /\ Same(x, split, {"slist"}) /\ i \in 1 .. Len(split.slist)
    BY <2>2 DEF SplitWell, Good
  <2>4. Clocked(split) /\ Wide(split)
    BY <2>3, ClockedSame, WideSame DEF ClockFields, WideFields
  <2>5. /\ Clocked(t.x) /\ Same(split, t.x, SentFields) /\ Wide(t.x)
        /\ t.result # "trFail" => t.x.rto_base
    BY <2>3, <2>4, TransmitClocked
  <2> HIDE DEF t
  <2> DEFINE r == t.x
             sf == IF t.result = "trOK" THEN "sfNone" ELSE "return"
             ig == r.ignored \/ t.result = "trFail"
  <2>6. y = [r EXCEPT !.sflags = sf, !.ignored = ig]
    BY <2>1
  <2>7. t.result = "trFail" => ig
    OBVIOUS
  <2>8. t.result # "trFail" => r.rto_base
    BY <2>5
  <2> HIDE DEF r, sf, ig
  <2>9. Same(r, y, {"sflags", "ignored"}) /\ y.rto_base = r.rto_base /\ y.ignored = ig
    BY <2>5, <2>6 DEF Same, Fields, r
  <2>10. Clocked(y) /\ Wide(y)
    BY <2>5, <2>9, ClockedSame, WideSame DEF ClockFields, WideFields, r
  <2>11. Moving(y)
    BY <2>7, <2>8, <2>9 DEF Moving
  <2> QED
    BY <2>10, <2>11
<1> QED
  BY <1>2, <1>3, <1>4, <1>5

LEMMA AttemptSendMoves ==
  ASSUME NEW x, NEW w \in Nat, Good(x, w), x.state \notin Ended, Clocked(x), Wide(x),
         NEW sflags, sflags # "return", NEW y, y = AttemptSend(x, sflags)
  PROVE  Clocked(y) /\ Moving(y)
<1> DEFINE a == [x EXCEPT !.sflags = sflags]
           f == Turns(a)
           M == BufSize + 1
           Holds(n) == /\ Good(f[n], w) /\ f[n].state \notin Ended /\ Clocked(f[n]) /\ Wide(f[n])
                       /\ Moving(f[n]) \/ (n = 0 /\ f[n].sflags # "return")
           G == {n \in Nat : n <= M => Holds(n)}
<1>1. y = f[M]
  BY DEF AttemptSend, Turns
<1>2. M \in Nat /\ M # 0
  BY TcpConstants
<1>3. f = [n \in 0 .. M |-> IF n = 0 THEN a ELSE With(f[n - 1], SendOne)]
  BY TurnsExist
<1> HIDE DEF f, M
<1>4. 0 \in G
  <2>1. f[0] = a
    BY <1>2, <1>3
  <2>2. DOMAIN x = Fields
    BY DEF Good, Typed
  <2>3. Same(x, a, {"sflags"}) /\ a.sflags = sflags /\ a.state = x.state
    BY <2>2 DEF Same, Fields
  <2>4. Same(x, a, {"sflags", "ignored", "probes", "newData", "forced"})
    BY <2>3 DEF Same
  <2> HIDE DEF a
  <2>5. Good(a, w) /\ Clocked(a) /\ Wide(a)
    BY <2>3, <2>4, GoodSmall, ClockedSame, WideSame DEF ClockFields, WideFields
  <2> QED
    BY <2>1, <2>3, <2>5
<1> HIDE DEF a
<1>5. ASSUME NEW n \in Nat, n \in G PROVE n + 1 \in G
  <2> SUFFICES ASSUME n + 1 <= M
               PROVE  Holds(n + 1)
    OBVIOUS
  <2> DEFINE v == f[n]
             u == f[n + 1]
  <2>1. /\ Good(v, w) /\ v.state \notin Ended /\ Clocked(v) /\ Wide(v)
        /\ Moving(v) \/ v.sflags # "return"
    BY <1>2, <1>5
  <2>2. u = With(f[n], SendOne)
    BY <1>2, <1>3
  <2> HIDE DEF u
  <2>3. u = SendOne(v)
    BY <2>2 DEF With
  <2> HIDE DEF v
  <2>5. Good(u, w) /\ Same(v, u, SendFields)
    BY <2>1, <2>3, SendOneGood
  <2>6. u.state = v.state
    BY <2>5 DEF Same, Fields, SendFields, SentFields, MssFields
  <2>7. /\ Clocked(u) /\ Wide(u)
        /\ Moving(u) \/ (v.sflags = "return" /\ u = v)
    BY <2>1, <2>3, SendOneMoves
  <2>8. Moving(u)
    BY <2>1, <2>7
  <2> QED
    BY <2>1, <2>5, <2>6, <2>7, <2>8 DEF u
<1>6. M \in G
  <2> HIDE DEF G
  <2>1. Nat \subseteq G
    BY <1>4, <1>5, Induction
  <2> QED
    BY <1>2, <2>1
<1>7. Holds(M)
  BY <1>2, <1>6
<1> QED
  BY <1>1, <1>2, <1>7

(* A retransmission leaves the timer running, or closes the connection.    *)
LEMMA RetransmitClocked ==
  ASSUME NEW x, NEW w \in Nat, Good(x, w), x.state \notin Ended, x.slist # <<>>, Clocked(x),
         NEW y, y = Retransmit(x)
  PROVE  \/ y.state = "TCP_CLOSED"
         \/ Clocked(y) /\ y.rto_base /\ (Wide(x) => Wide(y))
<1> DEFINE t == Transmit(x, 1)
           F(v) == IF v.result = "trFail" THEN Closedown(v.x)
                   ELSE [v.x EXCEPT !.forced = @ \/ Forced(x, v)]
           z == t.x
<1>1. y = F(t)
  <2>1. y = With(t, F)
    BY DEF Retransmit
  <2> HIDE DEF t
  <2> QED
    BY <2>1 DEF With
<1>2. 1 \in 1 .. Len(x.slist) /\ Typed(x)
  BY EmptySeq DEF Good, Typed
<1>3. /\ Clocked(z) /\ Same(x, z, SentFields) /\ (Wide(x) => Wide(z))
      /\ t.result # "trFail" => z.rto_base
  BY <1>2, TransmitClocked
<1> HIDE DEF t
<1>4. CASE t.result = "trFail"
  BY <1>1, <1>3, <1>4 DEF Closedown, Same, Fields, SentFields, MssFields
<1>5. CASE t.result # "trFail"
  <2> DEFINE flag == z.forced \/ Forced(x, t)
  <2>1. y = [z EXCEPT !.forced = flag]
    BY <1>1, <1>5
  <2> HIDE DEF z, flag
  <2>2. Same(z, y, {"forced"}) /\ y.rto_base = z.rto_base
    BY <2>1, <1>3 DEF Same, Fields
  <2> QED
    BY <1>3, <1>5, <2>2, ClockedSame, WideSame DEF ClockFields, WideFields
<1> QED
  BY <1>4, <1>5

Lively(x) == Clocked(x) /\ Tells(x) /\ Asked(x)

(* An end that did not end is lively, and moves what it has to send, unless*)
(* it ignored that a write failed.  Before it is open its user has written *)
(* nothing; one that was deleted had everything acknowledged.              *)
KeepsOn(e) ==
  LET f == Peer(e)
      x == tcb[e]
  IN /\ ~x.ignored
     /\ x.state \notin Ended => Lively(x) /\ (~failed[e] => Moving(x))
     /\ x.state = "TCP_CLOSED" => failed[e]
     /\ x.state \in {"TCP_SYN_SENT", "TCP_SYN_RECEIVED"} => written[e] = 0
     /\ Deleted(e) /\ ~failed[e] /\ ~Deleted(f) /\ written[e] > 0 =>
          tcb[f].rcv_nxt > written[e]

MInv == DOMAIN failed = Ends /\ \A e \in Ends : KeepsOn(e)

(* What a handler leaves behind.                                           *)
Leaves(e, y, w) ==
  y.state # "TCP_CLOSED" =>
    /\ Lively(y) /\ (~failed[e] => Moving(y))
    /\ y.state \in {"TCP_SYN_SENT", "TCP_SYN_RECEIVED"} => w = 0

(* An end that gives up is known to have failed, and is not deleted before *)
(* all is acknowledged.                                                    *)
Excused(e, y, z) ==
  /\ DOMAIN failed' = Ends /\ (~failed'[Peer(e)] => ~failed[Peer(e)])
  /\ failed[Peer(e)] => failed'[Peer(e)]
  /\ ~failed'[e] => ~failed[e] /\ ~y.ignored /\ y.state # "TCP_CLOSED"
  /\ ~z.ignored /\ (z.state = "DELETED" => y.state # "TCP_ESTABLISHED" \/ y.sbuf = <<>>)

Lives(e, y, w) == MInv => Leaves(e, y, w)

LEMMA MovesOwn ==
  ASSUME IInv, MInv, NEW e \in Ends, NEW y, NEW z, NEW w, NEW rd,
         Held(e, y, w, rd), Step(e, y, z, w, rd), Excused(e, y, z), Leaves(e, y, w)
  PROVE  KeepsOn(e)'
<1> DEFINE f == Peer(e)
<1>1. /\ Result(y, z) /\ tcb'[e] = z /\ written'[e] = w /\ tcb'[f] = tcb[f]
      /\ Good(y, w) /\ y.state \in States /\ y.state # "DELETED" /\ w \in Nat
      /\ y.state = "TCP_LISTEN" => w = 0
      /\ ~Deleted(f) => y.snd_una <= tcb[f].rcv_nxt
  BY DEF Step, Moved, Held, Good, Typed
<1>2. /\ ~failed'[e] => ~failed[e] /\ ~y.ignored /\ y.state # "TCP_CLOSED"
      /\ ~z.ignored /\ (z.state = "DELETED" => y.state # "TCP_ESTABLISHED" \/ y.sbuf = <<>>)
  BY DEF Excused
<1>3. Deleted(e)' <=> z.state = "DELETED"
  BY <1>1 DEF Deleted
<1>4. Deleted(f)' <=> Deleted(f)
  BY <1>1 DEF Deleted
<1>5. CASE z.state = "DELETED"
  <2>1. ASSUME ~failed'[e], ~Deleted(f), w > 0
        PROVE  tcb[f].rcv_nxt > w
    <3>1. y.state = "TCP_ESTABLISHED"
      BY <1>1, <1>2, <2>1 DEF Leaves, States
    <3>2. y.sbuf = <<>>
      BY <3>1, <1>2, <1>5
    <3>3. y.snd_una + slen(y) = w + 1 /\ y.snd_una \in Nat
      BY <3>1, <1>1 DEF Good, Buffered, Top, Ended, Typed
    <3>4. slen(y) = 0
      BY <3>2 DEF slen
    <3>5. tcb[f].rcv_nxt \in Nat
      BY PeerIs DEF IInv, EndOK, Good, Typed
    <3> HIDE DEF f
    <3> QED
      BY <1>1, <2>1, <3>3, <3>4, <3>5
  <2> HIDE DEF f
  <2> QED
    BY <1>1, <1>2, <1>3, <1>4, <1>5, <2>1 DEF KeepsOn, Ended, f
<1>6. CASE z.state # "DELETED"
  <2>1. Same(y, z, HandlerFields) /\ z.state = y.state
    BY <1>1, <1>6 DEF Result, Same, Fields, HandlerFields
  <2>2. Clocked(y) => Clocked(z)
    BY <2>1, ClockedSame DEF ClockFields, HandlerFields
  <2>3. Tells(y) => Tells(z)
    BY <2>1, TellsSame DEF TellFields, HandlerFields
  <2>4. Asked(y) => Asked(z)
    BY <2>1, AskedSame DEF AskFields, HandlerFields
  <2>5. Moving(y) /\ ~y.ignored => Moving(z)
    BY <2>1 DEF Moving, Same, Fields, HandlerFields
  <2>6. z.state \notin Ended => Lively(z) /\ (~failed'[e] => Moving(z))
    BY <1>2, <2>1, <2>2, <2>3, <2>4, <2>5 DEF Leaves, Lively, Ended
  <2>7. z.state = "TCP_CLOSED" => failed'[e]
    BY <1>2, <2>1
  <2>8. z.state \in {"TCP_SYN_SENT", "TCP_SYN_RECEIVED"} => w = 0
    BY <2>1 DEF Leaves
  <2> HIDE DEF f
  <2> QED
    BY <1>1, <1>2, <1>3, <1>6, <2>6, <2>7, <2>8 DEF KeepsOn
<1> QED
  BY <1>5, <1>6

LEMMA MovesOther ==
  ASSUME IInv, MInv, NEW e \in Ends, ~Deleted(e), NEW y, NEW z, NEW w, NEW rd,
         Held(e, y, w, rd), Step(e, y, z, w, rd), Excused(e, y, z)
  PROVE  KeepsOn(Peer(e))'
<1> DEFINE f == Peer(e)
<1>1. f \in Ends /\ Peer(f) = e
  BY PeerIs
<1>2. /\ Result(y, z) /\ tcb'[e] = z /\ tcb'[f] = tcb[f] /\ written'[f] = written[f]
      /\ y.rcv_nxt >= tcb[e].rcv_nxt
  BY DEF Step, Moved, Held
<1>3. KeepsOn(f)
  BY <1>1 DEF MInv
<1>4. ~failed'[f] => ~failed[f]
  BY DEF Excused
<1>5. failed[f] => failed'[f]
  BY DEF Excused
<1>6. z.state # "DELETED" => z.rcv_nxt = y.rcv_nxt /\ z.rcv_nxt \in Nat /\ Typed(z)
  BY <1>2, ResultIs DEF Result, Typed
<1>7. tcb[e].rcv_nxt \in Nat /\ written[f] \in Nat
  BY <1>1 DEF IInv, EndOK, Good, Typed
<1>8. Deleted(e)' <=> z.state = "DELETED"
  BY <1>2 DEF Deleted
<1>9. Deleted(f)' <=> Deleted(f)
  BY <1>2 DEF Deleted
<1>10. ASSUME Deleted(f), ~failed'[f], z.state # "DELETED", written[f] > 0
       PROVE  z.rcv_nxt > written[f]
  <2> HIDE DEF f
  <2>1. tcb[e].rcv_nxt > written[f]
    BY <1>1, <1>3, <1>4, <1>10 DEF KeepsOn
  <2> QED
    BY <2>1, <1>2, <1>6, <1>7, <1>10
<1> HIDE DEF f
<1>11. KeepsOn(f)'
  <2>1. /\ ~tcb'[f].ignored
        /\ tcb'[f].state \notin Ended => Lively(tcb'[f]) /\ (~failed'[f] => Moving(tcb'[f]))
        /\ tcb'[f].state = "TCP_CLOSED" => failed'[f]
        /\ tcb'[f].state \in {"TCP_SYN_SENT", "TCP_SYN_RECEIVED"} => written'[f] = 0
    BY <1>2, <1>3, <1>4, <1>5 DEF KeepsOn
  <2>2. Deleted(f)' /\ ~failed'[f] /\ ~Deleted(Peer(f))' /\ written'[f] > 0 =>
          tcb'[Peer(f)].rcv_nxt > written'[f]
    BY <1>1, <1>2, <1>8, <1>9, <1>10
  <2> QED
    BY <2>1, <2>2 DEF KeepsOn
<1> QED
  BY <1>11 DEF f

LEMMA StepMoves ==
  ASSUME IInv, MInv, NEW e \in Ends, ~Deleted(e), NEW y, NEW z, NEW w, NEW rd,
         Held(e, y, w, rd), Step(e, y, z, w, rd), Excused(e, y, z), Leaves(e, y, w)
  PROVE  MInv'
<1> DEFINE f == Peer(e)
<1>1. Ends = {e, f}
  BY PeerIs
<1>2. KeepsOn(e)' /\ KeepsOn(f)'
  BY MovesOwn, MovesOther
<1>3. DOMAIN failed' = Ends
  BY DEF Excused
<1> HIDE DEF f
<1> QED
  BY <1>1, <1>2, <1>3 DEF MInv

LEMMA EdgeIs ==
  ASSUME NEW x, Typed(x)
  PROVE  Edge(x) \in Int
BY DEF Typed, Edge

(* What its peer has sent.                                                 *)
LEMMA TiedOther ==
  ASSUME IInv, WInv, NEW e \in Ends, ~Deleted(e), NEW y, Typed(y), NEW z, NEW w, NEW rd,
         \A p \in y.out : p.ack \in Nat /\ p.wnd \in Nat,
         Step(e, y, z, w, rd), Tight(tcb[e], y, Bound(e), Source(e))
  PROVE  Tied(Peer(e))'
<1> DEFINE f == Peer(e)
           x == tcb[e]
           v == tcb[f]
<1>1. f \in Ends /\ f # e /\ Peer(f) = e
  BY PeerIs
<1>2. tcb'[e] = z /\ tcb'[f] = v /\ Result(y, z)
  BY DEF Step, Moved
<1>3. net'[e] \subseteq net[e] /\ net'[f] \subseteq net[f] \cup y.out
  BY DEF Step, NetStep
<1>4. Tied(f) /\ EndOK(e) /\ EndOK(f) /\ PacketsOK(e)
  BY <1>1 DEF WInv, IInv
<1>5. /\ Edge(x) \in Int /\ Edge(y) \in Int
      /\ v.snd_nxt \in Nat /\ v.snd_una \in Nat /\ v.snd_wnd \in Nat
      /\ \A p \in net[f] : p.ack \in Nat /\ p.wnd \in Nat
  BY <1>4, EdgeIs DEF EndOK, Good, PacketsOK, PacketOK, Typed
<1> HIDE DEF f
<1>6. ASSUME ~Deleted(f), ~v.forced
      PROVE  /\ Aligned(v.snd_una, v.slist)
             /\ \A p \in net'[f] : Mark(v, p.ack)
             /\ z.state # "DELETED" =>
                  /\ Inside(v, Edge(z)) /\ 0 <= z.rcv_wnd /\ z.rcv_wnd + z.rlen <= BufSize
                  /\ \A p \in net'[f] : p.ack + p.wnd <= Edge(z)
                  /\ Mark(v, z.rcv_nxt) /\ \A r \in z.rlist : Mark(v, r.seq + r.len)
                  /\ \A p \in net'[e] : Marked(v, p)
  <2>1. /\ Aligned(v.snd_una, v.slist)
        /\ \A p \in net[f] : Mark(v, p.ack) /\ p.ack + p.wnd <= Edge(x)
        /\ Inside(v, Edge(x))
        /\ \A p \in net[e] : Marked(v, p)
    BY <1>1, <1>4, <1>6 DEF Tied
  <2>2. v \in Source(e)
    BY <1>6 DEF Source, f
  <2>3. /\ 0 <= y.rcv_wnd /\ y.rcv_wnd + y.rlen <= BufSize /\ Edge(x) <= Edge(y)
        /\ Mark(v, y.rcv_nxt) /\ \A r \in y.rlist : Mark(v, r.seq + r.len)
        /\ \A p \in y.out : Mark(v, p.ack) /\ p.ack + p.wnd <= Edge(y)
    BY <2>2 DEF Tight, Receives
  <2> HIDE DEF v, x
  <2>4. \A p \in net'[f] : Mark(v, p.ack)
    BY <1>3, <2>1, <2>3
  <2>5. ASSUME NEW p \in net'[f]
        PROVE  p.ack + p.wnd <= Edge(y)
    BY <2>1, <1>5, <2>3, <1>3, <2>5
  <2>6. Inside(v, Edge(y))
    BY <2>1, <2>3, <1>5 DEF Inside
  <2>7. ASSUME z.state # "DELETED"
        PROVE  /\ z.rcv_nxt = y.rcv_nxt /\ z.rcv_wnd = y.rcv_wnd /\ z.rlen = y.rlen
               /\ z.rlist = y.rlist /\ Edge(z) = Edge(y)
    BY <1>2, <2>7 DEF Result, Same, Fields, HandlerFields, Edge
  <2> QED
    BY <1>3, <2>1, <2>3, <2>4, <2>5, <2>6, <2>7
<1>7. Deleted(e)' <=> z.state = "DELETED"
  BY <1>2 DEF Deleted
<1>8. Deleted(f)' <=> Deleted(f)
  BY <1>2 DEF Deleted
<1> HIDE DEF x, v
<1>9. Tied(f)'
  BY <1>1, <1>2, <1>6, <1>7, <1>8 DEF Tied
<1> QED
  BY <1>9 DEF f

(* A step keeps the invariant, and that of the windows with it.            *)
Preserved == IInv' /\ (WInv => WInv') /\ (MInv => MInv')

LEMMA StepPreserves ==
  ASSUME IInv, NEW e \in Ends, ~Deleted(e), NEW y, NEW z, NEW w, NEW rd,
         Held(e, y, w, rd), Step(e, y, z, w, rd), Fits(e, y),
         Lives(e, y, w), MInv => Excused(e, y, z)
  PROVE  Preserved
<1>1. IInv'
  BY StepKeeps
<1>2. ASSUME WInv PROVE WInv'
  <2> DEFINE f == Peer(e)
  <2>1. f \in Ends /\ f # e /\ Ends = {e, f}
    BY PeerIs
  <2>2. Tight(tcb[e], y, Bound(e), Source(e))
    BY <1>2 DEF Fits
  <2>3. Typed(y) /\ \A p \in y.out : p.ack \in Nat /\ p.wnd \in Nat
    BY DEF Held, Good, Outgoing, PacketOK
  <2>4. Tied(e)' /\ Tied(f)'
    BY <1>2, <2>2, <2>3, TiedOwn, TiedOther
  <2>5. tcb'[e] = z /\ tcb'[f] = tcb[f] /\ Result(y, z)
    BY DEF Step, Moved
  <2>6. Deleted(f)' => Empty(tcb'[f])
    BY <1>2, <2>1, <2>5 DEF WInv, Deleted
  <2>7. Deleted(e)' => Empty(tcb'[e])
    BY <2>5 DEF Held, Same, Fields, HandlerFields, Result, Deleted
  <2> HIDE DEF f
  <2> QED
    BY <2>1, <2>4, <2>6, <2>7 DEF WInv
<1>3. ASSUME MInv PROVE MInv'
  BY <1>3, StepMoves DEF Lives
<1> QED
  BY <1>1, <1>2, <1>3 DEF Preserved

LEMMA BegunFits ==
  ASSUME IInv, NEW e \in Ends, ~Deleted(e), NEW x, Begun(e, x)
  PROVE  Fits(e, x)
BY FitsBlock, FitsSame DEF LinkFields, TightFields, Begun

(* What attemptSend() sends keeps to the windows.                          *)
LEMMA SendingFits ==
  ASSUME IInv, NEW e \in Ends, NEW x, NEW w, NEW rd, Held(e, x, w, rd), x.state \notin Ended,
         Fits(e, x), NEW sflags, NEW y, y = AttemptSend(x, sflags)
  PROVE  Fits(e, y)
BY BoundIs, AttemptSendTight DEF Fits, Held

LEMMA DoneExcuses ==
  ASSUME MInv, NEW e \in Ends, NEW y, Typed(y), y.state # "DELETED",
         NEW q, q \in {y, Checked(y)}, Done(e, q)
  PROVE  Excused(e, y, Reset(q))
<1> DEFINE f == Peer(e)
           z == Reset(q)
           bad == q.ignored \/ q.state = "TCP_CLOSED"
<1>1. f \in Ends /\ f # e /\ DOMAIN failed = Ends
  BY PeerIs DEF MInv
<1>2. failed' = [failed EXCEPT ![e] = @ \/ q.ignored \/ q.state = "TCP_CLOSED"]
  BY DEF Done
<1>3. failed'[f] = failed[f] /\ DOMAIN failed' = Ends
  BY <1>1, <1>2
<1>4. ~failed'[e] => ~failed[e] /\ ~q.ignored /\ q.state # "TCP_CLOSED"
  <2>1. failed'[e] = (failed[e] \/ q.ignored \/ q.state = "TCP_CLOSED")
    BY <1>1, <1>2
  <2> HIDE DEF bad
  <2> QED
    BY <2>1, Zenon
<1>5. DOMAIN Block0 = Fields /\ DOMAIN y = Fields
  BY BlockIs DEF Typed
<1>6. DOMAIN q = Fields
  BY <1>5 DEF Checked
<1>7. ~z.ignored /\ z.state = q.state
  BY <1>6 DEF Reset, Fields
<1>8. CASE q = y
  BY <1>3, <1>4, <1>7, <1>8 DEF Excused
<1>9. CASE q # y
  <2> DEFINE ig == y.ignored \/ y.state = "TCP_CLOSED"
             out == y.out
  <2>1. /\ q = [Block0 EXCEPT !.state = "DELETED", !.shutdown = TRUE, !.out = out, !.ignored = ig]
        /\ y.state # "TCP_ESTABLISHED" \/ y.sbuf = <<>>
    BY <1>9 DEF Checked
  <2> HIDE DEF ig, out
  <2>2. q.ignored = ig
    BY <2>1, <1>5 DEF Fields
  <2>3. ~q.ignored => ~y.ignored /\ y.state # "TCP_CLOSED"
    BY <2>2, Zenon DEF ig
  <2> HIDE DEF f, z
  <2> QED
    BY <2>1, <2>3, <1>3, <1>4, <1>7 DEF Excused, f, z
<1> QED
  BY <1>8, <1>9

(* A call that leaves no mark on the connection.                           *)
LEMMA SameExcuses ==
  ASSUME MInv, NEW e \in Ends, failed' = failed, NEW y, y.ignored = tcb[e].ignored,
         y.state = tcb[e].state, y.state # "DELETED"
  PROVE  Excused(e, y, y)
BY DEF MInv, Excused, KeepsOn

(* How the actions end.                                                    *)
LEMMA Finished ==
  ASSUME IInv, NEW e \in Ends, ~Deleted(e), NEW y, NEW w, NEW rd, Held(e, y, w, rd), Fits(e, y),
         Lives(e, y, w),
         NEW q, q \in {y, Checked(y)}, Done(e, q), Result(y, Reset(q)),
         NEW before, Sent(e, y, before), DOMAIN before = Ends,
         before[e] \subseteq net[e], before[Peer(e)] = net[Peer(e)],
         (written' = written /\ w = written[e]) \/ written' = [written EXCEPT ![e] = w],
         (read' = read /\ rd = read[e]) \/ read' = [read EXCEPT ![e] = rd]
  PROVE  Preserved
<1> DEFINE f == Peer(e)
           z == Reset(q)
<1>1. f \in Ends /\ f # e
  BY PeerIs
<1>2. NetStep(e, y)
  BY SentIs
<1>3. tcb' = [tcb EXCEPT ![e] = z]
  BY DoneIs
<1>4. Functions
  BY DEF IInv
<1> HIDE DEF f, z
<1>5. DOMAIN tcb' = Ends /\ tcb'[e] = z /\ tcb'[f] = tcb[f]
  BY <1>1, <1>3, <1>4 DEF Functions
<1>6. DOMAIN written' = Ends /\ written'[e] = w /\ written'[f] = written[f]
  BY <1>1, <1>4 DEF Functions
<1>7. DOMAIN read' = Ends /\ read'[e] = rd /\ read'[f] = read[f]
  BY <1>1, <1>4 DEF Functions
<1>8. Moved(e, z, w, rd)
  BY <1>2, <1>5, <1>6, <1>7 DEF Moved, Functions, NetStep, f
<1>9. Step(e, y, z, w, rd)
  BY <1>2, <1>8 DEF Step, z
<1>10. MInv => Excused(e, y, z)
  BY DoneExcuses DEF Held, Good, z
<1> QED
  BY <1>9, <1>10, StepPreserves

(* A handler after which the owner looks whether he can delete the end.    *)
LEMMA HandlerEnds ==
  ASSUME IInv, NEW e \in Ends, ~Deleted(e), NEW y, Held(e, y, written[e], read[e]), Fits(e, y),
         Lives(e, y, written[e]), Done(e, Checked(y)),
         NEW before, Sent(e, y, before), DOMAIN before = Ends,
         before[e] \subseteq net[e], before[Peer(e)] = net[Peer(e)],
         UNCHANGED <<written, read>>
  PROVE  Preserved
<1> DEFINE q == Checked(y)
           w == written[e]
           rd == read[e]
<1>1. Typed(y)
  BY DEF Held, Good
<1>2. Result(y, Reset(q))
  BY <1>1, CheckedIs
<1>3. written' = written /\ w = written[e] /\ read' = read /\ rd = read[e]
  OBVIOUS
<1>4. Held(e, y, w, rd) /\ Lives(e, y, w) /\ Done(e, q) /\ q \in {y, Checked(y)}
  OBVIOUS
<1> HIDE DEF q, w, rd
<1> QED
  BY <1>2, <1>3, <1>4, Finished

(* A call that sends nothing.                                              *)
LEMMA Told ==
  ASSUME IInv, NEW e \in Ends, ~Deleted(e), NEW y, Held(e, y, written[e], read[e]), Fits(e, y),
         Lives(e, y, written[e]),
         NEW z, Result(y, z), MInv => Excused(e, y, z), tcb' = [tcb EXCEPT ![e] = z],
         UNCHANGED <<net, written, read>>
  PROVE  Preserved
<1> DEFINE f == Peer(e)
           w == written[e]
           rd == read[e]
<1>1. f \in Ends /\ f # e
  BY PeerIs
<1>2. Functions
  BY DEF IInv
<1>3. Held(e, y, w, rd) /\ Lives(e, y, w)
  OBVIOUS
<1> HIDE DEF w, rd, f
<1>4. NetStep(e, y)
  BY <1>2 DEF NetStep, Functions
<1>5. DOMAIN tcb' = Ends /\ tcb'[e] = z /\ tcb'[f] = tcb[f]
  BY <1>1, <1>2 DEF Functions
<1>6. Moved(e, z, w, rd)
  BY <1>2, <1>5 DEF Moved, Functions, f, w, rd
<1>7. Step(e, y, z, w, rd)
  BY <1>4, <1>6 DEF Step
<1> QED
  BY <1>3, <1>7, StepPreserves

(* Only what the user is told changes.                                     *)
LEMMA UserStep ==
  ASSUME IInv, NEW e \in Ends, ~Deleted(e), NEW z, tcb' = [tcb EXCEPT ![e] = z],
         Same(tcb[e], z, UserFields), z.shutdown = tcb[e].shutdown,
         z.shutdown => ~z.canRead, MInv => Leaves(e, z, written[e]),
         UNCHANGED <<net, written, read, failed>>
  PROVE  Preserved
<1> DEFINE c == tcb[e]
           w == written[e]
           rd == read[e]
<1>1. Held(e, c, w, rd) /\ c.out = {} /\ (c.shutdown => c.state = "TCP_ESTABLISHED")
  BY HeldBlock
<1>2. Good(c, w) /\ Typed(c)
  BY <1>1 DEF Held, Good
<1>3. Same(c, z, UserFields) /\ z.shutdown = c.shutdown /\ z.shutdown \in BOOLEAN
  BY <1>2 DEF Typed
<1>9. Fits(e, z)
  BY <1>3, FitsBlock, FitsSame DEF UserFields, TightFields
<1> HIDE DEF c, w, rd
<1>4. Good(z, w) /\ Typed(z)
  BY <1>2, <1>3, GoodUser DEF Good
<1>5. /\ z.state = c.state /\ z.snd_una = c.snd_una /\ z.out = c.out /\ z.rcv_nxt = c.rcv_nxt
      /\ z.rbuf = c.rbuf /\ z.rlen = c.rlen /\ z.rlist = c.rlist
  BY <1>3 DEF Same, Fields, UserFields
<1>6. ReceiverKept(c, z)
  BY <1>3, <1>5 DEF ReceiverKept
<1>7. Held(e, z, w, rd)
  BY <1>1, <1>4, <1>5, <1>6, HeldSame
<1>8. Result(z, z)
  BY <1>4, <1>1, <1>3, <1>5 DEF Same, Typed, Result
<1>10. MInv => Excused(e, z, z)
  BY <1>1, <1>3, <1>5, SameExcuses DEF Same, Fields, UserFields, Held, c
<1>11. Lives(e, z, written[e])
  BY DEF Lives
<1> QED
  BY <1>7, <1>8, <1>9, <1>10, <1>11, Told DEF w, rd

LEMMA SendFullKeeps ==
  ASSUME IInv, NEW e \in Ends, SendFull(e)
  PROVE  Preserved
<1> DEFINE c == tcb[e]
           z == [c EXCEPT !.writeEnable = TRUE, !.canWrite = FALSE]
<1>1. ~Deleted(e) /\ UNCHANGED <<net, written, read, failed>>
  BY DEF SendFull, Deleted
<1>2. tcb' = [tcb EXCEPT ![e] = z]
  BY DEF SendFull
<1>3. DOMAIN c = Fields /\ (c.shutdown => ~c.canRead)
  BY <1>1, HeldBlock DEF Held, Good, Typed, Receiver
<1>4. Same(c, z, UserFields) /\ z.shutdown = c.shutdown /\ (z.shutdown => ~z.canRead)
  BY <1>3 DEF Same, Fields, UserFields
<1>5. ASSUME MInv
      PROVE  Leaves(e, z, written[e])
  <2>1. /\ c.state = "TCP_ESTABLISHED" /\ slen(c) = BufSize
        /\ Clocked(c) /\ Tells(c) /\ (~failed[e] => Moving(c))
    BY <1>5 DEF SendFull, MInv, KeepsOn, Lively, Ended
  <2>2. Same(c, z, {"canWrite", "writeEnable"}) /\ z.writeEnable /\ slen(z) = BufSize
    BY <2>1, <1>3 DEF Same, Fields, slen
  <2>3. BufSize >= (BufSize * 2) \div 3
    BY TcpConstants
  <2> HIDE DEF c, z
  <2>6. z.state = "TCP_ESTABLISHED"
    BY <2>1, <2>2 DEF Same, Fields
  <2>7. Clocked(z) /\ Tells(z)
    BY <2>1, <2>2, ClockedSame, TellsSame DEF ClockFields, TellFields
  <2>8. Moving(c) => Moving(z)
    BY <2>2, MovingSame DEF MoveFields
  <2>4. /\ Clocked(z) /\ Tells(z) /\ (~failed[e] => Moving(z))
        /\ z.state = "TCP_ESTABLISHED"
    BY <2>1, <2>6, <2>7, <2>8
  <2>5. Asked(z)
    BY <2>2, <2>3 DEF Asked
  <2> QED
    BY <2>4, <2>5 DEF Leaves, Lively
<1> HIDE DEF z
<1> QED
  BY <1>1, <1>2, <1>4, <1>5, UserStep

LEMMA RecvEmptyKeeps ==
  ASSUME IInv, NEW e \in Ends, RecvEmpty(e)
  PROVE  Preserved
<1> DEFINE c == tcb[e]
           z == [c EXCEPT !.readEnable = TRUE, !.canRead = FALSE]
<1>1. ~Deleted(e) /\ UNCHANGED <<net, written, read, failed>>
  BY DEF RecvEmpty, Deleted
<1>2. tcb' = [tcb EXCEPT ![e] = z]
  BY DEF RecvEmpty
<1>3. DOMAIN c = Fields
  BY <1>1, HeldBlock DEF Held, Good, Typed
<1>4. Same(c, z, UserFields) /\ z.shutdown = c.shutdown /\ (z.shutdown => ~z.canRead)
  BY <1>3 DEF Same, Fields, UserFields
<1>5. ASSUME MInv
      PROVE  Leaves(e, z, written[e])
  <2>1. /\ c.state = "TCP_ESTABLISHED" /\ c.rlen = 0
        /\ Clocked(c) /\ Asked(c) /\ (~failed[e] => Moving(c))
    BY <1>5 DEF RecvEmpty, MInv, KeepsOn, Lively, Ended
  <2>2. Same(c, z, {"canRead", "readEnable"}) /\ z.readEnable /\ z.rlen = 0
    BY <2>1, <1>3 DEF Same, Fields
  <2> HIDE DEF c, z
  <2>6. z.state = "TCP_ESTABLISHED"
    BY <2>1, <2>2 DEF Same, Fields
  <2>7. Clocked(z) /\ Asked(z)
    BY <2>1, <2>2, ClockedSame, AskedSame DEF ClockFields, AskFields
  <2>8. Moving(c) => Moving(z)
    BY <2>2, MovingSame DEF MoveFields
  <2>3. /\ Clocked(z) /\ Asked(z) /\ (~failed[e] => Moving(z))
        /\ z.state = "TCP_ESTABLISHED"
    BY <2>1, <2>6, <2>7, <2>8
  <2>4. Tells(z)
    BY <2>2 DEF Tells
  <2> QED
    BY <2>3, <2>4 DEF Leaves, Lively
<1> HIDE DEF z
<1> QED
  BY <1>1, <1>2, <1>4, <1>5, UserStep

LEMMA CloseKeeps ==
  ASSUME IInv, NEW e \in Ends, Close(e)
  PROVE  Preserved
<1> DEFINE c == tcb[e]
           w == written[e]
           rd == read[e]
           y == [c EXCEPT !.shutdown = TRUE, !.canRead = FALSE, !.canWrite = FALSE]
           z == Reset(Checked(y))
<1>1. ~c.shutdown /\ Done(e, Checked(y)) /\ UNCHANGED <<net, written, read>>
  BY DEF Close
<1>2. ~Deleted(e)
  BY <1>1 DEF IInv, EndOK
<1>3. Held(e, c, w, rd) /\ c.out = {}
  BY <1>2, HeldBlock
<1>4. Good(c, w) /\ DOMAIN c = Fields /\ Receiver(c, written[Peer(e)], rd)
  BY <1>3 DEF Held, Good, Typed
<1> HIDE DEF c, w, rd
<1>5. Same(c, y, UserFields) /\ y.shutdown = TRUE /\ y.canRead = FALSE
  BY <1>4 DEF Same, Fields, UserFields
<1>12. Fits(e, y)
  <2> HIDE DEF y
  <2>1. Fits(e, c) /\ UserFields \cap TightFields = {}
    BY <1>2, FitsBlock DEF UserFields, TightFields, c
  <2> QED
    BY <2>1, <1>5, FitsSame
<1>6. tcb' = [tcb EXCEPT ![e] = z]
  BY <1>1, DoneIs DEF c
<1> HIDE DEF y
<1>7. Good(y, w) /\ Typed(y)
  BY <1>4, <1>5, GoodUser DEF Good
<1>8. /\ y.state = c.state /\ y.snd_una = c.snd_una /\ y.out = c.out /\ y.rcv_nxt = c.rcv_nxt
      /\ y.rlen = c.rlen
  BY <1>5 DEF Same, Fields, UserFields
<1>9. Receiver(y, written[Peer(e)], rd)
  BY <1>4, <1>5, <1>8 DEF Receiver
<1>10. Held(e, y, w, rd)
  BY <1>3, <1>7, <1>8, <1>9, HeldLike
<1>11. Result(y, z)
  BY <1>7, CheckedIs
<1>13. MInv => Excused(e, y, z)
  BY <1>1, <1>2, <1>7, <1>8, DoneExcuses DEF Deleted, c
<1>14. Lives(e, y, w)
  <2> SUFFICES ASSUME MInv, y.state # "TCP_CLOSED"
               PROVE  /\ Lively(y) /\ (~failed[e] => Moving(y))
                      /\ y.state \in {"TCP_SYN_SENT", "TCP_SYN_RECEIVED"} => w = 0
    BY DEF Lives, Leaves
  <2>1. /\ Clocked(c) /\ (~failed[e] => Moving(c))
        /\ c.state \in {"TCP_SYN_SENT", "TCP_SYN_RECEIVED"} => w = 0
    BY <1>2, <1>8 DEF MInv, KeepsOn, Lively, Ended, Deleted, c, w
  <2>2. Clocked(y) /\ (Moving(c) => Moving(y))
    BY <2>1, <1>5, ClockedSame, MovingSame DEF ClockFields, MoveFields, UserFields
  <2>3. Tells(y) /\ Asked(y)
    BY <1>5 DEF Tells, Asked, Waits
  <2> QED
    BY <2>1, <2>2, <2>3, <1>8 DEF Lively
<1> HIDE DEF z
<1> QED
  BY <1>1, <1>2, <1>6, <1>10, <1>11, <1>12, <1>13, <1>14, Told DEF w, rd

AdviceFields == AdjustFields \cup {"mtu_advise"}

LEMMA GoodAdvice ==
  ASSUME NEW x, NEW w, Good(x, w), NEW y, Same(x, y, AdviceFields), MssTyped(y),
         y.mtu_advise \in Nat \ {0}
  PROVE  Good(y, w)
<1>1. /\ DOMAIN y = Fields
      /\ y.state = x.state /\ y.shutdown = x.shutdown /\ y.sbuf = x.sbuf /\ y.slist = x.slist
      /\ y.snd_una = x.snd_una /\ y.snd_nxt = x.snd_nxt /\ y.snd_wnd = x.snd_wnd
      /\ y.recover = x.recover /\ y.dup_acks = x.dup_acks /\ y.room = x.room
      /\ y.mtu = x.mtu /\ y.out = x.out
      /\ y.rcv_nxt = x.rcv_nxt /\ y.rcv_wnd = x.rcv_wnd
  BY DEF Same, Fields, AdviceFields, AdjustFields
<1>2. Typed(y)
  BY <1>1 DEF Good, Typed, MssTyped
<1>3. Outgoing(y, w)
  BY <1>1 DEF Good, Outgoing
<1> QED
  BY <1>1, <1>2, <1>3, GoodSame

ReceiverFields == {"rbuf", "rlen", "rlist", "rcv_nxt", "shutdown", "canRead"}

LEMMA Untouched ==
  ASSUME NEW x, NEW y, NEW S, Same(x, y, S), ReceiverFields \cap S = {},
         x.shutdown => ~x.canRead
  PROVE  ReceiverKept(x, y)
BY DEF Same, Fields, ReceiverFields, ReceiverKept

LEMMA NotifyMtuKeeps ==
  ASSUME IInv, NEW e \in Ends, NEW mtu \in Mtus[e], NotifyMtu(e, mtu)
  PROVE  Preserved
<1> DEFINE c == tcb[e]
           w == written[e]
           rd == read[e]
           x == [c EXCEPT !.mtu_advise = mtu]
           a == IF x.state = "TCP_ESTABLISHED" THEN AdjustMtu(x) ELSE x
           z == [a EXCEPT !.cwnd = 0]
<1>1. tcb' = [tcb EXCEPT ![e] = z] /\ x.state # "DELETED" /\ UNCHANGED <<net, written, read>>
  BY DEF NotifyMtu
<1>2. mtu \in Nat \ {0}
  <2> DEFINE first == Maxima[1]
  <2>1. first \in Nat \ {0} /\ Mtus[e] \subseteq 1 .. first
    BY MaximaAre, TcpConstants
  <2> HIDE DEF first
  <2> QED
    BY <2>1
<1>3. EndOK(e)
  BY DEF IInv
<1>4. Good(c, w) /\ DOMAIN c = Fields
  BY <1>3 DEF EndOK, Good, Typed
<1> HIDE DEF c, w, rd
<1>5. Same(c, x, {"mtu_advise"}) /\ x.mtu_advise = mtu /\ x.state = c.state
      /\ x.mss = c.mss /\ x.msslevel = c.msslevel /\ x.cwnd = c.cwnd
  BY <1>4 DEF Same, Fields
<1>6. ~Deleted(e)
  BY <1>1, <1>5 DEF Deleted, c
<1>7. Held(e, c, w, rd) /\ c.out = {} /\ (c.shutdown => c.state = "TCP_ESTABLISHED")
      /\ (c.shutdown => ~c.canRead)
  BY <1>6, HeldBlock DEF c, w, rd, Held, Receiver
<1> HIDE DEF x
<1>8. Good(x, w)
  BY <1>2, <1>4, <1>5, GoodAdvice DEF Same, AdviceFields, MssTyped, Good, Typed
<1>9. Same(x, a, AdjustFields) /\ MssTyped(a)
  <2>1. CASE x.state = "TCP_ESTABLISHED"
    <3>1. a = AdjustMtu(x) /\ Typed(x)
      BY <2>1, <1>8 DEF Good
    <3> HIDE DEF a
    <3> QED
      BY <3>1, AdjustMtuIs
  <2>2. CASE x.state # "TCP_ESTABLISHED"
    BY <2>2, <1>8 DEF Good, Typed, MssTyped, Same
  <2> QED
    BY <2>1, <2>2
<1> HIDE DEF a
<1>10. Same(a, z, {"cwnd"}) /\ z.cwnd = 0
  BY <1>9 DEF Same, Fields
<1> HIDE DEF z
<1>11. Same(x, z, AdjustFields) /\ MssTyped(z)
  BY <1>10, <1>9 DEF Same, Fields, MssTyped, AdjustFields
<1>12. Good(z, w) /\ Typed(z)
  BY <1>8, <1>11, GoodMss DEF Good
<1>13. Same(c, z, AdviceFields)
  BY <1>5, <1>11 DEF Same, AdviceFields
<1>14. z.state = c.state /\ z.snd_una = c.snd_una /\ z.out = c.out /\ z.shutdown = c.shutdown
  BY <1>13 DEF Same, Fields, AdviceFields, AdjustFields
<1>15. ReceiverKept(c, z)
  BY <1>7, <1>13, Untouched DEF ReceiverFields, AdviceFields, AdjustFields
<1>18. Fits(e, z)
  BY <1>6, <1>13, FitsBlock, FitsSame DEF AdviceFields, AdjustFields, TightFields, c
<1>16. Held(e, z, w, rd)
  BY <1>7, <1>12, <1>14, <1>15, HeldSame
<1>17. Result(z, z)
  BY <1>12, <1>7, <1>14 DEF Same, Typed, Result
<1>19. MInv => Excused(e, z, z)
  <2>1. z.ignored = c.ignored /\ z.state # "DELETED" /\ failed' = failed
    BY <1>1, <1>6, <1>13, <1>14 DEF Same, Fields, AdviceFields, AdjustFields, Deleted, c, NotifyMtu
  <2> QED
    BY <2>1, <1>14, SameExcuses DEF c
<1>20. Lives(e, z, w)
  <2> SUFFICES ASSUME MInv, z.state # "TCP_CLOSED"
               PROVE  /\ Lively(z) /\ (~failed[e] => Moving(z))
                      /\ z.state \in {"TCP_SYN_SENT", "TCP_SYN_RECEIVED"} => w = 0
    BY DEF Lives, Leaves
  <2>1. /\ Lively(c) /\ (~failed[e] => Moving(c))
        /\ c.state \in {"TCP_SYN_SENT", "TCP_SYN_RECEIVED"} => w = 0
    BY <1>6, <1>14 DEF MInv, KeepsOn, Ended, Deleted, c, w
  <2>2. Clocked(z) /\ (Moving(c) => Moving(z))
    BY <2>1, <1>13, ClockedSame, MovingSame
       DEF Lively, ClockFields, MoveFields, AdviceFields, AdjustFields
  <2>3. Tells(z) /\ Asked(z)
    BY <2>1, <1>13, TellsSame, AskedSame
       DEF Lively, TellFields, AskFields, AdviceFields, AdjustFields
  <2> QED
    BY <2>1, <2>2, <2>3, <1>14 DEF Lively
<1> QED
  BY <1>1, <1>6, <1>16, <1>17, <1>18, <1>19, <1>20, Told DEF w, rd

(* Handlers keep what moves the stream.                                    *)
LEMMA HandlingWide ==
  ASSUME NEW e, Typed(tcb[e]), NEW link \in Links(e), NEW x, x = Handling(e, link)
  PROVE  Wide(x)
<1> DEFINE c == tcb[e]
           m == c.mss
           top == Max({BufSize, m})
           cwnd == link.cwnd
           room == link.room
           trouble == link.trouble
           mtu == link.mtu
<1>1. cwnd \in m .. top /\ m \in Nat
  <2> HIDE DEF top
  <2> QED
    BY DEF Links, top, Typed
<1>2. BufSize \in Int /\ top \in {BufSize, m}
  <2>1. BufSize \in Int
    BY TcpConstants
  <2>2. m \in Int
    BY <1>1
  <2> HIDE DEF m, cwnd
  <2> QED
    BY <2>1, <2>2, MaxOfTwo
<1>3. x = [c EXCEPT !.room = room, !.trouble = trouble, !.mtu = mtu, !.cwnd = cwnd]
      /\ DOMAIN c = Fields
  BY DEF Handling, Typed
<1> HIDE DEF c, cwnd, top, room, trouble, mtu
<1>4. x.cwnd = cwnd /\ x.mss = m
  BY <1>3 DEF Fields
<1> HIDE DEF m
<1>5. cwnd >= m
  BY <1>1, <1>2
<1> QED
  BY <1>4, <1>5 DEF Wide

LEMMA BegunLives ==
  ASSUME MInv, NEW e \in Ends, ~Deleted(e), NEW x, Begun(e, x), x.state # "TCP_CLOSED"
  PROVE  /\ Lively(x) /\ (~failed[e] => Moving(x))
         /\ x.state \in {"TCP_SYN_SENT", "TCP_SYN_RECEIVED"} => written[e] = 0
<1> DEFINE c == tcb[e]
<1>1. Same(c, x, LinkFields) /\ x.state = c.state
  BY DEF Begun, Same, Fields, LinkFields
<1>2. /\ Lively(c) /\ (~failed[e] => Moving(c))
      /\ c.state \in {"TCP_SYN_SENT", "TCP_SYN_RECEIVED"} => written[e] = 0
  BY <1>1 DEF MInv, KeepsOn, Ended, Deleted
<1> HIDE DEF c
<1>3. Clocked(x) /\ (Moving(c) => Moving(x))
  BY <1>1, <1>2, ClockedSame, MovingSame DEF Lively, ClockFields, MoveFields, LinkFields
<1>4. Tells(x) /\ Asked(x)
  BY <1>1, <1>2, TellsSame, AskedSame DEF Lively, TellFields, AskFields, LinkFields
<1> QED
  BY <1>1, <1>2, <1>3, <1>4 DEF Lively

Early(x, w) == x.state \in {"TCP_SYN_SENT", "TCP_SYN_RECEIVED"} => w = 0

(* attemptSend() sees to it that what it leaves will be sent.              *)
LEMMA SendingLives ==
  ASSUME NEW e, NEW x, NEW w \in Nat, Good(x, w), x.state \notin Ended, Lively(x), Wide(x),
         Early(x, w), NEW sflags, sflags # "return", NEW y, y = AttemptSend(x, sflags)
  PROVE  Leaves(e, y, w) /\ Lively(y) /\ Moving(y)
<1>1. Same(x, y, SendFields)
  BY AttemptSendGood
<1>2. Clocked(y) /\ Moving(y)
  BY AttemptSendMoves DEF Lively
<1>3. Tells(y) /\ Asked(y)
  BY <1>1, TellsSame, AskedSame
     DEF Lively, TellFields, AskFields, SendFields, SentFields, MssFields
<1>4. y.state = x.state
  BY <1>1 DEF Same, Fields, SendFields, SentFields, MssFields
<1> QED
  BY <1>2, <1>3, <1>4 DEF Leaves, Lively, Early

(* So does a retransmission, or it closes the connection.                  *)
LEMMA RetransmitLives ==
  ASSUME NEW x, NEW w \in Nat, Good(x, w), x.state \notin Ended, x.slist # <<>>, Lively(x),
         NEW y, y = Retransmit(x), y.state # "TCP_CLOSED"
  PROVE  Lively(y) /\ y.rto_base /\ (Wide(x) => Wide(y)) /\ y.state = x.state
<1>1. Clocked(y) /\ y.rto_base /\ (Wide(x) => Wide(y))
  BY RetransmitClocked DEF Lively
<1>2. Same(x, y, ResendFields) /\ y.state = x.state /\ y.sbuf = x.sbuf
  BY RetransmitGood
<1>3. Tells(y)
  BY <1>2, TellsSame DEF Lively, TellFields, ResendFields, SentFields, MssFields
<1>4. /\ y.shutdown = x.shutdown /\ y.canWrite = x.canWrite /\ y.writeEnable = x.writeEnable
  BY <1>2 DEF Same, Fields, ResendFields, SentFields, MssFields
<1>5. Asked(y)
  BY <1>2, <1>4 DEF Lively, Asked, Waits, slen
<1> QED
  BY <1>1, <1>2, <1>3, <1>5 DEF Lively

LEMMA SmallLives ==
  ASSUME NEW e, NEW x, NEW w, Lively(x), ~failed[e] => Moving(x), Early(x, w),
         NEW y, Same(x, y, {"out", "room", "t_ack", "probes"})
  PROVE  Leaves(e, y, w)
<1>1. Clocked(y) /\ (Moving(x) => Moving(y))
  BY ClockedSame, MovingSame DEF Lively, ClockFields, MoveFields
<1>2. Tells(y) /\ Asked(y)
  BY TellsSame, AskedSame DEF Lively, TellFields, AskFields
<1>3. y.state = x.state
  BY DEF Same, Fields
<1> QED
  BY <1>1, <1>2, <1>3 DEF Leaves, Lively, Early

LEMMA ExpiredLives ==
  ASSUME NEW e, NEW x, NEW w \in Nat, Good(x, w), x.state \notin Ended,
         Lively(x), ~failed[e] => Moving(x), Early(x, w),
         NEW timer \in Timers, timer = "rto" => x.slist # <<>>,
         NEW y, y = Expired(x, timer)
  PROVE  Leaves(e, y, w)
<1>1. CASE timer = "rto"
  BY <1>1, RetransmitLives DEF Expired, Leaves, Early, Moving
<1>2. CASE timer = "probe" /\ x.probes = MaxProbes
  BY <1>2, ClosedownGood DEF Expired, Leaves
<1>3. CASE timer = "probe" /\ x.probes # MaxProbes
  <2> DEFINE seq == x.snd_nxt - 1
             a == Ack(x, seq)
             n == a.probes + 1
  <2>1. y = [a EXCEPT !.probes = n] /\ seq \in {x.snd_nxt, x.snd_nxt - 1}
    BY <1>3 DEF Expired
  <2> HIDE DEF seq
  <2>2. Same(x, a, {"out", "room", "t_ack"})
    BY <2>1, AckGood
  <2> HIDE DEF a, n
  <2>3. Same(x, y, {"out", "room", "t_ack", "probes"})
    BY <2>1, <2>2 DEF Same, Fields
  <2> QED
    BY <2>3, SmallLives
<1>4. CASE timer = "ack"
  <2> DEFINE seq == x.snd_nxt
  <2>1. y = Ack(x, seq) /\ seq \in {x.snd_nxt, x.snd_nxt - 1}
    BY <1>4 DEF Expired
  <2> HIDE DEF seq
  <2>2. Same(x, y, {"out", "room", "t_ack"})
    BY <2>1, AckGood
  <2>3. Same(x, y, {"out", "room", "t_ack", "probes"})
    BY <2>2 DEF Same
  <2> QED
    BY <2>3, SmallLives
<1> QED
  BY <1>1, <1>2, <1>3, <1>4 DEF Timers

(* A timer fired.                                                          *)
LEMMA ExpiredHeld ==
  ASSUME NEW e, NEW x, NEW w, NEW rd, Held(e, x, w, rd), x.out = {}, x.state \notin Ended,
         NEW timer \in Timers, timer = "rto" => x.slist # <<>>,
         NEW y, y = Expired(x, timer)
  PROVE  Held(e, y, w, rd)
<1>1. Good(x, w) /\ w \in Nat /\ (x.shutdown => ~x.canRead) /\ DOMAIN x = Fields
  BY DEF Held, Receiver, Good, Typed
<1>2. CASE timer = "rto"
  <2>1. y = Retransmit(x) /\ x.slist # <<>>
    BY <1>2 DEF Expired
  <2>2. /\ Good(y, w) /\ Same(x, y, ResendFields) /\ y.state \in {x.state, "TCP_CLOSED"}
    BY <1>1, <2>1, RetransmitGood
  <2>3. ReceiverFields \cap ResendFields = {}
    BY DEF ReceiverFields, ResendFields, SentFields, MssFields
  <2>4. ReceiverKept(x, y)
    BY <1>1, <2>2, <2>3, Untouched
  <2>5. y.snd_una = x.snd_una
    BY <2>2 DEF Same, Fields, ResendFields, SentFields, MssFields
  <2>6. x.state # "TCP_LISTEN" /\ x.state # "TCP_CLOSED"
    BY <1>1, <2>1, ListenIs DEF Ended
  <2>7. CASE y.state = x.state
    BY <2>2, <2>4, <2>5, <2>7, HeldSame
  <2>8. CASE y.state = "TCP_CLOSED"
    BY <2>2, <2>4, <2>5, <2>6, <2>8, HeldClosed
  <2> QED
    BY <2>2, <2>7, <2>8
<1>3. CASE timer = "probe" /\ x.probes = MaxProbes
  <2>1. y = Closedown(x)
    BY <1>3 DEF Expired
  <2>2. Good(y, w) /\ Same(x, y, {"state", "sbuf"}) /\ y.state = "TCP_CLOSED"
    BY <1>1, <2>1, ClosedownGood
  <2>3. y.snd_una = x.snd_una /\ y.out = {}
    BY <2>2 DEF Same, Fields
  <2>4. ReceiverKept(x, y)
    BY <1>1, <2>2, Untouched DEF ReceiverFields
  <2> QED
    BY <2>2, <2>3, <2>4, HeldClosed
<1>4. CASE timer = "probe" /\ x.probes # MaxProbes
  <2> DEFINE a == Ack(x, x.snd_nxt - 1)
             n == a.probes + 1
  <2>1. y = [a EXCEPT !.probes = n]
    BY <1>4 DEF Expired
  <2>2. Good(a, w) /\ Same(x, a, {"out", "room", "t_ack"})
    <3> DEFINE seq == x.snd_nxt - 1
    <3>1. seq \in {x.snd_nxt, x.snd_nxt - 1} /\ a = Ack(x, seq)
      OBVIOUS
    <3> HIDE DEF seq, a
    <3> QED
      BY <3>1, <1>1, AckGood
  <2> HIDE DEF a, n
  <2>3. Same(a, y, {"probes"})
    BY <2>1, <2>2 DEF Same, Fields
  <2>4. Good(y, w)
    BY <2>3, <2>2, SameLonger, GoodSmall
  <2>5. Same(x, y, {"out", "room", "t_ack", "probes"})
    BY <2>2, <2>3 DEF Same
  <2>6. y.snd_una = x.snd_una /\ y.state = x.state
    BY <2>5 DEF Same, Fields
  <2>7. ReceiverKept(x, y)
    BY <1>1, <2>5, Untouched DEF ReceiverFields
  <2> QED
    BY <2>4, <2>6, <2>7, HeldSame
<1>5. CASE timer = "ack"
  <2>1. y = Ack(x, x.snd_nxt)
    BY <1>5 DEF Expired
  <2>2. Good(y, w) /\ Same(x, y, {"out", "room", "t_ack"})
    <3> DEFINE seq == x.snd_nxt
    <3>1. seq \in {x.snd_nxt, x.snd_nxt - 1} /\ y = Ack(x, seq)
      BY <2>1
    <3> HIDE DEF seq
    <3> QED
      BY <3>1, <1>1, AckGood
  <2>3. y.snd_una = x.snd_una /\ y.state = x.state
    BY <2>2 DEF Same, Fields
  <2>4. ReceiverKept(x, y)
    BY <1>1, <2>2, Untouched DEF ReceiverFields
  <2> QED
    BY <2>2, <2>3, <2>4, HeldSame
<1> QED
  BY <1>2, <1>3, <1>4, <1>5 DEF Timers

LEMMA ExpiredFits ==
  ASSUME IInv, NEW e \in Ends, NEW x, NEW w, NEW rd, Held(e, x, w, rd), x.state \notin Ended,
         Fits(e, x), NEW timer \in Timers, timer = "rto" => x.slist # <<>>,
         NEW y, y = Expired(x, timer)
  PROVE  Fits(e, y)
<1> SUFFICES ASSUME WInv PROVE Tight(tcb[e], y, Bound(e), Source(e))
  BY DEF Fits
<1>1. Good(x, w) /\ w \in Nat /\ Typed(x) /\ DOMAIN x = Fields
  BY DEF Held, Good, Typed
<1>2. Tight(tcb[e], x, Bound(e), Source(e))
  BY DEF Fits
<1>3. \A b \in Bound(e) : b \in Int
  BY BoundIs
<1>4. CASE timer = "rto"
  BY <1>4, <1>1, <1>2, <1>3, RetransmitTight DEF Expired
<1>5. CASE timer = "probe" /\ x.probes = MaxProbes
  BY <1>5, <1>1, <1>2, ClosedownTight DEF Expired
<1>6. CASE timer = "probe" /\ x.probes # MaxProbes
  <2> DEFINE seq == x.snd_nxt - 1
             a == Ack(x, seq)
             n == a.probes + 1
  <2>1. y = [a EXCEPT !.probes = n]
    BY <1>6 DEF Expired
  <2>2. a = Ack(x, seq)
    OBVIOUS
  <2> HIDE DEF seq, a, n
  <2>3. Tight(tcb[e], a, Bound(e), Source(e))
    BY <2>2, <1>1, <1>2, AckTight
  <2>4. DOMAIN a = Fields
    BY <2>2, <1>1 DEF Ack, Written
  <2>5. Same(a, y, {"probes"}) /\ {"probes"} \cap TightFields = {}
    BY <2>1, <2>4 DEF Same, Fields, TightFields
  <2> QED
    BY <2>3, <2>5, TightSame
<1>7. CASE timer = "ack"
  <2> DEFINE seq == x.snd_nxt
  <2>1. y = Ack(x, seq)
    BY <1>7 DEF Expired
  <2> HIDE DEF seq
  <2> QED
    BY <2>1, <1>1, <1>2, AckTight
<1> QED
  BY <1>4, <1>5, <1>6, <1>7 DEF Timers

LEMMA NotifyClockKeeps ==
  ASSUME IInv, NEW e \in Ends, NEW timer \in Timers, NEW link \in Links(e),
         NotifyClock(e, timer, link)
  PROVE  Preserved
<1> DEFINE x == Handling(e, link)
<1>1. /\ tcb[e].state \notin {"TCP_CLOSED", "DELETED"} /\ Running(tcb[e], timer)
      /\ UNCHANGED <<written, read>>
  BY DEF NotifyClock
<1>2. PICK y \in {Expired(x, timer)} : Done(e, Checked(y)) /\ Sent(e, y, net)
  BY DEF NotifyClock
<1>3. ~Deleted(e)
  BY <1>1 DEF Deleted
<1> HIDE DEF x
<1>4. Begun(e, x)
  BY <1>3, HandlingHeld DEF x
<1>5. Held(e, x, written[e], read[e]) /\ x.out = {} /\ Same(tcb[e], x, LinkFields)
  BY <1>4 DEF Begun
<1>6. x.state = tcb[e].state /\ x.slist = tcb[e].slist
  BY <1>5 DEF Same, Fields, LinkFields
<1>7. timer = "rto" => x.slist # <<>>
  BY <1>1, <1>6 DEF Running
<1>8. y = Expired(x, timer) /\ x.state \notin Ended
  BY <1>1, <1>2, <1>6 DEF Ended
<1>9. Held(e, y, written[e], read[e])
  <2> DEFINE w == written[e]
             rd == read[e]
  <2>1. Held(e, x, w, rd)
    BY <1>5
  <2> HIDE DEF w, rd
  <2>2. Held(e, y, w, rd)
    BY <2>1, <1>5, <1>7, <1>8, ExpiredHeld
  <2> QED
    BY <2>2 DEF w, rd
<1>10. DOMAIN net = Ends /\ net[e] \subseteq net[e]
  BY DEF IInv, Functions
<1>11. Fits(e, y)
  <2> DEFINE w == written[e]
             rd == read[e]
  <2>1. Held(e, x, w, rd) /\ Fits(e, x)
    BY <1>3, <1>4, <1>5, BegunFits
  <2> HIDE DEF w, rd
  <2> QED
    BY <2>1, <1>7, <1>8, ExpiredFits
<1>12. Lives(e, y, written[e])
  <2> DEFINE w == written[e]
  <2> SUFFICES ASSUME MInv PROVE Leaves(e, y, w)
    BY DEF Lives
  <2>1. Lively(x) /\ (~failed[e] => Moving(x)) /\ Early(x, w)
    BY <1>3, <1>4, <1>8, BegunLives DEF Ended, Early
  <2>2. Good(x, w) /\ w \in Nat
    BY <1>5 DEF Held
  <2> HIDE DEF w
  <2> QED
    BY <2>1, <2>2, <1>7, <1>8, ExpiredLives
<1> QED
  BY <1>1, <1>2, <1>3, <1>9, <1>10, <1>11, <1>12, HandlerEnds

(* The initiator begins the connection.                                    *)
LEMMA ConnectionHeld ==
  ASSUME NEW e, e # "responder", NEW x, NEW w, NEW rd, Held(e, x, w, rd), x.state = "TCP_LISTEN",
         NEW z, Same(x, z, {"state"}), z.state = "TCP_SYN_SENT", NEW y, y = Requested(z)
  PROVE  Held(e, y, w, rd) /\ y.state = "TCP_SYN_SENT"
<1> DEFINE f == Peer(e)
<1>1. Good(x, w) /\ w \in Nat /\ w = 0 /\ (x.shutdown => ~x.canRead)
  BY DEF Held, Good, Typed, Receiver
<1>2. z.state \in Opening
  BY DEF Opening
<1>3. /\ Good(y, w) /\ Same(x, y, {"state", "sbuf", "slist"}) /\ y.state = z.state /\ y.snd_una = 0
  BY <1>1, <1>2, RequestGood
<1>4. ReceiverKept(x, y)
  BY <1>1, <1>3, Untouched DEF ReceiverFields
<1>5. x.snd_una = 0
  BY <1>1, ListenIs
<1>6. /\ w >= written[e] /\ Intact(rd, written[f]) /\ Receiver(x, written[f], rd)
      /\ x.rcv_nxt >= tcb[e].rcv_nxt
      /\ ~Deleted(f) => x.snd_una <= tcb[f].rcv_nxt
  BY DEF Held
<1> HIDE DEF f
<1>7. Receiver(y, written[f], rd) /\ y.rcv_nxt = x.rcv_nxt
  BY <1>6, <1>4, ReceiverSame DEF ReceiverKept
<1>8. Held(e, y, w, rd)
  BY <1>1, <1>3, <1>5, <1>6, <1>7 DEF Held, f
<1> QED
  BY <1>3, <1>8

(* attemptSend() keeps what is held.                                       *)
LEMMA SendingHeld ==
  ASSUME NEW e, NEW x, NEW w, NEW rd, Held(e, x, w, rd), x.state \notin Ended, NEW sflags,
         NEW y, y = AttemptSend(x, sflags)
  PROVE  Held(e, y, w, rd) /\ Same(x, y, SendFields)
<1>1. Good(x, w) /\ w \in Nat /\ (x.shutdown => ~x.canRead)
  BY DEF Held, Receiver
<1>2. Good(y, w) /\ Same(x, y, SendFields)
  BY <1>1, AttemptSendGood
<1>3. ReceiverFields \cap SendFields = {}
  BY DEF ReceiverFields, SendFields, SentFields, MssFields
<1>4. ReceiverKept(x, y)
  BY <1>1, <1>2, <1>3, Untouched
<1>5. y.snd_una = x.snd_una /\ y.state = x.state
  BY <1>2 DEF Same, Fields, SendFields, SentFields, MssFields
<1> QED
  BY <1>2, <1>4, <1>5, HeldSame

LEMMA ConnectActionKeeps ==
  ASSUME IInv, NEW link \in Links("initiator"), ConnectAction(link)
  PROVE  Preserved
<1> DEFINE e == "initiator"
           h == Handling(e, link)
           x == [h EXCEPT !.state = "TCP_SYN_SENT"]
           q == Requested(x)
           w == written[e]
           rd == read[e]
<1>1. tcb[e].state = "TCP_LISTEN" /\ UNCHANGED <<written, read>>
  BY DEF ConnectAction
<1>2. PICK y \in {AttemptSend(q, "sfNone")} : Done(e, Checked(y)) /\ Sent(e, y, net)
  BY DEF ConnectAction, Requested
<1>3. e \in Ends /\ ~Deleted(e) /\ link \in Links(e)
  BY <1>1 DEF Ends, Deleted
<1>4. Begun(e, h)
  <2> HIDE DEF e, h
  <2> QED
    BY <1>3, HandlingHeld DEF h
<1>5. Held(e, h, w, rd) /\ h.state = "TCP_LISTEN"
  <2>1. Held(e, h, w, rd) /\ Same(tcb[e], h, LinkFields)
    BY <1>4 DEF Begun
  <2> HIDE DEF h
  <2> QED
    BY <2>1, <1>1 DEF Same, Fields, LinkFields
<1> HIDE DEF h, w, rd
<1>6. Held(e, q, w, rd) /\ q.state = "TCP_SYN_SENT"
  <2>1. DOMAIN h = Fields
    BY <1>5 DEF Held, Good, Typed
  <2>2. Same(h, x, {"state"}) /\ x.state = "TCP_SYN_SENT" /\ q = Requested(x)
    BY <2>1 DEF Same, Fields
  <2>3. e # "responder"
    OBVIOUS
  <2> HIDE DEF x, q, e
  <2> QED
    BY <2>2, <2>3, <1>5, ConnectionHeld
<1>10. Fits(e, q)
  <2>1. DOMAIN h = Fields /\ Good(h, w) /\ w \in Nat /\ w = 0
    BY <1>5 DEF Held, Good, Typed
  <2>2. Same(h, x, {"state"}) /\ x.state \in Opening /\ q = Requested(x)
    BY <2>1 DEF Same, Fields, Opening
  <2> HIDE DEF x, q, e
  <2>3. Fits(e, h)
    BY <1>3, <1>4, BegunFits
  <2> SUFFICES ASSUME WInv PROVE Tight(tcb[e], q, Bound(e), Source(e))
    BY DEF Fits
  <2>4. Tight(tcb[e], h, Bound(e), Source(e))
    BY <2>3 DEF Fits
  <2> QED
    BY <2>1, <2>2, <2>4, <1>5, RequestTight
<1>7. y = AttemptSend(q, "sfNone")
  BY <1>2
<1> HIDE DEF q
<1>8. Held(e, y, w, rd)
  <2> DEFINE flag == "sfNone"
  <2>1. y = AttemptSend(q, flag) /\ q.state \notin Ended
    BY <1>6, <1>7 DEF Ended
  <2> HIDE DEF flag, e
  <2> QED
    BY <2>1, <1>6, SendingHeld
<1>11. Fits(e, y)
  <2> DEFINE flag == "sfNone"
  <2>1. y = AttemptSend(q, flag) /\ q.state \notin Ended
    BY <1>6, <1>7 DEF Ended
  <2> HIDE DEF flag, e
  <2> QED
    BY <2>1, <1>3, <1>6, <1>10, SendingFits
<1>9. DOMAIN net = Ends /\ net[e] \subseteq net[e]
  BY DEF IInv, Functions
<1>12. Lives(e, y, w)
  <2> SUFFICES ASSUME MInv PROVE Leaves(e, y, w)
    BY DEF Lives
  <2> DEFINE flag == "sfNone"
  <2>1. Lively(h) /\ Wide(h)
    <3> HIDE DEF e
    <3> QED
      BY <1>3, <1>4, <1>5, BegunLives, HandlingWide DEF h, IInv, EndOK, Good
  <2>2. Same(h, q, {"state", "sbuf", "slist"})
    <3>1. DOMAIN h = Fields /\ Good(h, w) /\ w \in Nat /\ w = 0
      BY <1>5 DEF Held, Good, Typed
    <3>2. Same(h, x, {"state"}) /\ x.state \in Opening
      BY <3>1 DEF Same, Fields, Opening
    <3> HIDE DEF x
    <3> QED
      BY <3>1, <3>2, <1>5, RequestGood DEF q
  <2>3. y = AttemptSend(q, flag) /\ q.state \notin Ended /\ flag # "return"
    BY <1>6, <1>7 DEF Ended
  <2>4. Good(q, w) /\ w \in Nat /\ w = 0
    BY <1>5, <1>6 DEF Held
  <2> HIDE DEF flag
  <2>5. Clocked(q) /\ Tells(q) /\ Wide(q)
    BY <2>1, <2>2, ClockedSame, TellsSame, WideSame
       DEF Lively, ClockFields, TellFields, WideFields
  <2>6. Asked(q) /\ Early(q, w)
    BY <1>6, <2>4 DEF Asked, Waits, Early
  <2> QED
    BY <2>3, <2>4, <2>5, <2>6, SendingLives DEF Lively
<1> HIDE DEF e
<1> QED
  BY <1>1, <1>2, <1>3, <1>8, <1>9, <1>11, <1>12, HandlerEnds DEF w, rd

(* The user writes: the bytes go on where the last ones ended.             *)
LEMMA WritingHeld ==
  ASSUME NEW e, written[e] \in Nat, NEW x, NEW w, NEW rd, Held(e, x, w, rd), x.out = {},
         x.state = "TCP_ESTABLISHED",
         slen(x) < BufSize, NEW data \in Seq(Int), Len(data) >= 1,
         Following(data, FALSE, w + 1, x.slist),
         NEW n, n = Min({Len(data), BufSize - slen(x)}),
         NEW y, y = Queued(x, data, FALSE)
  PROVE  /\ Held(e, y, w + n, rd) /\ y.state = "TCP_ESTABLISHED" /\ n \in 1 .. Len(data)
         /\ Same(x, y, {"sbuf", "slist"})
<1> DEFINE top == w + 1
           ctl == FALSE
           f == Peer(e)
<1>1. /\ Good(x, w) /\ w \in Nat /\ w >= written[e]
      /\ Intact(rd, written[f]) /\ Receiver(x, written[f], rd)
      /\ x.rcv_nxt >= tcb[e].rcv_nxt
      /\ ~Deleted(f) => x.snd_una <= tcb[f].rcv_nxt
      /\ x.rcv_nxt >= 1 /\ (~Deleted(f) => tcb[f].rcv_nxt >= 1)
  BY DEF Held
<1>2. Typed(x) /\ Buffered(x, top) /\ Listed(x) /\ top \in Nat
  BY <1>1 DEF Good, Top, Ended
<1>3. ctl \in BOOLEAN /\ Following(data, ctl, top, x.slist) /\ y = Queued(x, data, ctl)
  OBVIOUS
<1> HIDE DEF top, ctl, f
<1>4. /\ Typed(y) /\ Buffered(y, top + n) /\ Listed(y) /\ Same(x, y, {"sbuf", "slist"})
      /\ n \in 1 .. Len(data)
  BY <1>2, <1>3, QueuedGood
<1> DEFINE v == w + n
<1>5. Len(data) \in Nat /\ n \in Nat \ {0} /\ v \in Nat /\ v >= written[e] /\ v > 0
  BY <1>4, <1>1
<1>6. top + n = v + 1
  BY <1>1, <1>5 DEF top
<1> HIDE DEF v
<1>7. y.state = x.state /\ y.out = x.out /\ y.snd_una = x.snd_una
  BY <1>4 DEF Same, Fields
<1>8. Good(y, v)
  BY <1>7, <1>4, <1>6 DEF Outgoing, Top, Good
<1>9. x.shutdown => ~x.canRead
  BY <1>1 DEF Receiver
<1>10. ReceiverKept(x, y)
  BY <1>4, <1>9, Untouched DEF ReceiverFields
<1>11. Receiver(y, written[f], rd) /\ y.rcv_nxt = x.rcv_nxt
  BY <1>1, <1>10, ReceiverSame DEF ReceiverKept
<1>12. Held(e, y, v, rd)
  BY <1>1, <1>5, <1>7, <1>8, <1>11 DEF Held, Quiet, f
<1> QED
  BY <1>4, <1>7, <1>12 DEF v

LEMMA DataIs ==
  ASSUME NEW w \in Nat, NEW n \in Nat \ {0}, NEW list, NEW data,
         data = [k \in 1 .. n |-> w + k]
  PROVE  data \in Seq(Int) /\ Len(data) = n /\ Following(data, FALSE, w + 1, list)
BY DEF Following

LEMMA SmallerPositive ==
  ASSUME NEW a \in Nat \ {0}, NEW b \in Nat \ {0}, NEW m, m = Min({a, b})
  PROVE  m \in Nat \ {0}
<1>1. m \in {a, b}
  BY MinOfTwo
<1> QED
  BY <1>1

LEMMA SendKeeps ==
  ASSUME IInv, NEW e \in Ends, NEW n \in 1 .. MaxBytes[e], NEW link \in Links(e), Send(e, n, link)
  PROVE  Preserved
<1> DEFINE h == Handling(e, link)
           w == written[e]
           rd == read[e]
           data == [k \in 1 .. n |-> w + k]
           x == Queued(h, data, FALSE)
           took == Min({n, BufSize - slen(tcb[e])})
           v == w + took
<1>1. /\ tcb[e].state = "TCP_ESTABLISHED" /\ slen(tcb[e]) < BufSize
      /\ written' = [written EXCEPT ![e] = @ + took] /\ read' = read
  BY DEF Send
<1>2. PICK y \in {With(x, LAMBDA q : AttemptSend(q, "sfNone"))} : Done(e, y) /\ Sent(e, y, net)
  BY DEF Send
<1>3. n \in Nat \ {0}
  BY TcpConstants
<1>4. ~Deleted(e)
  BY <1>1 DEF Deleted
<1> HIDE DEF h
<1>5. Begun(e, h)
  BY <1>4, HandlingHeld DEF h
<1>6. Held(e, h, w, rd) /\ h.out = {} /\ Same(tcb[e], h, LinkFields)
  BY <1>5 DEF Begun
<1>7. h.state = "TCP_ESTABLISHED" /\ slen(h) = slen(tcb[e])
  BY <1>1, <1>6 DEF Same, Fields, LinkFields, slen
<1>8. w \in Nat
  BY <1>6 DEF Held
<1>9. written' = [written EXCEPT ![e] = v]
  BY <1>1
<1> HIDE DEF w, rd
<1>10. data \in Seq(Int) /\ Len(data) = n /\ Following(data, FALSE, w + 1, h.slist)
  <2> DEFINE list == h.slist
  <2> HIDE DEF list
  <2>1. data \in Seq(Int) /\ Len(data) = n /\ Following(data, FALSE, w + 1, list)
    BY <1>3, <1>8, DataIs
  <2> QED
    BY <2>1 DEF list
<1> HIDE DEF data
<1>11. /\ Held(e, x, w + took, rd) /\ x.state = "TCP_ESTABLISHED"
       /\ Same(h, x, {"sbuf", "slist"})
  <2>1. took = Min({Len(data), BufSize - slen(h)}) /\ Len(data) >= 1 /\ slen(h) < BufSize
    BY <1>1, <1>3, <1>7, <1>10
  <2>2. written[e] \in Nat
    BY DEF IInv, EndOK
  <2> HIDE DEF took, x
  <2> QED
    BY <2>1, <2>2, <1>6, <1>7, <1>10, WritingHeld DEF x
<1>18. Fits(e, x)
  <2> DEFINE m == Len(data)
             room == BufSize - slen(h)
             ctl == FALSE
  <2>1. Typed(h) /\ Listed(h)
    BY <1>6, <1>7 DEF Held, Good, Ended
  <2>2. x = Queued(h, data, ctl) /\ ctl \in BOOLEAN
    OBVIOUS
  <2>3. m \in Nat \ {0} /\ room \in Nat \ {0}
    <3> DEFINE used == slen(h)
    <3>1. used \in Nat
      BY <2>1 DEF Typed, slen
    <3>2. used < BufSize /\ BufSize \in Nat
      BY <1>1, <1>7, TcpConstants
    <3> HIDE DEF used
    <3>3. BufSize - used \in Nat \ {0}
      BY <3>1, <3>2
    <3> QED
      BY <3>3, <1>3, <1>10 DEF used
  <2> DEFINE t == Min({m, room})
  <2>4. t = Min({Len(data), BufSize - slen(h)}) /\ t = Min({m, room})
    OBVIOUS
  <2> HIDE DEF x, m, room, ctl, t
  <2>5. t \in Nat \ {0}
    BY <2>3, <2>4, SmallerPositive
  <2>6. Fits(e, h)
    BY <1>4, <1>5, BegunFits
  <2> SUFFICES ASSUME WInv PROVE Tight(tcb[e], x, Bound(e), Source(e))
    BY DEF Fits
  <2>7. Tight(tcb[e], h, Bound(e), Source(e))
    BY <2>6 DEF Fits
  <2> QED
    BY <2>1, <2>2, <2>4, <2>5, <2>7, QueuedTight
<1>12. y = AttemptSend(x, "sfNone")
  <2> HIDE DEF x
  <2> QED
    BY <1>2 DEF With
<1> HIDE DEF x
<1>13. Held(e, x, v, rd)
  BY <1>11
<1>20. h.canWrite
  BY <1>6 DEF Send, Same, Fields, LinkFields
<1> HIDE DEF v, took
<1>14. Held(e, y, v, rd) /\ y.state = "TCP_ESTABLISHED"
  <2> DEFINE flag == "sfNone"
  <2>1. y = AttemptSend(x, flag) /\ x.state \notin Ended
    BY <1>11, <1>12 DEF Ended
  <2> HIDE DEF flag
  <2>2. Held(e, y, v, rd) /\ Same(x, y, SendFields)
    BY <2>1, <1>13, SendingHeld
  <2> QED
    BY <2>2, <1>11 DEF Same, Fields, SendFields, SentFields, MssFields
<1>19. Fits(e, y)
  <2> DEFINE flag == "sfNone"
  <2>1. y = AttemptSend(x, flag) /\ x.state \notin Ended
    BY <1>11, <1>12 DEF Ended
  <2> HIDE DEF flag
  <2> QED
    BY <2>1, <1>13, <1>18, SendingFits
<1>15. Result(y, Reset(y))
  BY <1>14, UncheckedIs DEF Held, Good
<1>16. DOMAIN net = Ends /\ net[e] \subseteq net[e]
  BY DEF IInv, Functions
<1>17. read' = read /\ rd = read[e]
  BY <1>1 DEF rd
<1>21. Lives(e, y, v)
  <2> SUFFICES ASSUME MInv PROVE Leaves(e, y, v)
    BY DEF Lives
  <2> DEFINE flag == "sfNone"
  <2>1. y = AttemptSend(x, flag) /\ x.state \notin Ended /\ flag # "return"
    BY <1>11, <1>12 DEF Ended
  <2> HIDE DEF flag
  <2>2. Lively(h) /\ Wide(h)
    BY <1>4, <1>5, <1>7, BegunLives, HandlingWide DEF h, IInv, EndOK, Good
  <2>3. Clocked(x) /\ Tells(x) /\ Wide(x)
    BY <2>2, <1>11, ClockedSame, TellsSame, WideSame
       DEF Lively, ClockFields, TellFields, WideFields
  <2>4. Asked(x) /\ Early(x, v)
    BY <1>11, <1>20 DEF Asked, Waits, Early, Same, Fields
  <2>5. Good(x, v) /\ v \in Nat
    BY <1>13 DEF Held
  <2> QED
    BY <2>1, <2>3, <2>4, <2>5, SendingLives DEF Lively
<1> QED
  BY <1>2, <1>4, <1>9, <1>14, <1>15, <1>16, <1>17, <1>19, <1>21, Finished

(* The user reads the first n bytes of the buffer.                         *)
TakenWell(x, y, n) ==
  /\ Same(x, y, {"rlen", "rbuf", "rcv_wnd"}) /\ y.rlen = x.rlen - n /\ y.rcv_wnd \in Int
  /\ y.rcv_wnd \in {x.rcv_wnd, BufSize - y.rlen}
  /\ y.rbuf = [k \in 1 .. BufSize |-> IF k + n <= BufSize THEN x.rbuf[k + n] ELSE Junk]

LEMMA TakenIs ==
  ASSUME NEW x, Typed(x), x.rlen \in Int, NEW n \in Nat, NEW y, y = Taken(x, n)
  PROVE  TakenWell(x, y, n)
<1> DEFINE buf == [k \in 1 .. BufSize |-> IF k + n <= BufSize THEN x.rbuf[k + n] ELSE Junk]
           rlen == x.rlen - n
           z == [x EXCEPT !.rlen = rlen, !.rbuf = buf]
           wnd == BufSize - z.rlen
<1>1. DOMAIN x = Fields /\ x.rcv_wnd \in Int
  BY DEF Typed
<1>2. y = z \/ y = [z EXCEPT !.rcv_wnd = wnd]
  BY DEF Taken
<1>3. rlen \in Int /\ BufSize \in Int
  BY TcpConstants
<1> HIDE DEF buf, rlen
<1>4. Same(x, z, {"rlen", "rbuf"}) /\ z.rlen = rlen /\ z.rbuf = buf /\ z.rcv_wnd = x.rcv_wnd
  BY <1>1 DEF Same, Fields
<1> HIDE DEF z
<1>5. wnd \in Int
  BY <1>3, <1>4
<1> HIDE DEF wnd
<1>6. CASE y = z
  BY <1>4, <1>1, <1>6 DEF Same, TakenWell, rlen, buf
<1>7. CASE y = [z EXCEPT !.rcv_wnd = wnd]
  BY <1>4, <1>7, <1>5 DEF Same, Fields, TakenWell, rlen, buf, wnd
<1> QED
  BY <1>2, <1>6, <1>7

(* The rest of the buffer moves up, and so does the stream.                *)
LEMMA TakenReceived ==
  ASSUME NEW x, NEW v \in Nat, NEW N \in Nat, Received(x, v, N), x.rcv_nxt \in Nat, x.rcv_nxt # 0,
         x.rlen \in 0 .. BufSize, NEW n \in 0 .. x.rlen, NEW y, TakenWell(x, y, n)
  PROVE  Received(y, v, N + n) /\ y.rlen \in 0 .. BufSize
<1> DEFINE old == x.rbuf
           rlen == x.rlen
           buf == y.rbuf
           M == N + n
<1>1. BufSize \in Nat /\ rlen \in 0 .. BufSize /\ rlen \in Nat /\ n \in 0 .. rlen /\ n \in Nat
      /\ M \in Nat /\ M = N + n
  BY TcpConstants
<1>2. /\ old \in [1 .. BufSize -> Int] /\ x.rcv_nxt = N + rlen + 1
      /\ \A k \in 1 .. rlen : old[k] = N + k
  BY DEF Received
<1>3. y.rcv_nxt = x.rcv_nxt /\ y.rlist = x.rlist
  BY DEF TakenWell, Same, Fields
<1>4. /\ y.rlen = rlen - n
      /\ buf = [k \in 1 .. BufSize |-> IF k + n <= BufSize THEN old[k + n] ELSE Junk]
  BY DEF TakenWell
<1> HIDE DEF old, rlen, buf, M
<1>5. ASSUME NEW k \in 1 .. BufSize
      PROVE  /\ buf[k] \in Int
             /\ k + n <= BufSize => k + n \in 1 .. BufSize /\ buf[k] = old[k + n]
  BY <1>1, <1>2, <1>4, <1>5 DEF Junk
<1>6. buf \in [1 .. BufSize -> Int]
  BY <1>4, <1>5
<1>7. y.rlen \in 0 .. BufSize /\ y.rlen \in Nat /\ x.rcv_nxt = M + y.rlen + 1
  BY <1>1, <1>2, <1>4
<1>8. ASSUME NEW k \in 1 .. y.rlen
      PROVE  buf[k] = M + k
  BY <1>1, <1>4, <1>8, <1>2, <1>5
<1>9. ASSUME NEW r \in y.rlist
      PROVE  Saved(y, v, M, r)
  <2>1. Saved(x, v, N, r)
    BY <1>3, <1>9, SavedIs
  <2>2. /\ r.seq \in Nat /\ r.len \in Nat /\ x.rcv_nxt <= r.seq /\ r.seq + r.len <= v + 1
        /\ r.seq + r.len <= N + BufSize + 1
    BY <2>1 DEF Saved
  <2>3. r.seq + r.len <= M + BufSize + 1
    BY <2>2, <1>1
  <2>4. ASSUME NEW k \in 1 .. BufSize, r.seq <= M + k, M + k < r.seq + r.len
        PROVE  buf[k] = M + k
    <3> DEFINE j == k + n
    <3>1. j <= BufSize /\ j \in 1 .. BufSize /\ N + j = M + k
      BY <2>2, <2>4, <1>1
    <3>2. buf[k] = old[j]
      BY <3>1, <1>5
    <3> HIDE DEF j
    <3>3. old[j] = N + j
      BY <3>1, <2>1, <2>4 DEF Saved, old
    <3> QED
      BY <3>1, <3>2, <3>3
  <2> QED
    BY <2>2, <2>3, <2>4, <1>3 DEF Saved, buf
<1>10. y.rcv_nxt # 0 /\ y.rcv_nxt = M + y.rlen + 1
  BY <1>3, <1>7
<1>11. Received(y, v, M)
  BY <1>6, <1>8, <1>9, <1>10 DEF Received, buf
<1> QED
  BY <1>7, <1>11 DEF M

LEMMA BufferIsSeq ==
  ASSUME NEW m \in Nat, NEW f \in [1 .. m -> Int]
  PROVE  f \in Seq(Int) /\ Len(f) = m
OBVIOUS

(* What is read goes on where it ended.                                    *)
Continued(more, rd, x, n) == more = rd \o SubSeq(x.rbuf, 1, n)

LEMMA ReadOn ==
  ASSUME NEW x, NEW v \in Nat, NEW rd, Intact(rd, v), Received(x, v, Len(rd)),
         x.rcv_nxt \in Nat, x.rcv_nxt # 0, x.rcv_nxt <= v + 1, x.rlen \in 0 .. BufSize,
         NEW n \in 0 .. x.rlen, NEW more, Continued(more, rd, x, n)
  PROVE  Intact(more, v) /\ Len(more) = Len(rd) + n
<1> DEFINE buf == x.rbuf
           front == SubSeq(buf, 1, n)
           N == Len(rd)
           rlen == x.rlen
<1>1. rd \in Seq(Int) /\ N \in Nat /\ N <= v /\ \A k \in 1 .. N : rd[k] = k
  BY DEF Intact
<1>2. BufSize \in Nat /\ rlen \in 0 .. BufSize /\ n \in 0 .. rlen
  BY TcpConstants
<1>3. buf \in Seq(Int) /\ Len(buf) = BufSize
  <2>1. buf \in [1 .. BufSize -> Int]
    BY DEF Received
  <2> HIDE DEF buf
  <2> QED
    BY <2>1, <1>2, BufferIsSeq
<1>4. x.rcv_nxt = N + rlen + 1 /\ \A k \in 1 .. rlen : buf[k] = N + k
  BY DEF Received
<1> HIDE DEF buf, rlen
<1>5. front \in Seq(Int) /\ Len(front) = n /\ \A k \in 1 .. n : front[k] = buf[k]
  BY <1>2, <1>3, FrontIs
<1>6. more = rd \o front
  BY DEF buf, Continued
<1> HIDE DEF front
<1>7. Concat(more, rd, front)
  BY <1>1, <1>5, <1>6, JoinedBytes
<1> HIDE DEF N
<1>8. /\ more \in Seq(Int) /\ Len(more) = N + n
      /\ \A k \in 1 .. N : more[k] = rd[k]
      /\ \A k \in 1 .. n : more[N + k] = front[k]
  BY <1>5, <1>7 DEF Concat, N
<1>9. ASSUME NEW k \in 1 .. N + n
      PROVE  more[k] = k
  <2>1. CASE k <= N
    <3>1. k \in 1 .. N
      BY <1>1, <1>2, <2>1
    <3> QED
      BY <3>1, <1>1, <1>8
  <2>2. CASE ~(k <= N)
    <3> DEFINE j == k - N
    <3>1. j \in 1 .. n /\ j \in 1 .. rlen /\ k = N + j
      BY <1>1, <1>2, <2>2
    <3> HIDE DEF j
    <3> QED
      BY <3>1, <1>4, <1>5, <1>8
  <2> QED
    BY <2>1, <2>2
<1>10. N + n <= v
  <2> DEFINE c == x.rcv_nxt
  <2>1. c <= v + 1 /\ c = N + rlen + 1 /\ c \in Nat
    BY <1>4
  <2> HIDE DEF c
  <2> QED
    BY <2>1, <1>1, <1>2
<1> QED
  BY <1>8, <1>9, <1>10 DEF Intact, N

LEMMA ReadingHeld ==
  ASSUME NEW e, written[Peer(e)] \in Nat, NEW x, NEW w, NEW rd, Held(e, x, w, rd), x.out = {},
         ~x.shutdown, x.rlen > 0, NEW n \in 0 .. x.rlen, NEW y, TakenWell(x, y, n),
         NEW more, Continued(more, rd, x, n)
  PROVE  Held(e, y, w, more)
<1> DEFINE f == Peer(e)
           v == written[f]
           N == Len(rd)
<1>1. /\ Good(x, w) /\ x.state # "DELETED"
      /\ w \in Nat /\ w >= written[e] /\ (x.state = "TCP_LISTEN" => w = 0)
      /\ Intact(rd, v) /\ Receiver(x, v, rd)
      /\ x.rcv_nxt >= tcb[e].rcv_nxt
      /\ ~Deleted(f) => x.snd_una <= tcb[f].rcv_nxt
      /\ x.state \in {"TCP_SYN_RECEIVED", "TCP_ESTABLISHED"} => x.rcv_nxt >= 1
      /\ (x.state = "TCP_ESTABLISHED" \/ w > 0) /\ ~Deleted(f) => tcb[f].rcv_nxt >= 1
      /\ e = "responder" => x.state # "TCP_SYN_SENT" /\ Quiet(x)
  BY DEF Held
<1>2. v \in Nat
  OBVIOUS
<1> HIDE DEF f, v
<1>3. Received(x, v, N) /\ x.rcv_nxt <= v + 1 /\ x.rlen \in 0 .. BufSize /\ x.rcv_nxt \in Nat
  BY <1>1 DEF Receiver, Good, Typed
<1>4. x.rcv_nxt # 0 /\ N \in Nat
  BY <1>1, <1>3 DEF Received, Intact
<1>5. Same(x, y, {"rlen", "rbuf", "rcv_wnd"}) /\ y.rcv_wnd \in Int
  BY DEF TakenWell
<1>6. /\ y.state = x.state /\ y.snd_una = x.snd_una /\ y.out = x.out /\ y.rcv_nxt = x.rcv_nxt
      /\ y.shutdown = x.shutdown
  BY <1>5 DEF Same, Fields
<1>7. Good(y, w)
  BY <1>5, <1>3, <1>6, <1>1, GoodReceived DEF Same, DataFields
<1>8. Intact(more, v) /\ Len(more) = N + n
  BY <1>1, <1>3, <1>2, <1>4, ReadOn
<1> HIDE DEF N
<1>9. Received(y, v, N + n) /\ y.rlen \in 0 .. BufSize
  BY <1>2, <1>3, <1>4, TakenReceived
<1>10. Receiver(y, v, more)
  BY <1>3, <1>6, <1>8, <1>9 DEF Receiver
<1>11. Quiet(x) => Quiet(y)
  BY <1>6 DEF Quiet
<1> QED
  BY <1>1, <1>6, <1>7, <1>8, <1>10, <1>11 DEF Held, f, v

(* The window may open.                                                    *)
LEMMA TakenTight ==
  ASSUME NEW x, NEW w, Good(x, w), x.rlen \in 0 .. BufSize, NEW n \in 0 .. x.rlen,
         NEW y, TakenWell(x, y, n), NEW o, Edge(o) \in Int,
         NEW B, NEW Z, Tight(o, x, B, Z)
  PROVE  Tight(o, y, B, Z)
<1> DEFINE wnd == x.rcv_wnd
           rlen == x.rlen
           new == y.rcv_wnd
           left == y.rlen
<1>1. /\ x.rcv_nxt \in Nat /\ wnd \in Int /\ new \in Int /\ BufSize \in Nat
      /\ rlen \in 0 .. BufSize /\ n \in 0 .. rlen /\ left = rlen - n
      /\ new \in {wnd, BufSize - left}
  BY TcpConstants DEF Good, Typed, TakenWell
<1>2. /\ SendingSame(x, y) /\ y.out = x.out /\ (y.forced <=> x.forced)
      /\ y.rcv_nxt = x.rcv_nxt /\ y.rlist = x.rlist
  BY DEF TakenWell, Same, Fields, SendingSame
<1>3. Edge(x) = x.rcv_nxt + wnd /\ Edge(y) = x.rcv_nxt + new
  BY <1>2 DEF Edge
<1>4. ASSUME NEW z \in Z
      PROVE  /\ 0 <= new /\ new + left <= BufSize /\ Edge(x) <= Edge(y)
             /\ Mark(z, y.rcv_nxt) /\ \A r \in y.rlist : Mark(z, r.seq + r.len)
  <2>1. /\ 0 <= wnd /\ wnd + rlen <= BufSize
        /\ Mark(z, x.rcv_nxt) /\ \A r \in x.rlist : Mark(z, r.seq + r.len)
    BY DEF Tight, Receives
  <2> DEFINE nxt == x.rcv_nxt
  <2>2. nxt \in Nat /\ Edge(x) = nxt + wnd /\ Edge(y) = nxt + new
    BY <1>1, <1>3
  <2> HIDE DEF wnd, rlen, new, left, nxt
  <2>3. 0 <= new /\ new + left <= BufSize /\ wnd <= new
    BY <1>1, <2>1
  <2>4. Edge(x) <= Edge(y)
    BY <1>1, <2>2, <2>3
  <2> QED
    BY <1>2, <2>1, <2>3, <2>4
<1>5. Moves(x, y, Z)
  BY <1>4 DEF Moves
<1>6. Edge(y) \in Int
  BY <1>1, <1>3
<1> QED
  BY <1>2, <1>5, <1>6, MovedTight

LEMMA CountTaken ==
  ASSUME NEW a \in Nat, NEW b \in Nat
  PROVE  Min({a, b}) \in 0 .. b
<1> DEFINE m == Min({a, b})
<1>1. a \in Int /\ b \in Int
  OBVIOUS
<1>2. m \in {a, b} /\ m <= b
  BY <1>1, MinOfTwo
<1> HIDE DEF m
<1>3. m \in 0 .. b
  BY <1>2
<1> QED
  BY <1>3 DEF m

LEMMA RecvKeeps ==
  ASSUME IInv, NEW e \in Ends, NEW len \in 1 .. BufSize, NEW link \in Links(e), Recv(e, len, link)
  PROVE  Preserved
<1> DEFINE c == tcb[e]
           w == written[e]
           rd == read[e]
           h == Handling(e, link)
           n == Min({len, c.rlen})
           t == Taken(h, n)
           z(y) == IF c.rcv_wnd = 0 /\ y.rcv_wnd # 0 THEN AttemptSend(y, "sfImmediateAck") ELSE y
           more == rd \o SubSeq(c.rbuf, 1, n)
<1>1. /\ c.canRead /\ c.state = "TCP_ESTABLISHED" /\ c.rlen > 0
      /\ read' = [read EXCEPT ![e] = more] /\ written' = written
  BY DEF Recv
<1>2. PICK y \in {With(t, z)} : Done(e, y) /\ Sent(e, y, net)
  BY DEF Recv
<1>3. ~Deleted(e)
  BY <1>1 DEF Deleted
<1> HIDE DEF h
<1>4. Begun(e, h)
  BY <1>3, HandlingHeld DEF h
<1>5. Held(e, h, w, rd) /\ h.out = {} /\ Same(c, h, LinkFields)
  BY <1>4 DEF Begun
<1>6. /\ h.state = c.state /\ h.rlen = c.rlen /\ h.rbuf = c.rbuf /\ h.canRead = c.canRead
      /\ h.shutdown = c.shutdown
  BY <1>5 DEF Same, Fields, LinkFields
<1>7. /\ ~h.shutdown /\ h.rlen > 0 /\ h.rlen \in 0 .. BufSize /\ Typed(h) /\ h.rlen \in Nat
      /\ len \in Nat
  BY <1>5, <1>1, <1>6, TcpConstants DEF Held, Good, Receiver
<1>8. n \in 0 .. h.rlen /\ n \in Nat
  <2> DEFINE b == h.rlen
  <2>1. n = Min({len, b}) /\ b \in Nat /\ len \in Nat
    BY <1>6, <1>7
  <2> HIDE DEF n, b
  <2>2. n \in 0 .. b
    BY <2>1, CountTaken
  <2> QED
    BY <2>1, <2>2 DEF b
<1>9. written[Peer(e)] \in Nat /\ DOMAIN net = Ends /\ net[e] \subseteq net[e]
  BY PeerIs DEF IInv, EndOK, Functions
<1> HIDE DEF n
<1>10. y = z(t)
  <2> HIDE DEF t, c
  <2> QED
    BY <1>2 DEF With
<1>11. t = Taken(h, n) /\ Continued(more, rd, h, n)
  BY <1>6 DEF Continued
<1>12. h.state = "TCP_ESTABLISHED"
  BY <1>1, <1>6
<1> HIDE DEF t, c, w, rd, more
<1>13. TakenWell(h, t, n)
  BY <1>7, <1>8, <1>11, TakenIs
<1>14. Held(e, t, w, more)
  BY <1>5, <1>7, <1>8, <1>9, <1>11, <1>13, ReadingHeld
<1>20. Fits(e, t)
  <2>1. Fits(e, h)
    BY <1>3, <1>4, BegunFits
  <2>2. Good(h, w) /\ h.rlen \in 0 .. BufSize
    BY <1>5, <1>7 DEF Held
  <2>3. Edge(tcb[e]) \in Int
    BY EdgeIs DEF IInv, EndOK, Good
  <2> SUFFICES ASSUME WInv PROVE Tight(tcb[e], t, Bound(e), Source(e))
    BY DEF Fits
  <2>4. Tight(tcb[e], h, Bound(e), Source(e))
    BY <2>1 DEF Fits
  <2> QED
    BY <2>2, <2>3, <2>4, <1>8, <1>13, TakenTight
<1>15. t.state = "TCP_ESTABLISHED"
  BY <1>12, <1>13 DEF TakenWell, Same, Fields
<1>16. Held(e, y, w, more) /\ y.state = "TCP_ESTABLISHED"
  <2>1. CASE y = t
    BY <2>1, <1>14, <1>15
  <2>2. CASE y = AttemptSend(t, "sfImmediateAck")
    <3> DEFINE flag == "sfImmediateAck"
    <3>1. y = AttemptSend(t, flag) /\ t.state \notin Ended
      BY <2>2, <1>15 DEF Ended
    <3> HIDE DEF flag
    <3>2. Held(e, y, w, more) /\ Same(t, y, SendFields)
      BY <3>1, <1>14, SendingHeld
    <3> QED
      BY <3>2, <1>15 DEF Same, Fields, SendFields, SentFields, MssFields
  <2> QED
    BY <2>1, <2>2, <1>10
<1>21. Fits(e, y)
  <2>1. CASE y = t
    BY <2>1, <1>20
  <2>2. CASE y = AttemptSend(t, "sfImmediateAck")
    <3> DEFINE flag == "sfImmediateAck"
    <3>1. y = AttemptSend(t, flag) /\ t.state \notin Ended
      BY <2>2, <1>15 DEF Ended
    <3> HIDE DEF flag
    <3> QED
      BY <3>1, <1>14, <1>20, SendingFits
  <2> QED
    BY <2>1, <2>2, <1>10
<1>17. Result(y, Reset(y))
  BY <1>16, UncheckedIs DEF Held, Good
<1>18. written' = written /\ w = written[e]
  BY <1>1 DEF w
<1>19. read' = [read EXCEPT ![e] = more]
  BY <1>1
<1>22. h.canRead
  BY <1>1, <1>6 DEF c
<1>23. Lives(e, y, w)
  <2> SUFFICES ASSUME MInv PROVE Leaves(e, y, w)
    BY DEF Lives
  <2>1. Lively(h) /\ Wide(h) /\ (~failed[e] => Moving(h))
    BY <1>3, <1>4, <1>12, BegunLives, HandlingWide DEF h, IInv, EndOK, Good
  <2>2. Same(h, t, {"rlen", "rbuf", "rcv_wnd"})
    BY <1>13 DEF TakenWell
  <2>3. Clocked(t) /\ (Moving(h) => Moving(t)) /\ Wide(t)
    BY <2>1, <2>2, ClockedSame, MovingSame, WideSame
       DEF Lively, ClockFields, MoveFields, WideFields
  <2>4. Asked(t) /\ Early(t, w)
    BY <2>1, <2>2, <1>15, AskedSame DEF Lively, AskFields, Early
  <2>5. Tells(t)
    BY <2>2, <1>22 DEF Tells, Same, Fields
  <2>6. CASE y = t
    BY <2>1, <2>3, <2>4, <2>5, <2>6 DEF Leaves, Lively, Early
  <2>7. CASE y = AttemptSend(t, "sfImmediateAck")
    <3> DEFINE flag == "sfImmediateAck"
    <3>1. y = AttemptSend(t, flag) /\ t.state \notin Ended /\ flag # "return"
      BY <2>7, <1>15 DEF Ended
    <3>2. Good(t, w) /\ w \in Nat
      BY <1>14 DEF Held
    <3> HIDE DEF flag
    <3> QED
      BY <3>1, <3>2, <2>3, <2>4, <2>5, SendingLives DEF Lively
  <2> QED
    BY <2>6, <2>7, <1>10
<1> QED
  BY <1>2, <1>3, <1>9, <1>16, <1>17, <1>18, <1>19, <1>21, <1>23, Finished

(* A packet that is on its way to e.                                       *)
Coming(e, p) ==
  LET f == Peer(e)
  IN /\ PacketOK(p, written[f]) /\ Contents(p, tcb[e].rcv_nxt)
     /\ ~Deleted(f) => p.ack <= tcb[f].rcv_nxt
     /\ p.data # <<>> /\ ~p.ctl => tcb[e].rcv_nxt >= 1
     /\ e = "initiator" /\ p.ctl /\ ~Deleted(f) => tcb[f].rcv_nxt >= 1

LEMMA ComingIs ==
  ASSUME IInv, NEW e \in Ends, ~Deleted(e), NEW p \in net[e]
  PROVE  Coming(e, p)
<1> DEFINE f == Peer(e)
<1>1. f \in Ends /\ Peer(f) = e
  BY PeerIs
<1>2. PacketsOK(f) /\ EndOK(f)
  BY <1>1 DEF IInv
<1>3. /\ PacketOK(p, written[f]) /\ Contents(p, tcb[e].rcv_nxt)
      /\ ~Deleted(f) => p.ack <= tcb[f].rcv_nxt
  BY <1>1, <1>2 DEF PacketsOK
<1>4. written[f] > 0 => tcb[e].rcv_nxt >= 1
  BY <1>1, <1>2 DEF EndOK
<1> HIDE DEF f
<1>5. ASSUME p.data # <<>>, ~p.ctl
      PROVE  written[f] > 0
  BY <1>3, <1>5, <1>2, EmptySeq DEF PacketOK, EndOK
<1>6. ASSUME e = "initiator", p.ctl, ~Deleted(f)
      PROVE  tcb[f].rcv_nxt >= 1
  BY <1>6, PeerIs DEF f, Ends, IInv, Answered, Deleted
<1> QED
  BY <1>3, <1>4, <1>5, <1>6 DEF Coming, f

(* The parts of process() that open the connection and take the            *)
(* acknowledgment.                                                         *)
Turned(x, y, p, w) ==
  /\ Good(y, w) /\ ReceiverKept(x, y) /\ y.state # "DELETED"
  /\ y.snd_una = x.snd_una \/ y.snd_una = p.ack
  /\ y.state = "TCP_LISTEN" => x.state = "TCP_LISTEN"
  /\ y.state = "TCP_SYN_SENT" => x.state = "TCP_SYN_SENT"
  /\ y.state = "TCP_SYN_RECEIVED" =>
       x.state = "TCP_SYN_RECEIVED" \/ (x.state = "TCP_LISTEN" /\ p.ctl)
  /\ y.state = "TCP_ESTABLISHED" =>
       \/ x.state = "TCP_ESTABLISHED" \/ (x.state = "TCP_SYN_SENT" /\ p.ctl)
       \/ x.state = "TCP_SYN_RECEIVED" /\ p.ack > x.snd_una
  /\ x.state = "TCP_LISTEN" => y.state \in {"TCP_LISTEN", "TCP_SYN_RECEIVED"}

LEMMA TurnedIs ==
  ASSUME NEW x, NEW w \in Nat, Good(x, w), x.state \notin Ended, x.state = "TCP_LISTEN" => w = 0,
         x.shutdown => ~x.canRead,
         NEW p, p.ack \in Nat, p.wnd \in Nat,
         NEW a, Same(x, a, {"probes"}),
         NEW b, b = ConnectPart(a, p), NEW y, y = AckPart(b, p)
  PROVE  Turned(x, y, p, w)
<1>1. Good(a, w)
  BY SameLonger, GoodSmall
<1>2. /\ a.state = x.state /\ a.canRead = x.canRead /\ a.shutdown = x.shutdown
      /\ a.snd_una = x.snd_una
      /\ a.rbuf = x.rbuf /\ a.rlen = x.rlen /\ a.rlist = x.rlist /\ a.rcv_nxt = x.rcv_nxt
  BY DEF Same, Fields
<1>3. a.state \notin Ended /\ (a.state = "TCP_LISTEN" => w = 0)
  BY <1>2
<1>4. /\ Good(b, w) /\ Same(a, b, ConnectFields) /\ b.canRead \in {a.canRead, ~a.shutdown}
      /\ \/ b.state = a.state /\ ~(p.ctl /\ a.state \in {"TCP_LISTEN", "TCP_SYN_SENT"})
         \/ /\ p.ctl /\ a.state = "TCP_LISTEN" /\ b.state = "TCP_SYN_RECEIVED"
            /\ b.snd_una = 0 /\ b.snd_nxt = 0
         \/ p.ctl /\ a.state = "TCP_SYN_SENT" /\ b.state = "TCP_ESTABLISHED"
  <2>1. Joined(a, b, p, w)
    BY <1>1, <1>3, ConnectPartGood
  <2> QED
    BY <2>1 DEF Joined
<1>5. /\ b.shutdown = a.shutdown /\ b.snd_una = a.snd_una
      /\ b.rbuf = a.rbuf /\ b.rlen = a.rlen /\ b.rlist = a.rlist /\ b.rcv_nxt = a.rcv_nxt
  BY <1>4 DEF Same, Fields, ConnectFields, OpenFields, AdjustFields
<1>6. b.state \notin Ended
  BY <1>3, <1>4 DEF Ended
<1>7. Good(y, w) /\ Acked(b, y, p)
  BY <1>4, <1>6, AckPartGood
<1>8. /\ Same(b, y, AckFields) /\ y.canRead \in {b.canRead, ~b.shutdown}
      /\ y.snd_una = b.snd_una \/ (y.snd_una = p.ack /\ p.ack > b.snd_una)
      /\ \/ y.state \in {b.state, "TCP_CLOSED"}
         \/ b.state = "TCP_SYN_RECEIVED" /\ y.state = "TCP_ESTABLISHED" /\ p.ack > b.snd_una
      /\ b.snd_nxt = b.snd_una => y.state = b.state /\ y.snd_una = b.snd_una
  BY <1>7 DEF Acked
<1>9. /\ y.shutdown = b.shutdown
      /\ y.rbuf = b.rbuf /\ y.rlen = b.rlen /\ y.rlist = b.rlist /\ y.rcv_nxt = b.rcv_nxt
  BY <1>8 DEF Same, Fields, AckFields, ResendFields, SentFields, MssFields, OpenFields,
              AdjustFields, QuietFields
<1>10. ReceiverKept(x, y)
  BY <1>2, <1>4, <1>5, <1>8, <1>9 DEF ReceiverKept
<1>11. a.state = "TCP_LISTEN" => b.snd_una = 0 /\ b.snd_nxt = 0
  BY <1>4, ListenIs
<1>12. x.state = "TCP_LISTEN" => y.state = b.state
  BY <1>2, <1>8, <1>11
<1>13. /\ y.state # "DELETED"
       /\ y.state = "TCP_LISTEN" => x.state = "TCP_LISTEN"
       /\ y.state = "TCP_SYN_SENT" => x.state = "TCP_SYN_SENT"
       /\ y.state = "TCP_SYN_RECEIVED" =>
            x.state = "TCP_SYN_RECEIVED" \/ (x.state = "TCP_LISTEN" /\ p.ctl)
       /\ y.state = "TCP_ESTABLISHED" =>
            \/ x.state = "TCP_ESTABLISHED" \/ (x.state = "TCP_SYN_SENT" /\ p.ctl)
            \/ x.state = "TCP_SYN_RECEIVED" /\ p.ack > x.snd_una
       /\ x.state = "TCP_LISTEN" => y.state \in {"TCP_LISTEN", "TCP_SYN_RECEIVED"}
  BY <1>2, <1>5, <1>8, <1>4, <1>6, <1>12 DEF Ended
<1>14. y.snd_una = x.snd_una \/ y.snd_una = p.ack
  BY <1>2, <1>5, <1>8
<1> QED
  BY <1>7, <1>10, <1>13, <1>14 DEF Turned

(* What then is held when the packet is done with.                         *)
LEMMA TurnedHeld ==
  ASSUME NEW e \in Ends, NEW x, NEW w, NEW rd, Held(e, x, w, rd), x.rcv_nxt = tcb[e].rcv_nxt,
         x.state \notin Ended, tcb[Peer(e)].rcv_nxt \in Nat, x.shutdown => x.state = "TCP_ESTABLISHED",
         NEW p, Coming(e, p), NEW c, Turned(x, c, p, w),
         NEW y, Good(y, w), y.state = c.state, y.snd_una = c.snd_una,
         Receiver(y, written[Peer(e)], rd), y.rcv_nxt >= x.rcv_nxt,
         p.ctl /\ (x.rcv_nxt >= 1 \/ ~x.shutdown) /\ c.state # "TCP_CLOSED" => y.rcv_nxt >= 1
  PROVE  Held(e, y, w, rd)
<1> DEFINE f == Peer(e)
<1>1. /\ Good(x, w) /\ w \in Nat /\ w >= written[e] /\ (x.state = "TCP_LISTEN" => w = 0)
      /\ Intact(rd, written[f])
      /\ ~Deleted(f) => x.snd_una <= tcb[f].rcv_nxt
      /\ x.state \in {"TCP_SYN_RECEIVED", "TCP_ESTABLISHED"} => x.rcv_nxt >= 1
      /\ (x.state = "TCP_ESTABLISHED" \/ w > 0) /\ ~Deleted(f) => tcb[f].rcv_nxt >= 1
      /\ e = "responder" => x.state # "TCP_SYN_SENT" /\ Quiet(x)
  BY DEF Held
<1>2. /\ ~Deleted(f) => p.ack <= tcb[f].rcv_nxt
      /\ e = "initiator" /\ p.ctl /\ ~Deleted(f) => tcb[f].rcv_nxt >= 1
      /\ p.ack \in Nat
  BY DEF Coming, PacketOK
<1>3. /\ x.rcv_nxt \in Nat /\ y.rcv_nxt \in Nat /\ x.snd_una \in Nat /\ y.state \in States
      /\ x.state # "TCP_CLOSED" /\ tcb[f].rcv_nxt \in Nat
  BY <1>1 DEF Good, Typed, Ended
<1>4. /\ y.state # "DELETED" /\ (y.snd_una = x.snd_una \/ y.snd_una = p.ack)
      /\ y.state = "TCP_LISTEN" => x.state = "TCP_LISTEN"
      /\ y.state = "TCP_SYN_SENT" => x.state = "TCP_SYN_SENT"
      /\ y.state = "TCP_SYN_RECEIVED" =>
           x.state = "TCP_SYN_RECEIVED" \/ (x.state = "TCP_LISTEN" /\ p.ctl)
      /\ y.state = "TCP_ESTABLISHED" =>
           \/ x.state = "TCP_ESTABLISHED" \/ (x.state = "TCP_SYN_SENT" /\ p.ctl)
           \/ x.state = "TCP_SYN_RECEIVED" /\ p.ack > x.snd_una
      /\ x.state = "TCP_LISTEN" => y.state \in {"TCP_LISTEN", "TCP_SYN_RECEIVED"}
  BY DEF Turned
<1> HIDE DEF f
<1>5. ~Deleted(f) => y.snd_una <= tcb[f].rcv_nxt
  BY <1>1, <1>2, <1>4
<1>6. y.state \in {"TCP_SYN_RECEIVED", "TCP_ESTABLISHED"} => y.rcv_nxt >= 1
  BY <1>1, <1>3, <1>4
<1>7. (y.state = "TCP_ESTABLISHED" \/ w > 0) /\ ~Deleted(f) => tcb[f].rcv_nxt >= 1
  BY <1>1, <1>2, <1>3, <1>4 DEF Ends
<1>8. ASSUME e = "responder"
      PROVE  y.state # "TCP_SYN_SENT" /\ Quiet(y)
  BY <1>1, <1>4, <1>8, <1>3, <1>6 DEF Quiet, Good, Outgoing
<1> QED
  BY <1>1, <1>4, <1>5, <1>6, <1>7, <1>8 DEF Held, f

(* Its data, what is sent then, and the event that there is something to   *)
(* read.                                                                   *)
Served(x, y, p, w, v, rd) ==
  /\ Good(y, w) /\ y.state = x.state /\ y.snd_una = x.snd_una
  /\ Receiver(y, v, rd) /\ y.rcv_nxt >= x.rcv_nxt
  /\ p.ctl /\ (x.rcv_nxt >= 1 \/ ~x.shutdown) => y.rcv_nxt >= 1

LEMMA NotifyReadableIs ==
  ASSUME NEW x, DOMAIN x = Fields, NEW y, y = NotifyReadable(x)
  PROVE  Same(x, y, UserFields) /\ y.shutdown = x.shutdown /\ y.canRead \in {x.canRead, ~x.shutdown}
<1> DEFINE z == [x EXCEPT !.readEnable = FALSE, !.canRead = ~x.shutdown]
<1>1. CASE y = x
  BY <1>1 DEF Same
<1>2. CASE y = z
  BY <1>2 DEF Same, Fields, UserFields
<1> QED
  BY <1>1, <1>2 DEF NotifyReadable

LEMMA ServedIs ==
  ASSUME NEW x, NEW w \in Nat, Good(x, w), x.state \notin Ended,
         NEW v \in Nat, NEW rd, Intact(rd, v), Receiver(x, v, rd),
         NEW p, Arrives(x, p, v), NEW d, Same(x, d, {"sflags"}),
         NEW g, g = DataPart(d, p), NEW h, h = AttemptSend(g, g.sflags),
         NEW y, y = NotifyReadable(h)
  PROVE  Served(x, y, p, w, v, rd)
<1> DEFINE n == Len(rd)
<1>1. n \in Nat
  BY DEF Intact
<1> HIDE DEF n
<1>2. /\ x.rcv_nxt <= v + 1 /\ x.rlen \in 0 .. BufSize /\ (x.shutdown => ~x.canRead)
      /\ ~x.shutdown => Received(x, v, n)
  BY DEF Receiver, n
<1>3. /\ d.rcv_nxt = x.rcv_nxt /\ d.rlen = x.rlen /\ d.shutdown = x.shutdown
      /\ d.rbuf = x.rbuf /\ d.rlist = x.rlist /\ d.canRead = x.canRead
      /\ d.state = x.state /\ d.snd_una = x.snd_una
  BY DEF Same, Fields
<1>4. Good(d, w)
  BY SameLonger, GoodSmall
<1>5. ~d.shutdown => Received(d, v, n)
  BY <1>2, <1>3, ReceivedSame
<1>6. Arrives(d, p, v) /\ d.rlen \in 0 .. BufSize /\ d.rcv_nxt <= v + 1
  BY <1>2, <1>3 DEF Arrives
<1>7. Good(g, w) /\ Progress(d, g, p, v, n) /\ Same(d, g, DataFields)
  BY <1>1, <1>4, <1>5, <1>6, DataPartGood
<1>8. /\ g.state = x.state /\ g.snd_una = x.snd_una /\ g.shutdown = x.shutdown
      /\ g.canRead = x.canRead
  BY <1>3, <1>7 DEF Same, Fields, DataFields
<1>9. Good(h, w) /\ Same(g, h, SendFields)
  <2> DEFINE flag == g.sflags
  <2>1. h = AttemptSend(g, flag) /\ g.state \notin Ended
    BY <1>8
  <2> HIDE DEF flag
  <2> QED
    BY <2>1, <1>7, AttemptSendGood
<1>10. /\ DOMAIN h = Fields
       /\ h.state = g.state /\ h.snd_una = g.snd_una /\ h.shutdown = g.shutdown
       /\ h.canRead = g.canRead /\ h.rbuf = g.rbuf /\ h.rlen = g.rlen /\ h.rlist = g.rlist
       /\ h.rcv_nxt = g.rcv_nxt
  BY <1>9 DEF Same, Fields, SendFields, SentFields, MssFields
<1>11. Same(h, y, UserFields) /\ y.shutdown = h.shutdown /\ y.canRead \in {h.canRead, ~h.shutdown}
  BY <1>10, NotifyReadableIs
<1>12. /\ y.state = h.state /\ y.snd_una = h.snd_una /\ y.rbuf = h.rbuf /\ y.rlen = h.rlen
       /\ y.rlist = h.rlist /\ y.rcv_nxt = h.rcv_nxt
  BY <1>11 DEF Same, Fields, UserFields
<1>13. Good(y, w)
  <2>1. y.shutdown \in BOOLEAN
    BY <1>9, <1>11 DEF Good, Typed
  <2> QED
    BY <2>1, <1>9, <1>11, GoodUser
<1>14. /\ g.rcv_nxt >= d.rcv_nxt /\ g.rcv_nxt <= v + 1 /\ g.rlen \in 0 .. BufSize
       /\ ~g.shutdown => Received(g, v, n)
       /\ p.ctl /\ (d.rcv_nxt >= 1 \/ ~d.shutdown) => g.rcv_nxt >= 1
  BY <1>7 DEF Progress
<1>15. Receiver(y, v, rd)
  <2>1. ~y.shutdown => Received(y, v, n)
    BY <1>10, <1>11, <1>12, <1>14, ReceivedSame
  <2>2. y.shutdown => ~y.canRead
    BY <1>2, <1>8, <1>10, <1>11
  <2> QED
    BY <2>1, <2>2, <1>10, <1>12, <1>14 DEF Receiver, n
<1> QED
  BY <1>3, <1>8, <1>10, <1>12, <1>13, <1>14, <1>15 DEF Served

(* It keeps to the windows.                                                *)
LEMMA ServedTight ==
  ASSUME NEW x, NEW w \in Nat, Good(x, w), x.state \notin Ended,
         NEW v \in Nat, NEW rd, Receiver(x, v, rd),
         NEW o, Edge(o) \in Int, NEW B, \A b \in B : b \in Int, NEW Z, Tight(o, x, B, Z),
         NEW p, Arrives(x, p, v), Given(o, p, Z), NEW n \in Nat, Intact(rd, v), n = Len(rd),
         NEW d, Same(x, d, {"sflags"}),
         NEW g, g = DataPart(d, p), NEW h, h = AttemptSend(g, g.sflags),
         NEW y, y = NotifyReadable(h)
  PROVE  Tight(o, y, B, Z)
<1>1. /\ x.rcv_nxt <= v + 1 /\ x.rlen \in 0 .. BufSize
      /\ ~x.shutdown => Received(x, v, n)
  BY DEF Receiver
<1>2. /\ d.rcv_nxt = x.rcv_nxt /\ d.rlen = x.rlen /\ d.shutdown = x.shutdown
      /\ d.rbuf = x.rbuf /\ d.rlist = x.rlist /\ d.state = x.state
  BY DEF Same, Fields
<1>3. Good(d, w)
  BY SameLonger, GoodSmall
<1>4. ~d.shutdown => Received(d, v, n)
  BY <1>1, <1>2, ReceivedSame
<1>5. Arrives(d, p, v) /\ d.rlen \in 0 .. BufSize /\ d.rcv_nxt <= v + 1
  BY <1>1, <1>2 DEF Arrives
<1>6. Good(g, w) /\ Same(d, g, DataFields)
  BY <1>3, <1>4, <1>5, DataPartGood
<1>7. g.state \notin Ended
  BY <1>2, <1>6 DEF Same, Fields, DataFields
<1>8. Tight(o, d, B, Z)
  BY TightSame DEF TightFields
<1>9. p.data \in Seq(Int) /\ p.seq \in Int
  BY DEF Arrives, PacketOK
<1>10. Tight(o, g, B, Z)
  BY <1>3, <1>4, <1>5, <1>8, <1>9, DataPartTight
<1>11. Tight(o, h, B, Z) /\ DOMAIN h = Fields
  <2> DEFINE flag == g.sflags
  <2>1. h = AttemptSend(g, flag)
    OBVIOUS
  <2> HIDE DEF flag
  <2>2. Tight(o, h, B, Z)
    BY <2>1, <1>6, <1>7, <1>10, AttemptSendTight
  <2>3. Good(h, w)
    BY <2>1, <1>6, <1>7, AttemptSendGood
  <2> QED
    BY <2>2, <2>3 DEF Good, Typed
<1>12. Same(h, y, UserFields) /\ UserFields \cap TightFields = {}
  BY <1>11, NotifyReadableIs DEF UserFields, TightFields
<1> QED
  BY <1>11, <1>12, TightSame

(* process().                                                              *)
Finish(y, p) ==
  With(DataPart([y EXCEPT !.sflags = AckWanted(y, p)], p), LAMBDA z :
       NotifyReadable(AttemptSend(z, z.sflags)))

LEMMA ProcessedIs ==
  ASSUME NEW x, NEW p, x.state # "TCP_CLOSED",
         NEW c, c = AckPart(ConnectPart([x EXCEPT !.probes = 0], p), p)
  PROVE  Processed(x, p) = IF c.state = "TCP_CLOSED" THEN c ELSE Finish(c, p)
BY DEF Processed, With, Finish

LEMMA FinishIs ==
  ASSUME NEW c, NEW p, NEW g, g = DataPart([c EXCEPT !.sflags = AckWanted(c, p)], p)
  PROVE  Finish(c, p) = NotifyReadable(AttemptSend(g, g.sflags))
BY DEF Finish, With

LEMMA ClosedHeld ==
  ASSUME NEW e \in Ends, NEW x, NEW w, NEW rd, Held(e, x, w, rd), x.rcv_nxt = tcb[e].rcv_nxt,
         x.state \notin Ended, tcb[Peer(e)].rcv_nxt \in Nat, x.shutdown => x.state = "TCP_ESTABLISHED",
         NEW p, Coming(e, p), NEW y, Turned(x, y, p, w), y.state = "TCP_CLOSED"
  PROVE  Held(e, y, w, rd)
<1>1. Receiver(x, written[Peer(e)], rd) /\ Typed(x)
  BY DEF Held, Good
<1>2. Good(y, w) /\ ReceiverKept(x, y)
  BY DEF Turned
<1>3. Receiver(y, written[Peer(e)], rd)
  BY <1>1, <1>2, ReceiverSame
<1>4. y.rcv_nxt = x.rcv_nxt /\ x.rcv_nxt \in Nat
  BY <1>1, <1>2 DEF ReceiverKept, Typed
<1> QED
  BY <1>2, <1>3, <1>4, TurnedHeld

LEMMA OpenHeld ==
  ASSUME NEW e \in Ends, NEW x, NEW w, NEW rd, Held(e, x, w, rd), x.rcv_nxt = tcb[e].rcv_nxt,
         x.state \notin Ended, tcb[Peer(e)].rcv_nxt \in Nat, x.shutdown => x.state = "TCP_ESTABLISHED",
         written[Peer(e)] \in Nat,
         NEW p, Coming(e, p), NEW c, Turned(x, c, p, w), c.state # "TCP_CLOSED",
         NEW y, y = Finish(c, p)
  PROVE  Held(e, y, w, rd)
<1> DEFINE v == written[Peer(e)]
           flag == AckWanted(c, p)
           d == [c EXCEPT !.sflags = flag]
           g == DataPart(d, p)
           h == AttemptSend(g, g.sflags)
<1>1. v \in Nat /\ y = NotifyReadable(h)
  BY FinishIs
<1>2. Receiver(x, v, rd) /\ Typed(x) /\ Intact(rd, v) /\ w \in Nat
  BY DEF Held, Good
<1>3. Good(c, w) /\ ReceiverKept(x, c) /\ c.state # "DELETED"
  BY DEF Turned
<1>4. Same(c, d, {"sflags"})
  <2>1. DOMAIN c = Fields
    BY <1>3 DEF Good, Typed
  <2> HIDE DEF flag
  <2> QED
    BY <2>1 DEF Same, Fields
<1>5. Arrives(c, p, v)
  BY <1>3 DEF Arrives, Coming, ReceiverKept
<1> HIDE DEF v, d, g, h
<1>6. c.state \notin Ended
  BY <1>3 DEF Ended
<1>7. Receiver(c, v, rd)
  BY <1>2, <1>3, ReceiverSame
<1>8. Served(c, y, p, w, v, rd)
  <2>1. g = DataPart(d, p) /\ h = AttemptSend(g, g.sflags)
    BY DEF g, h
  <2> QED
    BY <2>1, <1>1, <1>2, <1>3, <1>4, <1>5, <1>6, <1>7, ServedIs
<1>9. /\ Good(y, w) /\ y.state = c.state /\ y.snd_una = c.snd_una
      /\ Receiver(y, v, rd) /\ y.rcv_nxt >= x.rcv_nxt
      /\ p.ctl /\ (x.rcv_nxt >= 1 \/ ~x.shutdown) => y.rcv_nxt >= 1
  BY <1>3, <1>8 DEF Served, ReceiverKept
<1> QED
  BY <1>9, TurnedHeld DEF v

LEMMA ProcessedHeld ==
  ASSUME NEW e \in Ends, NEW x, NEW w, NEW rd, Held(e, x, w, rd), x.rcv_nxt = tcb[e].rcv_nxt,
         tcb[Peer(e)].rcv_nxt \in Nat, x.shutdown => x.state = "TCP_ESTABLISHED",
         written[Peer(e)] \in Nat, NEW p, Coming(e, p), NEW y, y = Processed(x, p)
  PROVE  Held(e, y, w, rd)
<1>1. CASE x.state = "TCP_CLOSED"
  BY <1>1 DEF Processed
<1>2. CASE x.state # "TCP_CLOSED"
  <2> DEFINE a == [x EXCEPT !.probes = 0]
             b == ConnectPart(a, p)
             c == AckPart(b, p)
  <2>1. /\ Good(x, w) /\ DOMAIN x = Fields /\ x.state \notin Ended /\ (x.shutdown => ~x.canRead)
        /\ w \in Nat /\ (x.state = "TCP_LISTEN" => w = 0)
    BY <1>2 DEF Held, Good, Typed, Ended, Receiver
  <2>2. p.ack \in Nat /\ p.wnd \in Nat
    BY DEF Coming, PacketOK
  <2>3. Same(x, a, {"probes"})
    BY <2>1 DEF Same, Fields
  <2>4. y = IF c.state = "TCP_CLOSED" THEN c ELSE Finish(c, p)
    BY <1>2, ProcessedIs
  <2> HIDE DEF a
  <2>5. b = ConnectPart(a, p) /\ c = AckPart(b, p)
    OBVIOUS
  <2> HIDE DEF b, c
  <2>6. Turned(x, c, p, w)
    BY <2>1, <2>2, <2>3, <2>5, TurnedIs
  <2>7. CASE c.state = "TCP_CLOSED"
    BY <2>4, <2>7, <2>1, <2>6, ClosedHeld
  <2>8. CASE c.state # "TCP_CLOSED"
    BY <2>4, <2>8, <2>1, <2>6, OpenHeld
  <2> QED
    BY <2>7, <2>8
<1> QED
  BY <1>1, <1>2

(* What its peer sent is within the window that an end told, and what it   *)
(* acknowledges is what was sent.                                          *)
LEMMA ComingFits ==
  ASSUME IInv, WInv, NEW e \in Ends, ~Deleted(e), NEW p \in net[e]
  PROVE  /\ Given(tcb[e], p, Source(e)) /\ Edge(tcb[e]) \in Int
         /\ ~tcb[e].forced => AckFits(tcb[e], p, Bound(e))
<1> DEFINE f == Peer(e)
           x == tcb[e]
           v == tcb[f]
<1>1. f \in Ends /\ Peer(f) = e
  BY PeerIs
<1>2. Tied(e) /\ Tied(f) /\ EndOK(e) /\ EndOK(f)
  BY <1>1 DEF WInv, IInv
<1>3. Typed(x) /\ Typed(v)
  BY <1>2 DEF EndOK, Good
<1>4. Edge(x) \in Int
  BY <1>3, EdgeIs
<1>5. ASSUME ~x.forced
      PROVE  AckFits(x, p, Bound(e))
  BY <1>2, <1>5, BoundIs DEF Tied, AckFits
<1>6. ASSUME NEW z \in Source(e)
      PROVE  Marked(z, p) /\ \A m : Mark(z, m) => m <= Edge(x)
  <2>1. z = v /\ ~Deleted(f) /\ ~v.forced
    BY <1>6 DEF Source
  <2>2. Marked(v, p) /\ Inside(v, Edge(x))
    BY <2>1, <1>1, <1>2 DEF Tied
  <2> DEFINE bot == Edge(x)
  <2>3. bot \in Int /\ v.snd_nxt \in Nat /\ v.snd_una \in Nat /\ v.snd_wnd \in Nat
    BY <1>3, <1>4 DEF Typed
  <2>4. v.snd_nxt <= bot /\ v.snd_una + v.snd_wnd <= bot
    BY <2>2 DEF Inside
  <2> HIDE DEF bot, v
  <2>5. ASSUME NEW m, Mark(v, m) PROVE m <= bot
    BY <2>5, <2>3, <2>4 DEF Mark
  <2> QED
    BY <2>1, <2>2, <2>5 DEF bot
<1> HIDE DEF x
<1> QED
  BY <1>4, <1>5, <1>6 DEF Given, x

LEMMA ProcessedFits ==
  ASSUME IInv, NEW e \in Ends, ~Deleted(e), NEW x, NEW w, NEW rd, Held(e, x, w, rd), Fits(e, x),
         x.rcv_nxt = tcb[e].rcv_nxt, written[Peer(e)] \in Nat,
         NEW p \in net[e], Coming(e, p), NEW y, y = Processed(x, p)
  PROVE  Fits(e, y)
<1> DEFINE o == tcb[e]
           B == Bound(e)
           Z == Source(e)
           v == written[Peer(e)]
           n == Len(rd)
<1> SUFFICES ASSUME WInv PROVE Tight(o, y, B, Z)
  BY DEF Fits
<1>1. Tight(o, x, B, Z) /\ \A b \in B : b \in Int
  BY BoundIs DEF Fits
<1>2. Given(o, p, Z) /\ Edge(o) \in Int /\ (~o.forced => AckFits(o, p, B))
  BY ComingFits
<1>3. x.rcv_nxt = o.rcv_nxt /\ v \in Nat
  OBVIOUS
<1>4. /\ PacketOK(p, v) /\ Contents(p, o.rcv_nxt)
      /\ p.data # <<>> /\ ~p.ctl => o.rcv_nxt >= 1
  BY DEF Coming
<1>5. Good(x, w) /\ w \in Nat /\ (x.state = "TCP_LISTEN" => w = 0) /\ x.state # "DELETED"
      /\ Intact(rd, v) /\ Receiver(x, v, rd) /\ (x.shutdown => ~x.canRead)
  BY DEF Held, Receiver
<1>6. n \in Nat /\ n = Len(rd)
  BY <1>5 DEF Intact
<1> HIDE DEF o, B, Z, v, n
<1>7. CASE x.state = "TCP_CLOSED"
  BY <1>7, <1>1 DEF Processed
<1>8. CASE x.state # "TCP_CLOSED"
  <2> DEFINE a == [x EXCEPT !.probes = 0]
             b == ConnectPart(a, p)
             c == AckPart(b, p)
  <2>1. DOMAIN x = Fields /\ x.state \notin Ended
    BY <1>5, <1>8 DEF Good, Typed, Ended
  <2>2. p.ack \in Nat /\ p.wnd \in Nat
    BY <1>4 DEF PacketOK
  <2>3. Same(x, a, {"probes"})
    BY <2>1 DEF Same, Fields
  <2>4. y = IF c.state = "TCP_CLOSED" THEN c ELSE Finish(c, p)
    BY <1>8, ProcessedIs
  <2> HIDE DEF a
  <2>5. b = ConnectPart(a, p) /\ c = AckPart(b, p)
    OBVIOUS
  <2> HIDE DEF b, c
  <2>6. Turned(x, c, p, w)
    BY <2>1, <2>2, <2>3, <2>5, <1>5, TurnedIs
  <2>7. Good(a, w) /\ a.state \notin Ended /\ (a.state = "TCP_LISTEN" => w = 0)
    BY <2>3, <1>5, <2>1, SameLonger, GoodSmall DEF Same, Fields
  <2>8. Tight(o, a, B, Z)
    BY <2>3, <1>1, TightSame DEF TightFields
  <2>9. Tight(o, b, B, Z)
    BY <2>5, <2>7, <2>8, <1>5, ConnectPartTight
  <2>10. Good(b, w) /\ b.state \notin Ended
    <3>1. Joined(a, b, p, w)
      BY <2>5, <2>7, <1>5, ConnectPartGood
    <3> QED
      BY <3>1, <2>7 DEF Joined, Ended
  <2>11. Tight(o, c, B, Z)
    BY <2>2, <2>5, <2>9, <2>10, <1>1, <1>2, <1>5, AckPartTight
  <2>12. CASE c.state = "TCP_CLOSED"
    BY <2>4, <2>11, <2>12
  <2>13. CASE c.state # "TCP_CLOSED"
    <3> DEFINE flag == AckWanted(c, p)
               d == [c EXCEPT !.sflags = flag]
               g == DataPart(d, p)
               h == AttemptSend(g, g.sflags)
    <3>1. y = Finish(c, p)
      BY <2>4, <2>13
    <3>2. y = NotifyReadable(h)
      BY <3>1, FinishIs
    <3>3. Good(c, w) /\ ReceiverKept(x, c) /\ c.state \notin Ended
      BY <2>6, <2>13 DEF Turned, Ended
    <3>4. Same(c, d, {"sflags"})
      <4>1. DOMAIN c = Fields
        BY <3>3 DEF Good, Typed
      <4> HIDE DEF flag
      <4> QED
        BY <4>1 DEF Same, Fields
    <3>5. Arrives(c, p, v)
      BY <3>3, <1>3, <1>4 DEF Arrives, ReceiverKept
    <3>6. Receiver(c, v, rd)
      BY <3>3, <1>5, ReceiverSame
    <3>7. g = DataPart(d, p) /\ h = AttemptSend(g, g.sflags)
      OBVIOUS
    <3> HIDE DEF d, g, h
    <3> QED
      BY <3>2, <3>3, <3>4, <3>5, <3>6, <3>7, <2>11, <1>1, <1>2, <1>3, <1>5, <1>6, ServedTight
  <2> QED
    BY <2>12, <2>13
<1> QED
  BY <1>7, <1>8

(* What process() keeps of what moves the stream, part by part.            *)
Flows(x) == Clocked(x) /\ Tells(x) /\ Wide(x)

LEMMA FlowsSame ==
  ASSUME NEW x, Flows(x), NEW y, NEW S, Same(x, y, S),
         (ClockFields \cup TellFields \cup WideFields) \cap S = {}
  PROVE  Flows(y)
BY ClockedSame, TellsSame, WideSame DEF Flows

LEMMA OpenedLives ==
  ASSUME NEW x, Typed(x), Flows(x), NEW y, y = Opened(x)
  PROVE  Flows(y) /\ ~Waits(y) /\ Same(x, y, OpenFields)
<1> DEFINE a == AdjustMtu(x)
           adv == x.mtu_advise
           win == Max({x.cwnd, adv})
           level == Min({l \in 1 .. Len(Maxima) : Maxima[l] <= adv \/ l = Len(Maxima)})
           sh == ~x.shutdown
<1>1. DOMAIN x = Fields /\ x.shutdown \in BOOLEAN
  BY DEF Typed
<1>2. win >= adv
  <2> DEFINE c == x.cwnd
  <2>1. c \in Int /\ adv \in Int
    BY DEF Typed
  <2> HIDE DEF c, adv
  <2>2. Max({c, adv}) >= adv
    BY <2>1, MaxOfTwo
  <2> QED
    BY <2>2 DEF c
<1>3. a = [x EXCEPT !.mss = adv, !.msslevel = level, !.cwnd = win]
  BY DEF AdjustMtu
<1>4. y = [a EXCEPT !.state = "TCP_ESTABLISHED", !.canRead = sh, !.canWrite = sh]
  BY DEF Opened
<1> HIDE DEF a, adv, level, win, sh
<1>5. Same(x, a, AdjustFields) /\ a.mss = adv /\ a.cwnd = win
  BY <1>1, <1>3 DEF Same, Fields, AdjustFields
<1>6. /\ Same(a, y, {"state", "canRead", "canWrite"})
      /\ y.canRead = sh /\ y.canWrite = sh
  BY <1>4, <1>5 DEF Same, Fields
<1>7. Same(x, y, OpenFields)
  BY <1>5, <1>6 DEF Same, OpenFields
<1>8. y.shutdown = x.shutdown
  BY <1>7 DEF Same, Fields, OpenFields, AdjustFields
<1>9. Clocked(y)
  BY <1>7, ClockedSame DEF Flows, ClockFields, OpenFields, AdjustFields
<1>10. Tells(y) /\ ~Waits(y)
  BY <1>6, <1>8, Zenon DEF Tells, Waits, sh
<1>11. Wide(y)
  BY <1>2, <1>5, <1>6 DEF Wide, Same, Fields
<1> QED
  BY <1>7, <1>9, <1>10, <1>11 DEF Flows

LEMMA ConnectPartLives ==
  ASSUME NEW x, NEW w \in Nat, Good(x, w), x.state \notin Ended, x.state = "TCP_LISTEN" => w = 0,
         Flows(x), Asked(x), NEW p, NEW y, y = ConnectPart(x, p)
  PROVE  Flows(y) /\ Asked(y)
<1>1. Typed(x)
  BY DEF Good
<1>2. CASE p.ctl /\ x.state = "TCP_LISTEN"
  <2> DEFINE z == [x EXCEPT !.state = "TCP_SYN_RECEIVED"]
  <2>1. y = Queued(z, <<Connect>>, TRUE)
    BY <1>2 DEF ConnectPart
  <2>2. /\ w = 0 /\ Same(x, z, {"state"}) /\ z.state = "TCP_SYN_RECEIVED" /\ z.state \in Opening
        /\ y = Requested(z)
    BY <1>1, <1>2, <2>1 DEF Opening, Same, Fields, Typed, Requested
  <2> HIDE DEF z
  <2>3. Same(x, y, {"state", "sbuf", "slist"}) /\ y.state = "TCP_SYN_RECEIVED"
    BY <2>2, <1>2, RequestGood
  <2>4. Flows(y)
    BY <2>3, FlowsSame DEF ClockFields, TellFields, WideFields
  <2>5. Asked(y)
    BY <2>3 DEF Asked, Waits
  <2> QED
    BY <2>4, <2>5
<1>3. CASE p.ctl /\ x.state = "TCP_SYN_SENT"
  BY <1>3, <1>1, OpenedLives DEF ConnectPart, Asked
<1>4. CASE ~(p.ctl /\ x.state \in {"TCP_LISTEN", "TCP_SYN_SENT"})
  BY <1>4 DEF ConnectPart
<1> QED
  BY <1>2, <1>3, <1>4

LEMMA ResendFlows ==
  ASSUME NEW x, NEW w \in Nat, Good(x, w), x.state \notin Ended, x.slist # <<>>, Flows(x),
         NEW y, y = Retransmit(x), y.state # "TCP_CLOSED"
  PROVE  Flows(y) /\ Same(x, y, ResendFields \ AskFields)
<1>1. Clocked(y) /\ Wide(y)
  BY RetransmitClocked DEF Flows
<1>2. Same(x, y, ResendFields) /\ y.state = x.state /\ y.sbuf = x.sbuf
  BY RetransmitGood
<1>3. Tells(y)
  BY <1>2, TellsSame DEF Flows, TellFields, ResendFields, SentFields, MssFields
<1>4. Same(x, y, ResendFields \ AskFields)
  BY <1>2 DEF Same, Fields, ResendFields, AskFields, SentFields, MssFields
<1> QED
  BY <1>1, <1>3, <1>4 DEF Flows

LEMMA RecoveryFlows ==
  ASSUME NEW x, NEW w \in Nat, Good(x, w), x.state \notin Ended, Flows(x),
         NEW y, y = Recovery(x), y.state # "TCP_CLOSED"
  PROVE  Flows(y) /\ Same(x, y, (ResendFields \ AskFields) \cup {"dup_acks"})
<1>1. Typed(x)
  BY DEF Good
<1>2. CASE x.dup_acks < 3 \/ x.snd_una >= x.recover
  <2>1. y = [x EXCEPT !.dup_acks = 0]
    BY <1>2 DEF Recovery
  <2>2. Same(x, y, {"dup_acks"})
    BY <2>1, <1>1 DEF Same, Fields, Typed
  <2>3. Flows(y)
    BY <2>2, FlowsSame DEF ClockFields, TellFields, WideFields
  <2> QED
    BY <2>2, <2>3 DEF Same
<1>3. CASE ~(x.dup_acks < 3 \/ x.snd_una >= x.recover)
  <2>1. y = Retransmit(x)
    BY <1>3 DEF Recovery
  <2>2. x.snd_nxt > x.snd_una
    <3>1. x.recover <= x.snd_nxt /\ x.snd_una \in Nat /\ x.recover \in Nat /\ x.snd_nxt \in Nat
      BY <1>1 DEF Good, Listed, Typed
    <3> QED
      BY <3>1, <1>3
  <2>3. x.slist # <<>>
    BY <2>2, SentSegments
  <2>4. Flows(y) /\ Same(x, y, ResendFields \ AskFields)
    BY <2>1, <2>3, ResendFlows
  <2> QED
    BY <2>4 DEF Same
<1> QED
  BY <1>2, <1>3

(* An acknowledgment of new bytes leaves the timer running while there are *)
(* others under way, and tells a writer who waits when the buffer empties. *)
LEMMA NewAckLives ==
  ASSUME NEW x, NEW w \in Nat, Good(x, w), x.state \notin Ended, Flows(x), Asked(x),
         NEW p, p.ack \in Nat, p.wnd \in Nat, p.ack > x.snd_una, p.ack <= x.snd_nxt,
         NEW y, y = NewAck(x, p), y.state # "TCP_CLOSED"
  PROVE  Flows(y) /\ Asked(y)
<1> DEFINE n == p.ack - x.snd_una
           a == [x EXCEPT !.snd_wnd = p.wnd, !.snd_una = p.ack,
                          !.rto_base = p.ack # x.snd_nxt,
                          !.sbuf = SubSeq(@, n + 1, Len(@)),
                          !.slist = Freed(@, n)]
           v == With(a, Recovery)
           z == IF v.state = "TCP_SYN_RECEIVED" /\ ~p.ctl THEN Opened(v) ELSE v
           sh == ~x.shutdown
           u == [z EXCEPT !.writeEnable = FALSE, !.canWrite = sh]
           half == (BufSize * 2) \div 3
<1>1. Typed(x) /\ x.snd_una \in Nat /\ x.snd_nxt \in Nat
  BY DEF Good, Typed
<1>2. TakenOff(x, a, p) /\ a.state = x.state
  BY <1>1 DEF TakenOff, Same, Fields, Typed
<1>3. /\ a.snd_una = p.ack /\ a.snd_nxt = x.snd_nxt /\ a.rto_base = (p.ack # x.snd_nxt)
      /\ Same(x, a, {"snd_wnd", "snd_una", "rto_base", "sbuf", "slist"})
  BY <1>1 DEF Same, Fields, Typed
<1>4. \/ v.state = "TCP_CLOSED" /\ y = v
      \/ /\ v.state # "TCP_CLOSED"
         /\ y = IF z.writeEnable /\ slen(z) < half THEN u ELSE z
  BY DEF NewAck
<1>5. v = Recovery(a)
  <2> HIDE DEF a
  <2> QED
    BY DEF With
<1> HIDE DEF a, v
<1>6. Good(a, w)
  BY <1>2, TakenOffGood
<1>7. Flows(a)
  BY <1>3, TellsSame, WideSame DEF Clocked, Flows, TellFields, WideFields
<1>8. v.state # "TCP_CLOSED"
  BY <1>4
<1>9. Flows(v) /\ Same(a, v, (ResendFields \ AskFields) \cup {"dup_acks"})
  BY <1>2, <1>5, <1>6, <1>7, <1>8, RecoveryFlows
<1>10. Good(v, w)
  BY <1>2, <1>5, <1>6, RecoveryGood
<1>11. /\ v.state = x.state /\ v.shutdown = x.shutdown /\ v.canWrite = x.canWrite
       /\ v.writeEnable = x.writeEnable
  BY <1>3, <1>9 DEF Same, Fields, ResendFields, AskFields, SentFields, MssFields
<1>12. Waits(v) => v.writeEnable
  BY <1>11, Zenon DEF Asked, Waits
<1>13. Flows(z) /\ (Waits(z) => z.writeEnable) /\ Typed(z) /\ z.shutdown = x.shutdown
  <2>1. CASE v.state = "TCP_SYN_RECEIVED" /\ ~p.ctl
    <3>1. z = Opened(v)
      BY <2>1
    <3> HIDE DEF z
    <3>2. Typed(v) /\ v.state \in Opening
      BY <1>10, <2>1 DEF Good, Opening
    <3>3. Flows(z) /\ ~Waits(z) /\ Same(v, z, OpenFields)
      BY <3>1, <3>2, <1>9, OpenedLives
    <3>4. Good(z, w)
      BY <3>1, <3>2, <1>10, OpenedGood
    <3>5. z.shutdown = v.shutdown
      BY <3>3 DEF Same, Fields, OpenFields, AdjustFields
    <3> QED
      BY <3>3, <3>4, <3>5, <1>11 DEF Good
  <2>2. CASE ~(v.state = "TCP_SYN_RECEIVED" /\ ~p.ctl)
    BY <2>2, <1>9, <1>10, <1>11, <1>12 DEF Good
  <2> QED
    BY <2>1, <2>2
<1> HIDE DEF z, sh, half
<1>14. CASE z.writeEnable /\ slen(z) < half
  <2>1. y = u
    BY <1>4, <1>8, <1>14
  <2>2. DOMAIN z = Fields
    BY <1>13 DEF Typed
  <2>3. Same(z, y, {"writeEnable", "canWrite"}) /\ y.canWrite = sh
    BY <2>1, <2>2 DEF Same, Fields
  <2>4. Flows(y)
    BY <2>3, <1>13, FlowsSame DEF ClockFields, TellFields, WideFields
  <2>5. y.shutdown = x.shutdown
    BY <2>3, <1>13 DEF Same, Fields
  <2>6. ~Waits(y)
    BY <2>3, <2>5, Zenon DEF Waits, sh
  <2> QED
    BY <2>4, <2>6 DEF Asked
<1>15. CASE ~(z.writeEnable /\ slen(z) < half)
  <2>1. y = z
    BY <1>4, <1>8, <1>15
  <2>2. slen(z) \in Nat /\ half \in Int
    <3>1. BufSize \in Nat
      BY TcpConstants
    <3>2. z.sbuf \in Seq(Int)
      BY <1>13 DEF Typed
    <3> QED
      BY <3>1, <3>2 DEF slen, half
  <2>3. Waits(z) => z.writeEnable /\ slen(z) >= half
    BY <2>2, <1>13, <1>15
  <2> QED
    BY <2>1, <2>3, <1>13 DEF Asked, half
<1> QED
  BY <1>14, <1>15

LEMMA OldAckLives ==
  ASSUME NEW x, NEW w \in Nat, Good(x, w), x.state \notin Ended, Flows(x), Asked(x),
         NEW p, p.ack \in Nat, p.wnd \in Nat, NEW y, y = OldAck(x, p), y.state # "TCP_CLOSED"
  PROVE  Flows(y) /\ Asked(y)
<1> DEFINE v == [x EXCEPT !.snd_wnd = p.wnd]
           dup == (v.dup_acks + 1) % 256
           d == [v EXCEPT !.dup_acks = dup]
           u == [v EXCEPT !.dup_acks = 0]
           r == Retransmit(d)
           k == [r EXCEPT !.recover = r.snd_nxt]
           Few == {"snd_wnd", "dup_acks"}
<1>1. Typed(x) /\ x.snd_una \in Nat /\ x.snd_nxt \in Nat /\ x.dup_acks \in 0 .. 255
  BY DEF Good, Typed
<1>2. /\ Same(x, v, Few) /\ v.snd_wnd = p.wnd /\ v.dup_acks = x.dup_acks
  BY <1>1 DEF Same, Fields, Typed
<1>3. dup \in 0 .. 255
  BY <1>1, <1>2, CountIs
<1>4. \/ y = v
      \/ y = u
      \/ y = d
      \/ InFlight(x) # 0 /\ (IF r.state = "TCP_CLOSED" THEN y = r ELSE y = k)
  <2> HIDE DEF dup
  <2> QED
    BY DEF OldAck, dup
<1> HIDE DEF v, dup
<1>5. /\ Same(x, u, Few)
      /\ Same(x, d, Few) /\ d.snd_wnd = p.wnd /\ d.dup_acks = dup /\ d.recover = x.recover
  BY <1>2 DEF Same, Fields
<1> HIDE DEF d, u, r
<1>6. CASE y = v \/ y = u \/ y = d
  BY <1>2, <1>5, <1>6, FlowsSame, AskedSame DEF ClockFields, TellFields, WideFields, AskFields
<1>7. CASE InFlight(x) # 0 /\ (IF r.state = "TCP_CLOSED" THEN y = r ELSE y = k)
  <2>1. y = k /\ r.state # "TCP_CLOSED"
    BY <1>7
  <2>2. x.slist # <<>>
    BY <1>7, SentSegments
  <2>3. Good(d, w)
    BY <1>5, <1>3, GoodQuiet DEF Same, QuietFields
  <2>4. d.state = x.state /\ d.slist = x.slist
    BY <1>5 DEF Same, Fields
  <2>5. Flows(d) /\ Asked(d)
    BY <1>5, FlowsSame, AskedSame DEF ClockFields, TellFields, WideFields, AskFields
  <2>6. Flows(r) /\ Same(d, r, ResendFields \ AskFields)
    BY <2>1, <2>2, <2>3, <2>4, <2>5, ResendFlows DEF r
  <2>7. Asked(r)
    BY <2>5, <2>6, AskedSame
  <2>8. Same(r, y, {"recover"})
    BY <2>1, <2>6 DEF Same, Fields
  <2> QED
    BY <2>6, <2>7, <2>8, FlowsSame, AskedSame DEF ClockFields, TellFields, WideFields, AskFields
<1> QED
  BY <1>4, <1>6, <1>7

LEMMA AckPartLives ==
  ASSUME NEW x, NEW w \in Nat, Good(x, w), x.state \notin Ended, Flows(x), Asked(x),
         NEW p, p.ack \in Nat, p.wnd \in Nat, NEW y, y = AckPart(x, p), y.state # "TCP_CLOSED"
  PROVE  Flows(y) /\ Asked(y)
<1>1. Typed(x)
  BY DEF Good
<1>2. CASE p.ack > x.snd_una /\ p.ack <= x.snd_nxt
  <2>1. p.ack # x.snd_una
    BY <1>1, <1>2 DEF Typed
  <2>2. y = NewAck(x, p)
    BY <1>2, <2>1 DEF AckPart
  <2> QED
    BY <1>2, <2>2, NewAckLives
<1>3. CASE ~(p.ack > x.snd_una /\ p.ack <= x.snd_nxt) /\ p.ack = x.snd_una
  BY <1>3, OldAckLives DEF AckPart
<1>4. CASE ~(p.ack > x.snd_una /\ p.ack <= x.snd_nxt) /\ p.ack # x.snd_una
  BY <1>4 DEF AckPart
<1> QED
  BY <1>2, <1>3, <1>4

(* A reader who has to be told of the bytes of this packet will be.        *)
Heard(x) == x.shutdown \/ x.canRead \/ (x.readEnable /\ (x.rlen = 0 \/ x.newData))

LEMMA DataPartHeard ==
  ASSUME NEW x, DOMAIN x = Fields, Tells(x), NEW p, NEW y, y = DataPart(x, p),
         Same(x, y, DataFields)
  PROVE  Heard(y) /\ y.sflags \in {x.sflags, "sfImmediateAck"}
<1> DEFINE s == Trimmed(x, p)
           next == x.rcv_nxt + Len(s.data)
           to == Reached(x.rlist, next)
           new == to - x.rcv_nxt
           flag == IF to > next THEN "sfImmediateAck" ELSE x.sflags
           left == {r \in x.rlist : r.seq > to}
           more == x.rlist \cup {[seq |-> s.seq, len |-> Len(s.data)]}
           z == Stored(x, s)
           rlen == x.rlen + new
           wnd == x.rcv_wnd - new
           b == [k \in 1 .. BufSize |->
                   LET i == k - (x.rlen + s.seq - x.rcv_nxt)
                   IN IF i \in DOMAIN s.data THEN s.data[i] ELSE x.rbuf[k]]
<1>1. z = [x EXCEPT !.rbuf = b]
  BY DEF Stored
<1>2. \/ y = x
      \/ y = [x EXCEPT !.rcv_nxt = next]
      \/ y = [z EXCEPT !.rlen = @ + new, !.rcv_nxt = to, !.rcv_wnd = @ - new,
                       !.rlist = {r \in @ : r.seq > to},
                       !.sflags = IF to > next THEN "sfImmediateAck" ELSE @,
                       !.newData = TRUE]
      \/ y = [z EXCEPT !.rlist = @ \cup {[seq |-> s.seq, len |-> Len(s.data)]}]
  BY DEF DataPart
<1> HIDE DEF z, b, s
<1>3. \/ y = x
      \/ y = [x EXCEPT !.rcv_nxt = next]
      \/ y = [x EXCEPT !.rbuf = b, !.rlen = rlen, !.rcv_nxt = to, !.rcv_wnd = wnd,
                       !.rlist = left, !.sflags = flag, !.newData = TRUE]
      \/ y = [x EXCEPT !.rbuf = b, !.rlist = more]
  <2> HIDE DEF to, new, next
  <2> QED
    BY <1>1, <1>2 DEF Fields
<1>4. flag \in {x.sflags, "sfImmediateAck"}
  <2> HIDE DEF to, next
  <2> QED
    OBVIOUS
<1> HIDE DEF rlen, wnd, left, flag, more, to, new, next
<1>5. /\ y.rlen = x.rlen \/ y.newData
      /\ y.sflags \in {x.sflags, "sfImmediateAck"}
  BY ZenonT(30), <1>3, <1>4 DEF Fields
<1>6. y.shutdown = x.shutdown /\ y.canRead = x.canRead /\ y.readEnable = x.readEnable
  BY DEF Same, Fields, DataFields
<1> QED
  BY <1>5, <1>6 DEF Heard, Tells

(* The event that there is something to read tells him.                    *)
LEMMA NotifyReadableTells ==
  ASSUME NEW x, DOMAIN x = Fields, Heard(x), NEW y, y = NotifyReadable(x)
  PROVE  Tells(y) /\ Same(x, y, {"readEnable", "canRead"})
<1> DEFINE sh == ~x.shutdown
           z == [x EXCEPT !.readEnable = FALSE, !.canRead = sh]
<1>1. CASE x.newData /\ x.readEnable
  <2>1. y = z
    BY <1>1 DEF NotifyReadable
  <2> HIDE DEF sh
  <2>2. Same(x, y, {"readEnable", "canRead"}) /\ y.canRead = sh /\ y.shutdown = x.shutdown
    BY <2>1 DEF Same, Fields
  <2>3. Tells(y)
    BY <2>2, Zenon DEF Tells, sh
  <2> QED
    BY <2>2, <2>3
<1>2. CASE ~(x.newData /\ x.readEnable)
  BY <1>2 DEF NotifyReadable, Tells, Heard, Same
<1> QED
  BY <1>1, <1>2

LEMMA FinishLives ==
  ASSUME NEW e, NEW x, NEW w \in Nat, Good(x, w), x.state \notin Ended, Flows(x), Asked(x),
         Early(x, w),
         NEW v \in Nat, NEW rd, Intact(rd, v), Receiver(x, v, rd),
         NEW p, Arrives(x, p, v), NEW y, y = Finish(x, p)
  PROVE  Leaves(e, y, w)
<1> DEFINE flag == AckWanted(x, p)
           d == [x EXCEPT !.sflags = flag]
           g == DataPart(d, p)
           sf == g.sflags
           h == AttemptSend(g, sf)
           n == Len(rd)
<1>1. y = NotifyReadable(h)
  BY FinishIs
<1>2. /\ x.rcv_nxt <= v + 1 /\ x.rlen \in 0 .. BufSize
      /\ ~x.shutdown => Received(x, v, n)
  BY DEF Receiver
<1>3. flag # "return"
  BY DEF AckWanted
<1>4. n \in Nat
  BY DEF Intact
<1> HIDE DEF flag, n
<1>5. Same(x, d, {"sflags"}) /\ d.sflags = flag
  BY DEF Good, Typed, Same, Fields
<1> HIDE DEF d, g, h
<1>6. /\ d.rcv_nxt = x.rcv_nxt /\ d.rlen = x.rlen /\ d.shutdown = x.shutdown
      /\ d.rbuf = x.rbuf /\ d.rlist = x.rlist /\ d.state = x.state
  BY <1>5 DEF Same, Fields
<1>7. Good(d, w)
  BY <1>5, SameLonger, GoodSmall
<1>8. Flows(d) /\ Asked(d)
  BY <1>5, FlowsSame, AskedSame DEF ClockFields, TellFields, WideFields, AskFields
<1>9. ~d.shutdown => Received(d, v, n)
  BY <1>2, <1>6, ReceivedSame
<1>10. Arrives(d, p, v) /\ d.rlen \in 0 .. BufSize /\ d.rcv_nxt <= v + 1
  BY <1>2, <1>6 DEF Arrives
<1>11. g = DataPart(d, p)
  BY DEF g
<1>12. Good(g, w) /\ Same(d, g, DataFields)
  BY <1>4, <1>7, <1>9, <1>10, <1>11, DataPartGood
<1>13. Heard(g) /\ sf # "return"
  <2>1. DOMAIN d = Fields /\ Tells(d)
    BY <1>7, <1>8 DEF Good, Typed, Flows
  <2>2. Heard(g) /\ g.sflags \in {d.sflags, "sfImmediateAck"}
    BY <2>1, <1>11, <1>12, DataPartHeard
  <2> QED
    BY <2>2, <1>3, <1>5
<1>14. Clocked(g) /\ Wide(g) /\ Asked(g) /\ g.state = x.state
  <2>1. Clocked(g) /\ Wide(g)
    BY <1>8, <1>12, ClockedSame, WideSame DEF Flows, ClockFields, WideFields, DataFields
  <2>2. Asked(g)
    BY <1>8, <1>12, AskedSame DEF AskFields, DataFields
  <2>3. g.state = d.state
    BY <1>12 DEF Same, Fields, DataFields
  <2> QED
    BY <2>1, <2>2, <2>3, <1>6
<1> HIDE DEF sf
<1>15. h = AttemptSend(g, sf)
  BY DEF h
<1>16. Clocked(h) /\ Moving(h)
  BY <1>12, <1>13, <1>14, <1>15, AttemptSendMoves
<1>17. Good(h, w) /\ Same(g, h, SendFields)
  BY <1>12, <1>14, <1>15, AttemptSendGood
<1>18. Asked(h) /\ h.state = x.state
  <2>1. Asked(h)
    BY <1>14, <1>17, AskedSame DEF AskFields, SendFields, SentFields, MssFields
  <2> QED
    BY <2>1, <1>14, <1>17 DEF Same, Fields, SendFields, SentFields, MssFields
<1>19. Heard(h)
  BY <1>17, <1>13 DEF Same, Fields, SendFields, SentFields, MssFields, Heard
<1>20. Tells(y) /\ Same(h, y, {"readEnable", "canRead"})
  BY <1>17, <1>1, <1>19, NotifyReadableTells DEF Good, Typed
<1>21. Clocked(y) /\ Moving(y)
  BY <1>16, <1>20, ClockedSame, MovingSame DEF ClockFields, MoveFields
<1>22. Asked(y)
  BY <1>18, <1>20, AskedSame DEF AskFields
<1>23. y.state = x.state
  BY <1>18, <1>20 DEF Same, Fields
<1> QED
  BY <1>20, <1>21, <1>22, <1>23 DEF Leaves, Lively, Early

LEMMA ProcessedLives ==
  ASSUME NEW e \in Ends, NEW x, NEW w, NEW rd, Held(e, x, w, rd), x.rcv_nxt = tcb[e].rcv_nxt,
         written[Peer(e)] \in Nat, x.state # "TCP_CLOSED" => Lively(x) /\ Wide(x) /\ Early(x, w),
         NEW p, Coming(e, p), NEW y, y = Processed(x, p)
  PROVE  Leaves(e, y, w)
<1>1. CASE x.state = "TCP_CLOSED"
  BY <1>1 DEF Processed, Leaves
<1>2. CASE x.state # "TCP_CLOSED"
  <2> DEFINE v == written[Peer(e)]
             a == [x EXCEPT !.probes = 0]
             b == ConnectPart(a, p)
             c == AckPart(b, p)
  <2>1. /\ Good(x, w) /\ DOMAIN x = Fields /\ x.state \notin Ended /\ (x.shutdown => ~x.canRead)
        /\ w \in Nat /\ (x.state = "TCP_LISTEN" => w = 0)
    BY <1>2 DEF Held, Good, Typed, Ended, Receiver
  <2>2. p.ack \in Nat /\ p.wnd \in Nat
    BY DEF Coming, PacketOK
  <2>3. Same(x, a, {"probes"})
    BY <2>1 DEF Same, Fields
  <2>4. y = IF c.state = "TCP_CLOSED" THEN c ELSE Finish(c, p)
    BY <1>2, ProcessedIs
  <2> HIDE DEF a
  <2>5. b = ConnectPart(a, p) /\ c = AckPart(b, p)
    OBVIOUS
  <2> HIDE DEF b, c, v
  <2>6. Turned(x, c, p, w)
    BY <2>1, <2>2, <2>3, <2>5, TurnedIs
  <2>7. CASE c.state = "TCP_CLOSED"
    BY <2>4, <2>7 DEF Leaves
  <2>8. CASE c.state # "TCP_CLOSED"
    <3>1. y = Finish(c, p)
      BY <2>4, <2>8
    <3>2. Flows(x) /\ Asked(x) /\ Early(x, w)
      BY <1>2 DEF Lively, Flows
    <3>3. Good(a, w) /\ a.state = x.state
      BY <2>3, <2>1, SameLonger, GoodSmall DEF Same, Fields
    <3>4. Flows(a) /\ Asked(a)
      BY <2>3, <3>2, FlowsSame, AskedSame DEF ClockFields, TellFields, WideFields, AskFields
    <3>5. Flows(b) /\ Asked(b)
      BY <2>1, <2>5, <3>3, <3>4, ConnectPartLives
    <3>6. Good(b, w) /\ b.state \notin Ended
      <4>1. Joined(a, b, p, w)
        BY <2>1, <2>5, <3>3, ConnectPartGood
      <4> QED
        BY <4>1, <2>1, <3>3 DEF Joined, Ended
    <3>7. Flows(c) /\ Asked(c)
      BY <2>1, <2>2, <2>5, <2>8, <3>5, <3>6, AckPartLives
    <3>8. Good(c, w) /\ ReceiverKept(x, c) /\ c.state \notin Ended
      BY <2>6, <2>8 DEF Turned, Ended
    <3>9. Early(c, w)
      BY <2>1, <2>6, <3>2 DEF Turned, Early
    <3>10. Receiver(x, v, rd) /\ Intact(rd, v) /\ Typed(x) /\ v \in Nat
      BY DEF Held, Good, v
    <3>11. Receiver(c, v, rd)
      BY <3>8, <3>10, ReceiverSame
    <3>12. Arrives(c, p, v)
      BY <3>8 DEF Arrives, Coming, ReceiverKept, v
    <3> QED
      BY <2>1, <3>1, <3>7, <3>8, <3>9, <3>10, <3>11, <3>12, FinishLives
  <2> QED
    BY <2>7, <2>8
<1> QED
  BY <1>1, <1>2

(* A packet that is lost, or that comes too late.                          *)
LEMMA LessUnderWay ==
  ASSUME IInv, UNCHANGED <<tcb, written, read, failed>>, DOMAIN net' = Ends,
         \A e \in Ends : net'[e] \subseteq net[e]
  PROVE  Preserved
<1>1. Functions'
  BY DEF IInv, Functions
<1>2. ASSUME NEW e \in Ends
      PROVE  EndOK(e)' /\ PacketsOK(e)'
  <2> DEFINE f == Peer(e)
  <2>1. f \in Ends /\ net'[f] \subseteq net[f]
    BY PeerIs
  <2>2. EndOK(e) /\ PacketsOK(e)
    BY DEF IInv
  <2>3. EndOK(e)'
    BY <2>2 DEF EndOK, Deleted
  <2> HIDE DEF f
  <2>4. PacketsOK(e)'
    BY <2>1, <2>2 DEF PacketsOK, Deleted, f
  <2> QED
    BY <2>3, <2>4
<1>3. Answered'
  BY DEF IInv, Ends, Answered
<1>4. StreamIsIntact'
  BY DEF IInv, StreamIsIntact
<1>5. ASSUME WInv PROVE WInv'
  <2>1. ASSUME NEW e \in Ends PROVE Tied(e)'
    <3> DEFINE f == Peer(e)
    <3>1. f \in Ends
      BY PeerIs
    <3>2. Tied(e) /\ net'[e] \subseteq net[e] /\ net'[f] \subseteq net[f]
      BY <1>5, <3>1 DEF WInv
    <3> HIDE DEF f
    <3> QED
      BY <3>2 DEF Tied, Deleted, f
  <2> QED
    BY <1>5, <2>1 DEF WInv, Deleted
<1>6. IInv'
  BY <1>1, <1>2, <1>3, <1>4 DEF IInv
<1>7. MInv => MInv'
  BY DEF MInv, KeepsOn, Deleted
<1> QED
  BY <1>5, <1>6, <1>7 DEF Preserved

LEMMA NotifyPacketKeeps ==
  ASSUME IInv, NEW e \in Ends, NEW link \in Links(e), NEW p \in net[e], NotifyPacket(e, p, link)
  PROVE  Preserved
<1> DEFINE before == [net EXCEPT ![e] = @ \ {p}]
           f == Peer(e)
           h == Handling(e, link)
           w == written[e]
           rd == read[e]
<1>1. DOMAIN net = Ends /\ f \in Ends /\ f # e
  BY PeerIs DEF IInv, Functions
<1>2. /\ DOMAIN before = Ends /\ before[e] \subseteq net[e] /\ before[f] = net[f]
      /\ \A d \in Ends : before[d] \subseteq net[d]
  BY <1>1
<1>3. UNCHANGED <<written, read>>
  BY DEF NotifyPacket
<1>4. CASE Deleted(e)
  BY <1>4, <1>2, <1>3, LessUnderWay DEF NotifyPacket, Deleted
<1>5. CASE ~Deleted(e)
  <2>1. PICK y \in {With(h, LAMBDA x : Processed(x, p))} : Done(e, Checked(y)) /\ Sent(e, y, before)
    BY <1>5 DEF NotifyPacket, Deleted
  <2>2. y = Processed(h, p)
    BY <2>1 DEF With
  <2> HIDE DEF h, before
  <2>3. Begun(e, h)
    BY <1>5, HandlingHeld DEF h
  <2>4. Held(e, h, w, rd) /\ (h.shutdown => h.state = "TCP_ESTABLISHED") /\ Same(tcb[e], h, LinkFields)
    BY <2>3 DEF Begun
  <2>5. h.rcv_nxt = tcb[e].rcv_nxt
    BY <2>4 DEF Same, Fields, LinkFields
  <2>6. tcb[f].rcv_nxt \in Nat /\ written[f] \in Nat
    BY <1>1 DEF IInv, EndOK, Good, Typed
  <2>7. Coming(e, p)
    BY <1>5, ComingIs
  <2> HIDE DEF w, rd
  <2>8. Held(e, y, w, rd)
    BY <2>2, <2>4, <2>5, <2>6, <2>7, ProcessedHeld
  <2>9. Fits(e, y)
    <3>1. Fits(e, h)
      BY <1>5, <2>3, BegunFits
    <3> QED
      BY <3>1, <1>5, <2>2, <2>4, <2>5, <2>6, <2>7, ProcessedFits DEF f
  <2>10. Lives(e, y, written[e])
    <3> SUFFICES ASSUME MInv PROVE Leaves(e, y, written[e])
      BY DEF Lives
    <3>1. h.state # "TCP_CLOSED" => Lively(h) /\ Early(h, w)
      BY <1>5, <2>3, BegunLives DEF Early, w
    <3>2. Wide(h)
      BY HandlingWide DEF IInv, EndOK, Good, h
    <3>3. written[Peer(e)] \in Nat
      BY <2>6
    <3>4. Leaves(e, y, w)
      BY <3>1, <3>2, <3>3, <2>2, <2>4, <2>5, <2>7, ProcessedLives
    <3> QED
      BY <3>4 DEF w
  <2> QED
    BY <1>2, <1>3, <1>5, <2>1, <2>8, <2>9, <2>10, HandlerEnds DEF w, rd
<1> QED
  BY <1>4, <1>5

(* The steps of the system.                                                *)
LEMMA InitHolds ==
  ASSUME Init
  PROVE  IInv
<1>1. \A e \in Ends : tcb[e] = Block0 /\ net[e] = {} /\ written[e] = 0 /\ read[e] = <<>>
  BY DEF Init
<1>2. Functions
  BY DEF Init, Functions
<1>3. ASSUME NEW e \in Ends
      PROVE  EndOK(e) /\ PacketsOK(e)
  <2> DEFINE x == Block0
             w == 0
             rd == <<>>
             f == Peer(e)
  <2>1. f \in Ends
    BY PeerIs
  <2>2. /\ Typed(x) /\ x.out = {} /\ x.state = "TCP_LISTEN" /\ ~x.shutdown
        /\ x.snd_una = 0 /\ x.snd_nxt = 0 /\ x.sbuf = <<>> /\ x.slist = <<>>
        /\ x.recover = 0 /\ x.rcv_nxt = 0 /\ x.rlen = 0 /\ x.rlist = {}
        /\ x.rbuf \in [1 .. BufSize -> Int]
    BY BlockIs
  <2>3. BufSize \in Nat
    BY TcpConstants
  <2> HIDE DEF x
  <2>4. Outgoing(x, w)
    BY <2>2 DEF Outgoing
  <2>5. Buffered(x, Top(x, w))
    BY <2>2, <2>3 DEF Top, Below, Buffered, slen
  <2>6. Offsets(x.slist)[0] = 0 /\ Len(x.slist) = 0
    BY <2>2, OffsetsAre DEF Typed
  <2>7. Listed(x)
    BY <2>2, <2>6 DEF SentUpTo, SentTo, Listed, slen
  <2>8. Good(x, w)
    BY <2>2, <2>4, <2>5, <2>7 DEF Good
  <2>9. rd \in Seq(Int) /\ Len(rd) = 0
    OBVIOUS
  <2> HIDE DEF rd
  <2>10. Receiver(x, w, rd)
    BY <2>2, <2>3, <2>9 DEF Receiver, Received
  <2> HIDE DEF f
  <2>11. EndOK(e)
    <3>1. /\ tcb[e] = x /\ tcb[f] = x /\ written[e] = w /\ written[f] = w /\ read[e] = rd
      BY <1>1, <2>1 DEF x, rd
    <3> HIDE DEF w
    <3>2. w \in Nat /\ w = 0
      BY DEF w
    <3> QED
      BY <3>1, <3>2, <2>2, <2>8, <2>9, <2>10 DEF EndOK, Deleted, f
  <2>12. PacketsOK(e)
    BY <1>1, <2>1 DEF PacketsOK, f
  <2> QED
    BY <2>11, <2>12
<1>4. Answered
  BY <1>1, BlockIs DEF Answered, Ends
<1>5. StreamIsIntact
  BY <1>1, PeerIs DEF StreamIsIntact
<1> QED
  BY <1>2, <1>3, <1>4, <1>5 DEF IInv

LEMMA InitWindows ==
  ASSUME Init
  PROVE  WInv
<1> DEFINE x == Block0
<1>1. /\ Typed(x) /\ x.snd_una = 0 /\ x.snd_nxt = 0 /\ x.slist = <<>>
      /\ x.rcv_nxt = 0 /\ x.rlen = 0 /\ x.rlist = {} /\ x.state # "DELETED"
  BY BlockIs
<1>2. x.snd_wnd = 1 /\ x.rcv_wnd = BufSize
  BY DEF Block0
<1>3. BufSize \in Nat /\ 1 <= BufSize
  BY TcpConstants
<1>4. \A e \in Ends : tcb[e] = x /\ net[e] = {}
  BY DEF Init
<1> HIDE DEF x
<1>5. Aligned(x.snd_una, x.slist)
  BY <1>1 DEF Aligned
<1>6. Edge(x) = BufSize /\ Inside(x, Edge(x)) /\ 0 <= x.rcv_wnd /\ x.rcv_wnd + x.rlen <= BufSize
  BY <1>1, <1>2, <1>3 DEF Edge, Inside
<1>7. Mark(x, x.rcv_nxt)
  BY <1>1 DEF Mark
<1>8. ASSUME NEW e \in Ends PROVE Tied(e) /\ ~Deleted(e)
  <2> DEFINE f == Peer(e)
  <2>1. tcb[e] = x /\ tcb[f] = x /\ net[e] = {} /\ net[f] = {}
    BY <1>4, PeerIs
  <2> HIDE DEF f
  <2>2. Tied(e)
    BY <2>1, <1>1, <1>5, <1>6, <1>7 DEF Tied, f
  <2> QED
    BY <2>1, <2>2, <1>1 DEF Deleted
<1> QED
  BY <1>8 DEF WInv

LEMMA InitMoves ==
  ASSUME Init
  PROVE  MInv
<1> DEFINE x == Block0
<1>1. /\ x.snd_una = 0 /\ x.snd_nxt = 0 /\ x.sbuf = <<>> /\ x.rlen = 0
      /\ x.state = "TCP_LISTEN"
  BY BlockIs
<1>2. x.readEnable /\ ~x.ignored
  BY DEF Block0
<1>3. DOMAIN failed = Ends /\ \A e \in Ends : tcb[e] = x
  BY DEF Init
<1> HIDE DEF x
<1>4. Clocked(x) /\ Tells(x) /\ Asked(x) /\ Moving(x)
  BY <1>1, <1>2 DEF Clocked, Tells, Asked, Waits, Moving
<1>5. ASSUME NEW e \in Ends PROVE KeepsOn(e)
  BY <1>3, <1>1, <1>2, <1>4 DEF KeepsOn, Lively, Deleted
<1> QED
  BY <1>3, <1>5 DEF MInv

LEMMA NextKeeps ==
  ASSUME IInv, [Next]_vars
  PROVE  Preserved
<1>1. CASE UNCHANGED vars
  BY <1>1, LessUnderWay DEF vars, IInv, Functions
<1>2. ASSUME NEW link \in Links("initiator"), ConnectAction(link)
      PROVE  Preserved
  BY <1>2, ConnectActionKeeps
<1>3. ASSUME NEW e \in Ends, NEW link \in Links(e), NEW p \in net[e], NotifyPacket(e, p, link)
      PROVE  Preserved
  BY <1>3, NotifyPacketKeeps
<1>4. ASSUME NEW e \in Ends, NEW link \in Links(e), NEW timer \in Timers, NotifyClock(e, timer, link)
      PROVE  Preserved
  BY <1>4, NotifyClockKeeps
<1>5. ASSUME NEW e \in Ends, NEW link \in Links(e), NEW n \in 1 .. MaxBytes[e], Send(e, n, link)
      PROVE  Preserved
  BY <1>5, SendKeeps
<1>6. ASSUME NEW e \in Ends, NEW link \in Links(e), NEW n \in 1 .. BufSize, Recv(e, n, link)
      PROVE  Preserved
  BY <1>6, RecvKeeps
<1>7. ASSUME NEW e \in Ends, NEW mtu \in Mtus[e], NotifyMtu(e, mtu)
      PROVE  Preserved
  BY <1>7, NotifyMtuKeeps
<1>8. ASSUME NEW e \in Ends, SendFull(e) \/ RecvEmpty(e)
      PROVE  Preserved
  BY <1>8, SendFullKeeps, RecvEmptyKeeps
<1>9. ASSUME NEW e \in Closers, Close(e)
      PROVE  Preserved
  BY <1>9, TcpConstants, CloseKeeps
<1> QED
  BY <1>1, <1>2, <1>3, <1>4, <1>5, <1>6, <1>7, <1>8, <1>9 DEF Next

-----------------------------------------------------------------------------
(* IInv is an invariant: send() and recv() and every event of the tunnel   *)
(* channel (a packet, a clock, an MTU) keep the buffers, the segments and  *)
(* the packets as it says.                                                 *)
THEOREM Invariance == Spec => []IInv
<1>1. Init => IInv
  BY InitHolds
<1>2. IInv /\ [Next]_vars => IInv'
  BY NextKeeps DEF Preserved
<1> QED
  BY <1>1, <1>2, PTL DEF Spec

(* Every variable keeps its type and neither buffer takes more than it can:*)
(* Send() and Recv() copy what fits and process() cuts what does not       *)
(* (pseudotcp.cc:400-422, 336-367, 757-787).                               *)
THEOREM TypeCorrect == Spec => []TypeOK
<1>1. ASSUME IInv, NEW e \in Ends
      PROVE  LET x == tcb[e]
             IN /\ Typed(x)
                /\ x.state \notin {"TCP_CLOSED", "DELETED"} => slen(x) <= BufSize
                /\ x.state # "DELETED" => x.rlen \in 0 .. BufSize
                /\ written[e] \in Nat /\ read[e] \in Seq(Int)
                /\ \A p \in net[e] : /\ p.seq \in Int /\ p.ack \in Nat /\ p.wnd \in Nat
                                     /\ p.data \in Seq(Int)
  <2> DEFINE f == Peer(e)
  <2>1. f \in Ends /\ Peer(f) = e
    BY PeerIs
  <2>2. EndOK(e) /\ PacketsOK(f)
    BY <1>1, <2>1 DEF IInv
  <2>3. \A p \in net[e] : PacketOK(p, written[f])
    BY <2>1, <2>2 DEF PacketsOK
  <2> HIDE DEF f
  <2>4. \A p \in net[e] : /\ p.seq \in Int /\ p.ack \in Nat /\ p.wnd \in Nat
                          /\ p.data \in Seq(Int)
    BY <2>3 DEF PacketOK
  <2>5. Good(tcb[e], written[e]) /\ written[e] \in Nat /\ read[e] \in Seq(Int)
    BY <2>2 DEF EndOK
  <2>6. Deleted(e) \/ tcb[e].rlen \in 0 .. BufSize
    BY <2>2 DEF EndOK, Receiver
  <2> QED
    BY <2>4, <2>5, <2>6 DEF Good, Buffered, Ended, Deleted
<1>2. IInv => TypeOK
  BY <1>1 DEF TypeOK, Typed, States
<1> QED
  BY <1>2, Invariance, PTL

(* What is read is what was written, in order, without gap or repetition,  *)
(* whatever packets are lost, reordered or retransmitted, and whatever the *)
(* timers do: the numbers, the buffers and the list of saved segments that *)
(* process() keeps agree (pseudotcp.cc:526-836).                           *)
THEOREM StreamSafe == Spec => []StreamIsIntact
<1>1. IInv => StreamIsIntact
  BY DEF IInv
<1> QED
  BY <1>1, Invariance, PTL

(* WInv is an invariant: segments are acknowledged and received whole, and *)
(* what an end told of its window is never taken back                      *)
(* (pseudotcp.cc:642-654, 346-362, 786-807), as long as the peer was not   *)
(* forced beyond it.                                                       *)
THEOREM WindowInvariance == Spec => []WInv
<1>1. Init => WInv
  BY InitWindows
<1>2. IInv /\ WInv /\ [Next]_vars => WInv'
  BY NextKeeps DEF Preserved
<1> QED
  BY <1>1, <1>2, Invariance, PTL DEF Spec

(* The window that was last told is within what the buffer can take now.   *)
LEMMA WindowFollows ==
  ASSUME IInv, WInv
  PROVE  WindowIsKept
<1> SUFFICES ASSUME NEW e \in Ends, ~tcb[e].forced, tcb[Peer(e)].state # "DELETED"
             PROVE  tcb[e].snd_nxt <= tcb[Peer(e)].rcv_nxt + BufSize - tcb[Peer(e)].rlen
  BY DEF WindowIsKept
<1> DEFINE f == Peer(e)
           x == tcb[e]
           y == tcb[f]
<1>1. f \in Ends /\ Peer(f) = e
  BY PeerIs
<1>2. Tied(e) /\ EndOK(f) /\ ~Deleted(f)
  BY <1>1 DEF WInv, IInv, Deleted
<1>3. y.rcv_nxt \in Nat /\ y.rcv_wnd \in Int /\ y.rlen \in 0 .. BufSize
  BY <1>2 DEF EndOK, Good, Typed, Receiver
<1>4. x.snd_nxt \in Nat /\ BufSize \in Nat
  BY TcpConstants DEF IInv, EndOK, Good, Typed
<1>5. CASE Deleted(e)
  <2>1. x.snd_nxt = 0
    BY <1>5 DEF WInv, Empty
  <2> HIDE DEF x, y
  <2> QED
    BY <2>1, <1>3, <1>4 DEF x, y
<1>6. CASE ~Deleted(e)
  <2>1. Inside(x, Edge(y)) /\ y.rcv_wnd + y.rlen <= BufSize
    BY <1>2, <1>6 DEF Tied
  <2>2. x.snd_nxt <= y.rcv_nxt + y.rcv_wnd
    BY <2>1 DEF Inside, Edge
  <2> HIDE DEF x, y
  <2> QED
    BY <2>1, <2>2, <1>3, <1>4 DEF x, y
<1> QED
  BY <1>5, <1>6

(* What is sent fits the peer's buffer: process() cuts no segment's end    *)
(* off (pseudotcp.cc:757-775), until NotifyClock sends new bytes through a *)
(* closed window.                                                          *)
THEOREM WindowSafe == Spec => []WindowIsKept
  BY Invariance, WindowInvariance, WindowFollows, PTL

(* A deleted block has neither segments nor bytes, any other is Listed and *)
(* Aligned.                                                                *)
LEMMA SegmentsFollow ==
  ASSUME IInv, WInv
  PROVE  SegmentsAreTheBuffer
<1> SUFFICES ASSUME NEW e \in Ends, tcb[e].state # "TCP_CLOSED", ~tcb[e].forced
             PROVE  /\ Offsets(tcb[e].slist)[Len(tcb[e].slist)] = slen(tcb[e])
                    /\ Aligned(tcb[e].snd_una, tcb[e].slist)
  <2>1. \A x : Typed(x) => DOMAIN x.slist = 1 .. Len(x.slist)
    BY DEF Typed
  <2>2. \A e \in Ends : Typed(tcb[e])
    BY DEF IInv, EndOK, Good
  <2> QED
    BY <2>1, <2>2 DEF SegmentsAreTheBuffer, Aligned
<1> DEFINE x == tcb[e]
<1>1. Good(x, written[e]) /\ Tied(e) /\ (Deleted(e) => Empty(x))
  BY DEF IInv, WInv, EndOK
<1>2. CASE Deleted(e)
  <2>1. x.slist = <<>> /\ x.sbuf = <<>> /\ x.slist \in Seq(Segments)
    BY <1>1, <1>2 DEF Empty, Good, Typed
  <2>2. Offsets(x.slist)[0] = 0 /\ Len(x.slist) = 0 /\ Len(x.sbuf) = 0
    BY <2>1, OffsetsAre
  <2> HIDE DEF x
  <2>3. Aligned(x.snd_una, x.slist)
    BY <2>2 DEF Aligned
  <2> QED
    BY <2>2, <2>3 DEF slen, x
<1>3. CASE ~Deleted(e)
  BY <1>3, <1>1 DEF Ended, Deleted, Good, Listed, Tied
<1> QED
  BY <1>2, <1>3

(* The list of segments is the send buffer, cut without a gap: queue(),    *)
(* transmit() that splits a segment, and process() that frees acknowledged *)
(* bytes keep the two in step (pseudotcp.cc:400-422, 896-907 and 642-654). *)
THEOREM SegmentsSafe == Spec => []SegmentsAreTheBuffer
  BY Invariance, WindowInvariance, SegmentsFollow, PTL

(* MInv is an invariant: whatever is under way has the retransmission      *)
(* timer (pseudotcp.cc:636, 858-866, 913-915), and a reader or a writer    *)
(* who waits was told or will be (343-347, 376-380, 697-703, 827-833).     *)
THEOREM MovesInvariance == Spec => []MInv
<1>1. Init => MInv
  BY InitMoves
<1>2. IInv /\ MInv /\ [Next]_vars => MInv'
  BY NextKeeps DEF Preserved
<1> QED
  BY <1>1, <1>2, Invariance, PTL DEF Spec

(* Bytes that are not read yet are in the send buffer, where a timer moves *)
(* them, or acknowledged: then the peer holds them and tells its user.     *)
LEMMA UnreadMoves ==
  ASSUME IInv, WInv, MInv, NEW e \in Ends, NEW f, f = Peer(e),
         ~failed[e], ~failed[f], ~tcb[f].shutdown, Len(read[f]) < written[e]
  PROVE  IF tcb[e].sbuf # <<>> THEN Running(tcb[e], "rto") \/ Running(tcb[e], "probe")
         ELSE tcb[f].canRead \/ Running(tcb[f], "rto")
<1> DEFINE x == tcb[e]
           y == tcb[f]
           w == written[e]
           n == Len(read[f])
<1>1. f \in Ends /\ Peer(f) = e
  BY PeerIs
<1>2. EndOK(e) /\ EndOK(f) /\ KeepsOn(e) /\ KeepsOn(f) /\ (Deleted(e) => Empty(x))
  BY <1>1 DEF IInv, WInv, MInv
<1>3. /\ Good(x, w) /\ Typed(x) /\ w \in Nat /\ read[f] \in Seq(Int)
      /\ (x.state = "TCP_LISTEN" => w = 0)
      /\ (Deleted(f) => y.shutdown)
  BY <1>2 DEF EndOK, Good
<1>4. n \in Nat /\ n < w
  BY <1>3
<1>5. ~Deleted(f)
  BY <1>3
<1>6. /\ x.state # "TCP_CLOSED" /\ y.state # "TCP_CLOSED"
      /\ x.state \notin Ended => Moving(x) /\ ~x.ignored
      /\ Tells(y)
      /\ x.state \notin {"TCP_LISTEN", "TCP_SYN_SENT", "TCP_SYN_RECEIVED"}
      /\ Deleted(e) => y.rcv_nxt > w
  BY <1>1, <1>2, <1>3, <1>4, <1>5 DEF KeepsOn, Ended, Deleted, Lively
<1>7. CASE x.sbuf # <<>>
  <2>1. x.state \notin Ended
    BY <1>2, <1>6, <1>7 DEF Ended, Deleted, Empty
  <2>2. x.rto_base \/ x.snd_wnd = 0
    BY <2>1, <1>6, <1>7 DEF Moving
  <2>3. x.slist # <<>>
    BY <2>1, <1>3, <1>7, EmptySeq, OffsetsAre DEF Good, Listed, Typed, slen
  <2> QED
    BY <2>2, <2>3, <1>7 DEF Running
<1>8. CASE x.sbuf = <<>>
  <2>1. y.rcv_nxt > w
    <3>1. CASE Deleted(e)
      BY <3>1, <1>6
    <3>2. CASE ~Deleted(e)
      <4>1. x.state = "TCP_ESTABLISHED"
        BY <3>2, <1>3, <1>6 DEF Typed, States, Deleted
      <4>2. x.snd_una + slen(x) = w + 1 /\ slen(x) = 0 /\ x.snd_una \in Nat
        BY <4>1, <1>3, <1>8 DEF Good, Buffered, Top, Ended, Typed, slen
      <4>3. x.snd_una <= y.rcv_nxt /\ y.rcv_nxt \in Nat
        BY <3>2, <1>2, <1>5 DEF EndOK, Good, Typed
      <4> QED
        BY <4>2, <4>3, <1>3
    <3> QED
      BY <3>1, <3>2
  <2>2. Received(y, w, n) /\ y.rcv_nxt \in Nat /\ y.rlen \in 0 .. BufSize
    BY <1>1, <1>2, <1>5 DEF EndOK, Receiver, Good, Typed
  <2>3. y.rlen # 0
    <3> HIDE DEF n, w, y
    <3>1. y.rcv_nxt # 0
      BY <2>1, <2>2, <1>3, <1>4
    <3>2. y.rcv_nxt = n + y.rlen + 1
      BY <2>2, <3>1 DEF Received
    <3> QED
      BY <2>1, <2>2, <3>2, <1>3, <1>4
  <2>4. y.canRead
    BY <2>3, <1>6 DEF Tells
  <2> QED
    BY <2>4, <1>8
<1> QED
  BY <1>7, <1>8

LEMMA StallsFollow ==
  ASSUME IInv, WInv, MInv
  PROVE  NothingStalls
<1>1. ASSUME NEW e \in Ends, tcb[e].state = "TCP_ESTABLISHED", ~tcb[e].shutdown, ~tcb[e].canWrite
      PROVE  tcb[e].writeEnable /\ slen(tcb[e]) * 3 >= BufSize * 2 - 2
  <2> DEFINE x == tcb[e]
             half == (BufSize * 2) \div 3
  <2>1. Asked(x)
    BY <1>1 DEF MInv, KeepsOn, Lively, Ended
  <2>2. x.writeEnable /\ slen(x) >= half
    BY <2>1, <1>1 DEF Asked, Waits
  <2>3. slen(x) \in Nat
    BY DEF IInv, EndOK, Good, Typed, slen
  <2>4. half \in Int /\ half * 3 >= BufSize * 2 - 2
    BY TcpConstants
  <2> HIDE DEF half
  <2>5. slen(x) * 3 >= BufSize * 2 - 2
    BY <2>2, <2>3, <2>4, TcpConstants
  <2> QED
    BY <2>2, <2>5
<1>2. ASSUME NEW e \in Ends
      PROVE  LET x == tcb[e]
                 y == tcb[Peer(e)]
             IN /\ (/\ ~failed[e] /\ ~failed[Peer(e)] /\ ~y.shutdown
                    /\ Len(read[Peer(e)]) < written[e]) =>
                     IF x.sbuf # <<>> THEN Running(x, "rto") \/ Running(x, "probe")
                     ELSE y.canRead \/ Running(y, "rto")
                /\ (x.state = "TCP_ESTABLISHED" /\ ~x.shutdown /\ ~x.canWrite) =>
                     x.writeEnable /\ slen(x) * 3 >= BufSize * 2 - 2
  BY <1>1, UnreadMoves
<1> QED
  BY <1>2 DEF NothingStalls

(* The stream never stops with bytes that nothing would move: transmit()   *)
(* and attemptSend() leave the timer of retransmissions running, or the    *)
(* window closed, which has one of its own (pseudotcp.cc:838-1012), and    *)
(* process() tells the reader and the writer again (697-703, 827-833).     *)
THEOREM StallsNever == Spec => []NothingStalls
  BY Invariance, WindowInvariance, MovesInvariance, StallsFollow, PTL
=============================================================================
