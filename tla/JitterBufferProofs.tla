-------------------------- MODULE JitterBufferProofs --------------------------
(***************************************************************************)
(* For every size of the ring and every network: the jitter buffer neither *)
(* shares nor leaks a packet, a packet only ever moves towards the head,   *)
(* and what arrives in order is in order in the ring.                      *)
(***************************************************************************)
EXTENDS JitterBuffer, TLAPS

USE JitterConstants, NoPacketIsNone

(* The head stays inside the ring when it advances. *)
LEMMA AdvanceInRing == \A i \in Slots : Advance(i) \in Slots
  BY DEF Slots, Advance

(* A packet is stored inside the ring. *)
LEMMA SlotForInRing ==
  ASSUME TypeOK, NEW p \in Packet
  PROVE  SlotFor(p) \in Slots
<1>1. CASE m_Packets[m_Anfang] = NoPacket
  BY <1>1 DEF SlotFor, Offset, InRange, TypeOK, Slots
<1>2. CASE m_Packets[m_Anfang] # NoPacket
  <2>1. m_Packets[m_Anfang].seq \in Numbers /\ p.seq \in Numbers
    BY <1>2 DEF TypeOK, Packet
  <2>2. p.seq - m_Packets[m_Anfang].seq \in Int
    BY <2>1 DEF Numbers
  <2> QED
    BY <1>2, <2>2 DEF SlotFor, Offset, InRange, TypeOK, Slots
<1> QED BY <1>1, <1>2

(* The type invariant: the ring index stays in the ring and the slots hold *)
(* packets or nothing.                                                     *)
LEMMA TypeCorrect == Spec => []TypeOK
<1>1. Init => TypeOK
  BY DEF Init, TypeOK, Slots, Numbers
<1>2. TypeOK /\ [Next]_vars => TypeOK'
  <2> SUFFICES ASSUME TypeOK, [Next]_vars PROVE TypeOK'
    OBVIOUS
  <2>1. ASSUME NEW seq \in Numbers, AddPacket(seq) PROVE TypeOK'
    <3> DEFINE p == [id |-> arrived + 1, seq |-> seq]
    <3>1. seq \in Numbers
      BY <2>1 DEF Numbers, TypeOK
    <3>2. p \in Packet
      BY <3>1 DEF Packet, TypeOK
    <3>3. SlotFor(p) \in Slots /\ HeadAfterAdd(p) \in Slots
      BY <3>2, SlotForInRing, AdvanceInRing DEF HeadAfterAdd, TypeOK
    <3> QED
      BY <2>1, <3>1, <3>2, <3>3 DEF AddPacket, TypeOK, Disposed
  <2>2. CASE GetPacket
    BY <2>2, AdvanceInRing
    DEF GetPacket, TypeOK, EmptyReads, SilenceAfter, Returned
  <2>3. CASE UNCHANGED vars
    BY <2>3 DEF vars, TypeOK
  <2> QED BY <2>1, <2>2, <2>3 DEF Next
<1> QED BY <1>1, <1>2, PTL DEF Spec

-----------------------------------------------------------------------------
(* Identifiers are fresh: a packet that arrives is no packet seen before.  *)
Fresh == \A p \in Buffered \cup played \cup disposed : p.id \in 1 .. arrived

IInv == TypeOK /\ Fresh /\ NoSharing /\ NoLeak

(* What the ring holds after one slot is written. *)
LEMMA WrittenRing ==
  ASSUME TypeOK, NEW pos \in Slots, NEW p \in Packet \cup {NoPacket},
         m_Packets' = [m_Packets EXCEPT ![pos] = p]
  PROVE  /\ \A i \in Slots : m_Packets'[i] = IF i = pos THEN p ELSE m_Packets[i]
         /\ Buffered' \subseteq Buffered \cup ({p} \ {NoPacket})
         /\ Buffered \ {m_Packets[pos]} \subseteq Buffered'
         /\ {p} \ {NoPacket} \subseteq Buffered'
  BY DEF TypeOK, Buffered

(* A packet that arrives gets a slot, and the packet that was there, if    *)
(* any, is deleted: the inductive step of AddPacket.                       *)
LEMMA AddPacketKeeps ==
  ASSUME IInv, NEW seq \in Numbers, AddPacket(seq), TypeOK'
  PROVE  Fresh' /\ NoSharing' /\ NoLeak'
<1> DEFINE p   == [id |-> arrived + 1, seq |-> seq]
           pos == SlotFor(p)
           old == m_Packets[pos]
<1>1. p \in Packet /\ p.id = arrived + 1 /\ arrived \in Nat
  BY DEF IInv, TypeOK, Packet
<1>2. pos \in Slots
  BY <1>1, SlotForInRing DEF IInv
<1>3. /\ m_Packets' = [m_Packets EXCEPT ![pos] = p]
      /\ disposed' = disposed \cup ({old} \ {NoPacket})
      /\ played' = played
      /\ arrived' = arrived + 1
  BY DEF AddPacket, Disposed
<1>4. /\ \A i \in Slots : m_Packets'[i] = IF i = pos THEN p ELSE m_Packets[i]
      /\ Buffered' \subseteq Buffered \cup {p}
      /\ Buffered \ {old} \subseteq Buffered'
      /\ p \in Buffered'
  <2> HIDE DEF p, pos
  <2> QED BY <1>1, <1>2, <1>3, WrittenRing, NoPacketIsNone, ZenonT(60) DEF IInv
<1>5. p \notin Buffered \cup played \cup disposed
  BY <1>1 DEF IInv, Fresh
<1>6. old \notin Buffered' \ {NoPacket}
  <2>1. old = NoPacket \/ old \in Buffered
    BY <1>2 DEF Buffered
  <2>2. \A i \in Slots : i # pos /\ old # NoPacket => m_Packets[i] # old
    BY <1>2 DEF IInv, NoSharing
  <2> HIDE DEF p, pos, old
  <2> QED BY <1>1, <1>4, <1>5, <2>1, <2>2 DEF Buffered
<1>7. Fresh'
  <2>1. \A q \in Buffered \cup played \cup disposed : q.id \in 1 .. arrived'
    BY <1>1, <1>3 DEF IInv, Fresh
  <2>2. old = NoPacket \/ old \in Buffered
    BY <1>2 DEF Buffered
  <2>3. p.id \in 1 .. arrived'
    BY <1>1, <1>3
  <2> HIDE DEF p, pos, old
  <2> QED BY <1>3, <1>4, <2>1, <2>2, <2>3 DEF Fresh
<1>8. NoSharing'
  <2>1. \A i, j \in Slots :
          m_Packets'[i] = m_Packets'[j] /\ m_Packets'[i] # NoPacket => i = j
    <3>1. \A i \in Slots : m_Packets[i] # p
      BY <1>1, <1>5, NoPacketIsNone DEF Buffered
    <3> HIDE DEF p, pos
    <3> QED BY <1>4, <3>1 DEF IInv, NoSharing
  <2>2. Buffered' \cap (played' \cup disposed') = {}
    <3> HIDE DEF p, pos, old
    <3> QED BY <1>3, <1>4, <1>5, <1>6 DEF IInv, NoSharing
  <2>3. played' \cap disposed' = {}
    <3>1. old = NoPacket \/ old \in Buffered
      BY <1>2 DEF Buffered
    <3> HIDE DEF p, pos, old
    <3> QED BY <1>3, <3>1 DEF IInv, NoSharing
  <2> QED BY <2>1, <2>2, <2>3 DEF NoSharing
<1>9. NoLeak'
  <2> SUFFICES ASSUME NEW n \in 1 .. arrived'
               PROVE  \E q \in Buffered' \cup played' \cup disposed' : q.id = n
    BY DEF NoLeak
  <2>1. CASE n = arrived + 1
    BY <1>1, <1>4, <2>1
  <2>2. CASE n # arrived + 1
    <3>1. n \in 1 .. arrived
      BY <1>1, <1>3, <2>2
    <3>2. PICK q \in Buffered \cup played \cup disposed : q.id = n
      BY <3>1 DEF IInv, NoLeak
    <3>3. q \in Buffered' \cup played' \cup disposed'
      <4>1. NoPacket \notin Buffered
        BY DEF Buffered
      <4> HIDE DEF p, pos, old
      <4> QED BY <1>3, <1>4, <3>2, <4>1
    <3> QED BY <3>2, <3>3
  <2> QED BY <2>1, <2>2
<1> QED BY <1>7, <1>8, <1>9

(* A read empties the head slot and returns what was in it: the inductive  *)
(* step of GetPacket.                                                      *)
LEMMA GetPacketKeeps ==
  ASSUME IInv, GetPacket
  PROVE  Fresh' /\ NoSharing' /\ NoLeak'
<1> DEFINE head == m_Packets[m_Anfang]
<1>1. m_Anfang \in Slots /\ head \in Packet \cup {NoPacket}
  BY DEF IInv, TypeOK
<1>2. head # NoPacket => Returned(head) = head
  BY DEF Returned, SilenceAfter, EmptyReads
<1>3. /\ m_Packets' = [m_Packets EXCEPT ![m_Anfang] = NoPacket]
      /\ played' = played \cup ({head} \ {NoPacket})
      /\ disposed' = disposed
      /\ arrived' = arrived
  BY <1>2 DEF GetPacket, Returned
<1>4. /\ \A i \in Slots :
           m_Packets'[i] = IF i = m_Anfang THEN NoPacket ELSE m_Packets[i]
      /\ Buffered' \subseteq Buffered
      /\ Buffered \ {head} \subseteq Buffered'
  BY <1>1, <1>3, WrittenRing DEF IInv
<1>5. head = NoPacket \/ head \in Buffered
  BY <1>1 DEF Buffered
<1>6. head \notin Buffered'
  <2>1. \A i \in Slots : i # m_Anfang /\ head # NoPacket => m_Packets[i] # head
    BY <1>1 DEF IInv, NoSharing
  <2>2. NoPacket \notin Buffered'
    BY DEF Buffered
  <2> HIDE DEF head
  <2> QED BY <1>4, <2>1, <2>2 DEF Buffered
<1> HIDE DEF head
<1>7. Fresh'
  BY <1>3, <1>4, <1>5 DEF IInv, Fresh
<1>8. NoSharing'
  <2>1. \A i, j \in Slots :
          m_Packets'[i] = m_Packets'[j] /\ m_Packets'[i] # NoPacket => i = j
    BY <1>4 DEF IInv, NoSharing
  <2>2. Buffered' \cap (played' \cup disposed') = {}
    BY <1>3, <1>4, <1>6 DEF IInv, NoSharing
  <2>3. played' \cap disposed' = {}
    BY <1>3, <1>5 DEF IInv, NoSharing
  <2> QED BY <2>1, <2>2, <2>3 DEF NoSharing
<1>9. NoLeak'
  <2>1. Buffered \cup played \cup disposed
          \subseteq Buffered' \cup played' \cup disposed'
    <3>1. NoPacket \notin Buffered
      BY DEF Buffered
    <3> QED BY <1>3, <1>4, <3>1
  <2> QED BY <1>3, <2>1 DEF IInv, NoLeak
<1> QED BY <1>7, <1>8, <1>9

LEMMA IInvHolds == Spec => []IInv
<1>1. Init => IInv
  <2> SUFFICES ASSUME Init PROVE IInv
    OBVIOUS
  <2>1. TypeOK
    BY DEF Init, TypeOK, Slots, Numbers
  <2>2. Buffered = {} /\ played = {} /\ disposed = {} /\ arrived = 0
    BY DEF Init, Buffered
  <2>3. NoSharing
    BY <2>2 DEF Init, NoSharing, Buffered
  <2> QED BY <2>1, <2>2, <2>3 DEF IInv, Fresh, NoLeak
<1>2. IInv /\ TypeOK' /\ [Next]_vars => IInv'
  <2> SUFFICES ASSUME IInv, TypeOK', [Next]_vars PROVE IInv'
    OBVIOUS
  <2>1. ASSUME NEW seq \in Numbers, AddPacket(seq) PROVE IInv'
    <3>1. seq \in Numbers
      BY <2>1 DEF Numbers, IInv, TypeOK
    <3> QED BY <2>1, <3>1, AddPacketKeeps DEF IInv
  <2>2. CASE GetPacket
    BY <2>2, GetPacketKeeps DEF IInv
  <2>3. CASE UNCHANGED vars
    BY <2>3 DEF vars, IInv, TypeOK, Fresh, NoSharing, NoLeak, Buffered
  <2> QED BY <2>1, <2>2, <2>3 DEF Next
<1> QED BY <1>1, <1>2, TypeCorrect, PTL DEF Spec

(* AddPacket and GetPacket never leave one packet with two owners: what    *)
(* the play thread deletes is in no slot, and no slot is deleted twice.    *)
THEOREM SharingNever == Spec => []NoSharing
  BY IInvHolds, PTL DEF IInv

(* No packet is lost without being deleted, in particular not by a read    *)
(* of a silent buffer.                                                     *)
THEOREM LeakNever == Spec => []NoLeak
  BY IInvHolds, PTL DEF IInv

-----------------------------------------------------------------------------
(* The remainder of a number below twice the modulus. *)
LEMMA SmallMod ==
  ASSUME NEW x \in Nat, x < 2 * MaxElems
  PROVE  x % MaxElems = IF x < MaxElems THEN x ELSE x - MaxElems
  OBVIOUS

(* When the head advances, every other slot is one nearer to it. *)
LEMMA AdvanceNearer ==
  ASSUME TypeOK, m_Anfang' = Advance(m_Anfang),
         NEW i \in Slots, i # m_Anfang
  PROVE  Distance(i)' = Distance(i) - 1 /\ Distance(i)' <= Distance(i)
<1>1. m_Anfang \in Slots /\ m_Anfang' \in Slots
  BY AdvanceInRing DEF TypeOK
<1>2. m_Anfang' = IF m_Anfang + 1 < MaxElems THEN m_Anfang + 1 ELSE 0
  <2> DEFINE x == m_Anfang + 1
  <2>1. x \in Nat /\ x < 2 * MaxElems /\ x <= MaxElems
    BY <1>1 DEF Slots
  <2>2. m_Anfang' = x % MaxElems
    BY DEF Advance
  <2> HIDE DEF x
  <2>3. x % MaxElems = IF x < MaxElems THEN x ELSE x - MaxElems
    BY <2>1, SmallMod
  <2>4. x % MaxElems = IF x < MaxElems THEN x ELSE 0
    BY <2>1, <2>3
  <2> QED BY <2>2, <2>4 DEF x
<1>3. ASSUME NEW head \in Slots
      PROVE  (i + MaxElems - head) % MaxElems = IF i < head THEN i + MaxElems - head ELSE i - head
  <2> DEFINE x == i + MaxElems - head
  <2>1. x \in Nat /\ x < 2 * MaxElems /\ (x < MaxElems <=> i < head)
    BY DEF Slots
  <2>2. x - MaxElems = i - head
    BY DEF Slots
  <2> HIDE DEF x
  <2>3. x % MaxElems = IF x < MaxElems THEN x ELSE x - MaxElems
    BY <2>1, SmallMod
  <2>4. x % MaxElems = IF i < head THEN x ELSE i - head
    BY <2>1, <2>2, <2>3
  <2> QED BY <2>4 DEF x
<1>4. /\ Distance(i) = IF i < m_Anfang THEN i + MaxElems - m_Anfang ELSE i - m_Anfang
      /\ Distance(i)' = IF i < m_Anfang' THEN i + MaxElems - m_Anfang' ELSE i - m_Anfang'
  BY <1>1, <1>3 DEF Distance
<1> QED BY <1>1, <1>2, <1>4 DEF Slots

(* Latency is bounded by the ring: with each read every packet that stays  *)
(* comes one slot nearer to playout, and no arrival pushes one back.       *)
THEOREM LatencyBounded == Spec => NearerToPlayout
<1> DEFINE Nearer ==
      \A i \in Slots :
        m_Packets[i] # NoPacket /\ m_Packets'[i] = m_Packets[i] =>
          /\ Distance(i)' <= Distance(i)
          /\ arrived' = arrived => Distance(i)' = Distance(i) - 1
<1>1. IInv /\ [Next]_vars => [Nearer]_vars
  <2> SUFFICES ASSUME IInv, Next,
                      NEW i \in Slots,
                      m_Packets[i] # NoPacket, m_Packets'[i] = m_Packets[i]
               PROVE  /\ Distance(i)' <= Distance(i)
                      /\ arrived' = arrived => Distance(i)' = Distance(i) - 1
    OBVIOUS
  <2>1. ASSUME NEW seq \in Numbers, AddPacket(seq)
        PROVE  Distance(i)' <= Distance(i) /\ arrived' # arrived
    <3> DEFINE p == [id |-> arrived + 1, seq |-> seq]
    <3>1. arrived' = arrived + 1 /\ arrived \in Nat
      BY <2>1 DEF AddPacket, IInv, TypeOK
    <3>2. CASE InRange(p)
      <4>1. m_Anfang' = m_Anfang /\ Distance(i) \in Int
        BY <2>1, <3>2 DEF AddPacket, HeadAfterAdd, Distance, IInv, TypeOK, Slots
      <4> QED BY <3>1, <4>1 DEF Distance
    <3>3. CASE ~InRange(p)
      <4>1. /\ m_Anfang' = Advance(m_Anfang)
            /\ m_Packets' = [m_Packets EXCEPT ![m_Anfang] = p]
        BY <2>1, <3>3 DEF AddPacket, HeadAfterAdd, SlotFor
      <4>2. m_Packets[i] # p
        BY <3>1 DEF IInv, Fresh, Buffered
      <4>3. i # m_Anfang
        BY <4>1, <4>2 DEF IInv, TypeOK
      <4> QED BY <3>1, <4>1, <4>3, AdvanceNearer DEF IInv
    <3> QED BY <3>2, <3>3, <3>1
  <2>2. CASE GetPacket
    <3>1. i # m_Anfang /\ m_Anfang' = Advance(m_Anfang)
      BY <2>2 DEF GetPacket, IInv, TypeOK
    <3> QED BY <3>1, AdvanceNearer DEF IInv
  <2> QED BY <2>1, <2>2 DEF Next
<1> QED BY <1>1, IInvHolds, PTL DEF Spec, NearerToPlayout

-----------------------------------------------------------------------------
(* How far a slot is from the head, without a remainder.                   *)
LEMMA DistanceIs ==
  ASSUME TypeOK, NEW i \in Slots
  PROVE  /\ Distance(i) = IF i < m_Anfang THEN i + MaxElems - m_Anfang ELSE i - m_Anfang
         /\ Distance(i) \in Slots /\ (Distance(i) = 0 <=> i = m_Anfang)
<1> DEFINE x == i + MaxElems - m_Anfang
<1>1. m_Anfang \in Slots /\ i \in Slots
  BY DEF TypeOK
<1>2. x \in Nat /\ x < 2 * MaxElems /\ (x < MaxElems <=> i < m_Anfang) /\ x - MaxElems = i - m_Anfang
  BY <1>1 DEF Slots
<1>3. Distance(i) = x % MaxElems
  BY DEF Distance
<1> HIDE DEF x
<1>4. Distance(i) = IF i < m_Anfang THEN x ELSE i - m_Anfang
  BY <1>2, <1>3, SmallMod
<1> QED BY <1>1, <1>4 DEF x, Slots

(* The slot at a distance from the head.                                   *)
LEMMA SlotAt ==
  ASSUME TypeOK, NEW k \in Slots
  PROVE  LET i == (m_Anfang + k) % MaxElems IN i \in Slots /\ Distance(i) = k
<1> DEFINE x == m_Anfang + k
           i == x % MaxElems
<1>1. m_Anfang \in Slots /\ k \in Slots
  BY DEF TypeOK
<1>2. x \in Nat /\ x < 2 * MaxElems
  BY <1>1 DEF Slots
<1>3. i = IF x < MaxElems THEN x ELSE x - MaxElems
  <2> HIDE DEF x
  <2> QED BY <1>2, SmallMod
<1>4. i \in Slots
  BY <1>1, <1>3 DEF Slots
<1>5. Distance(i) = IF i < m_Anfang THEN i + MaxElems - m_Anfang ELSE i - m_Anfang
  <2> HIDE DEF i
  <2> QED BY <1>4, DistanceIs
<1> QED BY <1>1, <1>3, <1>4, <1>5 DEF Slots

(* Offsets from one point of a ring determine the point they lead to.      *)
LEMMA OneOffset ==
  ASSUME NEW M \in Nat, NEW a \in 0..M - 1, NEW i \in 0..M - 1, NEW j \in 0..M - 1,
         (IF i < a THEN i + M - a ELSE i - a) = (IF j < a THEN j + M - a ELSE j - a)
  PROVE  i = j
  OBVIOUS

(* Two slots are not at the same distance.                                 *)
LEMMA DistancesDiffer ==
  ASSUME TypeOK, NEW i \in Slots, NEW j \in Slots, Distance(i) = Distance(j)
  PROVE  i = j
<1>1. MaxElems \in Nat
  BY JitterConstants
<1>2. m_Anfang \in 0..MaxElems - 1 /\ i \in 0..MaxElems - 1 /\ j \in 0..MaxElems - 1
  BY DEF TypeOK, Slots
<1>3. /\ Distance(i) = IF i < m_Anfang THEN i + MaxElems - m_Anfang ELSE i - m_Anfang
      /\ Distance(j) = IF j < m_Anfang THEN j + MaxElems - m_Anfang ELSE j - m_Anfang
  BY DistanceIs
<1>4. (IF i < m_Anfang THEN i + MaxElems - m_Anfang ELSE i - m_Anfang)
        = (IF j < m_Anfang THEN j + MaxElems - m_Anfang ELSE j - m_Anfang)
  BY <1>3, Zenon
<1> QED BY <1>1, <1>2, <1>4, OneOffset

(* The head advances to the slot at distance one; the slot it leaves comes *)
(* behind all others.                                                      *)
LEMMA NextSlot ==
  ASSUME TypeOK, m_Anfang' = Advance(m_Anfang)
  PROVE  m_Anfang' = IF m_Anfang + 1 < MaxElems THEN m_Anfang + 1 ELSE 0
<1> DEFINE x == m_Anfang + 1
<1>1. x \in Nat /\ x < 2 * MaxElems /\ x <= MaxElems
  BY DEF TypeOK, Slots
<1>2. m_Anfang' = x % MaxElems
  BY DEF Advance
<1> HIDE DEF x
<1>3. x % MaxElems = IF x < MaxElems THEN x ELSE 0
  BY <1>1, SmallMod
<1> QED BY <1>2, <1>3 DEF x

LEMMA NextHead ==
  ASSUME TypeOK, m_Anfang' = Advance(m_Anfang), m_Anfang' # m_Anfang
  PROVE  m_Anfang' \in Slots /\ Distance(m_Anfang') = 1
<1>1. m_Anfang \in Slots /\ m_Anfang' \in Slots
  BY AdvanceInRing DEF TypeOK
<1>2. m_Anfang' = IF m_Anfang + 1 < MaxElems THEN m_Anfang + 1 ELSE 0
  BY NextSlot
<1>3. Distance(m_Anfang') =
        IF m_Anfang' < m_Anfang THEN m_Anfang' + MaxElems - m_Anfang ELSE m_Anfang' - m_Anfang
  BY <1>1, DistanceIs
<1> QED BY <1>1, <1>2, <1>3 DEF Slots

LEMMA BehindAll ==
  ASSUME TypeOK, m_Anfang' = Advance(m_Anfang), NEW i \in Slots, i = m_Anfang
  PROVE  Distance(i)' = MaxElems - 1
<1> DEFINE x == i + MaxElems - m_Anfang'
<1>1. m_Anfang \in Slots
  BY DEF TypeOK
<1>2. m_Anfang' = IF m_Anfang + 1 < MaxElems THEN m_Anfang + 1 ELSE 0
  BY NextSlot
<1>3. /\ x \in Nat /\ x < 2 * MaxElems
      /\ x = MaxElems - 1 \/ x = 2 * MaxElems - 1
  BY <1>1, <1>2 DEF Slots
<1>4. Distance(i)' = x % MaxElems
  BY DEF Distance
<1> HIDE DEF x
<1>5. x % MaxElems = IF x < MaxElems THEN x ELSE x - MaxElems
  BY <1>3, SmallMod
<1> QED BY <1>3, <1>4, <1>5

(* In order of arrival the packets that are buffered stand behind each     *)
(* other from the head on, up to the one that arrived last.                *)
Head == m_Packets[m_Anfang]

Line ==
  /\ Head # NoPacket => arrived < Head.id + MaxElems
  /\ \A i \in Slots :
       IF Head # NoPacket /\ Head.id + Distance(i) <= arrived
       THEN /\ m_Packets[i] # NoPacket
            /\ m_Packets[i].id = Head.id + Distance(i)
            /\ m_Packets[i].seq = Head.seq + Distance(i)
       ELSE m_Packets[i] = NoPacket

Lined == ArrivedInOrder => Line

(* Who arrived stays known, so an order that is broken stays broken.       *)
LEMMA OrderWas ==
  ASSUME IInv, Next, ArrivedInOrder'
  PROVE  ArrivedInOrder
<1>1. Buffered \cup played \cup disposed \subseteq (Buffered \cup played \cup disposed)'
  <2>1. ASSUME NEW seq \in Numbers, AddPacket(seq)
        PROVE  Buffered \cup played \cup disposed \subseteq (Buffered \cup played \cup disposed)'
    <3> DEFINE p == [id |-> arrived + 1, seq |-> seq]
    <3>1. p \in Packet
      BY <2>1 DEF IInv, TypeOK, Packet
    <3>2. SlotFor(p) \in Slots
      BY <3>1, SlotForInRing DEF IInv
    <3>3. /\ m_Packets' = [m_Packets EXCEPT ![SlotFor(p)] = p]
          /\ disposed' = disposed \cup ({m_Packets[SlotFor(p)]} \ {NoPacket})
          /\ played' = played
      BY <2>1 DEF AddPacket, Disposed
    <3> HIDE DEF p
    <3>4. Buffered \ {m_Packets[SlotFor(p)]} \subseteq Buffered'
      BY <3>1, <3>2, <3>3, WrittenRing DEF IInv
    <3>5. NoPacket \notin Buffered
      BY DEF Buffered
    <3> QED BY <3>3, <3>4, <3>5
  <2>2. ASSUME GetPacket
        PROVE  Buffered \cup played \cup disposed \subseteq (Buffered \cup played \cup disposed)'
    <3>1. m_Anfang \in Slots
      BY DEF IInv, TypeOK
    <3>2. /\ m_Packets' = [m_Packets EXCEPT ![m_Anfang] = NoPacket]
          /\ disposed' = disposed
      BY <2>2 DEF GetPacket
    <3>3. played' = played \cup ({m_Packets[m_Anfang]} \ {NoPacket})
      BY <2>2 DEF GetPacket, Returned, SilenceAfter, EmptyReads
    <3>4. Buffered \ {m_Packets[m_Anfang]} \subseteq Buffered'
      BY <3>1, <3>2, WrittenRing DEF IInv
    <3>5. NoPacket \notin Buffered
      BY DEF Buffered
    <3> QED BY <3>2, <3>3, <3>4, <3>5
  <2> QED BY <2>1, <2>2 DEF Next
<1> QED BY <1>1 DEF ArrivedInOrder

LEMMA LineAdd ==
  ASSUME IInv, IInv', Line, NEW seq \in Numbers, AddPacket(seq), ArrivedInOrder'
  PROVE  Line'
<1> DEFINE p == [id |-> arrived + 1, seq |-> seq]
<1>1. /\ p \in Packet /\ p.id = arrived + 1 /\ p.seq = seq /\ p # NoPacket
      /\ arrived \in Nat /\ arrived' = arrived + 1 /\ TypeOK
      /\ m_Anfang \in Slots /\ MaxElems - 1 \in Slots /\ seq \in Int
  BY DEF AddPacket, IInv, TypeOK, Packet, Slots, Numbers
<1>2. /\ m_Packets' = [m_Packets EXCEPT ![SlotFor(p)] = p] /\ SlotFor(p) \in Slots
      /\ m_Anfang' = HeadAfterAdd(p)
  BY <1>1, SlotForInRing DEF AddPacket, IInv
<1>3. \A i \in Slots : m_Packets'[i] = IF i = SlotFor(p) THEN p ELSE m_Packets[i]
  BY <1>1, <1>2 DEF TypeOK
<1>4. \A i \in Slots : Distance(i) \in Slots /\ (Distance(i) = 0 <=> i = m_Anfang)
  BY <1>1, DistanceIs
<1> HIDE DEF p
<1>5. CASE Head = NoPacket
  <2>1. InRange(p) /\ SlotFor(p) = m_Anfang % MaxElems
    BY <1>1, <1>5 DEF InRange, SlotFor, Offset, Head, Slots
  <2>2. m_Anfang % MaxElems = m_Anfang
    BY <1>1, SmallMod DEF Slots
  <2>3. m_Anfang' = m_Anfang
    BY <1>2, <2>1 DEF HeadAfterAdd
  <2>4. Head' = p /\ \A i \in Slots : Distance(i)' = Distance(i)
    BY <1>1, <1>3, <2>1, <2>2, <2>3 DEF Head, Distance
  <2>5. \A i \in Slots : i # m_Anfang => m_Packets[i] = NoPacket
    BY <1>5 DEF Line
  <2> QED BY <1>1, <1>3, <1>4, <2>1, <2>2, <2>3, <2>4, <2>5 DEF Line, Slots
<1>6. CASE Head # NoPacket
  <2> DEFINE k == arrived + 1 - Head.id
  <2>1. /\ Head \in Packet /\ Head.id \in Nat /\ Head.seq \in Int
        /\ k \in Nat /\ k >= 1 /\ k <= MaxElems /\ k - 1 \in Slots
    <3>1. Head \in Packet /\ Head \in Buffered
      BY <1>1, <1>6 DEF TypeOK, Head, Buffered
    <3>2. Head.id \in Nat /\ Head.seq \in Int
      BY <3>1 DEF Packet, Numbers
    <3>3. Head.id <= arrived
      BY <1>1, <3>1 DEF IInv, Fresh
    <3> QED BY <1>1, <1>6, <3>1, <3>2, <3>3 DEF Line, Slots
  <2>2. PICK last \in Slots : Distance(last) = k - 1
    BY <1>1, <2>1, SlotAt
  <2>3. /\ m_Packets[last] # NoPacket /\ m_Packets[last].id = arrived
        /\ m_Packets[last].seq = Head.seq + k - 1
    BY <1>1, <1>6, <2>1, <2>2 DEF Line
  <2>4. p.seq = Head.seq + k
    <3>1. p \in (Buffered \cup played \cup disposed)'
      BY <1>1, <1>2, <1>3 DEF Buffered
    <3>2. m_Packets[last] \in (Buffered \cup played \cup disposed)'
      <4>1. CASE last = SlotFor(p)
        BY <2>3, <4>1 DEF AddPacket, Disposed, p
      <4>2. CASE last # SlotFor(p)
        BY <1>3, <2>3, <4>2 DEF Buffered
      <4> QED BY <4>1, <4>2
    <3>3. p.id = m_Packets[last].id + 1
      BY <1>1, <2>3
    <3>4. p.seq = m_Packets[last].seq + 1
      BY <3>1, <3>2, <3>3 DEF ArrivedInOrder
    <3> QED BY <2>1, <2>3, <3>4
  <2>5. p.seq - Head.seq = k
    BY <2>1, <2>4
  <2> HIDE DEF k
  <2>6. CASE k < MaxElems
    <3>1. k \in Slots
      BY <2>1, <2>6 DEF Slots
    <3>2. InRange(p) /\ SlotFor(p) = (m_Anfang + k) % MaxElems
      BY <1>6, <2>5, <3>1 DEF InRange, SlotFor, Offset, Head
    <3>3. Distance(SlotFor(p)) = k
      BY <1>1, <3>1, <3>2, SlotAt
    <3>4. m_Anfang' = m_Anfang
      BY <1>2, <3>2 DEF HeadAfterAdd
    <3>5. Head' = Head
      BY <1>1, <1>3, <1>4, <2>1, <3>3, <3>4 DEF Head
    <3>6. \A i \in Slots : Distance(i)' = Distance(i)
      BY <3>4 DEF Distance
    <3>7. \A i \in Slots : Distance(i) = k <=> i = SlotFor(p)
      BY <1>1, <1>2, <3>3, DistancesDiffer
    <3>8. arrived' < Head'.id + MaxElems
      BY <1>1, <2>1, <2>6, <3>5 DEF k
    <3>9. ASSUME NEW i \in Slots
          PROVE  IF Head'.id + Distance(i)' <= arrived'
                 THEN /\ m_Packets'[i] # NoPacket
                      /\ m_Packets'[i].id = Head'.id + Distance(i)'
                      /\ m_Packets'[i].seq = Head'.seq + Distance(i)'
                 ELSE m_Packets'[i] = NoPacket
      <4>1. Distance(i) \in Nat
        BY <1>4 DEF Slots
      <4>2. CASE i = SlotFor(p)
        <5>1. Distance(i)' = k /\ m_Packets'[i] = p
          BY <1>3, <3>6, <3>7, <4>2
        <5>2. Head.id + k = arrived + 1
          BY <1>1, <2>1 DEF k
        <5> QED BY <1>1, <2>4, <3>5, <5>1, <5>2
      <4>3. CASE i # SlotFor(p)
        <5>1. Distance(i)' = Distance(i) /\ m_Packets'[i] = m_Packets[i] /\ Distance(i) # k
          BY <1>3, <3>6, <3>7, <4>3
        <5>2. Head.id + Distance(i) <= arrived + 1 <=> Head.id + Distance(i) <= arrived
          BY <1>1, <2>1, <4>1, <5>1 DEF k
        <5> QED BY <1>1, <1>6, <3>5, <5>1, <5>2 DEF Line
      <4> QED BY <4>2, <4>3
    <3> QED BY <1>6, <3>5, <3>8, <3>9 DEF Line
  <2>7. CASE k = MaxElems
    <3>1. ~InRange(p) /\ SlotFor(p) = m_Anfang /\ m_Anfang' = Advance(m_Anfang)
      BY <1>2, <1>6, <2>5, <2>7 DEF InRange, SlotFor, HeadAfterAdd, Head, Slots
    <3>2. \A i \in Slots : i # m_Anfang => Distance(i)' = Distance(i) - 1
      BY <1>1, <3>1, AdvanceNearer
    <3>3. \A i \in Slots : i = m_Anfang => Distance(i)' = MaxElems - 1
      BY <1>1, <3>1, BehindAll
    <3>4. \A i \in Slots : m_Packets'[i] = IF i = m_Anfang THEN p ELSE m_Packets[i]
      BY <1>3, <3>1
    <3>5. /\ Head' # NoPacket /\ Head'.id = Head.id + 1 /\ Head'.seq = Head.seq + 1
          /\ Head'.id \in Nat
      <4>1. CASE m_Anfang' = m_Anfang
        <5>1. \A i \in Slots : Distance(i)' = Distance(i)
          BY <4>1 DEF Distance
        <5>2. k = 1
          BY <1>1, <1>4, <2>1, <2>7, <3>3, <5>1
        <5> QED BY <1>1, <2>1, <2>4, <3>4, <4>1, <5>2 DEF Head, k
      <4>2. CASE m_Anfang' # m_Anfang
        <5>1. m_Anfang' \in Slots /\ Distance(m_Anfang') = 1
          BY <1>1, <3>1, <4>2, NextHead
        <5>2. Head.id + 1 <= arrived
          <6>1. MaxElems - 1 >= 1
            BY <1>4, <5>1 DEF Slots
          <6> QED BY <1>1, <2>1, <2>7, <6>1 DEF k
        <5>3. Head' = m_Packets[m_Anfang']
          BY <3>4, <4>2, <5>1 DEF Head
        <5> QED BY <1>6, <2>1, <5>1, <5>2, <5>3 DEF Line
      <4> QED BY <4>1, <4>2
    <3>6. arrived' < Head'.id + MaxElems
      BY <1>1, <2>1, <2>7, <3>5 DEF k
    <3>7. ASSUME NEW i \in Slots
          PROVE  /\ Head'.id + Distance(i)' <= arrived'
                 /\ m_Packets'[i] # NoPacket
                 /\ m_Packets'[i].id = Head'.id + Distance(i)'
                 /\ m_Packets'[i].seq = Head'.seq + Distance(i)'
      <4>1. Distance(i) \in Nat /\ Distance(i) <= MaxElems - 1
        BY <1>4 DEF Slots
      <4>2. CASE i = m_Anfang
        BY <1>1, <2>1, <2>4, <2>7, <3>3, <3>4, <3>5, <4>2 DEF k
      <4>3. CASE i # m_Anfang
        <5>1. Head.id + Distance(i) <= arrived
          BY <1>1, <2>1, <2>7, <4>1 DEF k
        <5>2. /\ m_Packets'[i] # NoPacket
              /\ m_Packets'[i].id = Head.id + Distance(i)
              /\ m_Packets'[i].seq = Head.seq + Distance(i)
          BY <1>6, <3>4, <4>3, <5>1 DEF Line
        <5>3. Distance(i)' = Distance(i) - 1
          BY <3>2, <4>3
        <5> QED BY <1>1, <2>1, <3>5, <4>1, <5>1, <5>2, <5>3
      <4> QED BY <4>2, <4>3
    <3> QED BY <3>5, <3>6, <3>7 DEF Line
  <2> QED BY <2>1, <2>6, <2>7
<1> QED BY <1>5, <1>6

LEMMA LineGet ==
  ASSUME IInv, IInv', Line, GetPacket
  PROVE  Line'
<1>1. /\ TypeOK /\ m_Anfang \in Slots /\ arrived \in Nat /\ arrived' = arrived
      /\ m_Packets' = [m_Packets EXCEPT ![m_Anfang] = NoPacket]
      /\ m_Anfang' = Advance(m_Anfang)
  BY DEF GetPacket, IInv, TypeOK
<1>2. \A i \in Slots : m_Packets'[i] = IF i = m_Anfang THEN NoPacket ELSE m_Packets[i]
  BY <1>1 DEF TypeOK
<1>3. \A i \in Slots : i # m_Anfang => Distance(i)' = Distance(i) - 1
  BY <1>1, AdvanceNearer
<1>4. \A i \in Slots : i = m_Anfang => Distance(i)' = MaxElems - 1
  BY <1>1, BehindAll
<1>5. \A i \in Slots : Distance(i) \in Nat /\ Distance(i) <= MaxElems - 1 /\ (Distance(i) = 0 <=> i = m_Anfang)
  BY <1>1, DistanceIs DEF Slots
<1>6. m_Anfang' \in Slots /\ (m_Anfang' # m_Anfang => Distance(m_Anfang') = 1)
  BY <1>1, NextHead, AdvanceInRing
<1>7. Head' = IF m_Anfang' = m_Anfang THEN NoPacket ELSE m_Packets[m_Anfang']
  BY <1>2, <1>6 DEF Head
<1>8. CASE Head' = NoPacket
  <2>1. \A i \in Slots : i # m_Anfang => m_Packets[i] = NoPacket
    <3> SUFFICES ASSUME NEW i \in Slots, i # m_Anfang, m_Packets[i] # NoPacket PROVE FALSE
      OBVIOUS
    <3>1. Head # NoPacket /\ Head.id + Distance(i) <= arrived
      BY DEF Line
    <3>2. Distance(i) >= 1 /\ MaxElems - 1 >= 1
      BY <1>5
    <3>3. Head.id \in Nat
      BY <1>1, <3>1 DEF TypeOK, Head, Packet
    <3>4. m_Anfang' # m_Anfang
      <4>1. m_Anfang' = m_Anfang => \A j \in Slots : Distance(j)' = Distance(j)
        BY DEF Distance
      <4> QED BY <1>1, <1>4, <1>5, <3>2, <4>1
    <3>5. Head.id + 1 <= arrived
      BY <1>1, <1>5, <3>1, <3>2, <3>3
    <3> QED BY <1>6, <1>7, <1>8, <3>1, <3>4, <3>5 DEF Line
  <2> QED BY <1>2, <1>8, <2>1 DEF Line
<1>9. CASE Head' # NoPacket
  <2>1. m_Anfang' # m_Anfang /\ Head' = m_Packets[m_Anfang'] /\ Distance(m_Anfang') = 1
    BY <1>6, <1>7, <1>9
  <2>2. Head # NoPacket /\ Head'.id = Head.id + 1 /\ Head'.seq = Head.seq + 1
    BY <1>6, <1>9, <2>1 DEF Line
  <2>3. Head.id \in Nat /\ Head.seq \in Int
    BY <1>1, <2>2 DEF TypeOK, Head, Packet, Numbers
  <2>4. arrived' < Head'.id + MaxElems
    BY <1>1, <2>2, <2>3 DEF Line
  <2>5. ASSUME NEW i \in Slots
        PROVE  IF Head'.id + Distance(i)' <= arrived'
               THEN /\ m_Packets'[i] # NoPacket
                    /\ m_Packets'[i].id = Head'.id + Distance(i)'
                    /\ m_Packets'[i].seq = Head'.seq + Distance(i)'
               ELSE m_Packets'[i] = NoPacket
    <3>1. CASE i = m_Anfang
      <4>1. Head'.id + (MaxElems - 1) > arrived
        BY <1>1, <2>2, <2>3 DEF Line
      <4> QED BY <1>1, <1>2, <1>4, <2>2, <2>3, <3>1, <4>1
    <3>2. CASE i # m_Anfang
      <4>1. Distance(i)' = Distance(i) - 1 /\ m_Packets'[i] = m_Packets[i] /\ Distance(i) \in Nat
        BY <1>2, <1>3, <1>5, <3>2
      <4>2. /\ Head'.id + Distance(i)' = Head.id + Distance(i)
            /\ Head'.seq + Distance(i)' = Head.seq + Distance(i)
        BY <2>2, <2>3, <4>1
      <4> QED BY <1>1, <2>2, <4>1, <4>2 DEF Line
    <3> QED BY <3>1, <3>2
  <2> QED BY <1>9, <2>4, <2>5 DEF Line
<1> QED BY <1>8, <1>9

(* What arrives in order, without a gap, is in order in the ring, for      *)
(* every size of it and however slowly it is read.                         *)
THEOREM OrderKept == Spec => []RingInOrder
<1>1. Init => Lined
  <2> SUFFICES ASSUME Init PROVE Line
    BY DEF Lined
  <2>1. 0 \in Slots /\ \A i \in Slots : m_Packets[i] = NoPacket
    BY DEF Init, Slots
  <2> QED BY <2>1 DEF Init, Line, Head
<1>2. IInv /\ IInv' /\ Lined /\ [Next]_vars => Lined'
  <2> SUFFICES ASSUME IInv, IInv', Lined, [Next]_vars, ArrivedInOrder' PROVE Line'
    BY DEF Lined
  <2>1. CASE Next
    <3>1. Line
      BY <2>1, OrderWas DEF Lined
    <3> QED BY <2>1, <3>1, LineAdd, LineGet DEF Next
  <2>2. CASE UNCHANGED vars
    BY <2>2 DEF vars, Lined, ArrivedInOrder, Buffered, Line, Head, Distance
  <2> QED BY <2>1, <2>2
<1>3. IInv /\ Lined => RingInOrder
  <2> SUFFICES ASSUME IInv, Line, NEW i \in Slots, NEW j \in Slots,
                      m_Packets[i] # NoPacket, m_Packets[j] # NoPacket,
                      Distance(i) < Distance(j)
               PROVE  m_Packets[i].seq < m_Packets[j].seq
    BY DEF Lined, RingInOrder
  <2>1. /\ Head # NoPacket /\ m_Packets[i].seq = Head.seq + Distance(i)
        /\ m_Packets[j].seq = Head.seq + Distance(j)
    BY DEF Line
  <2>2. Head.seq \in Int /\ Distance(i) \in Int /\ Distance(j) \in Int
    BY <2>1, DistanceIs DEF IInv, TypeOK, Head, Packet, Numbers, Slots
  <2> QED BY <2>1, <2>2
<1> QED BY <1>1, <1>2, <1>3, IInvHolds, PTL DEF Spec
=============================================================================
