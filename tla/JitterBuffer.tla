----------------------------- MODULE JitterBuffer -----------------------------
(***************************************************************************)
(* The jitter buffer between the network and the sound card                *)
(* (src/References/beat/JitterBuffer.cpp).  The cricket worker thread adds *)
(* the packets the voice channel receives, the play thread takes one       *)
(* packet for every sound card period.  The buffer is a ring of MaxElems   *)
(* slots; m_Anfang is the slot that is played next.                        *)
(*                                                                         *)
(* A packet is a heap object: every packet that arrived is owned by the    *)
(* buffer, was handed to the decoder, or was deleted by the buffer.  The   *)
(* running average of the fill level and the playing frequency derived     *)
(* from it choose no packet and are left out.                              *)
(***************************************************************************)
EXTENDS Integers

CONSTANTS
  MaxElems,            \* s_MaxElems, the slots of the ring
  DetectSilence,       \* s_DetectSilencePacketCount
  SeqSpace,            \* sequence numbers are unsigned short: 2^16 in the code
  MaxArrivals,         \* bound: packets that arrive in a behaviour
  NoPacket             \* the null pointer in a slot

ASSUME JitterConstants ==
  /\ MaxElems \in Nat \ {0}
  /\ DetectSilence \in Nat \ {0}
  /\ SeqSpace \in Nat \ {0}
  /\ MaxArrivals \in Nat

Slots   == 0 .. MaxElems - 1
Numbers == 0 .. SeqSpace - 1

(* A packet is its sequence number and the moment it arrived, which tells  *)
(* two objects with the same number apart.                                 *)
Packet == [id : Nat, seq : Numbers]

ASSUME NoPacketIsNone == NoPacket \notin Packet

VARIABLES
  m_Packets,               \* the ring: slot -> packet or NoPacket
  m_Anfang,                \* the slot played next
  m_DontHaveAPacketSince,  \* empty reads in a row, counted up to DetectSilence
  m_Silence,               \* the buffer has given up waiting for packets
  arrived,                 \* number of packets received so far
  played,                  \* packets handed to the decoder
  disposed                 \* packets the buffer deleted

vars == <<m_Packets, m_Anfang, m_DontHaveAPacketSince, m_Silence,
          arrived, played, disposed>>

Buffered == {m_Packets[i] : i \in Slots} \ {NoPacket}

(* Mutated: the head does not advance. *)
AdvanceStuck(slot) == slot

Advance(slot) == (slot + 1) % MaxElems

Init ==
  /\ m_Packets = [i \in Slots |-> NoPacket]
  /\ m_Anfang = 0
  /\ m_DontHaveAPacketSince = 0
  /\ m_Silence = TRUE
  /\ arrived = 0
  /\ played = {}
  /\ disposed = {}

-----------------------------------------------------------------------------
(* The distance of a packet from the head, an unsigned int: a negative     *)
(* difference is a huge one.                                               *)
InRange(packet) ==
  \/ m_Packets[m_Anfang] = NoPacket
  \/ packet.seq - m_Packets[m_Anfang].seq \in Slots

Offset(packet) ==
  IF m_Packets[m_Anfang] = NoPacket
  THEN 0
  ELSE packet.seq - m_Packets[m_Anfang].seq

(* The slot a packet goes to.  A packet out of range, late or too early,   *)
(* takes the head slot and the head moves on, so that it ends up behind    *)
(* every other packet.                                                     *)
SlotFor(packet) ==
  IF InRange(packet) THEN (m_Anfang + Offset(packet)) % MaxElems ELSE m_Anfang

(* Mutated: the head moves the wrong way; the head does not move.          *)
HeadAfterAddBack(packet) ==
  IF InRange(packet)
  THEN m_Anfang
  ELSE (m_Anfang + MaxElems - 1) % MaxElems
HeadAfterAddStays(packet) == m_Anfang

HeadAfterAdd(packet) ==
  IF InRange(packet) THEN m_Anfang ELSE Advance(m_Anfang)

(* Mutated: the packet at the head is deleted. *)
DisposedHead(slot) == {m_Packets[m_Anfang]} \ {NoPacket}

(* The packet that was in the slot is deleted, whichever it is. *)
Disposed(slot) == {m_Packets[slot]} \ {NoPacket}

(* Any number may arrive: the network loses, repeats and reorders packets. *)
AddPacket(seq) ==
  LET packet == [id |-> arrived + 1, seq |-> seq]
      pos    == SlotFor(packet)
  IN /\ arrived < MaxArrivals
     /\ arrived' = arrived + 1
     /\ m_Anfang' = HeadAfterAdd(packet)
     /\ disposed' = disposed \cup Disposed(pos)
     /\ m_Packets' = [m_Packets EXCEPT ![pos] = packet]
     /\ UNCHANGED <<m_DontHaveAPacketSince, m_Silence, played>>

(* The count of empty reads saturates at DetectSilence: the code compares  *)
(* it with that number only.                                               *)
EmptyReads(packet) ==
  IF packet # NoPacket
  THEN 0
  ELSE IF m_DontHaveAPacketSince < DetectSilence
       THEN m_DontHaveAPacketSince + 1
       ELSE DetectSilence

(* Mutated: a packet does not end the silence. *)
SilenceNeverEnds(packet) ==
  m_Silence \/ EmptyReads(packet) >= DetectSilence

(* A packet ends the silence; DetectSilence empty reads begin it. *)
SilenceAfter(packet) ==
  \/ m_Silence /\ packet = NoPacket
  \/ EmptyReads(packet) >= DetectSilence

(* What GetPacket returns: nothing while silent. *)
Returned(packet) == IF SilenceAfter(packet) THEN NoPacket ELSE packet

GetPacket ==
  LET packet == m_Packets[m_Anfang]
      result == Returned(packet)
  IN /\ m_Packets' = [m_Packets EXCEPT ![m_Anfang] = NoPacket]
     /\ m_Anfang' = Advance(m_Anfang)
     /\ m_DontHaveAPacketSince' = EmptyReads(packet)
     /\ m_Silence' = SilenceAfter(packet)
     /\ played' = played \cup ({result} \ {NoPacket})
     /\ UNCHANGED <<arrived, disposed>>

Next ==
  \/ \E seq \in Numbers : AddPacket(seq)
  \/ GetPacket

Spec == Init /\ [][Next]_vars

(* The play thread is woken by the sound card for every period. *)
FairSpec == Spec /\ WF_vars(GetPacket)

-----------------------------------------------------------------------------
(* Every variable has its type. *)
TypeOK ==
  /\ m_Packets \in [Slots -> Packet \cup {NoPacket}]
  /\ m_Anfang \in Slots
  /\ m_DontHaveAPacketSince \in 0 .. DetectSilence
  /\ m_Silence \in BOOLEAN
  /\ arrived \in Nat
  /\ played \in SUBSET Packet
  /\ disposed \in SUBSET Packet

(* No packet is in two slots, and none is played or deleted while it is    *)
(* still buffered: the play thread deletes what it was given, so a shared  *)
(* pointer would be a double delete.                                       *)
NoSharing ==
  /\ \A i, j \in Slots :
       m_Packets[i] = m_Packets[j] /\ m_Packets[i] # NoPacket => i = j
  /\ Buffered \cap (played \cup disposed) = {}
  /\ played \cap disposed = {}

(* Every packet that arrived is accounted for: buffered, played or         *)
(* deleted.  A packet taken out of the ring and then not returned, because *)
(* the buffer is silent, would leak.                                       *)
NoLeak ==
  \A n \in 1 .. arrived :
    \E p \in Buffered \cup played \cup disposed : p.id = n

(* How many reads before a slot is at the head. *)
Distance(slot) == (slot + MaxElems - m_Anfang) % MaxElems

(* Latency is bounded: no step moves a buffered packet away from the head, *)
(* and a read moves every packet that stays one slot nearer.               *)
NearerToPlayout ==
  [][\A i \in Slots :
       m_Packets[i] # NoPacket /\ m_Packets'[i] = m_Packets[i] =>
         /\ Distance(i)' <= Distance(i)
         /\ arrived' = arrived => Distance(i)' = Distance(i) - 1]_vars

(* Nothing was lost, repeated or reordered, and the numbers did not wrap.  *)
ArrivedInOrder ==
  \A p, q \in Buffered \cup played \cup disposed :
    q.id = p.id + 1 => q.seq = p.seq + 1

(* The ring then holds the packets in the order in which they are to be    *)
(* played, also when it overflows: the oldest packet makes room.  A gap is *)
(* enough to break that: who finds the head slot empty takes it.           *)
RingInOrder ==
  ArrivedInOrder =>
    \A i, j \in Slots :
      /\ m_Packets[i] # NoPacket
      /\ m_Packets[j] # NoPacket
      /\ Distance(i) < Distance(j)
      => m_Packets[i].seq < m_Packets[j].seq

(* Nothing stays in the buffer for ever. *)
PacketsLeave ==
  \A n \in 1 .. MaxArrivals :
    (\E p \in Buffered : p.id = n) ~> ~(\E p \in Buffered : p.id = n)
=============================================================================
