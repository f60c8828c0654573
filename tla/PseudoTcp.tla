------------------------------- MODULE PseudoTcp -------------------------------
(***************************************************************************)
(* libjingle's TCP over an unreliable packet channel                       *)
(* (talk/p2p/base/pseudotcp.cc), two ends of it, with the reader and the   *)
(* writer that TunnelSession puts on top (tunnelsessionclient.cc).  Only   *)
(* the initiator connects.                                                 *)
(*                                                                         *)
(* A handler is a function from the control block to the control block:    *)
(* `tcb' has the fields of the class without their m_, and what is true    *)
(* for the time of one handler: `out', the packets it writes; `room', how  *)
(* many writes the socket still takes; `trouble', the outcome after that;  *)
(* `mtu', what the path takes; `cwnd', the congestion window.  Time is     *)
(* abstracted: a timer that runs may fire, and the congestion window is    *)
(* any value of at least one segment, which all of Reno's assignments to   *)
(* m_cwnd keep.                                                            *)
(***************************************************************************)
EXTENDS Integers, Sequences, FiniteSets, FiniteSetsExt

CONSTANTS
  BufSize,       \* BUF_SIZE, bytes of the send and of the receive buffer
  Maxima,        \* PACKET_MAXIMUMS less the headers: payload sizes, falling
  PathMtus,      \* the largest payloads the path may take, as it changes
  MaxXmit,       \* transmissions of a segment of an open connection (15)
  MaxXmitOpening, \* and of one that is not open yet (30)
  MaxProbes,     \* probes of a closed window in 15 seconds of silence
  MaxBytes,      \* bound: bytes the user of an end writes
  MaxNet,        \* bound: packets on their way to an end
  Mtus,          \* end -> what its NotifyMTU is told, less the headers
  Closers,       \* ends whose user may close the stream
  Rooms,         \* writes the socket takes in one handler
  Troubles       \* what it says then: "WR_BLOCKING", "WR_FAIL"

Ends == {"initiator", "responder"}
Peer(e) == CHOOSE f \in Ends : f # e

ASSUME TcpConstants ==
  /\ BufSize \in 1 .. 2^16 - 1 /\ PathMtus \subseteq Nat \ {0}
  /\ MaxNet \in [Ends -> Nat]
  /\ MaxXmit \in Nat \ {0} /\ MaxXmitOpening \in Nat \ {0}
  /\ MaxProbes \in Nat \ {0}
  /\ Maxima \in Seq(Nat \ {0}) /\ Maxima # <<>>
  /\ \A i \in 1 .. Len(Maxima) - 1 : Maxima[i] > Maxima[i + 1]
  /\ MaxBytes \in [Ends -> Nat]
  /\ Rooms \subseteq Nat /\ Mtus \in [Ends -> SUBSET (1 .. Maxima[1])]
  /\ Closers \subseteq Ends
  /\ Troubles \subseteq {"WR_BLOCKING", "WR_FAIL"}

(* F(x), where x is computed once.                                         *)
With(x, F(_)) == CHOOSE v \in {F(y) : y \in {x}} : TRUE

Connect == 0                        \* CTL_CONNECT, the byte a connection begins with
Junk    == -1                       \* what an address outside the data holds
LastMax == Maxima[Len(Maxima)]

Packet == [seq : Nat, ack : Nat, wnd : Nat, ctl : BOOLEAN,
           data : Seq(Nat \cup {Junk})]

VARIABLES
  tcb,           \* end -> control block
  net,           \* end -> packets on their way to it
  written,       \* end -> bytes its user has written; byte n has the value n
  read,          \* end -> bytes its user has read
  failed         \* end -> it gave the connection up, or ignored that a write failed

vars == <<tcb, net, written, read, failed>>

InFlight(x) == x.snd_nxt - x.snd_una
slen(x) == Len(x.sbuf)

(***************************************************************************)
(* packet(): what is written to the socket, and what the socket says.      *)
(***************************************************************************)
Header(x, seq, ctl, data) ==          \* the window has 16 bits
  [seq |-> seq, ack |-> x.rcv_nxt, wnd |-> x.rcv_wnd % 2^16, ctl |-> ctl, data |-> data]

Written(x, seq, ctl, data) ==
  [x EXCEPT !.out = @ \cup {Header(x, seq, ctl, data)},
            !.room = @ - 1, !.t_ack = FALSE]

(* An empty packet; what the socket says is not looked at.                 *)
Ack(x, seq) == IF x.room = 0 THEN x ELSE Written(x, seq, FALSE, <<>>)

(* The bytes of the send buffer that begin at number seq.                  *)
Bytes(x, seq, n) ==
  [k \in 1 .. n |-> LET i == seq - x.snd_una + k
                    IN IF i \in DOMAIN x.sbuf THEN x.sbuf[i] ELSE Junk]

(***************************************************************************)
(* transmit(): one segment, cut to what the path takes.                    *)
(***************************************************************************)
Smaller(x, n) ==
  {l \in x.msslevel + 1 .. Len(Maxima) : Maxima[l] < n /\ Maxima[l] <= x.mtu}

AtLevel(x, l) ==
  IF l = x.msslevel THEN x
  ELSE [x EXCEPT !.msslevel = l, !.mss = Maxima[l], !.cwnd = 2 * Maxima[l]]

XmitLimit(x) == IF x.state = "TCP_ESTABLISHED" THEN MaxXmit ELSE MaxXmitOpening

(* Mutated: the rest keeps the number of the whole.                        *)
SegmentCutAnywhere(seg, n, sent) ==
  <<[seg EXCEPT !.len = n, !.xmit = @ + sent]>> \o
  (IF n < seg.len THEN <<[seg EXCEPT !.len = @ - n]>> ELSE <<>>)

(* The segment after n of its bytes were sent, and the rest of it.         *)
SegmentCut(seg, n, sent) ==
  <<[seg EXCEPT !.len = n, !.xmit = @ + sent]>> \o
  (IF n < seg.len THEN <<[seg EXCEPT !.seq = @ + n, !.len = @ - n]>> ELSE <<>>)

Replaced(list, i, part) ==
  SubSeq(list, 1, i - 1) \o part \o SubSeq(list, i + 1, Len(list))

(* Mutated: the timer is not started.                                      *)
BlockedForEver(x) == x

(* The socket is full.  With data under way its acknowledgments will be    *)
(* the occasion to go on; with none, the timer is.                         *)
Blocked(x) == [x EXCEPT !.rto_base = @ \/ InFlight(x) = 0]

Transmit(x, i) ==
  LET seg   == x.slist[i]
      tried == seg.xmit >= XmitLimit(x)
      want  == Min({seg.len, x.mss})
      fits  == want <= x.mtu
      y     == IF fits \/ x.room = 0 THEN x
               ELSE IF Smaller(x, want) = {} THEN AtLevel(x, Len(Maxima))
               ELSE AtLevel(x, Min(Smaller(x, want)))
      n     == IF fits THEN want ELSE y.mss
  IN CASE tried \/ (x.room = 0 /\ x.trouble = "WR_FAIL") ->
            [result |-> "trFail", x |-> x]
       [] ~tried /\ x.room = 0 /\ x.trouble # "WR_FAIL" ->
            [result |-> "trWait", x |-> Blocked(x)]
       [] ~tried /\ x.room > 0 /\ ~fits /\ Smaller(x, want) = {} ->
            [result |-> "trFail", x |-> y]
       [] OTHER ->
            [result |-> "trOK",
             x |-> [Written(y, seg.seq, seg.ctl, Bytes(x, seg.seq, n)) EXCEPT
                      !.slist = Replaced(@, i, SegmentCut(seg, n, 1)),
                      !.snd_nxt = IF seg.xmit = 0 THEN @ + n ELSE @,
                      !.rto_base = TRUE]]

(***************************************************************************)
(* closedown()                                                             *)
(***************************************************************************)
Closedown(x) == [x EXCEPT !.sbuf = <<>>, !.state = "TCP_CLOSED"]

(* A retransmission whose failure ends the connection.  `forced' remembers *)
(* that it sent new bytes beyond the window that the peer has told.        *)
Forced(x, t) == t.result = "trOK" /\ x.slist[1].xmit = 0 /\ InFlight(t.x) > x.snd_wnd

Retransmit(x) ==
  With(Transmit(x, 1), LAMBDA t :
         IF t.result = "trFail" THEN Closedown(t.x)
         ELSE [t.x EXCEPT !.forced = @ \/ Forced(x, t)])

(***************************************************************************)
(* attemptSend(): segments as long as the windows allow, or an             *)
(* acknowledgment.  SendOne is the body of its loop; `sflags' says what is *)
(* asked for, and "return" ends the loop.                                  *)
(***************************************************************************)
LimitedTransmit(x) == IF x.dup_acks \in {1, 2} THEN x.dup_acks * x.mss ELSE 0

Window(x) == Min({x.snd_wnd, x.cwnd + LimitedTransmit(x)})

(* Mutated: segments are not held back by the peer's window.               *)
AvailableAnyway(x) == Min({slen(x) - InFlight(x), x.mss})

Available(x) ==
  LET useable == Max({Window(x) - InFlight(x), 0})
      ready   == Min({slen(x) - InFlight(x), x.mss})
  IN IF ready <= useable THEN ready
     ELSE IF useable * 4 < x.snd_wnd THEN 0 ELSE useable

Acknowledge(x) ==
  IF x.sflags = "sfNone" THEN x
  ELSE IF x.sflags = "sfImmediateAck" \/ x.t_ack THEN Ack(x, x.snd_nxt)
  ELSE [x EXCEPT !.t_ack = TRUE]

SendOne(x) ==
  LET n     == Available(x)
      i     == CHOOSE j \in DOMAIN x.slist :
                 /\ x.slist[j].xmit = 0
                 /\ \A k \in 1 .. j - 1 : x.slist[k].xmit > 0
      split == [x EXCEPT !.slist = Replaced(@, i, SegmentCut(@[i], Min({n, @[i].len}), 0))]
  IN CASE x.sflags = "return" -> x
       [] x.sflags # "return" /\ n = 0 -> [Acknowledge(x) EXCEPT !.sflags = "return"]
       [] x.sflags # "return" /\ n # 0 /\ InFlight(x) > 0 /\ n < x.mss ->
            [x EXCEPT !.sflags = "return"]                        \* Nagle
       [] OTHER -> With(Transmit(split, i), LAMBDA t :
            [t.x EXCEPT !.sflags = IF t.result = "trOK" THEN "sfNone" ELSE "return",
                        !.ignored = @ \/ t.result = "trFail"])

AttemptSend(x, sflags) ==
  LET sending[n \in 0 .. BufSize + 1] ==
        IF n = 0 THEN [x EXCEPT !.sflags = sflags] ELSE With(sending[n - 1], SendOne)
  IN sending[BufSize + 1]

(***************************************************************************)
(* queue(): bytes into the send buffer.                                    *)
(***************************************************************************)
Lengthened(list, n) == [list EXCEPT ![Len(list)].len = @ + n]

Queued(x, data, ctl) ==
  LET n    == Min({Len(data), BufSize - slen(x)})
      last == x.slist[Len(x.slist)]
  IN [x EXCEPT
        !.sbuf = @ \o SubSeq(data, 1, n),
        !.slist = IF @ # <<>> /\ last.ctl = ctl /\ last.xmit = 0
                  THEN Lengthened(@, n)
                  ELSE Append(@, [seq |-> x.snd_una + slen(x), len |-> n,
                                  xmit |-> 0, ctl |-> ctl])]

(* adjustMTU()                                                             *)
AdjustMtu(x) ==
  [x EXCEPT !.mss = x.mtu_advise,
            !.msslevel = Min({l \in 1 .. Len(Maxima) :
                              Maxima[l] <= x.mtu_advise \/ l = Len(Maxima)}),
            !.cwnd = Max({@, x.mtu_advise})]

(* The connection opens: the user may read and write (SE_OPEN | SE_READ |  *)
(* SE_WRITE, unless he has closed the stream).                             *)
Opened(x) ==
  [AdjustMtu(x) EXCEPT !.state = "TCP_ESTABLISHED",
                       !.canRead = ~x.shutdown, !.canWrite = ~x.shutdown]

(***************************************************************************)
(* process(), part by part.                                                *)
(***************************************************************************)
ConnectPart(x, p) ==
  CASE p.ctl /\ x.state = "TCP_LISTEN" ->
         Queued([x EXCEPT !.state = "TCP_SYN_RECEIVED"], <<Connect>>, TRUE)
    [] p.ctl /\ x.state = "TCP_SYN_SENT" -> Opened(x)
    [] OTHER -> x

(* The bytes of the first k segments.                                      *)
Offsets(list) ==
  LET sum[k \in 0 .. Len(list)] == IF k = 0 THEN 0 ELSE sum[k - 1] + list[k].len
  IN sum

(* Segments leave the list as their bytes are acknowledged.  The number of *)
(* a segment that is acknowledged in part is not moved.                    *)
Freed(list, n) ==
  LET gone == Max({k \in 0 .. Len(list) : Offsets(list)[k] <= n})
      part == n - Offsets(list)[gone]
  IN [i \in 1 .. Len(list) - gone |->
        IF i = 1 THEN [list[gone + 1] EXCEPT !.len = @ - part] ELSE list[gone + i]]

(* NewReno: out of recovery, or the next hole.                             *)
Recovery(x) ==
  IF x.dup_acks < 3 \/ x.snd_una >= x.recover THEN [x EXCEPT !.dup_acks = 0]
  ELSE Retransmit(x)

NewAck(x, p) ==
  LET n == p.ack - x.snd_una
      a == [x EXCEPT !.snd_wnd = p.wnd, !.snd_una = p.ack,
                     !.rto_base = p.ack # x.snd_nxt,
                     !.sbuf = SubSeq(@, n + 1, Len(@)),
                     !.slist = Freed(@, n)]
      y == With(a, Recovery)
      z == IF y.state = "TCP_SYN_RECEIVED" /\ ~p.ctl THEN Opened(y) ELSE y
  IN IF y.state = "TCP_CLOSED" THEN y
     ELSE IF z.writeEnable /\ slen(z) < (BufSize * 2) \div 3
     THEN [z EXCEPT !.writeEnable = FALSE, !.canWrite = ~x.shutdown]
     ELSE z

(* m_dup_acks is a uint8: the third repetition of an acknowledgement, and  *)
(* the third after each wrap, is a fast retransmit; the others above only  *)
(* change the congestion window.                                           *)
OldAck(x, p) ==
  LET y == [x EXCEPT !.snd_wnd = p.wnd]
      d == [y EXCEPT !.dup_acks = (@ + 1) % 256]
  IN CASE p.data # <<>> -> y
       [] p.data = <<>> /\ InFlight(x) = 0 -> [y EXCEPT !.dup_acks = 0]
       [] p.data = <<>> /\ InFlight(x) # 0 /\ x.dup_acks = 2 ->
            LET r == Retransmit(d)
            IN IF r.state = "TCP_CLOSED" THEN r ELSE [r EXCEPT !.recover = r.snd_nxt]
       [] OTHER -> d

AckPart(x, p) ==
  CASE p.ack > x.snd_una /\ p.ack <= x.snd_nxt -> NewAck(x, p)
    [] p.ack = x.snd_una -> OldAck(x, p)
    [] OTHER -> x

(* Mutated: nothing is cut from the front of a segment.                    *)
TrimmedBehind(x, p) ==
  [seq |-> Max({p.seq, x.rcv_nxt}),
   data |-> SubSeq(p.data, 1, Min({Len(p.data), BufSize - x.rlen}))]

(* The part of a segment that is new and that the receive buffer takes.    *)
Trimmed(x, p) ==
  LET old  == Min({Max({x.rcv_nxt - p.seq, 0}), Len(p.data)})
      seq  == Max({p.seq, x.rcv_nxt})
      kept == Len(p.data) - old
      over == Max({seq + kept - x.rcv_nxt - (BufSize - x.rlen), 0})
  IN [seq |-> seq, data |-> SubSeq(p.data, old + 1, old + Max({kept - over, 0}))]

Stored(x, s) ==
  [x EXCEPT !.rbuf = [k \in 1 .. BufSize |->
     LET i == k - (x.rlen + s.seq - x.rcv_nxt)
     IN IF i \in DOMAIN s.data THEN s.data[i] ELSE x.rbuf[k]]]

(* Where the saved segments let the stream go on to from n.                *)
Reached(saved, n) ==
  Min({m \in {n} \cup {r.seq + r.len : r \in saved} :
         m >= n /\ \A r \in saved : ~(r.seq <= m /\ m < r.seq + r.len)})

DataPart(x, p) ==
  LET s    == Trimmed(x, p)
      next == x.rcv_nxt + Len(s.data)
      to   == Reached(x.rlist, next)
      new  == to - x.rcv_nxt
  IN CASE s.data = <<>> -> x
       [] s.data # <<>> /\ (p.ctl \/ x.shutdown) ->
            IF s.seq = x.rcv_nxt THEN [x EXCEPT !.rcv_nxt = next] ELSE x
       [] s.data # <<>> /\ ~(p.ctl \/ x.shutdown) /\ s.seq = x.rcv_nxt ->
            [Stored(x, s) EXCEPT
               !.rlen = @ + new, !.rcv_nxt = to, !.rcv_wnd = @ - new,
               !.rlist = {r \in @ : r.seq > to},
               !.sflags = IF to > next THEN "sfImmediateAck" ELSE @,
               !.newData = TRUE]
       [] OTHER ->
            [Stored(x, s) EXCEPT
               !.rlist = @ \cup {[seq |-> s.seq, len |-> Len(s.data)]}]

AckWanted(x, p) ==
  IF p.seq # x.rcv_nxt THEN "sfImmediateAck"
  ELSE IF p.data # <<>> THEN "sfDelayedAck" ELSE "sfNone"

NotifyReadable(x) ==
  IF x.newData /\ x.readEnable
  THEN [x EXCEPT !.readEnable = FALSE, !.canRead = ~x.shutdown]
  ELSE x

Processed(x, p) ==
  IF x.state = "TCP_CLOSED" THEN x
  ELSE With(AckPart(ConnectPart([x EXCEPT !.probes = 0], p), p), LAMBDA y :
         IF y.state = "TCP_CLOSED" THEN y
         ELSE With(DataPart([y EXCEPT !.sflags = AckWanted(y, p)], p), LAMBDA z :
                NotifyReadable(AttemptSend(z, z.sflags))))

(***************************************************************************)
(* check(): the owner deletes a connection that its user closed once all   *)
(* is sent and acknowledged.                                               *)
(***************************************************************************)
Block0 ==
  [state |-> "TCP_LISTEN", shutdown |-> FALSE,
   sbuf |-> <<>>, slist |-> <<>>, snd_una |-> 0, snd_nxt |-> 0, snd_wnd |-> 1,
   rbuf |-> [k \in 1 .. BufSize |-> Junk], rlen |-> 0, rlist |-> {},
   rcv_nxt |-> 0, rcv_wnd |-> BufSize,
   readEnable |-> TRUE, writeEnable |-> FALSE, t_ack |-> FALSE, rto_base |-> FALSE,
   mss |-> LastMax, msslevel |-> 1, mtu_advise |-> Maxima[1],
   dup_acks |-> 0, recover |-> 0, probes |-> 0,
   canRead |-> FALSE, canWrite |-> FALSE, forced |-> FALSE,
   out |-> {}, room |-> 0, trouble |-> "WR_BLOCKING", mtu |-> 0, cwnd |-> 0,
   sflags |-> "sfNone", newData |-> FALSE, ignored |-> FALSE]

Checked(x) ==
  IF /\ x.shutdown
     /\ x.state # "TCP_ESTABLISHED" \/ (x.sbuf = <<>> /\ ~x.t_ack)
  THEN [Block0 EXCEPT !.state = "DELETED", !.shutdown = TRUE,
                      !.out = x.out,
                      !.ignored = x.ignored \/ x.state = "TCP_CLOSED"]
  ELSE x

(* What a handler meets: what the socket takes, and the congestion window. *)
Links(e) ==
  {link \in [room : Rooms, trouble : Troubles, mtu : PathMtus,
             cwnd : tcb[e].mss .. Max({BufSize, tcb[e].mss})] :
     link.room = 0 => link.mtu = Max(PathMtus)}      \* no packet, no matter

Handling(e, link) ==
  [tcb[e] EXCEPT !.room = link.room, !.trouble = link.trouble,
                 !.mtu = link.mtu, !.cwnd = link.cwnd]

(* The end of a handler: what it wrote is on its way, or lost.             *)
Done(e, x) ==
  /\ tcb' = [tcb EXCEPT ![e] =
       [x EXCEPT !.out = {}, !.room = 0, !.trouble = "WR_BLOCKING",
                 !.mtu = 0, !.cwnd = 0, !.sflags = "sfNone", !.newData = FALSE, !.ignored = FALSE]]
  /\ failed' = [failed EXCEPT ![e] = @ \/ x.ignored \/ x.state = "TCP_CLOSED"]

Sent(e, x, before) ==
  \E kept \in SUBSET x.out :
    /\ Cardinality(before[Peer(e)] \cup kept) <= MaxNet[Peer(e)]
    /\ net' = [before EXCEPT ![Peer(e)] = @ \cup kept]

(***************************************************************************)
(* The worker thread.                                                      *)
(***************************************************************************)
(* P2PSocket::STATE_WRITABLE at the initiator; a second one is EINVAL.     *)
ConnectAction(link) ==
  LET x == [Handling("initiator", link) EXCEPT !.state = "TCP_SYN_SENT"]
  IN /\ tcb["initiator"].state = "TCP_LISTEN"
     /\ \E y \in {AttemptSend(Queued(x, <<Connect>>, TRUE), "sfNone")} :
          Done("initiator", Checked(y)) /\ Sent("initiator", y, net)
     /\ UNCHANGED <<written, read>>

(* An end that is DELETED does nothing more.  A packet that reaches it     *)
(* when the tunnel's socket is gone is dropped; before, OnSocketRead finds *)
(* no tcp_ (tunnelsessionclient.cc:464) and the process ends.  To the      *)
(* other end both are a packet without an answer.                          *)
NotifyPacket(e, p, link) ==
  LET before == [net EXCEPT ![e] = @ \ {p}]
  IN /\ p \in net[e]
     /\ IF tcb[e].state = "DELETED"
        THEN UNCHANGED <<tcb, failed>> /\ net' = before
        ELSE \E y \in {With(Handling(e, link), LAMBDA x : Processed(x, p))} :
               Done(e, Checked(y)) /\ Sent(e, y, before)
     /\ UNCHANGED <<written, read>>

Expired(x, timer) ==
  CASE timer = "rto" -> Retransmit(x)
    [] timer = "probe" ->
         IF x.probes = MaxProbes THEN Closedown(x)
         ELSE [Ack(x, x.snd_nxt - 1) EXCEPT !.probes = @ + 1]
    [] timer = "ack" -> Ack(x, x.snd_nxt)

Running(x, timer) ==
  CASE timer = "rto" -> x.rto_base /\ x.slist # <<>>
    [] timer = "probe" -> x.snd_wnd = 0
    [] timer = "ack" -> x.t_ack

Timers == {"rto", "probe", "ack"}

NotifyClock(e, timer, link) ==
  /\ tcb[e].state \notin {"TCP_CLOSED", "DELETED"}
  /\ Running(tcb[e], timer)
  /\ \E y \in {Expired(Handling(e, link), timer)} :
       Done(e, Checked(y)) /\ Sent(e, y, net)
  /\ UNCHANGED <<written, read>>

NotifyMtu(e, mtu) ==
  LET x == [tcb[e] EXCEPT !.mtu_advise = mtu]
  IN /\ tcb[e].mtu_advise # mtu
     /\ x.state # "DELETED"
     /\ tcb' = [tcb EXCEPT ![e] =
          [(IF x.state = "TCP_ESTABLISHED" THEN AdjustMtu(x) ELSE x) EXCEPT !.cwnd = 0]]
     /\ UNCHANGED <<net, written, read, failed>>

(***************************************************************************)
(* The user of the stream.  He writes or reads when an event said so, until*)
(* the stream says that it would block.                                    *)
(***************************************************************************)
SendFull(e) ==
  /\ tcb[e].canWrite /\ tcb[e].state = "TCP_ESTABLISHED"
  /\ written[e] < MaxBytes[e]
  /\ slen(tcb[e]) = BufSize
  /\ tcb' = [tcb EXCEPT ![e].writeEnable = TRUE, ![e].canWrite = FALSE]
  /\ UNCHANGED <<net, written, read, failed>>

Send(e, n, link) ==
  LET took == Min({n, BufSize - slen(tcb[e])})
      x    == Queued(Handling(e, link), [k \in 1 .. n |-> written[e] + k], FALSE)
  IN /\ tcb[e].canWrite /\ tcb[e].state = "TCP_ESTABLISHED"
     /\ written[e] + n <= MaxBytes[e]
     /\ slen(tcb[e]) < BufSize
     /\ \E y \in {With(x, LAMBDA q : AttemptSend(q, "sfNone"))} :
          Done(e, y) /\ Sent(e, y, net)
     /\ written' = [written EXCEPT ![e] = @ + took]
     /\ UNCHANGED read

RecvEmpty(e) ==
  /\ tcb[e].canRead /\ tcb[e].state = "TCP_ESTABLISHED"
  /\ tcb[e].rlen = 0
  /\ tcb' = [tcb EXCEPT ![e].readEnable = TRUE, ![e].canRead = FALSE]
  /\ UNCHANGED <<net, written, read, failed>>

(* The buffer after the first n bytes were taken, and the window that      *)
(* opens when half the buffer or a segment is free.                        *)
Taken(x, n) ==
  LET y == [x EXCEPT
              !.rlen = @ - n,
              !.rbuf = [k \in 1 .. BufSize |-> IF k + n <= BufSize THEN @[k + n] ELSE Junk]]
  IN IF BufSize - y.rlen - y.rcv_wnd >= Min({BufSize \div 2, y.mss})
     THEN [y EXCEPT !.rcv_wnd = BufSize - y.rlen]
     ELSE y

Recv(e, len, link) ==
  LET x == tcb[e]
      n == Min({len, x.rlen})
      z(y) == IF x.rcv_wnd = 0 /\ y.rcv_wnd # 0
              THEN AttemptSend(y, "sfImmediateAck") ELSE y
  IN /\ x.canRead /\ x.state = "TCP_ESTABLISHED"
     /\ x.rlen > 0
     /\ \E y \in {With(Taken(Handling(e, link), n), z)} :
          Done(e, y) /\ Sent(e, y, net)
     /\ read' = [read EXCEPT ![e] = @ \o SubSeq(x.rbuf, 1, n)]
     /\ UNCHANGED written

Close(e) ==
  /\ ~tcb[e].shutdown
  /\ Done(e, Checked([tcb[e] EXCEPT !.shutdown = TRUE, !.canRead = FALSE,
                                    !.canWrite = FALSE]))
  /\ UNCHANGED <<net, written, read>>

Init ==
  /\ tcb = [e \in Ends |-> Block0]
  /\ net = [e \in Ends |-> {}]
  /\ written = [e \in Ends |-> 0]
  /\ read = [e \in Ends |-> <<>>]
  /\ failed = [e \in Ends |-> FALSE]

Next ==
  \/ \E link \in Links("initiator") : ConnectAction(link)
  \/ \E e \in Ends :
       \/ \E link \in Links(e) :
            \/ \E p \in net[e] : NotifyPacket(e, p, link)
            \/ \E timer \in Timers : NotifyClock(e, timer, link)
            \/ \E n \in 1 .. MaxBytes[e] : Send(e, n, link)
            \/ \E n \in 1 .. BufSize : Recv(e, n, link)
       \/ \E mtu \in Mtus[e] : NotifyMtu(e, mtu)
       \/ SendFull(e)
       \/ RecvEmpty(e)
  \/ \E e \in Closers : Close(e)

Spec == Init /\ [][Next]_vars

(***************************************************************************)
(* Properties.                                                             *)
(***************************************************************************)
Segments == [seq : Nat, len : Nat \ {0}, xmit : Nat, ctl : BOOLEAN]

(* Both ends keep their types, and neither buffer takes more than it can.  *)
TypeOK ==
  \A e \in Ends : LET x == tcb[e]
    IN /\ x.state \in {"TCP_LISTEN", "TCP_SYN_SENT", "TCP_SYN_RECEIVED",
                       "TCP_ESTABLISHED", "TCP_CLOSED", "DELETED"}
       /\ x.sbuf \in Seq(Int) /\ x.slist \in Seq(Segments)
       /\ x.snd_una \in Nat /\ x.snd_nxt \in Nat /\ x.snd_wnd \in Nat
       /\ x.rcv_nxt \in Nat /\ x.rcv_wnd \in Int
       /\ x.mss \in Nat \ {0} /\ x.msslevel \in 1 .. Len(Maxima)
       /\ x.state \notin {"TCP_CLOSED", "DELETED"} => slen(x) <= BufSize
       /\ x.state # "DELETED" => x.rlen \in 0 .. BufSize
       /\ written[e] \in Nat /\ read[e] \in Seq(Int)
       /\ \A p \in net[e] : /\ p.seq \in Int /\ p.ack \in Nat /\ p.wnd \in Nat
                            /\ p.data \in Seq(Int)

(* The segments are the send buffer, cut without a gap from the first      *)
(* unacknowledged byte on: process() takes as many bytes from the one as   *)
(* from the other, and transmit() finds a segment's bytes by its number.   *)
(* This holds until NotifyClock forces new bytes through a closed window:  *)
(* the timer that a blocked write started sends a segment that was never   *)
(* sent, and the peer may acknowledge the middle of it.                    *)
SegmentsAreTheBuffer ==
  \A e \in Ends : LET x == tcb[e]
    IN x.state # "TCP_CLOSED" /\ ~x.forced =>
         /\ Offsets(x.slist)[Len(x.slist)] = slen(x)
         /\ \A i \in DOMAIN x.slist : x.slist[i].seq = x.snd_una + Offsets(x.slist)[i - 1]

(* What is sent fits the peer's buffer: it never cuts a segment's end off. *)
(* This too holds until NotifyClock sends new bytes beyond the window.     *)
WindowIsKept ==
  \A e \in Ends : LET y == tcb[Peer(e)]
    IN ~tcb[e].forced /\ y.state # "DELETED" => tcb[e].snd_nxt <= y.rcv_nxt + BufSize - y.rlen

(* What is read is what was written, in order, without gap or repetition.  *)
StreamIsIntact ==
  \A e \in Ends :
    /\ Len(read[e]) <= written[Peer(e)]
    /\ \A k \in DOMAIN read[e] : read[e][k] = k

(* Something will move what is not read yet, also after the writer closed  *)
(* the stream: a timer of the writer while it has unacknowledged bytes,    *)
(* then an event the reader was given, or the timer that still opens his   *)
(* end; and a writer who was told to wait waits for a full buffer.  An end *)
(* that gave up, ignored a failed write or closed its side is excused.     *)
NothingStalls ==
  \A e \in Ends :
    LET x == tcb[e]
        y == tcb[Peer(e)]
    IN /\ (/\ ~failed[e] /\ ~failed[Peer(e)] /\ ~y.shutdown
           /\ Len(read[Peer(e)]) < written[e]) =>
            IF x.sbuf # <<>> THEN Running(x, "rto") \/ Running(x, "probe")
            ELSE y.canRead \/ Running(y, "rto")
       /\ (x.state = "TCP_ESTABLISHED" /\ ~x.shutdown /\ ~x.canWrite) =>
            x.writeEnable /\ slen(x) * 3 >= BufSize * 2 - 2
=============================================================================
