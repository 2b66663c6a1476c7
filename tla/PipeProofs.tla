------------------------------ MODULE PipeProofs ------------------------------
(***************************************************************************)
(* Theorems about the two ends of the named pipe: the server in the DLL,   *)
(* IpcServer.tla, for every set of producers, size of the queue and number *)
(* of clients; and the calls of the bridge, ActionExchange.tla, for every  *)
(* set of calls, every way of giving them ids, every backlog limit and any *)
(* number of connections.                                                  *)
(***************************************************************************)
EXTENDS IpcServer, ActionExchange, FiniteSetTheorems, SequenceTheorems, TLAPS

-----------------------------------------------------------------------------
\* The numbers of a set below one of its members.
Below(S, n) == {m \in S : m < n}

\* A nonempty set of naturals has a least element.
LEMMA LeastOf ==
    ASSUME NEW S, S \subseteq Nat, S # {}
    PROVE  \E n \in S : \A m \in S : n <= m
<1>1. PICK top \in S : top \in Nat OBVIOUS
<1>2. PICK T : T = {Below(S, n) : n \in {m \in S : m <= top}} OBVIOUS
<1>3. IsFiniteSet(0 .. top) BY <1>1, FS_Interval
<1>4. IsWellFoundedOn(StrictSubsetOrdering(0 .. top), FiniteSubsetsOf(0 .. top))
  BY FS_StrictSubsetOrderingWellFounded
<1>5. FiniteSubsetsOf(0 .. top) = SUBSET (0 .. top) BY <1>3, FS_FiniteSubsetsOfFinite
<1>6. \A n \in S : n <= top => Below(S, n) \in SUBSET (0 .. top)
  <2> SUFFICES ASSUME NEW n \in S, n <= top, NEW m \in S, m < n PROVE m \in 0 .. top
      BY DEF Below
  <2> QED BY <1>1
<1>7. T \subseteq FiniteSubsetsOf(0 .. top) BY <1>2, <1>5, <1>6
<1>8. T # {}
  <2>1. top \in {m \in S : m <= top} BY <1>1
  <2>2. Below(S, top) \in T BY <1>2, <2>1
  <2> QED BY <2>2
<1>9. PICK x \in T : \A y \in T : ~(<<y, x>> \in StrictSubsetOrdering(0 .. top))
  BY <1>4, <1>7, <1>8, WFMin
<1>10. PICK n \in S : n <= top /\ x = Below(S, n) BY <1>2
<1>11. \A m \in S : ~(m < n)
  <2> SUFFICES ASSUME NEW m \in S, m < n PROVE FALSE OBVIOUS
  <2>1. m <= top BY <1>1, <1>10
  <2>2. Below(S, m) \in T BY <1>2, <2>1
  <2>3. Below(S, m) \subseteq Below(S, n)
    <3> SUFFICES ASSUME NEW k \in S, k < m PROVE k < n BY DEF Below
    <3> QED OBVIOUS
  <2>4. m \in Below(S, n) /\ m \notin Below(S, m)
    <3>1. ~(m < m) OBVIOUS
    <3> QED BY <3>1 DEF Below
  <2>5. <<Below(S, m), Below(S, n)>> \in StrictSubsetOrdering(0 .. top)
    BY <1>6, <1>10, <2>1, <2>3, <2>4 DEF StrictSubsetOrdering
  <2> QED BY <1>9, <1>10, <2>2, <2>5
<1> QED BY <1>11

\* What Send queues: the hello has stamp 0 and never passes the queue.
Frames == [stamp : Nat \ {0}, prio : 0 .. 3]

\* The steps of the sender that hold a frame it has popped.
Holds == sender \in {"check", "lock", "writing"}

\* Frame f may be sent before frame g.
Behind(f, g) == f.prio <= g.prio => f.stamp < g.stamp

\* The queue is in the order of its stamps.
Ordered(q) == \A i, j \in DOMAIN q : i < j => q[i].stamp < q[j].stamp

\* Types of the frames on their way.
FramesTyped ==
    /\ stamps \in Nat /\ sends \in Nat
    /\ g_outboundQueue \in Seq(Frames)
    /\ send \in [Producers -> [stamp : Nat, prio : 0 .. 3]]
    /\ received \in [Sessions -> Seq(Frames \cup {Hello})]
    /\ Holds => sending \in Frames

\* A session's number is not used again, and only a listening pipe begins one.
SessionsInOrder ==
    /\ session \in 0 .. MaxSessions
    /\ \A s \in Sessions : s > session => received[s] = <<>>
    /\ ipc \in {"create", "exited"} => g_pipe = "none"
    /\ g_pipe = "listening" => ipc = "waiting"

\* How far the handshake with the client of the pipe has come.
HandshakeFirst ==
    /\ ipc \in {"waiting", "hello"} /\ g_pipe = "connected" =>
          session \in Sessions /\ received[session] = <<>>
    /\ ipc \in {"await", "admit", "reading", "ending", "clearing", "closing"} =>
          session \in Sessions /\ received[session] # <<>>
    /\ ipc \in {"admit", "reading", "ending", "clearing", "closing"} => session \in admitted

\* The flag is only up in an admitted session, and a write holds off its end.
FlagMeansAdmitted ==
    /\ g_clientConnected => ipc \in {"reading", "ending"}
    /\ sender = "writing" => ipc \in {"reading", "ending", "clearing", "closing"}

SessionInv ==
    /\ FramesTyped /\ SessionsInOrder /\ HandshakeFirst /\ FlagMeansAdmitted
    /\ OnlyAdmittedServed

\* The queue is ordered by age.
QueueOrdered ==
    /\ Ordered(g_outboundQueue)
    /\ \A i \in DOMAIN g_outboundQueue : g_outboundQueue[i].stamp <= stamps

\* The sender's frame need not wait for any in the queue.
PoppedFirst ==
    Holds => /\ sending.stamp <= stamps
             /\ \A i \in DOMAIN g_outboundQueue : Behind(sending, g_outboundQueue[i])

\* Nor does a frame that was sent have to wait for any that was not.
SentFirst ==
    \A s \in Sessions : \A k \in 2 .. Len(received[s]) :
        /\ received[s][k].stamp <= stamps
        /\ Holds => Behind(received[s][k], sending)
        /\ \A i \in DOMAIN g_outboundQueue : Behind(received[s][k], g_outboundQueue[i])

OrderInv == QueueOrdered /\ PoppedFirst /\ SentFirst /\ NoOvertaking

-----------------------------------------------------------------------------
(* The queue.                                                               *)

\* Taking a member out leaves the others as they were.
LEMMA RemovedAt ==
    ASSUME NEW S, NEW q \in Seq(S), NEW h \in DOMAIN q
    PROVE  /\ RemoveAt(q, h) \in Seq(S) /\ Len(RemoveAt(q, h)) = Len(q) - 1
           /\ \A k \in 1 .. Len(q) - 1 :
                 RemoveAt(q, h)[k] = IF k < h THEN q[k] ELSE q[k + 1]
<1> DEFINE front == SubSeq(q, 1, h - 1)
           back == SubSeq(q, h + 1, Len(q))
<1>1. Len(q) \in Nat /\ h \in 1 .. Len(q) /\ \A k \in 1 .. Len(q) : q[k] \in S
  BY LenProperties, ElementOfSeq
<1>2. front \in Seq(S) /\ Len(front) = h - 1 /\ \A k \in 1 .. h - 1 : front[k] = q[k]
  <2>1. \A k \in 1 .. h - 1 : q[k] \in S BY <1>1
  <2> QED BY <1>1, <2>1, SubSeqProperties
<1>3. /\ back \in Seq(S) /\ Len(back) = Len(q) - h
      /\ \A k \in 1 .. Len(q) - h : back[k] = q[h + k]
  <2>1. \A k \in h + 1 .. Len(q) : q[k] \in S BY <1>1
  <2>2. /\ back \in Seq(S)
        /\ Len(back) = IF h + 1 <= Len(q) THEN Len(q) - (h + 1) + 1 ELSE 0
        /\ \A k \in 1 .. Len(q) - (h + 1) + 1 : back[k] = q[h + 1 + k - 1]
    BY <1>1, <2>1, SubSeqProperties
  <2> QED BY <1>1, <2>2
<1>4. /\ front \o back \in Seq(S)
      /\ Len(front \o back) = Len(front) + Len(back)
      /\ \A k \in 1 .. Len(front) + Len(back) :
            (front \o back)[k] = IF k <= Len(front) THEN front[k] ELSE back[k - Len(front)]
  BY <1>2, <1>3, ConcatProperties
<1> HIDE DEF front, back
<1>5. ASSUME NEW k \in 1 .. Len(q) - 1
      PROVE  (front \o back)[k] = IF k < h THEN q[k] ELSE q[k + 1]
  <2>0. h \in Nat /\ k \in Nat /\ k \in 1 .. Len(front) + Len(back)
    BY <1>1, <1>2, <1>3, <1>5
  <2>1. CASE k < h
    <3>1. k <= Len(front) /\ k \in 1 .. h - 1 BY <2>0, <2>1, <1>1, <1>2, <1>5
    <3>2. (front \o back)[k] = front[k] BY <2>0, <3>1, <1>4
    <3>3. front[k] = q[k] BY <3>1, <1>2
    <3> QED BY <2>1, <3>2, <3>3
  <2>2. CASE k >= h
    <3>1. (front \o back)[k] = back[k - (h - 1)]
      <4>1. ~(k <= Len(front)) BY <2>0, <2>2, <1>2
      <4> QED BY <2>0, <4>1, <1>2, <1>4
    <3>2. k - (h - 1) \in 1 .. Len(q) - h BY <2>0, <2>2, <1>1, <1>5
    <3>3. back[k - (h - 1)] = q[h + (k - (h - 1))] BY <1>3, <3>2
    <3>4. h + (k - (h - 1)) = k + 1 BY <2>0
    <3>5. ~(k < h) BY <2>0, <2>2
    <3> QED BY <3>1, <3>3, <3>4, <3>5
  <2>3. k < h \/ k >= h BY <2>0
  <2> QED BY <2>1, <2>2, <2>3
<1>6. RemoveAt(q, h) = front \o back BY DEF RemoveAt, front, back
<1>7. Len(front \o back) = Len(q) - 1 BY <1>1, <1>2, <1>3, <1>4
<1> QED BY <1>4, <1>5, <1>6, <1>7

\* The first frame of a priority.
LEMMA FirstOf ==
    ASSUME NEW q \in Seq(Frames), NEW c, NEW i \in DOMAIN q, q[i].prio = c
    PROVE  \E h \in DOMAIN q : q[h].prio = c /\ \A j \in 1 .. h - 1 : q[j].prio # c
<1>1. PICK S : S = {j \in DOMAIN q : q[j].prio = c} OBVIOUS
<1>2. S \subseteq Nat /\ i \in S BY <1>1
<1>3. PICK h \in S : \A m \in S : h <= m BY <1>2, LeastOf
<1>4. h \in DOMAIN q /\ q[h].prio = c BY <1>1
<1>5. \A j \in 1 .. h - 1 : j \in DOMAIN q /\ ~(h <= j) BY <1>4
<1> QED BY <1>1, <1>3, <1>4, <1>5

\* PopNextOutbound finds the first frame of the highest priority.
LEMMA HighestIs ==
    ASSUME NEW q \in Seq(Frames), q # <<>>
    PROVE  /\ HighestAt(q) \in DOMAIN q
           /\ \A j \in DOMAIN q : q[j].prio <= q[HighestAt(q)].prio
           /\ \A j \in 1 .. HighestAt(q) - 1 : q[j].prio < q[HighestAt(q)].prio
<1>1. \A j \in DOMAIN q : q[j].prio \in 0 .. 3
  <2>1. \A j \in DOMAIN q : q[j] \in Frames OBVIOUS
  <2> QED BY <2>1 DEF Frames
<1>2. 1 \in DOMAIN q OBVIOUS
<1>3. \E c \in 0 .. 3 : (\E i \in DOMAIN q : q[i].prio = c) /\ \A j \in DOMAIN q : q[j].prio <= c
  <2>1. CASE \E i \in DOMAIN q : q[i].prio = 3 BY <1>1, <2>1
  <2>2. CASE (\E i \in DOMAIN q : q[i].prio = 2) /\ \A i \in DOMAIN q : q[i].prio # 3
    <3>1. \A j \in DOMAIN q : q[j].prio <= 2 BY <1>1, <2>2
    <3> QED BY <2>2, <3>1
  <2>3. CASE (\E i \in DOMAIN q : q[i].prio = 1) /\ \A i \in DOMAIN q : q[i].prio \notin {2, 3}
    <3>1. \A j \in DOMAIN q : q[j].prio <= 1 BY <1>1, <2>3
    <3> QED BY <2>3, <3>1
  <2>4. CASE \A i \in DOMAIN q : q[i].prio \notin {1, 2, 3}
    <3>1. \A j \in DOMAIN q : q[j].prio = 0 BY <1>1, <2>4
    <3> QED BY <1>2, <3>1
  <2> QED BY <2>1, <2>2, <2>3, <2>4
<1>4. PICK c \in 0 .. 3 : (\E i \in DOMAIN q : q[i].prio = c) /\ \A j \in DOMAIN q : q[j].prio <= c
  BY <1>3
<1>5. PICK h \in DOMAIN q : q[h].prio = c /\ \A j \in 1 .. h - 1 : q[j].prio # c
  BY <1>4, FirstOf
<1>6. \A j \in 1 .. h - 1 : j \in DOMAIN q /\ q[j].prio < q[h].prio
  <2> SUFFICES ASSUME NEW j \in 1 .. h - 1 PROVE j \in DOMAIN q /\ q[j].prio < q[h].prio
      OBVIOUS
  <2>1. j \in DOMAIN q OBVIOUS
  <2>2. q[j].prio # c /\ q[j].prio <= c /\ q[j].prio \in 0 .. 3 BY <1>1, <1>4, <1>5, <2>1
  <2> QED BY <1>5, <2>1, <2>2
<1>7. \A j \in DOMAIN q : q[j].prio <= q[h].prio BY <1>4, <1>5
<1> QED BY <1>6, <1>7 DEF HighestAt

\* QueueOutbound finds a frame of the lowest priority in a full queue.
LEMMA LowestIs ==
    ASSUME NEW q \in Seq(Frames), q # <<>>
    PROVE  LowestAt(q) \in DOMAIN q
<1>1. \A j \in DOMAIN q : q[j].prio \in 0 .. 3
  <2>1. \A j \in DOMAIN q : q[j] \in Frames OBVIOUS
  <2> QED BY <2>1 DEF Frames
<1>2. 1 \in DOMAIN q OBVIOUS
<1>3. \E c \in 0 .. 3 : (\E i \in DOMAIN q : q[i].prio = c) /\ \A j \in DOMAIN q : c <= q[j].prio
  <2>1. CASE \E i \in DOMAIN q : q[i].prio = 0 BY <1>1, <2>1
  <2>2. CASE (\E i \in DOMAIN q : q[i].prio = 1) /\ \A i \in DOMAIN q : q[i].prio # 0
    <3>1. \A j \in DOMAIN q : 1 <= q[j].prio BY <1>1, <2>2
    <3> QED BY <2>2, <3>1
  <2>3. CASE (\E i \in DOMAIN q : q[i].prio = 2) /\ \A i \in DOMAIN q : q[i].prio \notin {0, 1}
    <3>1. \A j \in DOMAIN q : 2 <= q[j].prio BY <1>1, <2>3
    <3> QED BY <2>3, <3>1
  <2>4. CASE \A i \in DOMAIN q : q[i].prio \notin {0, 1, 2}
    <3>1. \A j \in DOMAIN q : q[j].prio = 3 BY <1>1, <2>4
    <3> QED BY <1>2, <3>1
  <2> QED BY <2>1, <2>2, <2>3, <2>4
<1>4. PICK c \in 0 .. 3 : (\E i \in DOMAIN q : q[i].prio = c) /\ \A j \in DOMAIN q : c <= q[j].prio
  BY <1>3
<1>5. PICK h \in DOMAIN q : q[h].prio = c /\ \A j \in 1 .. h - 1 : q[j].prio # c
  BY <1>4, FirstOf
<1>6. \A j \in 1 .. h - 1 : q[j].prio > q[h].prio
  <2> SUFFICES ASSUME NEW j \in 1 .. h - 1 PROVE q[j].prio > q[h].prio OBVIOUS
  <2>1. j \in DOMAIN q OBVIOUS
  <2>2. q[j].prio # c /\ c <= q[j].prio /\ q[j].prio \in 0 .. 3 BY <1>1, <1>4, <1>5, <2>1
  <2> QED BY <1>5, <2>1, <2>2
<1>7. \A j \in DOMAIN q : q[h].prio <= q[j].prio BY <1>4, <1>5
<1> QED BY <1>6, <1>7 DEF LowestAt

\* What is left of an ordered queue is ordered, and is its other members.
LEMMA RemovedOrdered ==
    ASSUME NEW q \in Seq(Frames), Ordered(q), NEW h \in DOMAIN q
    PROVE  /\ Ordered(RemoveAt(q, h))
           /\ \A k \in DOMAIN RemoveAt(q, h) :
                 \E i \in DOMAIN q : i # h /\ RemoveAt(q, h)[k] = q[i]
<1>1. PICK r : r = RemoveAt(q, h) OBVIOUS
<1>2. /\ r \in Seq(Frames) /\ Len(r) = Len(q) - 1
      /\ \A k \in 1 .. Len(q) - 1 : r[k] = IF k < h THEN q[k] ELSE q[k + 1]
  BY <1>1, RemovedAt
<1> DEFINE place(k) == IF k < h THEN k ELSE k + 1
<1>3. DOMAIN r = 1 .. Len(q) - 1 /\ Len(q) \in Nat /\ h \in Nat BY <1>2
<1>4. \A k \in DOMAIN r : place(k) \in DOMAIN q /\ place(k) # h /\ r[k] = q[place(k)]
  BY <1>2, <1>3
<1>5. \A i, j \in DOMAIN r : i < j => place(i) < place(j) BY <1>3
<1>6. Ordered(r) BY <1>4, <1>5 DEF Ordered
<1> QED BY <1>1, <1>4, <1>6

\* A frame goes to the end of the queue, or is refused.
LEMMA PushedOrdered ==
    ASSUME NEW q \in Seq(Frames), Ordered(q), NEW f \in Frames,
           \A i \in DOMAIN q : q[i].stamp < f.stamp
    PROVE  /\ Pushed(q, f) \in Seq(Frames) /\ Ordered(Pushed(q, f))
           /\ \A k \in DOMAIN Pushed(q, f) :
                 Pushed(q, f)[k] = f \/ \E i \in DOMAIN q : Pushed(q, f)[k] = q[i]
<1>1. ASSUME NEW r \in Seq(Frames), Ordered(r),
             \A k \in DOMAIN r : \E i \in DOMAIN q : r[k] = q[i]
      PROVE  /\ Append(r, f) \in Seq(Frames) /\ Ordered(Append(r, f))
             /\ \A k \in DOMAIN Append(r, f) :
                   Append(r, f)[k] = f \/ \E i \in DOMAIN q : Append(r, f)[k] = q[i]
  <2>1. PICK s : s = Append(r, f) OBVIOUS
  <2>2. /\ s \in Seq(Frames) /\ Len(s) = Len(r) + 1 /\ s[Len(r) + 1] = f
        /\ \A k \in 1 .. Len(r) : s[k] = r[k]
    BY <2>1
  <2>3. DOMAIN s = 1 .. Len(r) + 1 /\ Len(r) \in Nat /\ DOMAIN r = 1 .. Len(r) BY <2>2
  <2>4. \A k \in DOMAIN r : r[k].stamp < f.stamp BY <1>1
  <2>5. \A k \in DOMAIN s : s[k] = f \/ \E i \in DOMAIN q : s[k] = q[i]
    <3>1. \A k \in DOMAIN s : k = Len(r) + 1 \/ k \in DOMAIN r BY <2>3
    <3> QED BY <1>1, <2>2, <2>3, <3>1
  <2>6. ASSUME NEW i \in DOMAIN s, NEW j \in DOMAIN s, i < j
        PROVE  s[i].stamp < s[j].stamp
    <3>1. i \in DOMAIN r /\ s[i] = r[i] BY <2>2, <2>3, <2>6
    <3>2. CASE j = Len(r) + 1 BY <2>2, <2>4, <3>1, <3>2
    <3>3. CASE j # Len(r) + 1
      <4>1. j \in DOMAIN r /\ s[j] = r[j] BY <2>2, <2>3, <3>3
      <4> QED BY <1>1, <2>6, <3>1, <4>1 DEF Ordered
    <3> QED BY <3>2, <3>3
  <2> QED BY <2>1, <2>2, <2>5, <2>6 DEF Ordered
<1>2. CASE Len(q) < MAX_OUTBOUND_QUEUE BY <1>1, <1>2 DEF Pushed
<1>3. CASE ~(Len(q) < MAX_OUTBOUND_QUEUE) /\ f.prio > q[LowestAt(q)].prio
  <2>1. q # <<>> BY <1>3, BoundAssumption
  <2>2. PICK h : h = LowestAt(q) OBVIOUS
  <2>3. h \in DOMAIN q BY <2>1, <2>2, LowestIs
  <2>4. PICK r : r = RemoveAt(q, h) OBVIOUS
  <2>5. r \in Seq(Frames) BY <2>3, <2>4, RemovedAt
  <2>6. Ordered(r) /\ \A k \in DOMAIN r : \E i \in DOMAIN q : r[k] = q[i]
    BY <2>3, <2>4, RemovedOrdered
  <2>7. Pushed(q, f) = Append(r, f) BY <1>3, <2>2, <2>4 DEF Pushed
  <2> QED BY <1>1, <2>5, <2>6, <2>7
<1>4. CASE ~(Len(q) < MAX_OUTBOUND_QUEUE) /\ ~(f.prio > q[LowestAt(q)].prio)
  BY <1>4 DEF Pushed
<1> QED BY <1>2, <1>3, <1>4

\* What is popped goes before everything that stays.
LEMMA PoppedBehind ==
    ASSUME NEW q \in Seq(Frames), q # <<>>, Ordered(q), NEW h, h = HighestAt(q)
    PROVE  /\ h \in DOMAIN q /\ q[h] \in Frames
           /\ \A k \in DOMAIN RemoveAt(q, h) : Behind(q[h], RemoveAt(q, h)[k])
<1>1. h \in DOMAIN q BY HighestIs
<1>2. q[h] \in Frames BY <1>1
<1>3. ASSUME NEW i \in DOMAIN q, i # h PROVE Behind(q[h], q[i])
  <2>1. q[i] \in Frames /\ i \in Nat /\ h \in Nat BY <1>1
  <2>2. CASE i < h
    <3>1. i \in 1 .. h - 1 BY <1>1, <2>1, <2>2
    <3>2. q[i].prio < q[h].prio BY <3>1, HighestIs
    <3> QED BY <1>2, <2>1, <3>2 DEF Behind, Frames
  <2>3. CASE h < i BY <1>1, <2>3 DEF Ordered, Behind
  <2> QED BY <1>3, <2>1, <2>2, <2>3
<1> QED BY <1>1, <1>2, <1>3, RemovedOrdered

-----------------------------------------------------------------------------
(* Who is served.                                                           *)

\* The frames on their way keep their types.
LEMMA FramesKept ==
    ASSUME FramesTyped, QueueOrdered, [Next]_vars
    PROVE  FramesTyped'
<1> USE DEF FramesTyped
<1>1. ASSUME UNCHANGED <<stamps, sends, g_outboundQueue, send, received, sender, sending>>
      PROVE  FramesTyped'
  BY <1>1 DEF Holds
<1>2. CASE UNCHANGED vars BY <1>1, <1>2 DEF vars, senderVars, counters
<1>3. CASE SendServerHello
  <2>1. UNCHANGED <<stamps, sends, g_outboundQueue, send, sender, sending>>
    BY <1>3 DEF SendServerHello, senderVars, counters
  <2>2. received' \in [Sessions -> Seq(Frames \cup {Hello})]
    <3>1. CASE UNCHANGED received BY <3>1
    <3>2. CASE received' = [received EXCEPT ![session] = Append(received[session], Hello)]
      <4>1. ASSUME session \in Sessions
            PROVE  Append(received[session], Hello) \in Seq(Frames \cup {Hello})
        BY <4>1, AppendProperties
      <4> QED BY <3>2, <4>1
    <3> QED BY <1>3, <3>1, <3>2 DEF SendServerHello
  <2> QED BY <2>1, <2>2 DEF Holds
<1>4. CASE CreatePipe \/ ClientArrived \/ ReceiveClientHello \/ AdmitClient \/ ReadRequest
           \/ SessionBreaks \/ SessionUnset \/ ClosePipe \/ IpcExits
  <2>1. UNCHANGED <<stamps, sends, g_outboundQueue, send, received, sender, sending>>
    BY <1>4 DEF CreatePipe, ClientArrived, ReceiveClientHello, AdmitClient, ReadRequest,
       SessionBreaks, SessionUnset, ClosePipe, IpcExits, senderVars, counters
  <2> QED BY <1>1, <2>1
<1>5. ASSUME g_outboundQueue' = <<>>,
             UNCHANGED <<stamps, sends, send, received>>,
             sender' \notin {"check", "lock", "writing"} \/ UNCHANGED <<sender, sending>>
      PROVE  FramesTyped'
  BY <1>5, EmptySeq DEF Holds
<1>6. CASE SessionClears \/ ShutdownClears \/ FailureClears
  BY <1>5, <1>6 DEF SessionClears, ShutdownClears, FailureClears, senderVars, counters
<1>7. CASE ClientConnects \/ ClientGreets \/ ClientWrites \/ ClientLeaves \/ Dequeue \/ ShutdownStops
  <2>1. UNCHANGED <<stamps, sends, g_outboundQueue, send, received, sender, sending>>
    BY <1>7 DEF ClientConnects, ClientGreets, ClientWrites, ClientLeaves, Dequeue, ShutdownStops,
       senderVars, counters
  <2> QED BY <1>1, <2>1
<1>8. ASSUME NEW p \in Producers, SendQueues(p) PROVE FramesTyped'
  <2>1. PICK f : f = [send[p] EXCEPT !.stamp = stamps + 1] OBVIOUS
  <2>2. f \in Frames /\ f.stamp = stamps + 1
    <3>1. PICK r \in [stamp : Nat, prio : 0 .. 3] : r = send[p] OBVIOUS
    <3>2. PICK n \in Nat \ {0} : n = stamps + 1 OBVIOUS
    <3>3. [r EXCEPT !.stamp = n] \in [stamp : Nat \ {0}, prio : 0 .. 3]
          /\ [r EXCEPT !.stamp = n].stamp = n
      OBVIOUS
    <3> QED BY <2>1, <3>1, <3>2, <3>3 DEF Frames
  <2>3. \A i \in DOMAIN g_outboundQueue : g_outboundQueue[i].stamp < f.stamp
    <3> SUFFICES ASSUME NEW i \in DOMAIN g_outboundQueue
                 PROVE  g_outboundQueue[i].stamp < f.stamp
        OBVIOUS
    <3>1. g_outboundQueue[i] \in Frames BY ElementOfSeq, LenProperties
    <3>2. g_outboundQueue[i].stamp \in Nat BY <3>1 DEF Frames
    <3> QED BY <2>2, <3>2 DEF QueueOrdered
  <2>4. g_outboundQueue' \in Seq(Frames)
    BY <1>8, <2>1, <2>2, <2>3, PushedOrdered DEF SendQueues, QueueOrdered
  <2>5. /\ stamps' = stamps + 1 /\ send' = [send EXCEPT ![p] = Idle]
        /\ UNCHANGED <<sends, sending, received>>
        /\ sender' = sender \/ sender' = "predicate"
    BY <1>8 DEF SendQueues, Notified
  <2>6. send' \in [Producers -> [stamp : Nat, prio : 0 .. 3]]
    <3>1. Idle \in [stamp : Nat, prio : 0 .. 3] BY DEF Idle
    <3> QED BY <2>5, <3>1
  <2> QED BY <2>4, <2>5, <2>6 DEF Holds
<1>9. ASSUME NEW p \in Producers, NEW prio \in Priorities, SendEnters(p, prio) PROVE FramesTyped'
  <2>1. /\ sends' = sends + 1 /\ send' = [send EXCEPT ![p] = [stamp |-> sends + 1, prio |-> prio]]
        /\ UNCHANGED <<stamps, g_outboundQueue, received, sender, sending>>
    BY <1>9 DEF SendEnters, senderVars
  <2>2. [stamp |-> sends + 1, prio |-> prio] \in [stamp : Nat, prio : 0 .. 3]
    BY PriorityAssumption
  <2> QED BY <2>1, <2>2 DEF Holds
<1>10. CASE SenderTop \/ SenderBlocks \/ WriteFails \/ FailureCuts \/ FailureUnsets \/ ShutdownNotifies
  <2>1. UNCHANGED <<stamps, sends, g_outboundQueue, send, received>>
        /\ (sender' \in {"check", "lock", "writing"} => UNCHANGED <<sender, sending>>)
    BY <1>10 DEF SenderTop, SenderBlocks, WriteFails, FailureCuts, FailureUnsets,
       ShutdownNotifies, Notified, counters
  <2> QED BY <2>1 DEF Holds
<1>11. CASE SenderPops
  <2>1. UNCHANGED <<stamps, sends, send, received>> BY <1>11 DEF SenderPops, counters
  <2>2. CASE sender' \notin {"check", "lock", "writing"} /\ UNCHANGED g_outboundQueue
    BY <2>1, <2>2 DEF Holds
  <2>3. PICK h : h = HighestAt(g_outboundQueue) OBVIOUS
  <2>4. CASE g_outboundQueue # <<>> /\ sending' = g_outboundQueue[h]
             /\ g_outboundQueue' = RemoveAt(g_outboundQueue, h)
    <3>1. h \in DOMAIN g_outboundQueue /\ g_outboundQueue[h] \in Frames
      BY <2>3, <2>4, PoppedBehind DEF QueueOrdered
    <3>2. RemoveAt(g_outboundQueue, h) \in Seq(Frames) BY <3>1, RemovedAt
    <3> QED BY <2>1, <2>4, <3>1, <3>2
  <2> QED BY <1>11, <2>2, <2>3, <2>4 DEF SenderPops
<1>12. CASE SenderChecks \/ SenderLocks
  <2>1. UNCHANGED <<stamps, sends, g_outboundQueue, send, received>>
        /\ (sender' \in {"check", "lock", "writing"} =>
               sender \in {"check", "lock", "writing"} /\ UNCHANGED sending)
    BY <1>12 DEF SenderChecks, SenderLocks, counters
  <2> QED BY <2>1 DEF Holds
<1>13. CASE SenderWrites
  <2>1. /\ sender = "writing" /\ sender' = "top"
        /\ UNCHANGED <<stamps, sends, g_outboundQueue, send>>
        /\ received' = [received EXCEPT ![session] = Append(received[session], sending)]
    BY <1>13 DEF SenderWrites, counters
  <2>2. ASSUME session \in Sessions
        PROVE  Append(received[session], sending) \in Seq(Frames \cup {Hello})
    BY <2>1, <2>2, AppendProperties DEF Holds
  <2>3. received' \in [Sessions -> Seq(Frames \cup {Hello})] BY <2>1, <2>2
  <2> QED BY <2>1, <2>3 DEF Holds
<1> QED
  BY <1>2, <1>3, <1>4, <1>6, <1>7, <1>8, <1>9, <1>10, <1>11, <1>12, <1>13
  DEF Next, IpcThread, SenderThread, Shutdown

\* Only the handshake and a finished write add to what a client was sent.
LEMMA ReceivedStep ==
    ASSUME [Next]_vars
    PROVE  SendServerHello \/ SenderWrites \/ UNCHANGED received
<1>1. CreatePipe \/ ClientArrived \/ ReceiveClientHello \/ AdmitClient \/ ReadRequest
      \/ SessionBreaks \/ SessionUnset \/ SessionClears \/ ClosePipe \/ IpcExits => UNCHANGED received
  BY DEF CreatePipe, ClientArrived, ReceiveClientHello, AdmitClient, ReadRequest,
     SessionBreaks, SessionUnset, SessionClears, ClosePipe, IpcExits
<1>2. SenderTop \/ SenderPops \/ SenderBlocks \/ SenderChecks \/ SenderLocks \/ WriteFails
      \/ FailureCuts \/ FailureUnsets \/ FailureClears => UNCHANGED received
  BY DEF SenderTop, SenderPops, SenderBlocks, SenderChecks, SenderLocks, WriteFails,
     FailureCuts, FailureUnsets, FailureClears
<1>3. Shutdown \/ ClientConnects \/ ClientGreets \/ ClientWrites \/ ClientLeaves \/ Dequeue
      => UNCHANGED received
  BY DEF Shutdown, ShutdownStops, ShutdownNotifies, ShutdownClears, ClientConnects, ClientGreets,
     ClientWrites, ClientLeaves, Dequeue
<1>4. ASSUME NEW p \in Producers, SendQueues(p) \/ \E prio \in Priorities : SendEnters(p, prio)
      PROVE  UNCHANGED received
  BY <1>4 DEF SendQueues, SendEnters
<1>5. UNCHANGED vars => UNCHANGED received BY DEF vars
<1> QED BY <1>1, <1>2, <1>3, <1>4, <1>5 DEF Next, IpcThread, SenderThread

\* The hello is the first frame of a session.
LEMMA HelloFirst ==
    ASSUME SessionInv, SendServerHello
    PROVE  \/ ipc' = "reject" /\ UNCHANGED received
           \/ /\ session \in Sessions /\ received[session] = <<>> /\ ipc' = "await"
              /\ received' = [received EXCEPT ![session] = <<Hello>>]
<1> USE DEF SessionInv
<1>1. CASE ~PipeWorks BY <1>1 DEF SendServerHello
<1>2. CASE PipeWorks
  <2>1. session \in Sessions /\ received[session] = <<>>
    BY <1>2 DEF SendServerHello, PipeWorks, HandshakeFirst
  <2>2. ipc' = "await" /\ received' = [received EXCEPT ![session] = Append(received[session], Hello)]
    BY <1>2 DEF SendServerHello
  <2>3. Append(<<>>, Hello) = <<Hello>> OBVIOUS
  <2> QED BY <2>1, <2>2, <2>3
<1> QED BY <1>1, <1>2

\* A write goes to an admitted client, after its hello.
LEMMA WriteToAdmitted ==
    ASSUME SessionInv, SenderWrites
    PROVE  /\ session \in Sessions /\ session \in admitted /\ received[session] # <<>>
           /\ sending \in Frames /\ sender = "writing"
           /\ received' = [received EXCEPT ![session] = Append(received[session], sending)]
           /\ UNCHANGED <<ipc, session, admitted, g_pipe, g_clientConnected>> /\ sender' = "top"
BY DEF SenderWrites, SessionInv, FlagMeansAdmitted, HandshakeFirst, FramesTyped, Holds, pipeVars

\* Sessions follow one another.
LEMMA SessionsKept ==
    ASSUME SessionInv, [Next]_vars
    PROVE  SessionsInOrder'
<1> USE BoundAssumption DEF SessionInv, SessionsInOrder
<1>1. CASE SendServerHello
  <2>1. UNCHANGED <<session, g_pipe>> /\ ipc' \in {"await", "reject"} /\ ipc = "hello"
    BY <1>1 DEF SendServerHello, pipeVars
  <2>2. \A s \in Sessions : s > session => received'[s] = received[s]
    BY <1>1, HelloFirst DEF FramesTyped, Sessions
  <2> QED BY <2>1, <2>2
<1>2. CASE SenderWrites
  <2>1. UNCHANGED <<session, g_pipe, ipc>> /\ session \in Sessions
        /\ received' = [received EXCEPT ![session] = Append(received[session], sending)]
    BY <1>2, WriteToAdmitted
  <2>2. \A s \in Sessions : s > session => received'[s] = received[s]
    BY <2>1 DEF FramesTyped, Sessions
  <2> QED BY <2>1, <2>2
<1>3. ASSUME UNCHANGED received,
             UNCHANGED session \/ (session' = session + 1 /\ session < MaxSessions),
             ipc' \in {"create", "exited"} => g_pipe' = "none",
             g_pipe' = "listening" => ipc' = "waiting"
      PROVE  SessionsInOrder'
  BY <1>3 DEF Sessions
<1>4. CASE CreatePipe BY <1>3, <1>4 DEF CreatePipe
<1>5. CASE ClosePipe BY <1>3, <1>5 DEF ClosePipe
<1>6. CASE ClientArrived \/ ReceiveClientHello \/ AdmitClient \/ ReadRequest
           \/ SessionBreaks \/ SessionUnset \/ SessionClears \/ IpcExits
  <2>1. UNCHANGED <<received, session, g_pipe>>
    BY <1>6 DEF ClientArrived, ReceiveClientHello, AdmitClient, ReadRequest,
       SessionBreaks, SessionUnset, SessionClears, IpcExits, pipeVars
  <2>2. /\ ipc' = "create" => ipc = "create"
        /\ ipc' = "exited" => ipc \in {"create", "exited"}
        /\ ipc = "waiting" => g_pipe \in {"connected", "cut"}
    BY <1>6 DEF ClientArrived, ReceiveClientHello, AdmitClient, ReadRequest, AfterHello,
       SessionBreaks, SessionUnset, SessionClears, IpcExits
  <2> QED BY <1>3, <2>1, <2>2
<1>7. CASE ClientConnects BY <1>3, <1>7 DEF ClientConnects
<1>8. CASE ClientGreets \/ ClientWrites \/ ClientLeaves \/ Dequeue \/ Shutdown
  BY <1>8 DEF ClientGreets, ClientWrites, ClientLeaves, Dequeue, Shutdown, ShutdownStops,
     ShutdownNotifies, ShutdownClears, pipeVars
<1>9. CASE SenderTop \/ SenderPops \/ SenderBlocks \/ SenderChecks \/ SenderLocks \/ WriteFails
           \/ FailureUnsets \/ FailureClears
  BY <1>9 DEF SenderTop, SenderPops, SenderBlocks, SenderChecks, SenderLocks, WriteFails,
     FailureUnsets, FailureClears, pipeVars
<1>10. CASE FailureCuts
  BY <1>3, <1>10 DEF FailureCuts
<1>11. ASSUME NEW p \in Producers, SendQueues(p) \/ \E prio \in Priorities : SendEnters(p, prio)
       PROVE  SessionsInOrder'
  BY <1>11 DEF SendQueues, SendEnters, pipeVars
<1>12. CASE UNCHANGED vars BY <1>12 DEF vars, pipeVars
<1> QED
  BY <1>1, <1>2, <1>4, <1>5, <1>6, <1>7, <1>8, <1>9, <1>10, <1>11, <1>12
  DEF Next, IpcThread, SenderThread

\* What IpcThread's place says of its client stays true.
LEMMA HandshakeKept ==
    ASSUME SessionInv, [Next]_vars
    PROVE  HandshakeFirst'
<1> USE DEF SessionInv, HandshakeFirst
<1>1. CASE SendServerHello
  <2>1. UNCHANGED <<session, g_pipe, admitted>> /\ ipc' \in {"await", "reject"}
    BY <1>1 DEF SendServerHello, pipeVars
  <2>2. ipc' = "await" => session \in Sessions /\ received'[session] # <<>>
    <3>1. ipc' = "await" => session \in Sessions /\ received' = [received EXCEPT ![session] = <<Hello>>]
      BY <1>1, HelloFirst
    <3>2. received \in [Sessions -> Seq(Frames \cup {Hello})] BY DEF FramesTyped
    <3>3. session \in Sessions /\ received' = [received EXCEPT ![session] = <<Hello>>]
             => received'[session] = <<Hello>>
      BY <3>2
    <3>4. <<Hello>> # <<>> OBVIOUS
    <3> QED BY <3>1, <3>3, <3>4
  <2> QED BY <2>1, <2>2
<1>2. CASE SenderWrites
  <2>1. /\ UNCHANGED <<session, g_pipe, ipc, admitted>> /\ session \in Sessions
        /\ received' = [received EXCEPT ![session] = Append(received[session], sending)]
        /\ sending \in Frames /\ sender = "writing"
    BY <1>2, WriteToAdmitted
  <2>2. received'[session] # <<>>
    <3>1. Append(received[session], sending) # <<>>
      BY <2>1, AppendProperties DEF FramesTyped
    <3> QED BY <2>1, <3>1 DEF FramesTyped
  <2>3. ipc \notin {"waiting", "hello"} BY <2>1 DEF FlagMeansAdmitted
  <2> QED BY <2>1, <2>2, <2>3
<1>3. CASE CreatePipe \/ ClosePipe
  BY <1>3 DEF CreatePipe, ClosePipe
<1>4. CASE ClientArrived
  BY <1>4 DEF ClientArrived, pipeVars
<1>5. CASE ReceiveClientHello
  <2>1. /\ ipc = "await" /\ ipc' \in {"admit", "reject"} /\ UNCHANGED <<session, g_pipe, received>>
        /\ ipc' = "admit" => session \in admitted'
    BY <1>5 DEF ReceiveClientHello, AfterHello, pipeVars
  <2> QED BY <2>1
<1>6. CASE AdmitClient \/ ReadRequest \/ SessionBreaks \/ SessionUnset \/ SessionClears \/ IpcExits
  BY <1>6 DEF AdmitClient, ReadRequest, SessionBreaks, SessionUnset, SessionClears, IpcExits, pipeVars
<1>7. CASE ClientConnects
  <2>1. /\ g_pipe = "listening" /\ session' = session + 1 /\ session < MaxSessions
        /\ UNCHANGED <<received, ipc, admitted>>
    BY <1>7 DEF ClientConnects
  <2>2. ipc = "waiting" BY <2>1 DEF SessionsInOrder
  <2>3. session' \in Sessions /\ session' > session
    BY <2>1, BoundAssumption DEF SessionsInOrder, Sessions
  <2>4. received[session'] = <<>> BY <2>3 DEF SessionsInOrder
  <2> QED BY <2>1, <2>2, <2>3, <2>4
<1>8. CASE ClientGreets \/ ClientWrites \/ ClientLeaves \/ Dequeue \/ Shutdown
  BY <1>8 DEF ClientGreets, ClientWrites, ClientLeaves, Dequeue, Shutdown, ShutdownStops,
     ShutdownNotifies, ShutdownClears, pipeVars
<1>9. CASE SenderTop \/ SenderPops \/ SenderBlocks \/ SenderChecks \/ SenderLocks \/ WriteFails
           \/ FailureUnsets \/ FailureClears
  BY <1>9 DEF SenderTop, SenderPops, SenderBlocks, SenderChecks, SenderLocks, WriteFails,
     FailureUnsets, FailureClears, pipeVars
<1>10. CASE FailureCuts
  BY <1>10 DEF FailureCuts
<1>11. ASSUME NEW p \in Producers, SendQueues(p) \/ \E prio \in Priorities : SendEnters(p, prio)
       PROVE  HandshakeFirst'
  BY <1>11 DEF SendQueues, SendEnters, pipeVars
<1>12. CASE UNCHANGED vars BY <1>12 DEF vars, pipeVars
<1> QED
  BY <1>1, <1>2, <1>3, <1>4, <1>5, <1>6, <1>7, <1>8, <1>9, <1>10, <1>11, <1>12
  DEF Next, IpcThread, SenderThread

\* The flag falls before the queue is cleared and the pipe closed, and a write
\* keeps the pipe from being closed under it.
LEMMA FlagKept ==
    ASSUME SessionInv, [Next]_vars
    PROVE  FlagMeansAdmitted'
<1> USE DEF SessionInv, FlagMeansAdmitted
<1>1. CASE CreatePipe \/ ClientArrived \/ SendServerHello \/ ReceiveClientHello \/ AdmitClient
           \/ IpcExits
  BY <1>1 DEF CreatePipe, ClientArrived, SendServerHello, ReceiveClientHello, AdmitClient,
     IpcExits, senderVars
<1>2. CASE ReadRequest \/ SessionBreaks \/ SessionUnset \/ SessionClears
  BY <1>2 DEF ReadRequest, SessionBreaks, SessionUnset, SessionClears, senderVars
<1>3. CASE ClosePipe
  BY <1>3 DEF ClosePipe, PipeMutexFree, senderVars
<1>4. CASE ClientConnects \/ ClientGreets \/ ClientWrites \/ ClientLeaves \/ Dequeue
           \/ ShutdownStops \/ ShutdownClears
  BY <1>4 DEF ClientConnects, ClientGreets, ClientWrites, ClientLeaves, Dequeue, ShutdownStops,
     ShutdownClears, senderVars
<1>5. CASE ShutdownNotifies BY <1>5 DEF ShutdownNotifies, Notified
<1>6. CASE SenderTop \/ SenderPops \/ SenderBlocks \/ SenderChecks \/ SenderWrites \/ WriteFails
           \/ FailureCuts \/ FailureUnsets \/ FailureClears
  BY <1>6 DEF SenderTop, SenderPops, SenderBlocks, SenderChecks, SenderWrites, WriteFails,
     FailureCuts, FailureUnsets, FailureClears
<1>7. CASE SenderLocks BY <1>7 DEF SenderLocks, StillConnected
<1>8. ASSUME NEW p \in Producers, SendQueues(p) PROVE FlagMeansAdmitted'
  BY <1>8 DEF SendQueues, Notified
<1>9. ASSUME NEW p \in Producers, NEW prio \in Priorities, SendEnters(p, prio)
      PROVE  FlagMeansAdmitted'
  BY <1>9 DEF SendEnters, senderVars
<1>10. CASE UNCHANGED vars BY <1>10 DEF vars, senderVars
<1> QED
  BY <1>1, <1>2, <1>3, <1>4, <1>5, <1>6, <1>7, <1>8, <1>9, <1>10
  DEF Next, IpcThread, SenderThread, Shutdown

\* A session that was admitted stays admitted.
LEMMA AdmittedGrows ==
    ASSUME [Next]_vars
    PROVE  admitted \subseteq admitted'
<1>1. ReceiveClientHello => admitted \subseteq admitted' BY DEF ReceiveClientHello
<1>2. CreatePipe \/ ClientArrived \/ SendServerHello \/ AdmitClient \/ ReadRequest
      \/ SessionBreaks \/ SessionUnset \/ SessionClears \/ ClosePipe \/ IpcExits => UNCHANGED admitted
  BY DEF CreatePipe, ClientArrived, SendServerHello, AdmitClient, ReadRequest,
     SessionBreaks, SessionUnset, SessionClears, ClosePipe, IpcExits
<1>3. SenderThread => UNCHANGED admitted
  BY DEF SenderThread, SenderTop, SenderPops, SenderBlocks, SenderChecks, SenderLocks, SenderWrites,
     WriteFails, FailureCuts, FailureUnsets, FailureClears
<1>4. Shutdown \/ ClientConnects \/ ClientGreets \/ ClientWrites \/ ClientLeaves \/ Dequeue
      => UNCHANGED admitted
  BY DEF Shutdown, ShutdownStops, ShutdownNotifies, ShutdownClears, ClientConnects, ClientGreets,
     ClientWrites, ClientLeaves, Dequeue
<1>5. ASSUME NEW p \in Producers, SendQueues(p) \/ \E prio \in Priorities : SendEnters(p, prio)
      PROVE  UNCHANGED admitted
  BY <1>5 DEF SendQueues, SendEnters
<1>6. UNCHANGED vars => UNCHANGED admitted BY DEF vars
<1> QED BY <1>1, <1>2, <1>3, <1>4, <1>5, <1>6 DEF Next, IpcThread

\* Nobody is served before the hello, nor anything but it before admission.
LEMMA ServedKept ==
    ASSUME SessionInv, [Next]_vars
    PROVE  OnlyAdmittedServed'
<1> USE DEF SessionInv
<1>0. admitted \subseteq admitted' BY AdmittedGrows
<1>1. CASE UNCHANGED received BY <1>0, <1>1 DEF OnlyAdmittedServed
<1>2. CASE SendServerHello /\ ~UNCHANGED received
  <2>1. session \in Sessions /\ received' = [received EXCEPT ![session] = <<Hello>>]
    BY <1>2, HelloFirst
  <2>2. received'[session] = <<Hello>> /\ \A s \in Sessions \ {session} : received'[s] = received[s]
    BY <2>1 DEF FramesTyped
  <2>3. DOMAIN <<Hello>> = {1} /\ <<Hello>>[1] = Hello OBVIOUS
  <2> QED BY <1>0, <2>2, <2>3 DEF OnlyAdmittedServed
<1>3. CASE SenderWrites
  <2>1. /\ session \in Sessions /\ session \in admitted /\ received[session] # <<>>
        /\ sending \in Frames
        /\ received' = [received EXCEPT ![session] = Append(received[session], sending)]
    BY <1>3, WriteToAdmitted
  <2>2. PICK r \in Seq(Frames \cup {Hello}) : r = received[session] BY <2>1 DEF FramesTyped
  <2>3. PICK w : w = Append(r, sending) OBVIOUS
  <2>4. /\ w \in Seq(Frames \cup {Hello}) /\ Len(w) = Len(r) + 1 /\ w[Len(r) + 1] = sending
        /\ \A k \in 1 .. Len(r) : w[k] = r[k]
    BY <2>1, <2>3, AppendProperties
  <2>5. received'[session] = w /\ \A s \in Sessions \ {session} : received'[s] = received[s]
    BY <2>1, <2>2, <2>3 DEF FramesTyped
  <2>6. Len(r) \in Nat /\ Len(r) # 0 BY <2>1, <2>2, EmptySeq, LenProperties
  <2>7. sending # Hello BY <2>1 DEF Frames, Hello
  <2>8. ASSUME NEW i \in DOMAIN w
        PROVE  IF i = 1 THEN w[i] = Hello ELSE w[i] # Hello /\ session \in admitted
    <3>1. i \in 1 .. Len(r) + 1 BY <2>4, LenProperties
    <3>2. CASE i = Len(r) + 1 BY <2>1, <2>4, <2>6, <2>7, <3>2
    <3>3. CASE i # Len(r) + 1
      <4>1. i \in DOMAIN r /\ w[i] = r[i] BY <2>2, <2>4, <2>6, <3>1, <3>3, LenProperties
      <4> QED BY <2>1, <2>2, <4>1 DEF OnlyAdmittedServed
    <3> QED BY <3>2, <3>3
  <2> QED BY <1>0, <2>1, <2>5, <2>8 DEF OnlyAdmittedServed
<1> QED BY <1>1, <1>2, <1>3, ReceivedStep

-----------------------------------------------------------------------------
(* In which order frames are sent.                                          *)

\* A step that neither queues nor pops nor sends keeps the order.
LEMMA OrderSame ==
    ASSUME OrderInv, UNCHANGED <<stamps, received>>,
           g_outboundQueue' \in {g_outboundQueue, <<>>},
           Holds' => Holds /\ sending' = sending
    PROVE  OrderInv'
<1> USE DEF OrderInv
<1>1. NoOvertaking' BY DEF NoOvertaking
<1>2. CASE g_outboundQueue' = g_outboundQueue
  BY <1>1, <1>2 DEF QueueOrdered, PoppedFirst, SentFirst
<1>3. CASE g_outboundQueue' = <<>>
  <2>1. DOMAIN g_outboundQueue' = {} BY <1>3
  <2>2. Ordered(<<>>) BY DEF Ordered
  <2>3. QueueOrdered' BY <1>3, <2>1, <2>2 DEF QueueOrdered
  <2>4. PoppedFirst' BY <2>1 DEF PoppedFirst
  <2>5. SentFirst' BY <2>1 DEF SentFirst
  <2> QED BY <1>1, <2>3, <2>4, <2>5
<1> QED BY <1>2, <1>3

\* A frame that is queued gets the youngest stamp.
LEMMA OrderQueued ==
    ASSUME FramesTyped, OrderInv, NEW p \in Producers, SendQueues(p)
    PROVE  OrderInv'
<1>1. PICK f : f = [send[p] EXCEPT !.stamp = stamps + 1] OBVIOUS
<1>2. f \in Frames /\ f.stamp = stamps + 1
  <2>1. PICK r \in [stamp : Nat, prio : 0 .. 3] : r = send[p] BY DEF FramesTyped
  <2>2. PICK n \in Nat \ {0} : n = stamps + 1 BY DEF FramesTyped
  <2>3. [r EXCEPT !.stamp = n] \in [stamp : Nat \ {0}, prio : 0 .. 3]
        /\ [r EXCEPT !.stamp = n].stamp = n
    OBVIOUS
  <2> QED BY <1>1, <2>1, <2>2, <2>3 DEF Frames
<1>3. PICK q \in Seq(Frames) : q = g_outboundQueue BY DEF FramesTyped
<1>4. \A i \in DOMAIN q : q[i] \in Frames /\ q[i].stamp \in Nat /\ q[i].stamp <= stamps
  <2>1. \A i \in DOMAIN q : q[i] \in Frames BY ElementOfSeq, LenProperties
  <2> QED BY <1>3, <2>1 DEF Frames, OrderInv, QueueOrdered
<1>5. stamps \in Nat /\ \A i \in DOMAIN q : q[i].stamp < f.stamp
  BY <1>2, <1>4 DEF FramesTyped
<1>6. PICK r : r = Pushed(q, f) OBVIOUS
<1>7. /\ r \in Seq(Frames) /\ Ordered(r)
      /\ \A k \in DOMAIN r : r[k] = f \/ \E i \in DOMAIN q : r[k] = q[i]
  BY <1>2, <1>3, <1>5, <1>6, PushedOrdered DEF OrderInv, QueueOrdered
<1>8. /\ g_outboundQueue' = r /\ stamps' = stamps + 1 /\ UNCHANGED <<received, sending>>
      /\ sender' = sender \/ (sender = "asleep" /\ sender' = "predicate")
  BY <1>1, <1>3, <1>6 DEF SendQueues, Notified
<1>9. Holds' = Holds BY <1>8 DEF Holds
<1>10. \A k \in DOMAIN r : r[k].stamp <= stamps + 1
  BY <1>2, <1>4, <1>5, <1>7
<1>11. QueueOrdered' BY <1>7, <1>8, <1>10 DEF QueueOrdered
<1>12. ASSUME NEW g, g.stamp \in Nat, g.stamp <= stamps, \A i \in DOMAIN q : Behind(g, q[i])
       PROVE  /\ g.stamp <= stamps + 1
              /\ \A k \in DOMAIN r : Behind(g, r[k])
  <2>1. Behind(g, f) BY <1>2, <1>5, <1>12 DEF Behind
  <2> QED BY <1>5, <1>7, <1>12, <2>1
<1>13. PoppedFirst'
  <2> SUFFICES ASSUME Holds
               PROVE  sending.stamp <= stamps + 1 /\ \A k \in DOMAIN r : Behind(sending, r[k])
      BY <1>8, <1>9 DEF PoppedFirst
  <2>1. sending.stamp \in Nat BY DEF FramesTyped, Frames
  <2> QED BY <1>3, <1>12, <2>1 DEF OrderInv, PoppedFirst
<1>14. SentFirst'
  <2> SUFFICES ASSUME NEW s \in Sessions, NEW k \in 2 .. Len(received[s])
               PROVE  /\ received[s][k].stamp <= stamps + 1
                      /\ Holds => Behind(received[s][k], sending)
                      /\ \A i \in DOMAIN r : Behind(received[s][k], r[i])
      BY <1>8, <1>9 DEF SentFirst
  <2>1. PICK g : g = received[s][k] OBVIOUS
  <2>2. g \in Frames \cup {Hello}
    <3>1. received[s] \in Seq(Frames \cup {Hello}) BY DEF FramesTyped
    <3>2. k \in 1 .. Len(received[s]) OBVIOUS
    <3> QED BY <2>1, <3>1, <3>2, ElementOfSeq
  <2>3. g.stamp \in Nat BY <2>2 DEF Frames, Hello
  <2>4. /\ g.stamp <= stamps
        /\ Holds => Behind(g, sending)
        /\ \A i \in DOMAIN q : Behind(g, q[i])
    BY <1>3, <2>1 DEF OrderInv, SentFirst
  <2> QED BY <1>12, <2>1, <2>3, <2>4
<1>15. NoOvertaking' BY <1>8 DEF OrderInv, NoOvertaking
<1> QED BY <1>11, <1>13, <1>14, <1>15 DEF OrderInv

\* The frame that is popped goes before all that stay.
LEMMA OrderPopped ==
    ASSUME FramesTyped, OrderInv, SenderPops
    PROVE  OrderInv'
<1>0. UNCHANGED <<stamps, received>> BY DEF SenderPops, counters
<1>1. CASE UNCHANGED g_outboundQueue /\ sender' \in {"top", "blocking"}
  BY <1>0, <1>1, OrderSame DEF Holds
<1>2. CASE ~(UNCHANGED g_outboundQueue /\ sender' \in {"top", "blocking"})
  <2>1. PICK q \in Seq(Frames) : q = g_outboundQueue BY DEF FramesTyped
  <2>2. PICK h : h = HighestAt(q) OBVIOUS
  <2>3. PICK r : r = RemoveAt(q, h) OBVIOUS
  <2>4. /\ q # <<>> /\ sender' = "check" /\ sending' = q[h] /\ g_outboundQueue' = r
    BY <1>2, <2>1, <2>2, <2>3 DEF SenderPops
  <2>5. Ordered(q) /\ \A i \in DOMAIN q : q[i].stamp <= stamps BY <2>1 DEF OrderInv, QueueOrdered
  <2>6. h \in DOMAIN q /\ q[h] \in Frames /\ \A k \in DOMAIN r : Behind(q[h], r[k])
    BY <2>2, <2>3, <2>4, <2>5, PoppedBehind
  <2>7. Ordered(r) /\ \A k \in DOMAIN r : \E i \in DOMAIN q : i # h /\ r[k] = q[i]
    BY <2>3, <2>5, <2>6, RemovedOrdered
  <2>8. QueueOrdered' BY <1>0, <2>4, <2>5, <2>7 DEF QueueOrdered
  <2>9. PoppedFirst' BY <1>0, <2>4, <2>5, <2>6 DEF PoppedFirst
  <2>10. SentFirst'
    <3> SUFFICES ASSUME NEW s \in Sessions, NEW k \in 2 .. Len(received[s])
                 PROVE  /\ received[s][k].stamp <= stamps
                        /\ Behind(received[s][k], q[h])
                        /\ \A i \in DOMAIN r : Behind(received[s][k], r[i])
        BY <1>0, <2>4 DEF SentFirst
    <3>1. received[s][k].stamp <= stamps /\ \A i \in DOMAIN q : Behind(received[s][k], q[i])
      BY <2>1 DEF OrderInv, SentFirst
    <3> QED BY <2>6, <2>7, <3>1
  <2>11. NoOvertaking' BY <1>0 DEF OrderInv, NoOvertaking
  <2> QED BY <2>8, <2>9, <2>10, <2>11 DEF OrderInv
<1> QED BY <1>1, <1>2

\* The frame that is sent comes after all it had to wait for.
LEMMA OrderWritten ==
    ASSUME SessionInv, OrderInv, SenderWrites
    PROVE  OrderInv'
<1>1. /\ session \in Sessions /\ received[session] # <<>>
      /\ sending \in Frames /\ sender = "writing" /\ sender' = "top"
      /\ received' = [received EXCEPT ![session] = Append(received[session], sending)]
  BY WriteToAdmitted
<1>2. UNCHANGED <<stamps, g_outboundQueue>> BY DEF SenderWrites, counters
<1>3. Holds /\ ~Holds' BY <1>1 DEF Holds
<1>4. PICK r \in Seq(Frames \cup {Hello}) : r = received[session]
  BY <1>1 DEF SessionInv, FramesTyped
<1>5. PICK w : w = Append(r, sending) OBVIOUS
<1>6. /\ Len(w) = Len(r) + 1 /\ w[Len(r) + 1] = sending
      /\ \A k \in 1 .. Len(r) : w[k] = r[k]
  BY <1>1, <1>5, AppendProperties
<1>7. received'[session] = w /\ \A s \in Sessions \ {session} : received'[s] = received[s]
  BY <1>1, <1>4, <1>5 DEF SessionInv, FramesTyped
<1>8. Len(r) \in Nat BY LenProperties
<1>9. QueueOrdered' BY <1>2 DEF OrderInv, QueueOrdered
<1>10. PoppedFirst' BY <1>3 DEF PoppedFirst
<1>11. sending.stamp <= stamps /\ \A i \in DOMAIN g_outboundQueue : Behind(sending, g_outboundQueue[i])
  BY <1>3 DEF OrderInv, PoppedFirst
<1>12. \A k \in 2 .. Len(r) :
          /\ r[k].stamp <= stamps /\ Behind(r[k], sending)
          /\ \A i \in DOMAIN g_outboundQueue : Behind(r[k], g_outboundQueue[i])
  BY <1>1, <1>3, <1>4 DEF OrderInv, SentFirst
<1>13. \A k \in 2 .. Len(w) : w[k] = sending \/ (w[k] = r[k] /\ k \in 2 .. Len(r))
  BY <1>6, <1>8
<1>14. SentFirst'
  <2> SUFFICES ASSUME NEW s \in Sessions, NEW k \in 2 .. Len(received'[s])
               PROVE  /\ received'[s][k].stamp <= stamps
                      /\ \A i \in DOMAIN g_outboundQueue : Behind(received'[s][k], g_outboundQueue[i])
      BY <1>2, <1>3 DEF SentFirst
  <2>1. CASE s = session BY <1>7, <1>11, <1>12, <1>13, <2>1
  <2>2. CASE s # session BY <1>7, <2>2 DEF OrderInv, SentFirst
  <2> QED BY <2>1, <2>2
<1>15. NoOvertaking'
  <2> SUFFICES ASSUME NEW s \in Sessions, NEW i \in 2 .. Len(received'[s]),
                      NEW j \in 2 .. Len(received'[s]), i < j,
                      received'[s][i].prio <= received'[s][j].prio
               PROVE  received'[s][i].stamp < received'[s][j].stamp
      BY DEF NoOvertaking
  <2>1. CASE s # session BY <1>7, <2>1 DEF OrderInv, NoOvertaking
  <2>2. CASE s = session
    <3>1. i \in 2 .. Len(w) /\ j \in 2 .. Len(w) /\ w[i].prio <= w[j].prio BY <1>7, <2>2
    <3>2. CASE j = Len(r) + 1
      <4>1. w[j] = sending BY <1>6, <3>2
      <4>2. i \in 2 .. Len(r) BY <1>6, <1>8, <3>1, <3>2
      <4>3. w[i] = r[i] BY <1>6, <1>8, <4>2
      <4>4. Behind(r[i], sending) BY <1>12, <4>2
      <4> QED BY <1>7, <2>2, <3>1, <4>1, <4>3, <4>4 DEF Behind
    <3>3. CASE j # Len(r) + 1
      <4>1. i \in 2 .. Len(r) /\ j \in 2 .. Len(r) BY <1>6, <1>8, <3>1, <3>3
      <4>2. w[i] = r[i] /\ w[j] = r[j] BY <1>6, <1>8, <4>1
      <4>3. r[i].stamp < r[j].stamp
        BY <1>1, <1>4, <3>1, <4>1, <4>2 DEF OrderInv, NoOvertaking
      <4> QED BY <1>7, <2>2, <4>2, <4>3
    <3> QED BY <3>2, <3>3
  <2> QED BY <2>1, <2>2
<1> QED BY <1>9, <1>10, <1>14, <1>15 DEF OrderInv

\* No step of the server, its clients or its callers breaks the order.
LEMMA OrderKept ==
    ASSUME SessionInv, OrderInv, [Next]_vars
    PROVE  OrderInv'
<1> USE DEF SessionInv
<1>1. CASE SendServerHello
  <2>1. UNCHANGED <<stamps, g_outboundQueue, sender, sending>>
    BY <1>1 DEF SendServerHello, counters, senderVars
  <2>2. CASE UNCHANGED received BY <2>1, <2>2, OrderSame DEF Holds
  <2>3. CASE ~UNCHANGED received
    <3>1. /\ session \in Sessions /\ received[session] = <<>>
          /\ received' = [received EXCEPT ![session] = <<Hello>>]
      BY <1>1, <2>3, HelloFirst
    <3>2. Len(<<Hello>>) = 1 OBVIOUS
    <3>3. \A s \in Sessions : 2 .. Len(received'[s]) # {} => received'[s] = received[s]
      BY <3>1, <3>2 DEF FramesTyped
    <3>4. Holds' = Holds BY <2>1 DEF Holds
    <3>5. QueueOrdered' /\ PoppedFirst' BY <2>1, <3>4 DEF OrderInv, QueueOrdered, PoppedFirst
    <3>6. SentFirst' BY <2>1, <3>3, <3>4 DEF OrderInv, SentFirst
    <3>7. NoOvertaking' BY <3>3 DEF OrderInv, NoOvertaking
    <3> QED BY <3>5, <3>6, <3>7 DEF OrderInv
  <2> QED BY <2>2, <2>3
<1>2. CASE CreatePipe \/ ClientArrived \/ ReceiveClientHello \/ AdmitClient \/ ReadRequest
           \/ SessionBreaks \/ SessionUnset \/ SessionClears \/ ClosePipe \/ IpcExits
  <2>1. UNCHANGED <<stamps, received, sender, sending>> /\ g_outboundQueue' \in {g_outboundQueue, <<>>}
    BY <1>2 DEF CreatePipe, ClientArrived, ReceiveClientHello, AdmitClient, ReadRequest,
       SessionBreaks, SessionUnset, SessionClears, ClosePipe, IpcExits, counters, senderVars
  <2> QED BY <2>1, OrderSame DEF Holds
<1>3. CASE ClientConnects \/ ClientGreets \/ ClientWrites \/ ClientLeaves \/ Dequeue
           \/ ShutdownStops \/ ShutdownClears
  <2>1. UNCHANGED <<stamps, received, sender, sending>> /\ g_outboundQueue' \in {g_outboundQueue, <<>>}
    BY <1>3 DEF ClientConnects, ClientGreets, ClientWrites, ClientLeaves, Dequeue, ShutdownStops,
       ShutdownClears, counters, senderVars
  <2> QED BY <2>1, OrderSame DEF Holds
<1>4. CASE SenderTop \/ SenderBlocks \/ WriteFails \/ FailureCuts \/ FailureUnsets \/ FailureClears
           \/ ShutdownNotifies
  <2>1. /\ UNCHANGED <<stamps, received>> /\ g_outboundQueue' \in {g_outboundQueue, <<>>}
        /\ sender' \in {"check", "lock", "writing"} => UNCHANGED <<sender, sending>>
    BY <1>4 DEF SenderTop, SenderBlocks, WriteFails, FailureCuts, FailureUnsets, FailureClears,
       ShutdownNotifies, Notified, counters
  <2> QED BY <2>1, OrderSame DEF Holds
<1>5. CASE SenderChecks \/ SenderLocks
  <2>1. /\ UNCHANGED <<stamps, received, g_outboundQueue>>
        /\ sender' \in {"check", "lock", "writing"} =>
              sender \in {"check", "lock", "writing"} /\ UNCHANGED sending
    BY <1>5 DEF SenderChecks, SenderLocks, counters
  <2> QED BY <2>1, OrderSame DEF Holds
<1>6. CASE SenderPops BY <1>6, OrderPopped
<1>7. CASE SenderWrites BY <1>7, OrderWritten
<1>8. ASSUME NEW p \in Producers, SendQueues(p) PROVE OrderInv' BY <1>8, OrderQueued
<1>9. ASSUME NEW p \in Producers, NEW prio \in Priorities, SendEnters(p, prio) PROVE OrderInv'
  <2>1. UNCHANGED <<stamps, received, g_outboundQueue, sender, sending>>
    BY <1>9 DEF SendEnters, senderVars
  <2> QED BY <2>1, OrderSame DEF Holds
<1>10. CASE UNCHANGED vars
  BY <1>10, OrderSame DEF vars, counters, senderVars, Holds
<1> QED
  BY <1>1, <1>2, <1>3, <1>4, <1>5, <1>6, <1>7, <1>8, <1>9, <1>10
  DEF Next, IpcThread, SenderThread, Shutdown

\* Both invariants, throughout.
LEMMA ServerInv == Spec => [](SessionInv /\ OrderInv)
<1>1. Init => SessionInv /\ OrderInv
  <2> SUFFICES ASSUME Init PROVE SessionInv /\ OrderInv OBVIOUS
  <2>1. received \in [Sessions -> Seq(Frames \cup {Hello})] /\ \A s \in Sessions : received[s] = <<>>
    BY EmptySeq DEF Init
  <2>2. g_outboundQueue \in Seq(Frames) /\ DOMAIN g_outboundQueue = {} BY EmptySeq DEF Init
  <2>3. send \in [Producers -> [stamp : Nat, prio : 0 .. 3]]
    <3>1. Idle \in [stamp : Nat, prio : 0 .. 3] BY DEF Idle
    <3> QED BY <3>1 DEF Init
  <2>4. FramesTyped BY <2>1, <2>2, <2>3 DEF Init, FramesTyped, Holds
  <2>5. SessionsInOrder BY <2>1, BoundAssumption DEF Init, SessionsInOrder
  <2>6. HandshakeFirst /\ FlagMeansAdmitted BY DEF Init, HandshakeFirst, FlagMeansAdmitted
  <2>7. \A s \in Sessions : DOMAIN received[s] = {} /\ Len(received[s]) = 0 BY <2>1, EmptySeq
  <2>8. OnlyAdmittedServed BY <2>7 DEF OnlyAdmittedServed
  <2>9. QueueOrdered BY <2>2 DEF QueueOrdered, Ordered
  <2>10. PoppedFirst BY DEF Init, PoppedFirst, Holds
  <2>11. SentFirst BY <2>7 DEF SentFirst
  <2>12. NoOvertaking BY <2>7 DEF NoOvertaking
  <2> QED BY <2>4, <2>5, <2>6, <2>8, <2>9, <2>10, <2>11, <2>12 DEF SessionInv, OrderInv
<1>2. SessionInv /\ OrderInv /\ [Next]_vars => SessionInv' /\ OrderInv'
  BY FramesKept, SessionsKept, HandshakeKept, FlagKept, ServedKept, OrderKept DEF SessionInv, OrderInv
<1> QED BY <1>1, <1>2, PTL DEF Spec

\* A client gets the hello first and once, and frames only after its own hello
\* was accepted, however the sender's frame and the sessions cross: a write holds
\* g_pipeMutex, and the flag it tests under it is only up between the admission of
\* a client and the end of its session (IpcServer.cpp SenderThread, IpcThread).
THEOREM OnlyAdmitted == Spec => []OnlyAdmittedServed
<1>1. SessionInv => OnlyAdmittedServed BY DEF SessionInv
<1> QED BY <1>1, ServerInv, PTL

\* No frame that is sent overtakes an older one of the same or a higher
\* priority, for every size of the queue and every mix of priorities.
THEOREM SentInOrder == Spec => []NoOvertaking
<1>1. OrderInv => NoOvertaking BY DEF OrderInv
<1> QED BY <1>1, ServerInv, PTL

-----------------------------------------------------------------------------
(* The calls of the bridge.                                                 *)

\* A call under way without an answer is registered under its id.
WaiterRegistered ==
    \A c \in Calls : InFlight(c) /\ future[c] = None => pending[IdOf[c]] = c

\* Only calls that were sent have a request, an answer or a kept answer.
WasSent(c) == at[c] \in {"waiting", "done"}
AllSent(s) == \A i \in DOMAIN s : WasSent(s[i])
OnlySentQueued == AllSent(inbound) /\ AllSent(replies) /\ AllSent(backlog)

\* An answer is only ever given to a call with the id it carries.
IdsMatch ==
    \A c \in Calls :
        /\ future[c] # None => IdOf[future[c]] = IdOf[c]
        /\ outcome[c] \in Calls => IdOf[outcome[c]] = IdOf[c]

ExchangeInv == TypeOK /\ WaiterRegistered /\ OnlySentQueued /\ IdsMatch /\ OnlyLateAnswersKept

-----------------------------------------------------------------------------
(* The backlog.                                                             *)

\* At most one entry per id.
OnePerId(b) == \A i, j \in DOMAIN b : IdOf[b[i]] = IdOf[b[j]] => i = j

\* Taking an entry out leaves the others as they were.
LEMMA PoppedBacklog ==
    ASSUME backlog \in Seq(Calls), NEW i \in DOMAIN backlog
    PROVE  /\ Popped(i) \in Seq(Calls)
           /\ Len(Popped(i)) = Len(backlog) - 1
           /\ \A k \in DOMAIN Popped(i) :
                 Popped(i)[k] = IF k < i THEN backlog[k] ELSE backlog[k + 1]
<1>1. Popped(i) \in Seq(Calls) /\ Len(Popped(i)) = Len(backlog) - 1 BY RemovedAt DEF Popped
<1>2. \A k \in 1 .. Len(backlog) - 1 :
         Popped(i)[k] = IF k < i THEN backlog[k] ELSE backlog[k + 1]
  BY RemovedAt DEF Popped
<1>3. DOMAIN Popped(i) = 1 .. Len(backlog) - 1 BY <1>1, LenProperties
<1> QED BY <1>1, <1>2, <1>3

\* The backlog after an entry is taken out is well formed.
LEMMA PoppedTyped ==
    ASSUME TypeOK, NEW i \in DOMAIN backlog
    PROVE  /\ Popped(i) \in Seq(Calls) /\ Len(Popped(i)) <= MaxBacklog /\ OnePerId(Popped(i))
           /\ \A k \in DOMAIN Popped(i) : \E j \in DOMAIN backlog : Popped(i)[k] = backlog[j]
<1>1. backlog \in Seq(Calls) /\ Len(backlog) <= MaxBacklog /\ OnePerId(backlog)
  BY DEF TypeOK, OnePerId
<1>2. Len(backlog) \in Nat /\ DOMAIN backlog = 1 .. Len(backlog) /\ i \in 1 .. Len(backlog)
  BY <1>1, LenProperties
<1>3. /\ Popped(i) \in Seq(Calls) /\ Len(Popped(i)) = Len(backlog) - 1
      /\ \A k \in DOMAIN Popped(i) :
            Popped(i)[k] = IF k < i THEN backlog[k] ELSE backlog[k + 1]
  BY <1>1, PoppedBacklog
<1>4. DOMAIN Popped(i) = 1 .. Len(backlog) - 1 BY <1>3, LenProperties
<1>5. \A k \in DOMAIN Popped(i) : k \in DOMAIN backlog /\ k + 1 \in DOMAIN backlog BY <1>2, <1>4
<1>6. Len(Popped(i)) <= MaxBacklog BY <1>1, <1>2, <1>3, ExchangeAssumption
<1>7. OnePerId(Popped(i))
  <2> SUFFICES ASSUME NEW j \in DOMAIN Popped(i), NEW k \in DOMAIN Popped(i),
                      IdOf[Popped(i)[j]] = IdOf[Popped(i)[k]]
               PROVE  j = k
    BY DEF OnePerId
  <2>1. j \in Int /\ k \in Int /\ i \in Int BY <1>2, <1>4
  <2> DEFINE place(n) == IF n < i THEN n ELSE n + 1
  <2>2. /\ place(j) \in DOMAIN backlog /\ Popped(i)[j] = backlog[place(j)]
        /\ place(k) \in DOMAIN backlog /\ Popped(i)[k] = backlog[place(k)]
    BY <1>3, <1>5
  <2>3. place(j) = place(k) BY <2>2, <1>1 DEF OnePerId
  <2> QED BY <2>1, <2>3
<1> QED BY <1>3, <1>5, <1>6, <1>7

\* An answer is added, or put in the place of the one that had its id.
LEMMA KeptTyped ==
    ASSUME TypeOK, NEW r \in Calls
    PROVE  /\ Kept(r) \in Seq(Calls) /\ Len(Kept(r)) <= MaxBacklog + 1 /\ OnePerId(Kept(r))
           /\ \A k \in DOMAIN Kept(r) :
                 Kept(r)[k] = r \/ \E j \in DOMAIN backlog : Kept(r)[k] = backlog[j]
<1>1. backlog \in Seq(Calls) /\ Len(backlog) <= MaxBacklog /\ OnePerId(backlog)
  BY DEF TypeOK, OnePerId
<1>2. Len(backlog) \in Nat /\ DOMAIN backlog = 1 .. Len(backlog) BY <1>1, LenProperties
<1>3. CASE LateFor(IdOf[r]) = {}
  <2>1. Kept(r) = Append(backlog, r) BY <1>3 DEF Kept
  <2>2. /\ Kept(r) \in Seq(Calls) /\ Len(Kept(r)) = Len(backlog) + 1
        /\ \A k \in 1 .. Len(backlog) : Kept(r)[k] = backlog[k]
        /\ Kept(r)[Len(backlog) + 1] = r
    BY <1>1, <2>1, AppendProperties
  <2>3. DOMAIN Kept(r) = 1 .. Len(backlog) + 1 BY <2>2, LenProperties
  <2>4. \A k \in 1 .. Len(backlog) : IdOf[backlog[k]] # IdOf[r] BY <1>2, <1>3 DEF LateFor
  <2>5. \A k \in DOMAIN Kept(r) : k \in 1 .. Len(backlog) \/ k = Len(backlog) + 1 BY <1>2, <2>3
  <2>6. OnePerId(Kept(r)) BY <1>1, <1>2, <2>2, <2>4, <2>5 DEF OnePerId
  <2> QED BY <1>1, <1>2, <2>2, <2>5, <2>6, ExchangeAssumption
<1>4. CASE LateFor(IdOf[r]) # {}
  <2>1. Kept(r) = [i \in 1 .. Len(backlog) |->
                      IF i \in LateFor(IdOf[r]) THEN r ELSE backlog[i]]
    BY <1>2, <1>4 DEF Kept
  <2>2. \A i \in 1 .. Len(backlog) : backlog[i] \in Calls BY <1>1, ElementOfSeq
  <2>3. Kept(r) \in Seq(Calls) /\ Len(Kept(r)) = Len(backlog) BY <1>2, <2>1, <2>2
  <2>4. DOMAIN Kept(r) = 1 .. Len(backlog) BY <2>1
  <2>5. \A i \in 1 .. Len(backlog) :
           /\ IdOf[Kept(r)[i]] = IdOf[backlog[i]]
           /\ Kept(r)[i] = r \/ Kept(r)[i] = backlog[i]
    BY <1>2, <2>1 DEF LateFor
  <2>6. OnePerId(Kept(r)) BY <1>1, <1>2, <2>4, <2>5 DEF OnePerId
  <2> QED BY <1>1, <1>2, <2>3, <2>4, <2>5, <2>6, ExchangeAssumption
<1> QED BY <1>3, <1>4

\* Pruning a backlog one over its limit brings it within the limit.
LEMMA PrunedTyped ==
    ASSUME NEW b \in Seq(Calls), Len(b) <= MaxBacklog + 1, OnePerId(b)
    PROVE  /\ Pruned(b) \in Seq(Calls) /\ Len(Pruned(b)) <= MaxBacklog /\ OnePerId(Pruned(b))
           /\ \A k \in DOMAIN Pruned(b) : \E j \in DOMAIN b : Pruned(b)[k] = b[j]
<1>1. Len(b) \in Nat /\ DOMAIN b = 1 .. Len(b) BY LenProperties
<1>2. CASE Len(b) <= MaxBacklog
  <2>1. Pruned(b) = b BY <1>1, <1>2, ExchangeAssumption DEF Pruned
  <2> QED BY <1>2, <2>1
<1>3. CASE Len(b) > MaxBacklog
  <2>1. PruneCount \in Nat /\ PruneCount >= 1 /\ PruneCount <= Len(b) /\ Len(b) = MaxBacklog + 1
    <3>1. MaxBacklog \in Nat /\ PruneCount \in 1 .. (MaxBacklog + 1) BY ExchangeAssumption
    <3>2. Len(b) = MaxBacklog + 1
      <4>1. Len(b) <= MaxBacklog + 1 OBVIOUS
      <4>2. Len(b) \in Nat /\ Len(b) > MaxBacklog BY <1>1, <1>3
      <4> QED BY <3>1, <4>1, <4>2
    <3>3. PruneCount \in Nat /\ PruneCount >= 1 BY <3>1
    <3>4. PruneCount <= Len(b) BY <3>1, <3>2
    <3> QED BY <3>2, <3>3, <3>4
  <2>2. Pruned(b) = SubSeq(b, PruneCount + 1, Len(b)) BY <1>3 DEF Pruned
  <2>3. \A i \in PruneCount + 1 .. Len(b) : b[i] \in Calls BY <1>1, <2>1, ElementOfSeq
  <2>4. /\ Pruned(b) \in Seq(Calls)
        /\ Len(Pruned(b)) =
              IF PruneCount + 1 <= Len(b) THEN Len(b) - (PruneCount + 1) + 1 ELSE 0
        /\ \A i \in 1 .. Len(b) - (PruneCount + 1) + 1 :
              Pruned(b)[i] = b[PruneCount + 1 + i - 1]
    BY <1>1, <2>1, <2>2, <2>3, SubSeqProperties
  <2>5. Len(Pruned(b)) = Len(b) - PruneCount BY <1>1, <2>1, <2>4
  <2>6. DOMAIN Pruned(b) = 1 .. Len(b) - PruneCount BY <2>4, <2>5, LenProperties
  <2>7. \A i \in DOMAIN Pruned(b) :
           /\ i \in Int /\ PruneCount + i \in DOMAIN b /\ Pruned(b)[i] = b[PruneCount + i]
    <3> TAKE i \in DOMAIN Pruned(b)
    <3>1. i \in Int /\ i >= 1 /\ i <= Len(b) - PruneCount BY <1>1, <2>1, <2>6
    <3>2. PruneCount + 1 + i - 1 = PruneCount + i BY <3>1, <2>1
    <3>3. Pruned(b)[i] = b[PruneCount + 1 + i - 1] BY <3>1, <1>1, <2>1, <2>4
    <3> QED BY <3>1, <3>2, <3>3, <1>1, <2>1
  <2>8. OnePerId(Pruned(b)) BY <2>1, <2>7 DEF OnePerId
  <2>9. Len(Pruned(b)) <= MaxBacklog BY <1>1, <2>1, <2>5, ExchangeAssumption
  <2> QED BY <2>4, <2>7, <2>8, <2>9
<1> QED BY <1>1, <1>2, <1>3, ExchangeAssumption

-----------------------------------------------------------------------------
(* Sequences of calls that were sent.                                       *)

\* A call that was sent stays so: no action takes it back.
LEMMA SentStays ==
    ASSUME at \in [Calls -> {"idle", "sending", "waiting", "done"}], [ExchangeNext]_exchangeVars,
           NEW c \in Calls, WasSent(c)
    PROVE  WasSent(c)'
<1> USE DEF WasSent
<1>1. ASSUME NEW d \in Calls, Expect(d) PROVE WasSent(c)' BY <1>1 DEF Expect
<1>2. ASSUME NEW d \in Calls, SendAction(d) PROVE WasSent(c)' BY <1>2 DEF SendAction
<1>3. ASSUME NEW d \in Calls, SendFails(d) PROVE WasSent(c)' BY <1>3 DEF SendFails, Ends
<1>4. ASSUME NEW d \in Calls, Returns(d) PROVE WasSent(c)' BY <1>4 DEF Returns, Ends
<1>5. ASSUME NEW d \in Calls, TimesOut(d) PROVE WasSent(c)' BY <1>5 DEF TimesOut, Ends
<1>6. CASE Deliver BY <1>6 DEF Deliver
<1>7. CASE ExecuteRequest BY <1>7 DEF ExecuteRequest
<1>8. CASE PipeBreaks BY <1>8 DEF PipeBreaks
<1>9. CASE Reconnect BY <1>9 DEF Reconnect, InFlight
<1>10. CASE UNCHANGED exchangeVars BY <1>10 DEF exchangeVars
<1> QED BY <1>1, <1>2, <1>3, <1>4, <1>5, <1>6, <1>7, <1>8, <1>9, <1>10 DEF ExchangeNext

\* A sequence made of the elements of one whose calls were all sent is so too.
LEMMA AllSentFrom ==
    ASSUME TypeOK, [ExchangeNext]_exchangeVars, NEW s \in Seq(Calls), AllSent(s), NEW t,
           \A k \in DOMAIN t : \E j \in DOMAIN s : t[k] = s[j]
    PROVE  \A k \in DOMAIN t : at'[t[k]] \in {"waiting", "done"}
<1> SUFFICES ASSUME NEW k \in DOMAIN t PROVE at'[t[k]] \in {"waiting", "done"} OBVIOUS
<1>1. PICK j \in DOMAIN s : t[k] = s[j] OBVIOUS
<1>2. s[j] \in Calls BY <1>1, LenProperties, ElementOfSeq
<1>3. WasSent(s[j]) BY <1>1 DEF AllSent
<1>4. WasSent(s[j])' BY <1>2, <1>3, SentStays DEF TypeOK
<1> QED BY <1>1, <1>4 DEF WasSent

\* What the queues hold was sent, after any step.
LEMMA QueuesKept ==
    ASSUME ExchangeInv, [ExchangeNext]_exchangeVars
    PROVE  OnlySentQueued'
<1> DEFINE Sent(t) == \A k \in DOMAIN t : at'[t[k]] \in {"waiting", "done"}
<1>0. /\ TypeOK /\ AllSent(inbound) /\ AllSent(replies) /\ AllSent(backlog)
      /\ inbound \in Seq(Calls) /\ replies \in Seq(Calls) /\ backlog \in Seq(Calls)
  BY DEF ExchangeInv, TypeOK, OnlySentQueued
<1>1. Sent(inbound) /\ Sent(replies) /\ Sent(backlog) BY <1>0, AllSentFrom
<1> SUFFICES Sent(inbound') /\ Sent(replies') /\ Sent(backlog')
  BY DEF OnlySentQueued, AllSent, WasSent
<1>2. ASSUME NEW c \in Calls, Expect(c)
      PROVE  Sent(inbound') /\ Sent(replies') /\ Sent(backlog')
  <2>1. UNCHANGED <<inbound, replies>> BY <1>2 DEF Expect
  <2>2. CASE UNCHANGED backlog BY <1>1, <2>1, <2>2
  <2>3. CASE \E i \in LateFor(IdOf[c]) : backlog' = Popped(i)
    <3>1. PICK i \in DOMAIN backlog : backlog' = Popped(i) BY <2>3 DEF LateFor
    <3>2. \A k \in DOMAIN Popped(i) : \E j \in DOMAIN backlog : Popped(i)[k] = backlog[j]
      BY <1>0, PoppedTyped
    <3> QED BY <1>0, <1>1, <2>1, <3>1, <3>2, AllSentFrom
  <2> QED BY <1>2, <2>2, <2>3 DEF Expect
<1>3. ASSUME NEW c \in Calls, SendAction(c)
      PROVE  Sent(inbound') /\ Sent(replies') /\ Sent(backlog')
  <2>1. /\ inbound' = Append(inbound, c) /\ at' = [at EXCEPT ![c] = "waiting"]
        /\ UNCHANGED <<replies, backlog>>
    BY <1>3 DEF SendAction
  <2>2. /\ inbound' \in Seq(Calls) /\ Len(inbound') = Len(inbound) + 1
        /\ \A k \in 1 .. Len(inbound) : inbound'[k] = inbound[k]
        /\ inbound'[Len(inbound) + 1] = c
    BY <1>0, <2>1, AppendProperties
  <2>3. /\ DOMAIN inbound' = 1 .. Len(inbound) + 1 /\ DOMAIN inbound = 1 .. Len(inbound)
        /\ Len(inbound) \in Nat
    BY <1>0, <2>2, LenProperties
  <2>4. at'[c] = "waiting" BY <1>0, <2>1 DEF TypeOK
  <2> QED BY <1>1, <2>1, <2>2, <2>3, <2>4
<1>4. ASSUME NEW c \in Calls, SendFails(c) \/ Returns(c) \/ TimesOut(c)
      PROVE  Sent(inbound') /\ Sent(replies') /\ Sent(backlog')
  BY <1>1, <1>4 DEF SendFails, Returns, TimesOut
<1>5. CASE Deliver
  <2> DEFINE r == Head(replies)
  <2>1. /\ r \in Calls /\ replies' = Tail(replies) /\ replies' \in Seq(Calls)
        /\ Len(replies') = Len(replies) - 1
        /\ \A k \in 1 .. Len(replies') : replies'[k] = replies[k + 1]
    BY <1>0, <1>5, HeadTailProperties DEF Deliver
  <2>2. Sent(replies')
    <3>1. /\ Len(replies) \in Nat /\ DOMAIN replies = 1 .. Len(replies)
          /\ DOMAIN replies' = 1 .. Len(replies')
      BY <1>0, <2>1, LenProperties
    <3> QED BY <1>1, <2>1, <3>1
  <2>3. UNCHANGED inbound BY <1>5 DEF Deliver
  <2>4. CASE UNCHANGED backlog BY <1>1, <2>2, <2>3, <2>4
  <2>5. CASE backlog' = Pruned(Kept(r))
    <3>1. /\ Kept(r) \in Seq(Calls) /\ Len(Kept(r)) <= MaxBacklog + 1 /\ OnePerId(Kept(r))
          /\ \A k \in DOMAIN Kept(r) :
                Kept(r)[k] = r \/ \E j \in DOMAIN backlog : Kept(r)[k] = backlog[j]
      BY <1>0, <2>1, KeptTyped
    <3>2. r = replies[1] /\ 1 \in DOMAIN replies
      <4>1. replies # <<>> /\ Len(replies) \in Nat /\ DOMAIN replies = 1 .. Len(replies)
        BY <1>0, <1>5, LenProperties DEF Deliver
      <4>2. Len(replies) # 0 BY <1>0, <4>1, EmptySeq
      <4> QED BY <4>1, <4>2
    <3>3. AllSent(Kept(r))
      <4>1. WasSent(r) BY <1>0, <3>2 DEF AllSent
      <4> QED BY <1>0, <3>1, <4>1 DEF AllSent
    <3>4. \A k \in DOMAIN Pruned(Kept(r)) : \E j \in DOMAIN Kept(r) :
             Pruned(Kept(r))[k] = Kept(r)[j]
      BY <3>1, PrunedTyped
    <3>5. Sent(Pruned(Kept(r))) BY <1>0, <3>1, <3>3, <3>4, AllSentFrom
    <3> QED BY <1>1, <2>2, <2>3, <2>5, <3>5
  <2> QED BY <1>5, <2>4, <2>5 DEF Deliver
<1>6. CASE ExecuteRequest
  <2> DEFINE r == Head(inbound)
  <2>1. inbound # <<>> /\ UNCHANGED backlog BY <1>6 DEF ExecuteRequest
  <2>2. /\ r \in Calls /\ Tail(inbound) \in Seq(Calls)
        /\ Len(Tail(inbound)) = Len(inbound) - 1
        /\ \A k \in 1 .. Len(Tail(inbound)) : Tail(inbound)[k] = inbound[k + 1]
    BY <1>0, <2>1, HeadTailProperties
  <2>3. /\ Len(inbound) \in Nat /\ DOMAIN inbound = 1 .. Len(inbound) /\ Len(inbound) # 0
        /\ DOMAIN Tail(inbound) = 1 .. Len(Tail(inbound))
    BY <1>0, <2>1, <2>2, LenProperties, EmptySeq
  <2>4. Sent(inbound') BY <1>1, <1>6, <2>2, <2>3 DEF ExecuteRequest
  <2>5. at'[r] \in {"waiting", "done"} BY <1>1, <2>3
  <2>6. Sent(Append(replies, r))
    <3>1. /\ Append(replies, r) \in Seq(Calls) /\ Len(Append(replies, r)) = Len(replies) + 1
          /\ \A k \in 1 .. Len(replies) : Append(replies, r)[k] = replies[k]
          /\ Append(replies, r)[Len(replies) + 1] = r
      BY <1>0, <2>2, AppendProperties
    <3>2. /\ Len(replies) \in Nat /\ DOMAIN replies = 1 .. Len(replies)
          /\ DOMAIN Append(replies, r) = 1 .. Len(replies) + 1
      BY <1>0, <3>1, LenProperties
    <3> QED BY <1>1, <2>5, <3>1, <3>2
  <2>7. replies' = Append(replies, r) \/ replies' = replies BY <1>6 DEF ExecuteRequest
  <2> QED BY <1>1, <2>1, <2>4, <2>6, <2>7
<1>7. CASE PipeBreaks
  <2>1. replies' = <<>> /\ UNCHANGED backlog BY <1>7 DEF PipeBreaks
  <2>2. PICK n \in 0 .. Len(inbound) : inbound' = SubSeq(inbound, 1, n) BY <1>7 DEF PipeBreaks
  <2>3. Len(inbound) \in Nat /\ DOMAIN inbound = 1 .. Len(inbound) BY <1>0, LenProperties
  <2>4. \A k \in 1 .. n : inbound[k] \in Calls BY <1>0, <2>3, ElementOfSeq
  <2>5. /\ inbound' \in Seq(Calls) /\ Len(inbound') = IF 1 <= n THEN n - 1 + 1 ELSE 0
        /\ \A k \in 1 .. n - 1 + 1 : inbound'[k] = inbound[1 + k - 1]
    BY <2>2, <2>3, <2>4, SubSeqProperties
  <2>6. DOMAIN inbound' = 1 .. n /\ \A k \in 1 .. n : inbound'[k] = inbound[k]
    BY <2>2, <2>3, <2>5, LenProperties
  <2>7. Sent(inbound') BY <1>1, <2>2, <2>3, <2>6
  <2> QED BY <1>1, <2>1, <2>7
<1>8. CASE Reconnect
  <2>1. Sent(<<>>) OBVIOUS
  <2> QED BY <1>1, <1>8, <2>1 DEF Reconnect
<1>9. CASE UNCHANGED exchangeVars BY <1>1, <1>9 DEF exchangeVars
<1> QED BY <1>2, <1>3, <1>4, <1>5, <1>6, <1>7, <1>8, <1>9 DEF ExchangeNext

-----------------------------------------------------------------------------
(* The other parts of the invariant.                                        *)

\* The answer the reader holds next, and whom it is for.
LEMMA NextAnswer ==
    ASSUME TypeOK, replies # <<>>
    PROVE  /\ Head(replies) \in Calls /\ Tail(replies) \in Seq(Calls)
           /\ Addressee(Head(replies)) \in Calls \cup {None}
           /\ Addressee(Head(replies)) # None =>
                 /\ IdOf[Addressee(Head(replies))] = IdOf[Head(replies)]
                 /\ InFlight(Addressee(Head(replies)))
<1>1. Head(replies) \in Calls /\ Tail(replies) \in Seq(Calls)
  BY HeadTailProperties DEF TypeOK
<1>2. IdOf[Head(replies)] \in Ids BY <1>1, ExchangeAssumption
<1> QED BY <1>1, <1>2 DEF Addressee, TypeOK

\* A call that waits without an answer stays registered.
LEMMA WaiterKept ==
    ASSUME ExchangeInv, [ExchangeNext]_exchangeVars
    PROVE  WaiterRegistered'
<1> USE DEF InFlight
<1>0. /\ TypeOK /\ WaiterRegistered /\ at \in [Calls -> {"idle", "sending", "waiting", "done"}]
      /\ future \in [Calls -> Calls \cup {None}] /\ pending \in [Ids -> Calls \cup {None}]
      /\ IdOf \in [Calls -> Ids] /\ None \notin Calls
  BY ExchangeAssumption DEF ExchangeInv, TypeOK
<1>1. ASSUME NEW c \in Calls, Expect(c) PROVE WaiterRegistered'
  <2>1. /\ at' = [at EXCEPT ![c] = "sending"]
        /\ \A d \in Calls : at[d] \in {"sending", "waiting"} => IdOf[d] # IdOf[c]
    BY <1>1 DEF Expect
  <2>2. CASE pending' = Registered(c) /\ UNCHANGED future
    BY <1>0, <2>1, <2>2 DEF WaiterRegistered, Registered
  <2>3. CASE \E i \in LateFor(IdOf[c]) : future' = [future EXCEPT ![c] = backlog[i]]
                                       /\ UNCHANGED pending
    <3>1. PICK i \in DOMAIN backlog : future' = [future EXCEPT ![c] = backlog[i]]
      BY <2>3 DEF LateFor
    <3>2. backlog[i] \in Calls BY <1>0, LenProperties, ElementOfSeq DEF TypeOK
    <3>3. future'[c] # None BY <1>0, <3>1, <3>2
    <3> QED BY <1>0, <2>1, <2>3, <3>1, <3>3 DEF WaiterRegistered
  <2> QED BY <1>1, <2>2, <2>3 DEF Expect
<1>2. ASSUME NEW c \in Calls, SendAction(c) PROVE WaiterRegistered'
  BY <1>0, <1>2 DEF SendAction, WaiterRegistered
<1>3. ASSUME NEW c \in Calls, SendFails(c) \/ Returns(c) \/ TimesOut(c) PROVE WaiterRegistered'
  <2>1. /\ at' = [at EXCEPT ![c] = "done"] /\ pending' = Forgotten(c) /\ UNCHANGED future
    BY <1>3 DEF SendFails, Returns, TimesOut, Ends
  <2> QED BY <1>0, <2>1 DEF WaiterRegistered, Forgotten
<1>4. CASE Deliver
  <2>1. /\ UNCHANGED <<at, pending>>
        /\ \A d \in Calls : future'[d] = None => future[d] = None
    BY <1>0, <1>4, NextAnswer DEF Deliver, Unresolved
  <2> QED BY <1>0, <2>1 DEF WaiterRegistered
<1>5. CASE ExecuteRequest \/ PipeBreaks
  BY <1>0, <1>5 DEF ExecuteRequest, PipeBreaks, WaiterRegistered
<1>6. CASE Reconnect BY <1>0, <1>6 DEF Reconnect, WaiterRegistered
<1>7. CASE UNCHANGED exchangeVars BY <1>0, <1>7 DEF exchangeVars, WaiterRegistered
<1> QED BY <1>1, <1>2, <1>3, <1>4, <1>5, <1>6, <1>7 DEF ExchangeNext

\* What a future holds and a call returns carries the call's id.
LEMMA IdsKept ==
    ASSUME ExchangeInv, [ExchangeNext]_exchangeVars
    PROVE  IdsMatch'
<1>0. /\ TypeOK /\ IdsMatch /\ at \in [Calls -> {"idle", "sending", "waiting", "done"}]
      /\ future \in [Calls -> Calls \cup {None}] /\ outcome \in [Calls -> Calls \cup Words]
      /\ backlog \in Seq(Calls) /\ IdOf \in [Calls -> Ids] /\ None \notin Calls
  BY ExchangeAssumption DEF ExchangeInv, TypeOK
<1>1. ASSUME NEW c \in Calls, Expect(c) PROVE IdsMatch'
  <2>1. UNCHANGED outcome BY <1>1 DEF Expect
  <2>2. CASE UNCHANGED future BY <1>0, <2>1, <2>2 DEF IdsMatch
  <2>3. CASE \E i \in LateFor(IdOf[c]) : future' = [future EXCEPT ![c] = backlog[i]]
    BY <1>0, <2>1, <2>3 DEF IdsMatch, LateFor
  <2> QED BY <1>1, <2>2, <2>3 DEF Expect
<1>2. ASSUME NEW c \in Calls, SendAction(c) PROVE IdsMatch'
  BY <1>0, <1>2 DEF SendAction, IdsMatch
<1>3. ASSUME NEW c \in Calls, Returns(c) PROVE IdsMatch'
  BY <1>0, <1>3 DEF Returns, Ends, IdsMatch
<1>4. ASSUME NEW c \in Calls, SendFails(c) PROVE IdsMatch'
  BY <1>0, <1>4, ExchangeAssumption DEF Words, SendFails, Ends, IdsMatch
<1>5. ASSUME NEW c \in Calls, TimesOut(c) PROVE IdsMatch'
  BY <1>0, <1>5, ExchangeAssumption DEF Words, TimesOut, Ends, IdsMatch
<1>6. CASE Deliver
  BY <1>0, <1>6, NextAnswer DEF Deliver, Unresolved, IdsMatch
<1>7. CASE ExecuteRequest \/ PipeBreaks
  BY <1>0, <1>7 DEF ExecuteRequest, PipeBreaks, IdsMatch
<1>8. CASE Reconnect BY <1>0, <1>8, ExchangeAssumption DEF Words, Reconnect, IdsMatch
<1>9. CASE UNCHANGED exchangeVars BY <1>0, <1>9 DEF exchangeVars, IdsMatch
<1> QED BY <1>1, <1>2, <1>3, <1>4, <1>5, <1>6, <1>7, <1>8, <1>9 DEF ExchangeNext

\* An answer is kept only for a call that has ended or has one already.
LEMMA LateKept ==
    ASSUME ExchangeInv, [ExchangeNext]_exchangeVars
    PROVE  OnlyLateAnswersKept'
<1> DEFINE Late(t) == \A k \in DOMAIN t : 
                 at'[t[k]] \in {"sending", "waiting"} => future'[t[k]] # None
<1>0. /\ TypeOK /\ WaiterRegistered /\ OnlyLateAnswersKept /\ AllSent(backlog)
      /\ at \in [Calls -> {"idle", "sending", "waiting", "done"}]
      /\ future \in [Calls -> Calls \cup {None}] /\ backlog \in Seq(Calls)
      /\ IdOf \in [Calls -> Ids] /\ None \notin Calls
  BY ExchangeAssumption DEF ExchangeInv, TypeOK, OnlySentQueued
<1>1. \A k \in DOMAIN backlog : backlog[k] \in Calls BY <1>0, LenProperties, ElementOfSeq
<1> SUFFICES Late(backlog') BY DEF OnlyLateAnswersKept, InFlight
<1>2. ASSUME NEW c \in Calls, Expect(c) PROVE Late(backlog')
  <2>1. at[c] = "idle" /\ at' = [at EXCEPT ![c] = "sending"] BY <1>2 DEF Expect
  <2>2. \A k \in DOMAIN backlog : backlog[k] # c BY <1>0, <2>1 DEF AllSent, WasSent
  <2>3. \A d \in Calls : d # c => future'[d] = future[d] BY <1>0, <1>2 DEF Expect
  <2>4. Late(backlog) BY <1>0, <1>1, <2>1, <2>2, <2>3 DEF OnlyLateAnswersKept, InFlight
  <2>5. CASE UNCHANGED backlog BY <2>4, <2>5
  <2>6. CASE \E i \in LateFor(IdOf[c]) : backlog' = Popped(i)
    <3>1. PICK i \in DOMAIN backlog : backlog' = Popped(i) BY <2>6 DEF LateFor
    <3>2. \A k \in DOMAIN Popped(i) : \E j \in DOMAIN backlog : Popped(i)[k] = backlog[j]
      BY <1>0, PoppedTyped
    <3> QED BY <2>4, <3>1, <3>2
  <2> QED BY <1>2, <2>5, <2>6 DEF Expect
<1>3. ASSUME NEW c \in Calls, SendAction(c) PROVE Late(backlog')
  BY <1>0, <1>1, <1>3 DEF SendAction, OnlyLateAnswersKept, InFlight
<1>4. ASSUME NEW c \in Calls, SendFails(c) \/ Returns(c) \/ TimesOut(c) PROVE Late(backlog')
  BY <1>0, <1>1, <1>4 DEF SendFails, Returns, TimesOut, Ends, OnlyLateAnswersKept, InFlight
<1>5. CASE Deliver
  <2> DEFINE r == Head(replies)
             a == Addressee(r)
  <2>1. replies # <<>> /\ UNCHANGED at BY <1>5 DEF Deliver
  <2>2. r \in Calls /\ a \in Calls \cup {None} BY <1>0, <2>1, NextAnswer
  <2>3. CASE Unresolved(a) /\ future' = [future EXCEPT ![a] = r] /\ UNCHANGED backlog
    <3>1. a \in Calls BY <2>2, <2>3 DEF Unresolved
    <3>2. \A d \in Calls : future[d] # None => future'[d] # None BY <1>0, <2>2, <2>3, <3>1
    <3> QED BY <1>0, <1>1, <2>1, <2>3, <3>2 DEF OnlyLateAnswersKept, InFlight
  <2>4. CASE ~Unresolved(a) /\ backlog' = Pruned(Kept(r)) /\ UNCHANGED future
    <3>1. /\ Kept(r) \in Seq(Calls) /\ Len(Kept(r)) <= MaxBacklog + 1 /\ OnePerId(Kept(r))
          /\ \A k \in DOMAIN Kept(r) :
                Kept(r)[k] = r \/ \E j \in DOMAIN backlog : Kept(r)[k] = backlog[j]
      BY <1>0, <2>2, KeptTyped
    <3>2. \A k \in DOMAIN Pruned(Kept(r)) : \E j \in DOMAIN Kept(r) :
             Pruned(Kept(r))[k] = Kept(r)[j]
      BY <3>1, PrunedTyped
    \* Had the call no answer yet, it would be the one the answer is for.
    <3>3. InFlight(r) => future[r] # None
      BY <1>0, <2>2, <2>4 DEF WaiterRegistered, Unresolved, Addressee
    <3>4. Late(Kept(r))
      <4>1. at'[r] \in {"sending", "waiting"} => future'[r] # None BY <2>1, <2>4, <3>3 DEF InFlight
      <4>2. Late(backlog) BY <1>0, <2>1, <2>4 DEF OnlyLateAnswersKept, InFlight
      <4> HIDE DEF r
      <4> QED BY <3>1, <4>1, <4>2
    <3> QED BY <2>4, <3>2, <3>4
  <2> QED BY <1>5, <2>3, <2>4 DEF Deliver
<1>6. CASE ExecuteRequest \/ PipeBreaks
  BY <1>0, <1>6 DEF ExecuteRequest, PipeBreaks, OnlyLateAnswersKept, InFlight
<1>7. CASE Reconnect
  <2>1. backlog' = <<>> BY <1>7 DEF Reconnect
  <2> QED BY <2>1
<1>8. CASE UNCHANGED exchangeVars BY <1>0, <1>8 DEF exchangeVars, OnlyLateAnswersKept, InFlight
<1> QED BY <1>2, <1>3, <1>4, <1>5, <1>6, <1>7, <1>8 DEF ExchangeNext

-----------------------------------------------------------------------------
(* Types.                                                                   *)

\* A pending entry belongs to a call under way with that id.
PendingLive == \A i \in Ids : pending[i] # None => IdOf[pending[i]] = i /\ InFlight(pending[i])

\* The tables of the calls and of the ids.
CallTypes ==
    /\ at \in [Calls -> {"idle", "sending", "waiting", "done"}]
    /\ outcome \in [Calls -> Calls \cup Words]
    /\ future \in [Calls -> Calls \cup {None}]
    /\ pending \in [Ids -> Calls \cup {None}]
    /\ PendingLive

\* The queues, the backlog and the connection.
QueueTypes ==
    /\ backlog \in Seq(Calls) /\ Len(backlog) <= MaxBacklog /\ OnePerId(backlog)
    /\ connected \in BOOLEAN /\ connection \in 1 .. MaxConnections
    /\ inbound \in Seq(Calls) /\ replies \in Seq(Calls)

\* The type invariant, in two parts.
LEMMA TypeParts == TypeOK <=> CallTypes /\ QueueTypes
BY DEF TypeOK, CallTypes, QueueTypes, PendingLive, OnePerId

\* No step gives a call or an id a value it may not have.
LEMMA CallTypesKept ==
    ASSUME TypeOK, [ExchangeNext]_exchangeVars
    PROVE  CallTypes'
<1> USE DEF CallTypes, PendingLive, InFlight
<1>0. CallTypes /\ backlog \in Seq(Calls) /\ IdOf \in [Calls -> Ids] /\ None \notin Calls
  BY TypeParts, ExchangeAssumption DEF QueueTypes
<1>1. ASSUME NEW c \in Calls, Expect(c) PROVE CallTypes'
  <2>1. at[c] = "idle" /\ at' = [at EXCEPT ![c] = "sending"] /\ UNCHANGED outcome
    BY <1>1 DEF Expect
  <2>2. CASE pending' = Registered(c) /\ UNCHANGED future
    BY <1>0, <2>1, <2>2 DEF Registered
  <2>3. CASE /\ UNCHANGED pending
             /\ \E i \in LateFor(IdOf[c]) : future' = [future EXCEPT ![c] = backlog[i]]
    <3>1. PICK i \in DOMAIN backlog : future' = [future EXCEPT ![c] = backlog[i]]
      BY <2>3 DEF LateFor
    <3>2. backlog[i] \in Calls BY <1>0, LenProperties, ElementOfSeq
    <3> QED BY <1>0, <2>1, <2>3, <3>1, <3>2
  <2> QED BY <1>1, <2>2, <2>3 DEF Expect
<1>2. ASSUME NEW c \in Calls, SendAction(c) PROVE CallTypes' BY <1>0, <1>2 DEF SendAction
<1>3. ASSUME NEW c \in Calls, NEW word \in Calls \cup Words, Ends(c, word),
             pending' = Forgotten(c), UNCHANGED future
      PROVE  CallTypes'
  BY <1>0, <1>3 DEF Ends, Forgotten
<1>4. ASSUME NEW c \in Calls, SendFails(c) PROVE CallTypes'
  BY <1>3, <1>4 DEF SendFails, Words
<1>5. ASSUME NEW c \in Calls, Returns(c) PROVE CallTypes'
  BY <1>0, <1>3, <1>5 DEF Returns
<1>6. ASSUME NEW c \in Calls, TimesOut(c) PROVE CallTypes'
  BY <1>3, <1>6 DEF TimesOut, Words
<1>7. CASE Deliver
  <2>1. Head(replies) \in Calls /\ Addressee(Head(replies)) \in Calls \cup {None}
    BY <1>7, NextAnswer DEF Deliver
  <2>2. UNCHANGED <<at, outcome, pending>> BY <1>7 DEF Deliver
  <2>3. \/ UNCHANGED future
        \/ future' = [future EXCEPT ![Addressee(Head(replies))] = Head(replies)]
    BY <1>7 DEF Deliver
  <2>4. future' \in [Calls -> Calls \cup {None}] BY <1>0, <2>1, <2>3
  <2> QED BY <1>0, <2>2, <2>4
<1>8. CASE ExecuteRequest \/ PipeBreaks BY <1>0, <1>8 DEF ExecuteRequest, PipeBreaks
<1>9. CASE Reconnect BY <1>0, <1>9 DEF Reconnect, Words
<1>10. CASE UNCHANGED exchangeVars BY <1>0, <1>10 DEF exchangeVars
<1> QED BY <1>1, <1>2, <1>4, <1>5, <1>6, <1>7, <1>8, <1>9, <1>10 DEF ExchangeNext

\* No step breaks a queue, the limit of the backlog or its one answer per id.
LEMMA QueueTypesKept ==
    ASSUME TypeOK, [ExchangeNext]_exchangeVars
    PROVE  QueueTypes'
<1> USE DEF QueueTypes
<1>0. QueueTypes BY TypeParts
<1>1. ASSUME NEW c \in Calls, Expect(c) PROVE QueueTypes'
  <2>1. UNCHANGED <<connected, connection, inbound, replies>> BY <1>1 DEF Expect
  <2>2. CASE UNCHANGED backlog BY <1>0, <2>1, <2>2 DEF OnePerId
  <2>3. CASE \E i \in LateFor(IdOf[c]) : backlog' = Popped(i)
    <3>1. PICK i \in DOMAIN backlog : backlog' = Popped(i) BY <2>3 DEF LateFor
    <3>2. Popped(i) \in Seq(Calls) /\ Len(Popped(i)) <= MaxBacklog /\ OnePerId(Popped(i))
      BY PoppedTyped
    <3> QED BY <1>0, <2>1, <3>1, <3>2 DEF OnePerId
  <2> QED BY <1>1, <2>2, <2>3 DEF Expect
<1>2. ASSUME NEW c \in Calls, SendAction(c) PROVE QueueTypes'
  BY <1>0, <1>2, AppendProperties DEF SendAction, OnePerId
<1>3. ASSUME NEW c \in Calls, SendFails(c) \/ Returns(c) \/ TimesOut(c) PROVE QueueTypes'
  BY <1>0, <1>3 DEF SendFails, Returns, TimesOut, OnePerId
<1>4. CASE Deliver
  <2> DEFINE r == Head(replies)
  <2>1. r \in Calls /\ replies' \in Seq(Calls) /\ UNCHANGED <<connected, connection, inbound>>
    BY <1>4, NextAnswer DEF Deliver
  <2>2. CASE UNCHANGED backlog BY <1>0, <2>1, <2>2 DEF OnePerId
  <2>3. CASE backlog' = Pruned(Kept(r))
    <3>1. Kept(r) \in Seq(Calls) /\ Len(Kept(r)) <= MaxBacklog + 1 /\ OnePerId(Kept(r))
      BY <2>1, KeptTyped
    <3>2. /\ Pruned(Kept(r)) \in Seq(Calls) /\ Len(Pruned(Kept(r))) <= MaxBacklog
          /\ OnePerId(Pruned(Kept(r)))
      BY <3>1, PrunedTyped
    <3> QED BY <1>0, <2>1, <2>3, <3>2 DEF OnePerId
  <2> QED BY <1>4, <2>2, <2>3 DEF Deliver
<1>5. CASE ExecuteRequest
  <2>1. inbound # <<>> /\ inbound' = Tail(inbound) /\ UNCHANGED <<backlog, connected, connection>>
    BY <1>5 DEF ExecuteRequest
  <2>2. Head(inbound) \in Calls /\ Tail(inbound) \in Seq(Calls)
    BY <1>0, <2>1, HeadTailProperties
  <2>3. Append(replies, Head(inbound)) \in Seq(Calls) BY <1>0, <2>2, AppendProperties
  <2>4. replies' \in Seq(Calls) BY <1>0, <1>5, <2>3 DEF ExecuteRequest
  <2> QED BY <1>0, <2>1, <2>2, <2>4 DEF OnePerId
<1>6. CASE PipeBreaks
  <2>1. replies' = <<>> /\ connected' = FALSE /\ UNCHANGED <<backlog, connection>>
    BY <1>6 DEF PipeBreaks
  <2>2. PICK n \in 0 .. Len(inbound) : inbound' = SubSeq(inbound, 1, n) BY <1>6 DEF PipeBreaks
  <2>3. Len(inbound) \in Nat BY <1>0, LenProperties
  <2>4. \A k \in 1 .. n : inbound[k] \in Calls BY <1>0, <2>2, <2>3, ElementOfSeq
  <2>5. inbound' \in Seq(Calls) BY <2>2, <2>3, <2>4, SubSeqProperties
  <2>6. replies' \in Seq(Calls) BY <2>1, EmptySeq
  <2> QED BY <1>0, <2>1, <2>5, <2>6 DEF OnePerId
<1>7. CASE Reconnect
  <2>1. backlog' = <<>> /\ connected' = TRUE /\ connection' \in 1 .. MaxConnections
        /\ UNCHANGED <<inbound, replies>>
    BY <1>0, <1>7, ExchangeAssumption DEF Reconnect
  <2>2. /\ <<>> \in Seq(Calls) /\ Len(<<>>) = 0 /\ MaxBacklog \in Nat
    BY EmptySeq, ExchangeAssumption
  <2>3. OnePerId(<<>>) BY DEF OnePerId
  <2> QED BY <1>0, <2>1, <2>2, <2>3 DEF OnePerId
<1>8. CASE UNCHANGED exchangeVars BY <1>0, <1>8 DEF exchangeVars, OnePerId
<1> QED BY <1>1, <1>2, <1>3, <1>4, <1>5, <1>6, <1>7, <1>8 DEF ExchangeNext

\* The invariant of the exchange holds before the first call.
LEMMA ExchangeInitially == ExchangeInit => ExchangeInv
<1> SUFFICES ASSUME ExchangeInit PROVE ExchangeInv OBVIOUS
<1>1. <<>> \in Seq(Calls) /\ Len(<<>>) = 0 /\ DOMAIN <<>> = {} BY EmptySeq, LenProperties
<1>2. CallTypes BY Zenon DEF ExchangeInit, CallTypes, PendingLive, Words
<1>3. QueueTypes
  <2>1. 1 \in 1 .. MaxConnections /\ 0 <= MaxBacklog BY ExchangeAssumption
  <2>2. OnePerId(backlog) BY <1>1 DEF ExchangeInit, OnePerId
  <2>3. connected \in BOOLEAN BY Zenon DEF ExchangeInit
  <2> QED BY <1>1, <2>1, <2>2, <2>3 DEF ExchangeInit, QueueTypes
<1>4. WaiterRegistered BY DEF ExchangeInit, WaiterRegistered, InFlight
<1>5. OnlySentQueued BY <1>1 DEF ExchangeInit, OnlySentQueued, AllSent
<1>6. IdsMatch BY ExchangeAssumption DEF ExchangeInit, IdsMatch, Words
<1>7. OnlyLateAnswersKept BY <1>1 DEF ExchangeInit, OnlyLateAnswersKept
<1> QED BY <1>2, <1>3, <1>4, <1>5, <1>6, <1>7, TypeParts DEF ExchangeInv

\* The invariant of the exchange, throughout.
LEMMA ExchangeHolds == ExchangeSpec => []ExchangeInv
<1>1. ExchangeInv /\ [ExchangeNext]_exchangeVars => ExchangeInv'
  <2> SUFFICES ASSUME ExchangeInv, [ExchangeNext]_exchangeVars PROVE ExchangeInv' OBVIOUS
  <2>1. TypeOK BY DEF ExchangeInv
  <2>2. TypeOK' BY <2>1, CallTypesKept, QueueTypesKept
    DEF TypeOK, CallTypes, QueueTypes, PendingLive, OnePerId
  <2> QED BY <2>2, WaiterKept, QueuesKept, IdsKept, LateKept DEF ExchangeInv
<1> QED BY <1>1, ExchangeInitially, PTL DEF ExchangeSpec

-----------------------------------------------------------------------------

\* The tables and queues keep their types; the backlog keeps its limit and one
\* answer per id, and no pending entry outlives its call (ipc_client.py:280-318).
THEOREM ExchangeTyped == ExchangeSpec => []TypeOK
<1>1. ExchangeInv => TypeOK BY DEF ExchangeInv
<1> QED BY <1>1, ExchangeHolds, PTL

\* A call with an id of its own is given its own answer, however late answers
\* come and however often the pipe breaks (ipc_client.py:287-303).
THEOREM OwnAnswer == ExchangeSpec => []AnswerIsOwn
<1>1. ExchangeInv => AnswerIsOwn BY DEF ExchangeInv, IdsMatch, AnswerIsOwn, Unique
<1> QED BY <1>1, ExchangeHolds, PTL

\* The backlog never holds the answer a live call still needs, so pruning it
\* (ipc_client.py:316-318) costs no call its answer, whatever ids are shared.
THEOREM BacklogIsLate == ExchangeSpec => []OnlyLateAnswersKept
<1>1. ExchangeInv => OnlyLateAnswersKept BY DEF ExchangeInv
<1> QED BY <1>1, ExchangeHolds, PTL
=============================================================================
