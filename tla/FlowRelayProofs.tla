-------------------------- MODULE FlowRelayProofs --------------------------
(***************************************************************************)
(* No byte of a relayed flow is lost, repeated or reordered, whatever the  *)
(* sizes of the buffers and however much is sent: BytesKept from an        *)
(* invariant that says where every chunk is.                               *)
(***************************************************************************)
EXTENDS FlowRelay, SequenceTheorems, TLAPS

UpChunk   == 1..MaxUp
DownChunk == 1..MaxDown

Towards == sock \in {"syn", "open"}

\* The type invariant in its parts, with a bound on the queues: none is ever
\* longer than what was sent into it.
Plain ==
    /\ phase \in {"poll", "await", "up", "down", "judge", "gone"}
    /\ upstream \in {"connecting", "connected", "refused", "relaying"}
    /\ sock \in {"syn", "open", "listen", "aborted", "closed", "removed"}
    /\ {ourFin, guestFin, serverFin, broken, guestEof} \subseteq BOOLEAN
    /\ guest \in {"opening", "open", "reset"}

UpTyped ==
    /\ sentUp \in 0..MaxUp
    /\ IsQueue(rx, MaxUp, RxCap) /\ IsQueue(pending, MaxUp, RxCap)
    /\ IsQueue(upNet, MaxUp, UpCap) /\ IsQueue(serverGot, MaxUp, MaxUp)
    /\ Len(serverGot) + Len(upNet) + Len(pending) + Len(rx) <= sentUp

DownTyped ==
    /\ sentDown \in 0..MaxDown
    /\ IsQueue(downNet, MaxDown, DownCap) /\ IsQueue(tx, MaxDown, TxCap)
    /\ IsQueue(guestGot, MaxDown, MaxDown)
    /\ Len(guestGot) + Len(tx) + Len(downNet) <= sentDown

UpKept ==
    ~broken /\ upstream # "refused" =>
        serverGot \o upNet \o pending \o rx = Numbered(sentUp)

DownKept ==
    ~broken /\ Towards => guestGot \o tx \o downNet = Numbered(sentDown)

\* From the gate's FIN on, nothing more comes.
FinLast ==
    /\ ourFin /\ Towards => serverFin /\ guestGot \o tx = Numbered(sentDown)
    /\ guestEof => /\ ourFin /\ serverFin /\ tx = <<>>
                   /\ guestGot = Numbered(sentDown)

Up   == UpTyped /\ UpKept
Down == DownTyped /\ DownKept /\ FinLast
IInv == Plain /\ Up /\ Down

upData   == <<sentUp, serverGot, upNet, pending, rx>>
downData == <<sentDown, guestGot, tx, downNet>>

-----------------------------------------------------------------------------
\* A queue and the part taken from its front.
LEMMA Splits ==
    ASSUME NEW S, NEW q \in Seq(S), NEW n \in 1..Len(q)
    PROVE  /\ First(q, n) \in Seq(S) /\ Rest(q, n) \in Seq(S)
           /\ Len(First(q, n)) = n /\ Len(Rest(q, n)) = Len(q) - n
           /\ First(q, n) \o Rest(q, n) = q
<1>0. Len(q) \in Nat /\ n \in Int
    BY LenProperties
<1>1. First(q, n) \in Seq(S) /\ Len(First(q, n)) = n
    BY <1>0, \A i \in 1..n : q[i] \in S, SubSeqProperties, ElementOfSeq DEF First
<1>2. Rest(q, n) \in Seq(S) /\ Len(Rest(q, n)) = Len(q) - n
    BY <1>0, \A i \in n + 1..Len(q) : q[i] \in S, SubSeqProperties, ElementOfSeq DEF Rest
<1>3. First(q, n) \o Rest(q, n) = SubSeq(q, 1, Len(q))
    BY <1>0, ConcatAdjacentSubSeq DEF First, Rest
<1>4. QED
    BY <1>1, <1>2, <1>3, SubSeqFull

\* A queue is its head and what is behind it.
LEMMA Pops ==
    ASSUME NEW S, NEW q \in Seq(S), q # <<>>
    PROVE  /\ Head(q) \in S /\ Tail(q) \in Seq(S) /\ Len(Tail(q)) = Len(q) - 1
           /\ <<Head(q)>> \o Tail(q) = q
<1>1. Head(q) \in S /\ Tail(q) \in Seq(S) /\ Len(Tail(q)) = Len(q) - 1
    BY HeadTailProperties
<1>2. <<Head(q)>> \o Tail(q) = q
    OBVIOUS
<1>3. QED
    BY <1>1, <1>2

LEMMA NumberedSeq ==
    ASSUME NEW n \in Nat
    PROVE  /\ Numbered(n) \in Seq(1..n) /\ Len(Numbered(n)) = n
           /\ Numbered(n + 1) = Numbered(n) \o <<n + 1>>
<1>1. Numbered(n) \in Seq(1..n) /\ Len(Numbered(n)) = n
    BY DEF Numbered
<1>2. Numbered(n + 1) = Numbered(n) \o <<n + 1>>
    BY DEF Numbered
<1>3. QED
    BY <1>1, <1>2

LEMMA Regroups ==
    \A S : \A a, b, c \in Seq(S) : (a \o b) \o c = a \o (b \o c)
OBVIOUS

-----------------------------------------------------------------------------
LEMMA InitHolds == Init => IInv
<1> SUFFICES ASSUME Init PROVE IInv
    OBVIOUS
<1>1. \A n, cap \in Nat : IsQueue(<<>>, n, cap)
    BY DEF IsQueue
<1>2. {MaxUp, MaxDown, RxCap, TxCap, UpCap, DownCap} \subseteq Nat
    BY RelayAssumption
<1>3. {ourFin, guestFin, serverFin, broken, guestEof} \subseteq BOOLEAN
    BY Zenon DEF Init
<1>4. Plain
    BY <1>3 DEF Init, Plain
<1>5. UpTyped /\ DownTyped
    BY <1>1, <1>2 DEF Init, UpTyped, DownTyped
<1>6. Numbered(0) = <<>>
    BY DEF Numbered
<1>7. UpKept /\ DownKept /\ FinLast
    BY <1>6 DEF Init, UpKept, DownKept, FinLast
<1>8. QED
    BY <1>4, <1>5, <1>7 DEF IInv, Up, Down

-----------------------------------------------------------------------------
\* A step of one direction leaves the other's part alone, and one that moves
\* no chunk leaves both.
LEMMA UpStays ==
    ASSUME Up, UNCHANGED upData, broken => broken',
           upstream # "refused" \/ UNCHANGED upstream
    PROVE  Up'
<1>1. UpTyped'
    BY DEF Up, UpTyped, upData
<1>2. UpKept'
    BY DEF Up, UpKept, upData
<1>3. QED
    BY <1>1, <1>2 DEF Up

LEMMA DownStays ==
    ASSUME Down, UNCHANGED downData, UNCHANGED <<ourFin, guestEof>>, serverFin => serverFin',
           broken => broken', Towards' => Towards
    PROVE  Down'
<1>1. DownTyped'
    BY DEF Down, DownTyped, downData
<1>2. DownKept'
    BY DEF Down, DownKept, downData
<1>3. FinLast'
    BY DEF Down, FinLast, downData
<1>4. QED
    BY <1>1, <1>2, <1>3 DEF Down

-----------------------------------------------------------------------------
\* The steps that move no chunk.
StillStep ==
    \/ PollDone \/ StillConnecting \/ TakeUpstream \/ NothingToTake \/ WriteBlocks
    \/ ReadBlocks \/ NoRoom \/ NextRound \/ ConnectEnds
    \/ GuestAcks \/ GuestFins \/ GuestGetsReset \/ StraySegment

LEMMA StillStepsHold ==
    ASSUME IInv, StillStep
    PROVE  IInv'
<1> USE DEF socketVars, serverVars, guestVars, history
<1>1. UNCHANGED <<sentUp, serverGot, upNet, pending, rx, sentDown, guestGot, tx, downNet,
                  ourFin, serverFin, broken, guestEof>>
    BY DEF StillStep, PollDone, StillConnecting, TakeUpstream, NothingToTake, WriteBlocks,
           ReadBlocks, NoRoom, NextRound, ConnectEnds, GuestAcks, GuestFins,
           GuestGetsReset, StraySegment
<1>2. upstream # "refused" \/ UNCHANGED upstream
    BY DEF StillStep, PollDone, StillConnecting, TakeUpstream, NothingToTake, WriteBlocks,
           ReadBlocks, NoRoom, NextRound, ConnectEnds, GuestAcks, GuestFins,
           GuestGetsReset, StraySegment
<1>3. Towards' => Towards
    BY DEF StillStep, PollDone, StillConnecting, TakeUpstream, NothingToTake, WriteBlocks,
           ReadBlocks, NoRoom, NextRound, ConnectEnds, GuestAcks, GuestFins,
           GuestGetsReset, StraySegment, Towards
<1>4. /\ phase' \in {"poll", "await", "up", "down", "judge", "gone"}
      /\ upstream' \in {"connecting", "connected", "refused", "relaying"}
      /\ sock' \in {"syn", "open", "listen", "aborted", "closed", "removed"}
      /\ guest' \in {"opening", "open", "reset"}
    BY DEF StillStep, PollDone, StillConnecting, TakeUpstream, NothingToTake, WriteBlocks,
           ReadBlocks, NoRoom, NextRound, ConnectEnds, GuestAcks, GuestFins,
           GuestGetsReset, StraySegment, IInv, Plain
<1>5. guestFin' \in BOOLEAN
    BY Zenon DEF StillStep, PollDone, StillConnecting, TakeUpstream, NothingToTake,
           WriteBlocks, ReadBlocks, NoRoom, NextRound, ConnectEnds, GuestAcks, GuestFins,
           GuestGetsReset, StraySegment, IInv, Plain
<1>6. Plain'
    BY <1>1, <1>4, <1>5 DEF IInv, Plain
<1>7. Up' /\ Down'
    BY <1>1, <1>2, <1>3, UpStays, DownStays DEF IInv, upData, downData
<1>8. QED
    BY <1>6, <1>7 DEF IInv

-----------------------------------------------------------------------------
\* The queues of one direction as sequences, with their lengths.
LEMMA UpQueues ==
    ASSUME UpTyped
    PROVE  /\ rx \in Seq(1..MaxUp) /\ Len(rx) \in Nat /\ Len(rx) <= RxCap
           /\ pending \in Seq(1..MaxUp) /\ Len(pending) \in Nat /\ Len(pending) <= RxCap
           /\ upNet \in Seq(1..MaxUp) /\ Len(upNet) \in Nat /\ Len(upNet) <= UpCap
           /\ serverGot \in Seq(1..MaxUp) /\ Len(serverGot) \in Nat
           /\ {sentUp, MaxUp, RxCap, UpCap} \subseteq Nat /\ sentUp <= MaxUp
           /\ Len(serverGot) + Len(upNet) + Len(pending) + Len(rx) <= sentUp
           /\ serverGot \o upNet \in Seq(1..MaxUp)
           /\ serverGot \o upNet \o pending \in Seq(1..MaxUp)
<1>1. /\ rx \in Seq(1..MaxUp) /\ pending \in Seq(1..MaxUp)
      /\ upNet \in Seq(1..MaxUp) /\ serverGot \in Seq(1..MaxUp)
    BY DEF UpTyped, IsQueue
<1>2. serverGot \o upNet \in Seq(1..MaxUp)
    BY <1>1, ConcatProperties
<1>3. serverGot \o upNet \o pending \in Seq(1..MaxUp)
    BY <1>1, <1>2, ConcatProperties
<1>4. QED
    BY <1>1, <1>2, <1>3, RelayAssumption, LenProperties DEF UpTyped, IsQueue

LEMMA DownQueues ==
    ASSUME DownTyped
    PROVE  /\ downNet \in Seq(1..MaxDown) /\ Len(downNet) \in Nat /\ Len(downNet) <= DownCap
           /\ tx \in Seq(1..MaxDown) /\ Len(tx) \in Nat /\ Len(tx) <= TxCap
           /\ guestGot \in Seq(1..MaxDown) /\ Len(guestGot) \in Nat
           /\ {sentDown, MaxDown, DownCap, TxCap} \subseteq Nat /\ sentDown <= MaxDown
           /\ Len(guestGot) + Len(tx) + Len(downNet) <= sentDown
           /\ guestGot \o tx \in Seq(1..MaxDown)
<1>1. /\ downNet \in Seq(1..MaxDown) /\ tx \in Seq(1..MaxDown)
      /\ guestGot \in Seq(1..MaxDown)
    BY DEF DownTyped, IsQueue
<1>2. guestGot \o tx \in Seq(1..MaxDown)
    BY <1>1, ConcatProperties
<1>3. QED
    BY <1>1, <1>2, RelayAssumption, LenProperties DEF DownTyped, IsQueue

LEMMA GuestSendsHolds ==
    ASSUME IInv, GuestSends
    PROVE  IInv'
<1>q. Plain /\ Up /\ Down /\ UpTyped /\ UpKept /\ DownTyped /\ DownKept /\ FinLast
    BY DEF IInv, Up, Down
<1>1. UNCHANGED <<phase, upstream, sock, ourFin, guestFin, guest, guestEof, serverFin,
                  broken, pending, upNet, serverGot>>
      /\ UNCHANGED downData
    BY DEF GuestSends, serverVars, guestVars, downData
<1>2. Plain' /\ Down'
    BY <1>q, <1>1, DownStays DEF Plain, Towards
<1>3. /\ sentUp' = sentUp + 1 /\ sentUp + 1 \in 1..MaxUp
      /\ rx' = Append(rx, sentUp + 1) /\ Len(rx) < RxCap
    BY <1>q, UpQueues DEF GuestSends
<1>4. rx' \in Seq(1..MaxUp) /\ Len(rx') = Len(rx) + 1 /\ rx' = rx \o <<sentUp + 1>>
    BY <1>q, <1>3, UpQueues, AppendProperties, AppendIsConcat
<1>5. UpTyped'
    BY <1>q, <1>1, <1>3, <1>4, UpQueues DEF UpTyped, IsQueue
<1>6. UpKept'
  <2>1. (serverGot \o upNet \o pending) \o (rx \o <<sentUp + 1>>)
            = (serverGot \o upNet \o pending \o rx) \o <<sentUp + 1>>
    <3>1. <<sentUp + 1>> \in Seq(UpChunk) /\ rx \in Seq(UpChunk)
          /\ serverGot \o upNet \o pending \in Seq(UpChunk)
        BY <1>q, <1>3, UpQueues DEF UpChunk
    <3>2. QED
        BY <3>1, Regroups
  <2>2. Numbered(sentUp + 1) = Numbered(sentUp) \o <<sentUp + 1>>
      BY <1>q, UpQueues, NumberedSeq
  <2>3. QED
      BY <1>q, <2>1, <2>2, <1>1, <1>3, <1>4 DEF UpKept
<1>7. QED
    BY <1>2, <1>5, <1>6 DEF IInv, Up

LEMMA TakeFromGuestHolds ==
    ASSUME IInv, TakeFromGuest
    PROVE  IInv'
<1>q. Plain /\ Up /\ Down /\ UpTyped /\ UpKept /\ DownTyped /\ DownKept /\ FinLast
    BY DEF IInv, Up, Down
<1>1. UNCHANGED <<phase, upstream, sock, ourFin, guestFin, guest, guestEof, serverFin,
                  broken, sentUp, upNet, serverGot>>
      /\ UNCHANGED downData
    BY DEF TakeFromGuest, Takes, serverVars, guestVars, history, downData
<1>2. Plain' /\ Down'
    BY <1>q, <1>1, DownStays DEF Plain, Towards
<1>3. PICK n \in 1..Len(rx) : pending' = First(rx, n) /\ rx' = Rest(rx, n)
    BY DEF TakeFromGuest, Takes
<1>4. /\ pending' \in Seq(1..MaxUp) /\ rx' \in Seq(1..MaxUp)
      /\ Len(pending') = n /\ Len(rx') = Len(rx) - n /\ pending' \o rx' = rx
      /\ pending = <<>>
    BY <1>q, <1>3, UpQueues, Splits DEF TakeFromGuest
<1>5. UpTyped'
  <2>1. n \in Nat /\ n <= RxCap /\ Len(rx) - n <= RxCap /\ Len(pending) = 0
    <3>1. Len(rx) \in Nat /\ Len(rx) <= RxCap /\ RxCap \in Nat
        BY <1>q, UpQueues, RelayAssumption
    <3>2. n \in Nat /\ n <= RxCap /\ Len(rx) - n <= RxCap
        BY <3>1
    <3>3. Len(pending) = 0
        BY <1>4
    <3>4. QED
        BY <3>2, <3>3
  <2>2. IsQueue(rx', MaxUp, RxCap) /\ IsQueue(pending', MaxUp, RxCap)
      BY <1>4, <2>1 DEF IsQueue
  <2>3. Len(serverGot) + Len(upNet) + n + (Len(rx) - n) <= sentUp
      BY <1>q, <2>1, UpQueues
  <2>4. QED
      BY <1>q, <1>1, <1>4, <2>2, <2>3 DEF UpTyped
<1>6. UpKept'
  <2>1. (serverGot \o upNet) \o pending' \o rx' = (serverGot \o upNet) \o rx
    <3>1. /\ serverGot \o upNet \in Seq(UpChunk) /\ pending' \in Seq(UpChunk)
          /\ rx' \in Seq(UpChunk)
        BY <1>q, <1>4, UpQueues DEF UpChunk
    <3>2. PICK a \in Seq(UpChunk) : a = serverGot \o upNet
        BY <3>1
    <3>3. PICK b, c \in Seq(UpChunk) : b = pending' /\ c = rx'
        BY <3>1
    <3>4. (a \o b) \o c = a \o (b \o c)
        BY Regroups
    <3>5. QED
        BY <3>2, <3>3, <3>4, <1>4
  <2>2. (serverGot \o upNet) \o pending = serverGot \o upNet
    <3>1. serverGot \o upNet \in Seq(1..MaxUp)
        BY <1>q, UpQueues
    <3>2. QED
        BY <3>1, <1>4, ConcatEmptySeq
  <2>3. QED
      BY <1>q, <2>1, <2>2, <1>1 DEF UpKept
<1>7. QED
    BY <1>2, <1>5, <1>6 DEF IInv, Up

LEMMA WriteSomeHolds ==
    ASSUME IInv, WriteSome
    PROVE  IInv'
<1>q. Plain /\ Up /\ Down /\ UpTyped /\ UpKept /\ DownTyped /\ DownKept /\ FinLast
    BY DEF IInv, Up, Down
<1>1. UNCHANGED <<phase, upstream, sock, ourFin, guestFin, guest, guestEof, serverFin,
                  broken, sentUp, rx, serverGot>>
      /\ UNCHANGED downData
    BY DEF WriteSome, Writes, socketVars, guestVars, history, downData
<1>2. Plain' /\ Down'
    BY <1>q, <1>1, DownStays DEF Plain, Towards
<1>r. \A taken, left \in Seq(UpChunk) :
          serverGot \o (upNet \o taken) \o left = serverGot \o upNet \o (taken \o left)
  <2>1. /\ serverGot \in Seq(UpChunk) /\ upNet \in Seq(UpChunk)
        /\ serverGot \o upNet \in Seq(UpChunk)
      BY <1>q, UpQueues DEF UpChunk
  <2>2. \A taken \in Seq(UpChunk) :
            serverGot \o (upNet \o taken) = (serverGot \o upNet) \o taken
      BY <2>1, Regroups
  <2>3. \A taken, left \in Seq(UpChunk) :
            ((serverGot \o upNet) \o taken) \o left = (serverGot \o upNet) \o (taken \o left)
    <3>1. PICK a \in Seq(UpChunk) : a = serverGot \o upNet
        BY <2>1
    <3>2. \A taken, left \in Seq(UpChunk) : (a \o taken) \o left = a \o (taken \o left)
        BY Regroups
    <3>3. QED
        BY <3>1, <3>2
  <2>4. QED
      BY <2>2, <2>3
<1>3. PICK n \in 1..Len(pending) :
          /\ n <= UpCap - Len(upNet)
          /\ upNet' = upNet \o First(pending, n) /\ pending' = Rest(pending, n)
    BY DEF WriteSome, Writes
<1>4. /\ First(pending, n) \in Seq(1..MaxUp) /\ pending' \in Seq(1..MaxUp)
      /\ Len(First(pending, n)) = n /\ Len(pending') = Len(pending) - n
      /\ First(pending, n) \o pending' = pending
    BY <1>q, <1>3, UpQueues, Splits
<1>5. upNet' \in Seq(1..MaxUp) /\ Len(upNet') = Len(upNet) + n
    BY <1>q, <1>3, <1>4, UpQueues, ConcatProperties
<1>6. UpTyped'
  <2>1. Len(pending) - n <= RxCap /\ Len(upNet) + n <= UpCap
      BY <1>q, <1>3, UpQueues
  <2>2. IsQueue(upNet', MaxUp, UpCap) /\ IsQueue(pending', MaxUp, RxCap)
      BY <1>4, <1>5, <2>1 DEF IsQueue
  <2>3. Len(serverGot) + (Len(upNet) + n) + (Len(pending) - n) + Len(rx) <= sentUp
      BY <1>q, <1>3, UpQueues
  <2>4. QED
      BY <1>q, <1>1, <1>4, <1>5, <2>2, <2>3 DEF UpTyped
<1>7. UpKept'
  <2>1. serverGot \o upNet' \o pending' = serverGot \o upNet \o pending
    <3>1. First(pending, n) \in Seq(UpChunk) /\ pending' \in Seq(UpChunk)
        BY <1>4 DEF UpChunk
    <3>2. QED
        BY <1>r, <3>1, <1>3, <1>4
  <2>2. QED
      BY <1>q, <1>1, <2>1 DEF UpKept
<1>8. QED
    BY <1>2, <1>6, <1>7 DEF IInv, Up

LEMMA ServerReadsHolds ==
    ASSUME IInv, ServerReads
    PROVE  IInv'
<1>q. Plain /\ Up /\ Down /\ UpTyped /\ UpKept /\ DownTyped /\ DownKept /\ FinLast
    BY DEF IInv, Up, Down
<1>1. UNCHANGED <<phase, upstream, sock, ourFin, guestFin, guest, guestEof, serverFin,
                  broken, sentUp, rx, pending>>
      /\ UNCHANGED downData
    BY DEF ServerReads, socketVars, guestVars, downData
<1>2. Plain' /\ Down'
    BY <1>q, <1>1, DownStays DEF Plain, Towards
<1>3. upNet # <<>> /\ serverGot' = Append(serverGot, Head(upNet)) /\ upNet' = Tail(upNet)
    BY DEF ServerReads
<1>4. /\ Head(upNet) \in 1..MaxUp /\ upNet' \in Seq(1..MaxUp)
      /\ Len(upNet') = Len(upNet) - 1 /\ <<Head(upNet)>> \o upNet' = upNet
    BY <1>q, <1>3, UpQueues, Pops
<1>5. /\ serverGot' \in Seq(1..MaxUp) /\ Len(serverGot') = Len(serverGot) + 1
      /\ serverGot' = serverGot \o <<Head(upNet)>>
    BY <1>q, <1>3, <1>4, UpQueues, AppendProperties, AppendIsConcat
<1>6. UpTyped'
    BY <1>q, <1>1, <1>4, <1>5, UpQueues DEF UpTyped, IsQueue
<1>7. UpKept'
  <2>1. serverGot' \o upNet' = serverGot \o upNet
    <3>1. /\ serverGot \in Seq(UpChunk) /\ <<Head(upNet)>> \in Seq(UpChunk)
          /\ upNet' \in Seq(UpChunk)
        BY <1>q, <1>4, UpQueues DEF UpChunk
    <3>2. (serverGot \o <<Head(upNet)>>) \o upNet' = serverGot \o (<<Head(upNet)>> \o upNet')
        BY <3>1, Regroups
    <3>3. QED
        BY <3>2, <1>4, <1>5
  <2>2. QED
      BY <1>q, <1>1, <2>1 DEF UpKept
<1>8. QED
    BY <1>2, <1>6, <1>7 DEF IInv, Up

LEMMA StreamBreaksHolds ==
    ASSUME IInv, StreamBreaks
    PROVE  IInv'
<1>q. Plain /\ Up /\ Down /\ UpTyped /\ UpKept /\ DownTyped /\ DownKept /\ FinLast
    BY DEF IInv, Up, Down
<1>1. /\ UNCHANGED <<phase, upstream, sock, ourFin, guestFin, guest, guestEof, serverFin,
                     sentUp, rx, pending, serverGot, sentDown, guestGot, tx>>
      /\ broken' = TRUE /\ upNet' = <<>> /\ downNet' \in {<<>>, downNet}
    BY DEF StreamBreaks, socketVars, guestVars, history
<1>2. Plain'
    BY <1>q, <1>1 DEF Plain
<1>3. UpTyped' /\ DownTyped'
  <2>1. IsQueue(<<>>, MaxUp, UpCap) /\ IsQueue(<<>>, MaxDown, DownCap)
      BY RelayAssumption DEF IsQueue
  <2>2. Len(serverGot) + 0 + Len(pending) + Len(rx) <= sentUp
      BY <1>q, UpQueues
  <2>3. Len(guestGot) + Len(tx) + 0 <= sentDown
      BY <1>q, DownQueues
  <2>4. QED
      BY <1>q, <1>1, <2>1, <2>2, <2>3 DEF UpTyped, DownTyped
<1>4. UpKept' /\ DownKept'
    BY <1>1 DEF UpKept, DownKept
<1>5. FinLast'
    BY <1>q, <1>1 DEF FinLast, Towards
<1>6. QED
    BY <1>2, <1>3, <1>4, <1>5 DEF IInv, Up, Down

\* With the connection to the guest goes what the stack still held for it.
LEMMA SocketGone ==
    ASSUME Down, ~Towards', tx' = <<>>,
           UNCHANGED <<ourFin, serverFin, guestEof, sentDown, guestGot, downNet>>
    PROVE  Down'
<1>1. DownTyped'
  <2>1. IsQueue(<<>>, MaxDown, TxCap)
      BY RelayAssumption DEF IsQueue
  <2>2. Len(guestGot) + 0 + Len(downNet) <= sentDown
      BY DownQueues DEF Down
  <2>3. QED
      BY <2>1, <2>2 DEF Down, DownTyped
<1>2. DownKept' /\ FinLast'
    BY DEF Down, DownKept, FinLast
<1>3. QED
    BY <1>1, <1>2 DEF Down

LEMMA RemoveRefusedHolds ==
    ASSUME IInv, RemoveRefused
    PROVE  IInv'
<1>q. Plain /\ Up /\ Down /\ UpTyped /\ UpKept /\ DownTyped /\ DownKept /\ FinLast
    BY DEF IInv, Up, Down
<1>1. /\ UNCHANGED <<upstream, ourFin, guestFin, guest, guestEof, serverFin, broken,
                     sentUp, pending, upNet, serverGot, sentDown, guestGot, downNet>>
      /\ upstream = "refused" /\ phase' = "gone" /\ sock' = "removed"
      /\ rx' = <<>> /\ tx' = <<>>
    BY DEF RemoveRefused, serverVars, guestVars, history
<1>2. Plain'
    BY <1>q, <1>1 DEF Plain
<1>3. Down'
    BY <1>q, <1>1, SocketGone DEF Towards
<1>4. UpTyped'
  <2>1. IsQueue(<<>>, MaxUp, RxCap)
      BY RelayAssumption DEF IsQueue
  <2>2. Len(serverGot) + Len(upNet) + Len(pending) + 0 <= sentUp
      BY <1>q, UpQueues
  <2>3. QED
      BY <1>q, <1>1, <2>1, <2>2 DEF UpTyped
<1>5. UpKept'
    BY <1>1 DEF UpKept
<1>6. QED
    BY <1>2, <1>3, <1>4, <1>5 DEF IInv, Up

LEMMA FinishHolds ==
    ASSUME IInv, Finish
    PROVE  IInv'
<1>q. Plain /\ Up /\ Down /\ UpTyped /\ UpKept /\ DownTyped /\ DownKept /\ FinLast
    BY DEF IInv, Up, Down
<1>1. /\ UNCHANGED <<upstream, ourFin, guestFin, guest, guestEof, serverFin,
                     sentUp, pending, upNet, serverGot, sentDown, guestGot, downNet>>
      /\ phase' = "gone" /\ sock' = "removed" /\ tx' = <<>> /\ rx' = rx
      /\ broken' = (broken \/ downNet # <<>>)
    BY DEF Finish, Drained, CanRecv, guestVars, history
<1>b. broken' \in BOOLEAN /\ (broken => broken')
    BY <1>1, Zenon
<1>2. Plain'
    BY <1>q, <1>1, <1>b DEF Plain
<1>3. Down'
    BY <1>q, <1>1, SocketGone DEF Towards
<1>4. Up'
    BY <1>q, <1>1, <1>b, UpStays DEF upData
<1>5. QED
    BY <1>2, <1>3, <1>4 DEF IInv

-----------------------------------------------------------------------------
LEMMA GuestGetsHolds ==
    ASSUME IInv, GuestGets
    PROVE  IInv'
<1>q. Plain /\ Up /\ Down /\ UpTyped /\ UpKept /\ DownTyped /\ DownKept /\ FinLast
    BY DEF IInv, Up, Down
<1>1. UNCHANGED <<phase, upstream, sock, ourFin, guestFin, guest, guestEof, serverFin,
                  broken, sentDown, downNet>>
      /\ UNCHANGED upData
    BY DEF GuestGets, serverVars, guestVars, upData
<1>2. Plain' /\ Up'
    BY <1>q, <1>1, UpStays DEF Plain
<1>3. tx # <<>> /\ guestGot' = Append(guestGot, Head(tx)) /\ tx' = Tail(tx)
    BY DEF GuestGets
<1>4. /\ Head(tx) \in 1..MaxDown /\ tx' \in Seq(1..MaxDown)
      /\ Len(tx') = Len(tx) - 1 /\ <<Head(tx)>> \o tx' = tx
    BY <1>q, <1>3, DownQueues, Pops
<1>5. /\ guestGot' \in Seq(1..MaxDown) /\ Len(guestGot') = Len(guestGot) + 1
      /\ guestGot' = guestGot \o <<Head(tx)>>
    BY <1>q, <1>3, <1>4, DownQueues, AppendProperties, AppendIsConcat
<1>6. DownTyped'
    BY <1>q, <1>1, <1>4, <1>5, DownQueues DEF DownTyped, IsQueue
<1>7. guestGot' \o tx' = guestGot \o tx
  <2>1. /\ guestGot \in Seq(DownChunk) /\ <<Head(tx)>> \in Seq(DownChunk)
        /\ tx' \in Seq(DownChunk)
      BY <1>q, <1>4, DownQueues DEF DownChunk
  <2>2. (guestGot \o <<Head(tx)>>) \o tx' = guestGot \o (<<Head(tx)>> \o tx')
      BY <2>1, Regroups
  <2>3. QED
      BY <2>2, <1>4, <1>5
<1>8. DownKept'
    BY <1>q, <1>1, <1>7 DEF DownKept, Towards
<1>9. FinLast'
    BY <1>q, <1>1, <1>3, <1>7 DEF FinLast, Towards
<1>10. QED
    BY <1>2, <1>6, <1>8, <1>9 DEF IInv, Down

LEMMA ReadSomeHolds ==
    ASSUME IInv, ReadSome
    PROVE  IInv'
<1>q. Plain /\ Up /\ Down /\ UpTyped /\ UpKept /\ DownTyped /\ DownKept /\ FinLast
    BY DEF IInv, Up, Down
<1>1. UNCHANGED <<phase, upstream, sock, ourFin, guestFin, guest, guestEof, serverFin,
                  broken, sentDown, guestGot>>
      /\ UNCHANGED upData
    BY DEF ReadSome, guestVars, history, upData
<1>2. Plain' /\ Up'
    BY <1>q, <1>1, UpStays DEF Plain
<1>r. \A taken, left \in Seq(DownChunk) :
          guestGot \o (tx \o taken) \o left = guestGot \o tx \o (taken \o left)
  <2>1. /\ guestGot \in Seq(DownChunk) /\ tx \in Seq(DownChunk)
        /\ guestGot \o tx \in Seq(DownChunk)
      BY <1>q, DownQueues DEF DownChunk
  <2>2. \A taken \in Seq(DownChunk) : guestGot \o (tx \o taken) = (guestGot \o tx) \o taken
      BY <2>1, Regroups
  <2>3. \A taken, left \in Seq(DownChunk) :
            ((guestGot \o tx) \o taken) \o left = (guestGot \o tx) \o (taken \o left)
    <3>1. PICK a \in Seq(DownChunk) : a = guestGot \o tx
        BY <2>1
    <3>2. \A taken, left \in Seq(DownChunk) : (a \o taken) \o left = a \o (taken \o left)
        BY Regroups
    <3>3. QED
        BY <3>1, <3>2
  <2>4. QED
      BY <2>2, <2>3
<1>3. PICK n \in 1..Len(downNet) :
          /\ n <= TxCap - Len(tx)
          /\ tx' = tx \o First(downNet, n) /\ downNet' = Rest(downNet, n)
    BY DEF ReadSome
<1>o. ~ourFin /\ ~guestEof
    BY <1>q DEF ReadSome, CanSend, FinLast
<1>4. /\ First(downNet, n) \in Seq(1..MaxDown) /\ downNet' \in Seq(1..MaxDown)
      /\ Len(First(downNet, n)) = n /\ Len(downNet') = Len(downNet) - n
      /\ First(downNet, n) \o downNet' = downNet
    BY <1>q, <1>3, DownQueues, Splits
<1>5. tx' \in Seq(1..MaxDown) /\ Len(tx') = Len(tx) + n
    BY <1>q, <1>3, <1>4, DownQueues, ConcatProperties
<1>6. DownTyped'
  <2>1. Len(downNet) - n <= DownCap /\ Len(tx) + n <= TxCap
      BY <1>q, <1>3, DownQueues
  <2>2. IsQueue(tx', MaxDown, TxCap) /\ IsQueue(downNet', MaxDown, DownCap)
      BY <1>4, <1>5, <2>1 DEF IsQueue
  <2>3. Len(guestGot) + (Len(tx) + n) + (Len(downNet) - n) <= sentDown
      BY <1>q, <1>3, DownQueues
  <2>4. QED
      BY <1>q, <1>1, <1>4, <1>5, <2>2, <2>3 DEF DownTyped
<1>7. guestGot \o tx' \o downNet' = guestGot \o tx \o downNet
    BY <1>r, <1>3, <1>4, First(downNet, n) \in Seq(DownChunk), downNet' \in Seq(DownChunk)
    DEF DownChunk
<1>8. DownKept'
    BY <1>q, <1>1, <1>7 DEF DownKept, Towards
<1>9. FinLast'
    BY <1>1, <1>o DEF FinLast
<1>10. QED
    BY <1>2, <1>6, <1>8, <1>9 DEF IInv, Down

LEMMA ServerWritesHolds ==
    ASSUME IInv, ServerWrites
    PROVE  IInv'
<1>q. Plain /\ Up /\ Down /\ UpTyped /\ UpKept /\ DownTyped /\ DownKept /\ FinLast
    BY DEF IInv, Up, Down
<1>1. UNCHANGED <<phase, upstream, sock, ourFin, guestFin, guest, guestEof, serverFin,
                  broken, guestGot, tx>>
      /\ UNCHANGED upData
    BY DEF ServerWrites, socketVars, guestVars, upData
<1>2. Plain' /\ Up'
    BY <1>q, <1>1, UpStays DEF Plain
<1>3. /\ sentDown' = sentDown + 1 /\ sentDown + 1 \in 1..MaxDown
      /\ downNet' = Append(downNet, sentDown + 1) /\ Len(downNet) < DownCap /\ ~serverFin
    BY <1>q, DownQueues DEF ServerWrites
<1>4. /\ downNet' \in Seq(1..MaxDown) /\ Len(downNet') = Len(downNet) + 1
      /\ downNet' = downNet \o <<sentDown + 1>>
    BY <1>q, <1>3, DownQueues, AppendProperties, AppendIsConcat
<1>5. DownTyped'
    BY <1>q, <1>1, <1>3, <1>4, DownQueues DEF DownTyped, IsQueue
<1>6. DownKept'
  <2>1. (guestGot \o tx) \o (downNet \o <<sentDown + 1>>)
            = ((guestGot \o tx) \o downNet) \o <<sentDown + 1>>
    <3>1. /\ <<sentDown + 1>> \in Seq(DownChunk) /\ downNet \in Seq(DownChunk)
          /\ guestGot \o tx \in Seq(DownChunk)
        BY <1>q, <1>3, DownQueues DEF DownChunk
    <3>2. QED
        BY <3>1, Regroups
  <2>2. Numbered(sentDown + 1) = Numbered(sentDown) \o <<sentDown + 1>>
      BY <1>q, DownQueues, NumberedSeq
  <2>3. QED
      BY <1>q, <2>1, <2>2, <1>1, <1>3, <1>4 DEF DownKept, Towards
<1>7. FinLast'
    BY <1>q, <1>1, <1>3 DEF FinLast, Towards
<1>8. QED
    BY <1>2, <1>5, <1>6, <1>7 DEF IInv, Down

-----------------------------------------------------------------------------
LEMMA GuestResetsHolds ==
    ASSUME IInv, GuestResets
    PROVE  IInv'
<1>q. Plain /\ Up /\ Down /\ UpTyped /\ UpKept /\ DownTyped /\ DownKept /\ FinLast
    BY DEF IInv, Up, Down
<1>1. /\ UNCHANGED <<phase, upstream, ourFin, guestFin, guestEof, serverFin, broken,
                     sentUp, rx, pending, upNet, serverGot, sentDown, guestGot, downNet>>
      /\ sock' \in {"listen", "closed"} /\ guest' = "reset" /\ tx' = <<>>
    BY DEF GuestResets, serverVars, history
<1>2. Plain'
    BY <1>q, <1>1 DEF Plain
<1>3. Up'
    BY <1>q, <1>1, UpStays DEF upData
<1>4. Down'
    BY <1>q, <1>1, SocketGone DEF Towards
<1>5. QED
    BY <1>2, <1>3, <1>4 DEF IInv

\* abort() on either error of the stream.
AbortStep == Abort /\ UNCHANGED <<upstream, pending, serverVars, guestVars, history>>
                   /\ phase' \in {"down", "judge"}

LEMMA AbortHolds ==
    ASSUME IInv, AbortStep
    PROVE  IInv'
<1>q. Plain /\ Up /\ Down /\ FinLast
    BY DEF IInv, Down
<1>1. /\ UNCHANGED <<upstream, ourFin, guestFin, guest, guestEof, serverFin, broken,
                     sentUp, rx, pending, upNet, serverGot, sentDown, guestGot, downNet>>
      /\ phase' \in {"down", "judge"} /\ tx' = <<>>
      /\ sock' = IF IsActive THEN "aborted" ELSE sock
    BY DEF AbortStep, Abort, serverVars, guestVars, history
<1>2. Plain'
    BY <1>q, <1>1 DEF Plain
<1>3. Up'
    BY <1>q, <1>1, UpStays DEF upData
<1>4. CASE ~Towards'
    BY <1>q, <1>1, <1>2, <1>3, <1>4, SocketGone DEF IInv
<1>5. CASE Towards'
  <2>1. ~IsActive /\ sock' = sock /\ Towards
      BY <1>1, <1>5 DEF Towards
  <2>2. tx' = tx
      BY <1>q, <1>1, <2>1 DEF IsActive, FinLast, Towards
  <2>3. Down'
      BY <1>q, <1>1, <2>1, <2>2, DownStays DEF downData
  <2>4. QED
      BY <1>2, <1>3, <2>3 DEF IInv
<1>6. QED
    BY <1>4, <1>5

LEMMA ReadEofHolds ==
    ASSUME IInv, ReadEof
    PROVE  IInv'
<1>q. Plain /\ Up /\ Down /\ UpTyped /\ UpKept /\ DownTyped /\ DownKept /\ FinLast
    BY DEF IInv, Up, Down
<1>1. /\ UNCHANGED <<upstream, sock, guestFin, guest, guestEof, serverFin, broken,
                     sentUp, rx, pending, upNet, serverGot, sentDown, guestGot, tx, downNet>>
      /\ phase' = "judge" /\ ourFin' = TRUE
      /\ sock = "open" /\ ~ourFin /\ downNet = <<>> /\ serverFin /\ ~broken
    BY DEF ReadEof, AtEof, CanSend, Close, serverVars, guestVars, history
<1>2. Plain'
    BY <1>q, <1>1 DEF Plain
<1>3. Up'
    BY <1>q, <1>1, UpStays DEF upData
<1>4. DownTyped' /\ DownKept'
    BY <1>q, <1>1 DEF DownTyped, DownKept, Towards
<1>5. guestGot \o tx = Numbered(sentDown)
    BY <1>q, <1>1, DownQueues, ConcatEmptySeq DEF DownKept, Towards
<1>6. FinLast'
    BY <1>q, <1>1, <1>5 DEF FinLast, Towards
<1>7. QED
    BY <1>2, <1>3, <1>4, <1>6 DEF IInv, Down

LEMMA GuestGetsFinHolds ==
    ASSUME IInv, GuestGetsFin
    PROVE  IInv'
<1>q. Plain /\ Up /\ Down /\ UpTyped /\ UpKept /\ DownTyped /\ DownKept /\ FinLast
    BY DEF IInv, Up, Down
<1>1. /\ UNCHANGED <<phase, upstream, sock, ourFin, guestFin, guest, serverFin, broken,
                     sentUp, rx, pending, upNet, serverGot, sentDown, guestGot, tx, downNet>>
      /\ guestEof' = TRUE /\ sock = "open" /\ ourFin /\ tx = <<>>
    BY DEF GuestGetsFin, socketVars, serverVars, history
<1>2. Plain'
    BY <1>q, <1>1 DEF Plain
<1>3. Up'
    BY <1>q, <1>1, UpStays DEF upData
<1>4. DownTyped' /\ DownKept'
    BY <1>q, <1>1 DEF DownTyped, DownKept, Towards
<1>5. guestGot = Numbered(sentDown) /\ serverFin
    BY <1>q, <1>1, DownQueues, ConcatEmptySeq DEF FinLast, Towards
<1>6. FinLast'
    BY <1>q, <1>1, <1>5 DEF FinLast, Towards
<1>7. QED
    BY <1>2, <1>3, <1>4, <1>6 DEF IInv, Down

LEMMA ServerFinsHolds ==
    ASSUME IInv, ServerFins
    PROVE  IInv'
<1>q. Plain /\ Up /\ Down /\ UpTyped /\ UpKept /\ DownTyped /\ DownKept /\ FinLast
    BY DEF IInv, Up, Down
<1>1. /\ UNCHANGED <<phase, upstream, sock, ourFin, guestFin, guest, guestEof, broken>>
      /\ UNCHANGED upData /\ UNCHANGED downData /\ serverFin' = TRUE
    BY DEF ServerFins, socketVars, guestVars, history, upData, downData
<1>2. Plain'
    BY <1>q, <1>1 DEF Plain
<1>3. Up' /\ Down'
    BY <1>q, <1>1, UpStays, DownStays DEF Towards
<1>4. QED
    BY <1>2, <1>3 DEF IInv

-----------------------------------------------------------------------------
LEMMA NextHolds == IInv /\ [Next]_vars => IInv'
<1> SUFFICES ASSUME IInv, [Next]_vars PROVE IInv'
    OBVIOUS
<1>1. CASE StillStep
    BY <1>1, StillStepsHold
<1>2. CASE GuestSends \/ TakeFromGuest \/ WriteSome \/ ServerReads
    BY <1>2, GuestSendsHolds, TakeFromGuestHolds, WriteSomeHolds, ServerReadsHolds
<1>3. CASE GuestGets \/ ReadSome \/ ServerWrites
    BY <1>3, GuestGetsHolds, ReadSomeHolds, ServerWritesHolds
<1>4. CASE StreamBreaks \/ RemoveRefused \/ Finish \/ GuestResets
    BY <1>4, StreamBreaksHolds, RemoveRefusedHolds, FinishHolds, GuestResetsHolds
<1>5. CASE ReadEof \/ GuestGetsFin \/ ServerFins
    BY <1>5, ReadEofHolds, GuestGetsFinHolds, ServerFinsHolds
<1>6. CASE WriteFails \/ ReadFails
  <2>1. AbortStep
      BY <1>6 DEF WriteFails, ReadFails, AbortStep
  <2>2. QED
      BY <2>1, AbortHolds
<1>7. CASE UNCHANGED vars
  <2>1. /\ UNCHANGED <<phase, upstream, sock, ourFin, guestFin, guest, guestEof, serverFin,
                       broken>>
        /\ UNCHANGED upData /\ UNCHANGED downData
      BY <1>7 DEF vars, socketVars, serverVars, guestVars, history, upData, downData
  <2>2. Plain'
      BY <2>1 DEF IInv, Plain
  <2>3. Up' /\ Down'
      BY <2>1, UpStays, DownStays DEF IInv, Towards
  <2>4. QED
      BY <2>2, <2>3 DEF IInv
<1>8. QED
    BY <1>1, <1>2, <1>3, <1>4, <1>5, <1>6, <1>7
    DEF Next, Loop, GuestAnswers, GuestActs, Server, StillStep

LEMMA Invariant == Spec => []IInv
<1>1. QED
    BY InitHolds, NextHolds, PTL DEF Spec

\* The relay's buffers never hold more than their sizes, nor anything but what
\* was sent.
THEOREM RelayTyped == Spec => []TypeOK
<1>1. IInv => TypeOK
    BY Zenon DEF IInv, Up, Down, Plain, UpTyped, DownTyped, TypeOK
<1>2. QED
    BY Invariant, <1>1, PTL

\* What relay_once takes and writes in parts arrives whole and in order, and a
\* half-close comes behind all of it, for every number of chunks and every size
\* of the buffers.
THEOREM NoByteLost == Spec => []BytesKept
<1>1. IInv => BytesKept
    BY DEF IInv, Up, Down, UpKept, DownKept, FinLast, BytesKept, Towards
<1>2. QED
    BY Invariant, <1>1, PTL
=============================================================================
