------------------------- MODULE VideoChannelProofs -------------------------
(***************************************************************************)
(* Proofs about VideoChannel for any number of buffers and slots: no       *)
(* buffer is lost or linked twice, no frame is released twice, no frame    *)
(* the client reads has gone back to the engine, and no frame is leaked    *)
(* but one of length 0.                                                    *)
(***************************************************************************)
EXTENDS VideoChannel, TLAPS

\* The bookkeeping that ties the driver's state to what the client knows.
ClientView ==
  /\ current \subseteq held
  /\ streaming => drained /\ op # "flushing"
  /\ ~streaming => current = {}
  /\ op = "flushing" => ~drained
  /\ op = "idle" => inHand = NoBuf
  /\ op = "enqueuing" => inHand \in Buffers

\* A channel whose close has never failed is open only while the client
\* streams, and the format does not change under an open channel.
EngineView ==
  /\ ~broken /\ ~streaming => ~open
  /\ open \/ streaming => type = codec

PlacesInv == TypeOK /\ BuffersConserved /\ ClientView
FramesInv == EngineView /\ NoDoubleRelease /\ FramesPrivate /\ NoFrameLeaked
ChannelInv == PlacesInv /\ FramesInv
-----------------------------------------------------------------------------
\* Taking the head of a queue without repetitions.
LEMMA HeadTailDistinct ==
  ASSUME NEW S, NEW s \in Seq(S), s # <<>>, Distinct(s)
  PROVE  /\ Head(s) \in S
         /\ Tail(s) \in Seq(S)
         /\ Distinct(Tail(s))
         /\ Head(s) \notin RangeOf(Tail(s))
         /\ RangeOf(s) = RangeOf(Tail(s)) \cup {Head(s)}
<1>1. Len(s) \in Nat /\ Len(s) > 0 /\ Head(s) = s[1] /\ Head(s) \in S
  OBVIOUS
<1>2. Tail(s) \in Seq(S) /\ Len(Tail(s)) = Len(s) - 1
  BY <1>1
<1>3. \A i \in 1..Len(Tail(s)) : Tail(s)[i] = s[i+1] /\ i+1 \in 1..Len(s)
  BY <1>1, <1>2
<1>4. DOMAIN s = 1..Len(s) /\ DOMAIN Tail(s) = 1..Len(Tail(s))
  BY <1>2
<1>5. Distinct(Tail(s))
  <2> SUFFICES ASSUME NEW i \in 1..Len(Tail(s)), NEW j \in 1..Len(Tail(s)),
                      Tail(s)[i] = Tail(s)[j]
               PROVE  i = j
    BY <1>4 DEF Distinct
  <2>1. i+1 \in DOMAIN s /\ j+1 \in DOMAIN s /\ s[i+1] = s[j+1]
    BY <1>3, <1>4
  <2>2. i+1 = j+1
    BY <2>1 DEF Distinct
  <2> QED  BY <2>2
<1>6. Head(s) \notin RangeOf(Tail(s))
  <2> SUFFICES ASSUME NEW i \in 1..Len(Tail(s)), Tail(s)[i] = s[1]
               PROVE  FALSE
    BY <1>1, <1>4 DEF RangeOf
  <2>1. i+1 \in DOMAIN s /\ 1 \in DOMAIN s /\ s[i+1] = s[1]
    BY <1>1, <1>3, <1>4
  <2>2. i+1 = 1
    BY <2>1 DEF Distinct
  <2> QED  BY <2>2
<1>7. RangeOf(s) = RangeOf(Tail(s)) \cup {Head(s)}
  <2>1. ASSUME NEW i \in 1..Len(s)
        PROVE  s[i] \in RangeOf(Tail(s)) \cup {Head(s)}
    <3>1. CASE i = 1
      BY <3>1, <1>1
    <3>2. CASE i # 1
      <4>1. i - 1 \in 1..Len(Tail(s)) /\ (i - 1) + 1 = i
        BY <3>2, <1>1, <1>2
      <4>2. Tail(s)[i-1] = s[i]
        BY <4>1, <1>3
      <4> QED  BY <4>1, <4>2, <1>4 DEF RangeOf
    <3> QED  BY <3>1, <3>2
  <2>2. ASSUME NEW i \in 1..Len(Tail(s))
        PROVE  Tail(s)[i] \in RangeOf(s)
    BY <1>3, <1>4 DEF RangeOf
  <2>3. Head(s) \in RangeOf(s)
    BY <1>1, <1>4 DEF RangeOf
  <2>4. RangeOf(s) \subseteq RangeOf(Tail(s)) \cup {Head(s)}
    BY <2>1, <1>4 DEF RangeOf
  <2>5. RangeOf(Tail(s)) \subseteq RangeOf(s)
    BY <2>2, <1>4 DEF RangeOf
  <2> QED  BY <2>3, <2>4, <2>5
<1> QED  BY <1>1, <1>2, <1>5, <1>6, <1>7

\* Putting a new element at the end of a queue without repetitions.
LEMMA AppendDistinct ==
  ASSUME NEW S, NEW s \in Seq(S), NEW x \in S, Distinct(s), x \notin RangeOf(s)
  PROVE  /\ Append(s, x) \in Seq(S)
         /\ Distinct(Append(s, x))
         /\ RangeOf(Append(s, x)) = RangeOf(s) \cup {x}
<1> DEFINE t == Append(s, x)
<1>1. /\ t \in Seq(S) /\ Len(t) = Len(s) + 1 /\ Len(s) \in Nat
      /\ t[Len(s) + 1] = x /\ \A i \in 1..Len(s) : t[i] = s[i]
  OBVIOUS
<1>2. DOMAIN s = 1..Len(s) /\ DOMAIN t = 1..(Len(s) + 1)
  BY <1>1
<1>3. \A i \in 1..Len(s) : s[i] # x
  BY <1>2 DEF RangeOf
<1>4. Distinct(t)
  <2> SUFFICES ASSUME NEW i \in 1..(Len(s) + 1), NEW j \in 1..(Len(s) + 1), t[i] = t[j]
               PROVE  i = j
    BY <1>2 DEF Distinct
  <2>1. CASE i \in 1..Len(s) /\ j \in 1..Len(s)
    <3>1. s[i] = s[j]
      BY <2>1, <1>1
    <3> QED  BY <2>1, <3>1, <1>2 DEF Distinct
  <2>2. CASE i = Len(s) + 1 /\ j \in 1..Len(s)
    BY <2>2, <1>1, <1>3
  <2>3. CASE i \in 1..Len(s) /\ j = Len(s) + 1
    BY <2>3, <1>1, <1>3
  <2> QED  BY <2>1, <2>2, <2>3, <1>1
<1>5. RangeOf(t) = RangeOf(s) \cup {x}
  <2>1. \A i \in 1..(Len(s) + 1) : t[i] \in RangeOf(s) \cup {x}
    <3> TAKE i \in 1..(Len(s) + 1)
    <3>1. CASE i \in 1..Len(s)
      BY <3>1, <1>1, <1>2 DEF RangeOf
    <3>2. CASE i = Len(s) + 1
      BY <3>2, <1>1
    <3> QED  BY <3>1, <3>2, <1>1
  <2>2. \A i \in 1..Len(s) : s[i] \in RangeOf(t)
    <3> TAKE i \in 1..Len(s)
    <3>1. i \in DOMAIN t /\ t[i] = s[i]
      BY <1>1, <1>2
    <3> QED  BY <3>1 DEF RangeOf
  <2>3. x \in RangeOf(t)
    <3>1. Len(s) + 1 \in DOMAIN t
      BY <1>1, <1>2
    <3> QED  BY <3>1, <1>1 DEF RangeOf
  <2>4. RangeOf(t) \subseteq RangeOf(s) \cup {x}
    BY <2>1, <1>2 DEF RangeOf
  <2>5. RangeOf(s) \subseteq RangeOf(t)
    BY <2>2, <1>2 DEF RangeOf
  <2> QED  BY <2>3, <2>4, <2>5
<1> QED  BY <1>1, <1>4, <1>5
-----------------------------------------------------------------------------
LEMMA InitChannelInv == Init => ChannelInv
<1> SUFFICES ASSUME Init PROVE ChannelInv
  OBVIOUS
<1> USE ChannelAssumption DEF Init
<1>1. TypeOK
  <2>1. carries \in [Buffers -> Frames \cup {NoFrame}] /\ owed \in [Frames -> Int]
    OBVIOUS
  <2>2. fifoIn \in Seq(Buffers) /\ fifoOut \in Seq(Buffers)
    OBVIOUS
  <2> QED  BY <2>1, <2>2 DEF TypeOK
<1>2. RangeOf(fifoIn) = {} /\ RangeOf(fifoOut) = {}
  BY DEF RangeOf
<1>3. BuffersConserved
  BY <1>2 DEF BuffersConserved, Distinct
<1>4. ClientView /\ EngineView /\ NoDoubleRelease
  BY DEF ClientView, EngineView, NoDoubleRelease
<1>5. FramesPrivate /\ NoFrameLeaked
  BY <1>2 DEF FramesPrivate, NoFrameLeaked, Live
<1> QED  BY <1>1, <1>3, <1>4, <1>5 DEF ChannelInv, PlacesInv, FramesInv

\* Every step of the driver, of the engine and of a client that keeps the
\* contract leaves each buffer in exactly one place.
LEMMA PlacesStep == PlacesInv /\ [Next]_vars => PlacesInv'
<1> SUFFICES ASSUME PlacesInv, [Next]_vars PROVE PlacesInv'
  OBVIOUS
<1> USE ChannelAssumption DEF PlacesInv
<1>1. ASSUME NEW f \in Frames, NEW kind \in Kinds, NEW content \in Frames \cup {NoFrame},
             FillOldest(f, kind, content), unsized' \in SUBSET Frames
      PROVE  PlacesInv'
  <2> DEFINE b == Head(fifoIn)
  <2>1. /\ b \in Buffers /\ Tail(fifoIn) \in Seq(Buffers) /\ Distinct(Tail(fifoIn))
        /\ b \notin RangeOf(Tail(fifoIn))
        /\ RangeOf(fifoIn) = RangeOf(Tail(fifoIn)) \cup {b}
    BY <1>1, HeadTailDistinct DEF FillOldest, TypeOK, BuffersConserved
  <2>2. b \notin RangeOf(fifoOut)
    BY <2>1 DEF BuffersConserved
  <2>3. /\ Append(fifoOut, b) \in Seq(Buffers) /\ Distinct(Append(fifoOut, b))
        /\ RangeOf(Append(fifoOut, b)) = RangeOf(fifoOut) \cup {b}
    BY <2>1, <2>2, AppendDistinct DEF TypeOK, BuffersConserved
  <2> HIDE DEF b
  <2>4. fifoIn' = Tail(fifoIn) /\ fifoOut' = Append(fifoOut, b)
    BY <1>1 DEF FillOldest, b
  <2>5. TypeOK'
    <3>1. owed' \in [Frames -> Int]
      BY <1>1 DEF FillOldest, TypeOK
    <3>2. carries' \in [Buffers -> Frames \cup {NoFrame}]
      BY <1>1, <2>1 DEF FillOldest, TypeOK, b
    <3>3. forcei' \in BOOLEAN
      BY <1>1 DEF FillOldest
    <3> QED  BY <1>1, <2>1, <2>3, <2>4, <3>1, <3>2, <3>3 DEF FillOldest, EngineHas, TypeOK, client, format
  <2>6. BuffersConserved'
    BY <1>1, <2>1, <2>2, <2>3, <2>4 DEF FillOldest, BuffersConserved
  <2>7. ClientView'
    BY <1>1 DEF FillOldest, ClientView, client, format
  <2> QED  BY <2>5, <2>6, <2>7
<1>2. CASE FlushGet
  <2> DEFINE b == Head(fifoIn)
  <2>1. /\ b \in Buffers /\ Tail(fifoIn) \in Seq(Buffers) /\ Distinct(Tail(fifoIn))
        /\ b \notin RangeOf(Tail(fifoIn))
        /\ RangeOf(fifoIn) = RangeOf(Tail(fifoIn)) \cup {b}
    BY <1>2, HeadTailDistinct DEF FlushGet, TypeOK, BuffersConserved
  <2> HIDE DEF b
  <2>2. fifoIn' = Tail(fifoIn) /\ inHand' = b
    BY <1>2 DEF FlushGet, b
  <2>3. TypeOK'
    BY <1>2, <2>1, <2>2 DEF FlushGet, TypeOK, client, format, hal, force
  <2>4. BuffersConserved'
    BY <1>2, <2>1, <2>2 DEF FlushGet, BuffersConserved
  <2>5. ClientView'
    BY <1>2 DEF FlushGet, ClientView, client, format
  <2> QED  BY <2>3, <2>4, <2>5
<1>3. CASE FlushPut
  <2>1. inHand \in Buffers /\ inHand \notin RangeOf(fifoOut)
    BY <1>3 DEF FlushPut, TypeOK, BuffersConserved
  <2>2. /\ fifoOut' \in Seq(Buffers) /\ Distinct(fifoOut')
        /\ RangeOf(fifoOut') = RangeOf(fifoOut) \cup {inHand}
    BY <1>3, <2>1, AppendDistinct DEF FlushPut, TypeOK, BuffersConserved
  <2>3. TypeOK'
    BY <1>3, <2>2 DEF FlushPut, TypeOK, client, format, hal, force
  <2>4. NoBuf \notin held \cup RangeOf(fifoIn) \cup RangeOf(fifoOut) \cup {inHand}
    BY <2>1 DEF TypeOK, RangeOf
  <2>5. BuffersConserved'
    BY <1>3, <2>1, <2>2, <2>4 DEF FlushPut, BuffersConserved
  <2>6. ClientView'
    BY <1>3 DEF FlushPut, ClientView, client, format
  <2> QED  BY <2>3, <2>5, <2>6
<1>4. CASE MayDequeue /\ Dequeue
  <2> DEFINE b == Head(fifoOut)
  <2>1. /\ b \in Buffers /\ Tail(fifoOut) \in Seq(Buffers) /\ Distinct(Tail(fifoOut))
        /\ b \notin RangeOf(Tail(fifoOut))
        /\ RangeOf(fifoOut) = RangeOf(Tail(fifoOut)) \cup {b}
    BY <1>4, HeadTailDistinct DEF Dequeue, TypeOK, BuffersConserved
  <2> HIDE DEF b
  <2>2. fifoOut' = Tail(fifoOut) /\ held' = held \cup {b}
        /\ current' = IF streaming THEN current \cup {b} ELSE current
    BY <1>4 DEF MayDequeue, Dequeue, b
  <2>3. TypeOK'
    BY <1>4, <2>1, <2>2 DEF Dequeue, TypeOK, hal, force, format
  <2>4. BuffersConserved'
    BY <1>4, <2>1, <2>2 DEF Dequeue, BuffersConserved
  <2>5. ClientView'
    BY <1>4, <2>2 DEF MayDequeue, Dequeue, ClientView
  <2> QED  BY <2>3, <2>4, <2>5
<1>5. ASSUME NEW b \in Buffers, EnqueueRelease(b)
      PROVE  PlacesInv'
  <2>1. TypeOK'
    <3>1. owed' \in [Frames -> Int]
      BY <1>5 DEF EnqueueRelease, TypeOK
    <3> QED  BY <1>5, <3>1 DEF EnqueueRelease, TypeOK, force, format
  <2>2. BuffersConserved'
    BY <1>5 DEF EnqueueRelease, BuffersConserved, ClientView
  <2>3. ClientView'
    BY <1>5 DEF EnqueueRelease, ClientView
  <2> QED  BY <2>1, <2>2, <2>3
<1>6. CASE EnqueuePut
  <2>1. inHand \in Buffers /\ inHand \notin RangeOf(fifoIn)
    BY <1>6 DEF EnqueuePut, TypeOK, BuffersConserved, ClientView
  <2>2. /\ fifoIn' \in Seq(Buffers) /\ Distinct(fifoIn')
        /\ RangeOf(fifoIn') = RangeOf(fifoIn) \cup {inHand}
    BY <1>6, <2>1, AppendDistinct DEF EnqueuePut, TypeOK, BuffersConserved
  <2>3. TypeOK'
    BY <1>6, <2>2 DEF EnqueuePut, TypeOK, client, format, hal, force
  <2>4. NoBuf \notin held \cup RangeOf(fifoIn) \cup RangeOf(fifoOut) \cup {inHand}
    BY <2>1 DEF TypeOK, RangeOf
  <2>5. BuffersConserved'
    BY <1>6, <2>1, <2>2, <2>4 DEF EnqueuePut, BuffersConserved
  <2>6. ClientView'
    BY <1>6 DEF EnqueuePut, ClientView, client, format
  <2> QED  BY <2>3, <2>5, <2>6
<1>7. CASE StreamStop
  <2>1. TypeOK'
    <3>1. /\ owed' \in [Frames -> Int] /\ unsized' \in SUBSET Frames
          /\ open' \in BOOLEAN /\ broken' \in BOOLEAN
      <4>1. CASE CloseSucceeds
        <5>1. owed' = [f \in Frames |-> 0] /\ open' = FALSE
          BY <4>1 DEF CloseSucceeds
        <5>2. owed' \in [Frames -> Int]
          BY <5>1
        <5> QED  BY <4>1, <5>1, <5>2 DEF CloseSucceeds, TypeOK
      <4>2. CASE CloseFails
        BY <4>2 DEF CloseFails, TypeOK
      <4> QED  BY <1>7, <4>1, <4>2 DEF StreamStop
    <3> QED  BY <1>7, <3>1 DEF StreamStop, TypeOK, force, format
  <2>2. BuffersConserved'
    BY <1>7 DEF StreamStop, BuffersConserved
  <2>3. ClientView'
    BY <1>7 DEF StreamStop, ClientView
  <2> QED  BY <2>1, <2>2, <2>3
\* The steps that move no buffer.
<1>8. ASSUME \/ (MayStart /\ StreamStart) \/ StreamStartFails \/ DequeueAgain \/ FlushEnd
             \/ EncOverflow \/ ForceRequest \/ ForceFlag \/ Snapshot \/ UNCHANGED vars
             \/ (\E t \in Formats : SetFmt(t))
      PROVE  PlacesInv'
  <2> USE <1>8 DEF MayStart, StreamStart, StreamStartFails, DequeueAgain, FlushEnd, EncOverflow,
                   ForceRequest, ForceFlag, Snapshot, SetFmt, vars, hal, force, format, client,
                   queues
  <2>1. TypeOK'
    <3>1. keyDue' \in BOOLEAN
      BY DEF TypeOK
    <3> QED  BY <3>1 DEF TypeOK
  <2>2. BuffersConserved'
    BY DEF BuffersConserved
  <2>3. ClientView'
    BY DEF ClientView
  <2> QED  BY <2>1, <2>2, <2>3
<1>9. ASSUME NEW f \in Frames, NEW kind \in Kinds,
             DropUntilKey(f, kind) \/ DropNoBuffer(f, kind)
      PROVE  PlacesInv'
  <2> USE <1>9 DEF DropUntilKey, DropNoBuffer, EngineHas, force, format, client, queues
  <2>1. TypeOK'
    BY DEF TypeOK
  <2>2. BuffersConserved'
    BY DEF BuffersConserved
  <2>3. ClientView'
    BY DEF ClientView
  <2> QED  BY <2>1, <2>2, <2>3
<1>10. ASSUME NEW b \in Buffers, ClearSize(b)
       PROVE  PlacesInv'
  <2> USE <1>10 DEF ClearSize, hal, force, format, client
  <2>1. TypeOK'
    BY DEF TypeOK
  <2>2. BuffersConserved'
    BY DEF BuffersConserved
  <2>3. ClientView'
    BY DEF ClientView
  <2> QED  BY <2>1, <2>2, <2>3
<1> QED
  BY <1>1, <1>2, <1>3, <1>4, <1>5, <1>6, <1>7, <1>8, <1>9, <1>10
     DEF Next, Callback, Deliver, DeliverEmpty, Client, DriverStep, Control, TypeOK
-----------------------------------------------------------------------------
\* No step releases a frame twice, takes back one the client reads, or
\* forgets one.
LEMMA FramesStep == ChannelInv /\ [Next]_vars => FramesInv'
<1> SUFFICES ASSUME ChannelInv, [Next]_vars PROVE FramesInv'
  OBVIOUS
<1> USE ChannelAssumption DEF ChannelInv, PlacesInv, FramesInv
<1>1. ASSUME NEW f \in Frames, NEW kind \in Kinds, NEW content \in {f, NoFrame},
             FillOldest(f, kind, content),
             unsized' = IF content = NoFrame THEN unsized \cup {f} ELSE unsized
      PROVE  FramesInv'
  <2> DEFINE b == Head(fifoIn)
  <2>1. b \in Buffers /\ b \in RangeOf(fifoIn)
    BY <1>1, HeadTailDistinct DEF FillOldest, TypeOK, BuffersConserved
  <2>2. b \notin RangeOf(fifoOut) /\ b \notin current
    BY <2>1 DEF BuffersConserved, ClientView
  <2>3. RangeOf(Append(fifoOut, b)) = RangeOf(fifoOut) \cup {b}
    BY <2>1, <2>2, AppendDistinct DEF TypeOK, BuffersConserved
  <2> HIDE DEF b
  <2>4. /\ fifoOut' = Append(fifoOut, b) /\ carries' = [carries EXCEPT ![b] = content]
        /\ owed' = [owed EXCEPT ![f] = @ + 1] /\ owed[f] = 0 /\ open /\ open' = open
        /\ UNCHANGED client
    BY <1>1 DEF FillOldest, EngineHas, b
  <2>5. Live' = IF streaming \/ drained THEN Live \cup {b} ELSE Live
    BY <2>3, <2>4 DEF Live, client
  <2>6. /\ b \notin Live /\ Live \subseteq Buffers
        /\ \A c \in Live : carries'[c] = carries[c]
                           /\ carries[c] \in Frames \cup {NoFrame} /\ carries[c] # f
    <3>1. b \notin Live /\ Live \subseteq Buffers
      BY <2>2 DEF Live, TypeOK, RangeOf
    <3>2. \A c \in Live : carries'[c] = carries[c] /\ carries[c] \in Frames \cup {NoFrame}
      BY <2>4, <3>1 DEF TypeOK
    <3>3. \A c \in Live : carries[c] # f
      BY <2>4 DEF FramesPrivate
    <3> QED  BY <3>1, <3>2, <3>3
  <2>7. carries'[b] = content /\ owed'[f] = 1 /\ \A g \in Frames \ {f} : owed'[g] = owed[g]
    BY <2>1, <2>4 DEF TypeOK
  <2>8. EngineView'
    BY <2>4 DEF EngineView, client, format
  <2>9. NoDoubleRelease'
    BY <2>7 DEF NoDoubleRelease
  <2>10. FramesPrivate'
    <3> SUFFICES ASSUME NEW c \in Live'
                 PROVE  IF carries'[c] = NoFrame THEN unsized' # {}
                        ELSE /\ owed'[carries'[c]] = 1
                             /\ \A d \in Live' : carries'[d] = carries'[c] => d = c
      BY DEF FramesPrivate
    <3>1. CASE c = b
      BY <1>1, <3>1, <2>5, <2>6, <2>7
    <3>2. CASE c # b
      <4>1. c \in Live /\ carries'[c] = carries[c] /\ carries[c] # f
        BY <3>2, <2>5, <2>6
      <4>2. CASE carries[c] = NoFrame
        BY <1>1, <4>1, <4>2 DEF FramesPrivate
      <4>3. CASE carries[c] # NoFrame
        <5>1. carries[c] \in Frames \ {f} /\ owed[carries[c]] = 1
          BY <4>1, <4>3, <2>6 DEF FramesPrivate
        <5>2. ASSUME NEW d \in Live', carries'[d] = carries[c] PROVE d = c
          BY <4>1, <4>3, <5>1, <5>2, <2>5, <2>6, <2>7 DEF FramesPrivate
        <5> QED  BY <4>1, <4>3, <5>1, <5>2, <2>7
      <4> QED  BY <4>2, <4>3
    <3> QED  BY <3>1, <3>2
  <2>11. NoFrameLeaked'
    <3> SUFFICES ASSUME ~broken, NEW g \in Frames, owed'[g] = 1
                 PROVE  g \in unsized' \/ \E c \in Live' : carries'[c] = g
      BY <2>4 DEF NoFrameLeaked, client
    <3>1. streaming /\ b \in Live'
      BY <2>4, <2>5 DEF EngineView
    <3>2. CASE g = f
      BY <1>1, <3>1, <3>2, <2>7
    <3>3. CASE g # f
      <4>1. CASE g \in unsized
        BY <1>1, <4>1
      <4>2. CASE \E c \in Live : carries[c] = g
        BY <4>2, <2>5, <2>6
      <4> QED  BY <3>3, <4>1, <4>2, <2>7 DEF NoFrameLeaked
    <3> QED  BY <3>2, <3>3
  <2> QED  BY <2>8, <2>9, <2>10, <2>11
<1>2. ASSUME NEW b \in Buffers, MayEnqueue(b), EnqueueRelease(b)
      PROVE  FramesInv'
  <2>1. /\ UNCHANGED <<fifoOut, carries, open, unsized, streaming, drained, broken, type, codec>>
        /\ current' = current \ {b}
    BY <1>2 DEF MayEnqueue, EnqueueRelease, format
  <2>2. b \in held /\ b \notin RangeOf(fifoOut)
    BY <1>2 DEF MayEnqueue, EnqueueRelease, BuffersConserved
  <2>3. Live' = Live \ {b} /\ EngineView'
    BY <2>1, <2>2 DEF Live, EngineView
  <2>4. CASE carries[b] = NoFrame
    <3>1. owed' = owed
      BY <1>2, <2>4 DEF EnqueueRelease
    <3>2. NoDoubleRelease' /\ FramesPrivate'
      BY <2>1, <2>3, <3>1 DEF NoDoubleRelease, FramesPrivate
    <3>3. NoFrameLeaked'
      BY <2>1, <2>3, <2>4, <3>1 DEF NoFrameLeaked
    <3> QED  BY <2>3, <3>2, <3>3
  <2>5. CASE carries[b] # NoFrame
    <3> DEFINE f == carries[b]
    <3>1. b \in current /\ b \in Live /\ f \in Frames /\ owed[f] = 1 /\ streaming
      BY <1>2, <2>5 DEF MayEnqueue, EnqueueRelease, Live, FramesPrivate, TypeOK, ClientView
    <3>2. owed' = [owed EXCEPT ![f] = @ - 1] /\ open
      BY <1>2, <2>5, <3>1 DEF MayEnqueue, EnqueueRelease, EngineView, NoFrameLeaked
    <3> HIDE DEF f
    <3>3. owed'[f] = 0 /\ \A g \in Frames \ {f} : owed'[g] = owed[g]
      BY <3>1, <3>2 DEF TypeOK
    <3>4. \A c \in Live' : c \in Live /\ carries[c] \in (Frames \ {f}) \cup {NoFrame}
      BY <2>3, <2>5, <3>1 DEF FramesPrivate, TypeOK, Live, RangeOf, f
    <3>5. NoDoubleRelease'
      BY <3>3 DEF NoDoubleRelease
    <3>6. FramesPrivate'
      <4> SUFFICES ASSUME NEW c \in Live'
                   PROVE  IF carries[c] = NoFrame THEN unsized # {}
                          ELSE /\ owed'[carries[c]] = 1
                               /\ \A d \in Live' : carries[d] = carries[c] => d = c
        BY <2>1 DEF FramesPrivate
      <4>1. c \in Live
        BY <3>4
      <4>2. CASE carries[c] = NoFrame
        BY <4>1, <4>2 DEF FramesPrivate
      <4>3. CASE carries[c] # NoFrame
        BY <4>1, <4>3, <3>3, <3>4 DEF FramesPrivate
      <4> QED  BY <4>2, <4>3
    <3>7. NoFrameLeaked'
      BY <2>1, <2>3, <3>2, <3>3 DEF NoFrameLeaked, f
    <3> QED  BY <2>3, <3>5, <3>6, <3>7
  <2> QED  BY <2>4, <2>5
<1>3. CASE StreamStop
  <2>1. Live' = {}
    BY <1>3 DEF StreamStop, Live
  <2>2. FramesPrivate'
    BY <2>1 DEF FramesPrivate
  <2>3. CASE CloseSucceeds
    <3>1. open' = FALSE /\ unsized' = {} /\ \A f \in Frames : owed'[f] = 0
      BY <2>3 DEF CloseSucceeds
    <3> QED
      BY <1>3, <2>2, <3>1 DEF StreamStop, EngineView, NoDoubleRelease, NoFrameLeaked
  <2>4. CASE CloseFails
    BY <1>3, <2>2, <2>4 DEF StreamStop, CloseFails, EngineView, NoDoubleRelease, NoFrameLeaked,
                            format, ClientView
  <2> QED  BY <1>3, <2>3, <2>4 DEF StreamStop
<1>4. CASE MayDequeue /\ Dequeue
  <2>1. fifoOut # <<>> /\ fifoOut' = Tail(fifoOut) /\ Head(fifoOut) \in RangeOf(fifoOut)
        /\ RangeOf(fifoOut) = RangeOf(Tail(fifoOut)) \cup {Head(fifoOut)}
    BY <1>4, HeadTailDistinct DEF Dequeue, TypeOK, BuffersConserved
  <2>2. Live' = Live
    BY <1>4, <2>1 DEF MayDequeue, Dequeue, Live
  <2>3. UNCHANGED <<carries, owed, unsized, open, streaming, broken, type, codec>>
    BY <1>4 DEF MayDequeue, Dequeue, hal, format
  <2> QED
    BY <2>2, <2>3 DEF EngineView, NoDoubleRelease, FramesPrivate, NoFrameLeaked
<1>5. CASE DequeueAgain
  <2>1. RangeOf(fifoOut) = {} /\ Live' = Live
    BY <1>5 DEF DequeueAgain, RangeOf, Live, queues
  <2>2. UNCHANGED <<carries, owed, unsized, open, streaming, broken, type, codec>>
    BY <1>5 DEF DequeueAgain, hal, queues, format
  <2> QED
    BY <2>1, <2>2 DEF EngineView, NoDoubleRelease, FramesPrivate, NoFrameLeaked
<1>6. CASE FlushPut
  <2>1. Live' = Live
    BY <1>6 DEF FlushPut, Live, client, ClientView
  <2>2. UNCHANGED <<carries, owed, unsized, open, streaming, broken, type, codec>>
    BY <1>6 DEF FlushPut, hal, client, format
  <2> QED
    BY <2>1, <2>2 DEF EngineView, NoDoubleRelease, FramesPrivate, NoFrameLeaked
<1>7. ASSUME NEW b \in Buffers, MayClear(b), ClearSize(b)
      PROVE  FramesInv'
  <2>1. /\ b \notin Live /\ Live' = Live
        /\ UNCHANGED <<owed, unsized, open, streaming, broken, type, codec>>
    BY <1>7 DEF MayClear, ClearSize, Live, BuffersConserved, hal, client, format
  <2>2. \A c \in Live : carries'[c] = carries[c]
    BY <1>7, <2>1 DEF ClearSize, TypeOK, Live, RangeOf
  <2> QED
    BY <2>1, <2>2 DEF EngineView, NoDoubleRelease, FramesPrivate, NoFrameLeaked
<1>8. CASE MayStart /\ StreamStart
  <2>1. /\ Live' = Live /\ UNCHANGED <<carries, owed, unsized, broken>>
        /\ open' /\ streaming' /\ codec' = type'
    BY <1>8 DEF MayStart, StreamStart, Live, queues
  <2> QED
    BY <2>1 DEF EngineView, NoDoubleRelease, FramesPrivate, NoFrameLeaked
\* The format changes only while the channel is closed.
<1>11. ASSUME NEW t \in Formats, MaySetFmt, SetFmt(t)
       PROVE  FramesInv'
  <2>1. /\ Live' = Live /\ ~open' /\ ~streaming'
        /\ UNCHANGED <<carries, owed, unsized, open, streaming, broken>>
    BY <1>11 DEF MaySetFmt, SetFmt, Live, EngineView, hal, queues
  <2> QED
    BY <2>1 DEF EngineView, NoDoubleRelease, FramesPrivate, NoFrameLeaked
\* The steps that touch no frame.
<1>9. ASSUME UNCHANGED <<fifoOut, carries, owed, unsized, open, client>>
      PROVE  FramesInv'
  <2>1. Live' = Live
    BY <1>9 DEF Live, client
  <2> QED
    BY <1>9, <2>1 DEF EngineView, NoDoubleRelease, FramesPrivate, NoFrameLeaked, client, format
<1>10. ASSUME \/ StreamStartFails \/ FlushGet \/ FlushEnd \/ EnqueuePut \/ EncOverflow
              \/ ForceRequest \/ ForceFlag \/ Snapshot \/ UNCHANGED vars
              \/ \E f \in Frames, kind \in Kinds : DropUntilKey(f, kind) \/ DropNoBuffer(f, kind)
       PROVE  UNCHANGED <<fifoOut, carries, owed, unsized, open, client>>
  BY <1>10 DEF StreamStartFails, FlushGet, FlushEnd, EnqueuePut, EncOverflow, ForceRequest,
               ForceFlag, Snapshot, DropUntilKey, DropNoBuffer, EngineHas, vars, hal, client,
               format, queues
<1> QED
  BY <1>1, <1>2, <1>3, <1>4, <1>5, <1>6, <1>7, <1>8, <1>9, <1>10, <1>11
     DEF Next, Callback, Deliver, DeliverEmpty, Client, DriverStep, Control

LEMMA ChannelInvariant == ChannelSpec => []ChannelInv
<1>1. ChannelInv /\ [Next]_vars => ChannelInv'
  BY PlacesStep, FramesStep DEF ChannelInv
<1> QED  BY InitChannelInv, <1>1, PTL DEF ChannelSpec

\* Every variable keeps its type in every reachable state.
THEOREM TypeCorrect == ChannelSpec => []TypeOK
<1>1. ChannelInv => TypeOK
  BY DEF ChannelInv, PlacesInv
<1> QED  BY ChannelInvariant, <1>1, PTL

\* However many buffers there are, each is on one queue once, with the client,
\* or between the two steps of one enqueue or flush.
THEOREM BuffersAreConserved == ChannelSpec => []BuffersConserved
<1>1. ChannelInv => BuffersConserved
  BY DEF ChannelInv, PlacesInv
<1> QED  BY ChannelInvariant, <1>1, PTL

\* However often streams stop and restart, a slot is released at most once
\* per lending, although enqueue never clears the size that triggers it.
THEOREM FramesReleasedOnce == ChannelSpec => []NoDoubleRelease
<1>1. ChannelInv => NoDoubleRelease
  BY DEF ChannelInv, FramesInv
<1> QED  BY ChannelInvariant, <1>1, PTL

\* A frame the client may read is still lent, to that buffer alone; a buffer
\* without one was filled with a frame of length 0.
THEOREM FramesArePrivate == ChannelSpec => []FramesPrivate
<1>1. ChannelInv => FramesPrivate
  BY DEF ChannelInv, FramesInv
<1> QED  BY ChannelInvariant, <1>1, PTL

\* As long as no close has failed, every lent slot has a buffer that will
\* release it or carried a frame of length 0, over every change of the format;
\* and whatever has failed before, a close that succeeds takes every slot back.
THEOREM FramesAreNotLeaked == ChannelSpec => []NoFrameLeaked
<1>1. ChannelInv => NoFrameLeaked
  BY DEF ChannelInv, FramesInv
<1> QED  BY ChannelInvariant, <1>1, PTL
-----------------------------------------------------------------------------
(***************************************************************************)
(* Refinement of FrameLoan.                                                *)
(***************************************************************************)

\* The mapped loans are exactly the frames of the believed buffers.
LoanFacts ==
  /\ LoanNow \in [Frames -> Buffers \cup {NoBuf}]
  /\ \A f \in Frames, b \in Buffers : LoanNow[f] = b <=> b \in Live /\ carries[b] = f

LEMMA LoanMeaning == ChannelInv => LoanFacts
<1> SUFFICES ASSUME ChannelInv PROVE LoanFacts
  OBVIOUS
<1> USE ChannelAssumption DEF ChannelInv, PlacesInv, FramesInv
<1>1. Live \subseteq Buffers
  BY DEF Live, TypeOK, RangeOf
<1>2. ASSUME NEW f \in Frames
      PROVE  /\ LoanNow[f] \in Buffers \cup {NoBuf}
             /\ \A b \in Buffers : LoanNow[f] = b <=> b \in Live /\ carries[b] = f
  <2>1. CASE owed[f] = 1 /\ \E b \in Live : carries[b] = f
    <3>1. LoanNow[f] = CHOOSE b \in Live : carries[b] = f
      BY <2>1 DEF LoanNow
    <3>2. LoanNow[f] \in Live /\ carries[LoanNow[f]] = f
      BY <2>1, <3>1
    <3> QED  BY <1>1, <3>2 DEF FramesPrivate
  <2>2. CASE ~(owed[f] = 1 /\ \E b \in Live : carries[b] = f)
    <3>1. LoanNow[f] = NoBuf
      BY <2>2 DEF LoanNow
    <3>2. \A b \in Live : carries[b] # f
      BY <2>2 DEF FramesPrivate
    <3> QED  BY <3>1, <3>2
  <2> QED  BY <2>1, <2>2
<1>3. LoanNow \in [Frames -> Buffers \cup {NoBuf}]
  BY <1>2 DEF LoanNow
<1> QED  BY <1>2, <1>3 DEF LoanFacts

\* Two loan functions with the same borrowers are equal.
LEMMA SameLoans ==
  ASSUME NEW L1 \in [Frames -> Buffers \cup {NoBuf}],
         NEW L2 \in [Frames -> Buffers \cup {NoBuf}],
         \A f \in Frames, b \in Buffers : L1[f] = b <=> L2[f] = b
  PROVE  L1 = L2
<1>1. \A f \in Frames : L1[f] = L2[f]
  BY ChannelAssumption
<1> QED  BY <1>1

\* Where nobody's believed frame changes, no loan changes.
LEMMA LoansKept ==
  ASSUME LoanFacts, LoanFacts',
         Live' = Live, \A b \in Live : carries'[b] = carries[b]
  PROVE  LoanNow' = LoanNow
<1>1. \A f \in Frames, b \in Buffers : LoanNow'[f] = b <=> LoanNow[f] = b
  BY DEF LoanFacts
<1> QED  BY <1>1, SameLoans DEF LoanFacts

LEMMA LoanInitStep == Init => Loan!LoanInit
<1> SUFFICES ASSUME Init PROVE Loan!LoanInit
  OBVIOUS
<1>1. WhereNow = [b \in Buffers |-> "app"]
  BY DEF WhereNow, Init
<1>2. LoanNow = [f \in Frames |-> NoBuf]
  BY DEF LoanNow, Init
<1> QED  BY <1>1, <1>2 DEF Loan!LoanInit, Loan!Nobody

LEMMA LoanStep ==
  ChannelInv /\ ChannelInv' /\ LoanFacts /\ LoanFacts' /\ [Next]_vars
    => [Loan!LoanNext]_<<WhereNow, LoanNow>>
<1> SUFFICES ASSUME ChannelInv, ChannelInv', LoanFacts, LoanFacts', [Next]_vars
             PROVE  [Loan!LoanNext]_<<WhereNow, LoanNow>>
  OBVIOUS
<1> USE ChannelAssumption DEF ChannelInv, PlacesInv, FramesInv
<1>1. ASSUME NEW f \in Frames, NEW kind \in Kinds, NEW content \in {f, NoFrame},
             FillOldest(f, kind, content)
      PROVE  Loan!LoanNext
  <2> DEFINE b == Head(fifoIn)
  <2>1. b \in Buffers /\ b \in RangeOf(fifoIn)
    BY <1>1, HeadTailDistinct DEF FillOldest, TypeOK, BuffersConserved
  <2>2. b \notin RangeOf(fifoOut) /\ b \notin held /\ b \notin current
    BY <2>1 DEF BuffersConserved, ClientView
  <2>3. RangeOf(Append(fifoOut, b)) = RangeOf(fifoOut) \cup {b}
    BY <2>1, <2>2, AppendDistinct DEF TypeOK, BuffersConserved
  <2> HIDE DEF b
  <2>4. /\ fifoOut' = Append(fifoOut, b) /\ carries' = [carries EXCEPT ![b] = content]
        /\ owed[f] = 0 /\ held' = held /\ UNCHANGED client
    BY <1>1 DEF FillOldest, EngineHas, b
  <2>5. Loan!Move(b, "queued", "done")
    BY <2>1, <2>2, <2>3, <2>4 DEF Loan!Move, WhereNow
  <2>6. /\ Live' = IF streaming \/ drained THEN Live \cup {b} ELSE Live
        /\ b \notin Live /\ \A c \in Live : carries'[c] = carries[c] /\ carries[c] # f
    <3>1. Live' = IF streaming \/ drained THEN Live \cup {b} ELSE Live
      BY <2>3, <2>4 DEF Live, client
    <3>2. b \notin Live /\ Live \subseteq Buffers
      BY <2>2 DEF Live, TypeOK, RangeOf
    <3>3. \A c \in Live : carries'[c] = carries[c]
      BY <2>4, <3>2 DEF TypeOK
    <3>4. \A c \in Live : carries[c] # f
      BY <2>4 DEF FramesPrivate, NoDoubleRelease
    <3> QED  BY <3>1, <3>2, <3>3, <3>4
  <2>7. CASE (streaming \/ drained) /\ content = f
    <3>1. LoanNow[f] = NoBuf
      BY <2>6 DEF LoanFacts
    <3>2. carries'[b] = f
      BY <2>1, <2>4, <2>7 DEF TypeOK
    <3>3. LoanNow' = [LoanNow EXCEPT ![f] = b]
      <4>1. [LoanNow EXCEPT ![f] = b] \in [Frames -> Buffers \cup {NoBuf}]
        BY <2>1 DEF LoanFacts
      <4>2. ASSUME NEW g \in Frames, NEW c \in Buffers
            PROVE  LoanNow'[g] = c <=> [LoanNow EXCEPT ![f] = b][g] = c
        <5>1. LoanNow'[g] = c <=> c \in Live' /\ carries'[c] = g
          BY DEF LoanFacts
        <5>2. LoanNow[g] = c <=> c \in Live /\ carries[c] = g
          BY DEF LoanFacts
        <5>3. CASE c = b
          BY <5>1, <5>2, <5>3, <2>6, <2>7, <3>2 DEF LoanFacts
        <5>4. CASE c # b
          BY <5>1, <5>2, <5>4, <2>6, <2>7, <3>1 DEF LoanFacts
        <5> QED  BY <5>3, <5>4
      <4> QED  BY <4>1, <4>2, SameLoans DEF LoanFacts
    <3> QED  BY <2>1, <2>5, <3>1, <3>3 DEF Loan!LoanNext, Loan!Fill
  <2>8. CASE ~(streaming \/ drained)
    <3>1. LoanNow' = LoanNow
      BY <2>6, <2>8, LoansKept
    <3> QED  BY <2>1, <2>5, <3>1 DEF Loan!LoanNext, Loan!Cancel
  \* A frame of length 0 is on loan to nobody.
  <2>9. CASE (streaming \/ drained) /\ content = NoFrame
    <3>1. carries'[b] = NoFrame /\ Live' = Live \cup {b}
      BY <2>1, <2>4, <2>6, <2>9 DEF TypeOK
    <3>2. \A g \in Frames, c \in Buffers : LoanNow'[g] = c <=> LoanNow[g] = c
      BY <2>6, <3>1 DEF LoanFacts
    <3>3. LoanNow' = LoanNow
      BY <3>2, SameLoans DEF LoanFacts
    <3> QED  BY <2>1, <2>5, <3>3 DEF Loan!LoanNext, Loan!Cancel
  <2> QED  BY <2>7, <2>8, <2>9
<1>2. ASSUME NEW b \in Buffers, MayEnqueue(b), EnqueueRelease(b)
      PROVE  Loan!LoanNext
  <2>1. /\ UNCHANGED <<fifoOut, carries, streaming, drained>>
        /\ b \in held /\ held' = held \ {b} /\ current' = current \ {b}
    BY <1>2 DEF MayEnqueue, EnqueueRelease
  <2>2. b \notin RangeOf(fifoOut)
    BY <2>1 DEF BuffersConserved
  <2>3. Live' = Live \ {b}
    BY <2>1, <2>2 DEF Live
  <2>4. Loan!Move(b, "app", "queued")
    BY <2>1, <2>2 DEF Loan!Move, WhereNow
  <2> DEFINE L == [f \in Frames |-> IF LoanNow[f] = b THEN NoBuf ELSE LoanNow[f]]
  <2>5. L \in [Frames -> Buffers \cup {NoBuf}]
    BY DEF LoanFacts
  <2>6. \A f \in Frames, c \in Buffers : LoanNow'[f] = c <=> L[f] = c
    BY <2>1, <2>3 DEF LoanFacts
  <2>7. LoanNow' = L
    BY <2>5, <2>6, SameLoans DEF LoanFacts
  <2> QED  BY <2>4, <2>7 DEF Loan!LoanNext, Loan!Give
<1>3. CASE StreamStop
  <2>1. Live' = {} /\ WhereNow' = WhereNow
    BY <1>3 DEF StreamStop, Live, WhereNow
  <2>2. Loan!Nobody \in [Frames -> Buffers \cup {NoBuf}] /\ \A f \in Frames : Loan!Nobody[f] = NoBuf
    BY DEF Loan!Nobody
  <2>3. \A f \in Frames, c \in Buffers : LoanNow'[f] = c <=> Loan!Nobody[f] = c
    BY <2>1, <2>2 DEF LoanFacts
  <2>4. LoanNow' = Loan!Nobody
    BY <2>2, <2>3, SameLoans DEF LoanFacts
  <2> QED  BY <2>1, <2>4 DEF Loan!LoanNext, Loan!Recall
<1>4. CASE MayDequeue /\ Dequeue
  <2> DEFINE b == Head(fifoOut)
  <2>1. /\ b \in Buffers /\ b \in RangeOf(fifoOut) /\ b \notin RangeOf(Tail(fifoOut))
        /\ RangeOf(fifoOut) = RangeOf(Tail(fifoOut)) \cup {b}
    BY <1>4, HeadTailDistinct DEF Dequeue, TypeOK, BuffersConserved
  <2>2. b \notin held
    BY <2>1 DEF BuffersConserved
  <2> HIDE DEF b
  <2>3. /\ fifoOut' = Tail(fifoOut) /\ held' = held \cup {b}
        /\ current' = IF streaming THEN current \cup {b} ELSE current
        /\ UNCHANGED <<carries, streaming, drained>> /\ (streaming \/ ~drained)
    BY <1>4 DEF MayDequeue, Dequeue, b
  <2>4. Live' = Live
    BY <2>1, <2>3 DEF Live
  <2>5. Loan!Move(b, "done", "app")
    BY <2>1, <2>2, <2>3 DEF Loan!Move, WhereNow
  <2>6. LoanNow' = LoanNow
    BY <2>3, <2>4, LoansKept
  <2> QED  BY <2>1, <2>5, <2>6 DEF Loan!LoanNext, Loan!Take
<1>5. CASE FlushPut
  <2>1. /\ inHand \in Buffers /\ inHand \notin RangeOf(fifoOut) /\ inHand \notin held
    BY <1>5 DEF FlushPut, TypeOK, BuffersConserved
  <2>2. RangeOf(fifoOut') = RangeOf(fifoOut) \cup {inHand}
    BY <1>5, <2>1, AppendDistinct DEF FlushPut, TypeOK, BuffersConserved
  <2>3. held' = held /\ carries' = carries /\ UNCHANGED client /\ ~drained /\ ~streaming
    BY <1>5 DEF FlushPut, ClientView
  <2>4. Live' = Live
    BY <2>3 DEF Live, client
  <2>5. Loan!Move(inHand, "queued", "done")
    BY <2>1, <2>2, <2>3 DEF Loan!Move, WhereNow
  <2>6. LoanNow' = LoanNow
    BY <2>3, <2>4, LoansKept
  <2> QED  BY <2>1, <2>5, <2>6 DEF Loan!LoanNext, Loan!Cancel
\* The steps FrameLoan does not see.
<1>6. ASSUME NEW b \in Buffers, MayClear(b), ClearSize(b)
      PROVE  UNCHANGED <<WhereNow, LoanNow>>
  <2>1. b \notin Live /\ Live' = Live /\ WhereNow' = WhereNow
    BY <1>6 DEF MayClear, ClearSize, Live, WhereNow, BuffersConserved, client
  <2>2. \A c \in Live : carries'[c] = carries[c]
    BY <1>6, <2>1 DEF ClearSize, TypeOK, Live, RangeOf
  <2> QED  BY <2>1, <2>2, LoansKept
<1>7. CASE DequeueAgain \/ (MayStart /\ StreamStart) \/ \E t \in Formats : SetFmt(t)
  <2>1. Live' = Live
    BY <1>7 DEF DequeueAgain, MayStart, StreamStart, SetFmt, RangeOf, Live, ClientView, queues
  <2>2. WhereNow' = WhereNow /\ carries' = carries
    BY <1>7 DEF DequeueAgain, MayStart, StreamStart, SetFmt, WhereNow, queues
  <2> QED  BY <2>1, <2>2, LoansKept
<1>8. ASSUME UNCHANGED <<fifoOut, carries, held, client>>
      PROVE  UNCHANGED <<WhereNow, LoanNow>>
  <2>1. Live' = Live /\ WhereNow' = WhereNow
    BY <1>8 DEF Live, WhereNow, client
  <2> QED  BY <1>8, <2>1, LoansKept
<1>9. ASSUME \/ StreamStartFails \/ FlushGet \/ FlushEnd \/ EnqueuePut \/ EncOverflow
             \/ ForceRequest \/ ForceFlag \/ Snapshot \/ UNCHANGED vars
             \/ \E f \in Frames, kind \in Kinds : DropUntilKey(f, kind) \/ DropNoBuffer(f, kind)
      PROVE  UNCHANGED <<fifoOut, carries, held, client>>
  BY <1>9 DEF StreamStartFails, FlushGet, FlushEnd, EnqueuePut, EncOverflow, ForceRequest,
              ForceFlag, Snapshot, DropUntilKey, DropNoBuffer, EngineHas, vars, hal, client,
               format, queues
<1> QED
  BY <1>1, <1>2, <1>3, <1>4, <1>5, <1>6, <1>7, <1>8, <1>9
     DEF Next, Callback, Deliver, DeliverEmpty, Client, DriverStep, Control

\* The driver, with any client that keeps the contract, implements FrameLoan.
THEOREM ChannelImplementsLoan == ChannelSpec => ImplementsFrameLoan
<1>1. ChannelInv' => LoanFacts'
  BY LoanMeaning, PTL
<1>2. ChannelInv /\ ChannelInv' /\ [Next]_vars => [Loan!LoanNext]_<<WhereNow, LoanNow>>
  BY <1>1, LoanMeaning, LoanStep
<1> QED
  BY <1>2, LoanInitStep, ChannelInvariant, PTL
     DEF ChannelSpec, ImplementsFrameLoan, Loan!LoanSpec
=============================================================================
