-------------------------- MODULE VideoRestartProofs --------------------------
(***************************************************************************)
(* The links of the kernel queues over several lives of the thread, for    *)
(* any number of buffers, slots and lives.  The invariant names the order  *)
(* of each queue as a sequence, as long as every life has begun with the   *)
(* engine closed and a tail other than buffers[0]; the walk along the      *)
(* links is the set of its elements, by an induction that is a lemma of    *)
(* its own.                                                                *)
(***************************************************************************)
EXTENDS VideoRestart, Sequences, Integers, FiniteSetTheorems, TLAPS

Elements(s) == {s[k] : k \in 1..Len(s)}

NoRepeats(s) == \A j, k \in 1..Len(s) : s[j] = s[k] => j = k

\* Queue q is the list s: its head, its tail and every link agree with s.
IsList(q, s) ==
  /\ head[q] = IF Len(s) = 0 THEN 0 ELSE s[1]
  /\ tail[q] = IF Len(s) = 0 THEN 0 ELSE s[Len(s)]
  /\ \A k \in 1..Len(s) : link[s[k]] = IF k = Len(s) THEN 0 ELSE s[k + 1]

\* fifo_in is s and fifo_out is t, and no buffer has two places.
TwoLists(s, t) ==
  /\ IsList("in", s) /\ NoRepeats(s)
  /\ IsList("out", t) /\ NoRepeats(t)
  /\ Elements(s) \cap Elements(t) = {}
  /\ vbuf \notin Elements(s) \cup Elements(t)

\* The buffers that are left.
Left(s, t) == Elements(s) \cup Elements(t) \cup ({vbuf} \ {0})

ListView ==
  Untangled /\ place # "fill" =>
    \E s, t \in Seq(Bufs) :
       /\ TwoLists(s, t)
       /\ life > 0 => \E b \in Bufs : Left(s, t) = b..NumBufs

\* The loop over buffers[]: those already put are linked in the order of the
\* array, over whatever was there; fifo_in keeps the head it had.  The tail has
\* no successor whenever the next buffer is put behind it.
FillView ==
  Untangled /\ place = "fill" =>
    /\ life > 0 /\ ~running
    /\ head["in"] = 0 => i = 1 /\ tail["in"] = 0
    /\ tail["in"] = 0 => head["in"] = 0
    /\ i = 1 => tail["in"] # 1 /\ \A b \in Bufs : link[b] = 0
    /\ i > 1 => tail["in"] = i - 1 /\ link[i - 1] = 0
    /\ \A k \in 1..i - 2 : link[k] = k + 1

ThreadView ==
  /\ place \in {"use", "cancel", "clear"} <=> vbuf # 0
  /\ Untangled /\ place \in {"none", "fill"} /\ ~running => head["out"] = 0 /\ tail["out"] = 0

RestartInv == RestartTypeOK /\ ThreadView /\ FillView /\ ListView
-----------------------------------------------------------------------------
(***************************************************************************)
(* Induction up to n, with the set of the numbers that have the property.  *)
(* A set of numbers that holds the predecessor of each of its elements     *)
(* other than 1 holds 1: were it not so, taking predecessors would map it  *)
(* one to one into itself without its largest element.                     *)
(***************************************************************************)
LEMMA GoesDownToOne ==
  ASSUME NEW n \in Nat, NEW T \in SUBSET (1..n), n \in T,
         \A k \in T : k # 1 => k - 1 \in T
  PROVE  1 \in T
<1> SUFFICES ASSUME 1 \notin T PROVE FALSE
  OBVIOUS
<1>1. IsFiniteSet(T) /\ IsFiniteSet(T \ {n})
  <2>1. IsFiniteSet(1..n)
    BY FS_Interval
  <2> QED  BY <2>1, FS_Subset
<1>2. /\ Cardinality(T \ {n}) = Cardinality(T) - 1
      /\ Cardinality(T) \in Nat
  BY <1>1, FS_RemoveElement, FS_CardinalityType
<1>3. [k \in T |-> k - 1] \in Injection(T, T \ {n})
  BY DEF Injection, IsInjective
<1>4. Cardinality(T) <= Cardinality(T \ {n})
  BY <1>1, <1>3, FS_Injection
<1> QED  BY <1>2, <1>4

LEMMA IntervalInduction ==
  ASSUME NEW n \in Nat, NEW S, 1 \in S,
         \A k \in 1..n - 1 : k \in S => k + 1 \in S
  PROVE  \A k \in 1..n : k \in S
<1> SUFFICES ASSUME NEW m \in 1..n, m \notin S PROVE FALSE
  OBVIOUS
<1> DEFINE T == {k \in 1..m : k \notin S}
<1>1. m \in T /\ T \in SUBSET (1..m)
  OBVIOUS
<1>2. ASSUME NEW k \in T, k # 1 PROVE k - 1 \in T
  BY <1>2
<1>3. 1 \in T
  <2> HIDE DEF T
  <2> QED  BY <1>1, <1>2, GoesDownToOne
<1> QED  BY <1>3
-----------------------------------------------------------------------------
(***************************************************************************)
(* Walking, putting and getting, on a queue that is a list.                *)
(***************************************************************************)
LEMMA NullIsNoBuffer == 0 \notin Bufs
BY RestartAssumption DEF Bufs

\* The walk meets the elements of the list and nothing else.
LEMMA LinkedIsTheList ==
  ASSUME RestartTypeOK, NEW q \in Queues, NEW s \in Seq(Bufs), IsList(q, s)
  PROVE  Linked(q) = Elements(s)
<1>1. /\ Elements(s) \in SUBSET Bufs
      /\ head[q] # 0 => head[q] \in Elements(s)
      /\ Closed(Elements(s))
  BY DEF Elements, IsList, Closed
<1>2. ASSUME NEW b \in Linked(q) PROVE b \in Elements(s)
  BY <1>1 DEF Linked
<1>3. ASSUME NEW k \in 1..Len(s) PROVE s[k] \in Linked(q)
  <2> SUFFICES ASSUME NEW S \in SUBSET Bufs, head[q] # 0 => head[q] \in S, Closed(S)
               PROVE  s[k] \in S
    BY <1>1 DEF Linked, Elements
  <2> DEFINE Met == {j \in 1..Len(s) : s[j] \in S}
  <2>1. 1 \in Met
    BY NullIsNoBuffer DEF IsList
  <2>2. ASSUME NEW j \in 1..Len(s) - 1, j \in Met PROVE j + 1 \in Met
    <3>1. s[j] \in S /\ link[s[j]] = s[j + 1] /\ s[j + 1] \in Bufs
      BY <2>2 DEF IsList
    <3> QED  BY <3>1, NullIsNoBuffer DEF Closed
  <2>3. \A j \in 1..Len(s) : j \in Met
    <3> HIDE DEF Met
    <3> QED  BY <2>1, <2>2, IntervalInduction, Len(s) \in Nat
  <2> QED  BY <2>3
<1> QED  BY <1>2, <1>3 DEF Elements

\* Where the tail has no successor the kernel's insertion is an append, and a
\* tail that is taken leaves none.
AppendLink(q, b) ==
  IF tail[q] = 0 THEN [link EXCEPT ![b] = 0]
  ELSE [[link EXCEPT ![b] = 0] EXCEPT ![tail[q]] = b]

LEMMA PutAppends ==
  ASSUME RestartTypeOK, NEW q \in Queues, NEW b \in Bufs,
         tail[q] = 0 => head[q] = 0,
         tail[q] # 0 => tail[q] = b \/ link[tail[q]] = 0
  PROVE  /\ PutLink(q, b) = AppendLink(q, b)
         /\ PutTail(q, b) = [tail EXCEPT ![q] = b]
         /\ PutHead(q, b) = IF tail[q] = 0 THEN [head EXCEPT ![q] = b] ELSE head
BY DEF PutLink, PutTail, PutHead, AppendLink, TailIsLast

LEMMA ListTail ==
  ASSUME NEW q \in Queues, NEW s \in Seq(Bufs), IsList(q, s)
  PROVE  /\ tail[q] = 0 => head[q] = 0
         /\ tail[q] # 0 => link[tail[q]] = 0
         /\ head[q] = 0 <=> Len(s) = 0
         /\ tail[q] = 0 <=> Len(s) = 0
<1>1. Len(s) # 0 => 1 \in 1..Len(s) /\ Len(s) \in 1..Len(s)
  OBVIOUS
<1>2. Len(s) # 0 => s[1] \in Bufs /\ s[Len(s)] \in Bufs
  BY <1>1
<1> QED  BY <1>1, <1>2, NullIsNoBuffer DEF IsList

LEMMA PutOnList ==
  ASSUME RestartTypeOK, NEW q \in Queues, NEW r \in Queues, q # r, NEW b \in Bufs,
         NEW s \in Seq(Bufs), NEW t \in Seq(Bufs), IsList(q, s), IsList(r, t),
         NoRepeats(s), NoRepeats(t), \A j \in 1..Len(s), k \in 1..Len(t) : s[j] # t[k],
         b \notin Elements(s) \cup Elements(t),
         Put(q, b)
  PROVE  IsList(q, Append(s, b))' /\ IsList(r, t)'
<1>p. /\ link' = AppendLink(q, b) /\ tail' = [tail EXCEPT ![q] = b]
      /\ head' = IF tail[q] = 0 THEN [head EXCEPT ![q] = b] ELSE head
  BY ListTail, PutAppends DEF Put
<1> USE NullIsNoBuffer DEF RestartTypeOK, IsList, NoRepeats, Elements
<1>1. CASE Len(s) = 0
  <2>1. tail[q] = 0
    BY <1>1
  <2>2. /\ link' = [link EXCEPT ![b] = 0]
        /\ head' = [head EXCEPT ![q] = b]
        /\ tail' = [tail EXCEPT ![q] = b]
    BY <1>p, <2>1 DEF AppendLink
  <2>3. Len(Append(s, b)) = 1 /\ Append(s, b)[1] = b
    BY <1>1
  <2>4. IsList(q, Append(s, b))'
    BY <2>2, <2>3
  <2>5. IsList(r, t)'
    BY <2>2
  <2> QED  BY <2>4, <2>5
<1>2. CASE Len(s) # 0
  <2> DEFINE z == s[Len(s)]
  <2>1. tail[q] = z /\ z \in Bufs /\ z # b /\ Len(s) \in 1..Len(s)
    BY <1>2
  <2>2. /\ link' = [[link EXCEPT ![b] = 0] EXCEPT ![z] = b]
        /\ head' = head
        /\ tail' = [tail EXCEPT ![q] = b]
    BY <1>p, <2>1 DEF AppendLink
  <2>3. Len(Append(s, b)) = Len(s) + 1 /\ Append(s, b)[Len(s) + 1] = b
        /\ \A k \in 1..Len(s) : Append(s, b)[k] = s[k]
    OBVIOUS
  <2>4. link'[b] = 0 /\ link'[z] = b /\ \A x \in Bufs \ {b, z} : link'[x] = link[x]
    BY <2>1, <2>2
  <2>5. IsList(q, Append(s, b))'
    <3>1. ASSUME NEW k \in 1..Len(s) + 1
          PROVE  link'[Append(s, b)[k]] = IF k = Len(s) + 1 THEN 0 ELSE Append(s, b)[k + 1]
      BY <2>1, <2>3, <2>4
    <3>2. head'[q] = Append(s, b)[1] /\ tail'[q] = b
      BY <1>2, <2>2, <2>3
    <3> QED  BY <2>3, <3>1, <3>2
  <2>6. IsList(r, t)'
    <3>1. ASSUME NEW k \in 1..Len(t) PROVE t[k] \in Bufs /\ t[k] # b /\ t[k] # z
      BY <2>1
    <3>2. head'[r] = head[r] /\ tail'[r] = tail[r]
      BY <2>2
    <3> QED  BY <2>4, <3>1, <3>2
  <2> QED  BY <2>5, <2>6
<1> QED  BY <1>1, <1>2

LEMMA GetFromList ==
  ASSUME RestartTypeOK, NEW q \in Queues, NEW r \in Queues, q # r,
         NEW s \in Seq(Bufs), NEW t \in Seq(Bufs), IsList(q, s), IsList(r, t), NoRepeats(s),
         Get(q)
  PROVE  Len(s) > 0 /\ head[q] = s[1] /\ IsList(q, Tail(s))' /\ IsList(r, t)'
<1> USE NullIsNoBuffer DEF RestartTypeOK, IsList, NoRepeats
<1>1. Len(s) > 0 /\ head[q] = s[1] /\ 1 \in 1..Len(s) /\ Len(s) \in 1..Len(s)
  BY DEF Get
<1>2. Len(Tail(s)) = Len(s) - 1 /\ \A k \in 1..Len(s) - 1 : Tail(s)[k] = s[k + 1]
  BY <1>1
<1>3. tail[q] = head[q] <=> Len(s) = 1
  <2>1. tail[q] = s[Len(s)]
    BY <1>1
  <2> QED  BY <1>1, <2>1
<1>4. IsList(q, Tail(s))'
  BY <1>1, <1>2, <1>3 DEF Get
<1>5. IsList(r, t)'
  BY DEF Get
<1> QED  BY <1>1, <1>4, <1>5

LEMMA MoveOnLists ==
  ASSUME RestartTypeOK, NEW q \in Queues, NEW r \in Queues, q # r,
         NEW s \in Seq(Bufs), NEW t \in Seq(Bufs), IsList(q, s), IsList(r, t),
         NoRepeats(s), NoRepeats(t), \A j \in 1..Len(s), k \in 1..Len(t) : s[j] # t[k],
         Move(q, r)
  PROVE  Len(s) > 0 /\ head[q] = s[1] /\ IsList(q, Tail(s))' /\ IsList(r, Append(t, s[1]))'
<1> USE NullIsNoBuffer DEF RestartTypeOK, IsList, NoRepeats
<1> DEFINE b == s[1]
<1>1. Len(s) > 0 /\ head[q] = b /\ b \in Bufs /\ 1 \in 1..Len(s) /\ Len(s) \in 1..Len(s)
  BY DEF Move
<1>2. Len(Tail(s)) = Len(s) - 1 /\ \A k \in 1..Len(s) - 1 : Tail(s)[k] = s[k + 1]
  BY <1>1
<1>3. /\ Len(Append(t, b)) = Len(t) + 1 /\ Append(t, b)[Len(t) + 1] = b
      /\ \A k \in 1..Len(t) : Append(t, b)[k] = t[k]
  BY <1>1
<1>4. tail[q] = b <=> Len(s) = 1
  <2>1. tail[q] = s[Len(s)]
    BY <1>1
  <2> QED  BY <1>1, <2>1
<1>5. /\ head' = [head EXCEPT ![q] = link[b], ![r] = IF tail[r] = 0 THEN b ELSE @]
      /\ tail' = [tail EXCEPT ![q] = IF @ = b THEN 0 ELSE @, ![r] = b]
      /\ link' = IF tail[r] = 0 THEN [link EXCEPT ![b] = 0]
                 ELSE [[link EXCEPT ![b] = 0] EXCEPT ![tail[r]] = b]
  <2>1. /\ link' = PutLink(r, b)
        /\ head' = [PutHead(r, b) EXCEPT ![q] = link[b]]
        /\ tail' = [PutTail(r, b) EXCEPT ![q] = IF @ = b THEN link[b] ELSE @]
    BY <1>1 DEF Move
  <2>2. /\ PutLink(r, b) = AppendLink(r, b)
        /\ PutTail(r, b) = [tail EXCEPT ![r] = b]
        /\ PutHead(r, b) = IF tail[r] = 0 THEN [head EXCEPT ![r] = b] ELSE head
    <3>1. (tail[r] = 0 => head[r] = 0) /\ (tail[r] # 0 => link[tail[r]] = 0)
      BY ListTail
    <3> QED  BY <1>1, <3>1, PutAppends
  <2>3. tail[q] = b => link[b] = 0
    BY <1>1, <1>4
  <2>4. /\ [PutHead(r, b) EXCEPT ![q] = link[b]]
             = [head EXCEPT ![q] = link[b], ![r] = IF tail[r] = 0 THEN b ELSE @]
    BY <2>2
  <2>5. [PutTail(r, b) EXCEPT ![q] = IF @ = b THEN link[b] ELSE @]
             = [tail EXCEPT ![q] = IF @ = b THEN 0 ELSE @, ![r] = b]
    BY <2>2, <2>3
  <2> QED  BY <2>1, <2>2, <2>4, <2>5 DEF AppendLink
<1>6. \A x \in Bufs : x # b /\ x # tail[r] => link'[x] = link[x]
  BY <1>1, <1>5
<1>7. IsList(q, Tail(s))'
  <2>1. head'[q] = link[b] /\ tail'[q] = IF Len(s) = 1 THEN 0 ELSE s[Len(s)]
    BY <1>1, <1>4, <1>5
  <2>2. ASSUME NEW k \in 1..Len(s) - 1
        PROVE  link'[s[k + 1]] = IF k = Len(s) - 1 THEN 0 ELSE s[k + 2]
    <3>1. s[k + 1] # b /\ s[k + 1] # tail[r] /\ s[k + 1] \in Bufs
      BY <1>1
    <3>2. link[s[k + 1]] = IF k + 1 = Len(s) THEN 0 ELSE s[k + 2]
      BY <1>1
    <3> QED  BY <1>6, <3>1, <3>2
  <2>3. head'[q] = IF Len(s) = 1 THEN 0 ELSE s[2]
    <3>1. link[s[1]] = IF 1 = Len(s) THEN 0 ELSE s[1 + 1]
      BY <1>1
    <3> QED  BY <2>1, <3>1
  <2> DEFINE rest == Tail(s)
  <2>4. /\ head'[q] = IF Len(rest) = 0 THEN 0 ELSE rest[1]
        /\ tail'[q] = IF Len(rest) = 0 THEN 0 ELSE rest[Len(rest)]
    <3>1. CASE Len(s) = 1
      BY <1>2, <2>1, <2>3, <3>1
    <3>2. CASE Len(s) # 1
      <4>1. 1 \in 1..Len(s) - 1 /\ Len(s) - 1 \in 1..Len(s) - 1
        <5>1. ASSUME NEW n \in Nat, n > 0, n # 1 PROVE 1 \in 1..n - 1 /\ n - 1 \in 1..n - 1
          BY <5>1
        <5>2. Len(s) \in Nat /\ Len(s) > 0 /\ Len(s) # 1
          BY <1>1, <3>2
        <5> QED  BY <5>1, <5>2, Zenon
      <4>2. rest[1] = s[2] /\ rest[Len(s) - 1] = s[Len(s)]
        BY <1>2, <4>1
      <4> HIDE DEF rest
      <4> QED  BY <1>1, <1>2, <2>1, <2>3, <3>2, <4>1, <4>2 DEF rest
    <3> QED  BY <3>1, <3>2
  <2>5. ASSUME NEW k \in 1..Len(rest)
        PROVE  link'[rest[k]] = IF k = Len(rest) THEN 0 ELSE rest[k + 1]
    <3>1. k \in 1..Len(s) - 1 /\ rest[k] = s[k + 1]
      BY <1>1, <1>2
    <3>2. k # Len(rest) => rest[k + 1] = s[k + 2]
      BY <1>1, <1>2
    <3> HIDE DEF rest
    <3> QED  BY <1>1, <1>2, <2>2, <3>1, <3>2 DEF rest
  <2> QED  BY <2>4, <2>5
<1>8. IsList(r, Append(t, b))'
  <2>1. head'[r] = Append(t, b)[1] /\ tail'[r] = b
    BY <1>1, <1>3, <1>5
  <2>2. link'[b] = 0
    BY <1>1, <1>5
  <2>3. ASSUME NEW k \in 1..Len(t)
        PROVE  link'[t[k]] = Append(t, b)[k + 1]
    <3>1. t[k] # b /\ t[k] \in Bufs
      BY <1>1
    <3>2. CASE k = Len(t)
      BY <1>1, <1>3, <1>5, <3>1, <3>2
    <3>3. CASE k # Len(t)
      <4>1. t[k] # tail[r]
        BY <3>3
      <4> QED  BY <1>3, <1>6, <3>1, <3>3, <4>1
    <3> QED  BY <3>2, <3>3
  <2> QED  BY <1>3, <2>1, <2>2, <2>3
<1> QED  BY <1>1, <1>7, <1>8

\* What putting and getting do to the elements.
LEMMA AppendedElements ==
  ASSUME NEW s \in Seq(Bufs), NEW b \in Bufs, NoRepeats(s), b \notin Elements(s)
  PROVE  /\ Append(s, b) \in Seq(Bufs)
         /\ Elements(Append(s, b)) = Elements(s) \cup {b}
         /\ NoRepeats(Append(s, b))
<1> DEFINE a == Append(s, b)
<1>1. /\ a \in Seq(Bufs) /\ Len(s) \in Nat /\ Len(a) = Len(s) + 1 /\ a[Len(s) + 1] = b
      /\ \A k \in 1..Len(s) : a[k] = s[k]
  OBVIOUS
<1> HIDE DEF a
<1>2. ASSUME NEW x \in Elements(a) PROVE x \in Elements(s) \cup {b}
  BY <1>1 DEF Elements
<1>3. b \in Elements(a)
  <2>1. Len(s) + 1 \in 1..Len(a)
    BY <1>1
  <2> QED  BY <1>1, <2>1 DEF Elements
<1>4. ASSUME NEW x \in Elements(s) PROVE x \in Elements(a)
  <2> PICK k \in 1..Len(s) : x = s[k]
    BY DEF Elements
  <2>1. k \in 1..Len(a) /\ a[k] = x
    BY <1>1
  <2> QED  BY <2>1 DEF Elements
<1>5. NoRepeats(a)
  BY <1>1 DEF NoRepeats, Elements
<1> QED  BY <1>1, <1>2, <1>3, <1>4, <1>5 DEF a

LEMMA RestElements ==
  ASSUME NEW s \in Seq(Bufs), Len(s) > 0, NoRepeats(s)
  PROVE  /\ Tail(s) \in Seq(Bufs)
         /\ s[1] \in Elements(s)
         /\ Elements(Tail(s)) = Elements(s) \ {s[1]}
         /\ NoRepeats(Tail(s))
<1> DEFINE t == Tail(s)
<1>1. /\ t \in Seq(Bufs) /\ Len(s) \in Nat /\ Len(t) = Len(s) - 1
      /\ \A k \in 1..Len(t) : t[k] = s[k + 1]
      /\ 1 \in 1..Len(s)
  OBVIOUS
<1> HIDE DEF t
<1>2. ASSUME NEW x \in Elements(t) PROVE x \in Elements(s) /\ x # s[1]
  <2> PICK k \in 1..Len(t) : x = t[k]
    BY DEF Elements
  <2>1. k + 1 \in 1..Len(s) /\ k + 1 # 1 /\ s[k + 1] = x
    BY <1>1
  <2> QED  BY <1>1, <2>1 DEF Elements, NoRepeats
<1>3. ASSUME NEW x \in Elements(s), x # s[1] PROVE x \in Elements(t)
  <2> PICK k \in 1..Len(s) : x = s[k]
    BY DEF Elements
  <2>1. k - 1 \in 1..Len(t) /\ t[k - 1] = x
    BY <1>1, <1>3
  <2> QED  BY <2>1 DEF Elements
<1>4. NoRepeats(t)
  <2> SUFFICES ASSUME NEW j \in 1..Len(t), NEW k \in 1..Len(t), t[j] = t[k] PROVE j = k
    BY DEF NoRepeats
  <2>1. j + 1 \in 1..Len(s) /\ k + 1 \in 1..Len(s) /\ s[j + 1] = s[k + 1]
    BY <1>1
  <2> QED  BY <2>1 DEF NoRepeats
<1>5. s[1] \in Elements(s)
  BY <1>1 DEF Elements
<1> QED  BY <1>1, <1>2, <1>3, <1>4, <1>5 DEF t

LEMMA ApartByElements ==
  ASSUME NEW s, NEW t
  PROVE  (\A j \in 1..Len(s), k \in 1..Len(t) : s[j] # t[k])
           <=> Elements(s) \cap Elements(t) = {}
BY DEF Elements
-----------------------------------------------------------------------------
(***************************************************************************)
(* The invariant.                                                          *)
(***************************************************************************)
LEMMA RestartInitially == RestartInit => RestartInv
<1> SUFFICES ASSUME RestartInit PROVE RestartInv
  OBVIOUS
<1> USE DEF RestartInit
<1>1. RestartTypeOK
  <2>1. /\ link \in [Bufs -> Bufs \cup {0}]
        /\ head \in [Queues -> Bufs \cup {0}] /\ tail \in [Queues -> Bufs \cup {0}]
    OBVIOUS
  <2>2. i \in 1..NumBufs + 1 /\ vbuf \in Bufs \cup {0} /\ life \in 0..Lives /\ slots \in 0..Slots
    BY RestartAssumption DEF Bufs
  <2> QED  BY <2>1, <2>2 DEF RestartTypeOK
<1>2. ThreadView /\ FillView
  BY DEF ThreadView, FillView, Queues
<1>3. <<>> \in Seq(Bufs) /\ TwoLists(<<>>, <<>>)
  BY DEF TwoLists, IsList, NoRepeats, Elements, Queues
<1>4. ~(life > 0)
  OBVIOUS
<1>5. ListView
  BY <1>3, <1>4, Zenon DEF ListView
<1> QED  BY <1>1, <1>2, <1>5 DEF RestartInv

\* A buffer that changes queues, one way or the other, stays one of those left.
LEMMA MoveOut ==
  ASSUME RestartTypeOK, NEW s \in Seq(Bufs), NEW t \in Seq(Bufs), TwoLists(s, t),
         Move("in", "out"), UNCHANGED vbuf
  PROVE  \E u, v \in Seq(Bufs) : TwoLists(u, v)' /\ Left(u, v)' = Left(s, t)
<1>1. /\ Len(s) > 0 /\ IsList("in", Tail(s))' /\ IsList("out", Append(t, s[1]))'
  BY MoveOnLists, ApartByElements DEF TwoLists, Queues
<1>2. /\ Tail(s) \in Seq(Bufs) /\ s[1] \in Elements(s)
      /\ Elements(Tail(s)) = Elements(s) \ {s[1]} /\ NoRepeats(Tail(s))
  BY <1>1, RestElements DEF TwoLists
<1>3. s[1] \in Bufs /\ s[1] \notin Elements(t)
  BY <1>1, <1>2 DEF TwoLists
<1>4. /\ Append(t, s[1]) \in Seq(Bufs) /\ NoRepeats(Append(t, s[1]))
      /\ Elements(Append(t, s[1])) = Elements(t) \cup {s[1]}
  BY <1>3, AppendedElements DEF TwoLists
<1>5. TwoLists(Tail(s), Append(t, s[1]))'
  BY <1>1, <1>2, <1>4 DEF TwoLists
<1>6. Left(Tail(s), Append(t, s[1]))' = Left(s, t)
  BY <1>2, <1>4 DEF Left
<1> QED  BY <1>2, <1>4, <1>5, <1>6

\* A buffer that the thread takes or gives back is one of those left too.
LEMMA TakeKeeps ==
  ASSUME RestartTypeOK, NEW s \in Seq(Bufs), NEW t \in Seq(Bufs), TwoLists(s, t),
         vbuf = 0, NEW q \in Queues, Get(q), vbuf' = head[q]
  PROVE  \E u, v \in Seq(Bufs) : TwoLists(u, v)' /\ Left(u, v)' = Left(s, t)
<1>1. CASE q = "in"
  <2>1. Len(s) > 0 /\ head["in"] = s[1] /\ IsList("in", Tail(s))' /\ IsList("out", t)'
    BY <1>1, GetFromList DEF TwoLists, Queues
  <2>2. /\ Tail(s) \in Seq(Bufs) /\ s[1] \in Elements(s)
        /\ Elements(Tail(s)) = Elements(s) \ {s[1]} /\ NoRepeats(Tail(s))
    BY <2>1, RestElements DEF TwoLists
  <2>3. vbuf' = s[1] /\ s[1] # 0
    BY <1>1, <2>1, NullIsNoBuffer
  <2>4. TwoLists(Tail(s), t)'
    BY <2>1, <2>2, <2>3 DEF TwoLists
  <2>5. Left(Tail(s), t)' = Left(s, t)
    BY <2>2, <2>3 DEF Left
  <2> QED  BY <2>2, <2>4, <2>5
<1>2. CASE q = "out"
  <2>1. Len(t) > 0 /\ head["out"] = t[1] /\ IsList("out", Tail(t))' /\ IsList("in", s)'
    BY <1>2, GetFromList DEF TwoLists, Queues
  <2>2. /\ Tail(t) \in Seq(Bufs) /\ t[1] \in Elements(t)
        /\ Elements(Tail(t)) = Elements(t) \ {t[1]} /\ NoRepeats(Tail(t))
    BY <2>1, RestElements DEF TwoLists
  <2>3. vbuf' = t[1] /\ t[1] # 0
    BY <1>2, <2>1, NullIsNoBuffer
  <2>4. TwoLists(s, Tail(t))'
    BY <2>1, <2>2, <2>3 DEF TwoLists
  <2>5. Left(s, Tail(t))' = Left(s, t)
    BY <2>2, <2>3 DEF Left
  <2> QED  BY <2>2, <2>4, <2>5
<1> QED  BY <1>1, <1>2 DEF Queues

LEMMA GiveKeeps ==
  ASSUME RestartTypeOK, NEW s \in Seq(Bufs), NEW t \in Seq(Bufs), TwoLists(s, t),
         vbuf # 0, NEW q \in Queues, Put(q, vbuf), vbuf' = 0
  PROVE  \E u, v \in Seq(Bufs) : TwoLists(u, v)' /\ Left(u, v)' = Left(s, t)
<1> PICK b \in Bufs : b = vbuf
  BY DEF RestartTypeOK
<1>0. 0 \notin Elements(s) /\ 0 \notin Elements(t)
  BY NullIsNoBuffer DEF Elements
<1>1. b \notin Elements(s) /\ b \notin Elements(t) /\ Put(q, b)
  BY DEF TwoLists
<1>2. CASE q = "in"
  <2>1. IsList("in", Append(s, b))' /\ IsList("out", t)'
    BY <1>1, <1>2, PutOnList, ApartByElements DEF TwoLists, Queues
  <2>2. /\ Append(s, b) \in Seq(Bufs) /\ NoRepeats(Append(s, b))
        /\ Elements(Append(s, b)) = Elements(s) \cup {b}
    BY <1>1, AppendedElements DEF TwoLists
  <2>3. TwoLists(Append(s, b), t)'
    BY <1>0, <1>1, <2>1, <2>2 DEF TwoLists
  <2>4. Left(Append(s, b), t)' = Left(s, t)
    BY <2>2 DEF Left
  <2> QED  BY <2>2, <2>3, <2>4
<1>3. CASE q = "out"
  <2>0. \A j \in 1..Len(t), k \in 1..Len(s) : t[j] # s[k]
    BY ApartByElements DEF TwoLists
  <2>1. IsList("out", Append(t, b))' /\ IsList("in", s)'
    BY <1>1, <1>3, <2>0, PutOnList DEF TwoLists, Queues
  <2>2. /\ Append(t, b) \in Seq(Bufs) /\ NoRepeats(Append(t, b))
        /\ Elements(Append(t, b)) = Elements(t) \cup {b}
    BY <1>1, AppendedElements DEF TwoLists
  <2>3. TwoLists(s, Append(t, b))'
    BY <1>0, <1>1, <2>1, <2>2 DEF TwoLists
  <2>4. Left(s, Append(t, b))' = Left(s, t)
    BY <2>2 DEF Left
  <2> QED  BY <2>2, <2>3, <2>4
<1> QED  BY <1>2, <1>3 DEF Queues

\* Putting, getting and moving keep the types, whatever the links are.
ListTypes ==
  /\ link \in [Bufs -> Bufs \cup {0}]
  /\ head \in [Queues -> Bufs \cup {0}] /\ tail \in [Queues -> Bufs \cup {0}]

LEMMA PutTypes ==
  ASSUME ListTypes, NEW q \in Queues, NEW b \in Bufs
  PROVE  /\ PutLink(q, b) \in [Bufs -> Bufs \cup {0}]
         /\ PutHead(q, b) \in [Queues -> Bufs \cup {0}]
         /\ PutTail(q, b) \in [Queues -> Bufs \cup {0}]
BY DEF ListTypes, PutLink, PutHead, PutTail, TailIsLast

LEMMA GetTypes ==
  ASSUME ListTypes, NEW q \in Queues, Get(q)
  PROVE  ListTypes' /\ head[q] \in Bufs
BY DEF ListTypes, Get

LEMMA MoveTypes ==
  ASSUME ListTypes, NEW q \in Queues, NEW r \in Queues, Move(q, r)
  PROVE  ListTypes'
<1>1. head[q] \in Bufs /\ link[head[q]] \in Bufs \cup {0}
  BY DEF Move, ListTypes
<1> QED  BY <1>1, PutTypes DEF Move, ListTypes

\* The buffers from h on, as a sequence.
LEMMA EndOfArray ==
  ASSUME NEW N \in Nat, NEW h \in 1..N
  PROVE  \E s \in Seq(1..N) : /\ Len(s) = N + 1 - h
                              /\ \A k \in 1..Len(s) : s[k] = h + k - 1
<1> DEFINE n == N + 1 - h
           s == [k \in 1..n |-> h + k - 1]
<1>1. n \in Nat
  OBVIOUS
<1>2. ASSUME NEW k \in 1..n PROVE h + k - 1 \in 1..N
  OBVIOUS
<1> HIDE DEF n
<1>3. s \in [1..n -> 1..N]
  BY <1>2
<1>4. s \in Seq(1..N) /\ Len(s) = n
  BY <1>1, <1>3
<1> QED  BY <1>4 DEF n

\* The last put of the loop over buffers[] closes the list: what the old head
\* leads to is the rest of the array.
LEMMA FilledIsList ==
  ASSUME RestartInv, Untangled, place = "fill", i > NumBufs
  PROVE  \E s \in Seq(Bufs) : /\ TwoLists(s, <<>>)
                              /\ Left(s, <<>>) = head["in"]..NumBufs
                              /\ head["in"] \in Bufs
<1> USE RestartAssumption DEF Bufs
<1>1. /\ i = NumBufs + 1 /\ tail["in"] = NumBufs /\ link[NumBufs] = 0
      /\ \A k \in 1..NumBufs - 1 : link[k] = k + 1
      /\ head["in"] \in Bufs /\ vbuf = 0
      /\ head["out"] = 0 /\ tail["out"] = 0
  BY DEF RestartInv, RestartTypeOK, FillView, ThreadView, Queues
<1> DEFINE h == head["in"]
<1>2. PICK s \in Seq(Bufs) : /\ Len(s) = NumBufs + 1 - h
                             /\ \A k \in 1..Len(s) : s[k] = h + k - 1
  BY <1>1, EndOfArray
<1> HIDE DEF h
<1>h. h \in Nat /\ 1 <= h /\ h <= NumBufs /\ Len(s) \in Nat /\ Len(s) >= 1
  BY <1>1, <1>2 DEF h
<1>3. IsList("in", s)
  <2>1. 1 \in 1..Len(s) /\ Len(s) \in 1..Len(s)
    BY <1>h
  <2>2. s[1] = h /\ s[Len(s)] = NumBufs
    BY <1>2, <1>h, <2>1
  <2>3. ASSUME NEW k \in 1..Len(s)
        PROVE  link[s[k]] = IF k = Len(s) THEN 0 ELSE s[k + 1]
    <3>1. CASE k = Len(s)
      BY <1>1, <2>2, <3>1
    <3>2. CASE k # Len(s)
      <4>1. k + 1 \in 1..Len(s) /\ s[k] = h + k - 1 /\ s[k + 1] = h + k
        BY <1>2, <1>h, <3>2
      <4>2. s[k] \in 1..NumBufs - 1
        BY <1>2, <1>h, <3>2, <4>1
      <4> QED  BY <1>1, <1>h, <3>2, <4>1, <4>2
    <3> QED  BY <3>1, <3>2
  <2> QED  BY <1>1, <1>h, <2>2, <2>3 DEF IsList, h
<1>4. NoRepeats(s)
  BY <1>2, <1>h DEF NoRepeats
<1>5. Elements(s) = h..NumBufs
  <2>1. ASSUME NEW x \in h..NumBufs PROVE x \in Elements(s)
    <3>1. x - h + 1 \in 1..Len(s)
      BY <1>2, <1>h
    <3>2. s[x - h + 1] = x
      BY <1>2, <1>h, <3>1
    <3> QED  BY <3>1, <3>2 DEF Elements
  <2>2. ASSUME NEW k \in 1..Len(s) PROVE s[k] \in h..NumBufs
    BY <1>2, <1>h
  <2> QED  BY <2>1, <2>2 DEF Elements
<1>6. /\ <<>> \in Seq(Bufs) /\ Elements(<<>>) = {} /\ IsList("out", <<>>) /\ NoRepeats(<<>>)
  BY <1>1 DEF Elements, IsList, NoRepeats
<1>7. TwoLists(s, <<>>) /\ Left(s, <<>>) = h..NumBufs
  <2>1. vbuf \notin Elements(s) /\ {vbuf} \ {0} = {}
    BY <1>1, <1>5, <1>h
  <2> QED  BY <1>3, <1>4, <1>5, <1>6, <2>1, Zenon DEF TwoLists, Left
<1> QED  BY <1>1, <1>7 DEF h

\* A put of the loop over buffers[], whatever the queue held before.
LEMMA FillKeepsView ==
  ASSUME RestartInv, Fill, Untangled
  PROVE  FillView' /\ ThreadView'
<1> USE RestartAssumption DEF RestartInv, RestartTypeOK, Fill, Bufs, Queues
<1>0. /\ place = "fill" /\ place' = "fill" /\ i \in 1..NumBufs /\ i' = i + 1
      /\ vbuf' = vbuf /\ life' = life /\ Put("in", i) /\ running' = running
  BY DEF engineVars
<1>1. /\ link' = AppendLink("in", i) /\ tail' = [tail EXCEPT !["in"] = i]
      /\ head' = IF tail["in"] = 0 THEN [head EXCEPT !["in"] = i] ELSE head
  <2>1. tail["in"] # 0 => tail["in"] = i \/ link[tail["in"]] = 0
    BY <1>0 DEF FillView
  <2>2. tail["in"] = 0 => head["in"] = 0
    BY <1>0 DEF FillView
  <2> QED  BY <1>0, <2>1, <2>2, PutAppends DEF Put
<1>2. CASE tail["in"] = 0
  <2>1. link' = [link EXCEPT ![i] = 0] /\ head' = [head EXCEPT !["in"] = i]
    BY <1>1, <1>2 DEF AppendLink
  <2>2. i = 1
    BY <1>0, <1>2 DEF FillView
  <2> QED  BY <1>0, <1>1, <2>1, <2>2 DEF FillView, ThreadView
<1>3. CASE tail["in"] # 0
  <2> DEFINE z == tail["in"]
  <2>1. /\ link' = [[link EXCEPT ![i] = 0] EXCEPT ![z] = i] /\ head' = head
        /\ z \in 1..NumBufs /\ z # i
        /\ i > 1 => z = i - 1
    BY <1>0, <1>1, <1>3 DEF AppendLink, FillView
  <2>3. \A x \in Bufs : link'[x] = IF x = z THEN i ELSE IF x = i THEN 0 ELSE link[x]
    BY <2>1
  <2>4. \A k \in 1..i' - 2 : link'[k] = k + 1
    <3> SUFFICES ASSUME NEW k \in 1..i - 1 PROVE link'[k] = k + 1
      BY <1>0
    <3>1. z = i - 1
      BY <1>0, <2>1
    <3>2. CASE k = i - 1
      BY <1>0, <2>3, <3>1, <3>2
    <3>3. CASE k # i - 1
      <4>1. link[k] = k + 1
        BY <1>0, <3>3 DEF FillView
      <4> QED  BY <1>0, <2>3, <3>1, <3>3, <4>1
    <3> QED  BY <3>2, <3>3
  <2>5. link'[i' - 1] = 0
    BY <1>0, <2>1, <2>3
  <2>6. FillView'
    BY <1>0, <1>1, <2>1, <2>4, <2>5 DEF FillView
  <2>7. ThreadView'
    BY <1>0, <1>1, <2>1 DEF ThreadView, FillView
  <2> QED  BY <2>6, <2>7
<1> QED  BY <1>2, <1>3

\* While the thread runs and stops, buffers change places and none is lost.
Takes   == Dequeue \/ FlushGet \/ RequeueGet
Gives   == Enqueue \/ FlushPut \/ RequeuePut
Loops   == Stop \/ FlushEnd \/ RequeueEnd
Running == Deliver \/ Takes \/ Gives \/ Loops

LEMMA TakesIs ==
  ASSUME Takes
  PROVE  /\ \E q \in Queues : Get(q) /\ vbuf' = head[q]
         /\ place \in {"run", "flush", "requeue"} /\ place' \in {"use", "cancel", "clear"}
         /\ i' = i /\ life' = life /\ UNCHANGED <<engineVars, pastVars>>
BY DEF Takes, Dequeue, FlushGet, RequeueGet, TakeFrom, Queues

LEMMA GivesIs ==
  ASSUME Gives
  PROVE  /\ \E q \in Queues : Put(q, vbuf)
         /\ vbuf' = 0
         /\ place \in {"use", "cancel", "clear"} /\ place' \in {"run", "flush", "requeue"}
         /\ i' = i /\ life' = life /\ UNCHANGED <<engineVars, pastVars>>
BY DEF Gives, Enqueue, FlushPut, RequeuePut, GiveTo, Queues

LEMMA LoopsIs ==
  ASSUME RestartTypeOK, Loops
  PROVE  /\ UNCHANGED <<listVars, i, vbuf, life, pastVars>>
         /\ place \in {"run", "flush", "requeue"} /\ place' \in {"flush", "requeue", "none"}
         /\ place' = "none" => head["out"] = 0
         /\ running' \in BOOLEAN /\ (running' = running \/ running' = FALSE)
         /\ slots' = slots \/ slots' = Slots
<1> USE DEF RestartInv, RestartTypeOK
<1>1. CASE Stop
  BY <1>1 DEF Stop, engineVars
<1>2. CASE FlushEnd
  BY <1>2 DEF FlushEnd, LoopEnds, engineVars
<1>3. CASE RequeueEnd
  BY <1>3 DEF RequeueEnd, LoopEnds, engineVars
<1> QED  BY <1>1, <1>2, <1>3 DEF Loops

LEMMA RunningIs ==
  ASSUME RestartTypeOK, Running \/ UNCHANGED restartVars
  PROVE  life' = life /\ (place # "fill" => place' # "fill") /\ UNCHANGED pastVars
BY TakesIs, GivesIs, LoopsIs DEF Running, Deliver, restartVars

LEMMA ListsKept ==
  ASSUME RestartInv, Untangled, place # "fill", Running \/ UNCHANGED restartVars,
         NEW s \in Seq(Bufs), NEW t \in Seq(Bufs), TwoLists(s, t)
  PROVE  \E u, v \in Seq(Bufs) : TwoLists(u, v)' /\ Left(u, v)' = Left(s, t)
<1>0. RestartTypeOK /\ (place \in {"use", "cancel", "clear"} <=> vbuf # 0)
  BY DEF RestartInv, ThreadView
<1>1. CASE Deliver
  BY <1>0, <1>1, MoveOut DEF Deliver
<1>2. CASE Takes
  BY <1>0, <1>2, TakesIs, TakeKeeps
<1>3. CASE Gives
  BY <1>0, <1>3, GivesIs, GiveKeeps
<1>4. CASE Loops \/ UNCHANGED restartVars
  <2>1. link' = link /\ head' = head /\ tail' = tail /\ vbuf' = vbuf
    BY <1>0, <1>4, LoopsIs DEF restartVars, listVars
  <2>2. TwoLists(s, t)' /\ Left(s, t)' = Left(s, t)
    BY <2>1 DEF TwoLists, IsList, Left
  <2> QED  BY <2>2
<1> QED  BY <1>1, <1>2, <1>3, <1>4 DEF Running

LEMMA EmptyTogether ==
  ASSUME RestartInv, Untangled, place # "fill", NEW q \in Queues
  PROVE  head[q] = 0 <=> tail[q] = 0
<1> PICK s \in Seq(Bufs), t \in Seq(Bufs) : TwoLists(s, t)
  BY DEF RestartInv, ListView
<1>1. PICK l \in Seq(Bufs) : IsList(q, l)
  BY DEF TwoLists, Queues
<1> QED  BY <1>1, ListTail

\* The types hold whatever has become of the queues.
LEMMA TypesKept ==
  ASSUME RestartInv, [RestartNext]_restartVars
  PROVE  RestartTypeOK' /\ (place \in {"use", "cancel", "clear"} <=> vbuf # 0)'
<1> USE RestartAssumption DEF RestartInv, RestartTypeOK, ThreadView
<1>0. ListTypes
  BY DEF ListTypes
<1>1. CASE Start
  BY <1>1 DEF Start, engineVars
<1>2. CASE Fill
  <2>1. i \in Bufs /\ i' \in 1..NumBufs + 1 /\ "in" \in Queues
    BY <1>2 DEF Fill, Bufs, Queues
  <2>2. ListTypes'
    BY <1>0, <1>2, <2>1, PutTypes DEF Fill, Put, ListTypes
  <2> QED  BY <1>2, <2>1, <2>2 DEF Fill, ListTypes, engineVars, pastVars
<1>3. CASE StartStream
  BY <1>3 DEF StartStream, listVars, pastVars
<1>4. CASE Deliver
  <2>1. ListTypes'
    BY <1>0, <1>4, MoveTypes DEF Deliver, Queues
  <2>2. slots' \in 0..Slots
    BY <1>4 DEF Deliver
  <2> QED  BY <1>4, <2>1, <2>2 DEF Deliver, ListTypes, pastVars
<1>5. CASE Takes
  <2>1. ListTypes' /\ vbuf' \in Bufs
    BY <1>0, <1>5, TakesIs, GetTypes
  <2> QED  BY <1>5, <2>1, TakesIs, NullIsNoBuffer DEF ListTypes, engineVars, pastVars
<1>6. CASE Gives
  <2>1. vbuf \in Bufs
    BY <1>6, GivesIs
  <2>2. ListTypes'
    BY <1>0, <1>6, <2>1, GivesIs, PutTypes DEF Put, ListTypes
  <2> QED  BY <1>6, <2>2, GivesIs DEF ListTypes, engineVars, pastVars
<1>7. CASE Loops
  <2>1. RestartTypeOK
    BY DEF RestartTypeOK
  <2>2. /\ UNCHANGED <<link, head, tail, i, vbuf, life, knotted, chased>>
        /\ place' \in {"flush", "requeue", "none"}
        /\ place \notin {"use", "cancel", "clear"}
        /\ running' \in BOOLEAN /\ slots' \in 0..Slots
    <3> HIDE DEF RestartTypeOK, RestartInv, ThreadView
    <3>1. slots \in 0..Slots /\ Slots \in 0..Slots
      BY <2>1 DEF RestartTypeOK
    <3> QED  BY <1>7, <2>1, <3>1, LoopsIs DEF listVars, pastVars
  <2> QED  BY <2>2
<1>8. CASE UNCHANGED restartVars
  BY <1>8 DEF restartVars, listVars, engineVars, pastVars
<1> QED
  BY <1>1, <1>2, <1>3, <1>4, <1>5, <1>6, <1>7, <1>8
     DEF RestartNext, Thread, Takes, Gives, Loops

LEMMA StaysUntangled ==
  ASSUME RestartTypeOK, [RestartNext]_restartVars, Untangled'
  PROVE  Untangled
<1>1. (Running \/ UNCHANGED restartVars) => UNCHANGED pastVars
  BY RunningIs
<1>2. CASE Start
  BY <1>2 DEF Start, Untangled
<1>3. CASE Fill \/ StartStream
  BY <1>3 DEF Fill, StartStream, Untangled, pastVars
<1>4. CASE Running \/ UNCHANGED restartVars
  BY <1>1, <1>4 DEF Untangled, pastVars
<1> QED
  BY <1>2, <1>3, <1>4 DEF RestartNext, Thread, Running, Takes, Gives, Loops

LEMMA RestartPreserved == RestartInv /\ [RestartNext]_restartVars => RestartInv'
<1> SUFFICES ASSUME RestartInv, [RestartNext]_restartVars PROVE RestartInv'
  OBVIOUS
<1>0. RestartTypeOK
  BY DEF RestartInv
<1>t. RestartTypeOK' /\ (place \in {"use", "cancel", "clear"} <=> vbuf # 0)'
  BY TypesKept
<1>u. CASE ~Untangled'
  BY <1>t, <1>u DEF RestartInv, ThreadView, FillView, ListView
<1>v. CASE Untangled'
  <2>0. Untangled
    BY <1>0, <1>v, StaysUntangled
  <2>1. CASE Start
    <3>1. place = "none" /\ place' = "fill" /\ ~running /\ running' = running /\ tail["in"] # 1
      BY <1>v, <2>1 DEF Start, Untangled, engineVars
    <3>2. head["in"] = 0 <=> tail["in"] = 0
      BY <2>0, <3>1, EmptyTogether DEF Queues
    <3>3. FillView'
      <4>1. life' > 0 /\ i' = 1
        BY <2>1, RestartAssumption DEF Start, RestartInv, RestartTypeOK
      <4>2. \A b \in Bufs : link'[b] = 0
        BY <2>1 DEF Start
      <4> QED  BY <2>1, <3>1, <3>2, <4>1, <4>2 DEF Start, FillView
    <3>4. ThreadView'
      BY <1>t, <2>0, <2>1, <3>1 DEF Start, RestartInv, ThreadView
    <3>5. ListView'
      BY <3>1 DEF ListView
    <3> QED  BY <1>t, <3>3, <3>4, <3>5 DEF RestartInv
  <2>2. CASE Fill
    <3>1. ListView'
      BY <2>2 DEF Fill, ListView
    <3> QED  BY <1>t, <2>0, <2>2, <3>1, FillKeepsView DEF RestartInv
  <2>3. CASE StartStream
    <3>0. link' = link /\ head' = head /\ tail' = tail /\ vbuf' = vbuf /\ place' # "fill"
      BY <2>3 DEF StartStream, listVars
    <3>1. FillView'
      BY <3>0 DEF FillView
    <3>2. ThreadView'
      BY <1>t, <2>0, <2>3, <3>0 DEF StartStream, RestartInv, ThreadView, FillView
    <3>3. ListView'
      <4> PICK s \in Seq(Bufs) : /\ TwoLists(s, <<>>)
                                 /\ Left(s, <<>>) = head["in"]..NumBufs
                                 /\ head["in"] \in Bufs
        BY <2>0, <2>3, FilledIsList DEF StartStream
      <4>1. TwoLists(s, <<>>)' /\ Left(s, <<>>)' = Left(s, <<>>) /\ <<>> \in Seq(Bufs)
        BY <3>0 DEF TwoLists, IsList, Left
      <4> QED  BY <4>1 DEF ListView
    <3> QED  BY <1>t, <3>1, <3>2, <3>3 DEF RestartInv
  <2>4. CASE place # "fill" /\ (Running \/ UNCHANGED restartVars)
    <3>0. place' # "fill" /\ life' = life
      BY <1>0, <2>4, RunningIs
    <3>1. FillView'
      BY <3>0 DEF FillView
    <3>2. ThreadView'
      <4> SUFFICES ASSUME place' = "none", ~running'
                   PROVE  head'["out"] = 0 /\ tail'["out"] = 0
        BY <1>t, <3>0 DEF ThreadView
      <4>1. CASE Deliver
        BY <4>1 DEF Deliver
      <4>2. CASE Takes \/ Gives
        BY <4>2, TakesIs, GivesIs
      <4>3. CASE Loops
        BY <1>0, <2>0, <2>4, <4>3, LoopsIs, EmptyTogether DEF Queues, listVars
      <4>4. CASE UNCHANGED restartVars
        BY <2>0, <4>4 DEF restartVars, listVars, engineVars, RestartInv, ThreadView
      <4> QED  BY <2>4, <4>1, <4>2, <4>3, <4>4 DEF Running
    <3>3. ListView'
      <4> PICK s \in Seq(Bufs), t \in Seq(Bufs) :
             /\ TwoLists(s, t)
             /\ life > 0 => \E b \in Bufs : Left(s, t) = b..NumBufs
        BY <2>0, <2>4 DEF RestartInv, ListView
      <4> PICK u \in Seq(Bufs), v \in Seq(Bufs) : TwoLists(u, v)' /\ Left(u, v)' = Left(s, t)
        BY <2>0, <2>4, ListsKept
      <4>1. life' > 0 => \E b \in Bufs : Left(u, v)' = b..NumBufs
        BY <3>0
      <4> QED  BY <4>1 DEF ListView
    <3> QED  BY <1>t, <3>1, <3>2, <3>3 DEF RestartInv
  <2>5. CASE place = "fill" /\ UNCHANGED restartVars
    BY <2>5 DEF restartVars, listVars, engineVars, pastVars, RestartInv, RestartTypeOK,
                ThreadView, FillView, ListView, Untangled
  <2>6. CASE place = "fill" /\ Deliver
    BY <2>0, <2>6 DEF Deliver, RestartInv, FillView
  <2>7. Takes \/ Gives \/ Loops => place # "fill"
    BY <1>0, TakesIs, GivesIs, LoopsIs
  <2> QED
    BY <2>1, <2>2, <2>3, <2>4, <2>5, <2>6, <2>7
       DEF RestartNext, Thread, Running, Takes, Gives, Loops
<1> QED  BY <1>u, <1>v

\* The pool, seen as the two lists.
LEMMA PoolIsLeft ==
  ASSUME RestartTypeOK, NEW s \in Seq(Bufs), NEW t \in Seq(Bufs), TwoLists(s, t)
  PROVE  Linked("in") = Elements(s) /\ Linked("out") = Elements(t) /\ Pool = Left(s, t)
<1>1. Linked("in") = Elements(s) /\ Linked("out") = Elements(t)
  BY LinkedIsTheList DEF TwoLists, Queues
<1> QED  BY <1>1 DEF Pool, Left

LEMMA PoolIsAlwaysLeft ==
  \A s, t \in Seq(Bufs) :
    RestartTypeOK /\ TwoLists(s, t) =>
      Linked("in") = Elements(s) /\ Linked("out") = Elements(t) /\ Pool = Left(s, t)
BY PoolIsLeft

\* The same of the state after a step.
LEMMA PoolIsLeftAfter ==
  (\A s, t \in Seq(Bufs) :
     RestartTypeOK /\ TwoLists(s, t) =>
       Linked("in") = Elements(s) /\ Linked("out") = Elements(t) /\ Pool = Left(s, t))'
BY PoolIsAlwaysLeft, PTL

LEMMA InvGivesQueues == RestartInv => QueuesSound
<1> SUFFICES ASSUME RestartInv, Untangled, place # "fill" PROVE QueuesSound
  BY DEF RestartInv, QueuesSound
<1> PICK s \in Seq(Bufs), t \in Seq(Bufs) :
       /\ TwoLists(s, t)
       /\ life > 0 => \E b \in Bufs : Left(s, t) = b..NumBufs
  BY DEF RestartInv, ListView
<1>1. RestartTypeOK
  BY DEF RestartInv
<1>2. Linked("in") = Elements(s) /\ Linked("out") = Elements(t) /\ Pool = Left(s, t)
  BY <1>1, PoolIsLeft
<1>3. ASSUME NEW q \in Queues
      PROVE  /\ tail[q] # 0 <=> head[q] # 0
             /\ head[q] # 0 => tail[q] \in Linked(q) /\ link[tail[q]] = 0
  <2> PICK l \in Seq(Bufs) : IsList(q, l) /\ Linked(q) = Elements(l)
    BY <1>2 DEF TwoLists, Queues
  <2>1. CASE Len(l) = 0
    BY <2>1 DEF IsList
  <2>2. CASE Len(l) # 0
    <3>1. Len(l) \in 1..Len(l) /\ 1 \in 1..Len(l)
      BY <2>2
    <3>2. head[q] \in Bufs /\ tail[q] \in Bufs /\ tail[q] \in Elements(l) /\ link[tail[q]] = 0
      BY <2>2, <3>1 DEF IsList, Elements
    <3> QED  BY <3>2, NullIsNoBuffer
  <2> QED  BY <2>1, <2>2
<1>4. ListsEnd
  BY <1>3 DEF ListsEnd
<1>5. OneOwner
  BY <1>2 DEF OneOwner, TwoLists
<1>6. PoolIsTail
  BY <1>2 DEF PoolIsTail
<1> QED  BY <1>1, <1>4, <1>5, <1>6 DEF QueuesSound

LEMMA AlwaysRestartInv == RestartSpec => []RestartInv
BY RestartInitially, RestartPreserved, PTL DEF RestartSpec

\* However often the thread is started over its own live queues, for any number
\* of buffers above one, and with an engine that a failed close has left
\* delivering: as long as every life has begun with the engine closed and a tail
\* other than buffers[0], no link leads back, no buffer has two places, and what
\* is left of the buffers is an end of the array.
THEOREM QueuesStaySound == RestartSpec => []QueuesSound
BY AlwaysRestartInv, InvGivesQueues, PTL
-----------------------------------------------------------------------------
(***************************************************************************)
(* What a step may never do.                                               *)
(***************************************************************************)
\* The buffers a life has, or will have when its loop over buffers[] is done.
Kept == IF place = "fill" THEN head["in"]..NumBufs ELSE Pool

PoolOnlyShrinks == [][life > 0 /\ Untangled' => Kept' \subseteq Kept]_restartVars

\* What each turn of a loop leaves less of, in spite of an engine that still
\* delivers: the queue that the flush empties; and for the requeue the canceled
\* buffers together with the slots that the engine can still fill.
Work == Cardinality(Linked("out")) + slots

LoopsShorten ==
  [][Untangled' =>
       /\ place \in {"flush", "cancel"} => Linked("in")' \subseteq Linked("in")
       /\ FlushGet => Linked("in")' # Linked("in")
       /\ place \in {"requeue", "clear"} => Work' <= Work
       /\ RequeueGet => Work' < Work]_restartVars

LEMMA KeptShrinks ==
  ASSUME RestartInv, RestartInv', [RestartNext]_restartVars, life > 0, Untangled'
  PROVE  Kept' \subseteq Kept
<1>0. RestartTypeOK /\ RestartTypeOK' /\ Untangled
  BY StaysUntangled DEF RestartInv
<1>1. CASE Start
  <2>0. place = "none" /\ ~running
    BY <1>1 DEF Start, Untangled
  <2> PICK s \in Seq(Bufs), t \in Seq(Bufs), b \in Bufs : TwoLists(s, t) /\ Left(s, t) = b..NumBufs
    BY <1>0, <2>0 DEF RestartInv, ListView
  <2>1. Pool = b..NumBufs
    BY <1>0, PoolIsLeft
  <2>2. Elements(t) = {} /\ {vbuf} \ {0} = {}
    <3>1. Len(t) = 0
      <4>1. head["out"] = 0
        BY <1>0, <2>0 DEF RestartInv, ThreadView
      <4> QED  BY <4>1, ListTail DEF TwoLists, Queues
    <3>2. vbuf = 0
      BY <2>0 DEF RestartInv, ThreadView
    <3> QED  BY <3>1, <3>2 DEF Elements
  <2>3. NumBufs \in Elements(s)
    BY <2>2, RestartAssumption DEF Left, Bufs
  <2>4. Len(s) # 0 /\ 1 \in 1..Len(s)
    BY <2>3 DEF Elements
  <2>5. head["in"] \in b..NumBufs
    BY <2>2, <2>4 DEF TwoLists, IsList, Left, Elements
  <2>6. head["in"]..NumBufs \subseteq b..NumBufs
    BY <2>5, RestartAssumption DEF Bufs
  <2> QED  BY <1>1, <2>0, <2>1, <2>6 DEF Start, Kept
<1>2. CASE Fill
  <2>1. head' = head \/ (head["in"] = 0 /\ head'["in"] \in Bufs)
    BY <1>0, <1>2 DEF Fill, Put, PutHead, RestartInv, RestartTypeOK, FillView, Queues, Bufs
  <2>2. head["in"] = 0 => head'["in"]..NumBufs \subseteq head["in"]..NumBufs
    BY <2>1, RestartAssumption DEF Bufs
  <2> QED  BY <1>2, <2>1, <2>2 DEF Fill, Kept
<1>3. CASE StartStream
  <2> PICK s \in Seq(Bufs) : TwoLists(s, <<>>) /\ Left(s, <<>>) = head["in"]..NumBufs
    BY <1>0, <1>3, FilledIsList DEF StartStream
  <2>1. link' = link /\ head' = head /\ tail' = tail /\ vbuf' = vbuf
    BY <1>3 DEF StartStream, listVars
  <2>2. Pool' = Pool
    BY <2>1 DEF Pool, Linked, Closed
  <2>3. <<>> \in Seq(Bufs)
    OBVIOUS
  <2>4. Pool = head["in"]..NumBufs
    BY <1>0, <2>3, PoolIsLeft
  <2> QED  BY <1>3, <2>2, <2>4 DEF StartStream, Kept
<1>4. CASE place # "fill" /\ (Running \/ UNCHANGED restartVars)
  <2> PICK s \in Seq(Bufs), t \in Seq(Bufs) : TwoLists(s, t)
    BY <1>0, <1>4 DEF RestartInv, ListView
  <2> PICK u \in Seq(Bufs), v \in Seq(Bufs) : TwoLists(u, v)' /\ Left(u, v)' = Left(s, t)
    BY <1>0, <1>4, ListsKept
  <2>1. Pool = Left(s, t)
    BY <1>0, PoolIsLeft
  <2>2. Pool' = Left(u, v)'
    BY <1>0, PoolIsLeftAfter
  <2>3. place' # "fill"
    BY <1>0, <1>4, RunningIs
  <2> QED  BY <1>4, <2>1, <2>2, <2>3 DEF Kept
<1>5. CASE place = "fill" /\ UNCHANGED restartVars
  BY <1>5 DEF restartVars, listVars, Kept
<1>6. CASE place = "fill" /\ Deliver
  BY <1>0, <1>6 DEF Deliver, RestartInv, FillView
<1> QED
  <2>1. Takes \/ Gives \/ Loops => place # "fill"
    BY <1>0, TakesIs, GivesIs, LoopsIs
  <2> QED
    BY <1>1, <1>2, <1>3, <1>4, <1>5, <1>6, <2>1
       DEF RestartNext, Thread, Running, Takes, Gives, Loops

\* A life never has a buffer that the one before had lost, and none is lost
\* while a life lasts.
THEOREM PoolNeverGrows == RestartSpec => PoolOnlyShrinks
<1>1. RestartInv /\ RestartInv' /\ [RestartNext]_restartVars
        => [life > 0 /\ Untangled' => Kept' \subseteq Kept]_restartVars
  BY KeptShrinks
<1> QED  BY <1>1, AlwaysRestartInv, PTL DEF RestartSpec, PoolOnlyShrinks

LEMMA LinkedIsAlwaysTheList ==
  \A q \in Queues, s \in Seq(Bufs) : RestartTypeOK /\ IsList(q, s) => Linked(q) = Elements(s)
BY LinkedIsTheList

LEMMA LinkedIsTheListAfter ==
  (\A q \in Queues, s \in Seq(Bufs) : RestartTypeOK /\ IsList(q, s) => Linked(q) = Elements(s))'
BY LinkedIsAlwaysTheList, PTL

\* What each step does to the set of buffers on a queue.
LEMMA MoveChanges ==
  ASSUME RestartInv, RestartInv', Untangled, place # "fill", Move("in", "out")
  PROVE  /\ Linked("in")' \subseteq Linked("in")
         /\ \E b \in Bufs \ Linked("out") : Linked("out")' = Linked("out") \cup {b}
<1>0. RestartTypeOK /\ RestartTypeOK'
  BY DEF RestartInv
<1> PICK s \in Seq(Bufs), t \in Seq(Bufs) : TwoLists(s, t)
  BY DEF RestartInv, ListView
<1>1. Len(s) > 0 /\ IsList("in", Tail(s))' /\ IsList("out", Append(t, s[1]))'
  BY <1>0, MoveOnLists, ApartByElements DEF TwoLists, Queues
<1>2. /\ Tail(s) \in Seq(Bufs) /\ s[1] \in Elements(s)
      /\ Elements(Tail(s)) = Elements(s) \ {s[1]}
  BY <1>1, RestElements DEF TwoLists
<1>3. s[1] \in Bufs /\ s[1] \notin Elements(t)
  BY <1>1, <1>2 DEF TwoLists
<1>4. /\ Append(t, s[1]) \in Seq(Bufs)
      /\ Elements(Append(t, s[1])) = Elements(t) \cup {s[1]}
  BY <1>3, AppendedElements DEF TwoLists
<1>5. Linked("in") = Elements(s) /\ Linked("out") = Elements(t)
  BY <1>0, PoolIsLeft
<1>6. Linked("in")' = Elements(Tail(s)) /\ Linked("out")' = Elements(Append(t, s[1]))
  BY <1>0, <1>1, <1>2, <1>4, LinkedIsTheListAfter DEF Queues
<1> QED  BY <1>2, <1>3, <1>4, <1>5, <1>6

LEMMA GetChanges ==
  ASSUME RestartInv, RestartInv', Untangled, place # "fill", NEW q \in Queues, Get(q)
  PROVE  \E b \in Linked(q) : Linked(q)' = Linked(q) \ {b}
<1>0. RestartTypeOK /\ RestartTypeOK'
  BY DEF RestartInv
<1> PICK u \in Seq(Bufs), v \in Seq(Bufs) : TwoLists(u, v)
  BY DEF RestartInv, ListView
<1>1. PICK s \in Seq(Bufs), t \in Seq(Bufs), r \in Queues :
         q # r /\ IsList(q, s) /\ IsList(r, t) /\ NoRepeats(s)
  <2>1. CASE q = "in"
    BY <2>1 DEF TwoLists, Queues
  <2>2. CASE q = "out"
    BY <2>2 DEF TwoLists, Queues
  <2> QED  BY <2>1, <2>2 DEF Queues
<1>2. Len(s) > 0 /\ IsList(q, Tail(s))'
  BY <1>0, <1>1, GetFromList
<1>3. /\ Tail(s) \in Seq(Bufs) /\ s[1] \in Elements(s)
      /\ Elements(Tail(s)) = Elements(s) \ {s[1]}
  BY <1>1, <1>2, RestElements
<1>4. Linked(q) = Elements(s)
  BY <1>0, <1>1, LinkedIsTheList
<1>5. Linked(q)' = Elements(Tail(s))
  BY <1>0, <1>2, <1>3, LinkedIsTheListAfter
<1> QED  BY <1>3, <1>4, <1>5

LEMMA PutElsewhere ==
  ASSUME RestartInv, RestartInv', Untangled, place # "fill", vbuf # 0,
         NEW q \in Queues, NEW r \in Queues, q # r, Put(q, vbuf)
  PROVE  Linked(r)' = Linked(r)
<1>0. RestartTypeOK /\ RestartTypeOK'
  BY DEF RestartInv
<1> PICK b \in Bufs : b = vbuf
  BY <1>0 DEF RestartTypeOK
<1> PICK u \in Seq(Bufs), v \in Seq(Bufs) : TwoLists(u, v)
  BY DEF RestartInv, ListView
<1>1. PICK s \in Seq(Bufs), t \in Seq(Bufs) :
         /\ IsList(q, s) /\ IsList(r, t) /\ NoRepeats(s) /\ NoRepeats(t)
         /\ Elements(s) \cap Elements(t) = {} /\ b \notin Elements(s) \cup Elements(t)
  <2>1. CASE q = "in"
    BY <2>1 DEF TwoLists, Queues
  <2>2. CASE q = "out"
    <3>1. r = "in" /\ Elements(v) \cap Elements(u) = {} /\ b \notin Elements(v) \cup Elements(u)
      BY <2>2 DEF TwoLists, Queues
    <3>2. IsList(q, v) /\ IsList(r, u) /\ NoRepeats(v) /\ NoRepeats(u)
      BY <2>2, <3>1 DEF TwoLists
    <3> QED  BY <3>1, <3>2
  <2> QED  BY <2>1, <2>2 DEF Queues
<1>2. IsList(r, t)'
  <2>1. \A j \in 1..Len(s), k \in 1..Len(t) : s[j] # t[k]
    BY <1>1, ApartByElements
  <2> QED  BY <1>0, <1>1, <2>1, PutOnList
<1> QED  BY <1>0, <1>1, <1>2, LinkedIsTheList, LinkedIsTheListAfter

LEMMA FewLinked == \A q \in Queues : IsFiniteSet(Linked(q)) /\ Cardinality(Linked(q)) \in Nat
<1> TAKE q \in Queues
<1>1. IsFiniteSet(Bufs) /\ Linked(q) \subseteq Bufs
  BY RestartAssumption, FS_Interval DEF Bufs, Linked
<1> QED  BY <1>1, FS_Subset, FS_CardinalityType

\* The flush and the requeue end: each turn of the flush takes one of at most
\* NumBufs buffers off fifo_in, which nobody else puts any on; and an engine that
\* could not be closed makes the requeue longer by no more than its free slots.
THEOREM FlushAndRequeueShorten == RestartSpec => LoopsShorten
<1> DEFINE Turn ==
      /\ place \in {"flush", "cancel"} => Linked("in")' \subseteq Linked("in")
      /\ FlushGet => Linked("in")' # Linked("in")
      /\ place \in {"requeue", "clear"} => Work' <= Work
      /\ RequeueGet => Work' < Work
<1>1. RestartInv /\ RestartInv' /\ [RestartNext]_restartVars => [Untangled' => Turn]_restartVars
  <2> SUFFICES ASSUME RestartInv, RestartInv', RestartNext, Untangled' PROVE Turn
    BY Zenon
  <2>0. /\ Untangled
        /\ \A q \in Queues : IsFiniteSet(Linked(q)) /\ Cardinality(Linked(q)) \in Nat
        /\ slots \in Nat /\ (vbuf # 0 <=> place \in {"use", "cancel", "clear"})
        /\ "in" \in Queues /\ "out" \in Queues
    BY StaysUntangled, FewLinked, RestartAssumption
       DEF RestartInv, RestartTypeOK, ThreadView, Queues
  <2> SUFFICES ASSUME place \in {"flush", "cancel", "requeue", "clear"} PROVE Turn
    BY DEF FlushGet, RequeueGet, TakeFrom
  <2>1. CASE Deliver
    <3>1. PICK b \in Bufs \ Linked("out") :
             /\ Linked("in")' \subseteq Linked("in") /\ Linked("out")' = Linked("out") \cup {b}
      BY <2>0, <2>1, MoveChanges DEF Deliver
    <3>2. Cardinality(Linked("out"))' = Cardinality(Linked("out")) + 1
      BY <2>0, <3>1, FS_AddElement
    <3>3. slots' = slots - 1 /\ place' = place
      BY <2>1 DEF Deliver
    <3> QED  BY <2>0, <3>1, <3>2, <3>3 DEF Work, FlushGet, RequeueGet, TakeFrom
  <2>2. CASE FlushGet
    <3>1. place = "flush" /\ Get("in")
      BY <2>2 DEF FlushGet, TakeFrom
    <3> QED  BY <2>0, <2>2, <3>1, GetChanges DEF RequeueGet, TakeFrom
  <2>3. CASE FlushPut
    <3>1. place = "cancel" /\ Put("out", vbuf)
      BY <2>3 DEF FlushPut, GiveTo
    <3>2. Linked("in")' = Linked("in")
      BY <2>0, <3>1, PutElsewhere
    <3> QED  BY <3>1, <3>2 DEF FlushGet, RequeueGet, TakeFrom
  <2>4. CASE RequeueGet
    <3>1. place = "requeue" /\ Get("out") /\ slots' = slots
      BY <2>4 DEF RequeueGet, TakeFrom, engineVars
    <3>2. PICK b \in Linked("out") : Linked("out")' = Linked("out") \ {b}
      BY <2>0, <3>1, GetChanges
    <3>3. Cardinality(Linked("out"))' = Cardinality(Linked("out")) - 1
      BY <2>0, <3>2, FS_RemoveElement
    <3> QED  BY <2>0, <3>1, <3>3 DEF Work, FlushGet, TakeFrom
  <2>5. CASE RequeuePut
    <3>1. place = "clear" /\ Put("in", vbuf) /\ slots' = slots
      BY <2>5 DEF RequeuePut, GiveTo, engineVars
    <3>2. Linked("out")' = Linked("out")
      BY <2>0, <3>1, PutElsewhere
    <3> QED  BY <2>0, <3>1, <3>2 DEF Work, FlushGet, RequeueGet, TakeFrom
  <2>6. CASE FlushEnd \/ RequeueEnd
    <3>1. link' = link /\ head' = head /\ slots' = slots /\ place' \in {"requeue", "none"}
      BY <2>6 DEF FlushEnd, RequeueEnd, LoopEnds, listVars, engineVars
    <3>2. \A q \in Queues : Linked(q)' = Linked(q)
      BY <3>1 DEF Linked, Closed
    <3> QED  BY <2>0, <3>1, <3>2 DEF Work, FlushGet, RequeueGet, TakeFrom
  <2> QED
    BY <2>1, <2>2, <2>3, <2>4, <2>5, <2>6
       DEF RestartNext, Thread, Start, Fill, StartStream, Dequeue, Enqueue, Stop, TakeFrom, GiveTo
<1> HIDE DEF Turn
<1>2. RestartSpec => [][Untangled' => Turn]_restartVars
  BY <1>1, AlwaysRestartInv, PTL DEF RestartSpec
<1> QED  BY <1>2 DEF Turn, LoopsShorten
=============================================================================
