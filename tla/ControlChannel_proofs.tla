----------------------- MODULE ControlChannel_proofs -----------------------
(***************************************************************************)
(* Proofs about ControlChannel, for any nodes, GPUs, sizes and partitions  *)
(* that fit the shared memory: the two sides of a control socket always    *)
(* agree on where a message begins, no assertion on the numbers of a       *)
(* partition fails, and a call acts on its own partition as one step.      *)
(***************************************************************************)
EXTENDS ControlChannel, FiniteSetTheorems, SequenceTheorems,
        NaturalsInduction, WellFoundedInduction, TLAPS

-----------------------------------------------------------------------------
(***************************************************************************)
(* The inductive invariant.                                                *)
(***************************************************************************)

\* Of the types, what the proofs need.
Typed ==
    /\ at \in [Managed -> Script!CallAt \cup Script!DecideAt]
    /\ loaded \in [Managed -> Int]
    /\ mtx \in Managed \cup {MemThread, NoThread}
    /\ mtx = MemThread => asked \in Managed
    /\ DOMAIN isConnectedtoBackend = Managed
    /\ DOMAIN req = Reachable /\ DOMAIN rep = Reachable
    /\ DOMAIN bpc = Reachable /\ DOMAIN bbuf = Reachable
    /\ DOMAIN word = Slots /\ spawned \in [Slots -> BOOLEAN]
    /\ attached \in [Slots -> BOOLEAN] /\ queue \in [Slots -> Int]
    /\ DOMAIN inChan = Managed /\ DOMAIN outChan = Managed
    /\ DOMAIN hasQueue = Slots

\* Nothing is under way at node n.
Quiet(n) == req[n] = <<>> /\ rep[n] = <<>> /\ bpc[n] = "count"

\* The partition, the command and the partition number of the call under way.
Subject == IF mtx = MemThread THEN asked ELSE mtx
Command == IF mtx = MemThread THEN "BACKEND_GET_MEM" ELSE CmdAt(at[mtx])
Part == IF mtx = MemThread THEN 0 ELSE PartNum(AVAIL_SIZES, mtx)

\* Its message, and what receiveControl makes of it.
TheMessage == Message(Command, Subject.gpu, Part)
TheOrder == <<Command, FirstIdx[Subject.node] + Subject.gpu, Part>>

\* The message is on the socket, is being executed, or is answered.
OnSocket(n) == req[n] = TheMessage /\ rep[n] = <<>> /\ bpc[n] = "count"
Executing(n) ==
    /\ req[n] = <<>> /\ rep[n] = <<>> /\ bbuf[n] = TheOrder
    /\ bpc[n] \in {"exec", "boot"}
    /\ bpc[n] = "boot" => Command = "BACKEND_START_PROXY"
Answered(n) ==
    /\ req[n] = <<>> /\ rep[n] # <<>> /\ rep[n] = <<Head(rep[n])>>
    /\ bpc[n] = "count"

CallInv ==
    /\ mtx = NoThread => stage = "none" /\ \A n \in Reachable : Quiet(n)
    /\ mtx # NoThread =>
         /\ stage \in {"write", "reply", "open", "ack"}
         /\ \A n \in Reachable \ {Subject.node} : Quiet(n)
         /\ stage = "write" => Quiet(Subject.node) /\ todo = TheMessage
         /\ stage = "reply" => \/ OnSocket(Subject.node)
                               \/ Executing(Subject.node)
                               \/ Answered(Subject.node)
         /\ stage \in {"open", "ack"} =>
              Quiet(Subject.node) /\ mtx # MemThread /\ at[mtx] = "connect"
         /\ mtx # MemThread => at[mtx] \in Script!CallAt

DataInv ==
    \A p \in Managed :
        /\ inChan[p] = "acked" => hasQueue[SlotOf[p]]
        /\ outChan[p] = "opened" => hasQueue[SlotOf[p]]
        /\ outChan[p] # "null"

\* The control thread waits for the process of p.
Booting(p) == mtx = p /\ bpc[p.node] = "boot"

\* A partition whose loader is about to start a process has none, but for
\* the one that the control thread waits for.
LifeInv ==
    \A p \in Managed :
        /\ word[SlotOf[p]] = Script!COLD /\ spawned[SlotOf[p]] => Booting(p)
        /\ AtNow(p) = "start" /\ ~Booting(p)
             => word[SlotOf[p]] = Script!COLD /\ ~spawned[SlotOf[p]]

IInv == Typed /\ CallInv /\ DataInv /\ LifeInv

-----------------------------------------------------------------------------
(***************************************************************************)
(* The numbers of a partition.                                             *)
(***************************************************************************)

\* Induction up to N, with the set of the numbers that have the property: the
\* least number without it would not be 0 and would follow one that has it.
LEMMA UpTo ==
    ASSUME NEW N \in Nat, NEW G, 0 \in G,
           \A n \in 1 .. N : n - 1 \in G => n \in G
    PROVE  N \in G
<1> DEFINE T == (0 .. N) \ G
           R == OpToRel(<, Nat)
<1> SUFFICES ASSUME N \notin G PROVE FALSE
  OBVIOUS
<1>1. T # {} /\ T \subseteq Nat
  OBVIOUS
<1>2. IsWellFoundedOn(R, Nat)
  BY NatLessThanWellFounded
<1>3. \A x, y \in Nat : y < x => <<y, x>> \in R
  BY DEF OpToRel
<1> HIDE DEF R
<1>4. PICK n \in T : \A k \in T : ~ (<<k, n>> \in R)
  BY <1>1, <1>2, WFMin
<1>5. \A k \in T : ~(k < n)
  BY <1>1, <1>3, <1>4, Zenon
<1>6. n \in 1 .. N
  BY <1>4
<1>7. n - 1 \notin T
  BY <1>5, <1>6
<1> QED
  BY <1>4, <1>6, <1>7

\* The recursions of SumBefore and of Parts, with f for the values so far: the
\* sums of the sizes F of the nodes, and the concatenation of the pieces F.
SumOf(F, i, f) == IF i = 0 THEN 0 ELSE f[i - 1] + F[i - 1]
FlatOf(F, i, f) == IF i = 1 THEN F[i] ELSE f[i - 1] \o F[i]

\* The loop of lookupFrontDevIDtoBackDevID has a sum at every node.
LEMMA SumsExist ==
    ASSUME NEW F, NEW N \in Nat
    PROVE  \E f : f = [i \in 0 .. N |-> SumOf(F, i, f)]
<1> DEFINE G == {n \in Nat : \E f : f = [i \in 0 .. n |-> SumOf(F, i, f)]}
<1>1. 0 \in G
  <2> DEFINE f0 == [i \in 0 .. 0 |-> 0]
  <2>1. f0 = [i \in 0 .. 0 |-> SumOf(F, i, f0)]
    BY DEF SumOf
  <2> QED
    BY <2>1
<1>2. ASSUME NEW n \in 1 .. N, n - 1 \in G PROVE n \in G
  <2>1. PICK f : f = [i \in 0 .. n - 1 |-> SumOf(F, i, f)]
    BY <1>2
  <2> DEFINE g == [i \in 0 .. n |-> IF i = n THEN SumOf(F, n, f) ELSE f[i]]
  <2>2. \A i \in 0 .. n : g[i] = SumOf(F, i, g)
    <3> SUFFICES ASSUME NEW i \in 0 .. n PROVE g[i] = SumOf(F, i, g)
      OBVIOUS
    <3>1. i # 0 => g[i - 1] = f[i - 1]
      OBVIOUS
    <3>2. SumOf(F, i, g) = SumOf(F, i, f)
      BY <3>1 DEF SumOf
    <3>3. i # n => f[i] = SumOf(F, i, f)
      <4>1. i # n => i \in 0 .. n - 1
        OBVIOUS
      <4> QED
        BY <2>1, <4>1
    <3> QED
      BY <3>2, <3>3
  <2>3. g = [i \in 0 .. n |-> g[i]]
    OBVIOUS
  <2> HIDE DEF g
  <2>4. g = [i \in 0 .. n |-> SumOf(F, i, g)]
    BY <2>2, <2>3
  <2>5. \E h : h = [i \in 0 .. n |-> SumOf(F, i, h)]
    BY <2>4
  <2> QED
    BY <2>5
<1>3. N \in G
  <2> HIDE DEF G
  <2> QED
    BY <1>1, <1>2, UpTo, Zenon
<1> QED
  BY <1>3

\* The GPUs of the nodes before one are a number of GPUs.
LEMMA SumBeforeType == \A n \in Nat : SumBefore(n) \in Nat
<1> TAKE N \in Nat
<1> DEFINE F == [i \in Nat |-> PerBackendNodeDevNum(i)]
           sum == CHOOSE f : f = [i \in 0 .. N |-> SumOf(F, i, f)]
<1>1. \A i \in Nat : F[i] \in Nat
  BY ControlAssumption DEF PerBackendNodeDevNum
<1>2. sum = [i \in 0 .. N |-> SumOf(F, i, sum)]
  <2> HIDE DEF F
  <2> QED
    BY SumsExist
<1>3. SumBefore(N) = sum[N]
  <2>1. \A f : [i \in 0 .. N |-> SumOf(F, i, f)]
               = [i \in 0 .. N |-> IF i = 0 THEN 0
                                   ELSE f[i - 1] + PerBackendNodeDevNum(i - 1)]
    BY DEF SumOf
  <2> QED
    BY <2>1 DEF SumBefore
<1> HIDE DEF F, sum
<1> DEFINE G == {n \in Nat : n <= N => sum[n] \in Nat}
<1>4. 0 \in G
  BY <1>2 DEF SumOf
<1>5. \A n \in 1 .. N : n - 1 \in G => n \in G
  <2> SUFFICES ASSUME NEW n \in 1 .. N, sum[n - 1] \in Nat PROVE sum[n] \in Nat
    OBVIOUS
  <2>1. sum[n] = sum[n - 1] + F[n - 1] /\ n - 1 \in Nat
    BY <1>2 DEF SumOf
  <2> QED
    BY <1>1, <2>1
<1>6. N \in G
  <2> HIDE DEF G
  <2> QED
    BY <1>4, <1>5, UpTo, Zenon
<1> QED
  BY <1>3, <1>6

\* The pieces of a concatenation can be concatenated one after the other.
LEMMA FlatsExist ==
    ASSUME NEW F, NEW N \in Nat \ {0}
    PROVE  \E f : f = [i \in 1 .. N |-> FlatOf(F, i, f)]
<1> DEFINE G == {n \in Nat : n = 0 \/ \E f : f = [i \in 1 .. n |-> FlatOf(F, i, f)]}
<1>1. 0 \in G
  OBVIOUS
<1>2. ASSUME NEW n \in 1 .. N, n - 1 \in G PROVE n \in G
  <2>1. PICK f : n # 1 => f = [i \in 1 .. n - 1 |-> FlatOf(F, i, f)]
    BY <1>2
  <2> DEFINE g == [i \in 1 .. n |-> IF i = n THEN FlatOf(F, n, f) ELSE f[i]]
  <2>2. \A i \in 1 .. n : g[i] = FlatOf(F, i, g)
    <3> SUFFICES ASSUME NEW i \in 1 .. n PROVE g[i] = FlatOf(F, i, g)
      OBVIOUS
    <3>1. i # 1 => g[i - 1] = f[i - 1]
      OBVIOUS
    <3>2. FlatOf(F, i, g) = FlatOf(F, i, f)
      BY <3>1 DEF FlatOf
    <3>3. i # n => f[i] = FlatOf(F, i, f)
      <4>1. i # n => i \in 1 .. n - 1 /\ n # 1
        OBVIOUS
      <4> QED
        BY <2>1, <4>1
    <3> QED
      BY <3>2, <3>3
  <2>3. g = [i \in 1 .. n |-> g[i]]
    OBVIOUS
  <2> HIDE DEF g
  <2>4. g = [i \in 1 .. n |-> FlatOf(F, i, g)]
    BY <2>2, <2>3
  <2>5. \E h : h = [i \in 1 .. n |-> FlatOf(F, i, h)]
    BY <2>4
  <2> QED
    BY <2>5
<1>3. N \in G
  <2> HIDE DEF G
  <2> QED
    BY <1>1, <1>2, UpTo, Zenon
<1> QED
  BY <1>3

\* A concatenation of sequences is a sequence.
LEMMA FlattenType ==
    ASSUME NEW S, NEW seqs \in Seq(Seq(S)), seqs # <<>>
    PROVE  FlattenSeq(seqs) \in Seq(S)
<1> DEFINE N == Len(seqs)
           flat == CHOOSE f : f = [i \in 1 .. N |-> FlatOf(seqs, i, f)]
<1>1. N \in Nat \ {0} /\ \A i \in 1 .. N : seqs[i] \in Seq(S)
  BY EmptySeq
<1>2. flat = [i \in 1 .. N |-> FlatOf(seqs, i, flat)]
  <2> HIDE DEF N
  <2> QED
    BY <1>1, FlatsExist
<1>3. FlattenSeq(seqs) = flat[N]
  BY <1>1 DEF FlattenSeq, FlatOf
<1> HIDE DEF flat, N
<1> DEFINE G == {n \in Nat : n \in 1 .. N => flat[n] \in Seq(S)}
<1>4. 0 \in G
  OBVIOUS
<1>5. \A n \in 1 .. N : n - 1 \in G => n \in G
  <2> SUFFICES ASSUME NEW n \in 1 .. N, n - 1 \in G PROVE flat[n] \in Seq(S)
    OBVIOUS
  <2>1. CASE n = 1
    BY <1>1, <1>2, <2>1 DEF FlatOf
  <2>2. CASE n # 1
    <3>1. n - 1 \in Nat /\ n - 1 \in 1 .. N
      BY <1>1, <2>2
    <3>2. flat[n - 1] \in Seq(S)
      BY <3>1
    <3>3. flat[n] = flat[n - 1] \o seqs[n]
      BY <1>2, <2>2 DEF FlatOf
    <3> QED
      BY <1>1, <3>2, <3>3, ConcatProperties
  <2> QED
    BY <2>1, <2>2
<1>6. N \in G
  <2> HIDE DEF G
  <2> QED
    BY <1>1, <1>4, <1>5, UpTo, Zenon
<1> QED
  BY <1>1, <1>3, <1>6

\* The partitions of a GPU are numbered in a row (createProxyInfos).
LEMMA PartsType ==
    /\ Len(Parts(AVAIL_SIZES)) \in Nat
    /\ DOMAIN Parts(AVAIL_SIZES) = 1 .. Len(Parts(AVAIL_SIZES))
<1> DEFINE S == Nat \X Nat
           piece(i) == IF AVAIL_SIZES[i] = 50
                       THEN << <<50, 0>>, <<50, 1>> >>
                       ELSE << <<AVAIL_SIZES[i], 0>> >>
           seqs == [i \in DOMAIN AVAIL_SIZES |-> piece(i)]
<1>1. /\ Len(AVAIL_SIZES) \in Nat /\ DOMAIN AVAIL_SIZES = 1 .. Len(AVAIL_SIZES)
      /\ \A i \in DOMAIN AVAIL_SIZES : AVAIL_SIZES[i] \in Nat
  BY ControlAssumption
<1>2. \A i \in DOMAIN AVAIL_SIZES : piece(i) \in Seq(S)
  <2> TAKE i \in DOMAIN AVAIL_SIZES
  <2>1. <<50, 0>> \in S /\ <<50, 1>> \in S /\ <<AVAIL_SIZES[i], 0>> \in S
    BY <1>1
  <2> HIDE DEF S
  <2>2. /\ << <<50, 0>>, <<50, 1>> >> \in Seq(S)
        /\ << <<AVAIL_SIZES[i], 0>> >> \in Seq(S)
    BY <2>1
  <2> QED
    BY <2>2
<1>3. seqs \in [1 .. Len(AVAIL_SIZES) -> Seq(S)]
  <2> HIDE DEF piece, S
  <2> QED
    BY <1>1, <1>2
<1>4. seqs \in Seq(Seq(S))
  <2> HIDE DEF seqs, S
  <2> QED
    BY <1>1, <1>3
<1>5. Parts(AVAIL_SIZES) = FlattenSeq(seqs)
  BY DEF Parts
<1> HIDE DEF seqs, S
<1>6. Parts(AVAIL_SIZES) \in Seq(S)
  <2>1. CASE seqs = <<>>
    <3>1. FlattenSeq(seqs) = seqs
      BY <2>1 DEF FlattenSeq
    <3>2. <<>> \in Seq(S)
      OBVIOUS
    <3> QED
      BY <1>5, <2>1, <3>1, <3>2
  <2>2. CASE seqs # <<>>
    BY <1>4, <1>5, <2>2, FlattenType
  <2> QED
    BY <2>1, <2>2
<1> QED
  BY <1>6, LenProperties

\* A partition has the number of its size.
LEMMA PartNumRange ==
    ASSUME NEW p \in Managed
    PROVE  /\ PartNum(AVAIL_SIZES, p) \in Nat
           /\ PartNum(AVAIL_SIZES, p) < Len(Parts(AVAIL_SIZES))
           /\ Parts(AVAIL_SIZES)[PartNum(AVAIL_SIZES, p) + 1] = <<p.cap, p.dedup>>
<1> DEFINE parts == Parts(AVAIL_SIZES)
           i == CHOOSE i \in DOMAIN parts : parts[i] = <<p.cap, p.dedup>>
<1>1. \E j \in DOMAIN parts : parts[j] = <<p.cap, p.dedup>>
  BY PartitionsFit
<1>2. i \in DOMAIN parts /\ parts[i] = <<p.cap, p.dedup>>
  <2> HIDE DEF parts
  <2> QED
    BY <1>1
<1>3. PartNum(AVAIL_SIZES, p) = i - 1
  BY DEF PartNum
<1>4. Len(parts) \in Nat /\ DOMAIN parts = 1 .. Len(parts)
  BY PartsType
<1> HIDE DEF i, parts
<1>5. i \in 1 .. Len(parts) /\ (i - 1) + 1 = i
  BY <1>2, <1>4
<1>6. i - 1 \in Nat /\ i - 1 < Len(parts) /\ parts[(i - 1) + 1] = <<p.cap, p.dedup>>
  BY <1>2, <1>4, <1>5
<1> QED
  BY <1>3, <1>6 DEF parts

\* What a partition is named by.
LEMMA ManagedType ==
    ASSUME NEW p \in Managed
    PROVE  /\ p.node \in Reachable /\ p.node \in Nat
           /\ p.gpu \in Nat /\ p.gpu < NGPUs[p.node]
           /\ NGPUs[p.node] \in Nat /\ FirstIdx[p.node] \in Nat
           /\ p # MemThread /\ p # NoThread
<1>1. p \in [node : Reachable, gpu : Nat, cap : Nat, dedup : {0, 1}]
  BY ControlAssumption
<1>2. p.node \in Reachable /\ p.gpu \in Nat
  BY <1>1
<1>3. p.node \in 0 .. Nodes - 1
  BY <1>2, ControlAssumption DEF NodeIds
<1>4. p.node \in Nat
  BY <1>3, ControlAssumption
<1> QED
  BY <1>2, <1>4, ControlAssumption

\* The frontend's numbers are the ones the backend computes.
LEMMA NumbersAgree ==
    ASSUME NEW p \in Managed
    PROVE  Numbers[p] = <<p.gpu, PartNum(AVAIL_SIZES, p)>>
<1>1. p.node \in Nat /\ p.node \in Reachable /\ p.gpu \in Nat
  BY ManagedType
<1>2. SumBefore(p.node) \in Nat
  BY <1>1, SumBeforeType
<1>3. lookupFrontDevIDtoBackDevID(p) = p.gpu
  BY <1>1, <1>2 DEF lookupFrontDevIDtoBackDevID, DevId
<1>4. PartitionNum(p) = PartNum(AVAIL_SIZES, p)
  BY <1>1, SizesAgree DEF PartitionNum
<1> QED
  BY <1>3, <1>4 DEF Numbers

\* The backend's table turns them into the host's, and findProxy finds a
\* partition; it finds one also for the 0 of getUsedMem.
LEMMA NumbersFound ==
    ASSUME NEW p \in Managed, NEW k \in {0, PartNum(AVAIL_SIZES, p)}
    PROVE  /\ p.gpu \in DOMAIN LocalIDToHostID(p.node)
           /\ LocalIDToHostID(p.node)[p.gpu] = FirstIdx[p.node] + p.gpu
           /\ ProxyExists(p.node, FirstIdx[p.node] + p.gpu, k)
           /\ <<p.node, ShmIndex(FirstIdx[p.node] + p.gpu, k)>> \in Slots
           /\ k \in Nat /\ k < MAX_PROXY_PER_GPU
<1> DEFINE M == MAX_PROXY_PER_GPU
           d == FirstIdx[p.node] + p.gpu
           L == Len(Parts(AVAIL_SIZES))
<1>1. /\ p.node \in Reachable /\ p.gpu \in Nat /\ p.gpu < NGPUs[p.node]
      /\ NGPUs[p.node] \in Nat /\ FirstIdx[p.node] \in Nat
  BY ManagedType
<1>2. /\ L \in Nat /\ L >= 1 /\ L <= M /\ M \in Nat /\ MAX_GPU \in Nat
      /\ FirstIdx[p.node] + NGPUs[p.node] <= MAX_GPU
  BY <1>1, PartitionsFit, ControlAssumption, PartsType
<1>3. k \in Nat /\ k < L
  BY <1>2, PartNumRange
<1>4. d \in Nat /\ d + 1 <= MAX_GPU
  BY <1>1, <1>2
<1>5. d * M + k \in Nat /\ d * M + k < MAX_GPU * M
  <2> HIDE DEF d, L, M
  <2>1. PICK c \in Nat : MAX_GPU = d + 1 + c
    <3>1. MAX_GPU - (d + 1) \in Nat /\ MAX_GPU = d + 1 + (MAX_GPU - (d + 1))
      BY <1>2, <1>4
    <3> QED
      BY <3>1
  <2>2. MAX_GPU * M = d * M + M + c * M
    BY <1>2, <1>4, <2>1
  <2>3. c * M \in Nat /\ d * M \in Nat
    BY <1>2, <1>4, <2>1
  <2> QED
    BY <1>2, <1>3, <2>2, <2>3
<1>6. MAX_GPU * M \in Nat
  BY <1>2
<1>7. /\ p.gpu \in DOMAIN LocalIDToHostID(p.node)
      /\ LocalIDToHostID(p.node)[p.gpu] = d
      /\ LocalIDToHostID(p.node)[0] = FirstIdx[p.node]
  BY <1>1 DEF LocalIDToHostID
<1>8. ProxyExists(p.node, d, k)
  <2>1. d - FirstIdx[p.node] < NGPUs[p.node]
    BY <1>1
  <2>2. k \in 0 .. L - 1 /\ k < M
    BY <1>2, <1>3
  <2> QED
    BY <1>5, <1>7, <2>1, <2>2 DEF ProxyExists, ShmIndex
<1>9. d * M + k \in 0 .. MAX_GPU * M - 1
  <2> HIDE DEF d, M
  <2> QED
    BY <1>5, <1>6
<1>10. <<p.node, ShmIndex(d, k)>> \in Slots
  BY <1>1, <1>9 DEF Slots, ShmIndex
<1> QED
  BY <1>2, <1>3, <1>7, <1>8, <1>10

\* A word of the shared memory belongs to one partition (setShMem).
LEMMA ShmIndexInjective ==
    ASSUME NEW d \in Nat, NEW e \in Nat, NEW k \in Nat, NEW l \in Nat,
           k < MAX_PROXY_PER_GPU, l < MAX_PROXY_PER_GPU,
           ShmIndex(d, k) = ShmIndex(e, l)
    PROVE  d = e /\ k = l
<1> DEFINE M == MAX_PROXY_PER_GPU
<1>1. M \in Nat /\ d * M + k = e * M + l
  BY ControlAssumption DEF ShmIndex
<1> HIDE DEF M
<1>2. ASSUME NEW a \in Nat, NEW b \in Nat, NEW i \in Nat, NEW j \in Nat,
             i < M, j < M, a * M + i = b * M + j, a < b
      PROVE  FALSE
  <2>1. PICK c \in Nat : b = a + 1 + c
    <3>1. b - (a + 1) \in Nat /\ b = a + 1 + (b - (a + 1))
      BY <1>2
    <3> QED
      BY <3>1
  <2>2. b * M = a * M + M + c * M
    BY <1>1, <2>1
  <2>3. c * M \in Nat /\ a * M \in Nat
    BY <1>1, <2>1
  <2> QED
    BY <1>1, <1>2, <2>2, <2>3
<1>3. ~(d < e) /\ ~(e < d)
  BY <1>1, <1>2 DEF M
<1>4. d = e
  BY <1>3
<1>5. d * M \in Int
  BY <1>1
<1> QED
  BY <1>1, <1>4, <1>5

\* Where the partition is, which no other partition is.
LEMMA SlotOfPartition ==
    ASSUME NEW p \in Managed
    PROVE  /\ SlotOf[p] = <<p.node, ShmIndex(FirstIdx[p.node] + p.gpu,
                                             PartNum(AVAIL_SIZES, p))>>
           /\ SlotOf[p] \in Slots
           /\ NumberedSlot(p.node, Numbers[p][1], Numbers[p][2]) = SlotOf[p]
<1>1. SlotOf[p] = <<p.node, ShmIndex(FirstIdx[p.node] + p.gpu,
                                     PartNum(AVAIL_SIZES, p))>>
  BY DEF SlotOf
<1>2. SlotOf[p] \in Slots
  BY <1>1, NumbersFound
<1>3. Numbers[p] = <<p.gpu, PartNum(AVAIL_SIZES, p)>>
  BY NumbersAgree
<1>4. LocalIDToHostID(p.node)[p.gpu] = FirstIdx[p.node] + p.gpu
  BY NumbersFound
<1> QED
  BY <1>1, <1>2, <1>3, <1>4 DEF NumberedSlot

\* Two partitions are in two places.
LEMMA SlotsDistinct ==
    ASSUME NEW p \in Managed, NEW q \in Managed, SlotOf[p] = SlotOf[q]
    PROVE  p = q
<1> DEFINE i == PartNum(AVAIL_SIZES, p)
           j == PartNum(AVAIL_SIZES, q)
<1>1. /\ SlotOf[p] = <<p.node, ShmIndex(FirstIdx[p.node] + p.gpu, i)>>
      /\ SlotOf[q] = <<q.node, ShmIndex(FirstIdx[q.node] + q.gpu, j)>>
  BY SlotOfPartition
<1>2. /\ p.node = q.node
      /\ ShmIndex(FirstIdx[p.node] + p.gpu, i) = ShmIndex(FirstIdx[p.node] + q.gpu, j)
  <2> PICK x, y : /\ x = ShmIndex(FirstIdx[p.node] + p.gpu, i)
                  /\ y = ShmIndex(FirstIdx[q.node] + q.gpu, j)
    OBVIOUS
  <2>1. <<p.node, x>> = <<q.node, y>>
    BY <1>1
  <2>2. p.node = q.node /\ x = y
    BY <2>1
  <2> QED
    BY <2>2
<1>3. /\ i \in Nat /\ i < MAX_PROXY_PER_GPU /\ j \in Nat /\ j < MAX_PROXY_PER_GPU
      /\ p.gpu \in Nat /\ q.gpu \in Nat /\ FirstIdx[p.node] \in Nat
  <2>1. i \in Nat /\ i < MAX_PROXY_PER_GPU
    BY NumbersFound
  <2>2. j \in Nat /\ j < MAX_PROXY_PER_GPU
    BY NumbersFound
  <2> QED
    BY <2>1, <2>2, ManagedType
<1> HIDE DEF i, j
<1>4. FirstIdx[p.node] + p.gpu = FirstIdx[p.node] + q.gpu /\ i = j
  <2>1. FirstIdx[p.node] + p.gpu \in Nat /\ FirstIdx[p.node] + q.gpu \in Nat
    BY <1>3
  <2> QED
    BY <1>2, <1>3, <2>1, ShmIndexInjective
<1>5. p.gpu = q.gpu
  BY <1>3, <1>4
<1>6. <<p.cap, p.dedup>> = <<q.cap, q.dedup>>
  BY <1>4, PartNumRange DEF i, j
<1>7. /\ p \in [node : Reachable, gpu : Nat, cap : Nat, dedup : {0, 1}]
      /\ q \in [node : Reachable, gpu : Nat, cap : Nat, dedup : {0, 1}]
  BY ControlAssumption
<1> QED
  BY <1>2, <1>5, <1>6, <1>7

-----------------------------------------------------------------------------
(***************************************************************************)
(* A call and its message.                                                 *)
(***************************************************************************)

\* receiveControl reads from the first word how many follow: it finds the
\* three words of every message, and leaves nothing of it.
LEMMA MessageShape ==
    ASSUME NEW cmd, NEW d, NEW k, NEW m, m = Message(cmd, d, k)
    PROVE  /\ m # <<>> /\ Head(m) \in Nat /\ Head(m) >= 3 /\ Len(m) > Head(m)
           /\ SubSeq(m, 2, Head(m) + 1)[1] = cmd
           /\ SubSeq(m, 2, Head(m) + 1)[2] = d
           /\ SubSeq(m, 2, Head(m) + 1)[3] = k
           /\ SubSeq(m, Head(m) + 2, Len(m)) = <<>>
           /\ <<>> \o m = m
<1> PICK A : A = Args(cmd)
  OBVIOUS
<1>1. A \in {<<0, 0>>, <<0>>, <<Script!LOADING>>, <<>>}
  BY DEF Args
<1>2. Len(A) \in Nat
  BY <1>1
<1> DEFINE c == 3 + Len(A)
           h == <<c, cmd, d, k>>
           S == {c, cmd, d, k, 0, Script!LOADING}
<1>3. A \in Seq(S) /\ h \in Seq(S) /\ Len(h) = 4
  <2>1. h \in Seq(S) /\ Len(h) = 4
    OBVIOUS
  <2>2. 0 \in S /\ Script!LOADING \in S
    OBVIOUS
  <2> HIDE DEF S
  <2>3. /\ <<0, 0>> \in Seq(S) /\ <<0>> \in Seq(S)
        /\ <<Script!LOADING>> \in Seq(S) /\ <<>> \in Seq(S)
    BY <2>2
  <2> QED
    BY <1>1, <2>1, <2>3
<1>4. h[1] = c /\ h[2] = cmd /\ h[3] = d /\ h[4] = k
  OBVIOUS
<1>5. m = h \o A
  BY DEF Message
<1>6. c \in Nat /\ c >= 3 /\ Len(h) + Len(A) = c + 1
  BY <1>2, <1>3
<1> HIDE DEF c, h, S
<1>7. /\ m \in Seq(S) /\ Len(m) = c + 1
      /\ \A i \in 1 .. c + 1 : m[i] = IF i <= 4 THEN h[i] ELSE A[i - 4]
  <2>1. /\ h \o A \in Seq(S) /\ Len(h \o A) = Len(h) + Len(A)
        /\ \A i \in 1 .. Len(h) + Len(A) :
              (h \o A)[i] = IF i <= Len(h) THEN h[i] ELSE A[i - Len(h)]
    BY <1>3, ConcatProperties
  <2> QED
    BY <1>3, <1>5, <1>6, <2>1
<1>8. m[1] = c /\ m[2] = cmd /\ m[3] = d /\ m[4] = k
  <2>1. 1 \in 1 .. c + 1 /\ 2 \in 1 .. c + 1 /\ 3 \in 1 .. c + 1 /\ 4 \in 1 .. c + 1
    BY <1>6
  <2> QED
    BY <1>4, <1>7, <2>1
<1>9. m # <<>> /\ Head(m) = c
  BY <1>6, <1>7, <1>8
<1>10. /\ SubSeq(m, 2, c + 1)[1] = cmd /\ SubSeq(m, 2, c + 1)[2] = d
       /\ SubSeq(m, 2, c + 1)[3] = k
  <2>1. \A i \in 2 .. c + 1 : m[i] \in S
    BY <1>6, <1>7
  <2>2. \A i \in 1 .. (c + 1) - 2 + 1 : SubSeq(m, 2, c + 1)[i] = m[2 + i - 1]
    BY <1>6, <2>1, SubSeqProperties
  <2>3. /\ 1 \in 1 .. (c + 1) - 2 + 1 /\ 2 \in 1 .. (c + 1) - 2 + 1
        /\ 3 \in 1 .. (c + 1) - 2 + 1
        /\ 2 + 1 - 1 = 2 /\ 2 + 2 - 1 = 3 /\ 2 + 3 - 1 = 4
    BY <1>6
  <2> PICK s : s = SubSeq(m, 2, c + 1)
    OBVIOUS
  <2>4. s[1] = m[2 + 1 - 1] /\ s[2] = m[2 + 2 - 1] /\ s[3] = m[2 + 3 - 1]
    BY <2>2, <2>3
  <2> QED
    BY <1>8, <2>3, <2>4
<1>11. SubSeq(m, c + 2, Len(m)) = <<>>
  BY <1>6, <1>7, SubSeqEmpty
<1>12. <<>> \o m = m
  BY <1>7, ConcatEmptySeq
<1> QED
  BY <1>6, <1>7, <1>9, <1>10, <1>11, <1>12

\* The call under way is about a partition that exists.
LEMMA TheCall ==
    ASSUME Typed, mtx # NoThread
    PROVE  /\ Subject \in Managed /\ Subject.node \in Reachable
           /\ Peer = Subject.node
           /\ Part \in {0, PartNum(AVAIL_SIZES, Subject)}
           /\ mtx # MemThread => mtx = Subject
<1>1. Subject \in Managed /\ (mtx # MemThread => mtx = Subject)
  BY DEF Typed, Subject
<1>2. Subject.node \in Reachable
  BY <1>1, ManagedType
<1> QED
  BY <1>1, <1>2 DEF Subject, Peer, Part

\* Who is not quiet is asked by the holder of the mutex.
LEMMA OnlyThePeer ==
    ASSUME Typed, CallInv, NEW n \in Reachable, ~Quiet(n)
    PROVE  /\ mtx # NoThread /\ n = Subject.node /\ stage = "reply"
           /\ OnSocket(n) \/ Executing(n) \/ Answered(n)
<1>1. mtx # NoThread
  BY DEF CallInv
<1>2. n = Subject.node
  BY <1>1 DEF CallInv
<1>3. stage = "reply"
  BY <1>1, <1>2 DEF CallInv
<1> QED
  BY <1>1, <1>2, <1>3 DEF CallInv

\* The slot that the control thread works on is that of the call's partition.
LEMMA TargetIsSlot ==
    ASSUME Typed, mtx # NoThread, mtx # MemThread, Executing(mtx.node)
    PROVE  Target(mtx.node) = SlotOf[mtx] /\ Cmd(mtx.node) = CmdAt(at[mtx])
<1>1. mtx \in Managed
  BY DEF Typed
<1>2. bbuf[mtx.node] = <<CmdAt(at[mtx]), FirstIdx[mtx.node] + mtx.gpu,
                         PartNum(AVAIL_SIZES, mtx)>>
  BY DEF Executing, TheOrder, Command, Subject, Part
<1>3. Cmd(mtx.node) = CmdAt(at[mtx])
  BY <1>2 DEF Cmd
<1>4. Target(mtx.node) = <<mtx.node, ShmIndex(FirstIdx[mtx.node] + mtx.gpu,
                                             PartNum(AVAIL_SIZES, mtx))>>
  BY <1>2 DEF Target
<1> QED
  BY <1>1, <1>3, <1>4, SlotOfPartition

\* The process of p is awaited by the control thread exactly if it is the
\* call of p that waits.
LEMMA AwaitedIs ==
    ASSUME Typed, CallInv, NEW p \in Managed
    PROVE  Awaited(SlotOf[p]) <=> Booting(p)
<1>1. p.node \in Reachable /\ SlotOf[p][1] = p.node
  BY ManagedType, SlotOfPartition
<1>2. ASSUME bpc[p.node] = "boot"
      PROVE  /\ mtx # NoThread /\ mtx # MemThread /\ mtx \in Managed
             /\ Target(p.node) = SlotOf[mtx] /\ p.node = mtx.node
  <2>1. ~Quiet(p.node)
    BY <1>2 DEF Quiet
  <2>2. mtx # NoThread /\ p.node = Subject.node /\ Executing(p.node)
    BY <1>1, <1>2, <2>1, OnlyThePeer DEF OnSocket, Answered
  <2>3. Command = "BACKEND_START_PROXY"
    BY <1>2, <2>2 DEF Executing
  <2>4. mtx # MemThread
    BY <2>3 DEF Command
  <2>5. mtx = Subject /\ mtx \in Managed
    BY <2>2, <2>4, TheCall
  <2> QED
    BY <2>2, <2>4, <2>5, TargetIsSlot
<1>3. Awaited(SlotOf[p]) => Booting(p)
  <2> SUFFICES ASSUME Awaited(SlotOf[p]) PROVE Booting(p)
    OBVIOUS
  <2>1. bpc[p.node] = "boot" /\ Target(p.node) = SlotOf[p]
    BY <1>1 DEF Awaited
  <2>2. mtx \in Managed /\ SlotOf[mtx] = SlotOf[p]
    BY <1>2, <2>1
  <2>3. mtx = p
    BY <2>2, SlotsDistinct
  <2> QED
    BY <2>1, <2>3 DEF Booting
<1>4. Booting(p) => Awaited(SlotOf[p])
  BY <1>1, <1>2 DEF Booting, Awaited
<1> QED
  BY <1>3, <1>4

-----------------------------------------------------------------------------
(***************************************************************************)
(* Steps that the promise does not see.                                    *)
(***************************************************************************)

\* No thread's call returns, and no partition changes.
Unseen ==
    /\ \A p \in Managed : AtNow(p)' = AtNow(p) /\ LoadedNow(p)' = LoadedNow(p)
    /\ UNCHANGED partVars

\* Such a step keeps the life of the processes, if it does not end a wait.
LEMMA LifeFrame ==
    ASSUME LifeInv, Unseen, \A p \in Managed : Booting(p)' <=> Booting(p)
    PROVE  LifeInv'
<1> SUFFICES ASSUME NEW p \in Managed
             PROVE  /\ word'[SlotOf[p]] = Script!COLD /\ spawned'[SlotOf[p]]
                         => Booting(p)'
                    /\ AtNow(p)' = "start" /\ ~Booting(p)'
                         => word'[SlotOf[p]] = Script!COLD /\ ~spawned'[SlotOf[p]]
  BY DEF LifeInv
<1>1. UNCHANGED <<word, spawned>> /\ AtNow(p)' = AtNow(p) /\ (Booting(p)' <=> Booting(p))
  BY DEF Unseen, partVars
<1> QED
  BY <1>1 DEF LifeInv

\* A step that leaves the calls alone.
LEMMA CallFrame ==
    ASSUME Typed, CallInv, UNCHANGED <<callVars, req, rep, threadVars>>,
           mtx \in Managed => at'[mtx] = at[mtx] /\ loaded'[mtx] = loaded[mtx]
    PROVE  /\ CallInv'
           /\ \A p \in Managed : Booting(p)' <=> Booting(p)
           /\ \A p \in Managed : at'[p] = at[p] /\ loaded'[p] = loaded[p]
                => AtNow(p)' = AtNow(p) /\ LoadedNow(p)' = LoadedNow(p)
<1>1. UNCHANGED <<mtx, stage, todo, asked, req, rep, bpc, bbuf>>
  BY DEF callVars, threadVars
<1>2. mtx # NoThread => Subject' = Subject /\ Command' = Command /\ Part' = Part
  BY <1>1 DEF Subject, Command, Part, Typed
<1>3. mtx # NoThread => TheMessage' = TheMessage /\ TheOrder' = TheOrder
  BY <1>2 DEF TheMessage, TheOrder
<1>4. \A n \in Reachable : Quiet(n)' <=> Quiet(n)
  BY <1>1 DEF Quiet
<1>5. mtx # NoThread => \A n \in Reachable : /\ OnSocket(n)' <=> OnSocket(n)
                                             /\ Executing(n)' <=> Executing(n)
                                             /\ Answered(n)' <=> Answered(n)
  BY <1>1, <1>2, <1>3 DEF OnSocket, Executing, Answered
<1>6. CallInv'
  <2>1. CASE mtx = NoThread
    BY <1>1, <1>4, <2>1 DEF CallInv
  <2>2. CASE mtx # NoThread
    <3>1. Subject.node \in Reachable /\ (mtx # MemThread => mtx \in Managed)
      BY <2>2, TheCall
    <3>2. mtx # MemThread => at'[mtx] = at[mtx]
      BY <3>1
    <3> QED
      BY <1>1, <1>2, <1>3, <1>4, <1>5, <2>2, <3>1, <3>2 DEF CallInv
  <2> QED
    BY <2>1, <2>2
<1>7. \A p \in Managed : Booting(p)' <=> Booting(p)
  BY <1>1 DEF Booting
<1>8. \A p \in Managed : at'[p] = at[p] /\ loaded'[p] = loaded[p]
        => AtNow(p)' = AtNow(p) /\ LoadedNow(p)' = LoadedNow(p)
  BY <1>1 DEF AtNow, LoadedNow, Executed, Returned
<1> QED
  BY <1>6, <1>7, <1>8

\* A step that leaves the data channels alone.
LEMMA DataFrame ==
    ASSUME DataInv, UNCHANGED dataVars
    PROVE  DataInv'
  BY DEF DataInv, dataVars

\* A thread takes the mutex, for a call or to ask about memory: the message
\* is that of its partition.
LEMMA LockStep ==
    ASSUME IInv, NEW p \in Managed, Lock(p) \/ LockForMem(p)
    PROVE  IInv' /\ Unseen
<1>1. Typed /\ CallInv /\ DataInv /\ LifeInv
  BY DEF IInv
<1>2. /\ mtx = NoThread /\ stage' = "write"
      /\ UNCHANGED <<at, loaded, isConnectedtoBackend, req, rep, threadVars,
                     partVars, dataVars>>
      /\ \/ /\ mtx' = p /\ at[p] \in Script!CallAt
            /\ todo' = Message(CmdAt(at[p]), Numbers[p][1], Numbers[p][2])
         \/ /\ mtx' = MemThread /\ asked' = p
            /\ todo' = Message("BACKEND_GET_MEM", Numbers[p][1], 0)
  BY DEF Lock, LockForMem
<1>3. p # MemThread /\ p # NoThread /\ MemThread # NoThread /\ MemThread \notin Managed
  BY ManagedType, ControlAssumption
<1>4. Typed'
  BY <1>1, <1>2, <1>3 DEF Typed, threadVars, partVars, dataVars
<1>5. Numbers[p][1] = p.gpu /\ Numbers[p][2] = PartNum(AVAIL_SIZES, p)
  BY NumbersAgree
<1>6. mtx' # NoThread /\ Subject' = p /\ todo' = TheMessage'
  BY <1>2, <1>3, <1>5 DEF Subject, Command, Part, TheMessage
<1>7. \A n \in Reachable : Quiet(n)'
  BY <1>1, <1>2 DEF CallInv, Quiet, threadVars
<1>8. p.node \in Reachable
  BY ManagedType
<1>9. CallInv'
  <2>1. mtx' # MemThread => at'[mtx'] \in Script!CallAt
    BY <1>2
  <2> QED
    BY <1>2, <1>6, <1>7, <1>8, <2>1 DEF CallInv
<1>10. \A q \in Managed : ~Executed(q) /\ ~Executed(q)' /\ q # mtx
  BY <1>2, ManagedType DEF Executed
<1>11. Unseen
  BY <1>2, <1>10 DEF Unseen, AtNow, LoadedNow
<1>12. \A q \in Managed : ~Booting(q) /\ ~Booting(q)'
  <2> TAKE q \in Managed
  <2>1. bpc'[q.node] = "count"
    BY <1>7, ManagedType DEF Quiet
  <2> QED
    BY <1>10, <2>1 DEF Booting
<1>13. LifeInv'
  BY <1>1, <1>11, <1>12, LifeFrame
<1>14. DataInv'
  BY <1>1, <1>2, DataFrame
<1> QED
  BY <1>4, <1>9, <1>11, <1>13, <1>14 DEF IInv

\* The message is written on an empty socket.
LEMMA WriteStep ==
    ASSUME IInv, Write
    PROVE  IInv' /\ Unseen
<1>1. Typed /\ CallInv /\ DataInv /\ LifeInv
  BY DEF IInv
<1>2. /\ mtx # NoThread /\ stage = "write" /\ stage' = "reply"
      /\ req' = [req EXCEPT ![Peer] = @ \o todo]
      /\ UNCHANGED <<at, loaded, mtx, asked, isConnectedtoBackend, rep, bpc, bbuf>>
      /\ UNCHANGED partVars /\ UNCHANGED dataVars
  BY DEF Write, threadVars
<1>3. Subject.node \in Reachable /\ Peer = Subject.node
  BY <1>1, <1>2, TheCall
<1>4. Quiet(Subject.node) /\ todo = TheMessage
  BY <1>1, <1>2 DEF CallInv
<1>5. Subject' = Subject /\ TheMessage' = TheMessage
  BY <1>2 DEF Subject, Command, Part, TheMessage
<1>6. <<>> \o TheMessage = TheMessage
  BY MessageShape DEF TheMessage
<1>7. req'[Subject.node] = TheMessage
  BY <1>1, <1>2, <1>3, <1>4, <1>6 DEF Typed, Quiet
<1>8. OnSocket(Subject.node)'
  BY <1>2, <1>4, <1>5, <1>7 DEF OnSocket, Quiet
<1>9. \A n \in Reachable \ {Subject.node} : Quiet(n)'
  BY <1>1, <1>2, <1>3 DEF CallInv, Quiet, Typed
<1>10. Typed'
  BY <1>1, <1>2 DEF Typed, partVars, dataVars
<1>11. CallInv'
  BY <1>1, <1>2, <1>5, <1>8, <1>9 DEF CallInv
<1>12. \A q \in Managed : ~Executed(q) /\ ~Executed(q)'
  <2> TAKE q \in Managed
  <2>1. ~Executed(q)
    BY <1>2 DEF Executed
  <2>2. q = mtx => rep'[q.node] = <<>>
    BY <1>2, <1>4, ManagedType DEF Quiet, Subject
  <2>3. ~Executed(q)'
    BY <1>2, <2>2 DEF Executed
  <2> QED
    BY <2>1, <2>3
<1>13. Unseen
  BY <1>2, <1>12 DEF Unseen, AtNow, LoadedNow
<1>14. \A q \in Managed : Booting(q)' <=> Booting(q)
  BY <1>2 DEF Booting
<1>15. LifeInv'
  BY <1>1, <1>13, <1>14, LifeFrame
<1>16. DataInv'
  BY <1>1, <1>2, DataFrame
<1> QED
  BY <1>10, <1>11, <1>13, <1>15, <1>16 DEF IInv

\* What a thread goes on with after a call that is not a look at the state
\* does not depend on the answer.
LEMMA AnswerUnused ==
    ASSUME NEW pos \in Script!CallAt, pos \notin Script!Waiting \cup {"check"},
           NEW x, NEW y, NEW n
    PROVE  Script!AfterCall(pos, x, n) = Script!AfterCall(pos, y, n)
  BY DEF Script!AfterCall

\* The places a call leads to.
LEMMA AfterCallType ==
    ASSUME NEW pos \in Script!CallAt, NEW x, NEW n
    PROVE  Script!AfterCall(pos, x, n) \in Script!CallAt \cup Script!DecideAt
<1>1. Script!Waiting = {"boot", "loading", "unloading", "flush", "cold"}
  BY DEF Script!Waiting, Script!WaitFor
<1>2. Script!GoOn(pos, n) \in Script!CallAt \cup Script!DecideAt
        \/ pos = "check"
  BY DEF Script!GoOn, Script!CallAt, Script!DecideAt
<1>3. "start" \in Script!CallAt /\ "loads" \in Script!DecideAt
  BY DEF Script!CallAt, Script!DecideAt
<1> QED
  BY <1>1, <1>2, <1>3 DEF Script!AfterCall

\* The number of models after a call is a number.
LEMMA LoadedAfterType ==
    ASSUME NEW pos, NEW n \in Int
    PROVE  Script!LoadedAfter(pos, n) \in Int
  BY DEF Script!LoadedAfter

\* A thread leaves with the mutex, where the promise had it already.
LEMMA FinishStep ==
    ASSUME IInv, NEW v, mtx \in Managed, Finish(mtx, v), Executed(mtx),
           AtNow(mtx) = Script!AfterCall(at[mtx], v, loaded[mtx]),
           UNCHANGED <<asked, threadVars, partVars>>,
           \A n \in Reachable : Quiet(n)'
    PROVE  /\ CallInv' /\ LifeInv' /\ Unseen
           /\ at' \in [Managed -> Script!CallAt \cup Script!DecideAt]
           /\ loaded' \in [Managed -> Int]
           /\ mtx' \in Managed \cup {MemThread, NoThread} /\ mtx' # MemThread
<1>1. Typed /\ CallInv /\ LifeInv
  BY DEF IInv
<1>2. /\ mtx' = NoThread /\ stage' = "none"
      /\ at' = [at EXCEPT ![mtx] = Script!AfterCall(@, v, loaded[mtx])]
      /\ loaded' = [loaded EXCEPT ![mtx] = Script!LoadedAfter(at[mtx], @)]
  BY DEF Finish
<1>3. mtx # NoThread /\ mtx # MemThread /\ MemThread # NoThread
  BY ManagedType, ControlAssumption
<1>4. at[mtx] \in Script!CallAt /\ loaded[mtx] \in Int
  BY <1>1, <1>3 DEF CallInv, Typed
<1>5. /\ Script!AfterCall(at[mtx], v, loaded[mtx]) \in Script!CallAt \cup Script!DecideAt
      /\ Script!LoadedAfter(at[mtx], loaded[mtx]) \in Int
  BY <1>4, AfterCallType, LoadedAfterType
<1>6. /\ at' \in [Managed -> Script!CallAt \cup Script!DecideAt]
      /\ loaded' \in [Managed -> Int]
  BY <1>1, <1>2, <1>5 DEF Typed
<1>7. CallInv'
  BY <1>2 DEF CallInv
<1>8. ASSUME NEW p \in Managed
      PROVE  AtNow(p)' = AtNow(p) /\ LoadedNow(p)' = LoadedNow(p)
  <2>1. ~Executed(p)'
    BY <1>2, ManagedType DEF Executed
  <2>2. AtNow(p)' = at'[p] /\ LoadedNow(p)' = loaded'[p]
    BY <2>1 DEF AtNow, LoadedNow
  <2>3. CASE p = mtx
    BY <1>1, <1>2, <2>2, <2>3 DEF Typed, LoadedNow
  <2>4. CASE p # mtx
    BY <1>1, <1>2, <2>2, <2>4 DEF Typed, AtNow, LoadedNow, Executed
  <2> QED
    BY <2>3, <2>4
<1>9. Unseen
  BY <1>8 DEF Unseen
<1>10. \A p \in Managed : Booting(p)' <=> Booting(p)
  <2> TAKE p \in Managed
  <2>1. bpc[p.node] = "count"
    BY ManagedType DEF Quiet, threadVars
  <2> QED
    BY <1>2, <2>1, ManagedType DEF Booting
<1>11. LifeInv'
  BY <1>1, <1>9, <1>10, LifeFrame
<1> QED
  BY <1>2, <1>3, <1>6, <1>7, <1>9, <1>11

\* A thread that opens or has opened the data channels of its partition has
\* connected it.
LEMMA OpenedIs ==
    ASSUME IInv, mtx # NoThread, stage \in {"open", "ack"}
    PROVE  /\ mtx \in Managed /\ at[mtx] = "connect" /\ Executed(mtx)
           /\ AtNow(mtx) = "loads" /\ \A n \in Reachable : Quiet(n)
<1>1. Typed /\ CallInv
  BY DEF IInv
<1>2. mtx # MemThread /\ at[mtx] = "connect" /\ mtx \in Managed
  BY <1>1 DEF CallInv, Typed
<1>3. Executed(mtx)
  BY DEF Executed
<1>4. \A v : Script!AfterCall("connect", v, loaded[mtx]) = "loads"
  BY DEF Script!AfterCall, Script!GoOn, Script!Waiting, Script!WaitFor
<1>5. \A n \in Reachable : Quiet(n)
  BY <1>1 DEF CallInv
<1> QED
  BY <1>2, <1>3, <1>4, <1>5 DEF AtNow

\* The call returns, or goes on to open the data channels.
LEMMA ReadReplyStep ==
    ASSUME IInv, ReadReply
    PROVE  IInv' /\ Unseen
<1> DEFINE n == Subject.node
<1>1. Typed /\ CallInv /\ DataInv /\ LifeInv
  BY DEF IInv
<1>2. /\ mtx # NoThread /\ stage = "reply" /\ rep[Peer] # <<>>
      /\ rep' = [rep EXCEPT ![Peer] = Tail(@)]
      /\ UNCHANGED <<todo, isConnectedtoBackend, req, bpc, bbuf>>
      /\ UNCHANGED partVars /\ UNCHANGED dataVars
  BY DEF ReadReply, threadVars
<1>3. Subject \in Managed /\ n \in Reachable /\ Peer = n /\ (mtx # MemThread => mtx = Subject)
  BY <1>1, <1>2, TheCall
<1>4. Answered(n)
  BY <1>1, <1>2, <1>3 DEF CallInv, OnSocket, Executing
<1>5. rep'[n] = <<>>
  <2>1. PICK v : rep[n] = <<v>>
    BY <1>4 DEF Answered
  <2>2. Tail(<<v>>) = <<>>
    OBVIOUS
  <2> QED
    BY <1>1, <1>2, <1>3, <2>1, <2>2 DEF Typed
<1>6. \A m \in Reachable : Quiet(m)'
  <2> TAKE m \in Reachable
  <2>1. CASE m = n
    BY <1>2, <1>4, <1>5, <2>1 DEF Quiet, Answered
  <2>2. CASE m # n
    BY <1>1, <1>2, <1>3, <2>2 DEF CallInv, Quiet, Typed
  <2> QED
    BY <2>1, <2>2
<1>7. DOMAIN rep' = Reachable
  BY <1>1, <1>2 DEF Typed
<1>8. DataInv'
  BY <1>1, <1>2, DataFrame
<1>9. \A q \in Managed : ~Booting(q) /\ ~Booting(q)'
  <2> TAKE q \in Managed
  <2>1. bpc'[q.node] = "count"
    BY <1>6, ManagedType DEF Quiet
  <2> QED
    BY <1>2, <2>1 DEF Booting
<1>10. CASE mtx = MemThread
  <2>1. /\ mtx' = NoThread /\ stage' = "none" /\ asked' = NoThread
        /\ UNCHANGED <<at, loaded>>
    BY <1>10 DEF ReadReply
  <2>2. MemThread # NoThread
    BY ControlAssumption
  <2>3. Typed'
    BY <1>1, <1>2, <1>7, <2>1, <2>2 DEF Typed, partVars, dataVars
  <2>4. CallInv'
    BY <1>6, <2>1 DEF CallInv
  <2>5. \A q \in Managed : ~Executed(q) /\ ~Executed(q)'
    BY <1>10, <2>1, ManagedType DEF Executed
  <2>6. Unseen
    BY <1>2, <2>1, <2>5 DEF Unseen, AtNow, LoadedNow
  <2>7. LifeInv'
    BY <1>1, <1>9, <2>6, LifeFrame
  <2> QED
    BY <1>8, <2>3, <2>4, <2>6, <2>7 DEF IInv
<1>11. CASE mtx # MemThread
  <2>1. mtx \in Managed /\ mtx.node = n /\ at[mtx] \in Script!CallAt
    BY <1>1, <1>2, <1>3, <1>11 DEF CallInv
  <2>2. Executed(mtx) /\ Returned(mtx) = Head(rep[n])
    BY <1>2, <1>3, <2>1 DEF Executed, Returned
  <2>3. CASE at[mtx] = "connect" /\ ~isConnectedtoBackend[mtx]
    <3>1. stage' = "open" /\ UNCHANGED <<at, loaded, mtx, asked>>
      BY <1>11, <2>3 DEF ReadReply
    <3>2. Typed'
      BY <1>1, <1>2, <1>7, <3>1 DEF Typed, partVars, dataVars
    <3>3. Subject' = Subject
      BY <3>1 DEF Subject
    <3>4. CallInv'
      BY <1>2, <1>3, <1>6, <1>11, <2>1, <2>3, <3>1, <3>3 DEF CallInv
    <3>5. ASSUME NEW q \in Managed
          PROVE  AtNow(q)' = AtNow(q) /\ LoadedNow(q)' = LoadedNow(q)
      <4>1. CASE q # mtx
        BY <3>1, <4>1 DEF AtNow, LoadedNow, Executed
      <4>2. CASE q = mtx
        <5>1. Executed(q) /\ Executed(q)'
          BY <2>2, <3>1, <4>2 DEF Executed
        <5>2. \A v : Script!AfterCall("connect", v, loaded[q]) = "loads"
          BY DEF Script!AfterCall, Script!GoOn, Script!Waiting, Script!WaitFor
        <5> QED
          BY <2>3, <3>1, <4>2, <5>1, <5>2 DEF AtNow, LoadedNow
      <4> QED
        BY <4>1, <4>2
    <3>6. Unseen
      BY <1>2, <3>5 DEF Unseen
    <3>7. LifeInv'
      BY <1>1, <1>9, <3>6, LifeFrame
    <3> QED
      BY <1>8, <3>2, <3>4, <3>6, <3>7 DEF IInv
  <2>4. CASE ~(at[mtx] = "connect" /\ ~isConnectedtoBackend[mtx])
    <3>1. Finish(mtx, Head(rep[Peer])) /\ UNCHANGED asked
      BY <1>11, <2>4 DEF ReadReply
    <3>2. AtNow(mtx) = Script!AfterCall(at[mtx], Head(rep[Peer]), loaded[mtx])
      BY <1>3, <2>2 DEF AtNow
    <3>3. UNCHANGED <<asked, threadVars, partVars>>
      BY <1>2, <3>1 DEF threadVars
    <3> PICK v : v = Head(rep[Peer])
      OBVIOUS
    <3>4. Finish(mtx, v) /\ AtNow(mtx) = Script!AfterCall(at[mtx], v, loaded[mtx])
      BY <3>1, <3>2
    <3>5. /\ CallInv' /\ LifeInv' /\ Unseen
          /\ at' \in [Managed -> Script!CallAt \cup Script!DecideAt]
          /\ loaded' \in [Managed -> Int]
          /\ mtx' \in Managed \cup {MemThread, NoThread} /\ mtx' # MemThread
      BY <1>6, <2>1, <2>2, <3>3, <3>4, FinishStep
    <3>6. Typed'
      BY <1>1, <1>2, <1>7, <3>5 DEF Typed, partVars, dataVars
    <3> QED
      BY <1>8, <3>5, <3>6 DEF IInv
  <2> QED
    BY <2>3, <2>4
<1> QED
  BY <1>10, <1>11

\* The input channel is opened.
LEMMA OpenInStep ==
    ASSUME IInv, OpenIn
    PROVE  IInv' /\ Unseen
<1>1. Typed /\ CallInv /\ DataInv /\ LifeInv
  BY DEF IInv
<1>2. /\ mtx # NoThread /\ stage = "open" /\ stage' = "ack"
      /\ inChan' = [inChan EXCEPT ![mtx] = "opened"]
      /\ UNCHANGED <<at, loaded, mtx, todo, asked, isConnectedtoBackend, req,
                     rep, bpc, bbuf, outChan, hasQueue>>
      /\ UNCHANGED partVars
  BY DEF OpenIn, threadVars
<1>3. mtx \in Managed /\ at[mtx] = "connect" /\ \A n \in Reachable : Quiet(n)
  BY <1>2, OpenedIs
<1>4. mtx # MemThread /\ mtx.node \in Reachable
  BY <1>3, ManagedType
<1>5. Typed'
  BY <1>1, <1>2 DEF Typed, partVars
<1>6. \A n \in Reachable : Quiet(n)'
  BY <1>2, <1>3 DEF Quiet
<1>7. CallInv'
  <2>1. "connect" \in Script!CallAt
    BY DEF Script!CallAt
  <2>2. Subject' = mtx
    BY <1>2, <1>4 DEF Subject
  <2> QED
    BY <1>2, <1>3, <1>4, <1>6, <2>1, <2>2 DEF CallInv
<1>8. DataInv'
  BY <1>1, <1>2 DEF DataInv, Typed
<1>9. Unseen
  BY <1>2 DEF Unseen, AtNow, LoadedNow, Executed, Returned
<1>10. \A q \in Managed : Booting(q)' <=> Booting(q)
  BY <1>2 DEF Booting
<1>11. LifeInv'
  BY <1>1, <1>9, <1>10, LifeFrame
<1> QED
  BY <1>5, <1>7, <1>8, <1>9, <1>11 DEF IInv

\* The input channel is acknowledged, so the queue is there when the output
\* channel is opened, and connectProxy returns.
LEMMA OpenOutStep ==
    ASSUME IInv, OpenOut
    PROVE  IInv' /\ Unseen
<1>1. Typed /\ CallInv /\ DataInv /\ LifeInv
  BY DEF IInv
<1>2. /\ mtx # NoThread /\ stage = "ack" /\ inChan[mtx] = "acked"
      /\ outChan' = [outChan EXCEPT ![mtx] = "opened"]
      /\ isConnectedtoBackend' = [isConnectedtoBackend EXCEPT ![mtx] = TRUE]
      /\ Finish(mtx, Script!LOADING)
      /\ UNCHANGED <<todo, asked, req, rep, bpc, bbuf, inChan, hasQueue>>
      /\ UNCHANGED partVars
  BY DEF OpenOut, threadVars
<1>3. /\ mtx \in Managed /\ at[mtx] = "connect" /\ Executed(mtx)
      /\ AtNow(mtx) = "loads" /\ \A n \in Reachable : Quiet(n)
  BY <1>2, OpenedIs
<1>4. \A v : Script!AfterCall("connect", v, loaded[mtx]) = "loads"
  BY DEF Script!AfterCall, Script!GoOn, Script!Waiting, Script!WaitFor
<1>5. \A n \in Reachable : Quiet(n)'
  BY <1>2, <1>3 DEF Quiet
<1>6. UNCHANGED <<asked, threadVars, partVars>>
  BY <1>2 DEF threadVars
<1>7. AtNow(mtx) = Script!AfterCall(at[mtx], Script!LOADING, loaded[mtx])
  BY <1>3, <1>4
<1> PICK v : v = Script!LOADING
  OBVIOUS
<1>8. /\ CallInv' /\ LifeInv' /\ Unseen
      /\ at' \in [Managed -> Script!CallAt \cup Script!DecideAt]
      /\ loaded' \in [Managed -> Int]
      /\ mtx' \in Managed \cup {MemThread, NoThread} /\ mtx' # MemThread
  <2>1. Finish(mtx, v) /\ AtNow(mtx) = Script!AfterCall(at[mtx], v, loaded[mtx])
    BY <1>2, <1>7
  <2> QED
    BY <1>3, <1>5, <1>6, <2>1, FinishStep
<1>9. Typed'
  BY <1>1, <1>2, <1>8 DEF Typed, partVars
<1>10. DataInv'
  BY <1>1, <1>2, <1>3 DEF DataInv, Typed
<1> QED
  BY <1>8, <1>9, <1>10 DEF IInv

-----------------------------------------------------------------------------
(***************************************************************************)
(* The control thread reads and answers, the threads of the data channels  *)
(* set them up, and a thread decides.                                      *)
(***************************************************************************)

\* The control thread that works on a command works on the call under way,
\* and on its partition.
LEMMA WhoExecutes ==
    ASSUME IInv, NEW n \in Reachable, bpc[n] \in {"exec", "boot"}
    PROVE  /\ mtx # NoThread /\ n = Subject.node /\ stage = "reply"
           /\ Executing(n) /\ Cmd(n) = Command
           /\ mtx # MemThread =>
                /\ mtx \in Managed /\ n = mtx.node /\ at[mtx] \in Script!CallAt
                /\ Target(n) = SlotOf[mtx] /\ Cmd(n) = CmdAt(at[mtx])
           /\ bpc[n] = "boot" => mtx # MemThread /\ CmdAt(at[mtx]) = "BACKEND_START_PROXY"
<1>1. Typed /\ CallInv
  BY DEF IInv
<1>2. ~Quiet(n)
  BY DEF Quiet
<1>3. mtx # NoThread /\ n = Subject.node /\ stage = "reply" /\ Executing(n)
  BY <1>1, <1>2, OnlyThePeer DEF OnSocket, Answered
<1>4. Cmd(n) = Command
  BY <1>3 DEF Executing, TheOrder, Cmd
<1>5. ASSUME mtx # MemThread
      PROVE  /\ mtx \in Managed /\ n = mtx.node /\ at[mtx] \in Script!CallAt
             /\ Target(n) = SlotOf[mtx] /\ Cmd(n) = CmdAt(at[mtx])
  <2>1. mtx = Subject /\ mtx \in Managed /\ at[mtx] \in Script!CallAt
    BY <1>1, <1>3, <1>5, TheCall DEF CallInv
  <2> QED
    BY <1>1, <1>3, <1>5, <2>1, TargetIsSlot
<1>6. bpc[n] = "boot" => mtx # MemThread /\ CmdAt(at[mtx]) = "BACKEND_START_PROXY"
  BY <1>3 DEF Executing, Command
<1> QED
  BY <1>3, <1>4, <1>5, <1>6

\* The calls by their commands: getUsedMem is no call of a loader.
LEMMA CallsByCommand ==
    ASSUME NEW pos \in Script!CallAt
    PROVE  /\ CmdAt(pos) = "BACKEND_GET_STATE" => pos \in Script!Waiting \cup {"check"}
           /\ CmdAt(pos) = "BACKEND_SET_STATE" => pos \in {"mark", "umark"}
           /\ CmdAt(pos) = "BACKEND_START_PROXY" => pos = "start"
           /\ CmdAt(pos) = "BACKEND_CONNECT_PROXY" => pos = "connect"
           /\ CmdAt(pos) = "BACKEND_LOAD_MODEL" => pos = "load"
           /\ CmdAt(pos) = "BACKEND_UNLOAD_MODEL" => pos = "unload"
           /\ CmdAt(pos) = "BACKEND_END_PROXY" => pos = "end"
           /\ CmdAt(pos) = "BACKEND_DISCONNECT_PROXY" => pos = "disc"
           /\ CmdAt(pos) # "BACKEND_GET_MEM"
<1>1. Script!Waiting = {"boot", "loading", "unloading", "flush", "cold"}
  BY DEF Script!Waiting, Script!WaitFor
<1> QED
  BY <1>1 DEF CmdAt, Script!CallAt

\* The control thread reads a whole message, of a partition it has.
LEMMA ReceiveStep ==
    ASSUME IInv, NEW n \in Reachable, receiveControl(n)
    PROVE  IInv' /\ Unseen
<1>1. Typed /\ CallInv /\ DataInv /\ LifeInv
  BY DEF IInv
<1> PICK m : m = req[n]
  OBVIOUS
<1>2. /\ bpc[n] = "count" /\ m # <<>>
      /\ UNCHANGED <<at, loaded, mtx, stage, todo, asked, isConnectedtoBackend, rep>>
      /\ UNCHANGED partVars /\ UNCHANGED dataVars
  BY DEF receiveControl, frontVars, callVars
<1>3. ~Quiet(n)
  BY <1>2 DEF Quiet
<1>4. mtx # NoThread /\ n = Subject.node /\ stage = "reply" /\ OnSocket(n)
  BY <1>1, <1>2, <1>3, OnlyThePeer DEF Executing, Answered
<1>5. m = Message(Command, Subject.gpu, Part) /\ rep[n] = <<>>
  BY <1>4 DEF OnSocket, TheMessage
<1>6. /\ Head(m) >= 3
      /\ SubSeq(m, 2, Head(m) + 1)[1] = Command
      /\ SubSeq(m, 2, Head(m) + 1)[2] = Subject.gpu
      /\ SubSeq(m, 2, Head(m) + 1)[3] = Part
      /\ SubSeq(m, Head(m) + 2, Len(m)) = <<>>
  BY <1>5, MessageShape, SMTT(40)
<1>7. Subject \in Managed /\ Part \in {0, PartNum(AVAIL_SIZES, Subject)}
  BY <1>1, <1>4, TheCall
<1>8. /\ Subject.gpu \in DOMAIN LocalIDToHostID(n)
      /\ LocalIDToHostID(n)[Subject.gpu] = FirstIdx[n] + Subject.gpu
      /\ ProxyExists(n, FirstIdx[n] + Subject.gpu, Part)
  <2> PICK q, k : q = Subject /\ k = Part
    OBVIOUS
  <2>1. q \in Managed /\ k \in {0, PartNum(AVAIL_SIZES, q)} /\ n = q.node
    BY <1>4, <1>7
  <2>2. /\ q.gpu \in DOMAIN LocalIDToHostID(q.node)
        /\ LocalIDToHostID(q.node)[q.gpu] = FirstIdx[q.node] + q.gpu
        /\ ProxyExists(q.node, FirstIdx[q.node] + q.gpu, k)
    BY <2>1, NumbersFound
  <2> QED
    BY <2>1, <2>2
<1>9. /\ req' = [req EXCEPT ![n] = SubSeq(m, Head(m) + 2, Len(m))]
      /\ bpc' = [bpc EXCEPT ![n] = "exec"]
      /\ bbuf' = [bbuf EXCEPT ![n] = <<Command, FirstIdx[n] + Subject.gpu, Part>>]
  BY <1>6, <1>8 DEF receiveControl
<1>10. req'[n] = <<>> /\ bpc'[n] = "exec" /\ bbuf'[n] = TheOrder
  BY <1>1, <1>4, <1>6, <1>9 DEF Typed, TheOrder
<1>11. Subject' = Subject /\ TheOrder' = TheOrder /\ Command' = Command
  BY <1>2 DEF Subject, TheOrder, Command, Part
<1>12. Executing(n)'
  BY <1>2, <1>5, <1>10, <1>11 DEF Executing
<1>13. Typed'
  BY <1>1, <1>2, <1>9 DEF Typed, partVars, dataVars
<1>14. \A l \in Reachable \ {n} : Quiet(l)'
  BY <1>1, <1>2, <1>4, <1>9 DEF CallInv, Quiet, Typed
<1>15. CallInv'
  BY <1>1, <1>2, <1>4, <1>11, <1>12, <1>14 DEF CallInv
<1>16. Unseen
  BY <1>2 DEF Unseen, AtNow, LoadedNow, Executed, Returned
<1>17. \A q \in Managed : Booting(q)' <=> Booting(q)
  BY <1>1, <1>2, <1>9, ManagedType DEF Booting, Typed
<1>18. LifeInv'
  BY <1>1, <1>16, <1>17, LifeFrame
<1>19. DataInv'
  BY <1>1, <1>2, DataFrame
<1> QED
  BY <1>13, <1>15, <1>16, <1>18, <1>19 DEF IInv

\* NVML never reports 0: the control thread stays with its socket.
LEMMA GetMemStep ==
    ASSUME IInv, NEW n \in Reachable, GetMem(n)
    PROVE  IInv' /\ Unseen
<1>1. Typed /\ CallInv /\ DataInv /\ LifeInv
  BY DEF IInv
<1> DEFINE local == CHOOSE i \in DOMAIN LocalIDToHostID(n) :
                           LocalIDToHostID(n)[i] = bbuf[n][2]
<1> PICK mem : mem = UsedMemory(n, local)
  OBVIOUS
<1>2. /\ bpc[n] = "exec" /\ Cmd(n) = "BACKEND_GET_MEM"
      /\ rep' = [rep EXCEPT ![n] = Append(@, mem)]
      /\ bpc' = [bpc EXCEPT ![n] = IF mem = 0 THEN "accept" ELSE "count"]
      /\ UNCHANGED <<at, loaded, mtx, stage, todo, asked, isConnectedtoBackend,
                     req, bbuf>>
      /\ UNCHANGED partVars /\ UNCHANGED dataVars
  BY DEF GetMem, frontVars, callVars
<1>3. mem # 0
  <2> DEFINE A == 0 .. MAX_PROXY_PER_GPU - 1
             B == {i \in A : spawned[<<n, ShmIndex(local, i)>>]}
  <2>1. IsFiniteSet(A)
    <3>1. 0 \in Int /\ MAX_PROXY_PER_GPU - 1 \in Int
      BY ControlAssumption
    <3> QED
      BY <3>1, FS_Interval
  <2>2. Cardinality(B) \in Nat
    <3>1. B \subseteq A
      OBVIOUS
    <3> HIDE DEF A, B
    <3> QED
      BY <2>1, <3>1, FS_Subset, FS_CardinalityType
  <2>3. mem = IdleMem + Cardinality(B)
    BY DEF UsedMemory, Quantify
  <2> HIDE DEF B
  <2> QED
    BY <2>2, <2>3, IdleMemAssumption
<1>4. mtx # NoThread /\ n = Subject.node /\ stage = "reply" /\ Executing(n)
  BY <1>2, WhoExecutes
<1>5. mtx = MemThread
  <2> SUFFICES ASSUME mtx # MemThread PROVE FALSE
    OBVIOUS
  <2>1. at[mtx] \in Script!CallAt /\ CmdAt(at[mtx]) = "BACKEND_GET_MEM"
    BY <1>2, WhoExecutes
  <2> QED
    BY <2>1, CallsByCommand
<1>6. rep'[n] = <<mem>> /\ bpc'[n] = "count" /\ req'[n] = <<>>
  <2>1. rep[n] = <<>> /\ req[n] = <<>>
    BY <1>4 DEF Executing
  <2>2. Append(<<>>, mem) = <<mem>>
    OBVIOUS
  <2> QED
    BY <1>1, <1>2, <1>3, <2>1, <2>2 DEF Typed
<1>7. Answered(n)'
  BY <1>6 DEF Answered
<1>8. Typed'
  BY <1>1, <1>2 DEF Typed, partVars, dataVars
<1>9. Subject' = Subject
  BY <1>2 DEF Subject
<1>10. \A l \in Reachable \ {n} : Quiet(l)'
  BY <1>1, <1>2, <1>4 DEF CallInv, Quiet, Typed
<1>11. CallInv'
  BY <1>2, <1>4, <1>5, <1>7, <1>9, <1>10 DEF CallInv
<1>12. \A q \in Managed : ~Executed(q) /\ ~Executed(q)' /\ ~Booting(q) /\ ~Booting(q)'
  BY <1>2, <1>5, ManagedType DEF Executed, Booting
<1>13. Unseen
  BY <1>2, <1>12 DEF Unseen, AtNow, LoadedNow
<1>14. LifeInv'
  BY <1>1, <1>12, <1>13, LifeFrame
<1>15. DataInv'
  BY <1>1, <1>2, DataFrame
<1> QED
  BY <1>8, <1>11, <1>13, <1>14, <1>15 DEF IInv

\* The thread of the input channel makes the queue, that of the output
\* channel finds it: both look under the numbers of their partition.
LEMMA DataThreadStep ==
    ASSUME IInv, NEW p \in Managed, InThread(p) \/ OutThread(p)
    PROVE  IInv' /\ Unseen
<1>1. Typed /\ CallInv /\ DataInv /\ LifeInv
  BY DEF IInv
<1>2. /\ UNCHANGED <<at, loaded, isConnectedtoBackend>>
      /\ UNCHANGED <<callVars, req, rep, threadVars>> /\ UNCHANGED partVars
  BY DEF InThread, OutThread, frontVars
<1>3. /\ NumberedSlot(p.node, Numbers[p][1], Numbers[p][2]) = SlotOf[p]
      /\ SlotOf[p] \in Slots
  BY SlotOfPartition
<1>4. /\ DataInv' /\ DOMAIN inChan' = Managed /\ DOMAIN outChan' = Managed
      /\ DOMAIN hasQueue' = Slots
  <2>1. CASE InThread(p)
    <3>1. /\ hasQueue' = [hasQueue EXCEPT ![SlotOf[p]] = TRUE]
          /\ inChan' = [inChan EXCEPT ![p] = "acked"] /\ outChan' = outChan
      BY <1>3, <2>1 DEF InThread
    <3>2. \A q \in Managed : hasQueue[SlotOf[q]] => hasQueue'[SlotOf[q]]
      BY <1>1, <3>1, SlotOfPartition DEF Typed
    <3>3. hasQueue'[SlotOf[p]]
      BY <1>1, <1>3, <3>1 DEF Typed
    <3> QED
      BY <1>1, <3>1, <3>2, <3>3 DEF DataInv, Typed
  <2>2. CASE OutThread(p)
    <3>1. hasQueue[SlotOf[p]]
      BY <1>1, <2>2 DEF OutThread, DataInv
    <3>2. outChan' = [outChan EXCEPT ![p] = "serving"] /\ UNCHANGED <<inChan, hasQueue>>
      BY <1>3, <2>2, <3>1 DEF OutThread
    <3> QED
      BY <1>1, <3>2 DEF DataInv, Typed
  <2> QED
    BY <2>1, <2>2
<1>5. CallInv' /\ \A q \in Managed : Booting(q)' <=> Booting(q)
  BY <1>1, <1>2, CallFrame
<1>6. \A q \in Managed : AtNow(q)' = AtNow(q) /\ LoadedNow(q)' = LoadedNow(q)
  BY <1>1, <1>2, CallFrame
<1>7. Unseen
  BY <1>2, <1>6 DEF Unseen
<1>8. LifeInv'
  BY <1>1, <1>5, <1>7, LifeFrame
<1>9. Typed'
  BY <1>1, <1>2, <1>4 DEF Typed, callVars, threadVars, partVars
<1> QED
  BY <1>4, <1>5, <1>7, <1>8, <1>9 DEF IInv

-----------------------------------------------------------------------------
(***************************************************************************)
(* Steps of the promise.                                                   *)
(***************************************************************************)

\* Nothing of PartitionControl's state changes for the partitions but p.
Elsewhere(p) ==
    \A q \in Managed \ {p} :
        /\ AtNow(q)' = AtNow(q) /\ LoadedNow(q)' = LoadedNow(q)
        /\ word'[SlotOf[q]] = word[SlotOf[q]]
        /\ spawned'[SlotOf[q]] = spawned[SlotOf[q]]
        /\ attached'[SlotOf[q]] = attached[SlotOf[q]]
        /\ queue'[SlotOf[q]] = queue[SlotOf[q]]

\* What the promise keeps of the partitions in the shared memory is all one
\* can see of it.
LEMMA UnseenIsStutter ==
    ASSUME Unseen
    PROVE  UNCHANGED Atomic!vars
<1>1. \A p \in Managed : AtNow(p)' = AtNow(p) /\ LoadedNow(p)' = LoadedNow(p)
  BY DEF Unseen
<1>2. UNCHANGED <<word, spawned, attached, queue>>
  BY DEF Unseen, partVars
<1> QED
  BY <1>1, <1>2 DEF Atomic!vars

\* The variables of the promise, when only p has a step.
LEMMA OnePartition ==
    ASSUME NEW p \in Managed, Elsewhere(p)
    PROVE  /\ [q \in Managed |-> AtNow(q)']
                = [[q \in Managed |-> AtNow(q)] EXCEPT ![p] = AtNow(p)']
           /\ [q \in Managed |-> LoadedNow(q)']
                = [[q \in Managed |-> LoadedNow(q)] EXCEPT ![p] = LoadedNow(p)']
           /\ [q \in Managed |-> word'[SlotOf[q]]]
                = [[q \in Managed |-> word[SlotOf[q]]] EXCEPT ![p] = word'[SlotOf[p]]]
           /\ [q \in Managed |-> spawned'[SlotOf[q]]]
                = [[q \in Managed |-> spawned[SlotOf[q]]]
                     EXCEPT ![p] = spawned'[SlotOf[p]]]
           /\ [q \in Managed |-> attached'[SlotOf[q]]]
                = [[q \in Managed |-> attached[SlotOf[q]]]
                     EXCEPT ![p] = attached'[SlotOf[p]]]
           /\ [q \in Managed |-> queue'[SlotOf[q]]]
                = [[q \in Managed |-> queue[SlotOf[q]]] EXCEPT ![p] = queue'[SlotOf[p]]]
  BY DEF Elsewhere

\* The two instances of PartitionControl have the same script.
LEMMA SameScript ==
    /\ \A pos, x, n : Atomic!AfterCall(pos, x, n) = Script!AfterCall(pos, x, n)
    /\ \A pos, n : Atomic!LoadedAfter(pos, n) = Script!LoadedAfter(pos, n)
    /\ \A pos, n : Atomic!Choices(pos, n) = Script!Choices(pos, n)
    /\ Atomic!Waiting = Script!Waiting /\ Atomic!DecideAt = Script!DecideAt
    /\ Atomic!COLD = Script!COLD /\ Atomic!BOOTING = Script!BOOTING
    /\ Atomic!RUNNING = Script!RUNNING /\ Atomic!LOADING = Script!LOADING
    /\ Atomic!EXITING = Script!EXITING /\ Atomic!FLUSHED = Script!FLUSHED
<1>1. /\ Atomic!COLD = Script!COLD /\ Atomic!BOOTING = Script!BOOTING
      /\ Atomic!RUNNING = Script!RUNNING /\ Atomic!LOADING = Script!LOADING
      /\ Atomic!EXITING = Script!EXITING /\ Atomic!FLUSHED = Script!FLUSHED
  BY DEF Atomic!COLD, Script!COLD, Atomic!BOOTING, Script!BOOTING,
         Atomic!RUNNING, Script!RUNNING, Atomic!LOADING, Script!LOADING,
         Atomic!EXITING, Script!EXITING, Atomic!FLUSHED, Script!FLUSHED
<1>2. Atomic!WaitFor = Script!WaitFor /\ Atomic!Waiting = Script!Waiting
  BY <1>1 DEF Atomic!WaitFor, Script!WaitFor, Atomic!Waiting, Script!Waiting
<1>3. \A pos, n : Atomic!GoOn(pos, n) = Script!GoOn(pos, n)
  BY DEF Atomic!GoOn, Script!GoOn
<1>4. \A pos, x, n : Atomic!AfterCall(pos, x, n) = Script!AfterCall(pos, x, n)
  BY <1>1, <1>2, <1>3 DEF Atomic!AfterCall, Script!AfterCall
<1>5. \A pos, n : Atomic!LoadedAfter(pos, n) = Script!LoadedAfter(pos, n)
  BY DEF Atomic!LoadedAfter, Script!LoadedAfter
<1>6. \A pos, n : Atomic!Choices(pos, n) = Script!Choices(pos, n)
  BY DEF Atomic!Choices, Script!Choices
<1>7. Atomic!DecideAt = Script!DecideAt
  BY DEF Atomic!DecideAt, Script!DecideAt
<1> QED
  BY <1>1, <1>2, <1>4, <1>5, <1>6, <1>7

\* A step of one partition is a step of the promise.
LEMMA AtomicStep ==
    ASSUME NEW p \in Managed, Atomic!Decide(p) \/ Atomic!Call(p) \/ Atomic!Process(p)
    PROVE  Atomic!Next
  BY DEF Atomic!Next

\* A thread that decides is not one that makes a call.
LEMMA DecideStep ==
    ASSUME IInv, NEW p \in Managed, Decide(p)
    PROVE  IInv' /\ Atomic!Next
<1>1. Typed /\ CallInv /\ DataInv /\ LifeInv
  BY DEF IInv
<1>2. PICK pos \in Script!Choices(at[p], loaded[p]) : at' = [at EXCEPT ![p] = pos]
  BY DEF Decide
<1>3. /\ at[p] \in Script!DecideAt
      /\ UNCHANGED <<callVars, req, rep, threadVars>>
      /\ UNCHANGED <<loaded, isConnectedtoBackend>>
      /\ UNCHANGED partVars /\ UNCHANGED dataVars
  BY DEF Decide
<1>4. pos \in Script!CallAt /\ pos # "start"
  BY <1>2, <1>3 DEF Script!Choices, Script!CallAt, Script!DecideAt
<1>5. mtx # p
  <2> SUFFICES ASSUME mtx = p PROVE FALSE
    OBVIOUS
  <2>1. at[p] \in Script!CallAt
    BY <1>1, ManagedType DEF CallInv
  <2> QED
    BY <1>3, <2>1 DEF Script!CallAt, Script!DecideAt
<1>6. \A q \in Managed \ {p} : at'[q] = at[q] /\ loaded'[q] = loaded[q]
  BY <1>1, <1>2, <1>3 DEF Typed
<1>7. mtx \in Managed => at'[mtx] = at[mtx] /\ loaded'[mtx] = loaded[mtx]
  BY <1>5, <1>6
<1>8. /\ CallInv' /\ \A q \in Managed : Booting(q)' <=> Booting(q)
      /\ \A q \in Managed \ {p} :
            AtNow(q)' = AtNow(q) /\ LoadedNow(q)' = LoadedNow(q)
  BY <1>1, <1>3, <1>6, <1>7, CallFrame
<1>9. ~Executed(p) /\ ~Executed(p)'
  BY <1>3, <1>5 DEF Executed, callVars
<1>10. /\ AtNow(p) = at[p] /\ LoadedNow(p) = loaded[p]
       /\ AtNow(p)' = pos /\ LoadedNow(p)' = LoadedNow(p)
  BY <1>1, <1>2, <1>3, <1>9 DEF AtNow, LoadedNow, Typed
<1>11. UNCHANGED <<word, spawned, attached, queue>>
  BY <1>3 DEF partVars
<1>12. LifeInv'
  BY <1>1, <1>4, <1>8, <1>10, <1>11 DEF LifeInv
<1>13. Typed'
  BY <1>1, <1>2, <1>3, <1>4 DEF Typed, callVars, threadVars, partVars, dataVars
<1>14. DataInv'
  BY <1>1, <1>3, DataFrame
<1>15. Elsewhere(p)
  BY <1>8, <1>11 DEF Elsewhere
<1>16. [q \in Managed |-> AtNow(q)']
         = [[q \in Managed |-> AtNow(q)] EXCEPT ![p] = pos]
  BY <1>10, <1>15, OnePartition
<1>17. /\ [q \in Managed |-> LoadedNow(q)'] = [q \in Managed |-> LoadedNow(q)]
       /\ [q \in Managed |-> AtNow(q)][p] \in Atomic!DecideAt
       /\ pos \in Atomic!Choices([q \in Managed |-> AtNow(q)][p],
                                 [q \in Managed |-> LoadedNow(q)][p])
  BY <1>2, <1>3, <1>8, <1>10, SameScript
<1>18. Atomic!Decide(p)
  BY <1>11, <1>16, <1>17 DEF Atomic!Decide
<1> QED
  BY <1>8, <1>12, <1>13, <1>14, <1>18, AtomicStep DEF IInv

\* A change of the place of one partition, seen from all of them.
LEMMA SlotChange ==
    ASSUME NEW p \in Managed, NEW f, DOMAIN f = Slots, NEW e
    PROVE  \A q \in Managed : [f EXCEPT ![SlotOf[p]] = e][SlotOf[q]]
                                = IF q = p THEN e ELSE f[SlotOf[q]]
<1> TAKE q \in Managed
<1>1. SlotOf[p] \in Slots /\ SlotOf[q] \in Slots
  BY SlotOfPartition
<1>2. q # p => SlotOf[q] # SlotOf[p]
  BY SlotsDistinct
<1> QED
  BY <1>1, <1>2

\* loadModel_sync starts a process only if it has seen COLD.
LEMMA StartsAfter ==
    ASSUME NEW pos \in Script!CallAt, NEW x, NEW n,
           Script!AfterCall(pos, x, n) = "start"
    PROVE  pos = "check" /\ x = Script!COLD
<1>1. Script!Waiting = {"boot", "loading", "unloading", "flush", "cold"}
  BY DEF Script!Waiting, Script!WaitFor
<1>2. pos # "check" => Script!GoOn(pos, n) # "start"
  BY DEF Script!GoOn, Script!CallAt
<1> QED
  BY <1>1, <1>2 DEF Script!AfterCall

\* The control thread answers: the call takes effect, and returns in the
\* promise.
LEMMA ReplyStep ==
    ASSUME IInv, NEW p \in Managed, mtx = p, bpc[p.node] \in {"exec", "boot"},
           NEW v, Reply(p.node, v), UNCHANGED <<frontVars, req, bbuf, dataVars>>,
           DOMAIN word' = Slots, spawned' \in [Slots -> BOOLEAN],
           attached' \in [Slots -> BOOLEAN], queue' \in [Slots -> Int],
           \A q \in Managed \ {p} :
              /\ word'[SlotOf[q]] = word[SlotOf[q]]
              /\ spawned'[SlotOf[q]] = spawned[SlotOf[q]]
              /\ attached'[SlotOf[q]] = attached[SlotOf[q]]
              /\ queue'[SlotOf[q]] = queue[SlotOf[q]],
           ~(word'[SlotOf[p]] = Script!COLD /\ spawned'[SlotOf[p]]),
           v = word[SlotOf[p]] \/ at[p] \notin Script!Waiting \cup {"check"},
           at[p] = "check" /\ v = Script!COLD =>
              word'[SlotOf[p]] = Script!COLD /\ ~spawned'[SlotOf[p]]
    PROVE  IInv' /\ Elsewhere(p) /\ AtNow(p) = at[p] /\ Atomic!Return(p)
<1> DEFINE n == p.node
<1>1. Typed /\ CallInv /\ DataInv /\ LifeInv
  BY DEF IInv
<1>2. /\ UNCHANGED <<at, loaded, mtx, stage, todo, asked, isConnectedtoBackend,
                     req, bbuf>>
      /\ UNCHANGED dataVars
  BY DEF frontVars, callVars
<1>3. n \in Reachable /\ p # MemThread /\ p # NoThread
  BY ManagedType
<1>4. stage = "reply" /\ Executing(n) /\ Subject = p /\ at[p] \in Script!CallAt
  BY <1>3, WhoExecutes DEF Subject
<1>5. rep' = [rep EXCEPT ![n] = Append(@, v)] /\ bpc' = [bpc EXCEPT ![n] = "count"]
  BY DEF Reply
<1>6. rep'[n] = <<v>> /\ bpc'[n] = "count" /\ req'[n] = <<>>
  <2>1. rep[n] = <<>> /\ req[n] = <<>>
    BY <1>4 DEF Executing
  <2>2. Append(<<>>, v) = <<v>>
    OBVIOUS
  <2> QED
    BY <1>1, <1>2, <1>3, <1>5, <2>1, <2>2 DEF Typed
<1>7. Typed'
  BY <1>1, <1>2, <1>5 DEF Typed, dataVars
<1>8. Answered(n)'
  BY <1>6 DEF Answered
<1>9. Subject' = p
  BY <1>2, <1>4 DEF Subject
<1>10. \A l \in Reachable \ {n} : Quiet(l)'
  BY <1>1, <1>2, <1>3, <1>4, <1>5 DEF CallInv, Quiet, Typed
<1>11. CallInv'
  BY <1>2, <1>3, <1>4, <1>8, <1>9, <1>10 DEF CallInv
<1>12. DataInv'
  BY <1>1, <1>2, DataFrame
<1>13. ~Executed(p) /\ Executed(p)' /\ Returned(p)' = v
  <2>1. rep[n] = <<>>
    BY <1>4 DEF Executing
  <2>2. rep'[n] # <<>> /\ Head(rep'[n]) = v
    BY <1>6
  <2> QED
    BY <1>2, <1>4, <2>1, <2>2 DEF Executed, Returned
<1>14. /\ AtNow(p) = at[p] /\ LoadedNow(p) = loaded[p]
       /\ AtNow(p)' = Script!AfterCall(at[p], v, loaded[p])
       /\ LoadedNow(p)' = Script!LoadedAfter(at[p], loaded[p])
  BY <1>2, <1>13 DEF AtNow, LoadedNow
<1>15. \A q \in Managed \ {p} :
          AtNow(q)' = AtNow(q) /\ LoadedNow(q)' = LoadedNow(q)
  BY <1>2 DEF AtNow, LoadedNow, Executed
<1>16. Elsewhere(p)
  BY <1>15 DEF Elsewhere
<1>17. LifeInv'
  <2> SUFFICES ASSUME NEW q \in Managed
               PROVE  /\ word'[SlotOf[q]] = Script!COLD /\ spawned'[SlotOf[q]]
                           => Booting(q)'
                      /\ AtNow(q)' = "start" /\ ~Booting(q)'
                           => word'[SlotOf[q]] = Script!COLD /\ ~spawned'[SlotOf[q]]
    BY DEF LifeInv
  <2>1. CASE q = p
    BY <1>4, <1>14, <2>1, StartsAfter
  <2>2. CASE q # p
    <3>1. ~Booting(q) /\ ~Booting(q)'
      BY <1>2, <2>2 DEF Booting
    <3>2. AtNow(q)' = AtNow(q)
      BY <1>15, <2>2
    <3> QED
      BY <1>1, <2>2, <3>1, <3>2 DEF LifeInv
  <2> QED
    BY <2>1, <2>2
<1>18. Script!AfterCall(at[p], v, loaded[p])
         = Script!AfterCall(at[p], word[SlotOf[p]], loaded[p])
  BY <1>4, AnswerUnused
<1>19. Atomic!Return(p)
  <2>1. /\ [q \in Managed |-> AtNow(q)']
             = [[q \in Managed |-> AtNow(q)] EXCEPT
                  ![p] = Script!AfterCall(at[p], word[SlotOf[p]], loaded[p])]
        /\ [q \in Managed |-> LoadedNow(q)']
             = [[q \in Managed |-> LoadedNow(q)] EXCEPT
                  ![p] = Script!LoadedAfter(at[p], loaded[p])]
    BY <1>14, <1>16, <1>18, OnePartition, ZenonT(60)
  <2>2. /\ [q \in Managed |-> AtNow(q)][p] = at[p]
        /\ [q \in Managed |-> LoadedNow(q)][p] = loaded[p]
        /\ [q \in Managed |-> word[SlotOf[q]]][p] = word[SlotOf[p]]
    BY <1>14
  <2> QED
    BY <2>1, <2>2, SameScript DEF Atomic!Return
<1> QED
  BY <1>7, <1>11, <1>12, <1>14, <1>16, <1>17, <1>19 DEF IInv

\* executeControl acts on the partition of the call, and on no other.
LEMMA ExecuteStep ==
    ASSUME IInv, NEW n \in Reachable, Execute(n)
    PROVE  IInv' /\ Atomic!Next
<1>1. Typed /\ LifeInv
  BY DEF IInv
<1>2. bpc[n] = "exec" /\ UNCHANGED <<frontVars, req, bbuf, dataVars>>
  BY DEF Execute
<1>3. Cmd(n) # "BACKEND_GET_MEM"
  BY DEF Execute
<1>4. mtx # MemThread
  BY <1>2, <1>3, WhoExecutes DEF Command
<1> PICK p : p = mtx
  OBVIOUS
<1>5. /\ p \in Managed /\ n = p.node /\ at[p] \in Script!CallAt
      /\ Target(n) = SlotOf[p] /\ Cmd(n) = CmdAt(at[p])
  BY <1>2, <1>4, WhoExecutes
<1>6. SlotOf[p] \in Slots
  BY <1>5, SlotOfPartition
<1>7. ~Booting(p)
  BY <1>2, <1>5 DEF Booting
<1>8. Script!COLD = 0 /\ Script!LOADING = 3 /\ Script!EXITING = 4
  BY DEF Script!COLD, Script!LOADING, Script!EXITING
<1>9. /\ DOMAIN word = Slots /\ spawned \in [Slots -> BOOLEAN]
      /\ attached \in [Slots -> BOOLEAN] /\ queue \in [Slots -> Int]
  BY <1>1 DEF Typed
<1>10. bpc[p.node] \in {"exec", "boot"} /\ mtx = p
  BY <1>2, <1>5
<1>w. Script!Waiting = {"boot", "loading", "unloading", "flush", "cold"}
  BY DEF Script!Waiting, Script!WaitFor
<1>11. CASE Cmd(n) = "BACKEND_GET_STATE"
  <2>1. Reply(p.node, word[SlotOf[p]]) /\ UNCHANGED <<word, spawned, attached, queue>>
    BY <1>5, <1>11 DEF Execute, partVars
  <2>2. ~(word[SlotOf[p]] = Script!COLD /\ spawned[SlotOf[p]])
    BY <1>1, <1>5, <1>7 DEF LifeInv
  <2> PICK v : v = word[SlotOf[p]]
    OBVIOUS
  <2>3. IInv' /\ AtNow(p) = at[p] /\ Atomic!Return(p)
    BY <1>2, <1>5, <1>9, <1>10, <2>1, <2>2, ReplyStep
  <2>4. at[p] \in Script!Waiting \cup {"check"}
    BY <1>5, <1>11, CallsByCommand
  <2>5. [q \in Managed |-> AtNow(q)][p] \in Atomic!Waiting \cup {"check"}
    BY <1>5, <2>3, <2>4, SameScript
  <2>6. Atomic!GetState(p)
    BY <2>1, <2>3, <2>5 DEF Atomic!GetState
  <2> QED
    BY <1>5, <2>3, <2>6, AtomicStep DEF Atomic!Call
<1>12. CASE Cmd(n) = "BACKEND_SET_STATE"
  <2>1. /\ Reply(p.node, Script!LOADING)
        /\ word' = [word EXCEPT ![SlotOf[p]] = Script!LOADING]
        /\ UNCHANGED <<spawned, attached, queue>>
    BY <1>5, <1>12 DEF Execute
  <2>2. \A q \in Managed : word'[SlotOf[q]] = IF q = p THEN Script!LOADING
                                              ELSE word[SlotOf[q]]
    <3>1. \A q \in Managed : [word EXCEPT ![SlotOf[p]] = Script!LOADING][SlotOf[q]]
                                = IF q = p THEN Script!LOADING ELSE word[SlotOf[q]]
      BY <1>5, <1>9, SlotChange
    <3> QED
      BY <2>1, <3>1
  <2>3. at[p] \in {"mark", "umark"}
    BY <1>5, <1>12, CallsByCommand
  <2>4. DOMAIN word' = Slots
    BY <1>9, <2>1
  <2> PICK v : v = Script!LOADING
    OBVIOUS
  <2>5. IInv' /\ Elsewhere(p) /\ AtNow(p) = at[p] /\ Atomic!Return(p)
    BY <1>2, <1>5, <1>8, <1>9, <1>10, <1>w, <2>1, <2>2, <2>3, <2>4, ReplyStep
  <2>6. [q \in Managed |-> AtNow(q)][p] \in {"mark", "umark"}
    BY <1>5, <2>3, <2>5
  <2>7. [q \in Managed |-> word'[SlotOf[q]]]
          = [[q \in Managed |-> word[SlotOf[q]]] EXCEPT ![p] = Atomic!LOADING]
    BY <1>5, <2>2, <2>5, OnePartition, SameScript
  <2>8. Atomic!Mark(p)
    BY <2>1, <2>5, <2>6, <2>7 DEF Atomic!Mark
  <2> QED
    BY <1>5, <2>5, <2>8, AtomicStep DEF Atomic!Call
<1>13. CASE Cmd(n) \in {"BACKEND_CONNECT_PROXY", "BACKEND_DISCONNECT_PROXY"}
  <2> PICK b \in BOOLEAN : b <=> Cmd(n) = "BACKEND_CONNECT_PROXY"
    OBVIOUS
  <2>1. /\ Reply(p.node, Script!LOADING)
        /\ attached' = [attached EXCEPT ![SlotOf[p]] = b]
        /\ UNCHANGED <<word, spawned, queue>>
    BY <1>5, <1>13 DEF Execute
  <2>2. \A q \in Managed : attached'[SlotOf[q]] = IF q = p THEN b
                                                  ELSE attached[SlotOf[q]]
    <3> TAKE q \in Managed
    <3>1. SlotOf[p] \in Slots /\ SlotOf[q] \in Slots
      BY <1>5, SlotOfPartition
    <3>2. CASE q = p
      BY <1>9, <2>1, <3>1, <3>2
    <3>3. CASE q # p
      <4>1. SlotOf[q] # SlotOf[p]
        BY <1>5, <3>3, SlotsDistinct
      <4> QED
        BY <1>9, <2>1, <3>1, <3>3, <4>1
    <3> QED
      BY <3>2, <3>3
  <2>3. at[p] = IF b THEN "connect" ELSE "disc"
    BY <1>5, <1>13, CallsByCommand
  <2>4. attached' \in [Slots -> BOOLEAN]
    BY <1>9, <2>1
  <2> PICK v : v = Script!LOADING
    OBVIOUS
  <2>5. ~(word[SlotOf[p]] = Script!COLD /\ spawned[SlotOf[p]])
    BY <1>1, <1>5, <1>7 DEF LifeInv
  <2>6. at[p] \notin Script!Waiting \cup {"check"}
    BY <1>w, <2>3
  <2>7. IInv' /\ Elsewhere(p) /\ AtNow(p) = at[p] /\ Atomic!Return(p)
    BY <1>2, <1>5, <1>8, <1>9, <1>10, <2>1, <2>2, <2>4, <2>5, <2>6, ReplyStep
  <2>8. [q \in Managed |-> AtNow(q)][p] = IF b THEN "connect" ELSE "disc"
    BY <1>5, <2>3, <2>7
  <2>9. [q \in Managed |-> attached'[SlotOf[q]]]
          = [[q \in Managed |-> attached[SlotOf[q]]] EXCEPT ![p] = b]
    BY <1>5, <2>2, <2>7, OnePartition
  <2>10. Atomic!Connect(p) \/ Atomic!Disconnect(p)
    BY <2>1, <2>7, <2>8, <2>9 DEF Atomic!Connect, Atomic!Disconnect
  <2> QED
    BY <1>5, <2>7, <2>10, AtomicStep DEF Atomic!Call
<1>14. CASE Cmd(n) \in {"BACKEND_LOAD_MODEL", "BACKEND_UNLOAD_MODEL"}
  <2>1. /\ Reply(p.node, 0)
        /\ word' = [word EXCEPT ![SlotOf[p]] = Script!LOADING]
        /\ queue' = [queue EXCEPT ![SlotOf[p]] = queue[SlotOf[p]] + 1]
        /\ UNCHANGED <<spawned, attached>>
    BY <1>5, <1>14 DEF Execute
  <2>2. \A q \in Managed : word'[SlotOf[q]] = IF q = p THEN Script!LOADING
                                              ELSE word[SlotOf[q]]
    BY <1>5, <1>9, <2>1, SlotChange
  <2>3. \A q \in Managed : queue'[SlotOf[q]] = IF q = p THEN queue[SlotOf[p]] + 1
                                               ELSE queue[SlotOf[q]]
    BY <1>5, <1>9, <2>1, SlotChange
  <2>4. at[p] \in {"load", "unload"}
    BY <1>5, <1>14, CallsByCommand
  <2>5. DOMAIN word' = Slots /\ queue' \in [Slots -> Int]
    BY <1>6, <1>9, <2>1
  <2>6. at[p] \notin Script!Waiting \cup {"check"}
    BY <1>w, <2>4
  <2>7. IInv' /\ Elsewhere(p) /\ AtNow(p) = at[p] /\ Atomic!Return(p)
    BY <1>2, <1>5, <1>8, <1>9, <1>10, <2>1, <2>2, <2>3, <2>5, <2>6, ReplyStep
  <2>8. [q \in Managed |-> AtNow(q)][p] \in {"load", "unload"}
    BY <1>5, <2>4, <2>7
  <2>9. /\ [q \in Managed |-> word'[SlotOf[q]]]
             = [[q \in Managed |-> word[SlotOf[q]]] EXCEPT ![p] = Atomic!LOADING]
        /\ [q \in Managed |-> queue'[SlotOf[q]]]
             = [[q \in Managed |-> queue[SlotOf[q]]] EXCEPT ![p] = queue[SlotOf[p]] + 1]
        /\ [q \in Managed |-> queue[SlotOf[q]]][p] = queue[SlotOf[p]]
    BY <1>5, <2>2, <2>3, <2>7, OnePartition, SameScript
  <2>10. Atomic!Send(p)
    BY <2>1, <2>7, <2>8, <2>9 DEF Atomic!Send
  <2> QED
    BY <1>5, <2>7, <2>10, AtomicStep DEF Atomic!Call
<1>15. CASE Cmd(n) = "BACKEND_END_PROXY"
  <2>1. /\ Reply(p.node, 0)
        /\ word' = [word EXCEPT ![SlotOf[p]] = Script!EXITING]
        /\ UNCHANGED <<spawned, attached, queue>>
    BY <1>5, <1>15 DEF Execute
  <2>2. \A q \in Managed : word'[SlotOf[q]] = IF q = p THEN Script!EXITING
                                              ELSE word[SlotOf[q]]
    BY <1>5, <1>9, <2>1, SlotChange
  <2>3. at[p] = "end"
    BY <1>5, <1>15, CallsByCommand
  <2>4. DOMAIN word' = Slots
    BY <1>9, <2>1
  <2>5. IInv' /\ Elsewhere(p) /\ AtNow(p) = at[p] /\ Atomic!Return(p)
    BY <1>2, <1>5, <1>8, <1>9, <1>10, <1>w, <2>1, <2>2, <2>3, <2>4, ReplyStep
  <2>6. [q \in Managed |-> AtNow(q)][p] = "end"
    BY <1>5, <2>3, <2>5
  <2>7. [q \in Managed |-> word'[SlotOf[q]]]
          = [[q \in Managed |-> word[SlotOf[q]]] EXCEPT ![p] = Atomic!EXITING]
    BY <1>5, <2>2, <2>5, OnePartition, SameScript
  <2>8. Atomic!End(p)
    BY <2>1, <2>5, <2>6, <2>7 DEF Atomic!End
  <2> QED
    BY <1>5, <2>5, <2>8, AtomicStep DEF Atomic!Call
<1> QED
  BY <1>11, <1>12, <1>13, <1>14, <1>15 DEF Execute

\* A process is started for a partition that has none; the control thread
\* waits for it to boot.
LEMMA StartBeginStep ==
    ASSUME IInv, NEW n \in Reachable, StartBegin(n)
    PROVE  IInv' /\ Atomic!Next
<1>1. Typed /\ CallInv /\ DataInv /\ LifeInv
  BY DEF IInv
<1>2. bpc[n] = "exec" /\ Cmd(n) = "BACKEND_START_PROXY"
  BY DEF StartBegin
<1>3. mtx # MemThread /\ mtx # NoThread /\ stage = "reply" /\ Executing(n)
  BY <1>2, WhoExecutes DEF Command
<1> PICK p : p = mtx
  OBVIOUS
<1>4. /\ p \in Managed /\ n = p.node /\ at[p] = "start"
      /\ Target(n) = SlotOf[p] /\ Cmd(n) = CmdAt(at[p])
  BY <1>2, <1>3, WhoExecutes, CallsByCommand
<1>5. SlotOf[p] \in Slots
  BY <1>4, SlotOfPartition
<1>6. ~Executed(p) /\ ~Booting(p)
  BY <1>2, <1>3, <1>4 DEF Executed, Executing, Booting
<1>7. AtNow(p) = "start"
  BY <1>4, <1>6 DEF AtNow
<1>8. word[SlotOf[p]] = Script!COLD /\ ~spawned[SlotOf[p]]
  BY <1>1, <1>4, <1>6, <1>7 DEF LifeInv
<1>9. Script!COLD # Script!BOOTING
  BY DEF Script!COLD, Script!BOOTING
<1>10. /\ spawned' = [spawned EXCEPT ![SlotOf[p]] = TRUE]
       /\ bpc' = [bpc EXCEPT ![n] = "boot"]
       /\ UNCHANGED <<at, loaded, mtx, stage, todo, asked, isConnectedtoBackend,
                      req, rep, bbuf, word, attached, queue>>
       /\ UNCHANGED dataVars
  BY <1>4, <1>8, <1>9 DEF StartBegin, frontVars, callVars
<1>11. Typed'
  BY <1>1, <1>5, <1>10 DEF Typed, dataVars
<1>12. Subject' = Subject /\ TheOrder' = TheOrder /\ Command' = Command
  BY <1>10 DEF Subject, TheOrder, Command, Part
<1>13. Command = "BACKEND_START_PROXY" /\ n = Subject.node /\ bpc'[n] = "boot"
  BY <1>1, <1>2, <1>10, WhoExecutes DEF Typed
<1>14. Executing(n)'
  BY <1>3, <1>10, <1>12, <1>13 DEF Executing
<1>15. \A l \in Reachable \ {n} : Quiet(l)'
  BY <1>1, <1>3, <1>10, <1>13 DEF CallInv, Quiet, Typed
<1>16. CallInv'
  BY <1>1, <1>3, <1>10, <1>12, <1>13, <1>14, <1>15 DEF CallInv
<1>17. DataInv'
  BY <1>1, <1>10, DataFrame
<1>18. \A q \in Managed : AtNow(q)' = AtNow(q) /\ LoadedNow(q)' = LoadedNow(q)
  BY <1>10 DEF AtNow, LoadedNow, Executed, Returned
<1>19. Booting(p)'
  BY <1>4, <1>10, <1>13 DEF Booting
<1>20. \A q \in Managed \ {p} :
          /\ spawned'[SlotOf[q]] = spawned[SlotOf[q]]
          /\ ~Booting(q) /\ ~Booting(q)'
  <2> TAKE q \in Managed \ {p}
  <2>1. SlotOf[q] # SlotOf[p] /\ SlotOf[q] \in Slots
    BY <1>4, SlotsDistinct, SlotOfPartition
  <2>2. spawned'[SlotOf[q]] = spawned[SlotOf[q]]
    BY <1>1, <1>10, <2>1 DEF Typed
  <2> QED
    BY <1>10, <2>2 DEF Booting
<1>21. LifeInv'
  <2> SUFFICES ASSUME NEW q \in Managed
               PROVE  /\ word'[SlotOf[q]] = Script!COLD /\ spawned'[SlotOf[q]]
                           => Booting(q)'
                      /\ AtNow(q)' = "start" /\ ~Booting(q)'
                           => word'[SlotOf[q]] = Script!COLD /\ ~spawned'[SlotOf[q]]
    BY DEF LifeInv
  <2>1. CASE q = p
    BY <1>19, <2>1
  <2>2. CASE q # p
    BY <1>1, <1>10, <1>18, <1>20, <2>2 DEF LifeInv
  <2> QED
    BY <2>1, <2>2
<1>22. Elsewhere(p)
  BY <1>10, <1>18, <1>20 DEF Elsewhere
<1>23. [q \in Managed |-> spawned'[SlotOf[q]]]
         = [[q \in Managed |-> spawned[SlotOf[q]]] EXCEPT ![p] = TRUE]
  <2>1. spawned'[SlotOf[p]] = TRUE
    BY <1>1, <1>5, <1>10 DEF Typed
  <2> QED
    BY <1>4, <1>22, <2>1, OnePartition
<1>24. /\ [q \in Managed |-> AtNow(q)'] = [q \in Managed |-> AtNow(q)]
       /\ [q \in Managed |-> LoadedNow(q)'] = [q \in Managed |-> LoadedNow(q)]
       /\ [q \in Managed |-> AtNow(q)][p] = "start"
       /\ [q \in Managed |-> word[SlotOf[q]]][p] = Atomic!COLD
       /\ ~[q \in Managed |-> spawned[SlotOf[q]]][p]
  BY <1>4, <1>7, <1>8, <1>18, SameScript
<1>25. Atomic!StartBegin(p)
  BY <1>10, <1>23, <1>24 DEF Atomic!StartBegin
<1> QED
  BY <1>4, <1>11, <1>16, <1>17, <1>21, <1>25, AtomicStep DEF IInv, Atomic!Call

\* The process is booting, and startProxy returns.
LEMMA StartEndStep ==
    ASSUME IInv, NEW n \in Reachable, StartEnd(n)
    PROVE  IInv' /\ Atomic!Next
<1>1. Typed
  BY DEF IInv
<1>2. /\ bpc[n] = "boot" /\ word[Target(n)] = Script!BOOTING /\ Reply(n, 0)
      /\ UNCHANGED <<frontVars, req, bbuf, dataVars>>
      /\ UNCHANGED <<word, spawned, attached, queue>>
  BY DEF StartEnd, partVars
<1> PICK p : p = mtx
  OBVIOUS
<1>3. /\ p \in Managed /\ n = p.node /\ at[p] \in Script!CallAt
      /\ Target(n) = SlotOf[p] /\ CmdAt(at[p]) = "BACKEND_START_PROXY"
  BY <1>2, WhoExecutes
<1>4. at[p] = "start"
  BY <1>3, CallsByCommand
<1>5. at[p] \notin Script!Waiting \cup {"check"}
  BY <1>4 DEF Script!Waiting, Script!WaitFor
<1>6. word[SlotOf[p]] = Script!BOOTING /\ Script!BOOTING # Script!COLD
  BY <1>2, <1>3 DEF Script!COLD, Script!BOOTING
<1>7. /\ DOMAIN word = Slots /\ spawned \in [Slots -> BOOLEAN]
      /\ attached \in [Slots -> BOOLEAN] /\ queue \in [Slots -> Int]
  BY <1>1 DEF Typed
<1>8. Reply(p.node, 0) /\ mtx = p /\ bpc[p.node] \in {"exec", "boot"}
  BY <1>2, <1>3
<1>9. IInv' /\ AtNow(p) = at[p] /\ Atomic!Return(p)
  BY <1>2, <1>3, <1>5, <1>6, <1>7, <1>8, ReplyStep
<1>10. /\ [q \in Managed |-> AtNow(q)][p] = "start"
       /\ [q \in Managed |-> word[SlotOf[q]]][p] = Atomic!BOOTING
  BY <1>3, <1>4, <1>6, <1>9, SameScript
<1>11. Atomic!StartEnd(p)
  BY <1>2, <1>9, <1>10 DEF Atomic!StartEnd
<1> QED
  BY <1>3, <1>9, <1>11, AtomicStep DEF Atomic!Call

\* A process has a step in its own place.
LEMMA ProcessStep ==
    ASSUME IInv, NEW s \in Slots, Process(s)
    PROVE  IInv' /\ [Atomic!Next]_(Atomic!vars)
<1>1. Typed /\ CallInv /\ DataInv /\ LifeInv
  BY DEF IInv
<1>2. /\ spawned[s]
      /\ UNCHANGED <<at, loaded, isConnectedtoBackend>> /\ attached' = attached
      /\ UNCHANGED <<callVars, req, rep, threadVars>> /\ UNCHANGED dataVars
  BY DEF Process, frontVars
<1>3. /\ DOMAIN word' = Slots /\ spawned' \in [Slots -> BOOLEAN]
      /\ queue' \in [Slots -> Int]
      /\ \A t \in Slots \ {s} : /\ word'[t] = word[t] /\ spawned'[t] = spawned[t]
                               /\ queue'[t] = queue[t]
  <2>1. DOMAIN word' = Slots /\ \A t \in Slots \ {s} : word'[t] = word[t]
    BY <1>1 DEF Process, Typed
  <2>2. /\ spawned' \in [Slots -> BOOLEAN]
        /\ \A t \in Slots \ {s} : spawned'[t] = spawned[t]
    <3>1. spawned' = spawned \/ spawned' = [spawned EXCEPT ![s] = FALSE]
      BY DEF Process
    <3> QED
      BY <1>1, <3>1 DEF Typed
  <2>3. /\ queue' \in [Slots -> Int]
        /\ \A t \in Slots \ {s} : queue'[t] = queue[t]
    <3>1. queue' = queue \/ queue' = [queue EXCEPT ![s] = queue[s] - 1]
      BY DEF Process
    <3> QED
      BY <1>1, <3>1 DEF Typed
  <2> QED
    BY <2>1, <2>2, <2>3
<1>4. \/ word[s] = Script!COLD /\ word'[s] = Script!BOOTING
           /\ queue' = queue /\ spawned' = spawned
      \/ word[s] = Script!BOOTING /\ ~Awaited(s) /\ word'[s] = Script!RUNNING
           /\ queue' = queue /\ spawned' = spawned
      \/ queue[s] > 0 /\ queue'[s] = queue[s] - 1 /\ spawned' = spawned
           /\ word'[s] = (IF queue[s] = 1 /\ word[s] # Script!EXITING
                          THEN Script!RUNNING ELSE word[s])
      \/ word[s] = Script!EXITING /\ word'[s] = Script!FLUSHED
           /\ queue' = queue /\ spawned' = spawned
      \/ word[s] = Script!FLUSHED /\ ~attached[s] /\ word'[s] = Script!COLD
           /\ spawned'[s] = FALSE /\ queue' = queue
  BY <1>1 DEF Process, Typed
<1>5. Typed'
  BY <1>1, <1>2, <1>3 DEF Typed, callVars, threadVars, dataVars
<1>6. CallInv' /\ \A q \in Managed : Booting(q)' <=> Booting(q)
  BY <1>1, <1>2, CallFrame
<1>7. \A q \in Managed : AtNow(q)' = AtNow(q) /\ LoadedNow(q)' = LoadedNow(q)
  BY <1>1, <1>2, CallFrame
<1>8. DataInv'
  BY <1>1, <1>2, DataFrame
<1>9. \A q \in Managed : SlotOf[q] # s =>
          /\ word'[SlotOf[q]] = word[SlotOf[q]]
          /\ queue'[SlotOf[q]] = queue[SlotOf[q]]
          /\ spawned'[SlotOf[q]] = spawned[SlotOf[q]]
          /\ attached'[SlotOf[q]] = attached[SlotOf[q]]
  BY <1>1, <1>2, <1>3, SlotOfPartition DEF Typed
<1>10. /\ Script!COLD = 0 /\ Script!BOOTING = 1 /\ Script!RUNNING = 2
       /\ Script!EXITING = 4 /\ Script!FLUSHED = 5
  BY DEF Script!COLD, Script!BOOTING, Script!RUNNING, Script!EXITING, Script!FLUSHED
<1>11. \A q \in Managed : SlotOf[q] = s => (AtNow(q) = "start" => Booting(q))
  BY <1>1, <1>2 DEF LifeInv
<1>12. LifeInv'
  <2> SUFFICES ASSUME NEW q \in Managed
               PROVE  /\ word'[SlotOf[q]] = Script!COLD /\ spawned'[SlotOf[q]]
                           => Booting(q)'
                      /\ AtNow(q)' = "start" /\ ~Booting(q)'
                           => word'[SlotOf[q]] = Script!COLD /\ ~spawned'[SlotOf[q]]
    BY DEF LifeInv
  <2>1. CASE SlotOf[q] # s
    BY <1>1, <1>6, <1>7, <1>9, <2>1 DEF LifeInv
  <2>2. CASE SlotOf[q] = s
    <3>1. word'[s] = Script!COLD /\ spawned'[s] => word[s] = Script!COLD
      BY <1>4, <1>10
    <3>2. word[s] = Script!COLD => Booting(q)
      BY <1>1, <1>2, <2>2 DEF LifeInv
    <3> QED
      BY <1>6, <1>7, <1>11, <2>2, <3>1, <3>2
  <2> QED
    BY <2>1, <2>2
<1>13. IInv'
  BY <1>5, <1>6, <1>8, <1>12 DEF IInv
<1>14. CASE \A q \in Managed : SlotOf[q] # s
  BY <1>7, <1>9, <1>13, <1>14 DEF Atomic!vars
<1>15. CASE \E q \in Managed : SlotOf[q] = s
  <2>1. PICK p \in Managed : SlotOf[p] = s
    BY <1>15
  <2>2. Elsewhere(p)
    <3> SUFFICES ASSUME NEW q \in Managed \ {p} PROVE SlotOf[q] # s
      BY <1>7, <1>9 DEF Elsewhere
    <3> QED
      BY <2>1, SlotsDistinct
  <2>3. /\ [q \in Managed |-> word'[SlotOf[q]]]
             = [[q \in Managed |-> word[SlotOf[q]]] EXCEPT ![p] = word'[s]]
        /\ [q \in Managed |-> queue'[SlotOf[q]]]
             = [[q \in Managed |-> queue[SlotOf[q]]] EXCEPT ![p] = queue'[s]]
        /\ [q \in Managed |-> spawned'[SlotOf[q]]]
             = [[q \in Managed |-> spawned[SlotOf[q]]] EXCEPT ![p] = spawned'[s]]
    BY <2>1, <2>2, OnePartition
  <2>4. /\ [q \in Managed |-> AtNow(q)'] = [q \in Managed |-> AtNow(q)]
        /\ [q \in Managed |-> LoadedNow(q)'] = [q \in Managed |-> LoadedNow(q)]
    BY <1>7
  <2>5. /\ [q \in Managed |-> word[SlotOf[q]]][p] = word[s]
        /\ [q \in Managed |-> queue[SlotOf[q]]][p] = queue[s]
        /\ [q \in Managed |-> spawned[SlotOf[q]]][p] = spawned[s]
        /\ [q \in Managed |-> attached[SlotOf[q]]][p] = attached[s]
        /\ [q \in Managed |-> AtNow(q)][p] = AtNow(p)
    BY <2>1
  <2>6. ~Awaited(s) => AtNow(p) # "start"
    BY <1>1, <1>11, <2>1, AwaitedIs
  <2>7. Atomic!Process(p)
    <3>1. CASE /\ word[s] = Script!COLD /\ word'[s] = Script!BOOTING
               /\ queue' = queue /\ spawned' = spawned
      BY <1>2, <2>3, <2>4, <2>5, <3>1, SameScript DEF Atomic!Process
    <3>2. CASE /\ word[s] = Script!BOOTING /\ ~Awaited(s) /\ word'[s] = Script!RUNNING
               /\ queue' = queue /\ spawned' = spawned
      BY <1>2, <2>3, <2>4, <2>5, <2>6, <3>2, SameScript DEF Atomic!Process
    <3>3. CASE /\ queue[s] > 0 /\ queue'[s] = queue[s] - 1 /\ spawned' = spawned
               /\ word'[s] = (IF queue[s] = 1 /\ word[s] # Script!EXITING
                              THEN Script!RUNNING ELSE word[s])
      BY <1>2, <2>3, <2>4, <2>5, <3>3, SameScript, ZenonT(60) DEF Atomic!Process
    <3>4. CASE /\ word[s] = Script!EXITING /\ word'[s] = Script!FLUSHED
               /\ queue' = queue /\ spawned' = spawned
      BY <1>2, <2>3, <2>4, <2>5, <3>4, SameScript DEF Atomic!Process
    <3>5. CASE /\ word[s] = Script!FLUSHED /\ ~attached[s] /\ word'[s] = Script!COLD
               /\ spawned'[s] = FALSE /\ queue' = queue
      BY <1>2, <2>3, <2>4, <2>5, <3>5, SameScript DEF Atomic!Process
    <3> QED
      BY <1>4, <3>1, <3>2, <3>3, <3>4, <3>5
  <2> QED
    BY <1>13, <2>7, AtomicStep
<1> QED
  BY <1>14, <1>15

-----------------------------------------------------------------------------
(***************************************************************************)
(* The results.                                                            *)
(***************************************************************************)

\* At first all sockets are quiet and no partition has a process.
LEMMA Initially ==
    ASSUME Init
    PROVE  IInv /\ Atomic!Init
<1>1. MemThread # NoThread /\ \A p \in Managed : p # NoThread
  BY ControlAssumption
<1>2. Typed
  <2>1. "idle" \in Script!DecideAt
    BY DEF Script!DecideAt
  <2> QED
    BY <1>1, <2>1 DEF Init, Typed
<1>3. CallInv
  BY DEF Init, CallInv, Quiet
<1>4. DataInv
  BY DEF Init, DataInv
<1>5. \A p \in Managed : ~Executed(p) /\ AtNow(p) = "idle" /\ LoadedNow(p) = 0
  BY <1>1 DEF Init, Executed, AtNow, LoadedNow
<1>6. \A p \in Managed : /\ word[SlotOf[p]] = Script!COLD /\ ~spawned[SlotOf[p]]
                         /\ spawned[SlotOf[p]] = FALSE
                         /\ attached[SlotOf[p]] = FALSE /\ queue[SlotOf[p]] = 0
  BY SlotOfPartition DEF Init
<1>7. LifeInv
  BY <1>5, <1>6 DEF LifeInv
<1>8. Atomic!Init
  BY <1>5, <1>6, SameScript DEF Atomic!Init
<1> QED
  BY <1>2, <1>3, <1>4, <1>7, <1>8 DEF IInv

\* Every step keeps the invariant, and is a step of the promise or unseen.
LEMMA EveryStep ==
    ASSUME IInv, [Next]_vars
    PROVE  IInv' /\ [Atomic!Next]_(Atomic!vars)
<1>1. CASE Unseen /\ IInv'
  BY <1>1, UnseenIsStutter
<1>2. CASE \E p \in Managed : Lock(p) \/ LockForMem(p)
  BY <1>1, <1>2, LockStep
<1>3. CASE \E p \in Managed : InThread(p) \/ OutThread(p)
  BY <1>1, <1>3, DataThreadStep
<1>4. CASE \E p \in Managed : Decide(p)
  BY <1>4, DecideStep
<1>5. CASE Holder
  BY <1>1, <1>5, WriteStep, ReadReplyStep, OpenInStep, OpenOutStep DEF Holder
<1>6. CASE \E n \in Reachable : receiveControl(n) \/ GetMem(n)
  BY <1>1, <1>6, ReceiveStep, GetMemStep
<1>7. CASE \E n \in Reachable : Execute(n) \/ StartBegin(n) \/ StartEnd(n)
  BY <1>7, ExecuteStep, StartBeginStep, StartEndStep
<1>8. CASE \E s \in Slots : Process(s)
  BY <1>8, ProcessStep
<1>9. CASE UNCHANGED vars
  <2>1. /\ UNCHANGED <<at, loaded, isConnectedtoBackend>>
        /\ UNCHANGED <<callVars, req, rep, threadVars>>
        /\ UNCHANGED partVars /\ UNCHANGED dataVars
    BY <1>9 DEF vars, frontVars
  <2>2. Typed /\ CallInv /\ DataInv /\ LifeInv
    BY DEF IInv
  <2>3. CallInv' /\ \A p \in Managed : Booting(p)' <=> Booting(p)
    BY <2>1, <2>2, CallFrame
  <2>4. \A p \in Managed : AtNow(p)' = AtNow(p) /\ LoadedNow(p)' = LoadedNow(p)
    BY <2>1, <2>2, CallFrame
  <2>5. Unseen
    BY <2>1, <2>4 DEF Unseen
  <2>6. LifeInv' /\ DataInv'
    BY <2>1, <2>2, <2>3, <2>5, LifeFrame, DataFrame
  <2>7. Typed'
    BY <2>1, <2>2 DEF Typed, callVars, threadVars, partVars, dataVars
  <2> QED
    BY <1>1, <2>3, <2>5, <2>6, <2>7 DEF IInv
<1> QED
  BY <1>2, <1>3, <1>4, <1>5, <1>6, <1>7, <1>8, <1>9 DEF Next, ControlThread

\* The inductive invariant of the control channel: the message of the call
\* under way is unwritten, on its socket, in the hands of the control thread
\* or answered, and nothing else is on any socket; a queue is made before it
\* is looked for; a partition that is about to be started has no process.
THEOREM ChannelInvariance == Spec => []IInv
<1>1. Init => IInv
  BY Initially
<1>2. IInv /\ [Next]_vars => IInv'
  BY EveryStep
<1> QED
  BY <1>1, <1>2, PTL DEF Spec

\* For any nodes, GPUs, sizes and partitions: the frontend and the control
\* threads never disagree on where a message begins, no assert on a partition's
\* numbers stops a control thread (receiveControl, executeControl), and the
\* thread of an output channel finds the queue (connectProxy).
THEOREM ChannelsQuiet == Spec => []ChannelQuiet
<1>1. IInv => ChannelQuiet
  BY DEF IInv, CallInv, DataInv, Quiet, ChannelQuiet
<1> QED
  BY <1>1, ChannelInvariance, PTL

\* The control channel implements PartitionControl: under one mutex for all
\* nodes, a call of BackendProxyCtrl acts on its own partition as one step,
\* also when startProxy waits and when the numbers are translated twice.
THEOREM CallsAtomic == Spec => CallsAreAtomic
<1>1. Init => Atomic!Init
  BY Initially
<1>2. IInv /\ [Next]_vars => [Atomic!Next]_(Atomic!vars)
  BY EveryStep
<1> QED
  BY <1>1, <1>2, ChannelInvariance, PTL DEF Spec, CallsAreAtomic, Atomic!Spec
=============================================================================
