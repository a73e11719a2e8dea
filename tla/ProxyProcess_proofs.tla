------------------------ MODULE ProxyProcess_proofs ------------------------
(***************************************************************************)
(* Proofs about ProxyProcess, for any set of models, any number of batches *)
(* and requests and any threads that are slow to fall asleep: compute      *)
(* never takes from an empty queue nor runs a model that is not in memory, *)
(* and no batch is lost, doubled or overtaken between the two sockets.     *)
(***************************************************************************)
EXTENDS ProxyProcess, SequenceTheorems, NaturalsInduction,
        WellFoundedInduction, TLAPS

-----------------------------------------------------------------------------
(***************************************************************************)
(* The inductive invariant.                                                *)
(***************************************************************************)

Batch == [act : {"RUN"}, model : Models, id : Nat]
Asking == [act : {"LOAD", "UNLOAD"}, model : Models, id : {0}]
Message == Batch \cup Asking \cup {Close}

Places == {"listen", "accept", "read", "body", "queue", "close", "test",
           "tested", "blocked", "handle", "check", "mark", "init", "ready",
           "forward", "push", "lost", "write", "poll", "join", "flushed",
           "return", "end", "gone"}

TypeOK ==
    /\ fpc \in {"boot", "idle", "unrouted", "LOAD", "UNLOAD", "flush", "cold",
                "off"}
    /\ requests \in Nat
    /\ routed \subseteq Models
    /\ sent \in Seq(Batch) /\ received \in Seq(Batch)
    /\ inSock \in Seq(Message) /\ outSock \in Seq(Batch)
    /\ g_exitFlag \in BOOLEAN /\ g_receivingFlag \in BOOLEAN
    /\ g_InputQueue \in Seq(Batch) /\ g_OutputQueue \in Seq(Batch)
    /\ g_ControlQueue \in Seq(Asking)
    /\ pc \in [Threads -> Places]
    /\ elem \in [Threads -> Message \cup {NoElem}]

\* What a thread holds at each of its places.  g_receivingFlag is set between
\* the header of a batch and its end only.
PlacesInv ==
    /\ pc["recvInput"] \notin {"body", "queue", "close", "gone"}
         => elem["recvInput"] = NoElem
    /\ pc["recvInput"] = "body" => elem["recvInput"] \in Batch
    /\ pc["recvInput"] = "queue" => elem["recvInput"] \in Batch \cup Asking
    /\ pc["recvInput"] = "close" => elem["recvInput"] = Close
    /\ g_receivingFlag => pc["recvInput"] \in {"body", "gone"}
                          /\ elem["recvInput"] \in Batch
    /\ pc["loadControl"] = "handle" => elem["loadControl"] \in Asking
    /\ pc["compute"] # "lost"
    /\ pc["compute"] \notin {"forward", "push", "gone"} => elem["compute"] = NoElem
    /\ pc["compute"] \in {"forward", "push"} => elem["compute"] \in Batch
    /\ pc["send_output"] \notin {"write", "gone"} => elem["send_output"] = NoElem
    /\ pc["send_output"] = "write" => elem["send_output"] \in Batch

\* The shutdown has begun; until then there is no EXITING.
Leaving == fpc \in {"flush", "cold", "off"}

\* The models that may have batches in the process.
Live == routed \cup (IF fpc = "unrouted" THEN {fmodel} ELSE {})

\* Where the one request is that may be under way.
AllRuns == \A j \in 1 .. Len(inSock) : IsRun(inSock[j])
ControlIdle == pc["loadControl"] \notin {"handle", "check", "mark"}
NotHeld == elem["recvInput"] \notin Asking
OnSocket(M) ==
    /\ \E k \in 1 .. Len(inSock) :
          /\ inSock[k] = M
          /\ \A j \in 1 .. Len(inSock) : j # k => IsRun(inSock[j])
    /\ NotHeld /\ g_ControlQueue = <<>> /\ ControlIdle
Held(M) ==
    /\ AllRuns /\ pc["recvInput"] = "queue" /\ elem["recvInput"] = M
    /\ g_ControlQueue = <<>> /\ ControlIdle
Queued(M) ==
    AllRuns /\ NotHeld /\ g_ControlQueue = <<M>> /\ ControlIdle
Handling(M) ==
    /\ AllRuns /\ NotHeld /\ g_ControlQueue = <<>>
    /\ pc["loadControl"] = "handle" /\ elem["loadControl"] = M
Handled ==
    /\ AllRuns /\ NotHeld /\ g_ControlQueue = <<>>
    /\ pc["loadControl"] \in {"check", "mark"}
Quiet == AllRuns /\ NotHeld /\ g_ControlQueue = <<>> /\ ControlIdle

OnTheWay(M) == OnSocket(M) \/ Held(M) \/ Queued(M) \/ Handling(M)

\* The request of the frontend is under way, is handled, or is answered.
Requesting ==
    \/ /\ shm = "LOADING"
       /\ \E M \in Asking : M.act = fpc /\ M.model = fmodel /\ OnTheWay(M)
    \/ shm = "LOADING" /\ Handled /\ (fpc = "LOAD" => fmodel \in g_modelTable)
    \/ shm = "RUNNING" /\ Quiet /\ (fpc = "LOAD" => fmodel \in g_modelTable)

PhaseInv ==
    /\ fpc = "boot" => Quiet /\ routed = {} /\ shm \in {"BOOTING", "RUNNING"}
    /\ fpc \in {"idle", "unrouted"} => Quiet /\ shm = "RUNNING"
    /\ fpc \in {"LOAD", "UNLOAD"} => Requesting
    /\ fpc \in {"unrouted", "LOAD", "UNLOAD"} => fmodel \in Models
    /\ fpc \in {"unrouted", "UNLOAD"} => fmodel \notin routed
    /\ Live \subseteq g_modelTable
    /\ pc["compute"] \in {"init", "ready"} => fpc = "boot" /\ shm = "BOOTING"
    /\ Leaving => routed = {} /\ received = sent
    /\ g_exitFlag => Leaving
    /\ pc["control"] \in {"end", "gone"} => g_exitFlag
    /\ pc["main"] # "join" => g_exitFlag

\* The batches between the frontend's two sockets.
Rest ==
    outSock \o (HeldBatch("send_output") \o (g_OutputQueue
        \o (HeldBatch("compute") \o (g_InputQueue
        \o (HeldBatch("recvInput") \o Runs(inSock))))))

FlowInv ==
    /\ sent = received \o Rest
    /\ \A j \in 1 .. Len(Rest) : Rest[j].model \in Live

IInv == TypeOK /\ PlacesInv /\ PhaseInv /\ FlowInv

-----------------------------------------------------------------------------
(***************************************************************************)
(* Facts about sequences.                                                  *)
(***************************************************************************)

\* Induction up to N, with the set of the numbers that have the property: the
\* least number without it would not be 0 and would follow one that has it.
LEMMA UpTo ==
    ASSUME NEW N \in Nat, NEW G, 0 \in G,
           \A n \in 1 .. N : n - 1 \in G => n \in G
    PROVE  N \in G
<1> DEFINE T == (0 .. N) \ G
           R == OpToRel(<, Nat)
<1> SUFFICES ASSUME N \notin G PROVE FALSE
  OBVIOUS
<1>1. IsWellFoundedOn(R, Nat)
  BY NatLessThanWellFounded
<1>2. \A x, y \in Nat : y < x => <<y, x>> \in R
  BY DEF OpToRel
<1> HIDE DEF R
<1>3. T \subseteq Nat /\ T # {}
  OBVIOUS
<1>4. PICK n \in T : \A k \in T : ~ (<<k, n>> \in R)
  <2> HIDE DEF T
  <2> QED
    BY <1>1, <1>3, WFMin
<1>5. \A k \in T : ~ (k < n)
  <2> HIDE DEF T
  <2> QED
    BY <1>2, <1>3, <1>4, Zenon
<1>6. n \in 1 .. N /\ n - 1 \notin T
  BY <1>4, <1>5
<1> QED
  BY <1>4, <1>6

\* Stages in a row, for sequences of batches.
LEMMA BatchAssoc == \A r, s, t \in Seq(Batch) : (r \o s) \o t = r \o (s \o t)
  BY ConcatAssociative

\* Two stages are a stage.
LEMMA BatchConcat == \A r, s \in Seq(Batch) : r \o s \in Seq(Batch)
  BY ConcatProperties

\* An empty stage.
LEMMA BatchEmpty ==
    <<>> \in Seq(Batch) /\ \A r \in Seq(Batch) : r \o <<>> = r /\ <<>> \o r = r
<1>1. <<>> \in Seq(Batch)
  OBVIOUS
<1>2. \A r \in Seq(Batch) : r \o <<>> = r /\ <<>> \o r = r
  BY ConcatEmptySeq
<1> QED
  BY <1>1, <1>2

\* Stages that are empty together, and one that adds nothing.
LEMMA BatchNothing ==
    \A r, s \in Seq(Batch) : /\ r \o s = r => s = <<>>
                             /\ r \o s = <<>> => r = <<>> /\ s = <<>>
  BY ConcatEqualIffEmpty

\* A batch enters a stage from behind.
LEMMA BatchEnters ==
    \A s \in Seq(Batch), b \in Batch :
        <<b>> \in Seq(Batch) /\ Append(s, b) \in Seq(Batch) /\ Append(s, b) = s \o <<b>>
  BY AppendIsConcat

\* A batch that enters the last stage of two enters the two as a whole.
LEMMA BatchAppend ==
    \A s, t \in Seq(Batch), b \in Batch : Append(s \o t, b) = s \o Append(t, b)
<1> TAKE s, t \in Seq(Batch), b \in Batch
<1>1. Append(t, b) = t \o <<b>> /\ <<b>> \in Seq(Batch)
  BY BatchEnters
<1>2. Append(s \o t, b) = (s \o t) \o <<b>>
  BY BatchEnters, BatchConcat
<1>3. (s \o t) \o <<b>> = s \o (t \o <<b>>)
  BY <1>1, BatchAssoc
<1> QED
  BY <1>1, <1>2, <1>3

\* The batches among the first n messages of s (Runs).
RunsOf(s, n, f) == IF n = 0 THEN <<>>
                   ELSE IF IsRun(s[n]) THEN Append(f[n - 1], s[n])
                   ELSE f[n - 1]
Solves(s, n, f) == f = [i \in 0 .. n |-> RunsOf(s, i, f)]

\* The recursion of Runs has a solution up to every n, ...
LEMMA RunsExist ==
    ASSUME NEW s, NEW N \in Nat
    PROVE  \E f : Solves(s, N, f)
<1> DEFINE G == {n \in Nat : \E f : Solves(s, n, f)}
<1>1. 0 \in G
  <2> DEFINE f0 == [i \in 0 .. 0 |-> <<>>]
  <2>1. Solves(s, 0, f0)
    BY DEF Solves, RunsOf
  <2> QED
    BY <2>1
<1>2. ASSUME NEW n \in 1 .. N, n - 1 \in G PROVE n \in G
  <2>1. PICK f : Solves(s, n - 1, f)
    BY <1>2
  <2> DEFINE g == [i \in 0 .. n |-> IF i = n THEN RunsOf(s, n, f) ELSE f[i]]
  <2>2. \A i \in 0 .. n : g[i] = RunsOf(s, i, g)
    <3> SUFFICES ASSUME NEW i \in 0 .. n PROVE g[i] = RunsOf(s, i, g)
      OBVIOUS
    <3>1. i # 0 => g[i - 1] = f[i - 1]
      OBVIOUS
    <3>2. RunsOf(s, i, g) = RunsOf(s, i, f)
      BY <3>1 DEF RunsOf
    <3>3. i # n => f[i] = RunsOf(s, i, f)
      <4>1. i # n => i \in 0 .. n - 1
        OBVIOUS
      <4> QED
        BY <2>1, <4>1 DEF Solves
    <3> QED
      BY <3>2, <3>3
  <2>3. g = [i \in 0 .. n |-> g[i]]
    OBVIOUS
  <2> HIDE DEF g
  <2>4. [i \in 0 .. n |-> g[i]] = [i \in 0 .. n |-> RunsOf(s, i, g)]
    BY <2>2
  <2>5. Solves(s, n, g)
    BY <2>3, <2>4 DEF Solves
  <2>6. \E h : Solves(s, n, h)
    BY <2>5
  <2> QED
    BY <2>6
<1>3. N \in G
  <2> HIDE DEF G
  <2> QED
    BY <1>1, <1>2, UpTo, Zenon
<1> QED
  BY <1>3

\* ... and Runs is its last value.
LEMMA RunsSolved ==
    ASSUME NEW s \in Seq(Message)
    PROVE  \E f : /\ \A i \in 0 .. Len(s) : f[i] = RunsOf(s, i, f)
                  /\ Runs(s) = f[Len(s)]
<1> DEFINE N == Len(s)
           runs == CHOOSE f : Solves(s, N, f)
<1>1. N \in Nat
  OBVIOUS
<1>2. Solves(s, N, runs)
  <2> HIDE DEF N
  <2> QED
    BY <1>1, RunsExist
<1>3. Runs(s) = runs[N]
  BY DEF Runs, Solves, RunsOf
<1> HIDE DEF runs
<1>4. \A i \in 0 .. N : runs[i] = RunsOf(s, i, runs)
  BY <1>2 DEF Solves
<1> QED
  BY <1>3, <1>4

\* There are only batches among them.
LEMMA RunsType ==
    ASSUME NEW s \in Seq(Message)
    PROVE  Runs(s) \in Seq(Batch)
<1>1. PICK f : /\ \A i \in 0 .. Len(s) : f[i] = RunsOf(s, i, f)
               /\ Runs(s) = f[Len(s)]
  BY RunsSolved
<1> DEFINE N == Len(s)
           G == {n \in Nat : f[n] \in Seq(Batch)}
<1>2. N \in Nat
  OBVIOUS
<1>3. 0 \in G
  <2>1. f[0] = <<>>
    BY <1>1, <1>2 DEF RunsOf
  <2>2. <<>> \in Seq(Batch)
    OBVIOUS
  <2>3. f[0] \in Seq(Batch)
    BY <2>1, <2>2, Zenon
  <2> QED
    BY <2>3
<1>4. ASSUME NEW n \in 1 .. N, n - 1 \in G PROVE n \in G
  <2>1. f[n - 1] \in Seq(Batch)
    BY <1>4
  <2>2. s[n] \in Message /\ n \in 0 .. N /\ n # 0 /\ n \in Nat
    BY <1>2
  <2>3. IsRun(s[n]) => s[n] \in Batch
    BY <2>2 DEF IsRun, Message, Batch, Asking, Close
  <2>4. f[n] = RunsOf(s, n, f)
    BY <1>1, <2>2
  <2>5. CASE IsRun(s[n])
    <3>1. f[n] = Append(f[n - 1], s[n])
      BY <2>2, <2>4, <2>5, Zenon DEF RunsOf
    <3>2. f[n] \in Seq(Batch)
      BY <2>1, <2>3, <2>5, <3>1, AppendProperties
    <3> QED
      BY <2>2, <3>2
  <2>6. CASE ~IsRun(s[n])
    <3>1. f[n] = f[n - 1]
      BY <2>2, <2>4, <2>6, Zenon DEF RunsOf
    <3> QED
      BY <2>1, <2>2, <3>1
  <2> QED
    BY <2>5, <2>6
<1>5. N \in G
  <2> HIDE DEF G, N
  <2> QED
    BY <1>2, <1>3, <1>4, UpTo, Zenon
<1> QED
  BY <1>1, <1>5

\* What was received first does not depend on what comes later.
LEMMA RunsSame ==
    ASSUME NEW s, NEW t, NEW f, NEW g, NEW N \in Nat,
           \A i \in 1 .. N : s[i] = t[i],
           \A i \in 0 .. N : f[i] = RunsOf(s, i, f),
           \A i \in 0 .. N : g[i] = RunsOf(t, i, g)
    PROVE  f[N] = g[N]
<1> DEFINE G == {n \in Nat : f[n] = g[n]}
<1>1. 0 \in G
  BY DEF RunsOf
<1>2. ASSUME NEW n \in 1 .. N, n - 1 \in G PROVE n \in G
  <2>1. f[n - 1] = g[n - 1] /\ s[n] = t[n] /\ n \in 0 .. N /\ n \in Nat
    BY <1>2
  <2>2. RunsOf(s, n, f) = RunsOf(t, n, g)
    BY <2>1 DEF RunsOf
  <2>3. f[n] = g[n]
    BY <2>1, <2>2
  <2> QED
    BY <2>1, <2>3
<1>3. N \in G
  <2> HIDE DEF G
  <2> QED
    BY <1>1, <1>2, UpTo, Zenon
<1> QED
  BY <1>3

\* A message sent: its batch, if it is one, is the last.
LEMMA RunsAppend ==
    ASSUME NEW s \in Seq(Message), NEW e \in Message
    PROVE  Runs(Append(s, e)) = IF IsRun(e) THEN Append(Runs(s), e) ELSE Runs(s)
<1> DEFINE t == Append(s, e)
           N == Len(s)
<1>1. /\ t \in Seq(Message) /\ Len(t) = N + 1 /\ N \in Nat
      /\ t[N + 1] = e
      /\ \A i \in 1 .. N : t[i] = s[i]
  BY AppendProperties
<1> HIDE DEF t
<1>2. PICK f : /\ \A i \in 0 .. N : f[i] = RunsOf(s, i, f)
               /\ Runs(s) = f[N]
  BY RunsSolved
<1>3. PICK g : /\ \A i \in 0 .. Len(t) : g[i] = RunsOf(t, i, g)
               /\ Runs(t) = g[Len(t)]
  BY <1>1, RunsSolved
<1> HIDE DEF N
<1>4. \A i \in 0 .. N : g[i] = RunsOf(t, i, g)
  BY <1>1, <1>3
<1>5. f[N] = g[N]
  BY <1>1, <1>2, <1>4, RunsSame, SMTT(40)
<1>6. g[N + 1] = RunsOf(t, N + 1, g)
  BY <1>1, <1>3
<1>7. N + 1 # 0 /\ (N + 1) - 1 = N
  BY <1>1
<1>8. g[N + 1] = IF IsRun(e) THEN Append(g[N], e) ELSE g[N]
  BY <1>1, <1>6, <1>7 DEF RunsOf
<1>9. Runs(t) = g[N + 1]
  BY <1>1, <1>3
<1> QED
  BY <1>2, <1>5, <1>8, <1>9, Zenon DEF t

\* A message received: its batch, if it is one, was the first.
LEMMA RunsTail ==
    ASSUME NEW s \in Seq(Message), s # <<>>
    PROVE  Runs(s) = (IF IsRun(Head(s)) THEN <<Head(s)>> ELSE <<>>)
                     \o Runs(Tail(s))
<1> DEFINE t == Tail(s)
           N == Len(t)
           first == IF IsRun(Head(s)) THEN <<Head(s)>> ELSE <<>>
<1>1. /\ t \in Seq(Message) /\ Len(s) = N + 1 /\ N \in Nat
      /\ Head(s) = s[1] /\ Head(s) \in Message
      /\ \A i \in 1 .. N : t[i] = s[i + 1] /\ t[i] \in Message
  BY HeadTailProperties, EmptySeq
<1>2. first \in Seq(Batch)
  <2>1. IsRun(Head(s)) => Head(s) \in Batch
    BY <1>1 DEF IsRun, Message, Batch, Asking, Close
  <2>2. <<>> \in Seq(Batch)
    OBVIOUS
  <2> QED
    BY <2>1, <2>2
<1>3. PICK f : /\ \A i \in 0 .. Len(s) : f[i] = RunsOf(s, i, f)
               /\ Runs(s) = f[Len(s)]
  BY RunsSolved
<1>4. PICK g : /\ \A i \in 0 .. N : g[i] = RunsOf(t, i, g)
               /\ Runs(t) = g[N]
  BY <1>1, RunsSolved
<1>5. f[1] = first
  <2>1. f[0] = <<>>
    BY <1>1, <1>3 DEF RunsOf
  <2>2. f[1] = RunsOf(s, 1, f)
    BY <1>1, <1>3
  <2>3. f[1] = IF IsRun(s[1]) THEN Append(<<>>, s[1]) ELSE <<>>
    <3>1. 1 # 0 /\ 1 - 1 = 0
      OBVIOUS
    <3>2. f[1 - 1] = <<>>
      BY <2>1, <3>1
    <3> QED
      BY <2>2, <3>1, <3>2, Zenon DEF RunsOf
  <2> QED
    BY <1>1, <2>3
<1> HIDE DEF t, N, first
<1> DEFINE G == {n \in Nat : g[n] \in Seq(Batch) /\ f[n + 1] = first \o g[n]}
<1>6. 0 \in G
  <2>1. g[0] = <<>>
    BY <1>1, <1>4 DEF RunsOf
  <2>2. <<>> \in Seq(Batch)
    OBVIOUS
  <2>4. first = first \o <<>>
    BY <1>2, ConcatEmptySeq
  <2>3. g[0] \in Seq(Batch) /\ f[0 + 1] = first \o g[0]
    BY <1>5, <2>1, <2>2, <2>4
  <2> QED
    BY <2>3
<1>7. ASSUME NEW n \in 1 .. N, n - 1 \in G PROVE n \in G
  <2>1. g[n - 1] \in Seq(Batch) /\ f[n] = first \o g[n - 1]
    BY <1>7
  <2>2. /\ n \in Nat /\ n \in 0 .. N /\ n # 0
        /\ n + 1 \in 0 .. Len(s) /\ n + 1 # 0 /\ (n + 1) - 1 = n
    BY <1>1
  <2>3. t[n] = s[n + 1] /\ t[n] \in Message
    BY <1>1
  <2>4. g[n] = RunsOf(t, n, g) /\ f[n + 1] = RunsOf(s, n + 1, f)
    BY <1>3, <1>4, <2>2
  <2>5. CASE IsRun(t[n])
    <3>1. t[n] \in Batch
      BY <2>3, <2>5 DEF IsRun, Message, Batch, Asking, Close
    <3>2. g[n] = Append(g[n - 1], t[n])
      BY <2>2, <2>4, <2>5, Zenon DEF RunsOf
    <3>3. f[n + 1] = Append(f[n], t[n])
      <4>1. IsRun(s[n + 1])
        BY <2>3, <2>5
      <4>2. f[n + 1] = Append(f[(n + 1) - 1], s[n + 1])
        BY <2>2, <2>4, <4>1, Zenon DEF RunsOf
      <4> QED
        BY <2>2, <2>3, <4>2
    <3>4. g[n] \in Seq(Batch)
      <4>1. Append(g[n - 1], t[n]) \in Seq(Batch)
        BY <2>1, <3>1, AppendProperties, Zenon
      <4> QED
        BY <3>2, <4>1, Zenon
    <3>5. Append(first \o g[n - 1], t[n]) = first \o Append(g[n - 1], t[n])
      BY <1>2, <2>1, <3>1, BatchAppend, Zenon
    <3>6. f[n + 1] = first \o g[n]
      BY <2>1, <3>2, <3>3, <3>5, Zenon
    <3> QED
      BY <2>2, <3>4, <3>6
  <2>6. CASE ~IsRun(t[n])
    <3>1. g[n] = g[n - 1]
      BY <2>2, <2>4, <2>6, Zenon DEF RunsOf
    <3>2. f[n + 1] = f[n]
      <4>1. ~IsRun(s[n + 1])
        BY <2>3, <2>6
      <4>2. f[n + 1] = f[(n + 1) - 1]
        BY <2>2, <2>4, <4>1, Zenon DEF RunsOf
      <4> QED
        BY <2>2, <4>2
    <3>3. g[n] \in Seq(Batch) /\ f[n + 1] = first \o g[n]
      BY <2>1, <3>1, <3>2, Zenon
    <3> QED
      BY <2>2, <3>3
  <2> QED
    BY <2>5, <2>6
<1>8. N \in G
  <2> HIDE DEF G
  <2> QED
    BY <1>1, <1>6, <1>7, UpTo, Zenon
<1>9. Runs(s) = first \o Runs(t)
  BY <1>1, <1>3, <1>4, <1>8
<1> QED
  BY <1>9 DEF first, t

\* A batch that is held moves on to the end of the stage before it, ...
LEMMA HeldMovesOn ==
    \A p, q \in Seq(Batch), b \in Batch :
        p \o (<<b>> \o q) = Append(p, b) \o (<<>> \o q)
<1> TAKE p, q \in Seq(Batch), b \in Batch
<1>1. Append(p, b) = p \o <<b>> /\ <<b>> \in Seq(Batch)
  BY BatchEnters
<1>2. (p \o <<b>>) \o q = p \o (<<b>> \o q)
  BY <1>1, BatchAssoc
<1>3. <<>> \o q = q
  BY BatchEmpty
<1> QED
  BY <1>1, <1>2, <1>3

\* ... and the front of a queue is taken and held.
LEMMA FrontIsHeld ==
    \A p, q \in Seq(Batch) : p # <<>> =>
        /\ Head(p) \in Batch /\ Tail(p) \in Seq(Batch)
        /\ <<>> \o (p \o q) = <<Head(p)>> \o (Tail(p) \o q)
<1> TAKE p, q \in Seq(Batch)
<1> HAVE p # <<>>
<1>1. Head(p) \in Batch /\ Tail(p) \in Seq(Batch) /\ p = <<Head(p)>> \o Tail(p)
  <2>1. /\ Head(p) \in Batch /\ Tail(p) \in Seq(Batch) /\ Len(Tail(p)) = Len(p) - 1
        /\ \A i \in 1 .. Len(Tail(p)) : Tail(p)[i] = p[i + 1]
        /\ Head(p) = p[1]
    BY HeadTailProperties
  <2>2. <<Head(p)>> \in Seq(Batch) /\ Len(<<Head(p)>>) = 1 /\ <<Head(p)>>[1] = Head(p)
    BY <2>1
  <2>3. Len(p) \in Nat \ {0}
    BY EmptySeq
  <2> DEFINE h == <<Head(p)>>
             u == Tail(p)
  <2> HIDE DEF h, u
  <2>4. /\ h \o u \in Seq(Batch)
        /\ Len(h \o u) = 1 + Len(u)
        /\ \A i \in 1 .. 1 + Len(u) : (h \o u)[i] = IF i <= 1 THEN h[i] ELSE u[i - 1]
    BY <2>1, <2>2, ConcatProperties DEF h, u
  <2>5. \A i \in 1 .. Len(p) : (h \o u)[i] = p[i]
    BY <2>1, <2>2, <2>3, <2>4 DEF h, u
  <2>6. Len(h \o u) = Len(p)
    BY <2>1, <2>3, <2>4 DEF h, u
  <2>7. p = h \o u
    BY <2>4, <2>5, <2>6, SeqEqual
  <2> QED
    BY <2>1, <2>7 DEF h, u
<1>2. <<Head(p)>> \in Seq(Batch) /\ p \o q \in Seq(Batch)
  BY <1>1, BatchConcat
<1>3. <<>> \o (p \o q) = p \o q
  BY <1>2, BatchEmpty
<1>4. (<<Head(p)>> \o Tail(p)) \o q = <<Head(p)>> \o (Tail(p) \o q)
  BY <1>1, <1>2, BatchAssoc
<1> QED
  BY <1>1, <1>3, <1>4

\* What a thread holds is one batch or none.
LEMMA HeldType ==
    ASSUME TypeOK, NEW t \in Threads
    PROVE  /\ HeldBatch(t) \in Seq(Batch)
           /\ elem[t] \in Batch => HeldBatch(t) = <<elem[t]>>
           /\ elem[t] \notin Batch => HeldBatch(t) = <<>>
<1>1. elem[t] \in Message \cup {NoElem}
  BY DEF TypeOK
<1>2. IsRun(elem[t]) <=> elem[t] \in Batch
  BY <1>1 DEF IsRun, Message, Batch, Asking, Close, NoElem
<1>3. CASE elem[t] \in Batch
  BY <1>2, <1>3, BatchEnters, BatchEmpty DEF HeldBatch
<1>4. CASE elem[t] \notin Batch
  <2>1. HeldBatch(t) = <<>>
    BY <1>2, <1>4 DEF HeldBatch
  <2> QED
    BY <1>4, <2>1, BatchEmpty
<1> QED
  BY <1>3, <1>4

\* What is no batch.
LEMMA NotBatch == /\ NoElem \notin Batch /\ Close \notin Batch
                  /\ \A M \in Asking : M \notin Batch /\ ~IsRun(M)
                  /\ NoElem \notin Asking /\ Close \notin Asking
                  /\ \A b \in Batch : IsRun(b) /\ b \notin Asking
  BY DEF NoElem, Close, Asking, Batch, IsRun

\* The rests of Rest.
Rest1 == HeldBatch("recvInput") \o Runs(inSock)
Rest2 == g_InputQueue \o Rest1
Rest3 == HeldBatch("compute") \o Rest2
Rest4 == g_OutputQueue \o Rest3
Rest5 == HeldBatch("send_output") \o Rest4

\* What is behind the socket of the results, before a step and after it.
LEMMA RestIs == Rest = outSock \o Rest5 /\ Rest' = outSock' \o Rest5'
  BY DEF Rest, Rest1, Rest2, Rest3, Rest4, Rest5

\* They are sequences of batches.
LEMMA RestType ==
    ASSUME TypeOK
    PROVE  /\ Runs(inSock) \in Seq(Batch) /\ Rest1 \in Seq(Batch)
           /\ Rest2 \in Seq(Batch) /\ Rest3 \in Seq(Batch)
           /\ Rest4 \in Seq(Batch) /\ Rest5 \in Seq(Batch)
           /\ Rest = outSock \o Rest5 /\ Rest \in Seq(Batch)
<1>1. /\ inSock \in Seq(Message) /\ outSock \in Seq(Batch)
      /\ g_InputQueue \in Seq(Batch) /\ g_OutputQueue \in Seq(Batch)
  BY DEF TypeOK
<1>2. Runs(inSock) \in Seq(Batch)
  BY <1>1, RunsType
<1>3. /\ HeldBatch("recvInput") \in Seq(Batch) /\ HeldBatch("compute") \in Seq(Batch)
      /\ HeldBatch("send_output") \in Seq(Batch)
  BY HeldType DEF Threads
<1>4. Rest1 \in Seq(Batch)
  BY <1>2, <1>3, BatchConcat DEF Rest1
<1>5. Rest2 \in Seq(Batch)
  BY <1>1, <1>4, BatchConcat DEF Rest2
<1>6. Rest3 \in Seq(Batch)
  BY <1>3, <1>5, BatchConcat DEF Rest3
<1>7. Rest4 \in Seq(Batch)
  BY <1>1, <1>6, BatchConcat DEF Rest4
<1>8. Rest5 \in Seq(Batch)
  BY <1>3, <1>7, BatchConcat DEF Rest5
<1>9. Rest = outSock \o Rest5
  BY DEF Rest, Rest1, Rest2, Rest3, Rest4, Rest5
<1>10. Rest \in Seq(Batch)
  BY <1>1, <1>8, <1>9, BatchConcat
<1> QED
  BY <1>2, <1>4, <1>5, <1>6, <1>7, <1>8, <1>9, <1>10

-----------------------------------------------------------------------------
(***************************************************************************)
(* The steps of the threads.                                               *)
(***************************************************************************)

\* t is at place, and the others where they were, or notified.
Moved(t, place) ==
    /\ pc' \in [Threads -> Places]
    /\ pc'[t] = place
    /\ \A u \in Threads \ {t} :
          pc'[u] = pc[u] \/ (pc[u] = "blocked" /\ pc'[u] = "test")

\* A step of one thread, ...
LEMMA GoMoves ==
    ASSUME TypeOK, NEW t \in Threads, NEW place \in Places, Go(t, place)
    PROVE  Moved(t, place)
<1>1. pc \in [Threads -> Places] /\ pc' = [pc EXCEPT ![t] = place]
  BY DEF Go, TypeOK
<1>2. pc' \in [Threads -> Places] /\ pc'[t] = place
  BY <1>1
<1>3. \A u \in Threads \ {t} : pc'[u] = pc[u]
  BY <1>1
<1> QED
  BY <1>2, <1>3 DEF Moved

\* ... and one that notifies others.
LEMMA NotifyMoves ==
    ASSUME TypeOK, NEW t \in Threads, NEW place \in Places, NEW ts,
           Notify(t, place, ts)
    PROVE  Moved(t, place)
<1>1. pc \in [Threads -> Places]
  BY DEF TypeOK
<1>2. \A u \in Threads : pc'[u] = IF u = t THEN place
                                  ELSE IF u \in ts /\ pc[u] = "blocked" THEN "test"
                                  ELSE pc[u]
  BY DEF Notify
<1>3. pc' = [u \in Threads |-> pc'[u]]
  BY DEF Notify
<1>4. "test" \in Places
  BY DEF Places
<1>5. \A u \in Threads : pc'[u] \in Places
  BY <1>1, <1>2, <1>4
<1>6. pc' \in [Threads -> Places]
  BY <1>3, <1>5
<1> QED
  <2>1. pc'[t] = place
    BY <1>2
  <2>2. \A u \in Threads \ {t} : pc'[u] = pc[u] \/ (pc[u] = "blocked" /\ pc'[u] = "test")
    BY <1>2
  <2> QED
    BY <1>6, <2>1, <2>2 DEF Moved

-----------------------------------------------------------------------------
(***************************************************************************)
(* What a step leaves alone.                                               *)
(***************************************************************************)

\* Batches that only move on are the same batches.
LEMMA FlowFrame ==
    ASSUME FlowInv, UNCHANGED <<sent, received>>, Rest' = Rest,
           Live \subseteq Live'
    PROVE  FlowInv'
<1>1. sent' = received' \o Rest'
  BY DEF FlowInv
<1>2. \A j \in 1 .. Len(Rest') : Rest'[j].model \in Live'
  BY DEF FlowInv
<1> QED
  BY <1>1, <1>2 DEF FlowInv

\* Nobody touches a batch.
LEMMA RestFrame ==
    ASSUME UNCHANGED <<outSock, inSock, g_InputQueue, g_OutputQueue, elem>>
    PROVE  Rest' = Rest
<1>1. /\ HeldBatch("send_output")' = HeldBatch("send_output")
      /\ HeldBatch("compute")' = HeldBatch("compute")
      /\ HeldBatch("recvInput")' = HeldBatch("recvInput")
  BY DEF HeldBatch
<1>2. Runs(inSock)' = Runs(inSock)
  OBVIOUS
<1> QED
  BY <1>1, <1>2, Zenon DEF Rest

\* A step that has nothing to do with the request under way, nor with the
\* life of the process: it changes no state that they depend on.
Aside ==
    /\ UNCHANGED <<frontVars, shm, g_ControlQueue, g_modelTable, g_exitFlag>>
    /\ UNCHANGED inSock
    /\ elem["recvInput"] \in Asking
         => elem'["recvInput"] = elem["recvInput"] /\ pc'["recvInput"] = pc["recvInput"]
    /\ elem["recvInput"] \notin Asking => elem'["recvInput"] \notin Asking
    /\ elem'["loadControl"] = elem["loadControl"]
    /\ \A p \in {"handle", "check", "mark"} :
          pc'["loadControl"] = p <=> pc["loadControl"] = p
    /\ pc'["compute"] \in {"init", "ready"} => pc["compute"] \in {"init", "ready"}
    /\ pc'["control"] \in {"end", "gone"} => pc["control"] \in {"end", "gone"}
    /\ pc'["main"] # "join" => pc["main"] # "join"

\* Such a step keeps the request and the life of the process as they are.
LEMMA PhaseFrame ==
    ASSUME PhaseInv, Aside
    PROVE  PhaseInv' /\ Live' = Live
<1>1. UNCHANGED <<fpc, fmodel, requests, routed, sent, received, shm, inSock,
                  g_ControlQueue, g_modelTable, g_exitFlag>>
  BY DEF Aside, frontVars
<1>2. Live' = Live /\ AllRuns' = AllRuns /\ (Leaving' <=> Leaving)
  BY <1>1 DEF Live, AllRuns, Leaving
<1>3. /\ ControlIdle' <=> ControlIdle
      /\ NotHeld => NotHeld'
  BY DEF Aside, ControlIdle, NotHeld
<1>4. Quiet => Quiet'
  BY <1>1, <1>2, <1>3 DEF Quiet
<1>5. Handled => Handled'
  BY <1>1, <1>2, <1>3 DEF Handled, Aside
<1>6. ASSUME NEW M \in Asking, OnTheWay(M) PROVE OnTheWay(M)'
  <2>1. CASE OnSocket(M)
    <3>1. OnSocket(M)'
      BY <1>1, <1>3, <2>1 DEF OnSocket
    <3> QED
      BY <3>1 DEF OnTheWay
  <2>2. CASE Held(M)
    <3>1. Held(M)'
      BY <1>1, <1>2, <1>3, <2>2 DEF Held, Aside
    <3> QED
      BY <3>1 DEF OnTheWay
  <2>3. CASE Queued(M)
    <3>1. Queued(M)'
      BY <1>1, <1>2, <1>3, <2>3 DEF Queued
    <3> QED
      BY <3>1 DEF OnTheWay
  <2>4. CASE Handling(M)
    <3>1. Handling(M)'
      BY <1>1, <1>2, <1>3, <2>4 DEF Handling, Aside
    <3> QED
      BY <3>1 DEF OnTheWay
  <2> QED
    BY <1>6, <2>1, <2>2, <2>3, <2>4 DEF OnTheWay
<1>7. fpc' \in {"LOAD", "UNLOAD"} => Requesting'
  <2> SUFFICES ASSUME fpc \in {"LOAD", "UNLOAD"} PROVE Requesting'
    BY <1>1
  <2>1. Requesting
    BY DEF PhaseInv
  <2>2. CASE \E M \in Asking : M.act = fpc /\ M.model = fmodel /\ OnTheWay(M)
    <3>1. PICK M \in Asking : M.act = fpc /\ M.model = fmodel /\ OnTheWay(M)
      BY <2>2
    <3>2. OnTheWay(M)'
      BY <1>6, <3>1
    <3>3. M.act = fpc' /\ M.model = fmodel'
      BY <1>1, <3>1
    <3> QED
      BY <1>1, <1>4, <1>5, <2>1, <3>2, <3>3 DEF Requesting
  <2> QED
    BY <1>1, <1>4, <1>5, <2>1, <2>2 DEF Requesting
<1>8. pc'["compute"] \in {"init", "ready"} => fpc' = "boot" /\ shm' = "BOOTING"
  BY <1>1 DEF PhaseInv, Aside
<1>9. /\ pc'["control"] \in {"end", "gone"} => g_exitFlag'
      /\ pc'["main"] # "join" => g_exitFlag'
  BY <1>1 DEF PhaseInv, Aside
<1> QED
  BY <1>1, <1>2, <1>4, <1>7, <1>8, <1>9 DEF PhaseInv

-----------------------------------------------------------------------------
(***************************************************************************)
(* One lemma per action.                                                   *)
(***************************************************************************)

\* Steps in which a thread neither takes nor gives anything: it listens,
\* accepts, tests, falls asleep or ends.
LEMMA PcStep ==
    ASSUME IInv, NEW t \in Threads, NEW place \in Places, Moved(t, place),
           UNCHANGED <<frontVars, shm, inSock, outSock, g_exitFlag,
                       g_receivingFlag, queueVars, g_modelTable, elem>>,
           t \notin {"control", "main"},
           t = "recvInput" => /\ pc[t] \notin {"body", "queue", "close", "gone"}
                              /\ place \notin {"body", "queue", "close", "gone"},
           t = "compute" => /\ pc[t] \in {"forward", "push"}
                                 <=> place \in {"forward", "push"}
                            /\ pc[t] # "gone" /\ place \notin {"lost", "gone"}
                            /\ place \in {"init", "ready"} => pc[t] \in {"init", "ready"},
           t = "send_output" => /\ pc[t] \notin {"write", "gone"}
                                /\ place \notin {"write", "gone"},
           t = "loadControl" => /\ pc[t] \notin {"handle", "check", "mark"}
                                /\ place \notin {"handle", "check", "mark"}
    PROVE  IInv'
<1>1. TypeOK /\ PlacesInv /\ PhaseInv /\ FlowInv
  BY DEF IInv
<1>2. /\ UNCHANGED <<fpc, fmodel, requests, routed, sent, received>>
      /\ UNCHANGED <<g_InputQueue, g_OutputQueue, g_ControlQueue>>
      /\ UNCHANGED <<shm, inSock, outSock, g_exitFlag, g_receivingFlag,
                     g_modelTable, elem>>
  BY DEF frontVars, queueVars
<1>3. pc' \in [Threads -> Places]
  BY DEF Moved
<1>4. TypeOK'
  BY <1>1, <1>2, <1>3 DEF TypeOK
<1>5. \A u \in Threads : \/ u = t /\ pc'[u] = place
                         \/ u # t /\ pc'[u] = pc[u]
                         \/ u # t /\ pc[u] = "blocked" /\ pc'[u] = "test"
  BY DEF Moved
<1>6. PlacesInv'
  <2>1. "recvInput" \in Threads /\ "compute" \in Threads /\ "send_output" \in Threads
        /\ "loadControl" \in Threads
    BY DEF Threads
  <2> QED
    BY <1>1, <1>2, <1>5, <2>1 DEF PlacesInv
<1>7. Aside
  <2>1. /\ "recvInput" \in Threads /\ "compute" \in Threads /\ "control" \in Threads
        /\ "loadControl" \in Threads /\ "main" \in Threads
    BY DEF Threads
  <2>2. elem["recvInput"] \in Asking => pc'["recvInput"] = pc["recvInput"]
    BY <1>1, <1>5, <2>1, NotBatch DEF PlacesInv
  <2> QED
    BY <1>2, <1>5, <2>1, <2>2 DEF Aside
<1>8. PhaseInv' /\ Live' = Live
  BY <1>1, <1>7, PhaseFrame
<1>9. Rest' = Rest
  BY <1>2, RestFrame
<1>10. FlowInv'
  BY <1>1, <1>2, <1>8, <1>9, FlowFrame
<1> QED
  BY <1>4, <1>6, <1>8, <1>10 DEF IInv

\* A thread falls asleep.
LEMMA BlockStep ==
    ASSUME IInv, NEW t \in SlowWaiters, Block(t)
    PROVE  IInv'
<1>1. t \in {"loadControl", "compute", "send_output"}
  BY ProxyProcessAssumption
<1>2. TypeOK /\ t \in Threads /\ "blocked" \in Places
  BY <1>1 DEF IInv, Threads, Places
<1>3. Moved(t, "blocked") /\ pc[t] = "tested"
  BY <1>2, GoMoves DEF Block, At
<1>4. UNCHANGED <<frontVars, shm, inSock, outSock, g_exitFlag,
                  g_receivingFlag, queueVars, g_modelTable, elem>>
  BY DEF Block, sockVars, flagVars
<1> QED
  BY <1>1, <1>2, <1>3, <1>4, PcStep

\* recvInput and send_output listen.
LEMMA ListenStep ==
    ASSUME IInv, NEW t \in {"recvInput", "send_output"}, Listen(t)
    PROVE  IInv'
<1>1. TypeOK /\ t \in Threads /\ "accept" \in Places
  BY DEF IInv, Threads, Places
<1>2. Moved(t, "accept") /\ pc[t] = "listen"
  BY <1>1, GoMoves DEF Listen, At
<1>3. UNCHANGED <<frontVars, shm, inSock, outSock, g_exitFlag,
                  g_receivingFlag, queueVars, g_modelTable, elem>>
  BY DEF Listen, sockVars
<1> QED
  BY <1>1, <1>2, <1>3, PcStep

\* recvInput accepts the frontend's connection.
LEMMA AcceptInputStep == IInv /\ AcceptInput => IInv'
<1> SUFFICES ASSUME IInv, AcceptInput PROVE IInv'
  OBVIOUS
<1>1. TypeOK /\ "recvInput" \in Threads /\ "read" \in Places
  BY DEF IInv, Threads, Places
<1>2. Moved("recvInput", "read") /\ pc["recvInput"] = "accept"
  BY <1>1, GoMoves DEF AcceptInput, At
<1>3. UNCHANGED <<frontVars, shm, inSock, outSock, g_exitFlag,
                  g_receivingFlag, queueVars, g_modelTable, elem>>
  BY DEF AcceptInput, sockVars
<1> QED
  BY <1>1, <1>2, <1>3, PcStep

\* send_output accepts it.
LEMMA AcceptOutputStep == IInv /\ AcceptOutput => IInv'
<1> SUFFICES ASSUME IInv, AcceptOutput PROVE IInv'
  OBVIOUS
<1>1. TypeOK /\ "send_output" \in Threads /\ "test" \in Places
  BY DEF IInv, Threads, Places
<1>2. Moved("send_output", "test") /\ pc["send_output"] = "accept"
  BY <1>1, GoMoves DEF AcceptOutput, At
<1>3. UNCHANGED <<frontVars, shm, inSock, outSock, g_exitFlag,
                  g_receivingFlag, queueVars, g_modelTable, elem>>
  BY DEF AcceptOutput, sockVars, flagVars
<1> QED
  BY <1>1, <1>2, <1>3, PcStep

\* compute has initialised its device.
LEMMA ComputeInitStep == IInv /\ ComputeInit => IInv'
<1> SUFFICES ASSUME IInv, ComputeInit PROVE IInv'
  OBVIOUS
<1>1. TypeOK /\ "compute" \in Threads /\ "ready" \in Places
  BY DEF IInv, Threads, Places
<1>2. Moved("compute", "ready") /\ pc["compute"] = "init"
  BY <1>1, GoMoves DEF ComputeInit, At
<1>3. UNCHANGED <<frontVars, shm, inSock, outSock, g_exitFlag,
                  g_receivingFlag, queueVars, g_modelTable, elem>>
  BY DEF ComputeInit, sockVars
<1> QED
  BY <1>1, <1>2, <1>3, PcStep

\* The batch b is one of s.
In(b, s) == \E i \in 1 .. Len(s) : s[i] = b

\* A batch of a stage is one of the stages in a row.
LEMMA InStages ==
    ASSUME NEW s \in Seq(Batch), NEW t \in Seq(Batch), NEW b
    PROVE  /\ In(b, t) => In(b, s \o t)
           /\ In(b, s) => In(b, s \o t)
<1>1. /\ Len(s \o t) = Len(s) + Len(t) /\ Len(s) \in Nat /\ Len(t) \in Nat
      /\ \A i \in 1 .. Len(s) + Len(t) :
            (s \o t)[i] = IF i <= Len(s) THEN s[i] ELSE t[i - Len(s)]
  BY ConcatProperties
<1>2. ASSUME NEW i \in 1 .. Len(t), t[i] = b PROVE In(b, s \o t)
  <2> DEFINE k == Len(s) + i
  <2>1. k \in 1 .. Len(s \o t) /\ ~(k <= Len(s)) /\ k - Len(s) = i
    BY <1>1
  <2>2. (s \o t)[k] = b
    BY <1>1, <1>2, <2>1
  <2> QED
    BY <2>1, <2>2 DEF In
<1>3. ASSUME NEW i \in 1 .. Len(s), s[i] = b PROVE In(b, s \o t)
  <2>1. i \in 1 .. Len(s \o t) /\ i <= Len(s)
    BY <1>1
  <2>2. (s \o t)[i] = b
    BY <1>1, <1>3, <2>1
  <2> QED
    BY <2>1, <2>2 DEF In
<1> QED
  BY <1>2, <1>3 DEF In

\* The model of a batch that is in the process is one of the live models.
LEMMA HeldIsLive ==
    ASSUME IInv, elem["compute"] \in Batch
    PROVE  elem["compute"].model \in Live
<1>1. TypeOK /\ FlowInv
  BY DEF IInv
<1>2. HeldBatch("compute") = <<elem["compute"]>>
  BY <1>1, HeldType DEF Threads
<1>3. /\ outSock \in Seq(Batch) /\ g_OutputQueue \in Seq(Batch)
      /\ HeldBatch("send_output") \in Seq(Batch)
      /\ HeldBatch("compute") \in Seq(Batch)
  BY <1>1, HeldType DEF TypeOK, Threads
<1>4. /\ Rest2 \in Seq(Batch) /\ Rest3 \in Seq(Batch) /\ Rest4 \in Seq(Batch)
      /\ Rest5 \in Seq(Batch) /\ Rest = outSock \o Rest5
  BY <1>1, RestType
<1>5. In(elem["compute"], HeldBatch("compute"))
  BY <1>2 DEF In
<1>6. In(elem["compute"], Rest3)
  BY <1>3, <1>4, <1>5, InStages DEF Rest3
<1>7. In(elem["compute"], Rest4)
  BY <1>3, <1>4, <1>6, InStages DEF Rest4
<1>8. In(elem["compute"], Rest5)
  BY <1>3, <1>4, <1>7, InStages DEF Rest5
<1>9. In(elem["compute"], Rest)
  BY <1>3, <1>4, <1>8, InStages
<1> QED
  BY <1>1, <1>9 DEF FlowInv, In

\* compute runs a batch; its model is in the table.
LEMMA ForwardStep == IInv /\ Forward => IInv'
<1> SUFFICES ASSUME IInv, Forward PROVE IInv'
  OBVIOUS
<1>1. TypeOK /\ "compute" \in Threads /\ "push" \in Places
  BY DEF IInv, Threads, Places
<1>2. pc["compute"] = "forward" /\ elem["compute"] \in Batch
  BY DEF Forward, At, IInv, PlacesInv
<1>3. elem["compute"].model \in g_modelTable
  BY <1>2, HeldIsLive DEF IInv, PhaseInv
<1>4. Moved("compute", "push")
  BY <1>1, <1>3, GoMoves DEF Forward
<1>5. UNCHANGED <<frontVars, shm, inSock, outSock, g_exitFlag,
                  g_receivingFlag, queueVars, g_modelTable, elem>>
  BY DEF Forward, sockVars, flagVars
<1> QED
  BY <1>1, <1>2, <1>4, <1>5, PcStep

\* A batch that recvInput holds is one of the batches between the sockets.
LEMMA ReceivedIsInside ==
    ASSUME TypeOK, elem["recvInput"] \in Batch
    PROVE  In(elem["recvInput"], Rest)
<1>2. HeldBatch("recvInput") = <<elem["recvInput"]>>
  BY HeldType DEF Threads
<1>3. /\ outSock \in Seq(Batch) /\ g_OutputQueue \in Seq(Batch)
      /\ g_InputQueue \in Seq(Batch)
      /\ HeldBatch("send_output") \in Seq(Batch)
      /\ HeldBatch("compute") \in Seq(Batch)
      /\ HeldBatch("recvInput") \in Seq(Batch)
  BY HeldType DEF TypeOK, Threads
<1>4. /\ Runs(inSock) \in Seq(Batch) /\ Rest1 \in Seq(Batch)
      /\ Rest2 \in Seq(Batch) /\ Rest3 \in Seq(Batch) /\ Rest4 \in Seq(Batch)
      /\ Rest5 \in Seq(Batch) /\ Rest = outSock \o Rest5
  BY RestType
<1>5. In(elem["recvInput"], HeldBatch("recvInput"))
  BY <1>2 DEF In
<1>6. In(elem["recvInput"], Rest1)
  BY <1>3, <1>4, <1>5, InStages DEF Rest1
<1>7. In(elem["recvInput"], Rest2)
  BY <1>3, <1>4, <1>6, InStages DEF Rest2
<1>8. In(elem["recvInput"], Rest3)
  BY <1>3, <1>4, <1>7, InStages DEF Rest3
<1>9. In(elem["recvInput"], Rest4)
  BY <1>3, <1>4, <1>8, InStages DEF Rest4
<1>10. In(elem["recvInput"], Rest5)
  BY <1>3, <1>4, <1>9, InStages DEF Rest5
<1> QED
  BY <1>3, <1>4, <1>10, InStages

\* A process that is told to exit has no batch; g_receivingFlag is not set.
LEMMA LeavingEmpty ==
    ASSUME IInv, Leaving
    PROVE  Rest = <<>> /\ outSock = <<>> /\ ~g_receivingFlag
<1>1. TypeOK /\ FlowInv /\ PhaseInv /\ PlacesInv
  BY DEF IInv
<1>2. Rest \in Seq(Batch) /\ Rest5 \in Seq(Batch) /\ Rest = outSock \o Rest5
  BY <1>1, RestType
<1>3. received \in Seq(Batch) /\ outSock \in Seq(Batch)
  BY <1>1 DEF TypeOK
<1>4. received = received \o Rest
  BY <1>1 DEF FlowInv, PhaseInv
<1>5. Rest = <<>>
  BY <1>2, <1>3, <1>4, BatchNothing
<1>6. outSock = <<>>
  BY <1>2, <1>3, <1>5, BatchNothing
<1>7. elem["recvInput"] \notin Batch
  <2>1. ~In(elem["recvInput"], Rest)
    BY <1>5 DEF In
  <2> QED
    BY <1>1, <2>1, ReceivedIsInside
<1> QED
  BY <1>1, <1>5, <1>6, <1>7 DEF PlacesInv

\* recvInput has the end of a batch.
LEMMA ReadBodyStep == IInv /\ ReadBody => IInv'
<1> SUFFICES ASSUME IInv, ReadBody PROVE IInv'
  OBVIOUS
<1>1. TypeOK /\ PlacesInv /\ PhaseInv /\ FlowInv
  BY DEF IInv
<1>2. "recvInput" \in Threads /\ "queue" \in Places
  BY DEF Threads, Places
<1>3. Moved("recvInput", "queue") /\ pc["recvInput"] = "body"
  BY <1>1, <1>2, GoMoves DEF ReadBody, At
<1>4. /\ UNCHANGED <<fpc, fmodel, requests, routed, sent, received>>
      /\ UNCHANGED <<g_InputQueue, g_OutputQueue, g_ControlQueue>>
      /\ UNCHANGED <<shm, inSock, outSock, g_exitFlag, g_modelTable, elem>>
      /\ g_receivingFlag' = FALSE
  BY DEF ReadBody, frontVars, queueVars, sockVars
<1>5. pc' \in [Threads -> Places]
  BY <1>3 DEF Moved
<1>6. TypeOK'
  BY <1>1, <1>4, <1>5 DEF TypeOK
<1>7. elem["recvInput"] \in Batch
  BY <1>1, <1>3 DEF PlacesInv
<1>8. PlacesInv'
  BY <1>1, <1>3, <1>4, <1>7 DEF PlacesInv, Moved, Threads
<1>9. Aside
  BY <1>3, <1>4, <1>7, NotBatch DEF Aside, Moved, Threads, frontVars
<1>10. PhaseInv' /\ Live' = Live
  BY <1>1, <1>9, PhaseFrame
<1>11. FlowInv'
  BY <1>1, <1>4, <1>10, RestFrame, FlowFrame
<1> QED
  BY <1>6, <1>8, <1>10, <1>11 DEF IInv

\* recvInput sees the frontend close the socket.
LEMMA CloseInputStep == IInv /\ CloseInput => IInv'
<1> SUFFICES ASSUME IInv, CloseInput PROVE IInv'
  OBVIOUS
<1>1. TypeOK /\ PlacesInv /\ PhaseInv /\ FlowInv
  BY DEF IInv
<1>2. "recvInput" \in Threads /\ "end" \in Places /\ "accept" \in Places
  BY DEF Threads, Places
<1>3. PICK place \in {"end", "accept"} : Moved("recvInput", place)
  BY <1>1, <1>2, NotifyMoves DEF CloseInput
<1>4. /\ UNCHANGED <<fpc, fmodel, requests, routed, sent, received>>
      /\ UNCHANGED <<g_InputQueue, g_OutputQueue, g_ControlQueue>>
      /\ UNCHANGED <<shm, inSock, outSock, g_exitFlag, g_receivingFlag, g_modelTable>>
      /\ elem' = [elem EXCEPT !["recvInput"] = NoElem]
      /\ pc["recvInput"] = "close"
  BY DEF CloseInput, frontVars, queueVars, sockVars, At
<1>5. pc' \in [Threads -> Places] /\ elem \in [Threads -> Message \cup {NoElem}]
  BY <1>1, <1>3 DEF Moved, TypeOK
<1>6. /\ elem' \in [Threads -> Message \cup {NoElem}]
      /\ elem'["recvInput"] = NoElem
      /\ elem'["compute"] = elem["compute"]
      /\ elem'["send_output"] = elem["send_output"]
      /\ elem'["loadControl"] = elem["loadControl"]
  BY <1>4, <1>5 DEF Threads
<1>7. TypeOK'
  BY <1>1, <1>4, <1>5, <1>6 DEF TypeOK
<1>8. elem["recvInput"] = Close /\ ~g_receivingFlag
  BY <1>1, <1>4 DEF PlacesInv
<1>9. PlacesInv'
  BY <1>1, <1>3, <1>4, <1>6, <1>8 DEF PlacesInv, Moved, Threads
<1>10. Aside
  BY <1>3, <1>4, <1>6, <1>8, NotBatch DEF Aside, Moved, Threads, frontVars
<1>11. PhaseInv' /\ Live' = Live
  BY <1>1, <1>10, PhaseFrame
<1>12. Rest' = Rest
  <2>1. /\ HeldBatch("send_output")' = HeldBatch("send_output")
        /\ HeldBatch("compute")' = HeldBatch("compute")
    BY <1>6 DEF HeldBatch
  <2>2. HeldBatch("recvInput")' = HeldBatch("recvInput")
    BY <1>6, <1>8 DEF HeldBatch, IsRun, NoElem, Close
  <2>3. Runs(inSock)' = Runs(inSock)
    BY <1>4
  <2> QED
    BY <1>4, <2>1, <2>2, <2>3, Zenon DEF Rest
<1>13. FlowInv'
  BY <1>1, <1>4, <1>11, <1>12, FlowFrame
<1> QED
  BY <1>7, <1>9, <1>11, <1>13 DEF IInv

\* compute waits, ends, or takes a batch: it does not find its queue empty,
\* because whoever set g_exitFlag left no batch.
LEMMA ComputeTestStep == IInv /\ ComputeTest => IInv'
<1> SUFFICES ASSUME IInv, ComputeTest PROVE IInv'
  OBVIOUS
<1>1. TypeOK /\ PlacesInv /\ PhaseInv /\ FlowInv
  BY DEF IInv
<1>2. /\ "compute" \in Threads /\ "end" \in Places /\ "forward" \in Places
      /\ "tested" \in Places /\ "blocked" \in Places
  BY DEF Threads, Places
<1>3. /\ UNCHANGED <<fpc, fmodel, requests, routed, sent, received>>
      /\ UNCHANGED <<shm, inSock, outSock, g_exitFlag, g_receivingFlag>>
      /\ UNCHANGED <<g_OutputQueue, g_ControlQueue, g_modelTable>>
      /\ pc["compute"] = "test"
  BY DEF ComputeTest, frontVars, sockVars, flagVars, At
<1>4. CASE /\ MayStopComputing
           /\ Notify("compute", "end", {"send_output"})
           /\ UNCHANGED <<g_InputQueue, elem>>
  <2>1. Moved("compute", "end")
    BY <1>1, <1>2, <1>4, NotifyMoves
  <2> QED
    BY <1>2, <1>3, <1>4, <2>1, PcStep DEF frontVars, queueVars
<1>5. CASE /\ WaitOn("compute", g_InputQueue # <<>> \/ g_exitFlag)
           /\ UNCHANGED <<g_InputQueue, elem>>
  <2>1. PICK place \in {"tested", "blocked"} : Moved("compute", place)
    BY <1>1, <1>2, <1>5, GoMoves DEF WaitOn
  <2> QED
    BY <1>2, <1>3, <1>5, <2>1, PcStep DEF frontVars, queueVars
<1>6. CASE /\ ~MayStopComputing /\ g_InputQueue = <<>> /\ g_exitFlag
  <2>1. Leaving
    BY <1>1, <1>6 DEF PhaseInv
  <2> QED
    BY <1>6, <2>1, LeavingEmpty DEF MayStopComputing
<1>7. CASE /\ g_InputQueue # <<>>
           /\ elem' = [elem EXCEPT !["compute"] = Head(g_InputQueue)]
           /\ g_InputQueue' = Tail(g_InputQueue)
           /\ Go("compute", "forward")
  <2>1. Moved("compute", "forward")
    BY <1>1, <1>2, <1>7, GoMoves
  <2>2. /\ Head(g_InputQueue) \in Batch /\ Tail(g_InputQueue) \in Seq(Batch)
        /\ <<>> \o (g_InputQueue \o Rest1)
              = <<Head(g_InputQueue)>> \o (Tail(g_InputQueue) \o Rest1)
    BY <1>1, <1>7, FrontIsHeld, RestType DEF TypeOK
  <2>3. pc' \in [Threads -> Places] /\ elem \in [Threads -> Message \cup {NoElem}]
    BY <1>1, <2>1 DEF Moved, TypeOK
  <2>4. Head(g_InputQueue) \in Message \cup {NoElem}
    BY <2>2 DEF Message
  <2>5. /\ elem' \in [Threads -> Message \cup {NoElem}]
        /\ elem'["compute"] = Head(g_InputQueue)
        /\ elem'["recvInput"] = elem["recvInput"]
        /\ elem'["send_output"] = elem["send_output"]
        /\ elem'["loadControl"] = elem["loadControl"]
    BY <1>7, <2>3, <2>4 DEF Threads
  <2>6. TypeOK'
    BY <1>1, <1>3, <1>7, <2>2, <2>3, <2>5 DEF TypeOK
  <2>7. PlacesInv'
    BY <1>1, <1>3, <2>1, <2>2, <2>5 DEF PlacesInv, Moved, Threads
  <2>8. Aside
    BY <1>1, <1>3, <2>1, <2>5, NotBatch DEF Aside, Moved, Threads, frontVars, PlacesInv
  <2>9. PhaseInv' /\ Live' = Live
    BY <1>1, <2>8, PhaseFrame
  <2>10. Rest' = Rest
    <3>1. /\ HeldBatch("send_output")' = HeldBatch("send_output")
          /\ HeldBatch("recvInput")' = HeldBatch("recvInput")
      BY <2>5 DEF HeldBatch
    <3>2. HeldBatch("compute") = <<>>
      BY <1>1, <1>3, HeldType, NotBatch DEF PlacesInv, Threads
    <3>3. HeldBatch("compute")' = <<Head(g_InputQueue)>>
      BY <2>2, <2>5, NotBatch DEF HeldBatch
    <3>4. Rest1' = Rest1
      BY <1>3, <3>1 DEF Rest1
    <3>5. Rest3' = <<Head(g_InputQueue)>> \o (Tail(g_InputQueue) \o Rest1)
      BY <1>7, <3>3, <3>4 DEF Rest2, Rest3
    <3>6. Rest3 = <<>> \o (g_InputQueue \o Rest1)
      BY <3>2 DEF Rest2, Rest3
    <3>7. Rest3' = Rest3
      BY <2>2, <3>5, <3>6
    <3> QED
      BY <1>3, <3>1, <3>7, RestIs DEF Rest4, Rest5
  <2>11. FlowInv'
    BY <1>1, <1>3, <2>9, <2>10, FlowFrame
  <2> QED
    BY <2>6, <2>7, <2>9, <2>11 DEF IInv
<1> QED
  BY <1>4, <1>5, <1>6, <1>7 DEF ComputeTest

\* compute passes a result on.
LEMMA PushOutputStep == IInv /\ PushOutput => IInv'
<1> SUFFICES ASSUME IInv, PushOutput PROVE IInv'
  OBVIOUS
<1>1. TypeOK /\ PlacesInv /\ PhaseInv /\ FlowInv
  BY DEF IInv
<1>2. "compute" \in Threads /\ "test" \in Places
  BY DEF Threads, Places
<1>3. /\ UNCHANGED <<fpc, fmodel, requests, routed, sent, received>>
      /\ UNCHANGED <<shm, inSock, outSock, g_exitFlag, g_receivingFlag>>
      /\ UNCHANGED <<g_InputQueue, g_ControlQueue, g_modelTable>>
      /\ pc["compute"] = "push"
      /\ g_OutputQueue' = Append(g_OutputQueue, elem["compute"])
      /\ elem' = [elem EXCEPT !["compute"] = NoElem]
  BY DEF PushOutput, frontVars, sockVars, flagVars, At
<1>4. Moved("compute", "test")
  BY <1>1, <1>2, NotifyMoves DEF PushOutput
<1>5. elem["compute"] \in Batch
  BY <1>1, <1>3 DEF PlacesInv
<1>6. pc' \in [Threads -> Places] /\ elem \in [Threads -> Message \cup {NoElem}]
  BY <1>1, <1>4 DEF Moved, TypeOK
<1>7. /\ elem' \in [Threads -> Message \cup {NoElem}]
      /\ elem'["compute"] = NoElem
      /\ elem'["recvInput"] = elem["recvInput"]
      /\ elem'["send_output"] = elem["send_output"]
      /\ elem'["loadControl"] = elem["loadControl"]
  BY <1>3, <1>6 DEF Threads
<1>8. g_OutputQueue' \in Seq(Batch)
  BY <1>1, <1>3, <1>5, BatchEnters DEF TypeOK
<1>9. TypeOK'
  BY <1>1, <1>3, <1>6, <1>7, <1>8 DEF TypeOK
<1>10. PlacesInv'
  BY <1>1, <1>3, <1>4, <1>7 DEF PlacesInv, Moved, Threads
<1>11. Aside
  BY <1>1, <1>3, <1>4, <1>7, NotBatch DEF Aside, Moved, Threads, frontVars, PlacesInv
<1>12. PhaseInv' /\ Live' = Live
  BY <1>1, <1>11, PhaseFrame
<1>13. Rest' = Rest
  <2>1. /\ HeldBatch("send_output")' = HeldBatch("send_output")
        /\ HeldBatch("recvInput")' = HeldBatch("recvInput")
    BY <1>7 DEF HeldBatch
  <2>2. HeldBatch("compute") = <<elem["compute"]>>
    BY <1>1, <1>5, HeldType DEF Threads
  <2>3. HeldBatch("compute")' = <<>>
    BY <1>7 DEF HeldBatch, IsRun, NoElem
  <2>4. Rest2' = Rest2
    BY <1>3, <2>1 DEF Rest1, Rest2
  <2>5. Rest4' = Append(g_OutputQueue, elem["compute"]) \o (<<>> \o Rest2)
    BY <1>3, <2>3, <2>4 DEF Rest3, Rest4
  <2>6. Rest4 = g_OutputQueue \o (<<elem["compute"]>> \o Rest2)
    BY <2>2 DEF Rest3, Rest4
  <2>7. g_OutputQueue \in Seq(Batch) /\ Rest2 \in Seq(Batch)
    BY <1>1, RestType DEF TypeOK
  <2>8. Rest4' = Rest4
    BY <1>5, <2>5, <2>6, <2>7, HeldMovesOn
  <2>9. Rest5' = Rest5
    BY <2>1, <2>8 DEF Rest5
  <2> QED
    BY <1>3, <2>9, RestIs
<1>14. FlowInv'
  BY <1>1, <1>3, <1>12, <1>13, FlowFrame
<1> QED
  BY <1>9, <1>10, <1>12, <1>14 DEF IInv

\* send_output waits, ends, or takes a result.
LEMMA OutputTestStep == IInv /\ OutputTest => IInv'
<1> SUFFICES ASSUME IInv, OutputTest PROVE IInv'
  OBVIOUS
<1>1. TypeOK /\ PlacesInv /\ PhaseInv /\ FlowInv
  BY DEF IInv
<1>2. /\ "send_output" \in Threads /\ "end" \in Places /\ "write" \in Places
      /\ "tested" \in Places /\ "blocked" \in Places
  BY DEF Threads, Places
<1>3. /\ UNCHANGED <<fpc, fmodel, requests, routed, sent, received>>
      /\ UNCHANGED <<shm, inSock, outSock, g_exitFlag, g_receivingFlag>>
      /\ UNCHANGED <<g_InputQueue, g_ControlQueue, g_modelTable>>
      /\ pc["send_output"] = "test"
  BY DEF OutputTest, frontVars, sockVars, flagVars, At
<1>4. CASE /\ Go("send_output", "end")
           /\ UNCHANGED <<g_OutputQueue, elem>>
  <2>1. Moved("send_output", "end")
    BY <1>1, <1>2, <1>4, GoMoves
  <2> QED
    BY <1>2, <1>3, <1>4, <2>1, PcStep DEF frontVars, queueVars
<1>5. CASE /\ WaitOn("send_output", g_OutputQueue # <<>> \/ g_exitFlag)
           /\ UNCHANGED <<g_OutputQueue, elem>>
  <2>1. PICK place \in {"tested", "blocked"} : Moved("send_output", place)
    BY <1>1, <1>2, <1>5, GoMoves DEF WaitOn
  <2> QED
    BY <1>2, <1>3, <1>5, <2>1, PcStep DEF frontVars, queueVars
<1>6. CASE /\ g_OutputQueue # <<>>
           /\ elem' = [elem EXCEPT !["send_output"] = Head(g_OutputQueue)]
           /\ g_OutputQueue' = Tail(g_OutputQueue)
           /\ Go("send_output", "write")
  <2>1. Moved("send_output", "write")
    BY <1>1, <1>2, <1>6, GoMoves
  <2>2. /\ Head(g_OutputQueue) \in Batch /\ Tail(g_OutputQueue) \in Seq(Batch)
        /\ <<>> \o (g_OutputQueue \o Rest3)
              = <<Head(g_OutputQueue)>> \o (Tail(g_OutputQueue) \o Rest3)
    BY <1>1, <1>6, FrontIsHeld, RestType DEF TypeOK
  <2>3. pc' \in [Threads -> Places] /\ elem \in [Threads -> Message \cup {NoElem}]
    BY <1>1, <2>1 DEF Moved, TypeOK
  <2>4. Head(g_OutputQueue) \in Message \cup {NoElem}
    BY <2>2 DEF Message
  <2>5. /\ elem' \in [Threads -> Message \cup {NoElem}]
        /\ elem'["send_output"] = Head(g_OutputQueue)
        /\ elem'["recvInput"] = elem["recvInput"]
        /\ elem'["compute"] = elem["compute"]
        /\ elem'["loadControl"] = elem["loadControl"]
    BY <1>6, <2>3, <2>4 DEF Threads
  <2>6. TypeOK'
    BY <1>1, <1>3, <1>6, <2>2, <2>3, <2>5 DEF TypeOK
  <2>7. PlacesInv'
    BY <1>1, <1>3, <2>1, <2>2, <2>5 DEF PlacesInv, Moved, Threads
  <2>8. Aside
    BY <1>1, <1>3, <2>1, <2>5, NotBatch DEF Aside, Moved, Threads, frontVars, PlacesInv
  <2>9. PhaseInv' /\ Live' = Live
    BY <1>1, <2>8, PhaseFrame
  <2>10. Rest' = Rest
    <3>1. /\ HeldBatch("compute")' = HeldBatch("compute")
          /\ HeldBatch("recvInput")' = HeldBatch("recvInput")
      BY <2>5 DEF HeldBatch
    <3>2. HeldBatch("send_output") = <<>>
      BY <1>1, <1>3, HeldType, NotBatch DEF PlacesInv, Threads
    <3>3. HeldBatch("send_output")' = <<Head(g_OutputQueue)>>
      BY <2>2, <2>5, NotBatch DEF HeldBatch
    <3>4. Rest3' = Rest3
      BY <1>3, <3>1 DEF Rest1, Rest2, Rest3
    <3>5. Rest5' = <<Head(g_OutputQueue)>> \o (Tail(g_OutputQueue) \o Rest3)
      BY <1>6, <3>3, <3>4 DEF Rest4, Rest5
    <3>6. Rest5 = <<>> \o (g_OutputQueue \o Rest3)
      BY <3>2 DEF Rest4, Rest5
    <3>7. Rest5' = Rest5
      BY <2>2, <3>5, <3>6
    <3> QED
      BY <1>3, <3>7, RestIs
  <2>11. FlowInv'
    BY <1>1, <1>3, <2>9, <2>10, FlowFrame
  <2> QED
    BY <2>6, <2>7, <2>9, <2>11 DEF IInv
<1> QED
  BY <1>4, <1>5, <1>6 DEF OutputTest

\* send_output writes a result.
LEMMA WriteOutputStep == IInv /\ WriteOutput => IInv'
<1> SUFFICES ASSUME IInv, WriteOutput PROVE IInv'
  OBVIOUS
<1>1. TypeOK /\ PlacesInv /\ PhaseInv /\ FlowInv
  BY DEF IInv
<1>2. "send_output" \in Threads /\ "test" \in Places
  BY DEF Threads, Places
<1>3. /\ UNCHANGED <<fpc, fmodel, requests, routed, sent, received>>
      /\ UNCHANGED <<shm, inSock, g_exitFlag, g_receivingFlag>>
      /\ UNCHANGED <<g_InputQueue, g_OutputQueue, g_ControlQueue, g_modelTable>>
      /\ pc["send_output"] = "write"
      /\ outSock' = Append(outSock, elem["send_output"])
      /\ elem' = [elem EXCEPT !["send_output"] = NoElem]
  BY DEF WriteOutput, frontVars, queueVars, flagVars, At
<1>4. Moved("send_output", "test")
  BY <1>1, <1>2, GoMoves DEF WriteOutput
<1>5. elem["send_output"] \in Batch
  BY <1>1, <1>3 DEF PlacesInv
<1>6. pc' \in [Threads -> Places] /\ elem \in [Threads -> Message \cup {NoElem}]
  BY <1>1, <1>4 DEF Moved, TypeOK
<1>7. /\ elem' \in [Threads -> Message \cup {NoElem}]
      /\ elem'["send_output"] = NoElem
      /\ elem'["recvInput"] = elem["recvInput"]
      /\ elem'["compute"] = elem["compute"]
      /\ elem'["loadControl"] = elem["loadControl"]
  BY <1>3, <1>6 DEF Threads
<1>8. outSock' \in Seq(Batch)
  BY <1>1, <1>3, <1>5, BatchEnters DEF TypeOK
<1>9. TypeOK'
  BY <1>1, <1>3, <1>6, <1>7, <1>8 DEF TypeOK
<1>10. PlacesInv'
  BY <1>1, <1>3, <1>4, <1>7 DEF PlacesInv, Moved, Threads
<1>11. Aside
  BY <1>1, <1>3, <1>4, <1>7, NotBatch DEF Aside, Moved, Threads, frontVars, PlacesInv
<1>12. PhaseInv' /\ Live' = Live
  BY <1>1, <1>11, PhaseFrame
<1>13. Rest' = Rest
  <2>1. /\ HeldBatch("compute")' = HeldBatch("compute")
        /\ HeldBatch("recvInput")' = HeldBatch("recvInput")
    BY <1>7 DEF HeldBatch
  <2>2. HeldBatch("send_output") = <<elem["send_output"]>>
    BY <1>1, <1>5, HeldType DEF Threads
  <2>3. HeldBatch("send_output")' = <<>>
    BY <1>7 DEF HeldBatch, IsRun, NoElem
  <2>4. Rest4' = Rest4
    BY <1>3, <2>1 DEF Rest1, Rest2, Rest3, Rest4
  <2>5. Rest' = Append(outSock, elem["send_output"]) \o (<<>> \o Rest4)
    BY <1>3, <2>3, <2>4, RestIs DEF Rest5
  <2>6. Rest = outSock \o (<<elem["send_output"]>> \o Rest4)
    BY <2>2, RestIs DEF Rest5
  <2>7. outSock \in Seq(Batch) /\ Rest4 \in Seq(Batch)
    BY <1>1, RestType DEF TypeOK
  <2> QED
    BY <1>5, <2>5, <2>6, <2>7, HeldMovesOn
<1>14. FlowInv'
  BY <1>1, <1>3, <1>12, <1>13, FlowFrame
<1> QED
  BY <1>9, <1>10, <1>12, <1>14 DEF IInv

\* Once the shutdown has begun, only the frontend's record and the end of the
\* threads matter.
LEMMA LeavingFrame ==
    ASSUME PhaseInv, Leaving, UNCHANGED frontVars,
           pc'["compute"] \in {"init", "ready"} => pc["compute"] \in {"init", "ready"},
           pc'["control"] \in {"end", "gone"} => g_exitFlag',
           pc'["main"] # "join" => g_exitFlag'
    PROVE  PhaseInv' /\ Live' = Live
<1>1. UNCHANGED <<fpc, fmodel, requests, routed, sent, received>>
  BY DEF frontVars
<1>2. Leaving' /\ Live' = Live /\ Live = {}
  BY <1>1 DEF Leaving, Live, PhaseInv
<1>3. pc["compute"] \notin {"init", "ready"} /\ fpc \in {"flush", "cold", "off"}
  BY DEF PhaseInv, Leaving
<1> QED
  BY <1>1, <1>2, <1>3 DEF PhaseInv

\* The steps of loadControl, whose only trace outside its own state is in the
\* table, the queue of requests and the state of the process.
LEMMA ControlFrame ==
    ASSUME IInv, NEW place \in Places \ {"gone"}, Moved("loadControl", place),
           UNCHANGED <<frontVars, inSock, outSock, g_exitFlag,
                       g_receivingFlag, g_InputQueue, g_OutputQueue>>,
           g_ControlQueue' \in Seq(Asking),
           elem' \in [Threads -> Message \cup {NoElem}],
           \A t \in Threads \ {"loadControl"} : elem'[t] = elem[t],
           place = "handle" => elem'["loadControl"] \in Asking
    PROVE  /\ TypeOK' /\ PlacesInv'
           /\ Live' = Live => FlowInv'
           /\ Leaving => PhaseInv' /\ Live' = Live
<1>1. TypeOK /\ PlacesInv /\ PhaseInv /\ FlowInv
  BY DEF IInv
<1>2. UNCHANGED <<fpc, fmodel, requests, routed, sent, received>>
  BY DEF frontVars
<1>3. pc' \in [Threads -> Places]
  BY DEF Moved
<1>4. TypeOK'
  BY <1>1, <1>2, <1>3 DEF TypeOK
<1>5. PlacesInv'
  BY <1>1 DEF PlacesInv, Moved, Threads
<1>6. Rest' = Rest
  <2>1. /\ HeldBatch("send_output")' = HeldBatch("send_output")
        /\ HeldBatch("compute")' = HeldBatch("compute")
        /\ HeldBatch("recvInput")' = HeldBatch("recvInput")
    BY DEF HeldBatch, Threads
  <2>2. Runs(inSock)' = Runs(inSock)
    OBVIOUS
  <2> QED
    BY <2>1, <2>2, Zenon DEF Rest
<1>7. Live' = Live => FlowInv'
  BY <1>1, <1>2, <1>6, FlowFrame
<1>8. Leaving => PhaseInv' /\ Live' = Live
  <2> SUFFICES ASSUME Leaving PROVE PhaseInv' /\ Live' = Live
    OBVIOUS
  <2>1. /\ pc'["compute"] \in {"init", "ready"} => pc["compute"] \in {"init", "ready"}
        /\ pc'["control"] \in {"end", "gone"} => g_exitFlag'
        /\ pc'["main"] # "join" => g_exitFlag'
    BY <1>1 DEF Moved, Threads, PhaseInv
  <2> QED
    BY <1>1, <2>1, LeavingFrame
<1> QED
  BY <1>4, <1>5, <1>7, <1>8

\* loadControl waits, ends, or takes the request.
LEMMA ControlTestStep == IInv /\ ControlTest => IInv'
<1> SUFFICES ASSUME IInv, ControlTest PROVE IInv'
  OBVIOUS
<1>1. TypeOK /\ PlacesInv /\ PhaseInv /\ FlowInv
  BY DEF IInv
<1>2. /\ "loadControl" \in Threads /\ "end" \in Places /\ "handle" \in Places
      /\ "tested" \in Places /\ "blocked" \in Places
  BY DEF Threads, Places
<1>3. /\ UNCHANGED <<fpc, fmodel, requests, routed, sent, received>>
      /\ UNCHANGED <<shm, inSock, outSock, g_exitFlag, g_receivingFlag>>
      /\ UNCHANGED <<g_InputQueue, g_OutputQueue, g_modelTable>>
      /\ pc["loadControl"] = "test"
  BY DEF ControlTest, frontVars, sockVars, flagVars, At
<1>4. CASE /\ Go("loadControl", "end")
           /\ UNCHANGED <<g_ControlQueue, elem>>
  <2>1. Moved("loadControl", "end")
    BY <1>1, <1>2, <1>4, GoMoves
  <2> QED
    BY <1>2, <1>3, <1>4, <2>1, PcStep DEF frontVars, queueVars
<1>5. CASE /\ WaitOn("loadControl", g_ControlQueue # <<>> \/ g_exitFlag)
           /\ UNCHANGED <<g_ControlQueue, elem>>
  <2>1. PICK place \in {"tested", "blocked"} : Moved("loadControl", place)
    BY <1>1, <1>2, <1>5, GoMoves DEF WaitOn
  <2> QED
    BY <1>2, <1>3, <1>5, <2>1, PcStep DEF frontVars, queueVars
<1>6. CASE /\ g_ControlQueue # <<>>
           /\ elem' = [elem EXCEPT !["loadControl"] = Head(g_ControlQueue)]
           /\ g_ControlQueue' = Tail(g_ControlQueue)
           /\ Go("loadControl", "handle")
  <2>1. Moved("loadControl", "handle")
    BY <1>1, <1>2, <1>6, GoMoves
  <2>2. g_ControlQueue \in Seq(Asking)
    BY <1>1 DEF TypeOK
  <2>3. Head(g_ControlQueue) \in Asking /\ Tail(g_ControlQueue) \in Seq(Asking)
    BY <1>6, <2>2, HeadTailProperties
  <2>4. Head(g_ControlQueue) \in Message \cup {NoElem}
    BY <2>3 DEF Message
  <2>5. elem \in [Threads -> Message \cup {NoElem}]
    BY <1>1 DEF TypeOK
  <2>6. /\ elem' \in [Threads -> Message \cup {NoElem}]
        /\ elem'["loadControl"] = Head(g_ControlQueue)
        /\ \A t \in Threads \ {"loadControl"} : elem'[t] = elem[t]
    BY <1>2, <1>6, <2>4, <2>5
  <2>7. /\ TypeOK' /\ PlacesInv'
        /\ Live' = Live => FlowInv'
        /\ Leaving => PhaseInv' /\ Live' = Live
    BY <1>2, <1>3, <1>6, <2>1, <2>3, <2>6, ControlFrame DEF frontVars
  <2>8. ASSUME ~Leaving PROVE PhaseInv' /\ Live' = Live
    <3>1. fpc \in {"LOAD", "UNLOAD"}
      BY <1>1, <1>6, <2>8 DEF PhaseInv, TypeOK, Leaving, Quiet
    <3>2. Requesting
      BY <1>1, <3>1 DEF PhaseInv
    <3>3. PICK M \in Asking : M.act = fpc /\ M.model = fmodel /\ Queued(M)
      BY <1>6, <3>2 DEF Requesting, OnTheWay, OnSocket, Held, Handling, Handled, Quiet
    <3>4. shm = "LOADING"
      BY <1>6, <3>2 DEF Requesting, Quiet
    <3>5. g_ControlQueue = <<M>> /\ AllRuns /\ NotHeld
      BY <3>3 DEF Queued
    <3>6. Head(g_ControlQueue) = M /\ Tail(g_ControlQueue) = <<>>
      BY <3>5
    <3>7. AllRuns' /\ NotHeld' /\ g_ControlQueue' = <<>>
      BY <1>3, <1>6, <2>6, <3>5, <3>6 DEF AllRuns, NotHeld, Threads
    <3>8. Handling(M)'
      BY <2>1, <2>6, <3>6, <3>7 DEF Handling, Moved
    <3>9. Requesting'
      BY <1>3, <3>3, <3>4, <3>8 DEF Requesting, OnTheWay
    <3>10. Live' = Live /\ (Leaving' <=> Leaving)
      BY <1>3 DEF Live, Leaving
    <3>11. /\ pc'["compute"] \in {"init", "ready"} => pc["compute"] \in {"init", "ready"}
           /\ pc'["control"] \in {"end", "gone"} => pc["control"] \in {"end", "gone"}
           /\ pc'["main"] # "join" => pc["main"] # "join"
      BY <2>1 DEF Moved, Threads
    <3>12. fpc' \notin {"boot", "idle", "unrouted"}
      BY <1>3, <3>1
    <3>13. PhaseInv'
      BY <1>1, <1>3, <3>9, <3>10, <3>11, <3>12 DEF PhaseInv
    <3> QED
      BY <3>10, <3>13
  <2> QED
    BY <2>7, <2>8 DEF IInv
<1> QED
  BY <1>4, <1>5, <1>6 DEF ControlTest

\* loadControl loads or unloads the model; one that is unloaded is not live.
LEMMA HandleRequestStep == IInv /\ HandleRequest => IInv'
<1> SUFFICES ASSUME IInv, HandleRequest PROVE IInv'
  OBVIOUS
<1>1. TypeOK /\ PlacesInv /\ PhaseInv /\ FlowInv
  BY DEF IInv
<1>2. "loadControl" \in Threads /\ "check" \in Places \ {"gone"}
  BY DEF Threads, Places
<1>3. /\ UNCHANGED <<fpc, fmodel, requests, routed, sent, received>>
      /\ UNCHANGED <<shm, inSock, outSock, g_exitFlag, g_receivingFlag>>
      /\ UNCHANGED <<g_InputQueue, g_OutputQueue, g_ControlQueue, elem>>
      /\ pc["loadControl"] = "handle"
      /\ g_modelTable' = IF elem["loadControl"].act = "LOAD"
                         THEN g_modelTable \cup {elem["loadControl"].model}
                         ELSE g_modelTable \ {elem["loadControl"].model}
  BY DEF HandleRequest, frontVars, sockVars, flagVars, queueVars, At
<1>4. Moved("loadControl", "check")
  BY <1>1, <1>2, GoMoves DEF HandleRequest
<1>5. /\ g_ControlQueue' \in Seq(Asking)
      /\ elem' \in [Threads -> Message \cup {NoElem}]
  BY <1>1, <1>3 DEF TypeOK
<1>6. /\ TypeOK' /\ PlacesInv'
      /\ Live' = Live => FlowInv'
      /\ Leaving => PhaseInv' /\ Live' = Live
  BY <1>2, <1>3, <1>4, <1>5, ControlFrame DEF frontVars
<1>7. ASSUME ~Leaving PROVE PhaseInv' /\ Live' = Live
  <2>1. fpc \in {"LOAD", "UNLOAD"}
    BY <1>1, <1>3, <1>7 DEF PhaseInv, TypeOK, Leaving, Quiet, ControlIdle
  <2>2. Requesting
    BY <1>1, <2>1 DEF PhaseInv
  <2>3. PICK M \in Asking : M.act = fpc /\ M.model = fmodel /\ Handling(M)
    BY <1>3, <2>2 DEF Requesting, OnTheWay, OnSocket, Held, Queued, Handled, Quiet,
                      ControlIdle
  <2>4. shm = "LOADING"
    BY <1>3, <2>2 DEF Requesting, Quiet, ControlIdle
  <2>5. elem["loadControl"] = M /\ AllRuns /\ NotHeld /\ g_ControlQueue = <<>>
    BY <2>3 DEF Handling
  <2>6. g_modelTable' = IF fpc = "LOAD" THEN g_modelTable \cup {fmodel}
                        ELSE g_modelTable \ {fmodel}
    BY <1>3, <2>3, <2>5
  <2>7. Handled'
    BY <1>3, <1>4, <2>5 DEF Handled, AllRuns, NotHeld, Moved
  <2>8. Requesting'
    BY <1>3, <2>4, <2>6, <2>7 DEF Requesting
  <2>9. Live' = Live /\ Live = routed /\ (Leaving' <=> Leaving)
    BY <1>3, <2>1 DEF Live, Leaving
  <2>10. Live' \subseteq g_modelTable'
    BY <1>1, <2>1, <2>6, <2>9 DEF PhaseInv
  <2>11. /\ pc'["compute"] \in {"init", "ready"} => pc["compute"] \in {"init", "ready"}
         /\ pc'["control"] \in {"end", "gone"} => pc["control"] \in {"end", "gone"}
         /\ pc'["main"] # "join" => pc["main"] # "join"
    BY <1>4 DEF Moved, Threads
  <2>12. fpc' \notin {"boot", "idle", "unrouted"}
    BY <1>3, <2>1
  <2>13. PhaseInv'
    BY <1>1, <1>3, <2>8, <2>9, <2>10, <2>11, <2>12 DEF PhaseInv
  <2> QED
    BY <2>9, <2>13
<1> QED
  BY <1>6, <1>7 DEF IInv

\* loadControl finds the queue empty, and will mark RUNNING.
LEMMA CheckStateStep == IInv /\ CheckState => IInv'
<1> SUFFICES ASSUME IInv, CheckState PROVE IInv'
  OBVIOUS
<1>1. TypeOK /\ PlacesInv /\ PhaseInv /\ FlowInv
  BY DEF IInv
<1>2. /\ "loadControl" \in Threads /\ "mark" \in Places \ {"gone"}
      /\ "test" \in Places \ {"gone"}
  BY DEF Threads, Places
<1> DEFINE place == IF g_ControlQueue = <<>> /\ shm # "EXITING" THEN "mark" ELSE "test"
<1>3. /\ UNCHANGED <<fpc, fmodel, requests, routed, sent, received>>
      /\ UNCHANGED <<shm, inSock, outSock, g_exitFlag, g_receivingFlag>>
      /\ UNCHANGED <<g_InputQueue, g_OutputQueue, g_ControlQueue, g_modelTable>>
      /\ pc["loadControl"] = "check"
      /\ elem' = [elem EXCEPT !["loadControl"] = NoElem]
      /\ Go("loadControl", place)
  BY DEF CheckState, frontVars, sockVars, flagVars, queueVars, At
<1>4. Moved("loadControl", place)
  BY <1>1, <1>2, <1>3, GoMoves
<1>5. /\ g_ControlQueue' \in Seq(Asking)
      /\ elem \in [Threads -> Message \cup {NoElem}]
  BY <1>1, <1>3 DEF TypeOK
<1>6. /\ elem' \in [Threads -> Message \cup {NoElem}]
      /\ \A t \in Threads \ {"loadControl"} : elem'[t] = elem[t]
  BY <1>3, <1>5
<1>7. place # "handle"
  OBVIOUS
<1>8. /\ TypeOK' /\ PlacesInv'
      /\ Live' = Live => FlowInv'
      /\ Leaving => PhaseInv' /\ Live' = Live
  <2>1. place \in Places \ {"gone"}
    BY <1>2
  <2> HIDE DEF place
  <2> QED
    BY <1>3, <1>4, <1>5, <1>6, <1>7, <2>1, ControlFrame DEF frontVars
<1>9. ASSUME ~Leaving PROVE PhaseInv' /\ Live' = Live
  <2>1. fpc \in {"LOAD", "UNLOAD"}
    BY <1>1, <1>3, <1>9 DEF PhaseInv, TypeOK, Leaving, Quiet, ControlIdle
  <2>2. Requesting
    BY <1>1, <2>1 DEF PhaseInv
  <2>3. /\ shm = "LOADING" /\ Handled
        /\ fpc = "LOAD" => fmodel \in g_modelTable
    BY <1>3, <2>2 DEF Requesting, OnTheWay, OnSocket, Held, Queued, Handling, Quiet,
                      ControlIdle
  <2>4. place = "mark"
    BY <2>3 DEF Handled
  <2>5. Handled'
    BY <1>3, <1>4, <1>6, <2>3, <2>4 DEF Handled, AllRuns, NotHeld, Moved, Threads
  <2>6. Requesting'
    BY <1>3, <2>3, <2>5 DEF Requesting
  <2>7. Live' = Live /\ (Leaving' <=> Leaving)
    BY <1>3 DEF Live, Leaving
  <2>8. /\ pc'["compute"] \in {"init", "ready"} => pc["compute"] \in {"init", "ready"}
        /\ pc'["control"] \in {"end", "gone"} => pc["control"] \in {"end", "gone"}
        /\ pc'["main"] # "join" => pc["main"] # "join"
    BY <1>4 DEF Moved, Threads
  <2>9. fpc' \notin {"boot", "idle", "unrouted"}
    BY <1>3, <2>1
  <2>10. PhaseInv'
    BY <1>1, <1>3, <2>6, <2>7, <2>8, <2>9 DEF PhaseInv
  <2> QED
    BY <2>7, <2>10
<1> QED
  BY <1>8, <1>9 DEF IInv

\* loadControl marks RUNNING: the frontend's request is answered.
LEMMA MarkRunningStep == IInv /\ MarkRunning => IInv'
<1> SUFFICES ASSUME IInv, MarkRunning PROVE IInv'
  OBVIOUS
<1>1. TypeOK /\ PlacesInv /\ PhaseInv /\ FlowInv
  BY DEF IInv
<1>2. "loadControl" \in Threads /\ "test" \in Places \ {"gone"}
  BY DEF Threads, Places
<1>3. /\ UNCHANGED <<fpc, fmodel, requests, routed, sent, received>>
      /\ UNCHANGED <<inSock, outSock, g_exitFlag, g_receivingFlag>>
      /\ UNCHANGED <<g_InputQueue, g_OutputQueue, g_ControlQueue, g_modelTable, elem>>
      /\ pc["loadControl"] = "mark"
      /\ shm' = "RUNNING"
  BY DEF MarkRunning, frontVars, sockVars, flagVars, queueVars, At
<1>4. Moved("loadControl", "test")
  BY <1>1, <1>2, GoMoves DEF MarkRunning
<1>5. /\ g_ControlQueue' \in Seq(Asking)
      /\ elem' \in [Threads -> Message \cup {NoElem}]
  BY <1>1, <1>3 DEF TypeOK
<1>6. /\ TypeOK' /\ PlacesInv'
      /\ Live' = Live => FlowInv'
      /\ Leaving => PhaseInv' /\ Live' = Live
  BY <1>2, <1>3, <1>4, <1>5, ControlFrame DEF frontVars
<1>7. ASSUME ~Leaving PROVE PhaseInv' /\ Live' = Live
  <2>1. fpc \in {"LOAD", "UNLOAD"}
    BY <1>1, <1>3, <1>7 DEF PhaseInv, TypeOK, Leaving, Quiet, ControlIdle
  <2>2. Requesting
    BY <1>1, <2>1 DEF PhaseInv
  <2>3. Handled /\ (fpc = "LOAD" => fmodel \in g_modelTable)
    BY <1>3, <2>2 DEF Requesting, OnTheWay, OnSocket, Held, Queued, Handling, Quiet,
                      ControlIdle
  <2>4. Quiet'
    BY <1>3, <1>4, <2>3 DEF Handled, Quiet, ControlIdle, AllRuns, NotHeld, Moved
  <2>5. Requesting'
    BY <1>3, <2>3, <2>4 DEF Requesting
  <2>6. Live' = Live /\ (Leaving' <=> Leaving)
    BY <1>3 DEF Live, Leaving
  <2>7. /\ pc'["compute"] \notin {"init", "ready"}
        /\ pc'["control"] \in {"end", "gone"} => pc["control"] \in {"end", "gone"}
        /\ pc'["main"] # "join" => pc["main"] # "join"
    BY <1>1, <1>4, <2>1 DEF Moved, Threads, PhaseInv
  <2>8. fpc' \notin {"boot", "idle", "unrouted"}
    BY <1>3, <2>1
  <2>9. PhaseInv'
    BY <1>1, <1>3, <2>5, <2>6, <2>7, <2>8 DEF PhaseInv
  <2> QED
    BY <2>6, <2>9
<1> QED
  BY <1>6, <1>7 DEF IInv

\* recvInput reads the header of a batch, of the request or of the end.
LEMMA ReadHeaderStep == IInv /\ ReadHeader => IInv'
<1> SUFFICES ASSUME IInv, ReadHeader PROVE IInv'
  OBVIOUS
<1>1. TypeOK /\ PlacesInv /\ PhaseInv /\ FlowInv
  BY DEF IInv
<1> PICK h, s : h = Head(inSock) /\ s = inSock
  OBVIOUS
<1> DEFINE place == CASE h.act = "RUN" -> "body"
                      [] h.act = "CLOSE" -> "close"
                      [] OTHER -> "queue"
<1>2. /\ UNCHANGED <<fpc, fmodel, requests, routed, sent, received>>
      /\ UNCHANGED <<shm, outSock, g_exitFlag>>
      /\ UNCHANGED <<g_InputQueue, g_OutputQueue, g_ControlQueue, g_modelTable>>
      /\ pc["recvInput"] = "read" /\ inSock # <<>>
      /\ inSock' = Tail(inSock)
      /\ elem' = [elem EXCEPT !["recvInput"] = h]
      /\ g_receivingFlag' = (g_receivingFlag \/ h.act = "RUN")
      /\ Go("recvInput", place)
  BY DEF ReadHeader, frontVars, queueVars, At
<1>3. /\ inSock \in Seq(Message) /\ elem \in [Threads -> Message \cup {NoElem}]
      /\ g_receivingFlag \in BOOLEAN
  BY <1>1 DEF TypeOK
<1>4. h \in Message /\ inSock' \in Seq(Message) /\ h = inSock[1]
      /\ Len(inSock) \in Nat \ {0} /\ Len(inSock') = Len(inSock) - 1
      /\ \A i \in 1 .. Len(inSock') : inSock'[i] = inSock[i + 1]
  BY <1>2, <1>3, HeadTailProperties, EmptySeq
<1>5. \/ h \in Batch /\ place = "body" /\ IsRun(h)
      \/ h = Close /\ place = "close" /\ ~IsRun(h)
      \/ h \in Asking /\ place = "queue" /\ ~IsRun(h)
  <2>1. CASE h \in Batch
    <3>1. h.act = "RUN"
      BY <2>1 DEF Batch
    <3> QED
      BY <2>1, <3>1 DEF IsRun
  <2>2. CASE h = Close
    <3>1. h.act = "CLOSE"
      BY <2>2 DEF Close
    <3> QED
      BY <2>2, <3>1 DEF IsRun
  <2>3. CASE h \in Asking
    <3>1. h.act \in {"LOAD", "UNLOAD"}
      BY <2>3 DEF Asking
    <3> QED
      BY <2>3, <3>1 DEF IsRun
  <2> QED
    BY <1>4, <2>1, <2>2, <2>3 DEF Message
<1>6. "recvInput" \in Threads /\ place \in Places
  BY <1>5 DEF Threads, Places
<1> HIDE DEF place
<1>7. Moved("recvInput", place)
  BY <1>1, <1>2, <1>6, GoMoves
<1>8. elem["recvInput"] = NoElem /\ g_receivingFlag = FALSE
  BY <1>1, <1>2, <1>3 DEF PlacesInv
<1>9. g_receivingFlag' = IsRun(h) /\ g_receivingFlag' \in BOOLEAN
  BY <1>2, <1>8 DEF IsRun
<1>10. /\ elem' \in [Threads -> Message \cup {NoElem}]
       /\ elem'["recvInput"] = h
       /\ elem'["compute"] = elem["compute"]
       /\ elem'["send_output"] = elem["send_output"]
       /\ elem'["loadControl"] = elem["loadControl"]
  BY <1>2, <1>3, <1>4 DEF Threads
<1>11. TypeOK'
  BY <1>1, <1>2, <1>4, <1>7, <1>9, <1>10 DEF TypeOK, Moved
<1>12. PlacesInv'
  BY <1>1, <1>2, <1>5, <1>7, <1>8, <1>9, <1>10 DEF PlacesInv, Moved, Threads
<1>13. Rest' = Rest
  <2>1. /\ HeldBatch("send_output")' = HeldBatch("send_output")
        /\ HeldBatch("compute")' = HeldBatch("compute")
    BY <1>10 DEF HeldBatch
  <2>2. HeldBatch("recvInput") = <<>>
    BY <1>8 DEF HeldBatch, IsRun, NoElem
  <2>3. HeldBatch("recvInput")' = IF IsRun(h) THEN <<h>> ELSE <<>>
    BY <1>10 DEF HeldBatch
  <2>4. Runs(inSock) = (IF IsRun(h) THEN <<h>> ELSE <<>>) \o Runs(inSock')
    BY <1>2, <1>3, RunsTail
  <2>5. Rest1 = Runs(inSock)
    <3>1. Runs(inSock) \in Seq(Batch)
      BY <1>1, RestType
    <3> QED
      BY <2>2, <3>1, BatchEmpty DEF Rest1
  <2>6. Rest1' = Runs(inSock)
    BY <2>3, <2>4, Zenon DEF Rest1
  <2>7. Rest5' = Rest5
    BY <1>2, <2>1, <2>5, <2>6 DEF Rest2, Rest3, Rest4, Rest5
  <2> QED
    BY <1>2, <2>7, RestIs
<1>14. Live' = Live /\ (Leaving' <=> Leaving)
  BY <1>2 DEF Live, Leaving
<1>15. FlowInv'
  BY <1>1, <1>2, <1>13, <1>14, FlowFrame
<1>16. /\ pc'["compute"] \in {"init", "ready"} => pc["compute"] \in {"init", "ready"}
       /\ pc'["control"] \in {"end", "gone"} => pc["control"] \in {"end", "gone"}
       /\ pc'["main"] # "join" => pc["main"] # "join"
  BY <1>7 DEF Moved, Threads
<1>17. CASE Leaving
  <2>1. PhaseInv'
    BY <1>1, <1>2, <1>16, <1>17, LeavingFrame DEF PhaseInv, frontVars
  <2> QED
    BY <1>11, <1>12, <1>15, <2>1 DEF IInv
<1>18. CASE ~Leaving
  <2>1. /\ ControlIdle => ControlIdle'
        /\ \A p \in {"handle", "check", "mark"} :
              pc["loadControl"] = p => pc'["loadControl"] = p
    BY <1>7 DEF ControlIdle, Moved, Threads
  <2>2. AllRuns => AllRuns' /\ NotHeld'
    <3> SUFFICES ASSUME AllRuns PROVE AllRuns' /\ NotHeld'
      OBVIOUS
    <3>1. \A i \in 1 .. Len(inSock') : i + 1 \in 1 .. Len(inSock)
      BY <1>4
    <3>2. AllRuns'
      BY <1>4, <3>1 DEF AllRuns
    <3>3. IsRun(h)
      BY <1>4 DEF AllRuns
    <3>4. h \in Batch
      BY <1>5, <3>3
    <3> QED
      BY <1>10, <3>2, <3>4, NotBatch DEF NotHeld
  <2>3. Quiet => Quiet'
    BY <1>2, <2>1, <2>2 DEF Quiet
  <2>4. Handled => Handled'
    BY <1>2, <2>1, <2>2 DEF Handled
  <2>5. ASSUME NEW M \in Asking, OnTheWay(M) PROVE OnTheWay(M)'
    <3>1. CASE OnSocket(M)
      <4>1. PICK k \in 1 .. Len(inSock) :
               /\ inSock[k] = M
               /\ \A j \in 1 .. Len(inSock) : j # k => IsRun(inSock[j])
        BY <3>1 DEF OnSocket
      <4>2. g_ControlQueue' = <<>> /\ ControlIdle'
        BY <1>2, <2>1, <3>1 DEF OnSocket
      <4>3. CASE k = 1
        <5>1. h = M /\ place = "queue"
          BY <1>4, <1>5, <4>1, <4>3, NotBatch
        <5>2. \A i \in 1 .. Len(inSock') : i + 1 \in 1 .. Len(inSock) /\ i + 1 # 1
          BY <1>4
        <5>3. AllRuns'
          BY <1>4, <4>1, <4>3, <5>2 DEF AllRuns
        <5>4. Held(M)'
          BY <1>7, <1>10, <4>2, <5>1, <5>3 DEF Held, Moved
        <5> QED
          BY <5>4 DEF OnTheWay
      <4>4. CASE k # 1
        <5>1. k - 1 \in 1 .. Len(inSock') /\ inSock'[k - 1] = M
          BY <1>4, <4>1, <4>4
        <5>2. \A j \in 1 .. Len(inSock') : j # k - 1 => IsRun(inSock'[j])
          <6>1. \A i \in 1 .. Len(inSock') :
                   i + 1 \in 1 .. Len(inSock) /\ (i # k - 1 => i + 1 # k)
            BY <1>4
          <6> QED
            BY <1>4, <4>1, <6>1
        <5>3. IsRun(h)
          BY <1>4, <4>1, <4>4
        <5>4. NotHeld'
          BY <1>5, <1>10, <5>3, NotBatch DEF NotHeld
        <5>5. OnSocket(M)'
          BY <4>2, <5>1, <5>2, <5>4 DEF OnSocket
        <5> QED
          BY <5>5 DEF OnTheWay
      <4> QED
        BY <4>3, <4>4
    <3>2. CASE Held(M)
      BY <1>2, <3>2 DEF Held
    <3>3. CASE Queued(M)
      <4>1. Queued(M)'
        BY <1>2, <2>1, <2>2, <3>3 DEF Queued
      <4> QED
        BY <4>1 DEF OnTheWay
    <3>4. CASE Handling(M)
      <4>1. Handling(M)'
        BY <1>2, <1>10, <2>1, <2>2, <3>4 DEF Handling
      <4> QED
        BY <4>1 DEF OnTheWay
    <3> QED
      BY <2>5, <3>1, <3>2, <3>3, <3>4 DEF OnTheWay
  <2>6. fpc \in {"LOAD", "UNLOAD"} => Requesting'
    <3> SUFFICES ASSUME fpc \in {"LOAD", "UNLOAD"} PROVE Requesting'
      OBVIOUS
    <3>1. Requesting
      BY <1>1 DEF PhaseInv
    <3>2. CASE /\ shm = "LOADING"
               /\ \E M \in Asking : M.act = fpc /\ M.model = fmodel /\ OnTheWay(M)
      <4>1. PICK M \in Asking : M.act = fpc /\ M.model = fmodel /\ OnTheWay(M)
        BY <3>2
      <4>2. OnTheWay(M)' /\ M.act = fpc' /\ M.model = fmodel'
        BY <1>2, <2>5, <4>1
      <4> QED
        BY <1>2, <3>2, <4>2 DEF Requesting
    <3> QED
      BY <1>2, <2>3, <2>4, <3>1, <3>2 DEF Requesting
  <2>7. PhaseInv'
    BY <1>1, <1>2, <1>14, <1>16, <1>18, <2>3, <2>6 DEF PhaseInv
  <2> QED
    BY <1>11, <1>12, <1>15, <2>7 DEF IInv
<1> QED
  BY <1>17, <1>18

\* recvInput passes a batch to compute, or the request to loadControl.
LEMMA QueueInputStep == IInv /\ QueueInput => IInv'
<1> SUFFICES ASSUME IInv, QueueInput PROVE IInv'
  OBVIOUS
<1>1. TypeOK /\ PlacesInv /\ PhaseInv /\ FlowInv
  BY DEF IInv
<1> PICK b : b = elem["recvInput"]
  OBVIOUS
<1>2. /\ UNCHANGED <<fpc, fmodel, requests, routed, sent, received>>
      /\ UNCHANGED <<shm, inSock, outSock, g_exitFlag, g_receivingFlag>>
      /\ UNCHANGED <<g_OutputQueue, g_modelTable>>
      /\ pc["recvInput"] = "queue"
      /\ elem' = [elem EXCEPT !["recvInput"] = NoElem]
      /\ IF b.act = "RUN"
         THEN g_InputQueue' = Append(g_InputQueue, b) /\ UNCHANGED g_ControlQueue
         ELSE g_ControlQueue' = Append(g_ControlQueue, b) /\ UNCHANGED g_InputQueue
  BY DEF QueueInput, frontVars, sockVars, flagVars, At
<1>3. "recvInput" \in Threads /\ "read" \in Places
  BY DEF Threads, Places
<1>4. Moved("recvInput", "read")
  BY <1>1, <1>3, NotifyMoves DEF QueueInput
<1>5. b \in Batch \cup Asking /\ g_receivingFlag \in BOOLEAN /\ ~g_receivingFlag
  BY <1>1, <1>2 DEF PlacesInv, TypeOK
<1>6. pc' \in [Threads -> Places] /\ elem \in [Threads -> Message \cup {NoElem}]
  BY <1>1, <1>4 DEF Moved, TypeOK
<1>7. /\ elem' \in [Threads -> Message \cup {NoElem}]
      /\ elem'["recvInput"] = NoElem
      /\ elem'["compute"] = elem["compute"]
      /\ elem'["send_output"] = elem["send_output"]
      /\ elem'["loadControl"] = elem["loadControl"]
  BY <1>2, <1>6 DEF Threads
<1>8. PlacesInv'
  BY <1>1, <1>2, <1>4, <1>5, <1>7 DEF PlacesInv, Moved, Threads
<1>9. /\ HeldBatch("send_output")' = HeldBatch("send_output")
      /\ HeldBatch("compute")' = HeldBatch("compute")
      /\ HeldBatch("recvInput")' = <<>>
  BY <1>7 DEF HeldBatch, IsRun, NoElem
<1>10. CASE b \in Batch
  <2>1. b.act = "RUN"
    BY <1>10 DEF Batch
  <2>2. g_InputQueue' = Append(g_InputQueue, b) /\ UNCHANGED g_ControlQueue
    BY <1>2, <2>1
  <2>3. g_InputQueue \in Seq(Batch) /\ g_InputQueue' \in Seq(Batch)
    BY <1>1, <1>10, <2>2, BatchEnters DEF TypeOK
  <2>4. TypeOK'
    BY <1>1, <1>2, <1>6, <1>7, <2>2, <2>3 DEF TypeOK
  <2>5. Aside
    BY <1>2, <1>4, <1>7, <1>10, <2>2, NotBatch DEF Aside, Moved, Threads, frontVars
  <2>6. PhaseInv' /\ Live' = Live
    BY <1>1, <2>5, PhaseFrame
  <2>7. HeldBatch("recvInput") = <<b>>
    BY <1>1, <1>3, <1>10, HeldType
  <2>8. Runs(inSock) \in Seq(Batch) /\ Runs(inSock)' = Runs(inSock)
    BY <1>1, <1>2, RestType
  <2>9. Rest2 = g_InputQueue \o (<<b>> \o Runs(inSock))
    BY <2>7 DEF Rest1, Rest2
  <2>10. Rest2' = Append(g_InputQueue, b) \o (<<>> \o Runs(inSock))
    BY <1>9, <2>2, <2>8 DEF Rest1, Rest2
  <2>11. Rest2' = Rest2
    BY <1>10, <2>3, <2>8, <2>9, <2>10, HeldMovesOn
  <2>12. Rest5' = Rest5
    BY <1>2, <1>9, <2>11 DEF Rest3, Rest4, Rest5
  <2>13. FlowInv'
    BY <1>1, <1>2, <2>6, <2>12, RestIs, FlowFrame
  <2> QED
    BY <1>8, <2>4, <2>6, <2>13 DEF IInv
<1>11. CASE b \in Asking
  <2>1. b.act # "RUN"
    BY <1>11 DEF Asking
  <2>2. g_ControlQueue' = Append(g_ControlQueue, b) /\ UNCHANGED g_InputQueue
    BY <1>2, <2>1
  <2>3. g_ControlQueue \in Seq(Asking) /\ g_ControlQueue' \in Seq(Asking)
    BY <1>1, <1>11, <2>2 DEF TypeOK
  <2>4. TypeOK'
    BY <1>1, <1>2, <1>6, <1>7, <2>2, <2>3 DEF TypeOK
  <2>5. HeldBatch("recvInput") = <<>>
    BY <1>1, <1>3, <1>11, HeldType, NotBatch
  <2>6. Rest5' = Rest5
    BY <1>2, <1>9, <2>2, <2>5 DEF Rest1, Rest2, Rest3, Rest4, Rest5
  <2>7. Live' = Live /\ (Leaving' <=> Leaving)
    BY <1>2 DEF Live, Leaving
  <2>8. FlowInv'
    BY <1>1, <1>2, <2>6, <2>7, RestIs, FlowFrame
  <2>9. /\ pc'["compute"] \in {"init", "ready"} => pc["compute"] \in {"init", "ready"}
        /\ pc'["control"] \in {"end", "gone"} => pc["control"] \in {"end", "gone"}
        /\ pc'["main"] # "join" => pc["main"] # "join"
    BY <1>4 DEF Moved, Threads
  <2>10. CASE Leaving
    <3>1. PhaseInv'
      BY <1>1, <1>2, <2>9, <2>10, LeavingFrame DEF PhaseInv, frontVars
    <3> QED
      BY <1>8, <2>4, <2>8, <3>1 DEF IInv
  <2>11. CASE ~Leaving
    <3>1. fpc \in {"LOAD", "UNLOAD"}
      BY <1>1, <1>11, <2>11 DEF PhaseInv, TypeOK, Leaving, Quiet, NotHeld
    <3>2. Requesting
      BY <1>1, <3>1 DEF PhaseInv
    <3>3. PICK M \in Asking : M.act = fpc /\ M.model = fmodel /\ Held(M)
      BY <1>11, <3>2 DEF Requesting, OnTheWay, OnSocket, Queued, Handling, Handled,
                         Quiet, NotHeld
    <3>4. shm = "LOADING"
      BY <1>11, <3>2 DEF Requesting, Quiet, NotHeld
    <3>5. b = M /\ AllRuns /\ g_ControlQueue = <<>> /\ ControlIdle
      BY <3>3 DEF Held
    <3>6. g_ControlQueue' = <<M>>
      BY <2>2, <3>5
    <3>7. AllRuns' /\ NotHeld' /\ ControlIdle'
      BY <1>2, <1>4, <1>7, <3>5, NotBatch
         DEF AllRuns, NotHeld, ControlIdle, Moved, Threads
    <3>8. Queued(M)'
      BY <3>6, <3>7 DEF Queued
    <3>9. Requesting'
      BY <1>2, <3>3, <3>4, <3>8 DEF Requesting, OnTheWay
    <3>10. fpc' \notin {"boot", "idle", "unrouted"}
      BY <1>2, <3>1
    <3>11. PhaseInv'
      BY <1>1, <1>2, <2>7, <2>9, <3>9, <3>10 DEF PhaseInv
    <3> QED
      BY <1>8, <2>4, <2>8, <3>11 DEF IInv
  <2> QED
    BY <2>10, <2>11
<1> QED
  BY <1>5, <1>10, <1>11

\* The process is RUNNING for the first time.
LEMMA ComputeReadyStep == IInv /\ ComputeReady => IInv'
<1> SUFFICES ASSUME IInv, ComputeReady PROVE IInv'
  OBVIOUS
<1>1. TypeOK /\ PlacesInv /\ PhaseInv /\ FlowInv
  BY DEF IInv
<1>2. "compute" \in Threads /\ "test" \in Places
  BY DEF Threads, Places
<1>3. /\ UNCHANGED <<fpc, fmodel, requests, routed, sent, received>>
      /\ UNCHANGED <<inSock, outSock, g_exitFlag, g_receivingFlag>>
      /\ UNCHANGED <<g_InputQueue, g_OutputQueue, g_ControlQueue, g_modelTable, elem>>
      /\ pc["compute"] = "ready" /\ shm' = "RUNNING"
  BY DEF ComputeReady, frontVars, sockVars, flagVars, queueVars, At
<1>4. Moved("compute", "test")
  BY <1>1, <1>2, GoMoves DEF ComputeReady
<1>5. TypeOK'
  BY <1>1, <1>3, <1>4 DEF TypeOK, Moved
<1>6. PlacesInv'
  BY <1>1, <1>3, <1>4 DEF PlacesInv, Moved, Threads
<1>7. fpc = "boot" /\ Quiet
  BY <1>1, <1>3 DEF PhaseInv
<1>8. Quiet'
  BY <1>3, <1>4, <1>7 DEF Quiet, AllRuns, NotHeld, ControlIdle, Moved, Threads
<1>9. Live' = Live /\ (Leaving' <=> Leaving)
  BY <1>3 DEF Live, Leaving
<1>10. /\ pc'["compute"] \notin {"init", "ready"}
       /\ pc'["control"] \in {"end", "gone"} => pc["control"] \in {"end", "gone"}
       /\ pc'["main"] # "join" => pc["main"] # "join"
  BY <1>4 DEF Moved, Threads
<1>11. PhaseInv'
  BY <1>1, <1>3, <1>7, <1>8, <1>9, <1>10 DEF PhaseInv
<1>12. FlowInv'
  BY <1>1, <1>3, <1>9, RestFrame, FlowFrame
<1> QED
  BY <1>5, <1>6, <1>11, <1>12 DEF IInv

\* EXITING is seen only once the shutdown has begun.
LEMMA ExitingLeaves == TypeOK /\ PhaseInv /\ shm = "EXITING" => Leaving
  BY DEF TypeOK, PhaseInv, Leaving, Requesting

\* Steps of control and main, when the shutdown has begun.
LEMMA EndStep ==
    ASSUME IInv, Leaving, NEW t \in {"control", "main"}, NEW place \in Places,
           Moved(t, place), g_exitFlag' = TRUE,
           UNCHANGED <<frontVars, inSock, outSock, g_receivingFlag, queueVars,
                       g_modelTable, elem>>
    PROVE  IInv'
<1>1. TypeOK /\ PlacesInv /\ PhaseInv /\ FlowInv
  BY DEF IInv
<1>2. /\ UNCHANGED <<fpc, fmodel, requests, routed, sent, received>>
      /\ UNCHANGED <<g_InputQueue, g_OutputQueue, g_ControlQueue>>
  BY DEF frontVars, queueVars
<1>3. TypeOK'
  BY <1>1, <1>2 DEF TypeOK, Moved
<1>4. PlacesInv'
  BY <1>1 DEF PlacesInv, Moved, Threads
<1>5. pc'["compute"] \in {"init", "ready"} => pc["compute"] \in {"init", "ready"}
  BY DEF Moved, Threads
<1>6. PhaseInv' /\ Live' = Live
  BY <1>1, <1>5, LeavingFrame
<1>7. FlowInv'
  BY <1>1, <1>2, <1>6, RestFrame, FlowFrame
<1> QED
  BY <1>3, <1>4, <1>6, <1>7 DEF IInv

\* control sets g_exitFlag.
LEMMA controlStep == IInv /\ control => IInv'
<1> SUFFICES ASSUME IInv, control PROVE IInv'
  OBVIOUS
<1>1. TypeOK /\ PhaseInv /\ "control" \in Threads /\ "end" \in Places
  BY DEF IInv, Threads, Places
<1>2. Leaving
  BY <1>1, ExitingLeaves DEF control
<1>3. Moved("control", "end")
  BY <1>1, NotifyMoves DEF control
<1>4. /\ g_exitFlag' = TRUE
      /\ UNCHANGED <<frontVars, inSock, outSock, g_receivingFlag, queueVars,
                     g_modelTable, elem>>
  BY DEF control, sockVars
<1> QED
  BY <1>1, <1>2, <1>3, <1>4, EndStep

\* main writes FLUSHED and COLD.
LEMMA MainStep == IInv /\ (MainFlushed \/ MainCold) => IInv'
<1> SUFFICES ASSUME IInv, MainFlushed \/ MainCold PROVE IInv'
  OBVIOUS
<1>1. /\ TypeOK /\ PhaseInv /\ "main" \in Threads
      /\ "flushed" \in Places /\ "return" \in Places
  BY DEF IInv, Threads, Places
<1>2. g_exitFlag
  BY <1>1 DEF MainFlushed, MainCold, At, PhaseInv
<1>3. Leaving
  BY <1>1, <1>2 DEF PhaseInv
<1>4. \E place \in Places : Moved("main", place)
  BY <1>1, GoMoves DEF MainFlushed, MainCold
<1>5. /\ g_exitFlag' = TRUE
      /\ UNCHANGED <<frontVars, inSock, outSock, g_receivingFlag, queueVars,
                     g_modelTable, elem>>
  <2>1. g_exitFlag \in BOOLEAN
    BY <1>1 DEF TypeOK
  <2> QED
    BY <1>2, <2>1 DEF MainFlushed, MainCold, sockVars, flagVars
<1> QED
  BY <1>1, <1>3, <1>4, <1>5, EndStep

\* main returns: no batch is left in a thread that it takes along.
LEMMA MainReturnStep == IInv /\ MainReturn => IInv'
<1> SUFFICES ASSUME IInv, MainReturn PROVE IInv'
  OBVIOUS
<1>1. TypeOK /\ PlacesInv /\ PhaseInv /\ FlowInv
  BY DEF IInv
<1>2. /\ UNCHANGED <<fpc, fmodel, requests, routed, sent, received>>
      /\ UNCHANGED <<shm, inSock, outSock, g_exitFlag, g_receivingFlag>>
      /\ UNCHANGED <<g_InputQueue, g_OutputQueue, g_ControlQueue, g_modelTable, elem>>
      /\ pc["main"] = "return" /\ pc' = [t \in Threads |-> "gone"]
  BY DEF MainReturn, frontVars, sockVars, flagVars, queueVars, At
<1>3. /\ pc'["recvInput"] = "gone" /\ pc'["compute"] = "gone"
      /\ pc'["send_output"] = "gone" /\ pc'["loadControl"] = "gone"
      /\ pc' \in [Threads -> Places]
  BY <1>2 DEF Threads, Places
<1>4. TypeOK'
  BY <1>1, <1>2, <1>3 DEF TypeOK
<1>5. g_exitFlag /\ Leaving
  BY <1>1, <1>2 DEF PhaseInv
<1>6. ~g_receivingFlag
  BY <1>5, LeavingEmpty
<1>7. PlacesInv'
  BY <1>2, <1>3, <1>6 DEF PlacesInv
<1>8. PhaseInv' /\ Live' = Live
  BY <1>1, <1>2, <1>3, <1>5, LeavingFrame DEF frontVars
<1>9. FlowInv'
  BY <1>1, <1>2, <1>8, RestFrame, FlowFrame
<1> QED
  BY <1>4, <1>7, <1>8, <1>9 DEF IInv

-----------------------------------------------------------------------------
(***************************************************************************)
(* The frontend.                                                           *)
(***************************************************************************)

\* Steps of the frontend that leave the process alone.
LEMMA FrontFrame ==
    ASSUME IInv, UNCHANGED procVars
    PROVE  /\ PlacesInv'
           /\ UNCHANGED <<inSock, outSock>> => Rest' = Rest
           /\ UNCHANGED <<g_exitFlag, g_receivingFlag, g_InputQueue, g_OutputQueue,
                          g_ControlQueue, g_modelTable, pc, elem>>
           /\ NotHeld' = NotHeld /\ ControlIdle' = ControlIdle
<1>1. UNCHANGED <<g_exitFlag, g_receivingFlag, g_InputQueue, g_OutputQueue,
                  g_ControlQueue, g_modelTable, pc, elem>>
  BY DEF procVars, flagVars, queueVars
<1>2. PlacesInv'
  BY <1>1 DEF IInv, PlacesInv
<1>3. UNCHANGED <<inSock, outSock>> => Rest' = Rest
  BY <1>1, RestFrame
<1>4. NotHeld' = NotHeld /\ ControlIdle' = ControlIdle
  BY <1>1 DEF NotHeld, ControlIdle
<1> QED
  BY <1>1, <1>2, <1>3, <1>4

\* The frontend connects.
LEMMA ConnectStep == IInv /\ Connect => IInv'
<1> SUFFICES ASSUME IInv, Connect PROVE IInv'
  OBVIOUS
<1>1. TypeOK /\ PlacesInv /\ PhaseInv /\ FlowInv
  BY DEF IInv
<1>2. /\ fpc = "boot" /\ shm = "RUNNING" /\ fpc' = "idle"
      /\ UNCHANGED <<fmodel, requests, routed, sent, received, shm, inSock, outSock>>
      /\ UNCHANGED procVars
  BY DEF Connect
<1>3. /\ PlacesInv' /\ Rest' = Rest
      /\ UNCHANGED <<g_exitFlag, g_receivingFlag, g_InputQueue, g_OutputQueue,
                     g_ControlQueue, g_modelTable, pc, elem>>
      /\ NotHeld' = NotHeld /\ ControlIdle' = ControlIdle
  BY <1>2, FrontFrame
<1>4. TypeOK'
  BY <1>1, <1>2, <1>3 DEF TypeOK
<1>5. Quiet => Quiet'
  BY <1>2, <1>3 DEF Quiet, AllRuns
<1>6. Live' = Live /\ ~Leaving /\ ~Leaving'
  BY <1>2 DEF Live, Leaving
<1>7. PhaseInv'
  BY <1>1, <1>2, <1>3, <1>5, <1>6 DEF PhaseInv
<1>8. FlowInv'
  BY <1>1, <1>2, <1>3, <1>6, FlowFrame
<1> QED
  BY <1>3, <1>4, <1>7, <1>8 DEF IInv

\* A request is sent.
LEMMA RequestSent ==
    ASSUME IInv, NEW act \in {"LOAD", "UNLOAD"}, NEW m \in Models,
           fpc \in {"idle", "unrouted"}, Request(act, m), UNCHANGED routed
    PROVE  /\ TypeOK' /\ PlacesInv' /\ Requesting'
           /\ Rest' = Rest /\ UNCHANGED <<sent, received>>
           /\ fpc' = act /\ fmodel' = m
           /\ UNCHANGED <<g_exitFlag, g_modelTable, pc>>
<1>1. TypeOK /\ PlacesInv /\ PhaseInv
  BY DEF IInv
<1> PICK M : M = Elem(act, m, 0)
  OBVIOUS
<1>2. /\ requests' = requests + 1 /\ fpc' = act /\ fmodel' = m /\ shm' = "LOADING"
      /\ inSock' = Append(inSock, M)
      /\ UNCHANGED <<sent, received, outSock>> /\ UNCHANGED procVars
  BY DEF Request
<1>3. M \in Asking /\ M.act = act /\ M.model = m /\ M \in Message
  BY DEF Elem, Asking, Message
<1>4. /\ PlacesInv'
      /\ UNCHANGED <<g_exitFlag, g_receivingFlag, g_InputQueue, g_OutputQueue,
                     g_ControlQueue, g_modelTable, pc, elem>>
      /\ NotHeld' = NotHeld /\ ControlIdle' = ControlIdle
  BY <1>2, FrontFrame
<1>5. inSock \in Seq(Message)
  BY <1>1 DEF TypeOK
<1>6. /\ inSock' \in Seq(Message) /\ Len(inSock) \in Nat
      /\ Len(inSock') = Len(inSock) + 1
      /\ inSock'[Len(inSock) + 1] = M
      /\ \A i \in 1 .. Len(inSock) : inSock'[i] = inSock[i]
  BY <1>2, <1>3, <1>5, AppendProperties
<1>7. TypeOK'
  BY <1>1, <1>2, <1>4, <1>6 DEF TypeOK
<1>8. Rest' = Rest
  <2>1. Runs(inSock') = Runs(inSock)
    BY <1>2, <1>3, <1>5, RunsAppend, NotBatch
  <2>2. /\ HeldBatch("send_output")' = HeldBatch("send_output")
        /\ HeldBatch("compute")' = HeldBatch("compute")
        /\ HeldBatch("recvInput")' = HeldBatch("recvInput")
    BY <1>4 DEF HeldBatch
  <2>3. Rest5' = Rest5
    BY <1>4, <2>1, <2>2 DEF Rest1, Rest2, Rest3, Rest4, Rest5
  <2> QED
    BY <1>2, <2>3, RestIs
<1>9. Quiet
  BY <1>1 DEF PhaseInv
<1>10. OnSocket(M)'
  <2> DEFINE k == Len(inSock) + 1
  <2>1. k \in 1 .. Len(inSock') /\ inSock'[k] = M
    BY <1>6
  <2>2. \A j \in 1 .. Len(inSock') : j # k => j \in 1 .. Len(inSock)
    BY <1>6
  <2>3. \A j \in 1 .. Len(inSock') : j # k => IsRun(inSock'[j])
    BY <1>6, <1>9, <2>2 DEF Quiet, AllRuns
  <2>4. NotHeld' /\ g_ControlQueue' = <<>> /\ ControlIdle'
    BY <1>4, <1>9 DEF Quiet
  <2> HIDE DEF k
  <2> QED
    BY <2>1, <2>3, <2>4 DEF OnSocket
<1>11. Requesting'
  BY <1>2, <1>3, <1>10 DEF Requesting, OnTheWay
<1> QED
  BY <1>2, <1>4, <1>7, <1>8, <1>11

\* The loader asks for a model.
LEMMA LoadModelStep ==
    ASSUME IInv, NEW m \in Models, LoadModel(m)
    PROVE  IInv'
<1>1. TypeOK /\ PlacesInv /\ PhaseInv /\ FlowInv
  BY DEF IInv
<1>2. fpc = "idle" /\ UNCHANGED routed /\ Request("LOAD", m)
  BY DEF LoadModel
<1>3. /\ TypeOK' /\ PlacesInv' /\ Requesting'
      /\ Rest' = Rest /\ UNCHANGED <<sent, received>>
      /\ fpc' = "LOAD" /\ fmodel' = m
      /\ UNCHANGED <<g_exitFlag, g_modelTable, pc>>
  BY <1>2, RequestSent
<1>4. Live' = Live /\ ~Leaving /\ ~Leaving'
  BY <1>2, <1>3 DEF Live, Leaving
<1>5. PhaseInv'
  BY <1>1, <1>2, <1>3, <1>4 DEF PhaseInv
<1>6. FlowInv'
  BY <1>1, <1>3, <1>4, FlowFrame
<1> QED
  BY <1>3, <1>5, <1>6 DEF IInv

\* The model is taken out of the routing, and may still have batches.
LEMMA UnrouteStep ==
    ASSUME IInv, NEW m \in Models, Unroute(m)
    PROVE  IInv'
<1>1. TypeOK /\ PlacesInv /\ PhaseInv /\ FlowInv
  BY DEF IInv
<1>2. /\ fpc = "idle" /\ m \in routed /\ fpc' = "unrouted" /\ fmodel' = m
      /\ routed' = routed \ {m}
      /\ UNCHANGED <<requests, sent, received, shm, inSock, outSock>>
      /\ UNCHANGED procVars
  BY DEF Unroute, sockVars
<1>3. /\ PlacesInv' /\ Rest' = Rest
      /\ UNCHANGED <<g_exitFlag, g_receivingFlag, g_InputQueue, g_OutputQueue,
                     g_ControlQueue, g_modelTable, pc, elem>>
      /\ NotHeld' = NotHeld /\ ControlIdle' = ControlIdle
  BY <1>2, FrontFrame
<1>4. TypeOK'
  BY <1>1, <1>2, <1>3 DEF TypeOK
<1>5. Quiet => Quiet'
  BY <1>2, <1>3 DEF Quiet, AllRuns
<1>6. Live' = Live /\ ~Leaving /\ ~Leaving'
  BY <1>2 DEF Live, Leaving
<1>7. PhaseInv'
  BY <1>1, <1>2, <1>3, <1>5, <1>6 DEF PhaseInv
<1>8. FlowInv'
  BY <1>1, <1>2, <1>3, <1>6, FlowFrame
<1> QED
  BY <1>3, <1>4, <1>7, <1>8 DEF IInv

\* What is outstanding is what is between the sockets.
LEMMA RestIsOutstanding ==
    ASSUME TypeOK, FlowInv, NEW j \in 1 .. Len(Rest)
    PROVE  \E i \in Outstanding : sent[i] = Rest[j]
<1>1. received \in Seq(Batch) /\ Rest \in Seq(Batch) /\ sent = received \o Rest
  BY RestType DEF TypeOK, FlowInv
<1> DEFINE n == Len(received)
           i == n + j
<1>2. n \in Nat /\ Len(Rest) \in Nat
  BY <1>1
<1>3. /\ Len(sent) = n + Len(Rest)
      /\ \A k \in 1 .. n + Len(Rest) :
            sent[k] = IF k <= n THEN received[k] ELSE Rest[k - n]
  BY <1>1, ConcatProperties
<1> HIDE DEF n
<1>4. i \in 1 .. n + Len(Rest) /\ ~(i <= n) /\ i - n = j
  BY <1>2
<1>5. sent[i] = Rest[j]
  BY <1>3, <1>4
<1>6. i \in Outstanding
  BY <1>2, <1>3, <1>4 DEF Outstanding, n
<1> QED
  BY <1>5, <1>6

\* The unloader asks, once the model has no batch outstanding: it is live no
\* more.
LEMMA UnloadModelStep == IInv /\ UnloadModel => IInv'
<1> SUFFICES ASSUME IInv, UnloadModel PROVE IInv'
  OBVIOUS
<1>1. TypeOK /\ PlacesInv /\ PhaseInv /\ FlowInv
  BY DEF IInv
<1>2. /\ fpc = "unrouted" /\ UNCHANGED routed
      /\ \A i \in Outstanding : sent[i].model # fmodel
      /\ Request("UNLOAD", fmodel)
  BY DEF UnloadModel
<1>3. fmodel \in Models /\ fmodel \notin routed
  BY <1>1, <1>2 DEF PhaseInv
<1>4. /\ TypeOK' /\ PlacesInv' /\ Requesting'
      /\ Rest' = Rest /\ UNCHANGED <<sent, received>>
      /\ fpc' = "UNLOAD" /\ fmodel' = fmodel
      /\ UNCHANGED <<g_exitFlag, g_modelTable, pc>>
  BY <1>2, <1>3, RequestSent
<1>5. Live' = routed /\ Live = routed \cup {fmodel} /\ ~Leaving /\ ~Leaving'
  BY <1>2, <1>4 DEF Live, Leaving
<1>6. PhaseInv'
  BY <1>1, <1>2, <1>3, <1>4, <1>5 DEF PhaseInv
<1>7. \A j \in 1 .. Len(Rest) : Rest[j].model # fmodel
  BY <1>1, <1>2, RestIsOutstanding
<1>8. FlowInv'
  <2>1. sent' = received' \o Rest'
    BY <1>1, <1>4 DEF FlowInv
  <2>2. \A j \in 1 .. Len(Rest) : Rest[j].model \in Live'
    BY <1>1, <1>5, <1>7 DEF FlowInv
  <2> QED
    BY <1>4, <2>1, <2>2 DEF FlowInv
<1> QED
  BY <1>4, <1>6, <1>8 DEF IInv

\* The answer: a loaded model is in the table, and is routed to.
LEMMA RequestedStep == IInv /\ Requested => IInv'
<1> SUFFICES ASSUME IInv, Requested PROVE IInv'
  OBVIOUS
<1>1. TypeOK /\ PlacesInv /\ PhaseInv /\ FlowInv
  BY DEF IInv
<1>2. /\ fpc \in {"LOAD", "UNLOAD"} /\ shm = "RUNNING" /\ fpc' = "idle"
      /\ routed' = IF fpc = "LOAD" THEN routed \cup {fmodel} ELSE routed
      /\ UNCHANGED <<requests, sent, received, shm, inSock, outSock>>
      /\ UNCHANGED procVars
  BY DEF Requested, sockVars
<1>3. /\ PlacesInv' /\ Rest' = Rest
      /\ UNCHANGED <<g_exitFlag, g_receivingFlag, g_InputQueue, g_OutputQueue,
                     g_ControlQueue, g_modelTable, pc, elem>>
      /\ NotHeld' = NotHeld /\ ControlIdle' = ControlIdle
  BY <1>2, FrontFrame
<1>4. fmodel \in Models /\ Requesting
  BY <1>1, <1>2 DEF PhaseInv
<1>5. TypeOK'
  BY <1>1, <1>2, <1>3, <1>4 DEF TypeOK
<1>6. Quiet /\ (fpc = "LOAD" => fmodel \in g_modelTable)
  BY <1>2, <1>4 DEF Requesting
<1>7. Quiet'
  BY <1>2, <1>3, <1>6 DEF Quiet, AllRuns
<1>8. Live' = routed' /\ Live = routed /\ ~Leaving /\ ~Leaving'
  BY <1>2 DEF Live, Leaving
<1>9. PhaseInv'
  BY <1>1, <1>2, <1>3, <1>6, <1>7, <1>8 DEF PhaseInv
<1>10. Live \subseteq Live'
  BY <1>2, <1>8
<1>11. FlowInv'
  BY <1>1, <1>2, <1>3, <1>10, FlowFrame
<1> QED
  BY <1>3, <1>5, <1>9, <1>11 DEF IInv

\* A batch that is sent is the last between the sockets.
LEMMA RestGrows ==
    ASSUME TypeOK, NEW b \in Batch, inSock' = Append(inSock, b),
           UNCHANGED <<outSock, g_InputQueue, g_OutputQueue, elem>>
    PROVE  Rest' = Append(Rest, b)
<1>1. /\ outSock \in Seq(Batch) /\ g_OutputQueue \in Seq(Batch)
      /\ g_InputQueue \in Seq(Batch) /\ inSock \in Seq(Message) /\ b \in Message
      /\ HeldBatch("send_output") \in Seq(Batch)
      /\ HeldBatch("compute") \in Seq(Batch)
      /\ HeldBatch("recvInput") \in Seq(Batch)
  BY HeldType DEF TypeOK, Threads, Message
<1>2. /\ Runs(inSock) \in Seq(Batch) /\ Rest1 \in Seq(Batch)
      /\ Rest2 \in Seq(Batch) /\ Rest3 \in Seq(Batch)
      /\ Rest4 \in Seq(Batch) /\ Rest5 \in Seq(Batch)
  BY RestType
<1>3. /\ HeldBatch("send_output")' = HeldBatch("send_output")
      /\ HeldBatch("compute")' = HeldBatch("compute")
      /\ HeldBatch("recvInput")' = HeldBatch("recvInput")
  BY DEF HeldBatch
<1>4. Runs(inSock') = Append(Runs(inSock), b)
  BY <1>1, RunsAppend, NotBatch
<1>5. Rest1' = Append(Rest1, b)
  <2>1. Rest1' = HeldBatch("recvInput") \o Append(Runs(inSock), b)
    BY <1>3, <1>4 DEF Rest1
  <2>2. Rest1 = HeldBatch("recvInput") \o Runs(inSock)
    BY DEF Rest1
  <2>3. Append(HeldBatch("recvInput") \o Runs(inSock), b) = HeldBatch("recvInput") \o Append(Runs(inSock), b)
    BY <1>1, <1>2, BatchAppend, ZenonT(60)
  <2> QED
    BY <2>1, <2>2, <2>3
<1>6. Rest2' = Append(Rest2, b)
  BY <1>1, <1>2, <1>5, BatchAppend, ZenonT(60) DEF Rest2
<1>7. Rest3' = Append(Rest3, b)
  <2>1. Rest3' = HeldBatch("compute") \o Append(Rest2, b)
    BY <1>3, <1>6 DEF Rest3
  <2>2. Rest3 = HeldBatch("compute") \o Rest2
    BY DEF Rest3
  <2>3. Append(HeldBatch("compute") \o Rest2, b) = HeldBatch("compute") \o Append(Rest2, b)
    BY <1>1, <1>2, BatchAppend, ZenonT(60)
  <2> QED
    BY <2>1, <2>2, <2>3
<1>8. Rest4' = Append(Rest4, b)
  BY <1>1, <1>2, <1>7, BatchAppend, ZenonT(60) DEF Rest4
<1>9. Rest5' = Append(Rest5, b)
  <2>1. Rest5' = HeldBatch("send_output") \o Append(Rest4, b)
    BY <1>3, <1>8 DEF Rest5
  <2>2. Rest5 = HeldBatch("send_output") \o Rest4
    BY DEF Rest5
  <2>3. Append(HeldBatch("send_output") \o Rest4, b) = HeldBatch("send_output") \o Append(Rest4, b)
    BY <1>1, <1>2, BatchAppend, ZenonT(60)
  <2> QED
    BY <2>1, <2>2, <2>3
<1> QED
  BY <1>1, <1>2, <1>9, RestIs, BatchAppend, ZenonT(60)

\* A batch is sent for a routed model.
LEMMA SendBatchStep ==
    ASSUME IInv, NEW m \in Models, SendBatch(m)
    PROVE  IInv'
<1>1. TypeOK /\ PlacesInv /\ PhaseInv /\ FlowInv
  BY DEF IInv
<1> PICK b : b = Elem("RUN", m, Len(sent) + 1)
  OBVIOUS
<1>2. /\ m \in routed /\ sent' = Append(sent, b) /\ inSock' = Append(inSock, b)
      /\ UNCHANGED <<fpc, fmodel, requests, routed, received, shm, outSock>>
      /\ UNCHANGED procVars
  BY DEF SendBatch
<1>3. /\ PlacesInv'
      /\ UNCHANGED <<g_exitFlag, g_receivingFlag, g_InputQueue, g_OutputQueue,
                     g_ControlQueue, g_modelTable, pc, elem>>
      /\ NotHeld' = NotHeld /\ ControlIdle' = ControlIdle
  BY <1>2, FrontFrame
<1>4. /\ inSock \in Seq(Message) /\ sent \in Seq(Batch) /\ received \in Seq(Batch)
      /\ Rest \in Seq(Batch)
  BY <1>1, RestType DEF TypeOK
<1>5. b \in Batch /\ b \in Message /\ b.model = m /\ IsRun(b)
  <2>1. Len(sent) + 1 \in Nat
    BY <1>4
  <2> QED
    BY <2>1 DEF Elem, Batch, Message, IsRun
<1>6. /\ inSock' \in Seq(Message) /\ Len(inSock) \in Nat
      /\ Len(inSock') = Len(inSock) + 1
      /\ inSock'[Len(inSock) + 1] = b
      /\ \A i \in 1 .. Len(inSock) : inSock'[i] = inSock[i]
  BY <1>2, <1>4, <1>5, AppendProperties
<1>7. sent' \in Seq(Batch)
  BY <1>2, <1>4, <1>5, BatchEnters
<1>8. TypeOK'
  BY <1>1, <1>2, <1>3, <1>6, <1>7 DEF TypeOK
<1>9. Live' = Live /\ m \in Live /\ ~Leaving /\ ~Leaving'
  BY <1>1, <1>2 DEF Live, Leaving, PhaseInv
<1>10. \A j \in 1 .. Len(inSock') : j \in 1 .. Len(inSock) \/ j = Len(inSock) + 1
  BY <1>6
<1>11. AllRuns => AllRuns'
  BY <1>5, <1>6, <1>10 DEF AllRuns
<1>12. Quiet => Quiet'
  BY <1>3, <1>11 DEF Quiet
<1>13. Handled => Handled'
  BY <1>3, <1>11 DEF Handled
<1>14. ASSUME NEW M \in Asking, OnTheWay(M) PROVE OnTheWay(M)'
  <2>1. CASE OnSocket(M)
    <3>1. PICK k \in 1 .. Len(inSock) :
             /\ inSock[k] = M
             /\ \A j \in 1 .. Len(inSock) : j # k => IsRun(inSock[j])
      BY <2>1 DEF OnSocket
    <3>2. k \in 1 .. Len(inSock') /\ inSock'[k] = M
      BY <1>6, <3>1
    <3>3. \A j \in 1 .. Len(inSock') : j # k => IsRun(inSock'[j])
      BY <1>5, <1>6, <1>10, <3>1
    <3>4. NotHeld' /\ g_ControlQueue' = <<>> /\ ControlIdle'
      BY <1>3, <2>1 DEF OnSocket
    <3>5. OnSocket(M)'
      BY <3>2, <3>3, <3>4 DEF OnSocket
    <3> QED
      BY <3>5 DEF OnTheWay
  <2>2. CASE Held(M) \/ Queued(M) \/ Handling(M)
    <3>1. (Held(M) \/ Queued(M) \/ Handling(M))'
      BY <1>3, <1>11, <2>2 DEF Held, Queued, Handling
    <3> QED
      BY <3>1 DEF OnTheWay
  <2> QED
    BY <1>14, <2>1, <2>2 DEF OnTheWay
<1>15. fpc \in {"LOAD", "UNLOAD"} => Requesting'
  <2> SUFFICES ASSUME fpc \in {"LOAD", "UNLOAD"} PROVE Requesting'
    OBVIOUS
  <2>1. Requesting
    BY <1>1 DEF PhaseInv
  <2>2. CASE /\ shm = "LOADING"
             /\ \E M \in Asking : M.act = fpc /\ M.model = fmodel /\ OnTheWay(M)
    <3>1. PICK M \in Asking : M.act = fpc /\ M.model = fmodel /\ OnTheWay(M)
      BY <2>2
    <3>2. OnTheWay(M)' /\ M.act = fpc' /\ M.model = fmodel'
      BY <1>2, <1>14, <3>1
    <3> QED
      BY <1>2, <2>2, <3>2 DEF Requesting
  <2> QED
    BY <1>2, <1>3, <1>12, <1>13, <2>1, <2>2 DEF Requesting
<1>16. PhaseInv'
  BY <1>1, <1>2, <1>3, <1>9, <1>12, <1>15 DEF PhaseInv
<1>17. Rest' = Append(Rest, b)
  BY <1>1, <1>2, <1>3, <1>5, RestGrows
<1>18. FlowInv'
  <2>1. sent' = received' \o Rest'
    <3>1. sent = received \o Rest
      BY <1>1 DEF FlowInv
    <3>2. Append(received \o Rest, b) = received \o Append(Rest, b)
      BY <1>4, <1>5, BatchAppend
    <3> QED
      BY <1>2, <1>17, <3>1, <3>2
  <2>2. /\ Len(Rest') = Len(Rest) + 1 /\ Rest'[Len(Rest) + 1] = b /\ Len(Rest) \in Nat
        /\ \A i \in 1 .. Len(Rest) : Rest'[i] = Rest[i]
    BY <1>4, <1>5, <1>17, AppendProperties
  <2>3. \A j \in 1 .. Len(Rest') : j \in 1 .. Len(Rest) \/ j = Len(Rest) + 1
    BY <2>2
  <2>4. \A j \in 1 .. Len(Rest') : Rest'[j].model \in Live'
    BY <1>1, <1>5, <1>9, <2>2, <2>3 DEF FlowInv
  <2> QED
    BY <2>1, <2>4 DEF FlowInv
<1> QED
  BY <1>3, <1>8, <1>16, <1>18 DEF IInv

\* A result is received: the first batch between the sockets.
LEMMA ReceiveResultStep == IInv /\ ReceiveResult => IInv'
<1> SUFFICES ASSUME IInv, ReceiveResult PROVE IInv'
  OBVIOUS
<1>1. TypeOK /\ PlacesInv /\ PhaseInv /\ FlowInv
  BY DEF IInv
<1> PICK h : h = Head(outSock)
  OBVIOUS
<1>2. /\ outSock # <<>> /\ received' = Append(received, h)
      /\ outSock' = Tail(outSock)
      /\ UNCHANGED <<fpc, fmodel, requests, routed, sent, shm, inSock>>
      /\ UNCHANGED procVars
  BY DEF ReceiveResult
<1>3. /\ PlacesInv'
      /\ UNCHANGED <<g_exitFlag, g_receivingFlag, g_InputQueue, g_OutputQueue,
                     g_ControlQueue, g_modelTable, pc, elem>>
      /\ NotHeld' = NotHeld /\ ControlIdle' = ControlIdle
  BY <1>2, FrontFrame
<1>4. /\ outSock \in Seq(Batch) /\ received \in Seq(Batch)
      /\ Rest \in Seq(Batch) /\ Rest5 \in Seq(Batch)
  BY <1>1, RestType DEF TypeOK
<1>5. /\ h \in Batch /\ outSock' \in Seq(Batch)
      /\ <<>> \o (outSock \o Rest5) = <<h>> \o (outSock' \o Rest5)
  BY <1>2, <1>4, FrontIsHeld
<1>6. received' \in Seq(Batch)
  BY <1>2, <1>4, <1>5, BatchEnters
<1>7. TypeOK'
  BY <1>1, <1>2, <1>3, <1>5, <1>6 DEF TypeOK
<1>8. ~Leaving
  BY <1>2, LeavingEmpty
<1>9. Live' = Live /\ ~Leaving'
  BY <1>2, <1>8 DEF Live, Leaving
<1>10. Quiet' = Quiet /\ Handled' = Handled /\ AllRuns' = AllRuns
  BY <1>2, <1>3 DEF Quiet, Handled, AllRuns
<1>11. \A M \in Asking : OnTheWay(M) => OnTheWay(M)'
  BY <1>2, <1>3, <1>10 DEF OnTheWay, OnSocket, Held, Queued, Handling
<1>12. Requesting => Requesting'
  <2> SUFFICES ASSUME Requesting PROVE Requesting'
    OBVIOUS
  <2>2. CASE /\ shm = "LOADING"
             /\ \E M \in Asking : M.act = fpc /\ M.model = fmodel /\ OnTheWay(M)
    <3>1. PICK M \in Asking : M.act = fpc /\ M.model = fmodel /\ OnTheWay(M)
      BY <2>2
    <3>2. OnTheWay(M)' /\ M.act = fpc' /\ M.model = fmodel'
      BY <1>2, <1>11, <3>1
    <3> QED
      BY <1>2, <2>2, <3>2 DEF Requesting
  <2> QED
    BY <1>2, <1>3, <1>10, <2>2 DEF Requesting
<1>13. PhaseInv'
  BY <1>1, <1>2, <1>3, <1>8, <1>9, <1>10, <1>12 DEF PhaseInv
<1>14. Rest' = outSock' \o Rest5
  <2>1. /\ HeldBatch("send_output")' = HeldBatch("send_output")
        /\ HeldBatch("compute")' = HeldBatch("compute")
        /\ HeldBatch("recvInput")' = HeldBatch("recvInput")
    BY <1>3 DEF HeldBatch
  <2>2. Rest5' = Rest5
    BY <1>2, <1>3, <2>1 DEF Rest1, Rest2, Rest3, Rest4, Rest5
  <2> QED
    BY <2>2, RestIs
<1>15. Rest' \in Seq(Batch)
  BY <1>4, <1>5, <1>14, BatchConcat
<1>16. Rest = <<h>> \o Rest'
  BY <1>4, <1>5, <1>14, RestIs, BatchEmpty, BatchConcat
<1>17. FlowInv'
  <2>1. sent' = received' \o Rest'
    <3>1. sent = received \o (<<h>> \o Rest')
      BY <1>1, <1>16 DEF FlowInv
    <3>2. received \o (<<h>> \o Rest') = Append(received, h) \o (<<>> \o Rest')
      BY <1>4, <1>5, <1>15, HeldMovesOn
    <3>3. <<>> \o Rest' = Rest'
      BY <1>15, BatchEmpty
    <3> QED
      BY <1>2, <3>1, <3>2, <3>3
  <2>2. <<h>> \in Seq(Batch)
    BY <1>5
  <2>3. ASSUME NEW j \in 1 .. Len(Rest') PROVE Rest'[j].model \in Live'
    <3>1. In(Rest'[j], Rest')
      BY DEF In
    <3>2. In(Rest'[j], Rest)
      BY <1>15, <1>16, <2>2, <3>1, InStages
    <3> QED
      BY <1>1, <1>9, <3>2 DEF In, FlowInv
  <2> QED
    BY <2>1, <2>3 DEF FlowInv
<1> QED
  BY <1>3, <1>7, <1>13, <1>17 DEF IInv

\* The shutdown begins: nothing is routed, so that nothing is outstanding.
LEMMA endProxyStep == IInv /\ endProxy => IInv'
<1> SUFFICES ASSUME IInv, endProxy PROVE IInv'
  OBVIOUS
<1>1. TypeOK /\ PlacesInv /\ PhaseInv /\ FlowInv
  BY DEF IInv
<1>2. /\ fpc = "idle" /\ routed = {} /\ fpc' = "flush"
      /\ UNCHANGED <<fmodel, requests, routed, sent, received, inSock, outSock>>
      /\ UNCHANGED procVars
  BY DEF endProxy, sockVars
<1>3. /\ PlacesInv' /\ Rest' = Rest
      /\ UNCHANGED <<g_exitFlag, g_receivingFlag, g_InputQueue, g_OutputQueue,
                     g_ControlQueue, g_modelTable, pc, elem>>
  BY <1>2, FrontFrame
<1>4. TypeOK'
  BY <1>1, <1>2, <1>3 DEF TypeOK
<1>5. Live = {} /\ Live' = {} /\ Leaving'
  BY <1>2 DEF Live, Leaving
<1>6. Rest \in Seq(Batch) /\ received \in Seq(Batch) /\ sent = received \o Rest
  BY <1>1, RestType DEF TypeOK, FlowInv
<1>7. Rest = <<>>
  <2>1. \A j \in 1 .. Len(Rest) : FALSE
    BY <1>1, <1>5 DEF FlowInv
  <2>2. Len(Rest) \in Nat
    BY <1>6
  <2>3. Len(Rest) = 0
    BY <2>1, <2>2
  <2> QED
    BY <1>6, <2>3, EmptySeq
<1>8. received = sent
  BY <1>6, <1>7, BatchEmpty
<1>9. pc["compute"] \notin {"init", "ready"}
  BY <1>1, <1>2 DEF PhaseInv
<1>10. PhaseInv'
  BY <1>1, <1>2, <1>3, <1>5, <1>8, <1>9 DEF PhaseInv
<1>11. FlowInv'
  BY <1>1, <1>2, <1>3, <1>5, FlowFrame
<1> QED
  BY <1>3, <1>4, <1>10, <1>11 DEF IInv

\* The shutdown goes on: the frontend disconnects, and sees COLD.
LEMMA disconnectProxyStep == IInv /\ (disconnectProxy \/ ShutdownEnd) => IInv'
<1> SUFFICES ASSUME IInv, disconnectProxy \/ ShutdownEnd PROVE IInv'
  OBVIOUS
<1>1. TypeOK /\ PlacesInv /\ PhaseInv /\ FlowInv
  BY DEF IInv
<1>2. /\ fpc \in {"flush", "cold"} /\ fpc' \in {"cold", "off"}
      /\ UNCHANGED <<fmodel, requests, routed, sent, received, outSock>>
      /\ inSock' \in {inSock, Append(inSock, Close)}
      /\ UNCHANGED procVars
  BY DEF disconnectProxy, ShutdownEnd, sockVars
<1>3. /\ PlacesInv'
      /\ UNCHANGED <<g_exitFlag, g_receivingFlag, g_InputQueue, g_OutputQueue,
                     g_ControlQueue, g_modelTable, pc, elem>>
  BY <1>2, FrontFrame
<1>4. inSock \in Seq(Message) /\ Close \in Message /\ ~IsRun(Close)
  BY <1>1 DEF TypeOK, Message, IsRun, Close
<1>5. inSock' \in Seq(Message)
  BY <1>2, <1>4
<1>6. TypeOK'
  BY <1>1, <1>2, <1>3, <1>5 DEF TypeOK
<1>7. Leaving /\ Leaving' /\ Live' = Live
  BY <1>2 DEF Leaving, Live
<1>8. PhaseInv'
  BY <1>1, <1>2, <1>3, <1>7 DEF PhaseInv
<1>9. Runs(inSock') = Runs(inSock)
  BY <1>2, <1>4, RunsAppend
<1>10. Rest' = Rest
  <2>1. /\ HeldBatch("send_output")' = HeldBatch("send_output")
        /\ HeldBatch("compute")' = HeldBatch("compute")
        /\ HeldBatch("recvInput")' = HeldBatch("recvInput")
    BY <1>3 DEF HeldBatch
  <2>2. Rest5' = Rest5
    BY <1>3, <1>9, <2>1 DEF Rest1, Rest2, Rest3, Rest4, Rest5
  <2> QED
    BY <1>2, <2>2, RestIs
<1>11. FlowInv'
  BY <1>1, <1>2, <1>7, <1>10, FlowFrame
<1> QED
  BY <1>3, <1>6, <1>8, <1>11 DEF IInv

\* A step that changes nothing.
LEMMA IdleStep ==
    ASSUME IInv, UNCHANGED vars
    PROVE  IInv'
<1>1. TypeOK /\ PlacesInv /\ PhaseInv /\ FlowInv
  BY DEF IInv
<1>2. /\ UNCHANGED <<fpc, fmodel, requests, routed, sent, received, shm, inSock,
                     outSock>>
      /\ UNCHANGED procVars
  BY DEF vars, frontVars, sockVars
<1>3. /\ PlacesInv' /\ Rest' = Rest
      /\ UNCHANGED <<g_exitFlag, g_receivingFlag, g_InputQueue, g_OutputQueue,
                     g_ControlQueue, g_modelTable, pc, elem>>
  BY <1>2, FrontFrame
<1>4. TypeOK'
  BY <1>1, <1>2, <1>3 DEF TypeOK
<1>5. Aside
  BY <1>2, <1>3 DEF Aside, frontVars
<1>6. PhaseInv' /\ Live' = Live
  BY <1>1, <1>5, PhaseFrame
<1>7. FlowInv'
  BY <1>1, <1>2, <1>3, <1>6, FlowFrame
<1> QED
  BY <1>3, <1>4, <1>6, <1>7 DEF IInv

-----------------------------------------------------------------------------
(***************************************************************************)
(* The theorems.                                                           *)
(***************************************************************************)

\* A new process holds nothing, and nothing was sent to it.
LEMMA InitStep == Init => IInv
<1> SUFFICES ASSUME Init PROVE IInv
  OBVIOUS
<1>1. /\ fpc = "boot" /\ fmodel = NoModel /\ requests = 0
      /\ routed = {} /\ sent = <<>> /\ received = <<>>
      /\ shm = "BOOTING" /\ inSock = <<>> /\ outSock = <<>>
      /\ g_exitFlag = FALSE /\ g_receivingFlag = FALSE
      /\ g_InputQueue = <<>> /\ g_OutputQueue = <<>> /\ g_ControlQueue = <<>>
      /\ g_modelTable = {}
  BY DEF Init
<1>2. /\ pc["recvInput"] = "listen" /\ pc["send_output"] = "listen"
      /\ pc["compute"] = "init" /\ pc["loadControl"] = "test"
      /\ pc["control"] = "poll" /\ pc["main"] = "join"
  BY DEF Init, Threads
<1>3. \A t \in Threads : pc[t] \in Places
  BY <1>2 DEF Threads, Places
<1>4. pc \in [Threads -> Places]
  BY DEF Init, Threads, Places
<1>5. elem \in [Threads -> Message \cup {NoElem}] /\ \A t \in Threads : elem[t] = NoElem
  BY DEF Init
<1>6. <<>> \in Seq(Batch) /\ <<>> \in Seq(Message) /\ <<>> \in Seq(Asking)
  OBVIOUS
<1>7. TypeOK
  BY <1>1, <1>4, <1>5, <1>6 DEF TypeOK
<1>8. /\ elem["recvInput"] = NoElem /\ elem["compute"] = NoElem
      /\ elem["send_output"] = NoElem
  BY <1>5 DEF Threads
<1>9. PlacesInv
  BY <1>1, <1>2, <1>8 DEF PlacesInv
<1>10. Quiet
  <2>1. AllRuns
    BY <1>1 DEF AllRuns
  <2> QED
    BY <1>1, <1>2, <1>8, <2>1, NotBatch DEF Quiet, NotHeld, ControlIdle
<1>11. Live = {} /\ ~Leaving
  BY <1>1 DEF Live, Leaving
<1>12. PhaseInv
  BY <1>1, <1>2, <1>10, <1>11 DEF PhaseInv
<1>13. Runs(<<>>) = <<>>
  <2>1. PICK f : /\ \A i \in 0 .. Len(<<>>) : f[i] = RunsOf(<<>>, i, f)
                 /\ Runs(<<>>) = f[Len(<<>>)]
    BY <1>6, RunsSolved
  <2>2. Len(<<>>) = 0
    OBVIOUS
  <2>3. f[0] = RunsOf(<<>>, 0, f)
    BY <2>1, <2>2
  <2> QED
    BY <2>1, <2>2, <2>3 DEF RunsOf
<1>14. /\ HeldBatch("send_output") = <<>> /\ HeldBatch("compute") = <<>>
       /\ HeldBatch("recvInput") = <<>>
  BY <1>8 DEF HeldBatch, IsRun, NoElem
<1>15. <<>> \o <<>> = <<>>
  BY <1>6, BatchEmpty
<1>16. Rest = <<>>
  BY <1>1, <1>13, <1>14, <1>15 DEF Rest
<1>17. FlowInv
  BY <1>1, <1>15, <1>16 DEF FlowInv
<1> QED
  BY <1>7, <1>9, <1>12, <1>17 DEF IInv

\* Every step of the frontend and of the process keeps the invariant.
LEMMA NextStep == IInv /\ [Next]_vars => IInv'
<1> SUFFICES ASSUME IInv, [Next]_vars PROVE IInv'
  OBVIOUS
<1>1. CASE UNCHANGED vars \/ Done
  BY <1>1, IdleStep DEF Done
<1>2. CASE Frontend
  <2>1. CASE \E m \in Models : LoadModel(m) \/ Unroute(m) \/ SendBatch(m)
    BY <2>1, LoadModelStep, UnrouteStep, SendBatchStep
  <2> QED
    BY <1>2, <2>1, ConnectStep, UnloadModelStep, RequestedStep,
       ReceiveResultStep, endProxyStep, disconnectProxyStep DEF Frontend
<1>3. CASE ShutdownEnd
  BY <1>3, disconnectProxyStep
<1>4. CASE recvInput
  <2>1. CASE Listen("recvInput")
    BY <2>1, ListenStep
  <2> QED
    BY <1>4, <2>1, AcceptInputStep, ReadHeaderStep, ReadBodyStep,
       QueueInputStep, CloseInputStep DEF recvInput
<1>5. CASE loadControl
  BY <1>5, ControlTestStep, HandleRequestStep, CheckStateStep,
     MarkRunningStep DEF loadControl
<1>6. CASE compute
  BY <1>6, ComputeInitStep, ComputeReadyStep, ComputeTestStep, ForwardStep,
     PushOutputStep DEF compute
<1>7. CASE send_output
  <2>1. CASE Listen("send_output")
    BY <2>1, ListenStep
  <2> QED
    BY <1>7, <2>1, AcceptOutputStep, OutputTestStep, WriteOutputStep
       DEF send_output
<1>8. CASE control
  BY <1>8, controlStep
<1>9. CASE main
  BY <1>9, MainStep, MainReturnStep DEF main
<1>10. CASE \E t \in SlowWaiters : Block(t)
  BY <1>10, BlockStep
<1> QED
  BY <1>1, <1>2, <1>3, <1>4, <1>5, <1>6, <1>7, <1>8, <1>9, <1>10 DEF Next

\* One stage of BatchesKept, regrouped.
LEMMA Regroup ==
    \A l, m, n : l \in Seq(Batch) /\ m \in Seq(Batch) /\ n \in Seq(Batch)
                   => /\ l \o m \in Seq(Batch)
                      /\ (l \o m) \o n = l \o (m \o n)
<1> TAKE l, m, n
<1> HAVE l \in Seq(Batch) /\ m \in Seq(Batch) /\ n \in Seq(Batch)
<1> QED
  BY BatchAssoc, BatchConcat

\* BatchesKept says the same as the flow of the batches: the stages it names
\* one after the other are received and what is between the sockets.
LEMMA StagesInOrder ==
    ASSUME TypeOK
    PROVE  received \o outSock \o HeldBatch("send_output")
                \o g_OutputQueue \o HeldBatch("compute") \o g_InputQueue
                \o HeldBatch("recvInput") \o Runs(inSock)
             = received \o Rest
<1>1. /\ received \in Seq(Batch) /\ outSock \in Seq(Batch)
      /\ g_OutputQueue \in Seq(Batch) /\ g_InputQueue \in Seq(Batch)
  BY DEF TypeOK
<1>2. /\ HeldBatch("send_output") \in Seq(Batch)
      /\ HeldBatch("compute") \in Seq(Batch)
      /\ HeldBatch("recvInput") \in Seq(Batch)
  BY HeldType DEF Threads
<1>3. /\ Runs(inSock) \in Seq(Batch) /\ Rest1 \in Seq(Batch)
      /\ Rest2 \in Seq(Batch) /\ Rest3 \in Seq(Batch)
      /\ Rest4 \in Seq(Batch) /\ Rest5 \in Seq(Batch)
  BY RestType
<1>4. PICK l1 : l1 = received \o outSock
  OBVIOUS
<1>5. l1 \in Seq(Batch) /\ l1 \o Rest5 = received \o Rest
  <2>1. received \in Seq(Batch) /\ outSock \in Seq(Batch) /\ Rest5 \in Seq(Batch)
    BY <1>1, <1>2, <1>3
  <2>2. Rest = outSock \o Rest5
    BY RestIs
  <2>3. received \o outSock \in Seq(Batch) /\ (received \o outSock) \o Rest5 = received \o (outSock \o Rest5)
    BY <2>1, Regroup
  <2> QED
    BY <1>4, <2>2, <2>3
<1>6. PICK l2 : l2 = l1 \o HeldBatch("send_output")
  OBVIOUS
<1>7. l2 \in Seq(Batch) /\ l2 \o Rest4 = l1 \o Rest5
  <2>1. l1 \in Seq(Batch) /\ HeldBatch("send_output") \in Seq(Batch) /\ Rest4 \in Seq(Batch)
    BY <1>1, <1>2, <1>3, <1>5
  <2>2. Rest5 = HeldBatch("send_output") \o Rest4
    BY DEF Rest5
  <2>3. l1 \o HeldBatch("send_output") \in Seq(Batch) /\ (l1 \o HeldBatch("send_output")) \o Rest4 = l1 \o (HeldBatch("send_output") \o Rest4)
    BY <2>1, Regroup
  <2> QED
    BY <1>6, <2>2, <2>3
<1>8. PICK l3 : l3 = l2 \o g_OutputQueue
  OBVIOUS
<1>9. l3 \in Seq(Batch) /\ l3 \o Rest3 = l2 \o Rest4
  <2>1. l2 \in Seq(Batch) /\ g_OutputQueue \in Seq(Batch) /\ Rest3 \in Seq(Batch)
    BY <1>1, <1>2, <1>3, <1>7
  <2>2. Rest4 = g_OutputQueue \o Rest3
    BY DEF Rest4
  <2>3. l2 \o g_OutputQueue \in Seq(Batch) /\ (l2 \o g_OutputQueue) \o Rest3 = l2 \o (g_OutputQueue \o Rest3)
    BY <2>1, Regroup
  <2> QED
    BY <1>8, <2>2, <2>3
<1>10. PICK l4 : l4 = l3 \o HeldBatch("compute")
  OBVIOUS
<1>11. l4 \in Seq(Batch) /\ l4 \o Rest2 = l3 \o Rest3
  <2>1. l3 \in Seq(Batch) /\ HeldBatch("compute") \in Seq(Batch) /\ Rest2 \in Seq(Batch)
    BY <1>1, <1>2, <1>3, <1>9
  <2>2. Rest3 = HeldBatch("compute") \o Rest2
    BY DEF Rest3
  <2>3. l3 \o HeldBatch("compute") \in Seq(Batch) /\ (l3 \o HeldBatch("compute")) \o Rest2 = l3 \o (HeldBatch("compute") \o Rest2)
    BY <2>1, Regroup
  <2> QED
    BY <1>10, <2>2, <2>3
<1>12. PICK l5 : l5 = l4 \o g_InputQueue
  OBVIOUS
<1>13. l5 \in Seq(Batch) /\ l5 \o Rest1 = l4 \o Rest2
  <2>1. l4 \in Seq(Batch) /\ g_InputQueue \in Seq(Batch) /\ Rest1 \in Seq(Batch)
    BY <1>1, <1>2, <1>3, <1>11
  <2>2. Rest2 = g_InputQueue \o Rest1
    BY DEF Rest2
  <2>3. l4 \o g_InputQueue \in Seq(Batch) /\ (l4 \o g_InputQueue) \o Rest1 = l4 \o (g_InputQueue \o Rest1)
    BY <2>1, Regroup
  <2> QED
    BY <1>12, <2>2, <2>3
<1>14. PICK l6 : l6 = l5 \o HeldBatch("recvInput")
  OBVIOUS
<1>15. l6 \in Seq(Batch) /\ l6 \o Runs(inSock) = l5 \o Rest1
  <2>1. l5 \in Seq(Batch) /\ HeldBatch("recvInput") \in Seq(Batch) /\ Runs(inSock) \in Seq(Batch)
    BY <1>1, <1>2, <1>3, <1>13
  <2>2. Rest1 = HeldBatch("recvInput") \o Runs(inSock)
    BY DEF Rest1
  <2>3. l5 \o HeldBatch("recvInput") \in Seq(Batch) /\ (l5 \o HeldBatch("recvInput")) \o Runs(inSock) = l5 \o (HeldBatch("recvInput") \o Runs(inSock))
    BY <2>1, Regroup
  <2> QED
    BY <1>14, <2>2, <2>3
<1>16. l6 \o Runs(inSock) = received \o Rest
  BY <1>5, <1>7, <1>9, <1>11, <1>13, <1>15
<1> QED
  BY <1>4, <1>6, <1>8, <1>10, <1>12, <1>14, <1>16, Zenon

\* The invariant implies BatchesKept; once main has returned, the shutdown had
\* begun, and with it every result was received.
LEMMA KeptByFlow == IInv => BatchesKept
<1> SUFFICES ASSUME IInv PROVE BatchesKept
  OBVIOUS
<1>1. TypeOK /\ PhaseInv /\ FlowInv
  BY DEF IInv
<1>2. CASE At("main", "gone")
  <2>1. Leaving
    BY <1>1, <1>2 DEF PhaseInv, At
  <2> QED
    BY <1>1, <1>2, <2>1 DEF BatchesKept, PhaseInv
<1>3. CASE ~At("main", "gone")
  <2>1. received \o outSock \o HeldBatch("send_output")
                \o g_OutputQueue \o HeldBatch("compute") \o g_InputQueue
                \o HeldBatch("recvInput") \o Runs(inSock)
          = received \o Rest
    BY <1>1, StagesInOrder
  <2>2. sent = received \o Rest
    BY <1>1 DEF FlowInv
  <2> QED
    BY <1>3, <2>1, <2>2, Zenon DEF BatchesKept
<1> QED
  BY <1>2, <1>3

\* The inductive invariant holds always: the places of the threads, the one
\* request under way, and the flow of the batches (proxy.cpp's six threads,
\* fed by loadModel_sync, unloadModel_async and shutdownProxy_sync).
THEOREM ProcessInvariance == Spec => []IInv
<1> QED
  BY InitStep, NextStep, PTL DEF Spec

\* compute never takes from an empty queue, though it reads g_receivingFlag
\* and g_exitFlag without a lock, and never runs a model that loadControl has
\* not put into the table or has taken out of it (proxy.cpp, compute).
THEOREM ComputeIsNeverLost == Spec => []NeverLost
<1>1. IInv => NeverLost
  BY DEF IInv, PlacesInv, NeverLost
<1> QED
  BY <1>1, ProcessInvariance, PTL

\* Every batch is in exactly one place, in the order of sending, through the
\* two sockets, the three threads and the two queues of the process; and main
\* returns only when all results were received (proxy.cpp).
THEOREM NoBatchIsLost == Spec => []BatchesKept
<1> QED
  BY KeptByFlow, ProcessInvariance, PTL
=============================================================================
