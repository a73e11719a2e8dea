-------------------------- MODULE DataWire_proofs --------------------------
(***************************************************************************)
(* The reader at the end of the data path never loses its place, and every *)
(* result is taken for the batch it is of.                                 *)
(*                                                                         *)
(* Nothing on a socket marks where a message ends, so the invariant says   *)
(* where each one lies: the words on a socket, followed by those its       *)
(* writers have still to write, are the frames of the messages number      *)
(* lo + 1 to hi, and hi and lo are tied to the queues beside the sockets.  *)
(***************************************************************************)
EXTENDS DataWire, SequenceTheorems, TLAPS

-----------------------------------------------------------------------------
(* Frames in a stream of words. *)

(* pos[i] words precede what follows frame i. *)
Offsets(F, pos) ==
    /\ pos \in [0 .. Len(F) -> Nat]
    /\ pos[0] = 0
    /\ \A i \in 1 .. Len(F) : pos[i] = pos[i - 1] + Len(F[i])
    /\ \A i, k \in 0 .. Len(F) : i <= k => pos[i] <= pos[k]

(* w holds the frames lo + 1 to hi of F, and nothing else. *)
Frames(w, F, pos, lo, hi) ==
    /\ lo \in 0 .. Len(F) /\ hi \in 0 .. Len(F) /\ lo <= hi
    /\ Len(w) = pos[hi] - pos[lo]
    /\ \A i \in lo + 1 .. hi : \A j \in 1 .. Len(F[i]) :
          w[pos[i - 1] - pos[lo] + j] = F[i][j]

(* q holds the elements lo + 1 to hi of s. *)
Window(q, s, lo, hi) ==
    /\ lo \in 0 .. Len(s) /\ hi \in 0 .. Len(s) /\ lo <= hi
    /\ Len(q) = hi - lo
    /\ \A i \in 1 .. hi - lo : q[i] = s[lo + i]

-----------------------------------------------------------------------------
(* The messages, and the words of each. *)
Batch == [rid : Nat \ {0}, model : ModelIds, dims : {<<n>> : n \in Nat}]
RunOf(b) == Run(b.rid, b.model, b.dims \o InputDims[b.model])
Runs == {RunOf(b) : b \in Batch}
Controls == {Load(m, b) : m \in ModelIds, b \in Nat}
            \cup {Unload(m) : m \in ModelIds} \cup {Close}
Messages == Runs \cup Controls

MessageWords(g) ==
    CASE g[1] = "RUN" -> sendRequest(g[2], g[3], g[4])
      [] g[1] = "LOAD" -> LoadWords(g[2], g[3])
      [] g[1] = "UNLOAD" -> UnloadWords(g[2])
      [] OTHER -> <<CLOSE_SOCKET>>
RequestWords(b) == sendRequestToBackend(b.rid, b.model, b.dims[1])
OutputWords(b) == sendOutput(forward(b.model, b.dims))

GivenFrames == [i \in 1 .. Len(given) |-> MessageWords(given[i])]
RequestFrames == [i \in 1 .. Len(batches) |-> RequestWords(batches[i])]
OutputFrames == [i \in 1 .. Len(batches) |-> OutputWords(batches[i])]

(* What is on the way to each of the shared sockets. *)
InputStream == wire["input"] \o (todo["data"] \o todo["control"])
Holding == IF sendMtx["frontend"] = "nobody" THEN <<>> ELSE todo[sendMtx["frontend"]]
RequestStream == wire["request"] \o Holding

-----------------------------------------------------------------------------
Types ==
    /\ wire \in [{"request", "input", "output", "result"} -> Seq(Nat)]
    /\ todo \in [Writers -> Seq(Nat)]
    /\ sendMtx \in [{"frontend", "backend"} -> Writers \cup {"nobody"}]
    /\ PerProxyOutputQueue \in Seq(Batch) /\ MapProxytoOutputQueue \in Seq(Batch)
    /\ g_InputQueue \in Seq(Runs)
    /\ awaited \in [{"frontend", "backend"} -> Batch \cup {NoBatch}]
    /\ relayed \in Batch \cup {NoBatch}
    /\ given \in Seq(Messages) /\ decoded \in Seq(Messages)
    /\ batches \in Seq(Batch)
    /\ results \in Seq([batch : Batch, dims : Seq(Nat)])

(* A writer has words to write exactly while it holds its lock; only the   *)
(* word that closes the socket is written without.                         *)
Locks ==
    /\ sendMtx["frontend"] \in Batchers \cup {"nobody"}
    /\ \A t \in Batchers : todo[t] # <<>> <=> sendMtx["frontend"] = t
    /\ sendMtx["backend"] \in {"data", "control", "nobody"}
    /\ todo["data"] # <<>> <=> sendMtx["backend"] = "data"
    /\ sendMtx["backend"] = "control" => todo["control"] # <<>>
    /\ todo["control"] # <<>> =>
          \/ sendMtx["backend"] = "control"
          \/ sendMtx["backend"] = "nobody" /\ Closed
    /\ todo["data"] # <<>> => relayed # NoBatch

(* cnt[i] of the first i messages are batches: the first cnt[i] batches. *)
Counted(cnt) ==
    /\ cnt \in [0 .. Len(given) -> 0 .. Len(batches)]
    /\ cnt[0] = 0
    /\ \A i \in 1 .. Len(given) :
          \/ /\ given[i] \in Runs /\ cnt[i] = cnt[i - 1] + 1
             /\ given[i] = RunOf(batches[cnt[i]])
          \/ given[i] \in Controls /\ cnt[i] = cnt[i - 1]
    /\ \A i, k \in 0 .. Len(given) : i <= k => cnt[i] <= cnt[k]

(* rel batches are relayed, and the backend has passed back results of the *)
(* first back of them.                                                     *)
BackendQueue(back, rel) ==
    \E popped, queued \in 0 .. Len(batches) :
        /\ Window(MapProxytoOutputQueue, batches, popped, queued)
        /\ back \in 0 .. popped
        /\ IF awaited["backend"] = NoBatch THEN popped = back
           ELSE popped = back + 1 /\ awaited["backend"] = batches[popped]
        /\ IF relayed = NoBatch THEN queued = rel
           ELSE rel = queued + 1 /\ relayed = batches[rel]

FrontendQueue ==
    \E popped \in 0 .. Len(batches) :
        /\ Window(PerProxyOutputQueue, batches, popped, Len(batches))
        /\ IF awaited["frontend"] = NoBatch THEN popped = Len(results)
           ELSE popped = Len(results) + 1 /\ awaited["frontend"] = batches[popped]

ProcessQueue(comp, in) ==
    /\ in - comp = Len(g_InputQueue) /\ comp \in 0 .. in
    /\ \A i \in 1 .. in - comp : g_InputQueue[i] = RunOf(batches[comp + i])

Decoding ==
    /\ Len(decoded) <= Len(given)
    /\ \A i \in 1 .. Len(decoded) : decoded[i] = given[i]

Delivered ==
    \A i \in 1 .. Len(results) :
        /\ i <= Len(batches)
        /\ results[i].batch = batches[i]
        /\ results[i].dims = forward(batches[i].model, batches[i].dims)

(* The sockets: what is on them and on the way to them. *)
InputSide(gpos) ==
    /\ Offsets(GivenFrames, gpos)
    /\ Frames(InputStream, GivenFrames, gpos, Len(decoded), Len(given))
RequestSide(rpos, rel) ==
    /\ Offsets(RequestFrames, rpos)
    /\ Frames(RequestStream, RequestFrames, rpos, rel, Len(batches))
OutputSide(opos, back, comp) ==
    /\ Offsets(OutputFrames, opos)
    /\ Frames(wire["output"], OutputFrames, opos, back, comp)
    /\ Frames(wire["result"], OutputFrames, opos, Len(results), back)

(* cnt, and the offsets of the frames of each kind; back and comp count    *)
(* the results the backend has passed on and the process has sent.         *)
Path(cnt, gpos, rpos, opos, back, comp) ==
    /\ Counted(cnt)
    /\ InputSide(gpos)
    /\ RequestSide(rpos, cnt[Len(given)])
    /\ OutputSide(opos, back, comp)
    /\ ProcessQueue(comp, cnt[Len(decoded)])
    /\ BackendQueue(back, cnt[Len(given)])

IInv ==
    /\ Types /\ Locks /\ Decoding /\ Delivered /\ FrontendQueue
    /\ \E cnt, gpos, rpos, opos, back, comp : Path(cnt, gpos, rpos, opos, back, comp)

-----------------------------------------------------------------------------
(* Facts about frames. *)

(* What precedes a frame. *)
LEMMA OffsetAt ==
    ASSUME NEW F, NEW pos, Offsets(F, pos), Len(F) \in Nat
    PROVE  /\ \A i \in 1 .. Len(F) :
                 pos[i - 1] \in Nat /\ pos[i] \in Nat /\ pos[i] = pos[i - 1] + Len(F[i])
           /\ \A i \in 0 .. Len(F) : pos[i] \in Nat
           /\ \A i, k \in 0 .. Len(F) : i <= k => pos[i] <= pos[k]
           /\ pos[0] = 0
<1>1. \A i \in 0 .. Len(F) : pos[i] \in Nat
  BY DEF Offsets
<1>2. \A i \in 1 .. Len(F) : i - 1 \in 0 .. Len(F) /\ i \in 0 .. Len(F)
  OBVIOUS
<1> QED
  BY <1>1, <1>2 DEF Offsets

(* Where a word lies: arithmetic. *)
LEMMA WordAt ==
    ASSUME NEW base \in Nat, NEW from \in Nat, NEW to \in Nat, NEW end \in Nat,
           NEW n \in Nat, NEW j \in Nat, base <= from, to = from + n, to <= end,
           1 <= j, j <= n
    PROVE  from - base + j \in 1 .. end - base
  OBVIOUS

(* What is written after something else. *)
LEMMA Joined ==
    ASSUME NEW s, NEW t, s \in Seq(Nat), t \in Seq(Nat)
    PROVE  /\ s \o t \in Seq(Nat) /\ Len(s) \in Nat /\ Len(t) \in Nat
           /\ Len(s \o t) = Len(s) + Len(t)
           /\ \A i \in 1 .. Len(s) : (s \o t)[i] = s[i]
           /\ \A i \in 1 .. Len(t) : (s \o t)[Len(s) + i] = t[i]
  OBVIOUS

\* The first part of a joined sequence.
LEMMA JoinedFirst ==
    ASSUME NEW s, NEW t, s \in Seq(Nat), t \in Seq(Nat), NEW i \in 1 .. Len(s)
    PROVE  (s \o t)[i] = s[i]
  BY Joined

\* The second part of a joined sequence.
LEMMA JoinedThen ==
    ASSUME NEW s, NEW t, s \in Seq(Nat), t \in Seq(Nat), NEW i \in 1 .. Len(t)
    PROVE  (s \o t)[Len(s) + i] = t[i]
  BY Joined

(* A frame written after the others: the socket then holds one more. *)
LEMMA FrameAppended ==
    ASSUME NEW w \in Seq(Nat), NEW F \in Seq(Seq(Nat)), NEW pos, NEW lo, NEW hi,
           Offsets(F, pos), Frames(w, F, pos, lo, hi), hi + 1 <= Len(F)
    PROVE  Frames(w \o F[hi + 1], F, pos, lo, hi + 1)
<1> DEFINE f == F[hi + 1]
           n == Len(w)
<1>1. /\ lo \in Nat /\ hi \in Nat /\ Len(F) \in Nat /\ lo <= hi /\ hi <= Len(F)
      /\ n \in Nat
  BY DEF Frames
<1>2. f \in Seq(Nat) /\ Len(f) \in Nat
  BY <1>1
<1>3. /\ pos[lo] \in Nat /\ pos[hi] \in Nat /\ pos[hi + 1] = pos[hi] + Len(f)
      /\ n = pos[hi] - pos[lo]
  <2>1. hi + 1 \in 1 .. Len(F) /\ hi + 1 - 1 = hi /\ lo \in 0 .. Len(F)
    BY <1>1
  <2>2. n = pos[hi] - pos[lo]
    BY DEF Frames
  <2> QED
    BY <1>1, <2>1, <2>2, OffsetAt
<1>4. Len(w \o f) = n + Len(f)
  BY <1>2
<1>5. ASSUME NEW i \in lo + 1 .. hi + 1, NEW j \in 1 .. Len(F[i])
      PROVE  (w \o f)[pos[i - 1] - pos[lo] + j] = F[i][j]
  <2>1. CASE i = hi + 1
    <3>1. pos[i - 1] - pos[lo] + j = n + j /\ j \in 1 .. Len(f)
      BY <1>1, <1>3, <2>1
    <3>2. (w \o f)[n + j] = f[j]
      <4> HIDE DEF f
      <4> QED
        BY <1>2, <3>1, JoinedThen, ZenonT(30)
    <3> QED
      BY <2>1, <3>1, <3>2
  <2>2. CASE i # hi + 1
    <3>1. i \in lo + 1 .. hi /\ i \in 1 .. Len(F) /\ i - 1 \in 0 .. Len(F) /\ i \in 0 .. Len(F)
      BY <1>1, <2>2, SMTT(40)
    <3>2. /\ pos[i - 1] \in Nat /\ pos[i] \in Nat /\ pos[i] = pos[i - 1] + Len(F[i])
          /\ pos[i] <= pos[hi] /\ pos[lo] <= pos[i - 1]
      <4>1. /\ lo \in 0 .. Len(F) /\ hi \in 0 .. Len(F) /\ i <= hi /\ lo <= i - 1
        BY <1>1, <3>1
      <4> QED
        BY <1>1, <3>1, <4>1, OffsetAt
    <3>3. Len(F[i]) \in Nat
      BY <3>1
    <3>4. pos[i - 1] - pos[lo] + j \in 1 .. n
      <4>1. j \in Nat /\ 1 <= j /\ j <= Len(F[i])
        BY <3>3
      <4> QED
        BY <1>3, <3>2, <3>3, <4>1, WordAt
    <3>5. w[pos[i - 1] - pos[lo] + j] = F[i][j]
      BY <3>1 DEF Frames
    <3>6. (w \o f)[pos[i - 1] - pos[lo] + j] = w[pos[i - 1] - pos[lo] + j]
      BY <1>2, <3>4
    <3> QED
      BY <3>5, <3>6
  <2> QED
    BY <2>1, <2>2
<1>6. /\ lo \in 0 .. Len(F) /\ hi + 1 \in 0 .. Len(F) /\ lo <= hi + 1
      /\ Len(w \o f) = pos[hi + 1] - pos[lo]
  BY <1>1, <1>2, <1>3, <1>4, SMTT(40)
<1> QED
  BY <1>5, <1>6 DEF Frames

(* A word on the socket is of a frame that is there. *)
LEMMA FrameThere ==
    ASSUME NEW w \in Seq(Nat), NEW F \in Seq(Seq(Nat)), NEW pos, NEW lo, NEW hi,
           Offsets(F, pos), Frames(w, F, pos, lo, hi), w # <<>>
    PROVE  lo < hi
<1>1. lo \in Nat /\ hi \in Nat /\ lo <= hi /\ Len(w) # 0
  BY DEF Frames
<1>2. SUFFICES ASSUME lo = hi PROVE FALSE
  BY <1>1
<1>3. pos[lo] \in Nat /\ Len(w) = pos[lo] - pos[lo]
  BY <1>2 DEF Frames, Offsets
<1> QED
  BY <1>1, <1>3

(* The first frame on the socket is the oldest that is there, and when it  *)
(* is read the others are left.                                            *)
LEMMA FrameTaken ==
    ASSUME NEW w \in Seq(Nat), NEW F \in Seq(Seq(Nat)), NEW pos, NEW lo, NEW hi,
           Offsets(F, pos), Frames(w, F, pos, lo, hi), lo < hi
    PROVE  /\ Len(F[lo + 1]) \in Nat /\ Len(F[lo + 1]) <= Len(w)
           /\ \A j \in 1 .. Len(F[lo + 1]) : w[j] = F[lo + 1][j]
           /\ Rest(w, Len(F[lo + 1])) \in Seq(Nat)
           /\ Frames(Rest(w, Len(F[lo + 1])), F, pos, lo + 1, hi)
<1> DEFINE f == F[lo + 1]
           n == Len(w)
           k == Len(f)
           r == Rest(w, k)
<1>1. /\ lo \in Nat /\ hi \in Nat /\ Len(F) \in Nat /\ lo <= hi /\ hi <= Len(F)
      /\ n \in Nat /\ lo + 1 \in 1 .. Len(F) /\ lo + 1 \in 0 .. Len(F)
      /\ lo \in 0 .. Len(F) /\ hi \in 0 .. Len(F)
  BY DEF Frames
<1>2. f \in Seq(Nat) /\ k \in Nat
  BY <1>1
<1>3. /\ pos[lo] \in Nat /\ pos[hi] \in Nat /\ pos[lo + 1] = pos[lo] + k
      /\ n = pos[hi] - pos[lo] /\ pos[lo + 1] <= pos[hi] /\ pos[lo + 1] \in Nat
  <2>1. lo + 1 - 1 = lo /\ lo + 1 <= hi
    BY <1>1
  <2>2. n = pos[hi] - pos[lo]
    BY DEF Frames
  <2> QED
    BY <1>1, <2>1, <2>2, OffsetAt
<1>4. k <= n
  BY <1>2, <1>3
<1>5. \A j \in 1 .. k : w[j] = f[j]
  <2> TAKE j \in 1 .. k
  <2>1. PICK i : i = lo + 1
    OBVIOUS
  <2>2. i \in lo + 1 .. hi /\ i - 1 = lo /\ j \in Nat /\ j \in 1 .. Len(F[i])
    BY <1>1, <1>2, <2>1
  <2>3. w[pos[i - 1] - pos[lo] + j] = F[i][j]
    BY <2>2, Zenon DEF Frames
  <2>4. pos[i - 1] - pos[lo] + j = j
    <3>1. PICK a : a = pos[lo]
      OBVIOUS
    <3>2. a \in Nat /\ pos[i - 1] = a
      BY <1>3, <2>2, <3>1, Zenon
    <3>3. a - a + j = j
      BY <2>2, <3>2
    <3> QED
      BY <3>1, <3>2, <3>3, Zenon
  <2> QED
    BY <2>1, <2>3, <2>4
<1>6. /\ r \in Seq(Nat) /\ Len(r) = n - k
      /\ \A j \in 1 .. n - k : r[j] = w[k + j]
  <2> HIDE DEF f
  <2>1. k + 1 \in Nat /\ k + 1 <= n + 1 /\ n - (k + 1) + 1 = n - k
    BY <1>1, <1>2, <1>4
  <2>2. \A j \in k + 1 .. n : j \in 1 .. n
    BY <1>1, <1>2
  <2>3. r = SubSeq(w, k + 1, n)
    BY DEF Rest
  <2> HIDE DEF r, n, k
  <2>a. \A j \in k + 1 .. n : w[j] \in Nat
    BY <2>2 DEF n
  <2>4. r \in Seq(Nat) /\ Len(r) = n - k
    <3>1. /\ SubSeq(w, k + 1, n) \in Seq(Nat)
          /\ Len(SubSeq(w, k + 1, n)) = IF k + 1 <= n THEN n - (k + 1) + 1 ELSE 0
      BY <1>1, <1>2, <2>1, <2>a, SubSeqProperties, k + 1 \in Int, n \in Int
    <3> QED
      BY <1>1, <1>2, <1>4, <2>1, <2>3, <3>1
  <2>5. ASSUME NEW j \in 1 .. n - k PROVE r[j] = w[k + j]
    BY <1>1, <1>2, <2>1, <2>3 DEF n
  <2> QED
    BY <2>4, <2>5
<1>7. ASSUME NEW i \in lo + 2 .. hi, NEW j \in 1 .. Len(F[i])
      PROVE  r[pos[i - 1] - pos[lo + 1] + j] = F[i][j]
  <2>1. i \in lo + 1 .. hi /\ i \in 1 .. Len(F) /\ i - 1 \in 0 .. Len(F) /\ i \in 0 .. Len(F)
        /\ lo + 1 <= i - 1 /\ i <= hi
    BY <1>1
  <2>2. /\ pos[i - 1] \in Nat /\ pos[i] \in Nat /\ pos[i] = pos[i - 1] + Len(F[i])
        /\ pos[i] <= pos[hi] /\ pos[lo + 1] <= pos[i - 1]
    BY <1>1, <2>1, OffsetAt
  <2>3. Len(F[i]) \in Nat
    BY <2>1
  <2>4. pos[i - 1] - pos[lo + 1] + j \in 1 .. n - k
    <3>1. j \in Nat /\ 1 <= j /\ j <= Len(F[i])
      BY <2>3
    <3>2. n - k = pos[hi] - pos[lo + 1]
      <4> HIDE DEF k, n
      <4> QED
        BY <1>2, <1>3
    <3>3. pos[i - 1] - pos[lo + 1] + j \in 1 .. pos[hi] - pos[lo + 1]
      BY <1>3, <2>2, <2>3, <3>1, WordAt
    <3> QED
      BY <3>2, <3>3
  <2>5. k + (pos[i - 1] - pos[lo + 1] + j) = pos[i - 1] - pos[lo] + j
    <3>1. j \in Nat
      BY <2>3
    <3> HIDE DEF k, n
    <3>2. PICK p : p = pos[lo + 1]
      OBVIOUS
    <3>3. PICK q : q = pos[i - 1]
      OBVIOUS
    <3>4. PICK b : b = pos[lo]
      OBVIOUS
    <3>5. p \in Nat /\ q \in Nat /\ b \in Nat /\ p = b + k
      BY <1>3, <2>2, <3>2, <3>3, <3>4
    <3>6. k + (q - p + j) = q - b + j
      BY <1>2, <3>1, <3>5
    <3> QED
      BY <3>2, <3>3, <3>4, <3>6
  <2>6. w[pos[i - 1] - pos[lo] + j] = F[i][j]
    BY <2>1 DEF Frames
  <2> QED
    BY <1>6, <2>4, <2>5, <2>6
<1>8. /\ lo + 1 <= hi /\ Len(r) = pos[hi] - pos[lo + 1] /\ lo + 1 + 1 = lo + 2
  BY <1>1, <1>2, <1>3, <1>6, SMTT(40)
<1>9. Frames(r, F, pos, lo + 1, hi)
  BY <1>1, <1>7, <1>8 DEF Frames
<1> QED
  BY <1>2, <1>4, <1>5, <1>6, <1>9

(* One more frame that may be written moves none of the others. *)
LEMMA OffsetsExtended ==
    ASSUME NEW F \in Seq(Seq(Nat)), NEW pos, NEW f \in Seq(Nat), Offsets(F, pos)
    PROVE  \E more :
              /\ Offsets(Append(F, f), more)
              /\ \A w, lo, hi : Frames(w, F, pos, lo, hi) =>
                                    Frames(w, Append(F, f), more, lo, hi)
<1> DEFINE n == Len(F)
           G == Append(F, f)
           more == [i \in 0 .. n + 1 |-> IF i = n + 1 THEN pos[n] + Len(f) ELSE pos[i]]
<1>1. /\ n \in Nat /\ Len(f) \in Nat /\ Len(G) = n + 1 /\ G[n + 1] = f
      /\ \A i \in 1 .. n : G[i] = F[i]
  OBVIOUS
<1>2. /\ pos[n] \in Nat /\ \A i \in 0 .. n : pos[i] \in Nat /\ pos[i] <= pos[n]
      /\ pos[0] = 0 /\ \A i \in 1 .. n : pos[i] = pos[i - 1] + Len(F[i])
      /\ \A i, k \in 0 .. n : i <= k => pos[i] <= pos[k]
  <2>1. n \in 0 .. n /\ \A i \in 0 .. n : i <= n
    BY <1>1
  <2> QED
    BY <1>1, <2>1, OffsetAt
<1>3. more[n + 1] = pos[n] + Len(f) /\ \A i \in 0 .. n : more[i] = pos[i]
  BY <1>1
<1>4. more \in [0 .. n + 1 -> Nat]
  BY <1>1, <1>2
<1> HIDE DEF more, n
<1>5. \A i \in 1 .. n + 1 : more[i] = more[i - 1] + Len(G[i])
  <2> TAKE i \in 1 .. n + 1
  <2>1. CASE i = n + 1
    BY <1>1, <1>3, <2>1
  <2>2. CASE i # n + 1
    <3>1. i \in 1 .. n /\ i - 1 \in 0 .. n /\ i \in 0 .. n
      BY <1>1, <2>2
    <3> QED
      BY <1>1, <1>2, <1>3, <3>1
  <2> QED
    BY <2>1, <2>2
<1>6. \A i, k \in 0 .. n + 1 : i <= k => more[i] <= more[k]
  <2> TAKE i, k \in 0 .. n + 1
  <2> HAVE i <= k
  <2>1. CASE k = n + 1
    <3>1. CASE i = n + 1
      BY <2>1, <3>1, <1>1, <1>2, <1>3
    <3>2. CASE i # n + 1
      <4>1. i \in 0 .. n
        BY <1>1, <3>2
      <4> QED
        <5>1. more[i] \in Nat /\ more[i] <= pos[n] /\ more[k] = pos[n] + Len(f)
          BY <1>2, <1>3, <2>1, <4>1
        <5> QED
          BY <1>1, <1>2, <5>1
    <3> QED
      BY <3>1, <3>2
  <2>2. CASE k # n + 1
    <3>1. i \in 0 .. n /\ k \in 0 .. n
      BY <1>1, <2>2
    <3> QED
      BY <1>2, <1>3, <3>1
  <2> QED
    BY <2>1, <2>2
<1>7. Offsets(G, more)
  BY <1>1, <1>2, <1>3, <1>4, <1>5, <1>6, SMTT(40) DEF Offsets
<1>8. ASSUME NEW w, NEW lo, NEW hi, Frames(w, F, pos, lo, hi)
      PROVE  Frames(w, G, more, lo, hi)
  <2>1. lo \in 0 .. n /\ hi \in 0 .. n /\ lo <= hi
    BY <1>8 DEF Frames, n
  <2>2. lo \in 0 .. Len(G) /\ hi \in 0 .. Len(G) /\ Len(w) = more[hi] - more[lo]
    BY <1>1, <1>3, <1>8, <2>1 DEF Frames
  <2>3. \A i \in lo + 1 .. hi : \A j \in 1 .. Len(G[i]) :
            w[more[i - 1] - more[lo] + j] = G[i][j]
    <3> TAKE i \in lo + 1 .. hi
    <3>1. i \in 1 .. n /\ i - 1 \in 0 .. n
      BY <1>1, <2>1
    <3>2. G[i] = F[i] /\ more[i - 1] = pos[i - 1] /\ more[lo] = pos[lo]
      BY <1>1, <1>3, <2>1, <3>1
    <3> QED
      BY <1>8, <3>2 DEF Frames
  <2> QED
    BY <2>1, <2>2, <2>3 DEF Frames
<1> QED
  BY <1>7, <1>8

-----------------------------------------------------------------------------
(* Facts about queues that hold a stretch of a sequence. *)

(* The next element is queued. *)
LEMMA WindowAppended ==
    ASSUME NEW S, NEW q, NEW s, NEW lo, NEW hi, Window(q, s, lo, hi),
           q \in Seq(S), s \in Seq(S), hi + 1 <= Len(s)
    PROVE  Window(Append(q, s[hi + 1]), s, lo, hi + 1)
<1>1. lo \in Nat /\ hi \in Nat /\ Len(s) \in Nat /\ lo <= hi /\ Len(q) = hi - lo
  BY DEF Window
<1>2. lo \in 0 .. Len(s) /\ hi + 1 \in 0 .. Len(s) /\ lo <= hi + 1
  BY <1>1
<1>3. Len(Append(q, s[hi + 1])) = hi + 1 - lo
  BY <1>1
<1>4. ASSUME NEW i \in 1 .. hi + 1 - lo
      PROVE  Append(q, s[hi + 1])[i] = s[lo + i]
  <2>1. CASE i = hi + 1 - lo
    <3>1. lo + i = hi + 1 /\ i = Len(q) + 1
      BY <1>1, <2>1
    <3> QED
      BY <3>1
  <2>2. CASE i # hi + 1 - lo
    <3>1. i \in 1 .. hi - lo /\ i \in 1 .. Len(q)
      BY <1>1, <2>2
    <3>2. q[i] = s[lo + i]
      BY <3>1 DEF Window
    <3> QED
      BY <3>1, <3>2
  <2> QED
    BY <2>1, <2>2
<1> QED
  BY <1>2, <1>3, <1>4 DEF Window

(* The oldest is popped. *)
LEMMA WindowPopped ==
    ASSUME NEW S, NEW q, NEW s, NEW lo, NEW hi, Window(q, s, lo, hi),
           q \in Seq(S), s \in Seq(S), q # <<>>
    PROVE  /\ lo + 1 <= hi /\ Head(q) = s[lo + 1] /\ lo + 1 \in 0 .. Len(s)
           /\ Window(Tail(q), s, lo + 1, hi)
<1>1. lo \in Nat /\ hi \in Nat /\ Len(s) \in Nat /\ lo <= hi /\ Len(q) = hi - lo /\ hi <= Len(s)
  BY DEF Window
<1>2. Len(q) # 0
  OBVIOUS
<1>3. lo + 1 <= hi /\ 1 \in 1 .. hi - lo /\ lo + 1 \in 0 .. Len(s) /\ hi \in 0 .. Len(s)
  BY <1>1, <1>2
<1>4. Head(q) = s[lo + 1]
  BY <1>3 DEF Window
<1>5. Len(Tail(q)) = hi - (lo + 1)
  BY <1>1, <1>2
<1>6. ASSUME NEW i \in 1 .. hi - (lo + 1) PROVE Tail(q)[i] = s[lo + 1 + i]
  <2>1. i + 1 \in 1 .. hi - lo /\ lo + (i + 1) = lo + 1 + i /\ i \in 1 .. Len(Tail(q))
    BY <1>1, <1>5
  <2>2. q[i + 1] = s[lo + (i + 1)]
    BY <2>1 DEF Window
  <2>3. Tail(q)[i] = q[i + 1]
    BY <2>1, <1>2
  <2> QED
    BY <2>1, <2>2, <2>3
<1>7. Window(Tail(q), s, lo + 1, hi)
  BY <1>3, <1>5, <1>6 DEF Window
<1> QED
  BY <1>3, <1>4, <1>7

(* A queue does not notice that the sequence grows. *)
LEMMA WindowKept ==
    ASSUME NEW S, NEW q, NEW s, NEW lo, NEW hi, NEW x, Window(q, s, lo, hi), s \in Seq(S),
           x \in S
    PROVE  Window(q, Append(s, x), lo, hi)
<1>1. lo \in Nat /\ hi \in Nat /\ Len(s) \in Nat /\ lo <= hi /\ hi <= Len(s)
  BY DEF Window
<1>2. Len(Append(s, x)) = Len(s) + 1 /\ \A i \in 1 .. Len(s) : Append(s, x)[i] = s[i]
  OBVIOUS
<1>3. \A i \in 1 .. hi - lo : lo + i \in 1 .. Len(s)
  BY <1>1
<1> QED
  BY <1>1, <1>2, <1>3 DEF Window

-----------------------------------------------------------------------------
(* Facts about the formats. *)

\* f is the frame of a request.
IsRunFrame(f, r, m, d) ==
    /\ f \in Seq(Nat) /\ Len(f) = Len(d) + 3 /\ f[1] = Len(d) /\ f[2] = m
    /\ f[Len(d) + 3] = r /\ \A j \in 1 .. Len(d) : f[j + 2] = d[j]

(* What sendRequest writes, word by word: the frame of its arguments. *)
LEMMA RunFrameIs ==
    ASSUME NEW r, NEW m, NEW d, r \in Nat, m \in Nat, d \in Seq(Nat)
    PROVE  IsRunFrame(sendRequest(r, m, d), r, m, d)
<1> DEFINE h == <<Len(d), m>>
           l == <<r>>
<1>1. h \in Seq(Nat) /\ Len(h) = 2 /\ h[1] = Len(d) /\ h[2] = m /\ Len(d) \in Nat
  OBVIOUS
<1>2. l \in Seq(Nat) /\ Len(l) = 1 /\ l[1] = r
  OBVIOUS
<1> HIDE DEF h, l
<1>3. PICK c : c = h \o d
  OBVIOUS
<1>4. c \in Seq(Nat) /\ Len(c) = Len(d) + 2
  <2>1. c \in Seq(Nat) /\ Len(c) = Len(h) + Len(d)
    BY <1>1, <1>3, Joined, Zenon
  <2> QED
    BY <1>1, <2>1
<1>5. c[1] = Len(d) /\ c[2] = m
  <2>1. 1 \in 1 .. Len(h) /\ 2 \in 1 .. Len(h)
    BY <1>1
  <2>2. c[1] = h[1] /\ c[2] = h[2]
    BY <1>1, <1>3, <2>1, Joined, ZenonT(60)
  <2> QED
    BY <1>1, <2>2
<1>6. \A j \in 1 .. Len(d) : c[j + 2] = d[j] /\ j + 2 \in 1 .. Len(c)
  BY <1>1, <1>3, <1>4
<1>7. PICK f : f = c \o l
  OBVIOUS
<1>8. f = sendRequest(r, m, d)
  BY <1>3, <1>7 DEF sendRequest, h, l
<1>9. f \in Seq(Nat) /\ Len(f) = Len(d) + 3 /\ f[Len(d) + 3] = r
  <2>1. 1 \in 1 .. Len(l) /\ Len(c) + 1 = Len(d) + 3 /\ Len(c) + Len(l) = Len(d) + 3
    BY <1>1, <1>2, <1>4
  <2>2. f[Len(c) + 1] = l[1] /\ f \in Seq(Nat) /\ Len(f) = Len(c) + Len(l)
    <3>1. c \o l \in Seq(Nat) /\ Len(c \o l) = Len(c) + Len(l)
      BY <1>2, <1>4, Joined, Zenon
    <3>2. (c \o l)[Len(c) + 1] = l[1]
      <4>1. 1 \in 1 .. Len(l) /\ c \in Seq(Nat) /\ l \in Seq(Nat)
        BY <1>2, <1>4
      <4> QED
        BY <4>1, JoinedThen
    <3> QED
      BY <1>7, <3>1, <3>2, Zenon
  <2> QED
    BY <1>2, <2>1, <2>2
<1>10. \A j \in 1 .. Len(c) : f[j] = c[j]
  BY <1>2, <1>4, <1>7
<1>11. 1 \in 1 .. Len(c) /\ 2 \in 1 .. Len(c)
  BY <1>1, <1>4
<1>12. f[1] = Len(d) /\ f[2] = m
  BY <1>5, <1>10, <1>11
<1>13. \A j \in 1 .. Len(d) : f[j + 2] = d[j]
  BY <1>6, <1>10
<1> QED
  BY <1>8, <1>9, <1>12, <1>13, Zenon DEF IsRunFrame

\* The header, the model and the id sendRequest puts around the dimensions.
LEMMA RunFrame ==
    ASSUME NEW r \in Nat, NEW m \in Nat, NEW d, d \in Seq(Nat)
    PROVE  /\ sendRequest(r, m, d) \in Seq(Nat)
           /\ Len(sendRequest(r, m, d)) = Len(d) + 3
           /\ sendRequest(r, m, d)[1] = Len(d) /\ sendRequest(r, m, d)[2] = m
           /\ sendRequest(r, m, d)[Len(d) + 3] = r
<1>1. IsRunFrame(sendRequest(r, m, d), r, m, d)
  BY RunFrameIs, Zenon
<1> QED
  BY <1>1, Zenon DEF IsRunFrame

(* What sendOutput writes, and how receiveandsendOutput and recvResult     *)
(* read it from a socket that begins with it.                              *)
LEMMA OutputFrame ==
    ASSUME NEW d, d \in Seq(Nat)
    PROVE  /\ sendOutput(d) \in Seq(Nat) /\ Len(d) \in Nat
           /\ Len(sendOutput(d)) = 1 + Len(d) /\ sendOutput(d)[1] = Len(d)
           /\ \A j \in 1 .. Len(d) : sendOutput(d)[j + 1] = d[j]
<1> DEFINE h == <<Len(d)>>
<1>1. h \in Seq(Nat) /\ Len(h) = 1 /\ h[1] = Len(d) /\ Len(d) \in Nat
  OBVIOUS
<1> HIDE DEF h
<1>2. PICK f : f = h \o d
  OBVIOUS
<1>3. f = sendOutput(d)
  BY <1>2 DEF sendOutput, h
<1>4. f \in Seq(Nat) /\ Len(f) = 1 + Len(d) /\ f[1] = Len(d)
  <2>1. 1 \in 1 .. Len(h)
    BY <1>1
  <2>2. f[1] = h[1] /\ f \in Seq(Nat) /\ Len(f) = Len(h) + Len(d)
    BY <1>1, <1>2, <2>1, Joined, ZenonT(60)
  <2> QED
    BY <1>1, <2>2
<1>5. \A j \in 1 .. Len(d) : f[j + 1] = d[j]
  <2> TAKE j \in 1 .. Len(d)
  <2>1. Len(h) + j = j + 1
    BY <1>1
  <2>2. f[Len(h) + j] = d[j]
    <3>1. (h \o d)[Len(h) + j] = d[j]
      BY <1>1, JoinedThen, ZenonT(60)
    <3> QED
      BY <1>2, <3>1, Zenon
  <2> QED
    BY <2>1, <2>2
<1> QED
  BY <1>1, <1>3, <1>4, <1>5

\* A socket that begins with a frame of sendOutput is read back to its dimensions.
LEMMA OutputRead ==
    ASSUME NEW d, d \in Seq(Nat), NEW w, w \in Seq(Nat),
           Len(sendOutput(d)) <= Len(w),
           \A j \in 1 .. Len(sendOutput(d)) : w[j] = sendOutput(d)[j]
    PROVE  /\ w[1] = Len(d) /\ 1 + w[1] = Len(sendOutput(d))
           /\ SubSeq(w, 2, 1 + w[1]) = d
<1>1. /\ Len(d) \in Nat
      /\ Len(sendOutput(d)) = 1 + Len(d) /\ sendOutput(d)[1] = Len(d)
      /\ \A j \in 1 .. Len(d) : sendOutput(d)[j + 1] = d[j]
  BY OutputFrame
<1>2. 1 \in 1 .. 1 + Len(d)
  BY <1>1
<1>3. w[1] = Len(d)
  BY <1>1, <1>2
<1>4. \A j \in 1 .. Len(d) : w[j + 1] = d[j]
  <2> TAKE j \in 1 .. Len(d)
  <2>1. j + 1 \in 1 .. Len(sendOutput(d))
    BY <1>1
  <2> QED
    BY <1>1, <2>1
<1>5. SubSeq(w, 2, 1 + Len(d)) = d
  <2>1. PICK n : n = Len(d)
    OBVIOUS
  <2>2. n \in Nat /\ 1 + n <= Len(w) /\ 1 + n - 2 + 1 = n /\ Len(w) \in Nat
    BY <1>1, <2>1
  <2>3. \A j \in 2 .. 1 + n : w[j] \in Nat
    <3> TAKE j \in 2 .. 1 + n
    <3>1. j \in 1 .. Len(w)
      BY <2>2
    <3> QED
      BY <3>1
  <2>4. /\ SubSeq(w, 2, 1 + n) \in Seq(Nat)
        /\ Len(SubSeq(w, 2, 1 + n)) = IF 2 <= 1 + n THEN 1 + n - 2 + 1 ELSE 0
        /\ \A i \in 1 .. 1 + n - 2 + 1 : SubSeq(w, 2, 1 + n)[i] = w[2 + i - 1]
    BY <2>2, <2>3, SubSeqProperties, 2 \in Int, 1 + n \in Int
  <2>5. PICK s : s = SubSeq(w, 2, 1 + n)
    OBVIOUS
  <2>6. Len(s) = n /\ s \in Seq(Nat)
    BY <2>2, <2>4, <2>5
  <2>7. \A i \in 1 .. n : s[i] = d[i]
    <3> TAKE i \in 1 .. n
    <3>1. 2 + i - 1 = i + 1 /\ i \in 1 .. 1 + n - 2 + 1
      BY <2>2
    <3>2. s[i] = w[2 + i - 1]
      BY <2>4, <2>5, <3>1
    <3>3. w[i + 1] = d[i]
      BY <1>4, <2>1
    <3> QED
      BY <3>1, <3>2, <3>3
  <2>8. s = d
    BY <2>1, <2>6, <2>7, SeqEqual
  <2> QED
    BY <2>1, <2>5, <2>8
<1> QED
  BY <1>1, <1>3, <1>5

(* A batch: its size is its one dimension, and the dimensions that the     *)
(* backend puts behind it leave a request with one to four.                *)
LEMMA BatchFacts ==
    ASSUME Configured, NEW b, b \in Batch
    PROVE  /\ b.rid \in Nat /\ b.rid # 0 /\ b.model \in ModelIds /\ b.model \in Nat
           /\ b.dims[1] \in Nat /\ b.dims = <<b.dims[1]>> /\ b # NoBatch
           /\ b = [rid |-> b.rid, model |-> b.model, dims |-> b.dims]
           /\ InputDims[b.model] \in Seq(Nat) /\ OutputDims[b.model] \in Seq(Nat)
           /\ b.dims \in Seq(Nat)
           /\ b.dims \o InputDims[b.model] \in Seq(Nat)
           /\ Len(b.dims \o InputDims[b.model]) \in 1 .. 4
           /\ (b.dims \o InputDims[b.model])[1] = b.dims[1]
<1>1. b.rid \in Nat /\ b.rid # 0 /\ b.model \in ModelIds /\ b.dims \in {<<n>> : n \in Nat}
  BY DEF Batch
<1>2. PICK n \in Nat : b.dims = <<n>>
  BY <1>1
<1>3. b.dims[1] = n /\ b.dims \in Seq(Nat) /\ Len(b.dims) = 1
  BY <1>2
<1>4. b # NoBatch
  BY <1>1 DEF NoBatch
<1>5. b = [rid |-> b.rid, model |-> b.model, dims |-> b.dims]
  BY DEF Batch
<1>6. /\ b.model \in Nat /\ InputDims[b.model] \in Seq(Nat) /\ Len(InputDims[b.model]) <= 3
      /\ OutputDims[b.model] \in Seq(Nat)
  BY <1>1 DEF Configured
<1>7. PICK d : d = b.dims
  OBVIOUS
<1>8. PICK e : e = InputDims[b.model]
  OBVIOUS
<1>9. /\ d \in Seq(Nat) /\ e \in Seq(Nat) /\ Len(d) = 1 /\ Len(e) \in Nat /\ Len(e) <= 3
      /\ 1 \in 1 .. Len(d)
  BY <1>3, <1>6, <1>7, <1>8
<1>10. /\ d \o e \in Seq(Nat) /\ Len(d \o e) = Len(d) + Len(e) /\ (d \o e)[1] = d[1]
  BY <1>9, Joined, SMTT(40)
<1>11. Len(d \o e) \in 1 .. 4
  BY <1>9, <1>10
<1> QED
  BY <1>1, <1>2, <1>3, <1>4, <1>5, <1>6, <1>7, <1>8, <1>10, <1>11

(* The output of a batch: as many rows as the batch has, whatever input    *)
(* of that size it was computed from.                                      *)
LEMMA ForwardFacts ==
    ASSUME Configured, NEW b, b \in Batch
    PROVE  /\ forward(b.model, b.dims) \in Seq(Nat)
           /\ forward(b.model, b.dims)[1] = b.dims[1]
           /\ Len(forward(b.model, b.dims)) >= 1
           /\ forward(b.model, getRandInput(b.model, b.dims[1])) = forward(b.model, b.dims)
<1>1. /\ InputDims[b.model] \in Seq(Nat) /\ OutputDims[b.model] \in Seq(Nat)
      /\ b.dims[1] \in Nat
  BY BatchFacts
<1>2. PICK n : n = b.dims[1]
  OBVIOUS
<1>3. PICK e : e = OutputDims[b.model]
  OBVIOUS
<1>4. PICK c : c = <<n>>
  OBVIOUS
<1>5. c \in Seq(Nat) /\ Len(c) = 1 /\ c[1] = n /\ e \in Seq(Nat) /\ 1 \in 1 .. Len(c)
  BY <1>1, <1>2, <1>3, <1>4
<1>6. c \o e \in Seq(Nat) /\ (c \o e)[1] = c[1] /\ Len(c \o e) = Len(c) + Len(e) /\ Len(e) \in Nat
  <2>1. c \o e \in Seq(Nat) /\ Len(c \o e) = Len(c) + Len(e) /\ Len(e) \in Nat
    BY <1>5, Joined, Zenon
  <2>2. (c \o e)[1] = c[1]
    <3>1. c \in Seq(Nat) /\ e \in Seq(Nat) /\ 1 \in 1 .. Len(c)
      BY <1>5
    <3> QED
      BY <3>1, JoinedFirst
  <2> QED
    BY <2>1, <2>2
<1>7. forward(b.model, b.dims) = c \o e
  BY <1>2, <1>3, <1>4 DEF forward
<1>8. (<<b.dims[1]>> \o InputDims[b.model])[1] = b.dims[1]
  <2>1. PICK i : i = InputDims[b.model]
    OBVIOUS
  <2>2. i \in Seq(Nat)
    BY <1>1, <2>1
  <2>3. (c \o i)[1] = c[1]
    BY <1>5, <2>2, Joined
  <2> QED
    BY <1>2, <1>4, <1>5, <2>1, <2>3
<1>9. forward(b.model, getRandInput(b.model, b.dims[1])) = forward(b.model, b.dims)
  BY <1>8 DEF forward, getRandInput
<1> QED
  BY <1>2, <1>5, <1>6, <1>7, <1>9

(* The kind of a message is its first component. *)
LEMMA RunKind ==
    ASSUME NEW g \in Runs
    PROVE  g[1] = "RUN"
<1>1. PICK b \in Batch : g = RunOf(b)
  BY DEF Runs
<1> QED
  BY <1>1 DEF RunOf, Run

(* Every message has words, and its kind is in its first component. *)
LEMMA RunWords ==
    ASSUME Configured, NEW b, b \in Batch
    PROVE  /\ RunOf(b)[1] = "RUN" /\ RunOf(b)[2] = b.rid /\ RunOf(b)[3] = b.model
           /\ RunOf(b)[4] = b.dims \o InputDims[b.model]
           /\ MessageWords(RunOf(b)) =
                  sendRequest(b.rid, b.model, b.dims \o InputDims[b.model])
           /\ MessageWords(RunOf(b)) \in Seq(Nat)
           /\ RunOf(b) \in Runs /\ RunOf(b) \in Messages /\ RunOf(b) \notin Controls
<1>1. /\ RunOf(b)[1] = "RUN" /\ RunOf(b)[2] = b.rid /\ RunOf(b)[3] = b.model
      /\ RunOf(b)[4] = b.dims \o InputDims[b.model]
  BY DEF RunOf, Run
<1>2. MessageWords(RunOf(b)) = sendRequest(b.rid, b.model, b.dims \o InputDims[b.model])
  BY <1>1 DEF MessageWords
<1>3. MessageWords(RunOf(b)) \in Seq(Nat)
  <2>1. b.rid \in Nat /\ b.model \in Nat /\ b.dims \o InputDims[b.model] \in Seq(Nat)
    BY BatchFacts
  <2>2. PICK d : d = b.dims \o InputDims[b.model]
    OBVIOUS
  <2>3. sendRequest(b.rid, b.model, d) \in Seq(Nat)
    BY <2>1, <2>2, RunFrame
  <2> QED
    BY <1>2, <2>2, <2>3
<1>4. RunOf(b) \in Runs /\ RunOf(b) \in Messages
  BY DEF Runs, Messages
<1>5. RunOf(b) \notin Controls
  BY <1>1 DEF Controls, Load, Unload, Close
<1> QED
  BY <1>1, <1>2, <1>3, <1>4, <1>5

\* The frame of a load, an unload or a close is made of words, and is not a RUN frame.
LEMMA ControlWords ==
    ASSUME Configured, NEW g \in Controls
    PROVE  MessageWords(g) \in Seq(Nat) /\ g \in Messages /\ g[1] # "RUN" /\ g \notin Runs
<1>1. g \in Messages
  BY DEF Messages
<1>2. CASE \E m \in ModelIds, b \in Nat : g = Load(m, b)
  <2>1. PICK m \in ModelIds, b \in Nat : g = Load(m, b)
    BY <1>2
  <2>2. g[1] = "LOAD" /\ g[2] = m /\ g[3] = b
    BY <2>1 DEF Load
  <2>3. m \in Nat
    BY DEF Configured
  <2>4. MessageWords(g) = <<LOAD_MODEL, m, b>>
    BY <2>2 DEF MessageWords, LoadWords
  <2>5. g \notin Runs
    BY <2>2, RunKind
  <2> QED
    BY <1>1, <2>2, <2>3, <2>4, <2>5 DEF LOAD_MODEL
<1>3. CASE \E m \in ModelIds : g = Unload(m)
  <2>1. PICK m \in ModelIds : g = Unload(m)
    BY <1>3
  <2>2. g[1] = "UNLOAD" /\ g[2] = m
    BY <2>1 DEF Unload
  <2>3. m \in Nat
    BY DEF Configured
  <2>4. MessageWords(g) = <<UNLOAD_MODEL, m>>
    BY <2>2 DEF MessageWords, UnloadWords
  <2>5. g \notin Runs
    BY <2>2, RunKind
  <2> QED
    BY <1>1, <2>2, <2>3, <2>4, <2>5 DEF UNLOAD_MODEL
<1>4. CASE g = Close
  <2>1. g[1] = "CLOSE"
    BY <1>4 DEF Close
  <2>2. MessageWords(g) = <<CLOSE_SOCKET>>
    BY <2>1 DEF MessageWords
  <2>3. g \notin Runs
    BY <2>1, RunKind
  <2> QED
    BY <1>1, <2>1, <2>2, <2>3 DEF CLOSE_SOCKET
<1> QED
  BY <1>2, <1>3, <1>4 DEF Controls

(* recvInput knows from the first word how long the message is, and reads  *)
(* the message that was written.                                           *)
LEMMA RunRead ==
    ASSUME Configured, NEW b, b \in Batch, NEW w, w \in Seq(Nat),
           w[1] = MessageWords(RunOf(b))[1]
    PROVE  /\ Length(w) = Len(MessageWords(RunOf(b)))
           /\ \/ Len(MessageWords(RunOf(b))) > Len(w)
              \/ \E j \in 1 .. Len(MessageWords(RunOf(b))) : w[j] # MessageWords(RunOf(b))[j]
              \/ Decode(w) = RunOf(b)
<1>1. PICK d : d = b.dims \o InputDims[b.model]
  OBVIOUS
<1>2. PICK f : f = MessageWords(RunOf(b))
  OBVIOUS
<1>3. d \in Seq(Nat) /\ Len(d) \in 1 .. 4 /\ b.rid \in Nat /\ b.model \in Nat
  BY <1>1, BatchFacts
<1>4. f = sendRequest(b.rid, b.model, d)
  BY <1>1, <1>2, RunWords
<1>5. /\ f \in Seq(Nat) /\ Len(f) = Len(d) + 3 /\ f[1] = Len(d) /\ f[2] = b.model
      /\ f[Len(d) + 3] = b.rid /\ \A j \in 1 .. Len(d) : f[j + 2] = d[j]
  <2>1. PICK r : r = b.rid
    OBVIOUS
  <2>2. PICK m : m = b.model
    OBVIOUS
  <2>3. r \in Nat /\ m \in Nat /\ d \in Seq(Nat)
    BY <1>3, <2>1, <2>2
  <2>4. f = sendRequest(r, m, d)
    BY <1>4, <2>1, <2>2
  <2>5. /\ f \in Seq(Nat) /\ Len(f) = Len(d) + 3 /\ f[1] = Len(d) /\ f[2] = m
        /\ f[Len(d) + 3] = r /\ \A j \in 1 .. Len(d) : f[j + 2] = d[j]
    <3>1. IsRunFrame(f, r, m, d)
      BY <2>3, <2>4, RunFrameIs, Zenon
    <3> QED
      BY <3>1, Zenon DEF IsRunFrame
  <2> QED
    BY <2>1, <2>2, <2>5
<1>6. w[1] = Len(d) /\ w[1] \in 0 .. 4
  BY <1>2, <1>3, <1>5
<1>7. w[1] # CLOSE_SOCKET /\ w[1] # LOAD_MODEL /\ w[1] # UNLOAD_MODEL
  <2>1. PICK x : x = w[1]
    OBVIOUS
  <2>2. x \in 0 .. 4
    BY <1>6, <2>1
  <2>3. x # 25301 /\ x # 2251 /\ x # 8297
    BY <2>2
  <2> QED
    BY <2>1, <2>3 DEF CLOSE_SOCKET, LOAD_MODEL, UNLOAD_MODEL
<1>8. Length(w) = Len(f)
  BY <1>5, <1>6, <1>7 DEF Length
<1>9. ASSUME Len(f) <= Len(w), \A j \in 1 .. Len(f) : w[j] = f[j]
      PROVE  Decode(w) = RunOf(b)
  <2>1. PICK n : n = Len(d)
    OBVIOUS
  <2>2. n \in 1 .. 4 /\ n \in Nat /\ Len(f) = n + 3 /\ Len(w) \in Nat
    <3>1. Len(w) \in Nat
      OBVIOUS
    <3>2. n \in 1 .. 4 /\ Len(f) = n + 3
      BY <1>3, <1>5, <2>1
    <3> QED
      BY <3>1, <3>2
  <2>3. Decode(w) = Run(w[n + 3], w[2], SubSeq(w, 3, n + 2))
    BY <1>6, <1>7, <2>1 DEF Decode
  <2>4. 2 \in 1 .. Len(f) /\ n + 3 \in 1 .. Len(f) /\ \A j \in 1 .. n : j + 2 \in 1 .. Len(f)
    BY <2>2
  <2>5. w[n + 3] = b.rid /\ w[2] = b.model /\ \A j \in 1 .. n : w[j + 2] = d[j]
    BY <1>5, <1>9, <2>1, <2>4
  <2>6. SubSeq(w, 3, n + 2) = d
    <3>1. \A j \in 3 .. n + 2 : w[j] \in Nat
      <4> TAKE j \in 3 .. n + 2
      <4>1. j \in 1 .. Len(w)
        BY <1>9, <2>2
      <4> QED
        BY <4>1
    <3>2. PICK s : s = SubSeq(w, 3, n + 2)
      OBVIOUS
    <3>3. /\ s \in Seq(Nat) /\ Len(s) = IF 3 <= n + 2 THEN n + 2 - 3 + 1 ELSE 0
          /\ \A i \in 1 .. n + 2 - 3 + 1 : s[i] = w[3 + i - 1]
      BY <2>2, <3>1, <3>2, SubSeqProperties, 3 \in Int, n + 2 \in Int
    <3>4. Len(s) = n
      BY <2>2, <3>3
    <3>5. \A i \in 1 .. n : s[i] = d[i]
      <4> TAKE i \in 1 .. n
      <4>1. i \in 1 .. n + 2 - 3 + 1 /\ 3 + i - 1 = i + 2
        BY <2>2
      <4> QED
        BY <2>5, <3>3, <4>1
    <3>6. s = d
      BY <1>3, <2>1, <3>3, <3>4, <3>5, SeqEqual
    <3> QED
      BY <3>2, <3>6
  <2> QED
    BY <1>1, <2>3, <2>5, <2>6 DEF RunOf
<1> QED
  <2>1. Len(f) \in Nat /\ Len(w) \in Nat
    BY <1>5
  <2>2. Len(f) > Len(w) \/ Len(f) <= Len(w)
    BY <2>1
  <2> QED
    BY <1>2, <1>8, <1>9, <2>2

\* A socket that begins with the frame of a control message is decoded to that
\* message, once the whole frame has arrived.
LEMMA ControlRead ==
    ASSUME Configured, NEW g \in Controls, NEW w, w \in Seq(Nat),
           w[1] = MessageWords(g)[1]
    PROVE  /\ Length(w) = Len(MessageWords(g))
           /\ \/ Len(MessageWords(g)) > Len(w)
              \/ \E j \in 1 .. Len(MessageWords(g)) : w[j] # MessageWords(g)[j]
              \/ Decode(w) = g
<1>1. CASE \E m \in ModelIds, b \in Nat : g = Load(m, b)
  <2>1. PICK m \in ModelIds, b \in Nat : g = Load(m, b)
    BY <1>1
  <2>2. MessageWords(g) = <<LOAD_MODEL, m, b>>
    BY <2>1 DEF MessageWords, LoadWords, Load
  <2>3. w[1] = LOAD_MODEL /\ w[1] # CLOSE_SOCKET
    BY <2>2 DEF LOAD_MODEL, CLOSE_SOCKET
  <2>4. Length(w) = 3 /\ Decode(w) = Load(w[2], w[3])
    BY <2>3 DEF Length, Decode, UNLOAD_MODEL, LOAD_MODEL
  <2>5. 2 \in 1 .. 3 /\ 3 \in 1 .. 3
    OBVIOUS
  <2>6. Len(MessageWords(g)) = 3 /\ MessageWords(g)[2] = m /\ MessageWords(g)[3] = b
    BY <2>2
  <2> QED
    BY <2>1, <2>4, <2>5, <2>6
<1>2. CASE \E m \in ModelIds : g = Unload(m)
  <2>1. PICK m \in ModelIds : g = Unload(m)
    BY <1>2
  <2>2. MessageWords(g) = <<UNLOAD_MODEL, m>>
    BY <2>1 DEF MessageWords, UnloadWords, Unload
  <2>3. w[1] = UNLOAD_MODEL /\ w[1] # CLOSE_SOCKET /\ w[1] # LOAD_MODEL
    BY <2>2 DEF LOAD_MODEL, CLOSE_SOCKET, UNLOAD_MODEL
  <2>4. Length(w) = 2 /\ Decode(w) = Unload(w[2])
    BY <2>3 DEF Length, Decode, UNLOAD_MODEL
  <2>5. 2 \in 1 .. 2
    OBVIOUS
  <2>6. Len(MessageWords(g)) = 2 /\ MessageWords(g)[2] = m
    BY <2>2
  <2> QED
    BY <2>1, <2>4, <2>5, <2>6
<1>3. CASE g = Close
  <2>1. MessageWords(g) = <<CLOSE_SOCKET>>
    BY <1>3 DEF MessageWords, Close
  <2>2. w[1] = CLOSE_SOCKET /\ CLOSE_SOCKET # LOAD_MODEL /\ CLOSE_SOCKET # UNLOAD_MODEL
        /\ CLOSE_SOCKET \notin 0 .. 4
    BY <2>1 DEF LOAD_MODEL, CLOSE_SOCKET, UNLOAD_MODEL
  <2>3. Length(w) = 1 /\ Decode(w) = Close
    BY <2>2 DEF Length, Decode
  <2>4. Len(MessageWords(g)) = 1
    BY <2>1
  <2> QED
    BY <1>3, <2>3, <2>4
<1> QED
  BY <1>1, <1>2, <1>3 DEF Controls

-----------------------------------------------------------------------------
(* The sequences of frames. *)

\* There is one frame for each message given and for each batch.
LEMMA FrameTypes ==
    ASSUME Configured, Types
    PROVE  /\ GivenFrames \in Seq(Seq(Nat)) /\ Len(GivenFrames) = Len(given)
           /\ RequestFrames \in Seq(Seq(Nat)) /\ Len(RequestFrames) = Len(batches)
           /\ OutputFrames \in Seq(Seq(Nat)) /\ Len(OutputFrames) = Len(batches)
           /\ Len(given) \in Nat /\ Len(batches) \in Nat /\ Len(decoded) \in Nat
           /\ Len(results) \in Nat
<1>1. /\ given \in Seq(Messages) /\ batches \in Seq(Batch)
      /\ Len(given) \in Nat /\ Len(batches) \in Nat /\ Len(decoded) \in Nat
      /\ Len(results) \in Nat
  BY DEF Types
<1>2. ASSUME NEW i \in 1 .. Len(given)
      PROVE  MessageWords(given[i]) \in Seq(Nat)
  <2>1. given[i] \in Messages
    BY <1>1
  <2>2. CASE given[i] \in Controls
    BY <2>2, ControlWords
  <2>3. CASE given[i] \in Runs
    <3>1. PICK b \in Batch : given[i] = RunOf(b)
      BY <2>3 DEF Runs
    <3> QED
      BY <3>1, RunWords
  <2> QED
    BY <2>1, <2>2, <2>3 DEF Messages
<1>3. ASSUME NEW i \in 1 .. Len(batches)
      PROVE  RequestWords(batches[i]) \in Seq(Nat) /\ OutputWords(batches[i]) \in Seq(Nat)
  <2>1. PICK b : b = batches[i]
    OBVIOUS
  <2>2. b \in Batch
    BY <1>1, <2>1
  <2>3. b.rid \in Nat /\ b.model \in Nat /\ b.dims[1] \in Nat
    BY <2>2, BatchFacts
  <2>4. RequestWords(b) \in Seq(Nat)
    BY <2>3 DEF RequestWords, sendRequestToBackend
  <2>5. forward(b.model, b.dims) \in Seq(Nat)
    BY <2>2, ForwardFacts
  <2>6. OutputWords(b) \in Seq(Nat)
    BY <2>5, OutputFrame DEF OutputWords
  <2> QED
    BY <2>1, <2>4, <2>6
<1>4. GivenFrames \in Seq(Seq(Nat)) /\ Len(GivenFrames) = Len(given)
  BY <1>1, <1>2 DEF GivenFrames
<1>5. RequestFrames \in Seq(Seq(Nat)) /\ Len(RequestFrames) = Len(batches)
  BY <1>1, <1>3 DEF RequestFrames
<1>6. OutputFrames \in Seq(Seq(Nat)) /\ Len(OutputFrames) = Len(batches)
  BY <1>1, <1>3 DEF OutputFrames
<1> QED
  BY <1>1, <1>4, <1>5, <1>6

\* A message given to the process adds its frame at the end.
LEMMA GivenFramesAppended ==
    ASSUME given \in Seq(Messages), NEW g, g \in Messages, given' = Append(given, g)
    PROVE  GivenFrames' = Append(GivenFrames, MessageWords(g))
<1>1. /\ Len(given') = Len(given) + 1 /\ Len(given) \in Nat /\ given'[Len(given) + 1] = g
      /\ \A i \in 1 .. Len(given) : given'[i] = given[i]
  OBVIOUS
<1>2. PICK n : n = Len(given)
  OBVIOUS
<1>3. GivenFrames' = [i \in 1 .. n + 1 |-> MessageWords(given'[i])]
  BY <1>1, <1>2 DEF GivenFrames, MessageWords, sendRequest, LoadWords, UnloadWords
<1>4. GivenFrames = [i \in 1 .. n |-> MessageWords(given[i])]
  BY <1>2 DEF GivenFrames
<1>5. Append(GivenFrames, MessageWords(g))
        = [i \in 1 .. n + 1 |-> IF i = n + 1 THEN MessageWords(g) ELSE GivenFrames[i]]
  <2>1. Len(GivenFrames) = n
    BY <1>1, <1>2, <1>4
  <2> QED
    BY <1>1, <1>2, <2>1, <1>4
<1>6. ASSUME NEW i \in 1 .. n + 1
      PROVE  MessageWords(given'[i]) = IF i = n + 1 THEN MessageWords(g) ELSE GivenFrames[i]
  BY <1>1, <1>2, <1>4
<1> QED
  BY <1>3, <1>5, <1>6

\* A batch adds its request frame and its output frame at the end.
LEMMA BatchFramesAppended ==
    ASSUME batches \in Seq(Batch), NEW b, b \in Batch, batches' = Append(batches, b)
    PROVE  /\ RequestFrames' = Append(RequestFrames, RequestWords(b))
           /\ OutputFrames' = Append(OutputFrames, OutputWords(b))
<1>1. /\ Len(batches') = Len(batches) + 1 /\ Len(batches) \in Nat
      /\ batches'[Len(batches) + 1] = b
      /\ \A i \in 1 .. Len(batches) : batches'[i] = batches[i]
  OBVIOUS
<1>2. PICK n : n = Len(batches)
  OBVIOUS
<1>3. RequestFrames' = Append(RequestFrames, RequestWords(b))
  <2>1. RequestFrames' = [i \in 1 .. n + 1 |-> RequestWords(batches'[i])]
    BY <1>1, <1>2 DEF RequestFrames, RequestWords, sendRequestToBackend
  <2>2. RequestFrames = [i \in 1 .. n |-> RequestWords(batches[i])]
    BY <1>2 DEF RequestFrames
  <2>3. Append(RequestFrames, RequestWords(b))
          = [i \in 1 .. n + 1 |-> IF i = n + 1 THEN RequestWords(b) ELSE RequestFrames[i]]
    <3>1. Len(RequestFrames) = n
      BY <1>1, <1>2, <2>2
    <3> QED
      BY <1>1, <1>2, <2>2, <3>1
  <2>4. ASSUME NEW i \in 1 .. n + 1
        PROVE  RequestWords(batches'[i]) = IF i = n + 1 THEN RequestWords(b) ELSE RequestFrames[i]
    BY <1>1, <1>2, <2>2
  <2> QED
    BY <2>1, <2>3, <2>4
<1>4. OutputFrames' = Append(OutputFrames, OutputWords(b))
  <2>1. OutputFrames' = [i \in 1 .. n + 1 |-> OutputWords(batches'[i])]
    BY <1>1, <1>2 DEF OutputFrames, OutputWords, sendOutput, forward
  <2>2. OutputFrames = [i \in 1 .. n |-> OutputWords(batches[i])]
    BY <1>2 DEF OutputFrames
  <2>3. Append(OutputFrames, OutputWords(b))
          = [i \in 1 .. n + 1 |-> IF i = n + 1 THEN OutputWords(b) ELSE OutputFrames[i]]
    <3>1. Len(OutputFrames) = n
      BY <1>1, <1>2, <2>2
    <3> QED
      BY <1>1, <1>2, <2>2, <3>1
  <2>4. ASSUME NEW i \in 1 .. n + 1
        PROVE  OutputWords(batches'[i]) = IF i = n + 1 THEN OutputWords(b) ELSE OutputFrames[i]
    BY <1>1, <1>2, <2>2
  <2> QED
    BY <2>1, <2>3, <2>4
<1> QED
  BY <1>3, <1>4

-----------------------------------------------------------------------------
(* What a step leaves alone. *)

\* The frames depend on the messages and the batches only.
LEMMA FramesUnchanged ==
    /\ given' = given => GivenFrames' = GivenFrames
    /\ batches' = batches => RequestFrames' = RequestFrames /\ OutputFrames' = OutputFrames
<1>1. ASSUME given' = given PROVE GivenFrames' = GivenFrames
  BY <1>1 DEF GivenFrames, MessageWords, sendRequest, LoadWords, UnloadWords
<1>2. ASSUME batches' = batches PROVE RequestFrames' = RequestFrames /\ OutputFrames' = OutputFrames
  BY <1>2 DEF RequestFrames, OutputFrames, RequestWords, OutputWords, sendRequestToBackend,
              sendOutput, forward
<1> QED
  BY <1>1, <1>2

\* Which message carries which batch depends on the two histories only.
LEMMA CountedKept ==
    ASSUME NEW cnt, Counted(cnt), given' = given, batches' = batches
    PROVE  Counted(cnt)'
  BY DEF Counted, RunOf

\* The socket to the process is disturbed only by its words, its writers and its reader.
LEMMA InputKept ==
    ASSUME NEW gpos, InputSide(gpos), InputStream' = InputStream, given' = given,
           decoded' = decoded
    PROVE  InputSide(gpos)'
  BY FramesUnchanged DEF InputSide

\* The request socket is disturbed only by its words, its writers and new batches.
LEMMA RequestKept ==
    ASSUME NEW rpos, NEW rel, RequestSide(rpos, rel), RequestStream' = RequestStream,
           batches' = batches
    PROVE  RequestSide(rpos, rel)'
  BY FramesUnchanged DEF RequestSide

\* The two sockets of results are disturbed only by their words and by new batches.
LEMMA OutputKept ==
    ASSUME NEW opos, NEW back, NEW comp, OutputSide(opos, back, comp), batches' = batches,
           wire'["output"] = wire["output"], wire'["result"] = wire["result"],
           results' = results
    PROVE  OutputSide(opos, back, comp)'
  BY FramesUnchanged DEF OutputSide

\* The queue of the process is disturbed only by its own steps and new batches.
LEMMA ProcessKept ==
    ASSUME NEW comp, NEW in, ProcessQueue(comp, in), batches' = batches,
           g_InputQueue' = g_InputQueue
    PROVE  ProcessQueue(comp, in)'
  BY DEF ProcessQueue, RunOf

\* The backend's queue is disturbed only by its own steps and new batches.
LEMMA BackendKept ==
    ASSUME NEW back, NEW rel, BackendQueue(back, rel), batches' = batches,
           MapProxytoOutputQueue' = MapProxytoOutputQueue, relayed' = relayed,
           awaited'["backend"] = awaited["backend"]
    PROVE  BackendQueue(back, rel)'
  BY DEF BackendQueue

\* The frontend's queue is disturbed only by its own steps and new batches.
LEMMA FrontendKept ==
    ASSUME FrontendQueue, batches' = batches, results' = results,
           PerProxyOutputQueue' = PerProxyOutputQueue,
           awaited'["frontend"] = awaited["frontend"]
    PROVE  FrontendQueue'
  BY DEF FrontendQueue

\* What has been delivered depends on the batches and the results only.
LEMMA DeliveredKept ==
    ASSUME Delivered, batches' = batches, results' = results
    PROVE  Delivered'
  BY DEF Delivered

\* What has been decoded depends on the two histories only.
LEMMA DecodingKept ==
    ASSUME Decoding, given' = given, decoded' = decoded
    PROVE  Decoding'
  BY DEF Decoding

(* Where one part of the path alone is disturbed, the rest is as it was. *)
LEMMA StreamsKept ==
    ASSUME wire'["input"] = wire["input"], wire'["request"] = wire["request"], todo' = todo,
           sendMtx' = sendMtx
    PROVE  InputStream' = InputStream /\ RequestStream' = RequestStream
  BY DEF InputStream, RequestStream, Holding

-----------------------------------------------------------------------------
(* The invariant holds at first, and every action keeps it. *)

\* At first the sockets and the queues are empty and nothing has been given.
LEMMA InitIInv ==
    ASSUME Configured, Init
    PROVE  IInv
<1> USE DEF Init
<1>1. Types
  <2>1. \A S : <<>> \in Seq(S)
    OBVIOUS
  <2> QED
    BY <2>1 DEF Types
<1>2. Locks
  <2>1. Batchers \subseteq Writers /\ "data" \in Writers /\ "control" \in Writers
    BY DEF Writers
  <2>2. "nobody" \notin Batchers
    BY DEF Configured
  <2>3. \A t \in Batchers : todo[t] = <<>> /\ "nobody" # t
    BY <2>1, <2>2
  <2> QED
    BY <2>1, <2>3 DEF Locks
<1>3. Decoding /\ Delivered
  BY DEF Decoding, Delivered
<1>4. FrontendQueue
  <2>1. Window(PerProxyOutputQueue, batches, 0, Len(batches)) /\ Len(batches) = 0
        /\ Len(results) = 0
    BY DEF Window
  <2> QED
    BY <2>1 DEF FrontendQueue
<1>5. PICK z : z = [i \in 0 .. 0 |-> 0]
  OBVIOUS
<1>6. z \in [0 .. 0 -> Nat] /\ z[0] = 0 /\ z \in [0 .. 0 -> 0 .. 0]
  BY <1>5
<1>7. Counted(z)
  BY <1>6 DEF Counted
<1>8. GivenFrames = <<>> /\ RequestFrames = <<>> /\ OutputFrames = <<>>
  BY DEF GivenFrames, RequestFrames, OutputFrames
<1>9. Offsets(<<>>, z)
  BY <1>6 DEF Offsets
<1>10. Frames(<<>>, <<>>, z, 0, 0)
  BY <1>6 DEF Frames
<1>11. InputStream = <<>> /\ RequestStream = <<>>
  BY DEF InputStream, RequestStream, Holding, Writers
<1>12. InputSide(z) /\ RequestSide(z, 0) /\ OutputSide(z, 0, 0)
  BY <1>8, <1>9, <1>10, <1>11 DEF InputSide, RequestSide, OutputSide
<1>13. ProcessQueue(0, 0)
  BY DEF ProcessQueue
<1>14. BackendQueue(0, 0)
  <2>1. Window(MapProxytoOutputQueue, batches, 0, 0) /\ 0 \in 0 .. Len(batches)
    BY DEF Window
  <2> QED
    BY <2>1 DEF BackendQueue
<1>15. Path(z, z, z, z, 0, 0)
  BY <1>6, <1>7, <1>12, <1>13, <1>14 DEF Path
<1> QED
  BY <1>1, <1>2, <1>3, <1>4, <1>15 DEF IInv

(* connectGPUProxyIn and connectGPUProxyOut change only open. *)
LEMMA OpenOnly ==
    ASSUME IInv, UNCHANGED <<wire, todo, sendMtx, PerProxyOutputQueue, MapProxytoOutputQueue,
                             g_InputQueue, awaited, relayed, given, decoded, batches, results>>
    PROVE  IInv'
<1>1. PICK cnt, gpos, rpos, opos, back, comp : Path(cnt, gpos, rpos, opos, back, comp)
  BY DEF IInv
<1>2. InputStream' = InputStream /\ RequestStream' = RequestStream
  BY StreamsKept
<1>3. /\ Counted(cnt)' /\ InputSide(gpos)' /\ RequestSide(rpos, cnt[Len(given)])'
      /\ OutputSide(opos, back, comp)' /\ ProcessQueue(comp, cnt[Len(decoded)])'
      /\ BackendQueue(back, cnt[Len(given)])'
  BY <1>1, <1>2, CountedKept, InputKept, RequestKept, OutputKept, ProcessKept, BackendKept DEF Path
<1>4. Path(cnt, gpos, rpos, opos, back, comp)'
  BY <1>3 DEF Path
<1>5. Types' /\ Locks'
  BY DEF IInv, Types, Locks, Closed
<1>6. Decoding' /\ Delivered' /\ FrontendQueue'
  BY DecodingKept, DeliveredKept, FrontendKept DEF IInv
<1> QED
  BY <1>4, <1>5, <1>6 DEF IInv

\* The backend queues the batch it has relayed: its place in the queue is the place
\* of its request on the socket.
LEMMA QueueOutputKeeps ==
    ASSUME Configured, IInv, QueueOutput
    PROVE  IInv'
<1> USE DEF QueueOutput
<1>1. PICK cnt, gpos, rpos, opos, back, comp : Path(cnt, gpos, rpos, opos, back, comp)
  BY DEF IInv
<1>2. InputStream' = InputStream /\ RequestStream' = RequestStream
  BY StreamsKept
<1>3. /\ Counted(cnt)' /\ InputSide(gpos)' /\ RequestSide(rpos, cnt[Len(given)])'
      /\ OutputSide(opos, back, comp)' /\ ProcessQueue(comp, cnt[Len(decoded)])'
  BY <1>1, <1>2, CountedKept, InputKept, RequestKept, OutputKept, ProcessKept DEF Path
<1>4. BackendQueue(back, cnt[Len(given)])'
  <2>1. PICK rel : rel = cnt[Len(given)]
    OBVIOUS
  <2>2. PICK popped, queued :
            /\ popped \in 0 .. Len(batches) /\ queued \in 0 .. Len(batches)
            /\ Window(MapProxytoOutputQueue, batches, popped, queued)
            /\ back \in 0 .. popped
            /\ IF awaited["backend"] = NoBatch THEN popped = back
               ELSE popped = back + 1 /\ awaited["backend"] = batches[popped]
            /\ IF relayed = NoBatch THEN queued = rel
               ELSE rel = queued + 1 /\ relayed = batches[rel]
    BY <1>1, <2>1 DEF Path, BackendQueue
  <2>3. rel = queued + 1 /\ relayed = batches[queued + 1]
    BY <2>2
  <2>4. rel \in 0 .. Len(batches)
    <3>1. Counted(cnt) /\ Len(given) \in Nat
      BY <1>1 DEF Path, IInv, Types
    <3> QED
      BY <2>1, <3>1 DEF Counted
  <2>5. MapProxytoOutputQueue \in Seq(Batch) /\ batches \in Seq(Batch) /\ Len(batches) \in Nat
    BY DEF IInv, Types
  <2>6. queued + 1 <= Len(batches)
    BY <2>3, <2>4, <2>5
  <2>7. Window(MapProxytoOutputQueue', batches, popped, queued + 1)
    BY <2>2, <2>3, <2>5, <2>6, WindowAppended
  <2>8. BackendQueue(back, rel)'
    BY <2>2, <2>3, <2>4, <2>7 DEF BackendQueue
  <2> QED
    BY <2>1, <2>8
<1>5. Path(cnt, gpos, rpos, opos, back, comp)'
  BY <1>3, <1>4 DEF Path
<1>6. Types'
  <2>1. Append(MapProxytoOutputQueue, relayed) \in Seq(Batch)
    BY DEF IInv, Types
  <2> QED
    BY <2>1 DEF IInv, Types
<1>7. Locks'
  BY DEF IInv, Locks, Closed
<1>8. Decoding' /\ Delivered' /\ FrontendQueue'
  BY DecodingKept, DeliveredKept, FrontendKept DEF IInv
<1> QED
  BY <1>5, <1>6, <1>7, <1>8 DEF IInv

\* The output thread of the backend takes the oldest batch of its queue.
LEMMA initBackendDataKeeps ==
    ASSUME Configured, IInv, initBackendData
    PROVE  IInv'
<1> USE DEF initBackendData
<1>1. PICK cnt, gpos, rpos, opos, back, comp : Path(cnt, gpos, rpos, opos, back, comp)
  BY DEF IInv
<1>2. InputStream' = InputStream /\ RequestStream' = RequestStream
  BY StreamsKept
<1>3. /\ Counted(cnt)' /\ InputSide(gpos)' /\ RequestSide(rpos, cnt[Len(given)])'
      /\ OutputSide(opos, back, comp)' /\ ProcessQueue(comp, cnt[Len(decoded)])'
  BY <1>1, <1>2, CountedKept, InputKept, RequestKept, OutputKept, ProcessKept DEF Path
<1>a. awaited \in [{"frontend", "backend"} -> Batch \cup {NoBatch}]
  BY DEF IInv, Types
<1>b. /\ awaited'["backend"] = Head(MapProxytoOutputQueue)
      /\ awaited'["frontend"] = awaited["frontend"]
  BY <1>a
<1>c. MapProxytoOutputQueue \in Seq(Batch) /\ batches \in Seq(Batch) /\ Len(batches) \in Nat
      /\ MapProxytoOutputQueue # <<>>
  BY DEF IInv, Types
<1>d. Head(MapProxytoOutputQueue) \in Batch /\ Tail(MapProxytoOutputQueue) \in Seq(Batch)
  BY <1>c
<1>4. BackendQueue(back, cnt[Len(given)])'
  <2>1. PICK rel : rel = cnt[Len(given)]
    OBVIOUS
  <2>2. PICK popped, queued :
            /\ popped \in 0 .. Len(batches) /\ queued \in 0 .. Len(batches)
            /\ Window(MapProxytoOutputQueue, batches, popped, queued)
            /\ back \in 0 .. popped
            /\ IF awaited["backend"] = NoBatch THEN popped = back
               ELSE popped = back + 1 /\ awaited["backend"] = batches[popped]
            /\ IF relayed = NoBatch THEN queued = rel
               ELSE rel = queued + 1 /\ relayed = batches[rel]
    BY <1>1, <2>1 DEF Path, BackendQueue
  <2>3. /\ Head(MapProxytoOutputQueue) = batches[popped + 1]
        /\ popped + 1 \in 0 .. Len(batches)
        /\ Window(Tail(MapProxytoOutputQueue), batches, popped + 1, queued)
    <3>1. Window(MapProxytoOutputQueue, batches, popped, queued)
      BY <2>2
    <3> QED
      BY <1>c, <3>1, WindowPopped
  <2>4. popped = back /\ back \in 0 .. popped + 1 /\ popped + 1 = back + 1
    BY <1>c, <2>2
  <2>5. awaited'["backend"] # NoBatch
    BY <1>b, <1>d, BatchFacts
  <2>6. BackendQueue(back, rel)'
    BY <1>b, <2>2, <2>3, <2>4, <2>5 DEF BackendQueue
  <2> QED
    BY <2>1, <2>6
<1>5. Path(cnt, gpos, rpos, opos, back, comp)'
  BY <1>3, <1>4 DEF Path
<1>6. Types'
  <2>1. awaited' \in [{"frontend", "backend"} -> Batch \cup {NoBatch}]
    BY <1>a, <1>d
  <2> QED
    BY <1>d, <2>1 DEF IInv, Types
<1>7. Locks'
  BY DEF IInv, Locks, Closed
<1>8. Decoding' /\ Delivered' /\ FrontendQueue'
  BY <1>b, DecodingKept, DeliveredKept, FrontendKept DEF IInv
<1> QED
  BY <1>5, <1>6, <1>7, <1>8 DEF IInv

\* The output thread of the frontend takes the oldest batch of its queue.
LEMMA initOutputKeeps ==
    ASSUME Configured, IInv, initOutput
    PROVE  IInv'
<1> USE DEF initOutput
<1>1. PICK cnt, gpos, rpos, opos, back, comp : Path(cnt, gpos, rpos, opos, back, comp)
  BY DEF IInv
<1>2. InputStream' = InputStream /\ RequestStream' = RequestStream
  BY StreamsKept
<1>a. awaited \in [{"frontend", "backend"} -> Batch \cup {NoBatch}]
  BY DEF IInv, Types
<1>b. /\ awaited'["frontend"] = Head(PerProxyOutputQueue)
      /\ awaited'["backend"] = awaited["backend"]
  BY <1>a
<1>3. /\ Counted(cnt)' /\ InputSide(gpos)' /\ RequestSide(rpos, cnt[Len(given)])'
      /\ OutputSide(opos, back, comp)' /\ ProcessQueue(comp, cnt[Len(decoded)])'
      /\ BackendQueue(back, cnt[Len(given)])'
  BY <1>1, <1>2, <1>b, CountedKept, InputKept, RequestKept, OutputKept, ProcessKept,
     BackendKept DEF Path
<1>c. PerProxyOutputQueue \in Seq(Batch) /\ batches \in Seq(Batch) /\ Len(batches) \in Nat
      /\ PerProxyOutputQueue # <<>> /\ Len(results) \in Nat
  BY DEF IInv, Types
<1>d. Head(PerProxyOutputQueue) \in Batch /\ Tail(PerProxyOutputQueue) \in Seq(Batch)
  BY <1>c
<1>4. FrontendQueue'
  <2>1. PICK popped :
            /\ popped \in 0 .. Len(batches)
            /\ Window(PerProxyOutputQueue, batches, popped, Len(batches))
            /\ IF awaited["frontend"] = NoBatch THEN popped = Len(results)
               ELSE popped = Len(results) + 1 /\ awaited["frontend"] = batches[popped]
    BY DEF IInv, FrontendQueue
  <2>2. /\ Head(PerProxyOutputQueue) = batches[popped + 1]
        /\ popped + 1 \in 0 .. Len(batches)
        /\ Window(Tail(PerProxyOutputQueue), batches, popped + 1, Len(batches))
    BY <1>c, <2>1, WindowPopped, ZenonT(60)
  <2>3. popped + 1 = Len(results) + 1
    BY <2>1
  <2>4. awaited'["frontend"] # NoBatch
    BY <1>b, <1>d, BatchFacts
  <2> QED
    BY <1>b, <2>2, <2>3, <2>4 DEF FrontendQueue
<1>5. Path(cnt, gpos, rpos, opos, back, comp)'
  BY <1>3 DEF Path
<1>6. Types'
  <2>1. awaited' \in [{"frontend", "backend"} -> Batch \cup {NoBatch}]
    BY <1>a, <1>d
  <2> QED
    BY <1>d, <2>1 DEF IInv, Types
<1>7. Locks'
  BY DEF IInv, Locks, Closed
<1>8. Decoding' /\ Delivered'
  BY DecodingKept, DeliveredKept DEF IInv
<1> QED
  BY <1>4, <1>5, <1>6, <1>7, <1>8 DEF IInv

\* The process writes the output of the oldest batch it was given, so the outputs
\* stay in the order of the batches.
LEMMA send_outputKeeps ==
    ASSUME Configured, IInv, send_output
    PROVE  IInv'
<1> USE DEF send_output
<1>1. PICK cnt, gpos, rpos, opos, back, comp : Path(cnt, gpos, rpos, opos, back, comp)
  BY DEF IInv
<1>2. PICK in : in = cnt[Len(decoded)]
  OBVIOUS
<1>3. PICK q : q = Head(g_InputQueue)
  OBVIOUS
<1>4. PICK words : words = sendOutput(forward(q[3], getRandInput(q[3], q[4][1])))
  OBVIOUS
<1>5. /\ wire \in [{"request", "input", "output", "result"} -> Seq(Nat)]
      /\ g_InputQueue \in Seq(Runs) /\ g_InputQueue # <<>>
      /\ batches \in Seq(Batch) /\ Len(batches) \in Nat
  BY DEF IInv, Types
<1>6. /\ wire'["output"] = wire["output"] \o words
      /\ wire'["input"] = wire["input"] /\ wire'["request"] = wire["request"]
      /\ wire'["result"] = wire["result"]
      /\ wire' = [wire EXCEPT !["output"] = @ \o words]
  BY <1>3, <1>4, <1>5
<1>7. InputStream' = InputStream /\ RequestStream' = RequestStream
  BY <1>6, StreamsKept
<1>8. in \in 0 .. Len(batches)
  <2>1. Counted(cnt) /\ Len(decoded) \in Nat /\ Len(decoded) <= Len(given) /\ Len(given) \in Nat
    BY <1>1, SMTT(40) DEF Path, IInv, Types, Decoding
  <2> QED
    BY <1>2, <2>1 DEF Counted
<1>9. /\ in - comp = Len(g_InputQueue) /\ comp \in 0 .. in
      /\ \A i \in 1 .. in - comp : g_InputQueue[i] = RunOf(batches[comp + i])
  BY <1>1, <1>2 DEF Path, ProcessQueue
<1>10. comp + 1 \in 1 .. Len(batches) /\ comp \in Nat /\ in \in Nat /\ comp + 1 <= in
  <2>1. Len(g_InputQueue) \in Nat /\ Len(g_InputQueue) # 0
    BY <1>5
  <2> QED
    BY <1>5, <1>8, <1>9, <2>1
<1>11. PICK b : b = batches[comp + 1]
  OBVIOUS
<1>12. b \in Batch
  BY <1>5, <1>10, <1>11
<1>13. q = RunOf(b)
  <2>1. 1 \in 1 .. in - comp
    BY <1>10
  <2> QED
    BY <1>3, <1>5, <1>9, <1>11, <2>1
<1>14. words = OutputWords(b)
  <2>1. q[3] = b.model /\ q[4] = b.dims \o InputDims[b.model]
    BY <1>12, <1>13, RunWords
  <2>2. q[4][1] = b.dims[1]
    BY <1>12, <2>1, BatchFacts
  <2>3. forward(b.model, getRandInput(b.model, b.dims[1])) = forward(b.model, b.dims)
    BY <1>12, ForwardFacts
  <2> QED
    BY <1>4, <2>1, <2>2, <2>3 DEF OutputWords
<1>15. words = OutputFrames[comp + 1]
  BY <1>10, <1>11, <1>14 DEF OutputFrames
<1>16. OutputFrames \in Seq(Seq(Nat)) /\ Len(OutputFrames) = Len(batches)
  BY FrameTypes DEF IInv
<1>17. OutputSide(opos, back, comp + 1)'
  <2>1. /\ Offsets(OutputFrames, opos)
        /\ Frames(wire["output"], OutputFrames, opos, back, comp)
        /\ Frames(wire["result"], OutputFrames, opos, Len(results), back)
    BY <1>1 DEF Path, OutputSide
  <2>2. wire["output"] \in Seq(Nat) /\ comp + 1 <= Len(OutputFrames)
    BY <1>5, <1>10, <1>16
  <2>3. Frames(wire["output"] \o OutputFrames[comp + 1], OutputFrames, opos, back, comp + 1)
    BY <1>16, <2>1, <2>2, FrameAppended
  <2>4. Frames(wire'["output"], OutputFrames, opos, back, comp + 1)
    BY <1>6, <1>15, <2>3
  <2>5. OutputFrames' = OutputFrames
    BY FramesUnchanged
  <2> QED
    BY <1>6, <2>1, <2>4, <2>5 DEF OutputSide
<1>18. ProcessQueue(comp + 1, in)'
  <2>1. Len(g_InputQueue') = in - (comp + 1)
    BY <1>5, <1>8, <1>9, <1>10
  <2>2. ASSUME NEW i \in 1 .. in - (comp + 1)
        PROVE  g_InputQueue'[i] = RunOf(batches[comp + 1 + i])
    <3>1. i + 1 \in 1 .. in - comp /\ comp + (i + 1) = comp + 1 + i /\ i \in 1 .. Len(g_InputQueue')
      BY <1>10, <2>1
    <3>2. g_InputQueue'[i] = g_InputQueue[i + 1]
      BY <1>5, <3>1
    <3> QED
      BY <1>9, <3>1, <3>2
  <2>3. comp + 1 \in 0 .. in
    BY <1>10
  <2> QED
    BY <2>1, <2>2, <2>3 DEF ProcessQueue, RunOf
<1>19. /\ Counted(cnt)' /\ InputSide(gpos)' /\ RequestSide(rpos, cnt[Len(given)])'
       /\ BackendQueue(back, cnt[Len(given)])'
  BY <1>1, <1>7, CountedKept, InputKept, RequestKept, BackendKept DEF Path
<1>20. Path(cnt, gpos, rpos, opos, back, comp + 1)'
  BY <1>2, <1>17, <1>18, <1>19 DEF Path
<1>21. Types'
  <2>1. wire["output"] \in Seq(Nat) /\ words \in Seq(Nat)
    BY <1>5, <1>10, <1>15, <1>16
  <2>2. wire["output"] \o words \in Seq(Nat)
    BY <2>1
  <2>3. wire' \in [{"request", "input", "output", "result"} -> Seq(Nat)]
    BY <1>5, <1>6, <2>2
  <2>4. Tail(g_InputQueue) \in Seq(Runs)
    BY <1>5
  <2> QED
    BY <2>3, <2>4 DEF IInv, Types
<1>22. Locks'
  BY DEF IInv, Locks, Closed
<1>23. Decoding' /\ Delivered' /\ FrontendQueue'
  BY DecodingKept, DeliveredKept, FrontendKept DEF IInv
<1> QED
  BY <1>20, <1>21, <1>22, <1>23 DEF IInv

(* What a reader of results finds: the frame of the next batch. *)
LEMMA NextResult ==
    ASSUME Configured, IInv, NEW opos, NEW w, NEW lo, NEW hi, w \in Seq(Nat),
           Offsets(OutputFrames, opos), Frames(w, OutputFrames, opos, lo, hi),
           Len(w) >= 1
    PROVE  /\ lo < hi /\ lo + 1 \in 1 .. Len(batches) /\ batches[lo + 1] \in Batch
           /\ w[1] = Len(forward(batches[lo + 1].model, batches[lo + 1].dims))
           /\ SubSeq(w, 2, 1 + w[1]) = forward(batches[lo + 1].model, batches[lo + 1].dims)
           /\ OutputFrames[lo + 1] = sendOutput(SubSeq(w, 2, 1 + w[1]))
           /\ Rest(w, 1 + w[1]) \in Seq(Nat)
           /\ Frames(Rest(w, 1 + w[1]), OutputFrames, opos, lo + 1, hi)
<1>1. OutputFrames \in Seq(Seq(Nat)) /\ Len(OutputFrames) = Len(batches) /\ Len(batches) \in Nat
  BY FrameTypes DEF IInv
<1>2. lo < hi
  <2>1. w # <<>>
    OBVIOUS
  <2> QED
    BY <1>1, <2>1, FrameThere
<1>3. lo + 1 \in 1 .. Len(batches)
  BY <1>1, <1>2 DEF Frames
<1>4. PICK b : b = batches[lo + 1]
  OBVIOUS
<1>5. b \in Batch
  BY <1>3, <1>4 DEF IInv, Types
<1>6. PICK d : d = forward(b.model, b.dims)
  OBVIOUS
<1>7. d \in Seq(Nat)
  BY <1>5, <1>6, ForwardFacts
<1>8. OutputFrames[lo + 1] = sendOutput(d)
  BY <1>3, <1>4, <1>6 DEF OutputFrames, OutputWords
<1>9. /\ Len(OutputFrames[lo + 1]) <= Len(w)
      /\ \A j \in 1 .. Len(OutputFrames[lo + 1]) : w[j] = OutputFrames[lo + 1][j]
      /\ Rest(w, Len(OutputFrames[lo + 1])) \in Seq(Nat)
      /\ Frames(Rest(w, Len(OutputFrames[lo + 1])), OutputFrames, opos, lo + 1, hi)
  BY <1>1, <1>2, FrameTaken
<1>10. /\ w[1] = Len(d) /\ 1 + w[1] = Len(sendOutput(d)) /\ SubSeq(w, 2, 1 + w[1]) = d
  BY <1>7, <1>8, <1>9, OutputRead
<1> QED
  BY <1>2, <1>3, <1>4, <1>5, <1>6, <1>8, <1>9, <1>10

\* The backend passes on the oldest output, which is that of the batch it awaits.
LEMMA receiveandsendOutputKeeps ==
    ASSUME Configured, IInv, receiveandsendOutput
    PROVE  IInv'
<1> USE DEF receiveandsendOutput
<1>1. PICK cnt, gpos, rpos, opos, back, comp : Path(cnt, gpos, rpos, opos, back, comp)
  BY DEF IInv
<1>2. PICK w : w = wire["output"]
  OBVIOUS
<1>3. PICK dims : dims = SubSeq(w, 2, 1 + w[1])
  OBVIOUS
<1>4. PICK rest : rest = Rest(w, 1 + w[1])
  OBVIOUS
<1>5. /\ wire \in [{"request", "input", "output", "result"} -> Seq(Nat)]
      /\ awaited \in [{"frontend", "backend"} -> Batch \cup {NoBatch}]
      /\ batches \in Seq(Batch) /\ Len(batches) \in Nat
  BY DEF IInv, Types
<1>6. /\ wire' = [wire EXCEPT !["output"] = rest, !["result"] = @ \o sendOutput(dims)]
      /\ wire'["output"] = rest /\ wire'["result"] = wire["result"] \o sendOutput(dims)
      /\ wire'["input"] = wire["input"] /\ wire'["request"] = wire["request"]
  BY <1>2, <1>3, <1>4, <1>5
<1>7. awaited'["backend"] = NoBatch /\ awaited'["frontend"] = awaited["frontend"]
  BY <1>5
<1>8. InputStream' = InputStream /\ RequestStream' = RequestStream
  BY <1>6, StreamsKept
<1>9. /\ Offsets(OutputFrames, opos)
      /\ Frames(w, OutputFrames, opos, back, comp)
      /\ Frames(wire["result"], OutputFrames, opos, Len(results), back)
  BY <1>1, <1>2 DEF Path, OutputSide
<1>10. w \in Seq(Nat) /\ Len(w) >= 1 /\ wire["result"] \in Seq(Nat)
  BY <1>2, <1>5 DEF Arrived
<1>11. /\ back < comp /\ back + 1 \in 1 .. Len(batches) /\ rest \in Seq(Nat)
       /\ OutputFrames[back + 1] = sendOutput(dims)
       /\ Frames(rest, OutputFrames, opos, back + 1, comp)
  BY <1>3, <1>4, <1>9, <1>10, NextResult
<1>12. OutputFrames \in Seq(Seq(Nat)) /\ Len(OutputFrames) = Len(batches)
  BY FrameTypes DEF IInv
<1>13. OutputSide(opos, back + 1, comp)'
  <2>1. back + 1 <= Len(OutputFrames)
    BY <1>5, <1>11, <1>12
  <2>2. Frames(wire["result"] \o OutputFrames[back + 1], OutputFrames, opos, Len(results), back + 1)
    BY <1>9, <1>10, <1>12, <2>1, FrameAppended
  <2>3. Frames(wire'["result"], OutputFrames, opos, Len(results), back + 1)
    BY <1>6, <1>11, <2>2
  <2>4. OutputFrames' = OutputFrames
    BY FramesUnchanged
  <2> QED
    BY <1>6, <1>9, <1>11, <2>3, <2>4 DEF OutputSide
<1>14. BackendQueue(back + 1, cnt[Len(given)])'
  <2>1. PICK rel : rel = cnt[Len(given)]
    OBVIOUS
  <2>2. PICK popped, queued :
            /\ popped \in 0 .. Len(batches) /\ queued \in 0 .. Len(batches)
            /\ Window(MapProxytoOutputQueue, batches, popped, queued)
            /\ back \in 0 .. popped
            /\ IF awaited["backend"] = NoBatch THEN popped = back
               ELSE popped = back + 1 /\ awaited["backend"] = batches[popped]
            /\ IF relayed = NoBatch THEN queued = rel
               ELSE rel = queued + 1 /\ relayed = batches[rel]
    BY <1>1, <2>1 DEF Path, BackendQueue
  <2>3. popped = back + 1 /\ back + 1 \in 0 .. popped
    BY <2>2
  <2>4. BackendQueue(back + 1, rel)'
    BY <1>7, <2>2, <2>3 DEF BackendQueue
  <2> QED
    BY <2>1, <2>4
<1>15. /\ Counted(cnt)' /\ InputSide(gpos)' /\ RequestSide(rpos, cnt[Len(given)])'
       /\ ProcessQueue(comp, cnt[Len(decoded)])'
  BY <1>1, <1>8, CountedKept, InputKept, RequestKept, ProcessKept DEF Path
<1>16. Path(cnt, gpos, rpos, opos, back + 1, comp)'
  BY <1>13, <1>14, <1>15 DEF Path
<1>17. Types'
  <2>1. sendOutput(dims) \in Seq(Nat)
    BY <1>11, <1>12
  <2>2. wire["result"] \o sendOutput(dims) \in Seq(Nat)
    BY <1>10, <2>1
  <2>3. wire' \in [{"request", "input", "output", "result"} -> Seq(Nat)]
    BY <1>5, <1>6, <1>11, <2>2
  <2>4. awaited' \in [{"frontend", "backend"} -> Batch \cup {NoBatch}]
    BY <1>5
  <2> QED
    BY <2>3, <2>4 DEF IInv, Types
<1>18. Locks'
  BY DEF IInv, Locks, Closed
<1>19. Decoding' /\ Delivered' /\ FrontendQueue'
  BY <1>7, DecodingKept, DeliveredKept, FrontendKept DEF IInv
<1> QED
  BY <1>16, <1>17, <1>18, <1>19 DEF IInv

\* The frontend reads the oldest result, which is that of the batch it awaits.
LEMMA recvResultKeeps ==
    ASSUME Configured, IInv, recvResult
    PROVE  IInv'
<1> USE DEF recvResult
<1>1. PICK cnt, gpos, rpos, opos, back, comp : Path(cnt, gpos, rpos, opos, back, comp)
  BY DEF IInv
<1>2. PICK w : w = wire["result"]
  OBVIOUS
<1>3. PICK dims : dims = SubSeq(w, 2, 1 + w[1])
  OBVIOUS
<1>4. PICK rest : rest = Rest(w, 1 + w[1])
  OBVIOUS
<1>5. /\ wire \in [{"request", "input", "output", "result"} -> Seq(Nat)]
      /\ awaited \in [{"frontend", "backend"} -> Batch \cup {NoBatch}]
      /\ batches \in Seq(Batch) /\ Len(batches) \in Nat
      /\ results \in Seq([batch : Batch, dims : Seq(Nat)]) /\ Len(results) \in Nat
  BY SMTT(40) DEF IInv, Types
<1>6. /\ wire' = [wire EXCEPT !["result"] = rest]
      /\ wire'["output"] = wire["output"] /\ wire'["result"] = rest
      /\ wire'["input"] = wire["input"] /\ wire'["request"] = wire["request"]
  BY <1>2, <1>4, <1>5
<1>7. awaited'["frontend"] = NoBatch /\ awaited'["backend"] = awaited["backend"]
  BY <1>5
<1>8. InputStream' = InputStream /\ RequestStream' = RequestStream
  BY <1>6, StreamsKept
<1>9. /\ Offsets(OutputFrames, opos)
      /\ Frames(w, OutputFrames, opos, Len(results), back)
      /\ Frames(wire["output"], OutputFrames, opos, back, comp)
  BY <1>1, <1>2 DEF Path, OutputSide
<1>10. w \in Seq(Nat) /\ Len(w) >= 1
  BY <1>2, <1>5 DEF Arrived
<1>11. PICK n : n = Len(results)
  OBVIOUS
<1>12. PICK b : b = batches[n + 1]
  OBVIOUS
<1>13. /\ n < back /\ n + 1 \in 1 .. Len(batches) /\ rest \in Seq(Nat) /\ b \in Batch
       /\ dims = forward(b.model, b.dims)
       /\ Frames(rest, OutputFrames, opos, n + 1, back)
  <2>1. Frames(w, OutputFrames, opos, n, back) /\ Offsets(OutputFrames, opos)
    BY <1>9, <1>11
  <2>2. /\ n < back /\ n + 1 \in 1 .. Len(batches) /\ batches[n + 1] \in Batch
        /\ Rest(w, 1 + w[1]) \in Seq(Nat)
        /\ SubSeq(w, 2, 1 + w[1]) = forward(batches[n + 1].model, batches[n + 1].dims)
        /\ Frames(Rest(w, 1 + w[1]), OutputFrames, opos, n + 1, back)
    BY <1>10, <2>1, NextResult
  <2> QED
    BY <1>3, <1>4, <1>12, <2>2
<1>14. PICK popped :
            /\ popped \in 0 .. Len(batches)
            /\ Window(PerProxyOutputQueue, batches, popped, Len(batches))
            /\ IF awaited["frontend"] = NoBatch THEN popped = Len(results)
               ELSE popped = Len(results) + 1 /\ awaited["frontend"] = batches[popped]
  BY DEF IInv, FrontendQueue
<1>15. popped = n + 1 /\ awaited["frontend"] = b
  BY <1>11, <1>12, <1>14
<1>16. results' = Append(results, [batch |-> b, dims |-> dims])
  BY <1>2, <1>3, <1>15
<1>17. [batch |-> b, dims |-> dims] \in [batch : Batch, dims : Seq(Nat)]
  <2>1. dims \in Seq(Nat)
    BY <1>13, ForwardFacts
  <2> QED
    BY <1>13, <2>1
<1>18. /\ results' \in Seq([batch : Batch, dims : Seq(Nat)]) /\ Len(results') = n + 1
       /\ results'[n + 1] = [batch |-> b, dims |-> dims]
       /\ \A i \in 1 .. n : results'[i] = results[i]
  <2>1. PICK S : S = [batch : Batch, dims : Seq(Nat)]
    OBVIOUS
  <2>2. PICK r : r = [batch |-> b, dims |-> dims]
    OBVIOUS
  <2>3. results \in Seq(S) /\ r \in S /\ results' = Append(results, r) /\ Len(results) = n
    BY <1>5, <1>11, <1>16, <1>17, <2>1, <2>2
  <2>4. /\ results' \in Seq(S) /\ Len(results') = n + 1 /\ results'[n + 1] = r
        /\ \A i \in 1 .. n : results'[i] = results[i]
    BY <2>3
  <2> QED
    BY <2>1, <2>2, <2>4
<1>19. OutputSide(opos, back, comp)'
  <2>1. OutputFrames' = OutputFrames
    BY FramesUnchanged
  <2> QED
    BY <1>6, <1>9, <1>13, <1>18, <2>1 DEF OutputSide
<1>20. FrontendQueue'
  BY <1>7, <1>14, <1>15, <1>18 DEF FrontendQueue
<1>21. Delivered'
  <2>1. ASSUME NEW i \in 1 .. n + 1
        PROVE  /\ i <= Len(batches)
               /\ results'[i].batch = batches[i]
               /\ results'[i].dims = forward(batches[i].model, batches[i].dims)
    <3>1. CASE i = n + 1
      <4>1. results'[i].batch = b /\ results'[i].dims = dims
        BY <1>18, <3>1
      <4>2. i <= Len(batches) /\ batches[i] = b
        BY <1>5, <1>12, <1>13, <3>1
      <4> QED
        BY <1>13, <4>1, <4>2
    <3>2. CASE i # n + 1
      <4>1. i \in 1 .. n
        BY <1>5, <1>11, <3>2
      <4> QED
        BY <1>11, <1>18, <4>1 DEF IInv, Delivered
    <3> QED
      BY <3>1, <3>2
  <2> QED
    BY <1>18, <2>1 DEF Delivered
<1>22. /\ Counted(cnt)' /\ InputSide(gpos)' /\ RequestSide(rpos, cnt[Len(given)])'
       /\ ProcessQueue(comp, cnt[Len(decoded)])' /\ BackendQueue(back, cnt[Len(given)])'
  BY <1>1, <1>7, <1>8, CountedKept, InputKept, RequestKept, ProcessKept, BackendKept DEF Path
<1>23. Path(cnt, gpos, rpos, opos, back, comp)'
  BY <1>19, <1>22 DEF Path
<1>24. Types'
  <2>1. wire' \in [{"request", "input", "output", "result"} -> Seq(Nat)]
    BY <1>5, <1>6, <1>13
  <2>2. awaited' \in [{"frontend", "backend"} -> Batch \cup {NoBatch}]
    BY <1>5
  <2> QED
    BY <1>18, <2>1, <2>2 DEF IInv, Types
<1>25. Locks'
  BY DEF IInv, Locks, Closed
<1>26. Decoding'
  BY DecodingKept DEF IInv
<1> QED
  BY <1>20, <1>21, <1>23, <1>24, <1>25, <1>26 DEF IInv

(* What is read of the words that have arrived is read of the stream. *)
LEMMA RestJoined ==
    ASSUME NEW w, NEW u, w \in Seq(Nat), u \in Seq(Nat), NEW k, k \in Nat, k <= Len(w)
    PROVE  Rest(w, k) \in Seq(Nat) /\ Rest(w, k) \o u = Rest(w \o u, k)
<1>1. Len(w) \in Nat /\ Len(u) \in Nat /\ Len(w \o u) = Len(w) + Len(u) /\ w \o u \in Seq(Nat)
  BY Joined, Zenon
<1>2. PICK n : n = Len(w)
  OBVIOUS
<1>3. PICK m : m = Len(u)
  OBVIOUS
<1>4. PICK s : s = w \o u
  OBVIOUS
<1>5. n \in Nat /\ m \in Nat /\ Len(s) = n + m /\ s \in Seq(Nat) /\ k <= n
  BY <1>1, <1>2, <1>3, <1>4
<1>6. PICK r : r = Rest(w, k)
  OBVIOUS
<1>7. PICK t : t = Rest(s, k)
  OBVIOUS
<1>8. r \in Seq(Nat) /\ Len(r) = n - k /\ \A i \in 1 .. n - k : r[i] = w[k + i]
  <2>1. \A i \in k + 1 .. n : w[i] \in Nat
    <3> TAKE i \in k + 1 .. n
    <3>1. i \in 1 .. Len(w)
      BY <1>2, <1>5
    <3> QED
      BY <3>1
  <2>2. r = SubSeq(w, k + 1, n)
    BY <1>2, <1>6 DEF Rest
  <2>3. /\ r \in Seq(Nat) /\ Len(r) = IF k + 1 <= n THEN n - (k + 1) + 1 ELSE 0
        /\ \A i \in 1 .. n - (k + 1) + 1 : r[i] = w[k + 1 + i - 1]
    BY <1>5, <2>1, <2>2, SubSeqProperties, k + 1 \in Int, n \in Int
  <2>4. n - (k + 1) + 1 = n - k /\ \A i \in 1 .. n - k : k + 1 + i - 1 = k + i
    BY <1>5
  <2> QED
    BY <1>5, <2>3, <2>4
<1>9. t \in Seq(Nat) /\ Len(t) = n + m - k /\ \A i \in 1 .. n + m - k : t[i] = s[k + i]
  <2>1. \A i \in k + 1 .. n + m : s[i] \in Nat
    <3> TAKE i \in k + 1 .. n + m
    <3>1. i \in 1 .. Len(s)
      BY <1>5
    <3> QED
      BY <1>5, <3>1
  <2>2. t = SubSeq(s, k + 1, n + m)
    BY <1>5, <1>7 DEF Rest
  <2>3. /\ t \in Seq(Nat) /\ Len(t) = IF k + 1 <= n + m THEN n + m - (k + 1) + 1 ELSE 0
        /\ \A i \in 1 .. n + m - (k + 1) + 1 : t[i] = s[k + 1 + i - 1]
    BY <1>5, <2>1, <2>2, SubSeqProperties, k + 1 \in Int, n + m \in Int
  <2>4. n + m - (k + 1) + 1 = n + m - k /\ \A i \in 1 .. n + m - k : k + 1 + i - 1 = k + i
    BY <1>5
  <2> QED
    BY <1>5, <2>3, <2>4
<1>10. r \o u \in Seq(Nat) /\ Len(r \o u) = n + m - k
  <2>1. r \o u \in Seq(Nat) /\ Len(r \o u) = Len(r) + Len(u)
    BY <1>8, Joined, Zenon
  <2> QED
    BY <1>3, <1>5, <1>8, <2>1
<1>11. ASSUME NEW i \in 1 .. n + m - k PROVE (r \o u)[i] = t[i]
  <2>1. t[i] = s[k + i]
    BY <1>9
  <2>2. CASE i <= n - k
    <3>1. i \in 1 .. n - k /\ i \in 1 .. Len(r) /\ k + i \in 1 .. n
      BY <1>5, <1>8, <2>2
    <3>2. (r \o u)[i] = r[i]
      BY <1>8, <3>1, JoinedFirst
    <3>3. s[k + i] = w[k + i]
      BY <1>2, <1>4, <3>1, JoinedFirst
    <3> QED
      BY <1>8, <2>1, <3>1, <3>2, <3>3
  <2>3. CASE i > n - k
    <3>1. PICK j : j = i - (n - k)
      OBVIOUS
    <3>2. j \in 1 .. m /\ i = n - k + j /\ k + i = n + j
      BY <1>5, <2>3, <3>1
    <3>3. (r \o u)[n - k + j] = u[j]
      <4>1. j \in 1 .. Len(u) /\ r \in Seq(Nat)
        BY <1>3, <1>8, <3>2
      <4>2. (r \o u)[Len(r) + j] = u[j]
        BY <4>1, JoinedThen
      <4> QED
        BY <1>8, <4>2
    <3>4. s[n + j] = u[j]
      <4>1. j \in 1 .. Len(u)
        BY <1>3, <3>2
      <4>2. (w \o u)[Len(w) + j] = u[j]
        BY <4>1, JoinedThen
      <4> QED
        BY <1>2, <1>4, <4>2
    <3> QED
      BY <2>1, <3>2, <3>3, <3>4
  <2>4. i <= n - k \/ i > n - k
    BY <1>5
  <2> QED
    BY <2>2, <2>3, <2>4
<1>12. r \o u = t
  <2>1. PICK v : v = r \o u
    OBVIOUS
  <2>2. v \in Seq(Nat) /\ Len(v) = Len(t) /\ \A i \in 1 .. Len(v) : v[i] = t[i]
    BY <1>9, <1>10, <1>11, <2>1
  <2> QED
    BY <1>9, <2>1, <2>2, SeqEqual
<1> QED
  BY <1>4, <1>6, <1>7, <1>8, <1>12

(* Every message has a first word. *)
LEMMA FirstWord ==
    ASSUME Configured, NEW g, g \in Messages
    PROVE  Len(MessageWords(g)) >= 1 /\ Len(MessageWords(g)) \in Nat
<1>1. CASE g \in Runs
  <2>1. PICK b \in Batch : g = RunOf(b)
    BY <1>1 DEF Runs
  <2>2. PICK d : d = b.dims \o InputDims[b.model]
    OBVIOUS
  <2>3. d \in Seq(Nat) /\ Len(d) \in 1 .. 4 /\ b.rid \in Nat /\ b.model \in Nat
    BY <2>2, BatchFacts
  <2>4. Len(sendRequest(b.rid, b.model, d)) = Len(d) + 3
    <3>1. PICK r, m : r = b.rid /\ m = b.model
      OBVIOUS
    <3>2. r \in Nat /\ m \in Nat /\ d \in Seq(Nat)
      BY <2>3, <3>1
    <3>3. Len(sendRequest(r, m, d)) = Len(d) + 3
      BY <3>2, RunFrame
    <3> QED
      BY <3>1, <3>3
  <2>5. MessageWords(g) = sendRequest(b.rid, b.model, d)
    BY <2>1, <2>2, RunWords
  <2> QED
    BY <2>3, <2>4, <2>5
<1>2. CASE g \in Controls
  <2>1. CASE \E m \in ModelIds, b \in Nat : g = Load(m, b)
    <3>1. PICK m \in ModelIds, b \in Nat : MessageWords(g) = <<LOAD_MODEL, m, b>>
      BY <2>1 DEF MessageWords, LoadWords, Load
    <3> QED
      BY <3>1
  <2>2. CASE \E m \in ModelIds : g = Unload(m)
    <3>1. PICK m \in ModelIds : MessageWords(g) = <<UNLOAD_MODEL, m>>
      BY <2>2 DEF MessageWords, UnloadWords, Unload
    <3> QED
      BY <3>1
  <2>3. CASE g = Close
    <3>1. MessageWords(g) = <<CLOSE_SOCKET>>
      BY <2>3 DEF MessageWords, Close
    <3> QED
      BY <3>1
  <2> QED
    BY <1>2, <2>1, <2>2, <2>3 DEF Controls
<1> QED
  BY <1>1, <1>2 DEF Messages

(* What recvInput finds on the socket: the next message that was given. *)
LEMMA NextMessage ==
    ASSUME Configured, IInv, NEW gpos, InputSide(gpos),
           Arrived("input", 1), Arrived("input", Length(wire["input"]))
    PROVE  /\ Len(decoded) < Len(given) /\ Len(decoded) + 1 \in 1 .. Len(given)
           /\ Decode(wire["input"]) = given[Len(decoded) + 1]
           /\ Rest(wire["input"], Length(wire["input"])) \in Seq(Nat)
           /\ Frames(Rest(wire["input"], Length(wire["input"]))
                       \o (todo["data"] \o todo["control"]),
                     GivenFrames, gpos, Len(decoded) + 1, Len(given))
<1>1. PICK w : w = wire["input"]
  OBVIOUS
<1>2. PICK u : u = todo["data"] \o todo["control"]
  OBVIOUS
<1>3. PICK lo : lo = Len(decoded)
  OBVIOUS
<1>4. PICK hi : hi = Len(given)
  OBVIOUS
<1>5. w \in Seq(Nat) /\ u \in Seq(Nat)
  <2>1. "data" \in Writers /\ "control" \in Writers
    BY DEF Writers
  <2> QED
    BY <1>1, <1>2, <2>1 DEF IInv, Types
<1>6. GivenFrames \in Seq(Seq(Nat)) /\ Len(GivenFrames) = hi /\ hi \in Nat /\ lo \in Nat
  BY <1>3, <1>4, FrameTypes DEF IInv
<1>7. Offsets(GivenFrames, gpos) /\ Frames(w \o u, GivenFrames, gpos, lo, hi)
  BY <1>1, <1>2, <1>3, <1>4 DEF InputSide, InputStream
<1>8. Len(w) >= 1 /\ Len(w) >= Length(w)
  BY <1>1 DEF Arrived
<1>9. PICK s : s = w \o u
  OBVIOUS
<1>10. s \in Seq(Nat) /\ Len(s) = Len(w) + Len(u) /\ Len(w) \in Nat /\ Len(u) \in Nat
  BY <1>5, <1>9, Joined
<1>11. s # <<>>
  BY <1>8, <1>10
<1>12. lo < hi
  BY <1>6, <1>7, <1>9, <1>10, <1>11, FrameThere
<1>13. PICK f : f = GivenFrames[lo + 1]
  OBVIOUS
<1>14. /\ Len(f) \in Nat /\ Len(f) <= Len(s)
       /\ \A j \in 1 .. Len(f) : s[j] = f[j]
       /\ Frames(Rest(s, Len(f)), GivenFrames, gpos, lo + 1, hi)
  <2>1. /\ Offsets(GivenFrames, gpos) /\ Frames(s, GivenFrames, gpos, lo, hi)
        /\ s \in Seq(Nat) /\ GivenFrames \in Seq(Seq(Nat)) /\ lo < hi
    BY <1>6, <1>7, <1>9, <1>10, <1>12
  <2>2. /\ Len(GivenFrames[lo + 1]) \in Nat /\ Len(GivenFrames[lo + 1]) <= Len(s)
        /\ \A j \in 1 .. Len(GivenFrames[lo + 1]) : s[j] = GivenFrames[lo + 1][j]
        /\ Frames(Rest(s, Len(GivenFrames[lo + 1])), GivenFrames, gpos, lo + 1, hi)
    BY <2>1, FrameTaken
  <2> QED
    BY <1>13, <2>2
<1>15. PICK g : g = given[lo + 1]
  OBVIOUS
<1>16. lo + 1 \in 1 .. hi /\ lo + 1 \in 1 .. Len(given)
  BY <1>4, <1>6, <1>12
<1>17. g \in Messages /\ f = MessageWords(g)
  BY <1>13, <1>15, <1>16 DEF IInv, Types, GivenFrames
<1>18. Len(f) >= 1
  BY <1>17, FirstWord
<1>19. \A j \in 1 .. Len(w) : s[j] = w[j]
  BY <1>5, <1>9, JoinedFirst
<1>20. w[1] = f[1]
  <2>1. 1 \in 1 .. Len(f) /\ 1 \in 1 .. Len(w)
    BY <1>8, <1>10, <1>14, <1>18
  <2> QED
    BY <1>14, <1>19, <2>1
<1>21. /\ Length(w) = Len(f)
       /\ \/ Len(f) > Len(w)
          \/ \E j \in 1 .. Len(f) : w[j] # f[j]
          \/ Decode(w) = g
  <2>1. CASE g \in Runs
    <3>1. PICK b \in Batch : g = RunOf(b)
      BY <2>1 DEF Runs
    <3> QED
      BY <1>5, <1>17, <1>20, <3>1, RunRead
  <2>2. CASE g \in Controls
    BY <1>5, <1>17, <1>20, <2>2, ControlRead
  <2> QED
    BY <1>17, <2>1, <2>2 DEF Messages
<1>22. Len(f) <= Len(w) /\ ~(Len(f) > Len(w))
  BY <1>8, <1>10, <1>14, <1>21
<1>23. \A j \in 1 .. Len(f) : w[j] = f[j]
  <2> TAKE j \in 1 .. Len(f)
  <2>1. j \in 1 .. Len(w)
    BY <1>10, <1>14, <1>22
  <2> QED
    BY <1>14, <1>19, <2>1
<1>24. Decode(w) = g
  BY <1>21, <1>22, <1>23
<1>25. Rest(w, Len(f)) \in Seq(Nat) /\ Rest(w, Len(f)) \o u = Rest(s, Len(f))
  BY <1>5, <1>9, <1>14, <1>22, RestJoined
<1>26. Frames(Rest(w, Length(w)) \o u, GivenFrames, gpos, lo + 1, hi)
  BY <1>14, <1>21, <1>25
<1> QED
  BY <1>1, <1>2, <1>3, <1>4, <1>12, <1>15, <1>16, <1>21, <1>24, <1>25, <1>26

\* The process reads one whole frame, which is that of the next message given.
LEMMA recvInputKeeps ==
    ASSUME Configured, IInv, recvInput
    PROVE  IInv'
<1> USE DEF recvInput
<1>1. PICK cnt, gpos, rpos, opos, back, comp : Path(cnt, gpos, rpos, opos, back, comp)
  BY DEF IInv
<1>2. PICK w : w = wire["input"]
  OBVIOUS
<1>3. PICK lo : lo = Len(decoded)
  OBVIOUS
<1>4. PICK g : g = given[lo + 1]
  OBVIOUS
<1>5. PICK rest : rest = Rest(w, Length(w))
  OBVIOUS
<1>6. /\ wire \in [{"request", "input", "output", "result"} -> Seq(Nat)]
      /\ g_InputQueue \in Seq(Runs) /\ decoded \in Seq(Messages) /\ given \in Seq(Messages)
      /\ Len(given) \in Nat /\ lo \in Nat /\ batches \in Seq(Batch) /\ Len(batches) \in Nat
  BY <1>3 DEF IInv, Types
<1>7. /\ lo < Len(given) /\ lo + 1 \in 1 .. Len(given)
      /\ Decode(w) = g /\ rest \in Seq(Nat)
      /\ Frames(rest \o (todo["data"] \o todo["control"]), GivenFrames, gpos, lo + 1, Len(given))
  BY <1>1, <1>2, <1>3, <1>4, <1>5, NextMessage DEF Path
<1>8. /\ wire' = [wire EXCEPT !["input"] = rest]
      /\ wire'["input"] = rest /\ wire'["request"] = wire["request"]
      /\ wire'["output"] = wire["output"] /\ wire'["result"] = wire["result"]
  BY <1>2, <1>5, <1>6
<1>9. /\ decoded' = Append(decoded, g)
      /\ g_InputQueue' = IF g[1] = "RUN" THEN Append(g_InputQueue, g) ELSE g_InputQueue
  BY <1>2, <1>7
<1>10. g \in Messages
  BY <1>4, <1>6, <1>7
<1>11. /\ decoded' \in Seq(Messages) /\ Len(decoded') = lo + 1
       /\ decoded'[lo + 1] = g /\ \A i \in 1 .. lo : decoded'[i] = decoded[i]
  BY <1>3, <1>6, <1>9, <1>10
<1>12. InputSide(gpos)'
  <2>1. InputStream' = rest \o (todo["data"] \o todo["control"])
    BY <1>8 DEF InputStream
  <2>2. GivenFrames' = GivenFrames
    BY FramesUnchanged
  <2>3. Offsets(GivenFrames, gpos)
    BY <1>1 DEF Path, InputSide
  <2> QED
    BY <1>7, <1>11, <2>1, <2>2, <2>3 DEF InputSide
<1>13. Decoding'
  <2>1. ASSUME NEW i \in 1 .. lo + 1 PROVE decoded'[i] = given[i]
    <3>1. CASE i = lo + 1
      BY <1>4, <1>11, <3>1
    <3>2. CASE i # lo + 1
      <4>1. i \in 1 .. lo
        BY <1>6, <3>2
      <4> QED
        BY <1>3, <1>11, <4>1 DEF IInv, Decoding
    <3> QED
      BY <3>1, <3>2
  <2>2. lo + 1 <= Len(given)
    BY <1>6, <1>7
  <2> QED
    BY <1>11, <2>1, <2>2 DEF Decoding
<1>14. PICK in : in = cnt[lo]
  OBVIOUS
<1>15. PICK next : next = cnt[lo + 1]
  OBVIOUS
<1>16. /\ in \in Nat /\ next \in 0 .. Len(batches)
       /\ \/ g \in Runs /\ next = in + 1 /\ g = RunOf(batches[next])
          \/ g \in Controls /\ next = in
  <2>1. lo + 1 - 1 = lo /\ lo \in 0 .. Len(given) /\ lo + 1 \in 0 .. Len(given)
    BY <1>6, <1>7
  <2>2. Counted(cnt)
    BY <1>1 DEF Path
  <2>3. cnt[lo] \in 0 .. Len(batches) /\ cnt[lo + 1] \in 0 .. Len(batches)
    BY <2>1, <2>2 DEF Counted
  <2>4. \/ /\ given[lo + 1] \in Runs /\ cnt[lo + 1] = cnt[lo] + 1
           /\ given[lo + 1] = RunOf(batches[cnt[lo + 1]])
        \/ given[lo + 1] \in Controls /\ cnt[lo + 1] = cnt[lo]
    BY <1>7, <2>1, <2>2 DEF Counted
  <2> QED
    BY <1>4, <1>6, <1>14, <1>15, <2>3, <2>4
<1>17. /\ in - comp = Len(g_InputQueue) /\ comp \in 0 .. in
       /\ \A i \in 1 .. in - comp : g_InputQueue[i] = RunOf(batches[comp + i])
  BY <1>1, <1>3, <1>14 DEF Path, ProcessQueue
<1>18. ProcessQueue(comp, next)' /\ g_InputQueue' \in Seq(Runs)
  <2>1. CASE g \in Controls /\ next = in
    <3>1. g[1] # "RUN"
      BY <2>1, ControlWords
    <3>2. g_InputQueue' = g_InputQueue
      BY <1>9, <3>1
    <3> QED
      BY <1>6, <1>17, <2>1, <3>2 DEF ProcessQueue, RunOf
  <2>2. CASE g \in Runs /\ next = in + 1 /\ g = RunOf(batches[next])
    <3>1. g[1] = "RUN"
      BY <2>2, RunKind
    <3>2. PICK n : n = Len(g_InputQueue)
      OBVIOUS
    <3>3. /\ g_InputQueue' \in Seq(Runs) /\ Len(g_InputQueue') = n + 1 /\ n \in Nat
          /\ g_InputQueue'[n + 1] = g /\ \A i \in 1 .. n : g_InputQueue'[i] = g_InputQueue[i]
      BY <1>6, <1>9, <2>2, <3>1, <3>2
    <3>4. next - comp = n + 1 /\ comp \in 0 .. next /\ comp + (n + 1) = next /\ in - comp = n
      BY <1>16, <1>17, <2>2, <3>2, <3>3
    <3>5. ASSUME NEW i \in 1 .. n + 1 PROVE g_InputQueue'[i] = RunOf(batches[comp + i])
      <4>1. CASE i = n + 1
        BY <2>2, <3>3, <3>4, <4>1
      <4>2. CASE i # n + 1
        <5>1. i \in 1 .. n
          BY <3>3, <4>2
        <5> QED
          BY <1>17, <3>3, <3>4, <5>1
      <4> QED
        BY <4>1, <4>2
    <3> QED
      BY <3>3, <3>4, <3>5 DEF ProcessQueue, RunOf
  <2> QED
    BY <1>16, <2>1, <2>2
<1>19. RequestStream' = RequestStream
  BY <1>8 DEF RequestStream, Holding
<1>20. /\ Counted(cnt)' /\ RequestSide(rpos, cnt[Len(given)])'
       /\ OutputSide(opos, back, comp)' /\ BackendQueue(back, cnt[Len(given)])'
  BY <1>1, <1>8, <1>19, CountedKept, RequestKept, OutputKept, BackendKept DEF Path
<1>21. ProcessQueue(comp, cnt[Len(decoded)])'
  BY <1>11, <1>15, <1>18
<1>22. Path(cnt, gpos, rpos, opos, back, comp)'
  BY <1>12, <1>20, <1>21 DEF Path
<1>23. Types'
  <2>1. wire' \in [{"request", "input", "output", "result"} -> Seq(Nat)]
    BY <1>6, <1>7, <1>8
  <2> QED
    BY <1>11, <1>18, <2>1 DEF IInv, Types
<1>24. Locks'
  BY DEF IInv, Locks, Closed
<1>25. Delivered' /\ FrontendQueue'
  BY DeliveredKept, FrontendKept DEF IInv
<1> QED
  BY <1>13, <1>22, <1>23, <1>24, <1>25 DEF IInv

-----------------------------------------------------------------------------
(* A message is given: its words follow those already on the way. *)
LEMMA InputGiven ==
    ASSUME Configured, IInv, NEW gpos, InputSide(gpos), NEW g, g \in Messages,
           MessageWords(g) \in Seq(Nat),
           given' = Append(given, g), decoded' = decoded,
           InputStream' = InputStream \o MessageWords(g)
    PROVE  \E more : InputSide(more)'
<1>1. PICK F : F = GivenFrames
  OBVIOUS
<1>2. PICK f : f = MessageWords(g)
  OBVIOUS
<1>3. PICK n : n = Len(given)
  OBVIOUS
<1>4. PICK s : s = InputStream
  OBVIOUS
<1>5. /\ F \in Seq(Seq(Nat)) /\ Len(F) = n /\ n \in Nat /\ f \in Seq(Nat)
      /\ given \in Seq(Messages)
  BY <1>1, <1>2, <1>3, FrameTypes DEF IInv, Types
<1>6. s \in Seq(Nat)
  <2>1. "data" \in Writers /\ "control" \in Writers
    BY DEF Writers
  <2> QED
    BY <1>4, <2>1 DEF InputStream, IInv, Types
<1>7. GivenFrames' = Append(F, f) /\ Len(given') = n + 1
  BY <1>1, <1>2, <1>3, <1>5, GivenFramesAppended
<1>8. Offsets(F, gpos) /\ Frames(s, F, gpos, Len(decoded), n)
  BY <1>1, <1>3, <1>4 DEF InputSide
<1>9. PICK more :
          /\ Offsets(Append(F, f), more)
          /\ \A w, lo, hi : Frames(w, F, gpos, lo, hi) =>
                                Frames(w, Append(F, f), more, lo, hi)
  BY <1>5, <1>8, OffsetsExtended
<1>10. PICK G : G = Append(F, f)
  OBVIOUS
<1>11. G \in Seq(Seq(Nat)) /\ Len(G) = n + 1 /\ G[n + 1] = f
  BY <1>5, <1>10
<1>12. Frames(s, G, more, Len(decoded), n) /\ Offsets(G, more)
  BY <1>8, <1>9, <1>10
<1>13. Frames(s \o G[n + 1], G, more, Len(decoded), n + 1)
  <2>1. n + 1 <= Len(G)
    BY <1>5, <1>11
  <2> QED
    BY <1>6, <1>11, <1>12, <2>1, FrameAppended
<1>14. Frames(InputStream', GivenFrames', more, Len(decoded'), Len(given'))
  BY <1>2, <1>4, <1>7, <1>10, <1>11, <1>13
<1>15. InputSide(more)'
  BY <1>7, <1>10, <1>12, <1>14 DEF InputSide
<1> QED
  BY <1>15

(* A command is not counted, a batch is. *)
LEMMA CountedGiven ==
    ASSUME Configured, IInv, NEW cnt, Counted(cnt), NEW g, given' = Append(given, g),
           batches' = batches, NEW next,
           \/ g \in Controls /\ next = cnt[Len(given)]
           \/ /\ g \in Runs /\ next = cnt[Len(given)] + 1 /\ next <= Len(batches)
              /\ g = RunOf(batches[next])
    PROVE  \E more : /\ Counted(more)' /\ more[Len(given')] = next
                     /\ more[Len(decoded)] = cnt[Len(decoded)]
<1>1. PICK n : n = Len(given)
  OBVIOUS
<1>2. PICK m : m = Len(batches)
  OBVIOUS
<1>3. PICK last : last = cnt[n]
  OBVIOUS
<1>4. given \in Seq(Messages) /\ n \in Nat /\ m \in Nat /\ Len(decoded) \in 0 .. n
  BY <1>1, <1>2 DEF IInv, Types, Decoding
<1>5. g \in Messages
  BY DEF Messages
<1>6. /\ Len(given') = n + 1 /\ given'[n + 1] = g /\ \A i \in 1 .. n : given'[i] = given[i]
  BY <1>1, <1>4, <1>5
<1>7. /\ cnt \in [0 .. n -> 0 .. m] /\ cnt[0] = 0
      /\ \A i \in 1 .. n :
          \/ /\ given[i] \in Runs /\ cnt[i] = cnt[i - 1] + 1
             /\ given[i] = RunOf(batches[cnt[i]])
          \/ given[i] \in Controls /\ cnt[i] = cnt[i - 1]
      /\ \A i, k \in 0 .. n : i <= k => cnt[i] <= cnt[k]
  BY <1>1, <1>2 DEF Counted
<1>8. n \in 0 .. n /\ last \in 0 .. m /\ \A i \in 0 .. n : cnt[i] <= last /\ cnt[i] \in 0 .. m
  BY <1>3, <1>4, <1>7
<1>9. next \in 0 .. m /\ last <= next
  <2>1. last = cnt[Len(given)]
    BY <1>1, <1>3
  <2> QED
    BY <1>2, <1>4, <1>8, <2>1
<1>10. PICK more : more = [i \in 0 .. n + 1 |-> IF i = n + 1 THEN next ELSE cnt[i]]
  OBVIOUS
<1>11. /\ more[n + 1] = next /\ \A i \in 0 .. n : more[i] = cnt[i]
       /\ more \in [0 .. n + 1 -> 0 .. m]
  BY <1>4, <1>8, <1>9, <1>10
<1>12. \A i \in 1 .. n + 1 :
          \/ /\ given'[i] \in Runs /\ more[i] = more[i - 1] + 1
             /\ given'[i] = RunOf(batches[more[i]])
          \/ given'[i] \in Controls /\ more[i] = more[i - 1]
  <2> TAKE i \in 1 .. n + 1
  <2>1. CASE i = n + 1
    <3>1. i - 1 = n /\ more[i - 1] = last /\ more[i] = next /\ given'[i] = g
      BY <1>3, <1>4, <1>6, <1>8, <1>11, <2>1
    <3> QED
      BY <1>1, <1>3, <3>1
  <2>2. CASE i # n + 1
    <3>1. i \in 1 .. n /\ i \in 0 .. n /\ i - 1 \in 0 .. n
      BY <1>4, <2>2
    <3> QED
      BY <1>6, <1>7, <1>11, <3>1
  <2> QED
    BY <2>1, <2>2
<1>13. \A i, k \in 0 .. n + 1 : i <= k => more[i] <= more[k]
  <2> TAKE i, k \in 0 .. n + 1
  <2> HAVE i <= k
  <2>1. CASE k = n + 1
    <3>1. CASE i = n + 1
      <4>1. i = k /\ more[i] \in 0 .. m
        BY <1>11, <2>1, <3>1
      <4> QED
        BY <4>1
    <3>2. CASE i # n + 1
      <4>1. i \in 0 .. n
        BY <1>4, <3>2
      <4>2. more[i] <= last /\ more[i] \in 0 .. m /\ more[k] = next
        BY <1>8, <1>11, <2>1, <4>1
      <4> QED
        BY <1>4, <1>8, <1>9, <4>2
    <3> QED
      BY <3>1, <3>2
  <2>2. CASE k # n + 1
    <3>1. i \in 0 .. n /\ k \in 0 .. n
      BY <1>4, <2>2
    <3> QED
      BY <1>7, <1>11, <3>1
  <2> QED
    BY <2>1, <2>2
<1>14. more[0] = 0 /\ more[Len(decoded)] = cnt[Len(decoded)]
  BY <1>4, <1>7, <1>11
<1>15. Counted(more)'
  BY <1>2, <1>6, <1>11, <1>12, <1>13, <1>14 DEF Counted, RunOf
<1> QED
  BY <1>6, <1>11, <1>14, <1>15

(* The control thread gives a command, with the lock or, to close, while   *)
(* the data thread writes nothing.                                         *)
LEMMA ControlGiven ==
    ASSUME Configured, IInv, NEW g \in Controls, Give("control", g, MessageWords(g)),
           todo["data"] = <<>>, UNCHANGED <<wire, ControlVars>>,
           \/ Locking("control")
           \/ g = Close /\ sendMtx' = sendMtx
    PROVE  IInv'
<1>1. PICK cnt, gpos, rpos, opos, back, comp : Path(cnt, gpos, rpos, opos, back, comp)
  BY DEF IInv
<1>2. PICK f : f = MessageWords(g)
  OBVIOUS
<1>3. f \in Seq(Nat) /\ g \in Messages /\ f # <<>>
  BY <1>2, ControlWords, FirstWord
<1>4. /\ todo \in [Writers -> Seq(Nat)] /\ wire["input"] \in Seq(Nat)
      /\ sendMtx \in [{"frontend", "backend"} -> Writers \cup {"nobody"}]
      /\ given \in Seq(Messages)
  BY DEF IInv, Types
<1>5. "data" \in Writers /\ "control" \in Writers /\ Batchers \subseteq Writers
  BY DEF Writers
<1>6. /\ todo' = [todo EXCEPT !["control"] = f] /\ given' = Append(given, g)
      /\ todo["control"] = <<>>
  BY <1>2 DEF Give
<1>7. /\ todo'["control"] = f /\ todo'["data"] = <<>>
      /\ \A t \in Batchers : t # "control" /\ t # "data" /\ t # "nobody" /\ todo'[t] = todo[t]
  BY <1>4, <1>5, <1>6 DEF Configured
<1>8. sendMtx["backend"] = "nobody"
  BY <1>6 DEF Locking, IInv, Locks
<1>9. /\ sendMtx'["frontend"] = sendMtx["frontend"]
      /\ \/ sendMtx'["backend"] = "control"
         \/ g = Close /\ sendMtx'["backend"] = "nobody"
      /\ sendMtx' \in [{"frontend", "backend"} -> Writers \cup {"nobody"}]
  BY <1>4, <1>5, <1>8 DEF Locking
<1>10. /\ UNCHANGED <<wire, PerProxyOutputQueue, MapProxytoOutputQueue, g_InputQueue, awaited,
                      relayed, decoded, batches, results>>
  BY DEF ControlVars
<1>11. InputStream' = InputStream \o f
  <2>1. InputStream = wire["input"] \o (<<>> \o <<>>) /\ InputStream' = wire["input"] \o (<<>> \o f)
    BY <1>6, <1>7, <1>10 DEF InputStream
  <2>2. <<>> \o f = f /\ <<>> \o <<>> = <<>>
    BY <1>3
  <2>3. wire["input"] \o <<>> = wire["input"]
    BY <1>4
  <2> QED
    BY <2>1, <2>2, <2>3
<1>12. RequestStream' = RequestStream
  <2>1. sendMtx["frontend"] \in Batchers \cup {"nobody"}
    BY DEF IInv, Locks
  <2>2. Holding' = Holding
    BY <1>7, <1>9, <2>1 DEF Holding
  <2> QED
    BY <1>10, <2>2 DEF RequestStream
<1>13. PICK ipos : InputSide(ipos)'
  BY <1>1, <1>2, <1>3, <1>6, <1>10, <1>11, InputGiven DEF Path
<1>14. PICK next : next = cnt[Len(given)]
  OBVIOUS
<1>15. PICK more : /\ Counted(more)' /\ more[Len(given')] = next
                   /\ more[Len(decoded)] = cnt[Len(decoded)]
  BY <1>1, <1>6, <1>10, <1>14, CountedGiven DEF Path
<1>16. /\ RequestSide(rpos, next)' /\ OutputSide(opos, back, comp)'
       /\ ProcessQueue(comp, cnt[Len(decoded)])' /\ BackendQueue(back, next)'
  BY <1>1, <1>10, <1>12, <1>14, RequestKept, OutputKept, ProcessKept, BackendKept DEF Path
<1>17. ProcessQueue(comp, more[Len(decoded)])'
  BY <1>10, <1>15, <1>16
<1>18. RequestSide(rpos, more[Len(given)])' /\ BackendQueue(back, more[Len(given)])'
  BY <1>15, <1>16
<1>19. Path(more, ipos, rpos, opos, back, comp)'
  BY <1>13, <1>15, <1>16, <1>17, <1>18 DEF Path
<1>20. Types'
  <2>1. todo' \in [Writers -> Seq(Nat)]
    BY <1>3, <1>4, <1>6
  <2>2. given' \in Seq(Messages)
    BY <1>3, <1>4, <1>6
  <2> QED
    BY <1>9, <1>10, <2>1, <2>2 DEF IInv, Types
<1>21. Locks'
  <2>1. g = Close => Closed'
    <3> HAVE g = Close
    <3>1. Len(given) + 1 \in DOMAIN given' /\ given'[Len(given) + 1] = g
      BY <1>3, <1>4, <1>6
    <3> QED
      BY <3>1 DEF Closed
  <2>2. \A t \in Batchers : todo'[t] # <<>> <=> sendMtx'["frontend"] = t
    BY <1>7, <1>9 DEF IInv, Locks
  <2> QED
    BY <1>3, <1>7, <1>9, <1>10, <2>1, <2>2 DEF IInv, Locks
<1>22. Decoding'
  <2>1. Len(given') = Len(given) + 1 /\ \A i \in 1 .. Len(given) : given'[i] = given[i]
    BY <1>3, <1>4, <1>6
  <2>2. /\ Len(decoded) <= Len(given) /\ Len(given) \in Nat /\ Len(decoded) \in Nat
        /\ \A i \in 1 .. Len(decoded) : decoded[i] = given[i]
    BY DEF IInv, Types, Decoding
  <2>3. Len(decoded) <= Len(given) + 1 /\ \A i \in 1 .. Len(decoded) : i \in 1 .. Len(given)
    BY <2>2
  <2> QED
    BY <1>10, <2>1, <2>2, <2>3 DEF Decoding
<1>23. Delivered' /\ FrontendQueue'
  BY <1>10, DeliveredKept, FrontendKept DEF IInv
<1> QED
  BY <1>19, <1>20, <1>21, <1>22, <1>23 DEF IInv

\* makeProxyLoadModel gives the process one more message, under sendMtx.
LEMMA LoadKeeps ==
    ASSUME Configured, IInv, NEW k \in Kinds, makeProxyLoadModel(k[1], k[2])
    PROVE  IInv'
<1>1. k[1] \in ModelIds /\ k[2] \in Nat
  BY DEF Configured
<1>2. PICK g : g = Load(k[1], k[2])
  OBVIOUS
<1>3. g \in Controls
  BY <1>1, <1>2 DEF Controls
<1>4. MessageWords(g) = LoadWords(k[1], k[2])
  BY <1>2 DEF MessageWords, Load
<1>5. todo["data"] = <<>>
  BY DEF makeProxyLoadModel, Locking, IInv, Locks
<1> QED
  BY <1>2, <1>3, <1>4, <1>5, ControlGiven DEF makeProxyLoadModel

\* makeProxyUnloadModel gives the process one more message, under sendMtx.
LEMMA UnloadKeeps ==
    ASSUME Configured, IInv, NEW m \in ModelIds, makeProxyUnloadModel(m)
    PROVE  IInv'
<1>1. PICK g : g = Unload(m)
  OBVIOUS
<1>2. g \in Controls
  BY <1>1 DEF Controls
<1>3. MessageWords(g) = UnloadWords(m)
  BY <1>1 DEF MessageWords, Unload
<1>4. todo["data"] = <<>>
  BY DEF makeProxyUnloadModel, Locking, IInv, Locks
<1> QED
  BY <1>1, <1>2, <1>3, <1>4, ControlGiven DEF makeProxyUnloadModel

(* disconnectProxy writes without the lock: when every result is there, no *)
(* batch is being relayed.                                                 *)
LEMMA disconnectProxyKeeps ==
    ASSUME Configured, IInv, disconnectProxy
    PROVE  IInv'
<1>1. MessageWords(Close) = <<CLOSE_SOCKET>> /\ Close \in Controls
  BY DEF MessageWords, Close, Controls
<1>2. todo["data"] = <<>>
  <2>1. SUFFICES ASSUME todo["data"] # <<>> PROVE FALSE
    OBVIOUS
  <2>2. relayed # NoBatch
    BY <2>1 DEF IInv, Locks
  <2>3. PICK cnt, gpos, rpos, opos, back, comp : Path(cnt, gpos, rpos, opos, back, comp)
    BY DEF IInv
  <2>4. PICK rel : rel = cnt[Len(given)]
    OBVIOUS
  <2>5. PICK popped, queued :
            /\ popped \in 0 .. Len(batches) /\ queued \in 0 .. Len(batches)
            /\ Window(MapProxytoOutputQueue, batches, popped, queued)
            /\ back \in 0 .. popped
            /\ rel = queued + 1
    BY <2>2, <2>3, <2>4 DEF Path, BackendQueue
  <2>6. popped <= queued
    BY <2>5 DEF Window
  <2>7. Len(results) <= back /\ Len(results) \in Nat /\ Len(batches) \in Nat
    BY <2>3 DEF Path, OutputSide, Frames, IInv, Types
  <2>8. rel <= Len(batches)
    BY <2>3, <2>4 DEF Path, RequestSide, Frames
  <2>9. Len(results) = Len(batches)
    BY DEF disconnectProxy
  <2> QED
    BY <2>5, <2>6, <2>7, <2>8, <2>9
<1> QED
  BY <1>1, <1>2, ControlGiven DEF disconnectProxy

\* The backend reads one whole request frame and relays it as the next message.
LEMMA recvBatchedTensorKeeps ==
    ASSUME Configured, IInv, recvBatchedTensor
    PROVE  IInv'
<1>1. PICK cnt, gpos, rpos, opos, back, comp : Path(cnt, gpos, rpos, opos, back, comp)
  BY DEF IInv
<1>2. PICK w : w = wire["request"]
  OBVIOUS
<1>3. PICK h : h = Holding
  OBVIOUS
<1>4. PICK rel : rel = cnt[Len(given)]
  OBVIOUS
<1>5. PICK n : n = Len(batches)
  OBVIOUS
<1>6. /\ todo \in [Writers -> Seq(Nat)]
      /\ wire \in [{"request", "input", "output", "result"} -> Seq(Nat)]
      /\ sendMtx \in [{"frontend", "backend"} -> Writers \cup {"nobody"}]
      /\ given \in Seq(Messages) /\ batches \in Seq(Batch) /\ n \in Nat
  BY <1>5 DEF IInv, Types
<1>7. "data" \in Writers /\ "control" \in Writers /\ Batchers \subseteq Writers
  BY DEF Writers
<1>8. h \in Seq(Nat) /\ w \in Seq(Nat) /\ Len(w) \in Nat /\ Len(w) >= 3
  <2>1. h \in Seq(Nat)
    <3>1. CASE sendMtx["frontend"] = "nobody"
      BY <1>3, <3>1 DEF Holding
    <3>2. CASE sendMtx["frontend"] # "nobody"
      <4>1. sendMtx["frontend"] \in Writers
        BY <1>6, <3>2
      <4> QED
        BY <1>3, <1>6, <3>2, <4>1 DEF Holding
    <3> QED
      BY <3>1, <3>2
  <2> QED
    BY <1>2, <1>6, <2>1 DEF recvBatchedTensor, Arrived
<1>9. PICK s : s = w \o h
  OBVIOUS
<1>10. s \in Seq(Nat) /\ Len(s) = Len(w) + Len(h) /\ Len(h) \in Nat
  BY <1>8, <1>9, Joined
<1>11. PICK F : F = RequestFrames
  OBVIOUS
<1>12. F \in Seq(Seq(Nat)) /\ Len(F) = n
  BY <1>5, <1>11, FrameTypes DEF IInv
<1>13. Offsets(F, rpos) /\ Frames(s, F, rpos, rel, n)
  BY <1>1, <1>2, <1>3, <1>4, <1>5, <1>9, <1>11 DEF Path, RequestSide, RequestStream
<1>14. rel < n /\ rel \in Nat
  <2>1. s # <<>>
    BY <1>8, <1>10
  <2>2. rel < n
    BY <1>10, <1>12, <1>13, <2>1, FrameThere
  <2> QED
    BY <1>13, <2>2 DEF Frames
<1>15. PICK b : b = batches[rel + 1]
  OBVIOUS
<1>16. rel + 1 \in 1 .. n /\ rel + 1 \in 1 .. Len(batches) /\ b \in Batch
  BY <1>5, <1>6, <1>14, <1>15
<1>17. F[rel + 1] = <<b.model, b.rid, b.dims[1]>>
  BY <1>11, <1>15, <1>16 DEF RequestFrames, RequestWords, sendRequestToBackend
<1>18. PICK f : f = F[rel + 1]
  OBVIOUS
<1>19. Len(f) = 3 /\ f[1] = b.model /\ f[2] = b.rid /\ f[3] = b.dims[1]
  BY <1>17, <1>18
<1>20. /\ \A j \in 1 .. Len(f) : s[j] = f[j]
       /\ Frames(Rest(s, Len(f)), F, rpos, rel + 1, n)
  <2>1. /\ \A j \in 1 .. Len(F[rel + 1]) : s[j] = F[rel + 1][j]
        /\ Frames(Rest(s, Len(F[rel + 1])), F, rpos, rel + 1, n)
    <3>1. /\ s \in Seq(Nat) /\ F \in Seq(Seq(Nat)) /\ Offsets(F, rpos)
          /\ Frames(s, F, rpos, rel, n) /\ rel < n
      BY <1>10, <1>12, <1>13, <1>14
    <3> QED
      BY <3>1, FrameTaken
  <2> QED
    BY <1>18, <2>1
<1>21. w[1] = b.model /\ w[2] = b.rid /\ w[3] = b.dims[1]
  <2>1. \A j \in 1 .. 3 : j \in 1 .. Len(w) /\ j \in 1 .. Len(f)
    BY <1>8, <1>19
  <2>2. \A j \in 1 .. 3 : s[j] = w[j]
    BY <1>8, <1>9, <2>1, JoinedFirst
  <2>3. \A j \in 1 .. 3 : w[j] = f[j]
    BY <1>20, <2>1, <2>2
  <2>4. 1 \in 1 .. 3 /\ 2 \in 1 .. 3 /\ 3 \in 1 .. 3
    OBVIOUS
  <2>5. w[1] = f[1] /\ w[2] = f[2] /\ w[3] = f[3]
    BY <2>3, <2>4, Zenon
  <2> QED
    BY <1>19, <2>5
<1>22. PICK rest : rest = Rest(w, 3)
  OBVIOUS
<1>23. rest \in Seq(Nat) /\ rest \o h = Rest(s, 3)
  <2>1. w \in Seq(Nat) /\ h \in Seq(Nat) /\ 3 \in Nat /\ 3 <= Len(w)
    BY <1>8
  <2>2. Rest(w, 3) \in Seq(Nat) /\ Rest(w, 3) \o h = Rest(w \o h, 3)
    <3>1. PICK k : k = 3
      OBVIOUS
    <3>2. k \in Nat /\ k <= Len(w)
      BY <2>1, <3>1
    <3>3. Rest(w, k) \in Seq(Nat) /\ Rest(w, k) \o h = Rest(w \o h, k)
      BY <2>1, <3>2, RestJoined, ZenonT(60)
    <3> QED
      BY <3>1, <3>3
  <2> QED
    BY <1>9, <1>22, <2>2
<1>24. PICK g : g = RunOf(b)
  OBVIOUS
<1>25. PICK words : words = MessageWords(g)
  OBVIOUS
<1>26. <<w[3]>> \o InputDims[w[1]] = b.dims \o InputDims[b.model]
  BY <1>16, <1>21, BatchFacts
<1>27. /\ Run(w[2], w[1], <<w[3]>> \o InputDims[w[1]]) = g
       /\ sendRequest(w[2], w[1], <<w[3]>> \o InputDims[w[1]]) = words
  BY <1>16, <1>21, <1>24, <1>25, <1>26, RunWords DEF RunOf
<1>28. g \in Runs /\ g \in Messages /\ words \in Seq(Nat) /\ words # <<>>
  <2>1. g \in Runs /\ g \in Messages /\ words \in Seq(Nat)
    BY <1>16, <1>24, <1>25, RunWords
  <2>2. Len(words) >= 1
    BY <1>25, <2>1, FirstWord
  <2> QED
    BY <2>1, <2>2
<1>29. /\ Give("data", g, words)
       /\ wire' = [wire EXCEPT !["request"] = rest]
       /\ relayed' = b
       /\ relayed = NoBatch /\ Locking("data")
       /\ UNCHANGED <<open, PerProxyOutputQueue, MapProxytoOutputQueue, g_InputQueue,
                      awaited, decoded, batches, results>>
  <2>1. b = [rid |-> b.rid, model |-> b.model, dims |-> b.dims] /\ b.dims = <<b.dims[1]>>
    BY <1>16, BatchFacts
  <2>2. b = [rid |-> w[2], model |-> w[1], dims |-> <<w[3]>>]
    BY <1>21, <2>1
  <2> QED
    BY <1>2, <1>22, <1>27, <2>2 DEF recvBatchedTensor
<1>30. /\ todo' = [todo EXCEPT !["data"] = words] /\ given' = Append(given, g)
       /\ ~Closed /\ todo["data"] = <<>> /\ sendMtx["backend"] = "nobody"
       /\ sendMtx' = [sendMtx EXCEPT !["backend"] = "data"]
  BY <1>29 DEF Give, Locking
<1>31. todo["control"] = <<>>
  BY <1>30 DEF IInv, Locks
<1>32. /\ todo'["data"] = words /\ todo'["control"] = <<>>
       /\ \A t \in Batchers : t # "control" /\ t # "data" /\ t # "nobody" /\ todo'[t] = todo[t]
  BY <1>6, <1>7, <1>30, <1>31 DEF Configured
<1>33. /\ wire'["request"] = rest /\ wire'["input"] = wire["input"]
       /\ wire'["output"] = wire["output"] /\ wire'["result"] = wire["result"]
  BY <1>6, <1>29
<1>34. /\ sendMtx'["frontend"] = sendMtx["frontend"] /\ sendMtx'["backend"] = "data"
       /\ sendMtx' \in [{"frontend", "backend"} -> Writers \cup {"nobody"}]
  BY <1>6, <1>7, <1>30
<1>35. InputStream' = InputStream \o words
  <2>1. InputStream = wire["input"] \o (<<>> \o <<>>) /\ InputStream' = wire["input"] \o (words \o <<>>)
    BY <1>30, <1>31, <1>32, <1>33 DEF InputStream
  <2>2. words \o <<>> = words /\ <<>> \o <<>> = <<>>
    BY <1>28
  <2>3. wire["input"] \o <<>> = wire["input"]
    BY <1>6
  <2> QED
    BY <2>1, <2>2, <2>3
<1>36. RequestStream' = Rest(s, 3)
  <2>1. sendMtx["frontend"] \in Batchers \cup {"nobody"}
    BY DEF IInv, Locks
  <2>2. Holding' = h
    BY <1>3, <1>32, <1>34, <2>1 DEF Holding
  <2> QED
    BY <1>23, <1>33, <2>2 DEF RequestStream
<1>37. RequestSide(rpos, rel + 1)'
  <2>1. RequestFrames' = F
    BY <1>11, <1>29, FramesUnchanged
  <2> QED
    BY <1>5, <1>13, <1>19, <1>20, <1>29, <1>36, <2>1 DEF RequestSide
<1>38. PICK ipos : InputSide(ipos)'
  BY <1>1, <1>25, <1>28, <1>29, <1>30, <1>35, InputGiven DEF Path
<1>39. PICK more : /\ Counted(more)' /\ more[Len(given')] = rel + 1
                   /\ more[Len(decoded)] = cnt[Len(decoded)]
  <2>1. rel + 1 = cnt[Len(given)] + 1 /\ rel + 1 <= Len(batches) /\ g = RunOf(batches[rel + 1])
    BY <1>4, <1>5, <1>6, <1>14, <1>15, <1>24
  <2> QED
    <3>1. Counted(cnt) /\ given' = Append(given, g) /\ batches' = batches /\ g \in Runs
      BY <1>1, <1>28, <1>29, <1>30 DEF Path
    <3>2. PICK next : next = rel + 1
      OBVIOUS
    <3>3. next = cnt[Len(given)] + 1 /\ next <= Len(batches) /\ g = RunOf(batches[next])
      BY <2>1, <3>2
    <3>4. \E more : /\ Counted(more)' /\ more[Len(given')] = next
                    /\ more[Len(decoded)] = cnt[Len(decoded)]
      BY <3>1, <3>3, CountedGiven
    <3> QED
      BY <3>2, <3>4
<1>40. BackendQueue(back, rel + 1)'
  <2>1. PICK popped, queued :
            /\ popped \in 0 .. Len(batches) /\ queued \in 0 .. Len(batches)
            /\ Window(MapProxytoOutputQueue, batches, popped, queued)
            /\ back \in 0 .. popped
            /\ IF awaited["backend"] = NoBatch THEN popped = back
               ELSE popped = back + 1 /\ awaited["backend"] = batches[popped]
            /\ IF relayed = NoBatch THEN queued = rel
               ELSE rel = queued + 1 /\ relayed = batches[rel]
    BY <1>1, <1>4 DEF Path, BackendQueue
  <2>2. queued = rel /\ relayed' # NoBatch /\ relayed' = batches[rel + 1]
    BY <1>15, <1>16, <1>29, <2>1, BatchFacts
  <2> QED
    BY <1>29, <2>1, <2>2 DEF BackendQueue
<1>41. /\ OutputSide(opos, back, comp)' /\ ProcessQueue(comp, cnt[Len(decoded)])'
  BY <1>1, <1>29, <1>33, OutputKept, ProcessKept DEF Path
<1>42. ProcessQueue(comp, more[Len(decoded)])'
  BY <1>29, <1>39, <1>41
<1>43. RequestSide(rpos, more[Len(given)])' /\ BackendQueue(back, more[Len(given)])'
  BY <1>37, <1>39, <1>40
<1>44. Path(more, ipos, rpos, opos, back, comp)'
  BY <1>38, <1>39, <1>41, <1>42, <1>43 DEF Path
<1>45. Types'
  <2>1. todo' \in [Writers -> Seq(Nat)]
    BY <1>6, <1>28, <1>30
  <2>2. given' \in Seq(Messages)
    BY <1>6, <1>28, <1>30
  <2>3. wire' \in [{"request", "input", "output", "result"} -> Seq(Nat)]
    BY <1>6, <1>23, <1>29
  <2> QED
    BY <1>16, <1>29, <1>34, <2>1, <2>2, <2>3 DEF IInv, Types
<1>46. Locks'
  <2>1. \A t \in Batchers : todo'[t] # <<>> <=> sendMtx'["frontend"] = t
    BY <1>32, <1>34 DEF IInv, Locks
  <2>2. relayed' # NoBatch
    BY <1>16, <1>29, BatchFacts
  <2> QED
    BY <1>28, <1>32, <1>34, <2>1, <2>2 DEF IInv, Locks
<1>47. Decoding'
  <2>1. Len(given') = Len(given) + 1 /\ \A i \in 1 .. Len(given) : given'[i] = given[i]
    BY <1>6, <1>28, <1>30
  <2>2. /\ Len(decoded) <= Len(given) /\ Len(given) \in Nat /\ Len(decoded) \in Nat
        /\ \A i \in 1 .. Len(decoded) : decoded[i] = given[i]
    BY DEF IInv, Types, Decoding
  <2>3. Len(decoded) <= Len(given) + 1 /\ \A i \in 1 .. Len(decoded) : i \in 1 .. Len(given)
    BY <2>2
  <2> QED
    BY <1>29, <2>1, <2>2, <2>3 DEF Decoding
<1>48. Delivered' /\ FrontendQueue'
  BY <1>29, DeliveredKept, FrontendKept DEF IInv
<1> QED
  BY <1>44, <1>45, <1>46, <1>47, <1>48 DEF IInv

-----------------------------------------------------------------------------
(* A word written is a word no longer to write. *)
LEMMA WordMoved ==
    ASSUME NEW w, NEW s, w \in Seq(Nat), s \in Seq(Nat), s # <<>>
    PROVE  /\ Append(w, Head(s)) \in Seq(Nat) /\ Tail(s) \in Seq(Nat)
           /\ Append(w, Head(s)) \o Tail(s) = w \o s
           /\ Tail(s) = <<>> <=> Len(s) = 1
<1>1. PICK x : x = Head(s)
  OBVIOUS
<1>2. PICK t : t = Tail(s)
  OBVIOUS
<1>3. PICK n, m : n = Len(w) /\ m = Len(s)
  OBVIOUS
<1>4. x \in Nat /\ t \in Seq(Nat) /\ n \in Nat /\ m \in Nat /\ m >= 1 /\ Len(t) = m - 1
  BY <1>1, <1>2, <1>3
<1>5. x = s[1] /\ \A i \in 1 .. m - 1 : t[i] = s[i + 1]
  BY <1>1, <1>2, <1>3
<1>6. PICK v : v = Append(w, x)
  OBVIOUS
<1>7. /\ v \in Seq(Nat) /\ Len(v) = n + 1 /\ v[n + 1] = x
      /\ \A i \in 1 .. n : v[i] = w[i]
  BY <1>3, <1>4, <1>6
<1>8. PICK a, b : a = v \o t /\ b = w \o s
  OBVIOUS
<1>9. a \in Seq(Nat) /\ b \in Seq(Nat) /\ Len(a) = n + m /\ Len(b) = n + m
  <2>1. v \o t \in Seq(Nat) /\ Len(v \o t) = Len(v) + Len(t)
    BY <1>4, <1>7, Joined, Zenon
  <2>2. w \o s \in Seq(Nat) /\ Len(w \o s) = Len(w) + Len(s)
    BY Joined, Zenon
  <2> QED
    BY <1>3, <1>4, <1>7, <1>8, <2>1, <2>2
<1>10. ASSUME NEW i \in 1 .. n + m PROVE a[i] = b[i]
  <2>1. CASE i <= n
    <3>1. i \in 1 .. Len(v) /\ i \in 1 .. Len(w) /\ i \in 1 .. n
      BY <1>3, <1>4, <1>7, <2>1
    <3>2. (v \o t)[i] = v[i]
      BY <1>4, <1>7, <3>1, JoinedFirst
    <3>3. (w \o s)[i] = w[i]
      BY <3>1, JoinedFirst
    <3> QED
      BY <1>7, <1>8, <3>1, <3>2, <3>3
  <2>2. CASE i = n + 1
    <3>1. i \in 1 .. Len(v) /\ 1 \in 1 .. Len(s)
      BY <1>3, <1>4, <1>7, <2>2
    <3>2. (v \o t)[i] = v[i]
      BY <1>4, <1>7, <3>1, JoinedFirst
    <3>3. (w \o s)[Len(w) + 1] = s[1]
      BY <3>1, JoinedThen
    <3> QED
      BY <1>3, <1>5, <1>7, <1>8, <2>2, <3>2, <3>3
  <2>3. CASE i > n + 1
    <3>1. PICK j : j = i - (n + 1)
      OBVIOUS
    <3>2. j \in 1 .. m - 1 /\ j + 1 \in 1 .. m /\ i = n + 1 + j /\ i = n + (j + 1)
      BY <1>4, <2>3, <3>1
    <3>3. j \in 1 .. Len(t) /\ j + 1 \in 1 .. Len(s)
      BY <1>3, <1>4, <3>2
    <3>4. (v \o t)[Len(v) + j] = t[j]
      <4>1. v \in Seq(Nat) /\ t \in Seq(Nat) /\ j \in 1 .. Len(t)
        BY <1>4, <1>7, <3>3
      <4> QED
        BY <4>1, JoinedThen
    <3>5. PICK k : k = j + 1
      OBVIOUS
    <3>6. (w \o s)[Len(w) + k] = s[k]
      BY <3>3, <3>5, JoinedThen
    <3>7. a[i] = t[j] /\ b[i] = s[j + 1]
      BY <1>3, <1>7, <1>8, <3>2, <3>4, <3>5, <3>6
    <3> QED
      BY <1>5, <3>2, <3>7
  <2>4. i <= n \/ i = n + 1 \/ i > n + 1
    BY <1>4
  <2> QED
    BY <2>1, <2>2, <2>3, <2>4
<1>11. a = b
  <2>1. Len(a) = Len(b) /\ \A i \in 1 .. Len(a) : a[i] = b[i]
    BY <1>9, <1>10
  <2> QED
    BY <1>9, <2>1, SeqEqual
<1>12. t = <<>> <=> m = 1
  BY <1>4
<1> QED
  BY <1>1, <1>2, <1>3, <1>4, <1>6, <1>7, <1>8, <1>11, <1>12

\* A writer moves its next word to its socket; the words there and the words still
\* to write are the same frames as before.
LEMMA WriteKeeps ==
    ASSUME Configured, IInv, NEW t \in Writers, Write(t)
    PROVE  IInv'
<1>1. PICK cnt, gpos, rpos, opos, back, comp : Path(cnt, gpos, rpos, opos, back, comp)
  BY DEF IInv
<1>2. /\ todo \in [Writers -> Seq(Nat)]
      /\ wire \in [{"request", "input", "output", "result"} -> Seq(Nat)]
      /\ sendMtx \in [{"frontend", "backend"} -> Writers \cup {"nobody"}]
  BY DEF IInv, Types
<1>3. "data" \in Writers /\ "control" \in Writers /\ Batchers \subseteq Writers
      /\ Writers = Batchers \cup {"data", "control"}
      /\ \A u \in Batchers : u # "control" /\ u # "data" /\ u # "nobody"
  BY DEF Writers, Configured
<1>4. PICK l : l = todo[t]
  OBVIOUS
<1>5. l \in Seq(Nat) /\ l # <<>>
  BY <1>2, <1>4 DEF Write
<1>6. /\ wire' = [wire EXCEPT ![Socket(t)] = Append(@, Head(l))]
      /\ todo' = [todo EXCEPT ![t] = Tail(l)]
      /\ sendMtx' = Unlocked(t, l)
      /\ UNCHANGED <<PerProxyOutputQueue, MapProxytoOutputQueue, g_InputQueue,
                     awaited, relayed, given, decoded, batches, results>>
  BY <1>4 DEF Write
<1>7. Tail(l) \in Seq(Nat) /\ Head(l) \in Nat /\ (Tail(l) = <<>> <=> Len(l) = 1)
  BY <1>5, WordMoved
<1>8. /\ todo'[t] = Tail(l) /\ \A u \in Writers : u # t => todo'[u] = todo[u]
      /\ todo' \in [Writers -> Seq(Nat)]
  BY <1>2, <1>6, <1>7
<1>9. /\ sendMtx'["frontend"] = IF sendMtx["frontend"] = t /\ Len(l) = 1
                                THEN "nobody" ELSE sendMtx["frontend"]
      /\ sendMtx'["backend"] = IF sendMtx["backend"] = t /\ Len(l) = 1
                               THEN "nobody" ELSE sendMtx["backend"]
      /\ sendMtx' \in [{"frontend", "backend"} -> Writers \cup {"nobody"}]
  BY <1>2, <1>6 DEF Unlocked
<1>10. Socket(t) = IF t \in Batchers THEN "request" ELSE "input"
  BY DEF Socket
<1>11. /\ wire' \in [{"request", "input", "output", "result"} -> Seq(Nat)]
       /\ wire'["output"] = wire["output"] /\ wire'["result"] = wire["result"]
  <2>1. Socket(t) \in {"request", "input"}
    BY <1>10
  <2>2. Append(wire[Socket(t)], Head(l)) \in Seq(Nat)
    BY <1>2, <1>7, <2>1
  <2> QED
    BY <1>2, <1>6, <2>1, <2>2
<1>12. InputStream' = InputStream /\ RequestStream' = RequestStream /\ Locks'
  <2>1. CASE t \in Batchers
    <3>1. sendMtx["frontend"] = t /\ sendMtx["backend"] # t /\ t # "nobody"
      BY <1>3, <1>4, <1>5, <2>1 DEF IInv, Locks
    <3>2. wire'["request"] = Append(wire["request"], Head(l)) /\ wire'["input"] = wire["input"]
      BY <1>2, <1>6, <1>10, <2>1
    <3>3. InputStream' = InputStream
      BY <1>3, <1>8, <2>1, <3>2 DEF InputStream
    <3>4. Holding = l /\ Holding' = Tail(l)
      <4>1. CASE Len(l) = 1
        BY <1>4, <1>7, <1>8, <1>9, <3>1, <4>1 DEF Holding
      <4>2. CASE Len(l) # 1
        BY <1>4, <1>7, <1>8, <1>9, <3>1, <4>2 DEF Holding
      <4> QED
        BY <4>1, <4>2
    <3>5. RequestStream' = RequestStream
      <4>1. PICK w : w = wire["request"]
        OBVIOUS
      <4>2. w \in Seq(Nat)
        BY <1>2, <4>1
      <4>3. Append(w, Head(l)) \o Tail(l) = w \o l
        BY <1>5, <4>2, WordMoved
      <4> QED
        BY <3>2, <3>4, <4>1, <4>3 DEF RequestStream
    <3>6. \A u \in Batchers : todo'[u] # <<>> <=> sendMtx'["frontend"] = u
      <4> TAKE u \in Batchers
      <4>1. CASE u = t
        BY <1>3, <1>7, <1>8, <1>9, <3>1, <4>1
      <4>2. CASE u # t
        <5>1. todo'[u] = todo[u] /\ todo[u] = <<>>
          BY <1>3, <1>8, <3>1, <4>2 DEF IInv, Locks
        <5>2. sendMtx'["frontend"] # u
          BY <1>3, <1>9, <3>1, <4>2
        <5> QED
          BY <5>1, <5>2
      <4> QED
        BY <4>1, <4>2
    <3>7. /\ todo'["data"] = todo["data"] /\ todo'["control"] = todo["control"]
          /\ sendMtx'["backend"] = sendMtx["backend"]
          /\ sendMtx'["frontend"] \in Batchers \cup {"nobody"}
      BY <1>3, <1>8, <1>9, <2>1, <3>1
    <3>8. Locks'
      BY <1>6, <3>6, <3>7 DEF IInv, Locks, Closed
    <3> QED
      BY <3>3, <3>5, <3>8
  <2>2. CASE t \notin Batchers
    <3>1. t \in {"data", "control"}
      BY <1>3, <2>2
    <3>2. wire'["input"] = Append(wire["input"], Head(l)) /\ wire'["request"] = wire["request"]
      BY <1>2, <1>6, <1>10, <2>2
    <3>3. /\ sendMtx["frontend"] \in Batchers \cup {"nobody"}
          /\ sendMtx["frontend"] # t /\ sendMtx'["frontend"] = sendMtx["frontend"]
      BY <1>3, <1>9, <2>2, <3>1 DEF IInv, Locks
    <3>4. \A u \in Batchers : todo'[u] = todo[u]
      BY <1>3, <1>8, <2>2
    <3>5. RequestStream' = RequestStream
      BY <3>2, <3>3, <3>4 DEF RequestStream, Holding
    <3>6. \A u \in Batchers : todo'[u] # <<>> <=> sendMtx'["frontend"] = u
      BY <3>3, <3>4 DEF IInv, Locks
    <3>7. PICK w, td, tc : w = wire["input"] /\ td = todo["data"] /\ tc = todo["control"]
      OBVIOUS
    <3>8. w \in Seq(Nat) /\ td \in Seq(Nat) /\ tc \in Seq(Nat)
      BY <1>2, <1>3, <3>7
    <3>9. /\ Append(w, Head(l)) \in Seq(Nat)
          /\ Append(w, Head(l)) \o Tail(l) = w \o l
      BY <1>5, <3>8, WordMoved
    <3>10. CASE t = "data"
      <4>1. sendMtx["backend"] = "data" /\ tc = <<>> /\ td = l
        BY <1>4, <1>5, <3>7, <3>10 DEF IInv, Locks
      <4>2. todo'["data"] = Tail(l) /\ todo'["control"] = <<>>
        BY <1>3, <1>8, <3>7, <3>10, <4>1
      <4>3. InputStream = w \o (l \o <<>>) /\ InputStream' = Append(w, Head(l)) \o (Tail(l) \o <<>>)
        BY <3>2, <3>7, <4>1, <4>2 DEF InputStream
      <4>4. l \o <<>> = l /\ Tail(l) \o <<>> = Tail(l)
        BY <1>5, <1>7
      <4>5. InputStream' = InputStream
        BY <3>9, <4>3, <4>4
      <4>6. sendMtx'["backend"] = IF Len(l) = 1 THEN "nobody" ELSE "data"
        BY <1>9, <3>10, <4>1
      <4>7. Locks'
        <5>1. relayed # NoBatch /\ relayed' = relayed
          BY <1>4, <1>5, <1>6, <3>10 DEF IInv, Locks
        <5>2. Tail(l) # <<>> <=> sendMtx'["backend"] = "data"
          BY <1>7, <4>6
        <5> QED
          BY <3>3, <3>6, <4>2, <4>6, <5>1, <5>2 DEF Locks
      <4> QED
        BY <3>5, <4>5, <4>7
    <3>11. CASE t = "control"
      <4>1. td = <<>> /\ tc = l /\ sendMtx["backend"] \in {"control", "nobody"}
            /\ (sendMtx["backend"] = "nobody" => Closed)
        BY <1>4, <1>5, <3>7, <3>11 DEF IInv, Locks
      <4>2. todo'["control"] = Tail(l) /\ todo'["data"] = <<>>
        BY <1>3, <1>8, <3>7, <3>11, <4>1
      <4>3. InputStream = w \o (<<>> \o l) /\ InputStream' = Append(w, Head(l)) \o (<<>> \o Tail(l))
        BY <3>2, <3>7, <4>1, <4>2 DEF InputStream
      <4>4. <<>> \o l = l /\ <<>> \o Tail(l) = Tail(l)
        BY <1>5, <1>7
      <4>5. InputStream' = InputStream
        BY <3>9, <4>3, <4>4
      <4>6. sendMtx'["backend"] = IF sendMtx["backend"] = "control" /\ Len(l) = 1
                                  THEN "nobody" ELSE sendMtx["backend"]
        BY <1>9, <3>11
      <4>7. Closed' = Closed
        BY <1>6 DEF Closed
      <4>8. Locks'
        BY <1>6, <1>7, <3>3, <3>6, <4>1, <4>2, <4>6, <4>7 DEF IInv, Locks
      <4> QED
        BY <3>5, <4>5, <4>8
    <3> QED
      BY <3>1, <3>10, <3>11
  <2> QED
    BY <2>1, <2>2
<1>13. /\ Counted(cnt)' /\ InputSide(gpos)' /\ RequestSide(rpos, cnt[Len(given)])'
       /\ OutputSide(opos, back, comp)' /\ ProcessQueue(comp, cnt[Len(decoded)])'
       /\ BackendQueue(back, cnt[Len(given)])'
  BY <1>1, <1>6, <1>11, <1>12, CountedKept, InputKept, RequestKept, OutputKept, ProcessKept,
     BackendKept DEF Path
<1>14. Path(cnt, gpos, rpos, opos, back, comp)'
  BY <1>6, <1>13 DEF Path
<1>15. Types'
  BY <1>6, <1>8, <1>9, <1>11 DEF IInv, Types
<1>16. Decoding' /\ Delivered' /\ FrontendQueue'
  BY <1>6, DecodingKept, DeliveredKept, FrontendKept DEF IInv
<1> QED
  BY <1>12, <1>14, <1>15, <1>16 DEF IInv

(* A batch is sent: it follows those already on the way. *)
LEMMA sendBatchedRequestKeeps ==
    ASSUME Configured, IInv, NEW t \in Batchers, NEW k \in Kinds,
           sendBatchedRequest(t, k[1], k[2])
    PROVE  IInv'
<1>1. PICK cnt, gpos, rpos, opos, back, comp : Path(cnt, gpos, rpos, opos, back, comp)
  BY DEF IInv
<1>2. PICK n : n = Len(batches)
  OBVIOUS
<1>3. PICK x : x = [rid |-> n + 1, model |-> k[1], dims |-> <<k[2]>>]
  OBVIOUS
<1>4. PICK words : words = RequestWords(x)
  OBVIOUS
<1>5. /\ todo \in [Writers -> Seq(Nat)]
      /\ wire \in [{"request", "input", "output", "result"} -> Seq(Nat)]
      /\ sendMtx \in [{"frontend", "backend"} -> Writers \cup {"nobody"}]
      /\ batches \in Seq(Batch) /\ n \in Nat /\ PerProxyOutputQueue \in Seq(Batch)
      /\ given \in Seq(Messages) /\ Len(given) \in Nat
      /\ Len(results) \in Nat /\ Len(decoded) \in 0 .. Len(given)
  BY <1>2 DEF IInv, Types, Decoding
<1>6. "data" \in Writers /\ "control" \in Writers /\ Batchers \subseteq Writers
      /\ t # "control" /\ t # "data" /\ t # "nobody"
  BY DEF Writers, Configured
<1>7. x \in Batch
  BY <1>3, <1>5 DEF Batch, Configured
<1>8. words = <<k[1], n + 1, k[2]>> /\ words \in Seq(Nat) /\ words # <<>>
  <2>1. k[1] \in Nat /\ k[2] \in Nat
    BY DEF Configured
  <2>2. words = <<k[1], n + 1, k[2]>>
    BY <1>3, <1>4 DEF RequestWords, sendRequestToBackend
  <2> QED
    BY <1>5, <2>1, <2>2
<1>9. /\ PerProxyOutputQueue' = Append(PerProxyOutputQueue, x)
      /\ batches' = Append(batches, x)
      /\ todo' = [todo EXCEPT ![t] = words]
      /\ sendMtx["frontend"] = "nobody" /\ awaited["frontend"] = NoBatch
      /\ sendMtx' = [sendMtx EXCEPT !["frontend"] = t]
      /\ UNCHANGED <<open, wire, MapProxytoOutputQueue, g_InputQueue, awaited,
                     relayed, given, decoded, results>>
  BY <1>2, <1>3, <1>8 DEF sendBatchedRequest, sendRequestToBackend
<1>10. /\ todo'[t] = words /\ \A u \in Writers : u # t => todo'[u] = todo[u]
       /\ todo' \in [Writers -> Seq(Nat)]
  BY <1>5, <1>6, <1>8, <1>9
<1>11. /\ sendMtx'["frontend"] = t /\ sendMtx'["backend"] = sendMtx["backend"]
       /\ sendMtx' \in [{"frontend", "backend"} -> Writers \cup {"nobody"}]
  BY <1>5, <1>6, <1>9
<1>12. /\ batches' \in Seq(Batch) /\ Len(batches') = n + 1 /\ batches'[n + 1] = x
       /\ \A i \in 1 .. n : batches'[i] = batches[i]
  BY <1>2, <1>5, <1>7, <1>9
<1>13. InputStream' = InputStream
  BY <1>6, <1>9, <1>10 DEF InputStream
<1>14. RequestStream = wire["request"] /\ RequestStream' = wire["request"] \o words
  <2>1. Holding = <<>> /\ Holding' = words
    BY <1>6, <1>9, <1>10, <1>11 DEF Holding
  <2>2. RequestStream = wire["request"] \o <<>>
    BY <2>1 DEF RequestStream
  <2> QED
    BY <1>5, <1>9, <2>1, <2>2 DEF RequestStream
<1>15. PICK F, G : F = RequestFrames /\ G = OutputFrames
  OBVIOUS
<1>16. PICK o : o = OutputWords(x)
  OBVIOUS
<1>17. /\ F \in Seq(Seq(Nat)) /\ Len(F) = n /\ G \in Seq(Seq(Nat)) /\ Len(G) = n
  BY <1>2, <1>15, FrameTypes DEF IInv
<1>18. o \in Seq(Nat)
  <2>1. forward(x.model, x.dims) \in Seq(Nat)
    BY <1>7, ForwardFacts
  <2> QED
    BY <1>16, <2>1, OutputFrame DEF OutputWords
<1>19. RequestFrames' = Append(F, words) /\ OutputFrames' = Append(G, o)
  BY <1>4, <1>5, <1>7, <1>9, <1>15, <1>16, BatchFramesAppended
<1>20. PICK rel : rel = cnt[Len(given)]
  OBVIOUS
<1>21. /\ cnt \in [0 .. Len(given) -> 0 .. n] /\ cnt[0] = 0 /\ rel \in 0 .. n
       /\ \A i \in 0 .. Len(given) : cnt[i] \in 0 .. n
       /\ \A i \in 1 .. Len(given) :
            \/ /\ given[i] \in Runs /\ cnt[i] = cnt[i - 1] + 1
               /\ given[i] = RunOf(batches[cnt[i]])
            \/ given[i] \in Controls /\ cnt[i] = cnt[i - 1]
       /\ \A i, j \in 0 .. Len(given) : i <= j => cnt[i] <= cnt[j]
  <2>1. /\ cnt \in [0 .. Len(given) -> 0 .. n] /\ cnt[0] = 0
        /\ \A i \in 1 .. Len(given) :
            \/ /\ given[i] \in Runs /\ cnt[i] = cnt[i - 1] + 1
               /\ given[i] = RunOf(batches[cnt[i]])
            \/ given[i] \in Controls /\ cnt[i] = cnt[i - 1]
        /\ \A i, j \in 0 .. Len(given) : i <= j => cnt[i] <= cnt[j]
    BY <1>1, <1>2 DEF Path, Counted
  <2>2. Len(given) \in 0 .. Len(given)
    BY <1>5
  <2>3. rel \in 0 .. n /\ \A i \in 0 .. Len(given) : cnt[i] \in 0 .. n
    BY <1>20, <2>1, <2>2
  <2> QED
    BY <2>1, <2>3
<1>22. Counted(cnt)'
  <2>1. cnt \in [0 .. Len(given) -> 0 .. n + 1]
    <3>1. \A i \in 0 .. n : i \in 0 .. n + 1
      BY <1>5
    <3> QED
      BY <1>21, <3>1
  <2>2. ASSUME NEW i \in 1 .. Len(given)
        PROVE  \/ /\ given[i] \in Runs /\ cnt[i] = cnt[i - 1] + 1
                  /\ given[i] = RunOf(batches'[cnt[i]])
               \/ given[i] \in Controls /\ cnt[i] = cnt[i - 1]
    <3>1. CASE given[i] \in Controls /\ cnt[i] = cnt[i - 1]
      BY <3>1
    <3>2. CASE /\ given[i] \in Runs /\ cnt[i] = cnt[i - 1] + 1
               /\ given[i] = RunOf(batches[cnt[i]])
      <4>1. i \in 0 .. Len(given) /\ i - 1 \in 0 .. Len(given)
        BY <1>5
      <4>2. cnt[i] \in 0 .. n /\ cnt[i - 1] \in 0 .. n
        BY <1>21, <4>1
      <4>3. cnt[i] \in 1 .. n
        BY <1>5, <3>2, <4>2
      <4> QED
        BY <1>12, <3>2, <4>3
    <3> QED
      BY <1>21, <3>1, <3>2
  <2> QED
    BY <1>9, <1>12, <1>21, <2>1, <2>2 DEF Counted, RunOf
<1>23. InputSide(gpos)'
  BY <1>1, <1>9, <1>13, InputKept DEF Path
<1>24. PICK qpos : RequestSide(qpos, rel)'
  <2>1. Offsets(F, rpos) /\ Frames(wire["request"], F, rpos, rel, n)
    BY <1>1, <1>2, <1>14, <1>15, <1>20 DEF Path, RequestSide
  <2>2. PICK more :
          /\ Offsets(Append(F, words), more)
          /\ \A w, lo, hi : Frames(w, F, rpos, lo, hi) =>
                                Frames(w, Append(F, words), more, lo, hi)
    BY <1>8, <1>17, <2>1, OffsetsExtended
  <2>3. PICK E : E = Append(F, words)
    OBVIOUS
  <2>4. /\ E \in Seq(Seq(Nat)) /\ Len(E) = n + 1 /\ E[n + 1] = words
        /\ Frames(wire["request"], E, more, rel, n) /\ Offsets(E, more)
        /\ wire["request"] \in Seq(Nat) /\ n + 1 <= Len(E)
    <3>1. E \in Seq(Seq(Nat)) /\ Len(E) = n + 1 /\ E[n + 1] = words
      BY <1>5, <1>8, <1>17, <2>3, SMTT(40)
    <3>2. Frames(wire["request"], E, more, rel, n) /\ Offsets(E, more)
      BY <2>1, <2>2, <2>3
    <3>3. wire["request"] \in Seq(Nat)
      BY <1>5
    <3>4. n + 1 <= Len(E)
      BY <1>5, <3>1
    <3> QED
      BY <3>1, <3>2, <3>3, <3>4
  <2>5. Frames(wire["request"] \o E[n + 1], E, more, rel, n + 1)
    <3>1. PICK w : w = wire["request"]
      OBVIOUS
    <3>2. w \in Seq(Nat) /\ Frames(w, E, more, rel, n)
      BY <2>4, <3>1
    <3>3. Frames(w \o E[n + 1], E, more, rel, n + 1)
      BY <2>4, <3>2, FrameAppended
    <3> QED
      BY <3>1, <3>3
  <2>6. RequestSide(more, rel)'
    BY <1>12, <1>14, <1>19, <2>3, <2>4, <2>5 DEF RequestSide
  <2> QED
    BY <2>6
<1>25. PICK ppos : OutputSide(ppos, back, comp)'
  <2>1. /\ Offsets(G, opos) /\ Frames(wire["output"], G, opos, back, comp)
        /\ Frames(wire["result"], G, opos, Len(results), back)
    BY <1>1, <1>15 DEF Path, OutputSide
  <2>2. PICK more :
          /\ Offsets(Append(G, o), more)
          /\ \A w, lo, hi : Frames(w, G, opos, lo, hi) =>
                                Frames(w, Append(G, o), more, lo, hi)
    BY <1>17, <1>18, <2>1, OffsetsExtended
  <2>3. /\ Frames(wire["output"], Append(G, o), more, back, comp)
        /\ Frames(wire["result"], Append(G, o), more, Len(results), back)
    BY <2>1, <2>2
  <2>4. OutputSide(more, back, comp)'
    BY <1>9, <1>19, <2>2, <2>3 DEF OutputSide
  <2> QED
    BY <2>4
<1>26. PICK in : in = cnt[Len(decoded)]
  OBVIOUS
<1>27. ProcessQueue(comp, in)'
  <2>1. /\ in - comp = Len(g_InputQueue) /\ comp \in 0 .. in /\ in \in 0 .. n
        /\ \A i \in 1 .. in - comp : g_InputQueue[i] = RunOf(batches[comp + i])
    BY <1>1, <1>5, <1>21, <1>26 DEF Path, ProcessQueue
  <2>2. \A i \in 1 .. in - comp : comp + i \in 1 .. n
    BY <1>5, <2>1
  <2> QED
    BY <1>9, <1>12, <2>1, <2>2 DEF ProcessQueue, RunOf
<1>28. BackendQueue(back, rel)'
  <2>1. PICK popped, queued :
            /\ popped \in 0 .. Len(batches) /\ queued \in 0 .. Len(batches)
            /\ Window(MapProxytoOutputQueue, batches, popped, queued)
            /\ back \in 0 .. popped
            /\ IF awaited["backend"] = NoBatch THEN popped = back
               ELSE popped = back + 1 /\ awaited["backend"] = batches[popped]
            /\ IF relayed = NoBatch THEN queued = rel
               ELSE rel = queued + 1 /\ relayed = batches[rel]
    BY <1>1, <1>20 DEF Path, BackendQueue
  <2>2. Window(MapProxytoOutputQueue, batches', popped, queued)
    BY <1>5, <1>7, <1>9, <2>1, WindowKept
  <2>3. popped \in 0 .. n + 1 /\ queued \in 0 .. n + 1
    BY <1>2, <1>5, <2>1
  <2>4. awaited["backend"] # NoBatch => popped \in 1 .. n
    BY <1>2, <1>5, <2>1
  <2>5. relayed # NoBatch => rel \in 1 .. n
    BY <1>2, <1>5, <1>21, <2>1
  <2>6. IF awaited["backend"] = NoBatch THEN popped = back
        ELSE popped = back + 1 /\ awaited["backend"] = batches'[popped]
    BY <1>12, <2>1, <2>4
  <2>7. IF relayed = NoBatch THEN queued = rel
        ELSE rel = queued + 1 /\ relayed = batches'[rel]
    BY <1>12, <2>1, <2>5
  <2> QED
    BY <1>9, <1>12, <2>1, <2>2, <2>3, <2>6, <2>7 DEF BackendQueue
<1>29. Path(cnt, gpos, qpos, ppos, back, comp)'
  BY <1>9, <1>20, <1>22, <1>23, <1>24, <1>25, <1>26, <1>27, <1>28 DEF Path
<1>30. FrontendQueue'
  <2>1. PICK popped :
            /\ popped \in 0 .. Len(batches)
            /\ Window(PerProxyOutputQueue, batches, popped, Len(batches))
            /\ popped = Len(results)
    BY <1>9 DEF IInv, FrontendQueue
  <2>2. Window(PerProxyOutputQueue, batches', popped, n)
    BY <1>2, <1>5, <1>7, <1>9, <2>1, WindowKept
  <2>3. Window(Append(PerProxyOutputQueue, x), batches', popped, n + 1)
    <3>1. PICK s : s = batches'
      OBVIOUS
    <3>2. s \in Seq(Batch) /\ n + 1 <= Len(s) /\ s[n + 1] = x /\ Window(PerProxyOutputQueue, s, popped, n)
      BY <1>5, <1>12, <2>2, <3>1
    <3>3. Window(Append(PerProxyOutputQueue, s[n + 1]), s, popped, n + 1)
      BY <1>5, <3>2, WindowAppended
    <3> QED
      BY <3>1, <3>2, <3>3
  <2>4. popped \in 0 .. n + 1
    BY <1>2, <1>5, <2>1
  <2> QED
    BY <1>9, <1>12, <2>1, <2>3, <2>4 DEF FrontendQueue
<1>31. Delivered'
  <2>1. ASSUME NEW i \in 1 .. Len(results)
        PROVE  /\ i <= n + 1
               /\ results[i].batch = batches'[i]
               /\ results[i].dims = forward(batches'[i].model, batches'[i].dims)
    <3>1. /\ i <= n /\ results[i].batch = batches[i]
          /\ results[i].dims = forward(batches[i].model, batches[i].dims)
      BY <1>2 DEF IInv, Delivered
    <3>2. i \in 1 .. n /\ i <= n + 1
      BY <1>5, <3>1
    <3> QED
      BY <1>12, <3>1, <3>2
  <2> QED
    BY <1>9, <1>12, <2>1 DEF Delivered, forward
<1>32. Types'
  <2>1. PerProxyOutputQueue' \in Seq(Batch)
    BY <1>5, <1>7, <1>9
  <2> QED
    BY <1>9, <1>10, <1>11, <1>12, <2>1 DEF IInv, Types
<1>33. Locks'
  <2>1. \A u \in Batchers : todo'[u] # <<>> <=> sendMtx'["frontend"] = u
    <3> TAKE u \in Batchers
    <3>1. CASE u = t
      BY <1>8, <1>10, <1>11, <3>1
    <3>2. CASE u # t
      <4>1. u # "nobody"
        BY DEF Configured
      <4>2. todo'[u] = <<>>
        BY <1>6, <1>9, <1>10, <3>2, <4>1 DEF IInv, Locks
      <4> QED
        BY <1>11, <3>2, <4>2
    <3> QED
      BY <3>1, <3>2
  <2>2. todo'["data"] = todo["data"] /\ todo'["control"] = todo["control"] /\ Closed' = Closed
    BY <1>6, <1>9, <1>10 DEF Closed
  <2> QED
    BY <1>9, <1>11, <2>1, <2>2 DEF IInv, Locks
<1>34. Decoding'
  BY <1>9, DecodingKept DEF IInv
<1> QED
  BY <1>29, <1>30, <1>31, <1>32, <1>33, <1>34 DEF IInv

-----------------------------------------------------------------------------
\* Every step of Next keeps the invariant.
LEMMA NextIInv ==
    ASSUME Configured, IInv, [Next]_vars
    PROVE  IInv'
<1>1. CASE UNCHANGED vars
  BY <1>1, OpenOnly DEF vars
<1>2. CASE connectGPUProxyIn
  BY <1>2, OpenOnly DEF connectGPUProxyIn
<1>3. CASE connectGPUProxyOut
  BY <1>3, OpenOnly DEF connectGPUProxyOut
<1>4. CASE \E t \in Batchers, k \in Kinds : sendBatchedRequest(t, k[1], k[2])
  BY <1>4, sendBatchedRequestKeeps
<1>5. CASE \E t \in Writers : Write(t)
  BY <1>5, WriteKeeps
<1>6. CASE recvBatchedTensor
  BY <1>6, recvBatchedTensorKeeps
<1>7. CASE QueueOutput
  BY <1>7, QueueOutputKeeps
<1>8. CASE \E k \in Kinds : makeProxyLoadModel(k[1], k[2])
  BY <1>8, LoadKeeps
<1>9. CASE \E m \in ModelIds : makeProxyUnloadModel(m)
  BY <1>9, UnloadKeeps
<1>10. CASE disconnectProxy
  BY <1>10, disconnectProxyKeeps
<1>11. CASE recvInput
  BY <1>11, recvInputKeeps
<1>12. CASE send_output
  BY <1>12, send_outputKeeps
<1>13. CASE initBackendData
  BY <1>13, initBackendDataKeeps
<1>14. CASE initOutput
  BY <1>14, initOutputKeeps
<1>15. CASE receiveandsendOutput
  BY <1>15, receiveandsendOutputKeeps
<1>16. CASE recvResult
  BY <1>16, recvResultKeeps
<1> QED
  BY <1>1, <1>2, <1>3, <1>4, <1>5, <1>6, <1>7, <1>8, <1>9, <1>10, <1>11, <1>12, <1>13,
     <1>14, <1>15, <1>16 DEF Next

\* The invariant implies that no frame is lost, cut or mixed with another.
LEMMA SafeFrames ==
    ASSUME IInv
    PROVE  FramesKept
<1>1. PICK n : n = Len(decoded)
  OBVIOUS
<1>2. /\ n \in Nat /\ Len(given) \in Nat /\ n <= Len(given)
      /\ \A i \in 1 .. n : decoded[i] = given[i]
      /\ decoded \in Seq(Messages) /\ given \in Seq(Messages)
  BY <1>1 DEF IInv, Types, Decoding
<1>3. \A i \in 1 .. n : i \in 1 .. Len(given)
  BY <1>2
<1>4. PICK a, b : a = SubSeq(decoded, 1, n) /\ b = SubSeq(given, 1, n)
  OBVIOUS
<1>5. /\ a \in Seq(Messages) /\ Len(a) = IF 1 <= n THEN n - 1 + 1 ELSE 0
      /\ \A i \in 1 .. n - 1 + 1 : a[i] = decoded[1 + i - 1]
  <2>1. \A i \in 1 .. n : decoded[i] \in Messages
    BY <1>1, <1>2
  <2> QED
    BY <1>2, <1>4, <2>1, SubSeqProperties, 1 \in Int, n \in Int
<1>6. /\ b \in Seq(Messages) /\ Len(b) = IF 1 <= n THEN n - 1 + 1 ELSE 0
      /\ \A i \in 1 .. n - 1 + 1 : b[i] = given[1 + i - 1]
  <2>1. \A i \in 1 .. n : given[i] \in Messages
    BY <1>2, <1>3
  <2> QED
    BY <1>2, <1>4, <2>1, SubSeqProperties, 1 \in Int, n \in Int
<1>7. Len(a) = Len(b) /\ \A i \in 1 .. Len(a) : a[i] = b[i]
  <2>1. Len(a) = Len(b) /\ Len(a) = n /\ n - 1 + 1 = n /\ \A i \in 1 .. n : 1 + i - 1 = i
    BY <1>2, <1>5, <1>6
  <2> QED
    BY <1>2, <1>5, <1>6, <2>1
<1>8. a = b
  BY <1>5, <1>6, <1>7, SeqEqual
<1> QED
  BY <1>1, <1>2, <1>4, <1>8 DEF FramesKept, IsPrefix

\* The invariant implies that every result belongs to the batch it is taken for.
LEMMA SafeResults ==
    ASSUME Configured, IInv
    PROVE  ResultsBelong
<1>1. results \in Seq([batch : Batch, dims : Seq(Nat)])
  BY DEF IInv, Types
<1>2. \A i \in DOMAIN results :
         /\ results[i].batch = batches[i]
         /\ results[i].dims = forward(results[i].batch.model, results[i].batch.dims)
  <2> TAKE i \in DOMAIN results
  <2>1. i \in 1 .. Len(results)
    BY <1>1
  <2>2. results[i].batch = batches[i] /\ results[i].dims = forward(batches[i].model, batches[i].dims)
    BY <2>1 DEF IInv, Delivered
  <2> QED
    BY <2>2
<1>3. ASSUME awaited["backend"] # NoBatch, Arrived("output", 2)
      PROVE  wire["output"][2] = awaited["backend"].dims[1]
  <2>1. PICK cnt, gpos, rpos, opos, back, comp : Path(cnt, gpos, rpos, opos, back, comp)
    BY DEF IInv
  <2>2. PICK w : w = wire["output"]
    OBVIOUS
  <2>3. w \in Seq(Nat) /\ Len(w) >= 2 /\ Len(w) \in Nat
    BY <1>3, <2>2 DEF IInv, Types, Arrived
  <2>4. Offsets(OutputFrames, opos) /\ Frames(w, OutputFrames, opos, back, comp)
    BY <2>1, <2>2 DEF Path, OutputSide
  <2>5. back < comp /\ back + 1 \in 1 .. Len(batches) /\ batches[back + 1] \in Batch
    BY <2>3, <2>4, NextResult
  <2>6. PICK b : b = batches[back + 1]
    OBVIOUS
  <2>7. PICK d : d = forward(b.model, b.dims)
    OBVIOUS
  <2>8. d \in Seq(Nat) /\ d[1] = b.dims[1] /\ Len(d) >= 1 /\ Len(d) \in Nat
    BY <2>5, <2>6, <2>7, ForwardFacts
  <2>9. OutputFrames[back + 1] = sendOutput(d)
    BY <2>5, <2>6, <2>7 DEF OutputFrames, OutputWords
  <2>10. Len(sendOutput(d)) = 1 + Len(d) /\ \A j \in 1 .. Len(d) : sendOutput(d)[j + 1] = d[j]
    BY <2>8, OutputFrame
  <2>11. \A j \in 1 .. Len(sendOutput(d)) : w[j] = sendOutput(d)[j]
    <3>1. OutputFrames \in Seq(Seq(Nat))
      BY FrameTypes DEF IInv
    <3>2. \A j \in 1 .. Len(OutputFrames[back + 1]) : w[j] = OutputFrames[back + 1][j]
      BY <2>3, <2>4, <2>5, <3>1, FrameTaken
    <3> QED
      BY <2>9, <3>2
  <2>12. w[2] = d[1]
    <3>1. 1 \in 1 .. Len(d) /\ 1 + 1 = 2 /\ 2 \in 1 .. Len(sendOutput(d))
      BY <2>8, <2>10
    <3>2. sendOutput(d)[1 + 1] = d[1]
      BY <2>10, <3>1
    <3> QED
      BY <2>11, <3>1, <3>2
  <2>13. awaited["backend"] = b
    BY <1>3, <2>1, <2>6 DEF Path, BackendQueue
  <2> QED
    BY <2>2, <2>8, <2>12, <2>13
<1> QED
  BY <1>2, <1>3 DEF ResultsBelong

(* For any number of batching threads, batches, models and commands, and   *)
(* dimensions as input_config.json may give them: recvInput decodes the    *)
(* messages that the backend's threads gave, in their order, although two  *)
(* threads write to the socket and one word of the close is written        *)
(* without the lock (sendRequest, makeProxyLoadModel, disconnectProxy).    *)
THEOREM FramesAlwaysKept ==
    ASSUME Configured
    PROVE  Spec => []FramesKept
<1>1. Init => IInv
  BY InitIInv
<1>2. IInv /\ [Next]_vars => IInv'
  BY NextIInv
<1>3. IInv => FramesKept
  BY SafeFrames
<1> QED
  BY <1>1, <1>2, <1>3, PTL DEF Spec

(* Under the same assumptions every result that the frontend takes, by the *)
(* order of its queue alone, is that of the batch it takes it for, and the *)
(* assertion of receiveandsendOutput on the number of rows holds.          *)
THEOREM ResultsAlwaysBelong ==
    ASSUME Configured
    PROVE  Spec => []ResultsBelong
<1>1. Init => IInv
  BY InitIInv
<1>2. IInv /\ [Next]_vars => IInv'
  BY NextIInv
<1>3. IInv => ResultsBelong
  BY SafeResults
<1> QED
  BY <1>1, <1>2, <1>3, PTL DEF Spec
=============================================================================
