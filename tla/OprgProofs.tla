----------------------------- MODULE OprgProofs -----------------------------
(***************************************************************************)
(* Proofs about Oprg for every number of bins, bytes and threads of either *)
(* side and every size of a batch.                                         *)
(*                                                                         *)
(* The batches on the socket of a thread that has the same part on both    *)
(* sides are a chain: the first one starts where the sender thread waits,  *)
(* each of the others where the one before it ends, and the last one ends  *)
(* where the receiver thread is.  With other parts there is no such chain, *)
(* and nothing is claimed of the socket.                                   *)
(*                                                                         *)
(* A mask of a bin that one thread has to itself holds the OTs of the bin  *)
(* the thread is through with, and what the thread has read and not yet    *)
(* written is still in the mask: the masks of two bins are apart, so no    *)
(* other thread writes it.  At the end of its part the thread is through   *)
(* with all OTs of the bin, because every OT is in the part of a thread.   *)
(***************************************************************************)
EXTENDS Oprg, SequenceTheorems, WellFoundedInduction, FiniteSetTheorems, TLAPS

\* The record of a thread has just the fields New gives it.
ThreadState(th) ==
  /\ th = [at |-> th.at, ot |-> th.ot, u |-> th.u, read |-> th.read, phase |-> th.phase]
  /\ th.at \in Int

Batch == [ots : SUBSET Int, size : Int]

Shape ==
  /\ setup \in Setups
  /\ threads = [r \in Role |-> [t \in Thread(r) |-> threads[r][t]]]
  /\ \A r \in Role : \A t \in Thread(r) : ThreadState(threads[r][t])
  /\ sock \in [Thread("client") -> Seq(Batch)]

\* Where the batch starts that sender thread t takes from its socket next.
Awaited(t) ==
  IF threads["server"][t].phase = "expand"
  THEN BatchEnd("server", t, threads["server"][t].at)
  ELSE threads["server"][t].at

\* a holds the first OTs of the batches q, and what follows the last batch.
Chain(t, q, a) ==
  \A k \in 1 .. Len(q) : q[k] = Matrix(t, a[k]) /\ a[k + 1] = BatchEnd("client", t, a[k])

InOrder(t) ==
  \E a \in [1 .. Len(sock[t]) + 1 -> Int] :
    /\ a[1] = Awaited(t)
    /\ a[Len(sock[t]) + 1] = threads["client"][t].at
    /\ Chain(t, sock[t], a)

BatchInv == Shape /\ \A t \in Thread("server") : SamePart(t) => InOrder(t)

-----------------------------------------------------------------------------
(***************************************************************************)
(* The parts and the batches.                                              *)
(***************************************************************************)

\* Quotients and remainders by a positive number are integers, and so are
\* products.
LEMMA ArithInt ==
  ASSUME NEW x \in Int, NEW y \in Nat \ {0}
  PROVE  x \div y \in Int /\ x % y \in Int /\ x * y \in Int
  OBVIOUS

LEMMA CeilDivideInt ==
  ASSUME NEW x \in Int, NEW y \in Nat \ {0}
  PROVE  CeilDivide(x, y) \in Int
  BY ArithInt DEF CeilDivide

\* Both sides have threads, and the client one for each of the server's.
LEMMA ThreadCounts ==
  ASSUME setup \in Setups
  PROVE  /\ \A r \in Role : setup.threads[r] \in Nat \ {0} /\ \A t \in Thread(r) : t \in Nat
         /\ Thread("server") \subseteq Thread("client")
<1>1. /\ \A r \in Role : setup.threads[r] \in Nat \ {0}
      /\ setup.threads["server"] <= setup.threads["client"]
  BY OprgAssumption DEF Role
<1>2. "server" \in Role /\ "client" \in Role
  BY DEF Role
<1>3. Thread("server") \subseteq Thread("client")
  BY <1>1, <1>2 DEF Thread
<1> QED BY <1>1, <1>3 DEF Thread

\* The bounds of the parts and of the batches are numbers.
LEMMA PartsAreInts ==
  ASSUME setup \in Setups, NEW r \in Role, NEW t \in Thread(r), NEW i \in Int
  PROVE  /\ StartPos(r, t) \in Int /\ Lim(r, t) \in Int
         /\ BatchEnd(r, t, i) \in Int /\ OTsPerIteration(r, t, i) \in Int
<1>1. /\ {setup.bins, setup.bytes, setup.threads[r]} \subseteq Nat \ {0}
      /\ {RegisterBits, CodeWordBits, NumOtBlocks, Word} \subseteq Nat \ {0}
  BY ThreadCounts, OprgAssumption
<1>2. NumOTs \in Int
  BY <1>1 DEF NumOTs
<1>3. PadToMultiple(NumOTs, RegisterBits) \in Int
  <2>1. CeilDivide(NumOTs, RegisterBits) \in Int
    BY <1>1, <1>2, CeilDivideInt
  <2> HIDE DEF CeilDivide
  <2> QED BY <1>1, <2>1 DEF PadToMultiple
<1>4. Part(r) \in Int
  BY <1>1, <1>3, CeilDivideInt DEF Part
<1>5. t \in Int
  BY DEF Thread
<1>6. StartPos(r, t) \in Int
  <2>1. t * Part(r) \in Int
    BY <1>4, <1>5
  <2> DEFINE x == t * Part(r)
  <2>2. x \in Int
    BY <2>1
  <2> HIDE DEF x
  <2>3. x % Word \in Int
    BY <1>1, <2>2
  <2> QED BY <2>3 DEF StartPos, x
<1>7. MyNumOTs(r, t) \in Int
  <2>1. Least(Part(r) + StartPos(r, t), NumOTs) - StartPos(r, t) \in Int
    BY <1>2, <1>4, <1>6 DEF Least
  <2> DEFINE x == Least(Part(r) + StartPos(r, t), NumOTs) - StartPos(r, t)
  <2>2. x \in Int
    BY <2>1
  <2> HIDE DEF x
  <2>3. x % Word \in Int
    BY <1>1, <2>2
  <2> QED BY <2>3 DEF MyNumOTs, x
<1>8. Lim(r, t) \in Int
  <2> DEFINE x == StartPos(r, t) + MyNumOTs(r, t)
  <2>1. x \in Int
    BY <1>6, <1>7
  <2> HIDE DEF x
  <2>2. x % Word \in Int
    BY <1>1, <2>1
  <2> QED BY <2>2 DEF Lim, x
<1>9. OTsPerIteration(r, t, i) \in Int
  <2>1. CeilDivide(Lim(r, t) - i, CodeWordBits) \in Int
    BY <1>1, <1>8, CeilDivideInt
  <2> QED BY <1>1, <2>1 DEF OTsPerIteration, Least
<1>10. BatchEnd(r, t, i) \in Int
  BY <1>8, <1>9 DEF BatchEnd, Least
<1> QED BY <1>6, <1>8, <1>9, <1>10

LEMMA MatricesAre ==
  ASSUME setup \in Setups, NEW t \in Thread("client"), NEW i \in Int
  PROVE  Matrix(t, i) \in Batch
<1>1. PICK r \in Role : r = "client" /\ t \in Thread(r)
  BY DEF Role
<1>2. BatchEnd(r, t, i) \in Int /\ OTsPerIteration(r, t, i) \in Int
  BY <1>1, PartsAreInts
<1> QED BY <1>1, <1>2 DEF Matrix, Batch

\* They depend on the setup only, which never changes.
LEMMA SameParts ==
  ASSUME UNCHANGED setup
  PROVE  /\ \A r : Thread(r)' = Thread(r)
         /\ \A r, t : StartPos(r, t)' = StartPos(r, t) /\ Lim(r, t)' = Lim(r, t)
         /\ \A r, t, i : BatchEnd(r, t, i)' = BatchEnd(r, t, i)
         /\ \A t, i : Matrix(t, i)' = Matrix(t, i)
         /\ \A t : SamePart(t)' = SamePart(t)
         /\ \A t, q, a : Chain(t, q, a)' = Chain(t, q, a)
<1>1. NumOTs' = NumOTs /\ \A r : Part(r)' = Part(r) /\ Thread(r)' = Thread(r)
  BY DEF Thread, Part, NumOTs, PadToMultiple, CeilDivide
<1>2. \A r, t : StartPos(r, t)' = StartPos(r, t) /\ Lim(r, t)' = Lim(r, t)
  BY <1>1 DEF StartPos, Lim, MyNumOTs, Least
<1>3. \A r, t, i : /\ OTsPerIteration(r, t, i)' = OTsPerIteration(r, t, i)
                   /\ BatchEnd(r, t, i)' = BatchEnd(r, t, i)
  BY <1>2 DEF BatchEnd, OTsPerIteration, CeilDivide, Least
<1>4. \A t, i : Matrix(t, i)' = Matrix(t, i)
  BY <1>3 DEF Matrix
<1>5. \A t : SamePart(t)' = SamePart(t)
  BY <1>2 DEF SamePart
<1>6. \A t, q, a : Chain(t, q, a)' = Chain(t, q, a)
  <2> TAKE t, q, a
  <2> QED BY <1>3, <1>4 DEF Chain
<1> QED BY <1>1, <1>2, <1>3, <1>4, <1>5, <1>6

\* With the same part the batches are the same.
LEMMA SameBatches ==
  ASSUME NEW t, SamePart(t), NEW i
  PROVE  /\ BatchEnd("client", t, i) = BatchEnd("server", t, i)
         /\ OTsPerIteration("client", t, i) = OTsPerIteration("server", t, i)
<1>1. Lim("client", t) = Lim("server", t)
  BY DEF SamePart
<1>2. OTsPerIteration("client", t, i) = OTsPerIteration("server", t, i)
  BY <1>1, Zenon DEF OTsPerIteration
<1> QED BY <1>1, <1>2, Zenon DEF BatchEnd

\* Sides with one number of threads have the same parts.
LEMMA EqualThreads ==
  ASSUME setup.threads["client"] = setup.threads["server"], NEW t
  PROVE  SamePart(t)
<1>1. Part("client") = Part("server")
  BY Zenon DEF Part
<1>2. StartPos("client", t) = StartPos("server", t)
  BY <1>1, Zenon DEF StartPos
<1>3. MyNumOTs("client", t) = MyNumOTs("server", t)
  BY <1>1, <1>2, Zenon DEF MyNumOTs
<1> QED BY <1>2, <1>3, Zenon DEF Lim, SamePart

LEMMA SameChain ==
  ASSUME UNCHANGED setup, NEW t, NEW a, Chain(t, sock'[t], a)
  PROVE  Chain(t, sock[t], a)'
<1>1. PICK q : q = sock'[t]
  OBVIOUS
<1>2. Chain(t, q, a)
  BY <1>1
<1>3. Chain(t, q, a)'
  BY <1>2, SameParts
<1> QED BY <1>1, <1>3 DEF Chain

\* A step changes one or two fields of a thread and keeps it a thread.
SameBatch(x, th) == ThreadState(x) /\ x.at = th.at /\ x.phase = th.phase

LEMMA NewRead ==
  ASSUME NEW th, ThreadState(th), NEW m
  PROVE  SameBatch([th EXCEPT !.read = m], th)
  BY DEF ThreadState, SameBatch

LEMMA NewElement ==
  ASSUME NEW th, ThreadState(th), NEW u, NEW m
  PROVE  SameBatch([th EXCEPT !.u = u, !.read = m], th)
<1> DEFINE y == [th EXCEPT !.u = u]
<1>1. SameBatch(y, th)
  BY DEF ThreadState, SameBatch
<1> HIDE DEF y
<1>2. SameBatch([y EXCEPT !.read = m], y)
  BY <1>1, NewRead DEF SameBatch
<1>3. SameBatch([y EXCEPT !.read = m], th)
  BY <1>1, <1>2 DEF SameBatch
<1> QED BY <1>3 DEF y

LEMMA NewOT ==
  ASSUME NEW th, ThreadState(th), NEW o, NEW u, NEW m
  PROVE  SameBatch([th EXCEPT !.ot = o, !.u = u, !.read = m], th)
<1> DEFINE y == [th EXCEPT !.ot = o]
<1>1. SameBatch(y, th)
  BY DEF ThreadState, SameBatch
<1> HIDE DEF y
<1>2. SameBatch([y EXCEPT !.u = u, !.read = m], y)
  <2>1. ThreadState(y)
    BY <1>1 DEF SameBatch
  <2> QED BY <2>1, NewElement
<1>3. SameBatch([y EXCEPT !.u = u, !.read = m], th)
  BY <1>1, <1>2 DEF SameBatch
<1> QED BY <1>3 DEF y

MovedTo(y, i, ph) == ThreadState(y) /\ y.at = i /\ y.phase = ph

LEMMA NewPhase ==
  ASSUME NEW th, ThreadState(th), NEW ph
  PROVE  MovedTo([th EXCEPT !.phase = ph], th.at, ph)
  BY DEF ThreadState, MovedTo

LEMMA NewBatch ==
  ASSUME NEW th, ThreadState(th), NEW i \in Int, NEW ph
  PROVE  MovedTo([th EXCEPT !.at = i, !.phase = ph], i, ph)
<1> DEFINE y == [th EXCEPT !.at = i]
<1>1. ThreadState(y) /\ y.at = i
  BY DEF ThreadState
<1> HIDE DEF y
<1>2. MovedTo([y EXCEPT !.phase = ph], i, ph)
  BY <1>1, NewPhase
<1> QED BY <1>2 DEF y

\* An update of one thread touches no other.
LEMMA OneThread ==
  ASSUME Shape, NEW r \in Role, NEW t \in Thread(r), NEW x,
         threads' = [threads EXCEPT ![r][t] = x], UNCHANGED setup, ThreadState(x)
  PROVE  /\ threads'[r][t] = x
         /\ \A s \in Role : \A u \in Thread(s) : s # r \/ u # t => threads'[s][u] = threads[s][u]
         /\ threads' = [s \in Role |-> [u \in Thread(s) |-> threads'[s][u]]]
         /\ \A s \in Role : \A u \in Thread(s) : ThreadState(threads'[s][u])
<1>1. threads = [s \in Role |-> [u \in Thread(s) |-> threads[s][u]]]
  BY DEF Shape
<1>2. threads' = [s \in Role |-> [u \in Thread(s) |-> IF s = r /\ u = t THEN x ELSE threads[s][u]]]
  BY <1>1
<1>3. \A s \in Role : \A u \in Thread(s) : ThreadState(threads[s][u])
  BY DEF Shape
<1>4. \A s \in Role : \A u \in Thread(s) :
        threads'[s][u] = IF s = r /\ u = t THEN x ELSE threads[s][u]
  BY <1>2
<1>5. threads' = [s \in Role |-> [u \in Thread(s) |-> threads'[s][u]]]
  BY <1>2, <1>4
<1>6. \A s \in Role : \A u \in Thread(s) : ThreadState(threads'[s][u])
  <2> TAKE s \in Role
  <2> TAKE u \in Thread(s)
  <2>1. CASE s = r /\ u = t
    BY <1>4, <2>1
  <2>2. CASE ~(s = r /\ u = t)
    BY <1>3, <1>4, <2>2
  <2> QED BY <2>1, <2>2
<1> QED BY <1>4, <1>5, <1>6

\* What a step has to leave of the shape.
LEMMA ShapeKeeps ==
  ASSUME Shape, UNCHANGED setup,
         threads' = [s \in Role |-> [u \in Thread(s) |-> threads'[s][u]]],
         \A s \in Role : \A u \in Thread(s) : ThreadState(threads'[s][u]),
         sock' \in [Thread("client") -> Seq(Batch)]
  PROVE  Shape'
<1>1. (threads = [s \in Role |-> [u \in Thread(s) |-> threads[s][u]]])'
  BY SameParts DEF Role
<1>2. (\A s \in Role : \A u \in Thread(s) : ThreadState(threads[s][u]))'
  BY SameParts DEF Role
<1>3. (sock \in [Thread("client") -> Seq(Batch)])'
  <2>1. Thread("client")' = Thread("client")
    BY SameParts
  <2> QED BY <2>1
<1>4. setup' \in Setups
  BY DEF Shape
<1> QED BY <1>1, <1>2, <1>3, <1>4 DEF Shape

-----------------------------------------------------------------------------
(***************************************************************************)
(* The invariant, action by action.                                        *)
(***************************************************************************)
LEMMA InitBatches == Init => BatchInv
<1> SUFFICES ASSUME Init PROVE BatchInv
  OBVIOUS
<1>1. /\ setup \in Setups
      /\ threads = [r \in Role |-> [t \in Thread(r) |-> New(r, t)]]
      /\ sock = [t \in Thread("client") |-> << >>]
  BY DEF Init
<1>2. ASSUME NEW r \in Role, NEW t \in Thread(r)
      PROVE  /\ threads[r][t] = New(r, t)
             /\ ThreadState(threads[r][t])
             /\ threads[r][t].at = StartPos(r, t)
  <2>1. threads[r][t] = New(r, t)
    BY <1>1
  <2>2. StartPos(r, t) \in Int
    BY <1>1, PartsAreInts
  <2> HIDE DEF Role
  <2>3. New(r, t).at = StartPos(r, t) /\ ThreadState(New(r, t))
    BY <2>2 DEF New, ThreadState
  <2> QED BY <2>1, <2>3
<1>3. Shape
  BY <1>1, <1>2 DEF Shape
<1>4. ASSUME NEW t \in Thread("server"), SamePart(t) PROVE InOrder(t)
  <2>1. t \in Thread("client") /\ "client" \in Role /\ "server" \in Role
    BY <1>1, ThreadCounts DEF Role
  <2>2. sock[t] = << >> /\ Len(sock[t]) = 0
    BY <1>1, <2>1
  <2>3. /\ threads["server"][t] = New("server", t)
        /\ threads["server"][t].at = StartPos("server", t)
        /\ threads["client"][t].at = StartPos("client", t)
    BY <1>2, <2>1
  <2>4. New("server", t).phase # "expand"
    BY DEF New
  <2>5. StartPos("client", t) = StartPos("server", t) /\ StartPos("server", t) \in Int
    BY <1>1, <1>4, <2>1, PartsAreInts DEF SamePart
  <2>6. Awaited(t) = StartPos("server", t) /\ threads["client"][t].at = StartPos("server", t)
    BY <2>3, <2>4, <2>5 DEF Awaited
  <2> DEFINE a == [k \in 1 .. Len(sock[t]) + 1 |-> StartPos("server", t)]
  <2>7. a \in [1 .. Len(sock[t]) + 1 -> Int] /\ a[1] = StartPos("server", t)
    BY <2>2, <2>5
  <2>8. Chain(t, sock[t], a)
    BY <2>2 DEF Chain
  <2> HIDE DEF a
  <2> QED BY <2>2, <2>6, <2>7, <2>8 DEF InOrder
<1> QED BY <1>3, <1>4 DEF BatchInv

\* A thread that expands moves neither itself nor its socket.
LEMMA ExpandKeeps ==
  ASSUME BatchInv, NEW r \in Role, NEW t \in Thread(r),
         SkipEmpty(r, t) \/ XorRead(r, t) \/ XorWrite(r, t)
  PROVE  BatchInv'
<1>1. UNCHANGED <<setup, sock>>
  BY DEF SkipEmpty, XorRead, XorWrite
<1> DEFINE th == threads[r][t]
<1>2. ThreadState(th) /\ Shape
  BY DEF BatchInv, Shape
<1>3. PICK x : /\ threads' = [threads EXCEPT ![r][t] = x]
               /\ ThreadState(x) /\ x.at = th.at /\ x.phase = th.phase
  <2>1. SameBatch(Onward(r, t), th)
    BY <1>2, NewElement, NewOT DEF Onward
  <2>2. CASE SkipEmpty(r, t) \/ XorWrite(r, t)
    <3>1. threads' = [threads EXCEPT ![r][t] = Onward(r, t)]
      BY <2>2 DEF SkipEmpty, XorWrite
    <3> HIDE DEF th
    <3> QED BY <3>1, <2>1 DEF SameBatch
  <2>3. CASE XorRead(r, t)
    <3> DEFINE m == masks[r][MaskOf(r, t)]
               x == [th EXCEPT !.read = m]
    <3>1. threads' = [threads EXCEPT ![r][t].read = m]
      BY <2>3 DEF XorRead
    <3> HIDE DEF m
    <3>2. threads' = [threads EXCEPT ![r][t] = x]
      BY <3>1
    <3>3. ThreadState(x) /\ x.at = th.at /\ x.phase = th.phase
      BY <1>2, NewRead DEF SameBatch
    <3> HIDE DEF x
    <3> QED BY <3>2, <3>3
  <2> QED BY <2>2, <2>3
<1>4. \A s \in Role : \A u \in Thread(s) : /\ threads'[s][u].at = threads[s][u].at
                                    /\ threads'[s][u].phase = threads[s][u].phase
  BY <1>1, <1>2, <1>3, OneThread
<1>5. Shape'
  <2>1. /\ threads' = [s \in Role |-> [u \in Thread(s) |-> threads'[s][u]]]
        /\ \A s \in Role : \A u \in Thread(s) : ThreadState(threads'[s][u])
    BY <1>1, <1>2, <1>3, OneThread
  <2>2. sock' \in [Thread("client") -> Seq(Batch)]
    BY <1>1, <1>2 DEF Shape
  <2> QED BY <1>1, <1>2, <2>1, <2>2, ShapeKeeps
<1>6. \A u \in Thread("server") :
        Awaited(u)' = Awaited(u) /\ threads'["client"][u].at = threads["client"][u].at
  <2> TAKE u \in Thread("server")
  <2>1. /\ threads'["client"][u].at = threads["client"][u].at
        /\ threads'["server"][u].at = threads["server"][u].at
        /\ threads'["server"][u].phase = threads["server"][u].phase
    <3>1. u \in Thread("client") /\ "client" \in Role /\ "server" \in Role
      BY <1>2, ThreadCounts DEF Role, Shape
    <3> QED BY <1>4, <3>1
  <2> QED BY <1>1, <2>1, SameParts DEF Awaited
<1>7. \A u \in Thread("server") : SamePart(u) => InOrder(u)'
  BY <1>1, <1>6, SameParts DEF BatchInv, InOrder
<1> QED BY <1>1, <1>5, <1>7, SameParts DEF BatchInv

\* A batch that is done: the thread goes on where the batch ends.
LEMMA LoopedGoesOn ==
  ASSUME Shape, NEW r \in Role, NEW t \in Thread(r), NEW again
  PROVE  LET y == Looped(r, t, threads[r][t], again)
         IN  /\ ThreadState(y) /\ y.at = BatchEnd(r, t, threads[r][t].at)
             /\ y.phase \in {"finished", again}
<1> DEFINE th == threads[r][t]
           next == BatchEnd(r, t, th.at)
           ph == IF next >= Lim(r, t) THEN "finished" ELSE again
<1>1. ThreadState(th) /\ th.at \in Int /\ setup \in Setups
  BY DEF Shape, ThreadState
<1>2. next \in Int
  BY <1>1, PartsAreInts
<1>3. Looped(r, t, th, again) = [th EXCEPT !.at = next, !.phase = ph]
  BY DEF Looped
<1>4. ph \in {"finished", again}
  OBVIOUS
<1> HIDE DEF th, next, ph
<1>5. MovedTo([th EXCEPT !.at = next, !.phase = ph], next, ph)
  BY <1>1, <1>2, NewBatch
<1>6. LET y == Looped(r, t, th, again)
      IN  ThreadState(y) /\ y.at = next /\ y.phase \in {"finished", again}
  BY <1>3, <1>4, <1>5 DEF MovedTo
<1> QED BY <1>6 DEF th, next

\* A thread other than t is where it was, and so is its socket.
LEMMA OthersInOrder ==
  ASSUME BatchInv, NEW t, UNCHANGED setup,
         \A u \in Thread("server") : u # t => /\ sock'[u] = sock[u]
                                              /\ threads'["client"][u] = threads["client"][u]
                                              /\ threads'["server"][u] = threads["server"][u]
  PROVE  \A u \in Thread("server") : u # t /\ SamePart(u) => InOrder(u)'
<1>1. ASSUME NEW u \in Thread("server"), u # t, SamePart(u) PROVE InOrder(u)'
  <2>1. Awaited(u)' = Awaited(u)
    BY <1>1, SameParts DEF Awaited
  <2> QED BY <1>1, <2>1, SameParts DEF BatchInv, InOrder
<1> QED BY <1>1

\* The receiver thread adds its batch at the end of the chain.
LEMMA SendKeeps == ASSUME BatchInv, NEW t \in Thread("client"), SendBatch(t) PROVE BatchInv'
<1> DEFINE th == threads["client"][t]
           x == Looped("client", t, th, "expand")
           q == sock[t]
           next == BatchEnd("client", t, th.at)
<1>1. /\ sock' = [sock EXCEPT ![t] = Append(@, Matrix(t, th.at))]
      /\ threads' = [threads EXCEPT !["client"][t] = x]
      /\ UNCHANGED setup
  BY DEF SendBatch
<1>2. Shape /\ "client" \in Role /\ "server" \in Role /\ setup \in Setups
  BY DEF BatchInv, Shape, Role
<1>3. ThreadState(th) /\ th.at \in Int
  BY <1>2 DEF Shape, ThreadState
<1>4. ThreadState(x) /\ x.at = next
  BY <1>2, LoopedGoesOn
<1>5. next \in Int /\ Matrix(t, th.at) \in Batch
  BY <1>2, <1>3, PartsAreInts, MatricesAre
<1> HIDE DEF x
<1>6. /\ threads'["client"][t] = x
      /\ t \in Thread("server") => threads'["server"][t] = threads["server"][t]
      /\ \A s \in Role : \A u \in Thread(s) : u # t => threads'[s][u] = threads[s][u]
      /\ threads' = [s \in Role |-> [u \in Thread(s) |-> threads'[s][u]]]
      /\ \A s \in Role : \A u \in Thread(s) : ThreadState(threads'[s][u])
  <2>1. PICK r \in Role : r = "client" /\ t \in Thread(r)
    BY <1>2
  <2>2. threads' = [threads EXCEPT ![r][t] = x]
    BY <1>1, <2>1
  <2>3. Shape /\ UNCHANGED setup /\ ThreadState(x)
    BY <1>1, <1>2, <1>4
  <2>4. threads'[r][t] = x
    BY <2>1, <2>2, <2>3 DEF Shape
  <2>5. \A s \in Role : \A u \in Thread(s) : s # r \/ u # t => threads'[s][u] = threads[s][u]
    BY <2>1, <2>2, <2>3, OneThread
  <2>6. threads' = [s \in Role |-> [u \in Thread(s) |-> threads'[s][u]]]
    BY <2>1, <2>2, <2>3, OneThread
  <2>7. \A s \in Role : \A u \in Thread(s) : ThreadState(threads'[s][u])
    BY <2>1, <2>2, <2>3, OneThread
  <2> QED BY <1>2, <2>1, <2>4, <2>5, <2>6, <2>7
<1>7. q \in Seq(Batch) /\ sock \in [Thread("client") -> Seq(Batch)]
  BY <1>2 DEF Shape
<1>8. sock' \in [Thread("client") -> Seq(Batch)] /\ sock'[t] = Append(q, Matrix(t, th.at))
      /\ \A u \in Thread("client") : u # t => sock'[u] = sock[u]
  BY <1>1, <1>5, <1>7
<1>9. Shape'
  BY <1>1, <1>2, <1>6, <1>8, ShapeKeeps
<1>10. ASSUME t \in Thread("server"), SamePart(t) PROVE InOrder(t)'
  <2>1. Awaited(t)' = Awaited(t)
    BY <1>1, <1>6, <1>10, SameParts DEF Awaited
  <2>2. PICK a \in [1 .. Len(q) + 1 -> Int] :
          a[1] = Awaited(t) /\ a[Len(q) + 1] = th.at /\ Chain(t, q, a)
    BY <1>10 DEF BatchInv, InOrder
  <2> DEFINE n == Len(q)
  <2>3. n \in Nat /\ Len(sock'[t]) = n + 1
    BY <1>7, <1>8
  <2> PICK b : b = [k \in 1 .. n + 2 |-> IF k = n + 2 THEN next ELSE a[k]]
    OBVIOUS
  <2>4. b \in [1 .. Len(sock'[t]) + 1 -> Int] /\ b[1] = Awaited(t) /\ b[Len(sock'[t]) + 1] = next
    BY <1>5, <2>2, <2>3
  <2>5. Chain(t, sock'[t], b)
    <3> SUFFICES ASSUME NEW k \in 1 .. n + 1
                 PROVE  sock'[t][k] = Matrix(t, b[k]) /\ b[k + 1] = BatchEnd("client", t, b[k])
      BY <2>3 DEF Chain
    <3>1. CASE k = n + 1
      <4>1. sock'[t][k] = Matrix(t, th.at)
        BY <1>7, <1>8, <3>1
      <4>2. b[k] = th.at /\ b[k + 1] = next
        BY <2>2, <2>3, <3>1
      <4> QED BY <4>1, <4>2
    <3>2. CASE k \in 1 .. n
      <4>1. sock'[t][k] = q[k]
        BY <1>7, <1>8, <3>2
      <4>2. b[k] = a[k] /\ b[k + 1] = a[k + 1]
        BY <2>3, <3>2
      <4> QED BY <2>2, <3>2, <4>1, <4>2 DEF Chain
    <3> QED BY <2>3, <3>1, <3>2
  <2>6. b[1] = Awaited(t)' /\ b[Len(sock'[t]) + 1] = threads'["client"][t].at
    BY <1>4, <1>6, <2>1, <2>4
  <2>7. Chain(t, sock[t], b)'
    BY <1>1, <2>5, SameChain
  <2> QED BY <2>4, <2>6, <2>7 DEF InOrder
<1>11. \A u \in Thread("server") : SamePart(u) => InOrder(u)'
  <2>1. \A u \in Thread("server") : u # t => /\ sock'[u] = sock[u]
                                             /\ threads'["client"][u] = threads["client"][u]
                                             /\ threads'["server"][u] = threads["server"][u]
    BY <1>2, <1>6, <1>8, ThreadCounts
  <2>2. \A u \in Thread("server") : u # t /\ SamePart(u) => InOrder(u)'
    BY <1>1, <2>1, OthersInOrder
  <2> QED BY <1>10, <2>2
<1> QED BY <1>1, <1>9, <1>11, SameParts DEF BatchInv

\* What is left of a matrix, if anything is, is one, in front of the others.
LEMMA RestIsBatch ==
  ASSUME NEW m \in Batch, NEW n \in Int, NEW q \in Seq(Batch)
  PROVE  /\ Rest(m, n) \o q \in Seq(Batch)
         /\ m.size = n => Rest(m, n) \o q = q
<1>1. CASE m.size = n
  <2>1. Rest(m, n) = << >>
    BY <1>1 DEF Rest
  <2> QED BY <1>1, <2>1
<1>2. CASE m.size # n
  <2> DEFINE z == [m EXCEPT !.size = m.size - n]
  <2>1. z \in Batch
    BY DEF Batch
  <2>2. Rest(m, n) = <<z>>
    BY <1>2 DEF Rest
  <2> HIDE DEF z
  <2> QED BY <1>2, <2>1, <2>2
<1> QED BY <1>1, <1>2

\* The sender thread takes the first batch of the chain: it is its own.
LEMMA ReceiveKeeps == ASSUME BatchInv, NEW t \in Thread("server"), ReceiveBatch(t) PROVE BatchInv'
<1> DEFINE th == threads["server"][t]
           x == [th EXCEPT !.phase = "expand"]
           q == sock[t]
<1>1. /\ sock' = [sock EXCEPT ![t] = Rest(q[1], Wanted(t)) \o Tail(q)] /\ q # << >>
      /\ threads' = [threads EXCEPT !["server"][t] = x]
      /\ UNCHANGED setup /\ th.phase = "receive"
  BY DEF ReceiveBatch, Running
<1>2. Shape /\ "client" \in Role /\ "server" \in Role /\ setup \in Setups
  BY DEF BatchInv, Shape, Role
<1>3. ThreadState(th)
  BY <1>2 DEF Shape
<1>4. ThreadState(x) /\ x.at = th.at /\ x.phase = "expand"
  <2> HIDE DEF th
  <2> QED BY <1>3, NewPhase DEF MovedTo
<1> HIDE DEF x
<1>5. /\ threads'["server"][t] = x /\ threads'["client"][t] = threads["client"][t]
      /\ \A s \in Role : \A u \in Thread(s) : u # t => threads'[s][u] = threads[s][u]
      /\ threads' = [s \in Role |-> [u \in Thread(s) |-> threads'[s][u]]]
      /\ \A s \in Role : \A u \in Thread(s) : ThreadState(threads'[s][u])
  <2>1. PICK r \in Role : r = "server" /\ t \in Thread(r) /\ t \in Thread("client")
    BY <1>2, ThreadCounts DEF Shape
  <2>2. threads' = [threads EXCEPT ![r][t] = x]
    BY <1>1, <2>1
  <2>3. Shape /\ UNCHANGED setup /\ ThreadState(x)
    BY <1>1, <1>2, <1>4
  <2>4. threads'[r][t] = x
    BY <2>1, <2>2, <2>3 DEF Shape
  <2>5. \A s \in Role : \A u \in Thread(s) : s # r \/ u # t => threads'[s][u] = threads[s][u]
    BY <2>1, <2>2, <2>3, OneThread
  <2>6. threads' = [s \in Role |-> [u \in Thread(s) |-> threads'[s][u]]]
    BY <2>1, <2>2, <2>3, OneThread
  <2>7. \A s \in Role : \A u \in Thread(s) : ThreadState(threads'[s][u])
    BY <2>1, <2>2, <2>3, OneThread
  <2> QED BY <1>2, <2>1, <2>4, <2>5, <2>6, <2>7
<1>6. /\ q \in Seq(Batch) /\ q[1] \in Batch /\ Tail(q) \in Seq(Batch)
      /\ sock \in [Thread("client") -> Seq(Batch)] /\ t \in Thread("client")
  <2>1. t \in Thread("client") /\ sock \in [Thread("client") -> Seq(Batch)]
    BY <1>2, ThreadCounts DEF Shape
  <2>2. q \in Seq(Batch)
    BY <2>1
  <2> QED BY <1>1, <2>1, <2>2
<1>7. Wanted(t) \in Int
  <2>1. th.at \in Int
    BY <1>3 DEF ThreadState
  <2> QED BY <1>2, <2>1, PartsAreInts DEF Wanted
<1> DEFINE z == Rest(q[1], Wanted(t)) \o Tail(q)
<1>8. z \in Seq(Batch) /\ (q[1].size = Wanted(t) => z = Tail(q))
  <2> HIDE DEF q
  <2> QED BY <1>6, <1>7, RestIsBatch
<1> HIDE DEF z
<1>9. sock' \in [Thread("client") -> Seq(Batch)] /\ sock'[t] = z
      /\ \A u \in Thread("client") : u # t => sock'[u] = sock[u]
  <2>1. sock' = [sock EXCEPT ![t] = z]
    BY <1>1 DEF z
  <2> QED BY <1>6, <1>8, <2>1
<1>10. Shape'
  BY <1>1, <1>2, <1>5, <1>9, ShapeKeeps
<1>11. ASSUME SamePart(t) PROVE InOrder(t)'
  <2>1. Awaited(t) = th.at /\ Awaited(t)' = BatchEnd("client", t, th.at)
    <3>1. BatchEnd("server", t, th.at) = BatchEnd("client", t, th.at)
      BY <1>11, SameBatches
    <3> QED BY <1>1, <1>4, <1>5, <3>1, SameParts DEF Awaited
  <2>2. PICK a \in [1 .. Len(q) + 1 -> Int] :
          a[1] = Awaited(t) /\ a[Len(q) + 1] = threads["client"][t].at /\ Chain(t, q, a)
    BY <1>11 DEF BatchInv, InOrder
  <2> DEFINE n == Len(q)
  <2>3. n \in Nat /\ n > 0
    BY <1>1, <1>6
  <2>4. q[1] = Matrix(t, th.at) /\ a[2] = BatchEnd("client", t, a[1])
    BY <2>1, <2>2, <2>3 DEF Chain
  <2>5. q[1].size = Wanted(t)
    <3>1. OTsPerIteration("client", t, th.at) = OTsPerIteration("server", t, th.at)
      BY <1>11, SameBatches
    <3>2. q[1].size = OTsPerIteration("client", t, th.at)
      BY <2>4 DEF Matrix
    <3> QED BY <3>1, <3>2 DEF Wanted
  <2>6. sock'[t] = Tail(q) /\ Len(sock'[t]) = n - 1
    BY <1>1, <1>6, <1>8, <1>9, <2>5
  <2> PICK b : b = [k \in 1 .. n |-> a[k + 1]]
    OBVIOUS
  <2>7. b \in [1 .. Len(sock'[t]) + 1 -> Int] /\ b[1] = BatchEnd("client", t, th.at)
        /\ b[Len(sock'[t]) + 1] = threads["client"][t].at
    BY <2>1, <2>2, <2>3, <2>4, <2>6
  <2>8. Chain(t, sock'[t], b)
    <3> SUFFICES ASSUME NEW k \in 1 .. n - 1
                 PROVE  sock'[t][k] = Matrix(t, b[k]) /\ b[k + 1] = BatchEnd("client", t, b[k])
      BY <2>6 DEF Chain
    <3>1. sock'[t][k] = q[k + 1]
      BY <1>1, <1>6, <2>3, <2>6
    <3>2. b[k] = a[k + 1] /\ b[k + 1] = a[(k + 1) + 1] /\ k + 1 \in 1 .. Len(q)
      BY <2>3
    <3>3. q[k + 1] = Matrix(t, a[k + 1]) /\ a[(k + 1) + 1] = BatchEnd("client", t, a[k + 1])
      BY <2>2, <3>2 DEF Chain
    <3> QED BY <3>1, <3>2, <3>3
  <2>9. b[1] = Awaited(t)' /\ b[Len(sock'[t]) + 1] = threads'["client"][t].at
    BY <1>5, <2>1, <2>7
  <2>10. Chain(t, sock[t], b)'
    BY <1>1, <2>8, SameChain
  <2> QED BY <2>7, <2>9, <2>10 DEF InOrder
<1>12. \A u \in Thread("server") : SamePart(u) => InOrder(u)'
  <2>1. \A u \in Thread("server") : u # t => /\ sock'[u] = sock[u]
                                             /\ threads'["client"][u] = threads["client"][u]
                                             /\ threads'["server"][u] = threads["server"][u]
    BY <1>2, <1>5, <1>9, ThreadCounts
  <2>2. \A u \in Thread("server") : u # t /\ SamePart(u) => InOrder(u)'
    BY <1>1, <2>1, OthersInOrder
  <2> QED BY <1>11, <2>2
<1> QED BY <1>1, <1>10, <1>12, SameParts DEF BatchInv

\* The sender thread, done with its batch, waits for the one after it.
LEMMA LoopKeeps == ASSUME BatchInv, NEW t \in Thread("server"), LoopServer(t) PROVE BatchInv'
<1> DEFINE th == threads["server"][t]
           x == Looped("server", t, th, "receive")
<1>1. /\ UNCHANGED <<setup, sock>> /\ th.phase = "expand"
      /\ threads' = [threads EXCEPT !["server"][t] = x]
  BY DEF LoopServer, BatchDone, Running
<1>2. Shape /\ "client" \in Role /\ "server" \in Role
  BY DEF BatchInv, Shape, Role
<1>3. ThreadState(x) /\ x.at = BatchEnd("server", t, th.at) /\ x.phase \in {"finished", "receive"}
  BY <1>2, LoopedGoesOn
<1> HIDE DEF x
<1>4. /\ threads'["server"][t] = x /\ threads'["client"][t] = threads["client"][t]
      /\ \A s \in Role : \A u \in Thread(s) : u # t => threads'[s][u] = threads[s][u]
      /\ threads' = [s \in Role |-> [u \in Thread(s) |-> threads'[s][u]]]
      /\ \A s \in Role : \A u \in Thread(s) : ThreadState(threads'[s][u])
  <2>1. PICK r \in Role : r = "server" /\ t \in Thread(r) /\ t \in Thread("client")
    BY <1>2, ThreadCounts DEF Shape
  <2>2. threads' = [threads EXCEPT ![r][t] = x]
    BY <1>1, <2>1
  <2>3. Shape /\ UNCHANGED setup /\ ThreadState(x)
    BY <1>1, <1>2, <1>3
  <2>4. threads'[r][t] = x
    BY <2>1, <2>2, <2>3 DEF Shape
  <2>5. \A s \in Role : \A u \in Thread(s) : s # r \/ u # t => threads'[s][u] = threads[s][u]
    BY <2>1, <2>2, <2>3, OneThread
  <2>6. threads' = [s \in Role |-> [u \in Thread(s) |-> threads'[s][u]]]
    BY <2>1, <2>2, <2>3, OneThread
  <2>7. \A s \in Role : \A u \in Thread(s) : ThreadState(threads'[s][u])
    BY <2>1, <2>2, <2>3, OneThread
  <2> QED BY <1>2, <2>1, <2>4, <2>5, <2>6, <2>7
<1>5. Shape'
  <2>1. sock' \in [Thread("client") -> Seq(Batch)]
    BY <1>1, <1>2 DEF Shape
  <2> QED BY <1>1, <1>2, <1>4, <2>1, ShapeKeeps
<1>6. Awaited(t)' = Awaited(t)
  BY <1>1, <1>3, <1>4, SameParts DEF Awaited
<1>7. SamePart(t) => InOrder(t)'
  BY <1>1, <1>4, <1>6, SameParts DEF BatchInv, InOrder
<1>8. \A u \in Thread("server") : SamePart(u) => InOrder(u)'
  <2>1. \A u \in Thread("server") : u # t => /\ sock'[u] = sock[u]
                                             /\ threads'["client"][u] = threads["client"][u]
                                             /\ threads'["server"][u] = threads["server"][u]
    BY <1>1, <1>2, <1>4, ThreadCounts DEF Shape
  <2>2. \A u \in Thread("server") : u # t /\ SamePart(u) => InOrder(u)'
    BY <1>1, <2>1, OthersInOrder
  <2> QED BY <1>7, <2>2
<1> QED BY <1>1, <1>5, <1>8, SameParts DEF BatchInv

LEMMA RestKeeps == ASSUME BatchInv, UNCHANGED <<setup, threads, sock>> PROVE BatchInv'
<1>1. Shape'
  BY SameParts DEF BatchInv, Shape
<1>2. \A t : Awaited(t)' = Awaited(t)
  BY SameParts DEF Awaited
<1>3. \A t \in Thread("server") : SamePart(t) => InOrder(t)'
  BY <1>2, SameParts DEF BatchInv, InOrder
<1> QED BY <1>1, <1>3, SameParts DEF BatchInv

\* However the threads run, what is on the socket of a thread that has the same
\* part on both sides (SamePart) stays such a chain of matrices.
THEOREM BatchInductive == Spec => []BatchInv
<1>1. ASSUME BatchInv, [Next]_vars PROVE BatchInv'
  <2>1. CASE Work
    <3>1. PICK r \in Role : \E t \in Thread(r) : Step(r, t)
      BY <2>1 DEF Work
    <3>2. PICK t \in Thread(r) : Step(r, t)
      BY <3>1
    <3> QED BY <1>1, <3>2, ExpandKeeps, SendKeeps, ReceiveKeeps, LoopKeeps DEF Step
  <2>2. CASE \E t \in Thread("server") : Overrun(t)
    BY <1>1, <2>2, RestKeeps DEF Overrun
  <2>3. CASE UNCHANGED vars
    BY <1>1, <2>3, RestKeeps DEF vars
  <2> QED BY <1>1, <2>1, <2>2, <2>3 DEF Next
<1> QED BY <1>1, InitBatches, PTL DEF Spec

\* However the threads of the two sides run, the matrix that a sender thread with
\* the same part on both sides finds on its socket is the one of the batch it is
\* in, and as long as it expects; EqualThreads says that all threads are such when
\* the sides have the same number of them.
THEOREM BatchesAlwaysMatch == Spec => []BatchesMatch
<1>1. ASSUME BatchInv, NEW t \in Thread("server"), SamePart(t),
             Running("server", t, "receive"), sock[t] # << >>
      PROVE  LET i == threads["server"][t].at
             IN  /\ Head(sock[t]).ots = i .. BatchEnd("server", t, i) - 1
                 /\ Head(sock[t]).size = Wanted(t)
  <2> DEFINE i == threads["server"][t].at
             q == sock[t]
  <2>1. Awaited(t) = i
    BY <1>1 DEF Running, Awaited
  <2>2. PICK a \in [1 .. Len(q) + 1 -> Int] : a[1] = i /\ Chain(t, q, a)
    BY <1>1, <2>1 DEF BatchInv, InOrder
  <2>3. q \in Seq(Batch) /\ 1 \in 1 .. Len(q) /\ Head(q) = q[1]
    <3>1. q \in Seq(Batch)
      BY <1>1, ThreadCounts DEF BatchInv, Shape
    <3> QED BY <1>1, <3>1
  <2>4. Head(q) = Matrix(t, i)
    BY <2>2, <2>3 DEF Chain
  <2>5. BatchEnd("client", t, i) = BatchEnd("server", t, i) /\ Wanted(t) = OTsPerIteration("client", t, i)
    BY <1>1, SameBatches DEF Wanted
  <2> HIDE DEF i, q
  <2>6. /\ Head(q).ots = i .. BatchEnd("client", t, i) - 1
        /\ Head(q).size = OTsPerIteration("client", t, i)
    BY <2>4 DEF Matrix
  <2> QED BY <2>5, <2>6 DEF i, q
<1>2. BatchInv => BatchesMatch
  BY <1>1 DEF BatchesMatch
<1> QED BY <1>2, BatchInductive, PTL

-----------------------------------------------------------------------------
(***************************************************************************)
(* The arithmetic of the parts.                                            *)
(***************************************************************************)
LEMMA DivMod ==
  ASSUME NEW x \in Nat, NEW y \in Nat \ {0}
  PROVE  x \div y \in Nat /\ y * (x \div y) <= x /\ x < y * (x \div y) + y
  OBVIOUS

LEMMA SmallMod == ASSUME NEW x \in Nat, NEW w \in Nat \ {0}, x < w PROVE x % w = x
  OBVIOUS

LEMMA NegativeMod ==
  ASSUME NEW x \in Int, NEW w \in Nat \ {0}, x < 0, 0 <= x + w PROVE x % w = x + w
  OBVIOUS

LEMMA Products ==
  ASSUME NEW x \in Nat, NEW y \in Nat, NEW z \in Nat
  PROVE  x * z \in Nat /\ (x + 1) * z = x * z + z /\ (x <= y => x * z <= y * z) /\ x * z = z * x
  OBVIOUS

\* A quotient that is rounded up is the least that is enough.
LEMMA CeilDivideIs ==
  ASSUME NEW x \in Nat \ {0}, NEW y \in Nat \ {0}
  PROVE  /\ CeilDivide(x, y) \in Nat \ {0}
         /\ x <= y * CeilDivide(x, y) /\ y * CeilDivide(x, y) < x + y
<1>1. x - 1 \in Nat
  OBVIOUS
<1> DEFINE q == (x - 1) \div y
<1>2. q \in Nat /\ y * q <= x - 1 /\ x - 1 < y * q + y
  BY <1>1, DivMod
<1>3. CeilDivide(x, y) = q + 1
  BY DEF CeilDivide
<1> HIDE DEF q
<1>4. y * (q + 1) = y * q + y /\ y * q \in Nat
  BY <1>2, Products
<1> QED BY <1>2, <1>3, <1>4

\* Nothing wraps around but the number of OTs of a part that starts behind the
\* last OT, and that part is empty.
LEMMA PartsAre ==
  ASSUME setup \in Setups, NEW r \in Role, NEW t \in Thread(r)
  PROVE  /\ NumOTs \in Nat \ {0} /\ Part(r) \in Nat \ {0}
         /\ StartPos(r, t) = t * Part(r) /\ StartPos(r, t) \in Nat
         /\ Lim(r, t) = Least(StartPos(r, t) + Part(r), NumOTs)
<1>1. /\ {setup.bins, setup.bytes, setup.threads[r]} \subseteq Nat \ {0}
      /\ {RegisterBits, CodeWordBits, NumOtBlocks, Word} \subseteq Nat \ {0}
      /\ NumOTs + RegisterBits + setup.threads[r] <= Word
  BY ThreadCounts, OprgAssumption, WordAssumption DEF NumOTs, Role
<1>2. NumOTs \in Nat \ {0}
  BY SMTT(30), <1>1 DEF NumOTs
<1> DEFINE D == PadToMultiple(NumOTs, RegisterBits)
            T == setup.threads[r]
<1>3. D \in Nat \ {0} /\ NumOTs <= D /\ D < NumOTs + RegisterBits
  <2> DEFINE c == CeilDivide(NumOTs, RegisterBits)
  <2>1. c \in Nat \ {0} /\ NumOTs <= RegisterBits * c /\ RegisterBits * c < NumOTs + RegisterBits
    BY <1>1, <1>2, CeilDivideIs
  <2>2. D = c * RegisterBits
    BY DEF PadToMultiple
  <2> HIDE DEF c, D
  <2> QED BY <1>1, <1>2, <2>1, <2>2, Products
<1> HIDE DEF D
<1>4. Part(r) \in Nat \ {0} /\ D <= T * Part(r) /\ T * Part(r) < D + T
  BY <1>1, <1>3, CeilDivideIs DEF Part, D
<1>5. t \in Nat /\ t < T /\ T \in Nat
  BY <1>1 DEF Thread
<1>6. t * Part(r) \in Nat /\ t * Part(r) < Word
  BY <1>1, <1>2, <1>3, <1>4, <1>5, Products
<1>7. StartPos(r, t) = t * Part(r)
  BY <1>1, <1>6, SmallMod DEF StartPos
<1> DEFINE e == Least(Part(r) + StartPos(r, t), NumOTs)
<1>8. e \in Nat /\ e <= NumOTs /\ e < Word
  BY <1>1, <1>2, <1>4, <1>6, <1>7 DEF Least
<1>9. e = Least(StartPos(r, t) + Part(r), NumOTs)
  BY <1>4, <1>6, <1>7 DEF Least
<1>10. Lim(r, t) = e
  <2>1. CASE StartPos(r, t) <= e
    <3>1. MyNumOTs(r, t) = e - StartPos(r, t)
      <4> DEFINE x == e - StartPos(r, t)
      <4>1. x \in Nat /\ x < Word
        BY <1>1, <1>6, <1>7, <1>8, <2>1
      <4>2. MyNumOTs(r, t) = x % Word
        BY DEF MyNumOTs
      <4> HIDE DEF x, e
      <4>3. x % Word = x
        BY <1>1, <4>1, SmallMod
      <4> QED BY <4>2, <4>3 DEF x
    <3> HIDE DEF e
    <3>2. StartPos(r, t) + MyNumOTs(r, t) = e
      BY <3>1, <1>6, <1>7, <1>8
    <3> QED BY <1>1, <1>8, <3>2, SmallMod DEF Lim
  <2>2. CASE e < StartPos(r, t)
    <3> DEFINE x == e - StartPos(r, t)
    <3>1. x \in Int /\ x < 0 /\ 0 <= x + Word
      BY <1>1, <1>6, <1>7, <1>8, <2>2
    <3>2. MyNumOTs(r, t) = x % Word
      BY DEF MyNumOTs
    <3> HIDE DEF x, e
    <3>3. x % Word = x + Word
      BY <1>1, <3>1, NegativeMod
    <3>4. StartPos(r, t) + MyNumOTs(r, t) = e + Word
      BY <1>1, <1>6, <1>7, <1>8, <3>2, <3>3 DEF x
    <3>5. (e + Word) % Word = e
      BY <1>1, <1>8
    <3> QED BY <3>4, <3>5 DEF Lim
  <2> QED BY <1>6, <1>7, <1>8, <2>1, <2>2
<1> QED BY <1>2, <1>4, <1>6, <1>7, <1>9, <1>10

\* Every OT is in the part of a thread.
LEMMA EveryOT ==
  ASSUME setup \in Setups, NEW r \in Role, NEW o \in 0 .. NumOTs - 1
  PROVE  \E t \in Thread(r) : o \in StartPos(r, t) .. Lim(r, t) - 1
<1>1. /\ NumOTs \in Nat \ {0} /\ setup.threads[r] \in Nat \ {0} /\ setup.bins \in Nat \ {0}
      /\ RegisterBits \in Nat \ {0} /\ o \in Nat /\ o < NumOTs
  <2>1. setup.threads[r] \in Nat \ {0} /\ 0 \in Thread(r)
    BY ThreadCounts DEF Thread
  <2>2. NumOTs \in Nat \ {0}
    BY <2>1, PartsAre
  <2> QED BY <2>1, <2>2, OprgAssumption
<1>2. Part(r) \in Nat \ {0} /\ NumOTs <= setup.threads[r] * Part(r)
  <2> DEFINE c == CeilDivide(NumOTs, RegisterBits)
              D == PadToMultiple(NumOTs, RegisterBits)
  <2>1. c \in Nat \ {0} /\ NumOTs <= RegisterBits * c
    BY <1>1, CeilDivideIs
  <2>2. D = c * RegisterBits
    BY DEF PadToMultiple
  <2> HIDE DEF c, D
  <2>3. D \in Nat \ {0} /\ NumOTs <= D
    BY <1>1, <2>1, <2>2, Products
  <2>4. Part(r) \in Nat \ {0} /\ D <= setup.threads[r] * Part(r)
    BY <1>1, <2>3, CeilDivideIs DEF Part, D
  <2> QED BY <1>1, <2>3, <2>4, Products
<1> DEFINE t == o \div Part(r)
<1>3. t \in Nat /\ Part(r) * t <= o /\ o < Part(r) * t + Part(r)
  BY <1>1, <1>2, DivMod
<1> HIDE DEF t
<1>4. t < setup.threads[r]
  <2>1. SUFFICES ASSUME setup.threads[r] <= t PROVE FALSE
    BY <1>1, <1>3
  <2>2. setup.threads[r] * Part(r) <= t * Part(r) /\ t * Part(r) = Part(r) * t
    BY <1>1, <1>2, <1>3, <2>1, Products
  <2> QED BY <1>1, <1>2, <1>3, <2>2, Products
<1>5. t \in Thread(r)
  BY <1>1, <1>3, <1>4 DEF Thread
<1>6. /\ StartPos(r, t) = t * Part(r) /\ StartPos(r, t) \in Nat
      /\ Lim(r, t) = Least(StartPos(r, t) + Part(r), NumOTs)
  BY <1>5, PartsAre
<1>7. StartPos(r, t) <= o /\ o < StartPos(r, t) + Part(r)
  BY <1>2, <1>3, <1>6, Products
<1>8. o < Lim(r, t)
  BY <1>1, <1>2, <1>6, <1>7 DEF Least
<1> QED BY <1>1, <1>5, <1>6, <1>7, <1>8, <1>2 DEF Least

\* The OTs of a bin.
LEMMA BinOfOT ==
  ASSUME setup \in Setups, NEW o \in Nat, o < NumOTs
  PROVE  /\ o \div setup.bytes \in Bin
         /\ \A b \in Bin : o \in OtsOf(b) <=> b = o \div setup.bytes
<1>1. setup.bytes \in Nat \ {0} /\ setup.bins \in Nat \ {0}
  BY OprgAssumption
<1> DEFINE q == o \div setup.bytes
            B == setup.bytes
<1>2. q \in Nat /\ B * q <= o /\ o < B * q + B
  BY <1>1, DivMod
<1> HIDE DEF q, B
<1>3. B \in Nat \ {0} /\ o < setup.bins * B
  BY <1>1 DEF B, NumOTs
<1>4. q < setup.bins
  <2>1. SUFFICES ASSUME setup.bins <= q PROVE FALSE
    BY <1>1, <1>2
  <2>2. setup.bins * B <= q * B /\ q * B = B * q
    BY <1>1, <1>2, <1>3, <2>1, Products
  <2> QED BY <1>1, <1>2, <1>3, <2>2, Products
<1>5. q \in Bin
  BY <1>1, <1>2, <1>4 DEF Bin
<1>6. ASSUME NEW b \in Bin PROVE o \in OtsOf(b) <=> b = q
  <2>1. b \in Nat /\ b * B \in Nat /\ (b + 1) * B = b * B + B /\ q * B = B * q
    BY <1>1, <1>2, <1>3, Products DEF Bin
  <2>2. o \in OtsOf(b) <=> b * B <= o /\ o < b * B + B
    BY <1>3, <2>1 DEF OtsOf, B
  <2>3. CASE b < q
    <3>1. (b + 1) * B <= q * B
      BY <1>2, <1>3, <2>1, <2>3, Products
    <3> QED BY <1>2, <1>3, <2>1, <2>2, <2>3, <3>1
  <2>4. CASE q < b
    <3>1. (q + 1) * B <= b * B /\ (q + 1) * B = q * B + B
      BY <1>2, <1>3, <2>1, <2>4, Products
    <3> QED BY <1>2, <1>3, <2>1, <2>2, <2>4, <3>1
  <2>5. CASE b = q
    BY <1>2, <1>3, <2>1, <2>2, <2>5
  <2> QED BY <1>2, <2>1, <2>3, <2>4, <2>5
<1> QED BY <1>5, <1>6 DEF q

-----------------------------------------------------------------------------
(***************************************************************************)
(* Where the masks of a bin lie.                                           *)
(***************************************************************************)

\* The recursion of StartingPosForBin, with its function named.
Start(r, b, s) == s = [i \in 0 .. b |-> IF i = 0 THEN 0 ELSE s[i - 1] + NumEleInBin(r, i - 1)]

LEMMA LowestOf ==
  ASSUME NEW S, S \subseteq Nat, S # {}
  PROVE  \E n \in S : \A m \in S : n <= m
<1>1. IsWellFoundedOn(OpToRel(<, Nat), Nat)
  BY NatLessThanWellFounded
<1>2. PICK n \in S : \A m \in S : <<m, n>> \notin OpToRel(<, Nat)
  BY <1>1, WFMin
<1>3. ASSUME NEW m \in S PROVE n <= m
  <2>1. m \in Nat /\ n \in Nat
    OBVIOUS
  <2>2. <<m, n>> \notin {ss \in Nat \X Nat : ss[1] < ss[2]}
    BY <1>2 DEF OpToRel
  <2>3. ~(m < n)
    BY <2>1, <2>2
  <2> QED BY <2>1, <2>3
<1> QED BY <1>3

\* There is such a function, for every number of bins.
LEMMA StartExists ==
  ASSUME NEW r, NEW b \in Nat
  PROVE  \E s : Start(r, b, s)
<1> DEFINE S == {n \in Nat : ~ \E s : Start(r, n, s)}
<1>1. SUFFICES ASSUME S # {} PROVE FALSE
  OBVIOUS
<1>2. PICK n \in S : \A m \in S : n <= m
  <2>1. S \subseteq Nat
    OBVIOUS
  <2> HIDE DEF S
  <2> QED BY <1>1, <2>1, LowestOf
<1>3. CASE n = 0
  <2> DEFINE s == [i \in 0 .. 0 |-> 0]
  <2>1. Start(r, 0, s)
    BY DEF Start
  <2> QED BY <1>3, <2>1
<1>4. CASE n # 0
  <2>1. n - 1 \in Nat /\ n - 1 \notin S /\ n \in Nat
    BY <1>2, <1>4
  <2>2. PICK s : Start(r, n - 1, s)
    BY <2>1
  <2> DEFINE z == [i \in 0 .. n |-> IF i = n THEN s[n - 1] + NumEleInBin(r, n - 1) ELSE s[i]]
  <2>3. ASSUME NEW i \in 0 .. n
        PROVE  z[i] = IF i = 0 THEN 0 ELSE z[i - 1] + NumEleInBin(r, i - 1)
    <3>1. CASE i = n
      BY <2>1, <1>4, <3>1
    <3>2. CASE i # n
      <4>1. i \in 0 .. n - 1
        BY <2>1, <3>2
      <4>2. s[i] = IF i = 0 THEN 0 ELSE s[i - 1] + NumEleInBin(r, i - 1)
        BY <2>2, <4>1 DEF Start
      <4>3. z[i] = s[i] /\ (i # 0 => z[i - 1] = s[i - 1])
        BY <2>1, <4>1
      <4> QED BY <4>2, <4>3
    <3> QED BY <3>1, <3>2
  <2>4. z = [i \in 0 .. n |-> IF i = 0 THEN 0 ELSE z[i - 1] + NumEleInBin(r, i - 1)]
    <3>1. z = [i \in 0 .. n |-> z[i]]
      OBVIOUS
    <3> HIDE DEF z
    <3> QED BY <2>3, <3>1
  <2>5. Start(r, n, z)
    BY <2>4 DEF Start
  <2> QED BY <2>5
<1> QED BY <1>3, <1>4

\* StartingPosForBin is the last value of such a function.
LEMMA StartingPosIs ==
  ASSUME NEW r, NEW b \in Nat
  PROVE  \E s : Start(r, b, s) /\ StartingPosForBin(r, b) = s[b]
<1>1. (CHOOSE s : Start(r, b, s))[b] = StartingPosForBin(r, b)
  BY DEF StartingPosForBin, Start
<1> QED BY <1>1, StartExists

\* Two such functions agree where both are defined.
LEMMA StartUnique ==
  ASSUME NEW r, NEW b \in Nat, NEW c \in Nat, NEW s, NEW z, Start(r, b, s), Start(r, c, z),
         NEW i \in Nat, i <= b, i <= c
  PROVE  s[i] = z[i]
<1> DEFINE S == {n \in 0 .. i : s[n] # z[n]}
<1>1. SUFFICES ASSUME S # {} PROVE FALSE
  OBVIOUS
<1>2. PICK n \in S : \A m \in S : n <= m
  <2>1. S \subseteq Nat
    OBVIOUS
  <2> HIDE DEF S
  <2> QED BY <1>1, <2>1, LowestOf
<1>3. n \in 0 .. b /\ n \in 0 .. c /\ s[n] # z[n]
  OBVIOUS
<1>4. /\ s[n] = IF n = 0 THEN 0 ELSE s[n - 1] + NumEleInBin(r, n - 1)
      /\ z[n] = IF n = 0 THEN 0 ELSE z[n - 1] + NumEleInBin(r, n - 1)
  BY <1>3 DEF Start
<1>5. n # 0 => s[n - 1] = z[n - 1]
  BY <1>2
<1> QED BY <1>3, <1>4, <1>5

LEMMA Starts ==
  ASSUME setup \in Setups, NEW r \in Role
  PROVE  /\ StartingPosForBin(r, 0) = 0
         /\ \A b \in Bin : StartingPosForBin(r, b + 1)
                             = StartingPosForBin(r, b) + NumEleInBin(r, b)
<1>1. PICK s0 : Start(r, 0, s0) /\ StartingPosForBin(r, 0) = s0[0]
  BY StartingPosIs
<1>2. s0[0] = 0
  BY <1>1 DEF Start
<1>3. ASSUME NEW b \in Bin
      PROVE  StartingPosForBin(r, b + 1) = StartingPosForBin(r, b) + NumEleInBin(r, b)
  <2>1. b \in Nat /\ b + 1 \in Nat
    BY DEF Bin
  <2>2. PICK s : Start(r, b, s) /\ StartingPosForBin(r, b) = s[b]
    BY <2>1, StartingPosIs
  <2>3. PICK z : Start(r, b + 1, z) /\ StartingPosForBin(r, b + 1) = z[b + 1]
    BY <2>1, StartingPosIs
  <2>4. s[b] = z[b]
    BY <2>1, <2>2, <2>3, StartUnique
  <2>5. z[b + 1] = z[b] + NumEleInBin(r, b)
    <3> DEFINE n == b + 1
    <3>1. n \in 0 .. n /\ n # 0 /\ n - 1 = b
      BY <2>1
    <3>2. Start(r, n, z)
      BY <2>3
    <3> HIDE DEF n
    <3>3. z[n] = IF n = 0 THEN 0 ELSE z[n - 1] + NumEleInBin(r, n - 1)
      BY <3>1, <3>2 DEF Start
    <3>4. z[n] = z[b] + NumEleInBin(r, b)
      BY <3>1, <3>3
    <3> QED BY <3>4 DEF n
  <2> QED BY <2>2, <2>3, <2>4, <2>5
<1> QED BY <1>1, <1>2, <1>3

LEMMA LoadsAre ==
  ASSUME setup \in Setups, NEW r \in Role
  PROVE  setup.bins \in Nat \ {0} /\ \A b \in Bin : NumEleInBin(r, b) \in Nat
BY OprgAssumption DEF NumEleInBin, Role, Bin

\* The masks of one bin follow those of the bins before it.
LEMMA StartsGrow ==
  ASSUME setup \in Setups, NEW r \in Role, NEW c \in 0 .. setup.bins
  PROVE  /\ StartingPosForBin(r, c) \in Nat
         /\ \A b \in Bin : b < c => /\ StartingPosForBin(r, b) \in Nat
                                    /\ StartingPosForBin(r, b) + NumEleInBin(r, b)
                                         <= StartingPosForBin(r, c)
<1> DEFINE P(n) == StartingPosForBin(r, n)
            Good(n) == /\ P(n) \in Nat
                       /\ \A b \in Bin : b < n => P(b) \in Nat /\ P(b) + NumEleInBin(r, b) <= P(n)
            S == {n \in 0 .. setup.bins : ~ Good(n)}
<1>0. setup.bins \in Nat /\ \A b \in Bin : b \in Nat
  BY LoadsAre DEF Bin
<1>1. SUFFICES ASSUME S # {} PROVE FALSE
  OBVIOUS
<1>2. PICK n \in S : \A m \in S : n <= m
  <2>1. S \subseteq Nat
    BY <1>0
  <2> HIDE DEF S
  <2> QED BY <1>1, <2>1, LowestOf
<1>3. n \in Nat /\ n <= setup.bins /\ ~ Good(n)
  BY <1>0, <1>2
<1>4. CASE n = 0
  BY <1>0, <1>3, <1>4, Starts
<1>5. CASE n # 0
  <2>1. n - 1 \in Bin /\ n - 1 \in 0 .. setup.bins /\ n - 1 \notin S
    BY <1>0, <1>2, <1>3, <1>5 DEF Bin
  <2>2. Good(n - 1)
    BY <2>1
  <2>3. P(n - 1 + 1) = P(n - 1) + NumEleInBin(r, n - 1) /\ n - 1 + 1 = n
    BY <1>3, <2>1, Starts
  <2>4. NumEleInBin(r, n - 1) \in Nat
    BY <2>1, LoadsAre
  <2>5. P(n) \in Nat /\ P(n) = P(n - 1) + NumEleInBin(r, n - 1) /\ P(n - 1) \in Nat
    BY <2>2, <2>3, <2>4
  <2>6. ASSUME NEW b \in Bin, b < n PROVE P(b) \in Nat /\ P(b) + NumEleInBin(r, b) <= P(n)
    <3>1. CASE b = n - 1
      BY <2>5, <3>1
    <3>2. CASE b < n - 1
      <4>1. NumEleInBin(r, b) \in Nat
        BY LoadsAre
      <4>2. P(b) \in Nat /\ P(b) + NumEleInBin(r, b) <= P(n - 1)
        BY <2>2, <3>2
      <4> HIDE DEF P
      <4> QED BY <2>4, <2>5, <4>1, <4>2
    <3> QED BY <1>0, <1>3, <2>6, <3>1, <3>2
  <2> QED BY <1>3, <2>5, <2>6
<1> QED BY <1>4, <1>5

\* No mask belongs to two bins.
LEMMA MasksApart ==
  ASSUME setup \in Setups, NEW r \in Role, NEW b \in Bin, NEW c \in Bin,
         NEW k \in MasksOf(r, b), k \in MasksOf(r, c)
  PROVE  b = c
<1>1. /\ StartingPosForBin(r, b) \in Nat /\ StartingPosForBin(r, c) \in Nat
      /\ NumEleInBin(r, b) \in Nat /\ NumEleInBin(r, c) \in Nat
      /\ b < c => StartingPosForBin(r, b) + NumEleInBin(r, b) <= StartingPosForBin(r, c)
      /\ c < b => StartingPosForBin(r, c) + NumEleInBin(r, c) <= StartingPosForBin(r, b)
      /\ b \in Nat /\ c \in Nat
  <2>1. b \in 0 .. setup.bins /\ c \in 0 .. setup.bins /\ b \in Nat /\ c \in Nat
    BY LoadsAre DEF Bin
  <2> QED BY <2>1, StartsGrow, LoadsAre
<1>2. k \in StartingPosForBin(r, b) .. StartingPosForBin(r, b) + NumEleInBin(r, b) - 1
      /\ k \in StartingPosForBin(r, c) .. StartingPosForBin(r, c) + NumEleInBin(r, c) - 1
  BY DEF MasksOf
<1> QED BY <1>1, <1>2

\* Every mask of a bin is one of the side's masks.
LEMMA MasksExist ==
  ASSUME setup \in Setups, NEW r \in Role, NEW b \in Bin, NEW k \in MasksOf(r, b)
  PROVE  k \in 0 .. NumMasks(r) - 1 /\ k \in Nat
<1>1. setup.bins \in 0 .. setup.bins /\ b < setup.bins
  BY LoadsAre DEF Bin
<1>2. /\ StartingPosForBin(r, b) \in Nat /\ NumMasks(r) \in Nat /\ NumEleInBin(r, b) \in Nat
      /\ StartingPosForBin(r, b) + NumEleInBin(r, b) <= NumMasks(r)
  BY <1>1, StartsGrow, LoadsAre DEF NumMasks
<1>3. k \in StartingPosForBin(r, b) .. StartingPosForBin(r, b) + NumEleInBin(r, b) - 1
  BY DEF MasksOf
<1> QED BY <1>2, <1>3

-----------------------------------------------------------------------------
(***************************************************************************)
(* What a thread has put into the masks, as far as it is.                  *)
(***************************************************************************)
Alone(r, b, t) ==
  \A s \in Thread(r) : OtsOf(b) \cap (StartPos(r, s) .. Lim(r, s) - 1) # {} => s = t

\* The OTs of bin b in mask k that are in thread t's part before element u of OT o.
AddedUpTo(r, t, o, u, b, k) ==
  {x \in OtsOf(b) : /\ StartPos(r, t) <= x
                    /\ x < o \/ (x = o /\ k < StartingPosForBin(r, b) + u)}

\* Where thread t of side r may be.
Placed(r, t, th) ==
  /\ th.at \in Nat /\ th.ot \in Nat /\ th.u \in Nat /\ StartPos(r, t) <= th.ot
  /\ th.phase \in {"receive", "expand", "finished"}
  /\ th.phase = "finished" => Lim(r, t) <= th.ot
  /\ th.phase # "finished" => th.at < Lim(r, t) /\ th.ot <= BatchEnd(r, t, th.at)
  /\ th.phase = "receive" => th.ot = th.at
  /\ th.u > 0 \/ th.read # Nothing =>
       /\ th.phase = "expand" /\ th.ot < BatchEnd(r, t, th.at)
       /\ th.u < NumEleInBin(r, th.ot \div setup.bytes)

\* What a thread has read is still there when no other works on the bin.
StillThere(r, t, th, mk) ==
  LET b == th.ot \div setup.bytes
  IN  th.read # Nothing =>
        /\ th.read \subseteq OtsOf(b)
        /\ Alone(r, b, t) => th.read = mk[StartingPosForBin(r, b) + th.u]

\* The masks mk of a side hold what its threads ths have added.
Filled(r, mk, ths) ==
  \A b \in Bin : \A k \in MasksOf(r, b) :
    /\ mk[k] \subseteq OtsOf(b)
    /\ \A t \in Thread(r) : Alone(r, b, t) => mk[k] = AddedUpTo(r, t, ths[t].ot, ths[t].u, b, k)

MaskInv ==
  /\ masks = [r \in Role |-> [k \in 0 .. NumMasks(r) - 1 |-> masks[r][k]]]
  /\ \A r \in Role : Filled(r, masks[r], threads[r])
  /\ \A r \in Role : \A t \in Thread(r) : /\ Placed(r, t, threads[r][t])
                                   /\ StillThere(r, t, threads[r][t], masks[r])

\* Batches end within the part, and after they begin.
LEMMA BatchesWithin ==
  ASSUME setup \in Setups, NEW r \in Role, NEW t \in Thread(r), NEW i \in Nat, i < Lim(r, t)
  PROVE  /\ BatchEnd(r, t, i) \in Nat /\ i < BatchEnd(r, t, i) /\ BatchEnd(r, t, i) <= Lim(r, t)
         /\ Lim(r, t) \in Nat /\ Lim(r, t) <= NumOTs /\ NumOTs \in Nat
<1>1. Lim(r, t) \in Nat /\ Lim(r, t) <= NumOTs /\ NumOTs \in Nat
  BY PartsAre DEF Least
<1>2. OTsPerIteration(r, t, i) \in Nat \ {0}
  <2> DEFINE c == CeilDivide(Lim(r, t) - i, CodeWordBits)
              n == Least(NumOtBlocks, c)
  <2>1. CodeWordBits \in Nat \ {0} /\ NumOtBlocks \in Nat \ {0}
    BY OprgAssumption
  <2>2. Lim(r, t) - i \in Nat \ {0}
    BY <1>1
  <2>3. c \in Nat \ {0}
    BY <2>1, <2>2, CeilDivideIs
  <2> HIDE DEF c
  <2>4. n \in Nat \ {0}
    BY <2>1, <2>3 DEF Least
  <2> HIDE DEF n
  <2>5. n * CodeWordBits \in Nat \ {0}
    <3>1. (n - 1 + 1) * CodeWordBits = (n - 1) * CodeWordBits + CodeWordBits
          /\ (n - 1) * CodeWordBits \in Nat
      BY <2>1, <2>4, Products
    <3>2. n - 1 + 1 = n
      BY <2>4
    <3> QED BY <2>1, <3>1, <3>2
  <2>6. OTsPerIteration(r, t, i) = n * CodeWordBits
    BY DEF OTsPerIteration, n, c
  <2> QED BY <2>5, <2>6
<1> QED BY <1>1, <1>2 DEF BatchEnd, Least

\* The next element of a bin, or the next OT, adds the OT to one mask.
Next1(r, b, o, u) == IF u + 1 < NumEleInBin(r, b) THEN o ELSE o + 1
Next2(r, b, u) == IF u + 1 < NumEleInBin(r, b) THEN u + 1 ELSE 0

LEMMA OneMore ==
  ASSUME setup \in Setups, NEW r \in Role, NEW t \in Thread(r), NEW o \in Nat, o < NumOTs,
         StartPos(r, t) <= o, NEW b \in Bin, b = o \div setup.bytes,
         NEW u \in Nat, u < NumEleInBin(r, b), NEW c \in Bin, NEW k \in MasksOf(r, c)
  PROVE  LET m == StartingPosForBin(r, b) + u
         IN  /\ m \in MasksOf(r, b)
             /\ AddedUpTo(r, t, Next1(r, b, o, u), Next2(r, b, u), c, k)
                  = AddedUpTo(r, t, o, u, c, k) \cup (IF k = m THEN {o} ELSE {})
             /\ k = m => c = b /\ o \in OtsOf(c) /\ o \notin AddedUpTo(r, t, o, u, c, k)
<1> DEFINE m == StartingPosForBin(r, b) + u
            A == AddedUpTo(r, t, o, u, c, k)
            B == AddedUpTo(r, t, Next1(r, b, o, u), Next2(r, b, u), c, k)
<1>1. /\ StartingPosForBin(r, b) \in Nat /\ StartingPosForBin(r, c) \in Nat
      /\ NumEleInBin(r, b) \in Nat /\ NumEleInBin(r, c) \in Nat /\ b \in Nat /\ c \in Nat
  <2>1. b \in 0 .. setup.bins /\ c \in 0 .. setup.bins /\ b \in Nat /\ c \in Nat
    BY LoadsAre DEF Bin
  <2> QED BY <2>1, StartsGrow, LoadsAre
<1>2. k \in Nat /\ StartingPosForBin(r, c) <= k
      /\ k < StartingPosForBin(r, c) + NumEleInBin(r, c)
  BY <1>1 DEF MasksOf
<1>3. m \in MasksOf(r, b) /\ m \in Nat
  BY <1>1 DEF MasksOf
<1>4. \A d \in Bin : o \in OtsOf(d) <=> d = b
  BY BinOfOT
<1>5. k = m => c = b
  BY <1>3, MasksApart
<1>6. \A x \in OtsOf(c) : x \in Int
  BY DEF OtsOf
<1>7. StartPos(r, t) \in Nat
  BY PartsAre
<1>8. k = m => o \in OtsOf(c) /\ o \notin A
  BY <1>1, <1>4, <1>5 DEF AddedUpTo
<1>9. ASSUME NEW x \in OtsOf(c)
      PROVE  x \in B <=> x \in A \/ (k = m /\ x = o)
  <2> DEFINE lo == StartingPosForBin(r, c)
  <2>1. x \in A <=> StartPos(r, t) <= x /\ (x < o \/ (x = o /\ k < lo + u))
    BY <1>9 DEF AddedUpTo
  <2>2. x \in B <=> StartPos(r, t) <= x /\ (x < Next1(r, b, o, u)
                                          \/ (x = Next1(r, b, o, u) /\ k < lo + Next2(r, b, u)))
    BY <1>9 DEF AddedUpTo
  <2>3. x = o => c = b
    BY <1>4, <1>9
  <2> HIDE DEF A, B
  <2>4. CASE u + 1 < NumEleInBin(r, b)
    <3>1. Next1(r, b, o, u) = o /\ Next2(r, b, u) = u + 1
      BY <2>4 DEF Next1, Next2
    <3> QED BY <1>1, <1>2, <1>6, <1>7, <2>1, <2>2, <2>3, <3>1, <1>5, <1>9
  <2>5. CASE ~(u + 1 < NumEleInBin(r, b))
    <3>1. Next1(r, b, o, u) = o + 1 /\ Next2(r, b, u) = 0 /\ u + 1 = NumEleInBin(r, b)
      BY <1>1, <2>5 DEF Next1, Next2
    <3>2. x \in Int /\ (x < o + 1 <=> x < o \/ x = o)
      BY <1>6, <1>9
    <3>3. ~(k < lo + 0)
      BY <1>1, <1>2
    <3>4. x = o => (k < lo + u \/ k = m)
      BY <1>1, <1>2, <2>3, <3>1
    <3>5. x = o => StartPos(r, t) <= x
      OBVIOUS
    <3> QED BY <2>1, <2>2, <3>1, <3>2, <3>3, <3>4, <3>5
  <2> QED BY <2>4, <2>5
<1>10. B \subseteq OtsOf(c) /\ A \subseteq OtsOf(c)
  BY DEF AddedUpTo
<1> HIDE DEF A, B, m
<1>11. B = A \cup (IF k = m THEN {o} ELSE {})
  BY <1>8, <1>9, <1>10
<1> QED BY <1>3, <1>5, <1>8, <1>11 DEF A, B, m

\* A bin without elements has nothing to add to.
LEMMA NoneMore ==
  ASSUME setup \in Setups, NEW r \in Role, NEW t \in Thread(r), NEW o \in Nat, o < NumOTs,
         NEW b \in Bin, b = o \div setup.bytes, NumEleInBin(r, b) = 0,
         NEW c \in Bin, NEW k \in MasksOf(r, c)
  PROVE  AddedUpTo(r, t, o + 1, 0, c, k) = AddedUpTo(r, t, o, 0, c, k)
<1>1. StartingPosForBin(r, c) \in Nat /\ NumEleInBin(r, c) \in Nat
  <2>1. c \in 0 .. setup.bins
    BY LoadsAre DEF Bin
  <2> QED BY <2>1, StartsGrow, LoadsAre
<1>2. k \in Nat /\ StartingPosForBin(r, c) <= k
      /\ k < StartingPosForBin(r, c) + NumEleInBin(r, c)
  BY <1>1 DEF MasksOf
<1>3. c # b
  BY <1>1, <1>2
<1>4. o \notin OtsOf(c)
  BY <1>3, BinOfOT
<1>5. \A x \in OtsOf(c) : x \in Int /\ x # o
  BY <1>4 DEF OtsOf
<1> QED BY <1>1, <1>2, <1>5 DEF AddedUpTo

\* All this depends on the setup only.
LEMMA SameMasks ==
  ASSUME UNCHANGED setup
  PROVE  /\ Bin' = Bin /\ \A r : Thread(r)' = Thread(r)
         /\ \A r : NumMasks(r)' = NumMasks(r)
         /\ \A r, b : MasksOf(r, b)' = MasksOf(r, b)
         /\ \A r, mk, ths : Filled(r, mk, ths)' = Filled(r, mk, ths)
         /\ \A r, t, th : Placed(r, t, th)' = Placed(r, t, th)
         /\ \A r, t, th, mk : StillThere(r, t, th, mk)' = StillThere(r, t, th, mk)
<1>1. Bin' = Bin /\ \A r : Thread(r)' = Thread(r)
  BY DEF Bin, Thread
<1>2. \A r, b : NumEleInBin(r, b)' = NumEleInBin(r, b)
  BY DEF NumEleInBin
<1>3. \A r, b : StartingPosForBin(r, b)' = StartingPosForBin(r, b)
  BY DEF StartingPosForBin, NumEleInBin
<1>4. \A b : OtsOf(b)' = OtsOf(b)
  BY DEF OtsOf
<1>5. \A r, b : MasksOf(r, b)' = MasksOf(r, b)
  BY <1>2, <1>3 DEF MasksOf
<1>6. \A r : NumMasks(r)' = NumMasks(r)
  BY <1>3 DEF NumMasks
<1>7. \A r, t : StartPos(r, t)' = StartPos(r, t) /\ Lim(r, t)' = Lim(r, t)
  BY SameParts
<1>8. \A r, b, t : Alone(r, b, t)' = Alone(r, b, t)
  BY <1>1, <1>4, <1>7 DEF Alone
<1>9. \A r, t, o, u, b, k : AddedUpTo(r, t, o, u, b, k)' = AddedUpTo(r, t, o, u, b, k)
  BY <1>3, <1>4, <1>7 DEF AddedUpTo
<1>10. \A r, mk, ths : Filled(r, mk, ths)' = Filled(r, mk, ths)
  BY <1>1, <1>4, <1>5, <1>8, <1>9 DEF Filled
<1>11. \A r, t, th : Placed(r, t, th)' = Placed(r, t, th)
  BY <1>2, <1>7, SameParts DEF Placed, Nothing
<1>12. \A r, t, th, mk : StillThere(r, t, th, mk)' = StillThere(r, t, th, mk)
  BY <1>3, <1>4, <1>8 DEF StillThere, Nothing
<1> QED BY <1>1, <1>5, <1>6, <1>10, <1>11, <1>12

\* A step that moves one thread, and may change the masks of its side.
LEMMA OneMoves ==
  ASSUME Shape, MaskInv, UNCHANGED setup, NEW r \in Role, NEW t \in Thread(r),
         NEW x, ThreadState(x), threads' = [threads EXCEPT ![r][t] = x], Placed(r, t, x),
         NEW mk, mk = [k \in 0 .. NumMasks(r) - 1 |-> mk[k]], masks' = [masks EXCEPT ![r] = mk],
         Filled(r, mk, threads'[r]), \A s \in Thread(r) : StillThere(r, s, threads'[r][s], mk)
  PROVE  MaskInv'
<1>1. /\ threads'[r][t] = x
      /\ \A q \in Role : \A s \in Thread(q) : q # r \/ s # t => threads'[q][s] = threads[q][s]
  <2>1. threads = [q \in Role |-> [s \in Thread(q) |-> threads[q][s]]]
    BY DEF Shape
  <2> QED BY <2>1
<1>2. masks = [q \in Role |-> [k \in 0 .. NumMasks(q) - 1 |-> masks[q][k]]]
  BY DEF MaskInv
<1>3. \A q \in Role : masks'[q] = IF q = r THEN mk ELSE masks[q]
  BY <1>2
<1>4. masks' = [q \in Role |-> [k \in 0 .. NumMasks(q) - 1 |-> masks'[q][k]]]
  <2>1. masks' = [q \in Role |-> masks'[q]]
    BY <1>2
  <2>2. \A q \in Role : masks'[q] = [k \in 0 .. NumMasks(q) - 1 |-> masks'[q][k]]
    <3> TAKE q \in Role
    <3>1. CASE q = r
      BY <1>3, <3>1
    <3>2. CASE q # r
      BY <1>2, <1>3, <3>2
    <3> QED BY <3>1, <3>2
  <2> QED BY <2>1, <2>2
<1>5. ASSUME NEW q \in Role PROVE Filled(q, masks'[q], threads'[q])
  <2>1. CASE q = r
    BY <1>3, <2>1
  <2>2. CASE q # r
    <3>1. masks'[q] = masks[q] /\ \A s \in Thread(r) : threads'[q][s] = threads[q][s]
      BY <1>1, <1>3, <2>2
    <3>2. Filled(q, masks[q], threads[q])
      BY DEF MaskInv
    <3> QED BY <3>1, <3>2 DEF Filled
  <2> QED BY <2>1, <2>2
<1>6. ASSUME NEW q \in Role, NEW s \in Thread(q)
      PROVE  Placed(q, s, threads'[q][s]) /\ StillThere(q, s, threads'[q][s], masks'[q])
  <2>1. CASE q = r
    <3>1. CASE s = t
      BY <1>1, <1>3, <2>1, <3>1
    <3>2. CASE s # t
      <4>1. threads'[q][s] = threads[q][s]
        BY <1>1, <3>2
      <4> QED BY <1>3, <2>1, <4>1 DEF MaskInv
    <3> QED BY <3>1, <3>2
  <2>2. CASE q # r
    <3>1. masks'[q] = masks[q] /\ threads'[q][s] = threads[q][s]
      BY <1>1, <1>3, <2>2
    <3> QED BY <3>1 DEF MaskInv
  <2> QED BY <2>1, <2>2
<1>7. (\A q \in Role : Filled(q, masks[q], threads[q]))'
  BY <1>5, SameMasks DEF Role
<1>8. (\A q \in Role : \A s \in Thread(q) : /\ Placed(q, s, threads[q][s])
                                     /\ StillThere(q, s, threads[q][s], masks[q]))'
  BY <1>6, SameMasks DEF Role
<1>9. (masks = [q \in Role |-> [k \in 0 .. NumMasks(q) - 1 |-> masks[q][k]]])'
  BY <1>4, SameMasks DEF Role
<1> QED BY <1>7, <1>8, <1>9 DEF MaskInv

\* A step that leaves the masks, and the thread at the same element.
LEMMA MasksStay ==
  ASSUME Shape, MaskInv, UNCHANGED <<setup, masks>>, NEW r \in Role, NEW t \in Thread(r),
         NEW x, ThreadState(x), threads' = [threads EXCEPT ![r][t] = x], Placed(r, t, x),
         x.ot = threads[r][t].ot, x.u = threads[r][t].u, x.read = threads[r][t].read
  PROVE  MaskInv'
<1>1. /\ threads'[r][t] = x
      /\ \A s \in Thread(r) : s # t => threads'[r][s] = threads[r][s]
  <2>1. threads = [q \in Role |-> [s \in Thread(q) |-> threads[q][s]]]
    BY DEF Shape
  <2> QED BY <2>1
<1> DEFINE mk == masks[r]
<1>2. masks = [q \in Role |-> [k \in 0 .. NumMasks(q) - 1 |-> masks[q][k]]]
  BY DEF MaskInv
<1>3. mk = [k \in 0 .. NumMasks(r) - 1 |-> mk[k]]
  BY <1>2
<1>4. masks' = [masks EXCEPT ![r] = mk]
  BY <1>2
<1>5. \A s \in Thread(r) : /\ threads'[r][s].ot = threads[r][s].ot
                        /\ threads'[r][s].u = threads[r][s].u
                        /\ threads'[r][s].read = threads[r][s].read
  BY <1>1
<1>6. Filled(r, mk, threads'[r])
  <2>1. Filled(r, mk, threads[r])
    BY DEF MaskInv
  <2> HIDE DEF mk
  <2> QED BY <1>5, <2>1 DEF Filled
<1>7. \A s \in Thread(r) : StillThere(r, s, threads'[r][s], mk)
  BY <1>5 DEF MaskInv, StillThere
<1> HIDE DEF mk
<1> QED BY <1>3, <1>4, <1>6, <1>7, OneMoves

LEMMA OneField ==
  ASSUME NEW th, NEW a, NEW o, NEW u, NEW d, NEW p, NEW n,
         th = [at |-> a, ot |-> o, u |-> u, read |-> d, phase |-> p]
  PROVE  /\ [th EXCEPT !.ot = n] = [at |-> a, ot |-> n, u |-> u, read |-> d, phase |-> p]
         /\ [th EXCEPT !.u = n] = [at |-> a, ot |-> o, u |-> n, read |-> d, phase |-> p]
         /\ [th EXCEPT !.read = n] = [at |-> a, ot |-> o, u |-> u, read |-> n, phase |-> p]
  OBVIOUS

LEMMA ThreeFields ==
  ASSUME NEW th, NEW a, NEW o, NEW u, NEW d, NEW p, NEW o2, NEW u2, NEW d2,
         th = [at |-> a, ot |-> o, u |-> u, read |-> d, phase |-> p]
  PROVE  /\ [th EXCEPT !.u = u2, !.read = d2]
              = [at |-> a, ot |-> o, u |-> u2, read |-> d2, phase |-> p]
         /\ [th EXCEPT !.ot = o2, !.u = u2, !.read = d2]
              = [at |-> a, ot |-> o2, u |-> u2, read |-> d2, phase |-> p]
<1> DEFINE x == [th EXCEPT !.u = u2]
            y == [th EXCEPT !.ot = o2]
            z == [y EXCEPT !.u = u2]
<1>1. x = [at |-> a, ot |-> o, u |-> u2, read |-> d, phase |-> p]
  BY OneField
<1>2. y = [at |-> a, ot |-> o2, u |-> u, read |-> d, phase |-> p]
  BY OneField
<1> HIDE DEF x, y
<1>3. z = [at |-> a, ot |-> o2, u |-> u2, read |-> d, phase |-> p]
  BY SMTT(30), <1>2, OneField
<1> HIDE DEF z
<1>4. [x EXCEPT !.read = d2] = [at |-> a, ot |-> o, u |-> u2, read |-> d2, phase |-> p]
  BY SMTT(30), <1>1, OneField
<1>5. [z EXCEPT !.read = d2] = [at |-> a, ot |-> o2, u |-> u2, read |-> d2, phase |-> p]
  BY SMTT(30), <1>3, OneField
<1> QED BY <1>4, <1>5 DEF x, y, z

\* The thread once it is through with an element.
LEMMA OnwardIs ==
  ASSUME NEW r \in Role, NEW t \in Thread(r), ThreadState(threads[r][t])
  PROVE  LET th == threads[r][t]
             x == Onward(r, t)
         IN  /\ ThreadState(x) /\ x.at = th.at /\ x.phase = th.phase /\ x.read = Nothing
             /\ x.ot = Next1(r, BinOf(r, t), th.ot, th.u)
             /\ x.u = Next2(r, BinOf(r, t), th.u)
<1> DEFINE th == threads[r][t]
            n == NumEleInBin(r, BinOf(r, t))
            a == th.at
            o == th.ot
            u == th.u
            d == th.read
            p == th.phase
<1>1. th = [at |-> a, ot |-> o, u |-> u, read |-> d, phase |-> p] /\ a \in Int
  BY DEF ThreadState
<1>2. Onward(r, t) = IF u + 1 < n
                     THEN [th EXCEPT !.u = u + 1, !.read = Nothing]
                     ELSE [th EXCEPT !.ot = o + 1, !.u = 0, !.read = Nothing]
  BY DEF Onward
<1>3. /\ Next1(r, BinOf(r, t), o, u) = IF u + 1 < n THEN o ELSE o + 1
      /\ Next2(r, BinOf(r, t), u) = IF u + 1 < n THEN u + 1 ELSE 0
  BY DEF Next1, Next2
<1> HIDE DEF n, a, o, u, d, p
<1> HIDE DEF th
<1>4. CASE u + 1 < n
  <2> DEFINE v == u + 1
  <2>1. Onward(r, t) = [th EXCEPT !.u = v, !.read = Nothing]
    BY <1>2, <1>4
  <2> HIDE DEF v
  <2>2. Onward(r, t) = [at |-> a, ot |-> o, u |-> v, read |-> Nothing, phase |-> p]
    BY <1>1, <2>1, ThreeFields
  <2>3. Next1(r, BinOf(r, t), o, u) = o /\ Next2(r, BinOf(r, t), u) = v
    BY <1>3, <1>4 DEF v
  <2> QED BY <1>1, <2>2, <2>3 DEF ThreadState, th, a, o, u, p
<1>5. CASE ~(u + 1 < n)
  <2> DEFINE v == o + 1
  <2>1. Onward(r, t) = [th EXCEPT !.ot = v, !.u = 0, !.read = Nothing]
    BY <1>2, <1>5
  <2> HIDE DEF v
  <2>2. Onward(r, t) = [at |-> a, ot |-> v, u |-> 0, read |-> Nothing, phase |-> p]
    BY <1>1, <2>1, ThreeFields
  <2>3. Next1(r, BinOf(r, t), o, u) = v /\ Next2(r, BinOf(r, t), u) = 0
    BY <1>3, <1>5 DEF v
  <2> QED BY <1>1, <2>2, <2>3 DEF ThreadState, th, a, o, u, p
<1> QED BY <1>4, <1>5

\* What is known of a thread that expands.
LEMMA ExpandingIs ==
  ASSUME Shape, MaskInv, NEW r \in Role, NEW t \in Thread(r), Expanding(r, t)
  PROVE  LET th == threads[r][t]
             b == BinOf(r, t)
         IN  /\ th.phase = "expand" /\ th.ot < BatchEnd(r, t, th.at) /\ th.at < Lim(r, t)
             /\ BatchEnd(r, t, th.at) \in Nat /\ BatchEnd(r, t, th.at) <= Lim(r, t)
             /\ th.ot \in Nat /\ th.ot < NumOTs /\ StartPos(r, t) <= th.ot /\ th.u \in Nat
             /\ b \in Bin /\ b = th.ot \div setup.bytes /\ NumEleInBin(r, b) \in Nat
             /\ \A s \in Thread(r) : Alone(r, b, s) => s = t
<1> DEFINE th == threads[r][t]
            b == BinOf(r, t)
<1>1. Placed(r, t, th) /\ setup \in Setups
  BY DEF Shape, MaskInv
<1>2. th.phase = "expand" /\ th.ot < BatchEnd(r, t, th.at)
  BY DEF Expanding, Running
<1> HIDE DEF th
<1>3. /\ th.at \in Nat /\ th.ot \in Nat /\ th.u \in Nat /\ StartPos(r, t) <= th.ot
      /\ th.at < Lim(r, t)
  BY <1>1, <1>2 DEF Placed
<1>4. /\ BatchEnd(r, t, th.at) \in Nat /\ BatchEnd(r, t, th.at) <= Lim(r, t)
      /\ Lim(r, t) \in Nat /\ Lim(r, t) <= NumOTs /\ NumOTs \in Nat
  BY <1>1, <1>3, BatchesWithin
<1>5. th.ot < Lim(r, t) /\ th.ot < NumOTs
  BY <1>2, <1>3, <1>4
<1>6. b = th.ot \div setup.bytes
  BY DEF BinOf, th
<1> HIDE DEF b
<1>7. b \in Bin /\ th.ot \in OtsOf(b)
  BY <1>1, <1>3, <1>5, <1>6, BinOfOT
<1>8. NumEleInBin(r, b) \in Nat
  BY <1>1, <1>7, LoadsAre
<1>9. th.ot \in StartPos(r, t) .. Lim(r, t) - 1
  <2>1. StartPos(r, t) \in Nat
    BY <1>1, PartsAre
  <2> QED BY <2>1, <1>3, <1>4, <1>5
<1>10. \A s \in Thread(r) : Alone(r, b, s) => s = t
  BY <1>7, <1>9 DEF Alone
<1> QED BY <1>2, <1>3, <1>4, <1>5, <1>6, <1>7, <1>8, <1>10 DEF th, b

LEMMA OnwardPlaced ==
  ASSUME Shape, MaskInv, NEW r \in Role, NEW t \in Thread(r), Expanding(r, t)
  PROVE  Placed(r, t, Onward(r, t))
<1> DEFINE th == threads[r][t]
            b == BinOf(r, t)
            x == Onward(r, t)
            n == NumEleInBin(r, b)
<1>1. /\ th.phase = "expand" /\ th.ot < BatchEnd(r, t, th.at) /\ th.at < Lim(r, t)
      /\ BatchEnd(r, t, th.at) \in Nat /\ th.ot \in Nat /\ StartPos(r, t) <= th.ot /\ th.u \in Nat
      /\ b = th.ot \div setup.bytes /\ n \in Nat
  BY ExpandingIs
<1>2. th.at \in Nat /\ StartPos(r, t) \in Nat
  BY PartsAre DEF MaskInv, Placed, Shape
<1>3. /\ x.at = th.at /\ x.phase = th.phase /\ x.read = Nothing
      /\ x.ot = Next1(r, b, th.ot, th.u) /\ x.u = Next2(r, b, th.u)
  BY OnwardIs DEF Shape
<1> SUFFICES Placed(r, t, x)
  OBVIOUS
<1> HIDE DEF th, b, x
<1>4. CASE th.u + 1 < n
  <2>1. x.ot = th.ot /\ x.u = th.u + 1
    BY <1>3, <1>4 DEF Next1, Next2
  <2>2. x.u < NumEleInBin(r, x.ot \div setup.bytes)
    BY <1>1, <1>4, <2>1
  <2> HIDE DEF n
  <2> QED BY <1>1, <1>2, <1>3, <2>1, <2>2 DEF Placed
<1>5. CASE ~(th.u + 1 < n)
  <2>1. x.ot = th.ot + 1 /\ x.u = 0
    BY <1>3, <1>5 DEF Next1, Next2
  <2> HIDE DEF n
  <2> QED BY <1>1, <1>2, <1>3, <2>1 DEF Placed
<1> QED BY <1>4, <1>5

\* What the masks hold when thread t has gone on to its next element: what it has
\* added, and of the others what they had.
Advanced(r, t, mk) ==
  /\ \A c \in Bin : \A k \in MasksOf(r, c) :
       /\ mk[k] \subseteq OtsOf(c)
       /\ Alone(r, c, t) => mk[k] = AddedUpTo(r, t, Onward(r, t).ot, Onward(r, t).u, c, k)
       /\ \A s \in Thread(r) : s # t /\ Alone(r, c, s) => mk[k] = masks[r][k]
  /\ \A s \in Thread(r) : s # t => StillThere(r, s, threads[r][s], mk)

\* A thread that goes on to the next element has nothing read.
LEMMA OnwardKeeps ==
  ASSUME Shape, MaskInv, UNCHANGED setup, NEW r \in Role, NEW t \in Thread(r), Expanding(r, t),
         threads' = [threads EXCEPT ![r][t] = Onward(r, t)],
         NEW mk, mk = [k \in 0 .. NumMasks(r) - 1 |-> mk[k]], masks' = [masks EXCEPT ![r] = mk],
         Advanced(r, t, mk)
  PROVE  MaskInv'
<1> DEFINE x == Onward(r, t)
<1>1. ThreadState(x) /\ x.read = Nothing
  BY OnwardIs DEF Shape
<1>2. Placed(r, t, x)
  BY OnwardPlaced
<1> HIDE DEF x
<1>3. /\ threads'[r][t] = x
      /\ \A s \in Thread(r) : s # t => threads'[r][s] = threads[r][s]
  <2>1. threads = [q \in Role |-> [s \in Thread(q) |-> threads[q][s]]]
    BY DEF Shape
  <2> QED BY <2>1 DEF x
<1>4. \A s \in Thread(r) : StillThere(r, s, threads'[r][s], mk)
  <2> TAKE s \in Thread(r)
  <2>1. CASE s = t
    <3>1. threads'[r][s] = x
      BY <1>3, <2>1
    <3> QED BY <1>1, <3>1 DEF StillThere
  <2>2. CASE s # t
    BY <1>3, <2>2 DEF Advanced
  <2> QED BY <2>1, <2>2
<1>5. Filled(r, mk, threads'[r])
  <2> SUFFICES ASSUME NEW c \in Bin, NEW k \in MasksOf(r, c)
                PROVE  /\ mk[k] \subseteq OtsOf(c)
                       /\ \A s \in Thread(r) : Alone(r, c, s) =>
                            mk[k] = AddedUpTo(r, s, threads'[r][s].ot, threads'[r][s].u, c, k)
    BY DEF Filled
  <2>1. ASSUME NEW s \in Thread(r), Alone(r, c, s)
        PROVE  mk[k] = AddedUpTo(r, s, threads'[r][s].ot, threads'[r][s].u, c, k)
    <3>1. CASE s = t
      <4>1. mk[k] = AddedUpTo(r, t, x.ot, x.u, c, k)
        BY <2>1, <3>1 DEF x, Advanced
      <4> QED BY <1>3, <3>1, <4>1
    <3>2. CASE s # t
      <4>1. mk[k] = masks[r][k]
        BY <2>1, <3>2 DEF Advanced
      <4>2. Filled(r, masks[r], threads[r])
        BY DEF MaskInv
      <4>3. masks[r][k] = AddedUpTo(r, s, threads[r][s].ot, threads[r][s].u, c, k)
        BY <2>1, <4>2 DEF Filled
      <4> QED BY <1>3, <3>2, <4>1, <4>3
    <3> QED BY <3>1, <3>2
  <2> QED BY <2>1 DEF Advanced
<1>6. threads' = [threads EXCEPT ![r][t] = x]
  BY DEF x
<1> QED BY <1>1, <1>2, <1>4, <1>5, <1>6, OneMoves

LEMMA SkipKeeps ==
  ASSUME Shape, MaskInv, NEW r \in Role, NEW t \in Thread(r), SkipEmpty(r, t)
  PROVE  MaskInv'
<1> DEFINE th == threads[r][t]
            b == BinOf(r, t)
            mk == masks[r]
            x == Onward(r, t)
<1>1. /\ Expanding(r, t) /\ NumEleInBin(r, b) = 0 /\ UNCHANGED <<setup, masks>>
      /\ threads' = [threads EXCEPT ![r][t] = x]
  BY DEF SkipEmpty
<1>2. /\ th.ot \in Nat /\ th.ot < NumOTs /\ th.u \in Nat
      /\ b \in Bin /\ b = th.ot \div setup.bytes /\ setup \in Setups
  BY <1>1, ExpandingIs DEF Shape
<1>3. x.ot = Next1(r, b, th.ot, th.u) /\ x.u = Next2(r, b, th.u)
  BY OnwardIs DEF Shape
<1>4. Placed(r, t, th) /\ Filled(r, mk, threads[r])
  BY DEF MaskInv
<1>5. masks = [q \in Role |-> [k \in 0 .. NumMasks(q) - 1 |-> masks[q][k]]]
  BY DEF MaskInv
<1>6. mk = [k \in 0 .. NumMasks(r) - 1 |-> mk[k]] /\ masks' = [masks EXCEPT ![r] = mk]
  BY <1>1, <1>5
<1>7. \A s \in Thread(r) : StillThere(r, s, threads[r][s], mk)
  BY DEF MaskInv
<1>8. x.ot = th.ot + 1 /\ x.u = 0 /\ th.u = 0
  <2> HIDE DEF th, b, x
  <2>1. th.u = 0
    BY <1>1, <1>2, <1>4 DEF Placed
  <2> QED BY <1>1, <1>3, <2>1 DEF Next1, Next2
<1>9. ASSUME NEW c \in Bin, NEW k \in MasksOf(r, c)
      PROVE  /\ mk[k] \subseteq OtsOf(c)
             /\ Alone(r, c, t) => mk[k] = AddedUpTo(r, t, x.ot, x.u, c, k)
             /\ \A s \in Thread(r) : s # t /\ Alone(r, c, s) => mk[k] = masks[r][k]
  <2>1. AddedUpTo(r, t, th.ot + 1, 0, c, k) = AddedUpTo(r, t, th.ot, 0, c, k)
    <3> HIDE DEF th, b
    <3> QED BY <1>1, <1>2, NoneMore
  <2>2. /\ mk[k] \subseteq OtsOf(c)
        /\ Alone(r, c, t) => mk[k] = AddedUpTo(r, t, th.ot, th.u, c, k)
    BY <1>4 DEF Filled
  <2>3. \A s \in Thread(r) : s # t /\ Alone(r, c, s) => mk[k] = masks[r][k]
    OBVIOUS
  <2> HIDE DEF mk, th, x
  <2> QED BY <1>8, <2>1, <2>2, <2>3
<1> HIDE DEF mk
<1>10. Advanced(r, t, mk)
  BY <1>7, <1>9 DEF Advanced
<1> QED BY <1>1, <1>6, <1>10, OnwardKeeps

LEMMA MaskOfElement ==
  ASSUME setup \in Setups, NEW r \in Role, NEW b \in Bin, NEW u \in Nat, u < NumEleInBin(r, b)
  PROVE  StartingPosForBin(r, b) + u \in MasksOf(r, b)
<1>1. b \in 0 .. setup.bins /\ NumEleInBin(r, b) \in Nat
  BY LoadsAre DEF Bin
<1>2. StartingPosForBin(r, b) \in Nat
  BY <1>1, StartsGrow
<1> QED BY <1>1, <1>2 DEF MasksOf

\* A value is XORed into what was read.  No other thread has the bin for its
\* own, and what others have read is not this mask, or not theirs alone.
LEMMA XorWriteKeeps ==
  ASSUME Shape, MaskInv, NEW r \in Role, NEW t \in Thread(r), XorWrite(r, t)
  PROVE  MaskInv'
<1> DEFINE th == threads[r][t]
            b == BinOf(r, t)
            m == StartingPosForBin(r, b) + th.u
            x == Onward(r, t)
            old == masks[r]
            mk == [old EXCEPT ![m] = SymDiff(th.read, {th.ot})]
<1>1. /\ Expanding(r, t) /\ th.read # Nothing /\ UNCHANGED setup
      /\ masks' = [masks EXCEPT ![r][MaskOf(r, t)] = SymDiff(th.read, {th.ot})]
      /\ threads' = [threads EXCEPT ![r][t] = x]
  BY DEF XorWrite
<1>2. /\ th.ot \in Nat /\ th.ot < NumOTs /\ StartPos(r, t) <= th.ot /\ th.u \in Nat
      /\ b \in Bin /\ b = th.ot \div setup.bytes /\ NumEleInBin(r, b) \in Nat
      /\ \A s \in Thread(r) : Alone(r, b, s) => s = t
  BY <1>1, ExpandingIs
<1>3. x.ot = Next1(r, b, th.ot, th.u) /\ x.u = Next2(r, b, th.u)
  BY OnwardIs DEF Shape
<1>4. /\ Placed(r, t, th) /\ Filled(r, old, threads[r]) /\ setup \in Setups
      /\ \A s \in Thread(r) : Placed(r, s, threads[r][s]) /\ StillThere(r, s, threads[r][s], old)
      /\ masks = [q \in Role |-> [k \in 0 .. NumMasks(q) - 1 |-> masks[q][k]]]
  BY DEF MaskInv, Shape
<1>5. m = MaskOf(r, t)
  BY DEF MaskOf
<1>6. th.u < NumEleInBin(r, b)
  <2> HIDE DEF th, b
  <2> QED BY <1>1, <1>2, <1>4 DEF Placed
<1>7. /\ th.read \subseteq OtsOf(b)
      /\ Alone(r, b, t) => th.read = old[m]
  <2>1. StillThere(r, t, th, old)
    BY <1>4
  <2> HIDE DEF th, b, old
  <2> QED BY <1>1, <1>2, <2>1 DEF StillThere
<1>8. old = [k \in 0 .. NumMasks(r) - 1 |-> old[k]]
  BY <1>4
<1>9. masks' = [masks EXCEPT ![r] = mk]
  BY <1>1, <1>5
<1> HIDE DEF m, th, b, x, old
<1>10. m \in MasksOf(r, b)
  BY <1>2, <1>4, <1>6, MaskOfElement DEF m
<1>11. m \in 0 .. NumMasks(r) - 1
  BY <1>2, <1>4, <1>10, MasksExist
<1>12. mk = [k \in 0 .. NumMasks(r) - 1 |-> mk[k]]
  BY <1>8
<1>13. \A k \in 0 .. NumMasks(r) - 1 : mk[k] = IF k = m THEN SymDiff(th.read, {th.ot}) ELSE old[k]
  BY <1>8, <1>11
<1> HIDE DEF mk
<1>14. ASSUME NEW c \in Bin, NEW k \in MasksOf(r, c)
       PROVE  /\ mk[k] \subseteq OtsOf(c)
              /\ Alone(r, c, t) => mk[k] = AddedUpTo(r, t, x.ot, x.u, c, k)
              /\ \A s \in Thread(r) : s # t /\ Alone(r, c, s) => mk[k] = old[k]
  <2> DEFINE A == AddedUpTo(r, t, th.ot, th.u, c, k)
  <2>1. /\ AddedUpTo(r, t, x.ot, x.u, c, k) = A \cup (IF k = m THEN {th.ot} ELSE {})
        /\ k = m => c = b /\ th.ot \in OtsOf(c) /\ th.ot \notin A
    BY <1>2, <1>3, <1>4, <1>6, OneMore DEF m
  <2>2. old[k] \subseteq OtsOf(c) /\ (Alone(r, c, t) => old[k] = A)
    BY <1>4 DEF Filled, th
  <2>3. mk[k] = IF k = m THEN SymDiff(th.read, {th.ot}) ELSE old[k]
    BY <1>4, <1>13, MasksExist
  <2> HIDE DEF A
  <2>4. CASE k = m
    <3>1. mk[k] = SymDiff(th.read, {th.ot}) /\ c = b
      BY <2>1, <2>3, <2>4
    <3>2. \A s \in Thread(r) : s # t => ~Alone(r, c, s)
      BY <1>2, <3>1
    <3>3. SymDiff(th.read, {th.ot}) \subseteq OtsOf(c)
      BY <1>7, <2>1, <2>4, <3>1 DEF SymDiff
    <3>4. ASSUME Alone(r, c, t) PROVE mk[k] = A \cup {th.ot}
      <4>1. th.read = A /\ th.ot \notin A
        BY <1>7, <2>1, <2>2, <2>4, <3>1, <3>4
      <4>2. SymDiff(A, {th.ot}) = A \cup {th.ot}
        BY <4>1 DEF SymDiff
      <4> QED BY <3>1, <4>1, <4>2
    <3> QED BY <2>1, <2>4, <3>1, <3>2, <3>3, <3>4
  <2>5. CASE k # m
    BY <2>1, <2>2, <2>3, <2>5
  <2> QED BY <2>4, <2>5
<1>15. ASSUME NEW s \in Thread(r), s # t PROVE StillThere(r, s, threads[r][s], mk)
  <2> DEFINE y == threads[r][s]
              c == y.ot \div setup.bytes
              n == StartingPosForBin(r, c) + y.u
  <2>1. SUFFICES ASSUME y.read # Nothing
                 PROVE  y.read \subseteq OtsOf(c) /\ (Alone(r, c, s) => y.read = mk[n])
    BY DEF StillThere
  <2>2. Placed(r, s, y) /\ StillThere(r, s, y, old)
    BY <1>4
  <2>3. y.read \subseteq OtsOf(c) /\ (Alone(r, c, s) => y.read = old[n])
    BY <2>1, <2>2 DEF StillThere
  <2> HIDE DEF y
  <2>4. /\ y.phase = "expand" /\ y.ot < BatchEnd(r, s, y.at) /\ y.u < NumEleInBin(r, c)
        /\ y.at \in Nat /\ y.ot \in Nat /\ y.u \in Nat /\ StartPos(r, s) <= y.ot
        /\ y.at < Lim(r, s)
    BY <2>1, <2>2 DEF Placed
  <2>5. y.ot < NumOTs
    <3>1. /\ BatchEnd(r, s, y.at) \in Nat /\ BatchEnd(r, s, y.at) <= Lim(r, s)
          /\ Lim(r, s) \in Nat /\ Lim(r, s) <= NumOTs /\ NumOTs \in Nat
      BY <1>4, <2>4, BatchesWithin
    <3> QED BY <2>4, <3>1
  <2>6. c \in Bin
    BY <1>4, <2>4, <2>5, BinOfOT
  <2> HIDE DEF c
  <2>7. n \in MasksOf(r, c)
    BY <1>4, <2>4, <2>6, MaskOfElement
  <2>8. Alone(r, c, s) => mk[n] = old[n]
    BY <1>14, <1>15, <2>6, <2>7
  <2> QED BY <2>3, <2>8
<1>16. Advanced(r, t, mk)
  BY <1>14, <1>15 DEF Advanced, x, old
<1> QED BY <1>1, <1>9, <1>12, <1>16, OnwardKeeps DEF x

\* What is read is what was added, and nothing of another bin.
LEMMA XorReadKeeps ==
  ASSUME Shape, MaskInv, NEW r \in Role, NEW t \in Thread(r), XorRead(r, t)
  PROVE  MaskInv'
<1> DEFINE th == threads[r][t]
            b == BinOf(r, t)
            m == StartingPosForBin(r, b) + th.u
            mk == masks[r]
            d == mk[m]
            x == [th EXCEPT !.read = d]
<1>1. /\ Expanding(r, t) /\ NumEleInBin(r, b) > 0 /\ UNCHANGED <<setup, masks>>
      /\ m = MaskOf(r, t)
      /\ threads' = [threads EXCEPT ![r][t].read = masks[r][MaskOf(r, t)]]
  BY DEF XorRead, MaskOf
<1>2. /\ th.phase = "expand" /\ th.ot < BatchEnd(r, t, th.at)
      /\ th.ot \in Nat /\ th.ot < NumOTs /\ StartPos(r, t) <= th.ot /\ th.u \in Nat
      /\ b \in Bin /\ b = th.ot \div setup.bytes /\ NumEleInBin(r, b) \in Nat
  BY <1>1, ExpandingIs
<1>3. /\ Placed(r, t, th) /\ Filled(r, mk, threads[r]) /\ setup \in Setups /\ ThreadState(th)
      /\ \A s \in Thread(r) : StillThere(r, s, threads[r][s], mk)
      /\ masks = [q \in Role |-> [k \in 0 .. NumMasks(q) - 1 |-> masks[q][k]]]
      /\ threads = [q \in Role |-> [s \in Thread(q) |-> threads[q][s]]]
  BY DEF MaskInv, Shape
<1>4. mk = [k \in 0 .. NumMasks(r) - 1 |-> mk[k]] /\ masks' = [masks EXCEPT ![r] = mk]
  BY <1>1, <1>3
<1> HIDE DEF m, b, mk
<1>5. threads' = [threads EXCEPT ![r][t] = x]
  BY <1>1 DEF mk
<1> HIDE DEF d, th
<1>6. th.u < NumEleInBin(r, b)
  BY <1>1, <1>2, <1>3 DEF Placed
<1>7. m \in MasksOf(r, b)
  BY <1>2, <1>3, <1>6, MaskOfElement DEF m
<1>8. d \subseteq OtsOf(b)
  BY <1>2, <1>3, <1>7 DEF Filled, d
<1>9. ThreadState(x) /\ x.at = th.at /\ x.phase = th.phase /\ x.ot = th.ot /\ x.u = th.u
      /\ x.read = d
  BY <1>3 DEF ThreadState
<1> HIDE DEF x
<1>10. Placed(r, t, x)
  BY <1>2, <1>3, <1>6, <1>9 DEF Placed
<1>11. StillThere(r, t, x, mk)
  BY <1>2, <1>8, <1>9 DEF StillThere, m, d
<1>12. threads'[r][t] = x /\ \A s \in Thread(r) : s # t => threads'[r][s] = threads[r][s]
  BY <1>3, <1>5
<1>13. \A s \in Thread(r) : StillThere(r, s, threads'[r][s], mk)
  BY <1>3, <1>11, <1>12
<1>14. \A s \in Thread(r) : threads'[r][s].ot = threads[r][s].ot /\ threads'[r][s].u = threads[r][s].u
  BY <1>9, <1>12 DEF th
<1>15. Filled(r, mk, threads'[r])
  BY <1>3, <1>14 DEF Filled
<1> QED BY <1>1, <1>4, <1>5, <1>9, <1>10, <1>13, <1>15, OneMoves

LEMMA InitMasks == Init => MaskInv
<1> SUFFICES ASSUME Init PROVE MaskInv
  OBVIOUS
<1>1. /\ setup \in Setups
      /\ threads = [r \in Role |-> [t \in Thread(r) |-> New(r, t)]]
      /\ masks = [r \in Role |-> [k \in 0 .. NumMasks(r) - 1 |-> {}]]
  BY DEF Init
<1>2. masks = [r \in Role |-> [k \in 0 .. NumMasks(r) - 1 |-> masks[r][k]]]
  BY <1>1
<1>3. ASSUME NEW r \in Role, NEW t \in Thread(r)
      PROVE  /\ threads[r][t].at = StartPos(r, t) /\ threads[r][t].ot = StartPos(r, t)
             /\ threads[r][t].u = 0 /\ threads[r][t].read = Nothing
             /\ threads[r][t].phase \in {"receive", "expand", "finished"}
             /\ threads[r][t].phase = "finished" <=> StartPos(r, t) >= Lim(r, t)
  <2>1. threads[r][t] = New(r, t)
    BY <1>1
  <2> HIDE DEF Role
  <2> QED BY <2>1 DEF New
<1>4. ASSUME NEW r \in Role PROVE Filled(r, masks[r], threads[r])
  <2> SUFFICES ASSUME NEW b \in Bin, NEW k \in MasksOf(r, b)
                PROVE  /\ masks[r][k] = {}
                       /\ \A t \in Thread(r) : AddedUpTo(r, t, threads[r][t].ot, threads[r][t].u, b, k) = {}
    BY DEF Filled
  <2>1. k \in 0 .. NumMasks(r) - 1 /\ k \in Nat
    BY <1>1, MasksExist
  <2>2. masks[r][k] = {}
    BY <1>1, <2>1
  <2>3. b \in 0 .. setup.bins
    BY <1>1, LoadsAre DEF Bin
  <2>4. StartingPosForBin(r, b) \in Nat /\ NumEleInBin(r, b) \in Nat
    BY <1>1, <2>3, StartsGrow, LoadsAre
  <2>5. StartingPosForBin(r, b) <= k
    BY <2>1, <2>4 DEF MasksOf
  <2>6. ASSUME NEW t \in Thread(r)
        PROVE  AddedUpTo(r, t, threads[r][t].ot, threads[r][t].u, b, k) = {}
    <3>1. StartPos(r, t) \in Nat /\ threads[r][t].ot = StartPos(r, t) /\ threads[r][t].u = 0
      BY <1>1, <1>3, PartsAre
    <3>2. \A x \in OtsOf(b) : x \in Int
      BY DEF OtsOf
    <3>3. AddedUpTo(r, t, StartPos(r, t), 0, b, k) = {}
      BY <2>1, <2>4, <2>5, <3>1, <3>2 DEF AddedUpTo
    <3> QED BY <3>1, <3>3
  <2> QED BY <2>2, <2>6
<1>5. ASSUME NEW r \in Role, NEW t \in Thread(r)
      PROVE  Placed(r, t, threads[r][t]) /\ StillThere(r, t, threads[r][t], masks[r])
  <2> DEFINE th == threads[r][t]
  <2>1. StartPos(r, t) \in Nat /\ Lim(r, t) \in Nat
    <3>1. StartPos(r, t) \in Nat /\ Part(r) \in Nat /\ NumOTs \in Nat
          /\ Lim(r, t) = Least(StartPos(r, t) + Part(r), NumOTs)
      BY <1>1, PartsAre
    <3> QED BY <3>1 DEF Least
  <2>2. StartPos(r, t) < Lim(r, t) => BatchEnd(r, t, StartPos(r, t)) \in Nat
                                /\ StartPos(r, t) < BatchEnd(r, t, StartPos(r, t))
    BY <1>1, <2>1, BatchesWithin
  <2>3. /\ th.at = StartPos(r, t) /\ th.ot = StartPos(r, t) /\ th.u = 0 /\ th.read = Nothing
        /\ th.phase \in {"receive", "expand", "finished"}
        /\ th.phase = "finished" <=> StartPos(r, t) >= Lim(r, t)
    BY <1>3
  <2> HIDE DEF th
  <2>4. Placed(r, t, th)
    BY <2>1, <2>2, <2>3 DEF Placed
  <2>5. StillThere(r, t, th, masks[r])
    BY <2>3 DEF StillThere
  <2> QED BY <2>4, <2>5 DEF th
<1> QED BY <1>2, <1>4, <1>5 DEF MaskInv

\* A thread that is done with a batch is at its end, in no element.
LEMMA LoopedPlaced ==
  ASSUME Shape, MaskInv, NEW r \in Role, NEW t \in Thread(r), BatchDone(r, t),
         NEW again \in {"receive", "expand"}
  PROVE  LET th == threads[r][t]
             x == Looped(r, t, th, again)
         IN  /\ ThreadState(x) /\ Placed(r, t, x)
             /\ x.ot = th.ot /\ x.u = th.u /\ x.read = th.read
<1> DEFINE th == threads[r][t]
            next == BatchEnd(r, t, th.at)
            x == Looped(r, t, th, again)
            ph == IF next >= Lim(r, t) THEN "finished" ELSE again
<1>1. ThreadState(th) /\ Placed(r, t, th) /\ setup \in Setups
  BY DEF Shape, MaskInv
<1>2. th.phase = "expand" /\ ~(th.ot < next)
  BY DEF BatchDone, Expanding, Running
<1>3. x = [th EXCEPT !.at = next, !.phase = ph]
  BY DEF Looped
<1> HIDE DEF x, th, next
<1>4. th.at \in Nat /\ th.ot \in Nat /\ th.u \in Nat /\ th.at < Lim(r, t) /\ th.ot <= next
      /\ StartPos(r, t) <= th.ot
  BY <1>1, <1>2 DEF Placed, next
<1>5. next \in Nat /\ next <= Lim(r, t) /\ Lim(r, t) \in Nat
  BY <1>1, <1>4, BatchesWithin DEF next
<1>6. th.ot = next
  BY <1>2, <1>4, <1>5
<1>7. th.u = 0 /\ th.read = Nothing
  <2>1. ~(th.u > 0 \/ th.read # Nothing)
    BY <1>1, <1>2 DEF Placed, next
  <2> QED BY <1>4, <2>1
<1>8. ThreadState(x) /\ x.at = next /\ x.phase = ph
      /\ x.ot = th.ot /\ x.u = th.u /\ x.read = th.read
  <2>1. th = [at |-> th.at, ot |-> th.ot, u |-> th.u, read |-> th.read, phase |-> th.phase]
    BY <1>1 DEF ThreadState
  <2> DEFINE y == [th EXCEPT !.at = next]
  <2>2. y = [at |-> next, ot |-> th.ot, u |-> th.u, read |-> th.read, phase |-> th.phase]
    BY <2>1
  <2> HIDE DEF y, ph
  <2>3. x = [y EXCEPT !.phase = ph]
    BY <1>3 DEF y
  <2>4. x = [at |-> next, ot |-> th.ot, u |-> th.u, read |-> th.read, phase |-> ph]
    BY <2>2, <2>3
  <2> QED BY <1>5, <2>4 DEF ThreadState
<1>9. next < Lim(r, t) => BatchEnd(r, t, next) \in Nat /\ next < BatchEnd(r, t, next)
  BY <1>1, <1>5, BatchesWithin
<1>10. Placed(r, t, x)
  BY <1>4, <1>5, <1>6, <1>7, <1>8, <1>9 DEF Placed
<1> QED BY <1>8, <1>10 DEF x, th

LEMMA SendMasks ==
  ASSUME Shape, MaskInv, NEW t \in Thread("client"), SendBatch(t) PROVE MaskInv'
<1> DEFINE x == Looped("client", t, threads["client"][t], "expand")
<1>1. PICK r \in Role : r = "client" /\ t \in Thread(r)
  BY DEF Role
<1>2. /\ BatchDone(r, t) /\ UNCHANGED <<setup, masks>> /\ x = Looped(r, t, threads[r][t], "expand")
      /\ threads' = [threads EXCEPT ![r][t] = x]
  BY <1>1 DEF SendBatch
<1> HIDE DEF x
<1>3. /\ ThreadState(x) /\ Placed(r, t, x) /\ x.ot = threads[r][t].ot
      /\ x.u = threads[r][t].u /\ x.read = threads[r][t].read
  BY <1>1, <1>2, LoopedPlaced
<1> QED BY <1>1, <1>2, <1>3, MasksStay

LEMMA LoopMasks ==
  ASSUME Shape, MaskInv, NEW t \in Thread("server"), LoopServer(t) PROVE MaskInv'
<1> DEFINE x == Looped("server", t, threads["server"][t], "receive")
<1>1. PICK r \in Role : r = "server" /\ t \in Thread(r)
  BY DEF Role
<1>2. /\ BatchDone(r, t) /\ UNCHANGED <<setup, masks>> /\ x = Looped(r, t, threads[r][t], "receive")
      /\ threads' = [threads EXCEPT ![r][t] = x]
  BY <1>1 DEF LoopServer
<1> HIDE DEF x
<1>3. /\ ThreadState(x) /\ Placed(r, t, x) /\ x.ot = threads[r][t].ot
      /\ x.u = threads[r][t].u /\ x.read = threads[r][t].read
  BY <1>1, <1>2, LoopedPlaced
<1> QED BY <1>1, <1>2, <1>3, MasksStay

LEMMA ReceiveMasks ==
  ASSUME Shape, MaskInv, NEW t \in Thread("server"), ReceiveBatch(t) PROVE MaskInv'
<1>1. PICK r \in Role : r = "server" /\ t \in Thread(r)
  BY DEF Role
<1> DEFINE th == threads[r][t]
            x == [th EXCEPT !.phase = "expand"]
<1>2. /\ th.phase = "receive" /\ UNCHANGED <<setup, masks>>
      /\ threads' = [threads EXCEPT ![r][t] = x]
  BY <1>1 DEF ReceiveBatch, Running
<1>3. ThreadState(th) /\ Placed(r, t, th) /\ setup \in Setups
  BY <1>1 DEF Shape, MaskInv
<1> HIDE DEF th
<1>4. ThreadState(x) /\ x.at = th.at /\ x.phase = "expand" /\ x.ot = th.ot /\ x.u = th.u
      /\ x.read = th.read
  BY <1>3 DEF ThreadState
<1> HIDE DEF x
<1>5. Placed(r, t, x)
  BY <1>2, <1>3, <1>4 DEF Placed
<1> QED BY <1>1, <1>2, <1>4, <1>5, MasksStay DEF th

LEMMA RestMasks == ASSUME MaskInv, UNCHANGED <<setup, threads, masks>> PROVE MaskInv'
<1>1. (\A q \in Role : Filled(q, masks[q], threads[q]))'
  <2>1. \A q \in Role : Filled(q, masks'[q], threads'[q])
    BY DEF MaskInv
  <2> QED BY <2>1, SameMasks DEF Role
<1>2. (\A q \in Role : \A s \in Thread(q) : /\ Placed(q, s, threads[q][s])
                                     /\ StillThere(q, s, threads[q][s], masks[q]))'
  BY SameMasks DEF MaskInv, Role
<1>3. (masks = [q \in Role |-> [k \in 0 .. NumMasks(q) - 1 |-> masks[q][k]]])'
  BY SameMasks DEF MaskInv, Role
<1> QED BY <1>1, <1>2, <1>3 DEF MaskInv

\* A mask of a bin that one thread has to itself holds just what the thread has
\* added, between any two steps and between the two halves of an XOR.
THEOREM MasksInvariant == Spec => []MaskInv
<1>1. ASSUME BatchInv, MaskInv, [Next]_vars PROVE MaskInv'
  <2>1. Shape
    BY <1>1 DEF BatchInv
  <2>2. CASE Work
    <3>1. PICK r \in Role : \E t \in Thread(r) : Step(r, t)
      BY <2>2 DEF Work
    <3>2. PICK t \in Thread(r) : Step(r, t)
      BY <3>1
    <3> QED BY <1>1, <2>1, <3>2, SkipKeeps, XorReadKeeps, XorWriteKeeps, SendMasks,
                ReceiveMasks, LoopMasks DEF Step
  <2>3. CASE \E t \in Thread("server") : Overrun(t)
    BY <1>1, <2>3, RestMasks DEF Overrun
  <2>4. CASE UNCHANGED vars
    BY <1>1, <2>4, RestMasks DEF vars
  <2> QED BY <1>1, <2>2, <2>3, <2>4 DEF Next
<1> QED BY <1>1, InitMasks, BatchInductive, PTL DEF Spec

\* Who has a bin to itself, if not two threads share it.
LEMMA UnsharedIsAlone ==
  ASSUME setup \in Setups, NEW r \in Role, NEW b \in Bin, ~Shared(r, b)
  PROVE  \E t \in Thread(r) : Alone(r, b, t) /\ \A o \in OtsOf(b) : o \in StartPos(r, t) .. Lim(r, t) - 1
<1> DEFINE S == {t \in Thread(r) : OtsOf(b) \cap (StartPos(r, t) .. Lim(r, t) - 1) # {}}
<1>1. /\ setup.bytes \in Nat \ {0} /\ setup.bins \in Nat \ {0} /\ setup.threads[r] \in Nat \ {0}
      /\ b \in Nat /\ b < setup.bins
  BY ThreadCounts, OprgAssumption DEF Bin
<1>2. OtsOf(b) \subseteq 0 .. NumOTs - 1 /\ b * setup.bytes \in OtsOf(b)
  <2>1. /\ b * setup.bytes \in Nat /\ (b + 1) * setup.bytes = b * setup.bytes + setup.bytes
        /\ (b + 1) * setup.bytes <= setup.bins * setup.bytes /\ setup.bins * setup.bytes \in Nat
    BY SMTT(30), <1>1, Products
  <2> QED BY <1>1, <2>1 DEF OtsOf, NumOTs
<1>3. \A o \in OtsOf(b) : \E t \in S : o \in StartPos(r, t) .. Lim(r, t) - 1
  BY <1>2, EveryOT
<1>4. IsFiniteSet(S)
  <2>1. IsFiniteSet(Thread(r))
    <3> DEFINE n == setup.threads[r] - 1
    <3>1. n \in Int /\ 0 \in Int
      BY <1>1
    <3>2. Thread(r) = 0 .. n
      BY DEF Thread
    <3> HIDE DEF n
    <3>3. IsFiniteSet(0 .. n)
      BY <3>1, FS_Interval
    <3> QED BY <3>2, <3>3
  <2> QED BY <2>1, FS_Subset
<1>5. PICK t : S = {t}
  <2>1. ~(Cardinality(S) > 1)
    BY DEF Shared
  <2>2. S # {}
    BY <1>2, <1>3
  <2> HIDE DEF S
  <2>3. Cardinality(S) \in Nat /\ Cardinality(S) # 0
    BY <1>4, <2>2, FS_CardinalityType, FS_EmptySet
  <2>4. Cardinality(S) = 1
    BY <2>1, <2>3
  <2> QED BY <1>4, <2>4, FS_Singleton
<1>6. t \in Thread(r) /\ Alone(r, b, t)
  BY <1>5 DEF Alone
<1>7. \A o \in OtsOf(b) : o \in StartPos(r, t) .. Lim(r, t) - 1
  <2> HIDE DEF S
  <2> QED BY <1>3, <1>5
<1> QED BY <1>6, <1>7

\* Once a side is finished, every mask of a bin that no two of its threads share
\* holds each OT of the bin exactly once, whatever the threads did in between;
\* and no mask, shared or not, ever holds an OT of another bin.
THEOREM MasksAreWhole == Spec => []WholeUnlessShared
<1>1. ASSUME BatchInv, MaskInv PROVE WholeUnlessShared
  <2> SUFFICES ASSUME NEW r \in Role, Finished(r), NEW b \in Bin, NEW k \in MasksOf(r, b)
                PROVE  masks[r][k] \subseteq OtsOf(b) /\ (masks[r][k] = OtsOf(b) \/ Shared(r, b))
    BY DEF WholeUnlessShared
  <2>1. setup \in Setups /\ Filled(r, masks[r], threads[r])
    BY <1>1 DEF BatchInv, Shape, MaskInv
  <2>2. masks[r][k] \subseteq OtsOf(b)
    BY <2>1 DEF Filled
  <2>3. ASSUME ~Shared(r, b) PROVE masks[r][k] = OtsOf(b)
    <3>1. PICK t \in Thread(r) : /\ Alone(r, b, t)
                             /\ \A o \in OtsOf(b) : o \in StartPos(r, t) .. Lim(r, t) - 1
      BY <2>1, <2>3, UnsharedIsAlone
    <3> DEFINE th == threads[r][t]
    <3>2. masks[r][k] = AddedUpTo(r, t, th.ot, th.u, b, k)
      BY <2>1, <3>1 DEF Filled
    <3>3. Placed(r, t, th) /\ th.phase = "finished"
      BY <1>1 DEF MaskInv, Finished
    <3> HIDE DEF th
    <3>4. Lim(r, t) <= th.ot /\ th.ot \in Nat
      BY <3>3 DEF Placed
    <3>5. Lim(r, t) \in Int /\ StartPos(r, t) \in Int
      BY <2>1, PartsAreInts
    <3>6. \A o \in OtsOf(b) : StartPos(r, t) <= o /\ o < th.ot
      BY <3>1, <3>4, <3>5
    <3>7. AddedUpTo(r, t, th.ot, th.u, b, k) = OtsOf(b)
      BY <3>6 DEF AddedUpTo
    <3> QED BY <3>2, <3>7
  <2> QED BY <2>2, <2>3
<1> QED BY <1>1, BatchInductive, MasksInvariant, PTL
=============================================================================
