-------------------------------- MODULE Oprg --------------------------------
(***************************************************************************)
(* One OPRG evaluation between the leader (client, OT receiver) and a      *)
(* follower (server, OT sender), OT thread by OT thread.                   *)
(*                                                                         *)
(* Every bin takes one 1-out-of-N OT per byte of an element.  Thread t of  *)
(* either side runs the OTs of its part t over socket t, in batches.  The  *)
(* receiver expands a batch, which XORs the value of each OT into the mask *)
(* of every element of the OT's bin, and then sends its matrix; the sender *)
(* waits for the matrix and then expands the batch.  The parts divide the  *)
(* OTs, not the bins: the OTs of one bin may belong to two threads.        *)
(*                                                                         *)
(* Each side divides the OTs by its own m_commThreads (PsiParty.cpp:139,   *)
(* 260), and nothing compares the two: with different numbers of cores the *)
(* parts of the sides differ, and what arrives on a socket is a stream of  *)
(* bytes that ends sooner or later than its reader expects.                *)
(*                                                                         *)
(* The value of an OT is the OT itself, a mask the set of the OTs that are *)
(* XORed in it; the two sides' masks agree when both hold all OTs of the   *)
(* bin.  XORBits is a read and a write: nothing locks the masks.           *)
(***************************************************************************)
EXTENDS Integers, FiniteSets, Sequences, FiniteSetsExt

CONSTANTS
  RegisterBits,   (* the OTs are padded to a multiple of REGISTER_BITS     *)
  CodeWordBits,   (* m_nCodeWordBits: OTs of a block, codewords of a byte  *)
  NumOtBlocks,    (* NUMOTBLOCKS, the blocks of a batch                    *)
  Word,           (* uint32_t is taken modulo Word                         *)
  Room,           (* matrices a connection takes while nobody reads        *)
  Setups          (* [bins, bytes, threads, nelesinbin] to start from, the *)
                  (* last two of each side                                 *)

(* The client has at least the server's sockets: it connects them, and the *)
(* server listens until it has its own number (ShortOfSockets of Launch).  *)
ASSUME OprgAssumption ==
  /\ {RegisterBits, CodeWordBits, NumOtBlocks, Word, Room} \subseteq Nat \ {0}
  /\ \A s \in Setups :
       /\ {s.bins, s.bytes} \subseteq Nat \ {0}
       /\ s.threads \in [{"client", "server"} -> Nat \ {0}]
       /\ s.threads["server"] <= s.threads["client"]
       /\ s.nelesinbin \in [{"client", "server"} -> [0 .. s.bins - 1 -> Nat]]
       /\ \A b \in 0 .. s.bins - 1 : s.nelesinbin["client"][b] <= 1

(* The OTs, rounded up to parts of equal length, are counted in a uint32_t *)
(* (at 16 bytes an element: fewer than 2^28 bins).                         *)
ASSUME WordAssumption ==
  \A s \in Setups : \A r \in {"client", "server"} :
    s.bins * s.bytes + RegisterBits + s.threads[r] <= Word

VARIABLES
  setup,          (* the member of Setups that runs                        *)
  threads,        (* threads[r][t]: the OT thread t of side r, see New     *)
  sock,           (* sock[t]: what the client sent on socket t and nobody  *)
                  (* has read yet, matrix by matrix                        *)
  masks,          (* masks[r][k]: the OTs XORed into mask k of side r      *)
  alive           (* FALSE once the server has been brought down           *)

vars == <<setup, threads, sock, masks, alive>>

Role == {"client", "server"}
Thread(r) == 0 .. setup.threads[r] - 1
Bin == 0 .. setup.bins - 1

CeilDivide(x, y) == IF x > 0 THEN ((x - 1) \div y) + 1 ELSE 0
PadToMultiple(x, y) == CeilDivide(x, y) * y
Least(x, y) == IF x < y THEN x ELSE y

-----------------------------------------------------------------------------
(***************************************************************************)
(* The parts and the batches of side r.  The number of OTs of a part that  *)
(* starts behind the last OT wraps around, and so does the end that is     *)
(* computed from it: it is the number of OTs again, and the part is empty. *)
(***************************************************************************)
NumOTs == setup.bins * setup.bytes

\* Variant: the remainder is dropped.
Part_Floor(r) == NumOTs \div setup.threads[r]

Part(r) == CeilDivide(PadToMultiple(NumOTs, RegisterBits), setup.threads[r])

StartPos(r, t) == (t * Part(r)) % Word

MyNumOTs(r, t) == (Least(Part(r) + StartPos(r, t), NumOTs) - StartPos(r, t)) % Word

Lim(r, t) == (StartPos(r, t) + MyNumOTs(r, t)) % Word

(* OTsPerIteration: the OTs a batch from i on has room for.                *)
OTsPerIteration(r, t, i) ==
  Least(NumOtBlocks, CeilDivide(Lim(r, t) - i, CodeWordBits)) * CodeWordBits

(* The OT after the last of a batch that starts at i.                      *)
BatchEnd(r, t, i) == i + Least(Lim(r, t) - i, OTsPerIteration(r, t, i))

-----------------------------------------------------------------------------
(***************************************************************************)
(* The masks.  The elements of a side lie bin after bin.                   *)
(***************************************************************************)
NumEleInBin(r, b) == setup.nelesinbin[r][b]

StartingPosForBin(r, b) ==
  LET start[i \in 0 .. b] ==
        IF i = 0 THEN 0 ELSE start[i - 1] + NumEleInBin(r, i - 1)
  IN  start[b]

NumMasks(r) == StartingPosForBin(r, setup.bins)

(* m_nExpansionFactor, and the room it leaves for the values of all code-  *)
(* words.  Only a bin with more than CodeWordBits elements raises it, but  *)
(* a bin with just as many is expanded that way too.                       *)
ExpansionFactor ==
  IF \E b \in Bin : NumEleInBin("server", b) > CodeWordBits THEN CodeWordBits ELSE 1

Overruns(ot) ==
  /\ NumEleInBin("server", ot \div setup.bytes) >= CodeWordBits
  /\ ExpansionFactor < CodeWordBits

-----------------------------------------------------------------------------
(***************************************************************************)
(* A thread: the batch it is in starts at "at", it is at element "u" of    *)
(* the bin of OT "ot", and has read the mask "read" (or nothing) to XOR a  *)
(* value into it.                                                          *)
(***************************************************************************)
Nothing == {-1}

New(r, t) ==
  [at |-> StartPos(r, t), ot |-> StartPos(r, t), u |-> 0, read |-> Nothing,
   phase |-> IF StartPos(r, t) >= Lim(r, t) THEN "finished"
             ELSE IF r = "client" THEN "expand" ELSE "receive"]

Init ==
  /\ setup \in Setups
  /\ threads = [r \in Role |-> [t \in Thread(r) |-> New(r, t)]]
  /\ sock = [t \in Thread("client") |-> << >>]
  /\ masks = [r \in Role |-> [k \in 0 .. NumMasks(r) - 1 |-> {}]]
  /\ alive = TRUE

Running(r, t, phase) ==
  /\ threads[r][t].phase = phase
  /\ r = "server" => alive

Expanding(r, t) ==
  /\ Running(r, t, "expand")
  /\ threads[r][t].ot < BatchEnd(r, t, threads[r][t].at)

BinOf(r, t) == threads[r][t].ot \div setup.bytes

MaskOf(r, t) == StartingPosForBin(r, BinOf(r, t)) + threads[r][t].u

(* The thread after it is through with element u.                          *)
Onward(r, t) ==
  LET th == threads[r][t] IN
  IF th.u + 1 < NumEleInBin(r, BinOf(r, t))
  THEN [th EXCEPT !.u = th.u + 1, !.read = Nothing]
  ELSE [th EXCEPT !.ot = th.ot + 1, !.u = 0, !.read = Nothing]

(* A bin without elements has no mask to XOR into.                         *)
SkipEmpty(r, t) ==
  /\ Expanding(r, t)
  /\ NumEleInBin(r, BinOf(r, t)) = 0
  /\ threads' = [threads EXCEPT ![r][t] = Onward(r, t)]
  /\ UNCHANGED <<setup, sock, masks, alive>>

XorRead(r, t) ==
  /\ Expanding(r, t)
  /\ NumEleInBin(r, BinOf(r, t)) > 0
  /\ threads[r][t].read = Nothing
  /\ threads' = [threads EXCEPT ![r][t].read = masks[r][MaskOf(r, t)]]
  /\ UNCHANGED <<setup, sock, masks, alive>>

XorWrite(r, t) ==
  LET th == threads[r][t] IN
  /\ Expanding(r, t)
  /\ th.read # Nothing
  /\ masks' = [masks EXCEPT ![r][MaskOf(r, t)] = SymDiff(th.read, {th.ot})]
  /\ threads' = [threads EXCEPT ![r][t] = Onward(r, t)]
  /\ UNCHANGED <<setup, sock, alive>>

(* The values of all codewords are written behind the end of a buffer that *)
(* holds one: what they overwrite may bring the process down.              *)
Overrun(t) ==
  /\ Expanding("server", t)
  /\ Overruns(threads["server"][t].ot)
  /\ alive' = FALSE
  /\ UNCHANGED <<setup, threads, sock, masks>>

(* The thread once its batch is expanded and, on the client, sent.         *)
Looped(r, t, th, again) ==
  LET next == BatchEnd(r, t, th.at) IN
  [th EXCEPT !.at = next, !.phase = IF next >= Lim(r, t) THEN "finished" ELSE again]

BatchDone(r, t) ==
  /\ Running(r, t, "expand")
  /\ ~Expanding(r, t)

\* Variant: the matrix is cut to the OTs that are left.
Matrix_Cut(t, i) ==
  [ots |-> i .. BatchEnd("client", t, i) - 1, size |-> BatchEnd("client", t, i) - i]

(* m_nCodeWordBytes for every OT there is room for, the last ones unused.  *)
Matrix(t, i) ==
  [ots |-> i .. BatchEnd("client", t, i) - 1, size |-> OTsPerIteration("client", t, i)]

(* send comes back: there is room, a thread that reads, or nobody left.    *)
Takes(t) ==
  \/ Len(sock[t]) < Room
  \/ t \in Thread("server") /\ threads["server"][t].phase = "receive"
  \/ ~alive

\* Variant: a batch that is not full is expanded but not sent.
SendBatch_FullOnly(t) ==
  LET th == threads["client"][t] IN
  /\ BatchDone("client", t)
  /\ Takes(t)
  /\ sock' = IF Cardinality(Matrix(t, th.at).ots) < OTsPerIteration("client", t, th.at) THEN sock
             ELSE [sock EXCEPT ![t] = Append(@, Matrix(t, th.at))]
  /\ threads' = [threads EXCEPT !["client"][t] = Looped("client", t, th, "expand")]
  /\ UNCHANGED <<setup, masks, alive>>

SendBatch(t) ==
  LET th == threads["client"][t] IN
  /\ BatchDone("client", t)
  /\ Takes(t)
  /\ sock' = [sock EXCEPT ![t] = Append(@, Matrix(t, th.at))]
  /\ threads' = [threads EXCEPT !["client"][t] = Looped("client", t, th, "expand")]
  /\ UNCHANGED <<setup, masks, alive>>

(* What sender thread t waits for: all Receive knows is the length.        *)
Wanted(t) == OTsPerIteration("server", t, threads["server"][t].at)

(* The rest of matrix m when n of its OTs have been read.                  *)
Rest(m, n) == IF m.size = n THEN << >> ELSE <<[m EXCEPT !.size = m.size - n]>>

(* A matrix that is shorter than the thread wants is the last of its       *)
(* socket: Receive waits for the rest of it for ever.                      *)
ReceiveBatch(t) ==
  LET q == sock[t] IN
  /\ Running("server", t, "receive")
  /\ q # << >>
  /\ q[1].size >= Wanted(t)
  /\ sock' = [sock EXCEPT ![t] = Rest(q[1], Wanted(t)) \o Tail(q)]
  /\ threads' = [threads EXCEPT !["server"][t].phase = "expand"]
  /\ UNCHANGED <<setup, masks, alive>>

LoopServer(t) ==
  /\ BatchDone("server", t)
  /\ threads' = [threads EXCEPT !["server"][t] = Looped("server", t, @, "receive")]
  /\ UNCHANGED <<setup, sock, masks, alive>>

Step(r, t) ==
  \/ SkipEmpty(r, t) \/ XorRead(r, t) \/ XorWrite(r, t)
  \/ r = "client" /\ SendBatch(t)
  \/ r = "server" /\ (ReceiveBatch(t) \/ LoopServer(t))

Work == \E r \in Role : \E t \in Thread(r) : Step(r, t)

Next == Work \/ \E t \in Thread("server") : Overrun(t)

Spec == Init /\ [][Next]_vars

(* A thread that can go on does, whichever the operating system picks.     *)
FairSpec == Spec /\ WF_vars(Work)

-----------------------------------------------------------------------------
Finished(r) == \A t \in Thread(r) : threads[r][t].phase = "finished"

OtsOf(b) == b * setup.bytes .. (b + 1) * setup.bytes - 1

(* Two threads of a side share a bin when OTs of it are in both's parts.   *)
Shared(r, b) ==
  Cardinality({t \in Thread(r) : OtsOf(b) \cap (StartPos(r, t) .. Lim(r, t) - 1) # {}}) > 1

MasksOf(r, b) ==
  StartingPosForBin(r, b) .. StartingPosForBin(r, b) + NumEleInBin(r, b) - 1

(* Thread t has the same OTs on both sides.  All threads do when the sides *)
(* have the same number of them, and otherwise at most the first one, when *)
(* there are so few OTs that it has them all.                              *)
SamePart(t) ==
  StartPos("client", t) = StartPos("server", t) /\ Lim("client", t) = Lim("server", t)

(* The matrix a sender thread waits for is the one of the batch it is in,  *)
(* and as long as it expects, if its part is the same on both sides: the   *)
(* two routines compute the batches each on its own, and a byte more or    *)
(* less would shift everything after (ot-extension-1oon-ecc.cpp:99-138,    *)
(* 454-500).                                                               *)
BatchesMatch ==
  \A t \in Thread("server") :
    LET i == threads["server"][t].at IN
    SamePart(t) /\ Running("server", t, "receive") /\ sock[t] # << >> =>
      /\ Head(sock[t]).ots = i .. BatchEnd("server", t, i) - 1
      /\ Head(sock[t]).size = Wanted(t)

(* Once a side is finished the mask of an element has the value of every   *)
(* OT of its bin in it exactly once, unless two threads share the bin, and *)
(* even then there is nothing of another bin in it.                        *)
WholeUnlessShared ==
  \A r \in Role : Finished(r) =>
    \A b \in Bin : \A k \in MasksOf(r, b) :
      /\ masks[r][k] \subseteq OtsOf(b)
      /\ masks[r][k] = OtsOf(b) \/ Shared(r, b)

(* The OTs whose codewords thread t sends or reads, the unused ones of its *)
(* last block included; none if the side has no such thread.               *)
Streamed(r, t) ==
  IF t \notin Thread(r) \/ StartPos(r, t) >= Lim(r, t) THEN 0
  ELSE PadToMultiple(Lim(r, t) - StartPos(r, t), CodeWordBits)

(* Both sides finish, with parts that are short or empty, unless           *)
(*   - the sides have different numbers of threads: a sender thread waits  *)
(*     for more than its socket will ever bring, and a receiver thread for *)
(*     somebody to read the rest of what it sends,                         *)
(*   - a largest bin of exactly CodeWordBits elements brings the server    *)
(*     down (opemasking.h:32-42,111).                                      *)
BothFinish ==
  <>(/\ \A t \in Thread("client") :
          \/ threads["client"][t].phase = "finished"
          \/ Streamed("client", t) > Streamed("server", t)
     /\ \/ \A t \in Thread("server") :
               \/ threads["server"][t].phase = "finished"
               \/ Streamed("server", t) > Streamed("client", t)
        \/ ~alive /\ Max({NumEleInBin("server", b) : b \in Bin}) = CodeWordBits)
=============================================================================
