-------------------------- MODULE XrngStreamProofs --------------------------
(***************************************************************************)
(* Proofs about XrngStream, for every block set, packet size, number of    *)
(* packets and choice of host faults.                                      *)
(***************************************************************************)
EXTENDS XrngStream, SequenceTheorems, TLAPS

LEMMA SizeIsNat == BUFFER_SIZE \in Nat \ {0}
  BY StreamAssumption DEF BUFFER_SIZE

\* An armed transfer that is not finished holds one packet or more, so the next
\* packet is a full one and leaves a whole number of packets.
LEMMA FullPacket ==
  ASSUME TypeOK, WholePackets, Armed
  PROVE  /\ PacketLen = BlocksPerPacket
         /\ aux + PacketLen \in 0..cnt
         /\ aux + PacketLen # cnt =>
              \E k \in 1..PacketsPerBuffer :
                 cnt - (aux + PacketLen) = k * BlocksPerPacket
<1> DEFINE B == BlocksPerPacket
<1>1. B \in Nat \ {0} /\ PacketsPerBuffer \in Nat \ {0}
  BY StreamAssumption
<1>2. aux \in Nat /\ cnt \in Nat
  BY SizeIsNat DEF TypeOK
<1>3. PICK k \in 1..PacketsPerBuffer : cnt - aux = k * B
  BY DEF WholePackets
<1>4. k * B = (k - 1) * B + B /\ (k - 1) * B \in Nat
  BY <1>1
<1>5. PacketLen = B
  BY <1>1, <1>2, <1>3, <1>4 DEF PacketLen
<1>6. cnt - (aux + B) = (k - 1) * B
  BY <1>1, <1>2, <1>3, <1>4
<1>7. aux + B \in 0..cnt
  BY <1>1, <1>2, <1>4, <1>6
<1>8. ASSUME aux + B # cnt
      PROVE  \E j \in 1..PacketsPerBuffer : cnt - (aux + B) = j * B
  <2>1. k # 1
    BY <1>1, <1>2, <1>6, <1>8
  <2>2. k - 1 \in 1..PacketsPerBuffer
    BY <1>1, <2>1
  <2> QED
    BY <1>6, <2>2
<1> QED
  BY <1>5, <1>7, <1>8

LEMMA InitIInv == Init => IInv
<1> SUFFICES ASSUME Init PROVE IInv
  OBVIOUS
<1>1. TypeOK
  <2>1. pc \in Statements /\ cur \in Buffers
    BY DEF Init, Statements, Boot, Buffers
  <2>2. n \in 0..BUFFER_SIZE /\ aux \in 0..BUFFER_SIZE /\ cnt \in 0..BUFFER_SIZE
    BY SizeIsNat DEF Init
  <2> QED
    BY <2>1, <2>2 DEF Init, TypeOK
<1> QED
  BY <1>1 DEF Init, IInv, BootInv, RearmInv, ArmedInv, WholePackets, Armed, Rearm
  
\* Every step of main, the hardware and the host preserves the invariant.
LEMMA StepIInv == IInv /\ [Next]_vars => IInv'
<1> SUFFICES ASSUME IInv, [Next]_vars PROVE IInv'
  OBVIOUS
<1> USE SizeIsNat
<1> USE DEF IInv, TypeOK, BootInv, RearmInv, ArmedInv, WholePackets, Armed,
            Statements, Boot, Rearm, Buffers, Other, Goto
<1>1. CASE EnableStatus
  BY <1>1 DEF EnableStatus
<1>2. CASE EnableCtrl
  BY <1>2 DEF EnableCtrl
<1>3. CASE Kickstart
  BY <1>3 DEF Kickstart, KickedTrn
<1>4. CASE FillBlock
  <2>1. PICK b \in Block : buf' = [buf EXCEPT ![cur][n + 1] = b]
    BY <1>4 DEF FillBlock
  <2>2. buf' \in [Buffers -> [1..BUFFER_SIZE -> Block]]
    BY <1>4, <2>1 DEF FillBlock, Room
  <2>3. n' \in 0..BUFFER_SIZE
    BY <1>4 DEF FillBlock, Room
  <2>4. pc' = pc /\ cur' = cur /\ UNCHANGED <<enabled, nack, trn, dataptr, aux, cnt, toggle, htoggle>>
    BY <1>4 DEF FillBlock, epVars
  <2> QED
    BY <1>4, <2>2, <2>3, <2>4 DEF FillBlock
<1>5. CASE FillDone
  BY <1>5 DEF FillDone, Room, epVars
<1>6. CASE WaitComplete
  BY <1>6 DEF WaitComplete, Completed, epVars
<1>7. CASE SetDataptr
  BY <1>7 DEF SetDataptr
<1>8. CASE SetAuxdata
  BY <1>8 DEF SetAuxdata, AuxStart
<1>9. CASE SetCnt
  BY <1>9 DEF SetCnt
<1>10. CASE ClearStatus
  <2>1. PacketsPerBuffer \in 1..PacketsPerBuffer
    BY StreamAssumption
  <2>2. cnt' - aux' = BUFFER_SIZE
    BY <1>10 DEF ClearStatus
  <2>3. TypeOK'
    BY <1>10 DEF ClearStatus, NextBuffer
  <2>4. (BootInv /\ RearmInv /\ ArmedInv)'
    BY <1>10 DEF ClearStatus, NextBuffer
  <2>5. WholePackets'
    <3>1. cnt' - aux' = PacketsPerBuffer * BlocksPerPacket
      BY <2>2 DEF BUFFER_SIZE
    <3>2. \E k \in 1..PacketsPerBuffer : cnt' - aux' = k * BlocksPerPacket
      BY <2>1, <3>1, Zenon
    <3> QED
      BY <3>2
  <2> QED
    BY <2>3, <2>4, <2>5
<1>11. CASE InToken
  <2>1. /\ aux + PacketLen \in 0..cnt
        /\ aux + PacketLen # cnt =>
             \E k \in 1..PacketsPerBuffer :
                cnt - (aux + PacketLen) = k * BlocksPerPacket
    BY <1>11, FullPacket DEF InToken
  <2>2. aux' = aux + PacketLen /\ cnt' = cnt /\ (nack' <=> aux' = cnt)
    BY <1>11 DEF InToken
  <2>3. WholePackets'
    BY <2>1, <2>2
  <2>4. TypeOK'
    BY <1>11, <2>1, <2>2 DEF InToken, HostAdvances, mainVars
  <2>5. (BootInv /\ RearmInv /\ ArmedInv)'
    BY <1>11 DEF InToken, mainVars
  <2> QED
    BY <2>3, <2>4, <2>5
<1>12. CASE InTokenAckLost
  BY <1>12 DEF InTokenAckLost, HostAdvances, mainVars, epVars
<1>13. CASE HostResync
  BY <1>13 DEF HostResync, mainVars, epVars
<1>14. CASE UNCHANGED vars
  BY <1>14 DEF vars, mainVars, epVars
<1> QED
  BY <1>1, <1>2, <1>3, <1>4, <1>5, <1>6, <1>7, <1>8, <1>9, <1>10, <1>11, <1>12,
     <1>13, <1>14 DEF Next, Main

\* The invariant holds of every behaviour.
THEOREM StreamInvariant == Spec => []IInv
  BY InitIInv, StepIInv, PTL DEF Spec

\* Every variable keeps its range; in particular neither main's index nor the
\* hardware's count of acknowledged blocks leaves the buffer.
THEOREM StreamTypeCorrect == Spec => []TypeOK
  BY StreamInvariant, PTL DEF IInv

\* The host never meets a short packet, for any buffer of whole packets.
THEOREM StreamWholePackets == Spec => []WholePackets
  BY StreamInvariant, PTL DEF IInv

\* No byte, pointer or count of an armed transfer is written while the hardware
\* may still read it, however main and the hardware interleave.
THEOREM StreamTransferFixed == Spec => TransferFixed
<1>1. IInv /\ [Next]_vars =>
        [Armed /\ Armed' => UNCHANGED <<buf[dataptr], regs>>]_vars
  <2> SUFFICES ASSUME IInv, [Next]_vars, Armed, Armed'
               PROVE  UNCHANGED <<buf[dataptr], regs>>
    OBVIOUS
  <2> USE DEF IInv, BootInv, RearmInv, ArmedInv, Armed, Boot, Rearm, Goto, regs
  <2>1. CASE FillBlock
    <3>1. dataptr # cur
      BY <2>1 DEF TypeOK, Buffers, Other
    <3>2. buf'[dataptr] = buf[dataptr]
      BY <2>1, <3>1 DEF FillBlock, TypeOK, Buffers, Other
    <3> QED
      BY <2>1, <3>2 DEF FillBlock, epVars
  <2>2. CASE EnableStatus \/ EnableCtrl \/ Kickstart
    BY <2>2 DEF EnableStatus, EnableCtrl, Kickstart
  <2>3. CASE FillDone \/ WaitComplete
    BY <2>3 DEF FillDone, WaitComplete, epVars
  <2>4. CASE SetDataptr \/ SetAuxdata \/ SetCnt \/ ClearStatus
    BY <2>4 DEF SetDataptr, SetAuxdata, SetCnt, ClearStatus
  <2>5. CASE InToken \/ InTokenAckLost \/ HostResync
    BY <2>5 DEF InToken, InTokenAckLost, HostResync, mainVars, epVars
  <2>6. CASE UNCHANGED vars
    BY <2>6 DEF vars, mainVars, epVars
  <2> QED
    BY <2>1, <2>2, <2>3, <2>4, <2>5, <2>6 DEF Next, Main
<1> QED
  BY <1>1, StreamInvariant, PTL DEF Spec, TransferFixed

(***************************************************************************)
(* The refinement of EntropyChannel.  The two lemmas say what storing one  *)
(* block and sending one packet do to the sequence the channel holds.      *)
(***************************************************************************)

\* Storing block k + 1 of a buffer appends it to what is waiting.
LEMMA AppendOne ==
  ASSUME NEW N \in Nat, NEW g \in [1..N -> Block], NEW k \in 0..N, k < N,
         NEW b \in Block, NEW u \in Seq(Block)
  PROVE  u \o SubSeq([g EXCEPT ![k + 1] = b], 1, k + 1)
           = Append(u \o SubSeq(g, 1, k), b)
<1> DEFINE h == [g EXCEPT ![k + 1] = b]
           s == SubSeq(g, 1, k)
           t == SubSeq(h, 1, k + 1)
<1>1. h \in [1..N -> Block] /\ h[k + 1] = b /\ \A i \in 1..k : h[i] = g[i]
  OBVIOUS
<1>2. s \in Seq(Block) /\ Len(s) = k /\ \A i \in 1..k : s[i] = g[i]
  BY SubSeqProperties
<1>3. t \in Seq(Block) /\ Len(t) = k + 1 /\ \A i \in 1..k + 1 : t[i] = h[i]
  <2>1. \A i \in 1..k + 1 : h[i] \in Block
    BY <1>1
  <2> HIDE DEF h
  <2> QED
    BY <2>1, SubSeqProperties
<1> HIDE DEF h, s, t
<1>4. Append(s, b) \in Seq(Block) /\ Len(Append(s, b)) = k + 1
      /\ (\A i \in 1..k : Append(s, b)[i] = s[i]) /\ Append(s, b)[k + 1] = b
  BY <1>2, AppendProperties
<1>5. t = Append(s, b)
  <2>1. \A i \in 1..k + 1 : t[i] = Append(s, b)[i]
    BY <1>1, <1>2, <1>3, <1>4
  <2> QED
    BY <1>3, <1>4, <2>1, SeqEqual
<1>6. u \o Append(s, b) = u \o (s \o <<b>>)
  BY <1>2, AppendIsConcat
<1>7. u \o (s \o <<b>>) = (u \o s) \o <<b>>
  BY <1>2, ConcatAssociative
<1>8. (u \o s) \o <<b>> = Append(u \o s, b)
  BY <1>2, ConcatProperties, AppendIsConcat
<1> QED
  BY <1>5, <1>6, <1>7, <1>8 DEF h, s, t

\* Moving the start of a transfer on by p blocks removes p blocks at the head.
LEMMA DropHead ==
  ASSUME NEW N \in Nat, NEW f \in [1..N -> Block], NEW a \in 0..N, NEW c \in a..N,
         NEW p \in 0..(c - a), NEW t \in Seq(Block)
  PROVE  SubSeq(f, a + p + 1, c) \o t
           = SubSeq(SubSeq(f, a + 1, c) \o t, p + 1, Len(SubSeq(f, a + 1, c) \o t))
<1> DEFINE u == SubSeq(f, a + 1, c)
           v == SubSeq(f, a + p + 1, c)
           w == SubSeq(u \o t, p + 1, Len(u \o t))
<1>1. u \in Seq(Block) /\ Len(u) = c - a /\ \A i \in 1..c - a : u[i] = f[a + i]
  BY SubSeqProperties
<1>2. v \in Seq(Block) /\ Len(v) = c - a - p
      /\ \A i \in 1..c - a - p : v[i] = f[a + p + i]
  <2> DEFINE m == a + p + 1
  <2>1. m \in 1..c + 1 /\ \A i \in m..c : f[i] \in Block
    OBVIOUS
  <2>2. c - m + 1 = c - a - p /\ \A i \in 1..c - a - p : m + i - 1 = a + p + i
    OBVIOUS
  <2> HIDE DEF m
  <2>3. /\ SubSeq(f, m, c) \in Seq(Block)
        /\ Len(SubSeq(f, m, c)) = c - m + 1
        /\ \A i \in 1..c - m + 1 : SubSeq(f, m, c)[i] = f[m + i - 1]
    BY <2>1, SubSeqProperties
  <2> QED
    BY <2>2, <2>3 DEF m
<1> HIDE DEF u, v
<1>3. /\ u \o t \in Seq(Block)
      /\ Len(u \o t) = (c - a) + Len(t)
      /\ \A i \in 1..(c - a) + Len(t) :
           (u \o t)[i] = IF i <= c - a THEN f[a + i] ELSE t[i - (c - a)]
  <2>1. /\ u \o t \in Seq(Block)
        /\ Len(u \o t) = Len(u) + Len(t)
        /\ \A i \in 1..Len(u) + Len(t) :
             (u \o t)[i] = IF i <= Len(u) THEN u[i] ELSE t[i - Len(u)]
    BY <1>1, ConcatProperties
  <2> QED
    BY <1>1, <2>1, LenProperties
<1>4. /\ v \o t \in Seq(Block)
      /\ Len(v \o t) = (c - a - p) + Len(t)
      /\ \A i \in 1..(c - a - p) + Len(t) :
           (v \o t)[i] = IF i <= c - a - p THEN f[a + p + i] ELSE t[i - (c - a - p)]
  <2>1. /\ v \o t \in Seq(Block)
        /\ Len(v \o t) = Len(v) + Len(t)
        /\ \A i \in 1..Len(v) + Len(t) :
             (v \o t)[i] = IF i <= Len(v) THEN v[i] ELSE t[i - Len(v)]
    BY <1>2, ConcatProperties
  <2> QED
    BY <1>2, <2>1, LenProperties
<1>5. Len(t) \in Nat
  BY LenProperties
<1>6. \A i \in p + 1..Len(u \o t) : (u \o t)[i] \in Block
  BY <1>3, <1>5, ElementOfSeq
<1>7. /\ w \in Seq(Block)
      /\ Len(w) = (c - a - p) + Len(t)
      /\ \A i \in 1..(c - a - p) + Len(t) : w[i] = (u \o t)[p + i]
  <2> DEFINE x == u \o t
             m == p + 1
  <2>1. m \in Nat /\ Len(x) \in Nat /\ m <= Len(x) + 1 /\ \A i \in m..Len(x) : x[i] \in Block
    BY <1>3, <1>5, <1>6
  <2>2. Len(x) - m + 1 = (c - a - p) + Len(t)
    BY <1>3, <1>5
  <2>3. \A i \in Nat : m + i - 1 = p + i
    OBVIOUS
  <2> HIDE DEF x, m
  <2>4. /\ SubSeq(x, m, Len(x)) \in Seq(Block)
        /\ Len(SubSeq(x, m, Len(x))) = Len(x) - m + 1
        /\ \A i \in 1..Len(x) - m + 1 : SubSeq(x, m, Len(x))[i] = x[m + i - 1]
    BY <2>1, SubSeqProperties
  <2> QED
    BY <2>2, <2>3, <2>4 DEF x, m
<1> HIDE DEF w
<1>8. \A i \in 1..(c - a - p) + Len(t) : w[i] = (v \o t)[i]
  <2> SUFFICES ASSUME NEW i \in 1..(c - a - p) + Len(t) PROVE w[i] = (v \o t)[i]
    OBVIOUS
  <2>1. w[i] = (u \o t)[p + i] /\ p + i \in 1..(c - a) + Len(t)
    <3>1. w[i] = (u \o t)[p + i]
      BY <1>7
    <3>2. i \in Nat /\ i >= 1 /\ i <= (c - a - p) + Len(t)
      BY <1>5
    <3>3. p + i \in 1..(c - a) + Len(t)
      BY <1>5, <3>2
    <3> QED
      BY <3>1, <3>3
  <2>2. CASE i <= c - a - p
    BY <1>3, <1>4, <2>1, <2>2
  <2>3. CASE ~(i <= c - a - p)
    <3>1. (u \o t)[p + i] = t[p + i - (c - a)]
      BY <1>3, <2>1, <2>3
    <3>2. (v \o t)[i] = t[i - (c - a - p)]
      BY <1>4, <2>3
    <3>3. p + i - (c - a) = i - (c - a - p)
      BY <1>5
    <3> QED
      BY <2>1, <3>1, <3>2, <3>3
  <2> QED
    BY <2>2, <2>3
<1>9. v \o t = w
  BY <1>4, <1>7, <1>8, SeqEqual
<1> QED
  BY <1>9 DEF u, v, w

\* In a state of the invariant: what the two parts of the channel are.
LEMMA Contents ==
  ASSUME IInv
  PROVE  /\ Unsent \in Seq(Block) /\ Stored \in Seq(Block)
         /\ Len(Stored) = n
         /\ Len(Unsent) = IF Armed THEN cnt - aux ELSE 0
         /\ Len(Unsent) \in 0..BUFFER_SIZE
         /\ Armed => /\ dataptr \in Buffers
                     /\ aux \in 0..cnt /\ cnt \in aux..BUFFER_SIZE
<1> USE SizeIsNat
<1>1. cur \in Buffers /\ n \in 0..BUFFER_SIZE /\ cnt \in 0..BUFFER_SIZE
      /\ \A x \in Buffers : buf[x] \in [1..BUFFER_SIZE -> Block]
  BY DEF IInv, TypeOK
<1>2. Stored \in Seq(Block) /\ Len(Stored) = n
  <2>1. \A i \in 1..n : buf[cur][i] \in Block
    BY <1>1
  <2> QED
    BY <1>1, <2>1, SubSeqProperties DEF Stored
<1>3. CASE Armed
  <2>1. dataptr \in Buffers /\ aux \in Nat
    BY <1>1, <1>3 DEF IInv, ArmedInv, Other, Buffers, TypeOK
  <2>2. aux + PacketLen \in 0..cnt /\ PacketLen \in Nat
    BY <1>3, FullPacket, StreamAssumption DEF IInv
  <2>3. aux \in 0..cnt /\ cnt \in aux..BUFFER_SIZE
    BY <1>1, <2>1, <2>2
  <2>4. \A i \in aux + 1..cnt : buf[dataptr][i] \in Block
    BY <1>1, <2>1, <2>3
  <2>5. SubSeq(buf[dataptr], aux + 1, cnt) \in Seq(Block)
        /\ Len(SubSeq(buf[dataptr], aux + 1, cnt)) = cnt - aux
    BY <2>1, <2>3, <2>4, SubSeqProperties
  <2> QED
    BY <1>1, <1>2, <1>3, <2>1, <2>3, <2>5 DEF Unsent
<1>4. CASE ~Armed
  BY <1>2, <1>4, EmptySeq DEF Unsent
<1> QED
  BY <1>3, <1>4

\* One packet: what is left of the armed transfer once its head is removed, and
\* that an acknowledged packet removes it.
LEMMA PacketSent ==
  ASSUME IInv, Armed
  PROVE  LET u == SubSeq(Unsent, BlocksPerPacket + 1, Len(Unsent))
             Q == Unsent \o Stored
         IN  /\ u \in Seq(Block)
             /\ u \o Stored = SubSeq(Q, BlocksPerPacket + 1, Len(Q))
             /\ Len(Q) >= BlocksPerPacket
             /\ InToken => Unsent' = u /\ Stored' = Stored /\ ~Seen'
<1> USE SizeIsNat
<1> DEFINE f == buf[dataptr]
           B == BlocksPerPacket
           v == SubSeq(f, aux + B + 1, cnt)
           Q == Unsent \o Stored
<1>1. PacketLen = B /\ aux + B \in 0..cnt
  BY FullPacket DEF IInv
<1>2. /\ dataptr \in Buffers /\ aux \in 0..cnt /\ cnt \in aux..BUFFER_SIZE
      /\ Stored \in Seq(Block) /\ Unsent \in Seq(Block)
      /\ Len(Unsent) = cnt - aux
  BY Contents
<1>3. f \in [1..BUFFER_SIZE -> Block] /\ B \in 0..(cnt - aux)
      /\ B \in Nat /\ aux \in 0..BUFFER_SIZE
  BY <1>1, <1>2, StreamAssumption DEF IInv, TypeOK
<1>4. Unsent = SubSeq(f, aux + 1, cnt)
  BY DEF Unsent
<1>5. v \o Stored = SubSeq(Q, B + 1, Len(Q))
  <2> HIDE DEF f
  <2> QED
    BY <1>2, <1>3, <1>4, DropHead
<1>6. v \in Seq(Block)
  <2> DEFINE m == aux + B + 1
  <2>1. m \in Int /\ cnt \in Int /\ m >= 1 /\ cnt <= BUFFER_SIZE /\ BUFFER_SIZE \in Int
    BY <1>2, <1>3
  <2> HIDE DEF m, f
  <2>2. \A i \in m..cnt : f[i] \in Block
    BY <1>3, <2>1
  <2>3. SubSeq(f, m, cnt) \in Seq(Block)
    BY <2>1, <2>2, SubSeqProperties
  <2> QED
    BY <2>3 DEF m
<1>7. v = SubSeq(Unsent, B + 1, Len(Unsent))
  <2> HIDE DEF f
  <2>1. <<>> \in Seq(Block)
    OBVIOUS
  <2>2. v \o <<>> = SubSeq(Unsent \o <<>>, B + 1, Len(Unsent \o <<>>))
    BY <1>2, <1>3, <1>4, <2>1, DropHead
  <2> QED
    BY <1>2, <1>6, <2>2, ConcatEmptySeq
<1>8. Len(Q) >= B
  BY <1>2, <1>3, ConcatProperties, LenProperties
<1>9. ASSUME InToken PROVE Unsent' = v /\ Stored' = Stored /\ ~Seen'
  <2>1. /\ aux' = aux + B /\ UNCHANGED mainVars /\ UNCHANGED <<enabled, dataptr, cnt>>
        /\ (nack' <=> aux' = cnt) /\ (trn' <=> aux' = cnt)
    BY <1>1, <1>9 DEF InToken
  <2>2. f' = f /\ Stored' = Stored
    BY <2>1 DEF mainVars, Stored
  <2>3. ~Seen'
    <3>1. /\ toggle \in {0, 1} /\ htoggle \in {0, 1} /\ toggle' = 1 - toggle
          /\ htoggle' = IF toggle = htoggle THEN 1 - htoggle ELSE htoggle
      BY <1>9 DEF InToken, HostAdvances, IInv, TypeOK
    <3> QED
      BY <3>1 DEF Seen
  <2>4. CASE aux' = cnt
    <3>1. Unsent' = <<>>
      BY <2>1, <2>4 DEF Unsent, Armed
    <3>2. v = <<>>
      <4> DEFINE m == aux + B + 1
      <4>1. m \in Int /\ cnt \in Int /\ cnt < m
        BY <1>2, <1>3, <2>1, <2>4
      <4> HIDE DEF m, f
      <4>2. SubSeq(f, m, cnt) = <<>>
        BY <4>1, SubSeqEmpty
      <4> QED
        BY <4>2 DEF m
    <3> QED
      BY <2>2, <2>3, <3>1, <3>2
  <2>5. CASE aux' # cnt
    <3>1. Unsent' = v
      BY <2>1, <2>2, <2>5 DEF Unsent, Armed
    <3> QED
      BY <2>2, <2>3, <3>1
  <2> QED
    BY <2>4, <2>5
<1> QED
  BY <1>5, <1>6, <1>7, <1>8, <1>9

\* What each step of main does to the two parts: a block stored goes to the end
\* of Stored, whatever precedes it.
LEMMA BlockStored ==
  ASSUME IInv, IInv', FillBlock
  PROVE  /\ Unsent' = Unsent /\ Seen' = Seen /\ n < BUFFER_SIZE
         /\ \E b \in Block : \A u \in Seq(Block) :
              u \o Stored' = Append(u \o Stored, b)
<1> USE SizeIsNat
<1>1. PICK b \in Block : buf' = [buf EXCEPT ![cur][n + 1] = b]
  BY DEF FillBlock
<1> DEFINE g == buf[cur]
<1>2. /\ g \in [1..BUFFER_SIZE -> Block] /\ n \in 0..BUFFER_SIZE /\ n < BUFFER_SIZE
      /\ buf'[cur] = [g EXCEPT ![n + 1] = b] /\ cur' = cur /\ n' = n + 1
  BY <1>1 DEF FillBlock, Room, IInv, TypeOK
<1>3. Stored' = SubSeq([g EXCEPT ![n + 1] = b], 1, n + 1)
  BY <1>2 DEF Stored
<1>4. Unsent' = Unsent /\ Seen' = Seen
  <2>1. UNCHANGED <<epVars, htoggle>>
    BY DEF FillBlock
  <2>2. Armed => buf'[dataptr] = buf[dataptr]
    BY <1>1 DEF IInv, TypeOK, ArmedInv, Other, Buffers
  <2> QED
    BY <2>1, <2>2 DEF epVars, Unsent, Armed, Seen
<1>5. ASSUME NEW u \in Seq(Block)
      PROVE  u \o SubSeq([g EXCEPT ![n + 1] = b], 1, n + 1)
               = Append(u \o SubSeq(g, 1, n), b)
  <2>1. BUFFER_SIZE \in Nat
    OBVIOUS
  <2> HIDE DEF g
  <2> QED
    BY <1>2, <2>1, AppendOne
<1> QED
  BY <1>2, <1>3, <1>4, <1>5 DEF Stored

\* Arming the endpoint moves a full buffer from Stored to Unsent.
LEMMA BufferHandedOver ==
  ASSUME IInv, ClearStatus
  PROVE  /\ ~Armed /\ Seen' = Seen
         /\ Unsent = <<>> /\ Unsent' = Stored /\ Stored' = <<>>
<1>1. /\ ~Armed /\ n = BUFFER_SIZE /\ dataptr = cur /\ aux = 0 /\ cnt = BUFFER_SIZE
      /\ n' = 0 /\ ~nack' /\ ~trn'
      /\ UNCHANGED <<buf, enabled, dataptr, aux, cnt, toggle, htoggle>>
  BY DEF ClearStatus, Goto, IInv, RearmInv, Rearm, Armed
<1>2. enabled
  BY DEF ClearStatus, Goto, IInv, BootInv
<1>3. Stored' = <<>>
  BY <1>1, SubSeqEmpty DEF Stored
<1>4. Stored = SubSeq(buf[cur], 1, BUFFER_SIZE)
  BY <1>1 DEF Stored
<1>5. Unsent' = SubSeq(buf[cur], 1, BUFFER_SIZE)
  <2>1. Armed' /\ aux' + 1 = 1 /\ cnt' = BUFFER_SIZE /\ buf'[dataptr'] = buf[cur]
    BY <1>1, <1>2 DEF Armed
  <2> QED
    BY <2>1 DEF Unsent
<1> QED
  BY <1>1, <1>3, <1>4, <1>5 DEF Unsent, Seen

\* The remaining steps of main touch neither part.
LEMMA OtherSteps ==
  ASSUME IInv,
         \/ EnableStatus \/ EnableCtrl \/ Kickstart \/ FillDone \/ WaitComplete
         \/ SetDataptr \/ SetAuxdata \/ SetCnt \/ UNCHANGED vars
  PROVE  Unsent' = Unsent /\ Stored' = Stored /\ Seen' = Seen
<1>1. CASE EnableStatus \/ EnableCtrl \/ Kickstart
  <2>1. ~Armed /\ ~Armed'
    BY <1>1 DEF EnableStatus, EnableCtrl, Kickstart, Goto, IInv, BootInv, Armed, Boot
  <2>2. Stored' = Stored
    BY <1>1 DEF EnableStatus, EnableCtrl, Kickstart, Stored
  <2>3. Seen' = Seen
    BY <1>1 DEF EnableStatus, EnableCtrl, Kickstart, Goto, Seen, IInv, BootInv
  <2> QED
    BY <2>1, <2>2, <2>3 DEF Unsent
<1>2. CASE FillDone \/ WaitComplete
  <2>1. UNCHANGED <<cur, n, buf, epVars, htoggle>>
    BY <1>2 DEF FillDone, WaitComplete
  <2> QED
    BY <2>1 DEF epVars, Unsent, Stored, Armed, Seen
<1>3. CASE SetDataptr \/ SetAuxdata \/ SetCnt
  <2>1. ~Armed /\ ~Armed'
    BY <1>3 DEF SetDataptr, SetAuxdata, SetCnt, Goto, IInv, RearmInv, Rearm, Armed
  <2> QED
    BY <1>3, <2>1 DEF SetDataptr, SetAuxdata, SetCnt, Unsent, Stored, Seen
<1>4. CASE UNCHANGED vars
  BY <1>4 DEF vars, mainVars, epVars, Unsent, Stored, Armed, Seen
<1> QED
  BY <1>1, <1>2, <1>3, <1>4

\* The host's side: a packet whose ACK is lost, and a restart.
LEMMA AckLost ==
  ASSUME IInv, InTokenAckLost
  PROVE  AckLoss /\ Armed /\ Seen' /\ Unsent' = Unsent /\ Stored' = Stored
<1>1. AckLoss /\ Armed /\ UNCHANGED <<mainVars, epVars>>
  BY DEF InTokenAckLost
<1>2. Unsent' = Unsent /\ Stored' = Stored
  BY <1>1 DEF mainVars, epVars, Unsent, Stored, Armed
<1>3. toggle' = toggle /\ htoggle' = IF toggle = htoggle THEN 1 - htoggle ELSE htoggle
  BY <1>1 DEF InTokenAckLost, HostAdvances, epVars
<1>4. Seen'
  BY <1>3 DEF Seen, IInv, TypeOK
<1> QED
  BY <1>1, <1>2, <1>4

\* Both parts are empty, and host and device agree, at the start.
LEMMA Empty == Init => Unsent = <<>> /\ Stored = <<>> /\ ~Seen
<1> SUFFICES ASSUME Init PROVE Unsent = <<>> /\ Stored = <<>> /\ ~Seen
  OBVIOUS
<1>1. Unsent = <<>> /\ ~Seen
  BY DEF Init, Unsent, Armed, Seen
<1>2. Stored = <<>>
  BY SubSeqEmpty DEF Init, Stored
<1> QED
  BY <1>1, <1>2

\* A lost ACK or a restarted host costs at most one packet, and nothing else can
\* happen to the stream (main.c:62-78, usb_xmega.c:48-68): it is the channel, for
\* every size of buffer and packet.
THEOREM StreamIsChannel == Spec => IsChannel
<1> DEFINE Q == Unsent \o Stored
<1>1. Init => Channel!Init
  BY Empty DEF Channel!Init
<1>2. IInv /\ [Next]_vars => [Channel!Next]_(Channel!vars)
  <2> SUFFICES ASSUME IInv, IInv', [Next]_vars
               PROVE  Channel!Next \/ (Q' = Q /\ Seen' = Seen)
    BY StepIInv DEF Channel!vars
  <2> USE SizeIsNat
  <2>1. CASE FillBlock
    <3>1. Unsent \in Seq(Block) /\ Len(Q) < 2 * BUFFER_SIZE
      BY <2>1, BlockStored, Contents, ConcatProperties
    <3>2. \E b \in Block : Q' = Append(Q, b)
      BY <2>1, <3>1, BlockStored
    <3> QED
      BY <2>1, <3>1, <3>2, BlockStored DEF Channel!Next, Channel!Put
  <2>2. CASE InToken
    <3>1. Armed
      BY <2>2 DEF InToken
    <3>2. Q' = SubSeq(Q, BlocksPerPacket + 1, Len(Q)) /\ Len(Q) >= BlocksPerPacket /\ ~Seen'
      BY <2>2, <3>1, PacketSent
    <3> QED
      BY <3>2 DEF Channel!Next, Channel!Deliver, Channel!Rest
  <2>3. CASE InTokenAckLost
    <3>1. AckLoss /\ Armed /\ Seen' = TRUE /\ Q' = Q
      BY <2>3, AckLost DEF Seen
    <3>2. Len(Q) >= BlocksPerPacket
      BY <3>1, PacketSent
    <3> QED
      BY <3>1, <3>2 DEF Channel!Next, Channel!DeliverUnknown
  <2>4. CASE HostResync
    <3>1. Q' = Q /\ Resync
      BY <2>4 DEF HostResync, mainVars, epVars, Unsent, Stored, Armed
    <3>2. Seen' \in BOOLEAN
      BY DEF Seen
    <3> QED
      BY <3>1, <3>2 DEF Channel!Next, Channel!Restart
  <2>5. CASE ClearStatus
    BY <2>5, BufferHandedOver, Contents, ConcatEmptySeq
  <2>6. CASE \/ EnableStatus \/ EnableCtrl \/ Kickstart \/ FillDone \/ WaitComplete
             \/ SetDataptr \/ SetAuxdata \/ SetCnt \/ UNCHANGED vars
    BY <2>6, OtherSteps
  <2> QED
    BY <2>1, <2>2, <2>3, <2>4, <2>5, <2>6 DEF Next, Main
<1> QED
  BY <1>1, <1>2, StreamInvariant, PTL DEF Spec, IsChannel, Channel!Spec

\* Without a restart the host's bit differs from the device's only while the
\* packet they disagree on is still armed.
LEMMA SeenInvariant ==
  ASSUME ~Resync
  PROVE  Spec => []SeenInv
<1>1. Init => SeenInv
  BY DEF Init, SeenInv, Seen
<1>2. IInv /\ SeenInv /\ [Next]_vars => SeenInv'
  <2> SUFFICES ASSUME IInv, SeenInv, [Next]_vars PROVE SeenInv'
    OBVIOUS
  <2> USE DEF SeenInv
  <2>1. CASE FillBlock \/ FillDone \/ WaitComplete
    BY <2>1 DEF FillBlock, FillDone, WaitComplete, epVars, Seen, Armed
  <2>2. CASE InToken
    BY <2>2, PacketSent DEF InToken
  <2>3. CASE InTokenAckLost
    BY <2>3 DEF InTokenAckLost, epVars, Armed
  <2>4. CASE EnableStatus \/ EnableCtrl \/ Kickstart
    <3>1. ~Seen
      BY <2>4 DEF EnableStatus, EnableCtrl, Kickstart, Goto, Armed, IInv, BootInv
    <3> QED
      BY <2>4, <3>1 DEF EnableStatus, EnableCtrl, Kickstart, Goto, Seen, IInv, BootInv
  <2>5. CASE SetDataptr \/ SetAuxdata \/ SetCnt \/ ClearStatus
    <3>1. ~Seen
      BY <2>5 DEF SetDataptr, SetAuxdata, SetCnt, ClearStatus, Goto, Armed, Rearm,
                  IInv, RearmInv
    <3> QED
      BY <2>5, <3>1 DEF SetDataptr, SetAuxdata, SetCnt, ClearStatus, Seen
  <2>6. CASE HostResync
    BY <2>6 DEF HostResync
  <2>7. CASE UNCHANGED vars
    BY <2>7 DEF vars, epVars, Seen, Armed
  <2> QED
    BY <2>1, <2>2, <2>3, <2>4, <2>5, <2>6, <2>7 DEF Next, Main
<1> QED
  BY <1>1, <1>2, StreamInvariant, PTL DEF Spec

\* With lost ACKs but no restart, the stream is a FIFO: every block RNG_get_buffer
\* stored reaches the host once, in order and intact (main.c:62-78).
THEOREM StreamIsFifo ==
  ASSUME ~Resync
  PROVE  Spec => IsFifo
<1> DEFINE B == BlocksPerPacket
           u == SubSeq(Unsent, B + 1, Len(Unsent))
           Q == Unsent \o Stored
           F == Undelivered \o Stored
<1>1. Init => Fifo!Init
  BY Empty, ConcatEmptySeq DEF Fifo!Init, Undelivered
<1>2. IInv /\ SeenInv /\ [Next]_vars => [Fifo!Next]_(Undelivered \o Stored)
  <2> SUFFICES ASSUME IInv, IInv', SeenInv, [Next]_vars
               PROVE  Fifo!Next \/ F' = F
    BY StepIInv
  <2> USE SizeIsNat
  <2>1. Armed => /\ u \in Seq(Block)
                 /\ u \o Stored = SubSeq(Q, B + 1, Len(Q))
                 /\ Len(Q) >= B
                 /\ InToken => Unsent' = u /\ Stored' = Stored /\ ~Seen'
    BY PacketSent
  <2>2. CASE FillBlock
    <3>1. Undelivered \in Seq(Block) /\ Len(Undelivered) <= Len(Unsent)
      <4>1. CASE Seen
        <5>1. u \in Seq(Block) /\ Undelivered = u
          BY <2>1, <4>1 DEF SeenInv, Undelivered
        <5>2. Len(u) <= Len(Unsent)
          BY Contents, SubSeqProperties, StreamAssumption
        <5> QED
          BY <5>1, <5>2
      <4>2. CASE ~Seen
        BY <4>2, Contents DEF Undelivered
      <4> QED
        BY <4>1, <4>2
    <3>2. Undelivered' = Undelivered
      BY <2>2, BlockStored DEF Undelivered
    <3>3. Len(F) < 2 * BUFFER_SIZE
      BY <2>2, <3>1, BlockStored, Contents, ConcatProperties
    <3>4. \E b \in Block : F' = Append(F, b)
      BY <2>2, <3>1, <3>2, BlockStored
    <3> QED
      BY <3>3, <3>4 DEF Fifo!Next, Fifo!Put
  <2>3. CASE InToken
    <3>1. Armed
      BY <2>3 DEF InToken
    <3>2. F' = u \o Stored
      BY <2>1, <2>3, <3>1 DEF Undelivered
    <3>3. CASE Seen
      BY <3>2, <3>3 DEF Undelivered
    <3>4. CASE ~Seen
      BY <2>1, <3>1, <3>2, <3>4 DEF Undelivered, Fifo!Next, Fifo!Get
    <3> QED
      BY <3>3, <3>4
  <2>4. CASE InTokenAckLost
    <3>1. Armed /\ F' = u \o Stored
      BY <2>4, AckLost DEF Undelivered
    <3>2. CASE Seen
      BY <3>1, <3>2 DEF Undelivered
    <3>3. CASE ~Seen
      BY <2>1, <3>1, <3>3 DEF Undelivered, Fifo!Next, Fifo!Get
    <3> QED
      BY <3>2, <3>3
  <2>5. CASE ClearStatus
    <3>1. ~Seen /\ ~Seen'
      BY <2>5, BufferHandedOver DEF SeenInv
    <3>2. Undelivered = <<>> /\ Undelivered' = Stored /\ Stored' = <<>>
      BY <2>5, <3>1, BufferHandedOver DEF Undelivered
    <3> QED
      BY <3>2, Contents, ConcatEmptySeq
  <2>6. CASE HostResync
    BY <2>6 DEF HostResync
  <2>7. CASE \/ EnableStatus \/ EnableCtrl \/ Kickstart \/ FillDone \/ WaitComplete
             \/ SetDataptr \/ SetAuxdata \/ SetCnt \/ UNCHANGED vars
    <3>1. Unsent' = Unsent /\ Stored' = Stored /\ Seen' = Seen
      BY <2>7, OtherSteps
    <3>2. Undelivered' = Undelivered
      BY <3>1 DEF Undelivered
    <3> QED
      BY <3>1, <3>2
  <2> QED
    BY <2>2, <2>3, <2>4, <2>5, <2>6, <2>7 DEF Next, Main
<1>3. Spec => []SeenInv
  BY SeenInvariant
<1> QED
  BY <1>1, <1>2, <1>3, StreamInvariant, PTL DEF Spec, IsFifo, Fifo!Spec
=============================================================================
