------------------------ MODULE EntropySourceProofs ------------------------
(***************************************************************************)
(* Proofs about EntropySource, for every size of run, buffer and byte: the *)
(* buffer is filled exactly, and how often a sample can be used.           *)
(***************************************************************************)
EXTENDS EntropySource, TLAPS

\* Taking a remainder leaves what is below the modulus alone.
LEMMA ModSmall ==
  ASSUME NEW w \in Nat \ {0}, NEW a \in 0..(w - 1)
  PROVE  a % w = a
  OBVIOUS

USE SourceAssumption

\* While bytes are left there is a whole run of them, so subtracting it cannot wrap.
LEMMA RunLeft ==
  ASSUME left \in 0..BufferSize, Bytes(left), left > 0
  PROVE  /\ left >= RunBytes
         /\ RunLess = left - RunBytes
         /\ Bytes(left - RunBytes)
<1>1. PICK runs \in 0..BufferSize : left = runs * RunBytes
  BY DEF Bytes
<1>2. runs >= 1
  BY <1>1
<1>3. runs - 1 \in 0..BufferSize /\ left - RunBytes = (runs - 1) * RunBytes
  BY <1>1, <1>2
<1>4. left >= RunBytes
  <2>1. (runs - 1) * RunBytes >= 0
    BY <1>2, <1>3
  <2> QED BY <1>3, <2>1
<1>5. left - RunBytes \in 0..(Word - 1)
  BY <1>4
<1>6. RunLess = left - RunBytes
  BY <1>5, ModSmall DEF RunLess
<1> QED BY <1>3, <1>4, <1>6 DEF Bytes

\* The whole buffer is a whole number of runs.
LEMMA BufferIsRuns == Bytes(BufferSize)
BY DEF Bytes

LEMMA InitInv == Init => IInv
<1> SUFFICES ASSUME Init PROVE IInv
  OBVIOUS
<1>1. TypeOK
  BY DEF Init, TypeOK, Statements, Fw1Statements, Fw2Statements, Channels, Size
<1>2. UsesInv
  BY DEF Init, UsesInv, Reads1, Reads2, Plus, StateToRead, KeyToRead, Fw1Statements, Fw2Statements, Channels
<1>3. BufferInv
  <2>1. 0 = 0 * RunBytes /\ 0 \in 0..BufferSize
    OBVIOUS
  <2> QED BY <2>1 DEF Init, BufferInv, Bytes, InRun
<1> QED BY <1>1, <1>2, <1>3 DEF IInv

\* The invariant concerns the variables alone, so a stutter keeps it.
LEMMA StutterInv == IInv /\ UNCHANGED vars => IInv'
BY DEF IInv, TypeOK, UsesInv, BufferInv, Reads1, Reads2, Plus, StateToRead, KeyToRead, Bytes, Size, vars, adcVars

-----------------------------------------------------------------------------

\* Every step keeps the types.  The arithmetic of Output and TakeBit needs BufferInv.
LEMMA TypeStep == IInv /\ Next => TypeOK'
<1> SUFFICES ASSUME IInv, Next PROVE TypeOK'
  OBVIOUS
<1> USE DEF IInv, TypeOK, Size, Statements, Fw1Statements, Fw2Statements, InRun, adcVars
<1>1. CASE ConvertA
  BY <1>1 DEF ConvertA, NextChannel, Channels, Counted
<1>2. CASE ConvertB
  <2>1. uses' \in [Channels -> 0..MaxUses] /\ flag' \in [{"A", "B"} -> BOOLEAN]
    <3>1. CASE fw = 1
      <4>1. uses' = [uses EXCEPT !["B0"] = 0] /\ flag' = [flag EXCEPT !["B"] = TRUE]
        BY <1>2, <3>1 DEF ConvertB
      <4>2. 0 \in 0..MaxUses
        OBVIOUS
      <4>3. flag' \in [{"A", "B"} -> BOOLEAN]
        BY <4>1
      <4> QED BY <4>1, <4>2, <4>3
    <3>2. CASE fw # 1
      BY <1>2, <3>2 DEF ConvertB
    <3> QED BY <3>1, <3>2
  <2>2. sweeps' \in 0..MaxUses
    BY <1>2 DEF ConvertB
  <2>3. UNCHANGED <<fw, pc, conv, todo, i, white, left, stored, aes>>
    BY <1>2 DEF ConvertB
  <2> QED BY <2>1, <2>2, <2>3
<1>3. CASE AesFinishes
  BY <1>3 DEF AesFinishes
<1>4. CASE Call2
  BY <1>4 DEF Call2, Goto
<1>5. CASE TestLeft
  BY <1>5 DEF TestLeft
<1>6. CASE WaitAdc
  BY <1>6 DEF WaitAdc, Goto
<1>7. CASE ClearAdc
  BY <1>7 DEF ClearAdc, ClearsFlag, Goto, StateChannels, Channels
<1>8. CASE ReadState \/ ReadKey
  <2>1. PICK c \in todo : Read(c) /\ todo' = todo \ {c}
    BY <1>8 DEF ReadState, ReadKey, ReadOperand
  <2>2. uses' \in [Channels -> 0..MaxUses]
    BY <2>1 DEF Read, Counted
  <2>3. /\ pc' = pc /\ todo' \subseteq Channels
        /\ UNCHANGED <<fw, flag, conv, sweeps, i, white, left, stored, aes>>
    BY <1>8, <2>1 DEF ReadState, ReadKey
  <2> QED BY <2>2, <2>3
<1>9. CASE StateSet \/ KeySet
  <2>1. CASE StateSet
    BY <2>1 DEF StateSet, Goto, KeyChannels, Channels
  <2>2. CASE KeySet
    <3>1. i' \in Nat /\ pc' \in Statements
      BY <2>2 DEF KeySet
    <3>2. UNCHANGED <<fw, uses, flag, conv, sweeps, todo, white, left, stored, aes>>
      BY <2>2 DEF KeySet
    <3> QED BY <3>1, <3>2
  <2> QED BY <1>9, <2>1, <2>2
<1>10. CASE Start
  BY <1>10 DEF Start, Goto
<1>11. CASE WaitAes
  BY <1>11 DEF WaitAes, Encrypted, Goto
<1>12. CASE Output
  <2>1. fw = 2
    BY <1>12 DEF Output, UsesInv
  <2>2. stored + left = BufferSize + i /\ i < RunBytes /\ left > 0 /\ Bytes(left)
    BY <1>12, <2>1 DEF Output, BufferInv
  <2>3. left >= RunBytes /\ RunLess = left - RunBytes
    BY <2>2, RunLeft
  <2> QED BY <1>12, <2>1, <2>2, <2>3 DEF Output
<1>13. CASE Call1
  BY <1>13 DEF Call1, Goto
<1>14. CASE PollA
  <2>1. CASE Poll("A", "pollA", "readA", "pollB")
    BY <2>1 DEF Poll
  <2>2. CASE ReadBit("A0", "readA", "clearA")
    BY <2>2 DEF ReadBit, Read, Counted, Goto, Channels
  <2>3. CASE ClearFlag("A", "clearA", "pollB")
    BY <2>3 DEF ClearFlag, ClearsFlag, Goto
  <2> QED BY <1>14, <2>1, <2>2, <2>3 DEF PollA
<1>15. CASE PollB
  <2>1. CASE Poll("B", "pollB", "readB", "bits")
    BY <2>1 DEF Poll
  <2>2. CASE ReadBit("B0", "readB", "clearB")
    BY <2>2 DEF ReadBit, Read, Counted, Goto, Channels
  <2>3. CASE ClearFlag("B", "clearB", "bits")
    BY <2>3 DEF ClearFlag, ClearsFlag, Goto
  <2> QED BY <1>15, <2>1, <2>2, <2>3 DEF PollB
<1>16. CASE TakeBit
  <2>1. fw = 1 /\ stored < Fw1Size
    BY <1>16 DEF TakeBit, UsesInv, BufferInv
  <2> QED BY <1>16, <2>1 DEF TakeBit, ByteFull, LastByte
<1>17. CASE NoBits
  BY <1>17 DEF NoBits, Goto
<1> QED
  BY <1>1, <1>2, <1>3, <1>4, <1>5, <1>6, <1>7, <1>8, <1>9, <1>10, <1>11, <1>12,
     <1>13, <1>14, <1>15, <1>16, <1>17 DEF Next, GetBuffer, GetBuffer64

-----------------------------------------------------------------------------

\* Every step keeps the counts of reads: a conversion starts its channel again at no
\* use, and a statement that reads comes after one that found the flag set.
LEMMA UsesStep == IInv /\ Next => UsesInv'
<1> SUFFICES ASSUME IInv, Next PROVE UsesInv'
  OBVIOUS
<1> USE DEF IInv, TypeOK, UsesInv, Fw1Statements, Fw2Statements, InRun, adcVars,
            Reads1, Reads2, Plus, StateToRead, KeyToRead, Channels
<1>1. CASE ConvertA
  <2>1. CASE fw = 1
    BY <1>1, <2>1 DEF ConvertA
  <2>2. CASE fw = 2
    <3>1. CASE conv = "A0"
      BY <1>1, <2>2, <3>1 DEF ConvertA, NextChannel, Counted
    <3>2. CASE conv = "A1"
      BY <1>1, <2>2, <3>2 DEF ConvertA, NextChannel, Counted
    <3>3. CASE conv = "A2"
      BY <1>1, <2>2, <3>3 DEF ConvertA, NextChannel, Counted
    <3>4. CASE conv = "A3"
      BY <1>1, <2>2, <3>4 DEF ConvertA, NextChannel, Counted
    <3> QED BY <3>1, <3>2, <3>3, <3>4
  <2> QED BY <2>1, <2>2
<1>2. CASE ConvertB
  BY <1>2 DEF ConvertB
<1>3. CASE AesFinishes
  BY <1>3 DEF AesFinishes
<1>4. CASE Call2
  BY <1>4 DEF Call2, Goto
<1>5. CASE TestLeft
  BY <1>5 DEF TestLeft
<1>6. CASE WaitAdc
  BY <1>6 DEF WaitAdc, Goto
<1>7. CASE ClearAdc
  BY <1>7 DEF ClearAdc, ClearsFlag, Goto, StateChannels
<1>8. CASE ReadState \/ ReadKey
  <2>1. PICK c \in todo : Read(c) /\ todo' = todo \ {c}
    BY <1>8 DEF ReadState, ReadKey, ReadOperand
  <2>2. /\ fw = 2 /\ UNCHANGED <<pc, fw, flag, conv, sweeps>>
        /\ pc = "state" \/ pc = "key"
    BY <1>8 DEF ReadState, ReadKey
  <2>3. /\ c \in Channels /\ uses'[c] <= uses[c] + 1
        /\ \A d \in Channels \ {c} : uses'[d] = uses[d]
    BY <2>1 DEF Read, Counted
  <2>4. /\ pc = "state" => c = "A0" \/ c = "A1"
        /\ pc = "key" => c = "A3" \/ c = "B2"
        /\ \A d : d \in todo' => d \in todo /\ d # c
    BY <2>1, <2>2 DEF StateChannels, KeyChannels
  <2>5. /\ pc = "state" => todo' \subseteq StateChannels
        /\ pc = "key" => todo' \subseteq KeyChannels
    BY <2>1, <2>2
  <2>6. \A d \in Channels : uses[d] \in Nat /\ uses'[d] \in Nat
    BY <2>1 DEF Read, Counted
  <2>7. Reads2("A0", 0, StateToRead("A0"))'
    BY <2>1, <2>2, <2>3, <2>4, <2>6
  <2>8. Reads2("A1", Plus(conv = "A1"), StateToRead("A1"))'
    BY <2>1, <2>2, <2>3, <2>4, <2>6
  <2>9. Reads2("A3", Plus(conv # "A0"), KeyToRead("A3"))'
    BY <2>1, <2>2, <2>3, <2>4, <2>6
  <2>10. Reads2("B2", sweeps, KeyToRead("B2"))'
    BY <2>1, <2>2, <2>3, <2>4, <2>6
  <2> HIDE DEF Reads2, StateToRead, KeyToRead, Plus, Reads1
  <2> QED BY <2>2, <2>5, <2>7, <2>8, <2>9, <2>10
<1>9. CASE StateSet \/ KeySet
  BY <1>9 DEF StateSet, KeySet, Goto, KeyChannels
<1>10. CASE Start
  BY <1>10 DEF Start, Goto
<1>11. CASE WaitAes
  BY <1>11 DEF WaitAes, Goto
<1>12. CASE Output
  BY <1>12 DEF Output
<1>13. CASE Call1
  BY <1>13 DEF Call1, Goto
<1>14. CASE PollA
  <2>1. CASE Poll("A", "pollA", "readA", "pollB")
    BY <2>1 DEF Poll
  <2>2. CASE ReadBit("A0", "readA", "clearA")
    BY <2>2 DEF ReadBit, Read, Counted, Goto
  <2>3. CASE ClearFlag("A", "clearA", "pollB")
    BY <2>3 DEF ClearFlag, ClearsFlag, Goto
  <2> QED BY <1>14, <2>1, <2>2, <2>3 DEF PollA
<1>15. CASE PollB
  <2>1. CASE Poll("B", "pollB", "readB", "bits")
    BY <2>1 DEF Poll
  <2>2. CASE ReadBit("B0", "readB", "clearB")
    BY <2>2 DEF ReadBit, Read, Counted, Goto
  <2>3. CASE ClearFlag("B", "clearB", "bits")
    BY <2>3 DEF ClearFlag, ClearsFlag, Goto
  <2> QED BY <1>15, <2>1, <2>2, <2>3 DEF PollB
<1>16. CASE TakeBit
  BY <1>16 DEF TakeBit
<1>17. CASE NoBits
  BY <1>17 DEF NoBits, Goto
<1> QED
  BY <1>1, <1>2, <1>3, <1>4, <1>5, <1>6, <1>7, <1>8, <1>9, <1>10, <1>11, <1>12,
     <1>13, <1>14, <1>15, <1>16, <1>17 DEF Next, GetBuffer, GetBuffer64

\* Every step keeps the account of bytes: those stored and those left make a buffer.
LEMMA BufferStep == IInv /\ Next => BufferInv'
<1> SUFFICES ASSUME IInv, Next PROVE BufferInv'
  OBVIOUS
<1> USE DEF IInv, TypeOK, BufferInv, InRun, adcVars, Size
<1>0. pc \in IF fw = 1 THEN Fw1Statements ELSE Fw2Statements
  BY DEF UsesInv
<1>b. ASSUME left' = left PROVE Bytes(left)' = Bytes(left)
  BY <1>b DEF Bytes
<1>1. CASE ConvertA
  BY <1>1, <1>b DEF ConvertA
<1>2. CASE ConvertB
  BY <1>2, <1>b DEF ConvertB
<1>3. CASE AesFinishes
  BY <1>3, <1>b DEF AesFinishes
<1>4. CASE Call2
  <2>1. left' = BufferSize /\ stored' = 0 /\ pc' = "test" /\ fw' = 2
    BY <1>4 DEF Call2, Goto
  <2>2. Bytes(left)'
    BY <2>1, BufferIsRuns DEF Bytes
  <2> QED BY <2>1, <2>2
<1>5. CASE TestLeft
  BY <1>5, <1>0, <1>b DEF TestLeft, Fw1Statements
<1>6. CASE WaitAdc
  BY <1>6, <1>0, <1>b DEF WaitAdc, Goto, Fw1Statements
<1>7. CASE ClearAdc
  BY <1>7, <1>0, <1>b DEF ClearAdc, Goto, Fw1Statements
<1>8. CASE ReadState \/ ReadKey
  BY <1>8, <1>0, <1>b DEF ReadState, ReadKey, Fw1Statements
<1>9. CASE StateSet \/ KeySet
  BY <1>9, <1>0, <1>b DEF StateSet, KeySet, Goto, Fw1Statements
<1>10. CASE Start
  BY <1>10, <1>0, <1>b DEF Start, Goto, Fw1Statements
<1>11. CASE WaitAes
  BY <1>11, <1>0, <1>b DEF WaitAes, Encrypted, Goto, Fw1Statements
<1>12. CASE Output
  <2>1. fw = 2 /\ pc = "out"
    BY <1>12, <1>0 DEF Output, Fw1Statements
  <2>2. stored + left = BufferSize + i /\ i < RunBytes /\ left > 0 /\ Bytes(left)
    BY <2>1
  <2>3. left >= RunBytes /\ RunLess = left - RunBytes /\ Bytes(left - RunBytes)
    BY <2>2, RunLeft
  <2>4. fw' = 2 /\ stored' = stored + 1 /\ i' = i + 1 /\ aes' # "busy"
    BY <1>12, <2>1 DEF Output
  <2>5. CASE i + 1 = RunBytes
    <3>1. pc' = "test" /\ left' = left - RunBytes
      BY <1>12, <2>3, <2>4, <2>5 DEF Output
    <3>2. Bytes(left)'
      BY <2>3, <3>1 DEF Bytes
    <3> QED BY <2>2, <2>4, <2>5, <3>1, <3>2
  <2>6. CASE i + 1 # RunBytes
    <3>1. pc' = "out" /\ left' = left
      BY <1>12, <2>1, <2>4, <2>6 DEF Output
    <3> QED BY <1>b, <2>2, <2>4, <2>6, <3>1
  <2> QED BY <2>5, <2>6
<1>13. CASE Call1
  BY <1>13, <1>b DEF Call1, Goto
<1>14. CASE PollA
  BY <1>14, <1>0, <1>b DEF PollA, Poll, ReadBit, ClearFlag, Goto, Fw2Statements
<1>15. CASE PollB
  BY <1>15, <1>0, <1>b DEF PollB, Poll, ReadBit, ClearFlag, Goto, Fw2Statements
<1>16. CASE TakeBit
  BY <1>16, <1>0, <1>b DEF TakeBit, ByteFull, LastByte, Fw2Statements
<1>17. CASE NoBits
  BY <1>17, <1>0, <1>b DEF NoBits, Goto, Fw2Statements
<1> QED
  BY <1>1, <1>2, <1>3, <1>4, <1>5, <1>6, <1>7, <1>8, <1>9, <1>10, <1>11, <1>12,
     <1>13, <1>14, <1>15, <1>16, <1>17 DEF Next, GetBuffer, GetBuffer64

-----------------------------------------------------------------------------

\* The invariant holds of every state: bytes and reads are accounted for.
THEOREM SourceInvariant == Spec => []IInv
<1>1. IInv /\ [Next]_vars => IInv'
  BY TypeStep, UsesStep, BufferStep, StutterInv DEF IInv
<1> QED BY InitInv, <1>1, PTL DEF Spec

\* The variables keep their types; among them, buf is never written past its end.
THEOREM SourceTypeCorrect == Spec => []TypeOK
<1>1. IInv => TypeOK
  BY DEF IInv
<1> QED BY SourceInvariant, <1>1, PTL

\* firmware uses a sample once; firmware2 uses one of ADCA two or three times at most,
\* and one of ADCB at most two more times than ADCA sweeps meanwhile.
THEOREM SourceSampleReuse == Spec => []SampleReuse
<1>1. IInv => SampleReuse
  <2> SUFFICES ASSUME IInv PROVE SampleReuse
    OBVIOUS
  <2> USE DEF IInv, TypeOK, UsesInv, Reads1, Reads2, Plus, StateToRead, KeyToRead, Channels
  <2>1. fw = 1 => \A c \in {"A0", "B0"} : uses[c] <= 1
    OBVIOUS
  <2>2. fw = 2 => /\ uses["A0"] <= 2 /\ uses["A1"] <= 3 /\ uses["A3"] <= 3
                     /\ uses["B2"] <= sweeps + 2
    OBVIOUS
  <2> QED BY <2>1, <2>2 DEF SampleReuse
<1> QED BY SourceInvariant, <1>1, PTL

\* The routine returns only with the buffer full.
THEOREM SourceReturnsFull == Spec => ReturnsFull
<1>1. IInv /\ [Next]_vars => [pc # "idle" /\ pc' = "idle" => stored' = Size]_vars
  <2> SUFFICES ASSUME IInv, Next, pc # "idle", pc' = "idle" PROVE stored' = Size
    OBVIOUS
  <2>0. pc \in IF fw = 1 THEN Fw1Statements ELSE Fw2Statements
    BY DEF IInv, UsesInv
  <2>1. TestLeft \/ TakeBit
    BY <2>0 DEF Next, ConvertA, ConvertB, AesFinishes, GetBuffer, GetBuffer64, Call2, WaitAdc,
       ClearAdc, ReadState, StateSet, ReadKey, KeySet, Start, WaitAes, Output, Call1, PollA, PollB, Poll,
       ReadBit, ClearFlag, NoBits, Goto, Fw1Statements, Fw2Statements, InRun
  <2>2. CASE TestLeft
    BY <2>0, <2>2 DEF TestLeft, IInv, TypeOK, BufferInv, Size, Fw1Statements
  <2>3. CASE TakeBit
    BY <2>0, <2>3 DEF TakeBit, ByteFull, LastByte, IInv, TypeOK, BufferInv, Size, Fw2Statements,
       InRun
  <2> QED BY <2>1, <2>2, <2>3
<1> QED BY SourceInvariant, <1>1, PTL DEF Spec, ReturnsFull
=============================================================================
