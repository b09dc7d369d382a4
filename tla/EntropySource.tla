--------------------------- MODULE EntropySource ---------------------------
(***************************************************************************)
(* Where the bytes come from: the free-running converters, and the routine *)
(* of either firmware that polls them to fill a buffer.  No interrupt is   *)
(* used, but the USB interrupts may delay the routine anywhere, so a       *)
(* conversion can end between any two of its accesses.                     *)
(*                                                                         *)
(* A sample is not a number here: uses counts how often the result a       *)
(* channel holds has been read since it was converted.                     *)
(***************************************************************************)
EXTENDS Integers

CONSTANTS
  RunBytes,     \* Bytes of an AES run (16).
  BufferSize,   \* What main of firmware2 asks for (960).
  Word,         \* Values of a uint16_t (65536).
  ByteBits,     \* Bits of a byte (8).
  Fw1Size,      \* Bytes of firmware's buffer (64).
  MaxUses       \* Uses of a sample, and sweeps, are not counted further.

ASSUME SourceAssumption ==
  /\ {RunBytes, BufferSize, Word, ByteBits, Fw1Size} \subseteq Nat \ {0}
  /\ \E runs \in 1..BufferSize : BufferSize = runs * RunBytes
  /\ BufferSize < Word
  /\ MaxUses \in Nat /\ MaxUses >= 4

VARIABLES
  fw,       \* The firmware of this device.
  pc,       \* The statement its routine is about to run.
  uses,     \* Reads of each channel's result.
  flag,     \* CH0IF of ADCA and ADCB.
  conv,     \* The channel ADCA converts.
  sweeps,   \* Conversions of ADCA's channel 0 since the last of ADCB's channel 2.
  todo,     \* Channels the running statement has still to read.
  i,        \* Loop counter of firmware2, new_bits of firmware.
  white,    \* white_bits.
  left,     \* buffer_size.
  stored,   \* Bytes written through buf.
  aes       \* The AES module: idle, busy, or ready (SRIF).

adcVars == <<uses, flag, conv, sweeps>>
vars    == <<fw, pc, adcVars, todo, i, white, left, stored, aes>>

InRun == {"wait", "clear", "state", "key", "start", "srif", "out"}
Fw2Statements == {"idle", "test"} \cup InRun
Fw1Statements == {"idle", "pollA", "readA", "clearA", "pollB", "readB", "clearB", "bits"}
Statements    == Fw1Statements \cup Fw2Statements

Channels == {"A0", "A1", "A2", "A3", "B0", "B2"}

\* The channels of one byte for the AES module, by the register it goes to.
StateChannels == {"A0", "A1"}
KeyChannels   == {"A3", "B2"}

Goto(from, to) == pc = from /\ pc' = to

Counted(k) == IF k = MaxUses THEN k ELSE k + 1

Read(c) == uses' = [uses EXCEPT ![c] = Counted(@)]

(***************************************************************************)
(* The converters (external).  Each sweeps its channels 0 to 3 in          *)
(* firmware2, where ADCB, of which only channel 2 is read, is at its own   *)
(* pace; firmware runs channel 0 of each converter alone.                  *)
(***************************************************************************)

NextChannel == [A0 |-> "A1", A1 |-> "A2", A2 |-> "A3", A3 |-> "A0"]

ConvertA ==
  /\ uses' = [uses EXCEPT ![conv] = 0]
  /\ flag' = IF conv = "A0" THEN [flag EXCEPT !["A"] = TRUE] ELSE flag
  /\ conv' = IF fw = 1 THEN "A0" ELSE NextChannel[conv]
  /\ sweeps' = IF fw = 2 /\ conv = "A0" THEN Counted(sweeps) ELSE sweeps
  /\ UNCHANGED <<fw, pc, todo, i, white, left, stored, aes>>

ConvertB ==
  /\ IF fw = 1 THEN /\ uses' = [uses EXCEPT !["B0"] = 0]
                    /\ flag' = [flag EXCEPT !["B"] = TRUE]
               ELSE /\ uses' = [uses EXCEPT !["B2"] = 0]
                    /\ UNCHANGED flag
  /\ sweeps' = 0
  /\ UNCHANGED <<fw, pc, conv, todo, i, white, left, stored, aes>>

AesFinishes ==
  /\ aes = "busy" /\ aes' = "ready"
  /\ UNCHANGED <<fw, pc, adcVars, todo, i, white, left, stored>>

LeavesFlag(f) == flag
ClearsFlag(f) == [flag EXCEPT ![f] = FALSE]

(***************************************************************************)
(* RNG_get_buffer of firmware2.                                            *)
(***************************************************************************)

Call2 ==
  /\ fw = 2
  /\ Goto("idle", "test")
  /\ left' = BufferSize /\ stored' = 0
  /\ UNCHANGED <<fw, adcVars, todo, i, white, aes>>

TestLeft ==
  /\ pc = "test"
  /\ pc' = IF left = 0 THEN "idle" ELSE "wait"
  /\ i' = 0
  /\ UNCHANGED <<fw, adcVars, todo, white, left, stored, aes>>

WaitAdc ==
  /\ Goto("wait", "clear")
  /\ flag["A"]
  /\ UNCHANGED <<fw, adcVars, todo, i, white, left, stored, aes>>

\* The flag is cleared before the results are read.
ClearAdc ==
  /\ Goto("clear", "state")
  /\ flag' = ClearsFlag("A")
  /\ todo' = StateChannels
  /\ UNCHANGED <<fw, uses, conv, sweeps, i, white, left, stored, aes>>

\* The operands of an assignment are read in either order.
ReadOperand == \E c \in todo : Read(c) /\ todo' = todo \ {c}

ReadState ==
  /\ pc = "state" /\ todo # {}
  /\ ReadOperand
  /\ UNCHANGED <<fw, pc, flag, conv, sweeps, i, white, left, stored, aes>>

StateSet ==
  /\ Goto("state", "key")
  /\ todo = {} /\ todo' = KeyChannels
  /\ UNCHANGED <<fw, adcVars, i, white, left, stored, aes>>

\* ADCB, whose channel 2 is half of the key, is never waited for.
ReadKey ==
  /\ pc = "key" /\ todo # {}
  /\ ReadOperand
  /\ UNCHANGED <<fw, pc, flag, conv, sweeps, i, white, left, stored, aes>>

KeySet ==
  /\ pc = "key" /\ todo = {}
  /\ i' = i + 1
  /\ pc' = IF i' = RunBytes THEN "start" ELSE "wait"
  /\ UNCHANGED <<fw, adcVars, todo, white, left, stored, aes>>

Start ==
  /\ Goto("start", "srif")
  /\ aes' = "busy"
  /\ UNCHANGED <<fw, adcVars, todo, i, white, left, stored>>

AesError  == aes = "error"
Encrypted == aes = "ready"

WaitAes ==
  /\ Goto("srif", "out")
  /\ Encrypted
  /\ i' = 0
  /\ UNCHANGED <<fw, adcVars, todo, white, left, stored, aes>>

RunLess == (left - RunBytes) % Word

\* Reading AES.STATE clears SRIF.
Output ==
  /\ pc = "out"
  /\ aes' = IF aes = "ready" THEN "idle" ELSE aes
  /\ stored' = stored + 1
  /\ i' = i + 1
  /\ IF i' = RunBytes THEN pc' = "test" /\ left' = RunLess
                      ELSE UNCHANGED <<pc, left>>
  /\ UNCHANGED <<fw, adcVars, todo, white>>

GetBuffer ==
  \/ Call2 \/ TestLeft \/ WaitAdc \/ ClearAdc \/ ReadState \/ StateSet
  \/ ReadKey \/ KeySet \/ Start \/ WaitAes \/ Output

(***************************************************************************)
(* RND_get_buffer64 of firmware.                                           *)
(***************************************************************************)

Call1 ==
  /\ fw = 1
  /\ Goto("idle", "pollA")
  /\ i' = 0 /\ white' = 0 /\ stored' = 0
  /\ UNCHANGED <<fw, adcVars, todo, left, aes>>

\* A result is read first and its flag cleared after that.
Poll(f, from, read, next) ==
  /\ pc = from
  /\ pc' = IF flag[f] THEN read ELSE next
  /\ UNCHANGED <<fw, adcVars, todo, i, white, left, stored, aes>>

ReadBit(c, from, to) ==
  /\ Goto(from, to)
  /\ Read(c) /\ i' = i + 1
  /\ UNCHANGED <<fw, flag, conv, sweeps, todo, white, left, stored, aes>>

ClearFlag(f, from, to) ==
  /\ Goto(from, to)
  /\ flag' = ClearsFlag(f)
  /\ UNCHANGED <<fw, uses, conv, sweeps, todo, i, white, left, stored, aes>>

PollA == \/ Poll("A", "pollA", "readA", "pollB")
         \/ ReadBit("A0", "readA", "clearA")
         \/ ClearFlag("A", "clearA", "pollB")

PollB == \/ Poll("B", "pollB", "readB", "bits")
         \/ ReadBit("B0", "readB", "clearB")
         \/ ClearFlag("B", "clearB", "bits")

ByteFull == white + 1 >= ByteBits
LateByte == stored >= Fw1Size
LastByte == stored + 1 >= Fw1Size

\* A bit that is left when the buffer is full is dropped.
TakeBit ==
  /\ pc = "bits" /\ i > 0
  /\ i' = i - 1
  /\ white' = IF ByteFull THEN 0 ELSE white + 1
  /\ stored' = IF ByteFull THEN stored + 1 ELSE stored
  /\ pc' = IF ByteFull /\ LastByte THEN "idle" ELSE "bits"
  /\ UNCHANGED <<fw, adcVars, todo, left, aes>>

NoBits ==
  /\ Goto("bits", "pollA")
  /\ i = 0
  /\ UNCHANGED <<fw, adcVars, todo, i, white, left, stored, aes>>

GetBuffer64 == Call1 \/ PollA \/ PollB \/ TakeBit \/ NoBits

(***************************************************************************)
(* The specification.                                                      *)
(***************************************************************************)

Init ==
  /\ fw \in {1, 2}
  /\ pc = "idle"
  /\ uses = [c \in Channels |-> 0] /\ flag = [f \in {"A", "B"} |-> FALSE]
  /\ conv = "A0" /\ sweeps = 0
  /\ todo = {}
  /\ i = 0 /\ white = 0 /\ left = 0 /\ stored = 0
  /\ aes = "idle"

Next == ConvertA \/ ConvertB \/ AesFinishes \/ GetBuffer \/ GetBuffer64

Spec == Init /\ [][Next]_vars

\* The processor runs, conversions go on, and an encryption ends.  Nothing ties
\* firmware's polling to the converters, but a flag stays until it is seen.
Fairness ==
  /\ WF_vars(GetBuffer) /\ WF_vars(GetBuffer64)
  /\ WF_vars(ConvertA) /\ WF_vars(AesFinishes)

FairSpec == Spec /\ Fairness

(***************************************************************************)
(* Properties.                                                             *)
(***************************************************************************)

Size == IF fw = 1 THEN Fw1Size ELSE BufferSize

\* Types, and the buffer's end: buf is never written past it, although buffer_size
\* could wrap (rng.c:228).
TypeOK ==
  /\ fw \in {1, 2} /\ pc \in Statements
  /\ uses \in [Channels -> 0..MaxUses] /\ flag \in [{"A", "B"} -> BOOLEAN]
  /\ todo \subseteq Channels /\ conv \in {"A0", "A1", "A2", "A3"}
  /\ sweeps \in 0..MaxUses
  /\ i \in Nat /\ white \in 0..(ByteBits - 1)
  /\ left \in 0..BufferSize /\ stored \in 0..Size
  /\ aes \in {"idle", "busy", "ready"}

\* firmware never uses a sample twice: it clears the flag after the result is read.
\* firmware2 clears it before, and a conversion that ends in between leaves it set
\* for a result that is already taken: the sample it waits for is used at most
\* twice, the others of the sweep at most three times.  A sample of ADCB, which it
\* does not wait for, is used at most two more times than ADCA has begun a sweep in its
\* time, and so without bound if ADCB is slow (rng.c:216-219 of firmware2, 201-215 of firmware).
SampleReuse ==
  /\ fw = 1 => \A c \in {"A0", "B0"} : uses[c] <= 1
  /\ fw = 2 => /\ uses["A0"] <= 2 /\ uses["A1"] <= 3 /\ uses["A3"] <= 3
               /\ uses["B2"] <= sweeps + 2

\* What makes SampleReuse inductive: a set flag, a read that is still to come and a
\* channel that comes later in the sweep each move the bound by one.  For ADCB, each
\* sweep of ADCA does.
Plus(b) == IF b THEN 1 ELSE 0

Reads2(c, late, pending) ==
  uses[c] <= (IF flag["A"] THEN 1 ELSE 2) + late - Plus(pending)

StateToRead(c) == pc = "state" /\ c \in todo
KeyToRead(c)   == pc = "state" \/ (pc = "key" /\ c \in todo)

Reads1(c, f, read, clear) ==
  /\ uses[c] <= 1
  /\ flag[f] /\ pc # clear => uses[c] = 0
  /\ pc = read => uses[c] = 0

UsesInv ==
  /\ pc \in IF fw = 1 THEN Fw1Statements ELSE Fw2Statements
  /\ fw = 1 => /\ conv = "A0"
               /\ Reads1("A0", "A", "readA", "clearA")
               /\ Reads1("B0", "B", "readB", "clearB")
  /\ fw = 2 => /\ pc = "clear" => flag["A"]
               /\ pc = "state" => todo \subseteq StateChannels
               /\ pc = "key" => todo \subseteq KeyChannels
               /\ Reads2("A0", 0, StateToRead("A0"))
               /\ Reads2("A1", Plus(conv = "A1"), StateToRead("A1"))
               /\ Reads2("A3", Plus(conv # "A0"), KeyToRead("A3"))
               /\ Reads2("B2", sweeps, KeyToRead("B2"))

\* What makes the buffer's end inductive: bytes come in runs of the AES module, and
\* are given out only after it has ended (rng.c:221-227).
Bytes(b) == \E runs \in 0..BufferSize : b = runs * RunBytes

BufferInv ==
  /\ fw = 2 =>
       /\ Bytes(left)
       /\ pc \in InRun => left > 0
       /\ pc = "test" => stored + left = BufferSize
       /\ pc \in InRun \ {"out"} => stored + left = BufferSize
       /\ pc = "out" => stored + left = BufferSize + i /\ i < RunBytes /\ aes # "busy"
  /\ fw = 1 /\ pc # "idle" => stored < Fw1Size

IInv == TypeOK /\ UsesInv /\ BufferInv

\* The routine returns only with the buffer full: what main sends is never left over
\* from an earlier call (rng.c:209-230 of firmware2, 196-256 of firmware).
ReturnsFull == [][pc # "idle" /\ pc' = "idle" => stored' = Size]_vars

\* It does return, as long as ADCA converts (rng.c:216, 228 of firmware2).
FillEnds == pc # "idle" ~> pc = "idle"
=============================================================================
