------------------------- MODULE InterpreterProofs -------------------------
(***************************************************************************)
(* Safety of interpret for every program, word width, memory size, number  *)
(* of variables and heap of call records.                                  *)
(***************************************************************************)
EXTENDS Interpreter, WellFoundedInduction, TLAPS

-----------------------------------------------------------------------------
(* Words, bytes and memory.                                                *)

LEMMA BaseIsPositive == Base \in Nat \ {0} /\ 2 ^ ByteBits \in Nat \ {0}
<1>1. WordBits \in Nat /\ ByteBits \in 0 .. WordBits
  BY WordsAssumption DEF WordBits
<1> QED
  BY <1>1, PowersAssumption DEF Base

LEMMA WrapIsWord == \A x \in Int : Wrap(x) \in Word
BY BaseIsPositive DEF Wrap, Word

LEMMA ByteOfIsByte ==
    ASSUME NEW w \in Word, NEW i \in ByteIndex
    PROVE  ByteOf(w, i) \in Byte
<1>1. ByteBits * i \in 0 .. WordBits
  BY WordsAssumption DEF WordBits, ByteIndex
<1>2. 2 ^ (ByteBits * i) \in Nat \ {0}
  BY <1>1, PowersAssumption
<1> DEFINE d == 2 ^ (ByteBits * i)
           m == 2 ^ ByteBits
<1>3. d \in Nat \ {0} /\ m \in Nat \ {0} /\ w \in Nat
  BY <1>2, BaseIsPositive DEF Word
<1> HIDE DEF d, m
<1>4. (w \div d) % m \in 0 .. m - 1
  BY <1>3
<1> QED
  BY <1>4 DEF ByteOf, Byte, d, m

(* Whatever the operands, a computing command's result is a word. *)
LEMMA ResultsAreWords ==
    ASSUME NEW a \in Word, NEW b \in Word,
           NEW type \in {"MOV", "ADD", "SUB", "AND", "ORR", "EOR", "ASR", "LSR", "LSL"}
    PROVE  Results(type, a, b) \subseteq Word
<1>1. a \in Int /\ b \in Int
  BY BaseIsPositive DEF Word
<1>2. Wrap(a + b) \in Word /\ Wrap(a - b) \in Word
  BY <1>1, WrapIsWord
<1>3. And(a, b) \subseteq Word /\ Orr(a, b) \subseteq Word /\ Eor(a, b) \subseteq Word
  BY DEF And, Orr, Eor
<1>4. Asr(a, b) \subseteq Word /\ Lsr(a, b) \subseteq Word /\ Lsl(a, b) \subseteq Word
  BY DEF Asr, Lsr, Lsl
<1> QED
  BY <1>2, <1>3, <1>4 DEF Results

(* Every set of numbers but the empty one has a least. *)
LEMMA LeastNumber ==
    ASSUME NEW S \in SUBSET Nat, S # {}
    PROVE  \E n \in S : \A m \in S : n <= m
<1>1. PICK n \in S : \A m \in S : ~(<<m, n>> \in OpToRel(<, Nat))
  BY NatLessThanWellFounded, WFMin
<1>2. \A m \in S : ~(m < n)
  BY <1>1 DEF OpToRel
<1> QED
  BY <1>2

(* A refused byte of a put has a first one before which all are stored. *)
LEMMA PutCountMeans ==
    ASSUME NEW addr, NEW bytes, Len(bytes) \in Nat
    PROVE  LET n == PutCount(addr, bytes)
           IN  /\ n \in 0 .. Len(bytes)
               /\ \A i \in 0 .. n - 1 : Accepts(Wrap(addr + i), 1)
               /\ n < Len(bytes) => ~Accepts(Wrap(addr + n), 1)
<1> DEFINE Refused == {n \in 0 .. Len(bytes) : n < Len(bytes) => ~Accepts(Wrap(addr + n), 1)}
<1>1. Len(bytes) \in Refused /\ Refused \in SUBSET Nat
  OBVIOUS
<1>2. PICK n \in Refused : \A m \in Refused : n <= m
  BY <1>1, LeastNumber
<1>3. n \in 0 .. Len(bytes) /\ (n < Len(bytes) => ~Accepts(Wrap(addr + n), 1))
  OBVIOUS
<1>4. ASSUME NEW i \in 0 .. n - 1
      PROVE  Accepts(Wrap(addr + i), 1)
  <2>1. i \in 0 .. Len(bytes) /\ i < n
    BY <1>3
  <2> QED
    BY <1>2, <2>1, <1>3
<1> QED
  BY <1>3, <1>4 DEF PutCount

-----------------------------------------------------------------------------
(* Commands and their operands.                                            *)

LEMMA DestinationOfCommand ==
    ASSUME NEW c \in Command,
           c.type \in {"MOV", "ADD", "SUB", "AND", "ORR", "EOR", "ASR", "LSR", "LSL", "LOAD", "STORE"}
    PROVE  c.destination \in VarOp /\ c.destination.var \in VarIndex
BY DEF Command, VarOp

LEMMA FirstOperandOfCommand ==
    ASSUME NEW c \in Command,
           c.type \notin {"NOP", "RET", "PUT", "BRANCH", "CALL"}
    PROVE  c.val_a \in VarOp \cup ImmOp
BY DEF Command

LEMMA SecondOperandOfCommand ==
    ASSUME NEW c \in Command
    PROVE  /\ c.type \in {"ADD", "SUB", "CMP", "CMP_U", "PUT"} => c.val_b \in VarOp \cup ImmOp
           /\ c.type \in {"AND", "ORR", "EOR"} => c.val_b \in VarOp /\ c.val_b.var \in VarIndex
           /\ c.type \in {"ASR", "LSR", "LSL", "LOAD", "STORE"} => c.val_b \in ImmOp /\ c.val_b.imm \in Word
BY DEF Command, VarOp, ImmOp

LEMMA NamesOfCommand ==
    ASSUME NEW c \in Command
    PROVE  /\ c.type = "PUT" => c.val_a.str \in Seq(Byte \ {0})
           /\ c.type \in {"BRANCH", "CALL"} => c.val_a.str \in Label
           /\ c.type = "BRANCH" => c.branch_condition \in Conditions
BY DEF Command, StrOp, LabelOp

LEMMA ValueIsWord ==
    ASSUME NEW op \in VarOp \cup ImmOp, variables \in [VarIndex -> Word]
    PROVE  ValueOf(op) \in Word
BY DEF ValueOf, VarOp, ImmOp

(* The command that a step executes, and where control may go.             *)
ControlOK == /\ IsProgram(prog)
             /\ current \in 0 .. Len(prog.commands)
             /\ running \in BOOLEAN
             /\ running => current # 0
             /\ had_error \in BOOLEAN
             /\ had_error => ~running

LEMMA CommandAtCurrent ==
    ASSUME ControlOK, running
    PROVE  /\ current \in 1 .. Len(prog.commands) /\ Len(prog.commands) \in Nat
           /\ cmd \in Command
           /\ cmd.type \in {"BRANCH", "CALL"} => Target \in 0 .. Len(prog.commands)
           /\ NextOf(current) \in 0 .. Len(prog.commands)
<1>1. current \in 1 .. Len(prog.commands) /\ Len(prog.commands) \in Nat
  BY DEF ControlOK, IsProgram
<1>2. cmd \in Command
  BY <1>1 DEF ControlOK, IsProgram, cmd
<1>3. cmd.type \in {"BRANCH", "CALL"} => Target \in 0 .. Len(prog.commands)
  BY <1>2, NamesOfCommand DEF ControlOK, IsProgram, Target
<1> QED
  BY <1>1, <1>2, <1>3 DEF NextOf

LEMMA GoToControl ==
    ASSUME ControlOK, running, NEW c \in 0 .. Len(prog.commands), GoTo(c)
    PROVE  ControlOK' /\ prog' = prog
BY DEF ControlOK, GoTo

LEMMA FailControl ==
    ASSUME ControlOK, running, Fail
    PROVE  ControlOK' /\ ~running' /\ prog' = prog
BY DEF ControlOK, Fail

LEMMA AdvanceControl ==
    ASSUME ControlOK, running, Advance
    PROVE  ControlOK' /\ prog' = prog
BY CommandAtCurrent, GoToControl DEF Advance

(* Every step executes a command of the list and leaves the loop at        *)
(* another one, or at its end, or with an error.                           *)
LEMMA StepControl ==
    ASSUME ControlOK, Step, running /\ stack # NULL => frames[stack] \in Frame
    PROVE  running /\ ControlOK' /\ prog' = prog
<1>1. running
  BY DEF Step, CMD_NOP, CMD_MOV, CMD_ADD_SUB, CMD_BITWISE, CMD_SHIFT, CMD_CMP, CMD_CMP_U,
         CMD_PRINT, CMD_PUT, CMD_STORE, CMD_LOAD, CMD_BRANCH, CMD_CALL, CallNoMemory, CallNoLabel,
         CallEnters, RetEnds, RetPops, Computes, Compares, Executes
<1>2. ASSUME CMD_NOP \/ CMD_MOV \/ CMD_ADD_SUB \/ CMD_BITWISE \/ CMD_SHIFT \/ CMD_CMP \/ CMD_CMP_U
      PROVE  Advance
  BY <1>2 DEF CMD_NOP, CMD_MOV, CMD_ADD_SUB, CMD_BITWISE, CMD_SHIFT, CMD_CMP, CMD_CMP_U,
              Computes, Compares
<1>3. ASSUME CMD_PRINT \/ CMD_PUT \/ CMD_STORE \/ CMD_LOAD \/ CallNoMemory \/ CallNoLabel
      PROVE  Advance \/ Fail
  BY <1>3 DEF CMD_PRINT, CMD_PUT, CMD_STORE, CMD_LOAD, LoadRefused, CallNoMemory, CallNoLabel
<1>4. ASSUME CMD_BRANCH
      PROVE  Advance \/ Fail \/ (GoTo(Target) /\ Target \in 0 .. Len(prog.commands))
  BY <1>1, <1>4, CommandAtCurrent DEF CMD_BRANCH, Executes
<1>5. ASSUME CallEnters
      PROVE  GoTo(Target) /\ Target \in 0 .. Len(prog.commands)
  BY <1>1, <1>5, CommandAtCurrent DEF CallEnters, Executes
<1>6. ASSUME RetEnds \/ RetPops
      PROVE  \E c \in 0 .. Len(prog.commands) : GoTo(c)
  <2>1. 0 \in 0 .. Len(prog.commands)
    BY <1>1, CommandAtCurrent
  <2>2. CASE RetEnds
    BY <2>1, <2>2 DEF RetEnds
  <2>3. CASE RetPops
    BY <1>1, <2>3 DEF RetPops, Frame
  <2> QED
    BY <1>6, <2>2, <2>3
<1>7. CASE Advance
  BY <1>1, <1>7, AdvanceControl
<1>8. CASE Fail
  BY <1>1, <1>8, FailControl
<1>9. CASE \E c \in 0 .. Len(prog.commands) : GoTo(c)
  BY <1>1, <1>9, GoToControl
<1> QED
  BY <1>2, <1>3, <1>4, <1>5, <1>6, <1>7, <1>8, <1>9 DEF Step, CMD_CALL

-----------------------------------------------------------------------------
(* Variables, flags and memory.                                            *)

DataOK == /\ variables \in [VarIndex -> Word]
          /\ is_greater \in BOOLEAN /\ is_less \in BOOLEAN /\ is_equal \in BOOLEAN
          /\ mem \in Mem
          /\ stray \in BOOLEAN

(* At most one flag is set. *)
FlagsExclusive == /\ ~(is_greater /\ is_less)
                  /\ ~(is_greater /\ is_equal)
                  /\ ~(is_less /\ is_equal)

LEMMA SignedIsInteger == \A w \in Word : Signed(w) \in Int /\ w \in Int
BY BaseIsPositive DEF Signed, Word

LEMMA SetFlagsExclusive ==
    ASSUME NEW left \in Int, NEW right \in Int, SetFlags(left, right)
    PROVE  /\ is_greater' \in BOOLEAN /\ is_less' \in BOOLEAN /\ is_equal' \in BOOLEAN
           /\ FlagsExclusive'
<1> DEFINE g == left > right
           l == left < right
           e == left = right
<1>1. g \in BOOLEAN /\ l \in BOOLEAN /\ e \in BOOLEAN
  BY SMT
<1>2. ~(g /\ l) /\ ~(g /\ e) /\ ~(l /\ e)
  BY SMT
<1>3. is_greater' = g /\ is_less' = l /\ is_equal' = e
  BY Zenon DEF SetFlags
<1> HIDE DEF g, l, e
<1> QED
  BY <1>1, <1>2, <1>3, Zenon DEF FlagsExclusive

LEMMA SetDestinationTyped ==
    ASSUME variables \in [VarIndex -> Word], NEW w \in Word, SetDestination(w),
           cmd.destination.var \in VarIndex
    PROVE  variables' \in [VarIndex -> Word]
BY DEF SetDestination

LEMMA ComputesTyped ==
    ASSUME NEW types \in SUBSET {"MOV", "ADD", "SUB", "AND", "ORR", "EOR", "ASR", "LSR", "LSL"},
           NEW b \in Word, DataOK, FlagsExclusive, cmd \in Command, Computes(types, b)
    PROVE  DataOK' /\ FlagsExclusive'
<1>1. cmd.type \in types
  BY DEF Computes, Executes
<1>2. ValueOf(cmd.val_a) \in Word
  BY <1>1, FirstOperandOfCommand, ValueIsWord DEF DataOK
<1>3. cmd.destination.var \in VarIndex
  BY <1>1, DestinationOfCommand
<1>4. PICK w \in Results(cmd.type, ValueOf(cmd.val_a), b) : SetDestination(w)
  BY DEF Computes
<1>5. w \in Word
  BY <1>1, <1>2, <1>4, ResultsAreWords
<1>6. variables' \in [VarIndex -> Word]
  BY <1>3, <1>4, <1>5, SetDestinationTyped DEF DataOK
<1> QED
  BY <1>6 DEF Computes, KeepFlags, KeepMemory, flags, DataOK, FlagsExclusive

LEMMA ComparesTyped ==
    ASSUME NEW types, NEW left \in Int, NEW right \in Int, DataOK, Compares(types, left, right)
    PROVE  DataOK' /\ FlagsExclusive'
BY SetFlagsExclusive DEF Compares, KeepMemory, DataOK

LEMMA PutTyped ==
    ASSUME DataOK, FlagsExclusive, cmd \in Command, CMD_PUT
    PROVE  DataOK' /\ FlagsExclusive'
<1> DEFINE addr == ValueOf(cmd.val_b)
           bytes == Append(cmd.val_a.str, 0)
           n == PutCount(addr, bytes)
<1>1. cmd.val_a.str \in Seq(Byte \ {0}) /\ cmd.val_b \in VarOp \cup ImmOp
  BY NamesOfCommand, SecondOperandOfCommand DEF CMD_PUT, Executes
<1>2. bytes \in Seq(Byte) /\ Len(bytes) \in Nat
  BY <1>1, BaseIsPositive DEF Byte
<1>3. n \in 0 .. Len(bytes)
  BY <1>2, PutCountMeans
<1>4. addr \in Word
  BY <1>1, ValueIsWord DEF DataOK
<1>5. /\ mem' = [x \in Location |-> IF Wrap(x - addr) < n THEN bytes[Wrap(x - addr) + 1] ELSE mem[x]]
      /\ stray' = (stray \/ ~Inside(addr, n))
      /\ UNCHANGED <<variables, flags>>
  BY DEF CMD_PUT, KeepFlags
<1> HIDE DEF n, bytes, addr
<1>6. ASSUME NEW x \in Location
      PROVE  mem'[x] \in Byte
  <2>1. Wrap(x - addr) \in Nat
    BY <1>4, WrapIsWord, BaseIsPositive, MemAssumption DEF Location, Word
  <2>2. Wrap(x - addr) < n => bytes[Wrap(x - addr) + 1] \in Byte
    BY <2>1, <1>2, <1>3
  <2> QED
    BY <2>2, <1>5 DEF DataOK, Mem
<1>7. mem' \in Mem
  BY <1>5, <1>6 DEF Mem
<1> QED
  BY <1>5, <1>7 DEF DataOK, FlagsExclusive, flags

LEMMA StoreTyped ==
    ASSUME DataOK, FlagsExclusive, cmd \in Command, CMD_STORE
    PROVE  DataOK' /\ FlagsExclusive'
<1> DEFINE offset == ValueOf(cmd.val_a)
           bytes == cmd.val_b.imm
           w == variables[cmd.destination.var]
<1>1. /\ cmd.val_a \in VarOp \cup ImmOp /\ bytes \in Word
      /\ cmd.destination.var \in VarIndex
  BY FirstOperandOfCommand, SecondOperandOfCommand, DestinationOfCommand DEF CMD_STORE, Executes
<1>2. offset \in Word /\ w \in Word
  BY <1>1, ValueIsWord DEF DataOK
<1>3. CASE Accepts(offset, bytes)
  <2>1. bytes \in 1 .. WordBytes
    BY <1>3, MemAssumption DEF Accepts
  <2>2. mem' = Stored(mem, offset, bytes, w) /\ stray' = (stray \/ ~Inside(offset, bytes))
    BY <1>3 DEF CMD_STORE
  <2>3. ASSUME NEW x \in Location, Wrap(x - offset) < bytes
        PROVE  Wrap(x - offset) \in ByteIndex
    <3>1. Wrap(x - offset) \in Nat
      BY <1>2, WrapIsWord, BaseIsPositive, MemAssumption DEF Location, Word
    <3> QED
      BY <3>1, <2>1, <2>3, WordsAssumption DEF ByteIndex
  <2> HIDE DEF offset, bytes, w
  <2>4. mem' \in Mem
    BY <2>2, <2>3, <1>2, ByteOfIsByte DEF Stored, Mem, DataOK
  <2> QED
    BY <2>2, <2>4 DEF CMD_STORE, KeepFlags, flags, DataOK, FlagsExclusive
<1>4. CASE ~Accepts(offset, bytes)
  BY <1>4 DEF CMD_STORE, KeepFlags, KeepMemory, flags, DataOK, FlagsExclusive
<1> QED
  BY <1>3, <1>4

LEMMA LoadTyped ==
    ASSUME DataOK, FlagsExclusive, cmd \in Command, CMD_LOAD
    PROVE  DataOK' /\ FlagsExclusive'
<1> DEFINE offset == ValueOf(cmd.val_a)
           bytes == cmd.val_b.imm
<1>1. cmd.destination.var \in VarIndex
  BY DestinationOfCommand DEF CMD_LOAD, Executes
<1>2. CASE Accepts(offset, bytes)
  <2>1. PICK w \in Loaded(mem, offset, bytes) : SetDestination(w)
    BY <1>2 DEF CMD_LOAD
  <2>2. w \in Word
    BY <2>1 DEF Loaded
  <2>3. variables' \in [VarIndex -> Word]
    BY <1>1, <2>1, <2>2, SetDestinationTyped DEF DataOK
  <2> QED
    BY <1>2, <2>3 DEF CMD_LOAD, KeepFlags, flags, DataOK, FlagsExclusive
<1>3. CASE ~Accepts(offset, bytes)
  BY <1>3 DEF CMD_LOAD, LoadRefused, KeepFlags, flags, DataOK, FlagsExclusive
<1> QED
  BY <1>2, <1>3

LEMMA StepData ==
    ASSUME ControlOK, DataOK, FlagsExclusive, Step,
           running /\ stack # NULL => frames[stack] \in Frame
    PROVE  DataOK' /\ FlagsExclusive'
<1>1. cmd \in Command
  BY StepControl, CommandAtCurrent
<1>2. CASE \/ CMD_NOP \/ CMD_PRINT \/ CMD_BRANCH \/ CallNoMemory \/ CallNoLabel \/ CallEnters \/ RetEnds
  BY <1>2 DEF CMD_NOP, CMD_PRINT, CMD_BRANCH, CallNoMemory, CallNoLabel, CallEnters, RetEnds,
              KeepData, KeepFlags, KeepMemory, flags, DataOK, FlagsExclusive
<1>3. CASE CMD_MOV
  BY <1>1, <1>3, ComputesTyped, BaseIsPositive DEF CMD_MOV, Word
<1>4. CASE CMD_ADD_SUB
  <2>1. ValueOf(cmd.val_b) \in Word
    BY <1>1, <1>4, SecondOperandOfCommand, ValueIsWord
       DEF CMD_ADD_SUB, Computes, Executes, DataOK
  <2> QED
    BY <1>1, <1>4, <2>1, ComputesTyped DEF CMD_ADD_SUB
<1>5. CASE CMD_BITWISE
  <2>1. variables[cmd.val_b.var] \in Word
    BY <1>1, <1>5, SecondOperandOfCommand DEF CMD_BITWISE, Computes, Executes, DataOK
  <2> QED
    BY <1>1, <1>5, <2>1, ComputesTyped DEF CMD_BITWISE
<1>6. CASE CMD_SHIFT
  <2>1. cmd.val_b.imm \in Word
    BY <1>1, <1>6, SecondOperandOfCommand DEF CMD_SHIFT, Computes, Executes
  <2> QED
    BY <1>1, <1>6, <2>1, ComputesTyped DEF CMD_SHIFT
<1>7. ASSUME CMD_CMP \/ CMD_CMP_U
      PROVE  ValueOf(cmd.val_a) \in Word /\ ValueOf(cmd.val_b) \in Word
  BY <1>1, <1>7, FirstOperandOfCommand, SecondOperandOfCommand, ValueIsWord
     DEF CMD_CMP, CMD_CMP_U, Compares, Executes, DataOK
<1>8. CASE CMD_CMP
  BY <1>7, <1>8, SignedIsInteger, ComparesTyped DEF CMD_CMP
<1>9. CASE CMD_CMP_U
  BY <1>7, <1>9, SignedIsInteger, ComparesTyped DEF CMD_CMP_U
<1>10. CASE RetPops
  <2>1. frames[stack].variables \in [VarIndex -> Word]
    BY <1>10 DEF RetPops, Executes, Frame
  <2>2. variables' \in [VarIndex -> Word]
    BY <1>10, <2>1, NumVariablesAssumption DEF RetPops, DataOK, VarIndex
  <2> QED
    BY <1>10, <2>2 DEF RetPops, KeepFlags, KeepMemory, flags, DataOK, FlagsExclusive
<1> QED
  BY <1>1, <1>2, <1>3, <1>4, <1>5, <1>6, <1>8, <1>9, <1>10, PutTyped, StoreTyped, LoadTyped
     DEF Step, CMD_CALL

-----------------------------------------------------------------------------
(* The call records.                                                       *)

CallsOK == /\ frames \in [FrameAddr -> Frame \cup {Freed}]
           /\ stack \in FrameAddr \cup {NULL}
           /\ chain \in Seq(FrameAddr)

Linked == CallsOK /\ FramesChained

LEMMA FreedIsNoFrame == \A f \in Frame : f # Freed
BY FreedAssumption DEF Frame

(* While the program runs, what a return will pop is a call record. *)
LEMMA TopIsFrame ==
    ASSUME Linked, running, stack # NULL
    PROVE  frames[stack] \in Frame
<1>1. chain # <<>> /\ stack = chain[1]
  BY DEF Linked, FramesChained
<1>2. 1 \in DOMAIN chain /\ chain[1] \in FrameAddr
  BY <1>1 DEF Linked, CallsOK
<1> QED
  BY <1>1, <1>2 DEF Linked, CallsOK, FramesChained

LEMMA RecordIsFrame ==
    ASSUME ControlOK, running, DataOK, CallsOK
    PROVE  Record \in Frame
BY CommandAtCurrent DEF Record, Frame, DataOK, CallsOK

(* A step that leaves the records alone. *)
LEMMA KeepsLinked ==
    ASSUME Linked, prog' = prog, running' => running, UNCHANGED calls
    PROVE  Linked'
BY DEF Linked, CallsOK, FramesChained, Frame, calls, NextOf

LEMMA CallNoLabelLinked ==
    ASSUME ControlOK, Linked, CallNoLabel
    PROVE  Linked'
<1>1. PICK a \in FrameAddr : stack' = a /\ chain' = <<a>> \o chain
  BY DEF CallNoLabel
<1>2. ~running' /\ prog' = prog /\ frames' = frames
  BY DEF CallNoLabel, Fail
<1>3. chain' \in Seq(FrameAddr)
  BY <1>1 DEF Linked, CallsOK
<1> QED
  BY <1>1, <1>2, <1>3 DEF Linked, CallsOK, FramesChained, Frame, NextOf

(* A sequence with a new head, and without its head, position by position. *)
LEMMA Pushed ==
    ASSUME NEW S, NEW q \in Seq(S), NEW a \in S
    PROVE  /\ <<a>> \o q \in Seq(S)
           /\ Len(<<a>> \o q) = Len(q) + 1
           /\ (<<a>> \o q)[1] = a
           /\ \A i \in 2 .. Len(q) + 1 : (<<a>> \o q)[i] = q[i - 1]
OBVIOUS

LEMMA Popped ==
    ASSUME NEW S, NEW q \in Seq(S), q # <<>>
    PROVE  /\ Tail(q) \in Seq(S)
           /\ Len(Tail(q)) = Len(q) - 1 /\ Len(q) >= 1
           /\ \A i \in 1 .. Len(q) - 1 : Tail(q)[i] = q[i + 1]
OBVIOUS

LEMMA ChainFacts ==
    ASSUME Linked, running
    PROVE  /\ chain \in Seq(FrameAddr) /\ Len(chain) \in Nat /\ DOMAIN chain = 1 .. Len(chain)
           /\ stack = IF chain = <<>> THEN NULL ELSE chain[1]
           /\ \A i \in 1 .. Len(chain) :
                  /\ chain[i] \in FrameAddr
                  /\ frames[chain[i]] # Freed
                  /\ frames[chain[i]].next = IF i < Len(chain) THEN chain[i + 1] ELSE NULL
           /\ \A i, j \in 1 .. Len(chain) : chain[i] = chain[j] => i = j
           /\ \A b \in FrameAddr : frames[b] # Freed => \E i \in 1 .. Len(chain) : chain[i] = b
<1>1. chain \in Seq(FrameAddr) /\ Len(chain) \in Nat /\ DOMAIN chain = 1 .. Len(chain)
  BY DEF Linked, CallsOK
<1>2. \A i \in 1 .. Len(chain) : chain[i] \in FrameAddr
  BY <1>1
<1>3. /\ stack = IF chain = <<>> THEN NULL ELSE chain[1]
      /\ \A i \in DOMAIN chain :
             /\ frames[chain[i]] # Freed
             /\ frames[chain[i]].next = IF i < Len(chain) THEN chain[i + 1] ELSE NULL
      /\ \A i, j \in DOMAIN chain : chain[i] = chain[j] => i = j
      /\ \A b \in FrameAddr : frames[b] # Freed => \E i \in DOMAIN chain : chain[i] = b
  BY Zenon DEF Linked, FramesChained
<1> QED
  BY <1>1, <1>2, <1>3, Zenon

LEMMA CallEntersLinked ==
    ASSUME ControlOK, DataOK, Linked, CallEnters
    PROVE  Linked'
<1>1. PICK a \in FrameAddr : /\ frames[a] = Freed
                             /\ frames' = [frames EXCEPT ![a] = Record]
                             /\ stack' = a
                             /\ chain' = <<a>> \o chain
  BY DEF CallEnters
<1>2. running /\ cmd.type = "CALL" /\ prog' = prog
  BY DEF CallEnters, Executes, GoTo
<1>3. Record \in Frame /\ Record # Freed /\ Record.next = stack
      /\ Record.return_address = NextOf(current)
  BY <1>2, RecordIsFrame, FreedIsNoFrame DEF Linked, Record
<1>4. /\ chain \in Seq(FrameAddr) /\ Len(chain) \in Nat /\ DOMAIN chain = 1 .. Len(chain)
      /\ frames \in [FrameAddr -> Frame \cup {Freed}]
  BY DEF Linked, CallsOK
<1>5. /\ chain' \in Seq(FrameAddr)
      /\ Len(chain') = Len(chain) + 1 /\ DOMAIN chain' = 1 .. Len(chain) + 1
      /\ chain'[1] = a
      /\ \A i \in 2 .. Len(chain) + 1 : chain'[i] = chain[i - 1]
  BY <1>1, <1>4, Pushed
<1>6. CallsOK'
  <2>1. Frame' = Frame
    BY <1>2 DEF Frame
  <2> QED
    BY <1>1, <1>3, <1>4, <1>5, <2>1 DEF CallsOK
<1>7. /\ frames'[a] = Record
      /\ \A b \in FrameAddr : b # a => frames'[b] = frames[b]
  BY <1>1, <1>4
<1>8. /\ stack = IF chain = <<>> THEN NULL ELSE chain[1]
      /\ \A i \in 1 .. Len(chain) :
             /\ chain[i] \in FrameAddr /\ chain[i] # a
             /\ frames[chain[i]] # Freed
             /\ frames[chain[i]].next = IF i < Len(chain) THEN chain[i + 1] ELSE NULL
      /\ \A i, j \in 1 .. Len(chain) : chain[i] = chain[j] => i = j
      /\ \A b \in FrameAddr : frames[b] # Freed => \E i \in 1 .. Len(chain) : chain[i] = b
  BY <1>1, <1>2, ChainFacts, Zenon
<1>9. FramesChained'
  <2>1. chain' # <<>> /\ stack' = chain'[1]
    BY <1>1, <1>4, <1>5
  <2>2. ASSUME NEW i \in 1 .. Len(chain) + 1
        PROVE  /\ frames'[chain'[i]] # Freed
               /\ frames'[chain'[i]].next = IF i < Len(chain) + 1 THEN chain'[i + 1] ELSE NULL
    <3>1. CASE i = 1
      <4>1. chain = <<>> <=> Len(chain) = 0
        BY <1>4
      <4>2. Len(chain) > 0 => chain'[2] = chain[1]
        BY <1>4, <1>5
      <4> QED
        BY <1>3, <1>4, <1>5, <1>7, <1>8, <3>1, <4>1, <4>2
    <3>2. CASE i > 1
      <4>1. i - 1 \in 1 .. Len(chain) /\ chain'[i] = chain[i - 1]
        BY <1>4, <1>5, <3>2
      <4>2. frames'[chain'[i]] = frames[chain[i - 1]]
        BY <1>7, <1>8, <4>1
      <4>3. i < Len(chain) + 1 => chain'[i + 1] = chain[i]
        BY <1>4, <1>5, <3>2
      <4> QED
        BY <1>4, <1>8, <4>1, <4>2, <4>3
    <3> QED
      BY <1>4, <3>1, <3>2
  <2>3. ASSUME NEW i \in 1 .. Len(chain) + 1, NEW j \in 1 .. Len(chain) + 1, chain'[i] = chain'[j]
        PROVE  i = j
    BY <1>4, <1>5, <1>8, <2>3
  <2>4. ASSUME NEW b \in FrameAddr, frames'[b] # Freed
        PROVE  \E i \in 1 .. Len(chain) + 1 : chain'[i] = b
    <3>1. CASE b = a
      BY <1>4, <1>5, <3>1
    <3>2. CASE b # a
      <4>1. PICK i \in 1 .. Len(chain) : chain[i] = b
        BY <1>7, <1>8, <2>4, <3>2
      <4>2. i + 1 \in 2 .. Len(chain) + 1 /\ chain'[i + 1] = b
        BY <1>4, <1>5, <4>1
      <4> QED
        BY <1>4, <4>2
    <3> QED
      BY <3>1, <3>2
  <2> QED
    BY <1>5, <2>1, <2>2, <2>3, <2>4 DEF FramesChained
<1> QED
  BY <1>6, <1>9 DEF Linked

LEMMA RetPopsLinked ==
    ASSUME ControlOK, DataOK, Linked, RetPops
    PROVE  Linked'
<1>1. /\ running /\ stack # NULL
      /\ stack' = frames[stack].next
      /\ frames' = [frames EXCEPT ![stack] = Freed]
      /\ chain' = Tail(chain)
      /\ prog' = prog
  BY DEF RetPops, Executes, GoTo
<1>2. /\ chain \in Seq(FrameAddr) /\ Len(chain) \in Nat
      /\ frames \in [FrameAddr -> Frame \cup {Freed}]
      /\ frames[stack] \in Frame
  BY <1>1, TopIsFrame DEF Linked, CallsOK
<1>3. chain # <<>> /\ stack = chain[1]
  BY <1>1, ChainFacts
<1>4. /\ chain' \in Seq(FrameAddr)
      /\ Len(chain) >= 1 /\ Len(chain') = Len(chain) - 1 /\ DOMAIN chain' = 1 .. Len(chain) - 1
      /\ \A i \in 1 .. Len(chain) - 1 : chain'[i] = chain[i + 1]
  BY <1>1, <1>2, <1>3, Popped
<1>5. /\ \A i \in 1 .. Len(chain) :
             /\ chain[i] \in FrameAddr
             /\ frames[chain[i]] # Freed
             /\ frames[chain[i]].next = IF i < Len(chain) THEN chain[i + 1] ELSE NULL
      /\ \A i, j \in 1 .. Len(chain) : chain[i] = chain[j] => i = j
      /\ \A b \in FrameAddr : frames[b] # Freed => \E i \in 1 .. Len(chain) : chain[i] = b
  BY <1>1, ChainFacts, Zenon
<1>6. stack \in FrameAddr
  BY <1>2, <1>3, <1>4, <1>5
<1>7. /\ frames'[stack] = Freed
      /\ \A b \in FrameAddr : b # stack => frames'[b] = frames[b]
      /\ frames' \in [FrameAddr -> Frame \cup {Freed}]
  BY <1>1, <1>2, <1>6
<1>8. CallsOK'
  <2>1. Frame' = Frame
    BY <1>1 DEF Frame
  <2>2. stack' \in FrameAddr \cup {NULL}
    BY <1>1, <1>2 DEF Frame
  <2> QED
    BY <1>4, <1>7, <2>1, <2>2 DEF CallsOK
<1>9. FramesChained'
  <2>1. stack' = IF chain' = <<>> THEN NULL ELSE chain'[1]
    <3>1. stack' = IF 1 < Len(chain) THEN chain[2] ELSE NULL
      BY <1>1, <1>2, <1>3, <1>4, <1>5
    <3>2. chain' = <<>> <=> ~(1 < Len(chain))
      BY <1>2, <1>4
    <3>3. 1 < Len(chain) => chain'[1] = chain[2]
      BY <1>2, <1>4
    <3> QED
      BY <3>1, <3>2, <3>3
  <2>2. ASSUME NEW i \in 1 .. Len(chain) - 1
        PROVE  /\ frames'[chain'[i]] # Freed
               /\ frames'[chain'[i]].next = IF i < Len(chain) - 1 THEN chain'[i + 1] ELSE NULL
    <3>1. i + 1 \in 1 .. Len(chain) /\ chain'[i] = chain[i + 1] /\ 1 \in 1 .. Len(chain) /\ i + 1 # 1
      BY <1>2, <1>4
    <3>2. chain[i + 1] \in FrameAddr /\ chain[i + 1] # stack
      BY <1>3, <1>5, <3>1
    <3>3. frames'[chain'[i]] = frames[chain[i + 1]]
      BY <1>7, <3>1, <3>2
    <3>4. i < Len(chain) - 1 => i + 1 < Len(chain) /\ chain'[i + 1] = chain[(i + 1) + 1]
      BY <1>2, <1>4
    <3>5. ~(i < Len(chain) - 1) => ~(i + 1 < Len(chain))
      BY <1>2
    <3> QED
      BY <1>5, <3>1, <3>3, <3>4, <3>5
  <2>3. ASSUME NEW i \in 1 .. Len(chain) - 1, NEW j \in 1 .. Len(chain) - 1, chain'[i] = chain'[j]
        PROVE  i = j
    <3>1. i + 1 \in 1 .. Len(chain) /\ j + 1 \in 1 .. Len(chain)
      BY <1>2
    <3>2. i + 1 = j + 1
      BY <1>4, <1>5, <2>3, <3>1
    <3> QED
      BY <1>2, <3>2
  <2>4. ASSUME NEW b \in FrameAddr, frames'[b] # Freed
        PROVE  \E i \in 1 .. Len(chain) - 1 : chain'[i] = b
    <3>1. b # stack /\ frames[b] # Freed
      BY <1>7, <2>4
    <3>2. PICK i \in 1 .. Len(chain) : chain[i] = b
      BY <1>5, <3>1
    <3>3. i # 1
      BY <1>3, <3>1, <3>2
    <3>4. i - 1 \in 1 .. Len(chain) - 1 /\ chain'[i - 1] = b
      BY <1>2, <1>4, <3>2, <3>3
    <3> QED
      BY <3>4
  <2> QED
    BY <1>4, <2>1, <2>2, <2>3, <2>4 DEF FramesChained
<1> QED
  BY <1>8, <1>9 DEF Linked

LEMMA StepLinked ==
    ASSUME ControlOK, DataOK, Linked, Step
    PROVE  Linked'
<1>1. running /\ ControlOK' /\ prog' = prog
  BY TopIsFrame, StepControl
<1>2. CASE UNCHANGED calls
  BY <1>1, <1>2, KeepsLinked
<1>3. \/ UNCHANGED calls
      \/ CallNoLabel \/ CallEnters \/ RetPops
  BY DEF Step, CMD_NOP, CMD_MOV, CMD_ADD_SUB, CMD_BITWISE, CMD_SHIFT, CMD_CMP, CMD_CMP_U,
         CMD_PRINT, CMD_PUT, CMD_STORE, CMD_LOAD, LoadRefused, CMD_BRANCH, CMD_CALL,
         CallNoMemory, RetEnds, Computes, Compares, Advance
<1> QED
  BY <1>2, <1>3, CallNoLabelLinked, CallEntersLinked, RetPopsLinked

(* Behind the end of a run too, no record is allocated but those of calls  *)
(* that were not returned from.                                            *)
OnlyChain == \A a \in FrameAddr : frames[a] # Freed => \E i \in DOMAIN chain : chain[i] = a

LEMMA StepKeepsOnlyChain ==
    ASSUME ControlOK, DataOK, Linked, OnlyChain, Step
    PROVE  OnlyChain'
<1>1. running /\ chain \in Seq(FrameAddr) /\ frames \in [FrameAddr -> Frame \cup {Freed}]
  BY TopIsFrame, StepControl DEF Linked, CallsOK
<1>2. CASE UNCHANGED calls
  BY <1>2 DEF OnlyChain, calls
<1>3. CASE CallNoLabel
  <2>1. PICK a \in FrameAddr : frames' = frames /\ chain' = <<a>> \o chain
    BY <1>3 DEF CallNoLabel
  <2>2. ASSUME NEW b \in FrameAddr, frames[b] # Freed
        PROVE  \E i \in DOMAIN chain' : chain'[i] = b
    <3>1. PICK i \in DOMAIN chain : chain[i] = b
      BY <2>2 DEF OnlyChain
    <3>2. i + 1 \in DOMAIN chain' /\ i + 1 \in 2 .. Len(chain) + 1 /\ (i + 1) - 1 = i
      BY <1>1, <2>1, <3>1
    <3>3. chain'[i + 1] = b
      BY <1>1, <2>1, <3>1, <3>2, Pushed
    <3> QED
      BY <3>2, <3>3
  <2> QED
    BY <2>1, <2>2 DEF OnlyChain
<1>4. CASE CallEnters
  <2>1. running'
    BY <1>4 DEF CallEnters, GoTo
  <2> QED
    BY <1>4, <2>1, CallEntersLinked DEF Linked, FramesChained, OnlyChain
<1>5. CASE RetPops
  <2>1. /\ stack # NULL /\ chain' = Tail(chain)
        /\ frames' = [frames EXCEPT ![stack] = Freed]
    BY <1>5 DEF RetPops
  <2>2. chain # <<>> /\ stack = chain[1]
    BY <1>1, <2>1, ChainFacts
  <2>3. ASSUME NEW b \in FrameAddr, frames'[b] # Freed
        PROVE  \E i \in DOMAIN chain' : chain'[i] = b
    <3>1. b # stack /\ frames[b] # Freed
      BY <1>1, <2>1, <2>3
    <3>2. PICK i \in DOMAIN chain : chain[i] = b
      BY <3>1 DEF OnlyChain
    <3>3. i \in 1 .. Len(chain) /\ i # 1 /\ Len(chain) \in Nat
      BY <1>1, <2>2, <3>1, <3>2
    <3>4. i - 1 \in 1 .. Len(chain) - 1 /\ (i - 1) + 1 = i
      BY <3>3
    <3>5. i - 1 \in DOMAIN chain' /\ chain'[i - 1] = b
      BY <1>1, <2>1, <2>2, <3>2, <3>4, Popped
    <3> QED
      BY <3>5
  <2> QED
    BY <2>3 DEF OnlyChain
<1>6. UNCHANGED calls \/ CallNoLabel \/ CallEnters \/ RetPops
  BY DEF Step, CMD_NOP, CMD_MOV, CMD_ADD_SUB, CMD_BITWISE, CMD_SHIFT, CMD_CMP, CMD_CMP_U,
         CMD_PRINT, CMD_PUT, CMD_STORE, CMD_LOAD, LoadRefused, CMD_BRANCH, CMD_CALL,
         CallNoMemory, RetEnds, Computes, Compares, Advance
<1> QED
  BY <1>2, <1>3, <1>4, <1>5, <1>6

-----------------------------------------------------------------------------
(* The inductive invariant.  A typed step needs the chain (a return reads  *)
(* the record on top of it), the chain needs the types and that no two     *)
(* records share an address.                                               *)
IInv == ControlOK /\ DataOK /\ FlagsExclusive /\ Linked

LEMMA InitIInv == Init => IInv
<1> SUFFICES ASSUME Init PROVE IInv
  OBVIOUS
<1>1. IsProgram(prog)
  BY ProgramsAssumption DEF Init
<1>2. prog.commands \in Seq(Command) /\ Len(prog.commands) \in Nat
  BY <1>1 DEF IsProgram
<1>3. prog.commands # <<>> => Len(prog.commands) >= 1
  BY <1>2
<1>4. ControlOK
  <2>1. current \in 0 .. Len(prog.commands)
    BY <1>2, <1>3 DEF Init
  <2>2. running \in BOOLEAN /\ (running => current # 0) /\ had_error = FALSE
    BY Zenon DEF Init
  <2> QED
    BY <1>1, <2>1, <2>2 DEF ControlOK
<1>5. 0 \in Word /\ 0 \in Byte
  BY BaseIsPositive DEF Word, Byte
<1>6. DataOK /\ FlagsExclusive
  BY <1>5 DEF Init, DataOK, FlagsExclusive, Mem
<1>7. CallsOK
  BY DEF Init, CallsOK
<1>8. FramesChained
  BY DEF Init, FramesChained
<1> QED
  BY <1>4, <1>6, <1>7, <1>8 DEF IInv, Linked

LEMMA NextIInv == IInv /\ [Next]_vars => IInv'
<1> SUFFICES ASSUME IInv, [Next]_vars PROVE IInv'
  OBVIOUS
<1>1. CASE Step
  <2>1. ControlOK'
    BY <1>1, TopIsFrame, StepControl DEF IInv
  <2>2. DataOK' /\ FlagsExclusive'
    BY <1>1, TopIsFrame, StepData DEF IInv
  <2>3. Linked'
    BY <1>1, StepLinked DEF IInv
  <2> QED
    BY <2>1, <2>2, <2>3 DEF IInv
<1>2. CASE UNCHANGED vars
  <2>1. ControlOK' /\ DataOK' /\ FlagsExclusive'
    BY <1>2 DEF IInv, vars, flags, ControlOK, DataOK, FlagsExclusive
  <2>2. Linked'
    BY <1>2, KeepsLinked DEF IInv, vars, calls
  <2> QED
    BY <2>1, <2>2 DEF IInv
<1> QED
  BY <1>1, <1>2 DEF Next, Returned

(* Every program keeps to the invariant, whatever the heap does. *)
THEOREM Invariance == Spec => []IInv
BY InitIInv, NextIInv, PTL DEF Spec

(* TypeOK: variables stay machine words, control stays within the list,    *)
(* records hold what CALL saved, and an error ends the loop.               *)
THEOREM TypeSafety == Spec => []TypeOK
<1>1. IInv => TypeOK
  BY DEF IInv, ControlOK, DataOK, Linked, CallsOK, TypeOK
<1> QED
  BY <1>1, Invariance, PTL

(* BranchesDecided: of two opposite conditions exactly one branches. *)
THEOREM OppositeBranches == Spec => []BranchesDecided
<1>1. IInv => BranchesDecided
  BY DEF IInv, DataOK, FlagsExclusive, BranchesDecided, Taken, Conditions
<1> QED
  BY <1>1, Invariance, PTL

(* FramesChained: the linked list at intr->stack is the calls not yet      *)
(* returned from, and nothing else is allocated.                           *)
THEOREM StackIsChain == Spec => []FramesChained
<1>1. IInv => FramesChained
  BY DEF IInv, Linked
<1> QED
  BY <1>1, Invariance, PTL

-----------------------------------------------------------------------------
(* Accesses and the end of memory.                                         *)

(* A sum below Base is itself, and one below zero wraps once. *)
LEMMA WrapOnce ==
    /\ \A x \in Word : Wrap(x) = x
    /\ \A x \in Int : -Base <= x /\ x < 0 => Wrap(x) = x + Base
<1> DEFINE b == Base
<1>1. b \in Nat \ {0}
  BY BaseIsPositive
<1> HIDE DEF b
<1>2. \A x \in 0 .. b - 1 : x % b = x
  BY <1>1
<1>3. \A x \in Int : -b <= x /\ x < 0 => x % b = x + b
  BY <1>1
<1> QED
  BY <1>2, <1>3 DEF Wrap, Word, b

LEMMA Capacity == MemCapacity \in Nat \ {0} /\ MemCapacity < Base /\ Location \subseteq Word
BY BaseIsPositive, MemAssumption DEF Word, Location

(* An accepted access that does not wrap stays in memory. *)
LEMMA AcceptedInside ==
    ASSUME NEW offset \in Word, NEW bytes \in Nat, Accepts(offset, bytes), offset + bytes < Base
    PROVE  Inside(offset, bytes)
<1>1. offset + bytes \in Word /\ offset \in Nat
  BY BaseIsPositive DEF Word
<1>2. offset + bytes <= MemCapacity
  BY <1>1, WrapOnce DEF Accepts
<1>3. ASSUME NEW i \in 0 .. bytes - 1 PROVE Wrap(offset + i) \in Location
  <2>1. PICK x \in Int : x = offset + i
    BY <1>1
  <2>2. x \in Word /\ x \in Location
    BY <1>1, <1>2, <2>1, Capacity, BaseIsPositive DEF Word, Location
  <2> QED
    BY <2>1, <2>2, WrapOnce
<1> QED
  BY <1>3 DEF Inside, Touched

(* A byte that is accepted is in memory, or at the last address. *)
LEMMA AcceptedByte ==
    ASSUME NEW x \in Word, Accepts(x, 1)
    PROVE  x \in Location \/ x = Base - 1
<1>1. CASE x + 1 < Base
  <2>1. x + 1 \in Word /\ x \in Nat
    BY <1>1, BaseIsPositive DEF Word
  <2>2. x + 1 <= MemCapacity
    BY <2>1, WrapOnce DEF Accepts
  <2> QED
    BY <2>1, <2>2, Capacity DEF Location
<1> QED
  BY <1>1, BaseIsPositive DEF Word

(* A put that stays in memory but does not fit has filled it to the end,   *)
(* or stored nothing.                                                      *)
LEMMA PutFills ==
    ASSUME NEW addr \in Word, NEW bytes, Len(bytes) \in Nat, NEW n, n = PutCount(addr, bytes),
           n < Len(bytes), Inside(addr, n)
    PROVE  n \in Nat /\ (n # 0 => addr \in Location /\ addr + n = MemCapacity)
<1>1. /\ n \in 0 .. Len(bytes) /\ n \in Nat
      /\ \A i \in 0 .. n - 1 : Accepts(Wrap(addr + i), 1)
      /\ ~Accepts(Wrap(addr + n), 1)
  BY PutCountMeans
<1>2. addr \in Nat /\ addr < Base /\ Base \in Nat \ {0}
  BY BaseIsPositive DEF Word
<1>3. \A i \in 0 .. n - 1 : Wrap(addr + i) \in Location
  BY DEF Inside, Touched
<1>4. ASSUME n # 0 PROVE addr \in Location /\ addr + n = MemCapacity
  <2>1. 0 \in 0 .. n - 1 /\ addr + 0 = addr /\ Wrap(addr) = addr
    BY <1>1, <1>2, <1>4, WrapOnce
  <2>2. addr \in Location /\ 1 \in ValidBytes
    BY <1>1, <1>3, <2>1 DEF Accepts
  <2>3. addr + n <= MemCapacity
    <3>1. ASSUME addr + n > MemCapacity PROVE FALSE
      <4> DEFINE i == MemCapacity - addr
      <4>1. i \in 0 .. n - 1 /\ addr + i = MemCapacity /\ MemCapacity \in Word
        BY <1>1, <1>2, <2>2, <3>1, Capacity DEF Location, Word
      <4> HIDE DEF i
      <4>2. Wrap(addr + i) = MemCapacity
        BY <4>1, WrapOnce
      <4> QED
        BY <1>3, <4>1, <4>2 DEF Location
    <3> QED
      BY <1>1, <1>2, <3>1, Capacity
  <2>4. addr + n >= MemCapacity
    <3>1. ASSUME addr + n < MemCapacity PROVE FALSE
      <4>1. addr + n \in Word /\ addr + n + 1 \in Word /\ addr + n + 1 <= MemCapacity
        BY <1>1, <1>2, <3>1, Capacity DEF Word
      <4>2. Wrap(addr + n) = addr + n /\ Wrap(addr + n + 1) = addr + n + 1
        BY <4>1, WrapOnce
      <4> QED
        BY <1>1, <2>2, <4>1, <4>2 DEF Accepts
    <3> QED
      BY <1>1, <1>2, <3>1, Capacity
  <2> QED
    BY <1>1, <1>2, <2>2, <2>3, <2>4, Capacity
<1> QED
  BY <1>1, <1>4

LEMMA PutFailsClean ==
    ASSUME IInv, CMD_PUT, ~had_error, had_error', ~stray'
    PROVE  /\ UNCHANGED <<variables, flags>>
           /\ \/ UNCHANGED mem
              \/ LET addr == ValueOf(cmd.val_b)
                 IN  /\ addr \in Location
                     /\ \A x \in Location : mem'[x] = IF x < addr THEN mem[x]
                                                      ELSE cmd.val_a.str[x - addr + 1]
<1> DEFINE addr == ValueOf(cmd.val_b)
           str == cmd.val_a.str
           bytes == Append(str, 0)
           n == PutCount(addr, bytes)
<1>1. cmd \in Command /\ cmd.type = "PUT"
  BY CommandAtCurrent DEF CMD_PUT, Executes, IInv
<1>2. str \in Seq(Byte \ {0}) /\ addr \in Word
  BY <1>1, NamesOfCommand, SecondOperandOfCommand, ValueIsWord DEF IInv, DataOK
<1>3. /\ mem' = [x \in Location |-> IF Wrap(x - addr) < n
                                    THEN bytes[Wrap(x - addr) + 1] ELSE mem[x]]
      /\ stray' = (stray \/ ~Inside(addr, n))
      /\ IF n = Len(bytes) THEN Advance ELSE Fail /\ UNCHANGED calls
      /\ UNCHANGED <<variables, flags>>
  BY DEF CMD_PUT, KeepFlags
<1> HIDE DEF addr, str, n
<1>4. /\ Len(bytes) = Len(str) + 1 /\ Len(str) \in Nat
      /\ \A i \in 1 .. Len(str) : bytes[i] = str[i]
  BY <1>2
<1> HIDE DEF bytes
<1>5. n # Len(bytes) /\ Inside(addr, n)
  BY <1>3 DEF Advance, GoTo
<1>6. n \in 0 .. Len(bytes) /\ n < Len(bytes)
  <2>1. n \in 0 .. Len(bytes)
    BY <1>4, PutCountMeans DEF n
  <2> QED
    BY <1>4, <1>5, <2>1
<1>7. n \in Nat /\ (n # 0 => addr \in Location /\ addr + n = MemCapacity)
  BY <1>2, <1>4, <1>5, <1>6, PutFills DEF n
<1>8. mem = [x \in Location |-> mem[x]]
  BY DEF IInv, DataOK, Mem
<1>9. CASE n = 0
  <2>1. \A x \in Location : ~(Wrap(x - addr) < 0)
    <3>1. \A x \in Location : x - addr \in Int
      BY <1>2, Capacity, BaseIsPositive DEF Location, Word
    <3> QED
      BY <3>1, WrapIsWord, BaseIsPositive DEF Word
  <2>2. mem' = mem
    BY <1>3, <1>8, <1>9, <2>1
  <2> QED
    BY <1>3, <2>2
<1>10. CASE n # 0
  <2>1. ASSUME NEW x \in Location
        PROVE  mem'[x] = IF x < addr THEN mem[x] ELSE str[x - addr + 1]
    <3>1. /\ x \in Nat /\ addr \in Nat /\ x < MemCapacity /\ addr < Base
          /\ Base \in Nat /\ MemCapacity \in Nat /\ MemCapacity < Base
      BY <1>2, Capacity, BaseIsPositive DEF Location, Word
    <3>2. CASE x < addr
      <4>1. Wrap(x - addr) = x - addr + Base
        <5>1. x - addr \in Int /\ -Base <= x - addr /\ x - addr < 0
          BY <3>1, <3>2
        <5> QED
          BY <5>1, WrapOnce
      <4>2. ~(Wrap(x - addr) < n)
        BY <1>7, <1>10, <3>1, <4>1
      <4> QED
        BY <1>3, <3>2, <4>2
    <3>3. CASE ~(x < addr)
      <4>1. Wrap(x - addr) = x - addr
        <5>1. x - addr \in Word
          BY <3>1, <3>3 DEF Word
        <5> QED
          BY <5>1, WrapOnce
      <4>2. x - addr < n /\ x - addr + 1 \in 1 .. Len(str)
        BY <1>4, <1>6, <1>7, <1>10, <3>1, <3>3
      <4> QED
        BY <1>3, <1>4, <3>3, <4>1, <4>2
    <3> QED
      BY <3>2, <3>3
  <2> QED
    BY <1>3, <1>7, <1>10, <2>1 DEF addr, str
<1> QED
  BY <1>9, <1>10

(* A command that fails before it has done anything. *)
LEMMA NothingDoneClean ==
    ASSUME UNCHANGED <<variables, flags, mem, calls>>
    PROVE  CleanWhenFailing
BY DEF CleanWhenFailing, calls

(* FailsClean: a command that fails leaves variables, flags, memory and    *)
(* call records as they were, but for a put, which has filled memory up to *)
(* its end, and a call of an undefined label, which leaves intr->stack on  *)
(* the record it has freed.                                                *)
THEOREM FailuresClean == Spec => FailsClean
<1>1. IInv /\ [Next]_vars => [CleanWhenFailing]_vars
  <2> SUFFICES ASSUME IInv, [Next]_vars, ~had_error, had_error', ~stray'
               PROVE  CleanWhenFailing
    BY DEF CleanWhenFailing
  <2>1. Step
    BY DEF Next, Returned, vars
  <2>2. had_error' # had_error
    OBVIOUS
  <2>3. CASE CMD_PUT
    <3>1. UNCHANGED calls
      BY <2>2, <2>3 DEF CMD_PUT, Advance, GoTo
    <3> QED
      BY <2>3, <3>1, PutFailsClean DEF CMD_PUT, Executes, CleanWhenFailing, calls
  <2>4. CASE CMD_NOP \/ CMD_MOV \/ CMD_ADD_SUB \/ CMD_BITWISE \/ CMD_SHIFT
    BY <2>2, <2>4 DEF CMD_NOP, CMD_MOV, CMD_ADD_SUB, CMD_BITWISE, CMD_SHIFT, Computes,
       Advance, GoTo
  <2>5. CASE CMD_CMP \/ CMD_CMP_U
    BY <2>2, <2>5 DEF CMD_CMP, CMD_CMP_U, Compares, Advance, GoTo
  <2>6. CASE CMD_PRINT
    BY <2>2, <2>6, NothingDoneClean DEF CMD_PRINT, KeepFlags, KeepMemory, Advance, GoTo
  <2>7. CASE CMD_STORE
    BY <2>2, <2>7, NothingDoneClean DEF CMD_STORE, KeepFlags, KeepMemory, Advance, GoTo
  <2>8. CASE CMD_LOAD
    BY <2>2, <2>8, NothingDoneClean DEF CMD_LOAD, LoadRefused, KeepFlags, Advance, GoTo
  <2>9. CASE CMD_BRANCH
    BY <2>2, <2>9, NothingDoneClean DEF CMD_BRANCH, KeepFlags, KeepMemory, Advance, GoTo
  <2>10. CASE CMD_CALL
    <3>1. CASE CallNoMemory
      BY <3>1, NothingDoneClean DEF CallNoMemory, KeepData, KeepFlags, KeepMemory
    <3>2. CASE CallNoLabel
      <4>1. PICK a \in FrameAddr : frames[a] = Freed /\ stack' = a
        BY <3>2 DEF CallNoLabel
      <4> QED
        BY <3>2, <4>1 DEF CallNoLabel, Executes, KeepData, KeepFlags, KeepMemory, CleanWhenFailing,
           IInv, ControlOK, IsProgram, cmd
    <3>3. CASE CallEnters
      BY <2>2, <3>3 DEF CallEnters, GoTo
    <3> QED
      BY <2>10, <3>1, <3>2, <3>3 DEF CMD_CALL
  <2>11. CASE RetEnds \/ RetPops
    BY <2>2, <2>11 DEF RetEnds, RetPops, GoTo
  <2> QED
    BY <2>1, <2>3, <2>4, <2>5, <2>6, <2>7, <2>8, <2>9, <2>10, <2>11 DEF Step
<1> QED
  BY <1>1, Invariance, PTL DEF FailsClean, Spec

(* StraysByWrapping: an access outside memory is one that wraps. *)
THEOREM Strays == Spec => StraysByWrapping
<1>1. IInv /\ [Next]_vars => [WrapsWhenStray]_vars
  <2> SUFFICES ASSUME IInv, [Next]_vars, ~stray, stray' PROVE WrapsWhenStray
    BY DEF WrapsWhenStray
  <2>1. Step
    BY DEF Next, Returned, vars
  <2>2. stray' # stray
    OBVIOUS
  <2>3. cmd \in Command
    BY <2>1, TopIsFrame, StepControl, CommandAtCurrent DEF IInv
  <2>4. CASE CMD_PUT
    <3> DEFINE addr == ValueOf(cmd.val_b)
               str == cmd.val_a.str
               bytes == Append(str, 0)
               n == PutCount(addr, bytes)
    <3>1. cmd.type = "PUT" /\ ~Inside(addr, n)
      BY <2>4 DEF CMD_PUT, Executes
    <3>2. str \in Seq(Byte \ {0}) /\ addr \in Word
      BY <2>3, <3>1, NamesOfCommand, SecondOperandOfCommand, ValueIsWord DEF IInv, DataOK
    <3>3. Len(bytes) = Len(str) + 1 /\ Len(str) \in Nat
      BY <3>2
    <3> HIDE DEF addr, str, bytes
    <3>4. n \in 0 .. Len(bytes) /\ \A i \in 0 .. n - 1 : Accepts(Wrap(addr + i), 1)
      BY <3>3, PutCountMeans
    <3> HIDE DEF n
    <3>5. PICK i \in 0 .. n - 1 : Wrap(addr + i) \notin Location
      BY <3>1 DEF Inside, Touched
    <3>6. addr + i >= Base - 1
      <4>1. ASSUME addr + i < Base - 1 PROVE FALSE
        <5>1. PICK x \in Int : x = addr + i
          BY <3>2, BaseIsPositive DEF Word
        <5>2. x \in Word /\ x # Base - 1
          BY <3>2, <3>3, <3>4, <4>1, <5>1, BaseIsPositive DEF Word
        <5>3. Wrap(x) = x /\ Accepts(x, 1)
          BY <3>4, <5>1, <5>2, WrapOnce
        <5> QED
          BY <3>5, <5>1, <5>2, <5>3, AcceptedByte
      <4> QED
        BY <3>2, <3>3, <3>4, <4>1, BaseIsPositive DEF Word
    <3>7. addr + Len(str) + 1 >= Base
      BY <3>2, <3>3, <3>4, <3>6, BaseIsPositive DEF Word
    <3> QED
      BY <3>1, <3>7 DEF WrapsWhenStray, addr, str
  <2>5. CASE CMD_STORE \/ CMD_LOAD
    <3> DEFINE offset == ValueOf(cmd.val_a)
               bytes == cmd.val_b.imm
    <3>1. /\ cmd.type \in {"STORE", "LOAD"}
          /\ Accepts(offset, bytes) /\ ~Inside(offset, bytes)
      BY <2>2, <2>5 DEF CMD_STORE, CMD_LOAD, Executes, KeepMemory, LoadRefused
    <3>2. offset \in Word /\ bytes \in Nat
      BY <2>3, <3>1, FirstOperandOfCommand, SecondOperandOfCommand, ValueIsWord,
         BaseIsPositive DEF IInv, DataOK, Word
    <3> HIDE DEF offset, bytes
    <3>3. offset + bytes >= Base
      <4>1. ASSUME offset + bytes < Base PROVE FALSE
        BY <3>1, <3>2, <4>1, AcceptedInside
      <4> QED
        BY <3>2, <4>1, BaseIsPositive DEF Word
    <3> QED
      BY <3>1, <3>3 DEF WrapsWhenStray, offset, bytes
  <2>6. CASE CMD_NOP \/ CMD_MOV \/ CMD_ADD_SUB \/ CMD_BITWISE \/ CMD_SHIFT
    BY <2>2, <2>6 DEF CMD_NOP, CMD_MOV, CMD_ADD_SUB, CMD_BITWISE, CMD_SHIFT, Computes,
       KeepMemory
  <2>7. CASE CMD_CMP \/ CMD_CMP_U \/ CMD_PRINT \/ CMD_BRANCH
    BY <2>2, <2>7 DEF CMD_CMP, CMD_CMP_U, Compares, CMD_PRINT, CMD_BRANCH, KeepMemory
  <2>8. CASE CMD_CALL \/ RetEnds \/ RetPops
    BY <2>2, <2>8 DEF CMD_CALL, CallNoMemory, CallNoLabel, CallEnters, RetEnds, RetPops,
       KeepData, KeepMemory
  <2> QED
    BY <2>1, <2>4, <2>5, <2>6, <2>7, <2>8 DEF Step
<1> QED
  BY <1>1, Invariance, PTL DEF StraysByWrapping, Spec
=============================================================================
