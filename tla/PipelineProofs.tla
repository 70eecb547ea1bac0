--------------------------- MODULE PipelineProofs ---------------------------
(* What holds of ci_run_source for every source: the proofs about Parser   *)
(* and Interpreter carry over to their composition.                        *)
EXTENDS Pipeline, TLAPS

(* Parser and Interpreter once more, with what is proved of them. *)
P == INSTANCE GrammarProofs
I == INSTANCE InterpreterProofs WITH
    prog <- [commands |-> commands, labels |-> labels],
    current <- pc, had_error <- failed, Programs <- {}

-----------------------------------------------------------------------------
(* The two instances of each module are the same.                          *)

LEMMA SameTokens ==
    /\ \A i : Parsing!TokenAt(i) = P!TokenAt(i)
    /\ Parsing!Keywords = P!Keywords /\ Parsing!Positions = P!Positions
  BY DEF Parsing!TokenAt, P!TokenAt, Parsing!Eof, P!Eof, Parsing!Keywords, P!Keywords,
         Parsing!Positions, P!Positions

LEMMA SameHeap ==
    /\ Parsing!HeapExact <=> P!HeapExact
    /\ Parsing!ListBlocks = P!ListBlocks
    /\ Parsing!Lost = P!Lost
    /\ \A kind, i : Parsing!Block(kind, i) = P!Block(kind, i)
    /\ \A i : Parsing!BlocksOf(i) = P!BlocksOf(i)
    /\ \A l : Parsing!Held(l) = P!Held(l)
<1>1. \A kind, i : Parsing!Block(kind, i) = P!Block(kind, i)
  BY DEF Parsing!Block, P!Block
<1>2. \A i : Parsing!BlocksOf(i) = P!BlocksOf(i)
  BY <1>1, SameTokens DEF Parsing!BlocksOf, P!BlocksOf
<1>3. Parsing!ListBlocks = P!ListBlocks
  BY <1>2 DEF Parsing!ListBlocks, P!ListBlocks
<1>4. Parsing!Lost = P!Lost
  BY SameTokens DEF Parsing!Lost, P!Lost, Parsing!Block, P!Block, Parsing!Seen, P!Seen,
                    Parsing!Made, P!Made
<1>5. \A l : Parsing!Held(l) = P!Held(l)
  BY <1>1 DEF Parsing!Held, P!Held
<1>6. QED BY <1>1, <1>2, <1>3, <1>4, <1>5 DEF Parsing!HeapExact, P!HeapExact

LEMMA SameLines ==
    /\ \A t, slot : Parsing!Fits(t, slot) <=> P!Fits(t, slot)
    /\ \A type : Parsing!Slots(type) = P!Slots(type)
    /\ \A p : Parsing!Filled(p) = P!Filled(p)
    /\ \A type : Parsing!Line(type) = P!Line(type)
    /\ \A p : Parsing!IsLine(p) <=> P!IsLine(p)
<1>1. \A t, slot : Parsing!Fits(t, slot) <=> P!Fits(t, slot)
  BY DEF Parsing!Fits, P!Fits, Parsing!IsRegister, P!IsRegister, Parsing!IsImmediate,
         P!IsImmediate, Parsing!Number, P!Number
<1>2. \A type : Parsing!Slots(type) = P!Slots(type)
  BY DEF Parsing!Slots, P!Slots, Parsing!NopLine, P!NopLine, Parsing!RetLine, P!RetLine,
         Parsing!MovLine, P!MovLine, Parsing!PrintLine, P!PrintLine, Parsing!AddSubLine,
         P!AddSubLine, Parsing!CmpLine, P!CmpLine, Parsing!CmpULine, P!CmpULine,
         Parsing!BitwiseLine, P!BitwiseLine, Parsing!ShiftLine, P!ShiftLine,
         Parsing!PutLine, P!PutLine, Parsing!AccessLine, P!AccessLine, Parsing!BranchLine,
         P!BranchLine, Parsing!CallLine, P!CallLine
<1>3. \A type : Parsing!Line(type) = P!Line(type)
  BY <1>2 DEF Parsing!Line, P!Line
<1>4. \A p : Parsing!Filled(p) = P!Filled(p)
  BY <1>1, <1>3, SameTokens DEF Parsing!Filled, P!Filled
<1>5. \A p : Parsing!IsLine(p) <=> P!IsLine(p)
  BY <1>3, <1>4, SameTokens DEF Parsing!IsLine, P!IsLine
<1>6. QED BY <1>1, <1>2, <1>3, <1>4, <1>5

LEMMA SameGrammar ==
    /\ Parsing!ErrorsExact <=> P!ErrorsExact
    /\ Parsing!Legal <=> P!Legal
<1>1. \A p : Parsing!Statement(p) <=> P!Statement(p)
  BY SameLines, SameTokens DEF Parsing!Statement, P!Statement
<1>2. /\ Parsing!LineStarts = P!LineStarts
      /\ \A q : /\ Parsing!HasLabel(q) <=> P!HasLabel(q)
                /\ Parsing!Body(q) = P!Body(q)
                /\ Parsing!Blank(q) <=> P!Blank(q)
  BY SameTokens DEF Parsing!LineStarts, P!LineStarts, Parsing!HasLabel, P!HasLabel,
     Parsing!Body, P!Body, Parsing!Blank, P!Blank
<1>3. Parsing!Legal <=> P!Legal
  BY <1>1, <1>2 DEF Parsing!Legal, P!Legal
<1>4. QED BY <1>3 DEF Parsing!ErrorsExact, P!ErrorsExact

LEMMA SameLabels == Parsing!LabelsMeanNext <=> P!LabelsMeanNext
<1>1. \A n : Parsing!Definitions(n) = P!Definitions(n)
  BY SameTokens DEF Parsing!Definitions, P!Definitions, Parsing!HasLabel, P!HasLabel
<1>2. \A q : Parsing!Followed(q) <=> P!Followed(q)
  BY DEF Parsing!Followed, P!Followed
<1>3. QED BY <1>1, <1>2 DEF Parsing!LabelsMeanNext, P!LabelsMeanNext

LEMMA SameCommands ==
    \A p : Parsing!CommandAt(p) = P!CommandAt(p)
  BY DEF Parsing!CommandAt, P!CommandAt, Parsing!TokenAt, P!TokenAt, Parsing!Eof, P!Eof,
         Parsing!Var, P!Var, Parsing!Imm, P!Imm, Parsing!Value, P!Value, Parsing!Name,
         P!Name, Parsing!Number, P!Number

LEMMA SameTurns ==
    Parsing!parse_commands <=> P!parse_commands
<1>1. Parsing!AtEnd <=> P!AtEnd
  BY DEF Parsing!AtEnd, P!AtEnd, Parsing!Reads, P!Reads, Parsing!Start, P!Start,
         Parsing!AtLabel, P!AtLabel, Parsing!TokenAt, P!TokenAt, Parsing!Eof, P!Eof,
         Parsing!result, P!result, Parsing!Leave, P!Leave, Parsing!Block, P!Block
<1>2. Parsing!SecondLabel <=> P!SecondLabel
  BY DEF Parsing!SecondLabel, P!SecondLabel, Parsing!Reads, P!Reads, Parsing!Start,
         P!Start, Parsing!AtLabel, P!AtLabel, Parsing!TokenAt, P!TokenAt, Parsing!Eof,
         P!Eof, Parsing!result, P!result, Parsing!Leave, P!Leave, Parsing!Held, P!Held,
         Parsing!Block, P!Block
<1>3. Parsing!LabelNoMemory <=> P!LabelNoMemory
  BY DEF Parsing!LabelNoMemory, P!LabelNoMemory, Parsing!Reads, P!Reads, Parsing!Start,
         P!Start, Parsing!AtLabel, P!AtLabel, Parsing!TokenAt, P!TokenAt, Parsing!Eof,
         P!Eof, Parsing!result, P!result, Parsing!Leave, P!Leave, Parsing!Block, P!Block
<1>4. Parsing!LabelPends <=> P!LabelPends
  BY DEF Parsing!LabelPends, P!LabelPends, Parsing!Reads, P!Reads, Parsing!Start, P!Start,
         Parsing!AtLabel, P!AtLabel, Parsing!TokenAt, P!TokenAt, Parsing!Eof, P!Eof,
         Parsing!result, P!result, Parsing!Stay, P!Stay, Parsing!Held, P!Held,
         Parsing!Block, P!Block
<1>5. Parsing!LabelAtEnd <=> P!LabelAtEnd
  BY DEF Parsing!LabelAtEnd, P!LabelAtEnd, Parsing!Reads, P!Reads, Parsing!Start, P!Start,
         Parsing!AtLabel, P!AtLabel, Parsing!TokenAt, P!TokenAt, Parsing!Eof, P!Eof,
         Parsing!result, P!result, Parsing!Add, P!Add, Parsing!BlocksOf, P!BlocksOf,
         Parsing!Leave, P!Leave, Parsing!Block, P!Block
<1>6. Parsing!LabelAtEndNoMemory <=> P!LabelAtEndNoMemory
  BY DEF Parsing!LabelAtEndNoMemory, P!LabelAtEndNoMemory, Parsing!Reads, P!Reads,
         Parsing!Start, P!Start, Parsing!AtLabel, P!AtLabel, Parsing!TokenAt, P!TokenAt,
         Parsing!Eof, P!Eof, Parsing!result, P!result, Parsing!Leave, P!Leave,
         Parsing!Block, P!Block
<1>7. Parsing!NothingLeft <=> P!NothingLeft
  BY DEF Parsing!NothingLeft, P!NothingLeft, Parsing!Reads, P!Reads, Parsing!Start,
         P!Start, Parsing!AtLabel, P!AtLabel, Parsing!TokenAt, P!TokenAt, Parsing!Eof,
         P!Eof, Parsing!result, P!result, Parsing!NoCommand, P!NoCommand, Parsing!Leave,
         P!Leave, Parsing!Held, P!Held, Parsing!Block, P!Block
<1>8. Parsing!CommandNoMemory <=> P!CommandNoMemory
  BY DEF Parsing!CommandNoMemory, P!CommandNoMemory, Parsing!Reads, P!Reads, Parsing!Start,
         P!Start, Parsing!AtLabel, P!AtLabel, Parsing!TokenAt, P!TokenAt, Parsing!Eof,
         P!Eof, Parsing!result, P!result, Parsing!NoCommand, P!NoCommand, Parsing!Leave,
         P!Leave, Parsing!Held, P!Held, Parsing!Block, P!Block
<1>9. Parsing!Unrecognized <=> P!Unrecognized
  BY DEF Parsing!Unrecognized, P!Unrecognized, Parsing!Reads, P!Reads, Parsing!Start,
         P!Start, Parsing!AtLabel, P!AtLabel, Parsing!TokenAt, P!TokenAt, Parsing!Eof,
         P!Eof, Parsing!result, P!result, Parsing!NoCommand, P!NoCommand, Parsing!Leave,
         P!Leave, Parsing!Held, P!Held, Parsing!Block, P!Block, Parsing!Keywords, P!Keywords
<1>10. Parsing!Refused <=> P!Refused
  BY SameLines DEF Parsing!Refused, P!Refused, Parsing!Reads, P!Reads, Parsing!Start, P!Start,
         Parsing!AtLabel, P!AtLabel, Parsing!TokenAt, P!TokenAt, Parsing!Eof, P!Eof,
         Parsing!result, P!result, Parsing!NoCommand, P!NoCommand, Parsing!Leave, P!Leave,
         Parsing!Held, P!Held, Parsing!Block, P!Block, Parsing!Keywords, P!Keywords,
         Parsing!LeftBehind, P!LeftBehind
<1>11. Parsing!OperandNoMemory <=> P!OperandNoMemory
  BY SameLines DEF Parsing!OperandNoMemory, P!OperandNoMemory, Parsing!Reads, P!Reads,
         Parsing!Start, P!Start, Parsing!AtLabel, P!AtLabel, Parsing!TokenAt, P!TokenAt, Parsing!Eof,
         P!Eof, Parsing!result, P!result, Parsing!NoCommand, P!NoCommand, Parsing!Leave,
         P!Leave, Parsing!Held, P!Held, Parsing!Block, P!Block
<1>12. Parsing!Parsed <=> P!Parsed
  <2>1. Parsing!Start = P!Start
    BY SameTokens DEF Parsing!Start, P!Start
  <2>2. (Parsing!Reads <=> P!Reads) /\ (Parsing!AtLabel <=> P!AtLabel)
    BY <2>1, SameTokens DEF Parsing!Reads, P!Reads, Parsing!AtLabel, P!AtLabel
  <2>3. Parsing!CommandAt(Parsing!Start) = P!CommandAt(P!Start)
    BY <2>1, SameCommands
  <2>4. \A c, p, l : Parsing!Add(c, p, l) <=> P!Add(c, p, l)
    BY SameTokens DEF Parsing!Add, P!Add
  <2>5. \A h : Parsing!Stay(NULL, h) <=> P!Stay(NULL, h)
    BY DEF Parsing!Stay, P!Stay
  <2>6. /\ Parsing!BlocksOf(Parsing!Start) = P!BlocksOf(P!Start)
        /\ Parsing!Held(pending) = P!Held(pending)
    BY <2>1, SameHeap
  <2>7. (Parsing!IsLine(Parsing!Start) <=> P!IsLine(P!Start))
        /\ Parsing!Line(Parsing!TokenAt(Parsing!Start).type) = P!Line(P!TokenAt(P!Start).type)
    BY <2>1, SameLines, SameTokens
  <2>8. QED BY <2>1, <2>2, <2>3, <2>4, <2>5, <2>6, <2>7 DEF Parsing!Parsed, P!Parsed
<1>13. QED
  BY <1>1, <1>2, <1>3, <1>4, <1>5, <1>6, <1>7, <1>8, <1>9, <1>10, <1>11, <1>12
     DEF Parsing!parse_commands, P!parse_commands

LEMMA SameParser ==
    /\ Parsing!Init <=> P!Init
    /\ Parsing!free_command <=> P!free_command
    /\ Parsing!TypeOK <=> P!TypeOK
    /\ Parsing!HandsOverProgram <=> P!HandsOverProgram
<1>1. Parsing!Init <=> P!Init
  BY DEF Parsing!Init, P!Init
<1>2. Parsing!free_command <=> P!free_command
  BY SameHeap DEF Parsing!free_command, P!free_command, Parsing!result, P!result
<1>3. Parsing!TypeOK <=> P!TypeOK
  <2>1. Parsing!Token = P!Token
    BY DEF Parsing!Token, P!Token, Parsing!Keywords, P!Keywords, Parsing!Conditions,
           P!Conditions, Parsing!Word, P!Word, Parsing!Byte, P!Byte, Parsing!Base, P!Base,
           Parsing!WordBits, P!WordBits
  <2>2. QED BY <2>1, SameTokens DEF Parsing!TypeOK, P!TypeOK
<1>4. Parsing!HandsOverProgram <=> P!HandsOverProgram
  BY DEF Parsing!HandsOverProgram, P!HandsOverProgram, Parsing!IsProgram, P!IsProgram,
         Parsing!Command, P!Command, Parsing!VarOp, P!VarOp, Parsing!ImmOp, P!ImmOp,
         Parsing!StrOp, P!StrOp, Parsing!LabelOp, P!LabelOp, Parsing!BaseOp, P!BaseOp,
         Parsing!Bases, P!Bases, Parsing!Conditions, P!Conditions, Parsing!VarIndex,
         P!VarIndex, Parsing!Word, P!Word, Parsing!Byte, P!Byte, Parsing!Base, P!Base,
         Parsing!WordBits, P!WordBits
<1>5. QED BY <1>1, <1>2, <1>3, <1>4

LEMMA SameInterpreter ==
    /\ Run!Step <=> I!Step
    /\ Run!CallNoMemory <=> I!CallNoMemory
    /\ Run!TypeOK <=> I!TypeOK
<1> USE DEF Run!flags, I!flags, Run!calls, I!calls, Run!vars, I!vars, Run!Nothing,
              I!Nothing, Run!cmd, I!cmd, Run!Executes, I!Executes, Run!NextOf, I!NextOf,
              Run!GoTo, I!GoTo, Run!Advance, I!Advance, Run!Fail, I!Fail, Run!Quiet,
              I!Quiet, Run!KeepFlags, I!KeepFlags, Run!KeepMemory, I!KeepMemory,
              Run!ValueOf, I!ValueOf, Run!SetDestination, I!SetDestination, Run!CMD_NOP,
              I!CMD_NOP, Run!Results, I!Results, Run!Computes, I!Computes, Run!CMD_MOV,
              I!CMD_MOV, Run!CMD_ADD_SUB, I!CMD_ADD_SUB, Run!CMD_BITWISE, I!CMD_BITWISE,
              Run!CMD_SHIFT, I!CMD_SHIFT, Run!SetFlags, I!SetFlags, Run!Compares,
              I!Compares, Run!CMD_CMP, I!CMD_CMP, Run!CMD_CMP_U, I!CMD_CMP_U,
              Run!TextLength, I!TextLength, Run!Text, I!Text, Run!CMD_PRINT, I!CMD_PRINT,
              Run!PutCount, I!PutCount, Run!CMD_PUT, I!CMD_PUT, Run!CMD_STORE, I!CMD_STORE,
              Run!LoadRefused, I!LoadRefused, Run!CMD_LOAD, I!CMD_LOAD, Run!Taken, I!Taken,
              Run!Target, I!Target, Run!CMD_BRANCH, I!CMD_BRANCH, Run!KeepData, I!KeepData,
              Run!CallNoMemory, I!CallNoMemory, Run!CallNoLabel, I!CallNoLabel, Run!Record,
              I!Record, Run!CallEnters, I!CallEnters, Run!CMD_CALL, I!CMD_CALL,
              Run!RetEnds, I!RetEnds, Run!RetPops, I!RetPops, Run!Step, I!Step, Run!Frame,
              I!Frame, Run!TypeOK, I!TypeOK, Run!FramesChained, I!FramesChained,
              Run!Location, I!Location,
              Run!Mem, I!Mem, Run!Accepts, I!Accepts, Run!Touched, I!Touched, Run!Inside,
              I!Inside, Run!Loaded, I!Loaded, Run!Stored, I!Stored, Run!VarIndex,
              I!VarIndex, Run!Conditions, I!Conditions, Run!Bases, I!Bases, Run!VarOp,
              I!VarOp, Run!ImmOp, I!ImmOp, Run!StrOp, I!StrOp, Run!LabelOp, I!LabelOp,
              Run!BaseOp, I!BaseOp, Run!Command, I!Command, Run!IsProgram, I!IsProgram,
              Run!WordBits, I!WordBits, Run!Base, I!Base, Run!Word, I!Word, Run!Byte,
              I!Byte, Run!Wrap, I!Wrap, Run!Signed, I!Signed, Run!Bit, I!Bit, Run!ByteOf,
              I!ByteOf, Run!BitIndex, I!BitIndex, Run!ByteIndex, I!ByteIndex, Run!And,
              I!And, Run!Orr, I!Orr, Run!Eor, I!Eor, Run!Count, I!Count, Run!Asr, I!Asr,
              Run!Lsr, I!Lsr, Run!Lsl, I!Lsl
<1>1. Run!Step <=> I!Step
  OBVIOUS
<1>2. Run!CallNoMemory <=> I!CallNoMemory
  OBVIOUS
<1>3. Run!TypeOK <=> I!TypeOK
  OBVIOUS
<1> HIDE DEF Run!flags, I!flags, Run!calls, I!calls, Run!vars, I!vars, Run!Nothing,
              I!Nothing, Run!cmd, I!cmd, Run!Executes, I!Executes, Run!NextOf, I!NextOf,
              Run!GoTo, I!GoTo, Run!Advance, I!Advance, Run!Fail, I!Fail, Run!Quiet,
              I!Quiet, Run!KeepFlags, I!KeepFlags, Run!KeepMemory, I!KeepMemory,
              Run!ValueOf, I!ValueOf, Run!SetDestination, I!SetDestination, Run!CMD_NOP,
              I!CMD_NOP, Run!Results, I!Results, Run!Computes, I!Computes, Run!CMD_MOV,
              I!CMD_MOV, Run!CMD_ADD_SUB, I!CMD_ADD_SUB, Run!CMD_BITWISE, I!CMD_BITWISE,
              Run!CMD_SHIFT, I!CMD_SHIFT, Run!SetFlags, I!SetFlags, Run!Compares,
              I!Compares, Run!CMD_CMP, I!CMD_CMP, Run!CMD_CMP_U, I!CMD_CMP_U,
              Run!TextLength, I!TextLength, Run!Text, I!Text, Run!CMD_PRINT, I!CMD_PRINT,
              Run!PutCount, I!PutCount, Run!CMD_PUT, I!CMD_PUT, Run!CMD_STORE, I!CMD_STORE,
              Run!LoadRefused, I!LoadRefused, Run!CMD_LOAD, I!CMD_LOAD, Run!Taken, I!Taken,
              Run!Target, I!Target, Run!CMD_BRANCH, I!CMD_BRANCH, Run!KeepData, I!KeepData,
              Run!CallNoMemory, I!CallNoMemory, Run!CallNoLabel, I!CallNoLabel, Run!Record,
              I!Record, Run!CallEnters, I!CallEnters, Run!CMD_CALL, I!CMD_CALL,
              Run!RetEnds, I!RetEnds, Run!RetPops, I!RetPops, Run!Step, I!Step, Run!Frame,
              I!Frame, Run!TypeOK, I!TypeOK, Run!FramesChained, I!FramesChained,
              Run!Location, I!Location,
              Run!Mem, I!Mem, Run!Accepts, I!Accepts, Run!Touched, I!Touched, Run!Inside,
              I!Inside, Run!Loaded, I!Loaded, Run!Stored, I!Stored, Run!VarIndex,
              I!VarIndex, Run!Conditions, I!Conditions, Run!Bases, I!Bases, Run!VarOp,
              I!VarOp, Run!ImmOp, I!ImmOp, Run!StrOp, I!StrOp, Run!LabelOp, I!LabelOp,
              Run!BaseOp, I!BaseOp, Run!Command, I!Command, Run!IsProgram, I!IsProgram,
              Run!WordBits, I!WordBits, Run!Base, I!Base, Run!Word, I!Word, Run!Byte,
              I!Byte, Run!Wrap, I!Wrap, Run!Signed, I!Signed, Run!Bit, I!Bit, Run!ByteOf,
              I!ByteOf, Run!BitIndex, I!BitIndex, Run!ByteIndex, I!ByteIndex, Run!And,
              I!And, Run!Orr, I!Orr, Run!Eor, I!Eor, Run!Count, I!Count, Run!Asr, I!Asr,
              Run!Lsr, I!Lsr, Run!Lsl, I!Lsl
<1>4. QED BY <1>1, <1>2, <1>3
-----------------------------------------------------------------------------
(* The parser in the pipeline.                                             *)

LEMMA ParserProved ==
    P!Spec => [](/\ P!TypeOK /\ P!HandsOverProgram
                 /\ P!ErrorsExact /\ P!HeapExact /\ P!LabelsMeanNext)
<1> USE SourcesAssumption, RegisterAssumption, BaseLetterAssumption, ParserNullAssumption,
        WordsAssumption, PowersAssumption, NumVariablesAssumption
    DEF P!Word, P!Base, P!Byte, P!WordBits, P!Token, P!Bases, P!VarIndex, P!Keywords,
        P!Conditions, Parsing!Word, Parsing!Base, Parsing!Byte, Parsing!WordBits,
        Parsing!Token, Parsing!Bases, Parsing!VarIndex, Parsing!Keywords,
        Parsing!Conditions, Word, Base, Byte, WordBits, Bases, VarIndex, Conditions
<1>1. P!Spec => []P!TypeOK
  BY P!TypeSafety, PTL
<1>2. P!Spec => []P!HandsOverProgram
  BY P!ProgramHandedOver, PTL
<1>3. P!Spec => []P!ErrorsExact
  BY P!ErrorsReported, PTL
<1>4. P!Spec => []P!HeapExact
  BY P!HeapAccounted, PTL
<1>5. P!Spec => []P!LabelsMeanNext
  BY P!LabelsExact, PTL
<1>6. QED BY <1>1, <1>2, <1>3, <1>4, <1>5, PTL

(* The parser and the pipeline's other steps, which leave it alone. *)
LEMMA ParserSteps ==
    ASSUME [Next]_vars
    PROVE  Parsing!parse_commands \/ Parsing!free_command \/ UNCHANGED parser
  BY DEF Next, vars, ht_init, parse_commands, ParserError, StartInterpret, interpret,
         Interpreted, free_command, ht_free, Crash, Stage

(* ci_run_source parses as Parser does. *)
THEOREM ParsesAsParser == Spec => Parsing!Spec
<1>1. Init => Parsing!Init
  BY DEF Init
<1>2. [Next]_vars => [Parsing!Next]_(Parsing!vars)
  <2> SUFFICES ASSUME [Next]_vars PROVE [Parsing!Next]_(Parsing!vars)
    OBVIOUS
  <2>1. CASE Parsing!parse_commands \/ Parsing!free_command
    BY <2>1 DEF Parsing!Next
  <2>2. CASE UNCHANGED parser
    BY <2>2 DEF parser, Parsing!vars, Parsing!result
  <2>3. QED BY <2>1, <2>2, ParserSteps
<1>3. QED BY <1>1, <1>2, PTL DEF Spec, Parsing!Spec

ParserOK == /\ Parsing!TypeOK /\ Parsing!HandsOverProgram
            /\ Parsing!ErrorsExact /\ Parsing!HeapExact /\ Parsing!LabelsMeanNext

(* What Parser's own runs and proofs show holds in the pipeline: the       *)
(* commands are a program, errors are exact, the heap is accounted for and *)
(* a label means the command behind it.                                    *)
THEOREM ParserHolds == Spec => []ParserOK
<1>1. Parsing!Spec => P!Spec
  <2>1. Parsing!Next <=> P!Next
    BY SameTurns, SameParser DEF Parsing!Next, P!Next
  <2>2. Parsing!vars = P!vars
    BY DEF Parsing!vars, P!vars, Parsing!result, P!result
  <2>3. Parsing!Init <=> P!Init
    BY SameParser
  <2>4. [Parsing!Next]_(Parsing!vars) => [P!Next]_(P!vars)
    <3>1. (UNCHANGED Parsing!vars) => UNCHANGED P!vars
      BY DEF Parsing!vars, P!vars, Parsing!result, P!result
    <3>2. QED BY <2>1, <3>1
  <2>5. QED BY <2>3, <2>4, PTL DEF Parsing!Spec, P!Spec
<1>2. P!TypeOK /\ P!HandsOverProgram /\ P!ErrorsExact /\ P!HeapExact /\ P!LabelsMeanNext
      => ParserOK
  BY SameParser, SameHeap, SameGrammar, SameLabels DEF ParserOK
<1>3. QED BY <1>1, <1>2, ParsesAsParser, ParserProved, PTL
-----------------------------------------------------------------------------
(* The interpreter in the pipeline.                                        *)

(* Before it runs: the values of interpreter_init. *)
Rests == /\ running = FALSE /\ failed = FALSE /\ stray = FALSE
         /\ variables = [r \in VarIndex |-> 0]
         /\ is_greater = FALSE /\ is_less = FALSE /\ is_equal = FALSE
         /\ mem = [x \in Run!Location |-> 0]
         /\ frames = [a \in FrameAddr |-> Freed] /\ stack = NULL /\ chain = <<>>

LEMMA RunKeeps ==
    ASSUME I!IInv, I!OnlyChain, Run!Step
    PROVE  I!IInv' /\ I!OnlyChain'
<1>1. I!Step
  BY SameInterpreter
<1> USE MemAssumption, FramesAssumption, FreedAssumption,
        WordsAssumption, PowersAssumption, NumVariablesAssumption
    DEF I!Word, I!Base, I!WordBits, I!VarIndex, Word, Base, WordBits, VarIndex
<1>2. I!IInv'
  BY <1>1, I!NextIInv DEF I!Next
<1>3. I!ControlOK /\ I!DataOK /\ I!Linked
  BY DEF I!IInv
<1>4. I!OnlyChain'
  BY <1>1, <1>3, I!StepKeepsOnlyChain
<1>5. QED BY <1>2, <1>4

LEMMA RunStarts ==
    ASSUME Parsing!HandsOverProgram, Rests, StartInterpret
    PROVE  I!IInv' /\ I!OnlyChain'
<1>1. /\ pc' = Start /\ running' = (Start # 0)
      /\ UNCHANGED <<commands, labels, variables, is_greater, is_less, is_equal, mem, frames,
                     stack, chain, failed, stray>>
  BY DEF StartInterpret, parser
<1>2. I!IsProgram([commands |-> commands, labels |-> labels])
  BY DEF Parsing!HandsOverProgram, Parsing!IsProgram, I!IsProgram, Parsing!Command, I!Command,
         Parsing!VarOp, I!VarOp, Parsing!ImmOp, I!ImmOp, Parsing!StrOp, I!StrOp,
         Parsing!LabelOp, I!LabelOp, Parsing!BaseOp, I!BaseOp, Parsing!Bases, I!Bases,
         Parsing!Conditions, I!Conditions, Parsing!VarIndex, I!VarIndex,
         Parsing!Word, I!Word, Parsing!Byte, I!Byte, Parsing!Base, I!Base,
         Parsing!WordBits, I!WordBits
<1>3. commands \in Seq(I!Command) /\ Len(commands) \in Nat
  BY <1>2 DEF I!IsProgram
<1>4. Start \in 0 .. Len(commands) /\ Start \in Nat
  BY <1>3 DEF Start
<1>5. I!ControlOK'
  BY <1>1, <1>2, <1>4 DEF I!ControlOK, Rests, I!IsProgram
<1>6. 0 \in I!Word /\ 0 \in I!Byte
  <2>1. I!Base \in Nat \ {0} /\ 2 ^ ByteBits \in Nat \ {0}
    BY I!BaseIsPositive, MemAssumption, FramesAssumption, FreedAssumption,
       WordsAssumption, PowersAssumption, NumVariablesAssumption
       DEF I!Word, I!Base, I!WordBits, I!VarIndex, Word, Base, WordBits, VarIndex
  <2>2. QED BY <2>1 DEF I!Word, I!Byte
<1>7. I!DataOK' /\ I!FlagsExclusive'
  <2>1. variables' \in [I!VarIndex -> I!Word]
    BY <1>1, <1>6 DEF Rests, VarIndex, I!VarIndex
  <2>2. mem' \in I!Mem
    BY <1>1, <1>6 DEF Rests, I!Mem, I!Location, Run!Location
  <2>3. QED BY <1>1, <2>1, <2>2 DEF Rests, I!DataOK, I!FlagsExclusive
<1>8. I!Linked' /\ I!OnlyChain'
  <2>1. I!CallsOK'
    BY <1>1 DEF Rests, I!CallsOK
  <2>2. I!FramesChained' /\ I!OnlyChain'
    BY <1>1 DEF Rests, I!FramesChained, I!OnlyChain
  <2>3. QED BY <2>1, <2>2 DEF I!Linked
<1>9. QED BY <1>5, <1>7, <1>8 DEF I!IInv
-----------------------------------------------------------------------------
(* The stages of ci_run_source.                                            *)

(* How far the parser and the interpreter are at a stage. *)
StagesOK ==
    /\ stage \in {"ht_init", "parse_commands", "interpret", "free_command", "ht_free",
                  "returned", "crashed"}
    /\ stage \in {"ht_init", "parse_commands"} => Rests
    /\ stage \in {"interpret", "free_command"} => phase = "parsed"
    /\ stage \in {"ht_free", "returned"} => phase = "released"
    /\ stage = "interpret" => ~had_error /\ I!IInv
    /\ I!OnlyChain

(* What ci_run_source returns, and when it does not. *)
AnswerOK ==
    /\ table \in BOOLEAN /\ answer \in {-1, 0}
    /\ stage \in {"free_command", "ht_free", "returned"} =>
           answer = IF had_error \/ failed THEN -1 ELSE 0
    /\ stage = "returned" => table
    /\ stage = "crashed" => ~table \/ double_free

SInv == StagesOK /\ AnswerOK

LEMMA InterpreterKept ==
    ASSUME UNCHANGED interpreter, UNCHANGED <<commands, labels>>
    PROVE  /\ Rests' <=> Rests
           /\ I!IInv' <=> I!IInv
           /\ I!OnlyChain' <=> I!OnlyChain
  BY DEF interpreter, Rests, I!IInv, I!ControlOK, I!DataOK, I!FlagsExclusive, I!Linked,
         I!CallsOK, I!FramesChained, I!OnlyChain, I!Frame, I!NextOf

LEMMA RestsKept ==
    ASSUME UNCHANGED interpreter
    PROVE  /\ Rests' <=> Rests
           /\ I!OnlyChain' <=> I!OnlyChain
  BY DEF interpreter, Rests, I!OnlyChain

LEMMA ParsingStage ==
    ASSUME SInv, ht_init \/ parse_commands \/ ParserError
    PROVE  SInv'
<1>1. UNCHANGED interpreter /\ Rests
  BY DEF ht_init, parse_commands, ParserError, Stage, SInv, StagesOK
<1>2. Rests' /\ I!OnlyChain'
  BY <1>1, RestsKept DEF SInv, StagesOK
<1>3. CASE ht_init
  BY <1>2, <1>3 DEF ht_init, Stage, SInv, StagesOK, AnswerOK
<1>4. CASE parse_commands
  BY <1>2, <1>4 DEF parse_commands, SInv, StagesOK, AnswerOK
<1>5. CASE ParserError
  <2>1. /\ stage' = "free_command" /\ phase' = "parsed" /\ had_error' /\ answer' = -1
        /\ table' = table
    BY <1>5 DEF ParserError, Stage, parser
  <2>2. QED BY <1>2, <2>1 DEF SInv, StagesOK, AnswerOK
<1>6. QED BY <1>3, <1>4, <1>5

LEMMA InterpretStage ==
    ASSUME SInv, ParserOK, StartInterpret \/ interpret \/ Interpreted
    PROVE  SInv'
<1>1. CASE StartInterpret
  <2>1. I!IInv' /\ I!OnlyChain'
    BY <1>1, RunStarts DEF SInv, StagesOK, ParserOK, StartInterpret, Stage
  <2>2. /\ stage' = "interpret" /\ phase' = "parsed" /\ ~had_error'
        /\ UNCHANGED <<table, answer>>
    BY <1>1 DEF StartInterpret, Stage, parser
  <2>3. QED BY <2>1, <2>2 DEF SInv, StagesOK, AnswerOK
<1>2. CASE interpret
  <2>1. Run!Step /\ stage = "interpret" /\ UNCHANGED <<parser, stage, table, answer>>
    BY <1>2 DEF interpret, Run!Step, Run!CMD_CALL
  <2>2. I!IInv' /\ I!OnlyChain'
    BY <2>1, RunKeeps DEF SInv, StagesOK
  <2>3. QED BY <2>1, <2>2 DEF SInv, StagesOK, AnswerOK, parser
<1>3. CASE Interpreted
  <2>1. /\ stage = "interpret" /\ stage' = "free_command"
        /\ answer' = IF failed THEN -1 ELSE 0
        /\ UNCHANGED <<phase, had_error, failed, table>> /\ UNCHANGED interpreter
    BY <1>3 DEF Interpreted, Stage, parser, interpreter
  <2>2. I!OnlyChain'
    BY <2>1, RestsKept DEF SInv, StagesOK
  <2>3. QED BY <2>1, <2>2 DEF SInv, StagesOK, AnswerOK
<1>4. QED BY <1>1, <1>2, <1>3

LEMMA LastStages ==
    ASSUME SInv, free_command \/ ht_free \/ Crash
    PROVE  SInv'
<1>1. UNCHANGED interpreter /\ UNCHANGED <<table, answer>>
  BY DEF free_command, ht_free, Crash
<1>2. I!OnlyChain' /\ failed' = failed
  BY <1>1, RestsKept DEF SInv, StagesOK, interpreter
<1>3. CASE free_command
  <2>1. /\ stage = "free_command" /\ stage' = "ht_free" /\ phase' = "released"
        /\ had_error' = had_error
    BY <1>3 DEF free_command, Stage, Parsing!free_command
  <2>2. QED BY <1>1, <1>2, <2>1 DEF SInv, StagesOK, AnswerOK
<1>4. CASE ht_free
  <2>1. stage = "ht_free" /\ stage' = "returned" /\ table /\ UNCHANGED <<phase, had_error>>
    BY <1>4 DEF ht_free, Stage, parser
  <2>2. QED BY <1>1, <1>2, <2>1 DEF SInv, StagesOK, AnswerOK
<1>5. CASE Crash
  <2>1. stage' = "crashed" /\ (~table \/ double_free) /\ double_free' = double_free
    BY <1>5 DEF Crash, parser
  <2>2. QED BY <1>1, <1>2, <2>1 DEF SInv, StagesOK, AnswerOK
<1>6. QED BY <1>3, <1>4, <1>5

(* The inductive invariant of ci_run_source, with what Parser keeps. *)
THEOREM Invariance == Spec => [](SInv /\ ParserOK)
<1>1. Init => SInv
  <2> SUFFICES ASSUME Init PROVE SInv
    OBVIOUS
  <2>1. Rests /\ stage = "ht_init" /\ table = FALSE /\ answer = 0
    BY DEF Init, Rests
  <2>2. I!OnlyChain
    BY <2>1 DEF Rests, I!OnlyChain
  <2>3. QED BY <2>1, <2>2 DEF SInv, StagesOK, AnswerOK
<1>2. ParserOK /\ SInv /\ [Next]_vars => SInv'
  <2> SUFFICES ASSUME ParserOK, SInv, [Next]_vars PROVE SInv'
    OBVIOUS
  <2>1. CASE UNCHANGED vars
    <3>1. UNCHANGED interpreter /\ UNCHANGED parser /\ UNCHANGED <<stage, table, answer>>
      BY <2>1 DEF vars
    <3>2. UNCHANGED <<commands, labels, phase, had_error, double_free>> /\ UNCHANGED failed
      BY <3>1 DEF parser, interpreter
    <3>3. QED BY <3>1, <3>2, InterpreterKept DEF SInv, StagesOK, AnswerOK
  <2>2. QED BY <2>1, ParsingStage, InterpretStage, LastStages DEF Next
<1>3. QED BY <1>1, <1>2, ParserHolds, PTL DEF Spec

(* The variables of the parser, of the interpreter while it runs, and of   *)
(* ci_run_source have their types.                                         *)
THEOREM TypeSafety == Spec => []TypeOK
<1>1. SInv /\ ParserOK => TypeOK
  <2>1. I!IInv => Run!TypeOK
    BY SameInterpreter DEF I!IInv, I!ControlOK, I!DataOK, I!Linked, I!CallsOK, I!TypeOK
  <2>2. QED BY <2>1 DEF SInv, StagesOK, AnswerOK, ParserOK, TypeOK
<1>2. QED BY <1>1, Invariance, PTL

(* RunsWhatWasParsed: interpret runs only what was accepted, and nothing   *)
(* of it is freed before interpret has returned.                           *)
THEOREM AcceptedRuns == Spec => []RunsWhatWasParsed
<1>1. SInv /\ ParserOK => RunsWhatWasParsed
  BY DEF SInv, StagesOK, ParserOK, RunsWhatWasParsed, Parsing!ErrorsExact, Parsing!HeapExact
<1>2. QED BY <1>1, Invariance, PTL

(* FreedAtReturn: what is allocated when ci_run_source returns is what the *)
(* parser loses and the records of calls that were not returned from.      *)
THEOREM NothingElseKept == Spec => []FreedAtReturn
<1>1. SInv /\ ParserOK => FreedAtReturn
  BY DEF SInv, StagesOK, ParserOK, FreedAtReturn, Parsing!HeapExact, I!OnlyChain
<1>2. QED BY <1>1, Invariance, PTL

(* AnswerExact: 0 is returned for the legal programs that ran without an   *)
(* error, and for no other.                                                *)
THEOREM AnswersRight == Spec => []AnswerExact
<1>1. SInv /\ ParserOK => AnswerExact
  BY DEF SInv, StagesOK, AnswerOK, ParserOK, AnswerExact, Parsing!ErrorsExact
<1>2. QED BY <1>1, Invariance, PTL

(* A turn that jumps leaves the program counter where the label says. *)
LEMMA JumpsToLabel ==
    ASSUME I!IInv, interpret, Jumps
    PROVE  /\ Run!cmd.val_a.str \in Label
           /\ pc' = labels[Run!cmd.val_a.str] /\ pc' # 0
<1>1. Run!Step /\ running /\ Run!cmd.type \in {"BRANCH", "CALL"} /\ ~failed'
  BY DEF interpret, Jumps, Run!CallNoMemory, Run!Fail
<1>2. Run!Target # 0 /\ Run!GoTo(Run!Target)
  <2>1. Run!CMD_BRANCH \/ Run!CMD_CALL
    BY <1>1 DEF Run!Step, Run!Executes, Run!CMD_NOP, Run!CMD_MOV, Run!CMD_ADD_SUB,
       Run!CMD_BITWISE, Run!CMD_SHIFT, Run!Computes, Run!CMD_CMP, Run!CMD_CMP_U, Run!Compares,
       Run!CMD_PRINT, Run!CMD_PUT, Run!CMD_STORE, Run!CMD_LOAD, Run!LoadRefused,
       Run!RetEnds, Run!RetPops
  <2>2. CASE Run!CMD_BRANCH
    <3>1. Run!cmd.type = "BRANCH" /\ Run!Taken(Run!cmd.branch_condition)
      BY <2>2 DEF Run!CMD_BRANCH, Run!Executes, Jumps
    <3>2. QED BY <1>1, <2>2, <3>1 DEF Run!CMD_BRANCH, Run!Fail
  <2>3. CASE Run!CMD_CALL
    BY <1>1, <2>3 DEF Run!CMD_CALL, Run!CallNoMemory, Run!CallNoLabel, Run!CallEnters, Run!Fail
  <2>4. QED BY <2>1, <2>2, <2>3
<1>3. Run!Target = labels[Run!cmd.val_a.str] /\ pc' = Run!Target
  BY <1>2 DEF Run!Target, Run!GoTo
<1>4. Run!cmd.val_a.str \in Label
  <2>1. Run!cmd = I!cmd
    BY DEF Run!cmd, I!cmd
  <2>2. I!cmd \in I!Command
    BY <1>1, I!CommandAtCurrent, MemAssumption, FramesAssumption, FreedAssumption,
       WordsAssumption, PowersAssumption, NumVariablesAssumption
       DEF I!IInv, I!Word, I!Base, I!WordBits, I!VarIndex, Word, Base, WordBits, VarIndex
  <2>3. QED BY <1>1, <2>1, <2>2 DEF I!Command, I!StrOp, I!LabelOp
<1>5. QED BY <1>2, <1>3, <1>4

(* The last definition that a command follows is the one LabelsMeanNext    *)
(* speaks of.                                                              *)
LEMMA LastDefinitionIs ==
    ASSUME Parsing!TypeOK, NEW name, NEW q \in Parsing!Definitions(name),
           Parsing!Followed(q),
           \A r \in Parsing!Definitions(name) : r > q => ~Parsing!Followed(r)
    PROVE  LastDefinition(name) = q
<1> DEFINE Last(c) == /\ Parsing!Followed(c)
                      /\ \A r \in Parsing!Definitions(name) : Parsing!Followed(r) => r <= c
<1>1. Parsing!Definitions(name) \subseteq Nat
  BY DEF Parsing!Definitions, Parsing!Positions
<1>2. Last(q)
  BY <1>1
<1>3. \A c \in Parsing!Definitions(name) : Last(c) => c = q
  BY <1>1
<1>4. LastDefinition(name) = CHOOSE c \in Parsing!Definitions(name) : Last(c)
  BY DEF LastDefinition
<1> HIDE DEF Last
<1>5. QED BY <1>2, <1>3, <1>4

(* JumpsFollowLabels: whatever allocation failed, a branch that is taken   *)
(* and a call lead to the command behind the last definition of the name.  *)
THEOREM JumpsFollow == Spec => JumpsFollowLabels
<1>1. SInv /\ ParserOK /\ [Next]_vars =>
          [ Jumps => LET q == LastDefinition(Run!cmd.val_a.str)
                     IN  /\ pc' \in DOMAIN origin /\ origin[pc'] > q
                         /\ \A i \in 1 .. pc' - 1 : origin[i] < q ]_vars
  <2> SUFFICES ASSUME SInv, ParserOK, Next, Jumps
               PROVE  LET q == LastDefinition(Run!cmd.val_a.str)
                      IN  /\ pc' \in DOMAIN origin /\ origin[pc'] > q
                          /\ \A i \in 1 .. pc' - 1 : origin[i] < q
    OBVIOUS
  <2> DEFINE name == Run!cmd.val_a.str
  <2>1. interpret /\ I!IInv
    BY DEF Next, Jumps, Stage, ht_init, parse_commands, ParserError, StartInterpret,
           interpret, Interpreted, free_command, ht_free, Crash, SInv, StagesOK, Rests
  <2>2. name \in Label /\ pc' = labels[name] /\ pc' # 0
    BY <2>1, JumpsToLabel
  <2> HIDE DEF name
  <2>3. PICK q \in Parsing!Definitions(name) :
            /\ pc' \in DOMAIN origin /\ origin[pc'] > q
            /\ \A i \in 1 .. pc' - 1 : origin[i] < q
            /\ \A r \in Parsing!Definitions(name) : r > q => ~Parsing!Followed(r)
    BY <2>2 DEF ParserOK, Parsing!LabelsMeanNext
  <2>4. Parsing!Followed(q)
    BY <2>3 DEF Parsing!Followed
  <2>5. LastDefinition(name) = q
    BY <2>3, <2>4, LastDefinitionIs DEF ParserOK
  <2>6. QED BY <2>3, <2>5 DEF name
<1>2. QED BY <1>1, Invariance, PTL DEF Spec, JumpsFollowLabels
=============================================================================
