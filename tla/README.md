# TLA+ models of the ASML interpreter

`src/` is an interpreter for ASML, a small assembly language: a lexer, a parser
that builds a list of commands and a table of labels, and an interpreter that
walks the list over 32 variables, three flags, 1 KB of memory and a heap of call
records. A generic hash table with a test driver of its own holds the labels. It
is sequential C. What makes it hard is manual memory on every error path,
C integers, and control flow that follows pointers which the parser, the label
table and the call records hand on to each other.

Paths below are relative to `src/` (so `src/ci/parser.c` is
`src/src/ci/parser.c` from the root of the working tree).

## The system

| Part | State | Operations | Uses |
|---|---|---|---|
| hash table, `src/hashtable/hashtable.c` | `size`, `capacity`, chains of entries, `free_value` | `ht_init`, `ht_put`, `ht_get`, `ht_delete`, `ht_size`, `ht_free` | `malloc`, the callback `free_value` |
| trace driver, `src/hashtable/ht_trace_test.c` | `g_ht`, tagged values on the heap, pass/fail counts | `init`, `put`, `get`, `del`, `size`, `free`, end of file | hash table; its `free_value` is `tagged_value_free` |
| lexer, `src/ci/lexer.c` | start and current position, line, column | `lexer_next_token` | — |
| parser, `src/ci/parser.c` | `current`, `next`, `had_error`, the list, `pending_label` | `parse_commands`, `parse_cmd` | lexer, `ht_put` |
| commands, `src/ci/command.c` | the list with its operands' strings | `free_command`, printing | — |
| interpreter, `src/ci/interpreter.c` | variables, flags, `stack` of call records, `had_error` | `interpret`: 19 command types | the list, `ht_get`, memory |
| memory, `src/ci/mem.c` | the static array `mem` | `mem_load`, `mem_store`, printing | — |
| pipeline, `src/ci/init.c` | locals of `ci_run_source` | parse, run, free | all of the above |
| command line and REPL, `src/ci/ci.c` | the REPL's buffer | `run_repl`, `read_file` | pipeline, argparse |
| argparse, tokens, test programs, `ci_reference` | | option parsing, printing, inputs | |

What each must guarantee:

- *hash table*: it is a map, whatever collides; `size` counts its entries; a
  failed allocation leaves no trace.
- *trace driver*: every tagged value has one owner; nothing is leaked or freed
  twice, whichever allocation fails.
- *lexer*: the tokens cover the text, are the longest there are, carry their line
  and column, and mean the numbers they spell; it stays inside its text.
- *parser*: whatever the tokens, it ends, and hands over commands whose operands
  have the kinds `interpret` reads without asking, labels that point into the
  list, and `had_error` for illegal sources only; its allocations are freed, and
  those that fail are reported.
- *interpreter*: ASML's semantics; call records are exactly the pending calls;
  a failing command has no effect; the memory checks keep accesses in the array.

- *pipeline*: only what was accepted is run; a jump arrives where the source's
  label says; what the parser and the interpreter allocated is freed behind both,
  on every way out; the answer is 0 exactly for clean programs.
- *command line*: the REPL's buffer holds what was typed; the source is what was
  read, up to its NUL; each block has one owner, and names, buffer and file are given
  back on every way out.

Behaviours that are hard to test: every allocation's failure with what is
allocated at that moment; unlinking in chains; sequences of labels, newlines,
errors and ends of file; nested calls and returns with branches between;
addresses near 2^64; operands at the edges of 64 bits; texts that end within a
token; a table that has no buckets. `PROJECT.json` lists them
with their lines and the properties that cover them.

## Modules

| Module | Models | Remarks |
|---|---|---|
| `HashTable` | `hashtable.c` | operators on a table value: buckets as a function to sequences of entries |
| `MapSpec` | the promise of `hashtable.h` as the driver sees it | abstract specification |
| `TraceDriver` | `ht_trace_test.c` with the table | one action per command; heap of values, counts of entries and keys |
| `Words` | `int64_t`, `uint64_t` | words of `WordBytes` bytes of `ByteBits` bits |
| `Memory` | `mem.c` | `size_t` arithmetic wraps |
| `Commands` | `command.h`, `command_type.h` | the set of commands, and what a program is |
| `Interpreter` | `interpreter.c` | one action per command; call records at addresses |
| `Asml` | ASML as a machine on signed integers, with a stack | abstract specification |
| `Parser` | `parser.c`, `command.c`'s `free_command` | one action per turn of `parse_commands` |
| `Numbers` | `parse_number`, `parse_ident`, `strtoll` | functions on places in a text |
| `Lexer` | `lexer.c`, `token.c`'s `token_init` | one action per kind of token |
| `Pipeline` | `init.c` | composes `Parser` and `Interpreter` by `INSTANCE` |
| `CommandLine` | `ci.c` | a heap of blocks with sizes; texts are lengths |
| `TraceDriverProofs`, `InterpreterProofs`, `AsmlProofs`, `ParserProofs`, `GrammarProofs`, `PipelineProofs`, `CommandLineProofs`, `LexerProofs` | | theorems and proofs |
| `MCTraceDriver`, `MCInterpreter`, `MCParser`, `MCLexer`, `MCPipeline` | | instances for TLC |

`TraceDriver` and `HashTable` meet as the driver calls the table. `Parser` and
`Interpreter` meet in `Commands`: `Parser`'s invariant `HandsOverProgram` is
`IsProgram` of its list and labels, which is what `Interpreter` assumes of every
program in `Programs`; and they meet in `Pipeline`, which runs one behind the other
on the same list and the same table. `Lexer` meets `Parser` in the tokens: what
`Parser` takes as data of a token, its number or its variable, is what `Numbers`
makes of the lexeme, and `NumbersExact` and `RegistersExact` say what that is for
each type of token. `CommandLine` takes from `Pipeline` that `ci_run_source`
returns 0 or -1. The abstract modules `MapSpec` and `Asml` translate no
code and are not in `PROJECT.json`'s map: they say what the code should amount to.

### Correspondence

*Hash table.* `ht.buckets[b]` is the chain of bucket `b`, head first. `Hash` is a
constant function from keys to numbers: nothing depends on the djb2 value, only
on which keys collide. `ht_put`'s two branches are `Replaced` and `Inserted`;
its two `malloc`s are `NewEntryOutcomes`, which says what stays allocated.

*Trace driver.* A line of the trace is an action. `verdict` is what the line
prints: pass, mismatch, refused (wrong usage) or out of memory. `heap` gives each
address its content or `Freed`; `blocks` counts entry structs and key strings.
The pass/fail counters and messages are left out, and so is tokenizing, with its
limits on the length of a line and the number of words.

*Interpreter.* The list is a sequence, `Command*` a position, 0 for `NULL`.
The loop's test and `current = current->next` are part of every action. `frames`
is the heap of `StackRecord`s, `stack` is `intr->stack`, `chain` a ghost that
lists the pending calls' records. `printed` is what a command prints: its base and
values, not the digits. `stray` is a ghost: an accepted access touched a byte
outside `mem`; reading there yields any byte, writing there is lost. A `malloc`
may fail at any call.

*Parser.* A token is its type and what the parser asks of it: a name, a text,
the number that `parse_number` makes of its lexeme. The two-token window is the
position `current`. An action is one turn of the loop of `parse_commands`: it
skips newlines, then reads a label or a command. `parse_cmd`'s cases are each a
sequence of tests, each of which returns through `fail_cmd`; `Line` gives the
sequence, `Filled` how far a line fits. The heap is the set of blocks allocated
and not freed, named by the token they were made for; `Leave` is the code behind
the loop. `labels` is the label table as a map, which `TraceDriverProofs` shows
the hash table to be; `ht_put` for a new name may fail, and the answer is ignored
as in the code.

*Lexer.* Characters are one-letter strings, `memory` is the text, its NUL, and what
is behind it; beyond that every character is a NUL. `Give` is a call of
`lexer_next_token` and what the caller does: the parser takes the token,
`print_lexed_tokens` prints it and stops at an error or at the end, after which
`init.c` initializes the lexer again. A token keeps the place of its lexeme, as
the code does, so `Numbers` reads the text from there and, like `strtoll`, on
behind it. `spans` is a ghost: where a token's characters are, quotes included.

*Pipeline.* `stage` is the place in `ci_run_source`. `table` says whether `ht_init`
had memory. Without it, the turns of parser and interpreter that would call
`ht_put` or `ht_get` become a crash, and so does `ht_free`; turns that return
before the call, because memory ran out, remain. A double free may crash, or not.
`mem`, the variables and the flags start as zero.

*Command line.* `heap` gives each block its size, 0 when it is not allocated; the
pointers `conf.in_filename`, `conf.out_filename` and `src` name blocks. `src` stands
for the local that has the source at the time: `buffer` in `run_repl` and `read_file`,
`src` in `run_interpreter`. Every `malloc`, `realloc`, `free` and `config_free` is made
where the code makes it, so a way out that misses one leaves its block in `heap`;
`realloc` may move the block. Of a text its length is modelled, and where its first NUL
was written (`nul`): by `calloc` behind what `fread` read, by `strcpy` behind a line,
and nowhere as long as nothing is written to what `malloc` gave. Whether a line ends
in a semicolon is any choice. The state `undefined` is where `strcpy` would run over
the buffer, or `fread` over the one byte that `calloc` made for a file whose size
`ftell` does not know: nothing is said of what follows. `left`, `longest`, `typed` and
`seekable` are ghosts.

Undefined behaviour: a shift by 64 or more is taken modulo the word's width and
signed overflow wraps, as the `-O3` build for x86-64 does when the count and the
operands are not compile-time constants (they never are: they come from the
program text).

## Runs

| Run | Module, config | Shows |
|---|---|---|
| `trace_driver` | `MCTraceDriver` | `TypeOK`, `WellFormed`, `Owned`, `BlocksExact`; `RefinesMap` |
| `interp` | `MCInterpreter` | `TypeOK`, `FramesChained`; `FailsClean`, `StraysByWrapping`, `RefinesAsml`, `ForwardEnds` |
| `parser` | `MCParser` | `TypeOK`, `HandsOverProgram`, `ErrorsExact`, `NothingSkipped`, `LabelsMeanNext`, `HeapExact`, `FailuresReported`; `Ends` |
| `lexer` | `MCLexer` | `TypeOK`, `TokensCover`, `LongestMatch`, `PlacesExact`, `InsideUnlessOpen`, `NumbersExact`, `RegistersExact`; `Ends` |
| `command_line` | `CommandLine` | `TypeOK`, `Fits`, `SourceWhole`, `Owned`, `Released`; `Exits` |
| `pipeline` | `MCPipeline` | `TypeOK`, `RunsWhatWasParsed`, `FreedAtReturn`, `AnswerExact`; `JumpsFollowLabels`, `Finishes` |
| `interp_wrap` | `MCInterpreter`, `MCWrapping` | violation of `AccessesInside` |
| `interp_leak` | `MCInterpreter`, `MCRecordLeak` | violation of `NoRecordLeft` |
| `parser_doublefree` | `MCParser`, `MCDoubleFree` | violation of `NothingFreedTwice` |
| `lexer_open` | `MCLexer`, `MCLexerOpen` | violation of `StaysInside` |
| `lexer_places` | `MCLexer`, `MCLexerPlaces` | violation of `PlaceOfLexeme` |
| `pipeline_notable` | `MCPipeline`, `MCNoTable` | violation of `StopsOnlyIfFreedTwice` |

### Bounds, and why they are enough

*`trace_driver`*: 3 keys in 2 buckets, two of which collide, 4 addresses, the
contents null, int and string, sizes 0 to 3. Traces have any length. Two entries
in one bucket make every case of unlinking with a neighbour; four addresses leave
one free with a full table, so a put on a full table still happens, and replaced
and compared values too. Longer chains are covered by the proofs.

*`interp`*: bytes of 2 bits, words of 2 bytes, memory of 4 bytes, valid sizes 1
and 2, 3 variables, 2 call records. A word has 16 values, twice the memory, so
signs, carries, byte order, and addresses inside, at, behind the end and negative
all occur. Programs: every ALU command on all first operands and six edge values;
comparisons of edge values with every condition; stores and loads of sizes 0 to 3
around the ends of memory; strings that fit, just fit and run over; all programs
of four commands from nine that call, return, branch, compare and update, with the
label anywhere or nowhere; a recursion that does or does not exhaust the records.
One load, store or put is made at each of the 16 addresses, with every size from 0 to
3, or a string of up to five characters, which is longer than memory: every sum
`offset + bytes` that wraps and every one that just does not. `RefinesAsml` says nothing
of a program from the step on that leaves memory; `StraysByWrapping` says which do, and
`interp_wrap` shows that they do.

*`interp_leak`*: all programs of four commands from seven that
determine how programs end.

*`parser`*: all token sequences up to length 6 over nop, newline, two names and
colon, and over a branch, newline, a name, colon and ret; and every kind of line,
with every operand kind, cut at every token, with every token replaced by each of
the wrong ones, and with a token appended, alone and between two labels. Six
tokens hold two labels with a command between, or newlines between, or a label
at the end of the file with or without a newline. Every allocation may fail.

*`lexer`*: all texts up to length 5 over the characters 0, 1, 8, b, x and X; up to 6
over quote, newline, blank, b and slash; up to 4 over letters, the dot, a digit
and a tab, with `b` and `b.eq` as keywords; up to 3 over the signs, and one that is
none. Five characters hold a prefix with digits of its base and one that is not,
or a register's x, a leading zero and more; six hold a string with a newline in
it, and a token on its line and on the next. `INT64_MAX` is 20 and the last
register 10, so that both are reached. Behind the NUL there is nothing, or a quote
and a digit that make tokens of their own.

*`command_line`*: a buffer of 4, an array of 11 for `fgets`, lines up to 15, and an
end of input once 40 were read. So a line may fit, double the buffer, overflow the
doubled buffer, or be cut; and the buffer doubles four times. Files have up to 3 bytes,
of which any number may be read. Three blocks are two names and a source, or a source
and two places that `realloc` may choose from.

*`pipeline`*: sources of up to four pieces from nine (a label before a command or on
its own line, branches, a call, a return, a comparison, a load outside memory, a
put that is refused behind its string), with another command or a label, or
nothing, behind the last. Memory, words and call records as small as in `interp`.
Four pieces hold a definition, a redefinition, and a jump before, between or
behind them, a recursion that exhausts the records, and an error behind any of
these. Every allocation of the parser, of the call records, and the table's own
may fail.

Deadlock is not checked where the system stops: a trace ends, a source is parsed
once. `Interpreter` has an explicit stuttering step when `interpret` has returned.

### Fairness

`FairSpec` of `Interpreter`, `Parser`, `Lexer` and `Pipeline` is weak fairness of the
one loop: the code is single-threaded, its loops block on nothing, so as long as a
turn is possible it is taken. `CommandLine`'s is the same; `main` does wait for the
user, of whom it is assumed that the input comes to an end (`MaxInput`). No choice within a turn is assumed fair: allocations may
always or never fail.

## Findings

1. `mem.c:27` and `:36`: `offset + bytes` wraps, so accesses at negative addresses
   close to zero are accepted and run outside `mem` (`interp_wrap`).
2. `interpreter.c:333`: a program that ends inside a call leaks its call records
   (`interp_leak`: `call f`, `f: nop`).
3. `parser.c:721`, `:783`: two labels without a command between them free the
   first one twice (`parser_doublefree`: `f: g:`).
4. `lexer.c:397`: the closing quote is skipped even where the NUL is, so behind a
   string that nothing closes the lexer reads on behind its text (`lexer_open`: a
   single quote).
5. `lexer.c:388`: the column is set to 1 before the newline of a string is advanced
   over, and the string's own line and column are computed from where it ends
   (`lexer_places`: a quote and a newline).
6. `init.c:24`: a table for which there is no memory is used all the same
   (`pipeline_notable`): every source then ends in a crash.

Other disagreements between the code and what is written of it are exceptions that a
passing property states, so that its run shows them, and how far they go:

- `parser.c:514`: a put refused behind its string loses the string (`Lost` of
  `HeapExact`).
- `parser.c:768`: a label for whose entry there is no memory is dropped without an
  error, against `parser.h:40` (`FailuresReported`, `LabelsMeanNext`).
- `README.md:12` says labels are resolved at parse time; they are looked up when a
  branch is taken, and an undefined one is not noticed before (`ErrorsExact` asks
  nothing of the label of a branch; `FailsClean` has the failing call).
- `README.md:11` writes the prefixes `0X` and `0B`; the lexer knows `0x` and `0b` only,
  and a `0X1` is a number and a name, which the parser refuses (`LongestMatch`,
  `NumbersExact`).
- `lexer.c:388`, finding 5: `PlacesExact` says which places strings and the tokens
  behind them do have.
- `ci.c:168`: a REPL whose input ends at once runs a buffer nobody wrote to
  (`SourceWhole`: the NUL is unwritten then, and only then).

Some further remarks, of which no property speaks. A shift by 64 or more, or by a
negative count, is undefined in C and not refused (`interpreter.c:194`, `:201`, `:207`).
The byte count of a load or store may be a string, or the end of the file
(`parser.c:597`). A first line of the REPL that is at least
twice `CAPACITY` long, 100 characters, does not fit the buffer, which doubles only
once (`ci.c:174`, the exception in `Fits`); a line of 255 characters or more is cut
(`Piece`), and unless the cut falls behind a semicolon its rest is never read; a file
whose size is unknown is read into one byte (`ci.c:215`). `ci.c:22` and `:52` say that
`-l` does not parse, `init.h` and the code that it does. A leading 0 makes a number
octal, and `08` is refused. `parser.c:737` has the double free of finding 3 when memory
runs out. `label:` before a newline and the end of file is dropped, before the end of
file itself it makes a NOP. `parser.h:44` says `NULL` is returned on errors, the code
returns what it parsed.

## What is proved

For all values of the constants (keys, hash function, capacity, word sizes,
memory size, programs, addresses, texts, keywords), TLAPS checks:

*`TraceDriverProofs`, the table.* `EmptyTableMapsNothing`, `PutOverwrites`, `PutAdds`,
`DeleteRemoves`: on a well-formed table the operations do to the map of keys to
values what their names say, and keep the table well formed. The argument works
on *slots*, pairs of bucket and position: insertion at the head shifts the slots
of one bucket by one, unlinking closes a gap, and both are bijections with the
old slots but one. The `...Counted` theorems turn them into cardinalities.

*`TraceDriverProofs`, the driver.* `Invariance`, from it `TypeSafety`, `ChainsWellFormed`,
`ValuesOwned`, `BlocksAccounted`, and `Refinement`: `Spec => Map!Spec`. The
inductive invariant states ownership by keys and `Lookup` rather than by slots,
which is what the theorems on the table speak of; the slot form of `Owned`
is then derived. Ownership needs uniqueness of keys: with a key twice, replacing
one entry's value would leave the other one dangling.

*`InterpreterProofs`.* `Invariance`: `IInv == ControlOK /\ DataOK /\
FlagsExclusive /\ Linked` is inductive; from it `TypeSafety`, `OppositeBranches`,
`StackIsChain`. The parts need each other: `RET` takes the
variables and `current` from the top record, so types hold only because the top
of the chain is allocated (`Linked`), and a popped record's `next` is the new top
only because the chain is linked in order without repetition. The invariant is
restricted to a running program: after `CallNoLabel` the stack does point to a
freed record, and all that saves the code is that `interpret` returns. `Strays` and
`FailuresClean` draw the limit of the first finding: whatever the memory's size, an
access that passes the check leaves `mem` only when its offset and size wrap, and in a
program that never does so a failing command has changed nothing, but for a put, which
has filled memory to its end, and the call of an undefined label, whose record is freed
again but stays on the stack. They rest on `WrapOnce`, what `Wrap` is on either side of
the word's range, and on `PutFills`, where a refused put stopped.

*`AsmlProofs`.* `Refinement`: `Spec => RefinesAsml`. Under `IInv`, each of the
interpreter's actions is, read through the mapping `Meant`, the action of `Asml` for
the same command (`NopMeans` to `ReturnPopMeans`, one lemma for each), as long as no
access has left memory. The two sides say the same thing in different terms, and the
lemmas on numbers bring them together for every width: `SignedIs` and `NormIs`, that
the signed value of a word is the one value of its type congruent to it;
`WordsByBits`, that a word is its bits, by going down from the top bit, so that "the
word with these bits" of `Words` is *one* word, and `ResultMeans`, that it is the
quotient, product or bitwise result of `Asml`; `NumberMeans`, that the bytes a load
finds spell the number that `Asml` sums up from the top; `TextMeans`, that a text found
by its end is the one read character by character. The last three are about functions
that `Asml` defines recursively: they go up or down the finite range of positions
(`Upward`, `Downward`, from a least counterexample), which stands in for the induction
the provers cannot do over an operator. Where the flags are concerned the mapping
needs that at most one is set (`FlagsExclusive`), where calls are, that no record is
twice in the chain: freeing the top one changes none that stays.

*`ParserProofs`.* `Invariance`, from it `TypeSafety`, `ProgramHandedOver`,
`CommandsComplete`, `HeapAccounted`; and `LabelInvariance`, from it `LabelsExact` and
`FailuresKnown`. While
the parser runs, the invariant says more than the properties do: the commands made
are all that were seen (`Made = Seen`), there was no error and no double free, and
the heap is exactly the list and the pending label; when the loop is left this
weakens to what the properties say. `NothingSkipped` needs that a turn passes over
newlines, one label, or one line that has its keyword first: `LeastElement`,
`StartShape` and `FilledShape` say what the `CHOOSE`s for the end of the newlines and
for the filled slots return, for every source. That no operand is read with the
wrong kind (`CommandShape`) follows slot by slot from `Fits`. For the labels, `Means`
relates a set of definitions, a list and an entry of the table; a command added at
the end keeps it for names it is not given to, and gives it to the one that is
pending, which is behind all other definitions. A failed `ht_put` leaves the name
out, and `LabelsMeanNext` says so: what is there is right. `FailuresKnown` says that
nothing else goes unnoticed: once memory ran out and no error is set, there is a
definition that was followed by a command and not entered (`Unentered`), which stays
so however the list and the table grow.

*`GrammarProofs`.* `GrammarInvariance`, from it `ErrorsReported`: the parser reports
an error exactly for the sources that are not `Legal`, or when an allocation failed.
`Legal` looks at the whole source by its line starts, the parser at one turn at a
time; the invariant says that the lines begun before `current` are exactly those
that are statements so far, that a pending label is the only one that awaits a
command, and that an error is one of a line begun. The lemmas go through the turns:
each passes over newlines, a label or one line, and begins no other.

*`PipelineProofs`.* `ParsesAsParser`: with `interpret`, `ht_init` and `ht_free` as
stutters, `ci_run_source` implements `Parser`'s specification, so `ParserHolds` carries
`TypeOK`, `HandsOverProgram`, `ErrorsExact`, `HeapExact` and `LabelsMeanNext` over. The
inductive invariant `SInv` (`Invariance`) adds `InterpreterProofs`' `IInv` while the
program runs: `RunStarts` shows it of the state `interpret` begins in, where
`HandsOverProgram` is what makes the list and the labels a program, and `RunKeeps`
of every command. From it `TypeSafety`, `AcceptedRuns`, `NothingElseKept`, `AnswersRight`; and `JumpsFollow`, which needs `LabelsMeanNext` of the parser and that
a name a command jumps to is in the table. `Pipeline` instantiates `Parser` and
`Interpreter`, `PipelineProofs` their proof modules; the lemmas `Same...` say that
the two instances of a definition agree.

*`CommandLineProofs`.* `Invariance`, from it `TypeSafety`, `TextFits`, `WholeSource`,
`BlocksOwned`, `AllReleased`, for all sizes and any set of blocks. The invariant says of
each place in `main` and below which pointers may hold a block there, and of the REPL's
buffer that it is as large as `total_size` says and never smaller than `Capacity`, that
its text is `current_size` long and is all that was typed, and that its NUL is behind
it, or was not written if nothing was typed.
`TextFits` follows from one doubling making room for any piece that is not longer than
`Capacity`; `Released` from `Owned`, which `Grow` keeps because `realloc` frees the block
it moves from, and the failures because each frees what its place may hold.

*`LexerProofs`.* `Invariance`, from it `TypeSafety`, `TokensInOrder`, `MaximalMunch`,
`NulPassed`, for every text, everything that may lie behind its NUL, and every set of
keywords. The invariant `MInv` adds to the properties that the lexer is where its last
token ends, and that it has not counted more lines than characters. Where reading
stops is a `CHOOSE` in the model; `SpanShape`, `LineEndShape` and `QuoteShape` show from
a least element that there is such a place and that the NUL is never passed on the
way. `MaximalMunch` compares the lexer, which decides by one character and one of
lookahead, with the grammar `TypesOf` of whole lexemes: `LexemeKinds` restates the
grammar place by place, `TypesByFirst` shows that the first character leaves one rule
of it, and then there is one lemma for each kind of token. `GoodKeeps` is what they share:
what a call must give for the invariant to hold again. `TokenPlaces` (`PlacesExact`)
has an invariant of its own, `Placed` (`PlaceInvariance`): the lexer's line and column
are what `LineOf` and `ColumnOf` count from the text up to where the lexer is, a newline
inside a string being a column itself. `ColumnOf` looks for the last newline, the lexer
counts up from it, so each kind of token needs to know whether it can hold one: only a
string can.
`NumbersRead` and `RegistersRead` (`NumbersExact`, `RegistersExact`) follow from a third
invariant, `SourceRead` (`ReadInvariance`): the memory is the text, its NUL and what is
behind, and what the parser reads of each token so far is right. Almost all of it is
`NumberRead`: `strtoll` goes through the digits from the left, shifts and stays at the
largest number, where the value of a numeral is a sum over its places. Both are folds
over finite sets, functions that a `CHOOSE` picks; `FoldExists` shows that there is such a
function, `SumOver` that a sum may be taken in any order, and `Counting` (from a least
counterexample) that after each prefix `strtoll`'s number is the smaller of the sum's and
the limit. `StrtollReads` and `ParseReads` say which digits those are, so that `DecimalRight`
and `BasedRight` can tell where `strtoll` ends elsewhere than the token does: at an 8 or 9
of an octal number, and behind a `0X`, which the lexer does not know as a prefix.

Assumptions: named `ASSUME`s of the modules, which TLC evaluates. Most are typing.
`PowersAssumption` and `DigitPowersAssumption` say what `^` means for the powers used:
facts of arithmetic the provers do not know. `MemAssumption` has memory take up at most half of the addresses
and a single byte be a valid size: `mem.h:13` has 1024 of 2^64, `mem.c:22` allows 1, 2, 4
and 8.
`ProgramsAssumption` (a program is a list of well-shaped commands and labels into
it) is `ProgramHandedOver` of `ParserProofs`, and `PipelineProofs` does not need it:
there `Programs` is empty and the program is the parser's. `SourcesAssumption` (a
source is a sequence of tokens) is what `Lexer` gives. `BehindAssumption` says of the NUL, a model
of a character, that it is a string, as all characters here are: true of any TLA+
string, but the provers do not know it.

Only model-checked: `ForwardEnds`, `Ends`, `Exits` and `Finishes`, since liveness under
fairness is beyond the prover. Every invariant of a passing run is a theorem.

## Not modelled

- `interpreter.c:63`, `:167`, `:273`, `:330`: errors for commands that the parser
  never builds (`HandsOverProgram`).
- Printing of tokens, commands, state and memory; digits of numbers. What `-l` and
  `-p` print is left out with it.
- `argparse.c`: third-party, and `CommandLine` takes any outcome of it.
- NULL arguments of `lexer_init`, `token_init`, the table's functions: no caller
  passes any.
- The test programs, `run_tests.sh`, and `ci_reference`, a binary.

## What is left

Every part of the program that keeps state is modelled, and every invariant that is
checked is proved. What could be added: the part of liveness that is safety, for every
value of the constants. Each call of the lexer that does not find the end leaves it further on in
the memory, each turn of the parser further on in the source, each round of the REPL a
line further on in the input; that none of these can go on forever then follows from the
lengths, which would leave to TLC only that fairness takes the steps.
