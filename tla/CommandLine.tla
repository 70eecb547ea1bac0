---------------------------- MODULE CommandLine ----------------------------
(***************************************************************************)
(* src/src/ci/ci.c: main takes its options, reads a source from a file or  *)
(* line by line from the user, has it run by ci_run_source, and frees what *)
(* it allocated.  The heap is the size of each block, and pointers name    *)
(* blocks.  Of a text only its length is modelled and where its first NUL  *)
(* was written, of a line whether its last character that is no space is a *)
(* semicolon; no NUL is typed.  Any allocation, and opening any file, may  *)
(* fail.  Undefined behaviour ends what the model says.                    *)
(***************************************************************************)
EXTENDS Integers

CONSTANTS
    Blocks, NULL,  \* what malloc may return, and what it returns when it fails
    Capacity,      \* CAPACITY, the REPL's first buffer
    LineSize,      \* sizeof line
    LongestFile,   \* bound: no larger file is read
    LongestLine,   \* bound: no longer line is typed
    MaxInput       \* bound: the input ends when so much was read

ASSUME HeapAssumption == NULL \notin Blocks
ASSUME BufferAssumption == Capacity \in Nat \ {0} /\ LineSize \in Nat \ {0, 1}
ASSUME InputAssumption == LongestLine \in Nat \ {0} /\ MaxInput \in Nat /\ LongestFile \in Nat

VARIABLES
    pc,            \* where main is: see TypeOK
    given,         \* the arguments: names of files, and any others
    conf,          \* main's conf, without what is only printed
    src,           \* the buffer of the source, while a function has it
    heap,          \* the size of every block, 0 when it is not allocated
    file_open,     \* read_file's file
    total_size, current_size, line_len,   \* in run_repl
    nul,           \* where src's first NUL is
    status,        \* what run_interpreter and main return
    left,          \* ghost: what fgets did not yet read of a line
    longest,       \* ghost: the longest piece of a line that fgets has read
    typed,         \* ghost: how many characters of the source were read
    seekable       \* ghost: ftell has not failed

sizes == <<total_size, current_size, line_len>>
text == <<nul, left, longest, typed>>
vars == <<pc, given, conf, src, heap, file_open, sizes, text, status, seekable>>

(* Nothing has been written to src. *)
Unwritten == -1

Init == /\ pc = "options"
        /\ given = {}
        /\ conf = [in_filename |-> NULL, out_filename |-> NULL, repl |-> FALSE]
        /\ src = NULL
        /\ heap = [b \in Blocks |-> 0]
        /\ file_open = FALSE
        /\ total_size = 0 /\ current_size = 0 /\ line_len = 0
        /\ nul = Unwritten
        /\ status = 0
        /\ left = 0 /\ longest = 0 /\ typed = 0
        /\ seekable = TRUE

-----------------------------------------------------------------------------
(* The heap.                                                               *)

Allocated == {b \in Blocks : heap[b] > 0}

(* malloc, calloc: a block that is not in use. *)
Allocates(b, size) == /\ b \in Blocks \ Allocated
                      /\ heap' = [heap EXCEPT ![b] = size]

(* free of the pointers in S, where NULL is none. *)
Frees(S) == heap' = [b \in Blocks |-> IF b \in S THEN 0 ELSE heap[b]]

(* What realloc of a block to a new size, larger, may return, and the heap *)
(* then: the block itself, or another one with the old one freed.          *)
Reallocates(old, new, size) ==
    /\ new \in (Blocks \ Allocated) \cup {old}
    /\ heap' = [b \in Blocks |-> IF b = new THEN size ELSE IF b = old THEN 0 ELSE heap[b]]

-----------------------------------------------------------------------------
(* main.                                                                   *)

KeepReading == UNCHANGED <<src, file_open, sizes, text, seekable>>

Goes(from, to) == pc = from /\ pc' = to

config_free == /\ Frees({conf.in_filename, conf.out_filename})
               /\ conf' = [conf EXCEPT !.in_filename = NULL, !.out_filename = NULL]

(* argparse_parse prints the usage and exits. *)
Usage == /\ Goes("options", "exit")
         /\ status' \in {0, 1}
         /\ KeepReading /\ UNCHANGED <<given, conf, heap>>

Options == /\ Goes("options", "in_name")
           /\ given' \in SUBSET {"in_filename", "out_filename", "other"}
           /\ KeepReading /\ UNCHANGED <<conf, heap, status>>

(* ci_strdup of a name that was given. *)
CopyIn == /\ Goes("in_name", "out_name")
          /\ IF "in_filename" \in given
             THEN \E b \in Blocks : /\ Allocates(b, 1)
                                    /\ conf' = [conf EXCEPT !.in_filename = b]
             ELSE UNCHANGED <<heap, conf>>
          /\ KeepReading /\ UNCHANGED <<given, status>>

CopyOut == /\ Goes("out_name", "mode")
           /\ IF "out_filename" \in given
              THEN \E b \in Blocks : /\ Allocates(b, 1)
                                     /\ conf' = [conf EXCEPT !.out_filename = b]
              ELSE UNCHANGED <<heap, conf>>
           /\ KeepReading /\ UNCHANGED <<given, status>>

CopyInFails == /\ Goes("in_name", "exit") /\ "in_filename" \in given
               /\ status' = 1
               /\ config_free
               /\ KeepReading /\ UNCHANGED given

(* Mutant: main returns without config_free. *)
CopyOutFailsKeepsName ==
    /\ Goes("out_name", "exit") /\ "out_filename" \in given
    /\ status' = 1
    /\ KeepReading /\ UNCHANGED <<given, conf, heap>>

CopyOutFails == /\ Goes("out_name", "exit") /\ "out_filename" \in given
                /\ status' = 1
                /\ config_free
                /\ KeepReading /\ UNCHANGED given

(* Mutant: a line without a file is for the REPL, whatever else is given. *)
ModeByName == /\ Goes("mode", "redirect")
              /\ conf' = [conf EXCEPT !.repl = (conf.in_filename = NULL)]
              /\ KeepReading /\ UNCHANGED <<given, heap, status>>

Mode == /\ Goes("mode", "redirect")
        /\ conf' = [conf EXCEPT !.repl = (given = {} /\ conf.in_filename = NULL)]
        /\ KeepReading /\ UNCHANGED <<given, heap, status>>

(* freopen of stdout. *)
Redirect == /\ Goes("redirect", "source")
            /\ KeepReading /\ UNCHANGED <<given, conf, heap, status>>

RedirectFails == /\ Goes("redirect", "exit") /\ conf.out_filename # NULL
                 /\ status' = 1
                 /\ config_free
                 /\ KeepReading /\ UNCHANGED given

(* run_interpreter has returned. *)
Return == /\ Goes("interpreted", "exit")
          /\ config_free
          /\ KeepReading /\ UNCHANGED <<given, status>>

-----------------------------------------------------------------------------
(* run_interpreter.                                                        *)

KeepMain == UNCHANGED <<given, conf>>

(* run_interpreter returns -1 before it has a source. *)
NoSource(from) == /\ Goes(from, "interpreted")
                  /\ status' = -1
                  /\ KeepMain

NoFileSpecified == /\ NoSource("source") /\ ~conf.repl /\ conf.in_filename = NULL
                   /\ KeepReading /\ UNCHANGED heap

(* ci_run_source returns 0 or -1, and the source is freed. *)
Run == /\ Goes("run", "interpreted")
       /\ status' \in {0, -1}
       /\ Frees({src}) /\ src' = NULL
       /\ KeepMain /\ UNCHANGED <<file_open, sizes, text, seekable>>

-----------------------------------------------------------------------------
(* read_file.                                                              *)

OpenFails == /\ NoSource("source") /\ ~conf.repl /\ conf.in_filename # NULL
             /\ KeepReading /\ UNCHANGED heap

Open == /\ Goes("source", "file") /\ ~conf.repl /\ conf.in_filename # NULL
        /\ file_open' = TRUE
        /\ KeepMain /\ UNCHANGED <<src, heap, sizes, text, status, seekable>>

FileNoMemory == /\ NoSource("file")
                /\ file_open' = FALSE
                /\ UNCHANGED <<src, heap, sizes, text, seekable>>

(* The buffer is zeroed and has a byte more than the file, of which fread  *)
(* may read less.                                                          *)
ReadFile ==
    /\ Goes("file", "run")
    /\ \E filesize \in 0 .. LongestFile, b \in Blocks :
          /\ Allocates(b, filesize + 1) /\ src' = b
          /\ \E bytes_read \in 0 .. filesize : nul' = bytes_read /\ typed' = bytes_read
    /\ file_open' = FALSE
    /\ KeepMain /\ UNCHANGED <<sizes, left, longest, status, seekable>>

(* ftell returns -1, as a size the largest one; one more is none at all,   *)
(* and fread then reads as much as there is.                               *)
ReadUnseekable == /\ Goes("file", "undefined")
                  /\ seekable' = FALSE
                  /\ KeepMain /\ UNCHANGED <<src, heap, file_open, sizes, text, status>>

-----------------------------------------------------------------------------
(* run_repl.                                                               *)

ReplNoMemory == /\ NoSource("source") /\ conf.repl
                /\ KeepReading /\ UNCHANGED heap

ReplStarts == /\ Goes("source", "repl") /\ conf.repl
              /\ \E b \in Blocks : Allocates(b, Capacity) /\ src' = b
              /\ total_size' = Capacity
              /\ KeepMain /\ UNCHANGED <<file_open, current_size, line_len, text, status, seekable>>

(* What fgets reads of the n characters that are left of a line. *)
Piece(n) == IF n < LineSize THEN n ELSE LineSize - 1

(* The lengths of what fgets may find: the rest of a line, or a new one.   *)
Lines == IF left > 0 THEN {left} ELSE IF current_size <= MaxInput THEN 1 .. LongestLine ELSE {}

ReadLine == /\ Goes("repl", "line")
            /\ \E n \in Lines : /\ line_len' = Piece(n)
                                /\ left' = n - Piece(n)
                                /\ typed' = typed + Piece(n)
                                /\ longest' = (IF Piece(n) > longest THEN Piece(n) ELSE longest)
            /\ KeepMain /\ UNCHANGED <<src, heap, file_open, total_size, current_size, nul, status, seekable>>

(* Mutant: the buffer grows only when the line itself does not fit. *)
TooSmallForLine == line_len >= total_size

TooSmall == current_size + line_len >= total_size

(* Mutant: the buffer may move, and buffer still points to where it was. *)
GrowKeepsPointer ==
    /\ Goes("line", "copy") /\ TooSmall
    /\ total_size' = 2 * total_size
    /\ \E b \in Blocks : Reallocates(src, b, total_size')
    /\ KeepMain /\ UNCHANGED <<src, file_open, current_size, line_len, text, status, seekable>>

Grow == /\ Goes("line", "copy") /\ TooSmall
        /\ total_size' = 2 * total_size
        /\ \E b \in Blocks : Reallocates(src, b, total_size') /\ src' = b
        /\ KeepMain /\ UNCHANGED <<file_open, current_size, line_len, text, status, seekable>>

GrowFails == /\ NoSource("line") /\ TooSmall
             /\ total_size' = 2 * total_size
             /\ Frees({src}) /\ src' = NULL
             /\ UNCHANGED <<file_open, current_size, line_len, text, seekable>>

LargeEnough == /\ Goes("line", "copy") /\ ~TooSmall
               /\ KeepMain /\ KeepReading /\ UNCHANGED <<heap, status>>

(* Mutant: the size of the text becomes that of its last line. *)
CopySetsSize ==
    /\ Goes("copy", "repl") \/ Goes("copy", "run")
    /\ current_size + line_len < heap[src]
    /\ nul' = IF nul \in 0 .. current_size - 1 THEN nul ELSE current_size + line_len
    /\ current_size' = line_len
    /\ KeepMain
    /\ UNCHANGED <<src, heap, file_open, total_size, line_len, left, longest, typed, status, seekable>>

(* strcpy of the line and its NUL, over the NUL that was there, if that is *)
(* where current_size says.  Then the next line is read if this one ends   *)
(* in a semicolon.                                                         *)
Copy == /\ Goes("copy", "repl") \/ Goes("copy", "run")
        /\ current_size + line_len < heap[src]
        /\ nul' = IF nul \in 0 .. current_size - 1 THEN nul ELSE current_size + line_len
        /\ current_size' = current_size + line_len
        /\ KeepMain
        /\ UNCHANGED <<src, heap, file_open, total_size, line_len, left, longest, typed, status, seekable>>

(* strcpy writes behind the buffer. *)
CopyOverflows == /\ Goes("copy", "undefined")
                 /\ current_size + line_len >= heap[src]
                 /\ KeepMain /\ KeepReading /\ UNCHANGED <<heap, status>>

(* Mutant: the REPL asks again at the end of the input. *)
InputEndsAsksAgain == /\ Goes("repl", "repl")
                      /\ KeepMain /\ KeepReading /\ UNCHANGED <<heap, status>>

(* fgets returns NULL: the buffer is handed over as it is. *)
InputEnds == /\ Goes("repl", "run")
             /\ KeepMain /\ KeepReading /\ UNCHANGED <<heap, status>>

-----------------------------------------------------------------------------
main == \/ Usage \/ Options \/ CopyIn \/ CopyInFails \/ CopyOut \/ CopyOutFails
        \/ Mode \/ Redirect \/ RedirectFails \/ Return

run_interpreter == NoFileSpecified \/ Run

read_file == OpenFails \/ Open \/ FileNoMemory \/ ReadFile \/ ReadUnseekable

run_repl == \/ ReplNoMemory \/ ReplStarts \/ ReadLine \/ Grow \/ GrowFails \/ LargeEnough
            \/ Copy \/ CopyOverflows \/ InputEnds

Next == main \/ run_interpreter \/ read_file \/ run_repl

Spec == Init /\ [][Next]_vars

(* main waits for nothing but the user's lines, which come to an end.      *)
FairSpec == Spec /\ WF_vars(Next)

-----------------------------------------------------------------------------
(* Properties.                                                             *)

(* Types; and the REPL is run only when no name was given. *)
TypeOK ==
    /\ pc \in {"options", "in_name", "out_name", "mode", "redirect", "source", "file", "repl",
               "line", "copy", "run", "interpreted", "exit", "undefined"}
    /\ given \subseteq {"in_filename", "out_filename", "other"}
    /\ conf \in [in_filename: Blocks \cup {NULL}, out_filename: Blocks \cup {NULL}, repl: BOOLEAN]
    /\ conf.repl => conf.in_filename = NULL /\ conf.out_filename = NULL
    /\ src \in Blocks \cup {NULL}
    /\ heap \in [Blocks -> Nat]
    /\ file_open \in BOOLEAN
    /\ total_size \in Nat /\ current_size \in Nat /\ line_len \in 0 .. LineSize - 1
    /\ nul \in Nat \cup {Unwritten}
    /\ status \in {-1, 0, 1}
    /\ left \in Nat /\ longest \in 0 .. LineSize - 1 /\ typed \in Nat
    /\ seekable \in BOOLEAN

(* The REPL's buffer, which grows once for each piece of a line, holds the *)
(* text and its NUL, however many lines are typed, as long as no piece is  *)
(* longer than the buffer was at first; and a file fits when its size is   *)
(* known.                                                                  *)
Fits == pc = "undefined" => longest > Capacity \/ ~seekable

(* What ci_run_source is given is the text that was read, whole and up to  *)
(* its NUL inside the buffer: from a file of any size, however much of it  *)
(* was read, and from the pieces of any lines, through every growth of the *)
(* buffer.  Exactly if the user typed nothing at all, nothing was written  *)
(* to the buffer that is run.                                              *)
SourceWhole ==
    pc = "run" => /\ nul = IF conf.repl /\ typed = 0 THEN Unwritten ELSE typed
                  /\ nul < heap[src]

(* The blocks that are allocated are those that main, read_file and        *)
(* run_repl hold, each by one of its pointers: none is lost when a step    *)
(* fails, none is freed and still held, and none will be freed twice.      *)
Owned == /\ {conf.in_filename, conf.out_filename, src} \ {NULL} = Allocated
         /\ conf.in_filename = conf.out_filename => conf.in_filename = NULL
         /\ src \in {conf.in_filename, conf.out_filename} => src = NULL

(* On every way out of main, whatever failed, each block was freed by the  *)
(* one free that is responsible for it, and the file is closed.            *)
Released == pc = "exit" => Allocated = {} /\ ~file_open

(* However much is typed, main comes to its end, or to undefined behaviour. *)
Exits == <>(pc \in {"exit", "undefined"})
=============================================================================
