------------------------- MODULE CommandLineProofs -------------------------
(* What holds of ci.c for every size of its buffers, every input and       *)
(* whatever allocation fails.                                              *)
EXTENDS CommandLine, TLAPS

Before == {"options", "in_name", "out_name", "mode", "redirect", "source", "file"}
Reading == {"repl", "line", "copy"}

(* Which pointers are set where: no step overwrites one that holds a block. *)
Held == /\ pc \in {"options", "in_name"} => conf.in_filename = NULL
        /\ pc \in {"options", "in_name", "out_name"} => conf.out_filename = NULL
        /\ conf.out_filename # NULL => "out_filename" \in given
        /\ pc \in {"options", "in_name", "out_name", "mode", "file"} => ~conf.repl
        /\ pc \in Before \cup {"interpreted", "exit"} => src = NULL
        /\ pc \in Reading \cup {"run"} => src \in Blocks
        /\ pc = "exit" => conf.in_filename = NULL /\ conf.out_filename = NULL
        /\ file_open => pc \in {"file", "undefined"}

(* The REPL's text and its NUL: what was read is copied, but for the line  *)
(* that is about to be, for which there is room if it is not longer than   *)
(* the buffer was at first.                                                *)
Reads == /\ pc \in Before =>
              /\ current_size = 0 /\ line_len = 0 /\ typed = 0 /\ longest = 0
              /\ nul = Unwritten
         /\ pc \in Reading =>
              /\ conf.repl
              /\ heap[src] = total_size /\ Capacity <= total_size
              /\ nul = (IF current_size = 0 THEN Unwritten ELSE current_size)
              /\ current_size < total_size
              /\ line_len <= longest
         /\ pc = "repl" => typed = current_size
         /\ pc \in {"line", "copy"} => typed = current_size + line_len /\ line_len # 0
         /\ pc = "copy" => current_size + line_len < total_size \/ longest > Capacity
         /\ pc = "undefined" => longest > Capacity \/ ~seekable
         /\ SourceWhole

IInv == TypeOK /\ Owned /\ Held /\ Reads

-----------------------------------------------------------------------------
(* The heap after malloc, free and realloc.                                *)

LEMMA AfterMalloc ==
    ASSUME TypeOK, NEW b, NEW size \in Nat \ {0}, Allocates(b, size)
    PROVE  /\ b \in Blocks /\ b \notin Allocated /\ b # NULL
           /\ Allocated' = Allocated \cup {b}
           /\ heap' \in [Blocks -> Nat] /\ heap'[b] = size
  BY HeapAssumption DEF TypeOK, Allocates, Allocated

LEMMA AfterFree ==
    ASSUME TypeOK, NEW S, Frees(S)
    PROVE  /\ Allocated' = Allocated \ S
           /\ heap' \in [Blocks -> Nat]
  BY DEF TypeOK, Frees, Allocated

LEMMA AfterRealloc ==
    ASSUME TypeOK, NEW new, NEW size \in Nat \ {0}, src \in Allocated, Reallocates(src, new, size)
    PROVE  /\ new \in Blocks /\ new \notin Allocated \ {src} /\ new # NULL
           /\ Allocated' = (Allocated \ {src}) \cup {new}
           /\ heap' \in [Blocks -> Nat] /\ heap'[new] = size
  BY HeapAssumption DEF TypeOK, Reallocates, Allocated

LEMMA PieceBounded ==
    ASSUME NEW n \in Nat \ {0}
    PROVE  /\ Piece(n) \in Nat \ {0}
           /\ Piece(n) <= n
           /\ Piece(n) <= LineSize - 1
  BY BufferAssumption DEF Piece

LEMMA LinesNat == ASSUME TypeOK PROVE Lines \subseteq Nat \ {0}
  BY InputAssumption DEF Lines, TypeOK

(* config_free gives back the two names, and main has no other block then. *)
LEMMA ConfigFreed ==
    ASSUME IInv, config_free, src = NULL, UNCHANGED src
    PROVE  /\ heap' \in [Blocks -> Nat] /\ Allocated' = {} /\ Owned'
           /\ conf' \in [in_filename: Blocks \cup {NULL}, out_filename: Blocks \cup {NULL},
                         repl: BOOLEAN]
           /\ conf'.in_filename = NULL /\ conf'.out_filename = NULL
<1>1. conf' = [conf EXCEPT !.in_filename = NULL, !.out_filename = NULL]
  BY DEF config_free
<1>2. /\ conf' \in [in_filename: Blocks \cup {NULL}, out_filename: Blocks \cup {NULL},
                    repl: BOOLEAN]
      /\ conf'.in_filename = NULL /\ conf'.out_filename = NULL
  BY <1>1 DEF IInv, TypeOK
<1>3. /\ Allocated' = Allocated \ {conf.in_filename, conf.out_filename}
      /\ heap' \in [Blocks -> Nat]
  BY AfterFree DEF IInv, config_free
<1>4. Allocated' = {}
  BY <1>3 DEF IInv, Owned
<1>5. QED BY <1>2, <1>3, <1>4 DEF Owned

-----------------------------------------------------------------------------
(* main.                                                                   *)

LEMMA MainExits ==
    ASSUME IInv, Usage \/ CopyInFails \/ CopyOutFails \/ RedirectFails \/ Return
    PROVE  IInv'
<1>1. CASE Usage
  BY <1>1 DEF Usage, Goes, KeepReading, sizes, text, IInv, TypeOK, Owned, Allocated, Held, Reads,
              Before, Reading, SourceWhole
<1>2. CASE CopyInFails \/ CopyOutFails \/ RedirectFails \/ Return
  <2>1. /\ pc \in {"in_name", "out_name", "redirect", "interpreted"} /\ pc' = "exit"
        /\ status' \in {-1, 0, 1}
        /\ config_free /\ KeepReading /\ UNCHANGED given
    BY <1>2 DEF CopyInFails, CopyOutFails, RedirectFails, Return, Goes, IInv, TypeOK
  <2>2. src = NULL /\ UNCHANGED src
    BY <2>1 DEF IInv, Held, Before, KeepReading
  <2>3. /\ heap' \in [Blocks -> Nat] /\ Owned'
        /\ conf' \in [in_filename: Blocks \cup {NULL}, out_filename: Blocks \cup {NULL},
                      repl: BOOLEAN]
        /\ conf'.in_filename = NULL /\ conf'.out_filename = NULL
    BY <2>1, <2>2, ConfigFreed
  <2>4. TypeOK'
    BY <2>1, <2>3 DEF IInv, TypeOK, KeepReading, sizes, text
  <2>5. Held' /\ Reads'
    BY <2>1, <2>2, <2>3 DEF IInv, Held, Reads, Before, Reading, KeepReading, SourceWhole
  <2>6. QED BY <2>3, <2>4, <2>5 DEF IInv
<1>3. QED BY <1>1, <1>2

LEMMA MainGoesOn ==
    ASSUME IInv, Options \/ Mode \/ Redirect
    PROVE  IInv'
<1>1. CASE Options
  BY <1>1 DEF Options, Goes, KeepReading, sizes, text, IInv, TypeOK, Owned, Allocated, Held, Reads,
              Before, Reading, SourceWhole
<1>2. CASE Mode
  <2>1. PICK r \in BOOLEAN : r = (given = {} /\ conf.in_filename = NULL)
    OBVIOUS
  <2>2. /\ conf' = [conf EXCEPT !.repl = r] /\ pc = "mode" /\ pc' = "redirect"
        /\ KeepReading /\ UNCHANGED <<given, heap, status>>
    BY <1>2, <2>1 DEF Mode, Goes
  <2>3. r => conf.in_filename = NULL /\ conf.out_filename = NULL
    BY <2>1 DEF IInv, Held
  <2>4. TypeOK'
    BY <2>2, <2>3 DEF KeepReading, sizes, text, IInv, TypeOK
  <2>5. Owned' /\ Held' /\ Reads'
    BY <2>2 DEF KeepReading, sizes, text, IInv, TypeOK, Owned, Allocated, Held, Reads, Before,
                Reading, SourceWhole
  <2>6. QED BY <2>4, <2>5 DEF IInv
<1>3. CASE Redirect
  BY <1>3 DEF Redirect, Goes, KeepReading, sizes, text, IInv, TypeOK, Owned, Allocated, Held, Reads,
              Before, Reading, SourceWhole
<1>4. QED BY <1>1, <1>2, <1>3

LEMMA NamesCopied ==
    ASSUME IInv, CopyIn \/ CopyOut
    PROVE  IInv'
<1>1. CASE CopyIn
  <2>1. /\ pc = "in_name" /\ pc' = "out_name" /\ conf.in_filename = NULL
        /\ conf.out_filename = NULL /\ ~conf.repl /\ src = NULL
        /\ KeepReading /\ UNCHANGED <<given, status>>
    BY <1>1 DEF CopyIn, Goes, IInv, Held, Before
  <2>2. CASE "in_filename" \in given
    <3>1. PICK b \in Blocks : Allocates(b, 1) /\ conf' = [conf EXCEPT !.in_filename = b]
      BY <1>1, <2>2 DEF CopyIn
    <3>2. /\ b # NULL /\ Allocated' = Allocated \cup {b} /\ heap' \in [Blocks -> Nat]
      BY <3>1, AfterMalloc DEF IInv
    <3>3. Owned'
      BY <2>1, <3>1, <3>2 DEF IInv, Owned, TypeOK, KeepReading
    <3>4. TypeOK'
      BY <2>1, <3>1, <3>2 DEF IInv, TypeOK, KeepReading, sizes, text
    <3>5. Held' /\ Reads'
      BY <2>1, <3>1 DEF IInv, TypeOK, Held, Reads, Before, Reading, KeepReading, sizes, text,
                        SourceWhole
    <3>6. QED BY <3>3, <3>4, <3>5 DEF IInv
  <2>3. CASE "in_filename" \notin given
    BY <1>1, <2>3 DEF CopyIn, Goes, KeepReading, sizes, text, IInv, TypeOK, Owned, Allocated, Held,
                      Reads, Before, Reading, SourceWhole
  <2>4. QED BY <2>2, <2>3
<1>2. CASE CopyOut
  <2>1. /\ pc = "out_name" /\ pc' = "mode"
        /\ conf.out_filename = NULL /\ ~conf.repl /\ src = NULL
        /\ KeepReading /\ UNCHANGED <<given, status>>
    BY <1>2 DEF CopyOut, Goes, IInv, Held, Before
  <2>2. CASE "out_filename" \in given
    <3>1. PICK b \in Blocks : Allocates(b, 1) /\ conf' = [conf EXCEPT !.out_filename = b]
      BY <1>2, <2>2 DEF CopyOut
    <3>2. /\ b # NULL /\ b \notin Allocated /\ Allocated' = Allocated \cup {b}
          /\ heap' \in [Blocks -> Nat]
      BY <3>1, AfterMalloc DEF IInv
    <3>3. conf.in_filename # b
      BY <3>2 DEF IInv, Owned
    <3>4. Owned'
      BY <2>1, <3>1, <3>2, <3>3 DEF IInv, Owned, TypeOK, KeepReading
    <3>5. TypeOK'
      BY <2>1, <3>1, <3>2 DEF IInv, TypeOK, KeepReading, sizes, text
    <3>6. Held' /\ Reads'
      BY <2>1, <2>2, <3>1 DEF IInv, TypeOK, Held, Reads, Before, Reading, KeepReading, sizes, text,
                              SourceWhole
    <3>7. QED BY <3>4, <3>5, <3>6 DEF IInv
  <2>3. CASE "out_filename" \notin given
    BY <1>2, <2>3 DEF CopyOut, Goes, KeepReading, sizes, text, IInv, TypeOK, Owned, Allocated, Held,
                      Reads, Before, Reading, SourceWhole
  <2>4. QED BY <2>2, <2>3
<1>3. QED BY <1>1, <1>2

-----------------------------------------------------------------------------
(* run_interpreter and read_file.                                          *)

LEMMA NothingRun ==
    ASSUME IInv, NoFileSpecified \/ OpenFails \/ ReplNoMemory \/ Open
    PROVE  IInv'
<1>1. CASE NoFileSpecified \/ OpenFails \/ ReplNoMemory
  <2>1. /\ pc = "source" /\ pc' = "interpreted" /\ status' = -1
        /\ KeepMain /\ KeepReading /\ UNCHANGED heap
    BY <1>1 DEF NoFileSpecified, OpenFails, ReplNoMemory, NoSource, Goes
  <2>2. QED BY <2>1 DEF KeepMain, KeepReading, sizes, text, IInv, TypeOK, Owned, Allocated, Held,
                        Reads, Before, Reading, SourceWhole
<1>2. CASE Open
  BY <1>2 DEF Open, Goes, KeepMain, sizes, text, IInv, TypeOK, Owned, Allocated, Held, Reads,
              Before, Reading, SourceWhole
<1>3. QED BY <1>1, <1>2

LEMMA FileUnread ==
    ASSUME IInv, FileNoMemory \/ ReadUnseekable
    PROVE  IInv'
<1>1. CASE FileNoMemory
  BY <1>1 DEF FileNoMemory, NoSource, Goes, KeepMain, sizes, text, IInv, TypeOK, Owned, Allocated,
              Held, Reads, Before, Reading, SourceWhole
<1>2. CASE ReadUnseekable
  BY <1>2 DEF ReadUnseekable, Goes, KeepMain, sizes, text, IInv, TypeOK, Owned, Allocated, Held,
              Reads, Before, Reading, SourceWhole
<1>3. QED BY <1>1, <1>2

(* A new block for the source, which had none. *)
LEMMA SourceAllocated ==
    ASSUME IInv, NEW b, NEW size \in Nat \ {0}, Allocates(b, size), src' = b, src = NULL,
           UNCHANGED conf
    PROVE  /\ b \in Blocks /\ heap' \in [Blocks -> Nat] /\ heap'[b] = size /\ Owned'
<1>1. /\ b \in Blocks /\ b \notin Allocated /\ b # NULL
      /\ Allocated' = Allocated \cup {b}
      /\ heap' \in [Blocks -> Nat] /\ heap'[b] = size
  BY AfterMalloc DEF IInv
<1>2. conf.in_filename # b /\ conf.out_filename # b
  BY <1>1 DEF IInv, Owned
<1>3. Owned'
  BY <1>1, <1>2 DEF IInv, Owned
<1>4. QED BY <1>1, <1>3

LEMMA SourceRead == ASSUME IInv, ReadFile PROVE IInv'
<1>1. PICK filesize \in 0 .. LongestFile, b \in Blocks :
          /\ Allocates(b, filesize + 1) /\ src' = b
          /\ \E bytes_read \in 0 .. filesize : nul' = bytes_read /\ typed' = bytes_read
  BY DEF ReadFile
<1>2. PICK bytes_read \in 0 .. filesize : nul' = bytes_read /\ typed' = bytes_read
  BY <1>1
<1>3. filesize \in Nat /\ filesize + 1 \in Nat \ {0}
  BY InputAssumption
<1>4. /\ pc = "file" /\ pc' = "run" /\ src = NULL /\ file_open' = FALSE
      /\ KeepMain /\ UNCHANGED <<sizes, left, longest, status, seekable>>
  BY DEF ReadFile, Goes, IInv, Held, Before
<1>5. b \in Blocks /\ heap' \in [Blocks -> Nat] /\ heap'[b] = filesize + 1 /\ Owned'
  BY <1>1, <1>3, <1>4, SourceAllocated DEF KeepMain
<1>6. nul' \in Nat /\ typed' = nul' /\ nul' < heap'[src'] /\ ~conf'.repl
  BY <1>1, <1>2, <1>3, <1>4, <1>5 DEF IInv, Held, KeepMain
<1>7. TypeOK'
  BY <1>1, <1>4, <1>5, <1>6 DEF IInv, TypeOK, KeepMain, sizes
<1>8. Held' /\ Reads'
  BY <1>1, <1>4, <1>5, <1>6 DEF IInv, Held, Reads, Before, Reading, KeepMain, sizes, SourceWhole
<1>9. QED BY <1>5, <1>7, <1>8 DEF IInv

(* free(src): main's two names are what is left. *)
LEMMA SourceFreed ==
    ASSUME IInv, Frees({src}), src' = NULL, UNCHANGED conf
    PROVE  heap' \in [Blocks -> Nat] /\ Owned'
<1>1. Allocated' = Allocated \ {src} /\ heap' \in [Blocks -> Nat]
  BY AfterFree DEF IInv
<1>2. {conf.in_filename, conf.out_filename, NULL} \ {NULL} = Allocated'
  <2>1. Allocated = {conf.in_filename, conf.out_filename, src} \ {NULL}
    BY DEF IInv, Owned
  <2>2. conf.in_filename = src \/ conf.out_filename = src => src = NULL
    BY DEF IInv, Owned
  <2>3. QED BY <1>1, <2>1, <2>2
<1>3. QED BY <1>1, <1>2 DEF IInv, Owned

LEMMA SourceRun == ASSUME IInv, Run \/ GrowFails PROVE IInv'
<1>1. /\ pc \in {"run", "line"} /\ pc' = "interpreted" /\ status' \in {0, -1}
      /\ Frees({src}) /\ src' = NULL
      /\ KeepMain
      /\ UNCHANGED <<file_open, current_size, line_len, text, seekable>>
      /\ total_size' \in Nat
  BY DEF Run, GrowFails, NoSource, Goes, sizes, IInv, TypeOK
<1>2. heap' \in [Blocks -> Nat] /\ Owned'
  BY <1>1, SourceFreed DEF KeepMain
<1>3. TypeOK'
  BY <1>1, <1>2, HeapAssumption DEF IInv, TypeOK, KeepMain, text
<1>4. Held' /\ Reads'
  BY <1>1 DEF IInv, Held, Reads, Before, Reading, KeepMain, text, SourceWhole
<1>5. QED BY <1>2, <1>3, <1>4 DEF IInv

-----------------------------------------------------------------------------
(* run_repl.                                                               *)

LEMMA BufferAllocated == ASSUME IInv, ReplStarts PROVE IInv'
<1>1. PICK b \in Blocks : Allocates(b, Capacity) /\ src' = b
  BY DEF ReplStarts
<1>2. /\ pc = "source" /\ pc' = "repl" /\ src = NULL /\ conf.repl /\ total_size' = Capacity
      /\ KeepMain /\ UNCHANGED <<file_open, current_size, line_len, text, status, seekable>>
  BY DEF ReplStarts, Goes, IInv, Held, Before
<1>3. b \in Blocks /\ heap' \in [Blocks -> Nat] /\ heap'[b] = Capacity /\ Owned'
  BY <1>1, <1>2, BufferAssumption, SourceAllocated DEF KeepMain
<1>4. TypeOK'
  BY <1>1, <1>2, <1>3, BufferAssumption DEF IInv, TypeOK, KeepMain, text
<1>5. Held' /\ Reads'
  BY <1>1, <1>2, <1>3, BufferAssumption
     DEF IInv, Held, Reads, Before, Reading, KeepMain, text, SourceWhole
<1>6. QED BY <1>3, <1>4, <1>5 DEF IInv

LEMMA LineRead == ASSUME IInv, ReadLine PROVE IInv'
<1>1. PICK n \in Lines : /\ line_len' = Piece(n)
                         /\ left' = n - Piece(n)
                         /\ typed' = typed + Piece(n)
                         /\ longest' = (IF Piece(n) > longest THEN Piece(n) ELSE longest)
  BY DEF ReadLine
<1>2. n \in Nat \ {0}
  BY LinesNat DEF IInv
<1>3. Piece(n) \in Nat \ {0} /\ Piece(n) <= n /\ Piece(n) <= LineSize - 1
  BY <1>2, PieceBounded
<1>4. /\ pc = "repl" /\ pc' = "line" /\ longest \in 0 .. LineSize - 1 /\ typed \in Nat
      /\ KeepMain
      /\ UNCHANGED <<src, heap, file_open, total_size, current_size, nul, status, seekable>>
  BY DEF ReadLine, Goes, IInv, TypeOK
<1>5. /\ line_len' \in 0 .. LineSize - 1 /\ left' \in Nat /\ typed' \in Nat
      /\ longest' \in 0 .. LineSize - 1 /\ line_len' <= longest' /\ line_len' # 0
  BY <1>1, <1>2, <1>3, <1>4, BufferAssumption
<1>6. TypeOK'
  BY <1>4, <1>5 DEF IInv, TypeOK, KeepMain
<1>7. Owned' /\ Held'
  BY <1>4 DEF IInv, Owned, Allocated, Held, Before, Reading, KeepMain
<1>8. typed' = current_size' + line_len'
  BY <1>1, <1>4 DEF IInv, Reads
<1>9. Reads'
  BY <1>4, <1>5, <1>8 DEF IInv, Reads, Before, Reading, KeepMain, SourceWhole
<1>10. QED BY <1>6, <1>7, <1>9 DEF IInv

(* A buffer that was large enough before a piece is, doubled, large enough *)
(* for a piece that the first one could hold.                              *)
LEMMA DoubledHolds ==
    ASSUME IInv, pc = "line"
    PROVE  /\ total_size \in Nat /\ current_size \in Nat /\ line_len \in Nat /\ longest \in Nat
           /\ 2 * total_size \in Nat \ {0} /\ Capacity <= 2 * total_size
           /\ current_size < 2 * total_size
           /\ current_size + line_len < 2 * total_size \/ longest > Capacity
<1>1. /\ total_size \in Nat /\ current_size \in Nat /\ line_len \in Nat /\ longest \in Nat
  BY BufferAssumption DEF IInv, TypeOK
<1>2. Capacity <= total_size /\ current_size < total_size /\ line_len <= longest
  BY DEF IInv, Reads, Reading
<1>3. QED BY <1>1, <1>2, BufferAssumption

LEMMA BufferGrown == ASSUME IInv, Grow PROVE IInv'
<1>1. PICK b \in Blocks : Reallocates(src, b, 2 * total_size) /\ src' = b
  BY DEF Grow
<1>2. /\ pc = "line" /\ pc' = "copy" /\ total_size' = 2 * total_size
      /\ KeepMain /\ UNCHANGED <<file_open, current_size, line_len, text, status, seekable>>
  BY DEF Grow, Goes
<1>3. /\ total_size' \in Nat \ {0} /\ Capacity <= total_size' /\ current_size < total_size'
      /\ current_size + line_len < total_size' \/ longest > Capacity
  BY <1>2, DoubledHolds
<1>4. src \in Blocks /\ src # NULL
  BY <1>2, HeapAssumption DEF IInv, Held, Reading
<1>5. src \in Allocated
  BY <1>4 DEF IInv, Owned
<1>6. /\ b \notin Allocated \ {src} /\ b # NULL
      /\ Allocated' = (Allocated \ {src}) \cup {b}
      /\ heap' \in [Blocks -> Nat] /\ heap'[b] = total_size'
  BY <1>1, <1>2, <1>3, <1>5, AfterRealloc DEF IInv
<1>7. Owned'
  <2>1. conf.repl /\ conf.in_filename = NULL /\ conf.out_filename = NULL
    BY <1>2 DEF IInv, TypeOK, Reads, Reading
  <2>2. Allocated = {src}
    BY <1>4, <2>1 DEF IInv, Owned
  <2>3. Allocated' = {b}
    BY <1>6, <2>2
  <2>4. QED BY <1>1, <1>2, <1>6, <2>1, <2>3 DEF Owned, KeepMain
<1>8. TypeOK'
  BY <1>1, <1>2, <1>3, <1>6 DEF IInv, TypeOK, KeepMain, text
<1>9. Held' /\ Reads'
  BY <1>1, <1>2, <1>3, <1>6 DEF IInv, Held, Reads, Before, Reading, KeepMain, text, SourceWhole
<1>10. QED BY <1>7, <1>8, <1>9 DEF IInv

LEMMA BufferHolds == ASSUME IInv, LargeEnough PROVE IInv'
<1>1. /\ pc = "line" /\ pc' = "copy" /\ ~(current_size + line_len >= total_size)
      /\ KeepMain /\ KeepReading /\ UNCHANGED <<heap, status>>
  BY DEF LargeEnough, Goes, TooSmall
<1>2. current_size + line_len < total_size
  BY <1>1, DoubledHolds
<1>3. TypeOK' /\ Owned' /\ Held'
  BY <1>1 DEF IInv, TypeOK, Owned, Allocated, Held, Before, Reading, KeepMain, KeepReading, sizes,
              text
<1>4. Reads'
  BY <1>1, <1>2 DEF IInv, Reads, Before, Reading, KeepMain, KeepReading, sizes, text, SourceWhole
<1>5. QED BY <1>3, <1>4 DEF IInv

LEMMA LineCopied == ASSUME IInv, Copy PROVE IInv'
<1>1. /\ pc = "copy" /\ pc' \in {"repl", "run"}
      /\ current_size + line_len < heap[src]
      /\ nul' = IF nul \in 0 .. current_size - 1 THEN nul ELSE current_size + line_len
      /\ current_size' = current_size + line_len
      /\ KeepMain
      /\ UNCHANGED <<src, heap, file_open, total_size, line_len, left, longest, typed, status,
                     seekable>>
  BY DEF Copy, Goes
<1>2. /\ conf.repl /\ heap[src] = total_size /\ Capacity <= total_size
      /\ nul = current_size \/ nul = Unwritten
      /\ typed = current_size + line_len /\ line_len <= longest /\ line_len # 0
  BY <1>1 DEF IInv, Reads, Reading
<1>3. current_size \in Nat /\ line_len \in Nat /\ total_size \in Nat
  BY BufferAssumption DEF IInv, TypeOK
<1>4. nul \notin 0 .. current_size - 1
  BY <1>2, <1>3 DEF Unwritten
<1>5. nul' = current_size + line_len
  BY <1>1, <1>4
<1>6. /\ current_size' \in Nat /\ nul' \in Nat /\ nul' = current_size' /\ typed' = current_size'
      /\ nul' < total_size' /\ current_size' # 0
  BY <1>1, <1>2, <1>3, <1>5
<1>7. TypeOK' /\ Owned' /\ Held'
  BY <1>1, <1>6 DEF IInv, TypeOK, Owned, Allocated, Held, Before, Reading, KeepMain
<1>8. Reads'
  BY <1>1, <1>2, <1>6 DEF IInv, Reads, Before, Reading, KeepMain, SourceWhole
<1>9. QED BY <1>7, <1>8 DEF IInv

LEMMA LineOverflows == ASSUME IInv, CopyOverflows PROVE IInv'
<1>1. /\ pc = "copy" /\ pc' = "undefined" /\ current_size + line_len >= heap[src]
      /\ KeepMain /\ KeepReading /\ UNCHANGED <<heap, status>>
  BY DEF CopyOverflows, Goes
<1>2. longest > Capacity
  <2>1. /\ heap[src] = total_size
        /\ current_size + line_len < total_size \/ longest > Capacity
    BY <1>1 DEF IInv, Reads, Reading
  <2>2. current_size \in Nat /\ line_len \in Nat /\ total_size \in Nat
    BY BufferAssumption DEF IInv, TypeOK
  <2>3. QED BY <1>1, <2>1, <2>2
<1>3. QED BY <1>1, <1>2 DEF IInv, TypeOK, Owned, Allocated, Held, Reads, Before, Reading, KeepMain,
                            KeepReading, sizes, text, SourceWhole

LEMMA InputOver == ASSUME IInv, InputEnds PROVE IInv'
<1>1. /\ pc = "repl" /\ pc' = "run"
      /\ KeepMain /\ KeepReading /\ UNCHANGED <<heap, status>>
  BY DEF InputEnds, Goes
<1>2. TypeOK' /\ Owned' /\ Held'
  BY <1>1 DEF IInv, TypeOK, Owned, Allocated, Held, Before, Reading, KeepMain, KeepReading, sizes,
              text
<1>3. SourceWhole'
  <2>1. /\ conf.repl /\ heap[src] = total_size /\ current_size < total_size
        /\ nul = (IF current_size = 0 THEN Unwritten ELSE current_size)
        /\ typed = current_size /\ total_size \in Nat
    BY <1>1 DEF IInv, TypeOK, Reads, Reading
  <2>2. nul = (IF conf.repl /\ typed = 0 THEN Unwritten ELSE typed) /\ nul < heap[src]
    BY <2>1 DEF Unwritten
  <2>3. QED BY <1>1, <2>2 DEF SourceWhole, KeepMain, KeepReading, text
<1>4. Reads'
  BY <1>1, <1>3 DEF IInv, Reads, Before, Reading, KeepMain, KeepReading, sizes, text
<1>5. QED BY <1>2, <1>4 DEF IInv

-----------------------------------------------------------------------------
(* The inductive invariant of ci.c: what each pointer holds at each point, *)
(* and how far text, NUL and buffer are.                                   *)
THEOREM Invariance == Spec => []IInv
<1>1. Init => IInv
  <2> SUFFICES ASSUME Init PROVE IInv
    OBVIOUS
  <2>1. longest \in 0 .. LineSize - 1 /\ line_len \in 0 .. LineSize - 1
    BY BufferAssumption DEF Init
  <2>2. TypeOK
    BY <2>1 DEF Init, TypeOK, Unwritten
  <2>3. Owned /\ Held /\ Reads
    BY DEF Init, Owned, Allocated, Held, Reads, Before, Reading, SourceWhole
  <2>4. QED BY <2>2, <2>3 DEF IInv
<1>2. IInv /\ [Next]_vars => IInv'
  <2> SUFFICES ASSUME IInv, [Next]_vars PROVE IInv'
    OBVIOUS
  <2>1. CASE main
    BY <2>1, MainExits, MainGoesOn, NamesCopied DEF main
  <2>2. CASE run_interpreter
    BY <2>2, NothingRun, SourceRun DEF run_interpreter
  <2>3. CASE read_file
    BY <2>3, NothingRun, FileUnread, SourceRead DEF read_file
  <2>4. CASE run_repl
    BY <2>4, NothingRun, SourceRun, BufferAllocated, LineRead, BufferGrown, BufferHolds, LineCopied,
       LineOverflows, InputOver DEF run_repl
  <2>5. CASE UNCHANGED vars
    BY <2>5 DEF vars, sizes, text, IInv, TypeOK, Owned, Allocated, Held, Reads, Before, Reading,
                SourceWhole
  <2>6. QED BY <2>1, <2>2, <2>3, <2>4, <2>5 DEF Next
<1>3. QED BY <1>1, <1>2, PTL DEF Spec

(* The variables of ci.c have their types, whatever is typed, and the REPL *)
(* is run only when no name was given.                                     *)
THEOREM TypeSafety == Spec => []TypeOK
<1>1. IInv => TypeOK
  BY DEF IInv
<1>2. QED BY <1>1, Invariance, PTL

(* The REPL's text and its NUL are inside its buffer, for every size of    *)
(* the first buffer and of fgets' array, and lines of any number and       *)
(* length, as long as no piece is longer than the first buffer.            *)
THEOREM TextFits == Spec => []Fits
<1>1. IInv => Fits
  BY DEF IInv, Reads, Fits
<1>2. QED BY <1>1, Invariance, PTL

(* What is run is the text that was read, whole, with its NUL behind it    *)
(* and inside the buffer; but when the user typed nothing, it is a buffer  *)
(* to which nothing was written, and only then.                            *)
THEOREM WholeSource == Spec => []SourceWhole
<1>1. IInv => SourceWhole
  BY DEF IInv, Reads
<1>2. QED BY <1>1, Invariance, PTL

(* At every point each allocated block is held by one pointer, whatever    *)
(* failed and wherever realloc moved the buffer.                           *)
THEOREM BlocksOwned == Spec => []Owned
<1>1. IInv => Owned
  BY DEF IInv
<1>2. QED BY <1>1, Invariance, PTL

(* Whatever failed, when main returns all is freed and closed. *)
THEOREM AllReleased == Spec => []Released
<1>1. IInv => Released
  BY DEF IInv, Owned, Held, Before, Released
<1>2. QED BY <1>1, Invariance, PTL
=============================================================================
