----------------------------- MODULE VirtualArray -----------------------------
(***************************************************************************)
(* One virtual array of jmemmgr.c, of samples or of coefficient blocks:    *)
(* the two differ in the type of a row only.  request_virt_?array notes    *)
(* the wanted size, realize_virt_arrays gives the array a memory buffer,   *)
(* which is the whole array or, when memory is short, a window over a      *)
(* backing store, and access_virt_?array moves the window, writes back     *)
(* what is dirty, zeroes what is fresh and hands out a strip.              *)
(*                                                                         *)
(* A row is one value.  The backing store is a function from rows to       *)
(* values: what a file offset and a byte count amount to.  The chunks in   *)
(* which do_?array_io moves consecutive rows leave no trace in it.         *)
(* Memory and files start with arbitrary contents.                         *)
(***************************************************************************)
EXTENDS Integers

CONSTANTS
  RowsInArray,   \* rows_in_array
  MaxAccess,     \* maxaccess
  PreZero,       \* pre_zero
  Values,        \* what a row can hold
  Zero,          \* the row FMEMZERO leaves
  MinHeights     \* avail_mem / space_per_minheight, as jpeg_mem_available
                 \* may leave it

ASSUME VirtualArrayAssumption ==
  /\ RowsInArray \in Nat \ {0}
  /\ MaxAccess \in Nat \ {0}
  /\ PreZero \in BOOLEAN
  /\ Zero \in Values
  /\ MinHeights \subseteq Nat

VARIABLES
  rows_in_mem,       \* height of the memory buffer
  b_s_open,          \* a backing store is open
  cur_start_row,     \* first row of the array that is in the buffer
  first_undef_row,   \* first row nobody defined yet
  dirty,             \* the buffer must be written back
  mem_buffer,        \* buffer index -> value
  store,             \* row -> value, in the backing store
  view,              \* the strip last handed out
  got,               \* the last row read through it
  phase              \* "unrealized", "open", "failed" (an error was raised)

vars == <<rows_in_mem, b_s_open, cur_start_row, first_undef_row, dirty,
          mem_buffer, store, view, got, phase>>

Row == 0 .. RowsInArray - 1
Buffer(n) == 0 .. n - 1

NoView == [start |-> 0, num |-> 0, writable |-> FALSE]
NoRead == [row |-> 0, value |-> Zero]

NoStore == [r \in Row |-> Zero]

InView(r) == /\ view.start <= r
             /\ r < view.start + view.num

(* Rows that do_?array_io transfers when the window starts at first: it    *)
(* moves no row that is undefined and none past the end of the array.      *)
Transferred(first) ==
  {r \in Row : /\ first <= r
               /\ r < first + rows_in_mem
               /\ r < first_undef_row}

Init ==
  /\ rows_in_mem = 0
  /\ b_s_open = FALSE
  /\ cur_start_row = 0
  /\ first_undef_row = 0
  /\ dirty = FALSE
  /\ mem_buffer = [i \in Buffer(0) |-> Zero]
  /\ store = NoStore
  /\ view = NoView
  /\ got = NoRead
  /\ phase = "unrealized"

(* How many strips of maxaccess rows make up the array. *)
StripsInArray == (RowsInArray - 1) \div MaxAccess + 1

(* At least one strip is always tried for. *)
MaxMinHeights(avail) == IF avail = 0 THEN 1 ELSE avail

FitsInMemory(avail) == StripsInArray <= MaxMinHeights(avail)

RowsGranted(avail) ==
  IF FitsInMemory(avail) THEN RowsInArray
  ELSE MaxMinHeights(avail) * MaxAccess

realize_virt_arrays ==
  /\ phase = "unrealized"
  /\ phase' = "open"
  /\ \E avail \in MinHeights :
       /\ rows_in_mem' = RowsGranted(avail)
       /\ b_s_open' = ~FitsInMemory(avail)
  /\ mem_buffer' \in [Buffer(rows_in_mem') -> Values]
  /\ store' \in IF b_s_open' THEN [Row -> Values] ELSE {NoStore}
  /\ cur_start_row' = 0
  /\ first_undef_row' = 0
  /\ dirty' = FALSE
  /\ UNCHANGED <<view, got>>

(***************************************************************************)
(* access_virt_?array.                                                     *)
(***************************************************************************)
BadAccess(start, num) ==
  \/ start + num > RowsInArray
  \/ num > MaxAccess

Outside(start, num) ==
  \/ start < cur_start_row
  \/ start + num > cur_start_row + rows_in_mem

(* A forward scan loads from the wanted row on, a backward scan so that    *)
(* the wanted strip is the top of the window.                              *)
NewStart(start, num) ==
  IF start > cur_start_row THEN start
  ELSE IF start + num < rows_in_mem THEN 0
  ELSE start + num - rows_in_mem

Flushed ==
  IF dirty
  THEN [r \in Row |-> IF r \in Transferred(cur_start_row)
                      THEN mem_buffer[r - cur_start_row] ELSE store[r]]
  ELSE store

Loaded(first, from) ==
  [i \in Buffer(rows_in_mem) |->
     IF first + i \in Transferred(first) THEN from[first + i]
     ELSE mem_buffer[i]]

First(start, num) ==
  IF Outside(start, num) THEN NewStart(start, num) ELSE cur_start_row

(* Slip: the buffer is dropped without a write. *)
KeptUnflushed(start, num) == store

(* What is dirty goes out before the window moves. *)
Kept(start, num) == IF Outside(start, num) THEN Flushed ELSE store

(* Slip: the window moves and nothing is read in. *)
BroughtNothing(start, num) == mem_buffer

(* Buffer contents once the strip is inside the window. *)
Brought(start, num) ==
  IF Outside(start, num) THEN Loaded(First(start, num), Kept(start, num))
  ELSE mem_buffer

(* The rows of the strip that nobody defined. *)
Fresh(start, num) ==
  {r \in start .. start + num - 1 : r >= first_undef_row}

WriterSkips(start, num, writable) == writable /\ first_undef_row < start

ReaderAhead(start, num, writable) ==
  ~writable /\ ~PreZero /\ Fresh(start, num) # {}

Undefined(start, num, writable) ==
  WriterSkips(start, num, writable) \/ ReaderAhead(start, num, writable)

access_virt_array(start, num, writable) ==
  /\ phase = "open"
  /\ ~BadAccess(start, num)
  /\ Outside(start, num) => b_s_open         \* else JERR_VIRTUAL_BUG
  /\ ~Undefined(start, num, writable)
  /\ cur_start_row' = First(start, num)
  /\ store' = Kept(start, num)
  /\ mem_buffer' =
       [i \in Buffer(rows_in_mem) |->
          IF PreZero /\ First(start, num) + i \in Fresh(start, num)
          THEN Zero ELSE Brought(start, num)[i]]
  /\ first_undef_row' =
       IF writable /\ first_undef_row < start + num
       THEN start + num ELSE first_undef_row
  /\ dirty' = (writable \/ (dirty /\ ~Outside(start, num)))
  /\ view' = [start |-> start, num |-> num, writable |-> writable]
  /\ got' = NoRead
  /\ UNCHANGED <<rows_in_mem, b_s_open, phase>>

ErrorExit ==
  /\ view' = NoView
  /\ got' = NoRead
  /\ phase' = "failed"
  /\ UNCHANGED <<rows_in_mem, b_s_open, first_undef_row>>

(* JERR_BAD_VIRTUAL_ACCESS from the check of the arguments. *)
access_refused(start, num) ==
  /\ phase = "open"
  /\ BadAccess(start, num)
  /\ UNCHANGED <<cur_start_row, dirty, mem_buffer, store>>
  /\ ErrorExit

(* JERR_BAD_VIRTUAL_ACCESS once the window has moved. *)
access_undefined(start, num, writable) ==
  /\ phase = "open"
  /\ ~BadAccess(start, num)
  /\ Outside(start, num) => b_s_open
  /\ Undefined(start, num, writable)
  /\ cur_start_row' = First(start, num)
  /\ store' = Kept(start, num)
  /\ dirty' = (dirty /\ ~Outside(start, num))
  /\ mem_buffer' = Brought(start, num)
  /\ ErrorExit

(***************************************************************************)
(* The caller, between two accesses, and the end of the image.             *)
(***************************************************************************)
ReadRow(r) ==
  /\ phase = "open"
  /\ InView(r)
  /\ got' = [row |-> r, value |-> mem_buffer[r - cur_start_row]]
  /\ UNCHANGED <<rows_in_mem, b_s_open, cur_start_row, first_undef_row, dirty,
                 mem_buffer, store, view, phase>>

WriteRow(r, v) ==
  /\ phase = "open"
  /\ InView(r)
  /\ view.writable
  /\ mem_buffer' = [mem_buffer EXCEPT ![r - cur_start_row] = v]
  /\ UNCHANGED <<rows_in_mem, b_s_open, cur_start_row, first_undef_row, dirty,
                 store, view, got, phase>>

(* free_pool of the image pool; a later image starts from scratch. *)
free_pool ==
  /\ phase # "unrealized"
  /\ rows_in_mem' = 0
  /\ b_s_open' = FALSE
  /\ cur_start_row' = 0
  /\ first_undef_row' = 0
  /\ dirty' = FALSE
  /\ mem_buffer' = [i \in Buffer(0) |-> Zero]
  /\ view' = NoView
  /\ got' = NoRead
  /\ phase' = "unrealized"
  /\ store' = NoStore

AccessSome ==
  \E start \in 0 .. RowsInArray, num \in 1 .. MaxAccess + 1 :
    \/ access_refused(start, num)
    \/ \E writable \in BOOLEAN :
         \/ access_virt_array(start, num, writable)
         \/ access_undefined(start, num, writable)

Next ==
  \/ realize_virt_arrays
  \/ AccessSome
  \/ \E r \in Row : ReadRow(r)
  \/ \E r \in Row, v \in Values : WriteRow(r, v)
  \/ free_pool

Spec == Init /\ [][Next]_vars

(***************************************************************************)
(* Properties.                                                             *)
(***************************************************************************)
TypeOK ==
  /\ rows_in_mem \in Nat
  /\ b_s_open \in BOOLEAN
  /\ cur_start_row \in Nat
  /\ first_undef_row \in 0 .. RowsInArray
  /\ dirty \in BOOLEAN
  /\ mem_buffer \in [Buffer(rows_in_mem) -> Values]
  /\ store \in [Row -> Values]
  /\ view \in [start : Nat, num : Nat, writable : BOOLEAN]
  /\ got \in [row : Nat, value : Values]
  /\ phase \in {"unrealized", "open", "failed"}

(* While the buffer is clean, every defined row in it is what the backing  *)
(* store holds: the next move of the window may drop the buffer without a  *)
(* write.                                                                  *)
CleanMeansSaved ==
  ~dirty /\ b_s_open =>
    \A r \in Transferred(cur_start_row) :
      mem_buffer[r - cur_start_row] = store[r]

(* The pointer access_virt_?array returned stays inside the buffer: the    *)
(* caller walks the strip it asked for and never past mem_buffer's end.    *)
StripInBuffer ==
  \A r \in Row : InView(r) => r - cur_start_row \in Buffer(rows_in_mem)

(* JERR_VIRTUAL_BUG is never raised: whatever the memory that was          *)
(* available at realize time, a strip a caller may ask for either lies in  *)
(* the buffer or there is a backing store to bring it from.                *)
NoVirtualBug ==
  phase = "open" =>
    \A start \in 0 .. RowsInArray, num \in 1 .. MaxAccess :
      ~BadAccess(start, num) /\ Outside(start, num) => b_s_open

(* The contents a caller can rely on: rows nobody defined count as zero,   *)
(* rows in the window are in the buffer, the others in the backing store.  *)
Contents ==
  [r \in Row |->
     IF r >= first_undef_row THEN Zero
     ELSE IF cur_start_row <= r /\ r < cur_start_row + rows_in_mem
     THEN mem_buffer[r - cur_start_row] ELSE store[r]]

Whole == INSTANCE WholeArray
         WITH array <- Contents, defined <- first_undef_row

(* The window, the backing store, the write-back and the zeroing on demand *)
(* are invisible: every caller sees one plain array.                       *)
IsOneArray == Whole!Spec
===============================================================================
