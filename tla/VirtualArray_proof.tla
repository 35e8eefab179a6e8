-------------------------- MODULE VirtualArray_proof --------------------------
(***************************************************************************)
(* Proofs about VirtualArray, for every height of the array, every         *)
(* maxaccess, every set of rows' values and every amount of memory.        *)
(***************************************************************************)
EXTENDS VirtualArray, TLAPS

(* The window either is the whole array or can take any legal strip. *)
WindowOK ==
  /\ phase = "unrealized" => first_undef_row = 0
  /\ phase # "unrealized" /\ b_s_open => rows_in_mem >= MaxAccess
  /\ phase # "unrealized" /\ ~b_s_open =>
       cur_start_row = 0 /\ rows_in_mem = RowsInArray

(* The strip in the caller's hands lies in the array and in the window, is *)
(* defined as far as it may be written, and has made the buffer dirty.     *)
ViewOK ==
  view.num > 0 =>
    /\ phase = "open"
    /\ cur_start_row <= view.start
    /\ view.start + view.num <= cur_start_row + rows_in_mem
    /\ view.start + view.num <= RowsInArray
    /\ view.writable => dirty /\ view.start + view.num <= first_undef_row
    /\ ~PreZero => view.start + view.num <= first_undef_row

(* What the caller sees of the undefined rows of its strip is zero. *)
FreshIsZero ==
  \A r \in Row : InView(r) /\ r >= first_undef_row =>
    mem_buffer[r - cur_start_row] = Zero

IInv == TypeOK /\ WindowOK /\ ViewOK /\ FreshIsZero /\ CleanMeansSaved

-------------------------------------------------------------------------------
(* The window that access_virt_?array chooses holds the strip: a forward   *)
(* scan starts it there, a backward scan ends it there.                    *)
LEMMA WindowHoldsStrip ==
  ASSUME IInv, phase = "open",
         NEW start \in 0 .. RowsInArray, NEW num \in 1 .. MaxAccess + 1,
         ~BadAccess(start, num),
         Outside(start, num) => b_s_open
  PROVE  /\ First(start, num) \in Nat
         /\ First(start, num) <= start
         /\ start + num <= First(start, num) + rows_in_mem
         /\ ~b_s_open => First(start, num) = 0
<1> USE VirtualArrayAssumption
<1>1. CASE Outside(start, num)
  <2>1. b_s_open /\ rows_in_mem \in Nat /\ rows_in_mem >= num
        /\ cur_start_row \in Nat
    BY <1>1 DEF IInv, TypeOK, WindowOK, BadAccess
  <2>2. QED BY <1>1, <2>1 DEF First, NewStart, Outside
<1>2. CASE ~Outside(start, num)
  BY <1>2 DEF First, Outside, IInv, TypeOK, WindowOK
<1> QED BY <1>1, <1>2

(* What is written back, together with what was saved before, is what the  *)
(* caller put there: the backing store then holds every defined row.       *)
LEMMA FlushKeepsContents ==
  ASSUME IInv, b_s_open, NEW r \in Row, r < first_undef_row
  PROVE  Flushed[r] = Contents[r]
<1>1. r \in Transferred(cur_start_row) <=>
        cur_start_row <= r /\ r < cur_start_row + rows_in_mem
  BY DEF Transferred
<1>2. ~(r >= first_undef_row)
  BY VirtualArrayAssumption DEF IInv, TypeOK, Row
<1>3. Contents[r] = IF r \in Transferred(cur_start_row)
                    THEN mem_buffer[r - cur_start_row] ELSE store[r]
  BY <1>1, <1>2 DEF Contents
<1>4. Flushed[r] = IF dirty /\ r \in Transferred(cur_start_row)
                   THEN mem_buffer[r - cur_start_row] ELSE store[r]
  BY DEF Flushed
<1> QED BY <1>3, <1>4 DEF IInv, CleanMeansSaved

(* Every defined row survives the move of the window.                      *)
LEMMA MoveKeepsContents ==
  ASSUME IInv, phase = "open",
         NEW start \in 0 .. RowsInArray, NEW num \in 1 .. MaxAccess + 1,
         Outside(start, num) => b_s_open,
         NEW r \in Row, r < first_undef_row
  PROVE  /\ Kept(start, num) \in [Row -> Values]
         /\ First(start, num) <= r /\ r < First(start, num) + rows_in_mem =>
              Brought(start, num)[r - First(start, num)] = Contents[r]
         /\ ~(First(start, num) <= r /\ r < First(start, num) + rows_in_mem)
              => Kept(start, num)[r] = Contents[r]
<1> USE VirtualArrayAssumption
<1> DEFINE first == First(start, num)
           held  == first <= r /\ r < first + rows_in_mem
<1>1. Flushed \in [Row -> Values]
  BY DEF Flushed, IInv, TypeOK, Transferred, Row, Buffer
<1>2. Kept(start, num) \in [Row -> Values]
  BY <1>1 DEF Kept, IInv, TypeOK
<1>3. CASE Outside(start, num)
  <2>1. Kept(start, num)[r] = Contents[r]
    BY <1>3, FlushKeepsContents DEF Kept
  <2>2. first \in Nat
    BY <1>3 DEF First, NewStart, IInv, TypeOK
  <2>3. ASSUME held
        PROVE  Brought(start, num)[r - first] = Contents[r]
    <3>1. r - first \in Buffer(rows_in_mem)
      BY <2>2, <2>3 DEF Buffer, Row, IInv, TypeOK
    <3>2. first + (r - first) = r
      BY <2>2 DEF Row
    <3>3. r \in Transferred(first)
      BY <2>3 DEF Transferred
    <3>4. Brought(start, num)[r - first] = Kept(start, num)[r]
      BY <1>3, <3>1, <3>2, <3>3 DEF Brought, Loaded
    <3> QED BY <2>1, <3>4
  <2> QED BY <1>2, <2>1, <2>3
<1>4. CASE ~Outside(start, num)
  <2>1. ~(r >= first_undef_row)
    BY DEF IInv, TypeOK, Row
  <2> QED BY <1>2, <1>4, <2>1 DEF First, Kept, Brought, Contents
<1> QED BY <1>3, <1>4

LEMMA BroughtType ==
  ASSUME IInv, NEW start \in 0 .. RowsInArray, NEW num \in 1 .. MaxAccess + 1
  PROVE  /\ Brought(start, num) \in [Buffer(rows_in_mem) -> Values]
         /\ Kept(start, num) \in [Row -> Values]
<1> USE VirtualArrayAssumption
<1>1. Flushed \in [Row -> Values]
  BY DEF Flushed, IInv, TypeOK, Transferred, Row, Buffer
<1>2. Kept(start, num) \in [Row -> Values]
  BY <1>1 DEF Kept, IInv, TypeOK
<1>3. Loaded(First(start, num), Kept(start, num))
        \in [Buffer(rows_in_mem) -> Values]
  BY <1>2 DEF Loaded, Transferred, IInv, TypeOK
<1> QED BY <1>2, <1>3 DEF Brought, IInv, TypeOK

-------------------------------------------------------------------------------
LEMMA InitInv == Init => IInv
BY VirtualArrayAssumption
DEF Init, IInv, TypeOK, WindowOK, ViewOK, FreshIsZero, CleanMeansSaved,
    NoView, NoRead, NoStore, Buffer, Row, Transferred, InView

LEMMA RealizeKeepsInv ==
  ASSUME IInv, realize_virt_arrays
  PROVE  IInv'
<1> USE VirtualArrayAssumption
<1>1. PICK avail \in MinHeights :
        /\ rows_in_mem' = IF FitsInMemory(avail) THEN RowsInArray
                          ELSE MaxMinHeights(avail) * MaxAccess
        /\ b_s_open' = ~FitsInMemory(avail)
  BY DEF realize_virt_arrays, RowsGranted
<1>2. MaxMinHeights(avail) \in Nat \ {0}
  BY DEF MaxMinHeights
<1>3. MaxMinHeights(avail) * MaxAccess \in Nat
      /\ MaxMinHeights(avail) * MaxAccess >= MaxAccess
  BY <1>2
<1>4. /\ rows_in_mem' \in Nat
      /\ b_s_open' \in BOOLEAN
      /\ b_s_open' => rows_in_mem' >= MaxAccess
      /\ ~b_s_open' => rows_in_mem' = RowsInArray
  BY <1>1, <1>3
<1>5. store' \in [Row -> Values]
  BY DEF realize_virt_arrays, NoStore
<1>6. TypeOK'
  <2>1. /\ mem_buffer' \in [Buffer(rows_in_mem') -> Values]
        /\ cur_start_row' = 0
        /\ first_undef_row' = 0
        /\ dirty' = FALSE
        /\ view' = view
        /\ got' = got
        /\ phase' = "open"
    BY DEF realize_virt_arrays
  <2>2. 0 \in 0 .. RowsInArray
    OBVIOUS
  <2>3. /\ view \in [start : Nat, num : Nat, writable : BOOLEAN]
        /\ got \in [row : Nat, value : Values]
    BY DEF IInv, TypeOK
  <2> QED BY <1>4, <1>5, <2>1, <2>2, <2>3 DEF TypeOK, Row
<1>7. ~(view.num > 0)
  BY DEF IInv, ViewOK, realize_virt_arrays
<1>8. \A r \in Row : ~InView(r)
  BY <1>7 DEF InView, Row, IInv, TypeOK
<1>9. ViewOK' /\ FreshIsZero' /\ WindowOK'
  <2>1. view' = view
    BY DEF realize_virt_arrays
  <2>2. ViewOK'
    BY <1>7, <2>1 DEF ViewOK
  <2>3. FreshIsZero'
    BY <1>8, <2>1 DEF FreshIsZero, InView
  <2>4. WindowOK'
    BY <1>4 DEF realize_virt_arrays, WindowOK
  <2> QED BY <2>2, <2>3, <2>4
<1>10. CleanMeansSaved'
  BY DEF realize_virt_arrays, CleanMeansSaved, Transferred, Row
<1> QED BY <1>6, <1>9, <1>10 DEF IInv

LEMMA AccessKeepsInv ==
  ASSUME IInv,
         NEW start \in 0 .. RowsInArray, NEW num \in 1 .. MaxAccess + 1,
         NEW writable \in BOOLEAN,
         access_virt_array(start, num, writable)
  PROVE  IInv'
<1> USE VirtualArrayAssumption
<1> DEFINE first == First(start, num)
<1>1. /\ first \in Nat
      /\ first <= start
      /\ start + num <= first + rows_in_mem
      /\ ~b_s_open => first = 0
  BY WindowHoldsStrip DEF access_virt_array
<1>2. start + num <= RowsInArray
  BY DEF access_virt_array, BadAccess
<1>3. TypeOK'
  BY <1>1, <1>2, BroughtType
  DEF access_virt_array, IInv, TypeOK, NoRead, Row
<1>4. WindowOK'
  BY <1>1 DEF access_virt_array, IInv, WindowOK
<1>5. ViewOK'
  <2>1. first_undef_row' >= first_undef_row
        /\ (writable => start + num <= first_undef_row')
    BY DEF access_virt_array, IInv, TypeOK
  <2>2. ~PreZero => start + num <= first_undef_row'
    <3>1. SUFFICES ASSUME ~PreZero, ~writable
                   PROVE  start + num <= first_undef_row
      BY <2>1 DEF access_virt_array
    <3>2. Fresh(start, num) = {}
      BY <3>1 DEF access_virt_array, Undefined, ReaderAhead
    <3>3. ~(start + num - 1 >= first_undef_row)
      BY <3>2 DEF Fresh, IInv, TypeOK
    <3> QED BY <3>3 DEF IInv, TypeOK
  <2> QED BY <1>1, <1>2, <2>1, <2>2 DEF access_virt_array, ViewOK
<1>6. FreshIsZero'
  <2>1. SUFFICES ASSUME NEW r \in Row, InView(r)', r >= first_undef_row'
                 PROVE  mem_buffer'[r - first] = Zero
    BY DEF FreshIsZero, access_virt_array
  <2>2. r \in start .. start + num - 1
    BY <2>1 DEF InView, access_virt_array, Row
  <2>3. r >= first_undef_row /\ PreZero
    BY <1>5, <2>1, <2>2
    DEF access_virt_array, IInv, TypeOK, ViewOK, Row
  <2>4. r - first \in Buffer(rows_in_mem) /\ first + (r - first) = r
    BY <1>1, <2>2 DEF Buffer, IInv, TypeOK
  <2> QED BY <2>2, <2>3, <2>4 DEF access_virt_array, Fresh
<1>7. CleanMeansSaved'
  <2>1. SUFFICES ASSUME ~dirty', b_s_open',
                        NEW r \in Transferred(cur_start_row)'
                 PROVE  mem_buffer'[r - first] = store'[r]
    BY DEF CleanMeansSaved, access_virt_array
  <2>2. ~writable /\ first_undef_row' = first_undef_row
        /\ b_s_open /\ rows_in_mem' = rows_in_mem /\ cur_start_row' = first
    BY <2>1 DEF access_virt_array
  <2>3. r \in Row /\ r < first_undef_row /\ first <= r
        /\ r < first + rows_in_mem /\ r \in Transferred(first)
    BY <2>1, <2>2 DEF Transferred
  <2>4. r - first \in Buffer(rows_in_mem) /\ first + (r - first) = r
    BY <1>1, <2>3 DEF Buffer, Row, IInv, TypeOK
  <2>5. r \notin Fresh(start, num)
    BY <2>3 DEF Fresh, Row, IInv, TypeOK
  <2>6. mem_buffer'[r - first] = Brought(start, num)[r - first]
    BY <2>4, <2>5 DEF access_virt_array
  <2>7. CASE Outside(start, num)
    BY <2>3, <2>4, <2>6, <2>7 DEF access_virt_array, Brought, Loaded
  <2>8. CASE ~Outside(start, num)
    BY <2>1, <2>2, <2>3, <2>6, <2>8
    DEF access_virt_array, Brought, Kept, First, IInv, CleanMeansSaved
  <2> QED BY <2>7, <2>8
<1> QED BY <1>3, <1>4, <1>5, <1>6, <1>7 DEF IInv

LEMMA FailureKeepsInv ==
  ASSUME IInv,
         NEW start \in 0 .. RowsInArray, NEW num \in 1 .. MaxAccess + 1,
         NEW writable \in BOOLEAN,
         \/ access_refused(start, num)
         \/ access_undefined(start, num, writable)
  PROVE  IInv'
<1> USE VirtualArrayAssumption
<1>1. ViewOK' /\ FreshIsZero'
  BY DEF access_refused, access_undefined, ErrorExit, ViewOK, FreshIsZero,
         NoView, InView, Row
<1>2. CASE access_refused(start, num)
  <2>1. TypeOK'
    BY <1>2
    DEF access_refused, ErrorExit, IInv, TypeOK, NoView, NoRead, Row
  <2>2. WindowOK'
    BY <1>2 DEF access_refused, ErrorExit, IInv, WindowOK
  <2>3. CleanMeansSaved'
    BY <1>2
    DEF access_refused, ErrorExit, IInv, CleanMeansSaved, Transferred
  <2> QED BY <1>1, <2>1, <2>2, <2>3 DEF IInv
<1>3. CASE access_undefined(start, num, writable)
  <2> DEFINE first == First(start, num)
  <2>1. first \in Nat /\ (~b_s_open => first = 0)
    BY <1>3, WindowHoldsStrip DEF access_undefined
  <2>2. TypeOK'
    BY <1>3, <2>1, BroughtType
    DEF access_undefined, ErrorExit, IInv, TypeOK, NoView, NoRead, Row
  <2>3. WindowOK'
    BY <1>3, <2>1 DEF access_undefined, ErrorExit, IInv, WindowOK
  <2>4. CleanMeansSaved'
    <3>1. SUFFICES ASSUME ~dirty', b_s_open',
                          NEW r \in Transferred(cur_start_row)'
                   PROVE  mem_buffer'[r - first] = store'[r]
      BY <1>3 DEF CleanMeansSaved, access_undefined
    <3>2. /\ b_s_open /\ first_undef_row' = first_undef_row
          /\ rows_in_mem' = rows_in_mem
          /\ cur_start_row' = first
      BY <1>3, <3>1 DEF access_undefined, ErrorExit
    <3>3. r \in Row /\ r < first_undef_row /\ first <= r
          /\ r < first + rows_in_mem /\ r \in Transferred(first)
      BY <3>1, <3>2 DEF Transferred
    <3>4. r - first \in Buffer(rows_in_mem) /\ first + (r - first) = r
      BY <2>1, <3>3 DEF Buffer, Row, IInv, TypeOK
    <3>5. CASE Outside(start, num)
      BY <1>3, <3>3, <3>4, <3>5
      DEF access_undefined, Brought, Loaded
    <3>6. CASE ~Outside(start, num)
      BY <1>3, <3>1, <3>2, <3>3, <3>6
      DEF access_undefined, Brought, Kept, First, IInv, CleanMeansSaved
    <3> QED BY <3>5, <3>6
  <2> QED BY <1>1, <2>2, <2>3, <2>4 DEF IInv
<1> QED BY <1>2, <1>3

LEMMA ReadKeepsInv ==
  ASSUME IInv, NEW r \in Row, ReadRow(r)
  PROVE  IInv'
<1> USE VirtualArrayAssumption
<1>1. r - cur_start_row \in Buffer(rows_in_mem)
  BY DEF ReadRow, InView, IInv, TypeOK, ViewOK, Row, Buffer
<1>2. TypeOK'
  BY <1>1 DEF ReadRow, IInv, TypeOK, Row
<1>3. QED
  BY <1>2
  DEF ReadRow, IInv, WindowOK, ViewOK, FreshIsZero, CleanMeansSaved, InView,
      Transferred

LEMMA WriteKeepsInv ==
  ASSUME IInv, NEW r \in Row, NEW v \in Values, WriteRow(r, v)
  PROVE  IInv'
<1> USE VirtualArrayAssumption
<1>1. /\ r - cur_start_row \in Buffer(rows_in_mem)
      /\ dirty
      /\ r < first_undef_row
  BY DEF WriteRow, InView, IInv, TypeOK, ViewOK, Row, Buffer
<1>2. TypeOK'
  BY <1>1 DEF WriteRow, IInv, TypeOK
<1>3. WindowOK' /\ ViewOK'
  BY DEF WriteRow, IInv, WindowOK, ViewOK
<1>4. FreshIsZero'
  <2>1. SUFFICES ASSUME NEW q \in Row, InView(q), q >= first_undef_row
                 PROVE  mem_buffer'[q - cur_start_row] = Zero
    BY DEF FreshIsZero, WriteRow, InView
  <2>2. q - cur_start_row \in Buffer(rows_in_mem)
    BY <2>1 DEF WriteRow, InView, IInv, TypeOK, ViewOK, Row, Buffer
  <2>3. q - cur_start_row # r - cur_start_row
    BY <1>1, <2>1 DEF IInv, TypeOK, Row
  <2> QED BY <1>1, <2>1, <2>2, <2>3 DEF WriteRow, IInv, TypeOK, FreshIsZero
<1>5. CleanMeansSaved'
  BY <1>1 DEF WriteRow, CleanMeansSaved
<1> QED BY <1>2, <1>3, <1>4, <1>5 DEF IInv

LEMMA FreeKeepsInv ==
  ASSUME IInv, free_pool
  PROVE  IInv'
<1> USE VirtualArrayAssumption
<1>1. TypeOK'
  <2>1. /\ rows_in_mem' = 0
        /\ mem_buffer' = [i \in Buffer(0) |-> Zero]
        /\ store' = [r \in Row |-> Zero]
        /\ view' = [start |-> 0, num |-> 0, writable |-> FALSE]
        /\ got' = [row |-> 0, value |-> Zero]
    BY DEF free_pool, NoView, NoRead, NoStore
  <2>2. mem_buffer' \in [Buffer(rows_in_mem') -> Values]
    BY <2>1
  <2>3. store' \in [Row -> Values]
    BY <2>1
  <2>4. /\ b_s_open' = FALSE
        /\ cur_start_row' = 0
        /\ first_undef_row' = 0
        /\ dirty' = FALSE
        /\ phase' = "unrealized"
    BY DEF free_pool
  <2>5. 0 \in 0 .. RowsInArray
    OBVIOUS
  <2> QED BY <2>1, <2>2, <2>3, <2>4, <2>5 DEF TypeOK, Row
<1>2. WindowOK' /\ ViewOK'
  BY DEF free_pool, WindowOK, ViewOK, NoView
<1>3. FreshIsZero' /\ CleanMeansSaved'
  BY DEF free_pool, FreshIsZero, CleanMeansSaved, NoView, InView, Row
<1> QED BY <1>1, <1>2, <1>3 DEF IInv

LEMMA StutterKeepsInv ==
  ASSUME IInv, UNCHANGED vars
  PROVE  IInv'
BY DEF vars, IInv, TypeOK, WindowOK, ViewOK, FreshIsZero, CleanMeansSaved,
       InView, Transferred

(* The inductive invariant.  On its own CleanMeansSaved is not inductive:  *)
(* a write through a strip that is not marked dirty would break it.        *)
THEOREM Inductive == Spec => []IInv
<1>1. Init => IInv
  BY InitInv
<1>2. IInv /\ [Next]_vars => IInv'
  <2> SUFFICES ASSUME IInv, [Next]_vars PROVE IInv'
    OBVIOUS
  <2>1. CASE realize_virt_arrays
    BY <2>1, RealizeKeepsInv
  <2>2. CASE AccessSome
    BY <2>2, AccessKeepsInv, FailureKeepsInv DEF AccessSome
  <2>3. CASE \E r \in Row : ReadRow(r)
    BY <2>3, ReadKeepsInv
  <2>4. CASE \E r \in Row, v \in Values : WriteRow(r, v)
    BY <2>4, WriteKeepsInv
  <2>5. CASE free_pool
    BY <2>5, FreeKeepsInv
  <2>6. CASE UNCHANGED vars
    BY <2>6, StutterKeepsInv
  <2> QED BY <2>1, <2>2, <2>3, <2>4, <2>5, <2>6 DEF Next
<1> QED BY <1>1, <1>2, PTL DEF Spec

(* Every field of the control block keeps to its range, and the buffer and *)
(* the backing store hold rows and nothing else.                           *)
THEOREM TypeCorrect == Spec => []TypeOK
<1>1. IInv => TypeOK
  BY DEF IInv
<1> QED BY <1>1, Inductive, PTL

(* A clean buffer can be dropped: what it holds is in the backing store.   *)
THEOREM CleanIsSaved == Spec => []CleanMeansSaved
<1>1. IInv => CleanMeansSaved
  BY DEF IInv
<1> QED BY <1>1, Inductive, PTL

(* The strip handed out lies in the buffer, whatever its height.           *)
THEOREM StripStaysInBuffer == Spec => []StripInBuffer
<1>1. IInv => StripInBuffer
  BY VirtualArrayAssumption
  DEF IInv, TypeOK, ViewOK, StripInBuffer, InView, Row, Buffer
<1> QED BY <1>1, Inductive, PTL

(* JERR_VIRTUAL_BUG cannot be raised, whatever memory was available when   *)
(* the array was realized.                                                 *)
THEOREM NeverVirtualBug == Spec => []NoVirtualBug
<1>1. IInv => NoVirtualBug
  BY VirtualArrayAssumption
  DEF IInv, TypeOK, WindowOK, NoVirtualBug, Outside, BadAccess
<1> QED BY <1>1, Inductive, PTL

-------------------------------------------------------------------------------
(***************************************************************************)
(* The refinement.  Each step of the window machinery is a step, or a      *)
(* stutter, of the plain array Contents.                                   *)
(***************************************************************************)
(* An offset from the start of the window is an index of the buffer.       *)
LEMMA OffsetInBuffer ==
  ASSUME NEW first \in Nat, NEW n \in Nat, NEW r \in Nat,
         first <= r, r < first + n
  PROVE  r - first \in 0 .. n - 1
OBVIOUS

LEMMA InitRefines == Init => Whole!Init
BY VirtualArrayAssumption
DEF Init, Whole!Init, Contents, Row, Whole!Row, NoView, Whole!NoView, NoRead,
    Whole!NoRead

LEMMA ContentsType ==
  ASSUME IInv
  PROVE  Contents \in [Row -> Values]
<1>1. SUFFICES ASSUME NEW r \in Row
               PROVE  Contents[r] \in Values
  BY DEF Contents
<1>2. cur_start_row <= r /\ r < cur_start_row + rows_in_mem =>
        r - cur_start_row \in Buffer(rows_in_mem)
  BY DEF Buffer, Row, IInv, TypeOK
<1> QED BY <1>2, VirtualArrayAssumption DEF Contents, IInv, TypeOK

LEMMA RealizeRefines ==
  ASSUME IInv, realize_virt_arrays
  PROVE  Whole!Realize
<1>1. first_undef_row = 0 /\ first_undef_row' = 0
  BY DEF IInv, WindowOK, realize_virt_arrays
<1>2. \A r \in Row : r >= 0
  BY DEF Row
<1>3. Contents' = Contents
  BY <1>1, <1>2 DEF Contents
<1> QED BY <1>1, <1>3 DEF realize_virt_arrays, Whole!Realize

LEMMA AccessRefines ==
  ASSUME IInv,
         NEW start \in 0 .. RowsInArray, NEW num \in 1 .. MaxAccess + 1,
         NEW writable \in BOOLEAN,
         access_virt_array(start, num, writable)
  PROVE  Whole!Access(start, num, writable)
<1> USE VirtualArrayAssumption
<1> DEFINE first == First(start, num)
<1>1. Whole!Legal(start, num, writable)
  <2>1. start + num <= RowsInArray /\ num <= MaxAccess
    BY DEF access_virt_array, BadAccess, IInv, TypeOK
  <2>2. ASSUME writable
        PROVE  start <= first_undef_row
    <3>1. ~(first_undef_row < start)
      BY <2>2 DEF access_virt_array, Undefined, WriterSkips
    <3> QED BY <3>1 DEF IInv, TypeOK
  <2>3. ASSUME ~writable, ~PreZero
        PROVE  start + num <= first_undef_row
    <3>1. Fresh(start, num) = {}
      BY <2>3 DEF access_virt_array, Undefined, ReaderAhead
    <3>2. ~(start + num - 1 >= first_undef_row)
      BY <3>1 DEF Fresh, IInv, TypeOK
    <3> QED BY <3>2 DEF IInv, TypeOK
  <2> QED BY <2>1, <2>2, <2>3 DEF Whole!Legal
<1>2. IInv'
  BY AccessKeepsInv
<1>3. Contents' \in [Row -> Values]
  <2>1. /\ rows_in_mem' \in Nat
        /\ cur_start_row' \in Nat
    BY <1>2 DEF IInv, TypeOK
  <2>2. SUFFICES ASSUME NEW r \in Row
                 PROVE  Contents'[r] \in Values
    BY DEF Contents
  <2>3. ASSUME cur_start_row' <= r, r < cur_start_row' + rows_in_mem'
        PROVE  r - cur_start_row' \in 0 .. rows_in_mem' - 1
    <3>1. r \in Nat
      BY <2>2 DEF Row
    <3> QED BY <2>1, <2>3, <3>1, OffsetInBuffer
  <2>4. mem_buffer' \in [0 .. rows_in_mem' - 1 -> Values]
        /\ store' \in [Row -> Values]
    BY <1>2 DEF IInv, TypeOK, Row, Buffer
  <2> QED BY <2>3, <2>4 DEF Contents
<1>4. ASSUME NEW r \in Row, r < first_undef_row
      PROVE  Contents'[r] = Contents[r]
  <2>1. first \in Nat
    BY WindowHoldsStrip DEF access_virt_array
  <2>2. /\ ~(r >= first_undef_row')
        /\ cur_start_row' = first /\ rows_in_mem' = rows_in_mem
        /\ store' = Kept(start, num)
    BY <1>4 DEF access_virt_array, IInv, TypeOK, Row
  <2>3. CASE first <= r /\ r < first + rows_in_mem
    <3>1. r - first \in Buffer(rows_in_mem) /\ first + (r - first) = r
      BY <2>1, <2>3 DEF Buffer, Row, IInv, TypeOK
    <3>2. r \notin Fresh(start, num)
      BY <1>4 DEF Fresh, Row, IInv, TypeOK
    <3>3. mem_buffer'[r - first] = Brought(start, num)[r - first]
      BY <3>1, <3>2 DEF access_virt_array
    <3>4. Contents'[r] = mem_buffer'[r - first]
      BY <2>2, <2>3 DEF Contents
    <3>5. Brought(start, num)[r - first] = Contents[r]
      BY <1>4, <2>3, MoveKeepsContents DEF access_virt_array
    <3> QED BY <3>3, <3>4, <3>5
  <2>4. CASE ~(first <= r /\ r < first + rows_in_mem)
    <3>1. Contents'[r] = Kept(start, num)[r]
      BY <2>2, <2>4 DEF Contents
    <3>2. Kept(start, num)[r] = Contents[r]
      BY <1>4, <2>4, MoveKeepsContents DEF access_virt_array
    <3> QED BY <3>1, <3>2
  <2> QED BY <2>3, <2>4
<1>5. ASSUME NEW r \in Row, r >= first_undef_row'
      PROVE  Contents'[r] = Contents[r]
  <2>1. r >= first_undef_row
    BY <1>5 DEF access_virt_array, IInv, TypeOK, Row
  <2> QED BY <1>5, <2>1 DEF Contents
<1>6. ASSUME NEW r \in Row, PreZero,
             r >= first_undef_row, ~(r >= first_undef_row')
      PROVE  Contents'[r] = Contents[r]
  <2>1. /\ first \in Nat
        /\ first <= start
        /\ start + num <= first + rows_in_mem
    BY WindowHoldsStrip DEF access_virt_array
  <2>2. writable /\ start <= first_undef_row
        /\ first_undef_row' = start + num
    BY <1>1, <1>6 DEF access_virt_array, Whole!Legal
  <2>3. r \in Fresh(start, num)
    BY <1>6, <2>2 DEF Fresh, Row, IInv, TypeOK
  <2>4. /\ r - first \in Buffer(rows_in_mem) /\ first + (r - first) = r
        /\ first <= r /\ r < first + rows_in_mem
    BY <2>1, <2>3 DEF Fresh, Buffer, Row, IInv, TypeOK
  <2>5. mem_buffer'[r - first] = Zero
    BY <1>6, <2>3, <2>4 DEF access_virt_array
  <2>6. cur_start_row' = first /\ rows_in_mem' = rows_in_mem
    BY DEF access_virt_array
  <2> QED BY <1>6, <2>4, <2>5, <2>6 DEF Contents
<1>7. ASSUME NEW r \in Row,
             r < first_undef_row \/ r >= first_undef_row' \/ PreZero
      PROVE  Contents'[r] = Contents[r]
  BY <1>4, <1>5, <1>6, <1>7 DEF IInv, TypeOK, Row
<1> QED
  BY <1>1, <1>3, <1>7
  DEF access_virt_array, Whole!Access, Whole!Row, Row, Whole!NoRead, NoRead

LEMMA RefusalRefines ==
  ASSUME IInv,
         NEW start \in 0 .. RowsInArray, NEW num \in 1 .. MaxAccess + 1,
         access_refused(start, num)
  PROVE  \A writable \in BOOLEAN : Whole!Refuse(start, num, writable)
<1>1. ~(start + num <= RowsInArray) \/ ~(num <= MaxAccess)
  BY VirtualArrayAssumption DEF access_refused, BadAccess
<1>2. Contents' = Contents
  BY DEF access_refused, ErrorExit, Contents
<1> QED
  BY <1>1, <1>2
  DEF access_refused, ErrorExit, Whole!Refuse, Whole!Legal, NoView,
      Whole!NoView, NoRead, Whole!NoRead

LEMMA UndefinedRefines ==
  ASSUME IInv,
         NEW start \in 0 .. RowsInArray, NEW num \in 1 .. MaxAccess + 1,
         NEW writable \in BOOLEAN,
         access_undefined(start, num, writable)
  PROVE  Whole!Refuse(start, num, writable)
<1> USE VirtualArrayAssumption
<1> DEFINE first == First(start, num)
<1>1. ~Whole!Legal(start, num, writable)
  <2>1. CASE WriterSkips(start, num, writable)
    BY <2>1 DEF WriterSkips, Whole!Legal, IInv, TypeOK
  <2>2. CASE ReaderAhead(start, num, writable)
    BY <2>2 DEF ReaderAhead, Fresh, Whole!Legal, IInv, TypeOK
  <2> QED BY <2>1, <2>2 DEF access_undefined, Undefined
<1>2. Contents' = Contents
  <2>1. SUFFICES ASSUME NEW r \in Row
                 PROVE  Contents'[r] = Contents[r]
    BY DEF Contents
  <2>2. /\ first_undef_row' = first_undef_row
        /\ cur_start_row' = first /\ rows_in_mem' = rows_in_mem
        /\ store' = Kept(start, num)
        /\ mem_buffer' = Brought(start, num)
    BY DEF access_undefined, ErrorExit
  <2>3. CASE r >= first_undef_row
    BY <2>2, <2>3 DEF Contents
  <2>4. CASE r < first_undef_row
    <3>1. ~(r >= first_undef_row)
      BY <2>4 DEF IInv, TypeOK, Row
    <3>2. Contents'[r] = IF first <= r /\ r < first + rows_in_mem
                         THEN Brought(start, num)[r - first]
                         ELSE Kept(start, num)[r]
      BY <2>2, <3>1 DEF Contents
    <3> QED BY <2>4, <3>2, MoveKeepsContents DEF access_undefined
  <2> QED BY <2>3, <2>4 DEF IInv, TypeOK, Row
<1> QED
  BY <1>1, <1>2
  DEF access_undefined, ErrorExit, Whole!Refuse, NoView, Whole!NoView, NoRead,
      Whole!NoRead

LEMMA ReadRefines ==
  ASSUME IInv, NEW r \in Row, ReadRow(r)
  PROVE  Whole!Read(r)
<1> USE VirtualArrayAssumption
<1>1. Contents' = Contents
  BY DEF ReadRow, Contents
<1>2. cur_start_row <= r /\ r < cur_start_row + rows_in_mem
  BY DEF ReadRow, InView, IInv, TypeOK, ViewOK, Row
<1>3. Contents[r] = mem_buffer[r - cur_start_row]
  <2>1. CASE r >= first_undef_row
    BY <2>1 DEF ReadRow, IInv, FreshIsZero, Contents
  <2>2. CASE ~(r >= first_undef_row)
    BY <1>2, <2>2 DEF Contents
  <2> QED BY <2>1, <2>2
<1> QED BY <1>1, <1>3 DEF ReadRow, Whole!Read, InView, Whole!InView

LEMMA WriteRefines ==
  ASSUME IInv, NEW r \in Row, NEW v \in Values, WriteRow(r, v)
  PROVE  Whole!Write(r, v)
<1> USE VirtualArrayAssumption
<1>1. /\ cur_start_row <= r
      /\ r < cur_start_row + rows_in_mem
      /\ r - cur_start_row \in Buffer(rows_in_mem)
      /\ ~(r >= first_undef_row)
  BY DEF WriteRow, InView, IInv, TypeOK, ViewOK, Row, Buffer
<1>2. Contents' = [Contents EXCEPT ![r] = v]
  <2>1. SUFFICES ASSUME NEW q \in Row
                 PROVE  Contents'[q] = IF q = r THEN v ELSE Contents[q]
    BY DEF Contents
  <2>2. Contents'[q] =
          IF q >= first_undef_row THEN Zero
          ELSE IF cur_start_row <= q /\ q < cur_start_row + rows_in_mem
          THEN mem_buffer'[q - cur_start_row] ELSE store[q]
    BY DEF Contents, WriteRow
  <2>3. CASE q = r
    <3>1. mem_buffer'[r - cur_start_row] = v
      BY <1>1 DEF WriteRow, IInv, TypeOK
    <3> QED BY <1>1, <2>2, <2>3, <3>1
  <2>4. CASE q # r
    <3>1. cur_start_row <= q /\ q < cur_start_row + rows_in_mem =>
            mem_buffer'[q - cur_start_row] = mem_buffer[q - cur_start_row]
      BY <1>1, <2>4 DEF WriteRow, Row, Buffer, IInv, TypeOK
    <3> QED BY <2>2, <2>4, <3>1 DEF Contents
  <2> QED BY <2>3, <2>4
<1> QED BY <1>2 DEF WriteRow, Whole!Write, InView, Whole!InView

LEMMA FreeRefines ==
  ASSUME IInv, free_pool
  PROVE  Whole!Free
<1>1. first_undef_row' = 0 /\ \A r \in Row : r >= 0
  BY DEF free_pool, Row
<1>2. Contents' = [r \in Row |-> Zero]
  BY <1>1 DEF Contents
<1> QED
  BY <1>1, <1>2
  DEF free_pool, Whole!Free, NoView, Whole!NoView, NoRead, Whole!NoRead, Row,
      Whole!Row

(* One plain array is all a caller can tell from the window, the backing   *)
(* store, the write-back and the zeroing on demand.                        *)
THEOREM Refinement == Spec => IsOneArray
<1>1. Init => Whole!Init
  BY InitRefines
<1>2. IInv /\ [Next]_vars => [Whole!Next]_Whole!avars
  <2> SUFFICES ASSUME IInv, [Next]_vars PROVE [Whole!Next]_Whole!avars
    OBVIOUS
  <2>1. CASE realize_virt_arrays
    BY <2>1, RealizeRefines DEF Whole!Next
  <2>2. CASE AccessSome
    <3>1. PICK start \in 0 .. RowsInArray, num \in 1 .. MaxAccess + 1 :
            \/ access_refused(start, num)
            \/ \E writable \in BOOLEAN :
                 \/ access_virt_array(start, num, writable)
                 \/ access_undefined(start, num, writable)
      BY <2>2 DEF AccessSome
    <3>2. \E writable \in BOOLEAN :
            \/ Whole!Access(start, num, writable)
            \/ Whole!Refuse(start, num, writable)
      BY <3>1, AccessRefines, RefusalRefines, UndefinedRefines
    <3> QED BY <3>2 DEF Whole!Next
  <2>3. CASE \E r \in Row : ReadRow(r)
    BY <2>3, ReadRefines DEF Whole!Next, Whole!Row, Row
  <2>4. CASE \E r \in Row, v \in Values : WriteRow(r, v)
    BY <2>4, WriteRefines DEF Whole!Next, Whole!Row, Row
  <2>5. CASE free_pool
    BY <2>5, FreeRefines DEF Whole!Next
  <2>6. CASE UNCHANGED vars
    BY <2>6 DEF vars, Whole!avars, Contents
  <2> QED BY <2>1, <2>2, <2>3, <2>4, <2>5, <2>6 DEF Next
<1> QED BY <1>1, <1>2, Inductive, PTL DEF Spec, Whole!Spec, IsOneArray
===============================================================================
