------------------------------ MODULE WholeArray ------------------------------
(***************************************************************************)
(* What a virtual array of libjpeg's memory manager promises its callers:  *)
(* a plain array of rows, held in one piece.  An access names a strip of   *)
(* rows; until the next access the caller may read those rows and, when it *)
(* asked for a writable strip, write them.  Rows become defined in order,  *)
(* from row 0 up; a row that was never defined reads as zero when the      *)
(* array was requested with pre_zero and may not be read otherwise.        *)
(* VirtualArray implements this with a window over a backing store.        *)
(***************************************************************************)
EXTENDS Integers

CONSTANTS
  RowsInArray,   \* rows_in_array: total height of the array
  MaxAccess,     \* maxaccess: most rows one access may name
  PreZero,       \* pre_zero: fresh rows are to be zeroed
  Values,        \* what a row can hold
  Zero           \* the zeroed row

VARIABLES
  array,     \* row -> value; rows not yet defined hold Zero
  defined,   \* rows below this one are defined
  view,      \* the strip the caller holds
  got,       \* the last row the caller read in this strip, and its value
  phase      \* "unrealized", "open" or "failed"

avars == <<array, defined, view, got, phase>>

Row == 0 .. RowsInArray - 1

NoView == [start |-> 0, num |-> 0, writable |-> FALSE]
NoRead == [row |-> 0, value |-> Zero]

InView(r) == /\ view.start <= r
             /\ r < view.start + view.num

Legal(start, num, writable) ==
  /\ start + num <= RowsInArray
  /\ num <= MaxAccess
  /\ writable => start <= defined
  /\ ~writable /\ ~PreZero => start + num <= defined

Init ==
  /\ array = [r \in Row |-> Zero]
  /\ defined = 0
  /\ view = NoView
  /\ got = NoRead
  /\ phase = "unrealized"

Realize ==
  /\ phase = "unrealized"
  /\ phase' = "open"
  /\ UNCHANGED <<array, defined, view, got>>

(* A writable strip that reaches past the defined rows defines them: with  *)
(* zeroes under pre_zero, with anything at all otherwise.                  *)
Access(start, num, writable) ==
  /\ phase = "open"
  /\ Legal(start, num, writable)
  /\ view' = [start |-> start, num |-> num, writable |-> writable]
  /\ defined' = IF writable /\ start + num > defined
                THEN start + num ELSE defined
  /\ array' \in [Row -> Values]
  /\ \A r \in Row : (r < defined \/ r >= defined' \/ PreZero)
                       => array'[r] = array[r]
  /\ got' = NoRead
  /\ UNCHANGED phase

Refuse(start, num, writable) ==
  /\ phase = "open"
  /\ ~Legal(start, num, writable)
  /\ view' = NoView
  /\ got' = NoRead
  /\ phase' = "failed"
  /\ UNCHANGED <<array, defined>>

Read(r) ==
  /\ phase = "open"
  /\ InView(r)
  /\ got' = [row |-> r, value |-> array[r]]
  /\ UNCHANGED <<array, defined, view, phase>>

Write(r, v) ==
  /\ phase = "open"
  /\ InView(r)
  /\ view.writable
  /\ array' = [array EXCEPT ![r] = v]
  /\ UNCHANGED <<defined, view, got, phase>>

Free ==
  /\ phase # "unrealized"
  /\ array' = [r \in Row |-> Zero]
  /\ defined' = 0
  /\ view' = NoView
  /\ got' = NoRead
  /\ phase' = "unrealized"

Next ==
  \/ Realize
  \/ \E start \in 0 .. RowsInArray, num \in 1 .. MaxAccess + 1,
        writable \in BOOLEAN :
        Access(start, num, writable) \/ Refuse(start, num, writable)
  \/ \E r \in Row : Read(r)
  \/ \E r \in Row, v \in Values : Write(r, v)
  \/ Free

Spec == Init /\ [][Next]_avars
===============================================================================
