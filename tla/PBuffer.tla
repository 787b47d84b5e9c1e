------------------------------- MODULE PBuffer -------------------------------
(***************************************************************************)
(* pBuffer, the growing byte buffer that answers are put together in: how  *)
(* big it is, how big it takes itself to be, and how much of what was put  *)
(* into it is there. A pBuffer(256) made for one answer begins with room   *)
(* reserved for the answer's header; a session's source_ also receives the *)
(* bodies of requests and is used again and again.                         *)
(***************************************************************************)
EXTENDS Naturals

CONSTANTS
  InitSize,     \* the constructor's argument
  HeaderSize,   \* bytes reserved with the tag Header; 0 in source_
  RecordSizes,  \* what is put in: structs of rows, and strings
  BodySizes,    \* sizes of request bodies read into it; none in an answer's
  MaxBytes      \* bound: records are put in up to here

ASSUME PBufferAssumption ==
  /\ InitSize \in Nat /\ HeaderSize \in Nat /\ HeaderSize <= InitSize
  /\ RecordSizes \subseteq Nat
  /\ BodySizes \subseteq Nat
  /\ MaxBytes \in Nat

VARIABLES
  size,   \* _size
  cap,    \* bytes allocated at _data
  next,   \* next_input_point
  kept,   \* of the bytes put in since the last reset, how many from the first on are there
  large   \* history: a record was bigger than the buffer took itself to be, or a body
          \* bigger than what is allocated

buffer == <<size, cap, next, kept, large>>

BufferTypeOK ==
  /\ size \in Nat /\ cap \in Nat /\ next \in Nat /\ kept \in Nat
  /\ large \in BOOLEAN

\* pBuffer(size), then reserve_with_tag or nothing.
Built ==
  /\ size = InitSize /\ cap = InitSize
  /\ next = HeaderSize /\ kept = HeaderSize
  /\ large = FALSE

Least(a, b) == IF a < b THEN a ELSE b

\* Faulty variant: a_src in place of nsrc, which leaves next_input_point alone.
TakeBodyAnew(n) ==
  /\ size' = n
  /\ cap' = n
  /\ kept' = next
  /\ UNCHANGED <<next, large>>

\* nsrc: the buffer takes itself to be as big as the body read into it.
TakeBody(n) ==
  /\ size' = n
  /\ next' = n
  /\ kept' = n
  /\ cap' = cap
  /\ large' = (large \/ n > cap)

\* init_record, at the end of a task.
InitRecord ==
  /\ next' = 0
  /\ kept' = 0
  /\ UNCHANGED <<size, cap, large>>

\* Faulty variants: no room is made, or what there is is not copied.
AllocateInPlace(n) ==
  /\ next + n <= MaxBytes
  /\ next' = next + n
  /\ kept' = kept + n
  /\ large' = (large \/ n > size)
  /\ UNCHANGED <<size, cap>>

AllocateAfresh(n) ==
  /\ next + n <= MaxBytes
  /\ IF next + n > size
     THEN size' = 2 * size /\ cap' = 2 * size /\ kept' = 0
     ELSE UNCHANGED <<size, cap>> /\ kept' = kept + n
  /\ next' = next + n
  /\ large' = (large \/ n > size)

\* allocate_some: a record that does not fit doubles the buffer, once, and _size
\* bytes are copied. Then it is put in, fit or not.
Allocate(n) ==
  /\ next + n <= MaxBytes
  /\ IF next + n > size
     THEN /\ size' = 2 * size
          /\ cap' = 2 * size
          /\ kept' = Least(kept, size) + (IF kept = next THEN n ELSE 0)
     ELSE /\ UNCHANGED <<size, cap>>
          /\ kept' = kept + (IF kept = next THEN n ELSE 0)
  /\ next' = next + n
  /\ large' = (large \/ n > size)

Use ==
  \/ \E n \in BodySizes : TakeBody(n)
  \/ BodySizes # {} /\ InitRecord
  \/ \E n \in RecordSizes : Allocate(n)

Buffer == Built /\ [][Use]_buffer

-----------------------------------------------------------------------------
\* As long as no record was bigger than the buffer took itself to be when it was
\* put in, one doubling makes room for it: nothing is written past the buffer, it
\* takes itself to be no bigger than it is, and all that was put in is there.
InBounds == ~large => next <= size /\ size <= cap /\ kept = next

\* An answer that is put together in a buffer of its own, its records no bigger than
\* the buffer was made, is there whole whatever its length: what
\* response_req_get_new_ivt and response_req_get_new_conc count on when they write
\* written_size() bytes from src().
Whole ==
  BodySizes = {} /\ (\A n \in RecordSizes : n <= InitSize) => next <= cap /\ kept = next
=============================================================================
