---------------------------- MODULE PBufferProofs ----------------------------
(***************************************************************************)
(* Theorems about PBuffer, for every size of buffers, records and bodies.  *)
(***************************************************************************)
EXTENDS PBuffer, TLAPS

LEMMA TypeStep == BufferTypeOK /\ [Use]_buffer => BufferTypeOK'
<1> SUFFICES ASSUME BufferTypeOK, [Use]_buffer PROVE BufferTypeOK'
  OBVIOUS
<1>1. ASSUME NEW n \in BodySizes, TakeBody(n) PROVE BufferTypeOK'
  BY <1>1, PBufferAssumption DEF TakeBody, BufferTypeOK
<1>2. CASE InitRecord
  BY <1>2 DEF InitRecord, BufferTypeOK
<1>3. ASSUME NEW n \in RecordSizes, Allocate(n) PROVE BufferTypeOK'
  BY <1>3, PBufferAssumption DEF Allocate, Least, BufferTypeOK
<1>4. CASE UNCHANGED buffer
  BY <1>4 DEF buffer, BufferTypeOK
<1> QED
  BY <1>1, <1>2, <1>3, <1>4 DEF Use

\* InBounds is inductive: a record no bigger than size fits after one doubling,
\* because what is in the buffer is no more than size either.
LEMMA BoundsStep == BufferTypeOK /\ InBounds /\ [Use]_buffer => InBounds'
<1> SUFFICES ASSUME BufferTypeOK, InBounds, [Use]_buffer, ~large' PROVE InBounds'
  BY DEF InBounds
<1>1. ASSUME NEW n \in BodySizes, TakeBody(n) PROVE InBounds'
  <2>1. n \in Nat /\ cap \in Nat
    BY PBufferAssumption DEF BufferTypeOK
  <2>2. ~(n > cap)
    BY <1>1, Zenon DEF TakeBody
  <2>3. size' = n /\ next' = n /\ kept' = n /\ cap' = cap
    BY <1>1 DEF TakeBody
  <2> QED
    BY <2>1, <2>2, <2>3 DEF InBounds
<1>2. CASE InitRecord
  BY <1>2 DEF InitRecord, BufferTypeOK, InBounds
<1>3. ASSUME NEW n \in RecordSizes, Allocate(n) PROVE InBounds'
  <2>0. ~large /\ ~(n > size)
    BY <1>3, Zenon DEF Allocate
  <2>1. n \in Nat /\ ~large /\ n <= size
    BY <2>0, PBufferAssumption DEF BufferTypeOK
  <2>2. next <= size /\ size <= cap /\ kept = next
    BY <2>1 DEF InBounds
  <2>3. CASE next + n > size
    BY <1>3, <2>1, <2>2, <2>3 DEF Allocate, Least, BufferTypeOK, InBounds
  <2>4. CASE ~(next + n > size)
    BY <1>3, <2>1, <2>2, <2>4 DEF Allocate, BufferTypeOK, InBounds
  <2> QED
    BY <2>3, <2>4
<1>4. CASE UNCHANGED buffer
  BY <1>4 DEF buffer, InBounds
<1> QED
  BY <1>1, <1>2, <1>3, <1>4 DEF Use

LEMMA StartsInBounds == Built => BufferTypeOK /\ InBounds
<1> SUFFICES ASSUME Built PROVE BufferTypeOK /\ InBounds
  OBVIOUS
<1>1. InitSize \in Nat /\ HeaderSize \in Nat /\ HeaderSize <= InitSize
  BY PBufferAssumption
<1>2. size = InitSize /\ cap = InitSize /\ next = HeaderSize /\ kept = HeaderSize
  BY DEF Built
<1>3. large \in BOOLEAN
  BY Zenon DEF Built
<1> QED
  BY <1>1, <1>2, <1>3 DEF BufferTypeOK, InBounds

\* Nothing is written past a buffer unless a record is bigger than it takes itself
\* to be.
THEOREM NothingPastTheBuffer == Buffer => []InBounds
<1> QED
  BY StartsInBounds, TypeStep, BoundsStep, PTL DEF Buffer

\* In a buffer that no body is read into, size only grows.
Fitting   == BodySizes = {} /\ \A n \in RecordSizes : n <= InitSize
GrowsOnly == Fitting => size >= InitSize /\ ~large

\* An answer put together in a buffer of its own is whole, whatever its length, for
\* rows and names no bigger than the buffer was made.
THEOREM AnswerIsWhole == Buffer => []Whole
<1>1. Built => GrowsOnly
  BY PBufferAssumption DEF Built, GrowsOnly
<1>2. BufferTypeOK /\ GrowsOnly /\ [Use]_buffer => GrowsOnly'
  <2> SUFFICES ASSUME BufferTypeOK, GrowsOnly, [Use]_buffer, Fitting
               PROVE  size' >= InitSize /\ ~large'
    BY DEF GrowsOnly, Fitting
  <2>0. size >= InitSize /\ ~large
    BY DEF GrowsOnly
  <2>1. ASSUME NEW n \in RecordSizes, Allocate(n) PROVE size' >= InitSize /\ ~large'
    <3>1. n \in Nat /\ n <= InitSize /\ InitSize \in Nat /\ size \in Nat
      BY PBufferAssumption DEF Fitting, BufferTypeOK
    <3>2. size' >= InitSize
      BY <2>0, <2>1, <3>1 DEF Allocate
    <3>3. ~(n > size)
      BY <2>0, <3>1
    <3> QED
      BY <2>0, <2>1, <3>2, <3>3, Zenon DEF Allocate
  <2>2. CASE UNCHANGED buffer
    BY <2>0, <2>2 DEF buffer
  <2> QED
    BY <2>1, <2>2 DEF Use, Fitting
<1>3. BufferTypeOK /\ InBounds /\ GrowsOnly => Whole
  <2> SUFFICES ASSUME BufferTypeOK, InBounds, GrowsOnly, Fitting
               PROVE  next <= cap /\ kept = next
    BY DEF Whole, Fitting
  <2>1. next <= size /\ size <= cap /\ kept = next
    BY DEF InBounds, GrowsOnly
  <2> QED
    BY <2>1 DEF BufferTypeOK
<1> QED
  BY <1>1, <1>2, <1>3, StartsInBounds, TypeStep, BoundsStep, PTL DEF Buffer
=============================================================================
