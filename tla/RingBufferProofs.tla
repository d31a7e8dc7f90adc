-------------------------- MODULE RingBufferProofs --------------------------
(***************************************************************************)
(* For every capacity and every set of values: the indices of the ring     *)
(* buffer stay in range and in step, and the ring buffer implements the    *)
(* bounded queue.                                                          *)
(***************************************************************************)
EXTENDS RingBuffer, SequenceTheorems, TLAPS

\* The inductive invariant.  TypeOK alone is not inductive for the refinement:
\* a push writes the slot after the last value only because tail agrees with
\* head and count.
IInv == TypeOK /\ IndicesAgree

\* What the wrap-around "% rb->capacity" computes on the sums the code forms.
LEMMA Wrap ==
  \A x \in 0 .. 2 * Capacity - 1 :
    /\ x % Capacity \in Slot
    /\ x % Capacity = IF x < Capacity THEN x ELSE x - Capacity
<1> SUFFICES ASSUME NEW x \in 0 .. 2 * Capacity - 1
             PROVE  /\ x % Capacity \in Slot
                    /\ x % Capacity = IF x < Capacity THEN x ELSE x - Capacity
  OBVIOUS
<1>1. CASE x < Capacity
  BY <1>1, CapacityAssumption, Z3 DEF Slot
<1>2. CASE x >= Capacity
  <2>1. x - Capacity \in 0 .. Capacity - 1
    BY <1>2, CapacityAssumption
  <2>2. x = Capacity * 1 + (x - Capacity)
    BY CapacityAssumption
  <2>3. x % Capacity = x - Capacity
    BY <2>1, <2>2, CapacityAssumption, Z3
  <2> QED
    BY <2>1, <2>3, <1>2, CapacityAssumption DEF Slot
<1> QED
  BY <1>1, <1>2, CapacityAssumption

\* A walk over n slots is a sequence of n values: position i is in the slot
\* i - 1 places after the first one.
LEMMA WalkType ==
  ASSUME NEW b \in [Slot -> Value], NEW h \in Slot, NEW n \in 0 .. Capacity
  PROVE  /\ Walk(b, h, n) \in Seq(Value)
         /\ Len(Walk(b, h, n)) = n
         /\ \A i \in 1 .. n : /\ Walk(b, h, n)[i] = b[(h + i - 1) % Capacity]
                              /\ (h + i - 1) % Capacity \in Slot
<1>1. \A i \in 1 .. n : (h + i - 1) % Capacity \in Slot
  BY Wrap, CapacityAssumption DEF Slot
<1>2. n \in Nat
  BY CapacityAssumption
<1>3. Walk(b, h, n) \in [1 .. n -> Value]
  BY <1>1 DEF Walk
<1>4. Walk(b, h, n) \in Seq(Value) /\ Len(Walk(b, h, n)) = n
  BY <1>2, <1>3
<1> QED
  BY <1>1, <1>3, <1>4 DEF Walk

LEMMA InitIInv == Init => IInv
  BY CapacityAssumption, NullAssumption, Wrap DEF Init, IInv, TypeOK, IndicesAgree, Slot

\* Moving an index one slot on keeps it in the array and commutes with the
\* wrap-around of a longer walk.
LEMMA StepIndex ==
  ASSUME NEW h \in Slot, NEW n \in 0 .. Capacity
  PROVE  /\ (h + n) % Capacity \in Slot
         /\ n < Capacity => (((h + n) % Capacity) + 1) % Capacity = (h + (n + 1)) % Capacity
         /\ n < Capacity => (((h + 1) % Capacity) + n) % Capacity = (h + (n + 1)) % Capacity
<1>1. h + n \in 0 .. 2 * Capacity - 1
  BY CapacityAssumption DEF Slot
<1>2. (h + n) % Capacity \in Slot
  BY <1>1, Wrap
<1>3. ASSUME n < Capacity
      PROVE  (((h + n) % Capacity) + 1) % Capacity = (h + (n + 1)) % Capacity
  <2>1. h + (n + 1) \in 0 .. 2 * Capacity - 1
    BY <1>3, CapacityAssumption DEF Slot
  <2>2. ((h + n) % Capacity) + 1 \in 0 .. 2 * Capacity - 1
    BY <1>2, CapacityAssumption DEF Slot
  <2>3. CASE h + n < Capacity
    <3>1. (h + n) % Capacity = h + n
      BY <1>1, <2>3, Wrap
    <3> QED
      BY <3>1 DEF Slot
  <2>4. CASE h + n >= Capacity
    <3>1. (h + n) % Capacity = (h + n) - Capacity
      BY <1>1, <2>4, Wrap, CapacityAssumption
    <3>2. (h + (n + 1)) % Capacity = (h + (n + 1)) - Capacity
      <4>1. ~ (h + (n + 1) < Capacity)
        BY <2>4, CapacityAssumption DEF Slot
      <4> QED
        BY <2>1, <4>1, Wrap
    <3>3. (h + n) - Capacity + 1 \in 0 .. Capacity - 1
      BY <1>3, <2>4, CapacityAssumption DEF Slot
    <3>4. ((h + n) - Capacity + 1) % Capacity = (h + n) - Capacity + 1
      BY <3>3, Wrap, CapacityAssumption
    <3> QED
      BY <3>1, <3>2, <3>4, CapacityAssumption DEF Slot
  <2> QED
    BY <2>3, <2>4, CapacityAssumption DEF Slot
<1>4. ASSUME n < Capacity
      PROVE  (((h + 1) % Capacity) + n) % Capacity = (h + (n + 1)) % Capacity
  <2>1. h + (n + 1) \in 0 .. 2 * Capacity - 1 /\ h + 1 \in 0 .. 2 * Capacity - 1
    BY <1>4, CapacityAssumption DEF Slot
  <2>2. CASE h + 1 < Capacity
    <3>1. (h + 1) % Capacity = h + 1
      BY <2>1, <2>2, Wrap
    <3> QED
      BY <3>1 DEF Slot
  <2>3. CASE h + 1 = Capacity
    <3>1. (h + 1) % Capacity = 0
      BY <2>1, <2>3, Wrap, CapacityAssumption
    <3>2. n \in 0 .. 2 * Capacity - 1 /\ n % Capacity = n
      BY <1>4, Wrap, CapacityAssumption
    <3>3. (h + (n + 1)) % Capacity = (h + (n + 1)) - Capacity
      BY <2>1, <2>3, Wrap, CapacityAssumption DEF Slot
    <3> QED
      BY <3>1, <3>2, <3>3, <2>3, CapacityAssumption DEF Slot
  <2> QED
    BY <2>2, <2>3, CapacityAssumption DEF Slot
<1> QED
  BY <1>2, <1>3, <1>4

\* Fewer than a full turn apart, two slots of a walk differ.
LEMMA OtherSlot ==
  ASSUME NEW h \in Slot, NEW n \in 0 .. Capacity, n # Capacity, NEW i \in 1 .. n
  PROVE  (h + i - 1) % Capacity # (h + n) % Capacity
<1>1. /\ h \in Nat /\ n \in Nat /\ i \in Nat /\ Capacity \in Nat
      /\ h < Capacity /\ n < Capacity /\ 1 <= i /\ i <= n
  BY CapacityAssumption DEF Slot
<1> DEFINE x == h + i - 1
           y == h + n
<1>2. x \in 0 .. 2 * Capacity - 1 /\ y \in 0 .. 2 * Capacity - 1 /\ x < y /\ y - x < Capacity
  BY <1>1
<1>3. x % Capacity = IF x < Capacity THEN x ELSE x - Capacity
  BY <1>2, Wrap
<1>4. y % Capacity = IF y < Capacity THEN y ELSE y - Capacity
  BY <1>2, Wrap
<1>5. x \in Int /\ y \in Int
  BY <1>1
<1> HIDE DEF x, y
<1>6. x % Capacity # y % Capacity
  BY <1>1, <1>2, <1>3, <1>4, <1>5
<1> QED
  BY <1>6 DEF x, y

LEMMA NextIInv == IInv /\ [Next]_vars => IInv'
<1> SUFFICES ASSUME IInv, [Next]_vars
             PROVE  IInv'
  OBVIOUS
<1> USE CapacityAssumption, NullAssumption
<1>0. 0 % Capacity = 0 /\ 0 \in Slot /\ 1 \in 0 .. Capacity
  BY Wrap DEF Slot
<1>1. CASE Create
  BY <1>0, <1>1 DEF Create, IInv, TypeOK, IndicesAgree, Slot
<1>2. ASSUME NEW v \in Value, Push(v)
      PROVE  IInv'
  <2>1. CASE rb = LIVE /\ count # Capacity
    <3>1. count < Capacity /\ count \in Nat
      BY <2>1 DEF IInv, TypeOK
    <3>2. (tail + 1) % Capacity = (head + (count + 1)) % Capacity
      BY <3>1, StepIndex DEF IInv, TypeOK, IndicesAgree
    <3>3. (tail + 1) % Capacity \in Slot
      BY <1>0, StepIndex DEF IInv, TypeOK
    <3> QED
      BY <1>2, <2>1, <3>1, <3>2, <3>3 DEF Push, Return, IInv, TypeOK, IndicesAgree
  <2>2. CASE ~(rb = LIVE /\ count # Capacity)
    BY <1>2, <2>2 DEF Push, Return, IInv, TypeOK, IndicesAgree
  <2> QED
    BY <2>1, <2>2
<1>3. CASE Pop
  <2>1. CASE rb = LIVE /\ count # 0
    <3>1. count - 1 \in 0 .. Capacity /\ count - 1 < Capacity /\ (count - 1) + 1 = count
      BY <2>1 DEF IInv, TypeOK
    <3>2. (head + 1) % Capacity \in Slot
      BY <1>0, StepIndex DEF IInv, TypeOK
    <3>3. (((head + 1) % Capacity) + (count - 1)) % Capacity = (head + count) % Capacity
      BY <3>1, StepIndex DEF IInv, TypeOK
    <3> QED
      BY <1>3, <2>1, <3>1, <3>2, <3>3 DEF Pop, Return, IInv, TypeOK, IndicesAgree
  <2>2. CASE ~(rb = LIVE /\ count # 0)
    BY <1>3, <2>2 DEF Pop, Return, IInv, TypeOK, IndicesAgree
  <2> QED
    BY <2>1, <2>2
<1>4. CASE Peek
  BY <1>4 DEF Peek, Return, IInv, TypeOK, IndicesAgree
<1>5. CASE Clear
  BY <1>0, <1>5 DEF Clear, Reset, Return, IInv, TypeOK, IndicesAgree
<1>6. CASE Destroy
  BY <1>0, <1>6 DEF Destroy, Reset, Return, IInv, TypeOK, IndicesAgree
<1>7. CASE UNCHANGED vars
  BY <1>7 DEF vars, IInv, TypeOK, IndicesAgree
<1> QED
  BY <1>1, <1>2, <1>3, <1>4, <1>5, <1>6, <1>7 DEF Next

\* Along every behaviour of the ring buffer the indices stay inside the array
\* and tail stays count slots after head.
THEOREM RingInvariant == Spec => [](TypeOK /\ IndicesAgree)
<1>1. Init => IInv
  BY InitIInv
<1>2. IInv /\ [Next]_vars => IInv'
  BY NextIInv
<1> QED
  BY <1>1, <1>2, PTL DEF Spec, IInv

-----------------------------------------------------------------------------
(* The refinement *)

\* An empty ring is the empty sequence, whatever the slots still hold.
LEMMA EmptyContents ==
  ASSUME TypeOK
  PROVE  (Contents = <<>>) <=> (count = 0)
  BY WalkType DEF TypeOK, Contents

\* The oldest value is the one in the slot at head.
LEMMA HeadOfContents ==
  ASSUME TypeOK, count # 0
  PROVE  Head(Contents) = buffer[head]
<1>1. 1 \in 1 .. count /\ (head + 1 - 1) = head
  BY CapacityAssumption DEF TypeOK, Slot
<1>2. head % Capacity = head
  BY Wrap, CapacityAssumption DEF TypeOK, Slot
<1>3. Contents[1] = buffer[head]
  BY <1>1, <1>2, WalkType DEF TypeOK, Contents
<1> QED
  BY <1>3, WalkType DEF TypeOK, Contents

\* A push writes behind the last value and disturbs no other.
LEMMA PushAppends ==
  ASSUME IInv, IInv', NEW v \in Value, count # Capacity,
         buffer' = [buffer EXCEPT ![tail] = v], count' = count + 1, head' = head
  PROVE  Contents' = Append(Contents, v)
<1> USE CapacityAssumption
<1>0. count \in Nat /\ head \in Nat /\ head < Capacity /\ count <= Capacity
  BY DEF IInv, TypeOK, Slot
<1>1. /\ Contents \in Seq(Value) /\ Len(Contents) = count
      /\ Contents' \in Seq(Value) /\ Len(Contents') = count + 1
  BY WalkType DEF IInv, TypeOK, Contents
<1>2. /\ Append(Contents, v) \in Seq(Value)
      /\ Len(Append(Contents, v)) = count + 1
  BY <1>1
<1>3. ASSUME NEW i \in 1 .. count + 1
      PROVE  Contents'[i] = Append(Contents, v)[i]
  <2>1. Contents'[i] = buffer'[(head + i - 1) % Capacity]
    BY DEF Contents, Walk
  <2>2. CASE i = count + 1
    <3>1. (head + i - 1) % Capacity = tail
      BY <2>2 DEF IInv, TypeOK, IndicesAgree, Slot
    <3>2. Contents'[i] = v
      BY <2>1, <3>1 DEF IInv, TypeOK
    <3> QED
      BY <2>2, <3>2, <1>1
  <2>3. CASE i \in 1 .. count
    <3>1. Append(Contents, v)[i] = Contents[i]
      BY <1>1, <2>3
    <3>2. head + i - 1 \in 0 .. 2 * Capacity - 1 /\ head + count \in 0 .. 2 * Capacity - 1
      BY <2>3 DEF IInv, TypeOK, Slot
    <3>3. (head + i - 1) % Capacity # tail
      BY <1>0, <2>3, OtherSlot DEF IInv, TypeOK, IndicesAgree
    <3>4. buffer'[(head + i - 1) % Capacity] = buffer[(head + i - 1) % Capacity]
      BY <3>2, <3>3, Wrap DEF IInv, TypeOK
    <3>5. Contents[i] = buffer[(head + i - 1) % Capacity]
      BY <2>3 DEF Contents, Walk
    <3> QED
      BY <2>1, <3>1, <3>4, <3>5
  <2>4. i = count + 1 \/ i \in 1 .. count
    BY <1>0
  <2> QED
    BY <2>2, <2>3, <2>4
<1> QED
  BY <1>1, <1>2, <1>3, SeqEqual

\* A pop moves head past the oldest value and shifts every other by one.
LEMMA PopTails ==
  ASSUME IInv, IInv', count # 0, buffer' = buffer, count' = count - 1,
         head' = (head + 1) % Capacity
  PROVE  Contents' = Tail(Contents)
<1> USE CapacityAssumption
<1>0. count \in Nat /\ head \in Nat /\ head < Capacity /\ count <= Capacity
  BY DEF IInv, TypeOK, Slot
<1>1. /\ Contents \in Seq(Value) /\ Len(Contents) = count
      /\ Contents' \in Seq(Value) /\ Len(Contents') = count - 1
  BY WalkType DEF IInv, TypeOK, Contents
<1>2. Contents # <<>>
  BY EmptyContents DEF IInv
<1>3. /\ Tail(Contents) \in Seq(Value) /\ Len(Tail(Contents)) = count - 1
      /\ \A i \in 1 .. count - 1 : Tail(Contents)[i] = Contents[i + 1]
  BY <1>1, <1>2, HeadTailProperties
<1>4. ASSUME NEW i \in 1 .. count - 1
      PROVE  Contents'[i] = Tail(Contents)[i]
  <2>1. Contents'[i] = buffer[(((head + 1) % Capacity) + i - 1) % Capacity]
    BY DEF Contents, Walk
  <2>2. i - 1 \in 0 .. Capacity /\ i - 1 < Capacity
    BY DEF IInv, TypeOK
  <2>3. (((head + 1) % Capacity) + (i - 1)) % Capacity = (head + ((i - 1) + 1)) % Capacity
    BY <2>2, StepIndex DEF IInv, TypeOK
  <2>4. (head + 1) % Capacity \in Slot
    BY DEF IInv, TypeOK
  <2>5. Contents'[i] = buffer[(head + (i + 1) - 1) % Capacity]
    BY <2>1, <2>3, <2>4 DEF IInv, TypeOK, Slot
  <2>6. Contents[i + 1] = buffer[(head + (i + 1) - 1) % Capacity]
    <3>1. i + 1 \in 1 .. count
      BY <1>0
    <3> QED
      BY <3>1 DEF Contents, Walk
  <2> QED
    BY <2>5, <2>6, <1>3
<1> QED
  BY <1>1, <1>3, <1>4, SeqEqual

\* With no value stored, nothing but the empty sequence is left to walk.
LEMMA ClearEmpties ==
  ASSUME count' = 0
  PROVE  Contents' = <<>>
  BY DEF Contents, Walk

LEMMA InitRefines == Init => Abstract!Init
<1> SUFFICES ASSUME Init PROVE Abstract!Init
  OBVIOUS
<1>1. Contents = <<>>
  BY DEF Init, Contents, Walk
<1> QED
  BY <1>1 DEF Init, Abstract!Init, Quiet, Result, Abstract!Quiet, Abstract!Result,
              NULL, LIVE, Abstract!NULL, Abstract!LIVE

\* A call that returns an error, or changes nothing, leaves the queue alone.
LEMMA ReturnRefines ==
  ASSUME NEW err, Return(err)
  PROVE  Abstract!Refuse(err)
<1>1. Contents' = Contents
  BY DEF Return, Contents, Walk
<1> QED
  BY <1>1 DEF Return, Abstract!Refuse, Quiet, Result, Abstract!Quiet, Abstract!Result

\* Every step of the ring buffer is the same call on the queue.
LEMMA StepRefines ==
  ASSUME IInv, IInv', [Next]_vars
  PROVE  [Abstract!Next]_(Abstract!vars)
<1> USE DEF NULL, LIVE, Abstract!NULL, Abstract!LIVE
<1>0. Len(Contents) = count /\ count \in Nat /\ count <= Capacity /\ Capacity \in Nat
  <2>1. count \in Nat /\ count <= Capacity /\ Capacity \in Nat
    BY CapacityAssumption DEF IInv, TypeOK
  <2>2. Len(Contents) = count
    BY WalkType DEF IInv, TypeOK, Contents
  <2> QED
    BY <2>1, <2>2
<1>1. CASE Create
  <2>1. Contents' = <<>>
    BY <1>1, ClearEmpties DEF Create
  <2>2. Abstract!Create
    BY <1>1, <2>1 DEF Create, Abstract!Create, Quiet, Result, Abstract!Quiet, Abstract!Result
  <2> QED
    BY <2>2 DEF Abstract!Next
<1>2. ASSUME NEW v \in Value, Push(v)
      PROVE  Abstract!Push(v)
  <2>1. CASE rb = NULL
    BY <1>2, <2>1, ReturnRefines DEF Push, Abstract!Push
  <2>2. CASE rb = LIVE /\ count = Capacity
    BY <1>0, <1>2, <2>2, ReturnRefines DEF Push, Abstract!Push
  <2>3. CASE rb = LIVE /\ count # Capacity
    <3>1. Contents' = Append(Contents, v)
      BY <1>2, <2>3, PushAppends DEF Push
    <3>2. Len(Contents) < Capacity
      BY <1>0, <2>3
    <3> QED
      BY <1>2, <2>3, <3>1, <3>2
      DEF Push, Abstract!Push, Quiet, Result, Abstract!Quiet, Abstract!Result
  <2> QED
    BY <2>1, <2>2, <2>3 DEF IInv, TypeOK
<1>3. ASSUME Pop PROVE Abstract!Pop
  <2>1. CASE rb = NULL
    <3>1. Return("INVALID_PARAM")
      BY <1>3, <2>1 DEF Pop
    <3>2. Abstract!Refuse("INVALID_PARAM")
      BY <3>1, ReturnRefines
    <3> QED
      BY <2>1, <3>2 DEF Abstract!Pop
  <2>2. CASE rb = LIVE /\ count = 0
    <3>1. Return("NOT_FOUND")
      BY <1>3, <2>2 DEF Pop
    <3>2. Abstract!Refuse("NOT_FOUND")
      BY <3>1, ReturnRefines
    <3>3. Contents = <<>>
      BY <2>2, EmptyContents DEF IInv
    <3> QED
      BY <2>2, <3>2, <3>3 DEF Abstract!Pop
  <2>3. CASE rb = LIVE /\ count # 0
    <3>1. Contents' = Tail(Contents)
      BY <1>3, <2>3, PopTails DEF Pop
    <3>2. Contents # <<>> /\ Head(Contents) = buffer[head]
      BY <2>3, EmptyContents, HeadOfContents DEF IInv
    <3> QED
      BY <1>3, <2>3, <3>1, <3>2 DEF Pop, Abstract!Pop, Result, Abstract!Result
  <2> QED
    BY <2>1, <2>2, <2>3 DEF IInv, TypeOK
<1>4. ASSUME Peek PROVE Abstract!Peek
  <2>1. CASE rb = NULL
    <3>1. Return("INVALID_PARAM")
      BY <1>4, <2>1 DEF Peek
    <3>2. Abstract!Refuse("INVALID_PARAM")
      BY <3>1, ReturnRefines
    <3> QED
      BY <2>1, <3>2 DEF Abstract!Peek
  <2>2. CASE rb = LIVE /\ count = 0
    <3>1. Return("NOT_FOUND")
      BY <1>4, <2>2 DEF Peek
    <3>2. Abstract!Refuse("NOT_FOUND")
      BY <3>1, ReturnRefines
    <3>3. Contents = <<>>
      BY <2>2, EmptyContents DEF IInv
    <3> QED
      BY <2>2, <3>2, <3>3 DEF Abstract!Peek
  <2>3. CASE rb = LIVE /\ count # 0
    <3>1. Contents' = Contents
      BY <1>4, <2>3 DEF Peek, Contents, Walk
    <3>2. Contents # <<>> /\ Head(Contents) = buffer[head]
      BY <2>3, EmptyContents, HeadOfContents DEF IInv
    <3> QED
      BY <1>4, <2>3, <3>1, <3>2 DEF Peek, Abstract!Peek, Result, Abstract!Result
  <2> QED
    BY <2>1, <2>2, <2>3 DEF IInv, TypeOK
<1>5. Destroyed = Abstract!Discarded
  BY DEF Destroyed, Abstract!Discarded, NotNull, Abstract!NotNull
<1>6. ASSUME Clear PROVE Abstract!Clear
  <2>1. CASE rb = NULL
    <3>1. Return("OK")
      BY <1>6, <2>1 DEF Clear
    <3>2. Abstract!Refuse("OK")
      BY <3>1, ReturnRefines
    <3> QED
      BY <2>1, <3>2 DEF Abstract!Clear
  <2>2. CASE rb = LIVE
    <3>1. Contents' = <<>>
      BY <1>6, <2>2, ClearEmpties DEF Clear, Reset
    <3> QED
      BY <1>5, <1>6, <2>2, <3>1 DEF Clear, Reset, Abstract!Clear, Result, Abstract!Result
  <2> QED
    BY <2>1, <2>2 DEF IInv, TypeOK
<1>7. ASSUME Destroy PROVE Abstract!Destroy
  <2>1. CASE rb = NULL
    <3>1. Return("OK")
      BY <1>7, <2>1 DEF Destroy
    <3>2. Abstract!Refuse("OK")
      BY <3>1, ReturnRefines
    <3> QED
      BY <2>1, <3>2 DEF Abstract!Destroy
  <2>2. CASE rb = LIVE
    <3>1. Contents' = <<>>
      BY <1>7, <2>2, ClearEmpties DEF Destroy, Reset
    <3> QED
      BY <1>5, <1>7, <2>2, <3>1 DEF Destroy, Reset, Abstract!Destroy, Result, Abstract!Result
  <2> QED
    BY <2>1, <2>2 DEF IInv, TypeOK
<1>8. CASE UNCHANGED vars
  BY <1>8 DEF vars, Abstract!vars, Contents, Walk
<1> QED
  BY <1>1, <1>2, <1>3, <1>4, <1>6, <1>7, <1>8 DEF Next, Abstract!Next

\* common/ring_buffer.c is a bounded queue for every capacity: no wrap-around
\* of the indices loses, duplicates or reorders a value, and clear and destroy
\* hand exactly the stored values to the destructor.
THEOREM RingRefinesQueue == Spec => ImplementsQueue
<1>1. Init => Abstract!Init
  BY InitRefines
<1>2. IInv /\ IInv' /\ [Next]_vars => [Abstract!Next]_(Abstract!vars)
  BY StepRefines
<1>3. Spec => []IInv
  BY RingInvariant DEF IInv
<1> QED
  BY <1>1, <1>2, <1>3, PTL DEF Spec, ImplementsQueue, Abstract!Spec
=============================================================================
