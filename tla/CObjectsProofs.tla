--------------------------- MODULE CObjectsProofs ---------------------------
(***************************************************************************)
(* Proofs about CObjects: for any number of binaries, any initial size of  *)
(* the weak array, any nesting of calls and whatever the client keeps, no  *)
(* structure is freed twice, every armed binary is registered once, and    *)
(* removing the package leaves neither a destructor nor a structure, but   *)
(* for allocations that ended with an exception.                           *)
(*                                                                         *)
(* None of these is inductive.  That Delete disarms everything needs every *)
(* armed binary to be registered; that a new binary is registered once     *)
(* needs the slots to hold nothing but binaries of the heap; that freeing  *)
(* is unique needs a structure to be allocated exactly while the one       *)
(* binary that owns it is in the heap.                                     *)
(***************************************************************************)
EXTENDS CObjects, SequenceTheorems, WellFoundedInduction, TLAPS

ObjDataOK ==
    /\ kind \in [Obj -> AllKinds \cup {"none"}]
    /\ inHeap \subseteq Obj
    /\ ptr \in [Obj -> Obj \cup {NIL}]
    /\ dtor \in [Obj -> {"none", "free", "nop", "dispose"}]
    /\ mem \in [Obj -> {"none", "live", "freed", "orphan", "lent", "ended"}]
    /\ threw \subseteq Obj

ArrayOK == mPointers \in Seq(Obj \cup {NIL})

\* What the collector may not take is in the heap.
ReachableInHeap == Reachable \subseteq inHeap

\* A name not used yet stands for nothing.
FreshIsUnused ==
    \A o \in Obj : kind[o] = "none" => o \notin inHeap /\ mem[o] = "none" /\ o \notin threw

\* A structure is allocated exactly while its own binary is in the heap.
OwnerIsLive == \A o \in inHeap : dtor[o] = "free" => ptr[o] = o /\ mem[o] = "live"
LiveIsOwned == \A o \in Obj : mem[o] = "live" => o \in inHeap /\ dtor[o] = "free"

\* Structures that never got a binary are those of allocations that threw.
OrphanThrew == \A o \in Obj : mem[o] = "orphan" => o \in threw

\* What AddArraySlot threw for is in no slot and nothing refers to it.
ThrewUnreached == \A o \in threw : o \notin Slots(mPointers) /\ o \notin Reachable

\* A binary without a pointer has no destructor of ours.
NullIsDisarmed == \A o \in inHeap : ptr[o] = NIL => dtor[o] = "dispose"

\* The weak array holds binaries of the heap; without a package it is empty.
SlotsInHeap == Slots(mPointers) \subseteq inHeap
NoArray == ~installed => mPointers = <<>>

\* No call is in progress without the package, and pointers in C memory are
\* fields of structures: a callback happens in a structure of ours.  Only a
\* certificate on loan has a lender.
CallsNeedPackage == ~installed => stack = <<>>
StackInHeap == stack \in Seq(inHeap)
LinksFromStructures ==
    \A l \in links : /\ l[1] \in Obj /\ l[3] \in Obj
                     /\ l[2] = "lender" => mem[l[1]] = "lent"

ObjIInv ==
    /\ ObjDataOK /\ ArrayOK /\ CallsNeedPackage /\ StackInHeap
    /\ LinksFromStructures
    /\ ReachableInHeap /\ FreshIsUnused
    /\ OwnerIsLive /\ LiveIsOwned /\ NullIsDisarmed
    /\ OrphanThrew /\ ThrewUnreached
    /\ SlotsInHeap /\ NoArray
    /\ EveryBinaryRegistered /\ NoStrayDestructor

-----------------------------------------------------------------------------
\* A nonempty set of nil slots has a first one (line 2145 of PMbedTLS.cpp).
LEMMA FirstNilIsNil ==
    ASSUME NEW arr \in Seq(Obj \cup {NIL}), NilSlots(arr) # {}
    PROVE  FirstNil(arr) \in NilSlots(arr)
<1> DEFINE R == {ss \in Nat \X Nat : ss[1] < ss[2]}
<1>0. IsWellFoundedOn(R, Nat)
  BY NatLessThanWellFounded, Zenon DEF OpToRel
<1> HIDE DEF R
<1>1. NilSlots(arr) \subseteq Nat
  BY DEF NilSlots
<1>2. \E x \in NilSlots(arr) : \A y \in NilSlots(arr) : ~(<<y, x>> \in R)
  BY <1>0, <1>1, WFMin
<1>3. PICK x \in NilSlots(arr) : \A y \in NilSlots(arr) : ~(<<y, x>> \in R)
  BY <1>2
<1>4. \A y \in NilSlots(arr) : x <= y
  <2> TAKE y \in NilSlots(arr)
  <2>1. x \in Nat /\ y \in Nat
    BY <1>1
  <2>2. ~(y < x)
    <3> SUFFICES ASSUME y < x PROVE FALSE
      OBVIOUS
    <3> <<y, x>> \in R
      BY <2>1 DEF R
    <3> QED BY <1>3
  <2> QED BY <2>1, <2>2
<1> QED BY <1>4 DEF FirstNil

\* Registering a binary that is in no slot gives it one slot and leaves the
\* slots of the others alone.
LEMMA Registering ==
    ASSUME NEW arr \in Seq(Obj \cup {NIL}), NEW o \in Obj, o \notin Slots(arr),
           NIL \notin Obj
    PROVE  LET r == RegisteredIn(arr, o)
           IN  /\ r \in Seq(Obj \cup {NIL})
               /\ Slots(r) = Slots(arr) \cup {o}
               /\ \E i \in 1 .. Len(r) :
                     r[i] = o /\ \A j \in 1 .. Len(r) : r[j] = o => j = i
               /\ Len(arr) <= Len(r)
               /\ \A p \in Obj \ {o} : \A i \in 1 .. Len(r) :
                     r[i] = p <=> i \in 1 .. Len(arr) /\ arr[i] = p
<1> DEFINE r == RegisteredIn(arr, o)
<1>0. \A i \in 1 .. Len(arr) : arr[i] # o /\ arr[i] \in Obj \cup {NIL}
  BY DEF Slots
<1>1. CASE NilSlots(arr) = {}
  <2>1. r = Append(arr, o)
    BY <1>1 DEF RegisteredIn
  <2>2. /\ r \in Seq(Obj \cup {NIL}) /\ Len(r) = Len(arr) + 1
        /\ \A i \in 1 .. Len(arr) : r[i] = arr[i]
        /\ r[Len(arr) + 1] = o
    BY <2>1, AppendProperties
  <2>3. Len(arr) \in Nat
    OBVIOUS
  <2> HIDE DEF r
  <2>4. Slots(r) = Slots(arr) \cup {o}
    BY <2>2, <2>3 DEF Slots
  <2>5. r[Len(arr) + 1] = o /\ \A j \in 1 .. Len(r) : r[j] = o => j = Len(arr) + 1
    BY <1>0, <2>2, <2>3
  <2>6. \A p \in Obj \ {o} : \A i \in 1 .. Len(r) :
            r[i] = p <=> i \in 1 .. Len(arr) /\ arr[i] = p
    BY <2>2, <2>3
  <2>7. \E i \in 1 .. Len(r) :
            r[i] = o /\ \A j \in 1 .. Len(r) : r[j] = o => j = i
    BY <2>2, <2>3, <2>5
  <2> QED BY <2>2, <2>3, <2>4, <2>6, <2>7 DEF r
<1>2. CASE NilSlots(arr) # {}
  <2> DEFINE n == FirstNil(arr)
  <2>1. n \in 1 .. Len(arr) /\ arr[n] = NIL
    BY <1>2, FirstNilIsNil DEF NilSlots
  <2> HIDE DEF n
  <2>2. r = [arr EXCEPT ![n] = o]
    BY <1>2 DEF RegisteredIn, n
  <2>3. /\ r \in Seq(Obj \cup {NIL}) /\ Len(r) = Len(arr)
        /\ \A i \in 1 .. Len(arr) : r[i] = IF i = n THEN o ELSE arr[i]
    BY <2>1, <2>2
  <2> HIDE DEF r
  <2>4. Slots(r) = Slots(arr) \cup {o}
    BY <2>1, <2>3 DEF Slots
  <2>5. r[n] = o /\ \A j \in 1 .. Len(r) : r[j] = o => j = n
    BY <1>0, <2>1, <2>3
  <2>6. \A p \in Obj \ {o} : \A i \in 1 .. Len(r) :
            r[i] = p <=> i \in 1 .. Len(arr) /\ arr[i] = p
    BY <2>1, <2>3
  <2>7. \E i \in 1 .. Len(r) :
            r[i] = o /\ \A j \in 1 .. Len(r) : r[j] = o => j = i
    BY <2>1, <2>3, <2>5
  <2> QED BY <2>3, <2>4, <2>6, <2>7 DEF r
<1> QED BY <1>1, <1>2

-----------------------------------------------------------------------------
LEMMA ObjInitially == ObjInit => ObjIInv
<1> SUFFICES ASSUME ObjInit PROVE ObjIInv
  OBVIOUS
<1> USE ObjectAssumption DEF ObjInit, NoObjects
<1>1. ObjDataOK
  BY DEF ObjDataOK, AllKinds
<1>2. ArrayOK /\ NoArray /\ SlotsInHeap
  BY DEF ArrayOK, NoArray, SlotsInHeap, Slots
<1>3. ReachableInHeap
  BY DEF ReachableInHeap, Reachable, OnStack
<1>4. FreshIsUnused /\ OwnerIsLive /\ LiveIsOwned /\ NullIsDisarmed
  BY DEF FreshIsUnused, OwnerIsLive, LiveIsOwned, NullIsDisarmed
<1>5. EveryBinaryRegistered /\ NoStrayDestructor /\ OrphanThrew /\ ThrewUnreached
  BY DEF EveryBinaryRegistered, NoStrayDestructor, OrphanThrew, ThrewUnreached
<1>6. CallsNeedPackage /\ StackInHeap /\ LinksFromStructures
  BY DEF CallsNeedPackage, StackInHeap, LinksFromStructures
<1> QED BY <1>1, <1>2, <1>3, <1>4, <1>5, <1>6 DEF ObjIInv

\* A step that only moves references, and makes nothing reachable that was
\* not, keeps the invariant.
LEMMA HeapUntouched ==
    ASSUME ObjIInv, UNCHANGED heapVars, Reachable' \subseteq Reachable,
           CallsNeedPackage', StackInHeap', LinksFromStructures'
    PROVE  ObjIInv'
<1> USE DEF heapVars
<1>1. ObjDataOK' /\ ArrayOK' /\ NoArray' /\ SlotsInHeap'
  BY DEF ObjIInv, ObjDataOK, ArrayOK, NoArray, SlotsInHeap, Slots
<1>2. FreshIsUnused' /\ OwnerIsLive' /\ LiveIsOwned' /\ NullIsDisarmed' /\ OrphanThrew'
  BY DEF ObjIInv, FreshIsUnused, OwnerIsLive, LiveIsOwned, NullIsDisarmed, OrphanThrew
<1>3. ReachableInHeap' /\ ThrewUnreached'
  BY DEF ObjIInv, ReachableInHeap, ThrewUnreached, Slots
<1>4. EveryBinaryRegistered' /\ NoStrayDestructor'
  <2>1. Slots(mPointers)' = Slots(mPointers)
    BY DEF Slots
  <2> QED BY <2>1 DEF ObjIInv, EveryBinaryRegistered, NoStrayDestructor
<1> QED BY <1>1, <1>2, <1>3, <1>4 DEF ObjIInv

\* The stack of calls after the innermost one has ended.
LEMMA Unwinding ==
    ASSUME StackInHeap, stack # <<>>, stack' = SubSeq(stack, 1, Len(stack) - 1)
    PROVE  stack' \in Seq(inHeap) /\ OnStack' \subseteq OnStack
<1>2. stack \in Seq(inHeap)
  BY DEF StackInHeap
<1>3. Len(stack) \in Nat \ {0}
  BY <1>2, EmptySeq
<1> DEFINE n == Len(stack) - 1
<1>4. n \in Nat /\ n < Len(stack)
  BY <1>3
<1>5. \A i \in 1 .. n : stack[i] \in inHeap
  BY <1>2, <1>3, <1>4
<1>6. stack' = SubSeq(stack, 1, n) /\ n = Len(stack) - 1
  OBVIOUS
<1> HIDE DEF n
<1> DEFINE t == SubSeq(stack, 1, n)
<1>7. /\ t \in Seq(inHeap)
      /\ Len(t) = IF 1 <= n THEN n - 1 + 1 ELSE 0
      /\ \A i \in 1 .. n - 1 + 1 : t[i] = stack[1 + i - 1]
  BY <1>4, <1>5, SubSeqProperties
<1>8. stack' = t
  BY <1>6
<1> HIDE DEF t
<1>9. Len(t) = n /\ \A i \in 1 .. n : t[i] = stack[i]
  BY <1>4, <1>7
<1>10. \A i \in 1 .. Len(stack') : i \in 1 .. Len(stack) /\ stack'[i] = stack[i]
  BY <1>3, <1>6, <1>8, <1>9
<1> QED BY <1>7, <1>8, <1>10 DEF OnStack

\* DoAllocateCObjectBinary, for a structure of its own, a certificate on
\* loan or a borrowed structure; registered or not.
LEMMA Allocating ==
    ASSUME ObjIInv, NIL \notin Obj, installed, NEW o \in Obj, NEW k \in AllKinds,
           NEW s \in Obj, NEW d \in {"free", "nop"}, NEW t \in Obj, Fresh(o),
           DoAllocateCObjectBinary(o, k, s, d),
           \/ /\ s = o /\ d = "free" /\ mem' = [mem EXCEPT ![o] = "live"]
              /\ links' = links
           \/ /\ d = "nop" /\ mem' = [mem EXCEPT ![o] = "lent"]
              /\ links' = links \cup {<<o, "lender", t>>}
           \/ d = "nop" /\ mem' = mem /\ links' = links,
           UNCHANGED <<installed, callbacks>>,
           stack' \in Seq(inHeap), OnStack' \subseteq OnStack
    PROVE  ObjIInv'
<1>0. /\ o \notin inHeap /\ mem[o] = "none" /\ o \notin Slots(mPointers)
      /\ o \notin threw /\ o \notin Reachable
  BY DEF ObjIInv, FreshIsUnused, Fresh, SlotsInHeap, ReachableInHeap
<1>a. ObjDataOK /\ inHeap' = inHeap \cup {o}
  BY DEF ObjIInv, DoAllocateCObjectBinary
<1>b. installed'
  OBVIOUS
<1>1. ObjDataOK'
  <2>1. threw' \subseteq Obj
    BY <1>a DEF ObjDataOK, DoAllocateCObjectBinary
  <2>2. /\ kind' \in [Obj -> AllKinds \cup {"none"}] /\ inHeap' \subseteq Obj
        /\ ptr' \in [Obj -> Obj \cup {NIL}]
        /\ dtor' \in [Obj -> {"none", "free", "nop", "dispose"}]
    BY <1>a DEF ObjDataOK, DoAllocateCObjectBinary
  <2>3. mem' \in [Obj -> {"none", "live", "freed", "orphan", "lent", "ended"}]
    BY <1>a DEF ObjDataOK
  <2> QED BY <2>1, <2>2, <2>3 DEF ObjDataOK
<1>c. /\ \A p \in Obj \ {o} : /\ kind'[p] = kind[p] /\ ptr'[p] = ptr[p]
                              /\ dtor'[p] = dtor[p] /\ mem'[p] = mem[p]
      /\ kind'[o] = k /\ ptr'[o] = s /\ dtor'[o] = d
      /\ \/ d = "free" /\ s = o /\ mem'[o] = "live"
         \/ d = "nop" /\ mem'[o] \in {"lent", "none"}
  BY <1>0, <1>a DEF ObjDataOK, DoAllocateCObjectBinary
<1>d. inHeap \subseteq Obj /\ k # "none"
  BY <1>a DEF ObjDataOK, AllKinds
<1>e. \/ /\ mPointers' = RegisteredIn(mPointers, o) /\ roots' = roots \cup {o}
         /\ threw' = threw
      \/ mPointers' = mPointers /\ roots' = roots /\ threw' = threw \cup {o}
  BY DEF DoAllocateCObjectBinary
<1>f. Reachable' \subseteq Reachable \cup {o} /\ (roots' = roots => Reachable' \subseteq Reachable)
  BY <1>e DEF Reachable
<1>2. ReachableInHeap'
  BY <1>f, <1>a DEF ReachableInHeap, ObjIInv
<1>3. FreshIsUnused'
  <2> SUFFICES ASSUME NEW p \in Obj, kind'[p] = "none"
               PROVE  p \notin inHeap' /\ mem'[p] = "none" /\ p \notin threw'
    BY DEF FreshIsUnused
  <2>1. p # o /\ kind[p] = "none"
    BY <1>c, <1>d
  <2>2. p \notin inHeap /\ mem[p] = "none" /\ p \notin threw
    BY <2>1 DEF FreshIsUnused, ObjIInv
  <2> QED BY <2>1, <2>2, <1>a, <1>c, <1>e
<1>4. OwnerIsLive'
  BY <1>0, <1>a, <1>c, <1>d DEF OwnerIsLive, ObjIInv
<1>5. LiveIsOwned'
  BY <1>0, <1>a, <1>c, <1>d DEF LiveIsOwned, ObjIInv
<1>6. NullIsDisarmed'
  BY <1>0, <1>a, <1>c, <1>d DEF NullIsDisarmed, ObjIInv
<1>g. OrphanThrew'
  BY <1>c, <1>e DEF OrphanThrew, ObjIInv
<1> DEFINE r == RegisteredIn(mPointers, o)
<1>7. mPointers \in Seq(Obj \cup {NIL})
  BY DEF ObjIInv, ArrayOK
<1>8. /\ r \in Seq(Obj \cup {NIL})
      /\ Slots(r) = Slots(mPointers) \cup {o}
      /\ \E i \in 1 .. Len(r) :
            r[i] = o /\ \A j \in 1 .. Len(r) : r[j] = o => j = i
      /\ Len(mPointers) <= Len(r)
      /\ \A p \in Obj \ {o} : \A i \in 1 .. Len(r) :
            r[i] = p <=> i \in 1 .. Len(mPointers) /\ mPointers[i] = p
  BY <1>0, <1>7, Registering
<1>h. mPointers' = r \/ mPointers' = mPointers
  BY <1>e
<1> HIDE DEF r
<1>i. Slots(mPointers)' = Slots(mPointers')
  BY DEF Slots
<1>j. Slots(mPointers') \subseteq Slots(mPointers) \cup {o}
  BY <1>8, <1>h
<1>9. ArrayOK' /\ NoArray'
  BY <1>7, <1>8, <1>b, <1>h DEF ArrayOK, NoArray
<1>10. SlotsInHeap'
  BY <1>i, <1>j, <1>a DEF SlotsInHeap, ObjIInv
<1>k. ThrewUnreached'
  <2> SUFFICES ASSUME NEW p \in threw'
               PROVE  p \notin Slots(mPointers') /\ p \notin Reachable'
    BY <1>i DEF ThrewUnreached
  <2>1. CASE p = o
    <3>1. mPointers' = mPointers /\ roots' = roots
      BY <1>0, <1>e, <2>1
    <3> QED BY <1>0, <1>f, <2>1, <3>1
  <2>2. CASE p # o
    <3>1. p \in threw
      BY <1>e, <2>2
    <3>2. p \notin Slots(mPointers) /\ p \notin Reachable
      BY <3>1 DEF ThrewUnreached, ObjIInv
    <3> QED BY <2>2, <3>2, <1>f, <1>j
  <2> QED BY <2>1, <2>2
<1>11. EveryBinaryRegistered'
  <2> SUFFICES ASSUME NEW p \in inHeap', ptr'[p] # NIL, p \notin threw'
               PROVE  \E i \in 1 .. Len(mPointers') :
                         /\ mPointers'[i] = p
                         /\ \A j \in 1 .. Len(mPointers') : mPointers'[j] = p => j = i
    BY <1>k, <1>i DEF EveryBinaryRegistered, ThrewUnreached
  <2>1. CASE p = o
    <3>1. mPointers' = r
      BY <1>e, <2>1 DEF r
    <3> QED BY <2>1, <3>1, <1>8
  <2>2. CASE p # o
    <3>1. p \in inHeap /\ p \in Obj \ {o} /\ ptr[p] # NIL /\ p \notin threw
      BY <2>2, <1>a, <1>c, <1>d, <1>e
    <3>2. PICK i \in 1 .. Len(mPointers) :
              /\ mPointers[i] = p
              /\ \A j \in 1 .. Len(mPointers) : mPointers[j] = p => j = i
      BY <3>1 DEF EveryBinaryRegistered, ObjIInv
    <3>3. CASE mPointers' = mPointers
      BY <3>2, <3>3
    <3>4. CASE mPointers' = r
      <4>1. Len(mPointers) \in Nat /\ Len(r) \in Nat
        BY <1>7, <1>8
      <4>2. i \in 1 .. Len(r)
        BY <3>2, <4>1, <1>8
      <4>3. r[i] = p /\ \A j \in 1 .. Len(r) : r[j] = p => j = i
        BY <3>1, <3>2, <4>2, <1>8
      <4> QED BY <3>4, <4>2, <4>3
    <3> QED BY <3>3, <3>4, <1>h
  <2> QED BY <2>1, <2>2
<1>12. NoStrayDestructor' /\ CallsNeedPackage'
  BY <1>b DEF NoStrayDestructor, CallsNeedPackage
<1>13. StackInHeap'
  BY <1>a DEF StackInHeap
<1>14. LinksFromStructures'
  <2> SUFFICES ASSUME NEW l \in links'
               PROVE  /\ l[1] \in Obj /\ l[3] \in Obj
                      /\ l[2] = "lender" => mem'[l[1]] = "lent"
    BY DEF LinksFromStructures
  <2>1. CASE l \in links
    <3>1. l[1] \in Obj /\ l[3] \in Obj /\ (l[2] = "lender" => mem[l[1]] = "lent")
      BY <2>1 DEF LinksFromStructures, ObjIInv
    <3> QED BY <3>1, <1>0, <1>c
  <2>2. CASE l \notin links
    <3>1. l = <<o, "lender", t>> /\ mem' = [mem EXCEPT ![o] = "lent"]
      BY <2>2
    <3> QED BY <3>1, <1>a DEF ObjDataOK
  <2> QED BY <2>1, <2>2
<1> QED BY <1>1, <1>2, <1>3, <1>4, <1>5, <1>6, <1>9, <1>10, <1>11, <1>12, <1>13, <1>14,
           <1>g, <1>k
        DEF ObjIInv

\* Structures lose their memory exactly with the binaries that own them.
LEMMA DestroyedAreOwners ==
    ASSUME ObjIInv, NIL \notin Obj, NEW bins, bins \subseteq inHeap
    PROVE  /\ Destroyed(bins) = {o \in bins : dtor[o] = "free"}
           /\ Destroyed(bins) \subseteq Obj
<1>1. \A o \in inHeap : dtor[o] = "free" => ptr[o] = o /\ o # NIL /\ o \in Obj
  BY DEF ObjIInv, OwnerIsLive, ObjDataOK
<1> QED BY <1>1 DEF Destroyed

\* A structure that never got its binary, or was freed before it did.
LEMMA Orphaning ==
    ASSUME ObjIInv, NIL \notin Obj, NEW o \in Obj, NEW k \in AllKinds, Fresh(o),
           NEW w \in {"orphan", "freed"},
           kind' = [kind EXCEPT ![o] = k], mem' = [mem EXCEPT ![o] = w],
           threw' = IF w = "orphan" THEN threw \cup {o} ELSE threw,
           UNCHANGED <<installed, inHeap, ptr, dtor, mPointers, roots,
                       callbacks, links, stack>>
    PROVE  ObjIInv'
<1>0. /\ ObjDataOK /\ o \notin inHeap /\ k # "none" /\ mem[o] = "none"
      /\ o \notin Slots(mPointers) /\ o \notin Reachable
  BY DEF ObjIInv, FreshIsUnused, Fresh, AllKinds, SlotsInHeap, ReachableInHeap
<1>1. ObjDataOK'
  BY <1>0 DEF ObjDataOK
<1>2. /\ \A p \in Obj \ {o} : kind'[p] = kind[p] /\ mem'[p] = mem[p]
      /\ kind'[o] = k /\ mem'[o] = w
      /\ threw \subseteq threw' /\ threw' \subseteq threw \cup {o}
  BY <1>0 DEF ObjDataOK
<1>3. FreshIsUnused'
  BY <1>0, <1>2 DEF FreshIsUnused, ObjIInv
<1>4. OwnerIsLive' /\ LiveIsOwned' /\ NullIsDisarmed'
  BY <1>0, <1>2 DEF OwnerIsLive, LiveIsOwned, NullIsDisarmed, ObjIInv, ObjDataOK
<1>5. ArrayOK' /\ NoArray' /\ SlotsInHeap'
  BY DEF ArrayOK, NoArray, SlotsInHeap, Slots, ObjIInv
<1>6. Slots(mPointers)' = Slots(mPointers) /\ Reachable' = Reachable
  BY DEF Slots, Reachable, OnStack
<1>7. ThrewUnreached' /\ ReachableInHeap'
  BY <1>0, <1>2, <1>6 DEF ThrewUnreached, ReachableInHeap, ObjIInv
<1>8. OrphanThrew'
  BY <1>2 DEF OrphanThrew, ObjIInv
<1>9. EveryBinaryRegistered'
  <2> SUFFICES ASSUME installed, NEW p \in inHeap, ptr[p] # NIL
               PROVE  IF p \in threw THEN p \notin Slots(mPointers) \cup Reachable
                      ELSE \E i \in 1 .. Len(mPointers) :
                              /\ mPointers[i] = p
                              /\ \A j \in 1 .. Len(mPointers) :
                                    mPointers[j] = p => j = i
    BY <1>0, <1>2, <1>6 DEF EveryBinaryRegistered
  <2> QED BY DEF EveryBinaryRegistered, ObjIInv
<1>10. NoStrayDestructor'
  BY <1>2, <1>6 DEF NoStrayDestructor, ObjIInv
<1>11. CallsNeedPackage' /\ StackInHeap'
  BY DEF CallsNeedPackage, StackInHeap, ObjIInv
<1>12. LinksFromStructures'
  BY <1>0, <1>2 DEF LinksFromStructures, ObjIInv
<1> QED BY <1>1, <1>3, <1>4, <1>5, <1>7, <1>8, <1>9, <1>10, <1>11, <1>12 DEF ObjIInv

\* Certificates freed with their session: no structure of ours is concerned.
LEMMA EndingCertificates ==
    ASSUME ObjIInv, NIL \notin Obj, NEW C, EndCertificates(C),
           \A o \in C : o \in Obj /\ mem[o] = "lent"
    PROVE  ObjIInv'
<1>0. /\ mem' = [o \in Obj |-> IF o \in C THEN "ended" ELSE mem[o]]
      /\ links' = {l \in links : l[1] \notin C}
      /\ UNCHANGED <<installed, kind, inHeap, ptr, dtor, mPointers, threw,
                     roots, callbacks, stack>>
  BY DEF EndCertificates
<1>1. ObjDataOK'
  BY <1>0 DEF ObjDataOK, ObjIInv
<1>2. ArrayOK' /\ NoArray' /\ SlotsInHeap' /\ CallsNeedPackage' /\ StackInHeap'
  BY <1>0 DEF ArrayOK, NoArray, SlotsInHeap, Slots, CallsNeedPackage, StackInHeap, ObjIInv
<1>3. Slots(mPointers)' = Slots(mPointers) /\ Reachable' = Reachable
  BY <1>0 DEF Slots, Reachable, OnStack
<1>4. ThrewUnreached' /\ ReachableInHeap' /\ EveryBinaryRegistered' /\ NoStrayDestructor'
  BY <1>0, <1>3 DEF ThrewUnreached, ReachableInHeap, EveryBinaryRegistered,
                    NoStrayDestructor, ObjIInv
<1>5. FreshIsUnused' /\ OrphanThrew' /\ NullIsDisarmed'
  BY <1>0 DEF FreshIsUnused, OrphanThrew, NullIsDisarmed, ObjIInv
<1>6. OwnerIsLive' /\ LiveIsOwned'
  BY <1>0 DEF OwnerIsLive, LiveIsOwned, ObjIInv, ObjDataOK
<1>7. LinksFromStructures'
  BY <1>0 DEF LinksFromStructures, ObjIInv
<1> QED BY <1>1, <1>2, <1>4, <1>5, <1>6, <1>7 DEF ObjIInv

\* Only certificates on loan are lent.
LEMMA LentAreLent ==
    ASSUME ObjIInv, NEW S
    PROVE  \A o \in LentBy(S) : o \in Obj /\ mem[o] = "lent"
BY DEF LentBy, ObjIInv, LinksFromStructures

\* PMbedTLS::New: a fresh array; nothing in the heap is armed.
LEMMA Installing == ObjIInv /\ NIL \notin Obj /\ InitialSlots \in Nat /\ Install => ObjIInv'
<1> SUFFICES ASSUME ObjIInv, NIL \notin Obj, InitialSlots \in Nat, Install
             PROVE  ObjIInv'
  OBVIOUS
<1>0. installed' /\ ~installed
  BY DEF Install
<1>1. mPointers' = [i \in 1 .. InitialSlots |-> NIL]
  BY DEF Install
<1>2. mPointers' \in Seq(Obj \cup {NIL}) /\ Len(mPointers') = InitialSlots
  BY <1>1
<1>3. ArrayOK' /\ NoArray' /\ SlotsInHeap'
  BY <1>0, <1>1, <1>2 DEF ArrayOK, NoArray, SlotsInHeap, Slots
<1>4. ObjDataOK'
  BY DEF ObjDataOK, ObjIInv, Install
<1>5. FreshIsUnused' /\ OwnerIsLive' /\ LiveIsOwned' /\ NullIsDisarmed'
  BY DEF FreshIsUnused, OwnerIsLive, LiveIsOwned, NullIsDisarmed, ObjIInv, Install
<1>a. OrphanThrew'
  BY DEF OrphanThrew, ObjIInv, Install
<1>b. Slots(mPointers)' = {}
  BY <1>1, <1>2 DEF Slots
<1>c. Reachable' = Reachable /\ threw' = threw /\ inHeap' = inHeap /\ ptr' = ptr
  BY DEF Reachable, OnStack, Install
<1>6. \A o \in inHeap : ptr[o] # NIL => o \in threw
  BY <1>0 DEF NoStrayDestructor, ObjIInv
<1>8. ReachableInHeap' /\ ThrewUnreached'
  BY <1>b, <1>c DEF ReachableInHeap, ThrewUnreached, ObjIInv
<1>7. EveryBinaryRegistered' /\ NoStrayDestructor'
  BY <1>0, <1>6, <1>8, <1>c DEF EveryBinaryRegistered, NoStrayDestructor, ThrewUnreached
<1>9. CallsNeedPackage' /\ StackInHeap' /\ LinksFromStructures'
  BY <1>0 DEF CallsNeedPackage, StackInHeap, LinksFromStructures, ObjIInv, Install
<1> QED BY <1>3, <1>4, <1>5, <1>7, <1>8, <1>9, <1>a DEF ObjIInv

\* PMbedTLS::Delete: every armed binary that was registered is disarmed.
LEMMA Deleting == ObjIInv /\ NIL \notin Obj /\ Delete => ObjIInv'
<1> SUFFICES ASSUME ObjIInv, NIL \notin Obj, Delete PROVE ObjIInv'
  OBVIOUS
<1> DEFINE bins == Slots(mPointers)
           D == Destroyed(bins)
           G == LentBy(D)
<1>0. /\ ~installed' /\ installed /\ stack = <<>> /\ stack' = <<>> /\ threw' = threw
      /\ inHeap' = inHeap /\ kind' = kind /\ roots' = roots /\ mPointers' = <<>>
  BY DEF Delete
<1>a. bins \subseteq inHeap /\ inHeap \subseteq Obj
  BY DEF ObjIInv, SlotsInHeap, ObjDataOK
<1>b. D = {o \in bins : dtor[o] = "free"}
  BY <1>a, DestroyedAreOwners
<1>c. \A o \in inHeap : ptr[o] # NIL /\ o \notin threw => o \in bins
  BY <1>0, <1>a DEF ObjIInv, EveryBinaryRegistered, Slots
<1>d. /\ ptr' = [o \in Obj |-> IF o \in bins THEN NIL ELSE ptr[o]]
      /\ dtor' = [o \in Obj |->
            IF o \in bins /\ ptr[o] # NIL THEN "dispose" ELSE dtor[o]]
      /\ mem' = [o \in Obj |-> IF o \in D \cup G THEN "freed" ELSE mem[o]]
      /\ callbacks' = {c \in callbacks : c[1] \notin D}
      /\ links' = {l \in links : l[1] \notin D \cup G}
  BY DEF Delete, FreeCObjectBinaries, DestroyStructures
<1>e. \A o \in G : o \in Obj /\ mem[o] = "lent"
  BY LentAreLent
<1>f. \A o \in threw : o \notin bins
  BY DEF ObjIInv, ThrewUnreached
<1> HIDE DEF bins, D, G
<1>1. ObjDataOK'
  BY <1>0, <1>d DEF ObjDataOK, ObjIInv
<1>2. \A o \in inHeap : o \notin threw => ptr'[o] = NIL /\ dtor'[o] = "dispose"
  <2> SUFFICES ASSUME NEW o \in inHeap, o \notin threw
               PROVE  ptr'[o] = NIL /\ dtor'[o] = "dispose"
    OBVIOUS
  <2>1. o \in Obj
    BY <1>a
  <2>2. CASE ptr[o] = NIL
    <3>1. dtor[o] = "dispose"
      BY <2>2 DEF ObjIInv, NullIsDisarmed
    <3> QED BY <2>1, <2>2, <3>1, <1>d
  <2>3. CASE ptr[o] # NIL
    BY <2>1, <2>3, <1>c, <1>d
  <2> QED BY <2>2, <2>3
<1>g. \A o \in threw \cap inHeap : /\ o \in Obj /\ o \notin D /\ o \notin bins
                                /\ ptr'[o] = ptr[o] /\ dtor'[o] = dtor[o]
  BY <1>a, <1>b, <1>d, <1>f
<1>3. \A o \in Obj : mem'[o] = "live" => mem[o] = "live" /\ o \in inHeap /\ o \in threw
  <2> SUFFICES ASSUME NEW o \in Obj, mem'[o] = "live"
               PROVE  mem[o] = "live" /\ o \in inHeap /\ o \in threw
    OBVIOUS
  <2>1. mem[o] = "live" /\ o \notin D
    BY <1>d
  <2>2. o \in inHeap /\ dtor[o] = "free" /\ ptr[o] = o
    BY <2>1 DEF ObjIInv, LiveIsOwned, OwnerIsLive
  <2> QED BY <2>1, <2>2, <1>b, <1>c
<1>4. FreshIsUnused'
  <2>1. \A o \in Obj : kind[o] = "none" =>
            /\ o \notin inHeap /\ mem[o] = "none" /\ o \notin D /\ o \notin G
            /\ o \notin threw
    BY <1>a, <1>b, <1>e DEF ObjIInv, FreshIsUnused
  <2> QED BY <2>1, <1>0, <1>d DEF FreshIsUnused
<1>5. OwnerIsLive'
  <2> SUFFICES ASSUME NEW o \in inHeap, dtor'[o] = "free"
               PROVE  ptr'[o] = o /\ mem'[o] = "live"
    BY <1>0 DEF OwnerIsLive
  <2>1. o \in threw
    BY <1>2
  <2>2. dtor[o] = "free" /\ ptr'[o] = ptr[o] /\ o \notin D /\ o \in Obj
    BY <2>1, <1>g
  <2>3. ptr[o] = o /\ mem[o] = "live"
    BY <2>2 DEF ObjIInv, OwnerIsLive
  <2> QED BY <2>2, <2>3, <1>d, <1>e
<1>h. LiveIsOwned'
  <2> SUFFICES ASSUME NEW o \in Obj, mem'[o] = "live"
               PROVE  o \in inHeap /\ dtor'[o] = "free"
    BY <1>0 DEF LiveIsOwned
  <2>1. mem[o] = "live" /\ o \in inHeap /\ o \in threw
    BY <1>3
  <2>2. dtor[o] = "free"
    BY <2>1 DEF ObjIInv, LiveIsOwned
  <2> QED BY <2>1, <2>2, <1>g
<1>i. NullIsDisarmed' /\ OrphanThrew'
  <2>1. \A o \in inHeap : ptr'[o] = NIL => dtor'[o] = "dispose"
    BY <1>2, <1>g DEF ObjIInv, NullIsDisarmed
  <2> QED BY <2>1, <1>0, <1>d DEF NullIsDisarmed, OrphanThrew, ObjIInv
<1>6. ArrayOK' /\ NoArray' /\ SlotsInHeap'
  BY <1>0 DEF ArrayOK, NoArray, SlotsInHeap, Slots
<1>7. EveryBinaryRegistered' /\ CallsNeedPackage'
  BY <1>0 DEF EveryBinaryRegistered, CallsNeedPackage
<1>j. Reachable' \subseteq Reachable
  BY <1>0, <1>d DEF Reachable, OnStack
<1>k. Slots(mPointers)' = {}
  BY <1>0 DEF Slots
<1>8. ReachableInHeap' /\ ThrewUnreached'
  BY <1>0, <1>j, <1>k DEF ReachableInHeap, ThrewUnreached, ObjIInv
<1>l. NoStrayDestructor'
  BY <1>0, <1>2, <1>8 DEF NoStrayDestructor, ThrewUnreached
<1>9. StackInHeap'
  BY <1>0 DEF StackInHeap
<1>m. LinksFromStructures'
  <2> SUFFICES ASSUME NEW l \in links, l[1] \notin D \cup G
               PROVE  /\ l[1] \in Obj /\ l[3] \in Obj
                      /\ l[2] = "lender" => mem'[l[1]] = "lent"
    BY <1>d DEF LinksFromStructures
  <2>1. l[1] \in Obj /\ l[3] \in Obj /\ (l[2] = "lender" => mem[l[1]] = "lent")
    BY DEF LinksFromStructures, ObjIInv
  <2> QED BY <2>1, <1>d
<1> QED BY <1>1, <1>4, <1>5, <1>6, <1>7, <1>8, <1>9, <1>h, <1>i, <1>l, <1>m DEF ObjIInv

\* The collector takes binaries out of the heap and out of the array.
LEMMA Collecting == ObjIInv /\ NIL \notin Obj /\ GarbageCollect => ObjIInv'
<1> SUFFICES ASSUME ObjIInv, NIL \notin Obj, GarbageCollect PROVE ObjIInv'
  OBVIOUS
<1> DEFINE garbage == inHeap \ Reachable
           D == Destroyed(garbage)
           G == LentBy(D)
<1>0. /\ inHeap' = inHeap \ garbage
      /\ mPointers' = [i \in 1 .. Len(mPointers) |->
            IF mPointers[i] \in garbage THEN NIL ELSE mPointers[i]]
      /\ mem' = [o \in Obj |-> IF o \in D \cup G THEN "freed" ELSE mem[o]]
      /\ callbacks' = {c \in callbacks : c[1] \notin D}
      /\ links' = {l \in links : l[1] \notin D \cup G}
      /\ installed' = installed /\ kind' = kind /\ ptr' = ptr /\ dtor' = dtor
      /\ roots' = roots /\ stack' = stack /\ threw' = threw
  BY DEF GarbageCollect, DestroyStructures
<1>a. D = {o \in garbage : dtor[o] = "free"}
  BY DestroyedAreOwners
<1>b. garbage \subseteq inHeap /\ inHeap \subseteq Obj /\ NIL \notin garbage
  BY DEF ObjIInv, ObjDataOK
<1>c. garbage \cap Reachable = {} /\ Reachable \subseteq inHeap
  BY DEF ObjIInv, ReachableInHeap
<1>d. \A o \in G : o \in Obj /\ mem[o] = "lent"
  BY LentAreLent
<1> HIDE DEF garbage, D, G
<1>1. ObjDataOK'
  BY <1>0, <1>b DEF ObjDataOK, ObjIInv
<1>2. FreshIsUnused'
  <2>1. \A o \in Obj : kind[o] = "none" =>
            /\ o \notin inHeap /\ mem[o] = "none" /\ o \notin D /\ o \notin G
            /\ o \notin threw
    BY <1>a, <1>b, <1>d DEF ObjIInv, FreshIsUnused
  <2> QED BY <2>1, <1>0 DEF FreshIsUnused
<1>3. OwnerIsLive'
  <2> SUFFICES ASSUME NEW o \in inHeap', dtor'[o] = "free"
               PROVE  ptr'[o] = o /\ mem'[o] = "live"
    BY DEF OwnerIsLive
  <2>1. o \in inHeap /\ o \notin garbage /\ o \in Obj /\ dtor[o] = "free"
    BY <1>0, <1>b
  <2>2. ptr[o] = o /\ mem[o] = "live"
    BY <2>1 DEF ObjIInv, OwnerIsLive
  <2> QED BY <2>1, <2>2, <1>0, <1>a, <1>d
<1>4. LiveIsOwned'
  <2> SUFFICES ASSUME NEW o \in Obj, mem'[o] = "live"
               PROVE  o \in inHeap' /\ dtor'[o] = "free"
    BY DEF LiveIsOwned
  <2>1. o \notin D /\ mem[o] = "live"
    BY <1>0
  <2>2. o \in inHeap /\ dtor[o] = "free"
    BY <2>1 DEF ObjIInv, LiveIsOwned
  <2> QED BY <2>1, <2>2, <1>0, <1>a
<1>5. NullIsDisarmed' /\ OrphanThrew'
  BY <1>0 DEF NullIsDisarmed, OrphanThrew, ObjIInv
<1>6. /\ mPointers' \in Seq(Obj \cup {NIL}) /\ Len(mPointers') = Len(mPointers)
      /\ mPointers \in Seq(Obj \cup {NIL})
  BY <1>0 DEF ObjIInv, ArrayOK
<1>7. ArrayOK'
  BY <1>6 DEF ArrayOK
<1>8. NoArray'
  BY <1>0, <1>6 DEF NoArray, ObjIInv
<1>9. SlotsInHeap'
  BY <1>0, <1>6 DEF SlotsInHeap, Slots, ObjIInv
<1>11. Reachable' \subseteq Reachable
  BY <1>0 DEF Reachable, OnStack
<1>14. ReachableInHeap'
  BY <1>11, <1>0, <1>c DEF ReachableInHeap
<1>15. ThrewUnreached'
  <2>1. Slots(mPointers)' \subseteq Slots(mPointers)
    BY <1>0, <1>6 DEF Slots
  <2> QED BY <2>1, <1>0, <1>11 DEF ThrewUnreached, ObjIInv
<1>16. NoStrayDestructor'
  BY <1>0, <1>11 DEF NoStrayDestructor, ObjIInv
<1>10. EveryBinaryRegistered'
  <2> SUFFICES ASSUME installed, NEW p \in inHeap', ptr[p] # NIL, p \notin threw
               PROVE  \E i \in 1 .. Len(mPointers) :
                         /\ mPointers'[i] = p
                         /\ \A j \in 1 .. Len(mPointers) : mPointers'[j] = p => j = i
    BY <1>0, <1>6, <1>15 DEF EveryBinaryRegistered, ThrewUnreached
  <2>1. p \in inHeap /\ p \notin garbage /\ p # NIL
    BY <1>0, <1>b
  <2>2. PICK i \in 1 .. Len(mPointers) :
            /\ mPointers[i] = p
            /\ \A j \in 1 .. Len(mPointers) : mPointers[j] = p => j = i
    BY <2>1 DEF EveryBinaryRegistered, ObjIInv
  <2> QED BY <2>1, <2>2, <1>0
<1>12. StackInHeap'
  <2>1. OnStack \subseteq Reachable
    BY <1>b DEF Reachable, OnStack, ObjIInv, StackInHeap
  <2>2. stack \in Seq(inHeap) /\ \A i \in 1 .. Len(stack) : stack[i] \in inHeap \ garbage
    BY <2>1, <1>c DEF OnStack, ObjIInv, StackInHeap
  <2> QED BY <2>2, <1>0 DEF StackInHeap
<1>13. CallsNeedPackage'
  BY <1>0 DEF CallsNeedPackage, ObjIInv
<1>17. LinksFromStructures'
  <2> SUFFICES ASSUME NEW l \in links, l[1] \notin D \cup G
               PROVE  /\ l[1] \in Obj /\ l[3] \in Obj
                      /\ l[2] = "lender" => mem'[l[1]] = "lent"
    BY <1>0 DEF LinksFromStructures
  <2>1. l[1] \in Obj /\ l[3] \in Obj /\ (l[2] = "lender" => mem[l[1]] = "lent")
    BY DEF LinksFromStructures, ObjIInv
  <2> QED BY <2>1, <1>0
<1> QED BY <1>1, <1>2, <1>3, <1>4, <1>5, <1>7, <1>8, <1>9, <1>10, <1>12, <1>13, <1>14,
           <1>15, <1>16, <1>17
        DEF ObjIInv

-----------------------------------------------------------------------------
\* A new structure and its binary, or the structure alone.
LEMMA NewStructureStep ==
    ASSUME ObjIInv, NIL \notin Obj, Kinds \subseteq AllKinds,
           NEW o \in Obj, NEW k, NewStructure(o, k)
    PROVE  ObjIInv'
<1>0. installed /\ k \in AllKinds /\ Fresh(o)
  BY DEF NewStructure
<1>1. CASE /\ DoAllocateCObjectBinary(o, k, o, "free")
           /\ mem' = [mem EXCEPT ![o] = "live"]
  <2>1. UNCHANGED <<installed, callbacks>> /\ links' = links /\ stack' = stack
    BY DEF NewStructure
  <2>2. stack' \in Seq(inHeap) /\ OnStack' \subseteq OnStack
    BY <2>1 DEF ObjIInv, StackInHeap, OnStack
  <2> QED BY <1>0, <1>1, <2>1, <2>2, Allocating
<1>2. CASE AllocationThrows(o, k)
  <2>1. /\ kind' = [kind EXCEPT ![o] = k] /\ mem' = [mem EXCEPT ![o] = "orphan"]
        /\ threw' = threw \cup {o}
        /\ UNCHANGED <<installed, inHeap, ptr, dtor, mPointers, roots,
                       callbacks, links, stack>>
    BY <1>2 DEF AllocationThrows, NewStructure
  <2> QED BY <1>0, <2>1, Orphaning
<1> QED BY <1>1, <1>2 DEF NewStructure

\* A binary with NOPDtor.
LEMMA BorrowedStep ==
    ASSUME ObjIInv, NIL \notin Obj, installed,
           NEW o \in Obj, NEW k \in AllKinds, NEW s \in Obj, BorrowedBinary(o, k, s),
           stack' \in Seq(inHeap), OnStack' \subseteq OnStack
    PROVE  ObjIInv'
<1>1. /\ Fresh(o) /\ DoAllocateCObjectBinary(o, k, s, "nop") /\ mem' = mem
      /\ UNCHANGED <<installed, callbacks>> /\ links' = links
  BY DEF BorrowedBinary
<1> QED BY <1>1, Allocating

\* A binary for a certificate of the session.
LEMMA LentStep ==
    ASSUME ObjIInv, NIL \notin Obj, installed, NEW o \in Obj, NEW t \in Obj, LentCertificate(o, t),
           stack' \in Seq(inHeap), OnStack' \subseteq OnStack
    PROVE  ObjIInv'
<1>1. /\ Fresh(o) /\ DoAllocateCObjectBinary(o, "crt", o, "nop")
      /\ mem' = [mem EXCEPT ![o] = "lent"]
      /\ UNCHANGED <<installed, callbacks>> /\ links' = links \cup {<<o, "lender", t>>}
      /\ "crt" \in AllKinds
  BY DEF LentCertificate, AllKinds
<1> QED BY <1>1, Allocating

\* An exception in a callback unwinds the call, nothing else touches the stack.
LEMMA UnwoundStack ==
    ASSUME ObjIInv, stack # <<>>, NEW o, UnwoundIfThrown(o)
    PROVE  stack' \in Seq(inHeap) /\ OnStack' \subseteq OnStack
<1>1. StackInHeap
  BY DEF ObjIInv
<1>2. CASE stack' = stack
  BY <1>1, <1>2 DEF StackInHeap, OnStack
<1>3. CASE stack' = SubSeq(stack, 1, Len(stack) - 1)
  BY <1>1, <1>3, Unwinding
<1> QED BY <1>2, <1>3 DEF UnwoundIfThrown

\* A pointer from one structure to another.
LEMMA LinkStep ==
    ASSUME ObjIInv, NEW newLinks, Link(newLinks),
           \A l \in newLinks \ links : l[1] \in Obj /\ l[2] # "lender" /\ l[3] \in Obj
    PROVE  ObjIInv'
<1>1. Reachable' \subseteq Reachable /\ CallsNeedPackage' /\ StackInHeap'
  BY DEF Link, heapVars, Reachable, OnStack, CallsNeedPackage, StackInHeap, ObjIInv
<1>2. LinksFromStructures'
  BY DEF LinksFromStructures, Link, heapVars, ObjIInv
<1>3. UNCHANGED heapVars
  BY DEF Link
<1> QED BY <1>1, <1>2, <1>3, HeapUntouched

\* Assigning a field of a structure makes no pointer from anything else.
LEMMA AssignFrom ==
    ASSUME NEW rel, NEW o \in Obj, NEW f, f # "lender", NEW T, T \subseteq Obj,
           \A l \in rel \ links : l[1] \in Obj /\ l[2] # "lender" /\ l[3] \in Obj
    PROVE  \A l \in Assign(rel, o, f, T) \ links :
               l[1] \in Obj /\ l[2] # "lender" /\ l[3] \in Obj
BY DEF Assign

LEMMA UsablePointer ==
    ASSUME ObjIInv, NEW o \in Obj, NEW k, Usable(o, k)
    PROVE  ptr[o] \in Obj
BY DEF Usable, ObjIInv, ObjDataOK

LEMMA CAChainStep ==
    ASSUME ObjIInv, NEW o \in Obj, ptr[o] \in Obj, NEW crt \in Obj \cup {NIL},
           NEW crl \in Obj \cup {NIL}, CAChain(o, crt, crl)
    PROVE  ObjIInv'
<1> DEFINE C == IF crt = NIL THEN {} ELSE {ptr[crt]}
           R == IF crl = NIL THEN {} ELSE {ptr[crl]}
           L1 == Assign(links, ptr[o], "ca", C)
           L2 == Assign(L1, ptr[o], "crl", R)
<1>1. Link(L2)
  BY DEF CAChain
<1>2. C \subseteq Obj /\ R \subseteq Obj
  BY UsablePointer DEF CAChain, UsableOrNil
<1> HIDE DEF C, R
<1>3. \A l \in L1 \ links : l[1] \in Obj /\ l[2] # "lender" /\ l[3] \in Obj
  BY <1>2, AssignFrom
<1> HIDE DEF L1
<1>4. \A l \in L2 \ links : l[1] \in Obj /\ l[2] # "lender" /\ l[3] \in Obj
  BY <1>2, <1>3, AssignFrom
<1> HIDE DEF L2
<1> QED BY <1>1, <1>4, LinkStep

LEMMA OwnCertStep ==
    ASSUME ObjIInv, NEW o \in Obj, ptr[o] \in Obj, NEW crt \in Obj, NEW pk \in Obj,
           OwnCert(o, crt, pk)
    PROVE  ObjIInv'
<1> DEFINE L == links \cup {<<ptr[o], "own", ptr[crt]>>, <<ptr[o], "own", ptr[pk]>>}
<1>1. Link(L)
  BY DEF OwnCert
<1>2. ptr[crt] \in Obj /\ ptr[pk] \in Obj
  BY UsablePointer DEF OwnCert
<1>3. \A l \in L \ links : l[1] \in Obj /\ l[2] # "lender" /\ l[3] \in Obj
  BY <1>2
<1> HIDE DEF L
<1> QED BY <1>1, <1>3, LinkStep

\* The object a stored function refers to was reachable before.
LEMMA SetCallbackStep ==
    ASSUME ObjIInv, NIL \notin Obj, NEW o \in Obj, NEW field, NEW f, SetCallback(o, field, f)
    PROVE  ObjIInv'
<1>1. UNCHANGED heapVars /\ UNCHANGED <<installed, inHeap, roots, links, stack>>
  BY DEF SetCallback, heapVars
<1>2. \A c \in callbacks' : c \in callbacks \/ c[3] = f
  BY DEF SetCallback, Assign
<1>3. f \in roots \cup {NIL}
  BY DEF SetCallback
<1>4. Reachable' \subseteq Reachable
  BY <1>1, <1>2, <1>3 DEF Reachable, OnStack
<1>5. CallsNeedPackage' /\ StackInHeap' /\ LinksFromStructures'
  BY <1>1 DEF CallsNeedPackage, StackInHeap, LinksFromStructures, ObjIInv, heapVars
<1> QED BY <1>1, <1>4, <1>5, HeapUntouched

\* Calls, their ends, and references gained or lost.
LEMMA CallStep ==
    ASSUME ObjIInv, NIL \notin Obj, NEW s \in Obj, SSLCall(s)
    PROVE  ObjIInv'
<1>1. /\ UNCHANGED heapVars /\ UNCHANGED <<installed, inHeap, roots, links, callbacks>>
      /\ stack' = Append(stack, s) /\ installed /\ s \in roots
  BY DEF SSLCall, Usable, heapVars
<1>2. s \in inHeap /\ stack \in Seq(inHeap)
  BY <1>1 DEF ObjIInv, ReachableInHeap, Reachable, StackInHeap
<1>3. stack' \in Seq(inHeap) /\ \A i \in 1 .. Len(stack') : stack'[i] \in OnStack \cup {s}
  BY <1>1, <1>2, AppendProperties DEF OnStack
<1>4. Reachable' \subseteq Reachable
  BY <1>1, <1>3 DEF Reachable, OnStack
<1>5. CallsNeedPackage' /\ StackInHeap' /\ LinksFromStructures'
  BY <1>1, <1>3 DEF CallsNeedPackage, StackInHeap, LinksFromStructures, ObjIInv, heapVars
<1> QED BY <1>1, <1>4, <1>5, HeapUntouched

LEMMA CallEndStep ==
    ASSUME ObjIInv, NIL \notin Obj, SSLCallEnds
    PROVE  ObjIInv'
<1>1. /\ UNCHANGED heapVars /\ UNCHANGED <<installed, inHeap, roots, links, callbacks>>
      /\ stack' = SubSeq(stack, 1, Len(stack) - 1) /\ stack # <<>>
  BY DEF SSLCallEnds, heapVars
<1>2. StackInHeap /\ installed
  BY <1>1 DEF ObjIInv, CallsNeedPackage
<1>3. stack' \in Seq(inHeap) /\ OnStack' \subseteq OnStack
  BY <1>1, <1>2, Unwinding
<1>4. Reachable' \subseteq Reachable
  BY <1>1, <1>3 DEF Reachable
<1>5. CallsNeedPackage' /\ StackInHeap' /\ LinksFromStructures'
  BY <1>1, <1>2, <1>3 DEF CallsNeedPackage, StackInHeap, LinksFromStructures, ObjIInv,
                          heapVars
<1> QED BY <1>1, <1>4, <1>5, HeapUntouched

LEMMA RootsStep ==
    ASSUME ObjIInv, NIL \notin Obj, NEW o \in Obj, Drop(o) \/ FunctionRuns(o)
    PROVE  ObjIInv'
<1>1. /\ UNCHANGED heapVars /\ UNCHANGED <<installed, inHeap, stack, links, callbacks>>
  BY DEF Drop, FunctionRuns, heapVars
<1>2. Reachable' \subseteq Reachable
  BY <1>1 DEF Drop, FunctionRuns, Reachable, OnStack
<1>3. CallsNeedPackage' /\ StackInHeap' /\ LinksFromStructures'
  BY <1>1 DEF CallsNeedPackage, StackInHeap, LinksFromStructures, ObjIInv, heapVars
<1> QED BY <1>1, <1>2, <1>3, HeapUntouched

-----------------------------------------------------------------------------
\* The structure of the call in progress is one of ours, and the package is
\* there, when mbedtls calls back.
LEMMA RunningIsOurs ==
    ASSUME ObjIInv, NEW field, CallsBack(field)
    PROVE  Running \in Obj /\ installed
<1>1. Running \in Obj
  BY DEF ObjIInv, LinksFromStructures, CallsBack, PointedTo
<1>2. installed
  BY DEF ObjIInv, CallsNeedPackage, CallsBack
<1> QED BY <1>1, <1>2

\* SSLGetSession: a new binary, or nothing when mbedtls fails.
LEMMA GetSessionStep ==
    ASSUME ObjIInv, NEW o \in Obj, NEW s \in Obj, SSLGetSession(o, s)
    PROVE  ObjIInv'
<1>1. CASE NewStructure(o, "session")
  BY <1>1, NewStructureStep, ObjectAssumption
<1>2. CASE ~NewStructure(o, "session")
  <2>1. /\ Fresh(o) /\ "session" \in AllKinds
        /\ kind' = [kind EXCEPT ![o] = "session"]
        /\ mem' = [mem EXCEPT ![o] = "freed"]
        /\ UNCHANGED <<installed, inHeap, ptr, dtor, mPointers, roots,
                       callbacks, links, stack, threw>>
    BY <1>2 DEF SSLGetSession, AllKinds
  <2> QED BY <2>1, Orphaning, ObjectAssumption
<1> QED BY <1>1, <1>2

\* CtrDrbgSeed and SSLSetup replace one pointer of a structure of ours.
LEMMA AssignStep ==
    ASSUME ObjIInv, NEW o \in Obj, ptr[o] \in Obj, NEW e \in Obj, ptr[e] \in Obj,
           NEW f, f # "lender", Link(Assign(links, ptr[o], f, {ptr[e]}))
    PROVE  ObjIInv'
<1>1. \A l \in Assign(links, ptr[o], f, {ptr[e]}) \ links :
          l[1] \in Obj /\ l[2] # "lender" /\ l[3] \in Obj
  BY DEF Assign
<1> QED BY <1>1, LinkStep

\* The certificates of the verify function: on loan, or of a CA chain.
LEMMA VerifyStep ==
    ASSUME ObjIInv, NIL \notin Obj, NEW o \in Obj, SSLConfVerifyCallback(o)
    PROVE  ObjIInv'
<1>1. Running \in Obj /\ installed /\ "crt" \in AllKinds /\ stack # <<>>
  BY RunningIsOurs DEF SSLConfVerifyCallback, CallsBack, AllKinds
<1>2. stack' \in Seq(inHeap) /\ OnStack' \subseteq OnStack
  BY <1>1, UnwoundStack DEF SSLConfVerifyCallback
<1>3. CASE LentCertificate(o, Running)
  BY <1>1, <1>2, <1>3, LentStep
<1>4. ASSUME NEW c, NEW ca \in PointedTo(c, "ca"), BorrowedBinary(o, "crt", ca)
      PROVE  ObjIInv'
  <2>1. ca \in Obj
    BY DEF PointedTo, ObjIInv, LinksFromStructures
  <2> QED BY <1>1, <1>2, <1>4, <2>1, BorrowedStep
<1> QED BY <1>3, <1>4 DEF SSLConfVerifyCallback

\* Every binding, every callback and every loss of a reference.
LEMMA BindingsStep ==
    ASSUME ObjIInv, NEW o \in Obj, Bindings(o)
    PROVE  ObjIInv'
<1> USE ObjectAssumption
<1>1. ASSUME NEW k, NewStructure(o, k) PROVE ObjIInv'
  BY <1>1, NewStructureStep
<1>2. CASE \/ EntropyNew(o) \/ CtrDrbgNew(o) \/ PKNew(o) \/ SSLNew(o)
           \/ SSLCacheNew(o) \/ SSLConfigNew(o) \/ SSLSessionNew(o)
           \/ X509CrtNew(o) \/ X509CrlNew(o)
  <2>1. \E k \in AllKinds : NewStructure(o, k)
    BY <1>2 DEF EntropyNew, CtrDrbgNew, PKNew, SSLNew, SSLCacheNew, SSLConfigNew,
                SSLSessionNew, X509CrtNew, X509CrlNew, AllKinds
  <2> QED BY <1>1, <2>1
<1>3. CASE SSLCall(o)
  BY <1>3, CallStep
<1>4. CASE SSLConfSNICallback(o)
  <2>1. /\ Running \in Obj /\ installed /\ "ssl" \in AllKinds /\ stack # <<>>
        /\ BorrowedBinary(o, "ssl", Running)
    BY <1>4, RunningIsOurs DEF SSLConfSNICallback, CallsBack, AllKinds
  <2>2. stack' \in Seq(inHeap) /\ OnStack' \subseteq OnStack
    BY <1>4, <2>1, UnwoundStack DEF SSLConfSNICallback
  <2> QED BY <2>1, <2>2, BorrowedStep
<1>5. CASE SSLConfVerifyCallback(o)
  BY <1>5, VerifyStep
<1>14. CASE SSLSessionReset(o)
  BY <1>14, LentAreLent, EndingCertificates DEF SSLSessionReset
<1>15. CASE SessionReplaced(o)
  <2>1. \A c \in {o} : c \in Obj /\ mem[c] = "lent"
    BY <1>15, LentAreLent DEF SessionReplaced
  <2> QED BY <1>15, <2>1, EndingCertificates DEF SessionReplaced
<1>6. CASE FunctionRuns(o)
  BY <1>6, RootsStep
<1>7. ASSUME NEW s \in Obj, SSLGetSession(o, s) \/ SSLGetPeerCert(o, s)
                            \/ CtrDrbgSeed(o, s) \/ SSLSetup(o, s)
      PROVE  ObjIInv'
  <2>1. CASE SSLGetSession(o, s)
    BY <2>1, GetSessionStep
  <2>2. CASE SSLGetPeerCert(o, s)
    <3>1. LentCertificate(o, ptr[s]) /\ installed /\ stack' = stack
      BY <2>2 DEF SSLGetPeerCert, Usable
    <3>2. ptr[s] \in Obj
      BY <2>2, UsablePointer DEF SSLGetPeerCert
    <3>3. stack' \in Seq(inHeap) /\ OnStack' \subseteq OnStack
      BY <3>1 DEF ObjIInv, StackInHeap, OnStack
    <3> QED BY <3>1, <3>2, <3>3, LentStep
  <2>3. CASE CtrDrbgSeed(o, s)
    <3>1. ptr[o] \in Obj /\ ptr[s] \in Obj
      BY <2>3, UsablePointer DEF CtrDrbgSeed
    <3> QED BY <2>3, <3>1, AssignStep DEF CtrDrbgSeed
  <2>4. CASE SSLSetup(o, s)
    <3>1. ptr[o] \in Obj /\ ptr[s] \in Obj
      BY <2>4, UsablePointer DEF SSLSetup
    <3> QED BY <2>4, <3>1, AssignStep DEF SSLSetup
  <2> QED BY <1>7, <2>1, <2>2, <2>3, <2>4
<1>8. ASSUME NEW crt \in Obj \cup {NIL}, NEW crl \in Obj \cup {NIL},
             SSLSetHsCAChain(o, crt, crl) \/ SSLConfCAChain(o, crt, crl)
      PROVE  ObjIInv'
  <2>1. ptr[o] \in Obj /\ CAChain(o, crt, crl)
    BY <1>8, UsablePointer DEF SSLSetHsCAChain, SSLConfCAChain
  <2> QED BY <2>1, CAChainStep
<1>9. ASSUME NEW crt \in Obj, NEW pk \in Obj,
             SSLSetHsOwnCert(o, crt, pk) \/ SSLConfOwnCert(o, crt, pk)
      PROVE  ObjIInv'
  <2>1. ptr[o] \in Obj /\ OwnCert(o, crt, pk)
    BY <1>9, UsablePointer DEF SSLSetHsOwnCert, SSLConfOwnCert
  <2> QED BY <2>1, OwnCertStep
<1>10. ASSUME NEW f \in Obj \cup {NIL}, SSLSetBIO(o, f) \/ SSLSetTimerCb(o, f)
                                 \/ SSLConfSNI(o, f) \/ SSLConfVerify(o, f)
       PROVE  ObjIInv'
  <2>1. \E field \in AllFields : SetCallback(o, field, f)
    BY <1>10 DEF SSLSetBIO, SSLSetTimerCb, SSLConfSNI, SSLConfVerify, AllFields
  <2> QED BY <2>1, SetCallbackStep
<1>11. CASE Allocates(o)
  BY <1>2, <1>11 DEF Allocates
<1>12. CASE PointsTo(o)
  BY <1>7, <1>8, <1>9, <1>12 DEF PointsTo
<1>13. CASE TakesFunction(o)
  BY <1>10, <1>13 DEF TakesFunction
<1> QED BY <1>3, <1>4, <1>5, <1>6, <1>7, <1>11, <1>12, <1>13, <1>14, <1>15 DEF Bindings

LEMMA ObjStep == ObjIInv /\ [ObjNext]_objVars => ObjIInv'
<1> SUFFICES ASSUME ObjIInv, [ObjNext]_objVars PROVE ObjIInv'
  OBVIOUS
<1> USE ObjectAssumption
<1>1. CASE Install
  BY <1>1, Installing
<1>2. CASE Delete
  BY <1>2, Deleting
<1>3. ASSUME NEW o \in Obj, Bindings(o) PROVE ObjIInv'
  BY <1>3, BindingsStep
<1>4. ASSUME NEW o \in Obj, Drop(o) PROVE ObjIInv'
  BY <1>4, RootsStep
<1>5. CASE SSLCallEnds
  BY <1>5, CallEndStep
<1>6. CASE GarbageCollect
  BY <1>6, Collecting
<1>7. CASE UNCHANGED objVars
  <2>1. UNCHANGED heapVars /\ UNCHANGED <<installed, inHeap, roots, callbacks, links, stack>>
    BY <1>7 DEF objVars, heapVars
  <2>2. CallsNeedPackage' /\ StackInHeap' /\ LinksFromStructures'
    BY <2>1 DEF ObjIInv, CallsNeedPackage, StackInHeap, LinksFromStructures, heapVars
  <2>3. Reachable' \subseteq Reachable
    BY <2>1 DEF Reachable, OnStack
  <2> QED BY <2>1, <2>2, <2>3, HeapUntouched
<1> QED BY <1>1, <1>2, <1>3, <1>4, <1>5, <1>6, <1>7 DEF ObjNext

-----------------------------------------------------------------------------
\* The bindings keep the heap, the weak array and C memory in step, whatever
\* the client, the callbacks and the collector do.
THEOREM ObjInvariant == ObjSpec => []ObjIInv
<1> QED BY ObjInitially, ObjStep, PTL DEF ObjSpec

\* No destructor frees a structure that was freed before (FreeCObjectBinary
\* and the collector compete for every binary).
THEOREM NoDoubleFreeAlways == ObjSpec => []NoDoubleFree
<1>1. ObjIInv => NoDoubleFree
  <2> SUFFICES ASSUME ObjIInv PROVE NoDoubleFree
    OBVIOUS
  <2>1. \A o \in inHeap : dtor[o] = "free" => ptr[o] = o /\ mem[o] = "live"
    BY DEF ObjIInv, OwnerIsLive
  <2> QED BY <2>1 DEF NoDoubleFree
<1> QED BY <1>1, ObjInvariant, PTL

\* DoAllocateCObjectBinary finds every armed binary exactly one slot, and
\* keeps the slots of the others; a binary AddArraySlot threw for has none,
\* and nothing in NewtonScript refers to it.
THEOREM EveryBinaryRegisteredAlways == ObjSpec => []EveryBinaryRegistered
<1>1. ObjIInv => EveryBinaryRegistered
  BY DEF ObjIInv
<1> QED BY <1>1, ObjInvariant, PTL

\* After PMbedTLS::Delete the collector runs no code of the package, unless
\* AddArraySlot threw for a binary that it had not taken before.
THEOREM NoStrayDestructorAlways == ObjSpec => []NoStrayDestructor
<1>1. ObjIInv => NoStrayDestructor
  BY DEF ObjIInv
<1> QED BY <1>1, ObjInvariant, PTL

\* PMbedTLS::Delete frees every structure, but for those whose allocation
\* ended with an exception, which nothing refers to.
THEOREM NothingLeftBehindAlways == ObjSpec => []NothingLeftBehind
<1>1. ObjIInv => NothingLeftBehind
  <2> SUFFICES ASSUME ObjIInv, ~installed, NEW o \in Obj, mem[o] \in {"live", "orphan"}
               PROVE  o \in threw /\ o \notin Reachable
    BY DEF NothingLeftBehind
  <2>1. CASE mem[o] = "orphan"
    BY <2>1 DEF ObjIInv, OrphanThrew, ThrewUnreached
  <2>2. CASE mem[o] = "live"
    <3>1. o \in inHeap /\ dtor[o] = "free"
      BY <2>2 DEF ObjIInv, LiveIsOwned
    <3> QED BY <3>1 DEF ObjIInv, NoStrayDestructor
  <2> QED BY <2>1, <2>2
<1> QED BY <1>1, ObjInvariant, PTL

-----------------------------------------------------------------------------
\* Why a client that keeps what its structures point to never meets freed
\* memory.  Everything a reachable binary needs is the binary itself or one
\* NewtonScript holds (a RefStruct is not enough: the structure it is in may
\* be collected), and is a structure with its own binary or a certificate
\* on loan; what a call uses is held; and a pointer is never a field of a
\* structure to come.  A certificate needs its lender.
OnLoan(y) == mem[y] \in {"lent", "ended"} /\ ptr[y] = y
Kept(y) == y \in Obj /\ (dtor[y] = "free" \/ OnLoan(y))

NeedsAreHeld ==
    \A x \in Reachable : \A y \in Needs(x) : (y = x \/ y \in roots) /\ Kept(y)
CallsAreHeld == OnStack \subseteq roots
LinksFromUsed == \A l \in links : kind[l[1]] # "none"

KeptInv == NeedsAreHeld /\ CallsAreHeld /\ LinksFromUsed

\* What a held binary needs is held too, and its name is in use.
LEMMA HeldNeeds ==
    ASSUME ObjIInv, KeptInv, NIL \notin Obj, NEW x \in Obj, x \in roots
    PROVE  \A y \in Needs(x) : /\ y \in roots /\ Kept(y)
                               /\ kind[y] # "none" /\ ptr[y] = y
<1>1. x \in Reachable
  BY DEF Reachable
<1>2. \A y \in Needs(x) : y \in roots /\ Kept(y)
  BY <1>1 DEF KeptInv, NeedsAreHeld
<1>3. \A y \in Needs(x) : y \in inHeap /\ y \in Obj
  BY <1>2 DEF Reachable, ReachableInHeap, ObjIInv, Kept
<1> QED BY <1>2, <1>3 DEF FreshIsUnused, OwnerIsLive, ObjIInv, Kept, OnLoan

\* The pointer of a binary a binding accepts.
LEMMA UsableNeeds ==
    ASSUME ObjIInv, KeptInv, NIL \notin Obj, NEW o \in Obj, NEW k, Usable(o, k)
    PROVE  /\ o \in roots /\ ptr[o] \in Needs(o) /\ ptr[o] \in roots /\ Kept(ptr[o])
           /\ kind[ptr[o]] # "none"
<1>1. o \in roots /\ ptr[o] \in Needs(o)
  BY DEF Usable, Needs
<1> QED BY <1>1, HeldNeeds

\* Steps after which less is reachable, less is linked, no less is held and
\* what is on loan stays on loan: calls and their ends, a function stored or
\* run, a collection, the end of a session.
LEMMA KeptByLess ==
    ASSUME KeptInv, UNCHANGED <<kind, ptr, dtor>>, Reachable' \subseteq Reachable,
           links' \subseteq links, roots \subseteq roots', OnStack' \subseteq roots',
           \A x \in Reachable' : \A y \in Needs(x) : OnLoan(y) => OnLoan(y)'
    PROVE  KeptInv'
<1>1. \A x : Needs(x)' \subseteq Needs(x)
  BY DEF Needs
<1>2. NeedsAreHeld'
  <2> SUFFICES ASSUME NEW x \in Reachable', NEW y \in Needs(x)'
               PROVE  (y = x \/ y \in roots') /\ Kept(y)'
    BY DEF NeedsAreHeld
  <2>1. x \in Reachable /\ y \in Needs(x)
    BY <1>1
  <2>2. (y = x \/ y \in roots) /\ Kept(y)
    BY <2>1 DEF NeedsAreHeld, KeptInv
  <2>3. Kept(y)'
    BY <2>1, <2>2 DEF Kept
  <2> QED BY <2>2, <2>3
<1>3. CallsAreHeld' /\ LinksFromUsed'
  BY DEF CallsAreHeld, LinksFromUsed, KeptInv
<1> QED BY <1>2, <1>3 DEF KeptInv

\* A binding that makes structures in use point to held ones.
LEMMA KeptByLinks ==
    ASSUME KeptInv, NEW newLinks, Link(newLinks),
           \A l \in newLinks : \/ l \in links
                               \/ kind[l[1]] # "none" /\ l[3] \in roots /\ Kept(l[3])
    PROVE  KeptInv'
<1>1. UNCHANGED <<kind, ptr, dtor, mem, roots, stack, callbacks>> /\ links' = newLinks
  BY DEF Link, heapVars
<1>2. Reachable' = Reachable /\ OnStack' = OnStack
  BY <1>1 DEF Reachable, OnStack
<1>3. NeedsAreHeld'
  <2> SUFFICES ASSUME NEW x \in Reachable, NEW y \in Needs(x)'
               PROVE  (y = x \/ y \in roots) /\ Kept(y)
    BY <1>1, <1>2 DEF NeedsAreHeld, Kept, OnLoan
  <2>1. CASE y \in Needs(x)
    BY <2>1 DEF KeptInv, NeedsAreHeld
  <2>2. CASE y \notin Needs(x)
    <3>1. \E l \in newLinks : l \notin links /\ l[3] = y
      BY <1>1, <2>2 DEF Needs
    <3> QED BY <3>1
  <2> QED BY <2>1, <2>2
<1>4. CallsAreHeld' /\ LinksFromUsed'
  BY <1>1, <1>2 DEF CallsAreHeld, LinksFromUsed, KeptInv
<1> QED BY <1>3, <1>4 DEF KeptInv

\* Allocating a binary for a structure of its own, for a certificate a held
\* context lends, or for a structure that is held.
LEMMA KeptByAllocation ==
    ASSUME ObjIInv, KeptInv, NIL \notin Obj, NEW o \in Obj, NEW k \in AllKinds,
           NEW s \in Obj, NEW d, NEW t, Fresh(o),
           \/ s = o /\ d = "free" /\ links' = links /\ mem' = [mem EXCEPT ![o] = "live"]
           \/ /\ s = o /\ t \in roots /\ Kept(t)
              /\ links' = links \cup {<<o, "lender", t>>}
              /\ mem' = [mem EXCEPT ![o] = "lent"]
           \/ s \in roots /\ Kept(s) /\ links' = links /\ mem' = mem,
           DoAllocateCObjectBinary(o, k, s, d),
           UNCHANGED callbacks, OnStack' \subseteq OnStack
    PROVE  KeptInv'
<1>0. /\ ObjDataOK /\ o \notin inHeap /\ k # "none"
      /\ \A l \in links : l[1] \in Obj /\ kind[l[1]] # "none"
  BY DEF ObjIInv, FreshIsUnused, Fresh, AllKinds, KeptInv, LinksFromUsed,
         LinksFromStructures
<1>a. roots' = roots \/ roots' = roots \cup {o}
  BY DEF DoAllocateCObjectBinary
<1>1. /\ \A p \in Obj \ {o} : /\ kind'[p] = kind[p] /\ ptr'[p] = ptr[p]
                              /\ dtor'[p] = dtor[p] /\ mem'[p] = mem[p]
      /\ kind'[o] = k /\ ptr'[o] = s /\ dtor'[o] = d
  BY <1>0 DEF ObjDataOK, DoAllocateCObjectBinary
<1>2. Reachable' \subseteq Reachable \cup {o} /\ (o \in Reachable' => o \in roots')
  <2>1. Reachable \subseteq inHeap
    BY DEF ObjIInv, ReachableInHeap
  <2>2. o \notin Reachable
    BY <2>1, <1>0
  <2>3. o \notin OnStack' /\ \A c \in callbacks : c[3] # o
    BY <2>2 DEF Reachable
  <2>4. Reachable' \subseteq Reachable \cup {o}
    BY <1>a DEF Reachable
  <2>5. o \in Reachable' => o \in roots'
    BY <2>3 DEF Reachable
  <2> QED BY <2>4, <2>5
<1>3. Reachable \subseteq Obj \ {o} /\ \A x \in Reachable : ptr[x] # o
  <2>1. Reachable \subseteq Obj \ {o}
    BY <1>0 DEF ObjIInv, ReachableInHeap, ObjDataOK
  <2>2. ASSUME NEW x \in Reachable, ptr[x] = o PROVE FALSE
    <3>1. o \in Needs(x)
      BY <2>2 DEF Needs
    <3>2. o = x \/ o \in roots
      BY <3>1 DEF KeptInv, NeedsAreHeld
    <3> QED BY <2>1, <3>2 DEF Reachable
  <2> QED BY <2>1, <2>2
<1>4. LinksFromUsed' /\ CallsAreHeld'
  <2>1. \A l \in links' : l \in links \/ l[1] = o
    OBVIOUS
  <2>2. LinksFromUsed'
    BY <1>0, <1>1, <2>1 DEF LinksFromUsed
  <2>3. CallsAreHeld'
    BY <1>a DEF CallsAreHeld, KeptInv
  <2> QED BY <2>2, <2>3
<1>5. \A x \in Reachable : Needs(x)' = Needs(x)
  BY <1>1, <1>3 DEF Needs
<1>b. \A y \in Obj \ {o} : Kept(y) => Kept(y)'
  BY <1>1 DEF Kept, OnLoan
<1>6. ASSUME NEW x \in Reachable, NEW y \in Needs(x)
      PROVE  (y = x \/ y \in roots') /\ Kept(y)'
  <2>1. (y = x \/ y \in roots) /\ Kept(y)
    BY DEF KeptInv, NeedsAreHeld
  <2>2. y # o /\ y \in Obj
    BY <2>1, <1>0, <1>3 DEF Reachable, ReachableInHeap, ObjIInv, Kept
  <2> QED BY <2>1, <2>2, <1>a, <1>b
<1>c. \A l \in links : l[1] # o
  BY <1>0 DEF Fresh
<1>7. ASSUME o \in roots', NEW y \in Needs(o)'
      PROVE  (y = o \/ y \in roots') /\ Kept(y)'
  <2>1. CASE /\ s = o /\ d = "free" /\ links' = links
             /\ mem' = [mem EXCEPT ![o] = "live"]
    <3>1. y = o
      BY <1>1, <1>c, <2>1 DEF Needs
    <3> QED BY <1>1, <2>1, <3>1 DEF Kept
  <2>2. CASE /\ s = o /\ t \in roots /\ Kept(t)
             /\ links' = links \cup {<<o, "lender", t>>}
             /\ mem' = [mem EXCEPT ![o] = "lent"]
    <3>1. y = o \/ y = t
      <4>1. \A l \in links' : l[1] = o => l[3] = t
        BY <1>c, <2>2
      <4> QED BY <1>1, <2>2, <4>1 DEF Needs
    <3>2. t # o /\ t \in Obj
      BY <2>2, <1>0 DEF Reachable, ReachableInHeap, ObjIInv, Kept
    <3>3. Kept(t)' /\ t \in roots'
      BY <1>a, <1>b, <2>2, <3>2
    <3>4. mem'[o] = "lent"
      BY <2>2, <1>0 DEF ObjDataOK
    <3>5. Kept(o)'
      BY <1>1, <2>2, <3>4 DEF Kept, OnLoan
    <3> QED BY <3>1, <3>3, <3>5
  <2>3. CASE s \in roots /\ Kept(s) /\ links' = links
    <3>1. s \in Obj /\ s \in Reachable /\ s # o
      BY <2>3, <1>0 DEF Reachable, ReachableInHeap, ObjIInv, Kept
    <3>2. ptr[s] = s
      BY <2>3, <3>1 DEF Kept, OnLoan, OwnerIsLive, ObjIInv, ReachableInHeap
    <3>3. Needs(o)' = Needs(s)
      BY <1>1, <2>3, <3>1, <3>2 DEF Needs
    <3>4. y \in Needs(s) /\ y \in roots
      BY <2>3, <3>1, <3>3 DEF KeptInv, NeedsAreHeld
    <3>5. Kept(y)'
      BY <1>6, <3>1, <3>4
    <3> QED BY <1>a, <3>4, <3>5
  <2> QED BY <2>1, <2>2, <2>3
<1>8. NeedsAreHeld'
  <2> SUFFICES ASSUME NEW x \in Reachable', NEW y \in Needs(x)'
               PROVE  (y = x \/ y \in roots') /\ Kept(y)'
    BY DEF NeedsAreHeld
  <2>1. CASE x = o
    BY <1>2, <1>7, <2>1
  <2>2. CASE x # o
    <3>1. x \in Reachable /\ y \in Needs(x)
      BY <1>2, <1>5, <2>2
    <3> QED BY <1>6, <3>1
  <2> QED BY <2>1, <2>2
<1> QED BY <1>4, <1>8 DEF KeptInv

\* A structure that got no binary leaves every reference as it was.
LEMMA KeptByOrphan ==
    ASSUME ObjIInv, KeptInv, NEW o \in Obj, NEW k \in AllKinds, NEW w, Fresh(o),
           kind' = [kind EXCEPT ![o] = k], mem' = [mem EXCEPT ![o] = w],
           UNCHANGED <<ptr, dtor, roots, callbacks, links, stack>>
    PROVE  KeptInv'
<1>1. Reachable' = Reachable /\ OnStack' = OnStack /\ \A x : Needs(x)' = Needs(x)
  BY DEF Reachable, OnStack, Needs
<1>2. o \notin inHeap /\ Reachable \subseteq inHeap
  BY DEF ObjIInv, FreshIsUnused, Fresh, ReachableInHeap
<1>3. k # "none" /\ kind \in [Obj -> AllKinds \cup {"none"}]
  BY DEF AllKinds, ObjIInv, ObjDataOK
<1>4. LinksFromUsed' /\ CallsAreHeld'
  BY <1>1, <1>3 DEF LinksFromUsed, CallsAreHeld, KeptInv, ObjIInv, LinksFromStructures
<1>5. NeedsAreHeld'
  <2> SUFFICES ASSUME NEW x \in Reachable, NEW y \in Needs(x)
               PROVE  (y = x \/ y \in roots) /\ Kept(y)'
    BY <1>1 DEF NeedsAreHeld
  <2>1. (y = x \/ y \in roots) /\ Kept(y)
    BY DEF KeptInv, NeedsAreHeld
  <2>2. y # o /\ y \in Obj
    BY <1>2, <2>1, ObjectAssumption DEF Reachable, Kept
  <2>3. mem'[y] = mem[y]
    BY <2>2 DEF ObjIInv, ObjDataOK
  <2> QED BY <2>1, <2>3 DEF Kept, OnLoan
<1> QED BY <1>4, <1>5 DEF KeptInv

\* Forgetting a binary (the client's part of the bargain).
LEMMA KeptByDrop ==
    ASSUME KeptInv, KeepsLinked, NEW o \in Obj, Drop(o)
    PROVE  KeptInv'
<1>1. /\ UNCHANGED <<kind, ptr, dtor, mem, callbacks, links, stack>> /\ roots' = roots \ {o}
      /\ o \notin OnStack /\ \A x \in Reachable \ {o} : o \notin Needs(x)
  BY DEF Drop, heapVars
<1>2. Reachable' \subseteq Reachable /\ OnStack' = OnStack /\ \A x : Needs(x)' = Needs(x)
  BY <1>1 DEF Reachable, OnStack, Needs
<1>3. NeedsAreHeld'
  <2> SUFFICES ASSUME NEW x \in Reachable, NEW y \in Needs(x)
               PROVE  (y = x \/ y \in roots') /\ Kept(y)
    BY <1>1, <1>2 DEF NeedsAreHeld, Kept, OnLoan
  <2> QED BY <1>1 DEF KeptInv, NeedsAreHeld
<1>4. CallsAreHeld' /\ LinksFromUsed'
  BY <1>1, <1>2 DEF CallsAreHeld, LinksFromUsed, KeptInv
<1> QED BY <1>3, <1>4 DEF KeptInv

\* PMbedTLS::Delete: no binary points anywhere any more.
LEMMA KeptByDelete ==
    ASSUME ObjIInv, KeptInv, NIL \notin Obj, Delete, ObjIInv'
    PROVE  KeptInv'
<1>1. ~installed' /\ stack' = <<>> /\ kind' = kind /\ links' \subseteq links
  BY DEF Delete, FreeCObjectBinaries, DestroyStructures
<1>2. \A x \in Reachable' : ptr'[x] = NIL
  BY <1>1 DEF ObjIInv, NoStrayDestructor, ReachableInHeap
<1>3. \A l \in links' : l[1] # NIL
  BY DEF ObjIInv, LinksFromStructures
<1>4. \A x \in Reachable' : Needs(x)' = {}
  BY <1>2, <1>3 DEF Needs
<1>5. NeedsAreHeld'
  BY <1>4 DEF NeedsAreHeld
<1>6. OnStack' = {}
  BY <1>1 DEF OnStack
<1>7. CallsAreHeld' /\ LinksFromUsed'
  BY <1>1, <1>6 DEF CallsAreHeld, LinksFromUsed, KeptInv
<1> QED BY <1>5, <1>7 DEF KeptInv

\* The bindings that allocate.
LEMMA KeptByNew ==
    ASSUME ObjIInv, KeptInv, NIL \notin Obj, Kinds \subseteq AllKinds,
           NEW o \in Obj, NEW k, NewStructure(o, k)
    PROVE  KeptInv'
<1>0. k \in AllKinds /\ Fresh(o) /\ UNCHANGED <<callbacks, links, stack>>
  BY DEF NewStructure
<1>1. CASE /\ DoAllocateCObjectBinary(o, k, o, "free")
           /\ mem' = [mem EXCEPT ![o] = "live"]
  <2>1. OnStack' \subseteq OnStack
    BY <1>0 DEF OnStack
  <2> QED BY <1>0, <1>1, <2>1, KeptByAllocation
<1>2. CASE AllocationThrows(o, k)
  <2>1. /\ kind' = [kind EXCEPT ![o] = k] /\ mem' = [mem EXCEPT ![o] = "orphan"]
        /\ UNCHANGED <<ptr, dtor, roots>>
    BY <1>2 DEF AllocationThrows
  <2> QED BY <1>0, <2>1, KeptByOrphan
<1> QED BY <1>1, <1>2 DEF NewStructure

\* A borrowed binary needs what the structure it points to needs.
LEMMA KeptByBorrowing ==
    ASSUME ObjIInv, KeptInv, NIL \notin Obj, NEW o \in Obj, NEW k \in AllKinds,
           NEW s, s \in roots, Kept(s), BorrowedBinary(o, k, s), OnStack' \subseteq OnStack
    PROVE  KeptInv'
<1>1. /\ Fresh(o) /\ DoAllocateCObjectBinary(o, k, s, "nop") /\ s \in Obj
      /\ UNCHANGED callbacks /\ links' = links /\ mem' = mem
  BY DEF BorrowedBinary, Kept
<1> QED BY <1>1, KeptByAllocation

\* A certificate of the session needs the context.
LEMMA KeptByLending ==
    ASSUME ObjIInv, KeptInv, NIL \notin Obj, NEW o \in Obj, NEW t, t \in roots, Kept(t),
           LentCertificate(o, t), OnStack' \subseteq OnStack
    PROVE  KeptInv'
<1>1. /\ Fresh(o) /\ DoAllocateCObjectBinary(o, "crt", o, "nop") /\ "crt" \in AllKinds
      /\ UNCHANGED callbacks /\ links' = links \cup {<<o, "lender", t>>}
      /\ mem' = [mem EXCEPT ![o] = "lent"]
  BY DEF LentCertificate, AllKinds
<1> QED BY <1>1, KeptByAllocation

\* The context of the innermost call is held, and all it points to.
LEMMA RunningIsKept ==
    ASSUME ObjIInv, KeptInv, NIL \notin Obj, stack # <<>>, Running \in Obj
    PROVE  /\ Running \in roots /\ Kept(Running)
           /\ \A f : \A y \in PointedTo(Running, f) : y \in roots /\ Kept(y)
           /\ \A f, g : \A c \in PointedTo(Running, f) :
                 \A y \in PointedTo(c, g) : y \in roots /\ Kept(y)
<1> DEFINE x == stack[Len(stack)]
<1>1. stack \in Seq(inHeap) /\ stack # <<>>
  BY DEF ObjIInv, StackInHeap
<1>2. Len(stack) \in 1 .. Len(stack)
  <2>1. Len(stack) \in Nat \ {0}
    BY <1>1, EmptySeq
  <2> QED BY <2>1
<1>3. x \in OnStack /\ x \in inHeap
  BY <1>1, <1>2 DEF OnStack
<1>4. x \in roots /\ x \in Obj
  BY <1>3 DEF KeptInv, CallsAreHeld, ObjIInv, ObjDataOK
<1>5. ptr[x] = Running
  BY DEF Running
<1> HIDE DEF x
<1>6. Running \in Needs(x)
  BY <1>5 DEF Needs
<1>7. Running \in roots /\ Kept(Running) /\ ptr[Running] = Running
  BY <1>4, <1>6, HeldNeeds
<1>8. ASSUME NEW c \in Obj, c \in roots, ptr[c] = c, NEW f, NEW y \in PointedTo(c, f)
      PROVE  y \in roots /\ Kept(y) /\ ptr[y] = y /\ y \in Obj
  <2>1. y \in Needs(c)
    BY <1>8 DEF PointedTo, Needs
  <2> QED BY <1>8, <2>1, HeldNeeds DEF Kept
<1> QED BY <1>7, <1>8

\* A function of mbedtls that is handed a binary.
LEMMA KeptByCallback ==
    ASSUME ObjIInv, KeptInv, NIL \notin Obj, NEW o \in Obj,
           SSLConfSNICallback(o) \/ SSLConfVerifyCallback(o)
    PROVE  KeptInv'
<1>1. stack # <<>> /\ Running \in Obj /\ "ssl" \in AllKinds /\ "crt" \in AllKinds
  BY RunningIsOurs DEF SSLConfSNICallback, SSLConfVerifyCallback, CallsBack, AllKinds
<1>2. OnStack' \subseteq OnStack
  BY <1>1, UnwoundStack DEF SSLConfSNICallback, SSLConfVerifyCallback
<1>3. /\ Running \in roots /\ Kept(Running)
      /\ \A f : \A y \in PointedTo(Running, f) : y \in roots /\ Kept(y)
      /\ \A f, g : \A c \in PointedTo(Running, f) :
            \A y \in PointedTo(c, g) : y \in roots /\ Kept(y)
  BY <1>1, RunningIsKept
<1>4. CASE SSLConfSNICallback(o)
  BY <1>1, <1>2, <1>3, <1>4, KeptByBorrowing DEF SSLConfSNICallback
<1>5. CASE SSLConfVerifyCallback(o)
  <2>1. CASE LentCertificate(o, Running)
    BY <1>1, <1>2, <1>3, <2>1, KeptByLending
  <2>2. ASSUME NEW c \in {Running} \cup PointedTo(Running, "conf"),
               NEW ca \in PointedTo(c, "ca"), BorrowedBinary(o, "crt", ca)
        PROVE  KeptInv'
    <3>1. ca \in roots /\ Kept(ca)
      BY <1>3
    <3> QED BY <1>1, <1>2, <2>2, <3>1, KeptByBorrowing
  <2> QED BY <1>5, <2>1, <2>2 DEF SSLConfVerifyCallback
<1> QED BY <1>4, <1>5

\* The end of a session: what was lent is on loan no longer, but was not freed
\* with its context.
LEMMA KeptByEnding ==
    ASSUME ObjIInv, KeptInv, NEW C, EndCertificates(C)
    PROVE  KeptInv'
<1>1. /\ UNCHANGED <<kind, ptr, dtor, roots, stack, callbacks>> /\ links' \subseteq links
      /\ mem' = [o \in Obj |-> IF o \in C THEN "ended" ELSE mem[o]]
  BY DEF EndCertificates
<1>2. Reachable' = Reachable /\ OnStack' = OnStack
  BY <1>1 DEF Reachable, OnStack
<1>3. OnStack' \subseteq roots'
  BY <1>1, <1>2 DEF KeptInv, CallsAreHeld
<1>4. \A x \in Reachable' : \A y \in Needs(x) : OnLoan(y) => OnLoan(y)'
  <2> SUFFICES ASSUME NEW x \in Reachable, NEW y \in Needs(x), OnLoan(y)
               PROVE  OnLoan(y)'
    BY <1>2
  <2>1. y \in Obj
    BY DEF KeptInv, NeedsAreHeld, Kept
  <2>2. mem'[y] \in {"lent", "ended"}
    BY <1>1, <2>1 DEF OnLoan
  <2> QED BY <1>1, <2>2 DEF OnLoan
<1> QED BY <1>1, <1>2, <1>3, <1>4, KeptByLess

\* The bindings that link: one pointer replaced, a chain, a certificate.
LEMMA KeptByAssign ==
    ASSUME ObjIInv, KeptInv, NIL \notin Obj, NEW o \in Obj, NEW k, Usable(o, k),
           NEW e \in Obj, NEW j, Usable(e, j), NEW f,
           Link(Assign(links, ptr[o], f, {ptr[e]}))
    PROVE  KeptInv'
<1>1. /\ kind[ptr[o]] # "none"
      /\ ptr[e] \in roots /\ Kept(ptr[e])
  BY UsableNeeds
<1>2. \A l \in Assign(links, ptr[o], f, {ptr[e]}) :
          l \in links \/ (l[1] = ptr[o] /\ l[3] = ptr[e])
  BY DEF Assign
<1> QED BY <1>1, <1>2, KeptByLinks

LEMMA KeptByChain ==
    ASSUME ObjIInv, KeptInv, NIL \notin Obj, NEW o \in Obj, NEW k, Usable(o, k),
           NEW crt \in Obj \cup {NIL}, NEW crl \in Obj \cup {NIL}, CAChain(o, crt, crl)
    PROVE  KeptInv'
<1> DEFINE C == IF crt = NIL THEN {} ELSE {ptr[crt]}
           R == IF crl = NIL THEN {} ELSE {ptr[crl]}
           L == Assign(Assign(links, ptr[o], "ca", C), ptr[o], "crl", R)
<1>1. kind[ptr[o]] # "none"
  BY UsableNeeds
<1>2. \A y \in C \cup R : y \in roots /\ Kept(y)
  BY UsableNeeds DEF CAChain, UsableOrNil
<1>3. Link(L)
  BY DEF CAChain
<1> HIDE DEF C, R
<1>4. \A l \in L : l \in links \/ (l[1] = ptr[o] /\ l[3] \in C \cup R)
  BY DEF Assign
<1> HIDE DEF L
<1> QED BY <1>1, <1>2, <1>3, <1>4, KeptByLinks

LEMMA KeptByOwnCert ==
    ASSUME ObjIInv, KeptInv, NIL \notin Obj, NEW o \in Obj, NEW k, Usable(o, k),
           NEW crt \in Obj, NEW pk \in Obj, OwnCert(o, crt, pk)
    PROVE  KeptInv'
<1> DEFINE L == links \cup {<<ptr[o], "own", ptr[crt]>>, <<ptr[o], "own", ptr[pk]>>}
<1>1. kind[ptr[o]] # "none"
  BY UsableNeeds
<1>2. \A y \in {ptr[crt], ptr[pk]} : y \in roots /\ Kept(y)
  BY UsableNeeds DEF OwnCert
<1>3. Link(L)
  BY DEF OwnCert
<1>4. \A l \in L : l \in links \/ (l[1] = ptr[o] /\ l[3] \in {ptr[crt], ptr[pk]})
  OBVIOUS
<1> HIDE DEF L
<1> QED BY <1>1, <1>2, <1>3, <1>4, KeptByLinks

\* The function stored refers to something held.
LEMMA KeptBySetCallback ==
    ASSUME ObjIInv, KeptInv, NEW o \in Obj, NEW field, NEW f, SetCallback(o, field, f)
    PROVE  KeptInv'
<1>1. /\ UNCHANGED <<kind, ptr, dtor, mem, roots, links, stack>>
      /\ f \in roots \cup {NIL} /\ \A c \in callbacks' : c \in callbacks \/ c[3] = f
  BY DEF SetCallback, heapVars, Assign
<1>2. Reachable' \subseteq Reachable /\ OnStack' = OnStack
  BY <1>1 DEF Reachable, OnStack
<1>3. OnStack' \subseteq roots'
  BY <1>1, <1>2 DEF KeptInv, CallsAreHeld
<1> QED BY <1>1, <1>2, <1>3, KeptByLess DEF OnLoan

\* A call is on a binary that is held; ending one lets go of it.
LEMMA KeptByCall ==
    ASSUME ObjIInv, KeptInv, NEW s \in Obj, SSLCall(s)
    PROVE  KeptInv'
<1>1. /\ UNCHANGED <<kind, ptr, dtor, mem, roots, links, callbacks>>
      /\ stack' = Append(stack, s) /\ s \in roots /\ stack \in Seq(inHeap)
  BY DEF SSLCall, Usable, heapVars, ObjIInv, StackInHeap
<1>3. \A i \in 1 .. Len(stack') : stack'[i] \in OnStack \cup {s}
  <2>1. stack \in Seq(inHeap \cup {s}) /\ s \in inHeap \cup {s}
    BY <1>1
  <2> QED BY <1>1, <2>1, AppendProperties DEF OnStack
<1>4. OnStack' \subseteq OnStack \cup {s}
  BY <1>3 DEF OnStack
<1>5. Reachable' \subseteq Reachable
  BY <1>1, <1>4 DEF Reachable
<1>6. OnStack' \subseteq roots'
  BY <1>1, <1>4 DEF KeptInv, CallsAreHeld
<1> QED BY <1>1, <1>4, <1>5, <1>6, KeptByLess DEF OnLoan

LEMMA KeptByCallEnd ==
    ASSUME ObjIInv, KeptInv, SSLCallEnds
    PROVE  KeptInv'
<1>1. /\ UNCHANGED <<kind, ptr, dtor, mem, roots, links, callbacks>>
      /\ stack' = SubSeq(stack, 1, Len(stack) - 1) /\ stack # <<>>
      /\ stack \in Seq(inHeap)
  BY DEF SSLCallEnds, heapVars, ObjIInv, StackInHeap
<1>2. Len(stack) \in Nat \ {0}
  BY <1>1, EmptySeq
<1>3. \A i \in 1 .. Len(stack') : i \in 1 .. Len(stack) /\ stack'[i] = stack[i]
  BY <1>1, <1>2
<1>4. OnStack' \subseteq OnStack
  BY <1>3 DEF OnStack
<1>5. Reachable' \subseteq Reachable
  BY <1>1, <1>4 DEF Reachable
<1>6. OnStack' \subseteq roots'
  BY <1>1, <1>4 DEF KeptInv, CallsAreHeld
<1> QED BY <1>1, <1>4, <1>5, <1>6, KeptByLess DEF OnLoan

\* A certificate the client holds keeps its lender: the collector frees it
\* with neither.
LEMMA KeptByCollection ==
    ASSUME ObjIInv, KeptInv, NIL \notin Obj, GarbageCollect
    PROVE  KeptInv'
<1> DEFINE D == Destroyed(inHeap \ Reachable)
<1>1. /\ UNCHANGED <<kind, ptr, dtor, roots, stack>>
      /\ links' \subseteq links /\ callbacks' \subseteq callbacks
      /\ mem' = [o \in Obj |-> IF o \in D \cup LentBy(D) THEN "freed" ELSE mem[o]]
  BY DEF GarbageCollect, DestroyStructures
<1>2. Reachable' \subseteq Reachable /\ OnStack' = OnStack
  BY <1>1 DEF Reachable, OnStack
<1>3. OnStack' \subseteq roots'
  BY <1>1, <1>2 DEF KeptInv, CallsAreHeld
<1>4. D \subseteq inHeap \ Reachable
  BY DestroyedAreOwners
<1> HIDE DEF D
<1>5. \A x \in Reachable' : \A y \in Needs(x) : OnLoan(y) => OnLoan(y)'
  <2> SUFFICES ASSUME NEW x \in Reachable, NEW y \in Needs(x), OnLoan(y)
               PROVE  OnLoan(y)'
    BY <1>2
  <2>1. y \in Obj /\ y \in Reachable
    BY DEF KeptInv, NeedsAreHeld, Kept, Reachable
  <2>2. y \notin D
    BY <1>4, <2>1
  <2>3. ASSUME y \in LentBy(D) PROVE FALSE
    <3>1. PICK l \in links : l[1] = y /\ l[3] \in D
      BY <2>3 DEF LentBy
    <3>2. l[3] \in Needs(y)
      BY <3>1 DEF Needs, OnLoan
    <3>3. l[3] = y \/ l[3] \in roots
      BY <2>1, <3>2 DEF KeptInv, NeedsAreHeld
    <3>4. l[3] \in Obj
      BY DEF ObjIInv, LinksFromStructures
    <3>5. l[3] \in Reachable
      BY <2>1, <3>3, <3>4 DEF Reachable
    <3> QED BY <1>4, <3>1, <3>5
  <2>4. mem'[y] = mem[y]
    BY <1>1, <2>1, <2>2, <2>3
  <2> QED BY <1>1, <2>4 DEF OnLoan
<1> QED BY <1>1, <1>2, <1>3, <1>5, KeptByLess

LEMMA KeptByBindings ==
    ASSUME ObjIInv, KeptInv, NEW o \in Obj, Bindings(o)
    PROVE  KeptInv'
<1> USE ObjectAssumption
<1>1. CASE Allocates(o)
  <2>1. \E k \in AllKinds : NewStructure(o, k)
    BY <1>1 DEF Allocates, EntropyNew, CtrDrbgNew, PKNew, SSLNew, SSLCacheNew,
                SSLConfigNew, SSLSessionNew, X509CrtNew, X509CrlNew, AllKinds
  <2> QED BY <2>1, KeptByNew
<1>2. CASE SSLCall(o)
  BY <1>2, KeptByCall
<1>3. CASE SSLConfSNICallback(o) \/ SSLConfVerifyCallback(o)
  BY <1>3, KeptByCallback
<1>4. CASE FunctionRuns(o)
  <2>1. /\ UNCHANGED <<kind, ptr, dtor, mem, links, callbacks, stack>>
        /\ roots' = roots \cup {o} /\ \E c \in callbacks : c[3] = o
    BY <1>4 DEF FunctionRuns, heapVars
  <2>2. Reachable' \subseteq Reachable /\ OnStack' = OnStack
    BY <2>1 DEF Reachable, OnStack
  <2>3. OnStack' \subseteq roots'
    BY <2>1, <2>2 DEF KeptInv, CallsAreHeld
  <2> QED BY <2>1, <2>2, <2>3, KeptByLess DEF OnLoan
<1>5. ASSUME NEW s \in Obj, SSLGetSession(o, s) PROVE KeptInv'
  <2>1. CASE NewStructure(o, "session")
    BY <2>1, KeptByNew
  <2>2. CASE ~NewStructure(o, "session")
    <3>1. /\ kind' = [kind EXCEPT ![o] = "session"] /\ "session" \in AllKinds
          /\ mem' = [mem EXCEPT ![o] = "freed"] /\ Fresh(o)
          /\ UNCHANGED <<ptr, dtor, roots, callbacks, links, stack>>
      BY <1>5, <2>2 DEF SSLGetSession, AllKinds
    <3> QED BY <3>1, KeptByOrphan
  <2> QED BY <2>1, <2>2
<1>6. ASSUME NEW s \in Obj, SSLGetPeerCert(o, s) PROVE KeptInv'
  <2>1. LentCertificate(o, ptr[s]) /\ Usable(s, "ssl") /\ OnStack' \subseteq OnStack
    BY <1>6 DEF SSLGetPeerCert, OnStack
  <2>2. ptr[s] \in roots /\ Kept(ptr[s])
    BY <2>1, UsableNeeds
  <2> QED BY <2>1, <2>2, KeptByLending
<1>7. ASSUME NEW s \in Obj, CtrDrbgSeed(o, s) \/ SSLSetup(o, s) PROVE KeptInv'
  BY <1>7, KeptByAssign DEF CtrDrbgSeed, SSLSetup
<1>8. ASSUME NEW crt \in Obj \cup {NIL}, NEW crl \in Obj \cup {NIL},
             SSLSetHsCAChain(o, crt, crl) \/ SSLConfCAChain(o, crt, crl)
      PROVE  KeptInv'
  BY <1>8, KeptByChain DEF SSLSetHsCAChain, SSLConfCAChain
<1>9. ASSUME NEW crt \in Obj, NEW pk \in Obj,
             SSLSetHsOwnCert(o, crt, pk) \/ SSLConfOwnCert(o, crt, pk)
      PROVE  KeptInv'
  BY <1>9, KeptByOwnCert DEF SSLSetHsOwnCert, SSLConfOwnCert
<1>10. CASE TakesFunction(o)
  <2>1. \E f \in Obj \cup {NIL}, field \in AllFields : SetCallback(o, field, f)
    BY <1>10 DEF TakesFunction, SSLSetBIO, SSLSetTimerCb, SSLConfSNI, SSLConfVerify,
                 AllFields
  <2> QED BY <2>1, KeptBySetCallback
<1>11. CASE PointsTo(o)
  BY <1>7, <1>8, <1>9, <1>11 DEF PointsTo
<1>12. CASE SSLSessionReset(o) \/ SessionReplaced(o)
  BY <1>12, KeptByEnding DEF SSLSessionReset, SessionReplaced
<1> QED BY <1>1, <1>2, <1>3, <1>4, <1>5, <1>6, <1>10, <1>11, <1>12 DEF Bindings

LEMMA KeptStep ==
    ASSUME KeepsLinked, ObjIInv, KeptInv, ObjIInv', [ObjNext]_objVars
    PROVE  KeptInv'
<1> USE ObjectAssumption
<1>1. CASE Install \/ UNCHANGED objVars
  <2>1. UNCHANGED <<kind, ptr, dtor, mem, roots, callbacks, links, stack>>
    BY <1>1 DEF Install, objVars
  <2>2. Reachable' = Reachable /\ OnStack' = OnStack
    BY <2>1 DEF Reachable, OnStack
  <2>3. OnStack' \subseteq roots'
    BY <2>1, <2>2 DEF KeptInv, CallsAreHeld
  <2> QED BY <2>1, <2>2, <2>3, KeptByLess DEF OnLoan
<1>2. CASE Delete
  BY <1>2, KeptByDelete
<1>3. ASSUME NEW o \in Obj, Bindings(o) PROVE KeptInv'
  BY <1>3, KeptByBindings
<1>4. ASSUME NEW o \in Obj, Drop(o) PROVE KeptInv'
  BY <1>4, KeptByDrop
<1>5. CASE SSLCallEnds
  BY <1>5, KeptByCallEnd
<1>6. CASE GarbageCollect
  BY <1>6, KeptByCollection
<1> QED BY <1>1, <1>2, <1>3, <1>4, <1>5, <1>6 DEF ObjNext

\* A client that keeps the arguments of its calls (as the bindings expect,
\* for they keep no reference to the structures mbedtls points to) never
\* makes mbedtls follow a pointer to freed memory: neither the collector, in
\* whatever order it takes binaries, nor PMbedTLS::Delete nor a borrowed
\* binary that outlives a callback gets in its way.  The exception are the
\* certificates of the peer the client still holds after their session.
THEOREM NoDanglingAlways == ObjSpec => []NoDangling
<1>1. ObjInit => (KeepsLinked => KeptInv)
  <2> SUFFICES ASSUME ObjInit PROVE KeptInv
    OBVIOUS
  <2>1. Reachable = {} /\ OnStack = {} /\ links = {}
    BY DEF ObjInit, NoObjects, Reachable, OnStack
  <2> QED BY <2>1 DEF KeptInv, NeedsAreHeld, CallsAreHeld, LinksFromUsed
<1>2. /\ ObjIInv /\ ObjIInv' /\ (KeepsLinked => KeptInv) /\ [ObjNext]_objVars
      => (KeepsLinked => KeptInv)'
  BY KeptStep
<1>3. ObjIInv /\ (KeepsLinked => KeptInv) => NoDangling
  <2> SUFFICES ASSUME ObjIInv, KeptInv, NEW x \in Reachable, NEW y \in Needs(x)
               PROVE  mem[y] \in {"live", "lent", "ended"}
    BY DEF NoDangling
  <2>1. (y = x \/ y \in roots) /\ Kept(y) /\ y \in Obj
    BY DEF KeptInv, NeedsAreHeld, Kept
  <2>2. y \in inHeap
    BY <2>1, ObjectAssumption DEF Reachable, ReachableInHeap, ObjIInv
  <2> QED BY <2>1, <2>2 DEF OwnerIsLive, ObjIInv, Kept, OnLoan
<1> QED BY <1>1, <1>2, <1>3, ObjInvariant, PTL DEF ObjSpec
=============================================================================
