------------------------------ MODULE CObjects ------------------------------
(***************************************************************************)
(* The low-level NewtonScript bindings of PMbedTLS, as far as the life of  *)
(* the mbedtls structures is concerned.  A structure lives in C memory; a  *)
(* NewtonScript binary object holds its pointer and a destructor, which    *)
(* the garbage collector runs when the binary is unreachable.  The         *)
(* destructors are code of the mbed TLS package: a binary that survives    *)
(* the package must not have one left.  So PMbedTLS registers every binary *)
(* in a weak array, mPointers, and PMbedTLS::Delete disarms what is still  *)
(* there.                                                                  *)
(*                                                                         *)
(* An element of Obj names a binary and the structure allocated for it.    *)
(* Binaries made for a structure mbedtls owns (SSLGetPeerCert and the SNI  *)
(* and verify callbacks) have NOPDtor: they point to an ssl context, to a  *)
(* certificate of a CA chain or to one of the peer's.  The latter belongs  *)
(* to the session: the context only lends it, and mbedtls frees it when    *)
(* the session is reset or replaced, while the context lives on.           *)
(*                                                                         *)
(* All of this runs in the Newt task.  Bindings nest: mbedtls calls back   *)
(* into NewtonScript from SSLHandshake and the like, and the function it   *)
(* calls may use any binding.  The garbage collector (external) may run    *)
(* whenever NewtonScript allocates, which is between any two steps.        *)
(***************************************************************************)
EXTENDS Naturals, Sequences

CONSTANTS
    Obj,           \* bound: binaries allocated in one behaviour
    NIL,           \* NILREF in a slot, NULL in a pointer
    Kinds,         \* kinds of structure the client allocates
    Fields,        \* RefStructs of the structures the client sets
    InitialSlots,  \* size of the new weak array (10 in the code)
    MaxDepth,      \* bound: nested calls that run mbedtls
    KeepsLinked    \* the client keeps what its structures point to

AllKinds == {"entropy", "ctrDrbg", "pk", "ssl", "session", "cache",
             "config", "crt", "crl"}

AllFields == {"bio", "timer", "sni", "verify"}

ASSUME ObjectAssumption ==
    /\ NIL \notin Obj
    /\ Fields \subseteq AllFields
    /\ Kinds \subseteq AllKinds
    /\ InitialSlots \in Nat
    /\ MaxDepth \in Nat
    /\ KeepsLinked \in BOOLEAN

VARIABLES
    installed,  \* the package is there: interface singleton and its code
    kind,       \* kind of the structure a binary refers to
    inHeap,     \* binaries in the NewtonScript heap
    ptr,        \* CObject.ptr: the structure a binary points to (or into)
    dtor,       \* CObject.destructor
    mem,        \* the C memory of the structure a binary was made for
    mPointers,  \* the weak array
    roots,      \* binaries NewtonScript code refers to
    callbacks,  \* <<structure, RefStruct, object the function refers to>>
    links,      \* <<structure, field, structure>>: pointers inside C memory,
                \* and <<certificate, "lender", ssl context>>
    stack,      \* the ssl binaries of the calls in progress, innermost last
    threw       \* (history) names whose allocation ended with an exception

objVars == <<installed, kind, inHeap, ptr, dtor, mem, mPointers, roots,
             callbacks, links, stack, threw>>
heapVars == <<installed, kind, inHeap, ptr, dtor, mem, mPointers, threw>>

NoObjects ==
    /\ kind = [o \in Obj |-> "none"]
    /\ inHeap = {}
    /\ ptr = [o \in Obj |-> NIL]
    /\ dtor = [o \in Obj |-> "none"]
    /\ mem = [o \in Obj |-> "none"]
    /\ roots = {} /\ callbacks = {} /\ links = {} /\ stack = <<>> /\ threw = {}

ObjInit == installed = FALSE /\ mPointers = <<>> /\ NoObjects

OnStack == {stack[i] : i \in 1 .. Len(stack)}

\* RefStructs are roots of the garbage collector like NewtonScript's own.
Reachable == (roots \cup OnStack \cup {c[3] : c \in callbacks}) \ {NIL}

\* Assigning a C pointer or a RefStruct replaces what was there.
Assign(rel, o, field, targets) ==
    {t \in rel : ~(t[1] = o /\ t[2] = field)} \cup ({o} \X {field} \X targets)

(***************************************************************************)
(* The package.  Installing it creates the singleton (every binding would) *)
(* and New makes a weak array of nils.  Deleting the singleton frees every *)
(* registered binary; the code of the package goes away with it.  The      *)
(* remove script runs from the event loop, under no call of a binding.     *)
(***************************************************************************)
Install ==
    /\ ~installed
    /\ installed' = TRUE
    /\ mPointers' = [i \in 1 .. InitialSlots |-> NIL]
    /\ UNCHANGED <<kind, inHeap, ptr, dtor, mem, roots, callbacks, links, stack, threw>>

Slots(arr) == {arr[i] : i \in 1 .. Len(arr)} \ {NIL}

\* The structures the destructors of these binaries free.
Destroyed(bins) == {ptr[o] : o \in {b \in bins : ptr[b] # NIL /\ dtor[b] = "free"}}

\* The certificates these contexts lend.
LentBy(S) == {l[1] : l \in {k \in links : k[2] = "lender" /\ k[3] \in S}}

\* A destructor releases the memory, the RefStructs and the pointers in it,
\* and the certificates of the session.
DestroyStructures(S) ==
    LET gone == S \cup LentBy(S)
    IN  /\ mem' = [o \in Obj |-> IF o \in gone THEN "freed" ELSE mem[o]]
        /\ callbacks' = {c \in callbacks : c[1] \notin S}
        /\ links' = {l \in links : l[1] \notin gone}

\* Mutant: the binary keeps its destructor and pointer.
FreeCObjectBinariesArmed(bins) ==
    /\ DestroyStructures(Destroyed(bins))
    /\ UNCHANGED <<ptr, dtor>>

\* FreeCObjectBinary on each of these binaries.
FreeCObjectBinaries(bins) ==
    /\ DestroyStructures(Destroyed(bins))
    /\ ptr' = [o \in Obj |-> IF o \in bins THEN NIL ELSE ptr[o]]
    /\ dtor' = [o \in Obj |->
          IF o \in bins /\ ptr[o] # NIL THEN "dispose" ELSE dtor[o]]

Delete ==
    /\ installed
    /\ stack = <<>>
    /\ FreeCObjectBinaries(Slots(mPointers))
    /\ installed' = FALSE
    /\ mPointers' = <<>>
    /\ UNCHANGED <<kind, inHeap, roots, stack, threw>>

(***************************************************************************)
(* Allocation: NewPtr, the mbedtls init function, then a binary registered *)
(* in the first nil slot of mPointers or, when there is none, at its end.  *)
(***************************************************************************)
NilSlots(arr) == {i \in 1 .. Len(arr) : arr[i] = NIL}
FirstNil(arr) == CHOOSE j \in NilSlots(arr) : \A k \in NilSlots(arr) : j <= k

\* Mutant: the first slot is taken whatever it holds.
RegisteredInOverwriting(arr, o) ==
    IF Len(arr) = 0 THEN Append(arr, o) ELSE [arr EXCEPT ![1] = o]

RegisteredIn(arr, o) ==
    IF NilSlots(arr) = {} THEN Append(arr, o)
    ELSE [arr EXCEPT ![FirstNil(arr)] = o]

\* A binary for structure s, with the destructor d, handed to NewtonScript.
\* Making the array longer needs room in the heap as well: AddArraySlot may
\* throw when the binary is armed already.  Nothing refers to it then.
DoAllocateCObjectBinary(o, k, s, d) ==
    /\ kind' = [kind EXCEPT ![o] = k]
    /\ inHeap' = inHeap \cup {o}
    /\ ptr' = [ptr EXCEPT ![o] = s]
    /\ dtor' = [dtor EXCEPT ![o] = d]
    /\ \/ /\ mPointers' = RegisteredIn(mPointers, o)
          /\ roots' = roots \cup {o}
          /\ UNCHANGED threw
       \/ /\ NilSlots(mPointers) = {}
          /\ threw' = threw \cup {o}
          /\ UNCHANGED <<mPointers, roots>>

Fresh(o) == kind[o] = "none"

\* The NewtonScript heap may be full: AllocateCObjectBinary then throws and
\* nothing refers to the structure any more.
AllocationThrows(o, k) ==
    /\ kind' = [kind EXCEPT ![o] = k]
    /\ mem' = [mem EXCEPT ![o] = "orphan"]
    /\ threw' = threw \cup {o}
    /\ UNCHANGED <<inHeap, ptr, dtor, mPointers, roots>>

NewStructure(o, k) ==
    /\ installed
    /\ k \in Kinds
    /\ Fresh(o)
    /\ \/ /\ DoAllocateCObjectBinary(o, k, o, "free")
          /\ mem' = [mem EXCEPT ![o] = "live"]
       \/ AllocationThrows(o, k)
    /\ UNCHANGED <<installed, callbacks, links, stack>>

EntropyNew(o) == NewStructure(o, "entropy")
CtrDrbgNew(o) == NewStructure(o, "ctrDrbg")
PKNew(o) == NewStructure(o, "pk")
SSLNew(o) == NewStructure(o, "ssl")
SSLCacheNew(o) == NewStructure(o, "cache")
SSLConfigNew(o) == NewStructure(o, "config")
SSLSessionNew(o) == NewStructure(o, "session")
X509CrtNew(o) == NewStructure(o, "crt")
X509CrlNew(o) == NewStructure(o, "crl")

\* A binary the client can pass to a binding that expects a k.
Usable(o, k) == installed /\ o \in roots /\ kind[o] = k /\ ptr[o] # NIL

\* mbedtls_ssl_get_session may fail: the new structure is freed on the spot.
SSLGetSession(o, s) ==
    /\ Usable(s, "ssl")
    /\ \/ NewStructure(o, "session")
       \/ /\ "session" \in Kinds
          /\ Fresh(o)
          /\ kind' = [kind EXCEPT ![o] = "session"]
          /\ mem' = [mem EXCEPT ![o] = "freed"]
          /\ UNCHANGED <<installed, inHeap, ptr, dtor, mPointers, roots,
                         callbacks, links, stack, threw>>

\* Mutant: the binary gets a destructor that frees the structure.
BorrowedBinaryOwning(o, k, s) ==
    /\ Fresh(o)
    /\ DoAllocateCObjectBinary(o, k, s, "free")
    /\ UNCHANGED <<installed, mem, callbacks, links>>

\* A binary for (or into) a structure that has one already.
BorrowedBinary(o, k, s) ==
    /\ Fresh(o)
    /\ DoAllocateCObjectBinary(o, k, s, "nop")
    /\ UNCHANGED <<installed, mem, callbacks, links>>

\* A binary for a certificate of the session of the ssl context s.
LentCertificate(o, s) ==
    /\ Fresh(o)
    /\ DoAllocateCObjectBinary(o, "crt", o, "nop")
    /\ mem' = [mem EXCEPT ![o] = "lent"]
    /\ links' = links \cup {<<o, "lender", s>>}
    /\ UNCHANGED <<installed, callbacks>>

SSLGetPeerCert(o, s) ==
    /\ Usable(s, "ssl")
    /\ "crt" \in Kinds
    /\ LentCertificate(o, ptr[s])
    /\ UNCHANGED stack

\* mbedtls frees certificates of a session whose context lives on.
EndCertificates(C) ==
    /\ mem' = [o \in Obj |-> IF o \in C THEN "ended" ELSE mem[o]]
    /\ links' = {l \in links : l[1] \notin C}
    /\ UNCHANGED <<installed, kind, inHeap, ptr, dtor, mPointers, threw,
                   roots, callbacks, stack>>

SSLSessionReset(s) ==
    /\ Usable(s, "ssl")
    /\ EndCertificates(LentBy({ptr[s]}))

(***************************************************************************)
(* The bindings that make mbedtls keep a pointer to another structure.     *)
(* (SSLConfRng takes its argument from a fresh RefVar, so it fails on nil  *)
(* and links nothing; SSLConfSessionCache is not implemented.)  The first  *)
(* four replace the pointer, an own certificate is added to a list.  NULL  *)
(* is passed for a missing certificate or revocation list.                 *)
(***************************************************************************)
Link(newLinks) ==
    /\ links' = newLinks
    /\ UNCHANGED <<heapVars, roots, callbacks, stack>>

UsableOrNil(o, k) == o = NIL \/ Usable(o, k)

CtrDrbgSeed(d, e) ==
    /\ Usable(d, "ctrDrbg") /\ Usable(e, "entropy")
    /\ Link(Assign(links, ptr[d], "entropy", {ptr[e]}))

SSLSetup(s, c) ==
    /\ Usable(s, "ssl") /\ Usable(c, "config")
    /\ Link(Assign(links, ptr[s], "conf", {ptr[c]}))

CAChain(o, crt, crl) ==
    /\ UsableOrNil(crt, "crt") /\ UsableOrNil(crl, "crl")
    /\ Link(Assign(Assign(links, ptr[o], "ca", IF crt = NIL THEN {} ELSE {ptr[crt]}),
                   ptr[o], "crl", IF crl = NIL THEN {} ELSE {ptr[crl]}))

SSLSetHsCAChain(s, crt, crl) == Usable(s, "ssl") /\ CAChain(s, crt, crl)
SSLConfCAChain(c, crt, crl) == Usable(c, "config") /\ CAChain(c, crt, crl)

OwnCert(o, crt, pk) ==
    /\ Usable(crt, "crt") /\ Usable(pk, "pk")
    /\ Link(links \cup {<<ptr[o], "own", ptr[crt]>>, <<ptr[o], "own", ptr[pk]>>})

SSLSetHsOwnCert(s, crt, pk) == Usable(s, "ssl") /\ OwnCert(s, crt, pk)
SSLConfOwnCert(c, crt, pk) == Usable(c, "config") /\ OwnCert(c, crt, pk)

(***************************************************************************)
(* The bindings that store NewtonScript functions in RefStructs of the     *)
(* structure.  f is an object the function (its closure) refers to, or NIL *)
(* when it refers to none of ours.                                         *)
(***************************************************************************)
SetCallback(o, field, f) ==
    /\ field \in Fields
    /\ f \in roots \cup {NIL}
    /\ callbacks' = Assign(callbacks, ptr[o], field, {f})
    /\ UNCHANGED <<heapVars, roots, links, stack>>

SSLSetBIO(s, f) == Usable(s, "ssl") /\ SetCallback(s, "bio", f)
SSLSetTimerCb(s, f) == Usable(s, "ssl") /\ SetCallback(s, "timer", f)
SSLConfSNI(c, f) == Usable(c, "config") /\ SetCallback(c, "sni", f)
SSLConfVerify(c, f) == Usable(c, "config") /\ SetCallback(c, "verify", f)

(***************************************************************************)
(* The bindings that run mbedtls (SSLHandshake, SSLHandshakeStep, SSLRead, *)
(* SSLWrite, SSLCloseNotify, SSLRenegotiate ...).  While one is running,   *)
(* mbedtls calls the send, receive, timer, SNI and verify functions: the   *)
(* NewtonScript steps taken with a non-empty stack.  It ends by returning  *)
(* or by an exception a function threw, which unwinds it.                  *)
(***************************************************************************)
SSLCall(s) ==
    /\ Usable(s, "ssl")
    /\ Len(stack) < MaxDepth
    /\ stack' = Append(stack, s)
    /\ UNCHANGED <<heapVars, roots, callbacks, links>>

SSLCallEnds ==
    /\ stack # <<>>
    /\ stack' = SubSeq(stack, 1, Len(stack) - 1)
    /\ UNCHANGED <<heapVars, roots, callbacks, links>>

\* The ssl context mbedtls is running; its config has this function.
Running == ptr[stack[Len(stack)]]

\* The structures this one points to in this field.
PointedTo(s, field) == {l[3] : l \in {k \in links : k[1] = s /\ k[2] = field}}

CallsBack(field) ==
    /\ stack # <<>>
    /\ \E c \in callbacks : c[1] \in PointedTo(Running, "conf") /\ c[2] = field

\* A full heap in a callback of mbedtls unwinds the call.
UnwoundIfThrown(o) ==
    stack' = IF o \in threw' THEN SubSeq(stack, 1, Len(stack) - 1) ELSE stack

SSLConfSNICallback(o) ==
    /\ CallsBack("sni")
    /\ BorrowedBinary(o, "ssl", Running)
    /\ UnwoundIfThrown(o)

\* The verify function sees the certificates the peer sent and the one of the
\* CA chain (of the context or of its configuration) that they lead to.
SSLConfVerifyCallback(o) ==
    /\ CallsBack("verify")
    /\ \/ LentCertificate(o, Running)
       \/ \E c \in {Running} \cup PointedTo(Running, "conf") :
             \E ca \in PointedTo(c, "ca") : BorrowedBinary(o, "crt", ca)
    /\ UnwoundIfThrown(o)

\* A handshake or a renegotiation replaces the session: certificates of the
\* old one go, those of the chain just verified may too.
SessionReplaced(o) ==
    /\ stack # <<>>
    /\ o \in LentBy({Running})
    /\ EndCertificates({o})

\* A send, receive or timer function runs: it can use what it refers to.
FunctionRuns(f) ==
    /\ stack # <<>>
    /\ f \notin roots
    /\ \E c \in callbacks : c[1] = Running /\ c[3] = f
    /\ roots' = roots \cup {f}
    /\ UNCHANGED <<heapVars, callbacks, links, stack>>

(***************************************************************************)
(* The client forgets a binary.  Nothing tells it which structures point   *)
(* to which; with KeepsLinked it keeps the arguments of its calls and what *)
(* the binaries it can still reach need, as the code expects.              *)
(***************************************************************************)
Needs(x) == {l[3] : l \in {k \in links : k[1] = ptr[x]}} \cup ({ptr[x]} \ {NIL})

Drop(o) ==
    /\ o \in roots
    /\ KeepsLinked => /\ o \notin OnStack
                      /\ \A x \in Reachable \ {o} : o \notin Needs(x)
    /\ roots' = roots \ {o}
    /\ UNCHANGED <<heapVars, callbacks, links, stack>>

\* The garbage collector: unreachable binaries go, their destructors run
\* and the weak array forgets them.
GarbageCollect ==
    LET garbage == inHeap \ Reachable
    IN  /\ garbage # {}
        /\ DestroyStructures(Destroyed(garbage))
        /\ inHeap' = inHeap \ garbage
        /\ mPointers' = [i \in 1 .. Len(mPointers) |->
               IF mPointers[i] \in garbage THEN NIL ELSE mPointers[i]]
        /\ UNCHANGED <<installed, kind, ptr, dtor, roots, stack, threw>>

\* The native functions of the package, by what they do to the heap: they
\* allocate a structure, make one point to others, hand functions to one, or
\* read through one.  Each passes its arguments to PMbedTLS unchanged.
Allocates(o) ==
    \/ EntropyNew(o) \/ CtrDrbgNew(o) \/ PKNew(o) \/ SSLNew(o)
    \/ SSLCacheNew(o) \/ SSLConfigNew(o) \/ SSLSessionNew(o)
    \/ X509CrtNew(o) \/ X509CrlNew(o)

PointsTo(o) ==
    \/ \E s \in Obj : CtrDrbgSeed(o, s) \/ SSLSetup(o, s)
    \/ \E crt, crl \in Obj \cup {NIL} :
          SSLSetHsCAChain(o, crt, crl) \/ SSLConfCAChain(o, crt, crl)
    \/ \E crt, pk \in Obj : SSLSetHsOwnCert(o, crt, pk) \/ SSLConfOwnCert(o, crt, pk)

TakesFunction(o) ==
    \E f \in Obj \cup {NIL} : \/ SSLSetBIO(o, f) \/ SSLSetTimerCb(o, f)
                              \/ SSLConfSNI(o, f) \/ SSLConfVerify(o, f)

Bindings(o) ==
    \/ Allocates(o) \/ PointsTo(o) \/ TakesFunction(o)
    \/ SSLCall(o) \/ SSLConfSNICallback(o) \/ SSLConfVerifyCallback(o)
    \/ FunctionRuns(o) \/ SSLSessionReset(o) \/ SessionReplaced(o)
    \/ \E s \in Obj : SSLGetSession(o, s) \/ SSLGetPeerCert(o, s)

ObjNext ==
    \/ Install \/ Delete
    \/ \E o \in Obj : Bindings(o) \/ Drop(o)
    \/ SSLCallEnds
    \/ GarbageCollect

ObjSpec == ObjInit /\ [][ObjNext]_objVars

-----------------------------------------------------------------------------
Structures == {o \in Obj : mem[o] = "live"}

\* Types of the heap; what is reachable is in the heap, and only structures
\* that are allocated hold RefStructs and pointers.
ObjTypeOK ==
    /\ installed \in BOOLEAN
    /\ kind \in [Obj -> AllKinds \cup {"none"}]
    /\ inHeap \subseteq Obj
    /\ ptr \in [Obj -> Obj \cup {NIL}]
    /\ dtor \in [Obj -> {"none", "free", "nop", "dispose"}]
    /\ mem \in [Obj -> {"none", "live", "freed", "orphan", "lent", "ended"}]
    /\ mPointers \in Seq(Obj \cup {NIL})
    /\ roots \subseteq inHeap
    /\ callbacks \subseteq Structures
                           \X AllFields \X (inHeap \cup {NIL})
    /\ \A l \in links : /\ l[2] \in {"entropy", "conf", "ca", "crl", "own", "lender"}
                        /\ l[1] \in Obj /\ l[3] \in Obj
                        /\ mem[l[1]] = IF l[2] = "lender" THEN "lent" ELSE "live"
    /\ stack \in Seq(inHeap)
    /\ threw \subseteq Obj

\* A destructor that can still run finds its structure allocated, and is the
\* only one that frees it: no structure is freed twice, by the collector or
\* by PMbedTLS::Delete, in whatever order the two get to it.
NoDoubleFree ==
    \A o \in inHeap : ptr[o] # NIL /\ dtor[o] = "free" =>
        /\ mem[ptr[o]] = "live"
        /\ \A p \in inHeap : ptr[p] = ptr[o] /\ dtor[p] = "free" => p = o

\* While the package is installed every armed binary has exactly one slot of
\* mPointers, however many were allocated and collected before: that is how
\* PMbedTLS::Delete finds them all.  The exception is a binary AddArraySlot
\* threw for: it has no slot, and nothing in NewtonScript reaches it.
EveryBinaryRegistered ==
    installed =>
        \A o \in inHeap : ptr[o] # NIL =>
            IF o \in threw THEN o \notin Slots(mPointers) \cup Reachable
            ELSE \E i \in 1 .. Len(mPointers) :
                    /\ mPointers[i] = o
                    /\ \A j \in 1 .. Len(mPointers) : mPointers[j] = o => j = i

\* Once the package is gone no binary left in the heap has a pointer or a
\* destructor of ours: a later garbage collection runs none of its code.
\* The exception is a binary that was armed when AddArraySlot threw (a full
\* heap at line 2150) and that no collection took before Delete: what is left
\* is one of those, or is disarmed.
NoStrayDestructor ==
    ~installed => \A o \in inHeap :
        \/ ptr[o] = NIL /\ dtor[o] = "dispose"
        \/ o \in threw /\ o \notin Reachable

\* What removing the package leaves allocated in C memory are structures whose
\* allocation threw, before the binary was made (an orphan) or before it was
\* registered; NewtonScript reaches none of them.  Everything else is freed.
NothingLeftBehind ==
    ~installed => \A o \in Obj :
        mem[o] \in {"live", "orphan"} => o \in threw /\ o \notin Reachable

\* Whatever a binary the client can still use makes mbedtls follow (its own
\* pointer and the pointers inside) leads to memory that is allocated.  The
\* exception is a certificate of the peer that the client still has when the
\* session it belongs to is reset or replaced: keeping the context is not
\* enough to keep it.
NoDangling ==
    KeepsLinked => \A x \in Reachable :
        \A y \in Needs(x) : mem[y] \in {"live", "lent", "ended"}
=============================================================================
