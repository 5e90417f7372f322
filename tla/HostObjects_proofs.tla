------------------------- MODULE HostObjects_proofs -------------------------
(***************************************************************************)
(* Proofs about HostObjects for every value of its constants: the type     *)
(* invariant; for a host that always passes out and err_out pointers, that *)
(* nothing the wrapper allocates is lost; and for every host, that every   *)
(* release rebuilds an allocation with the layout it was made with.        *)
(***************************************************************************)
EXTENDS HostObjects, TLAPS

-----------------------------------------------------------------------------
(* Type correctness. *)

LEMMA AllocType ==
    ASSUME TypeOK, NEW a \in Addrs, NEW k \in Kinds, NEW n \in 0..MaxMsgs,
           NEW c \in Nat, Alloc(a, k, n, c, TRUE) \/ Alloc(a, k, n, c, FALSE)
    PROVE  TypeOK'
BY DEF Alloc, TypeOK

LEMMA DropType ==
    ASSUME TypeOK, NEW a \in Addrs, NEW f \in Nat, NEW l \in Nat, Drop(a, f, l)
    PROVE  TypeOK'
BY HostConstAssumption DEF Drop, TypeOK

(* The initial state is well typed. *)
LEMMA HostTypeCorrectInit == Init => TypeOK
<1> SUFFICES ASSUME Init PROVE TypeOK
  OBVIOUS
<1>1. obj \in [Addrs -> Kinds \cup {"free"}] /\ hkind \in [Addrs -> Kinds]
  BY DEF Init, Kinds
<1>2. inner \in [Addrs -> 0..MaxMsgs] /\ hlen \in [Addrs -> 0..MaxMsgs]
  BY HostConstAssumption DEF Init
<1>3. cap \in [Addrs -> Nat]
  BY DEF Init
<1>4. held \subseteq Addrs
  BY DEF Init
<1>5. leaked \in BOOLEAN
  BY Zenon DEF Init
<1>6. ub \in BOOLEAN
  BY Zenon DEF Init
<1>7. QED
  BY <1>1, <1>2, <1>3, <1>4, <1>5, <1>6 DEF TypeOK

(* The type invariant holds in every reachable state. *)
THEOREM HostTypeCorrect == Spec => []TypeOK
<1>1. Init => TypeOK
  BY HostTypeCorrectInit
<1>2. TypeOK /\ [Next]_vars => TypeOK'
  <2> SUFFICES ASSUME TypeOK, [Next]_vars PROVE TypeOK'
    OBVIOUS
  <2>1. ASSUME NEW a \in Addrs, NEW k \in 0..MaxMsgs, NEW o \in OutPtrs,
               RoundCallOk(a, k, o)
        PROVE  TypeOK'
    BY <2>1 DEF RoundCallOk, BoxedMessages, Alloc, TypeOK, Kinds, vars
  <2>2. ASSUME NEW a \in Addrs, NEW e \in ErrOutPtrs, ErrorReturn(a, e)
        PROVE  TypeOK'
    BY <2>2, HostConstAssumption DEF ErrorReturn, NewError, Alloc, TypeOK, Kinds, vars
  <2>8. ASSUME NEW a \in Addrs, NEW e \in ErrOutPtrs, RoundCallError(a, e)
        PROVE  TypeOK'
    BY <2>8, HostConstAssumption DEF RoundCallError, NewError, Alloc, TypeOK, Kinds
  <2>3. ASSUME NEW a \in Addrs, SingleMessageCall(a)
        PROVE  TypeOK'
    BY <2>3, HostConstAssumption DEF SingleMessageCall, NewMessage, Alloc, TypeOK, Kinds
  <2>4. ASSUME NEW a \in Addrs, NEW ok \in BOOLEAN, ToBytesCall(a, ok)
        PROVE  TypeOK'
    BY <2>4, HostConstAssumption DEF ToBytesCall, FromVec, Alloc, TypeOK, Kinds, vars
  <2>5. ASSUME NEW a \in Addrs, HostRelease(a)
        PROVE  TypeOK'
    <3>1. hlen[a] \in Nat /\ cap[a] \in Nat
      BY DEF TypeOK
    <3>2. \E f, l \in Nat : Drop(a, f, l)
      BY <2>5, <3>1 DEF HostRelease, MessageFree, MessageFreeArray, FreeBytes, FreeError
    <3>3. QED
      BY <3>2, DropType
  <2>6. CASE NullRelease \/ UNCHANGED vars
    BY <2>6 DEF NullRelease, vars, TypeOK
  <2>7. QED
    BY <2>1, <2>2, <2>8, <2>3, <2>4, <2>5, <2>6 DEF Next
<1>3. QED
  BY <1>1, <1>2, PTL DEF Spec

-----------------------------------------------------------------------------
(* Nothing lost, layouts match.  Neither is inductive by itself: a       *)
(* release must also know that the object it frees has the shape its     *)
(* kind gives it (a message or an error owns one allocation of capacity *)
(* one, an array was made with capacity equal to its length, a byte      *)
(* buffer owns nothing), and that the host was told that shape.          *)

Shape(a) ==
    /\ hkind[a] \in {"message", "error"} => inner[a] = 1 /\ cap[a] = 1
    /\ hkind[a] = "array" => cap[a] = inner[a]
    /\ hkind[a] = "bytes" => inner[a] = 0

HInv == TypeOK /\ NothingLost /\ LayoutsMatch /\ \A a \in held : Shape(a)

(* Allocating at a free address for the host keeps the invariant when the *)
(* new object has the shape of its kind.                                   *)
LEMMA AllocHInv ==
    ASSUME HInv, NEW a \in Addrs, NEW k \in Kinds, NEW n \in 0..MaxMsgs, NEW c \in Nat,
           Alloc(a, k, n, c, TRUE),
           k \in {"message", "error"} => n = 1 /\ c = 1,
           k = "array" => c = n,
           k = "bytes" => n = 0
    PROVE  HInv'
<1>1. TypeOK'
  BY AllocType DEF HInv
<1>2. a \notin held
  BY DEF Alloc, HInv, NothingLost
<1>3. NothingLost'
  BY <1>2 DEF Alloc, HInv, NothingLost, TypeOK, Kinds
<1>4. (\A x \in held : Shape(x))'
  BY <1>2 DEF Alloc, HInv, Shape, TypeOK
<1>5. QED
  BY <1>1, <1>3, <1>4 DEF Alloc, HInv, LayoutsMatch

(* The host's release of an object it holds frees every allocation the *)
(* object owns and rebuilds it with its own layout.                    *)
LEMMA ReleaseHInv ==
    ASSUME HInv, NEW a \in Addrs, HostRelease(a)
    PROVE  HInv'
<1>1. a \in held /\ Shape(a) /\ hkind[a] = obj[a]
  BY DEF HostRelease, HInv, NothingLost
<1>2. PICK f \in Nat, l \in Nat : Drop(a, f, l) /\ f = inner[a] /\ l = cap[a]
  <2>1. CASE hkind[a] = "message"
    BY <1>1, <2>1 DEF HostRelease, MessageFree, Shape, HInv, TypeOK
  <2>2. CASE hkind[a] = "error"
    BY <1>1, <2>2 DEF HostRelease, FreeError, Shape, HInv, TypeOK
  <2>3. CASE hkind[a] = "bytes"
    BY <1>1, <2>3 DEF HostRelease, FreeBytes, Shape, HInv, TypeOK
  <2>4. CASE hkind[a] = "array"
    <3>1. hlen[a] = inner[a] /\ cap[a] = inner[a]
      BY <1>1, <2>4 DEF HInv, NothingLost, Shape
    <3>2. QED
      BY <1>1, <2>4, <3>1 DEF HostRelease, MessageFreeArray, HInv, TypeOK
  <2>6. CASE hkind[a] = "text"
    BY <2>6 DEF HostRelease
  <2>5. QED
    BY <2>1, <2>2, <2>3, <2>4, <2>6 DEF HInv, TypeOK, Kinds
<1>3. TypeOK'
  BY <1>2, DropType DEF HInv
<1>4. ~leaked'
  <2>1. ~leaked /\ inner[a] \in Nat
    BY DEF HInv, NothingLost, TypeOK
  <2>2. ~(inner[a] > f)
    BY <1>2, <2>1
  <2>3. leaked' = (leaked \/ inner[a] > f)
    BY <1>2 DEF Drop
  <2>4. QED
    BY <2>1, <2>2, <2>3, Zenon
<1>9. ~ub'
  <2>1. ~ub /\ inner[a] \in Nat /\ cap[a] \in Nat
    BY DEF HInv, LayoutsMatch, TypeOK
  <2>2. ~(cap[a] # l) /\ ~(f > inner[a])
    BY <1>2, <2>1
  <2>3. ub' = (ub \/ cap[a] # l \/ f > inner[a])
    BY <1>2 DEF Drop
  <2>4. QED
    BY <2>1, <2>2, <2>3, Zenon
<1>5. held' = {x \in Addrs : obj'[x] # "free"}
  BY <1>2 DEF Drop, HInv, NothingLost, TypeOK
<1>6. \A x \in held' : hkind'[x] = obj'[x] /\ (obj'[x] = "array" => hlen'[x] = inner'[x])
  BY <1>2 DEF Drop, HInv, NothingLost
<1>7. (\A x \in held : Shape(x))'
  BY <1>2 DEF Drop, HInv, Shape
<1>8. QED
  BY <1>3, <1>4, <1>9, <1>5, <1>6, <1>7 DEF HInv, NothingLost, LayoutsMatch

(* For a host that always passes a MessageArray for *out and a GoError   *)
(* pointer for *err_out, HInv is an inductive invariant.                 *)
LEMMA HInvHolds ==
    ASSUME OutPtrs = {"valid"}, ErrOutPtrs = {"valid"}
    PROVE  Spec => []HInv
<1>1. Init => HInv
  <2> SUFFICES ASSUME Init PROVE HInv
    OBVIOUS
  <2>1. TypeOK
    BY HostTypeCorrectInit
  <2>2. held = {x \in Addrs : obj[x] # "free"} /\ held = {}
    BY DEF Init
  <2>3. ~leaked /\ ~ub
    BY Zenon DEF Init
  <2>4. QED
    BY <2>1, <2>2, <2>3 DEF HInv, NothingLost, LayoutsMatch
<1>2. HInv /\ [Next]_vars => HInv'
  <2> SUFFICES ASSUME HInv, [Next]_vars PROVE HInv'
    OBVIOUS
  <2>1. ASSUME NEW a \in Addrs, NEW k \in 0..MaxMsgs, NEW o \in OutPtrs,
               RoundCallOk(a, k, o)
        PROVE  HInv'
    <3>1. CASE k = 0
      <4>1. UNCHANGED vars
        BY <2>1, <3>1 DEF RoundCallOk, BoxedMessages, Alloc
      <4>2. QED
        BY <4>1 DEF vars, HInv, TypeOK, NothingLost, LayoutsMatch, Shape
    <3>2. CASE k > 0
      <4>1. o = "valid"
        OBVIOUS
      <4>2. Alloc(a, "array", k, k, TRUE)
        BY <2>1, <3>2, <4>1 DEF RoundCallOk, BoxedMessages, Alloc
      <4>3. "array" \in Kinds /\ k \in Nat
        BY DEF Kinds
      <4>4. QED
        BY <4>2, <4>3, AllocHInv
    <3>3. QED
      BY <3>1, <3>2
  <2>2. ASSUME NEW a \in Addrs, NEW e \in ErrOutPtrs, ErrorReturn(a, e)
        PROVE  HInv'
    <3>1. CASE e = "null"
      BY <2>2, <3>1 DEF ErrorReturn, vars, HInv, TypeOK, NothingLost, LayoutsMatch, Shape
    <3>2. CASE e = "valid"
      <4>1. Alloc(a, "error", 1, 1, TRUE)
        BY <2>2, <3>2 DEF ErrorReturn, NewError
      <4>2. "error" \in Kinds /\ 1 \in 0..MaxMsgs
        BY HostConstAssumption DEF Kinds
      <4>3. QED
        BY <4>1, <4>2, AllocHInv
    <3>3. QED
      BY <3>1, <3>2, HostConstAssumption
  <2>8. ASSUME NEW a \in Addrs, NEW e \in ErrOutPtrs, RoundCallError(a, e)
        PROVE  HInv'
    <3>1. Alloc(a, "error", 1, 1, TRUE)
      BY <2>8 DEF RoundCallError, NewError
    <3>2. "error" \in Kinds /\ 1 \in 0..MaxMsgs
      BY HostConstAssumption DEF Kinds
    <3>3. QED
      BY <3>1, <3>2, AllocHInv
  <2>3. ASSUME NEW a \in Addrs, SingleMessageCall(a)
        PROVE  HInv'
    <3>1. Alloc(a, "message", 1, 1, TRUE)
      BY <2>3 DEF SingleMessageCall, NewMessage
    <3>2. "message" \in Kinds /\ 1 \in 0..MaxMsgs
      BY HostConstAssumption DEF Kinds
    <3>3. QED
      BY <3>1, <3>2, AllocHInv
  <2>4. ASSUME NEW a \in Addrs, NEW ok \in BOOLEAN, ToBytesCall(a, ok)
        PROVE  HInv'
    <3>1. CASE ~ok
      BY <2>4, <3>1 DEF ToBytesCall, vars, HInv, TypeOK, NothingLost, LayoutsMatch, Shape
    <3>2. CASE ok
      <4>1. Alloc(a, "bytes", 0, 1, TRUE)
        BY <2>4, <3>2 DEF ToBytesCall, FromVec
      <4>2. "bytes" \in Kinds /\ 0 \in 0..MaxMsgs
        BY HostConstAssumption DEF Kinds
      <4>3. QED
        BY <4>1, <4>2, AllocHInv
    <3>3. QED
      BY <3>1, <3>2
  <2>5. ASSUME NEW a \in Addrs, HostRelease(a)
        PROVE  HInv'
    BY <2>5, ReleaseHInv
  <2>6. CASE NullRelease \/ UNCHANGED vars
    BY <2>6 DEF NullRelease, vars, HInv, TypeOK, NothingLost, LayoutsMatch, Shape
  <2>7. QED
    BY <2>1, <2>2, <2>8, <2>3, <2>4, <2>5, <2>6 DEF Next
<1>3. QED
  BY <1>1, <1>2, PTL DEF Spec

(* A host that always passes a MessageArray for *out and a GoError       *)
(* pointer for *err_out loses nothing: every live allocation is one it   *)
(* holds, with the kind and length it was told, and no payload or error  *)
(* text outlives its owner.  Each hypothesis is needed: with a null out   *)
(* a round call leaks its boxed messages, and with a null err_out it     *)
(* leaks the CString of its GoError.                                     *)
THEOREM NothingLostHolds ==
    ASSUME OutPtrs = {"valid"}, ErrOutPtrs = {"valid"}
    PROVE  Spec => []NothingLost
BY HInvHolds, PTL DEF HInv

-----------------------------------------------------------------------------
(* Layouts match for every host.  A host that passes a null out pointer   *)
(* loses the slice a round call boxed, so not every live allocation is    *)
(* held; but one it does not hold it never releases.  LInv keeps of HInv *)
(* only what a release needs: what the host holds is live, of the kind  *)
(* and length it was told, and shaped as its kind says.                   *)

LInv ==
    /\ TypeOK
    /\ LayoutsMatch
    /\ \A a \in held : /\ obj[a] = hkind[a]
                       /\ obj[a] = "array" => hlen[a] = inner[a]
                       /\ Shape(a)

(* An allocation at a free address, handed to the host or not, keeps LInv *)
(* when the new object has the shape of its kind.                         *)
LEMMA AllocLInv ==
    ASSUME LInv, NEW a \in Addrs, NEW k \in Kinds, NEW n \in 0..MaxMsgs, NEW c \in Nat,
           NEW t \in BOOLEAN, Alloc(a, k, n, c, t),
           k \in {"message", "error"} => n = 1 /\ c = 1,
           k = "array" => c = n,
           k = "bytes" => n = 0
    PROVE  LInv'
<1>1. TypeOK'
  BY AllocType DEF LInv
<1>2. a \notin held
  BY DEF Alloc, LInv, TypeOK, Kinds
<1>3. CASE t
  <2>1. held' = held \cup {a} /\ hkind' = [hkind EXCEPT ![a] = k]
        /\ hlen' = [hlen EXCEPT ![a] = n]
    BY <1>3 DEF Alloc
  <2>2. QED
    BY <1>1, <1>2, <2>1 DEF Alloc, LInv, LayoutsMatch, Shape, TypeOK
<1>4. CASE ~t
  <2>1. held' = held /\ hkind' = hkind /\ hlen' = hlen
    BY <1>4 DEF Alloc
  <2>2. QED
    BY <1>1, <1>2, <2>1 DEF Alloc, LInv, LayoutsMatch, Shape, TypeOK
<1>5. QED
  BY <1>3, <1>4

(* The host's release of an object it holds rebuilds it with its own    *)
(* layout.                                                              *)
LEMMA ReleaseLInv ==
    ASSUME LInv, NEW a \in Addrs, HostRelease(a)
    PROVE  LInv'
<1>1. a \in held /\ Shape(a) /\ hkind[a] = obj[a]
  BY DEF HostRelease, LInv
<1>2. PICK f \in Nat, l \in Nat : Drop(a, f, l) /\ f = inner[a] /\ l = cap[a]
  <2>1. CASE hkind[a] = "message"
    BY <1>1, <2>1 DEF HostRelease, MessageFree, Shape, LInv, TypeOK
  <2>2. CASE hkind[a] = "error"
    BY <1>1, <2>2 DEF HostRelease, FreeError, Shape, LInv, TypeOK
  <2>3. CASE hkind[a] = "bytes"
    BY <1>1, <2>3 DEF HostRelease, FreeBytes, Shape, LInv, TypeOK
  <2>4. CASE hkind[a] = "array"
    <3>1. hlen[a] = inner[a] /\ cap[a] = inner[a]
      BY <1>1, <2>4 DEF LInv, Shape
    <3>2. QED
      BY <1>1, <2>4, <3>1 DEF HostRelease, MessageFreeArray, LInv, TypeOK
  <2>6. CASE hkind[a] = "text"
    BY <2>6 DEF HostRelease
  <2>5. QED
    BY <2>1, <2>2, <2>3, <2>4, <2>6 DEF LInv, TypeOK, Kinds
<1>3. TypeOK'
  BY <1>2, DropType DEF LInv
<1>4. ~ub'
  <2>1. ~ub /\ inner[a] \in Nat /\ cap[a] \in Nat
    BY DEF LInv, LayoutsMatch, TypeOK
  <2>2. ~(cap[a] # l) /\ ~(f > inner[a])
    BY <1>2, <2>1
  <2>3. ub' = (ub \/ cap[a] # l \/ f > inner[a])
    BY <1>2 DEF Drop
  <2>4. QED
    BY <2>1, <2>2, <2>3, Zenon
<1>5. \A x \in held' : /\ obj'[x] = hkind'[x]
                       /\ obj'[x] = "array" => hlen'[x] = inner'[x]
                       /\ Shape(x)'
  BY <1>2 DEF Drop, LInv, Shape
<1>6. QED
  BY <1>3, <1>4, <1>5 DEF LInv, LayoutsMatch

(* LInv is an inductive invariant whatever out and err_out pointers the  *)
(* host passes.                                                          *)
LEMMA LInvHolds == Spec => []LInv
<1>1. Init => LInv
  <2> SUFFICES ASSUME Init PROVE LInv
    OBVIOUS
  <2>1. TypeOK
    BY HostTypeCorrectInit
  <2>2. held = {} /\ ~ub
    BY Zenon DEF Init
  <2>3. QED
    BY <2>1, <2>2 DEF LInv, LayoutsMatch
<1>2. LInv /\ [Next]_vars => LInv'
  <2> SUFFICES ASSUME LInv, [Next]_vars PROVE LInv'
    OBVIOUS
  <2>1. ASSUME NEW a \in Addrs, NEW k \in 0..MaxMsgs, NEW o \in OutPtrs,
               RoundCallOk(a, k, o)
        PROVE  LInv'
    <3>1. CASE k = 0
      BY <2>1, <3>1 DEF RoundCallOk, BoxedMessages, Alloc, vars, LInv, TypeOK,
                        LayoutsMatch, Shape
    <3>2. CASE k > 0 /\ o = "valid"
      <4>1. Alloc(a, "array", k, k, TRUE)
        BY <2>1, <3>2 DEF RoundCallOk, BoxedMessages, Alloc
      <4>2. "array" \in Kinds /\ k \in Nat /\ TRUE \in BOOLEAN /\ FALSE \in BOOLEAN
        BY DEF Kinds
      <4>3. QED
        BY <4>1, <4>2, AllocLInv
    <3>3. CASE k > 0 /\ o # "valid"
      <4>1. Alloc(a, "array", k, k, FALSE)
        BY <2>1, <3>3 DEF RoundCallOk, BoxedMessages, Alloc
      <4>2. "array" \in Kinds /\ k \in Nat /\ TRUE \in BOOLEAN /\ FALSE \in BOOLEAN
        BY DEF Kinds
      <4>3. QED
        BY <4>1, <4>2, AllocLInv
    <3>4. QED
      BY <3>1, <3>2, <3>3
  <2>2. ASSUME NEW a \in Addrs, NEW e \in ErrOutPtrs, ErrorReturn(a, e)
        PROVE  LInv'
    <3>1. CASE e = "null"
      BY <2>2, <3>1 DEF ErrorReturn, vars, LInv, TypeOK, LayoutsMatch, Shape
    <3>2. CASE e = "valid"
      <4>1. Alloc(a, "error", 1, 1, TRUE)
        BY <2>2, <3>2 DEF ErrorReturn, NewError
      <4>2. "error" \in Kinds /\ 1 \in 0..MaxMsgs /\ TRUE \in BOOLEAN
        BY HostConstAssumption DEF Kinds
      <4>3. QED
        BY <4>1, <4>2, AllocLInv
    <3>3. QED
      BY <3>1, <3>2, HostConstAssumption
  <2>8. ASSUME NEW a \in Addrs, NEW e \in ErrOutPtrs, RoundCallError(a, e)
        PROVE  LInv'
    <3>1. CASE e = "null"
      <4>1. Alloc(a, "text", 0, 1, FALSE)
        BY <2>8, <3>1 DEF RoundCallError, NewError, Alloc
      <4>2. "text" \in Kinds /\ 0 \in 0..MaxMsgs /\ FALSE \in BOOLEAN
        BY HostConstAssumption DEF Kinds
      <4>3. QED
        BY <4>1, <4>2, AllocLInv
    <3>2. CASE e = "valid"
      <4>1. Alloc(a, "error", 1, 1, TRUE)
        BY <2>8, <3>2 DEF RoundCallError, NewError, Alloc
      <4>2. "error" \in Kinds /\ 1 \in 0..MaxMsgs /\ TRUE \in BOOLEAN
        BY HostConstAssumption DEF Kinds
      <4>3. QED
        BY <4>1, <4>2, AllocLInv
    <3>3. QED
      BY <3>1, <3>2, HostConstAssumption
  <2>3. ASSUME NEW a \in Addrs, SingleMessageCall(a)
        PROVE  LInv'
    <3>1. Alloc(a, "message", 1, 1, TRUE)
      BY <2>3 DEF SingleMessageCall, NewMessage
    <3>2. "message" \in Kinds /\ 1 \in 0..MaxMsgs /\ TRUE \in BOOLEAN
      BY HostConstAssumption DEF Kinds
    <3>3. QED
      BY <3>1, <3>2, AllocLInv
  <2>4. ASSUME NEW a \in Addrs, NEW ok \in BOOLEAN, ToBytesCall(a, ok)
        PROVE  LInv'
    <3>1. CASE ~ok
      BY <2>4, <3>1 DEF ToBytesCall, vars, LInv, TypeOK, LayoutsMatch, Shape
    <3>2. CASE ok
      <4>1. Alloc(a, "bytes", 0, 1, TRUE)
        BY <2>4, <3>2 DEF ToBytesCall, FromVec
      <4>2. "bytes" \in Kinds /\ 0 \in 0..MaxMsgs /\ TRUE \in BOOLEAN
        BY HostConstAssumption DEF Kinds
      <4>3. QED
        BY <4>1, <4>2, AllocLInv
    <3>3. QED
      BY <3>1, <3>2
  <2>5. ASSUME NEW a \in Addrs, HostRelease(a)
        PROVE  LInv'
    BY <2>5, ReleaseLInv
  <2>6. CASE NullRelease \/ UNCHANGED vars
    BY <2>6 DEF NullRelease, vars, LInv, TypeOK, LayoutsMatch, Shape
  <2>7. QED
    BY <2>1, <2>2, <2>8, <2>3, <2>4, <2>5, <2>6 DEF Next
<1>3. QED
  BY <1>1, <1>2, PTL DEF Spec

(* Whatever out and err_out pointers the host passes, no release call    *)
(* (dkls_message_free_array, dkls_free_bytes, dkls_free_error,          *)
(* dkls_message_free) rebuilds an allocation with a layout other than   *)
(* the one it was made with.                                            *)
THEOREM LayoutsMatchHolds == Spec => []LayoutsMatch
BY LInvHolds, PTL DEF LInv
=============================================================================
