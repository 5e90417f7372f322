---------------------------- MODULE HostObjects ----------------------------
(***************************************************************************)
(* The heap objects the wrapper hands to the host besides session and      *)
(* keyshare handles (src/wrapper/go-ll/src/message.rs and lib.rs), and the *)
(* calls that release them.                                                *)
(*                                                                         *)
(* Each object is one top-level allocation at an address, together with    *)
(* the allocations it owns:                                                *)
(*   message -- a Box<Message> from create_first_message or last_message;  *)
(*              it owns the Vec behind its payload ByteBuffer;             *)
(*   array   -- the boxed slice of Messages a round call writes to         *)
(*              *out; it owns one payload Vec per message;                 *)
(*   error   -- a Box<GoError> written to *err_out; it owns the CString of *)
(*              its text;                                                  *)
(*   text    -- the CString of a GoError that was never boxed;             *)
(*   bytes   -- the Vec behind a ByteBuffer from a to_bytes call.          *)
(* inner[a] counts the owned allocations still live, cap[a] the capacity   *)
(* the top-level allocation was made with (in elements, for arrays).       *)
(*                                                                         *)
(* The host follows the spec's contract (section 5): it releases every     *)
(* object it receives exactly once, with the release call of its kind and  *)
(* the length it was given.  What a call produces depends on the engine    *)
(* and on the session, which other modules model; here the outcome of a    *)
(* call is an input.                                                       *)
(***************************************************************************)
EXTENDS Naturals

CONSTANTS
    Addrs,       \* addresses a top-level allocation may occupy
    MaxMsgs,     \* the most messages one round call returns
    OutPtrs,     \* the out arguments a host passes: "null", "valid"
    ErrOutPtrs   \* the err_out arguments a host passes: "null", "valid"

ASSUME HostConstAssumption ==
    /\ MaxMsgs \in Nat \ {0}
    /\ OutPtrs \subseteq {"null", "valid"}
    /\ ErrOutPtrs \subseteq {"null", "valid"}

VARIABLES
    obj,     \* obj[a]: the kind of the live allocation at a, or "free"
    inner,   \* inner[a]: the allocations owned by the object at a still live
    cap,     \* cap[a]: the capacity the allocation at a was made with
    held,    \* the addresses the host holds a pointer (or ByteBuffer) to
    hkind,   \* hkind[a]: what the host was told the object at a is
    hlen,    \* hlen[a]: the length the host was told (MessageArray.len)
    leaked,  \* an owned allocation outlived the object that owned it
    ub       \* a release reconstructed an allocation with another layout

vars == <<obj, inner, cap, held, hkind, hlen, leaked, ub>>

Kinds == {"message", "array", "error", "bytes", "text"}

TypeOK ==
    /\ obj \in [Addrs -> Kinds \cup {"free"}]
    /\ inner \in [Addrs -> 0..MaxMsgs]
    /\ cap \in [Addrs -> Nat]
    /\ held \subseteq Addrs
    /\ hkind \in [Addrs -> Kinds]
    /\ hlen \in [Addrs -> 0..MaxMsgs]
    /\ leaked \in BOOLEAN
    /\ ub \in BOOLEAN

Init ==
    /\ obj = [a \in Addrs |-> "free"]
    /\ inner = [a \in Addrs |-> 0]
    /\ cap = [a \in Addrs |-> 0]
    /\ held = {}
    /\ hkind = [a \in Addrs |-> "bytes"]
    /\ hlen = [a \in Addrs |-> 0]
    /\ leaked = FALSE
    /\ ub = FALSE

-----------------------------------------------------------------------------
(* An allocation of kind k at the free address a, owning n allocations,   *)
(* made with capacity c; toHost says whether the host receives it.        *)
Alloc(a, k, n, c, toHost) ==
    /\ obj[a] = "free"
    /\ obj' = [obj EXCEPT ![a] = k]
    /\ inner' = [inner EXCEPT ![a] = n]
    /\ cap' = [cap EXCEPT ![a] = c]
    /\ held' = IF toHost THEN held \cup {a} ELSE held
    /\ hkind' = IF toHost THEN [hkind EXCEPT ![a] = k] ELSE hkind
    /\ hlen' = IF toHost THEN [hlen EXCEPT ![a] = n] ELSE hlen
    /\ UNCHANGED <<leaked, ub>>

(* Message::new: the payload is CBOR-encoded into a Vec and boxed as a   *)
(* ByteBuffer (ByteBuffer::from_vec), the one allocation a message owns. *)
(* Box::new(Message::new(..)) is the returned pointer.                   *)
NewMessage(a) == Alloc(a, "message", 1, 1, TRUE)

(* Mutant of BoxedMessages: the Vec of messages handed out as it is, with *)
(* room for one more message than it holds.                              *)
BoxedMessagesSpare(a, k, toHost) == Alloc(a, "array", k, k + 1, toHost)

(* encode_vector builds one Message (and payload) per outbound message;  *)
(* into_boxed_slice makes the capacity equal to the length.              *)
BoxedMessages(a, k, toHost) == Alloc(a, "array", k, k, toHost)

(* GoError::new: the text becomes a CString the error owns. *)
NewError(a, toHost) == Alloc(a, "error", 1, 1, toHost)

(* ByteBuffer::from_vec on the serialized bytes. *)
FromVec(a) == Alloc(a, "bytes", 0, 1, TRUE)

-----------------------------------------------------------------------------
(* The calls that produce objects. *)

(* dkls_keygen_handle_messages and dkls_sign_handle_messages returning 0: *)
(* k outbound messages.  With none, *out is set to {null, 0} when out is  *)
(* non-null and nothing is allocated.  Otherwise the boxed slice is made  *)
(* first, and written to *out only when out is non-null.                  *)
RoundCallOk(a, k, outp) ==
    \/ k = 0 /\ UNCHANGED vars
    \/ k > 0 /\ BoxedMessages(a, k, outp = "valid")

(* The early returns of every entry point: GoError::new is called only   *)
(* once err_out is known to be non-null, and the error is boxed and       *)
(* written to *err_out.                                                   *)
ErrorReturn(a, errp) ==
    \/ errp = "null" /\ UNCHANGED vars
    \/ errp = "valid" /\ NewError(a, TRUE)

(* The error return of dkls_keygen_handle_messages and                   *)
(* dkls_sign_handle_messages: the GoError, and with it the CString of its *)
(* text, was made where the decode or the engine failed; the Err arm     *)
(* boxes it only when err_out is non-null, and otherwise drops the       *)
(* GoError, which has no Drop, so the CString stays allocated.           *)
RoundCallError(a, errp) ==
    \/ errp = "null" /\ Alloc(a, "text", 0, 1, FALSE)
    \/ errp = "valid" /\ NewError(a, TRUE)

(* create_first_message (keygen and sign) and last_message returning a   *)
(* message.                                                               *)
SingleMessageCall(a) == NewMessage(a)

(* dkls_keyshare_to_bytes, dkls_keygen_to_bytes, dkls_sign_to_bytes: a   *)
(* null handle, a failed encoding, or (sign) a Pre or WaitMsg4 session   *)
(* give the ByteBuffer {null, 0, 0}; otherwise the bytes.                *)
ToBytesCall(a, encoded) ==
    \/ ~encoded /\ UNCHANGED vars
    \/ encoded /\ FromVec(a)

-----------------------------------------------------------------------------
(* The release calls, made by the host on an object it holds. *)

(* The top-level allocation at a is dropped: owned allocations not freed  *)
(* by then are leaked; l is the length the allocation is rebuilt with.    *)
Drop(a, freedInner, l) ==
    /\ obj' = [obj EXCEPT ![a] = "free"]
    /\ inner' = [inner EXCEPT ![a] = 0]
    /\ held' = held \ {a}
    /\ leaked' = (leaked \/ inner[a] > freedInner)
    /\ ub' = (ub \/ cap[a] # l \/ freedInner > inner[a])
    /\ UNCHANGED <<cap, hkind, hlen>>

(* dkls_message_free: the payload is swapped out for a null ByteBuffer  *)
(* and freed by dkls_free_bytes, then the Box<Message> is dropped.       *)
MessageFree(a) == Drop(a, 1, 1)

(* Mutant of MessageFreeArray: the loop stops one message short. *)
MessageFreeArraySkipLast(a, l) == Drop(a, l - 1, l)

(* Mutant of MessageFreeArray: the loop runs over 0..=len. *)
MessageFreeArrayInclusive(a, l) ==
    /\ obj' = [obj EXCEPT ![a] = "free"]
    /\ inner' = [inner EXCEPT ![a] = inner[a] - (l + 1)]
    /\ held' = held \ {a}
    /\ leaked' = leaked
    /\ ub' = TRUE
    /\ UNCHANGED <<cap, hkind, hlen>>

(* dkls_message_free_array(msgs, len): every payload of the len messages *)
(* is swapped out and freed, then Vec::from_raw_parts(msgs, len, len)    *)
(* drops the slice, which must have been allocated with capacity len.   *)
MessageFreeArray(a, l) == Drop(a, l, l)

(* dkls_free_bytes: Vec::from_raw_parts(data, len, cap) is dropped. *)
FreeBytes(a) == Drop(a, 0, cap[a])

(* dkls_free_error: the CString is taken back, then the Box<GoError>. *)
FreeError(a) == Drop(a, 1, 1)

(* The host releases the object at a with the call for what it was told *)
(* a is, and the length it was told.                                    *)
HostRelease(a) ==
    /\ a \in held
    /\ \/ hkind[a] = "message" /\ MessageFree(a)
       \/ hkind[a] = "array" /\ MessageFreeArray(a, hlen[a])
       \/ hkind[a] = "bytes" /\ FreeBytes(a)
       \/ hkind[a] = "error" /\ FreeError(a)

(* dkls_message_free(null), dkls_message_free_array(null, 0) (the empty *)
(* MessageArray), dkls_free_bytes on {null, 0, 0}, dkls_free_error(null): *)
(* each returns at once.                                                  *)
NullRelease == UNCHANGED vars

Next ==
    \/ \E a \in Addrs, k \in 0..MaxMsgs, o \in OutPtrs : RoundCallOk(a, k, o)
    \/ \E a \in Addrs, e \in ErrOutPtrs : ErrorReturn(a, e)
    \/ \E a \in Addrs, e \in ErrOutPtrs : RoundCallError(a, e)
    \/ \E a \in Addrs : SingleMessageCall(a)
    \/ \E a \in Addrs, ok \in BOOLEAN : ToBytesCall(a, ok)
    \/ \E a \in Addrs : HostRelease(a)
    \/ NullRelease

Spec == Init /\ [][Next]_vars

-----------------------------------------------------------------------------
(* Properties. *)

(* Every live allocation is one the host holds a pointer to, with the    *)
(* kind and length it was told, and no owned allocation (payload, error  *)
(* text) outlives its owner: nothing the wrapper allocates is lost.      *)
NothingLost ==
    /\ held = {a \in Addrs : obj[a] # "free"}
    /\ \A a \in held : hkind[a] = obj[a] /\ (obj[a] = "array" => hlen[a] = inner[a])
    /\ ~leaked

(* No release call rebuilds an allocation with a layout other than the  *)
(* one it was made with (Vec::from_raw_parts with the wrong capacity,   *)
(* or a payload freed that the slice does not hold).                    *)
LayoutsMatch == ~ub

=============================================================================
