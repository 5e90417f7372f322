--------------------------- MODULE KeygenSession ---------------------------
(***************************************************************************)
(* The keygen session layer of the Go FFI wrapper                          *)
(* (src/wrapper/go-ll/src/keygen.rs) together with the keyshare handles it *)
(* produces and consumes (src/wrapper/go-ll/src/keyshare.rs).              *)
(*                                                                         *)
(* A KeygenSessionHandle is a Box on the Rust heap holding the engine      *)
(* state, the party count n and the tagged round.  The host (the Go side)  *)
(* owns every pointer it receives and drives the session one call at a     *)
(* time.  The cryptographic engine (dkls23_ll::dkg) is an opaque           *)
(* collaborator: each round call either accepts the batch, or its CBOR     *)
(* decoding fails, or the engine rejects it.                               *)
(*                                                                         *)
(* Heap addresses are the model values of Handles and Shares; a freed      *)
(* address may be handed out again by a later allocation, as the           *)
(* allocator does.  The host's own view of which pointers it owns is kept  *)
(* in owned and ownedShares: the host updates it only from what a call returns.   *)
(***************************************************************************)
EXTENDS Naturals, FiniteSets

CONSTANTS
    Handles,       \* addresses a Box<KeygenSessionHandle> may occupy
    Shares,        \* addresses a Box<KeyshareHandle> may occupy
    Participants,  \* participant counts the host passes (c_uchar)
    CommitLens,    \* commitments_len values the host passes
    SeedLens,      \* seed_len values the host passes (0 also stands for a null seed)
    PkLens,        \* pk_len values the host passes to lost-share recovery
    NoHandle,      \* the null pointer
    UBChecks       \* whether the build checks the preconditions of unsafe
                   \* functions (debug assertions on)

ASSUME ConstAssumption ==
    /\ Participants \subseteq 0..255
    /\ CommitLens \subseteq Nat
    /\ SeedLens \subseteq Nat
    /\ PkLens \subseteq Nat
    /\ NoHandle \notin Handles \cup Shares
    /\ UBChecks \in BOOLEAN

VARIABLES
    kmem,      \* kmem[h]: whether address h holds a live KeygenSessionHandle
    round,     \* round[h]: the Round field of the session at h
    n,         \* n[h]: the n field of the session at h
    commitLen, \* commitLen[h]: commitments_len handed on to handle_msg3
    smem,      \* smem[k]: whether address k holds a live KeyshareHandle
    shareN,    \* shareN[k]: rank_list.len() of the keyshare at k
    owned,       \* the session pointers the host believes it owns
    ownedShares, \* the keyshare pointers the host believes it owns
    err,         \* the error text the last call wrote to err_out ("none" if none)
    lastOp,      \* the last call: which entry point, on which address
    proc         \* "aborted" once a panic reached an extern "C" function

vars == <<kmem, round, n, commitLen, smem, shareN, owned, ownedShares, err, lastOp, proc>>
sessionVars == <<kmem, round, n, commitLen>>
shareVars == <<smem, shareN>>
hostVars == <<owned, ownedShares>>

Rounds == {"Init", "WaitMsg1", "WaitMsg2", "WaitMsg3", "WaitMsg4", "Failed", "Share"}

(* What a batch of inbound messages does: every payload decodes and the  *)
(* engine accepts it, some payload fails CBOR decoding, or the engine     *)
(* returns a KeygenError.                                                 *)
Batches == {"valid", "malformed", "rejected"}

Errors == {"none", "null handle", "null keyshare", "invalid PK size", "invalid PK",
           "invalid state", "invalid session state", "failed session",
           "commitments required", "invalid commitments length",
           "decode error", "keygen error", "failed", "keygen-in-progress"}

Ops == {"new", "rotation", "recovery", "lost_share", "first_message", "handle",
        "keyshare", "free", "share_from_bytes", "share_free", "null_call"}

TypeOK ==
    /\ kmem \in [Handles -> {"free", "live"}]
    /\ round \in [Handles -> Rounds]
    /\ n \in [Handles -> 0..255]
    /\ commitLen \in [Handles -> Nat]
    /\ smem \in [Shares -> {"free", "live"}]
    /\ shareN \in [Shares -> 0..255]
    /\ owned \subseteq Handles
    /\ ownedShares \subseteq Shares
    /\ err \in Errors
    /\ lastOp \in [op : Ops, h : Handles \cup Shares \cup {NoHandle}]
    /\ proc \in {"running", "aborted"}

Init ==
    /\ kmem = [h \in Handles |-> "free"]
    /\ round = [h \in Handles |-> "Init"]
    /\ n = [h \in Handles |-> 0]
    /\ commitLen = [h \in Handles |-> 0]
    /\ smem = [k \in Shares |-> "free"]
    /\ shareN = [k \in Shares |-> 0]
    /\ owned = {}
    /\ ownedShares = {}
    /\ err = "none"
    /\ lastOp = [op |-> "null_call", h |-> NoHandle]
    /\ proc = "running"

-----------------------------------------------------------------------------
(* maybe_seeded_rng: no seed when the pointer is null or seed_len is 0;   *)
(* otherwise seed.try_into() into [u8; 32] panics unless seed_len is 32.  *)
RngPanics(slen) == slen \notin {0, 32}

(* The panic cannot unwind across extern "C": the process aborts. *)
Panic(op, a) ==
    /\ proc' = "aborted"
    /\ lastOp' = [op |-> op, h |-> a]
    /\ UNCHANGED <<sessionVars, shareVars, hostVars, err>>

(* Mutant of Reject: an early-return error path that also marks the *)
(* session Failed.                                                    *)
RejectFailing(op, a, text) ==
    /\ err' = text
    /\ lastOp' = [op |-> op, h |-> a]
    /\ round' = [round EXCEPT ![a] = "Failed"]
    /\ UNCHANGED <<kmem, n, commitLen, shareVars, hostVars, proc>>

(* A call that returns after writing text to err_out, changing nothing. *)
Reject(op, a, text) ==
    /\ err' = text
    /\ lastOp' = [op |-> op, h |-> a]
    /\ UNCHANGED <<sessionVars, shareVars, hostVars, proc>>

(* KeygenSessionHandle::new boxed at address h: round Init, the given n;  *)
(* the host receives the pointer.                                         *)
Allocate(op, h, cnt) ==
    /\ kmem' = [kmem EXCEPT ![h] = "live"]
    /\ round' = [round EXCEPT ![h] = "Init"]
    /\ n' = [n EXCEPT ![h] = cnt]
    /\ commitLen' = [commitLen EXCEPT ![h] = 0]
    /\ owned' = owned \cup {h}
    /\ err' = "none"
    /\ lastOp' = [op |-> op, h |-> h]
    /\ UNCHANGED <<shareVars, ownedShares, proc>>

(* dkls_keygen_new: ranks of length participants, never fails. *)
KeygenNew(h, p, slen) ==
    /\ proc = "running"
    /\ kmem[h] = "free"
    /\ \/ RngPanics(slen) /\ Panic("new", h)
       \/ ~RngPanics(slen) /\ Allocate("new", h, p)

(* dkls_keygen_init_key_rotation and dkls_keygen_init_key_recovery: the   *)
(* old keyshare is borrowed, the engine may refuse it, n is the length of *)
(* its rank list.                                                         *)
InitFromShare(op, h, k, slen, engineOk) ==
    /\ proc = "running"
    /\ kmem[h] = "free"
    /\ k \in Shares => k \in ownedShares
    /\ \/ k = NoHandle /\ Reject(op, NoHandle, "null keyshare")
       \/ /\ k # NoHandle
          /\ \/ RngPanics(slen) /\ Panic(op, h)
             \/ ~RngPanics(slen) /\ ~engineOk /\ Reject(op, h, "keygen error")
             \/ ~RngPanics(slen) /\ engineOk /\ Allocate(op, h, shareN[k])

KeygenInitKeyRotation(h, k, slen, engineOk) ==
    InitFromShare("rotation", h, k, slen, engineOk)

KeygenInitKeyRecovery(h, k, slen, engineOk) ==
    InitFromShare("recovery", h, k, slen, engineOk)

(* dkls_keygen_init_lost_share_recovery: the pk length is checked before  *)
(* the rng is built, the point encoding after it.                         *)
KeygenInitLostShareRecovery(h, p, pklen, pkValid, slen, engineOk) ==
    /\ proc = "running"
    /\ kmem[h] = "free"
    /\ \/ pklen # 33 /\ Reject("lost_share", h, "invalid PK size")
       \/ /\ pklen = 33
          /\ \/ RngPanics(slen) /\ Panic("lost_share", h)
             \/ ~RngPanics(slen) /\ ~pkValid /\ Reject("lost_share", h, "invalid PK")
             \/ ~RngPanics(slen) /\ pkValid /\ ~engineOk
                /\ Reject("lost_share", h, "keygen error")
             \/ ~RngPanics(slen) /\ pkValid /\ engineOk
                /\ Allocate("lost_share", h, p)

(* Mutant of KeygenCreateFirstMessage: the match on Round::Init dropped. *)
KeygenCreateFirstMessageAnyRound(h) ==
    /\ proc = "running"
    /\ h \in owned
    /\ round' = [round EXCEPT ![h] = "WaitMsg1"]
    /\ err' = "none"
    /\ lastOp' = [op |-> "first_message", h |-> h]
    /\ UNCHANGED <<kmem, n, commitLen, shareVars, hostVars, proc>>

(* dkls_keygen_create_first_message *)
KeygenCreateFirstMessage(h) ==
    /\ proc = "running"
    /\ h \in owned
    /\ \/ /\ round[h] = "Init"
          /\ round' = [round EXCEPT ![h] = "WaitMsg1"]
          /\ err' = "none"
          /\ lastOp' = [op |-> "first_message", h |-> h]
          /\ UNCHANGED <<kmem, n, commitLen, shareVars, hostVars, proc>>
       \/ round[h] # "Init" /\ Reject("first_message", h, "invalid state")

-----------------------------------------------------------------------------
(* The round a batch leaves the session in.  handle_messages returns the  *)
(* decode error before it touches the round (decodeFatal FALSE); the      *)
(* WaitMsg4 arm sets Failed on a decode error (decodeFatal TRUE).         *)
RoundAfter(r, batch, next, decodeFatal) ==
    IF batch = "valid" THEN next
    ELSE IF batch = "rejected" \/ decodeFatal THEN "Failed"
    ELSE r

ErrAfter(batch) ==
    IF batch = "valid" THEN "none"
    ELSE IF batch = "rejected" THEN "keygen error"
    ELSE "decode error"

(* Mutant of CommitmentsLenOk: the own party's commitment left out. *)
CommitmentsLenOffByOne(h, clen) == clen = (n[h] - 1) * 32

(* The round-3 check on the commitment buffer: one 32-byte value per party. *)
CommitmentsLenOk(h, clen) == clen = n[h] * 32

(* One engine round on the batch, leaving the session in the round *)
(* RoundAfter gives.                                                *)
Advance(h, batch, next, decodeFatal, clen) ==
    /\ round' = [round EXCEPT ![h] = RoundAfter(round[h], batch, next, decodeFatal)]
    /\ commitLen' = [commitLen EXCEPT ![h] = clen]
    /\ err' = ErrAfter(batch)
    /\ lastOp' = [op |-> "handle", h |-> h]
    /\ UNCHANGED <<kmem, n, shareVars, hostVars, proc>>

(* Mutant of Succ: WaitMsg4 leads to the sign session's Finished. *)
SuccToFinished == [r \in {"WaitMsg1", "WaitMsg2", "WaitMsg3", "WaitMsg4"} |->
            IF r = "WaitMsg4" THEN "Finished"
            ELSE IF r = "WaitMsg1" THEN "WaitMsg2" ELSE IF r = "WaitMsg2" THEN "WaitMsg3" ELSE "WaitMsg4"]

(* The round each successful round call moves to. *)
Succ == [r \in {"WaitMsg1", "WaitMsg2", "WaitMsg3", "WaitMsg4"} |->
            IF r = "WaitMsg1" THEN "WaitMsg2"
            ELSE IF r = "WaitMsg2" THEN "WaitMsg3"
            ELSE IF r = "WaitMsg3" THEN "WaitMsg4"
            ELSE "Share"]

(* dkls_keygen_handle_messages: the rng is built before the round is     *)
(* inspected; WaitMsg3 validates the commitment buffer first.            *)
KeygenHandleMessages(h, batch, clen, slen) ==
    /\ proc = "running"
    /\ h \in owned
    /\ \/ RngPanics(slen) /\ Panic("handle", h)
       \/ /\ ~RngPanics(slen)
          /\ \/ /\ round[h] \in {"WaitMsg1", "WaitMsg2"}
                /\ Advance(h, batch, Succ[round[h]], FALSE, commitLen[h])
             \/ /\ round[h] = "WaitMsg3"
                /\ \/ clen = 0 /\ Reject("handle", h, "commitments required")
                   \/ /\ clen # 0 /\ ~CommitmentsLenOk(h, clen)
                      /\ Reject("handle", h, "invalid commitments length")
                   \/ /\ clen # 0 /\ CommitmentsLenOk(h, clen)
                      /\ Advance(h, batch, Succ[round[h]], FALSE, clen)
             \/ round[h] = "WaitMsg4" /\ Advance(h, batch, Succ[round[h]], TRUE, commitLen[h])
             \/ round[h] = "Failed" /\ Reject("handle", h, "failed session")
             \/ round[h] \in {"Init", "Share"} /\ Reject("handle", h, "invalid session state")

(* dkls_keygen_keyshare: the round is replaced by Failed; a Share is     *)
(* boxed as a new KeyshareHandle at a free address k and the session     *)
(* freed; a Failed session reports "failed" and is left allocated; an    *)
(* in-progress session is freed.  The host keeps the session pointer     *)
(* only when told "failed".                                              *)
KeygenKeyshare(h, k) ==
    /\ proc = "running"
    /\ h \in owned
    /\ lastOp' = [op |-> "keyshare", h |-> h]
    /\ UNCHANGED <<n, commitLen, proc>>
    /\ \/ /\ round[h] = "Share"
          /\ smem[k] = "free"
          /\ kmem' = [kmem EXCEPT ![h] = "free"]
          /\ round' = [round EXCEPT ![h] = "Failed"]
          /\ smem' = [smem EXCEPT ![k] = "live"]
          /\ shareN' = [shareN EXCEPT ![k] = n[h]]
          /\ owned' = owned \ {h}
          /\ ownedShares' = ownedShares \cup {k}
          /\ err' = "none"
       \/ /\ round[h] = "Failed"
          /\ err' = "failed"
          /\ UNCHANGED <<kmem, round, shareVars, hostVars>>
       \/ /\ round[h] \notin {"Share", "Failed"}
          /\ kmem' = [kmem EXCEPT ![h] = "free"]
          /\ round' = [round EXCEPT ![h] = "Failed"]
          /\ owned' = owned \ {h}
          /\ err' = "keygen-in-progress"
          /\ UNCHANGED <<shareVars, ownedShares>>

(* Mutant of KeygenFree: the Box::from_raw that drops the session missing. *)
KeygenFreeNoDrop(h) ==
    /\ proc = "running"
    /\ h \in owned
    /\ owned' = owned \ {h}
    /\ err' = "none"
    /\ lastOp' = [op |-> "free", h |-> h]
    /\ UNCHANGED <<kmem, round, n, commitLen, shareVars, ownedShares, proc>>

(* dkls_keygen_free *)
KeygenFree(h) ==
    /\ proc = "running"
    /\ h \in owned
    /\ kmem' = [kmem EXCEPT ![h] = "free"]
    /\ owned' = owned \ {h}
    /\ err' = "none"
    /\ lastOp' = [op |-> "free", h |-> h]
    /\ UNCHANGED <<round, n, commitLen, shareVars, ownedShares, proc>>

(* dkls_keyshare_from_bytes: bytes a keyshare of cnt parties was        *)
(* serialized to, or bytes that do not decode (null is returned).       *)
KeyshareFromBytes(k, cnt, decodes) ==
    /\ proc = "running"
    /\ smem[k] = "free"
    /\ smem' = [smem EXCEPT ![k] = IF decodes THEN "live" ELSE "free"]
    /\ shareN' = [shareN EXCEPT ![k] = IF decodes THEN cnt ELSE shareN[k]]
    /\ ownedShares' = IF decodes THEN ownedShares \cup {k} ELSE ownedShares
    /\ err' = "none"
    /\ lastOp' = [op |-> "share_from_bytes", h |-> k]
    /\ UNCHANGED <<sessionVars, owned, proc>>

(* dkls_keyshare_from_bytes with a null bytes pointer (an empty Go       *)
(* slice): slice::from_raw_parts requires a non-null pointer even for    *)
(* len 0.  A build that checks the precondition aborts; one that does    *)
(* not reads the empty slice, which does not decode, and returns null.   *)
KeyshareFromNullBytes ==
    /\ proc = "running"
    /\ IF UBChecks THEN Panic("share_from_bytes", NoHandle)
                   ELSE Reject("share_from_bytes", NoHandle, "none")

(* dkls_keyshare_free *)
KeyshareFree(k) ==
    /\ proc = "running"
    /\ k \in ownedShares
    /\ smem' = [smem EXCEPT ![k] = "free"]
    /\ ownedShares' = ownedShares \ {k}
    /\ err' = "none"
    /\ lastOp' = [op |-> "share_free", h |-> k]
    /\ UNCHANGED <<sessionVars, shareN, owned, proc>>

(* create_first_message, handle_messages or keyshare on a null session. *)
NullHandleCall ==
    /\ proc = "running"
    /\ Reject("null_call", NoHandle, "null handle")

Next ==
    \/ \E h \in Handles, p \in Participants, s \in SeedLens :
          KeygenNew(h, p, s)
    \/ \E h \in Handles, k \in Shares \cup {NoHandle}, s \in SeedLens, ok \in BOOLEAN :
          KeygenInitKeyRotation(h, k, s, ok) \/ KeygenInitKeyRecovery(h, k, s, ok)
    \/ \E h \in Handles, p \in Participants, l \in PkLens, v \in BOOLEAN,
          s \in SeedLens, ok \in BOOLEAN :
          KeygenInitLostShareRecovery(h, p, l, v, s, ok)
    \/ \E h \in Handles : KeygenCreateFirstMessage(h) \/ KeygenFree(h)
    \/ \E h \in Handles, b \in Batches, c \in CommitLens, s \in SeedLens :
          KeygenHandleMessages(h, b, c, s)
    \/ \E h \in Handles, k \in Shares : KeygenKeyshare(h, k)
    \/ \E k \in Shares, p \in Participants, d \in BOOLEAN : KeyshareFromBytes(k, p, d)
    \/ KeyshareFromNullBytes
    \/ \E k \in Shares : KeyshareFree(k)
    \/ NullHandleCall

Spec == Init /\ [][Next]_vars

-----------------------------------------------------------------------------
(* Properties.                                                           *)

(* The host and the heap agree on every pointer: the host holds exactly *)
(* the sessions and keyshares that are allocated.  A session freed while *)
(* the host still holds it is a use-after-free or double free waiting to *)
(* happen; one the host dropped while it is allocated is a leak.  This   *)
(* depends on every entry point telling the host, by its return value    *)
(* and error text alone, whether it consumed the pointer.                *)
OwnershipAgreement ==
    /\ \A h \in Handles : h \in owned <=> kmem[h] = "live"
    /\ \A k \in Shares : k \in ownedShares <=> smem[k] = "live"

(* Every session that reached WaitMsg4 or Share handed handle_msg3      *)
(* exactly one 32-byte commitment per party, whichever entry point set  *)
(* its n (fresh keygen, rotation, recovery, lost-share recovery).       *)
Round3Commitments ==
    \A h \in Handles :
        kmem[h] = "live" /\ round[h] \in {"WaitMsg4", "Share"}
            => commitLen[h] = 32 * n[h]

(* The rounds a live session may move to from r in one call. *)
AllowedRounds(r) ==
    IF r \in DOMAIN Succ THEN {r, Succ[r], "Failed"}
    ELSE IF r = "Init" THEN {r, "WaitMsg1", "Failed"}
    ELSE {r}

(* While a session stays allocated its round only moves forward one     *)
(* round at a time or to Failed, and Failed and Share are never left:   *)
(* no call on a live handle rewinds it or discards a completed share.   *)
RoundMonotone ==
    [][\A h \in Handles :
         kmem[h] = "live" /\ kmem'[h] = "live" => round'[h] \in AllowedRounds(round[h])]_vars

(* The errors the wrapper raises before the engine is involved. *)
BoundaryErrors == {"null handle", "null keyshare", "invalid PK size", "invalid PK",
                   "invalid state", "invalid session state", "failed session",
                   "commitments required", "invalid commitments length", "failed"}

(* A call that reports a boundary-validation error (spec section 7 (a)) *)
(* leaves every session's allocation and round as they were, so the     *)
(* host can correct the input and retry.                                *)
BoundaryErrorsPreserve ==
    [][err' \in BoundaryErrors => UNCHANGED <<kmem, round>>]_vars

(* Spec 4.1: keyshare extraction consumes the session in every outcome. *)
KeyshareConsumesSession ==
    [][lastOp'.op = "keyshare" => kmem'[lastOp'.h] = "free"]_vars

(* Spec section 7 (b): a malformed message payload met by a round call *)
(* forces the session to Failed.                                        *)
DecodeErrorFails ==
    [][lastOp'.op = "handle" /\ err' = "decode error" => round'[lastOp'.h] = "Failed"]_vars

(* Spec section 7 (a): a wrong buffer length is reported as an error,   *)
(* never by ending the host process.                                    *)
NoAbort == proc = "running"

-----------------------------------------------------------------------------
(* Refinement of the session lifecycle.  A freed address has no session; *)
(* Init is the created phase; WaitMsg1 to WaitMsg4 are the running        *)
(* protocol; Share holds the keyshare and only waits for keyshare().      *)
KeygenPhaseOf(m, r) ==
    IF m = "free" THEN "none"
    ELSE IF r = "Init" THEN "init"
    ELSE IF r = "Failed" THEN "failed"
    ELSE IF r = "Share" THEN "done"
    ELSE "active"

KeygenLC == INSTANCE SessionLifecycle
              WITH Addr <- Handles,
                   phase <- [h \in Handles |-> KeygenPhaseOf(kmem[h], round[h])],
                   held <- owned

(* Every behaviour of the keygen session layer is one of the session      *)
(* lifecycle: fresh, rotation and recovery sessions are created at free   *)
(* addresses for the host, only a session the host holds moves, it moves  *)
(* forward through the phases, and it ends only by being released         *)
(* (dkls_keygen_free, dkls_keygen_keyshare).                              *)
KeygenImplementsLifecycle == KeygenLC!LSpec

=============================================================================
