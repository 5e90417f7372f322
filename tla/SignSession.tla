---------------------------- MODULE SignSession ----------------------------
(***************************************************************************)
(* The sign session layer of the Go FFI wrapper                            *)
(* (src/wrapper/go-ll/src/sign.rs).                                        *)
(*                                                                         *)
(* A SignSessionHandle is a Box holding the engine state and the tagged    *)
(* round; the pre-signature and the partial signature live inside the     *)
(* Pre and WaitMsg4 variants.  dkls_sign_new clones the keyshare it is     *)
(* given, so a session never refers to the keyshare's address again.      *)
(* Keyshares are made and released by other components (keygen.rs,        *)
(* keyshare.rs); here they are an environment that may create a keyshare  *)
(* at a free address or release one the host owns.                         *)
(*                                                                         *)
(* The engine (dkls23_ll::dsg) is opaque: a batch is accepted, fails CBOR  *)
(* decoding, is rejected with a SignError, or is rejected with             *)
(* AbortProtocolAndBanParty (error code 2).                                *)
(***************************************************************************)
EXTENDS Naturals

CONSTANTS
    SignHandles,  \* addresses a Box<SignSessionHandle> may occupy
    Shares,       \* addresses a Box<KeyshareHandle> may occupy
    Digests,      \* message digests the host may ask to sign
    HashLens,     \* message_hash_len values the host passes
    SeedLens,     \* seed_len values the host passes (0 also stands for a null seed)
    NoHandle      \* the null pointer

ASSUME SignConstAssumption ==
    /\ HashLens \subseteq Nat
    /\ SeedLens \subseteq Nat
    /\ NoHandle \notin SignHandles \cup Shares

VARIABLES
    tmem,        \* tmem[h]: whether address h holds a live SignSessionHandle
    tround,      \* tround[h]: the Round field of the session at h
    sigs,        \* sigs[h]: digests the session at h made partial signatures for
    towned,      \* the sign session pointers the host believes it owns
    smem,        \* smem[k]: whether address k holds a live KeyshareHandle
    ownedShares, \* the keyshare pointers the host believes it owns
    err,         \* the error text the last call wrote to err_out ("none" if none)
    lastOp,      \* the last call: which entry point, on which address
    proc         \* "aborted" once a panic reached an extern "C" function

signVars == <<tmem, tround, sigs, towned>>
shareEnvVars == <<smem, ownedShares>>
vars == <<tmem, tround, sigs, towned, smem, ownedShares, err, lastOp, proc>>

SignRounds == {"Init", "WaitMsg1", "WaitMsg2", "WaitMsg3", "Pre", "WaitMsg4",
               "Failed", "Finished"}

(* What the engine does with a batch of inbound messages. *)
SignBatches == {"valid", "malformed", "rejected", "ban"}

(* The chain_path argument: a null pointer, bytes that are not UTF-8, a   *)
(* string that is no derivation path, or a derivation path.               *)
Paths == {"null", "not_utf8", "not_path", "ok"}

SignErrors == {"none", "null handle", "null keyshare", "null pointer", "invalid UTF-8",
               "invalid derivation path", "sign session init failed", "invalid state",
               "invalid session state", "failed", "invalid message hash",
               "null handle or output", "decode error", "sign error", "ban party"}

SignOps == {"sign_new", "sign_first_message", "sign_handle", "sign_last_message",
            "sign_combine", "sign_free", "sign_null_call", "share_env"}

TypeOK ==
    /\ tmem \in [SignHandles -> {"free", "live"}]
    /\ tround \in [SignHandles -> SignRounds]
    /\ sigs \in [SignHandles -> SUBSET Digests]
    /\ towned \subseteq SignHandles
    /\ smem \in [Shares -> {"free", "live"}]
    /\ ownedShares \subseteq Shares
    /\ err \in SignErrors
    /\ lastOp \in [op : SignOps, h : SignHandles \cup Shares \cup {NoHandle}]
    /\ proc \in {"running", "aborted"}

Init ==
    /\ tmem = [h \in SignHandles |-> "free"]
    /\ tround = [h \in SignHandles |-> "Init"]
    /\ sigs = [h \in SignHandles |-> {}]
    /\ towned = {}
    /\ smem = [k \in Shares |-> "free"]
    /\ ownedShares = {}
    /\ err = "none"
    /\ lastOp = [op |-> "sign_null_call", h |-> NoHandle]
    /\ proc = "running"

-----------------------------------------------------------------------------
(* maybe_seeded_rng panics unless the seed is absent or 32 bytes long. *)
SignRngPanics(slen) == slen \notin {0, 32}

SignPanic(op, a) ==
    /\ proc' = "aborted"
    /\ lastOp' = [op |-> op, h |-> a]
    /\ UNCHANGED <<signVars, shareEnvVars, err>>

(* An early return that writes text to err_out and changes nothing. *)
SignReject(op, a, text) ==
    /\ err' = text
    /\ lastOp' = [op |-> op, h |-> a]
    /\ UNCHANGED <<signVars, shareEnvVars, proc>>

(* Mutant of PathError: the path argument reported as it came in. *)
PathErrorRaw(path) == path

(* The text c_str_to_string and DerivationPath::from_str give a path. *)
PathError(path) ==
    IF path = "null" THEN "null pointer"
    ELSE IF path = "not_utf8" THEN "invalid UTF-8"
    ELSE "invalid derivation path"

(* dkls_sign_new: the keyshare is checked, then the path, then the rng  *)
(* is built and the engine state made from a clone of the keyshare.     *)
SignNew(h, k, path, slen, engineOk) ==
    /\ proc = "running"
    /\ tmem[h] = "free"
    /\ k \in Shares => k \in ownedShares
    /\ \/ k = NoHandle /\ SignReject("sign_new", NoHandle, "null keyshare")
       \/ k # NoHandle /\ path # "ok" /\ SignReject("sign_new", h, PathError(path))
       \/ /\ k # NoHandle /\ path = "ok"
          /\ \/ SignRngPanics(slen) /\ SignPanic("sign_new", h)
             \/ /\ ~SignRngPanics(slen) /\ ~engineOk
                /\ SignReject("sign_new", h, "sign session init failed")
             \/ /\ ~SignRngPanics(slen) /\ engineOk
                /\ tmem' = [tmem EXCEPT ![h] = "live"]
                /\ tround' = [tround EXCEPT ![h] = "Init"]
                /\ sigs' = [sigs EXCEPT ![h] = {}]
                /\ towned' = towned \cup {h}
                /\ err' = "none"
                /\ lastOp' = [op |-> "sign_new", h |-> h]
                /\ UNCHANGED <<shareEnvVars, proc>>

(* dkls_sign_create_first_message *)
SignCreateFirstMessage(h) ==
    /\ proc = "running"
    /\ h \in towned
    /\ \/ /\ tround[h] = "Init"
          /\ tround' = [tround EXCEPT ![h] = "WaitMsg1"]
          /\ err' = "none"
          /\ lastOp' = [op |-> "sign_first_message", h |-> h]
          /\ UNCHANGED <<tmem, sigs, towned, shareEnvVars, proc>>
       \/ tround[h] # "Init" /\ SignReject("sign_first_message", h, "invalid state")

(* sign_error_to_go and the decode error: the text a failed batch gives. *)
SignErrAfter(batch) ==
    IF batch = "valid" THEN "none"
    ELSE IF batch = "malformed" THEN "decode error"
    ELSE IF batch = "ban" THEN "ban party"
    ELSE "sign error"

(* Mutant of SignAdvance: an engine error treated like a decode error, *)
(* leaving the round to be retried.                                    *)
SignAdvanceKeepsRound(h, batch, next, decodeFatal) ==
    /\ tround' = [tround EXCEPT ![h] =
                    IF batch = "valid" THEN next
                    ELSE IF decodeFatal THEN "Failed"
                    ELSE tround[h]]
    /\ err' = SignErrAfter(batch)
    /\ lastOp' = [op |-> "sign_handle", h |-> h]
    /\ UNCHANGED <<tmem, sigs, towned, shareEnvVars, proc>>

(* One engine round.  handle_messages returns a decode error before it  *)
(* touches the round (decodeFatal FALSE); the WaitMsg3 arm sets Failed  *)
(* on a decode error (decodeFatal TRUE); every engine error sets Failed. *)
SignAdvance(h, batch, next, decodeFatal) ==
    /\ tround' = [tround EXCEPT ![h] =
                    IF batch = "valid" THEN next
                    ELSE IF batch = "malformed" /\ ~decodeFatal THEN tround[h]
                    ELSE "Failed"]
    /\ err' = SignErrAfter(batch)
    /\ lastOp' = [op |-> "sign_handle", h |-> h]
    /\ UNCHANGED <<tmem, sigs, towned, shareEnvVars, proc>>

(* dkls_sign_handle_messages *)
SignHandleMessages(h, batch, slen) ==
    /\ proc = "running"
    /\ h \in towned
    /\ \/ SignRngPanics(slen) /\ SignPanic("sign_handle", h)
       \/ /\ ~SignRngPanics(slen)
          /\ \/ tround[h] = "WaitMsg1" /\ SignAdvance(h, batch, "WaitMsg2", FALSE)
             \/ tround[h] = "WaitMsg2" /\ SignAdvance(h, batch, "WaitMsg3", FALSE)
             \/ tround[h] = "WaitMsg3" /\ SignAdvance(h, batch, "Pre", TRUE)
             \/ tround[h] = "Failed" /\ SignReject("sign_handle", h, "failed")
             \/ /\ tround[h] \in {"Init", "Pre", "WaitMsg4", "Finished"}
                /\ SignReject("sign_handle", h, "invalid session state")

(* Mutant of SignLastMessage: the previous round is not put back after  *)
(* std::mem::replace, so a call in the wrong round leaves Finished.     *)
SignLastMessageNoRestore(h, hlen, d) ==
    /\ proc = "running"
    /\ h \in towned
    /\ \/ hlen # 32 /\ SignReject("sign_last_message", h, "invalid message hash")
       \/ /\ hlen = 32 /\ tround[h] = "Pre"
          /\ tround' = [tround EXCEPT ![h] = "WaitMsg4"]
          /\ sigs' = [sigs EXCEPT ![h] = @ \cup {d}]
          /\ err' = "none"
          /\ lastOp' = [op |-> "sign_last_message", h |-> h]
          /\ UNCHANGED <<tmem, towned, shareEnvVars, proc>>
       \/ /\ hlen = 32 /\ tround[h] # "Pre"
          /\ tround' = [tround EXCEPT ![h] = "Finished"]
          /\ err' = "invalid state"
          /\ lastOp' = [op |-> "sign_last_message", h |-> h]
          /\ UNCHANGED <<tmem, sigs, towned, shareEnvVars, proc>>

(* Mutant of SignLastMessage: the pre-signature is left in place after  *)
(* the partial signature is made, as if it were copied out.             *)
SignLastMessageKeepsPre(h, hlen, d) ==
    /\ proc = "running"
    /\ h \in towned
    /\ \/ hlen # 32 /\ SignReject("sign_last_message", h, "invalid message hash")
       \/ /\ hlen = 32 /\ tround[h] = "Pre"
          /\ sigs' = [sigs EXCEPT ![h] = @ \cup {d}]
          /\ err' = "none"
          /\ lastOp' = [op |-> "sign_last_message", h |-> h]
          /\ UNCHANGED <<tmem, tround, towned, shareEnvVars, proc>>
       \/ hlen = 32 /\ tround[h] # "Pre" /\ SignReject("sign_last_message", h, "invalid state")

(* dkls_sign_last_message: the hash length is checked before the round; *)
(* the round is taken out (Finished left behind) and either the         *)
(* pre-signature is consumed into a partial signature for digest d, or  *)
(* the previous round is put back.                                      *)
SignLastMessage(h, hlen, d) ==
    /\ proc = "running"
    /\ h \in towned
    /\ \/ hlen # 32 /\ SignReject("sign_last_message", h, "invalid message hash")
       \/ /\ hlen = 32 /\ tround[h] = "Pre"
          /\ tround' = [tround EXCEPT ![h] = "WaitMsg4"]
          /\ sigs' = [sigs EXCEPT ![h] = @ \cup {d}]
          /\ err' = "none"
          /\ lastOp' = [op |-> "sign_last_message", h |-> h]
          /\ UNCHANGED <<tmem, towned, shareEnvVars, proc>>
       \/ hlen = 32 /\ tround[h] # "Pre" /\ SignReject("sign_last_message", h, "invalid state")

(* Mutant of SignRelease: the Box::from_raw that drops the handle missing. *)
SignReleaseNoDrop(h, text) ==
    /\ tround' = [tround EXCEPT ![h] = "Finished"]
    /\ towned' = towned \ {h}
    /\ err' = text
    /\ lastOp' = [op |-> "sign_combine", h |-> h]
    /\ UNCHANGED <<tmem, sigs, shareEnvVars, proc>>

(* The session at h is dropped and the host gives up its pointer. *)
SignRelease(h, text) ==
    /\ tmem' = [tmem EXCEPT ![h] = "free"]
    /\ tround' = [tround EXCEPT ![h] = "Finished"]
    /\ towned' = towned \ {h}
    /\ err' = text
    /\ lastOp' = [op |-> "sign_combine", h |-> h]
    /\ UNCHANGED <<sigs, shareEnvVars, proc>>

(* dkls_sign_combine: with a null r_out or s_out nothing is consumed;   *)
(* otherwise the round is replaced by Finished and the handle dropped   *)
(* on every path, whatever the round and whatever the engine says.      *)
SignCombine(h, outsOk, batch) ==
    /\ proc = "running"
    /\ h \in towned
    /\ \/ ~outsOk /\ SignReject("sign_combine", h, "null handle or output")
       \/ outsOk /\ tround[h] = "WaitMsg4" /\ SignRelease(h, SignErrAfter(batch))
       \/ outsOk /\ tround[h] # "WaitMsg4" /\ SignRelease(h, "invalid state")

(* dkls_sign_free *)
SignFree(h) ==
    /\ proc = "running"
    /\ h \in towned
    /\ tmem' = [tmem EXCEPT ![h] = "free"]
    /\ towned' = towned \ {h}
    /\ err' = "none"
    /\ lastOp' = [op |-> "sign_free", h |-> h]
    /\ UNCHANGED <<tround, sigs, shareEnvVars, proc>>

(* create_first_message, handle_messages, last_message or combine on a  *)
(* null session pointer.                                                 *)
SignNullHandleCall ==
    /\ proc = "running"
    /\ \/ SignReject("sign_null_call", NoHandle, "null handle")
       \/ SignReject("sign_null_call", NoHandle, "null handle or output")

(* The other components: a keyshare is boxed at a free address and      *)
(* handed to the host (dkls_keygen_keyshare, dkls_keyshare_from_bytes),  *)
(* or the host releases one it owns (dkls_keyshare_free).                *)
ShareEnv(k) ==
    /\ proc = "running"
    /\ \/ smem[k] = "free" /\ smem' = [smem EXCEPT ![k] = "live"]
          /\ ownedShares' = ownedShares \cup {k}
       \/ k \in ownedShares /\ smem' = [smem EXCEPT ![k] = "free"]
          /\ ownedShares' = ownedShares \ {k}
    /\ err' = "none"
    /\ lastOp' = [op |-> "share_env", h |-> k]
    /\ UNCHANGED <<signVars, proc>>

Next ==
    \/ \E h \in SignHandles, k \in Shares \cup {NoHandle}, p \in Paths, s \in SeedLens,
          ok \in BOOLEAN : SignNew(h, k, p, s, ok)
    \/ \E h \in SignHandles : SignCreateFirstMessage(h) \/ SignFree(h)
    \/ \E h \in SignHandles, b \in SignBatches, s \in SeedLens : SignHandleMessages(h, b, s)
    \/ \E h \in SignHandles, l \in HashLens, d \in Digests : SignLastMessage(h, l, d)
    \/ \E h \in SignHandles, o \in BOOLEAN, b \in SignBatches : SignCombine(h, o, b)
    \/ SignNullHandleCall
    \/ \E k \in Shares : ShareEnv(k)

Spec == Init /\ [][Next]_vars

-----------------------------------------------------------------------------
(* Properties.                                                           *)

(* The host holds exactly the live sign sessions: combine, whose return *)
(* value does not say whether it dropped the handle, drops it exactly   *)
(* when the host's rule (r_out and s_out non-null) says so.             *)
SignOwnershipAgreement ==
    \A h \in SignHandles : h \in towned <=> tmem[h] = "live"

(* A session never makes partial signatures for two different digests: *)
(* the pre-signature (its nonce) is consumed by the one last_message    *)
(* that uses it.  Two digests signed with one nonce reveal the key share. *)
PreSignatureSingleUse ==
    \A h \in SignHandles : \A d1, d2 \in sigs[h] : d1 = d2

(* A round call that the engine rejects, with either error code, leaves *)
(* the session Failed or destroyed: it is a terminal outcome for that   *)
(* session (spec section 7 (c)), never a retryable one.  A call that   *)
(* aborted the process returned nothing, so only calls that return are  *)
(* judged by what they wrote to err_out.                                *)
EngineErrorTerminal ==
    [][\A h \in SignHandles :
         proc' = "running" /\ lastOp'.h = h /\ err' \in {"sign error", "ban party"}
             => tround'[h] = "Failed" \/ tmem'[h] = "free"]_vars

(* The rounds a live session may move to from r in one call. *)
SignAllowed(r) ==
    IF r = "Init" THEN {r, "WaitMsg1"}
    ELSE IF r = "WaitMsg1" THEN {r, "WaitMsg2", "Failed"}
    ELSE IF r = "WaitMsg2" THEN {r, "WaitMsg3", "Failed"}
    ELSE IF r = "WaitMsg3" THEN {r, "Pre", "Failed"}
    ELSE IF r = "Pre" THEN {r, "WaitMsg4"}
    ELSE {r}

(* While a sign session stays allocated it moves forward one round at a *)
(* time or to Failed, and never leaves Failed, WaitMsg4 or Finished: in *)
(* particular a rejected digest (spec section 8) or a call in the wrong  *)
(* round never loses the pre-signature.                                  *)
SignRoundMonotone ==
    [][\A h \in SignHandles :
         tmem[h] = "live" /\ tmem'[h] = "live" => tround'[h] \in SignAllowed(tround[h])]_vars

(* Spec section 8: a call on a session in the wrong state fails with    *)
(* "invalid state" and leaves the session as it was.                    *)
InvalidStatePreserves ==
    [][err' = "invalid state" => UNCHANGED <<tmem, tround>>]_vars


-----------------------------------------------------------------------------
(* Refinement of the session lifecycle.  A freed address has no session; *)
(* Init is the created phase; the rounds up to Pre are the running        *)
(* protocol; WaitMsg4 holds the partial signature and only waits for      *)
(* combine (Finished is never left on a live handle: combine drops it).   *)
SignPhaseOf(m, r) ==
    IF m = "free" THEN "none"
    ELSE IF r = "Init" THEN "init"
    ELSE IF r = "Failed" THEN "failed"
    ELSE IF r \in {"WaitMsg4", "Finished"} THEN "done"
    ELSE "active"

SignLC == INSTANCE SessionLifecycle
            WITH Addr <- SignHandles,
                 phase <- [h \in SignHandles |-> SignPhaseOf(tmem[h], tround[h])],
                 held <- towned

(* Every behaviour of the sign session layer is one of the session        *)
(* lifecycle: sessions are created at free addresses for the host, only   *)
(* a session the host holds moves, it moves forward through the phases,   *)
(* and it ends only by being released (dkls_sign_free, dkls_sign_combine). *)
SignImplementsLifecycle == SignLC!LSpec

=============================================================================
