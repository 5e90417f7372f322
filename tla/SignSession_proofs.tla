------------------------ MODULE SignSession_proofs -------------------------
(***************************************************************************)
(* Proofs about SignSession for every value of its constants: the type    *)
(* invariant, the agreement between the host's sign pointers and the heap, *)
(* and the single use of every pre-signature.                             *)
(***************************************************************************)
EXTENDS SignSession, TLAPS

(* The addresses an entry point may be called on. *)
SignAddrs == SignHandles \cup Shares \cup {NoHandle}

-----------------------------------------------------------------------------
(* Type correctness, one lemma per primitive step the actions share.     *)

LEMMA SignPanicType ==
    ASSUME TypeOK, NEW op \in SignOps, NEW a \in SignAddrs, SignPanic(op, a)
    PROVE  TypeOK'
BY DEF TypeOK, SignPanic, SignOps, SignErrors, SignRounds, SignAddrs,
       signVars, shareEnvVars

LEMMA SignRejectType ==
    ASSUME TypeOK, NEW op \in SignOps, NEW a \in SignAddrs, NEW t \in SignErrors,
           SignReject(op, a, t)
    PROVE  TypeOK'
BY DEF TypeOK, SignReject, SignOps, SignErrors, SignRounds, SignAddrs,
       signVars, shareEnvVars

LEMMA SignErrAfterType ==
    ASSUME NEW b
    PROVE  SignErrAfter(b) \in SignErrors
BY DEF SignErrAfter, SignErrors

LEMMA SignAdvanceType ==
    ASSUME TypeOK, NEW h \in SignHandles, NEW b, NEW nx \in SignRounds, NEW f \in BOOLEAN,
           SignAdvance(h, b, nx, f)
    PROVE  TypeOK'
<1>1. tround' \in [SignHandles -> SignRounds]
  BY DEF SignAdvance, TypeOK, SignRounds
<1>2. err' \in SignErrors /\ lastOp' \in [op : SignOps, h : SignHandles \cup Shares \cup {NoHandle}]
  BY SignErrAfterType DEF SignAdvance, SignOps
<1>3. QED
  BY <1>1, <1>2 DEF TypeOK, SignAdvance, shareEnvVars

LEMMA SignReleaseType ==
    ASSUME TypeOK, NEW h \in SignHandles, NEW t \in SignErrors, SignRelease(h, t)
    PROVE  TypeOK'
BY DEF TypeOK, SignRelease, SignOps, SignRounds, shareEnvVars

(* TypeOK holds in every state of every behaviour of Spec. *)
THEOREM SignTypeCorrect == Spec => []TypeOK
<1>1. Init => TypeOK
  BY DEF Init, TypeOK, SignOps, SignErrors, SignRounds
<1>2. TypeOK /\ [Next]_vars => TypeOK'
  <2> SUFFICES ASSUME TypeOK, [Next]_vars PROVE TypeOK'
    OBVIOUS
  <2>0. SignHandles \subseteq SignAddrs /\ Shares \subseteq SignAddrs /\ NoHandle \in SignAddrs
    BY DEF SignAddrs
  <2>1. ASSUME NEW h \in SignHandles, NEW k \in Shares \cup {NoHandle}, NEW p \in Paths,
               NEW s \in SeedLens, NEW ok \in BOOLEAN, SignNew(h, k, p, s, ok)
        PROVE  TypeOK'
    <3>1. PathError(p) \in SignErrors
      BY DEF PathError, SignErrors
    <3>2. CASE k = NoHandle \/ p # "ok" \/ SignRngPanics(s) \/ ~ok
      <4>1. \/ SignReject("sign_new", NoHandle, "null keyshare")
            \/ SignReject("sign_new", h, PathError(p))
            \/ SignPanic("sign_new", h)
            \/ SignReject("sign_new", h, "sign session init failed")
        BY <2>1, <3>2 DEF SignNew
      <4>2. "sign_new" \in SignOps /\ {"null keyshare", "sign session init failed"} \subseteq SignErrors
        BY DEF SignOps, SignErrors
      <4>3. QED
        BY <2>0, <3>1, <4>1, <4>2, SignRejectType, SignPanicType
    <3>3. CASE k # NoHandle /\ p = "ok" /\ ~SignRngPanics(s) /\ ok
      <4>1. /\ tmem' = [tmem EXCEPT ![h] = "live"]
            /\ tround' = [tround EXCEPT ![h] = "Init"]
            /\ sigs' = [sigs EXCEPT ![h] = {}]
            /\ towned' = towned \cup {h}
            /\ err' = "none"
            /\ lastOp' = [op |-> "sign_new", h |-> h]
            /\ UNCHANGED <<smem, ownedShares, proc>>
        BY <2>1, <3>3 DEF SignNew, SignReject, SignPanic, shareEnvVars
      <4>2. QED
        BY <4>1 DEF TypeOK, SignOps, SignErrors, SignRounds
    <3>4. QED
      BY <3>2, <3>3
  <2>2. ASSUME NEW h \in SignHandles, SignCreateFirstMessage(h)
        PROVE  TypeOK'
    <3>1. CASE tround[h] = "Init"
      <4>1. /\ tround' = [tround EXCEPT ![h] = "WaitMsg1"]
            /\ err' = "none"
            /\ lastOp' = [op |-> "sign_first_message", h |-> h]
            /\ UNCHANGED <<tmem, sigs, towned, smem, ownedShares, proc>>
        BY <2>2, <3>1 DEF SignCreateFirstMessage, SignReject, shareEnvVars, signVars
      <4>2. QED
        BY <4>1 DEF TypeOK, SignOps, SignErrors, SignRounds
    <3>2. CASE tround[h] # "Init"
      BY <2>0, <2>2, <3>2, SignRejectType DEF SignCreateFirstMessage, SignOps, SignErrors
    <3>3. QED
      BY <3>1, <3>2
  <2>3. ASSUME NEW h \in SignHandles, SignFree(h)
        PROVE  TypeOK'
    BY <2>3 DEF SignFree, TypeOK, SignOps, SignErrors, shareEnvVars
  <2>4. ASSUME NEW h \in SignHandles, NEW b \in SignBatches, NEW s \in SeedLens,
               SignHandleMessages(h, b, s)
        PROVE  TypeOK'
    <3>1. {"WaitMsg2", "WaitMsg3", "Pre"} \subseteq SignRounds
      BY DEF SignRounds
    <3>2. QED
      BY <2>0, <2>4, <3>1, SignPanicType, SignRejectType, SignAdvanceType
         DEF SignHandleMessages, SignOps, SignErrors
  <2>5. ASSUME NEW h \in SignHandles, NEW l \in HashLens, NEW d \in Digests,
               SignLastMessage(h, l, d)
        PROVE  TypeOK'
    <3>1. CASE l = 32 /\ tround[h] = "Pre"
      <4>1. /\ tround' = [tround EXCEPT ![h] = "WaitMsg4"]
            /\ sigs' = [sigs EXCEPT ![h] = @ \cup {d}]
            /\ err' = "none"
            /\ lastOp' = [op |-> "sign_last_message", h |-> h]
            /\ UNCHANGED <<tmem, towned, smem, ownedShares, proc>>
        BY <2>5, <3>1 DEF SignLastMessage, SignReject, shareEnvVars, signVars
      <4>2. QED
        BY <4>1 DEF TypeOK, SignOps, SignErrors, SignRounds
    <3>2. CASE ~(l = 32 /\ tround[h] = "Pre")
      BY <2>0, <2>5, <3>2, SignRejectType DEF SignLastMessage, SignOps, SignErrors
    <3>3. QED
      BY <3>1, <3>2
  <2>6. ASSUME NEW h \in SignHandles, NEW o \in BOOLEAN, NEW b \in SignBatches,
               SignCombine(h, o, b)
        PROVE  TypeOK'
    BY <2>0, <2>6, SignRejectType, SignReleaseType, SignErrAfterType
       DEF SignCombine, SignOps, SignErrors
  <2>7. CASE SignNullHandleCall
    BY <2>0, <2>7, SignRejectType DEF SignNullHandleCall, SignOps, SignErrors
  <2>8. ASSUME NEW k \in Shares, ShareEnv(k)
        PROVE  TypeOK'
    BY <2>8 DEF ShareEnv, TypeOK, SignOps, SignErrors, signVars
  <2>9. CASE UNCHANGED vars
    BY <2>9 DEF vars, TypeOK
  <2>10. QED
    BY <2>1, <2>2, <2>3, <2>4, <2>5, <2>6, <2>7, <2>8, <2>9 DEF Next
<1>3. QED
  BY <1>1, <1>2, PTL DEF Spec

-----------------------------------------------------------------------------
(* Ownership agreement for sign sessions, inductive with TypeOK: a       *)
(* session is boxed only at a free address, and every path that drops   *)
(* the box also takes the pointer from the host.                         *)

LEMMA SignFrameAgree ==
    ASSUME SignOwnershipAgreement, UNCHANGED <<tmem, towned>>
    PROVE  SignOwnershipAgreement'
BY DEF SignOwnershipAgreement

LEMMA SignRejectAgree ==
    ASSUME SignOwnershipAgreement, NEW op, NEW a, NEW t, SignReject(op, a, t)
    PROVE  SignOwnershipAgreement'
BY SignFrameAgree DEF SignReject, signVars

LEMMA SignPanicAgree ==
    ASSUME SignOwnershipAgreement, NEW op, NEW a, SignPanic(op, a)
    PROVE  SignOwnershipAgreement'
BY SignFrameAgree DEF SignPanic, signVars

LEMMA SignReleaseAgree ==
    ASSUME TypeOK, SignOwnershipAgreement, NEW h \in SignHandles, NEW t, SignRelease(h, t)
    PROVE  SignOwnershipAgreement'
BY DEF TypeOK, SignOwnershipAgreement, SignRelease

(* The host's sign pointers agree with the heap in every reachable state. *)
THEOREM SignOwnershipHolds == Spec => []SignOwnershipAgreement
<1>1. Init => SignOwnershipAgreement
  BY DEF Init, SignOwnershipAgreement
<1>2. TypeOK /\ SignOwnershipAgreement /\ [Next]_vars => SignOwnershipAgreement'
  <2> SUFFICES ASSUME TypeOK, SignOwnershipAgreement, [Next]_vars
               PROVE  SignOwnershipAgreement'
    OBVIOUS
  <2>1. ASSUME NEW h \in SignHandles, NEW k \in Shares \cup {NoHandle}, NEW p \in Paths,
               NEW s \in SeedLens, NEW ok \in BOOLEAN, SignNew(h, k, p, s, ok)
        PROVE  SignOwnershipAgreement'
    <3>1. CASE k # NoHandle /\ p = "ok" /\ ~SignRngPanics(s) /\ ok
      <4>1. tmem' = [tmem EXCEPT ![h] = "live"] /\ towned' = towned \cup {h} /\ tmem[h] = "free"
        BY <2>1, <3>1 DEF SignNew, SignReject, SignPanic
      <4>2. QED
        BY <4>1 DEF TypeOK, SignOwnershipAgreement
    <3>2. CASE ~(k # NoHandle /\ p = "ok" /\ ~SignRngPanics(s) /\ ok)
      BY <2>1, <3>2, SignRejectAgree, SignPanicAgree DEF SignNew
    <3>3. QED
      BY <3>1, <3>2
  <2>2. ASSUME NEW h \in SignHandles, SignCreateFirstMessage(h)
        PROVE  SignOwnershipAgreement'
    BY <2>2, SignFrameAgree, SignRejectAgree DEF SignCreateFirstMessage
  <2>3. ASSUME NEW h \in SignHandles, SignFree(h)
        PROVE  SignOwnershipAgreement'
    BY <2>3 DEF SignFree, TypeOK, SignOwnershipAgreement
  <2>4. ASSUME NEW h \in SignHandles, NEW b \in SignBatches, NEW s \in SeedLens,
               SignHandleMessages(h, b, s)
        PROVE  SignOwnershipAgreement'
    <3>1. ASSUME NEW nx, NEW f, SignAdvance(h, b, nx, f) PROVE SignOwnershipAgreement'
      BY <3>1, SignFrameAgree DEF SignAdvance
    <3>2. QED
      BY <2>4, <3>1, SignRejectAgree, SignPanicAgree DEF SignHandleMessages
  <2>5. ASSUME NEW h \in SignHandles, NEW l \in HashLens, NEW d \in Digests,
               SignLastMessage(h, l, d)
        PROVE  SignOwnershipAgreement'
    BY <2>5, SignFrameAgree, SignRejectAgree DEF SignLastMessage
  <2>6. ASSUME NEW h \in SignHandles, NEW o \in BOOLEAN, NEW b \in SignBatches,
               SignCombine(h, o, b)
        PROVE  SignOwnershipAgreement'
    BY <2>6, SignRejectAgree, SignReleaseAgree DEF SignCombine
  <2>7. CASE SignNullHandleCall
    BY <2>7, SignRejectAgree DEF SignNullHandleCall
  <2>8. ASSUME NEW k \in Shares, ShareEnv(k)
        PROVE  SignOwnershipAgreement'
    BY <2>8, SignFrameAgree DEF ShareEnv, signVars
  <2>9. CASE UNCHANGED vars
    BY <2>9, SignFrameAgree DEF vars
  <2>10. QED
    BY <2>1, <2>2, <2>3, <2>4, <2>5, <2>6, <2>7, <2>8, <2>9 DEF Next
<1>3. QED
  BY <1>1, <1>2, SignTypeCorrect, PTL DEF Spec

-----------------------------------------------------------------------------
(* Single use of the pre-signature.  PreSignatureSingleUse is not         *)
(* inductive by itself: a session in Pre that had already signed could   *)
(* sign again.  The strengthening says a session has signed nothing      *)
(* until it is in WaitMsg4, and afterwards (WaitMsg4, or Finished once    *)
(* combine ran) it has signed exactly one digest.  Only last_message adds *)
(* to sigs, only from Pre, and it leaves Pre behind.                      *)

SignedOnce(h) ==
    \/ sigs[h] = {}
    \/ tround[h] \in {"WaitMsg4", "Finished"} /\ \E d \in Digests : sigs[h] = {d}

SigInv == \A h \in SignHandles : SignedOnce(h)

LEMMA SigInvImplies ==
    ASSUME SigInv PROVE PreSignatureSingleUse
BY DEF SigInv, SignedOnce, PreSignatureSingleUse

(* A step that keeps sigs and moves no round that has signed. *)
LEMMA SigFrame ==
    ASSUME TypeOK, SigInv, sigs' = sigs,
           \A h \in SignHandles : sigs[h] # {} => tround'[h] = tround[h]
    PROVE  SigInv'
BY DEF SigInv, SignedOnce

LEMMA SigReject ==
    ASSUME TypeOK, SigInv, NEW op, NEW a, NEW t, SignReject(op, a, t)
    PROVE  SigInv'
BY SigFrame DEF SignReject, signVars

LEMMA SigPanic ==
    ASSUME TypeOK, SigInv, NEW op, NEW a, SignPanic(op, a)
    PROVE  SigInv'
BY SigFrame DEF SignPanic, signVars

(* Every session past the digest step has signed exactly one digest. *)
THEOREM PreSignatureSingleUseHolds == Spec => []PreSignatureSingleUse
<1>1. Init => SigInv
  BY DEF Init, SigInv, SignedOnce
<1>2. TypeOK /\ SigInv /\ [Next]_vars => SigInv'
  <2> SUFFICES ASSUME TypeOK, SigInv, [Next]_vars PROVE SigInv'
    OBVIOUS
  <2>1. ASSUME NEW h \in SignHandles, NEW k \in Shares \cup {NoHandle}, NEW p \in Paths,
               NEW s \in SeedLens, NEW ok \in BOOLEAN, SignNew(h, k, p, s, ok)
        PROVE  SigInv'
    <3>1. CASE k # NoHandle /\ p = "ok" /\ ~SignRngPanics(s) /\ ok
      <4>1. tround' = [tround EXCEPT ![h] = "Init"] /\ sigs' = [sigs EXCEPT ![h] = {}]
        BY <2>1, <3>1 DEF SignNew, SignReject, SignPanic
      <4>2. QED
        BY <4>1 DEF TypeOK, SigInv, SignedOnce
    <3>2. CASE ~(k # NoHandle /\ p = "ok" /\ ~SignRngPanics(s) /\ ok)
      BY <2>1, <3>2, SigReject, SigPanic DEF SignNew
    <3>3. QED
      BY <3>1, <3>2
  <2>2. ASSUME NEW h \in SignHandles, SignCreateFirstMessage(h)
        PROVE  SigInv'
    <3>1. CASE tround[h] = "Init"
      <4>1. tround' = [tround EXCEPT ![h] = "WaitMsg1"] /\ sigs' = sigs
        BY <2>2, <3>1 DEF SignCreateFirstMessage, SignReject, signVars
      <4>2. sigs[h] = {}
        BY <3>1 DEF SigInv, SignedOnce
      <4>3. QED
        BY <4>1, <4>2, SigFrame DEF TypeOK
    <3>2. CASE tround[h] # "Init"
      BY <2>2, <3>2, SigReject DEF SignCreateFirstMessage
    <3>3. QED
      BY <3>1, <3>2
  <2>3. ASSUME NEW h \in SignHandles, SignFree(h)
        PROVE  SigInv'
    BY <2>3, SigFrame DEF SignFree
  <2>4. ASSUME NEW h \in SignHandles, NEW b \in SignBatches, NEW s \in SeedLens,
               SignHandleMessages(h, b, s)
        PROVE  SigInv'
    <3>1. ASSUME NEW nx, NEW f, SignAdvance(h, b, nx, f),
                 tround[h] \in {"WaitMsg1", "WaitMsg2", "WaitMsg3"}
          PROVE  SigInv'
      <4>1. sigs[h] = {}
        BY <3>1 DEF SigInv, SignedOnce
      <4>2. sigs' = sigs /\ tround' = [tround EXCEPT ![h] = tround'[h]]
        BY <3>1 DEF SignAdvance, TypeOK
      <4>3. QED
        BY <4>1, <4>2, SigFrame DEF TypeOK
    <3>2. QED
      BY <2>4, <3>1, SigReject, SigPanic DEF SignHandleMessages
  <2>5. ASSUME NEW h \in SignHandles, NEW l \in HashLens, NEW d \in Digests,
               SignLastMessage(h, l, d)
        PROVE  SigInv'
    <3>1. CASE l = 32 /\ tround[h] = "Pre"
      <4>1. tround' = [tround EXCEPT ![h] = "WaitMsg4"] /\ sigs' = [sigs EXCEPT ![h] = @ \cup {d}]
        BY <2>5, <3>1 DEF SignLastMessage, SignReject
      <4>2. sigs[h] = {}
        BY <3>1 DEF SigInv, SignedOnce
      <4>3. SignedOnce(h)'
        BY <4>1, <4>2 DEF TypeOK, SignedOnce
      <4>4. QED
        BY <4>1, <4>3 DEF TypeOK, SigInv, SignedOnce
    <3>2. CASE ~(l = 32 /\ tround[h] = "Pre")
      BY <2>5, <3>2, SigReject DEF SignLastMessage
    <3>3. QED
      BY <3>1, <3>2
  <2>6. ASSUME NEW h \in SignHandles, NEW o \in BOOLEAN, NEW b \in SignBatches,
               SignCombine(h, o, b)
        PROVE  SigInv'
    <3>1. ASSUME NEW t, SignRelease(h, t) PROVE SigInv'
      BY <3>1 DEF SignRelease, TypeOK, SigInv, SignedOnce
    <3>2. QED
      BY <2>6, <3>1, SigReject DEF SignCombine
  <2>7. CASE SignNullHandleCall
    BY <2>7, SigReject DEF SignNullHandleCall
  <2>8. ASSUME NEW k \in Shares, ShareEnv(k)
        PROVE  SigInv'
    BY <2>8, SigFrame DEF ShareEnv, signVars
  <2>9. CASE UNCHANGED vars
    BY <2>9, SigFrame DEF vars
  <2>10. QED
    BY <2>1, <2>2, <2>3, <2>4, <2>5, <2>6, <2>7, <2>8, <2>9 DEF Next
<1>3. Spec => []SigInv
  BY <1>1, <1>2, SignTypeCorrect, PTL DEF Spec
<1>4. QED
  BY <1>3, SigInvImplies, PTL

-----------------------------------------------------------------------------
(* Refinement of the session lifecycle.  The mapping sends a session to  *)
(* the phase of its memory and round, and the host's pointers to held.   *)
(* A step that leaves memory, round and the host's pointers alone is a   *)
(* stutter; so is a round change inside one phase (WaitMsg1 to Pre).     *)
(* Every other step is one lifecycle action on its own address; the       *)
(* guards "the host holds it" and "it is not none" of the lifecycle come  *)
(* from the ownership agreement.                                          *)

(* The phase function the refinement mapping gives. *)
SPh == [h \in SignHandles |-> SignPhaseOf(tmem[h], tround[h])]

LEMMA SignLCStutter ==
    ASSUME UNCHANGED <<tmem, tround, towned>>
    PROVE  UNCHANGED SignLC!lcVars
BY DEF SignLC!lcVars

LEMMA SignLCUpdate ==
    ASSUME TypeOK, NEW h \in SignHandles, NEW m, NEW r,
           tmem' = [tmem EXCEPT ![h] = m], tround' = [tround EXCEPT ![h] = r]
    PROVE  SPh' = [SPh EXCEPT ![h] = SignPhaseOf(m, r)]
BY DEF SPh, TypeOK

LEMMA SignLCSamePhase ==
    ASSUME TypeOK, NEW h \in SignHandles, NEW r, UNCHANGED <<tmem, towned>>,
           tround' = [tround EXCEPT ![h] = r],
           SignPhaseOf(tmem[h], r) = SignPhaseOf(tmem[h], tround[h])
    PROVE  UNCHANGED SignLC!lcVars
<1>1. SPh' = SPh
  <2>1. tmem' = [tmem EXCEPT ![h] = tmem[h]]
    BY DEF TypeOK
  <2>2. SPh' = [SPh EXCEPT ![h] = SignPhaseOf(tmem[h], r)]
    BY <2>1, SignLCUpdate
  <2>3. QED
    BY <2>2 DEF SPh
<1>2. QED
  BY <1>1 DEF SignLC!lcVars, SPh

LEMMA SignRejectLC ==
    ASSUME NEW op, NEW a, NEW t, SignReject(op, a, t)
    PROVE  UNCHANGED SignLC!lcVars
BY SignLCStutter DEF SignReject, signVars

LEMMA SignPanicLC ==
    ASSUME NEW op, NEW a, SignPanic(op, a)
    PROVE  UNCHANGED SignLC!lcVars
BY SignLCStutter DEF SignPanic, signVars

LEMMA SignReleaseLC ==
    ASSUME TypeOK, SignOwnershipAgreement, NEW h \in towned, NEW t, SignRelease(h, t)
    PROVE  SignLC!Release(h)
<1>1. h \in SignHandles /\ tmem[h] = "live"
  BY DEF TypeOK, SignOwnershipAgreement
<1>2. SPh' = [SPh EXCEPT ![h] = "none"]
  BY <1>1, SignLCUpdate DEF SignRelease, SignPhaseOf
<1>3. QED
  BY <1>1, <1>2 DEF SignLC!Release, SPh, SignPhaseOf, SignRelease

(* The sign session layer implements the session lifecycle. *)
THEOREM SignRefinesLifecycle == Spec => SignImplementsLifecycle
<1>1. Init => SignLC!LInit
  BY DEF Init, SignLC!LInit, SignPhaseOf
<1>2. TypeOK /\ SignOwnershipAgreement /\ [Next]_vars => [SignLC!LNext]_SignLC!lcVars
  <2> SUFFICES ASSUME TypeOK, SignOwnershipAgreement, [Next]_vars
               PROVE  [SignLC!LNext]_SignLC!lcVars
    OBVIOUS
  <2>1. ASSUME NEW h \in SignHandles, NEW k \in Shares \cup {NoHandle}, NEW p \in Paths,
               NEW s \in SeedLens, NEW ok \in BOOLEAN, SignNew(h, k, p, s, ok)
        PROVE  [SignLC!LNext]_SignLC!lcVars
    <3>1. CASE k # NoHandle /\ p = "ok" /\ ~SignRngPanics(s) /\ ok
      <4>1. /\ tmem' = [tmem EXCEPT ![h] = "live"] /\ tround' = [tround EXCEPT ![h] = "Init"]
            /\ towned' = towned \cup {h} /\ tmem[h] = "free"
        BY <2>1, <3>1 DEF SignNew, SignReject, SignPanic
      <4>2. SPh' = [SPh EXCEPT ![h] = "init"]
        BY <4>1, SignLCUpdate DEF SignPhaseOf
      <4>3. SignLC!Create(h)
        BY <4>1, <4>2 DEF SignLC!Create, SPh, SignPhaseOf
      <4>4. QED
        BY <4>3 DEF SignLC!LNext
    <3>2. CASE ~(k # NoHandle /\ p = "ok" /\ ~SignRngPanics(s) /\ ok)
      BY <2>1, <3>2, SignRejectLC, SignPanicLC DEF SignNew
    <3>3. QED
      BY <3>1, <3>2
  <2>2. ASSUME NEW h \in SignHandles, SignCreateFirstMessage(h)
        PROVE  [SignLC!LNext]_SignLC!lcVars
    <3>1. CASE tround[h] = "Init"
      <4>1. /\ tround' = [tround EXCEPT ![h] = "WaitMsg1"] /\ UNCHANGED <<tmem, towned>>
            /\ h \in towned /\ tmem[h] = "live"
        BY <2>2, <3>1 DEF SignCreateFirstMessage, SignReject, SignOwnershipAgreement
      <4>2. SPh' = [SPh EXCEPT ![h] = "active"]
        <5>1. tmem' = [tmem EXCEPT ![h] = "live"]
          BY <4>1 DEF TypeOK
        <5>2. QED
          BY <4>1, <5>1, SignLCUpdate DEF SignPhaseOf
      <4>3. SignLC!Start(h)
        BY <3>1, <4>1, <4>2 DEF SignLC!Start, SPh, SignPhaseOf
      <4>4. QED
        BY <4>3 DEF SignLC!LNext
    <3>2. CASE tround[h] # "Init"
      BY <2>2, <3>2, SignRejectLC DEF SignCreateFirstMessage
    <3>3. QED
      BY <3>1, <3>2
  <2>3. ASSUME NEW h \in SignHandles, SignFree(h)
        PROVE  [SignLC!LNext]_SignLC!lcVars
    <3>1. h \in towned /\ tmem[h] = "live" /\ tmem' = [tmem EXCEPT ![h] = "free"]
          /\ tround' = [tround EXCEPT ![h] = tround[h]] /\ towned' = towned \ {h}
      BY <2>3 DEF SignFree, TypeOK, SignOwnershipAgreement
    <3>2. SPh' = [SPh EXCEPT ![h] = "none"]
      BY <3>1, SignLCUpdate DEF SignPhaseOf
    <3>3. SignLC!Release(h)
      BY <3>1, <3>2 DEF SignLC!Release, SPh, SignPhaseOf
    <3>4. QED
      BY <3>3 DEF SignLC!LNext
  <2>4. ASSUME NEW h \in SignHandles, NEW b \in SignBatches, NEW s \in SeedLens,
               SignHandleMessages(h, b, s)
        PROVE  [SignLC!LNext]_SignLC!lcVars
    <3>1. ASSUME NEW nx \in {"WaitMsg2", "WaitMsg3", "Pre"}, NEW f \in BOOLEAN,
                 tround[h] \in {"WaitMsg1", "WaitMsg2", "WaitMsg3"},
                 SignAdvance(h, b, nx, f)
          PROVE  [SignLC!LNext]_SignLC!lcVars
      <4> DEFINE r == IF b = "valid" THEN nx
                      ELSE IF b = "malformed" /\ ~f THEN tround[h] ELSE "Failed"
      <4>1. tround' = [tround EXCEPT ![h] = r] /\ UNCHANGED <<tmem, towned>>
        BY <3>1 DEF SignAdvance
      <4>2. h \in towned /\ tmem[h] = "live"
        BY <2>4 DEF SignHandleMessages, SignOwnershipAgreement
      <4>3. CASE r # "Failed"
        BY <3>1, <4>1, <4>2, <4>3, SignLCSamePhase DEF SignPhaseOf
      <4>4. CASE r = "Failed"
        <5>1. SPh' = [SPh EXCEPT ![h] = "failed"]
          <6>1. tmem' = [tmem EXCEPT ![h] = "live"] /\ tround' = [tround EXCEPT ![h] = "Failed"]
            BY <4>1, <4>2, <4>4 DEF TypeOK
          <6>2. SPh' = [SPh EXCEPT ![h] = SignPhaseOf("live", "Failed")]
            BY <6>1, SignLCUpdate
          <6>3. QED
            BY <6>2 DEF SignPhaseOf
        <5>2. SignLC!Abort(h)
          BY <3>1, <4>1, <4>2, <5>1 DEF SignLC!Abort, SPh, SignPhaseOf
        <5>3. QED
          BY <5>2 DEF SignLC!LNext
      <4>5. QED
        BY <4>3, <4>4
    <3>2. QED
      BY <2>4, <3>1, SignRejectLC, SignPanicLC DEF SignHandleMessages
  <2>5. ASSUME NEW h \in SignHandles, NEW l \in HashLens, NEW d \in Digests,
               SignLastMessage(h, l, d)
        PROVE  [SignLC!LNext]_SignLC!lcVars
    <3>1. CASE l = 32 /\ tround[h] = "Pre"
      <4>1. /\ tround' = [tround EXCEPT ![h] = "WaitMsg4"] /\ UNCHANGED <<tmem, towned>>
            /\ h \in towned /\ tmem[h] = "live"
        BY <2>5, <3>1 DEF SignLastMessage, SignReject, SignOwnershipAgreement
      <4>2. SPh' = [SPh EXCEPT ![h] = "done"]
        <5>1. tmem' = [tmem EXCEPT ![h] = "live"]
          BY <4>1 DEF TypeOK
        <5>2. SPh' = [SPh EXCEPT ![h] = SignPhaseOf("live", "WaitMsg4")]
          BY <4>1, <5>1, SignLCUpdate
        <5>3. QED
          BY <5>2 DEF SignPhaseOf
      <4>3. SignLC!Complete(h)
        BY <3>1, <4>1, <4>2 DEF SignLC!Complete, SPh, SignPhaseOf
      <4>4. QED
        BY <4>3 DEF SignLC!LNext
    <3>2. CASE ~(l = 32 /\ tround[h] = "Pre")
      BY <2>5, <3>2, SignRejectLC DEF SignLastMessage
    <3>3. QED
      BY <3>1, <3>2
  <2>6. ASSUME NEW h \in SignHandles, NEW o \in BOOLEAN, NEW b \in SignBatches,
               SignCombine(h, o, b)
        PROVE  [SignLC!LNext]_SignLC!lcVars
    <3>1. ASSUME NEW t, SignRelease(h, t) PROVE [SignLC!LNext]_SignLC!lcVars
      BY <2>6, <3>1, SignReleaseLC DEF SignCombine, SignLC!LNext
    <3>2. QED
      BY <2>6, <3>1, SignRejectLC DEF SignCombine
  <2>7. CASE SignNullHandleCall
    BY <2>7, SignRejectLC DEF SignNullHandleCall
  <2>8. ASSUME NEW k \in Shares, ShareEnv(k)
        PROVE  [SignLC!LNext]_SignLC!lcVars
    BY <2>8, SignLCStutter DEF ShareEnv, signVars
  <2>9. CASE UNCHANGED vars
    BY <2>9, SignLCStutter DEF vars
  <2>10. QED
    BY <2>1, <2>2, <2>3, <2>4, <2>5, <2>6, <2>7, <2>8, <2>9 DEF Next
<1>3. QED
  BY <1>1, <1>2, SignTypeCorrect, SignOwnershipHolds, PTL
  DEF Spec, SignImplementsLifecycle, SignLC!LSpec

=============================================================================
