------------------------ MODULE SignActions_proofs ------------------------
(***************************************************************************)
(* Proofs of the action properties of SignSession: an engine rejection is  *)
(* terminal for the session it was reported on, and a live sign session   *)
(* only moves forward.  As for keygen, each step formula follows from one *)
(* step of Next (and TypeOK), action by action.                           *)
(***************************************************************************)
EXTENDS SignSession_proofs

-----------------------------------------------------------------------------
(* Engine errors are terminal. *)

EngineErrors == {"sign error", "ban party"}

(* The step formula inside EngineErrorTerminal. *)
EEStep ==
    \A h \in SignHandles :
        proc' = "running" /\ lastOp'.h = h /\ err' \in EngineErrors
            => tround'[h] = "Failed" \/ tmem'[h] = "free"

(* A step that reports none of the engine errors. *)
LEMMA NotEngineEE ==
    ASSUME err' \notin EngineErrors
    PROVE  EEStep
BY DEF EEStep

(* An abort returns nothing. *)
LEMMA PanicEE ==
    ASSUME NEW op, NEW a, SignPanic(op, a)
    PROVE  EEStep
BY DEF EEStep, SignPanic

LEMMA RejectEE ==
    ASSUME NEW op, NEW a, NEW t, t \notin EngineErrors, SignReject(op, a, t)
    PROVE  EEStep
BY NotEngineEE DEF SignReject

(* An engine round that reports an engine error has set Failed. *)
LEMMA AdvanceEE ==
    ASSUME TypeOK, NEW h \in SignHandles, NEW b \in SignBatches, NEW nx, NEW df,
           SignAdvance(h, b, nx, df)
    PROVE  EEStep
<1> SUFFICES ASSUME NEW x \in SignHandles, lastOp'.h = x, err' \in EngineErrors
             PROVE  tround'[x] = "Failed"
  BY DEF EEStep
<1>1. x = h
  BY DEF SignAdvance
<1>2. b \in {"rejected", "ban"}
  BY DEF SignAdvance, SignErrAfter, EngineErrors, SignBatches
<1>3. QED
  BY <1>1, <1>2 DEF SignAdvance, TypeOK

(* combine drops the handle it reports on. *)
LEMMA ReleaseEE ==
    ASSUME TypeOK, NEW h \in SignHandles, NEW t, SignRelease(h, t)
    PROVE  EEStep
<1> SUFFICES ASSUME NEW x \in SignHandles, lastOp'.h = x
             PROVE  tmem'[x] = "free"
  BY DEF EEStep
<1>1. x = h
  BY DEF SignRelease
<1>2. QED
  BY <1>1 DEF SignRelease, TypeOK

(* Whenever a round call or combine reports a SignError, of code 1 or of *)
(* code 2 (AbortProtocolAndBanParty), the session it was called on is    *)
(* Failed or has been dropped: no engine rejection leaves a session that *)
(* the host could drive on.                                              *)
THEOREM EngineErrorTerminalHolds == Spec => EngineErrorTerminal
<1>1. TypeOK /\ [Next]_vars => [EEStep]_vars
  <2> SUFFICES ASSUME TypeOK, Next PROVE EEStep
    OBVIOUS
  <2>0. /\ "null keyshare" \notin EngineErrors
        /\ "sign session init failed" \notin EngineErrors
        /\ \A p \in Paths : PathError(p) \notin EngineErrors
        /\ "invalid state" \notin EngineErrors
        /\ "invalid session state" \notin EngineErrors
        /\ "failed" \notin EngineErrors
        /\ "invalid message hash" \notin EngineErrors
        /\ "null handle or output" \notin EngineErrors
        /\ "null handle" \notin EngineErrors
        /\ "none" \notin EngineErrors
    BY DEF EngineErrors, PathError
  <2>1. ASSUME NEW h \in SignHandles, NEW k \in Shares \cup {NoHandle}, NEW p \in Paths,
               NEW s \in SeedLens, NEW ok \in BOOLEAN, SignNew(h, k, p, s, ok)
        PROVE  EEStep
    BY <2>0, <2>1, PanicEE, RejectEE, NotEngineEE DEF SignNew
  <2>2. ASSUME NEW h \in SignHandles, SignCreateFirstMessage(h)
        PROVE  EEStep
    BY <2>0, <2>2, RejectEE, NotEngineEE DEF SignCreateFirstMessage
  <2>3. ASSUME NEW h \in SignHandles, SignFree(h)
        PROVE  EEStep
    BY <2>0, <2>3, NotEngineEE DEF SignFree
  <2>4. ASSUME NEW h \in SignHandles, NEW b \in SignBatches, NEW s \in SeedLens,
               SignHandleMessages(h, b, s)
        PROVE  EEStep
    BY <2>0, <2>4, PanicEE, RejectEE, AdvanceEE DEF SignHandleMessages
  <2>5. ASSUME NEW h \in SignHandles, NEW l \in HashLens, NEW d \in Digests,
               SignLastMessage(h, l, d)
        PROVE  EEStep
    BY <2>0, <2>5, RejectEE, NotEngineEE DEF SignLastMessage
  <2>6. ASSUME NEW h \in SignHandles, NEW o \in BOOLEAN, NEW b \in SignBatches,
               SignCombine(h, o, b)
        PROVE  EEStep
    BY <2>0, <2>6, RejectEE, ReleaseEE DEF SignCombine
  <2>7. CASE SignNullHandleCall
    BY <2>0, <2>7, RejectEE DEF SignNullHandleCall
  <2>8. ASSUME NEW k \in Shares, ShareEnv(k)
        PROVE  EEStep
    BY <2>0, <2>8, NotEngineEE DEF ShareEnv
  <2>9. QED
    BY <2>1, <2>2, <2>3, <2>4, <2>5, <2>6, <2>7, <2>8 DEF Next
<1>2. QED
  BY <1>1, SignTypeCorrect, PTL DEF Spec, EngineErrorTerminal, EEStep, EngineErrors

-----------------------------------------------------------------------------
(* A live session only moves forward. *)

(* The step formula inside SignRoundMonotone. *)
SRMStep ==
    \A h \in SignHandles :
        tmem[h] = "live" /\ tmem'[h] = "live" => tround'[h] \in SignAllowed(tround[h])

LEMMA SignAllowedReflexive ==
    ASSUME NEW r PROVE r \in SignAllowed(r)
BY DEF SignAllowed

(* A step that leaves tmem and tround as they were. *)
LEMMA FrameSRM ==
    ASSUME UNCHANGED <<tmem, tround>>
    PROVE  SRMStep
BY SignAllowedReflexive DEF SRMStep

LEMMA PanicSRM ==
    ASSUME NEW op, NEW a, SignPanic(op, a)
    PROVE  SRMStep
BY FrameSRM DEF SignPanic, signVars

LEMMA RejectSRM ==
    ASSUME NEW op, NEW a, NEW t, SignReject(op, a, t)
    PROVE  SRMStep
BY FrameSRM DEF SignReject, signVars

(* A step that changes the round of h alone, to one SignAllowed admits. *)
LEMMA OneRoundSRM ==
    ASSUME TypeOK, NEW h \in SignHandles, NEW r,
           tround' = [tround EXCEPT ![h] = r], r \in SignAllowed(tround[h]),
           UNCHANGED tmem
    PROVE  SRMStep
BY SignAllowedReflexive DEF SRMStep, TypeOK

(* A newly allocated session was free before the call. *)
LEMMA AllocSRM ==
    ASSUME TypeOK, NEW h \in SignHandles, tmem[h] = "free",
           tmem' = [tmem EXCEPT ![h] = "live"],
           tround' = [tround EXCEPT ![h] = "Init"]
    PROVE  SRMStep
BY SignAllowedReflexive DEF SRMStep, TypeOK

(* A released session is no longer live. *)
LEMMA ReleaseSRM ==
    ASSUME TypeOK, NEW h \in SignHandles, NEW t, SignRelease(h, t)
    PROVE  SRMStep
BY SignAllowedReflexive DEF SRMStep, SignRelease, TypeOK

(* One engine round from r towards nx stays within SignAllowed(r). *)
LEMMA AdvanceSRM ==
    ASSUME TypeOK, NEW h \in SignHandles, NEW b, NEW nx, NEW df,
           SignAdvance(h, b, nx, df),
           \/ tround[h] = "WaitMsg1" /\ nx = "WaitMsg2"
           \/ tround[h] = "WaitMsg2" /\ nx = "WaitMsg3"
           \/ tround[h] = "WaitMsg3" /\ nx = "Pre"
    PROVE  SRMStep
<1>1. (IF b = "valid" THEN nx
       ELSE IF b = "malformed" /\ ~df THEN tround[h] ELSE "Failed")
          \in SignAllowed(tround[h])
  BY DEF SignAllowed
<1>2. QED
  BY <1>1, OneRoundSRM DEF SignAdvance

(* While a sign session stays allocated, every call moves it at most one *)
(* round forward along Init, WaitMsg1, WaitMsg2, WaitMsg3, Pre, WaitMsg4, *)
(* or from a message round to Failed: last_message's std::mem::replace   *)
(* never leaves Finished behind in a live session, and no round is ever  *)
(* re-entered.                                                            *)
THEOREM SignRoundMonotoneHolds == Spec => SignRoundMonotone
<1>1. TypeOK /\ [Next]_vars => [SRMStep]_vars
  <2> SUFFICES ASSUME TypeOK, Next PROVE SRMStep
    OBVIOUS
  <2>1. ASSUME NEW h \in SignHandles, NEW k \in Shares \cup {NoHandle}, NEW p \in Paths,
               NEW s \in SeedLens, NEW ok \in BOOLEAN, SignNew(h, k, p, s, ok)
        PROVE  SRMStep
    BY <2>1, PanicSRM, RejectSRM, AllocSRM DEF SignNew
  <2>2. ASSUME NEW h \in SignHandles, SignCreateFirstMessage(h)
        PROVE  SRMStep
    <3>1. CASE tround[h] = "Init"
      BY <2>2, <3>1, RejectSRM, OneRoundSRM DEF SignCreateFirstMessage, SignAllowed
    <3>2. CASE tround[h] # "Init"
      BY <2>2, <3>2, RejectSRM DEF SignCreateFirstMessage
    <3>3. QED
      BY <3>1, <3>2
  <2>3. ASSUME NEW h \in SignHandles, SignFree(h)
        PROVE  SRMStep
    BY <2>3, SignAllowedReflexive DEF SignFree, SRMStep, TypeOK
  <2>4. ASSUME NEW h \in SignHandles, NEW b \in SignBatches, NEW s \in SeedLens,
               SignHandleMessages(h, b, s)
        PROVE  SRMStep
    BY <2>4, PanicSRM, RejectSRM, AdvanceSRM DEF SignHandleMessages
  <2>5. ASSUME NEW h \in SignHandles, NEW l \in HashLens, NEW d \in Digests,
               SignLastMessage(h, l, d)
        PROVE  SRMStep
    <3>1. CASE l = 32 /\ tround[h] = "Pre"
      BY <2>5, <3>1, OneRoundSRM DEF SignLastMessage, SignAllowed
    <3>2. CASE ~(l = 32 /\ tround[h] = "Pre")
      BY <2>5, <3>2, RejectSRM DEF SignLastMessage
    <3>3. QED
      BY <3>1, <3>2
  <2>6. ASSUME NEW h \in SignHandles, NEW o \in BOOLEAN, NEW b \in SignBatches,
               SignCombine(h, o, b)
        PROVE  SRMStep
    BY <2>6, RejectSRM, ReleaseSRM DEF SignCombine
  <2>7. CASE SignNullHandleCall
    BY <2>7, RejectSRM DEF SignNullHandleCall
  <2>8. ASSUME NEW k \in Shares, ShareEnv(k)
        PROVE  SRMStep
    BY <2>8, FrameSRM DEF ShareEnv, signVars
  <2>9. QED
    BY <2>1, <2>2, <2>3, <2>4, <2>5, <2>6, <2>7, <2>8 DEF Next
<1>2. QED
  BY <1>1, SignTypeCorrect, PTL DEF Spec, SignRoundMonotone, SRMStep

=============================================================================
