----------------------- MODULE KeygenActions_proofs -----------------------
(***************************************************************************)
(* Proofs of the action properties of KeygenSession: what one call may do  *)
(* to the round of a live session, and what a call that reports a          *)
(* boundary-validation error may change.  Each is the box of a step        *)
(* formula; the step formula is shown to follow from TypeOK and one step  *)
(* of Next, action by action, and TypeCorrect lifts it to behaviours.     *)
(***************************************************************************)
EXTENDS KeygenSession_proofs

-----------------------------------------------------------------------------
(* Round monotonicity. *)

(* The step formula inside RoundMonotone. *)
RMStep ==
    \A h \in Handles :
        kmem[h] = "live" /\ kmem'[h] = "live" => round'[h] \in AllowedRounds(round[h])

(* Staying in the same round is always allowed. *)
LEMMA AllowedReflexive ==
    ASSUME NEW r
    PROVE  r \in AllowedRounds(r)
BY DEF AllowedRounds

(* A step that changes neither the heap nor any round satisfies RMStep. *)
LEMMA FrameRM ==
    ASSUME UNCHANGED <<kmem, round>>
    PROVE  RMStep
BY AllowedReflexive DEF RMStep

LEMMA PanicRM ==
    ASSUME NEW op, NEW a, Panic(op, a)
    PROVE  RMStep
BY FrameRM DEF Panic, sessionVars

LEMMA RejectRM ==
    ASSUME NEW op, NEW a, NEW t, Reject(op, a, t)
    PROVE  RMStep
BY FrameRM DEF Reject, sessionVars

(* Boxing a session at a free address: the address was not live, and  *)
(* every other session is untouched.                                  *)
LEMMA AllocRM ==
    ASSUME TypeOK, NEW op, NEW h \in Handles, NEW p, kmem[h] = "free", Allocate(op, h, p)
    PROVE  RMStep
<1> SUFFICES ASSUME NEW x \in Handles, kmem[x] = "live"
             PROVE  round'[x] = round[x]
  BY AllowedReflexive DEF RMStep
<1>1. x # h
  OBVIOUS
<1>2. QED
  BY <1>1 DEF Allocate, TypeOK

(* One engine round from a WaitMsg round: the session stays, moves to  *)
(* the next round, or fails.                                           *)
LEMMA AdvanceRM ==
    ASSUME TypeOK, NEW h \in Handles, round[h] \in DOMAIN Succ,
           NEW b, NEW df, NEW c, Advance(h, b, Succ[round[h]], df, c)
    PROVE  RMStep
<1> SUFFICES ASSUME NEW x \in Handles
             PROVE  round'[x] \in AllowedRounds(round[x])
  BY DEF RMStep
<1>1. CASE x = h
  <2>1. round'[h] = RoundAfter(round[h], b, Succ[round[h]], df)
    BY DEF Advance, TypeOK
  <2>2. RoundAfter(round[h], b, Succ[round[h]], df) \in {round[h], Succ[round[h]], "Failed"}
    BY DEF RoundAfter
  <2>3. QED
    BY <1>1, <2>1, <2>2 DEF AllowedRounds
<1>2. CASE x # h
  BY <1>2, AllowedReflexive DEF Advance, TypeOK
<1>3. QED
  BY <1>1, <1>2

(* The keygen session is freed at h; no round other than h's changes. *)
LEMMA ReleaseRM ==
    ASSUME TypeOK, NEW h \in Handles,
           kmem' = [kmem EXCEPT ![h] = "free"],
           \A x \in Handles \ {h} : round'[x] = round[x]
    PROVE  RMStep
<1> SUFFICES ASSUME NEW x \in Handles, kmem'[x] = "live"
             PROVE  round'[x] \in AllowedRounds(round[x])
  BY DEF RMStep
<1>1. x # h
  BY DEF TypeOK
<1>2. QED
  BY <1>1, AllowedReflexive

(* A live session's round only moves forward, one round at a time or to *)
(* Failed, under every call: create_first_message, handle_messages in   *)
(* each round, keyshare and free (which release it), and every error    *)
(* path that returns before the round is touched.                       *)
THEOREM RoundMonotoneHolds == Spec => RoundMonotone
<1>1. TypeOK /\ [Next]_vars => [RMStep]_vars
  <2> SUFFICES ASSUME TypeOK, [Next]_vars PROVE RMStep
    BY DEF RMStep
  <2>1. ASSUME NEW h \in Handles, NEW p \in Participants, NEW s \in SeedLens,
               KeygenNew(h, p, s)
        PROVE  RMStep
    BY <2>1, PanicRM, AllocRM DEF KeygenNew
  <2>2. ASSUME NEW h \in Handles, NEW k \in Shares \cup {NoHandle}, NEW s \in SeedLens,
               NEW ok \in BOOLEAN, NEW op, InitFromShare(op, h, k, s, ok)
        PROVE  RMStep
    BY <2>2, PanicRM, RejectRM, AllocRM DEF InitFromShare
  <2>3. ASSUME NEW h \in Handles, NEW p \in Participants, NEW l \in PkLens,
               NEW v \in BOOLEAN, NEW s \in SeedLens, NEW ok \in BOOLEAN,
               KeygenInitLostShareRecovery(h, p, l, v, s, ok)
        PROVE  RMStep
    BY <2>3, PanicRM, RejectRM, AllocRM DEF KeygenInitLostShareRecovery
  <2>4. ASSUME NEW h \in Handles, KeygenCreateFirstMessage(h)
        PROVE  RMStep
    <3>1. CASE round[h] = "Init" /\ round' = [round EXCEPT ![h] = "WaitMsg1"]
                                 /\ UNCHANGED kmem
      <4> SUFFICES ASSUME NEW x \in Handles
                   PROVE  round'[x] \in AllowedRounds(round[x])
        BY DEF RMStep
      <4>1. CASE x = h
        BY <3>1, <4>1 DEF TypeOK, AllowedRounds, Succ
      <4>2. CASE x # h
        BY <3>1, <4>2, AllowedReflexive DEF TypeOK
      <4>3. QED
        BY <4>1, <4>2
    <3>2. QED
      BY <2>4, <3>1, RejectRM DEF KeygenCreateFirstMessage
  <2>5. ASSUME NEW h \in Handles, NEW b \in Batches, NEW c \in CommitLens,
               NEW s \in SeedLens, KeygenHandleMessages(h, b, c, s)
        PROVE  RMStep
    <3>1. "WaitMsg1" \in DOMAIN Succ /\ "WaitMsg2" \in DOMAIN Succ
          /\ "WaitMsg3" \in DOMAIN Succ /\ "WaitMsg4" \in DOMAIN Succ
      BY DEF Succ
    <3>2. QED
      BY <2>5, <3>1, PanicRM, RejectRM, AdvanceRM DEF KeygenHandleMessages
  <2>6. ASSUME NEW h \in Handles, NEW k \in Shares, KeygenKeyshare(h, k)
        PROVE  RMStep
    <3>1. CASE round[h] = "Failed" /\ UNCHANGED <<kmem, round>>
      BY <3>1, FrameRM
    <3>2. CASE /\ kmem' = [kmem EXCEPT ![h] = "free"]
               /\ round' = [round EXCEPT ![h] = "Failed"]
      <4>1. \A x \in Handles \ {h} : round'[x] = round[x]
        BY <3>2 DEF TypeOK
      <4>2. QED
        BY <3>2, <4>1, ReleaseRM
    <3>3. QED
      BY <2>6, <3>1, <3>2 DEF KeygenKeyshare
  <2>7. ASSUME NEW h \in Handles, KeygenFree(h)
        PROVE  RMStep
    BY <2>7, ReleaseRM DEF KeygenFree
  <2>8. ASSUME NEW k \in Shares, NEW p \in Participants, NEW d \in BOOLEAN,
               KeyshareFromBytes(k, p, d)
        PROVE  RMStep
    BY <2>8, FrameRM DEF KeyshareFromBytes, sessionVars
  <2>9. ASSUME NEW k \in Shares, KeyshareFree(k)
        PROVE  RMStep
    BY <2>9, FrameRM DEF KeyshareFree, sessionVars
  <2>10. CASE NullHandleCall
    BY <2>10, RejectRM DEF NullHandleCall
  <2>11. CASE KeyshareFromNullBytes
    BY <2>11, PanicRM, RejectRM DEF KeyshareFromNullBytes
  <2>12. CASE UNCHANGED vars
    BY <2>12, FrameRM DEF vars
  <2>13. QED
    BY <2>1, <2>2, <2>3, <2>4, <2>5, <2>6, <2>7, <2>8, <2>9, <2>10, <2>11, <2>12
       DEF Next, KeygenInitKeyRotation, KeygenInitKeyRecovery
<1>2. QED
  BY <1>1, TypeCorrect, PTL DEF Spec, RoundMonotone, RMStep

-----------------------------------------------------------------------------
(* Boundary errors preserve the sessions. *)

(* The step formula inside BoundaryErrorsPreserve. *)
BEStep == err' \in BoundaryErrors => UNCHANGED <<kmem, round>>

(* A call that reports success, an engine or decode error, or           *)
(* "keygen-in-progress" reports none of the boundary errors.            *)
LEMMA NotBoundaryBE ==
    ASSUME err' \in {"none", "keygen error", "decode error", "keygen-in-progress"}
    PROVE  BEStep
BY DEF BEStep, BoundaryErrors

LEMMA FrameBE ==
    ASSUME UNCHANGED <<kmem, round>>
    PROVE  BEStep
BY DEF BEStep

LEMMA PanicBE ==
    ASSUME NEW op, NEW a, Panic(op, a)
    PROVE  BEStep
BY FrameBE DEF Panic, sessionVars

LEMMA RejectBE ==
    ASSUME NEW op, NEW a, NEW t, Reject(op, a, t)
    PROVE  BEStep
BY FrameBE DEF Reject, sessionVars

LEMMA AllocBE ==
    ASSUME NEW op, NEW h, NEW p, Allocate(op, h, p)
    PROVE  BEStep
BY NotBoundaryBE DEF Allocate

LEMMA AdvanceBE ==
    ASSUME NEW h, NEW b, NEW nx, NEW df, NEW c, Advance(h, b, nx, df, c)
    PROVE  BEStep
BY NotBoundaryBE DEF Advance, ErrAfter

(* Every error that the wrapper raises before the engine is involved    *)
(* (null pointers, wrong lengths, invalid points, wrong rounds, failed  *)
(* sessions) comes from an early return that has not yet touched any    *)
(* session: the heap and all rounds are as before the call.             *)
THEOREM BoundaryErrorsPreserveHolds == Spec => BoundaryErrorsPreserve
<1>1. [Next]_vars => [BEStep]_vars
  <2> SUFFICES ASSUME [Next]_vars PROVE BEStep
    BY DEF BEStep
  <2>1. ASSUME NEW h \in Handles, NEW p \in Participants, NEW s \in SeedLens,
               KeygenNew(h, p, s)
        PROVE  BEStep
    BY <2>1, PanicBE, AllocBE DEF KeygenNew
  <2>2. ASSUME NEW h \in Handles, NEW k \in Shares \cup {NoHandle}, NEW s \in SeedLens,
               NEW ok \in BOOLEAN, NEW op, InitFromShare(op, h, k, s, ok)
        PROVE  BEStep
    BY <2>2, PanicBE, RejectBE, AllocBE DEF InitFromShare
  <2>3. ASSUME NEW h \in Handles, NEW p \in Participants, NEW l \in PkLens,
               NEW v \in BOOLEAN, NEW s \in SeedLens, NEW ok \in BOOLEAN,
               KeygenInitLostShareRecovery(h, p, l, v, s, ok)
        PROVE  BEStep
    BY <2>3, PanicBE, RejectBE, AllocBE DEF KeygenInitLostShareRecovery
  <2>4. ASSUME NEW h \in Handles, KeygenCreateFirstMessage(h)
        PROVE  BEStep
    BY <2>4, RejectBE, NotBoundaryBE DEF KeygenCreateFirstMessage
  <2>5. ASSUME NEW h \in Handles, NEW b \in Batches, NEW c \in CommitLens,
               NEW s \in SeedLens, KeygenHandleMessages(h, b, c, s)
        PROVE  BEStep
    BY <2>5, PanicBE, RejectBE, AdvanceBE DEF KeygenHandleMessages
  <2>6. ASSUME NEW h \in Handles, NEW k \in Shares, KeygenKeyshare(h, k)
        PROVE  BEStep
    BY <2>6, FrameBE, NotBoundaryBE DEF KeygenKeyshare
  <2>7. ASSUME NEW h \in Handles, KeygenFree(h)
        PROVE  BEStep
    BY <2>7, NotBoundaryBE DEF KeygenFree
  <2>8. ASSUME NEW k \in Shares, NEW p \in Participants, NEW d \in BOOLEAN,
               KeyshareFromBytes(k, p, d)
        PROVE  BEStep
    BY <2>8, NotBoundaryBE DEF KeyshareFromBytes
  <2>9. ASSUME NEW k \in Shares, KeyshareFree(k)
        PROVE  BEStep
    BY <2>9, NotBoundaryBE DEF KeyshareFree
  <2>10. CASE NullHandleCall
    BY <2>10, RejectBE DEF NullHandleCall
  <2>11. CASE KeyshareFromNullBytes
    BY <2>11, PanicBE, RejectBE DEF KeyshareFromNullBytes
  <2>12. CASE UNCHANGED vars
    BY <2>12, FrameBE DEF vars
  <2>13. QED
    BY <2>1, <2>2, <2>3, <2>4, <2>5, <2>6, <2>7, <2>8, <2>9, <2>10, <2>11, <2>12
       DEF Next, KeygenInitKeyRotation, KeygenInitKeyRecovery
<1>2. QED
  BY <1>1, PTL DEF Spec, BoundaryErrorsPreserve, BEStep

=============================================================================
