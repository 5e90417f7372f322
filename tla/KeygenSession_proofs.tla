----------------------- MODULE KeygenSession_proofs -----------------------
(***************************************************************************)
(* Proofs about KeygenSession for every value of its constants: the type  *)
(* invariant, and the agreement between the host's pointers and the heap. *)
(***************************************************************************)
EXTENDS KeygenSession, TLAPS

(* The addresses an entry point may be called on. *)
Addrs == Handles \cup Shares \cup {NoHandle}

-----------------------------------------------------------------------------
(* Type correctness, one lemma per primitive step the actions share.     *)

(* An abort leaves the heap, the host and err_out alone. *)
LEMMA PanicType ==
    ASSUME TypeOK, NEW op \in Ops, NEW a \in Addrs, Panic(op, a)
    PROVE  TypeOK'
BY DEF TypeOK, Panic, Ops, Errors, Rounds, Addrs, sessionVars, shareVars, hostVars

(* An early return writes one of the error texts and nothing else. *)
LEMMA RejectType ==
    ASSUME TypeOK, NEW op \in Ops, NEW a \in Addrs, NEW t \in Errors, Reject(op, a, t)
    PROVE  TypeOK'
BY DEF TypeOK, Reject, Ops, Errors, Rounds, Addrs, sessionVars, shareVars, hostVars

(* Boxing a new session at a handle address. *)
LEMMA AllocType ==
    ASSUME TypeOK, NEW op \in Ops, NEW h \in Handles, NEW p \in 0..255, Allocate(op, h, p)
    PROVE  TypeOK'
BY DEF TypeOK, Allocate, Ops, Errors, Rounds, shareVars

(* One engine round leaves the session in a round of the enum. *)
LEMMA AdvanceType ==
    ASSUME TypeOK, NEW h \in Handles, NEW b \in Batches, NEW nx \in Rounds,
           NEW f \in BOOLEAN, NEW cl \in Nat, Advance(h, b, nx, f, cl)
    PROVE  TypeOK'
<1>1. RoundAfter(round[h], b, nx, f) \in Rounds
  BY DEF TypeOK, RoundAfter, Rounds
<1>2. ErrAfter(b) \in Errors
  BY DEF ErrAfter, Errors
<1>3. QED
  BY <1>1, <1>2 DEF TypeOK, Advance, Ops, shareVars, hostVars

(* The successor of every waiting round is a round. *)
LEMMA SuccType ==
    ASSUME NEW r \in {"WaitMsg1", "WaitMsg2", "WaitMsg3", "WaitMsg4"}
    PROVE  Succ[r] \in Rounds
BY DEF Succ, Rounds

(* TypeOK holds in every state of every behaviour of Spec. *)
THEOREM TypeCorrect == Spec => []TypeOK
<1>1. Init => TypeOK
  BY ConstAssumption DEF Init, TypeOK, Ops, Errors, Rounds
<1>2. TypeOK /\ [Next]_vars => TypeOK'
  <2> SUFFICES ASSUME TypeOK, [Next]_vars PROVE TypeOK'
    OBVIOUS
  <2>0. /\ Participants \subseteq 0..255
        /\ Handles \subseteq Addrs /\ Shares \subseteq Addrs /\ NoHandle \in Addrs
    BY ConstAssumption DEF Addrs
  <2>1. ASSUME NEW h \in Handles, NEW p \in Participants, NEW s \in SeedLens,
               KeygenNew(h, p, s)
        PROVE  TypeOK'
    BY <2>0, <2>1, PanicType, AllocType DEF KeygenNew, Ops
  <2>2. ASSUME NEW h \in Handles, NEW k \in Shares \cup {NoHandle}, NEW s \in SeedLens,
               NEW ok \in BOOLEAN, NEW op \in {"rotation", "recovery"},
               InitFromShare(op, h, k, s, ok)
        PROVE  TypeOK'
    <3>1. CASE k = NoHandle
      BY <2>0, <2>2, <3>1, RejectType DEF InitFromShare, Ops, Errors
    <3>2. CASE k # NoHandle
      <4>1. shareN[k] \in 0..255 /\ op \in Ops /\ "keygen error" \in Errors
        BY <3>2 DEF TypeOK, Ops, Errors
      <4>2. QED
        BY <2>0, <2>2, <3>2, <4>1, PanicType, RejectType, AllocType DEF InitFromShare
    <3>3. QED
      BY <3>1, <3>2
  <2>3. ASSUME NEW h \in Handles, NEW p \in Participants, NEW l \in PkLens,
               NEW v \in BOOLEAN, NEW s \in SeedLens, NEW ok \in BOOLEAN,
               KeygenInitLostShareRecovery(h, p, l, v, s, ok)
        PROVE  TypeOK'
    BY <2>0, <2>3, PanicType, RejectType, AllocType
       DEF KeygenInitLostShareRecovery, Ops, Errors
  <2>4. ASSUME NEW h \in Handles, KeygenCreateFirstMessage(h)
        PROVE  TypeOK'
    <3>1. CASE round[h] = "Init"
      <4>1. round' \in [Handles -> Rounds]
        BY <2>4, <3>1 DEF KeygenCreateFirstMessage, TypeOK, Rounds
      <4>2. lastOp' \in [op : Ops, h : Handles \cup Shares \cup {NoHandle}]
        BY <2>4, <3>1 DEF KeygenCreateFirstMessage, Ops
      <4>3. err' \in Errors
        BY <2>4, <3>1 DEF KeygenCreateFirstMessage, Errors
      <4>4. QED
        BY <2>4, <3>1, <4>1, <4>2, <4>3 DEF KeygenCreateFirstMessage, TypeOK,
                                           shareVars, hostVars
    <3>2. CASE round[h] # "Init"
      BY <2>0, <2>4, <3>2, RejectType DEF KeygenCreateFirstMessage, Ops, Errors
    <3>3. QED
      BY <3>1, <3>2
  <2>5. ASSUME NEW h \in Handles, KeygenFree(h)
        PROVE  TypeOK'
    BY <2>5 DEF KeygenFree, TypeOK, Ops, Errors, shareVars
  <2>6. ASSUME NEW h \in Handles, NEW b \in Batches, NEW c \in CommitLens,
               NEW s \in SeedLens, KeygenHandleMessages(h, b, c, s)
        PROVE  TypeOK'
    <3>1. round[h] \in {"WaitMsg1", "WaitMsg2", "WaitMsg3", "WaitMsg4"}
            => Succ[round[h]] \in Rounds
      BY SuccType
    <3>2. c \in Nat /\ commitLen[h] \in Nat
      BY ConstAssumption DEF TypeOK
    <3>3. QED
      BY <2>0, <2>6, <3>1, <3>2, PanicType, RejectType, AdvanceType
         DEF KeygenHandleMessages, Ops, Errors
  <2>7. ASSUME NEW h \in Handles, NEW k \in Shares, KeygenKeyshare(h, k)
        PROVE  TypeOK'
    <3>1. lastOp' \in [op : Ops, h : Handles \cup Shares \cup {NoHandle}]
      BY <2>7 DEF KeygenKeyshare, Ops
    <3>2. err' \in Errors
      BY <2>7 DEF KeygenKeyshare, Errors
    <3>3. round' \in [Handles -> Rounds]
      BY <2>7 DEF KeygenKeyshare, TypeOK, Rounds
    <3>4. /\ kmem' \in [Handles -> {"free", "live"}]
          /\ smem' \in [Shares -> {"free", "live"}]
          /\ shareN' \in [Shares -> 0..255]
          /\ owned' \subseteq Handles
          /\ ownedShares' \subseteq Shares
      BY <2>7 DEF KeygenKeyshare, TypeOK, shareVars, hostVars
    <3>5. QED
      BY <2>7, <3>1, <3>2, <3>3, <3>4 DEF KeygenKeyshare, TypeOK
  <2>8. ASSUME NEW k \in Shares, NEW p \in Participants, NEW d \in BOOLEAN,
               KeyshareFromBytes(k, p, d)
        PROVE  TypeOK'
    BY <2>0, <2>8 DEF KeyshareFromBytes, TypeOK, Ops, Errors, sessionVars
  <2>9. ASSUME NEW k \in Shares, KeyshareFree(k)
        PROVE  TypeOK'
    BY <2>9 DEF KeyshareFree, TypeOK, Ops, Errors, sessionVars
  <2>10. CASE NullHandleCall
    BY <2>0, <2>10, RejectType DEF NullHandleCall, Ops, Errors
  <2>11. CASE UNCHANGED vars
    BY <2>11 DEF vars, TypeOK
  <2>13. CASE KeyshareFromNullBytes
    <3>1. "share_from_bytes" \in Ops /\ NoHandle \in Addrs /\ "none" \in Errors
      BY DEF Ops, Addrs, Errors
    <3>2. QED
      BY <2>0, <2>13, <3>1, PanicType, RejectType DEF KeyshareFromNullBytes
  <2>12. QED
    BY <2>1, <2>2, <2>3, <2>4, <2>5, <2>6, <2>7, <2>8, <2>9, <2>10, <2>11, <2>13
       DEF Next, KeygenInitKeyRotation, KeygenInitKeyRecovery
<1>3. QED
  BY <1>1, <1>2, PTL DEF Spec

-----------------------------------------------------------------------------
(* Ownership agreement.  It is inductive together with TypeOK: every      *)
(* allocation targets a free address the host cannot hold, and every     *)
(* release removes the address from the host's set in the same call.     *)

OInv == TypeOK /\ OwnershipAgreement

(* Steps that leave the heap and the host's pointers alone. *)
LEMMA FrameAgree ==
    ASSUME OwnershipAgreement, UNCHANGED <<kmem, smem, owned, ownedShares>>
    PROVE  OwnershipAgreement'
BY DEF OwnershipAgreement

LEMMA PanicAgree ==
    ASSUME OwnershipAgreement, NEW op, NEW a, Panic(op, a)
    PROVE  OwnershipAgreement'
BY FrameAgree DEF Panic, sessionVars, shareVars, hostVars

LEMMA RejectAgree ==
    ASSUME OwnershipAgreement, NEW op, NEW a, NEW t, Reject(op, a, t)
    PROVE  OwnershipAgreement'
BY FrameAgree DEF Reject, sessionVars, shareVars, hostVars

LEMMA AdvanceAgree ==
    ASSUME OwnershipAgreement, NEW h, NEW b, NEW nx, NEW f, NEW cl,
           Advance(h, b, nx, f, cl)
    PROVE  OwnershipAgreement'
BY FrameAgree DEF Advance, shareVars, hostVars

(* Boxing a session at a free address hands exactly that pointer over. *)
LEMMA AllocAgree ==
    ASSUME TypeOK, OwnershipAgreement, NEW op, NEW h \in Handles, NEW p,
           kmem[h] = "free", Allocate(op, h, p)
    PROVE  OwnershipAgreement'
BY DEF TypeOK, OwnershipAgreement, Allocate, shareVars

(* The host's pointers agree with the heap in every reachable state. *)
THEOREM OwnershipAgreementHolds == Spec => []OwnershipAgreement
<1>1. Init => OInv
  BY ConstAssumption DEF Init, OInv, TypeOK, OwnershipAgreement, Ops, Errors, Rounds
<1>2. OInv /\ [Next]_vars => OwnershipAgreement'
  <2> SUFFICES ASSUME TypeOK, OwnershipAgreement, [Next]_vars
               PROVE  OwnershipAgreement'
    BY DEF OInv
  <2>1. ASSUME NEW h \in Handles, NEW p \in Participants, NEW s \in SeedLens,
               KeygenNew(h, p, s)
        PROVE  OwnershipAgreement'
    BY <2>1, PanicAgree, AllocAgree DEF KeygenNew
  <2>2. ASSUME NEW h \in Handles, NEW k \in Shares \cup {NoHandle}, NEW s \in SeedLens,
               NEW ok \in BOOLEAN, NEW op \in {"rotation", "recovery"},
               InitFromShare(op, h, k, s, ok)
        PROVE  OwnershipAgreement'
    BY <2>2, PanicAgree, RejectAgree, AllocAgree DEF InitFromShare
  <2>3. ASSUME NEW h \in Handles, NEW p \in Participants, NEW l \in PkLens,
               NEW v \in BOOLEAN, NEW s \in SeedLens, NEW ok \in BOOLEAN,
               KeygenInitLostShareRecovery(h, p, l, v, s, ok)
        PROVE  OwnershipAgreement'
    BY <2>3, PanicAgree, RejectAgree, AllocAgree DEF KeygenInitLostShareRecovery
  <2>4. ASSUME NEW h \in Handles, KeygenCreateFirstMessage(h)
        PROVE  OwnershipAgreement'
    BY <2>4, FrameAgree, RejectAgree DEF KeygenCreateFirstMessage, shareVars, hostVars
  <2>5. ASSUME NEW h \in Handles, KeygenFree(h)
        PROVE  OwnershipAgreement'
    BY <2>5 DEF KeygenFree, TypeOK, OwnershipAgreement, shareVars
  <2>6. ASSUME NEW h \in Handles, NEW b \in Batches, NEW c \in CommitLens,
               NEW s \in SeedLens, KeygenHandleMessages(h, b, c, s)
        PROVE  OwnershipAgreement'
    BY <2>6, PanicAgree, RejectAgree, AdvanceAgree DEF KeygenHandleMessages
  <2>7. ASSUME NEW h \in Handles, NEW k \in Shares, KeygenKeyshare(h, k)
        PROVE  OwnershipAgreement'
    <3>1. CASE round[h] = "Share"
      BY <2>7, <3>1 DEF KeygenKeyshare, TypeOK, OwnershipAgreement
    <3>2. CASE round[h] = "Failed"
      BY <2>7, <3>2, FrameAgree DEF KeygenKeyshare, shareVars, hostVars
    <3>3. CASE round[h] \notin {"Share", "Failed"}
      BY <2>7, <3>3 DEF KeygenKeyshare, TypeOK, OwnershipAgreement, shareVars
    <3>4. QED
      BY <3>1, <3>2, <3>3
  <2>8. ASSUME NEW k \in Shares, NEW p \in Participants, NEW d \in BOOLEAN,
               KeyshareFromBytes(k, p, d)
        PROVE  OwnershipAgreement'
    BY <2>8 DEF KeyshareFromBytes, TypeOK, OwnershipAgreement, sessionVars
  <2>9. ASSUME NEW k \in Shares, KeyshareFree(k)
        PROVE  OwnershipAgreement'
    BY <2>9 DEF KeyshareFree, TypeOK, OwnershipAgreement, sessionVars
  <2>10. CASE NullHandleCall
    BY <2>10, RejectAgree DEF NullHandleCall
  <2>11. CASE UNCHANGED vars
    BY <2>11, FrameAgree DEF vars
  <2>13. CASE KeyshareFromNullBytes
    BY <2>13, PanicAgree, RejectAgree DEF KeyshareFromNullBytes
  <2>12. QED
    BY <2>1, <2>2, <2>3, <2>4, <2>5, <2>6, <2>7, <2>8, <2>9, <2>10, <2>11, <2>13
       DEF Next, KeygenInitKeyRotation, KeygenInitKeyRecovery
<1>3. QED
  BY <1>1, <1>2, TypeCorrect, PTL DEF Spec, OInv

-----------------------------------------------------------------------------
(* Round-3 commitments.  Inductive together with TypeOK: the only step    *)
(* that enters WaitMsg4 is a WaitMsg3 call that passed the length check  *)
(* and stored that length; later steps keep n and commitLen; Allocate    *)
(* restarts a reused address at Init.                                    *)

CInv == TypeOK /\ Round3Commitments

LEMMA FrameCommit ==
    ASSUME Round3Commitments, UNCHANGED <<kmem, round, n, commitLen>>
    PROVE  Round3Commitments'
BY DEF Round3Commitments

LEMMA PanicCommit ==
    ASSUME Round3Commitments, NEW op, NEW a, Panic(op, a)
    PROVE  Round3Commitments'
BY FrameCommit DEF Panic, sessionVars

LEMMA RejectCommit ==
    ASSUME Round3Commitments, NEW op, NEW a, NEW t, Reject(op, a, t)
    PROVE  Round3Commitments'
BY FrameCommit DEF Reject, sessionVars

LEMMA AllocCommit ==
    ASSUME TypeOK, Round3Commitments, NEW op, NEW h \in Handles, NEW p, Allocate(op, h, p)
    PROVE  Round3Commitments'
BY DEF TypeOK, Round3Commitments, Allocate

(* A round call that enters WaitMsg4 or Share stores a matching length, *)
(* or starts from a round where the length already matched.            *)
LEMMA AdvanceCommit ==
    ASSUME TypeOK, Round3Commitments, NEW h \in Handles, NEW b \in Batches,
           NEW nx \in Rounds, NEW f \in BOOLEAN, NEW cl \in Nat,
           Advance(h, b, nx, f, cl),
           kmem[h] = "live" /\ nx \in {"WaitMsg4", "Share"} => cl = 32 * n[h],
           cl = commitLen[h] \/ nx = "WaitMsg4"
    PROVE  Round3Commitments'
<1>1. RoundAfter(round[h], b, nx, f) \in {round[h], nx, "Failed"}
  BY DEF RoundAfter
<1>2. QED
  BY <1>1 DEF TypeOK, Round3Commitments, Advance
(* Every session past round 3 holds one 32-byte commitment per party. *)
THEOREM Round3CommitmentsHolds == Spec => []Round3Commitments
<1>1. Init => CInv
  BY ConstAssumption DEF Init, CInv, TypeOK, Round3Commitments, Ops, Errors, Rounds
<1>2. CInv /\ [Next]_vars => Round3Commitments'
  <2> SUFFICES ASSUME TypeOK, Round3Commitments, [Next]_vars
               PROVE  Round3Commitments'
    BY DEF CInv
  <2>1. ASSUME NEW h \in Handles, NEW p \in Participants, NEW s \in SeedLens,
               KeygenNew(h, p, s)
        PROVE  Round3Commitments'
    BY <2>1, PanicCommit, AllocCommit DEF KeygenNew
  <2>2. ASSUME NEW h \in Handles, NEW k \in Shares \cup {NoHandle}, NEW s \in SeedLens,
               NEW ok \in BOOLEAN, NEW op \in {"rotation", "recovery"},
               InitFromShare(op, h, k, s, ok)
        PROVE  Round3Commitments'
    BY <2>2, PanicCommit, RejectCommit, AllocCommit DEF InitFromShare
  <2>3. ASSUME NEW h \in Handles, NEW p \in Participants, NEW l \in PkLens,
               NEW v \in BOOLEAN, NEW s \in SeedLens, NEW ok \in BOOLEAN,
               KeygenInitLostShareRecovery(h, p, l, v, s, ok)
        PROVE  Round3Commitments'
    BY <2>3, PanicCommit, RejectCommit, AllocCommit DEF KeygenInitLostShareRecovery
  <2>4. ASSUME NEW h \in Handles, KeygenCreateFirstMessage(h)
        PROVE  Round3Commitments'
    BY <2>4, RejectCommit DEF KeygenCreateFirstMessage, TypeOK, Round3Commitments
  <2>5. ASSUME NEW h \in Handles, KeygenFree(h)
        PROVE  Round3Commitments'
    BY <2>5 DEF KeygenFree, TypeOK, Round3Commitments
  <2>6. ASSUME NEW h \in Handles, NEW b \in Batches, NEW c \in CommitLens,
               NEW s \in SeedLens, KeygenHandleMessages(h, b, c, s)
        PROVE  Round3Commitments'
    <3> DEFINE W == {"WaitMsg1", "WaitMsg2", "WaitMsg3", "WaitMsg4"}
    <3>1. CASE RngPanics(s)
      BY <2>6, <3>1, PanicCommit DEF KeygenHandleMessages
    <3>2. CASE round[h] \in {"WaitMsg1", "WaitMsg2"} /\ ~RngPanics(s)
      <4>1. Succ[round[h]] \in {"WaitMsg2", "WaitMsg3"}
        BY <3>2 DEF Succ
      <4>2. Advance(h, b, Succ[round[h]], FALSE, commitLen[h])
        BY <2>6, <3>2 DEF KeygenHandleMessages
      <4>3. Succ[round[h]] \in Rounds /\ commitLen[h] \in Nat
        BY <4>1 DEF TypeOK, Rounds
      <4>4. QED
        BY <4>1, <4>2, <4>3, AdvanceCommit
    <3>3. CASE round[h] = "WaitMsg3" /\ ~RngPanics(s)
      <4>1. Succ[round[h]] = "WaitMsg4"
        BY <3>3 DEF Succ
      <4>2. \/ \E t \in Errors : Reject("handle", h, t)
            \/ c = n[h] * 32 /\ Advance(h, b, Succ[round[h]], FALSE, c)
        BY <2>6, <3>3 DEF KeygenHandleMessages, CommitmentsLenOk, Errors
      <4>8. n[h] \in 0..255
        BY DEF TypeOK
      <4>3. c \in Nat /\ n[h] \in Nat /\ n[h] * 32 = 32 * n[h]
        BY <4>8, ConstAssumption
      <4>4. Succ[round[h]] \in Rounds
        BY <4>1 DEF Rounds
      <4>5. CASE \E t \in Errors : Reject("handle", h, t)
        BY <4>5, RejectCommit
      <4>6. CASE c = n[h] * 32 /\ Advance(h, b, Succ[round[h]], FALSE, c)
        BY <4>1, <4>3, <4>4, <4>6, AdvanceCommit
      <4>7. QED
        BY <4>2, <4>5, <4>6
    <3>4. CASE round[h] = "WaitMsg4" /\ ~RngPanics(s)
      <4>1. Succ[round[h]] = "Share"
        BY <3>4 DEF Succ
      <4>2. kmem[h] = "live" => commitLen[h] = 32 * n[h]
        BY <3>4 DEF Round3Commitments
      <4>3. Advance(h, b, Succ[round[h]], TRUE, commitLen[h])
        BY <2>6, <3>4 DEF KeygenHandleMessages
      <4>4. Succ[round[h]] \in Rounds /\ commitLen[h] \in Nat
        BY <4>1 DEF TypeOK, Rounds
      <4>5. QED
        BY <4>1, <4>2, <4>3, <4>4, AdvanceCommit
    <3>5. CASE round[h] \notin W /\ ~RngPanics(s)
      BY <2>6, <3>5, RejectCommit DEF KeygenHandleMessages
    <3>6. QED
      BY <3>1, <3>2, <3>3, <3>4, <3>5
  <2>7. ASSUME NEW h \in Handles, NEW k \in Shares, KeygenKeyshare(h, k)
        PROVE  Round3Commitments'
    BY <2>7 DEF KeygenKeyshare, TypeOK, Round3Commitments
  <2>8. ASSUME NEW k \in Shares, NEW p \in Participants, NEW d \in BOOLEAN,
               KeyshareFromBytes(k, p, d)
        PROVE  Round3Commitments'
    BY <2>8, FrameCommit DEF KeyshareFromBytes, sessionVars
  <2>9. ASSUME NEW k \in Shares, KeyshareFree(k)
        PROVE  Round3Commitments'
    BY <2>9, FrameCommit DEF KeyshareFree, sessionVars
  <2>10. CASE NullHandleCall
    BY <2>10, RejectCommit DEF NullHandleCall
  <2>11. CASE UNCHANGED vars
    BY <2>11, FrameCommit DEF vars
  <2>13. CASE KeyshareFromNullBytes
    BY <2>13, PanicCommit, RejectCommit DEF KeyshareFromNullBytes
  <2>12. QED
    BY <2>1, <2>2, <2>3, <2>4, <2>5, <2>6, <2>7, <2>8, <2>9, <2>10, <2>11, <2>13
       DEF Next, KeygenInitKeyRotation, KeygenInitKeyRecovery
<1>3. QED
  BY <1>1, <1>2, TypeCorrect, PTL DEF Spec, CInv

-----------------------------------------------------------------------------
(* Refinement of the session lifecycle.  The mapping sends a session to  *)
(* the phase of its memory and round, and the host's session pointers to *)
(* held.  A step that leaves memory, round and those pointers alone is a *)
(* stutter, and so is a round change inside one phase (WaitMsg1 to       *)
(* WaitMsg4).  Allocation is Create, the first message Start, the round  *)
(* 4 success Complete, an engine or round-4 decode failure Abort, and    *)
(* free and keyshare (except on a Failed session) Release; the ownership *)
(* agreement gives the lifecycle's guards on held.                       *)

(* The phase function the refinement mapping gives. *)
KPh == [h \in Handles |-> KeygenPhaseOf(kmem[h], round[h])]

LEMMA KLCStutter ==
    ASSUME UNCHANGED <<kmem, round, owned>>
    PROVE  UNCHANGED KeygenLC!lcVars
BY DEF KeygenLC!lcVars

LEMMA KLCUpdate ==
    ASSUME TypeOK, NEW h \in Handles, NEW m, NEW r,
           kmem' = [kmem EXCEPT ![h] = m], round' = [round EXCEPT ![h] = r]
    PROVE  KPh' = [KPh EXCEPT ![h] = KeygenPhaseOf(m, r)]
BY DEF KPh, TypeOK

LEMMA KRejectLC ==
    ASSUME NEW op, NEW a, NEW t, Reject(op, a, t)
    PROVE  UNCHANGED KeygenLC!lcVars
BY KLCStutter DEF Reject, sessionVars, hostVars

LEMMA KPanicLC ==
    ASSUME NEW op, NEW a, Panic(op, a)
    PROVE  UNCHANGED KeygenLC!lcVars
BY KLCStutter DEF Panic, sessionVars, hostVars

(* Boxing a session at a free address creates it for the host. *)
LEMMA AllocLC ==
    ASSUME TypeOK, NEW op, NEW h \in Handles, NEW c, kmem[h] = "free", Allocate(op, h, c)
    PROVE  KeygenLC!Create(h)
<1>1. KPh' = [KPh EXCEPT ![h] = KeygenPhaseOf("live", "Init")]
  BY KLCUpdate DEF Allocate
<1>2. QED
  BY <1>1 DEF KeygenLC!Create, KPh, KeygenPhaseOf, Allocate

(* Dropping a session the host holds releases it. *)
LEMMA DropLC ==
    ASSUME TypeOK, OwnershipAgreement, NEW h \in owned,
           kmem' = [kmem EXCEPT ![h] = "free"], NEW r, round' = [round EXCEPT ![h] = r],
           owned' = owned \ {h}
    PROVE  KeygenLC!Release(h)
<1>1. h \in Handles /\ kmem[h] = "live"
  BY DEF TypeOK, OwnershipAgreement
<1>2. KPh' = [KPh EXCEPT ![h] = KeygenPhaseOf("free", r)]
  BY <1>1, KLCUpdate
<1>3. QED
  BY <1>1, <1>2 DEF KeygenLC!Release, KPh, KeygenPhaseOf

(* One engine round on a running session stays in the running phase,   *)
(* completes it (WaitMsg4 to Share) or aborts it (to Failed).           *)
LEMMA AdvanceLC ==
    ASSUME TypeOK, OwnershipAgreement, NEW h \in owned,
           round[h] \in {"WaitMsg1", "WaitMsg2", "WaitMsg3", "WaitMsg4"},
           NEW b, NEW f, NEW cl, Advance(h, b, Succ[round[h]], f, cl)
    PROVE  [KeygenLC!LNext]_KeygenLC!lcVars
<1> DEFINE r == RoundAfter(round[h], b, Succ[round[h]], f)
<1>1. h \in Handles /\ kmem[h] = "live"
  BY DEF TypeOK, OwnershipAgreement
<1>2. round' = [round EXCEPT ![h] = r] /\ kmem' = [kmem EXCEPT ![h] = "live"]
      /\ UNCHANGED owned
  BY <1>1 DEF Advance, hostVars, TypeOK
<1>3. KPh' = [KPh EXCEPT ![h] = KeygenPhaseOf("live", r)]
  BY <1>1, <1>2, KLCUpdate
<1>4. KPh[h] = "active"
  BY <1>1 DEF KPh, KeygenPhaseOf
<1>5. r \in {"WaitMsg1", "WaitMsg2", "WaitMsg3", "WaitMsg4", "Share", "Failed"}
  BY DEF RoundAfter, Succ
<1>6. CASE r = "Failed"
  <2>1. KeygenLC!Abort(h)
    BY <1>2, <1>3, <1>4, <1>6 DEF KeygenLC!Abort, KPh, KeygenPhaseOf
  <2>2. QED
    BY <1>1, <2>1 DEF KeygenLC!LNext
<1>7. CASE r = "Share"
  <2>1. KeygenLC!Complete(h)
    BY <1>2, <1>3, <1>4, <1>7 DEF KeygenLC!Complete, KPh, KeygenPhaseOf
  <2>2. QED
    BY <1>1, <2>1 DEF KeygenLC!LNext
<1>8. CASE r \in {"WaitMsg1", "WaitMsg2", "WaitMsg3", "WaitMsg4"}
  <2>1. KPh' = KPh
    BY <1>3, <1>4, <1>8 DEF KPh, KeygenPhaseOf
  <2>2. QED
    BY <1>2, <2>1 DEF KeygenLC!lcVars, KPh
<1>9. QED
  BY <1>5, <1>6, <1>7, <1>8

(* The keygen session layer implements the session lifecycle. *)
THEOREM KeygenRefinesLifecycle == Spec => KeygenImplementsLifecycle
<1>1. Init => KeygenLC!LInit
  BY DEF Init, KeygenLC!LInit, KeygenPhaseOf
<1>2. TypeOK /\ OwnershipAgreement /\ [Next]_vars => [KeygenLC!LNext]_KeygenLC!lcVars
  <2> SUFFICES ASSUME TypeOK, OwnershipAgreement, [Next]_vars
               PROVE  [KeygenLC!LNext]_KeygenLC!lcVars
    OBVIOUS
  <2>1. ASSUME NEW h \in Handles, NEW p \in Participants, NEW s \in SeedLens,
               KeygenNew(h, p, s)
        PROVE  [KeygenLC!LNext]_KeygenLC!lcVars
    BY <2>1, KPanicLC, AllocLC DEF KeygenNew, KeygenLC!LNext
  <2>2. ASSUME NEW h \in Handles, NEW k \in Shares \cup {NoHandle}, NEW s \in SeedLens,
               NEW ok \in BOOLEAN, NEW op \in {"rotation", "recovery"},
               InitFromShare(op, h, k, s, ok)
        PROVE  [KeygenLC!LNext]_KeygenLC!lcVars
    BY <2>2, KPanicLC, KRejectLC, AllocLC DEF InitFromShare, KeygenLC!LNext
  <2>3. ASSUME NEW h \in Handles, NEW p \in Participants, NEW l \in PkLens,
               NEW v \in BOOLEAN, NEW s \in SeedLens, NEW ok \in BOOLEAN,
               KeygenInitLostShareRecovery(h, p, l, v, s, ok)
        PROVE  [KeygenLC!LNext]_KeygenLC!lcVars
    BY <2>3, KPanicLC, KRejectLC, AllocLC DEF KeygenInitLostShareRecovery, KeygenLC!LNext
  <2>4. ASSUME NEW h \in Handles, KeygenCreateFirstMessage(h)
        PROVE  [KeygenLC!LNext]_KeygenLC!lcVars
    <3>1. CASE round[h] = "Init"
      <4>1. /\ round' = [round EXCEPT ![h] = "WaitMsg1"] /\ UNCHANGED <<kmem, owned>>
            /\ h \in owned /\ kmem[h] = "live"
        BY <2>4, <3>1 DEF KeygenCreateFirstMessage, Reject, OwnershipAgreement, hostVars
      <4>2. KPh' = [KPh EXCEPT ![h] = KeygenPhaseOf("live", "WaitMsg1")]
        <5>1. kmem' = [kmem EXCEPT ![h] = "live"]
          BY <4>1 DEF TypeOK
        <5>2. QED
          BY <4>1, <5>1, KLCUpdate
      <4>3. KeygenLC!Start(h)
        BY <3>1, <4>1, <4>2 DEF KeygenLC!Start, KPh, KeygenPhaseOf
      <4>4. QED
        BY <4>3 DEF KeygenLC!LNext
    <3>2. CASE round[h] # "Init"
      BY <2>4, <3>2, KRejectLC DEF KeygenCreateFirstMessage
    <3>3. QED
      BY <3>1, <3>2
  <2>5. ASSUME NEW h \in Handles, KeygenFree(h)
        PROVE  [KeygenLC!LNext]_KeygenLC!lcVars
    <3>1. h \in owned /\ round' = [round EXCEPT ![h] = round[h]]
      BY <2>5 DEF KeygenFree, TypeOK
    <3>2. KeygenLC!Release(h)
      BY <2>5, <3>1, DropLC DEF KeygenFree
    <3>3. QED
      BY <3>2 DEF KeygenLC!LNext
  <2>6. ASSUME NEW h \in Handles, NEW b \in Batches, NEW c \in CommitLens,
               NEW s \in SeedLens, KeygenHandleMessages(h, b, c, s)
        PROVE  [KeygenLC!LNext]_KeygenLC!lcVars
    <3>1. h \in owned
      BY <2>6 DEF KeygenHandleMessages
    <3>2. QED
      BY <2>6, <3>1, KPanicLC, KRejectLC, AdvanceLC DEF KeygenHandleMessages
  <2>7. ASSUME NEW h \in Handles, NEW k \in Shares, KeygenKeyshare(h, k)
        PROVE  [KeygenLC!LNext]_KeygenLC!lcVars
    <3>1. h \in owned
      BY <2>7 DEF KeygenKeyshare
    <3>2. CASE round[h] = "Failed"
      BY <2>7, <3>2, KLCStutter DEF KeygenKeyshare, hostVars
    <3>3. CASE round[h] # "Failed"
      <4>1. /\ kmem' = [kmem EXCEPT ![h] = "free"] /\ round' = [round EXCEPT ![h] = "Failed"]
            /\ owned' = owned \ {h}
        BY <2>7, <3>3 DEF KeygenKeyshare
      <4>2. QED
        BY <3>1, <4>1, DropLC DEF KeygenLC!LNext
    <3>4. QED
      BY <3>2, <3>3
  <2>8. ASSUME NEW k \in Shares, NEW p \in Participants, NEW d \in BOOLEAN,
               KeyshareFromBytes(k, p, d)
        PROVE  [KeygenLC!LNext]_KeygenLC!lcVars
    BY <2>8, KLCStutter DEF KeyshareFromBytes, sessionVars
  <2>9. ASSUME NEW k \in Shares, KeyshareFree(k)
        PROVE  [KeygenLC!LNext]_KeygenLC!lcVars
    BY <2>9, KLCStutter DEF KeyshareFree, sessionVars
  <2>10. CASE NullHandleCall
    BY <2>10, KRejectLC DEF NullHandleCall
  <2>11. CASE UNCHANGED vars
    BY <2>11, KLCStutter DEF vars
  <2>13. CASE KeyshareFromNullBytes
    BY <2>13, KPanicLC, KRejectLC DEF KeyshareFromNullBytes
  <2>12. QED
    BY <2>1, <2>2, <2>3, <2>4, <2>5, <2>6, <2>7, <2>8, <2>9, <2>10, <2>11, <2>13
       DEF Next, KeygenInitKeyRotation, KeygenInitKeyRecovery
<1>3. QED
  BY <1>1, <1>2, TypeCorrect, OwnershipAgreementHolds, PTL
  DEF Spec, KeygenImplementsLifecycle, KeygenLC!LSpec

=============================================================================
