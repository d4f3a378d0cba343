---------------------------- MODULE SystemProofs -----------------------------
(***************************************************************************)
(* Proofs of the type invariant and the safety properties of System for    *)
(* any number of UAVs and verifiers, any threshold, any IDs, and any       *)
(* number of retries, faults and restarts, and of the refinement: System   *)
(* implements ThresholdService.  Every step of every component keeps       *)
(* TypeOK, given the inductive invariant of SystemInv.  The frame lemmas   *)
(* say which conjuncts depend on which variables.                          *)
(***************************************************************************)
EXTENDS SystemInv, TLAPS

-----------------------------------------------------------------------------
(* Facts about the constants and the calls of the library. *)

(* initParams chooses a threshold of at least 2 and at most tm. *)
LEMMA Threshold == t \in Nat /\ t >= 2 /\ t <= TM
  BY TAAssumption DEF t

(* The client processes are pairwise different. *)
LEMMA Procs ==
    /\ aggProc \in Client
    /\ \A i \in Port : uavProc(i) \in Client /\ uavProc(i) # aggProc
    /\ \A i, j \in Port : uavProc(i) = uavProc(j) => i = j
    /\ \A v \in Verifier : verProc(v) \in Client /\ verProc(v) # aggProc
    /\ \A v, w \in Verifier : verProc(v) = verProc(w) => v = w
    /\ \A i \in Port, v \in Verifier : uavProc(i) # verProc(v)
  BY Zenon DEF Client, uavProc, aggProc, verProc

(* What a new call does to the library's state. *)
LEMMA NewCallType ==
    ASSUME BrpcTypeOK, NEW c \in Client, NewCall(c)
    PROVE  BrpcTypeOK' /\ \A d \in Client : cid'[d] = IF d = c THEN cid[d] + 1 ELSE cid[d]
  BY BrpcAssumption DEF BrpcTypeOK, NewCall

(* A retry keeps the correlation id of the pending call. *)
LEMMA ReissueType ==
    ASSUME BrpcTypeOK, NEW c \in Client, Reissue(c)
    PROVE  BrpcTypeOK' /\ cid' = cid
  BY BrpcAssumption DEF BrpcTypeOK, Reissue, Fault

(* A fault of the environment changes no call. *)
LEMMA FaultType ==
    ASSUME BrpcTypeOK, Fault, UNCHANGED callVars
    PROVE  BrpcTypeOK' /\ cid' = cid
  BY BrpcAssumption DEF BrpcTypeOK, Fault, callVars

(* A process that ends leaves the correlation ids alone. *)
LEMMA ForgetType ==
    ASSUME BrpcTypeOK, NEW c \in Client, Forget(c), Fault \/ UNCHANGED faults
    PROVE  BrpcTypeOK' /\ cid' = cid
  BY BrpcAssumption DEF BrpcTypeOK, Forget, Fault

(* A signal only adds to the processes asked to quit. *)
LEMMA AskToQuitType ==
    ASSUME BrpcTypeOK, NEW c \in Client, AskToQuit(c)
    PROVE  BrpcTypeOK' /\ cid' = cid
  BY BrpcAssumption DEF BrpcTypeOK, AskToQuit, Fault

(* The library state is well typed while it is left alone. *)
LEMMA BrpcFrame ==
    ASSUME BrpcTypeOK, UNCHANGED brpcVars
    PROVE  BrpcTypeOK' /\ cid' = cid
  BY Zenon DEF BrpcTypeOK, brpcVars, callVars

(* A step that leaves the TA alone keeps its types. *)
LEMMA TAFrame == TATypeOK /\ UNCHANGED taVars => TATypeOK'
  BY Zenon DEF TATypeOK, taVars

(* A step that leaves the UAVs alone keeps their types. *)
LEMMA UavFrame == UavTypeOK /\ UNCHANGED uavVars => UavTypeOK'
  BY Zenon DEF UavTypeOK, uavVars, uavMem, signVars

(* A step that leaves the aggregator alone keeps its types. *)
LEMMA AggFrame == AggTypeOK /\ UNCHANGED aggVars => AggTypeOK'
  BY Zenon DEF AggTypeOK, aggVars, aggMem, tranVars

(* A step that leaves the verifiers alone keeps their types. *)
LEMMA VerFrame == VerTypeOK /\ UNCHANGED verVars => VerTypeOK'
  BY Zenon DEF VerTypeOK, verVars, verMem

(* A UAVIDRequest is well typed. *)
LEMMA SendRegisterType ==
    ASSUME TATypeOK, BrpcTypeOK', NEW c \in Client, NEW id \in ID, sendRegister(c, id)
    PROVE  TATypeOK'
  BY DEF TATypeOK, BrpcTypeOK, sendRegister, RegisterReq

-----------------------------------------------------------------------------
(* Type correctness, one component at a time. *)

(* The processes start well typed. *)
LEMMA TypeInit == Init => TypeOK
  BY BrpcAssumption, TAAssumption, UavAssumption, Threshold
  DEF Init, BrpcInit, TAInit, UavInit, AggInit, VerInit, TypeOK, BrpcTypeOK, TATypeOK,
      UavTypeOK, AggTypeOK, VerTypeOK, NoUAV, NoKey, Port

(* initParams, startServerTA, Register and the end of the TA keep the types. *)
LEMMA TypeTA ==
    ASSUME TypeOK, taStep
    PROVE  TypeOK'
<1>1. UavTypeOK' /\ AggTypeOK' /\ VerTypeOK'
  BY UavFrame, AggFrame, VerFrame, Zenon DEF taStep, TypeOK
<1>2. CASE initParams
  <2>1. drawn' \in Seq(ParamDraws) /\ pp' \in Nat
    BY <1>2 DEF initParams, TypeOK, TATypeOK
  <2> QED
    BY <1>1, <1>2, <2>1, BrpcFrame, Zenon DEF initParams, TypeOK, TATypeOK
<1>3. CASE startServerTA
  BY <1>1, <1>3, BrpcFrame, FaultType, Zenon DEF startServerTA, TypeOK, TATypeOK, brpcVars
<1>4. ASSUME NEW r \in registerReqs, Register(r)
      PROVE  TypeOK'
  <2>1. registerResps' \subseteq RegisterResp /\ issued' \subseteq Share
    BY <1>4, Threshold
    DEF Register, getUAV, RegisterReq, RegisterResp, Share, HeadKey, TypeOK, TATypeOK
  <2> QED
    BY <1>1, <1>4, <2>1, BrpcFrame, Zenon DEF Register, TypeOK, TATypeOK
<1>5. CASE exitTA
  BY <1>1, <1>5, FaultType, Zenon DEF exitTA, TypeOK, TATypeOK
<1> QED
  BY <1>2, <1>3, <1>4, <1>5, Zenon DEF taStep

(* A UAV process that ends keeps the types. *)
LEMMA TypeUavGone ==
    ASSUME TypeOK, NEW i \in Port, uavGone(i), UNCHANGED signResps, Fault \/ UNCHANGED faults,
           UNCHANGED <<aggVars, verVars>>
    PROVE  TypeOK'
<1>1. UavTypeOK'
  BY TAAssumption, Zenon DEF uavGone, TypeOK, UavTypeOK, NoUAV
<1> QED
  BY <1>1, TAFrame, AggFrame, VerFrame, ForgetType, Procs, Zenon DEF uavGone, TypeOK

(* Every step of a UAV keeps the types.  sign needs the invariant: only a  *)
(* request for threshold t makes Sign read ciphertexts that exist.         *)
LEMMA TypeUav ==
    ASSUME IndInv, NEW i \in Port, uavStep(i), UNCHANGED <<aggVars, verVars>>
    PROVE  TypeOK'
<1>1. TypeOK /\ AggTypeOK' /\ VerTypeOK'
  BY AggFrame, VerFrame, Zenon DEF IndInv, TypeOK
<1>2. CASE startUAV(i)
  BY <1>1, <1>2, UavAssumption, BrpcFrame, TAFrame
  DEF startUAV, uavGoto, signVars, TypeOK, UavTypeOK
<1>3. CASE registerUAVCall(i)
  <2>1. PICK id \in Draw[uavProc(i)] :
          /\ reqId' = [reqId EXCEPT ![i] = id]
          /\ NewCall(uavProc(i))
          /\ sendRegister(uavProc(i), id)
    BY <1>3, Zenon DEF registerUAVCall
  <2>2. id \in ID
    BY <2>1, Procs, TAAssumption, Zenon
  <2>3. BrpcTypeOK' /\ TATypeOK'
    BY <1>1, <2>1, <2>2, Procs, NewCallType, SendRegisterType, Zenon DEF TypeOK
  <2>4. UavTypeOK'
    BY <1>1, <1>3, <2>1, <2>2, Zenon DEF registerUAVCall, uavGoto, signVars, TypeOK, UavTypeOK
  <2> QED
    BY <1>1, <2>3, <2>4, Zenon DEF TypeOK
<1>4. CASE registerUAVNoChannel(i)
  BY <1>1, <1>4, FaultType, TAFrame, Zenon
  DEF registerUAVNoChannel, uavGoto, signVars, TypeOK, UavTypeOK
<1>5. CASE registerUAVSkip(i)
  BY <1>1, <1>5, BrpcFrame, TAFrame, Zenon DEF registerUAVSkip, uavGoto, signVars, TypeOK, UavTypeOK
<1>6. ASSUME NEW r \in registerResps, registerUAVOk(i, r)
      PROVE  TypeOK'
  <2>1. CASE uavGone(i) /\ UNCHANGED <<signResps, faults>>
    BY <1>1, <2>1, TypeUavGone, Zenon
  <2>2. CASE ~(uavGone(i) /\ UNCHANGED <<signResps, faults>>)
    <3>1. r.params \in Nat /\ r.key \in Share \cup HeadKey
      BY <1>1, Zenon DEF RegisterResp, TypeOK, TATypeOK
    <3>2. r.key.kind = "share" => r.key \in Share
      BY <3>1, Zenon DEF Share, HeadKey
    <3> DEFINE u == [ID |-> reqId[i], key |-> IF r.key.kind = "share" THEN r.key ELSE NoKey]
    <3>3. u \in [ID : ID, key : Share \cup {NoKey}]
      BY <1>1, <3>2, Zenon DEF TypeOK, UavTypeOK
    <3>4. /\ uavPc' = [uavPc EXCEPT ![i] = "startUAVServer"]
          /\ pp_UAV' = [pp_UAV EXCEPT ![i] = r.params]
          /\ uav' = [uav EXCEPT ![i] = u]
          /\ uavRet' = [uavRet EXCEPT ![i] = 1]
          /\ UNCHANGED <<uavStarts, reqId, signVars>>
      BY <1>6, <2>2, Zenon DEF registerUAVOk, savedUAV
    <3> HIDE DEF u
    <3>5. UavTypeOK'
      BY <1>1, <3>1, <3>3, <3>4, Zenon DEF signVars, TypeOK, UavTypeOK
    <3> QED
      BY <1>1, <1>6, <2>2, <3>5, BrpcFrame, TAFrame, Zenon DEF registerUAVOk, TypeOK
  <2> QED
    BY <2>1, <2>2, Zenon
<1>7. CASE registerUAVFailed(i)
  BY <1>1, <1>7, BrpcFrame, TAFrame, Zenon DEF registerUAVFailed, uavGoto, signVars, TypeOK, UavTypeOK
<1>8. CASE registerUAVRetry(i)
  <2>1. reqId[i] \in ID
    BY <1>1, Zenon DEF TypeOK, UavTypeOK
  <2> QED
    BY <1>1, <1>8, <2>1, Procs, ReissueType, SendRegisterType, UavFrame, Zenon
    DEF registerUAVRetry, retryRegister, TypeOK
<1>9. CASE startUAVServer(i)
  <2>1. CASE uavGone(i) /\ Fault /\ UNCHANGED signResps
    BY <1>1, <2>1, TypeUavGone, Zenon
  <2>2. CASE ~(uavGone(i) /\ Fault /\ UNCHANGED signResps)
    BY <1>1, <1>9, <2>2, BrpcFrame, TAFrame, Zenon
    DEF startUAVServer, uavMem, signVars, TypeOK, UavTypeOK
  <2> QED
    BY <2>1, <2>2, Zenon
<1>10. ASSUME NEW r \in signReqs, sign(i, r)
      PROVE  TypeOK'
  <2>1. CASE uavGone(i) /\ UNCHANGED <<signResps, faults>>
    BY <1>1, <2>1, TypeUavGone, Zenon
  <2>2. CASE ~(uavGone(i) /\ UNCHANGED <<signResps, faults>>)
    <3>1. r \in SignReq /\ r.t = t
      BY <1>1, Zenon DEF IndInv, SignInv, TypeOK, UavTypeOK
    <3>2. uav[i].key # NoKey
      BY <1>10, <2>2, <3>1, Threshold DEF sign, keyLen
    <3>3. Sign(i, r.t) \in ParSig
      BY <1>1, <3>1, <3>2, Threshold, Zenon DEF Sign, ParSig, TypeOK, UavTypeOK
    <3>4. UavTypeOK'
      BY <1>1, <1>10, <2>2, <3>1, <3>3
      DEF sign, SignResp, SignReq, uavMem, TypeOK, UavTypeOK
    <3> QED
      BY <1>1, <1>10, <2>2, <3>4, BrpcFrame, TAFrame, Zenon DEF sign, TypeOK
  <2> QED
    BY <2>1, <2>2, Zenon
<1>11. CASE exitUAV(i)
  BY <1>1, <1>11, TypeUavGone, Zenon DEF exitUAV
<1>12. CASE askUAVToQuit(i)
  BY <1>1, <1>12, Procs, AskToQuitType, TAFrame, UavFrame, Zenon DEF askUAVToQuit, TypeOK
<1> QED
  BY <1>2, <1>3, <1>4, <1>5, <1>6, <1>7, <1>8, <1>9, <1>10, <1>11, <1>12, Zenon DEF uavStep

(* An aggregator that ends keeps the types. *)
LEMMA TypeAggGone ==
    ASSUME TypeOK, aggGone, Fault \/ UNCHANGED faults, UNCHANGED verVars
    PROVE  TypeOK'
<1>1. AggTypeOK'
  BY DEF aggGone, TypeOK, AggTypeOK
<1> QED
  BY <1>1, TAFrame, UavFrame, VerFrame, ForgetType, Procs, Zenon DEF aggGone, TypeOK

(* Every step of the aggregator keeps the types.  The loop variable stays  *)
(* in range because a call is pending only below the threshold.            *)
LEMMA TypeAgg ==
    ASSUME IndInv, aggStep, UNCHANGED verVars
    PROVE  TypeOK'
<1>1. TypeOK /\ VerTypeOK' /\ aggProc \in Client /\ HeadId \in ID
  BY VerFrame, Procs, TAAssumption, Zenon DEF IndInv, TypeOK
<1> USE <1>1
<1>2. CASE startAgg
  BY <1>2, BrpcFrame, TAFrame, UavFrame, Zenon
  DEF startAgg, aggGoto, aggMem, tranVars, TypeOK, AggTypeOK
<1>3. CASE getPpAndSkCall
  BY <1>3, NewCallType, SendRegisterType, UavFrame, Zenon
  DEF getPpAndSkCall, aggGoto, aggMem, tranVars, TypeOK, AggTypeOK
<1>4. CASE getPpAndSkNoCall
  BY <1>4, BrpcFrame, FaultType, TAFrame, UavFrame, Zenon
  DEF getPpAndSkNoCall, aggGoto, aggMem, tranVars, brpcVars, TypeOK, AggTypeOK
<1>5. ASSUME NEW r \in registerResps, getPpAndSkOk(r)
      PROVE  TypeOK'
  <2>1. r.params \in Nat /\ r.t = t
    BY Zenon DEF IndInv, RegisterInv, RegisterResp, TypeOK, TATypeOK
  <2>2. aggI \in 0 .. t
    BY Threshold DEF TypeOK, AggTypeOK
  <2> QED
    BY <1>5, <2>1, <2>2, BrpcFrame, TAFrame, UavFrame, Zenon
    DEF getPpAndSkOk, aggGoto, tranVars, TypeOK, AggTypeOK
<1>6. CASE getPpAndSkFailed
  BY <1>6, BrpcFrame, TAFrame, UavFrame, Zenon
  DEF getPpAndSkFailed, aggGoto, aggMem, tranVars, TypeOK, AggTypeOK
<1>7. CASE getPpAndSkRetry
  BY <1>7, ReissueType, SendRegisterType, UavFrame, AggFrame, Zenon
  DEF getPpAndSkRetry, retryRegister, TypeOK
<1>8. CASE collectParSigsCall
  <2>1. BrpcTypeOK' /\ TATypeOK' /\ AggTypeOK'
    BY <1>8, NewCallType, TAFrame, Zenon
    DEF collectParSigsCall, aggGoto, aggMem, tranVars, TypeOK, AggTypeOK
  <2>2. signReq(cid'[aggProc]) \in SignReq
    BY <2>1, Threshold DEF signReq, SignReq, TypeOK, AggTypeOK, BrpcTypeOK
  <2>3. UavTypeOK'
    BY <1>8, <2>2, Zenon DEF collectParSigsCall, uavMem, TypeOK, UavTypeOK
  <2> QED
    BY <2>1, <2>3, Zenon DEF TypeOK
<1>9. ASSUME NEW r \in signResps, collectParSigsOk(r)
      PROVE  TypeOK'
  <2>1. r.sig \in ParSig
    BY Zenon DEF SignResp, TypeOK, UavTypeOK
  <2>2. aggI + 1 \in 0 .. t_AGG
    BY <1>9, Threshold DEF collectParSigsOk, aggGoto, IndInv, AggInv, TypeOK, AggTypeOK
  <2> QED
    BY <1>9, <2>1, <2>2, BrpcFrame, TAFrame, UavFrame
    DEF collectParSigsOk, aggGoto, tranVars, TypeOK, AggTypeOK
<1>10. CASE collectParSigsFailed
  <2>1. aggI + 1 \in 0 .. t_AGG
    BY <1>10, Threshold DEF collectParSigsFailed, aggGoto, IndInv, AggInv, TypeOK, AggTypeOK
  <2> QED
    BY <1>10, <2>1, BrpcFrame, TAFrame, UavFrame, Zenon
    DEF collectParSigsFailed, aggGoto, tranVars, TypeOK, AggTypeOK
<1>11. CASE collectParSigsSkip
  <2>1. aggI + 1 \in 0 .. t_AGG
    BY <1>11, Threshold DEF collectParSigsSkip, TypeOK, AggTypeOK
  <2> QED
    BY <1>11, <2>1, BrpcFrame, TAFrame, UavFrame, Zenon
    DEF collectParSigsSkip, tranVars, TypeOK, AggTypeOK
<1>12. CASE collectParSigsRetry
  <2>1. signReq(cid[aggProc]) \in SignReq
    BY Threshold DEF signReq, SignReq, TypeOK, AggTypeOK, BrpcTypeOK
  <2>2. UavTypeOK'
    BY <1>12, <2>1, Zenon DEF collectParSigsRetry, uavMem, TypeOK, UavTypeOK
  <2> QED
    BY <1>12, <2>2, ReissueType, TAFrame, AggFrame, Zenon DEF collectParSigsRetry, TypeOK
<1>13. CASE collectParSigsReturn
  BY <1>13, BrpcFrame, TAFrame, UavFrame, Zenon
  DEF collectParSigsReturn, aggGoto, aggMem, tranVars, TypeOK, AggTypeOK
<1>14. CASE collectParSigsNoChannel
  BY <1>14, FaultType, TAFrame, UavFrame, Zenon
  DEF collectParSigsNoChannel, aggGoto, aggMem, tranVars, TypeOK, AggTypeOK
<1>15. CASE startServerTran
  BY <1>15, TypeAggGone, BrpcFrame, TAFrame, UavFrame, Zenon
  DEF startServerTran, aggMem, tranVars, TypeOK, AggTypeOK
<1>16. ASSUME NEW r \in tranReqs, Tran(r)
       PROVE  TypeOK'
  <2>1. CASE pp_AGG = 0
    BY <1>16, <2>1, TypeAggGone, Zenon DEF Tran
  <2>2. CASE pp_AGG # 0
    <3>1. [cli |-> r.cli, cid |-> r.cid, sigma |-> AggSig(r.PK_v)] \in TranResp
      BY Zenon DEF AggSig, Sigma, TranReq, TranResp, TypeOK, AggTypeOK
    <3>2. AggTypeOK'
      BY <1>16, <2>2, <3>1, Zenon DEF Tran, aggMem, TypeOK, AggTypeOK
    <3> QED
      BY <1>16, <2>2, <3>2, BrpcFrame, TAFrame, UavFrame, Zenon DEF Tran, TypeOK
  <2> QED
    BY <2>1, <2>2, Zenon
<1>17. CASE exitAgg
  BY <1>17, TypeAggGone, Zenon DEF exitAgg
<1>18. CASE askAggToQuit
  BY <1>18, AskToQuitType, TAFrame, UavFrame, AggFrame, Zenon DEF askAggToQuit, TypeOK
<1> QED
  BY <1>2, <1>3, <1>4, <1>5, <1>6, <1>7, <1>8, <1>9, <1>10, <1>11, <1>12, <1>13, <1>14,
     <1>15, <1>16, <1>17, <1>18, Zenon DEF aggStep

(* Every step of a verifier keeps the types. *)
LEMMA TypeVer ==
    ASSUME IndInv, NEW v \in Verifier, verStep(v)
    PROVE  TypeOK'
<1>1. TypeOK /\ verProc(v) \in Client
  BY Procs, Zenon DEF IndInv
<1> USE <1>1
<1>2. CASE startVerifier(v)
  BY <1>2, BrpcFrame, TAFrame, UavFrame, AggFrame, Zenon
  DEF startVerifier, verGoto, verMem, TypeOK, VerTypeOK
<1>3. CASE getParamsCall(v)
  <2>1. PICK id \in Draw[verProc(v)] :
          /\ verId' = [verId EXCEPT ![v] = id]
          /\ NewCall(verProc(v))
          /\ sendRegister(verProc(v), id)
    BY <1>3, Zenon DEF getParamsCall
  <2>2. id \in ID
    BY <2>1, TAAssumption, SMTT(30)
  <2>3. VerTypeOK'
    BY <1>3, <2>1, <2>2, SMTT(30) DEF getParamsCall, verGoto, TypeOK, VerTypeOK
  <2> QED
    BY <1>3, <2>1, <2>2, <2>3, NewCallType, SendRegisterType, UavFrame, AggFrame,
       Zenon
    DEF getParamsCall, TypeOK
<1>4. CASE getParamsNoCall(v)
  BY <1>4, BrpcFrame, FaultType, TAFrame, UavFrame, AggFrame, Zenon
  DEF getParamsNoCall, verGoto, verMem, brpcVars, TypeOK, VerTypeOK
<1>5. ASSUME NEW r \in registerResps, getParamsOk(v, r)
      PROVE  TypeOK'
  <2>1. r.params \in Nat /\ r.t = t
    BY Zenon DEF IndInv, RegisterInv, RegisterResp, TypeOK, TATypeOK
  <2> QED
    BY <1>5, <2>1, BrpcFrame, TAFrame, UavFrame, AggFrame, Zenon
    DEF getParamsOk, verGoto, TypeOK, VerTypeOK
<1>6. CASE getParamsFailed(v)
  BY <1>6, BrpcFrame, TAFrame, UavFrame, AggFrame, Zenon
  DEF getParamsFailed, verGoto, verMem, TypeOK, VerTypeOK
<1>7. CASE getParamsRetry(v)
  <2>1. verId[v] \in ID
    BY Zenon DEF TypeOK, VerTypeOK
  <2> QED
    BY <1>7, <2>1, ReissueType, SendRegisterType, UavFrame, AggFrame, VerFrame, Zenon
    DEF getParamsRetry, retryRegister, TypeOK
<1>8. CASE verifySignatureCall(v)
  <2>1. BrpcTypeOK' /\ TATypeOK' /\ UavTypeOK' /\ VerTypeOK'
    BY <1>8, NewCallType, TAFrame, UavFrame, Zenon
    DEF verifySignatureCall, verGoto, verMem, TypeOK, VerTypeOK
  <2>2. tranReq(v, cid'[verProc(v)]) \in TranReq
    BY <2>1, Zenon DEF tranReq, TranReq, BrpcTypeOK
  <2>3. AggTypeOK'
    BY <1>8, <2>2, Zenon DEF verifySignatureCall, aggMem, TypeOK, AggTypeOK
  <2> QED
    BY <2>1, <2>3, Zenon DEF TypeOK
<1>9. CASE verifySignatureCrash(v)
  BY <1>9, BrpcFrame, TAFrame, UavFrame, AggFrame, Zenon
  DEF verifySignatureCrash, verGoto, verMem, TypeOK, VerTypeOK
<1>10. CASE verifySignatureNoCall(v)
  BY <1>10, BrpcFrame, FaultType, TAFrame, UavFrame, AggFrame, Zenon
  DEF verifySignatureNoCall, verGoto, verMem, brpcVars, TypeOK, VerTypeOK
<1>11. ASSUME NEW r \in tranResps, verifySignatureOk(v, r)
       PROVE  TypeOK'
  <2>1. r.sigma \in Sigma
    BY Zenon DEF TranResp, TypeOK, AggTypeOK
  <2>2. \E b \in BOOLEAN, p \in {"done", "crashed"}, x \in {-1, 0, 1} :
          /\ oob' = [oob EXCEPT ![v] = b]
          /\ verPc' = [verPc EXCEPT ![v] = p]
          /\ res' = [res EXCEPT ![v] = x]
    <3>1. oob = [oob EXCEPT ![v] = oob[v]] /\ res = [res EXCEPT ![v] = res[v]]
          /\ oob[v] \in BOOLEAN /\ res[v] \in {-1, 0, 1}
      BY SMTT(30) DEF TypeOK, VerTypeOK
    <3>2. \A x \in Verify(v, r.sigma) \cup {0, 1} : x \in {-1, 0, 1}
      BY Zenon DEF Verify
    <3> QED
      BY <1>11, <3>1, <3>2, Zenon DEF verifySignatureOk
  <2>3. VerTypeOK'
    <3>1. /\ seen' = [seen EXCEPT ![v] = r.sigma]
          /\ UNCHANGED <<verId, params, T>>
      BY <1>11, Zenon DEF verifySignatureOk
    <3>2. VerTypeOK
      BY Zenon DEF TypeOK
    <3>3. oob' \in [Verifier -> BOOLEAN]
      BY <2>2, <3>2, Zenon DEF VerTypeOK
    <3>4. res' \in [Verifier -> {-1, 0, 1}]
      BY <2>2, <3>2, Zenon DEF VerTypeOK
    <3>5. verPc' \in [Verifier -> {"off", "getParams", "getting", "verifySignature", "waiting",
                                   "done", "crashed"}]
      BY <2>2, <3>2, Zenon DEF VerTypeOK
    <3>6. seen' \in [Verifier -> Sigma \cup {NoSigma}]
      BY <2>1, <3>1, <3>2, Zenon DEF VerTypeOK
    <3> QED
      BY <3>1, <3>2, <3>3, <3>4, <3>5, <3>6, Zenon DEF VerTypeOK, t
  <2> QED
    BY <1>11, <2>3, BrpcFrame, TAFrame, UavFrame, AggFrame, Zenon DEF verifySignatureOk, TypeOK
<1>12. CASE verifySignatureFailed(v)
  BY <1>12, BrpcFrame, TAFrame, UavFrame, AggFrame, Zenon
  DEF verifySignatureFailed, verGoto, verMem, TypeOK, VerTypeOK
<1>13. CASE verifySignatureRetry(v)
  <2>1. tranReq(v, cid[verProc(v)]) \in TranReq
    BY Zenon DEF tranReq, TranReq, TypeOK, BrpcTypeOK
  <2>2. AggTypeOK'
    BY <1>13, <2>1, Zenon DEF verifySignatureRetry, aggMem, TypeOK, AggTypeOK
  <2> QED
    BY <1>13, <2>2, ReissueType, TAFrame, UavFrame, VerFrame, Zenon DEF verifySignatureRetry, TypeOK
<1>14. CASE exitVerifier(v)
  BY <1>14, FaultType, TAFrame, UavFrame, AggFrame, Zenon
  DEF exitVerifier, verMem, TypeOK, VerTypeOK
<1>15. CASE askVerifierToQuit(v)
  BY <1>15, AskToQuitType, TAFrame, UavFrame, AggFrame, VerFrame, Zenon DEF askVerifierToQuit, TypeOK
<1> QED
  BY <1>2, <1>3, <1>4, <1>5, <1>6, <1>7, <1>8, <1>9, <1>10, <1>11, <1>12, <1>13, <1>14,
     <1>15, Zenon DEF verStep

-----------------------------------------------------------------------------
(* What the steps of each kind of process leave alone. *)

(* What a step of client c may do to the Register service: send one        *)
(* request under its own correlation id, and nothing else.                 *)
RegisterEffect(c) ==
    /\ UNCHANGED <<taPc, pp, drawn, registerResps, issued>>
    /\ \A d \in Client : cid'[d] >= cid[d] /\ (d # c => cid'[d] = cid[d])
    /\ \A r \in registerReqs' : r \in registerReqs \/ (r.cli = c /\ r.cid = cid'[c])

(* A step that sends nothing to the TA. *)
LEMMA NoRegister ==
    ASSUME TypeOK, NEW c \in Client, cid' = cid, UNCHANGED taVars
    PROVE  RegisterEffect(c)
  BY DEF RegisterEffect, taVars, TypeOK, BrpcTypeOK

(* A new call, to the TA or to another server. *)
LEMMA CallRegister ==
    ASSUME TypeOK, NEW c \in Client, NewCall(c),
           UNCHANGED taVars \/ \E id \in ID : sendRegister(c, id)
    PROVE  RegisterEffect(c)
<1>1. \A d \in Client : cid'[d] >= cid[d] /\ (d # c => cid'[d] = cid[d])
  BY NewCallType DEF TypeOK, BrpcTypeOK
<1> QED
  BY <1>1 DEF RegisterEffect, sendRegister, taVars

(* A repeated call to the TA. *)
LEMMA RetryRegister ==
    ASSUME TypeOK, NEW c \in Client, NEW id \in ID, retryRegister(c, id)
    PROVE  RegisterEffect(c) /\ cid' = cid
  BY ReissueType DEF retryRegister, RegisterEffect, sendRegister, TypeOK, BrpcTypeOK

(* The end of a client process. *)
LEMMA GoneRegister ==
    ASSUME TypeOK, NEW c \in Client, Forget(c), UNCHANGED taVars
    PROVE  RegisterEffect(c) /\ cid' = cid
  BY NoRegister, Zenon DEF Forget

(* Every step of a UAV treats the Register service as a client does. *)
LEMMA UavRegister ==
    ASSUME TypeOK, NEW i \in Port, uavStep(i)
    PROVE  RegisterEffect(uavProc(i))
<1>1. uavProc(i) \in Client /\ reqId[i] \in ID /\ Draw[uavProc(i)] \subseteq ID
  BY Procs, TAAssumption, Zenon DEF TypeOK, UavTypeOK
<1> USE <1>1
<1>2. CASE registerUAVCall(i)
  BY <1>2, CallRegister, Zenon DEF registerUAVCall
<1>3. CASE registerUAVRetry(i)
  BY <1>3, RetryRegister, Zenon DEF registerUAVRetry
<1>4. CASE startUAV(i) \/ registerUAVNoChannel(i) \/ registerUAVSkip(i) \/ registerUAVFailed(i)
  BY <1>4, NoRegister, Zenon
  DEF startUAV, registerUAVNoChannel, registerUAVSkip, registerUAVFailed, brpcVars, callVars
<1>5. CASE \E r \in registerResps : registerUAVOk(i, r)
  BY <1>5, NoRegister, GoneRegister, Zenon DEF registerUAVOk, uavGone, brpcVars, callVars
<1>6. CASE startUAVServer(i) \/ exitUAV(i)
  BY <1>6, NoRegister, GoneRegister, Zenon DEF startUAVServer, exitUAV, uavGone, brpcVars, callVars
<1>7. CASE \E r \in signReqs : sign(i, r)
  BY <1>7, NoRegister, GoneRegister, Zenon DEF sign, uavGone, brpcVars, callVars
<1>8. CASE askUAVToQuit(i)
  BY <1>8, NoRegister, Zenon DEF askUAVToQuit, AskToQuit
<1> QED
  BY <1>2, <1>3, <1>4, <1>5, <1>6, <1>7, <1>8, Zenon DEF uavStep

(* Every step of the aggregator treats the Register service as a client    *)
(* does, and none writes into a UAV.                                       *)
LEMMA AggRegister ==
    ASSUME TypeOK, aggStep
    PROVE  RegisterEffect(aggProc) /\ UNCHANGED <<uavPc, uavMem, signResps>>
<1>1. aggProc \in Client /\ HeadId \in ID
  BY Procs, TAAssumption, Zenon
<1> USE <1>1 DEF uavVars, signVars
<1>2. CASE getPpAndSkCall
  BY <1>2, CallRegister, Zenon DEF getPpAndSkCall
<1>3. CASE getPpAndSkRetry
  BY <1>3, RetryRegister, Zenon DEF getPpAndSkRetry
<1>4. CASE startAgg \/ getPpAndSkNoCall \/ getPpAndSkFailed \/ \E r \in registerResps : getPpAndSkOk(r)
  BY <1>4, NoRegister, Zenon
  DEF startAgg, getPpAndSkNoCall, getPpAndSkFailed, getPpAndSkOk, brpcVars, callVars
<1>5. CASE collectParSigsCall
  BY <1>5, CallRegister, Zenon DEF collectParSigsCall
<1>6. CASE collectParSigsRetry
  BY <1>6, NoRegister, ReissueType, Zenon DEF collectParSigsRetry, Reissue
<1>7. CASE \/ \E r \in signResps : collectParSigsOk(r)
           \/ collectParSigsFailed \/ collectParSigsSkip
           \/ collectParSigsReturn \/ collectParSigsNoChannel
  BY <1>7, NoRegister, Zenon
  DEF collectParSigsOk, collectParSigsFailed, collectParSigsSkip, collectParSigsReturn,
      collectParSigsNoChannel, brpcVars, callVars
<1>8. CASE startServerTran \/ exitAgg
  BY <1>8, NoRegister, GoneRegister, Zenon DEF startServerTran, exitAgg, aggGone, brpcVars, callVars
<1>9. CASE \E r \in tranReqs : Tran(r)
  BY <1>9, NoRegister, GoneRegister, Zenon DEF Tran, aggGone, brpcVars, callVars
<1>10. CASE askAggToQuit
  BY <1>10, NoRegister, SMTT(30) DEF askAggToQuit, AskToQuit
<1> QED
  BY <1>2, <1>3, <1>4, <1>5, <1>6, <1>7, <1>8, <1>9, <1>10, Zenon DEF aggStep

(* Every step of a verifier treats the Register service as a client does,  *)
(* and the only other message it sends is its own verifyRequest.           *)
LEMMA VerRegister ==
    ASSUME TypeOK, NEW v \in Verifier, verStep(v)
    PROVE  /\ RegisterEffect(verProc(v))
           /\ UNCHANGED <<uavVars, aggPc, aggMem, tranResps>>
           /\ tranReqs' \subseteq tranReqs \cup {tranReq(v, cid'[verProc(v)])}
<1>1. verProc(v) \in Client /\ verId[v] \in ID /\ Draw[verProc(v)] \subseteq ID
  BY Procs, TAAssumption, Zenon DEF TypeOK, VerTypeOK
<1> USE <1>1 DEF aggVars, tranVars
<1>2. CASE getParamsCall(v)
  BY <1>2, CallRegister, Zenon DEF getParamsCall
<1>3. CASE getParamsRetry(v)
  BY <1>3, RetryRegister, Zenon DEF getParamsRetry
<1>4. CASE \/ startVerifier(v) \/ getParamsNoCall(v) \/ getParamsFailed(v)
           \/ \E r \in registerResps : getParamsOk(v, r)
  BY <1>4, NoRegister, Zenon
  DEF startVerifier, getParamsNoCall, getParamsFailed, getParamsOk, brpcVars, callVars
<1>5. CASE verifySignatureCall(v)
  BY <1>5, CallRegister, Zenon DEF verifySignatureCall
<1>6. CASE verifySignatureRetry(v)
  BY <1>6, NoRegister, Zenon DEF verifySignatureRetry, Reissue
<1>7. CASE \/ verifySignatureCrash(v) \/ verifySignatureNoCall(v) \/ verifySignatureFailed(v)
           \/ \E r \in tranResps : verifySignatureOk(v, r)
           \/ exitVerifier(v)
  BY <1>7, NoRegister, Zenon
  DEF verifySignatureCrash, verifySignatureNoCall, verifySignatureFailed, verifySignatureOk,
      exitVerifier, brpcVars, callVars
<1>8. CASE askVerifierToQuit(v)
  BY <1>8, NoRegister, Zenon DEF askVerifierToQuit, AskToQuit
<1> QED
  BY <1>2, <1>3, <1>4, <1>5, <1>6, <1>7, <1>8, Zenon DEF verStep

(* Register messages stay consistent whatever a client does. *)
LEMMA ClientRegister ==
    ASSUME IndInv, TypeOK', NEW c \in Client, RegisterEffect(c)
    PROVE  TAInv' /\ RegisterInv'
<1>1. TAInv'
  BY Zenon DEF IndInv, TAInv, RegisterEffect
<1>2. ASSUME NEW r \in registerReqs'
      PROVE  r.cid <= cid'[r.cli]
  <2>1. r \in RegisterReq /\ r.cid \in Nat /\ r.cli \in Client
    BY <1>2, Zenon DEF TypeOK, TATypeOK, RegisterReq
  <2>2. cid'[r.cli] \in Nat /\ cid[r.cli] \in Nat /\ cid'[r.cli] >= cid[r.cli]
    BY <2>1, Zenon DEF IndInv, TypeOK, BrpcTypeOK, RegisterEffect
  <2>3. r.cid <= cid[r.cli] \/ r.cid = cid'[r.cli]
    BY <1>2, Zenon DEF IndInv, RegisterInv, RegisterEffect
  <2> QED
    BY <2>1, <2>2, <2>3
<1>3. ASSUME NEW r \in registerResps'
      PROVE  /\ r.cid <= cid'[r.cli]
             /\ r.params \in 1 .. pp'
             /\ r.key.epoch = r.params
             /\ r.t = t
             /\ r.key.kind = "share" => r.key \in issued'
  <2>1. /\ r \in registerResps /\ r \in RegisterResp /\ r.cid <= cid[r.cli]
        /\ r.params \in 1 .. pp' /\ r.key.epoch = r.params /\ r.t = t
        /\ r.key.kind = "share" => r.key \in issued'
    BY <1>3, Zenon DEF IndInv, TypeOK, TATypeOK, RegisterInv, RegisterEffect
  <2>2. r.cid \in Nat /\ r.cli \in Client
    BY <2>1, Zenon DEF RegisterResp
  <2>3. cid'[r.cli] \in Nat /\ cid[r.cli] \in Nat /\ cid'[r.cli] >= cid[r.cli]
    BY <2>2, Zenon DEF IndInv, TypeOK, BrpcTypeOK, RegisterEffect
  <2>4. r.cid <= cid'[r.cli]
    BY <2>1, <2>2, <2>3
  <2> QED
    BY <2>1, <2>4, Zenon
<1> QED
  BY <1>1, <1>2, <1>3, Zenon DEF RegisterInv

(* The pending call of a UAV is not disturbed by another process. *)
LEMMA OthersOwnId ==
    ASSUME IndInv, NEW c \in Client, RegisterEffect(c), NEW i \in Port, uavProc(i) # c,
           uavPc'[i] = uavPc[i], reqId'[i] = reqId[i]
    PROVE  OwnId(i)'
<1>1. cid'[uavProc(i)] = cid[uavProc(i)]
  BY Procs, Zenon DEF RegisterEffect
<1> QED
  BY <1>1, Zenon DEF IndInv, OwnIdInv, OwnId, Answers, RegisterEffect

(* Rows stay good while the TA goes on issuing shares. *)
LEMMA RowsStayGood ==
    ASSUME issued \subseteq issued', NEW rows, GoodRows(rows)
    PROVE  GoodRows(rows)'
  BY Zenon DEF GoodRows, GoodRow

(* The collected rows stay good while nobody touches them. *)
LEMMA AggInvFrame ==
    ASSUME AggInv, UNCHANGED <<pp, issued, aggPc, aggMem>>
    PROVE  AggInv'
  BY Zenon DEF AggInv, GoodRows, GoodRow, aggMem

(* The Tran messages stay good while nobody touches them. *)
LEMMA TranInvFrame ==
    ASSUME TranInv, UNCHANGED <<pp, issued, tranVars>>
    PROVE  TranInv'
  BY Zenon DEF TranInv, GoodRows, GoodRow, tranVars

(* What Verify reads of a verifier, beside the Sigma. *)
Holds(v, sigma, p, n) ==
    /\ sigma.rk = p
    /\ sigma.PK_v = v
    /\ \A k \in 1 .. n :
          /\ sigma.rows[k].of.epoch = p
          /\ sigma.rows[k].t = n
          /\ sigma.rows[k].ID = sigma.rows[k].of.ID
          /\ sigma.rows[k].ID # ZeroId
    /\ \A k, l \in 1 .. n : k # l => sigma.rows[k].ID # sigma.rows[l].ID

(* The pairing equation does not change while params and T do not. *)
LEMMA EquationSame ==
    ASSUME NEW v, NEW sigma, params'[v] = params[v], T'[v] = T[v], seen'[v] = sigma
    PROVE  equation(v, seen[v])' <=> equation(v, sigma)
<1>1. equation(v, sigma) <=> Holds(v, sigma, params[v], T[v])
  BY Zenon DEF equation, Holds
<1>2. equation(v, seen[v])' <=> Holds(v, seen'[v], params'[v], T'[v])
  BY Zenon DEF equation, Holds
<1> QED
  BY <1>1, <1>2, Zenon

(* A step leaves what was drawn for the parameter sets a Sigma stems from. *)
DrawsKept(v, sigma) ==
    /\ drawn'[params[v]] = drawn[params[v]]
    /\ drawn'[sigma.rk] = drawn[sigma.rk]
    /\ \A k \in 1 .. T[v] :
          drawn'[sigma.rows[k].of.epoch] = drawn[sigma.rows[k].of.epoch]

(* What `garbled' reads of the draws. *)
Lost(sigma, p, n, d) ==
    \/ d[p].PKInf
    \/ d[sigma.rk].gZero
    \/ \E k \in 1 .. n :
          \/ d[sigma.rows[k].of.epoch].gZero
          \/ sigma.rows[k].of.ID \in d[sigma.rows[k].of.epoch].zeros

(* A Sigma does not get garbled, or restored, once it was sent. *)
LEMMA GarbledSame ==
    ASSUME NEW v, NEW sigma, params'[v] = params[v], T'[v] = T[v], seen'[v] = sigma,
           DrawsKept(v, sigma)
    PROVE  garbled(v, seen[v])' <=> garbled(v, sigma)
<1>1. garbled(v, sigma) <=> Lost(sigma, params[v], T[v], drawn)
  BY Zenon DEF garbled, infiniteSig, Lost
<1>2. garbled(v, seen[v])' <=> Lost(seen'[v], params'[v], T'[v], drawn')
  BY Zenon DEF garbled, infiniteSig, Lost
<1>3. Lost(sigma, params[v], T[v], drawn') <=> Lost(sigma, params[v], T[v], drawn)
  BY Zenon DEF DrawsKept, Lost
<1> QED
  BY <1>1, <1>2, <1>3, Zenon

(* What Verify may return for a Sigma does not change afterwards. *)
LEMMA VerifySame ==
    ASSUME NEW v, NEW sigma, params'[v] = params[v], T'[v] = T[v], seen'[v] = sigma,
           DrawsKept(v, sigma)
    PROVE  Verify(v, seen[v])' = Verify(v, sigma)
<1>1. garbled(v, seen[v])' <=> garbled(v, sigma)
  BY GarbledSame, Zenon
<1>2. equation(v, seen[v])' <=> equation(v, sigma)
  BY EquationSame, Zenon
<1>3. Verify(v, seen[v])' = IF garbled(v, seen[v])' THEN {0, 1}
                            ELSE IF equation(v, seen[v])' THEN {1} ELSE {0}
  BY Zenon DEF Verify
<1>4. Verify(v, sigma) = IF garbled(v, sigma) THEN {0, 1}
                         ELSE IF equation(v, sigma) THEN {1} ELSE {0}
  BY Zenon DEF Verify
<1> QED
  BY <1>1, <1>2, <1>3, <1>4, Zenon

(* Nothing is drawn again for a parameter set that was drawn. *)
LEMMA DrawsStay ==
    ASSUME UNCHANGED drawn, NEW v, NEW sigma
    PROVE  DrawsKept(v, sigma)
  BY Zenon DEF DrawsKept

LEMMA LenSeq ==
    ASSUME NEW S, NEW s \in Seq(S) PROVE Len(s) \in Nat
  OBVIOUS

(* What one verifier holds does not depend on the others. *)
LEMMA VerOkFrame ==
    ASSUME NEW v \in Verifier, VerOk(v), UNCHANGED <<pp, drawn, issued>>,
           verPc'[v] = verPc[v], params'[v] = params[v], T'[v] = T[v], res'[v] = res[v],
           seen'[v] = seen[v], oob'[v] = oob[v]
    PROVE  VerOk(v)'
<1>1. GoodRows(seen[v].rows)' <=> GoodRows(seen[v].rows)
  BY Zenon DEF GoodRows, GoodRow
<1>2. Verify(v, seen[v])' = Verify(v, seen[v])
  BY VerifySame, DrawsStay, Zenon
<1> QED
  BY <1>1, <1>2, Zenon DEF VerOk

-----------------------------------------------------------------------------

(* The invariant holds when no process has started. *)
LEMMA IndInvInit == Init => IndInv
<1> SUFFICES ASSUME Init
             PROVE  IndInv
  BY Zenon
<1>1. TypeOK
  BY TypeInit, Zenon
<1>2. Len(drawn) = pp
  BY DEF Init, TAInit
<1>3. TAInv /\ RegisterInv /\ OwnIdInv /\ KeyMatchesId /\ SignInv /\ TranInv
  BY <1>2, TAAssumption, Zenon
  DEF Init, TAInit, UavInit, AggInit, TAInv, RegisterInv, OwnIdInv, OwnId, KeyMatchesId,
      SignInv, TranInv, NoUAV
<1>4. AggInv
  BY DEF Init, TAInit, AggInit, AggInv, GoodRows
<1>5. VerInv
  BY DEF Init, TAInit, VerInit, VerInv, VerOk
<1> QED
  BY <1>1, <1>3, <1>4, <1>5, Zenon DEF IndInv

(* A Sigma that was judged stems from parameter sets that were drawn       *)
(* before, and the TA draws the next one beside them.                      *)
LEMMA TADraws ==
    ASSUME IndInv, taStep, NEW v \in Verifier, res[v] # -1, ~oob[v]
    PROVE  DrawsKept(v, seen[v])
<1>1. \A e \in 1 .. pp : drawn'[e] = drawn[e]
  <2>1. CASE initParams
    BY <2>1 DEF initParams, IndInv, TypeOK, TATypeOK, TAInv
  <2>2. CASE drawn' = drawn
    BY <2>2, Zenon
  <2> QED
    BY <2>1, <2>2, Zenon DEF taStep, startServerTA, Register, exitTA
<1>2. VerOk(v)
  BY Zenon DEF IndInv, VerInv
<1>3. /\ seen[v] \in Sigma /\ GoodRows(seen[v].rows) /\ Len(seen[v].rows) >= T[v]
      /\ seen[v].rk \in 1 .. pp /\ params[v] \in 0 .. pp /\ params[v] # 0 /\ T[v] = t
  BY <1>2, Zenon DEF VerOk
<1>4. params[v] \in 1 .. pp
  BY <1>3
<1>5. ASSUME NEW k \in 1 .. T[v]
      PROVE  seen[v].rows[k].of.epoch \in 1 .. pp
  <2>1. seen[v].rows \in Seq(ParSig)
    BY <1>3, Zenon DEF Sigma
  <2>2. Len(seen[v].rows) \in Nat
    BY <2>1, LenSeq, Zenon
  <2>3. k \in 1 .. Len(seen[v].rows)
    BY <1>3, <2>2, Threshold
  <2>4. seen[v].rows[k].of \in issued
    BY <1>3, <2>3, Zenon DEF GoodRows, GoodRow
  <2> QED
    BY <2>4, Zenon DEF IndInv, TAInv
<1> QED
  BY <1>1, <1>3, <1>4, <1>5, Zenon DEF DrawsKept

(* The TA: issuing keys and drawing new parameters only add to what the    *)
(* other processes rely on.                                                *)
LEMMA IndInvTA ==
    ASSUME IndInv, taStep
    PROVE  IndInv'
<1>1. TypeOK'
  BY TypeTA, Zenon DEF IndInv
<1>2. UNCHANGED <<uavVars, aggVars, verVars, cid>>
  BY Zenon DEF taStep, initParams, startServerTA, Register, exitTA, brpcVars, callVars
<1>3. issued \subseteq issued' /\ pp' \in Nat /\ pp <= pp'
  BY DEF taStep, initParams, startServerTA, Register, exitTA, IndInv, TypeOK, TATypeOK
<1>4. TAInv'
  <2>1. CASE initParams
    <3>1. Len(drawn') = pp'
      BY <2>1 DEF initParams, IndInv, TypeOK, TATypeOK, TAInv
    <3>2. (taPc' # "off" => pp' >= 1) /\ \A s \in issued' : s.epoch \in 1 .. pp'
      BY <2>1 DEF initParams, IndInv, TypeOK, TATypeOK, TAInv, Share
    <3> QED
      BY <3>1, <3>2, Zenon DEF TAInv
  <2>2. CASE startServerTA \/ exitTA
    BY <2>2, Zenon DEF startServerTA, exitTA, IndInv, TAInv
  <2>3. ASSUME NEW r \in registerReqs, Register(r)
        PROVE  TAInv'
    BY <2>3 DEF Register, getUAV, IndInv, TypeOK, TATypeOK, TAInv
  <2> QED
    BY <2>1, <2>2, <2>3, Zenon DEF taStep
<1>5. RegisterInv' /\ OwnIdInv'
  <2>1. ASSUME NEW r \in registerReqs, Register(r)
        PROVE  RegisterInv' /\ OwnIdInv'
    <3> DEFINE key == IF r.ID # HeadId THEN getUAV(r.ID)
                      ELSE [kind |-> "sk", ID |-> r.ID, epoch |-> pp]
               resp == [cli |-> r.cli, cid |-> r.cid, params |-> pp, key |-> key, t |-> t]
    <3>1. /\ registerReqs' \subseteq registerReqs /\ pp' = pp
          /\ registerResps' = registerResps \cup {resp}
          /\ key.kind = "share" => key \in issued'
      BY <2>1, Zenon DEF Register
    <3>2. key.ID = r.ID /\ key.epoch = pp
      BY Zenon DEF getUAV
    <3>3. pp \in 1 .. pp /\ r.cid <= cid[r.cli]
      BY <2>1 DEF Register, IndInv, TypeOK, TATypeOK, TAInv, RegisterInv
    <3> HIDE DEF key
    <3>4. RegisterInv'
      BY <1>2, <1>3, <3>1, <3>2, <3>3, SMTT(30) DEF IndInv, RegisterInv
    <3>5. UNCHANGED <<uavPc, reqId, cid>>
      BY <1>2, Zenon DEF uavVars, uavMem
    <3>6. ASSUME NEW i \in Port PROVE OwnId(i)'
      <4>1. OwnId(i) /\ resp.cli = r.cli /\ resp.cid = r.cid /\ resp.key.ID = r.ID
        BY <3>2, Zenon DEF IndInv, OwnIdInv
      <4> HIDE DEF resp
      <4> QED
        BY <2>1, <3>1, <3>5, <4>1, Zenon DEF OwnId, Answers
    <3>7. OwnIdInv'
      BY <3>6, Zenon DEF OwnIdInv
    <3> QED
      BY <3>4, <3>7, Zenon
  <2>2. CASE initParams \/ startServerTA \/ exitTA
    <3>1. registerReqs' \subseteq registerReqs /\ registerResps' = registerResps
      BY <2>2, Zenon DEF initParams, startServerTA, exitTA
    <3>2. RegisterInv'
      BY <1>2, <1>3, <3>1
      DEF IndInv, TypeOK, TATypeOK, RegisterInv, RegisterResp
    <3>3. OwnIdInv'
      BY <1>2, <3>1, Zenon DEF IndInv, OwnIdInv, OwnId, Answers, uavVars, uavMem
    <3> QED
      BY <3>2, <3>3, Zenon
  <2> QED
    BY <2>1, <2>2, Zenon DEF taStep
<1>6. KeyMatchesId'
  BY <1>2, <1>3, Zenon DEF IndInv, KeyMatchesId, uavVars, uavMem
<1>7. SignInv'
  BY <1>2, <1>3, Zenon DEF IndInv, SignInv, GoodRow, uavVars, signVars, aggVars, aggMem
<1>8. AggInv'
  <2>1. GoodRows(sigmas)'
    BY <1>2, <1>3, Zenon DEF IndInv, AggInv, GoodRows, GoodRow, aggVars, aggMem
  <2> QED
    BY <1>2, <1>3, <2>1 DEF IndInv, TypeOK, TATypeOK, AggTypeOK, AggInv, aggVars, aggMem
<1>9. TranInv'
  <2>1. ASSUME NEW r \in tranResps
        PROVE  r.sigma.rk \in 1 .. pp' /\ GoodRows(r.sigma.rows)'
    BY <1>3, <2>1, RowsStayGood
    DEF IndInv, TypeOK, TATypeOK, AggTypeOK, TranInv, TranResp, Sigma
  <2> QED
    BY <1>2, <2>1, Zenon DEF IndInv, TranInv, aggVars, tranVars
<1>10. VerInv'
  <2>1. ASSUME NEW v \in Verifier
        PROVE  VerOk(v)'
    <3>1. params[v] \in 0 .. pp' /\ (seen[v].rk \in 1 .. pp => seen[v].rk \in 1 .. pp')
      BY <1>3 DEF IndInv, TypeOK, TATypeOK, VerInv, VerOk
    <3>2. GoodRows(seen[v].rows) => GoodRows(seen[v].rows)'
      BY <1>2, <1>3, Zenon DEF GoodRows, GoodRow, verVars, verMem
    <3>3. VerOk(v)
      BY Zenon DEF IndInv, VerInv
    <3>4. ASSUME res[v] # -1, ~oob[v]
          PROVE  Verify(v, seen[v])' = Verify(v, seen[v])
      BY <1>2, <3>4, TADraws, VerifySame, Zenon DEF verVars, verMem
    <3> QED
      BY <1>2, <3>1, <3>2, <3>3, <3>4, Zenon DEF VerOk, verVars, verMem
  <2> QED
    BY <2>1, Zenon DEF VerInv
<1> QED
  BY <1>1, <1>4, <1>5, <1>6, <1>7, <1>8, <1>9, <1>10, Zenon DEF IndInv

-----------------------------------------------------------------------------
(* The UAVs. *)

(* What a UAV keeps of the other UAVs' state, and what it sends. *)
LEMMA UavKeeps ==
    ASSUME IndInv, NEW i \in Port, uavStep(i)
    PROVE  /\ \A j \in Port : j # i => /\ uavPc'[j] = uavPc[j] /\ reqId'[j] = reqId[j]
                                       /\ uav'[j] = uav[j] /\ pp_UAV'[j] = pp_UAV[j]
           /\ signReqs' \subseteq signReqs
  BY ZenonT(40) DEF uavStep, startUAV, registerUAVCall, registerUAVNoChannel, registerUAVSkip,
         registerUAVOk, registerUAVFailed, registerUAVRetry, startUAVServer, sign, exitUAV,
         askUAVToQuit, uavGone, uavGoto, uavVars, uavMem, signVars, IndInv, TypeOK, UavTypeOK

(* A UAV only signs with the key it saved, for a request to its own port. *)
LEMMA UavSigns ==
    ASSUME IndInv, NEW i \in Port, uavStep(i), NEW r \in signResps', r \notin signResps
    PROVE  \E q \in signReqs : /\ q.port = i /\ q.t = t
                               /\ uav[i].key # NoKey
                               /\ r = [cli |-> q.cli, cid |-> q.cid, sig |-> Sign(i, t)]
<1>1. PICK q \in signReqs : sign(i, q)
  BY Zenon DEF uavStep, startUAV, registerUAVCall, registerUAVNoChannel, registerUAVSkip,
         registerUAVOk, registerUAVFailed, registerUAVRetry, startUAVServer, exitUAV,
         askUAVToQuit, uavGone, uavVars, signVars
<1>2. q.t = t
  BY Zenon DEF IndInv, SignInv
<1>3. q.t - 1 <= keyLen(i) /\ q.port = i
      /\ r = [cli |-> q.cli, cid |-> q.cid, sig |-> Sign(i, q.t)]
  BY <1>1, Zenon DEF sign
<1>4. uav[i].key # NoKey
  BY <1>2, <1>3, Threshold DEF keyLen
<1> QED
  BY <1>2, <1>3, <1>4, Zenon

(* A UAV saves only what answers its own call and signs only with that.    *)
LEMMA IndInvUav ==
    ASSUME IndInv, NEW i \in Port, uavStep(i), UNCHANGED <<aggVars, verVars>>
    PROVE  IndInv'
<1>1. TypeOK'
  BY TypeUav, Zenon
<1>2. RegisterEffect(uavProc(i)) /\ uavProc(i) \in Client
  BY UavRegister, Procs, Zenon DEF IndInv
<1>3. UNCHANGED <<taPc, pp, drawn, registerResps, issued>> /\ cid'[aggProc] = cid[aggProc]
  BY <1>2, Procs, Zenon DEF RegisterEffect
<1>4. TAInv' /\ RegisterInv'
  BY <1>1, <1>2, ClientRegister, Zenon
<1>5. OwnIdInv'
  <2>1. ASSUME NEW j \in Port, j # i
        PROVE  OwnId(j)'
    BY <1>2, <2>1, UavKeeps, OthersOwnId, Procs, Zenon
  <2>2. CASE uavPc'[i] # "registering"
    BY <2>1, <2>2, Zenon DEF OwnIdInv, OwnId
  <2>3. CASE registerUAVCall(i)
    <3>1. PICK id \in Draw[uavProc(i)] :
            /\ reqId' = [reqId EXCEPT ![i] = id]
            /\ NewCall(uavProc(i))
            /\ sendRegister(uavProc(i), id)
      BY <2>3, Zenon DEF registerUAVCall
    <3>2. cid'[uavProc(i)] = cid[uavProc(i)] + 1 /\ reqId'[i] = id
      BY <1>2, <3>1, NewCallType, Zenon DEF IndInv, TypeOK, BrpcTypeOK, UavTypeOK
    <3>3. \A r \in registerReqs \cup registerResps :
             ~(r.cli = uavProc(i) /\ r.cid = cid'[uavProc(i)])
      <4>1. cid[uavProc(i)] \in Nat
        BY Procs, Zenon DEF IndInv, TypeOK, BrpcTypeOK
      <4>2. \A r \in registerReqs \cup registerResps :
               r.cid \in Nat /\ (r.cli = uavProc(i) => r.cid <= cid[uavProc(i)])
        BY Zenon DEF IndInv, RegisterInv, TypeOK, TATypeOK, RegisterReq, RegisterResp
      <4> QED
        BY <3>2, <4>1, <4>2
    <3>4. OwnId(i)'
      BY <1>3, <3>1, <3>2, <3>3 DEF OwnId, Answers, sendRegister
    <3> QED
      BY <2>1, <3>4, Zenon DEF OwnIdInv
  <2>4. CASE registerUAVRetry(i)
    <3>1. /\ UNCHANGED <<uavPc, reqId, registerResps, cid>>
          /\ registerReqs' = registerReqs \cup
                {[cli |-> uavProc(i), cid |-> cid'[uavProc(i)], ID |-> reqId[i]]}
      BY <2>4, Zenon
      DEF registerUAVRetry, retryRegister, Reissue, sendRegister, uavVars, uavMem
    <3>2. OwnId(i)
      BY Zenon DEF IndInv, OwnIdInv
    <3>3. OwnId(i)'
      BY <3>1, <3>2 DEF OwnId, Answers
    <3> QED
      BY <2>1, <3>3, Zenon DEF OwnIdInv
  <2> QED
    BY <2>2, <2>3, <2>4, Zenon
    DEF uavStep, startUAV, registerUAVNoChannel, registerUAVSkip, registerUAVOk,
        registerUAVFailed, startUAVServer, sign, exitUAV, askUAVToQuit, uavGone, uavGoto,
        uavVars, IndInv, TypeOK, UavTypeOK
<1>6. KeyMatchesId'
  <2>1. ASSUME NEW r \in registerResps, registerUAVOk(i, r), ~uavGone(i)
        PROVE  uav'[i].key # NoKey => /\ uav'[i].key \in issued
                                      /\ uav'[i].key.ID = uav'[i].ID
                                      /\ uav'[i].key.epoch = pp_UAV'[i]
    <3>1. /\ uav'[i] = [ID |-> reqId[i], key |-> IF r.key.kind = "share" THEN r.key ELSE NoKey]
          /\ pp_UAV'[i] = r.params
      BY <2>1, Zenon DEF registerUAVOk, savedUAV, IndInv, TypeOK, UavTypeOK
    <3>2. r.key.ID = reqId[i] /\ r.key.epoch = r.params
          /\ (r.key.kind = "share" => r.key \in issued)
      BY <2>1, Zenon DEF registerUAVOk, IndInv, OwnIdInv, OwnId, RegisterInv
    <3>3. CASE r.key.kind = "share"
      BY <3>1, <3>2, <3>3
    <3>4. CASE r.key.kind # "share"
      BY <3>1, <3>4
    <3> QED
      BY <3>3, <3>4, Zenon
  <2>2. CASE uavGone(i)
    BY <1>3, <2>2, UavKeeps, Zenon DEF uavGone, NoUAV, IndInv, TypeOK, UavTypeOK, KeyMatchesId
  <2>3. CASE UNCHANGED <<uav, pp_UAV>>
    BY <1>3, <2>3, Zenon DEF IndInv, KeyMatchesId
  <2> QED
    BY <1>3, <2>1, <2>2, <2>3, UavKeeps, ZenonT(40)
    DEF uavStep, startUAV, registerUAVCall, registerUAVNoChannel, registerUAVSkip,
        registerUAVFailed, registerUAVRetry, startUAVServer, sign, exitUAV, askUAVToQuit,
        uavVars, uavMem, IndInv, KeyMatchesId
<1>7. SignInv'
  <2>1. aggPc' = aggPc /\ aggI' = aggI
    BY Zenon DEF aggVars, aggMem
  <2>2. ASSUME NEW r \in signResps'
        PROVE  /\ r.cid <= cid[aggProc]
               /\ GoodRow(r.sig)
               /\ aggPc = "collecting" /\ r.cid = cid[aggProc] => r.sig.port = aggI
    <3>1. CASE r \in signResps
      BY <3>1, Zenon DEF IndInv, SignInv
    <3>2. CASE r \notin signResps
      <4>1. PICK q \in signReqs : /\ q.port = i /\ q.t = t
                                  /\ uav[i].key # NoKey
                                  /\ r = [cli |-> q.cli, cid |-> q.cid, sig |-> Sign(i, t)]
        BY <3>2, UavSigns, Zenon
      <4>2. GoodRow(r.sig)
        BY <4>1, Zenon DEF GoodRow, Sign, IndInv, KeyMatchesId
      <4> QED
        BY <4>1, <4>2, Zenon DEF Sign, IndInv, SignInv
    <3> QED
      BY <3>1, <3>2, Zenon
  <2> QED
    BY <1>3, <2>1, <2>2, UavKeeps, Zenon DEF SignInv, GoodRow, IndInv
<1>8. AggInv' /\ TranInv' /\ VerInv'
  BY <1>3, AggInvFrame, TranInvFrame, VerOkFrame, Zenon
  DEF IndInv, VerInv, aggVars, tranVars, verVars, verMem
<1> QED
  BY <1>1, <1>4, <1>5, <1>6, <1>7, <1>8, Zenon DEF IndInv

-----------------------------------------------------------------------------
(* The aggregator. *)

(* Rows carry port numbers. *)
LEMMA PortNat == \A s \in ParSig : s.port \in Nat
  BY BrpcAssumption DEF ParSig, Port

(* A row that comes from the port asked last extends the collection. *)
LEMMA AppendRow ==
    ASSUME NEW rows \in Seq(ParSig), NEW s \in ParSig, NEW n \in Nat,
           GoodRows(rows), GoodRow(s), \A k \in 1 .. Len(rows) : rows[k].port < n, s.port = n
    PROVE  /\ GoodRows(Append(rows, s))
           /\ \A k \in 1 .. Len(Append(rows, s)) : Append(rows, s)[k].port < n + 1
<1> DEFINE new == Append(rows, s)
<1>1. /\ Len(rows) \in Nat /\ Len(new) = Len(rows) + 1
      /\ \A k \in 1 .. Len(rows) : new[k] = rows[k]
      /\ new[Len(rows) + 1] = s
  OBVIOUS
<1>2. \A k \in 1 .. Len(rows) : rows[k].port \in Nat
  <2>1. \A k \in 1 .. Len(rows) : rows[k] \in ParSig
    OBVIOUS
  <2> QED
    BY <2>1, PortNat, Zenon
<1> HIDE DEF new
<1>3. \A k \in 1 .. Len(new) : GoodRow(new[k]) /\ new[k].port < n + 1
  <2> SUFFICES ASSUME NEW k \in 1 .. Len(new)
               PROVE  GoodRow(new[k]) /\ new[k].port < n + 1
    BY Zenon
  <2>1. k \in 1 .. Len(rows) \/ k = Len(rows) + 1
    BY <1>1
  <2> QED
    BY <1>1, <1>2, <2>1 DEF GoodRows
<1>4. \A k, l \in 1 .. Len(new) : k < l => new[k].port < new[l].port
  <2> SUFFICES ASSUME NEW k \in 1 .. Len(new), NEW l \in 1 .. Len(new), k < l
               PROVE  new[k].port < new[l].port
    BY Zenon
  <2>1. k \in 1 .. Len(rows) /\ (l \in 1 .. Len(rows) \/ l = Len(rows) + 1)
    BY <1>1
  <2> QED
    BY <1>1, <2>1, Zenon DEF GoodRows
<1> QED
  BY <1>3, <1>4, Zenon DEF GoodRows, new

(* The aggregator stores only what answers the call to the port it asked.  *)
LEMMA IndInvAgg ==
    ASSUME IndInv, aggStep, UNCHANGED verVars
    PROVE  IndInv'
<1>1. TypeOK'
  BY TypeAgg, Zenon
<1>2. RegisterEffect(aggProc) /\ aggProc \in Client /\ UNCHANGED <<uavPc, uavMem, signResps>>
  BY AggRegister, Procs, Zenon DEF IndInv
<1>3. UNCHANGED <<taPc, pp, drawn, registerResps, issued>>
  BY <1>2, Zenon DEF RegisterEffect
<1>4. TAInv' /\ RegisterInv'
  BY <1>1, <1>2, ClientRegister, Zenon
<1>5. OwnIdInv'
  BY <1>2, OthersOwnId, Procs, Zenon DEF OwnIdInv, uavMem
<1>6. KeyMatchesId'
  BY <1>2, <1>3, Zenon DEF IndInv, KeyMatchesId, uavMem
<1>7. SignInv'
  <2>1. ASSUME NEW r \in signReqs \cup signResps
        PROVE  r.cid \in Nat /\ r.cid <= cid[aggProc] /\ r.cid <= cid'[aggProc]
    BY <1>1, <1>2, <2>1
    DEF IndInv, SignInv, RegisterEffect, TypeOK, BrpcTypeOK, UavTypeOK, SignReq, SignResp
  <2>2. CASE collectParSigsCall
    <3>1. cid'[aggProc] = cid[aggProc] + 1 /\ t_AGG = t
      BY <1>2, <2>2, NewCallType
      DEF collectParSigsCall, IndInv, TypeOK, BrpcTypeOK, AggTypeOK
    <3>2. \A r \in signReqs \cup signResps : r.cid # cid'[aggProc]
      BY <1>2, <2>1, <3>1 DEF IndInv, TypeOK, BrpcTypeOK
    <3>3. aggI' = aggI /\ signReqs' = signReqs \cup {signReq(cid'[aggProc])}
      BY <2>2, Zenon DEF collectParSigsCall, aggMem
    <3>4. signReq(cid'[aggProc]).cid = cid'[aggProc] /\ signReq(cid'[aggProc]).t = t
          /\ signReq(cid'[aggProc]).port = aggI
      BY <3>1, Zenon DEF signReq
    <3>5. cid'[aggProc] <= cid'[aggProc]
      BY <1>1, <1>2 DEF TypeOK, BrpcTypeOK
    <3> QED
      BY <1>2, <1>3, <2>1, <3>2, <3>3, <3>4, <3>5, Zenon DEF IndInv, SignInv, GoodRow
  <2>3. CASE collectParSigsRetry
    <3>1. t_AGG = t /\ cid' = cid /\ UNCHANGED <<aggPc, aggI>>
      BY <2>3 DEF collectParSigsRetry, Reissue, IndInv, AggInv, TypeOK, AggTypeOK, aggVars, aggMem
    <3>2. cid[aggProc] <= cid[aggProc]
      BY <1>2 DEF IndInv, TypeOK, BrpcTypeOK
    <3>3. signReqs' = signReqs \cup {signReq(cid[aggProc])} /\ signResps' = signResps
      BY <1>2, <2>3, Zenon DEF collectParSigsRetry
    <3>4. signReq(cid[aggProc]).cid = cid[aggProc] /\ signReq(cid[aggProc]).t = t
          /\ signReq(cid[aggProc]).port = aggI
      BY <3>1, Zenon DEF signReq
    <3> QED
      BY <1>3, <3>1, <3>2, <3>3, <3>4, Zenon DEF IndInv, SignInv, GoodRow
  <2>4. CASE aggPc' # "collecting" /\ signReqs' = signReqs
    BY <1>2, <1>3, <2>1, <2>4, Zenon DEF IndInv, SignInv, GoodRow
  <2>5. CASE askAggToQuit
    BY <1>2, <1>3, <2>5, Zenon
    DEF askAggToQuit, AskToQuit, uavVars, signVars, aggVars, aggMem, IndInv, SignInv, GoodRow
  <2> QED
    BY <2>2, <2>3, <2>4, <2>5, ZenonT(40)
    DEF aggStep, startAgg, getPpAndSkCall, getPpAndSkNoCall, getPpAndSkOk, getPpAndSkFailed,
        getPpAndSkRetry, collectParSigsOk, collectParSigsFailed, collectParSigsSkip,
        collectParSigsReturn, collectParSigsNoChannel, startServerTran, Tran, exitAgg,
        aggGone, aggGoto, aggVars, uavVars, signVars
<1>8. AggInv'
  <2>1. CASE aggGone
    <3>1. pp \in Nat /\ pp' = pp
      BY <1>3, Zenon DEF IndInv, TypeOK, TATypeOK
    <3>2. 0 \in 0 .. pp /\ Len(<<>>) = 0 /\ 1 .. 0 = {}
      BY <3>1
    <3>3. aggPc' = "off" /\ pp_AGG' = 0 /\ t_AGG' = 0 /\ sigmas' = <<>>
      BY <2>1, Zenon DEF aggGone
    <3>4. 1 .. Len(sigmas') = {}
      BY <3>2, <3>3, Zenon
    <3>5. GoodRows(sigmas)'
      BY <3>4, Zenon DEF GoodRows
    <3>6. pp_AGG' \in 0 .. pp'
      BY <3>1, <3>3
    <3>7. t_AGG' = (IF pp_AGG' = 0 THEN 0 ELSE t) /\ aggPc' # "collecting"
      BY <3>3, Zenon
    <3> QED
      BY <3>4, <3>5, <3>6, <3>7, Zenon DEF AggInv
  <2>2. ASSUME NEW r \in registerResps, getPpAndSkOk(r)
        PROVE  AggInv'
    <3>1. r.params \in 1 .. pp /\ r.t = t
      BY Zenon DEF IndInv, RegisterInv
    <3>2. GoodRows(sigmas)'
      BY <1>3, <2>2, Zenon DEF getPpAndSkOk, IndInv, AggInv, GoodRows, GoodRow
    <3> QED
      BY <1>3, <2>2, <3>1, <3>2
      DEF getPpAndSkOk, aggGoto, IndInv, TypeOK, TATypeOK, AggInv
  <2>3. ASSUME NEW r \in signResps, collectParSigsOk(r)
        PROVE  AggInv'
    <3>1. GoodRow(r.sig) /\ r.sig.port = aggI /\ r.sig \in ParSig
      BY <2>3, Zenon
      DEF collectParSigsOk, aggGoto, Answers, IndInv, SignInv, TypeOK, UavTypeOK, SignResp
    <3>2. aggI \in Nat /\ sigmas \in Seq(ParSig)
      BY Threshold DEF IndInv, TypeOK, AggTypeOK
    <3>3. /\ GoodRows(Append(sigmas, r.sig))
          /\ \A k \in 1 .. Len(Append(sigmas, r.sig)) : Append(sigmas, r.sig)[k].port < aggI + 1
      BY <3>1, <3>2, AppendRow, Zenon DEF IndInv, AggInv
    <3>4. GoodRows(sigmas)' /\ \A k \in 1 .. Len(sigmas') : sigmas'[k].port < aggI'
      BY <1>3, <2>3, <3>3, Zenon DEF collectParSigsOk, GoodRows, GoodRow
    <3> QED
      BY <1>3, <2>3, <3>4, Zenon DEF collectParSigsOk, aggGoto, IndInv, AggInv
  <2>4. ASSUME UNCHANGED <<pp_AGG, t_AGG, sigmas>>, aggI' \in {aggI, aggI + 1},
               aggPc' = "collecting" => aggI' < t_AGG
        PROVE  AggInv'
    <3>1. GoodRows(sigmas)'
      BY <1>3, <2>4, Zenon DEF IndInv, AggInv, GoodRows, GoodRow
    <3>2. ASSUME NEW k \in 1 .. Len(sigmas)
          PROVE  sigmas[k].port < aggI'
      <4>1. sigmas[k] \in ParSig /\ aggI \in Nat
        BY Threshold DEF IndInv, TypeOK, AggTypeOK
      <4> QED
        BY <2>4, <4>1, PortNat DEF IndInv, AggInv
    <3> QED
      BY <1>3, <2>4, <3>1, <3>2, Zenon DEF IndInv, AggInv
  <2>5. CASE \/ startAgg \/ getPpAndSkCall \/ getPpAndSkNoCall \/ getPpAndSkFailed
             \/ getPpAndSkRetry \/ collectParSigsCall \/ collectParSigsFailed
             \/ collectParSigsSkip \/ collectParSigsRetry \/ collectParSigsReturn
             \/ collectParSigsNoChannel \/ askAggToQuit
    BY <2>4, <2>5, Zenon
    DEF startAgg, getPpAndSkCall, getPpAndSkNoCall, getPpAndSkFailed, getPpAndSkRetry,
        collectParSigsCall, collectParSigsFailed, collectParSigsSkip, collectParSigsRetry,
        collectParSigsReturn, collectParSigsNoChannel, askAggToQuit, aggGoto, aggVars, aggMem,
        IndInv, AggInv
  <2>6. CASE startServerTran \/ exitAgg \/ \E r \in tranReqs : Tran(r)
    BY <2>1, <2>4, <2>6, Zenon DEF startServerTran, exitAgg, Tran, aggMem
  <2> QED
    BY <2>2, <2>3, <2>5, <2>6, Zenon DEF aggStep
<1>9. TranInv'
  <2>1. ASSUME NEW r \in tranReqs, Tran(r), pp_AGG # 0
        PROVE  TranInv'
    <3>1. /\ tranReqs' \subseteq tranReqs
          /\ tranResps' = tranResps \cup
                {[cli |-> r.cli, cid |-> r.cid, sigma |-> AggSig(r.PK_v)]}
      BY <2>1, Zenon DEF Tran
    <3>2. r.cli = verProc(r.PK_v) /\ pp_AGG \in 1 .. pp /\ GoodRows(sigmas)
      BY <2>1 DEF IndInv, TypeOK, TATypeOK, AggTypeOK, TranInv, AggInv
    <3>3. ASSUME NEW q \in tranResps'
          PROVE  q.cli = verProc(q.sigma.PK_v) /\ q.sigma.rk \in 1 .. pp' /\ GoodRows(q.sigma.rows)'
      BY <1>3, <3>1, <3>2, <3>3, RowsStayGood DEF AggSig, IndInv, TranInv
    <3> QED
      BY <3>1, <3>3, Zenon DEF IndInv, TranInv
  <2>2. CASE tranReqs' \subseteq tranReqs /\ tranResps' = tranResps
    BY <1>3, <2>2, Zenon DEF IndInv, TranInv, GoodRows, GoodRow
  <2> QED
    BY <2>1, <2>2, Zenon
    DEF aggStep, startAgg, getPpAndSkCall, getPpAndSkNoCall, getPpAndSkOk, getPpAndSkFailed,
        getPpAndSkRetry, collectParSigsCall, collectParSigsOk, collectParSigsFailed,
        collectParSigsSkip, collectParSigsRetry, collectParSigsReturn, collectParSigsNoChannel,
        startServerTran, Tran, exitAgg, askAggToQuit, aggGone, aggVars, tranVars
<1>10. VerInv'
  BY <1>3, VerOkFrame, Zenon DEF IndInv, VerInv, verVars, verMem
<1> QED
  BY <1>1, <1>4, <1>5, <1>6, <1>7, <1>8, <1>9, <1>10, Zenon DEF IndInv

(* A verifier examines only what answers its own call. *)
LEMMA IndInvVer ==
    ASSUME IndInv, NEW v \in Verifier, verStep(v)
    PROVE  IndInv'
<1>1. TypeOK'
  BY TypeVer, Zenon
<1>2. /\ RegisterEffect(verProc(v)) /\ verProc(v) \in Client /\ verProc(v) # aggProc
      /\ UNCHANGED <<uavVars, aggPc, aggMem, tranResps>>
      /\ tranReqs' \subseteq tranReqs \cup {tranReq(v, cid'[verProc(v)])}
  BY VerRegister, Procs, Zenon DEF IndInv
<1>3. UNCHANGED <<taPc, pp, drawn, registerResps, issued>> /\ cid'[aggProc] = cid[aggProc]
  BY <1>2, Procs, Zenon DEF RegisterEffect
<1>4. TAInv' /\ RegisterInv'
  BY <1>1, <1>2, ClientRegister, Zenon
<1>5. OwnIdInv'
  BY <1>2, OthersOwnId, Procs, Zenon DEF OwnIdInv, uavVars, uavMem
<1>6. KeyMatchesId'
  BY <1>2, <1>3, Zenon DEF IndInv, KeyMatchesId, uavVars, uavMem
<1>7. SignInv'
  BY <1>2, <1>3, Zenon DEF IndInv, SignInv, GoodRow, uavVars, signVars, aggMem
<1>8. AggInv'
  BY <1>2, <1>3, AggInvFrame, Zenon DEF IndInv
<1>9. TranInv'
  <2>1. pp' = pp /\ issued \subseteq issued' /\ tranResps' = tranResps /\ TranInv
    BY <1>2, <1>3, Zenon DEF IndInv
  <2>2. ASSUME NEW r \in tranReqs' PROVE r.cli = verProc(r.PK_v)
    <3>1. r \in tranReqs \/ r = tranReq(v, cid'[verProc(v)])
      BY <1>2, <2>2, Zenon
    <3>2. tranReq(v, cid'[verProc(v)]).cli = verProc(v) /\ tranReq(v, cid'[verProc(v)]).PK_v = v
      BY DEF tranReq
    <3> QED
      BY <2>1, <3>1, <3>2, Zenon DEF TranInv
  <2>3. ASSUME NEW r \in tranResps'
        PROVE  r.cli = verProc(r.sigma.PK_v) /\ r.sigma.rk \in 1 .. pp' /\ GoodRows(r.sigma.rows)'
    <3>1. r.cli = verProc(r.sigma.PK_v) /\ r.sigma.rk \in 1 .. pp /\ GoodRows(r.sigma.rows)
      BY <2>1, <2>3, Zenon DEF TranInv
    <3> QED
      BY <2>1, <3>1, RowsStayGood, Zenon
  <2> QED
    BY <2>2, <2>3, Zenon DEF TranInv
<1>10. VerInv'
  <2>1. ASSUME NEW w \in Verifier, w # v
        PROVE  VerOk(w)'
    <3>1. /\ verPc'[w] = verPc[w] /\ params'[w] = params[w] /\ T'[w] = T[w]
          /\ res'[w] = res[w] /\ seen'[w] = seen[w] /\ oob'[w] = oob[w]
      BY <2>1, ZenonT(40)
      DEF verStep, startVerifier, getParamsCall, getParamsNoCall, getParamsOk, getParamsFailed,
          getParamsRetry, verifySignatureCall, verifySignatureCrash, verifySignatureNoCall,
          verifySignatureOk, verifySignatureFailed, verifySignatureRetry, exitVerifier,
          askVerifierToQuit, verGoto, verVars, verMem, IndInv, TypeOK, VerTypeOK
    <3> QED
      BY <1>3, <3>1, VerOkFrame, Zenon DEF IndInv, VerInv
  <2>2. VerOk(v)
    BY Zenon DEF IndInv, VerInv
  <2>3. ASSUME NEW r \in registerResps, getParamsOk(v, r)
        PROVE  VerOk(v)'
    <3>1. r.params \in 1 .. pp /\ r.t = t
      BY Zenon DEF IndInv, RegisterInv
    <3>2. /\ verPc[v] = "getting" /\ verPc'[v] = "verifySignature"
          /\ params'[v] = r.params /\ T'[v] = t
          /\ res'[v] = res[v] /\ seen'[v] = seen[v]
      BY <2>3, <3>1, Zenon DEF getParamsOk, verGoto, IndInv, TypeOK, VerTypeOK
    <3>3. res[v] = -1 /\ seen[v] = NoSigma
      BY <2>2, <3>2, Zenon DEF VerOk
    <3>4. r.params \in 0 .. pp /\ r.params # 0
      BY <3>1
    <3>5. pp' = pp
      BY <1>3, Zenon
    <3>6. T'[v] = IF params'[v] = 0 THEN 0 ELSE t
      BY <3>2, <3>4, Zenon
    <3>7. /\ res'[v] = -1 /\ seen'[v] = NoSigma /\ params'[v] \in 0 .. pp'
          /\ verPc'[v] # "waiting"
      BY <3>2, <3>3, <3>4, <3>5, Zenon
    <3> QED
      BY <3>6, <3>7, Zenon DEF VerOk
  <2>4. ASSUME NEW r \in tranResps, verifySignatureOk(v, r)
        PROVE  VerOk(v)'
    <3>1. r.sigma \in Sigma /\ r.sigma.rk \in 1 .. pp /\ r.sigma.PK_v = v
      <4>1. r.sigma \in Sigma
        BY Zenon DEF IndInv, TypeOK, AggTypeOK, TranResp
      <4>2. r.cli = verProc(r.sigma.PK_v) /\ r.sigma.rk \in 1 .. pp
        BY Zenon DEF IndInv, TranInv
      <4>3. r.sigma.PK_v \in Verifier
        BY <4>1, Zenon DEF Sigma
      <4>4. r.cli = verProc(v)
        BY <2>4, Zenon DEF verifySignatureOk, Answers
      <4> QED
        BY <4>1, <4>2, <4>3, <4>4, Procs, Zenon
    <3>2. GoodRows(r.sigma.rows)'
      BY <1>3, RowsStayGood, Zenon DEF IndInv, TranInv
    <3>3. /\ verPc[v] = "waiting" /\ verPc'[v] \in {"done", "crashed"}
          /\ params'[v] = params[v] /\ T'[v] = T[v] /\ params[v] # 0
          /\ seen'[v] = r.sigma
      BY <2>2, <2>4, Zenon DEF verifySignatureOk, VerOk, IndInv, TypeOK, VerTypeOK
    <3>4. r.sigma # NoSigma
      BY <3>1, Threshold DEF NoSigma, Sigma
    <3>5. res'[v] # -1 /\ ~oob'[v] => /\ Len(r.sigma.rows) >= T[v]
                                      /\ res'[v] \in Verify(v, r.sigma)
      BY <2>4, Zenon DEF verifySignatureOk, IndInv, TypeOK, VerTypeOK
    <3>6. Verify(v, seen[v])' = Verify(v, r.sigma)
      BY <1>3, <3>3, VerifySame, DrawsStay, Zenon
    <3>7. GoodRows(seen[v].rows)'
      BY <3>2, <3>3, Zenon DEF GoodRows, GoodRow
    <3> QED
      BY <1>3, <2>2, <3>1, <3>3, <3>4, <3>5, <3>6, <3>7, Zenon DEF VerOk
  <2>5. ASSUME params'[v] = params[v], T'[v] = T[v], res'[v] = res[v],
               seen'[v] = seen[v], oob'[v] = oob[v],
               verPc'[v] = "waiting" => params[v] # 0,
               verPc'[v] \in {"done", "crashed"} \/ verPc[v] \notin {"done", "crashed"}
        PROVE  VerOk(v)'
    <3>1. GoodRows(seen[v].rows)' <=> GoodRows(seen[v].rows)
      BY <1>3, <2>5, Zenon DEF GoodRows, GoodRow
    <3>2. Verify(v, seen[v])' = Verify(v, seen[v])
      BY <1>3, <2>5, VerifySame, DrawsStay, Zenon
    <3> QED
      BY <1>3, <2>2, <2>5, <3>1, <3>2, Zenon DEF VerOk
  <2>6. ASSUME \/ startVerifier(v) \/ getParamsCall(v) \/ getParamsNoCall(v)
               \/ getParamsFailed(v) \/ getParamsRetry(v) \/ verifySignatureCall(v)
               \/ verifySignatureCrash(v) \/ verifySignatureNoCall(v)
               \/ verifySignatureFailed(v) \/ verifySignatureRetry(v)
               \/ exitVerifier(v) \/ askVerifierToQuit(v)
        PROVE  VerOk(v)'
    BY <2>2, <2>5, <2>6, Zenon
    DEF startVerifier, getParamsCall, getParamsNoCall, getParamsFailed, getParamsRetry,
        verifySignatureCall, verifySignatureCrash, verifySignatureNoCall,
        verifySignatureFailed, verifySignatureRetry, exitVerifier, askVerifierToQuit, verGoto,
        verVars, verMem, VerOk, IndInv, TypeOK, VerTypeOK
  <2>7. VerOk(v)'
    BY <2>3, <2>4, <2>6, Zenon DEF verStep
  <2> QED
    BY <2>1, <2>7, Zenon DEF VerInv
<1> QED
  BY <1>1, <1>4, <1>5, <1>6, <1>7, <1>8, <1>9, <1>10, Zenon DEF IndInv

(* Nothing changes when nothing happens. *)
LEMMA IndInvStutter == IndInv /\ UNCHANGED vars => IndInv'
<1> SUFFICES ASSUME IndInv, UNCHANGED vars
             PROVE  IndInv'
  BY Zenon
<1>1. UNCHANGED <<brpcVars, taVars, uavVars, aggVars, verVars>>
  BY Zenon DEF vars
<1>2. TypeOK'
  BY <1>1, BrpcFrame, TAFrame, UavFrame, AggFrame, VerFrame, Zenon DEF IndInv, TypeOK
<1>3. TAInv' /\ RegisterInv' /\ OwnIdInv' /\ KeyMatchesId'
  BY <1>1, Zenon
  DEF IndInv, TAInv, RegisterInv, OwnIdInv, OwnId, Answers, KeyMatchesId, brpcVars, callVars,
      taVars, uavVars, uavMem
<1>4. SignInv'
  BY <1>1, Zenon
  DEF IndInv, SignInv, GoodRow, brpcVars, callVars, taVars, uavVars, signVars, aggVars, aggMem
<1>5. AggInv' /\ TranInv' /\ VerInv'
  BY <1>1, AggInvFrame, TranInvFrame, VerOkFrame, Zenon
  DEF IndInv, VerInv, taVars, aggVars, tranVars, verVars, verMem
<1> QED
  BY <1>2, <1>3, <1>4, <1>5, Zenon DEF IndInv

-----------------------------------------------------------------------------
(* The theorems. *)

(* The inductive invariant holds in every state the four programs reach    *)
(* together.                                                               *)
THEOREM Invariance == Spec => []IndInv
<1>1. IndInv /\ [Next]_vars => IndInv'
  BY IndInvTA, IndInvUav, IndInvAgg, IndInvVer, IndInvStutter, Zenon DEF Next
<1> QED
  BY IndInvInit, <1>1, PTL DEF Spec

(* Every variable keeps its type; in particular collectParSigs never runs  *)
(* past the threshold and a threshold is never anything but 0 or t.        *)
THEOREM TypeCorrect == Spec => []TypeOK
<1>1. IndInv => TypeOK
  BY Zenon DEF IndInv
<1> QED
  BY Invariance, <1>1, PTL

(* registerUAV saves a key the TA issued for the ID it saves beside it.    *)
THEOREM KeysMatchIds == Spec => []KeyMatchesId
<1>1. IndInv => KeyMatchesId
  BY Zenon DEF IndInv
<1> QED
  BY Invariance, <1>1, PTL

(* collectParSigs stores at most one row per port, in port order.          *)
THEOREM OneShare == Spec => []OneSharePerPort
<1>1. IndInv => OneSharePerPort
  BY Zenon DEF IndInv, AggInv, GoodRows, OneSharePerPort
<1> QED
  BY Invariance, <1>1, PTL

(* A verifier examines only what AggSig re-encrypted for its own key.      *)
THEOREM SigmasAreOwn == Spec => []OwnSigma
<1>1. IndInv => OwnSigma
  BY Zenon DEF IndInv, VerInv, VerOk, OwnSigma
<1> QED
  BY Invariance, <1>1, PTL

(* A verifier that prints 1 without reading past the end, for a Sigma      *)
(* without a point at infinity, has t shares of t different UAVs, issued   *)
(* by the TA for t different IDs under the verifier's own parameters.      *)
THEOREM Acceptance == Spec => []AcceptedByThreshold
<1>1. ASSUME IndInv, NEW v \in Verifier, res[v] = 1, ~oob[v], ~garbled(v, seen[v])
      PROVE  LET row == seen[v].rows
             IN  /\ Len(row) >= t
                 /\ \A k \in 1 .. t :
                       row[k].of \in issued /\ row[k].of.epoch = params[v]
                 /\ \A k, l \in 1 .. t :
                       k < l => row[k].of.ID # row[l].of.ID /\ row[k].port # row[l].port
  <2> DEFINE row == seen[v].rows
  <2>1. /\ seen[v] \in Sigma /\ GoodRows(row) /\ T[v] = t
        /\ Len(row) >= t /\ equation(v, seen[v])
    <3>1. 1 # -1 /\ 1 \notin {0}
      OBVIOUS
    <3>2. VerOk(v)
      BY <1>1, Zenon DEF IndInv, VerInv
    <3>3. seen[v] # NoSigma /\ Len(row) >= T[v] /\ equation(v, seen[v])
      BY <1>1, <3>1, <3>2, Zenon DEF VerOk, Verify
    <3>4. /\ seen[v] \in Sigma /\ GoodRows(row) /\ params[v] # 0
          /\ T[v] = IF params[v] = 0 THEN 0 ELSE t
      BY <3>2, <3>3, Zenon DEF VerOk
    <3> QED
      BY <3>3, <3>4, Zenon
  <2>2. /\ Len(row) \in Nat
        /\ \A k \in 1 .. Len(row) : row[k] \in ParSig
    <3>1. row \in Seq(ParSig)
      BY <2>1, Zenon DEF Sigma
    <3> HIDE DEF row
    <3> QED
      BY <3>1
  <2>3. \A k \in 1 .. t : k \in 1 .. Len(row)
    BY <2>1, <2>2, Threshold
  <2>4. ASSUME NEW k \in 1 .. t
        PROVE  /\ row[k].of \in issued /\ row[k].of.epoch = params[v]
               /\ row[k].ID = row[k].of.ID /\ row[k].port \in Nat
    BY <2>1, <2>2, <2>3, PortNat, Zenon DEF GoodRows, GoodRow, equation
  <2>5. ASSUME NEW k \in 1 .. t, NEW l \in 1 .. t, k < l
        PROVE  row[k].of.ID # row[l].of.ID /\ row[k].port # row[l].port
    <3>1. row[k].ID # row[l].ID
      <4>1. k # l
        BY <2>5, Threshold
      <4> QED
        BY <2>1, <4>1, Zenon DEF equation
    <3>2. row[k].port < row[l].port
      BY <2>1, <2>3, <2>5, Zenon DEF GoodRows
    <3>3. \A x, y \in Nat : x < y => x # y
      OBVIOUS
    <3> QED
      BY <2>4, <3>1, <3>2, <3>3, Zenon
  <2> QED
    BY <2>1, <2>4, <2>5, Zenon
<1>2. IndInv => AcceptedByThreshold
  BY <1>1, Zenon DEF AcceptedByThreshold
<1> QED
  BY Invariance, <1>2, PTL

(* A verifier that prints 0 without reading past the end was given a point *)
(* at infinity, an ID that is 0 modulo q, two equal IDs, or values of two  *)
(* runs of the TA; no lost, late or repeated call makes it print 0.        *)
THEOREM Rejection == Spec => []RejectionExplained
<1>1. ASSUME IndInv, NEW v \in Verifier, res[v] = 0, ~oob[v], ~garbled(v, seen[v]),
             \A k \in 1 .. t : seen[v].rows[k].ID # ZeroId,
             \A k, l \in 1 .. t : k < l => seen[v].rows[k].ID # seen[v].rows[l].ID
      PROVE  /\ pp > 1
             /\ \/ seen[v].rk # params[v]
                \/ \E k \in 1 .. t : seen[v].rows[k].of.epoch # params[v]
  <2> DEFINE row == seen[v].rows
  <2>1. /\ seen[v] \in Sigma /\ GoodRows(row) /\ T[v] = t
        /\ params[v] \in 1 .. pp /\ seen[v].rk \in 1 .. pp /\ seen[v].PK_v = v
        /\ Len(row) >= t /\ ~equation(v, seen[v])
    <3>1. 0 # -1 /\ 0 \notin {1}
      OBVIOUS
    <3>2. VerOk(v)
      BY <1>1, Zenon DEF IndInv, VerInv
    <3>3. seen[v] # NoSigma /\ Len(row) >= T[v] /\ ~equation(v, seen[v])
      BY <1>1, <3>1, <3>2, Zenon DEF VerOk, Verify
    <3>4. /\ seen[v] \in Sigma /\ GoodRows(row) /\ seen[v].rk \in 1 .. pp /\ seen[v].PK_v = v
          /\ params[v] # 0 /\ params[v] \in 0 .. pp /\ T[v] = IF params[v] = 0 THEN 0 ELSE t
      BY <3>2, <3>3, Zenon DEF VerOk
    <3>5. params[v] \in 1 .. pp
      BY <3>4
    <3> QED
      BY <3>3, <3>4, <3>5, Zenon
  <2>2. \A k \in 1 .. t : k \in 1 .. Len(row)
    <3>1. row \in Seq(ParSig)
      BY <2>1, Zenon DEF Sigma
    <3> HIDE DEF row
    <3>2. Len(row) \in Nat
      BY <3>1, LenSeq, Zenon
    <3> QED
      BY <2>1, <3>2, Threshold
  <2>3. ASSUME NEW k \in 1 .. t
        PROVE  row[k].of.epoch \in 1 .. pp /\ row[k].t = t /\ row[k].ID = row[k].of.ID
    <3>1. GoodRow(row[k])
      BY <2>1, <2>2, Zenon DEF GoodRows
    <3>2. row[k].of \in issued /\ row[k].ID = row[k].of.ID /\ row[k].t = t
      BY <3>1, Zenon DEF GoodRow
    <3> QED
      BY <1>1, <3>2, Zenon DEF IndInv, TAInv
  <2>4. ASSUME NEW k \in 1 .. t, NEW l \in 1 .. t, k # l
        PROVE  row[k].ID # row[l].ID
    <3>1. k < l \/ l < k
      BY <2>4, Threshold
    <3> QED
      BY <1>1, <3>1, Zenon
  <2>5. \/ seen[v].rk # params[v]
        \/ \E k \in 1 .. t : row[k].of.epoch # params[v]
    BY <1>1, <2>1, <2>3, <2>4, Zenon DEF equation
  <2>6. ASSUME NEW e \in 1 .. pp, e # params[v]
        PROVE  pp > 1
    <3>1. pp \in Nat
      BY <1>1, Zenon DEF IndInv, TypeOK, TATypeOK
    <3>2. params[v] \in 1 .. pp
      BY <2>1, Zenon
    <3> QED
      BY <2>6, <3>1, <3>2
  <2> QED
    BY <2>1, <2>3, <2>5, <2>6, Zenon
<1>2. IndInv => RejectionExplained
  BY <1>1, Zenon DEF RejectionExplained
<1> QED
  BY Invariance, <1>2, PTL

(* No request ends a UAV that holds a key or an aggregator that holds      *)
(* parameters: the threshold it carries is never above tm.                 *)
THEOREM ServersSurvive == Spec => RegisteredServersSurvive
<1> DEFINE Survive ==
        /\ \A i \in Port :
             uavPc[i] = "serving" /\ uav[i].key # NoKey /\ uavPc'[i] # "serving"
                => faults' > faults \/ uavProc(i) \in quit
        /\ aggPc = "serving" /\ pp_AGG # 0 /\ aggPc' # "serving"
                => faults' > faults \/ aggProc \in quit
<1>1. ASSUME IndInv, Next
      PROVE  Survive
  <2>1. Fault => faults' > faults
    BY <1>1 DEF Fault, IndInv, TypeOK, BrpcTypeOK
  <2>2. ASSUME NEW i \in Port, uavPc[i] = "serving", uav[i].key # NoKey, uavPc'[i] # "serving"
        PROVE  faults' > faults \/ uavProc(i) \in quit
    <3>1. uavStep(i)
      <4>1. CASE taStep
        BY <2>2, <4>1, Zenon DEF taStep, uavVars
      <4>2. ASSUME NEW j \in Port, uavStep(j)
            PROVE  j = i
        BY <1>1, <2>2, <4>2, UavKeeps, Zenon
      <4>3. CASE aggStep
        BY <1>1, <2>2, <4>3, AggRegister, Zenon DEF IndInv
      <4>4. ASSUME NEW v \in Verifier, verStep(v)
            PROVE  FALSE
        BY <1>1, <2>2, <4>4, VerRegister, Zenon DEF IndInv, uavVars
      <4> QED
        BY <1>1, <2>2, <4>1, <4>2, <4>3, <4>4, Zenon DEF Next
    <3>2. ~ \E r \in signReqs : sign(i, r)
      <4> SUFFICES ASSUME NEW r \in signReqs, sign(i, r)
                   PROVE  FALSE
        BY Zenon
      <4>1. r.t = t
        BY <1>1, Zenon DEF IndInv, SignInv
      <4>2. r.t - 1 <= keyLen(i)
        BY <2>2, <4>1, Threshold, TAAssumption DEF keyLen
      <4>3. r.t - 1 > keyLen(i)
        BY <2>2, Zenon DEF sign
      <4> QED
        BY <2>2, <4>1, <4>2, <4>3, Threshold, TAAssumption DEF keyLen
    <3> QED
      BY <1>1, <2>1, <2>2, <3>1, <3>2, Zenon
      DEF uavStep, startUAV, registerUAVCall, registerUAVNoChannel, registerUAVSkip,
          registerUAVOk, registerUAVFailed, registerUAVRetry, startUAVServer, exitUAV,
          askUAVToQuit, uavGoto, uavVars
  <2>3. ASSUME aggPc = "serving", pp_AGG # 0, aggPc' # "serving"
        PROVE  faults' > faults \/ aggProc \in quit
    <3>1. aggStep
      BY <1>1, <2>3, VerRegister, Zenon DEF Next, taStep, aggVars, IndInv
    <3> QED
      BY <2>1, <2>3, <3>1, Zenon
      DEF aggStep, startAgg, getPpAndSkCall, getPpAndSkNoCall, getPpAndSkOk, getPpAndSkFailed,
          getPpAndSkRetry, collectParSigsCall, collectParSigsOk, collectParSigsFailed,
          collectParSigsSkip, collectParSigsRetry, collectParSigsReturn,
          collectParSigsNoChannel, startServerTran, Tran, exitAgg, askAggToQuit, aggGoto, aggVars
  <2> QED
    BY <2>2, <2>3, Zenon
<1>2. IndInv /\ [Next]_vars => [Survive]_vars
  BY <1>1, Zenon
<1> QED
  BY Invariance, <1>2, PTL DEF Spec, RegisteredServersSurvive

-----------------------------------------------------------------------------
(* System implements ThresholdService. *)

(* A verifier has read past the end of no Sigma before it is given one. *)
UndecidedInv == \A v \in Verifier : verPc[v] \notin {"done", "crashed"} => ~oob[v]

(* One verifier's step leaves the verdicts of the others. *)
LEMMA VerOnly ==
    ASSUME IndInv, NEW v \in Verifier, verStep(v), NEW w \in Verifier, w # v
    PROVE  /\ verPc'[w] = verPc[w] /\ res'[w] = res[w] /\ oob'[w] = oob[w]
           /\ params'[w] = params[w] /\ T'[w] = T[w] /\ seen'[w] = seen[w]
  BY ZenonT(40)
  DEF verStep, startVerifier, getParamsCall, getParamsNoCall, getParamsOk, getParamsFailed,
      getParamsRetry, verifySignatureCall, verifySignatureCrash, verifySignatureNoCall,
      verifySignatureOk, verifySignatureFailed, verifySignatureRetry, exitVerifier,
      askVerifierToQuit, verGoto, verVars, verMem, IndInv, TypeOK, VerTypeOK

(* A verifier either is given a Sigma or keeps what it printed. *)
LEMMA VerKeeps ==
    ASSUME IndInv, NEW v \in Verifier, verStep(v),
           ~ \E r \in tranResps : verifySignatureOk(v, r)
    PROVE  /\ res' = res /\ oob' = oob /\ seen' = seen
           /\ verPc[v] \in {"done", "crashed"} =>
                 /\ verPc'[v] \in {"done", "crashed"}
                 /\ params' = params /\ T' = T
  BY ZenonT(40)
  DEF verStep, startVerifier, getParamsCall, getParamsNoCall, getParamsOk, getParamsFailed,
      getParamsRetry, verifySignatureCall, verifySignatureCrash, verifySignatureNoCall,
      verifySignatureFailed, verifySignatureRetry, exitVerifier,
      askVerifierToQuit, verGoto, verVars, verMem, IndInv, TypeOK, VerTypeOK

(* A verdict stays while what it was made from stays. *)
LEMMA VerdictSame ==
    ASSUME NEW v \in Verifier, res'[v] = res[v], oob'[v] = oob[v],
           res[v] # -1 /\ ~oob[v] =>
              /\ params'[v] = params[v] /\ T'[v] = T[v] /\ seen'[v] = seen[v]
              /\ DrawsKept(v, seen[v])
    PROVE  verdict'[v] = verdict[v]
<1>1. res[v] # -1 /\ ~oob[v] => (garbled(v, seen[v])' <=> garbled(v, seen[v]))
  BY GarbledSame, Zenon
<1>2. verdict'[v] = IF oob'[v] \/ (res'[v] # -1 /\ garbled(v, seen[v])') THEN "undefined"
                    ELSE IF res'[v] = -1 THEN "none"
                    ELSE IF res'[v] = 1 THEN "accepted" ELSE "rejected"
  BY Zenon DEF verdict
<1>3. verdict[v] = IF oob[v] \/ (res[v] # -1 /\ garbled(v, seen[v])) THEN "undefined"
                   ELSE IF res[v] = -1 THEN "none"
                   ELSE IF res[v] = 1 THEN "accepted" ELSE "rejected"
  BY Zenon DEF verdict
<1> QED
  BY <1>1, <1>2, <1>3, Zenon

(* All verdicts stay when each does. *)
LEMMA VerdictsSame ==
    ASSUME \A v \in Verifier : verdict'[v] = verdict[v]
    PROVE  verdict' = verdict
<1>1. /\ verdict = [v \in Verifier |-> verdict[v]]
      /\ verdict' = [v \in Verifier |-> verdict'[v]]
  BY Zenon DEF verdict
<1> QED
  BY <1>1, Zenon

(* A step of the TA, of a UAV or of the aggregator decides nothing. *)
LEMMA OthersDecideNothing ==
    ASSUME Next, ~ \E v \in Verifier : verStep(v)
    PROVE  UNCHANGED verVars
  BY Zenon DEF Next, taStep

LEMMA UndecidedInvNext ==
    ASSUME IndInv, UndecidedInv, [Next]_vars
    PROVE  UndecidedInv'
<1>1. CASE UNCHANGED verVars
  BY <1>1, Zenon DEF UndecidedInv, verVars, verMem
<1>2. ASSUME NEW v \in Verifier, verStep(v)
      PROVE  UndecidedInv'
  <2>1. ASSUME NEW w \in Verifier, w # v
        PROVE  (verPc[w] \notin {"done", "crashed"} => ~oob[w])'
    BY <1>2, <2>1, VerOnly, Zenon DEF UndecidedInv
  <2>2. CASE ~ \E r \in tranResps : verifySignatureOk(v, r)
    BY <1>2, <2>1, <2>2, VerKeeps, Zenon DEF UndecidedInv
  <2>3. ASSUME NEW r \in tranResps, verifySignatureOk(v, r)
        PROVE  verPc'[v] \in {"done", "crashed"}
    BY <2>3, Zenon DEF verifySignatureOk, IndInv, TypeOK, VerTypeOK
  <2> QED
    BY <2>1, <2>2, <2>3, Zenon DEF UndecidedInv
<1> QED
  BY <1>1, <1>2, OthersDecideNothing, Zenon DEF vars

-----------------------------------------------------------------------------
(* A Sigma of at least t rows that Verify takes consists of shares that    *)
(* suffice, and one that it does not take still consists of shares.        *)
LEMMA VerifyDecides ==
    ASSUME IndInv, NEW v \in Verifier, NEW r \in tranResps, verifySignatureOk(v, r),
           Len(r.sigma.rows) >= T[v]
    PROVE  /\ issued # {}
           /\ equation(v, r.sigma) =>
                 \E share \in [1 .. t -> issued] : \E e \in 1 .. pp : Service!Sufficient(share, e)
<1> DEFINE row == r.sigma.rows
           share == [k \in 1 .. t |-> row[k].of]
<1>1. params[v] \in 1 .. pp /\ T[v] = t
  <2>1. params[v] \in 0 .. pp /\ params[v] # 0 /\ T[v] = t
    BY Zenon DEF verifySignatureOk, IndInv, VerInv, VerOk
  <2> QED
    BY <2>1
<1>2. GoodRows(row) /\ Len(row) \in Nat
  <2>1. GoodRows(row)
    BY Zenon DEF IndInv, TranInv
  <2>2. row \in Seq(ParSig)
    BY Zenon DEF IndInv, TypeOK, AggTypeOK, TranResp, Sigma
  <2> QED
    BY <2>1, <2>2, LenSeq, Zenon
<1>3. \A k \in 1 .. t : k \in 1 .. Len(row)
  BY <1>1, <1>2, Threshold
<1>4. \A k \in 1 .. t : row[k].of \in issued /\ row[k].ID = row[k].of.ID
  BY <1>2, <1>3, Zenon DEF GoodRows, GoodRow
<1>5. share \in [1 .. t -> issued]
  BY <1>4, Zenon
<1>6. issued # {}
  BY <1>4, Threshold
<1>7. ASSUME equation(v, r.sigma)
      PROVE  Service!Sufficient(share, params[v])
  <2>1. \A k \in 1 .. t : share[k] = row[k].of /\ share[k].ID = row[k].ID
    BY <1>4, Zenon
  <2>2. \A k \in 1 .. t : row[k].of.epoch = params[v] /\ row[k].ID # ZeroId
    BY <1>1, <1>7, Zenon DEF equation
  <2>3. \A k, l \in 1 .. t : k # l => row[k].ID # row[l].ID
    BY <1>1, <1>7, Zenon DEF equation
  <2> HIDE DEF share
  <2>4. \A k \in 1 .. t : share[k].epoch = params[v] /\ share[k].ID # ZeroId
    BY <2>1, <2>2, Zenon
  <2>5. \A k, l \in 1 .. t : k # l => share[k].ID # share[l].ID
    BY <2>1, <2>3, Zenon
  <2> QED
    BY <2>4, <2>5, Zenon DEF Service!Sufficient
<1> QED
  BY <1>1, <1>5, <1>6, <1>7, Zenon

(* The step that prints is a decision of the service. *)
LEMMA PrintDecides ==
    ASSUME IndInv, UndecidedInv, NEW v \in Verifier, verStep(v),
           NEW r \in tranResps, verifySignatureOk(v, r)
    PROVE  Service!Next
<1>1. res[v] = -1 /\ ~oob[v]
  BY Zenon DEF verifySignatureOk, IndInv, VerInv, VerOk, UndecidedInv
<1>2. verdict[v] = "none"
  BY <1>1, Zenon DEF verdict
<1>3. pp' = pp /\ issued' = issued /\ drawn' = drawn
  BY VerRegister, Zenon DEF IndInv, RegisterEffect
<1>4. ASSUME NEW answer, verdict'[v] = answer
      PROVE  Service!Decide(v, answer)
  <2>1. \A w \in Verifier : w # v => verdict'[w] = verdict[w]
    BY <1>3, VerOnly, VerdictSame, DrawsStay, Zenon
  <2>2. /\ verdict = [w \in Verifier |-> verdict[w]]
        /\ verdict' = [w \in Verifier |-> verdict'[w]]
    BY Zenon DEF verdict
  <2>3. verdict' = [verdict EXCEPT ![v] = answer]
    BY <1>4, <2>1, <2>2, Zenon
  <2> QED
    BY <1>2, <1>3, <2>3, Zenon DEF Service!Decide
<1>5. CASE Len(r.sigma.rows) >= T[v]
  <2>1. ~(Len(r.sigma.rows) < T[v])
    <3>1. T[v] \in Nat
      BY Threshold DEF IndInv, TypeOK, VerTypeOK
    <3>2. Len(r.sigma.rows) \in Nat
      BY LenSeq, Zenon DEF IndInv, TypeOK, AggTypeOK, TranResp, Sigma
    <3> QED
      BY <1>5, <3>1, <3>2
  <2>2. /\ res'[v] \in Verify(v, r.sigma) /\ oob'[v] = oob[v] /\ seen'[v] = r.sigma
        /\ params'[v] = params[v] /\ T'[v] = T[v]
    BY <2>1, Zenon DEF verifySignatureOk, IndInv, TypeOK, VerTypeOK
  <2>3. garbled(v, seen[v])' <=> garbled(v, r.sigma)
    BY <1>3, <2>2, GarbledSame, DrawsStay, Zenon
  <2>4. CASE garbled(v, r.sigma)
    <3>1. \A x \in {0, 1} : x # -1
      OBVIOUS
    <3>2. res'[v] # -1
      BY <2>2, <2>4, <3>1, Zenon DEF Verify
    <3>3. verdict'[v] = "undefined"
      BY <2>3, <2>4, <3>2, Zenon DEF verdict
    <3> QED
      BY <1>4, <3>3, Zenon DEF Service!Next, Service!Fail
  <2>5. CASE ~garbled(v, r.sigma) /\ equation(v, r.sigma)
    <3>1. 1 # -1
      OBVIOUS
    <3>2. res'[v] = 1
      BY <2>2, <2>5, Zenon DEF Verify
    <3>3. verdict'[v] = "accepted"
      BY <1>1, <2>2, <2>3, <2>5, <3>1, <3>2, Zenon DEF verdict
    <3> QED
      BY <1>4, <1>5, <2>5, <3>3, VerifyDecides, Zenon DEF Service!Next, Service!Accept
  <2>6. CASE ~garbled(v, r.sigma) /\ ~equation(v, r.sigma)
    <3>1. 0 # -1 /\ 0 # 1
      OBVIOUS
    <3>2. res'[v] = 0
      BY <2>2, <2>6, Zenon DEF Verify
    <3>3. verdict'[v] = "rejected"
      BY <1>1, <2>2, <2>3, <2>6, <3>1, <3>2, Zenon DEF verdict
    <3> QED
      BY <1>4, <1>5, <3>3, VerifyDecides, Zenon DEF Service!Next, Service!Reject
  <2> QED
    BY <2>4, <2>5, <2>6, Zenon
<1>6. CASE ~(Len(r.sigma.rows) >= T[v])
  <2>1. oob'[v] = TRUE
    BY <1>6, Zenon DEF verifySignatureOk, IndInv, TypeOK, VerTypeOK
  <2>2. verdict'[v] = "undefined"
    BY <2>1, Zenon DEF verdict
  <2> QED
    BY <1>4, <2>2, Zenon DEF Service!Next, Service!Fail
<1> QED
  BY <1>5, <1>6, Zenon

(* Every step of the TA is a step of the service. *)
LEMMA TAServes ==
    ASSUME IndInv, taStep
    PROVE  [Service!Next]_(Service!vars)
<1>1. verdict' = verdict
  BY TADraws, VerdictSame, VerdictsSame, Zenon DEF taStep, verVars, verMem
<1>2. CASE initParams
  BY <1>1, <1>2, Zenon DEF initParams, Service!Next, Service!NewParameters
<1>3. CASE startServerTA \/ exitTA
  BY <1>1, <1>3, Zenon DEF startServerTA, exitTA, Service!vars
<1>4. ASSUME NEW r \in registerReqs, Register(r)
      PROVE  [Service!Next]_(Service!vars)
  <2>1. pp > 0 /\ pp' = pp /\ r.ID \in ID
    BY <1>4 DEF Register, IndInv, TypeOK, TATypeOK, TAInv, RegisterReq
  <2>2. CASE r.ID = HeadId
    BY <1>1, <1>4, <2>1, <2>2, Zenon DEF Register, Service!vars
  <2>3. CASE r.ID # HeadId
    <3>1. issued' = issued \cup {[kind |-> "share", ID |-> r.ID, epoch |-> pp]}
      BY <1>4, <2>3, Zenon DEF Register, getUAV
    <3>2. Service!Issue(r.ID)
      BY <1>1, <2>1, <3>1, Zenon DEF Service!Issue
    <3> QED
      BY <2>1, <3>2, Zenon DEF Service!Next
  <2> QED
    BY <2>2, <2>3, Zenon
<1> QED
  BY <1>2, <1>3, <1>4, Zenon DEF taStep

LEMMA StepServes ==
    ASSUME IndInv, UndecidedInv, [Next]_vars
    PROVE  [Service!Next]_(Service!vars)
<1>1. CASE taStep
  BY <1>1, TAServes, Zenon
<1>2. ASSUME UNCHANGED verVars, pp' = pp, drawn' = drawn, issued' = issued
      PROVE  UNCHANGED Service!vars
  BY <1>2, DrawsStay, VerdictSame, VerdictsSame, Zenon DEF Service!vars, verVars, verMem
<1>3. CASE UNCHANGED vars
  BY <1>2, <1>3, Zenon DEF vars, taVars
<1>4. ASSUME NEW i \in Port, uavStep(i), UNCHANGED verVars
      PROVE  UNCHANGED Service!vars
  BY <1>2, <1>4, UavRegister, Zenon DEF IndInv, RegisterEffect
<1>5. CASE aggStep /\ UNCHANGED verVars
  BY <1>2, <1>5, AggRegister, Zenon DEF IndInv, RegisterEffect
<1>6. ASSUME NEW v \in Verifier, verStep(v)
      PROVE  [Service!Next]_(Service!vars)
  <2>1. CASE \E r \in tranResps : verifySignatureOk(v, r)
    BY <1>6, <2>1, PrintDecides, Zenon
  <2>2. CASE ~ \E r \in tranResps : verifySignatureOk(v, r)
    <3>1. pp' = pp /\ drawn' = drawn /\ issued' = issued
      BY <1>6, VerRegister, Zenon DEF IndInv, RegisterEffect
    <3>2. ASSUME NEW w \in Verifier, w # v
          PROVE  verdict'[w] = verdict[w]
      BY <1>6, <3>1, <3>2, VerOnly, DrawsStay, VerdictSame, Zenon
    <3>3. verdict'[v] = verdict[v]
      <4>1. res[v] # -1 => verPc[v] \in {"done", "crashed"}
        BY Zenon DEF IndInv, VerInv, VerOk
      <4> QED
        BY <1>6, <2>2, <3>1, <4>1, VerKeeps, DrawsStay, VerdictSame, Zenon
    <3>4. verdict' = verdict
      BY <3>2, <3>3, VerdictsSame, Zenon
    <3> QED
      BY <3>1, <3>4, Zenon DEF Service!vars
  <2> QED
    BY <2>1, <2>2, Zenon
<1> QED
  BY <1>1, <1>3, <1>4, <1>5, <1>6, Zenon DEF Next

(* The four programs together implement the threshold service.             *)
THEOREM Implementation == Spec => ImplementsService
<1>1. Init => UndecidedInv /\ Service!Init
  BY Zenon DEF Init, TAInit, VerInit, UndecidedInv, Service!Init, verdict
<1>2. IndInv /\ UndecidedInv /\ [Next]_vars => UndecidedInv' /\ [Service!Next]_(Service!vars)
  BY UndecidedInvNext, StepServes, Zenon
<1> QED
  BY Invariance, <1>1, <1>2, PTL DEF Spec, ImplementsService, Service!Spec
=============================================================================
