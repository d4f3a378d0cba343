------------------------------- MODULE UAVNode ------------------------------
(***************************************************************************)
(* The UAV signers, src/brpcUAV.cpp.  main() runs registerUAV, ignores     *)
(* what it returns, and then runs startUAVServer.  A UAV that could not    *)
(* register therefore serves `sign' with an empty key, and the first       *)
(* request makes Sign read c1[0] of an empty vector.                       *)
(***************************************************************************)
EXTENDS TA

CONSTANT MaxUavStarts   \* bound on the starts of each UAV process

ASSUME UavAssumption == MaxUavStarts \in Nat

VARIABLES
    uavPc,      \* where main() of the UAV on port 8002 + i is
    uavStarts,  \* times the process was started
    reqId,      \* the local `id' of registerUAV
    pp_UAV,     \* saved parameters
    uav,        \* saved ID and key
    uavRet,     \* what registerUAV returned; 0 before it returns
    signReqs,   \* SignRequests on the wire
    signResps   \* SignResponses on the wire

uavMem == <<uavStarts, reqId, pp_UAV, uav, uavRet>>
signVars == <<signReqs, signResps>>
uavVars == <<uavPc, uavMem, signVars>>

(* The empty vectors c1 and c2 of a zeroed UAV. *)
NoKey == [kind |-> "none", ID |-> ZeroId, epoch |-> 0]
NoUAV == [ID |-> ZeroId, key |-> NoKey]

(* A partial signature.  cj and sig are the product of the first t-1       *)
(* ciphertexts of one share key, so ID, epoch and t determine them; `of'   *)
(* names the share they were made from and `port' is a history field.      *)
ParSig == [ID : ID, of : Share, t : Nat, port : Port]
SignReq == [cli : {aggProc}, cid : Nat, port : Nat, t : Nat]
SignResp == [cli : {aggProc}, cid : Nat, sig : ParSig]

UavInit ==
    /\ uavPc = [i \in Port |-> "off"]
    /\ uavStarts = [i \in Port |-> 0]
    /\ reqId = [i \in Port |-> ZeroId]
    /\ pp_UAV = [i \in Port |-> 0]
    /\ uav = [i \in Port |-> NoUAV]
    /\ uavRet = [i \in Port |-> 0]
    /\ signReqs = {}
    /\ signResps = {}

uavGoto(i, from, to) ==
    /\ uavPc[i] = from
    /\ uavPc' = [uavPc EXCEPT ![i] = to]

startUAV(i) ==
    /\ uavGoto(i, "off", "registerUAV")
    /\ uavStarts[i] < MaxUavStarts
    /\ uavStarts' = [uavStarts EXCEPT ![i] = @ + 1]
    /\ UNCHANGED <<reqId, pp_UAV, uav, uavRet, signVars, brpcVars, taVars>>

(* The process ends: its memory and its connections are gone. *)
uavGone(i) ==
    /\ uavPc' = [uavPc EXCEPT ![i] = "off"]
    /\ reqId' = [reqId EXCEPT ![i] = ZeroId]
    /\ pp_UAV' = [pp_UAV EXCEPT ![i] = 0]
    /\ uav' = [uav EXCEPT ![i] = NoUAV]
    /\ uavRet' = [uavRet EXCEPT ![i] = 0]
    /\ signReqs' = {r \in signReqs : r.port # i}
    /\ Forget(uavProc(i))
    /\ UNCHANGED <<uavStarts, taVars>>

(* registerUAV up to the Register stub: draw an ID and send it *)
registerUAVCall(i) ==
    /\ uavGoto(i, "registerUAV", "registering")
    /\ uavProc(i) \notin quit
    /\ \E id \in Draw[uavProc(i)] :
          /\ reqId' = [reqId EXCEPT ![i] = id]
          /\ NewCall(uavProc(i))
          /\ sendRegister(uavProc(i), id)
    /\ UNCHANGED <<uavStarts, pp_UAV, uav, uavRet, signVars>>

(* channel.Init fails (return -1) *)
registerUAVNoChannel(i) ==
    /\ uavGoto(i, "registerUAV", "startUAVServer")
    /\ uavRet' = [uavRet EXCEPT ![i] = -1]
    /\ Fault
    /\ UNCHANGED <<uavStarts, reqId, pp_UAV, uav, signVars, callVars, taVars>>

(* IsAskedToQuit() skips the call (return 1) *)
registerUAVSkip(i) ==
    /\ uavGoto(i, "registerUAV", "startUAVServer")
    /\ uavProc(i) \in quit
    /\ uavRet' = [uavRet EXCEPT ![i] = 1]
    /\ UNCHANGED <<uavStarts, reqId, pp_UAV, uav, signVars, brpcVars, taVars>>

savedUAVNoId(i, r) ==
    [ID |-> uav[i].ID, key |-> IF r.key.kind = "share" THEN r.key ELSE NoKey]

(* What a response leaves in the global `uav': the key it carries, and the *)
(* ID the request was sent with.                                           *)
savedUAV(i, r) ==
    [ID |-> reqId[i], key |-> IF r.key.kind = "share" THEN r.key ELSE NoKey]

(* !cntl.Failed(): parameters and key are saved.  For the reserved ID the  *)
(* TA sends the hexadecimal sk without cj: str_to_mpzArr reads base 10 and *)
(* throws, which ends the process, unless sk happens to have decimal       *)
(* digits only; c1 is empty then.                                          *)
registerUAVOk(i, r) ==
    /\ uavPc[i] = "registering"
    /\ r \in registerResps
    /\ Answers(r, uavProc(i))
    /\ \/ /\ uavPc' = [uavPc EXCEPT ![i] = "startUAVServer"]
          /\ pp_UAV' = [pp_UAV EXCEPT ![i] = r.params]
          /\ uav' = [uav EXCEPT ![i] = savedUAV(i, r)]
          /\ uavRet' = [uavRet EXCEPT ![i] = 1]
          /\ UNCHANGED <<uavStarts, reqId, signVars, brpcVars, taVars>>
       \/ /\ r.key.kind = "sk"
          /\ uavGone(i)
          /\ UNCHANGED <<signResps, faults>>

(* cntl.Failed(): the error text is logged and 1 is returned *)
registerUAVFailed(i) ==
    /\ uavGoto(i, "registering", "startUAVServer")
    /\ uavRet' = [uavRet EXCEPT ![i] = 1]
    /\ UNCHANGED <<uavStarts, reqId, pp_UAV, uav, signVars, brpcVars, taVars>>

registerUAVRetry(i) ==
    /\ uavPc[i] = "registering"
    /\ retryRegister(uavProc(i), reqId[i])
    /\ UNCHANGED uavVars

startUAVServer(i) ==
    /\ uavPc[i] = "startUAVServer"
    /\ \/ /\ uavPc' = [uavPc EXCEPT ![i] = "serving"]
          /\ UNCHANGED <<uavMem, signVars, brpcVars, taVars>>
       \/ /\ uavGone(i)
          /\ Fault
          /\ UNCHANGED signResps

keyLenShort(i) == IF uav[i].key = NoKey THEN 0 ELSE TM - 2

(* uav.c1.size() *)
keyLen(i) == IF uav[i].key = NoKey THEN 0 ELSE TM - 1

SignOneFactorLess(i, tt) ==
    [ID |-> uav[i].ID, of |-> uav[i].key, t |-> tt - 1, port |-> i]

Sign(i, tt) == [ID |-> uav[i].ID, of |-> uav[i].key, t |-> tt, port |-> i]

(* The sign service.  Sign reads c1[0 .. t-2] without a bounds check; past *)
(* the end of an empty vector that is a null pointer and ends the process. *)
sign(i, r) ==
    /\ uavPc[i] = "serving"
    /\ r \in signReqs /\ r.port = i
    /\ \/ /\ r.t - 1 <= keyLen(i)
          /\ signReqs' = signReqs \ {r}
          /\ signResps' = signResps \cup
                {[cli |-> r.cli, cid |-> r.cid, sig |-> Sign(i, r.t)]}
          /\ UNCHANGED <<uavPc, uavMem, brpcVars, taVars>>
       \/ /\ r.t - 1 > keyLen(i)
          /\ uavGone(i)
          /\ UNCHANGED <<signResps, faults>>

(* The process is killed, at any point, or RunUntilAskedToQuit returns *)
exitUAV(i) ==
    /\ uavPc[i] # "off"
    /\ uavGone(i)
    /\ Fault \/ (uavPc[i] = "serving" /\ uavProc(i) \in quit /\ UNCHANGED faults)
    /\ UNCHANGED signResps

(* SIGINT before registerUAV reads the flag.  A later one only makes       *)
(* RunUntilAskedToQuit return, which is exitUAV.                           *)
askUAVToQuit(i) ==
    /\ uavPc[i] = "registerUAV"
    /\ AskToQuit(uavProc(i))
    /\ UNCHANGED <<uavVars, taVars>>

uavStep(i) ==
    \/ startUAV(i)
    \/ registerUAVCall(i)
    \/ registerUAVNoChannel(i)
    \/ registerUAVSkip(i)
    \/ \E r \in registerResps : registerUAVOk(i, r)
    \/ registerUAVFailed(i)
    \/ registerUAVRetry(i)
    \/ startUAVServer(i)
    \/ \E r \in signReqs : sign(i, r)
    \/ exitUAV(i)
    \/ askUAVToQuit(i)

UavTypeOK ==
    /\ uavPc \in [Port -> {"off", "registerUAV", "registering", "startUAVServer", "serving"}]
    /\ uavStarts \in [Port -> 0 .. MaxUavStarts]
    /\ reqId \in [Port -> ID]
    /\ pp_UAV \in [Port -> Nat]
    /\ uav \in [Port -> [ID : ID, key : Share \cup {NoKey}]]
    /\ uavRet \in [Port -> {-1, 0, 1}]
    /\ signReqs \subseteq SignReq
    /\ signResps \subseteq SignResp
=============================================================================
