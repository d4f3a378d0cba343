---------------------------- MODULE VerifierNode ----------------------------
(***************************************************************************)
(* The verifiers, src/brpcVerifier.cpp.  main() runs getParams, ignores    *)
(* what it returns, then runs verifySignature, and ends.                   *)
(***************************************************************************)
EXTENDS Aggregator

VARIABLES
    verPc,      \* where main() of each verifier is
    verId,      \* the local `id' of getParams
    params,     \* saved parameters
    T,          \* saved threshold
    res,        \* what verifySignature printed; -1 before it prints
    seen,       \* history: the Sigma given to Verify
    oob         \* history: Verify read past the end of that Sigma

verMem == <<verId, params, T, res, seen, oob>>
verVars == <<verPc, verMem>>

NoSigma == [rows |-> <<>>, rk |-> 0]

VerInit ==
    /\ verPc = [v \in Verifier |-> "off"]
    /\ verId = [v \in Verifier |-> ZeroId]
    /\ params = [v \in Verifier |-> 0]
    /\ T = [v \in Verifier |-> 0]
    /\ res = [v \in Verifier |-> -1]
    /\ seen = [v \in Verifier |-> NoSigma]
    /\ oob = [v \in Verifier |-> FALSE]

verGoto(v, from, to) ==
    /\ verPc[v] = from
    /\ verPc' = [verPc EXCEPT ![v] = to]

startVerifier(v) ==
    /\ verGoto(v, "off", "getParams")
    /\ UNCHANGED <<verMem, brpcVars, taVars, uavVars, aggVars>>

getParamsCall(v) ==
    /\ verGoto(v, "getParams", "getting")
    /\ verProc(v) \notin quit
    /\ \E id \in Draw[verProc(v)] :
          /\ verId' = [verId EXCEPT ![v] = id]
          /\ NewCall(verProc(v))
          /\ sendRegister(verProc(v), id)
    /\ UNCHANGED <<params, T, res, seen, oob, uavVars, aggVars>>

(* channel.Init fails, or IsAskedToQuit() skips the call *)
getParamsNoCall(v) ==
    /\ verGoto(v, "getParams", "verifySignature")
    /\ (verProc(v) \in quit /\ UNCHANGED faults) \/ Fault
    /\ UNCHANGED <<verMem, callVars, taVars, uavVars, aggVars>>

getParamsOk(v, r) ==
    /\ verGoto(v, "getting", "verifySignature")
    /\ r \in registerResps
    /\ Answers(r, verProc(v))
    /\ params' = [params EXCEPT ![v] = r.params]
    /\ T' = [T EXCEPT ![v] = r.t]
    /\ UNCHANGED <<verId, res, seen, oob, brpcVars, taVars, uavVars, aggVars>>

getParamsFailed(v) ==
    /\ verGoto(v, "getting", "verifySignature")
    /\ UNCHANGED <<verMem, brpcVars, taVars, uavVars, aggVars>>

getParamsRetry(v) ==
    /\ verPc[v] = "getting"
    /\ retryRegister(verProc(v), verId[v])
    /\ UNCHANGED <<verVars, uavVars, aggVars>>

(* verifySignature up to the Tran stub: draw sk_v and send PK_v.  Each     *)
(* verifier runs once, so the name of the verifier names its key pair.     *)
tranReq(v, id) == [cli |-> verProc(v), cid |-> id, PK_v |-> v]

verifySignatureCall(v) ==
    /\ verGoto(v, "verifySignature", "waiting")
    /\ verProc(v) \notin quit
    /\ params[v] # 0
    /\ NewCall(verProc(v))
    /\ tranReqs' = tranReqs \cup {tranReq(v, cid'[verProc(v)])}
    /\ UNCHANGED <<verMem, taVars, uavVars, aggPc, aggMem, tranResps>>

(* Without parameters q is 0 and mpz_powm divides by zero. *)
verifySignatureCrash(v) ==
    /\ verGoto(v, "verifySignature", "crashed")
    /\ verProc(v) \notin quit
    /\ params[v] = 0
    /\ UNCHANGED <<verMem, brpcVars, taVars, uavVars, aggVars>>

(* channel.Init fails, or IsAskedToQuit() skips the call *)
verifySignatureNoCall(v) ==
    /\ verGoto(v, "verifySignature", "done")
    /\ (verProc(v) \in quit /\ UNCHANGED faults) \/ Fault
    /\ UNCHANGED <<verMem, callVars, taVars, uavVars, aggVars>>

verifySignatureWaits(v) ==
    /\ verGoto(v, "waiting", "waiting")
    /\ UNCHANGED <<verMem, brpcVars, taVars, uavVars, aggVars>>

verifySignatureFailed(v) ==
    /\ verGoto(v, "waiting", "done")
    /\ UNCHANGED <<verMem, brpcVars, taVars, uavVars, aggVars>>

verifySignatureRetry(v) ==
    /\ verPc[v] = "waiting"
    /\ tranReq(v, cid[verProc(v)]) \notin tranReqs
    /\ Reissue(verProc(v))
    /\ tranReqs' = tranReqs \cup {tranReq(v, cid[verProc(v)])}
    /\ UNCHANGED <<verVars, taVars, uavVars, aggPc, aggMem, tranResps>>

equationSkipsLastRow(v, sigma) ==
    LET row == sigma.rows
    IN  /\ sigma.rk = params[v]
        /\ sigma.PK_v = v
        /\ \A k \in 1 .. T[v] - 1 :
              /\ row[k].of.epoch = params[v]
              /\ row[k].t = T[v]
              /\ row[k].ID = row[k].of.ID
              /\ row[k].ID # ZeroId
        /\ \A k, l \in 1 .. T[v] - 1 : k # l => row[k].ID # row[l].ID

(* The pairing equation of Verify, for a Sigma of at least T rows none of  *)
(* whose points degenerate.  It holds when the first T rows are shares of  *)
(* one parameter set, made for threshold T, re-encrypted with the head's   *)
(* key of that set for this verifier, and the IDs are points at which      *)
(* Lagrange interpolation works: the right ones, pairwise different, and   *)
(* none of them 0 modulo q.  That it fails otherwise holds up to a chance  *)
(* of about 2^-255, which is not modelled, and neither is the loop of      *)
(* hashToCoprime, which does not end for a few hashes (module              *)
(* HashToCoprime).  The equation itself is checked in module Fussion.      *)
equation(v, sigma) ==
    LET row == sigma.rows
    IN  /\ sigma.rk = params[v]
        /\ sigma.PK_v = v
        /\ \A k \in 1 .. T[v] :
              /\ row[k].of.epoch = params[v]
              /\ row[k].t = T[v]
              /\ row[k].ID = row[k].of.ID
              /\ row[k].ID # ZeroId
        /\ \A k, l \in 1 .. T[v] : k # l => row[k].ID # row[l].ID

(* A partial signature is the point at infinity: sj is 0 modulo q, because *)
(* g is, or because a share is.                                            *)
infiniteSig(s) == drawn[s.epoch].gZero \/ s.ID \in drawn[s.epoch].zeros

(* A point that Verify uses was at infinity when it was put on the wire:   *)
(* PK[t-2], or a signature, which AggSig also multiplies by beta^e of its  *)
(* own parameters.  The encoders write such a point from coordinates that  *)
(* nothing has set, and the decoders make some point of them.              *)
garbled(v, sigma) ==
    \/ drawn[params[v]].PKInf
    \/ drawn[sigma.rk].gZero
    \/ \E k \in 1 .. T[v] : infiniteSig(sigma.rows[k].of)

(* The results Verify may return: either one for points it was never sent. *)
Verify(v, sigma) ==
    IF garbled(v, sigma) THEN {0, 1}
    ELSE IF equation(v, sigma) THEN {1} ELSE {0}

(* !cntl.Failed(): decode, Verify and print.  Verify reads rows 0 .. T-1   *)
(* of its vectors without a bounds check: with fewer rows the outcome is   *)
(* undefined, a crash or either answer; with none the vectors have no      *)
(* storage and the first read is a crash.                                  *)
verifySignatureOk(v, r) ==
    /\ verPc[v] = "waiting"
    /\ r \in tranResps
    /\ Answers(r, verProc(v))
    /\ seen' = [seen EXCEPT ![v] = r.sigma]
    /\ \/ /\ Len(r.sigma.rows) >= T[v]
          /\ verPc' = [verPc EXCEPT ![v] = "done"]
          /\ \E x \in Verify(v, r.sigma) : res' = [res EXCEPT ![v] = x]
          /\ UNCHANGED oob
       \/ /\ Len(r.sigma.rows) < T[v]
          /\ oob' = [oob EXCEPT ![v] = TRUE]
          /\ \/ /\ verPc' = [verPc EXCEPT ![v] = "crashed"]
                /\ UNCHANGED res
             \/ /\ r.sigma.rows # <<>>
                /\ verPc' = [verPc EXCEPT ![v] = "done"]
                /\ \E x \in {0, 1} : res' = [res EXCEPT ![v] = x]
    /\ UNCHANGED <<verId, params, T, brpcVars, taVars, uavVars, aggVars>>

(* The process is killed; a verifier is not started twice. *)
exitVerifier(v) ==
    /\ verPc[v] \notin {"off", "done", "crashed"}
    /\ verPc' = [verPc EXCEPT ![v] = "done"]
    /\ Fault
    /\ UNCHANGED <<verMem, callVars, taVars, uavVars, aggVars>>

askVerifierToQuit(v) ==
    /\ verPc[v] \in {"getParams", "getting", "verifySignature"}
    /\ AskToQuit(verProc(v))
    /\ UNCHANGED <<verVars, taVars, uavVars, aggVars>>

verStep(v) ==
    \/ startVerifier(v)
    \/ getParamsCall(v)
    \/ getParamsNoCall(v)
    \/ \E r \in registerResps : getParamsOk(v, r)
    \/ getParamsFailed(v)
    \/ getParamsRetry(v)
    \/ verifySignatureCall(v)
    \/ verifySignatureCrash(v)
    \/ verifySignatureNoCall(v)
    \/ \E r \in tranResps : verifySignatureOk(v, r)
    \/ verifySignatureFailed(v)
    \/ verifySignatureRetry(v)
    \/ exitVerifier(v)
    \/ askVerifierToQuit(v)

VerTypeOK ==
    /\ verPc \in [Verifier -> {"off", "getParams", "getting", "verifySignature", "waiting",
                               "done", "crashed"}]
    /\ verId \in [Verifier -> ID]
    /\ params \in [Verifier -> Nat]
    /\ T \in [Verifier -> {0, t}]
    /\ res \in [Verifier -> {-1, 0, 1}]
    /\ seen \in [Verifier -> Sigma \cup {NoSigma}]
    /\ oob \in [Verifier -> BOOLEAN]
=============================================================================
