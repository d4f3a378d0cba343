------------------------------- MODULE System -------------------------------
(***************************************************************************)
(* The deployed system: one TA, NUav UAV processes, one aggregator and a   *)
(* set of verifiers, started in any order, each of which may be asked to   *)
(* quit or die at any step and be started again.                           *)
(***************************************************************************)
EXTENDS VerifierNode

vars == <<brpcVars, taVars, uavVars, aggVars, verVars>>

Init == BrpcInit /\ TAInit /\ UavInit /\ AggInit /\ VerInit

taStep ==
    /\ \/ initParams
       \/ startServerTA
       \/ \E r \in registerReqs : Register(r)
       \/ exitTA
    /\ UNCHANGED <<uavVars, aggVars, verVars>>

Next ==
    \/ taStep
    \/ \E i \in Port : uavStep(i) /\ UNCHANGED <<aggVars, verVars>>
    \/ aggStep /\ UNCHANGED verVars
    \/ \E v \in Verifier : verStep(v)

Spec == Init /\ [][Next]_vars

-----------------------------------------------------------------------------
(* The type invariant: every variable of every component keeps the shape   *)
(* its comment gives it.                                                   *)
TypeOK == BrpcTypeOK /\ TATypeOK /\ UavTypeOK /\ AggTypeOK /\ VerTypeOK

-----------------------------------------------------------------------------
(* A UAV's saved key was issued by the TA for the very ID the UAV saved    *)
(* beside it and under the parameters it saved, whichever process was      *)
(* restarted in between: registerUAV stores its own local id, which the    *)
(* response does not repeat, and what a UAV that drew the reserved ID gets *)
(* is never kept as a share.                                               *)
KeyMatchesId ==
    \A i \in Port :
        uav[i].key # NoKey =>
            /\ uav[i].key \in issued
            /\ uav[i].key.ID = uav[i].ID
            /\ uav[i].key.epoch = pp_UAV[i]

(* collectParSigs appends in port order and asks no port twice: a late or  *)
(* repeated SignResponse is never stored a second time or under the next   *)
(* port, and only ports already passed have a row.                         *)
OneSharePerPort ==
    /\ \A k, l \in 1 .. Len(sigmas) : k < l => sigmas[k].port < sigmas[l].port
    /\ \A k \in 1 .. Len(sigmas) : sigmas[k].port < aggI

(* "verify result = 1", printed from a Sigma long enough to be read and    *)
(* without a point at infinity, means that t different UAV processes       *)
(* signed, with keys the TA issued for t different IDs under the parameter *)
(* set the verifier holds, whatever was restarted, lost or delivered late  *)
(* on the way.                                                             *)
AcceptedByThreshold ==
    \A v \in Verifier :
        res[v] = 1 /\ ~oob[v] /\ ~garbled(v, seen[v]) =>
            LET row == seen[v].rows
            IN  /\ Len(row) >= t
                /\ \A k \in 1 .. t :
                      row[k].of \in issued /\ row[k].of.epoch = params[v]
                /\ \A k, l \in 1 .. t :
                      k < l => row[k].of.ID # row[l].of.ID /\ row[k].port # row[l].port

(* "verify result = 0" without an out-of-range read says something about   *)
(* what was drawn or restarted, never about lost, late or repeated calls:  *)
(* a value drawn as q took a point to infinity; a signer drew an ID that   *)
(* is 0 modulo q; two signers drew the same ID; or the TA was restarted    *)
(* and the verifier's parameters, the head's key and the shares do not all *)
(* come from the same run of it.                                           *)
RejectionExplained ==
    \A v \in Verifier :
        res[v] = 0 /\ ~oob[v] =>
            LET row == seen[v].rows
            IN  \/ garbled(v, seen[v])
                \/ \E k \in 1 .. t : row[k].ID = ZeroId
                \/ \E k, l \in 1 .. t : k < l /\ row[k].ID = row[l].ID
                \/ /\ pp > 1
                   /\ \/ seen[v].rk # params[v]
                      \/ \E k \in 1 .. t : row[k].of.epoch # params[v]

(* A verifier only ever examines a Sigma that AggSig re-encrypted for its  *)
(* own public key, with several verifiers asking at the same time.         *)
OwnSigma ==
    \A v \in Verifier : seen[v] # NoSigma => seen[v].PK_v = v

(* A serving UAV that holds a key, and a serving aggregator that holds     *)
(* parameters, end only by a fault of the environment or because they were *)
(* asked to quit: no request makes their handlers read past a vector or    *)
(* divide by zero.                                                         *)
RegisteredServersSurvive ==
    [][/\ \A i \in Port :
             uavPc[i] = "serving" /\ uav[i].key # NoKey /\ uavPc'[i] # "serving"
                => faults' > faults \/ uavProc(i) \in quit
       /\ aggPc = "serving" /\ pp_AGG # 0 /\ aggPc' # "serving"
             => faults' > faults \/ aggProc \in quit]_vars

-----------------------------------------------------------------------------
(* The service the programs implement: a verifier's verdict is what it     *)
(* printed, and means nothing if Verify read past the end of the Sigma or  *)
(* was given a point that was never sent.                                  *)
verdict == [v \in Verifier |->
    IF oob[v] \/ (res[v] # -1 /\ garbled(v, seen[v])) THEN "undefined"
    ELSE IF res[v] = -1 THEN "none"
    ELSE IF res[v] = 1 THEN "accepted" ELSE "rejected"]

Service == INSTANCE ThresholdService
    WITH threshold <- t, epoch <- pp, shares <- issued

(* Calls, retries, restarts and late answers never show: every step of     *)
(* every process is a step of the threshold service or changes nothing in  *)
(* it.  A verifier decides once, from shares issued before it decides, and *)
(* the TA issues only under its current parameters.                        *)
ImplementsService == Service!Spec

-----------------------------------------------------------------------------
(* Progress.  A step of a process that is no fault of the environment.     *)
taProgress == taStep /\ UNCHANGED faults
uavProgress(i) == uavStep(i) /\ UNCHANGED <<aggVars, verVars, faults>>
aggProgress == aggStep /\ UNCHANGED <<verVars, faults>>
verProgress(v) == verStep(v) /\ UNCHANGED faults

(* Each process runs on: the scheduler runs it, and a stub returns at the  *)
(* latest when timeout_ms is over, so that a waiting process always has a  *)
(* step to take.                                                           *)
FairSpec ==
    /\ Spec
    /\ WF_vars(taProgress)
    /\ \A i \in Port : WF_vars(uavProgress(i))
    /\ WF_vars(aggProgress)
    /\ \A v \in Verifier : WF_vars(verProgress(v))

(* Every verifier that is started ends: no answer of the TA or of the      *)
(* aggregator, and no silence of theirs, makes main() wait for ever.  The  *)
(* loop of hashToCoprime inside Verify and AggSig is taken to end here;    *)
(* module HashToCoprime says for which hashes it does not.  A crash is an  *)
(* end too: the property is about waiting, not about success.              *)
VerifierEnds ==
    \A v \in Verifier : verPc[v] = "getParams" ~> verPc[v] \in {"done", "crashed"}

(* The aggregator gets past its collection loop, however many UAVs answer. *)
AggregatorServes ==
    aggPc = "getPpAndSk" ~> aggPc \in {"serving", "off"}

(* The same system when no call fails: every server is up before a call to *)
(* it gives up.                                                            *)
callFails ==
    \/ \E i \in Port : registerUAVFailed(i)
    \/ getPpAndSkFailed
    \/ collectParSigsFailed
    \/ \E v \in Verifier : getParamsFailed(v) \/ verifySignatureFailed(v)

CalmSpec ==
    /\ Init
    /\ [][Next /\ ~callFails]_vars
    /\ WF_vars(taProgress /\ ~callFails)
    /\ \A i \in Port : WF_vars(uavProgress(i) /\ ~callFails)
    /\ WF_vars(aggProgress /\ ~callFails)
    /\ \A v \in Verifier : WF_vars(verProgress(v) /\ ~callFails)

(* End to end: when the UAVs draw different IDs that are neither reserved  *)
(* nor 0 modulo q, and no call fails, every verifier prints 1, however the *)
(* calls of the processes interleave, unless the TA drew a g that is 0     *)
(* modulo q or values that take a point to infinity.  That no call fails   *)
(* also says that a process waits for a server that is started after it;   *)
(* in the programs such a call fails when timeout_ms is over.              *)
EventuallyAccepted ==
    \A v \in Verifier : <>(res[v] = 1 \/ (res[v] = 0 /\ ~oob[v] /\ garbled(v, seen[v])))

-----------------------------------------------------------------------------
(* brpcUAV.cpp:86, on registerUAV: "Returns 1 if registration is           *)
(* successful; otherwise, returns -1".                                     *)
RegisterReturnsOutcome ==
    \A i \in Port : uavRet[i] = 1 => uav[i].key # NoKey

(* brpcAgg.cpp:38-41, on the Tran service: it generates "a consolidated    *)
(* signature that the verifier can authenticate".  Verify needs t rows.    *)
TranAuthenticable ==
    \A r \in tranResps : Len(r.sigma.rows) >= t
=============================================================================
