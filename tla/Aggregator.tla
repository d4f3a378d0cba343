----------------------------- MODULE Aggregator -----------------------------
(***************************************************************************)
(* The aggregator (the cluster head), src/brpcAgg.cpp.  main() runs        *)
(* getPpAndSk, then collectParSigs once, then startServerTran, and ignores *)
(* what the first two return: the Tran service works on whatever partial   *)
(* signatures were collected, in the order of the ports that answered.     *)
(***************************************************************************)
EXTENDS UAVNode

VARIABLES
    aggPc,      \* where main() of the aggregator is
    pp_AGG,     \* saved parameters; uavH.alpha comes from the same response
    t_AGG,      \* saved threshold
    aggI,       \* loop variable of collectParSigs
    sigmas,     \* the collected partial signatures
    tranReqs,   \* verifyRequests on the wire
    tranResps   \* verifyResponses on the wire

aggMem == <<pp_AGG, t_AGG, aggI, sigmas>>
tranVars == <<tranReqs, tranResps>>
aggVars == <<aggPc, aggMem, tranVars>>

TranReq == [cli : Client, cid : Nat, PK_v : Verifier]

(* What AggSig returns: the collected signatures re-encrypted with the     *)
(* head's key of parameter set `rk' for the holder of PK_v.  aux, sig and  *)
(* IDs are filled in one loop and are the three columns of `rows'.         *)
Sigma == [rows : Seq(ParSig), rk : Nat, PK_v : Verifier]
TranResp == [cli : Client, cid : Nat, sigma : Sigma]

AggInit ==
    /\ aggPc = "off"
    /\ pp_AGG = 0
    /\ t_AGG = 0
    /\ aggI = 0
    /\ sigmas = <<>>
    /\ tranReqs = {}
    /\ tranResps = {}

aggGoto(from, to) == aggPc = from /\ aggPc' = to

startAgg ==
    /\ aggGoto("off", "getPpAndSk")
    /\ UNCHANGED <<aggMem, tranVars, brpcVars, taVars, uavVars>>

(* The process ends: its memory and its connections are gone. *)
aggGone ==
    /\ aggPc' = "off"
    /\ pp_AGG' = 0
    /\ t_AGG' = 0
    /\ aggI' = 0
    /\ sigmas' = <<>>
    /\ tranReqs' = {}
    /\ Forget(aggProc)
    /\ UNCHANGED <<tranResps, taVars, uavVars>>

getPpAndSkCall ==
    /\ aggGoto("getPpAndSk", "getting")
    /\ aggProc \notin quit
    /\ NewCall(aggProc)
    /\ sendRegister(aggProc, HeadId)
    /\ UNCHANGED <<aggMem, tranVars, uavVars>>

(* channel.Init fails, or IsAskedToQuit() skips the call *)
getPpAndSkNoCall ==
    /\ aggGoto("getPpAndSk", "collectParSigs")
    /\ (aggProc \in quit /\ UNCHANGED faults) \/ Fault
    /\ UNCHANGED <<aggMem, tranVars, callVars, taVars, uavVars>>

getPpAndSkOk(r) ==
    /\ aggGoto("getting", "collectParSigs")
    /\ r \in registerResps
    /\ Answers(r, aggProc)
    /\ pp_AGG' = r.params
    /\ t_AGG' = r.t
    /\ UNCHANGED <<aggI, sigmas, tranVars, brpcVars, taVars, uavVars>>

(* cntl.Failed(): nothing is saved and main() goes on *)
getPpAndSkFailed ==
    /\ aggGoto("getting", "collectParSigs")
    /\ UNCHANGED <<aggMem, tranVars, brpcVars, taVars, uavVars>>

getPpAndSkRetry ==
    /\ aggPc = "getting"
    /\ retryRegister(aggProc, HeadId)
    /\ UNCHANGED <<aggVars, uavVars>>

(* One iteration of collectParSigs: the sign stub for port 8002 + i *)
signReq(id) == [cli |-> aggProc, cid |-> id, port |-> aggI, t |-> t_AGG]

collectParSigsCallOneMore ==
    /\ aggGoto("collectParSigs", "collecting")
    /\ aggI <= t_AGG
    /\ aggProc \notin quit
    /\ NewCall(aggProc)
    /\ signReqs' = signReqs \cup {signReq(cid'[aggProc])}
    /\ UNCHANGED <<aggMem, tranVars, signResps, uavPc, uavMem, taVars>>

collectParSigsCall ==
    /\ aggGoto("collectParSigs", "collecting")
    /\ aggI < t_AGG
    /\ aggProc \notin quit
    /\ NewCall(aggProc)
    /\ signReqs' = signReqs \cup {signReq(cid'[aggProc])}
    /\ UNCHANGED <<aggMem, tranVars, signResps, uavPc, uavMem, taVars>>

(* !cntl.Failed(): the answer is appended *)
collectParSigsOk(r) ==
    /\ aggGoto("collecting", "collectParSigs")
    /\ r \in signResps
    /\ Answers(r, aggProc)
    /\ sigmas' = Append(sigmas, r.sig)
    /\ aggI' = aggI + 1
    /\ UNCHANGED <<pp_AGG, t_AGG, tranVars, brpcVars, taVars, uavVars>>

(* cntl.Failed(): the port is passed over *)
collectParSigsFailed ==
    /\ aggGoto("collecting", "collectParSigs")
    /\ aggI' = aggI + 1
    /\ UNCHANGED <<pp_AGG, t_AGG, sigmas, tranVars, brpcVars, taVars, uavVars>>

(* IsAskedToQuit() skips the call of this iteration *)
collectParSigsSkip ==
    /\ aggPc = "collectParSigs"
    /\ aggI < t_AGG
    /\ aggProc \in quit
    /\ aggI' = aggI + 1
    /\ UNCHANGED <<aggPc, pp_AGG, t_AGG, sigmas, tranVars, brpcVars, taVars, uavVars>>

collectParSigsRetry ==
    /\ aggPc = "collecting"
    /\ signReq(cid[aggProc]) \notin signReqs
    /\ Reissue(aggProc)
    /\ signReqs' = signReqs \cup {signReq(cid[aggProc])}
    /\ UNCHANGED <<aggVars, signResps, uavPc, uavMem, taVars>>

collectParSigsReturnLate ==
    /\ aggGoto("collectParSigs", "startServerTran")
    /\ aggI > t_AGG
    /\ UNCHANGED <<aggMem, tranVars, brpcVars, taVars, uavVars>>

collectParSigsReturnEarly ==
    /\ aggGoto("collectParSigs", "startServerTran")
    /\ aggI >= t_AGG - 1
    /\ UNCHANGED <<aggMem, tranVars, brpcVars, taVars, uavVars>>

(* The loop is over (return 1) *)
collectParSigsReturn ==
    /\ aggGoto("collectParSigs", "startServerTran")
    /\ aggI >= t_AGG
    /\ UNCHANGED <<aggMem, tranVars, brpcVars, taVars, uavVars>>

(* channel.Init fails inside the loop (return -1): main() goes on *)
collectParSigsNoChannel ==
    /\ aggGoto("collectParSigs", "startServerTran")
    /\ aggI < t_AGG
    /\ Fault
    /\ UNCHANGED <<aggMem, tranVars, callVars, taVars, uavVars>>

startServerTran ==
    /\ aggPc = "startServerTran"
    /\ \/ /\ aggPc' = "serving"
          /\ UNCHANGED <<aggMem, tranVars, brpcVars, taVars, uavVars>>
       \/ aggGone /\ Fault

AggSigKeptKey(PK_v) ==
    [rows |-> sigmas, rk |-> pp_AGG,
     PK_v |-> IF tranResps = {} THEN PK_v
              ELSE (CHOOSE r \in tranResps : TRUE).sigma.PK_v]

AggSig(PK_v) == [rows |-> sigmas, rk |-> pp_AGG, PK_v |-> PK_v]

(* The Tran service.  Without parameters q is 0 and mpz_powm divides by    *)
(* zero, which ends the process.                                           *)
Tran(r) ==
    /\ aggPc = "serving"
    /\ r \in tranReqs
    /\ \/ /\ pp_AGG # 0
          /\ tranReqs' = tranReqs \ {r}
          /\ tranResps' = tranResps \cup
                {[cli |-> r.cli, cid |-> r.cid, sigma |-> AggSig(r.PK_v)]}
          /\ UNCHANGED <<aggPc, aggMem, brpcVars, taVars, uavVars>>
       \/ /\ pp_AGG = 0
          /\ aggGone
          /\ UNCHANGED faults

(* The process is killed, at any point, or RunUntilAskedToQuit returns *)
exitAgg ==
    /\ aggPc # "off"
    /\ aggGone
    /\ Fault \/ (aggPc = "serving" /\ aggProc \in quit /\ UNCHANGED faults)

(* SIGINT while getPpAndSk or collectParSigs will still read the flag *)
askAggToQuit ==
    /\ aggPc \in {"getPpAndSk", "getting", "collectParSigs", "collecting"}
    /\ AskToQuit(aggProc)
    /\ UNCHANGED <<aggVars, uavVars, taVars>>

aggStep ==
    \/ startAgg
    \/ getPpAndSkCall
    \/ getPpAndSkNoCall
    \/ \E r \in registerResps : getPpAndSkOk(r)
    \/ getPpAndSkFailed
    \/ getPpAndSkRetry
    \/ collectParSigsCall
    \/ \E r \in signResps : collectParSigsOk(r)
    \/ collectParSigsFailed
    \/ collectParSigsSkip
    \/ collectParSigsRetry
    \/ collectParSigsReturn
    \/ collectParSigsNoChannel
    \/ startServerTran
    \/ \E r \in tranReqs : Tran(r)
    \/ exitAgg
    \/ askAggToQuit

AggTypeOK ==
    /\ aggPc \in {"off", "getPpAndSk", "getting", "collectParSigs", "collecting",
                  "startServerTran", "serving"}
    /\ pp_AGG \in Nat
    /\ t_AGG \in {0, t}
    /\ aggI \in 0 .. t_AGG
    /\ sigmas \in Seq(ParSig)
    /\ tranReqs \subseteq TranReq
    /\ tranResps \subseteq TranResp
=============================================================================
