----------------------------- MODULE SystemInv -----------------------------
(***************************************************************************)
(* The inductive invariant behind the safety properties of System.  It     *)
(* follows a share from the TA to the verifier: the TA issues it, a UAV    *)
(* saves it beside the ID it asked with, `sign' turns it into a partial    *)
(* signature, the aggregator stores it as a row, and Tran copies the rows. *)
(* The correlation ids make each hand-over the one that was asked for.     *)
(***************************************************************************)
EXTENDS System

(* The TA issues nothing before initParams has run, and each run has left  *)
(* what it drew.                                                           *)
TAInv ==
    /\ Len(drawn) = pp
    /\ taPc # "off" => pp >= 1
    /\ \A s \in issued : s.epoch \in 1 .. pp

(* No message is newer than the last call of its client, and a response    *)
(* carries parameters, key and threshold of one run of the TA.             *)
RegisterInv ==
    /\ \A r \in registerReqs : r.cid <= cid[r.cli]
    /\ \A r \in registerResps :
          /\ r.cid <= cid[r.cli]
          /\ r.params \in 1 .. pp
          /\ r.key.epoch = r.params
          /\ r.t = t
          /\ r.key.kind = "share" => r.key \in issued

(* What answers the pending call of a UAV is about the ID it sent. *)
OwnId(i) ==
    uavPc[i] = "registering" =>
        /\ \A r \in registerReqs : Answers(r, uavProc(i)) => r.ID = reqId[i]
        /\ \A r \in registerResps : Answers(r, uavProc(i)) => r.key.ID = reqId[i]

OwnIdInv == \A i \in Port : OwnId(i)

(* A partial signature made from an issued share, under its own ID. *)
GoodRow(s) ==
    /\ s.of \in issued
    /\ s.ID = s.of.ID
    /\ s.t = t

GoodRows(rows) ==
    /\ \A k \in 1 .. Len(rows) : GoodRow(rows[k])
    /\ \A k, l \in 1 .. Len(rows) : k < l => rows[k].port < rows[l].port

(* What answers the pending sign call comes from the port that was asked. *)
SignInv ==
    /\ \A r \in signReqs :
          /\ r.cid <= cid[aggProc]
          /\ r.t = t
          /\ aggPc = "collecting" /\ r.cid = cid[aggProc] => r.port = aggI
    /\ \A r \in signResps :
          /\ r.cid <= cid[aggProc]
          /\ GoodRow(r.sig)
          /\ aggPc = "collecting" /\ r.cid = cid[aggProc] => r.sig.port = aggI

AggInv ==
    /\ pp_AGG \in 0 .. pp
    /\ t_AGG = IF pp_AGG = 0 THEN 0 ELSE t
    /\ aggPc = "collecting" => aggI < t_AGG
    /\ GoodRows(sigmas)
    /\ \A k \in 1 .. Len(sigmas) : sigmas[k].port < aggI

TranInv ==
    /\ \A r \in tranReqs : r.cli = verProc(r.PK_v)
    /\ \A r \in tranResps :
          /\ r.cli = verProc(r.sigma.PK_v)
          /\ r.sigma.rk \in 1 .. pp
          /\ GoodRows(r.sigma.rows)

(* What a verifier holds, and what it made of the Sigma it was given. *)
VerOk(v) ==
    /\ params[v] \in 0 .. pp
    /\ T[v] = IF params[v] = 0 THEN 0 ELSE t
    /\ verPc[v] = "waiting" => params[v] # 0
    /\ verPc[v] \notin {"done", "crashed"} => res[v] = -1 /\ seen[v] = NoSigma
    /\ seen[v] # NoSigma =>
          /\ seen[v] \in Sigma
          /\ GoodRows(seen[v].rows)
          /\ seen[v].rk \in 1 .. pp
          /\ seen[v].PK_v = v
          /\ params[v] # 0
    /\ res[v] # -1 /\ ~oob[v] =>
          /\ seen[v] # NoSigma
          /\ Len(seen[v].rows) >= T[v]
          /\ res[v] \in Verify(v, seen[v])

VerInv == \A v \in Verifier : VerOk(v)

IndInv ==
    /\ TypeOK
    /\ TAInv
    /\ RegisterInv
    /\ OwnIdInv
    /\ KeyMatchesId
    /\ SignInv
    /\ AggInv
    /\ TranInv
    /\ VerInv
=============================================================================
