--------------------------------- MODULE TA ---------------------------------
(***************************************************************************)
(* The trusted authority, src/brpcTA.cpp: initParams draws the system      *)
(* parameters and the master secrets, and the Register service hands out   *)
(* the parameters with a key, which is the head's transformation key sk    *)
(* for the reserved ID and ElGamal ciphertexts of shares for every other.  *)
(*                                                                         *)
(* Keys are symbolic.  Every run of initParams draws fresh g, alpha, b and *)
(* d; `pp' numbers the runs, so that two parameter sets are the same one   *)
(* exactly when their numbers are equal, and 0 stands for the zeroed       *)
(* globals of a process that never received any.  The message M is the     *)
(* constant 123456789 in every run and is left out.                        *)
(*                                                                         *)
(* rand_mpz draws from 1 .. q and not from 1 .. q-1, so a value may be 0   *)
(* modulo q.  Of the values themselves only that is kept: `drawn' says of  *)
(* each run of initParams which of its points and powers degenerate.       *)
(***************************************************************************)
EXTENDS Brpc, Sequences

CONSTANTS
    TM,         \* tm, the largest threshold (20 in initParams)
    ID,         \* the IDs 1..q
    Draw,       \* the IDs rand_mpz may return to each client process
    HeadId,     \* the reserved ID 0x66...6 of the cluster head
    ZeroId,     \* the value q, which is 0 modulo q
    ParamDraws  \* what a run of initParams may draw, see Drawn

(* gZero: g is q, so beta and every c1 and c2 are 0 modulo q.  PKInf: some *)
(* b_i, i < t-1, is q, so PK[t-2] is the point at infinity.  zeros: the    *)
(* IDs for which a share f_i(ID), i < t-1, is 0 modulo q.                  *)
Drawn == [gZero : BOOLEAN, PKInf : BOOLEAN, zeros : SUBSET ID]

ASSUME TAAssumption ==
    /\ TM \in Nat /\ TM >= 2
    /\ HeadId \in ID /\ ZeroId \in ID /\ HeadId # ZeroId
    /\ Draw \in [Client -> SUBSET ID]
    /\ ParamDraws \subseteq Drawn

VARIABLES
    taPc,           \* where main() of the TA is
    pp,             \* the parameter set the TA drew last
    drawn,          \* history: what each run of initParams drew
    registerReqs,   \* UAVIDRequests on the wire
    registerResps,  \* UAVIDResponses on the wire
    issued          \* history: the share keys the TA has handed out

taVars == <<taPc, pp, drawn, registerReqs, registerResps, issued>>

(* t = tm / 2 + 1 *)
t == TM \div 2 + 1

Share == [kind : {"share"}, ID : ID, epoch : Nat]
HeadKey == [kind : {"sk"}, ID : ID, epoch : Nat]
RegisterReq == [cli : Client, cid : Nat, ID : ID]
RegisterResp ==
    [cli : Client, cid : Nat, params : Nat, key : Share \cup HeadKey, t : Nat]

TAInit ==
    /\ taPc = "off"
    /\ pp = 0
    /\ drawn = <<>>
    /\ registerReqs = {}
    /\ registerResps = {}
    /\ issued = {}

(* main() of the TA process starts with initParams *)
initParams ==
    /\ taPc = "off"
    /\ pp' = pp + 1
    /\ \E d \in ParamDraws : drawn' = Append(drawn, d)
    /\ taPc' = "startServerTA"
    /\ UNCHANGED <<registerReqs, registerResps, issued, brpcVars>>

(* AddService or Start fails and main() returns, or the server runs *)
startServerTA ==
    /\ taPc = "startServerTA"
    /\ \/ taPc' = "serving" /\ UNCHANGED faults
       \/ taPc' = "off" /\ Fault
    /\ UNCHANGED <<pp, drawn, registerReqs, registerResps, issued, callVars>>

getUAVOldSecrets(id) == [kind |-> "share", ID |-> id, epoch |-> 1]

(* getUAV: the vectors c1 and c2 of tm-1 encrypted shares f_i(id) *)
getUAV(id) == [kind |-> "share", ID |-> id, epoch |-> pp]

Register(r) ==
    /\ taPc = "serving"
    /\ r \in registerReqs
    /\ registerReqs' = registerReqs \ {r}
    /\ LET key == IF r.ID # HeadId THEN getUAV(r.ID)
                  ELSE [kind |-> "sk", ID |-> r.ID, epoch |-> pp]
       IN  /\ registerResps' = registerResps \cup
                 {[cli |-> r.cli, cid |-> r.cid, params |-> pp, key |-> key, t |-> t]}
           /\ issued' = IF r.ID # HeadId THEN issued \cup {key} ELSE issued
    /\ UNCHANGED <<taPc, pp, drawn, brpcVars>>

(* The process ends, by a signal or a crash; its connections go with it. *)
exitTA ==
    /\ taPc # "off"
    /\ taPc' = "off"
    /\ registerReqs' = {}
    /\ Fault
    /\ UNCHANGED <<pp, drawn, registerResps, issued, callVars>>

(* A client puts a UAVIDRequest on the wire. *)
sendRegister(c, id) ==
    /\ registerReqs' = registerReqs \cup {[cli |-> c, cid |-> cid'[c], ID |-> id]}
    /\ UNCHANGED <<taPc, pp, drawn, registerResps, issued>>

(* The library puts the request of the pending Register call on the wire   *)
(* again once the first copy is gone.                                      *)
retryRegister(c, id) ==
    /\ [cli |-> c, cid |-> cid[c], ID |-> id] \notin registerReqs
    /\ Reissue(c)
    /\ sendRegister(c, id)

TATypeOK ==
    /\ taPc \in {"off", "startServerTA", "serving"}
    /\ pp \in Nat
    /\ drawn \in Seq(ParamDraws)
    /\ registerReqs \subseteq RegisterReq
    /\ registerResps \subseteq RegisterResp
    /\ issued \subseteq Share
=============================================================================
