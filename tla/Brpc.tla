-------------------------------- MODULE Brpc --------------------------------
(***************************************************************************)
(* The part of the brpc library the four programs rely on: synchronous     *)
(* calls over a channel with timeout_ms and max_retry, the correlation id  *)
(* that ties a response to one call, and IsAskedToQuit.  The library is    *)
(* vendored as headers and a binary, so this module is written from how    *)
(* brpcTA.cpp, brpcUAV.cpp, brpcAgg.cpp and brpcVerifier.cpp use it.       *)
(*                                                                         *)
(* Each service has a set of requests that have been put on the wire and   *)
(* a set of responses.  A message that is never handled is a lost one; a   *)
(* server takes a request off its set, and a client that is still waiting  *)
(* may put it there again (a retry after a broken connection), so a        *)
(* request can be handled several times, late, or never.  A call that      *)
(* times out leaves its request and its responses behind: they may be      *)
(* handled later, and only the correlation id keeps a late response from   *)
(* being taken for the answer to the next call.                            *)
(***************************************************************************)
EXTENDS Integers

CONSTANTS
    NUav,       \* UAV processes deployed, listening on 8002, 8003, ...
    Verifier,   \* verifier processes, each of which runs once
    MaxRetry,   \* FLAGS_max_retry, 3 in the code
    MaxFaults   \* bound on the faults of the environment, see Fault

ASSUME BrpcAssumption == NUav \in Nat /\ MaxRetry \in Nat /\ MaxFaults \in Nat

VARIABLES
    cid,        \* correlation id of the last call of each client process
    tries,      \* retries used by that call
    quit,       \* processes for which IsAskedToQuit() is true
    faults      \* faults so far

callVars == <<cid, tries, quit>>
brpcVars == <<callVars, faults>>

Port == 0 .. NUav - 1

uavProc(i) == <<"UAV", i>>
aggProc == <<"Agg", 0>>
verProc(v) == <<"Ver", v>>

Client == {uavProc(i) : i \in Port} \cup {aggProc} \cup {verProc(v) : v \in Verifier}

BrpcInit ==
    /\ cid = [c \in Client |-> 0]
    /\ tries = [c \in Client |-> 0]
    /\ quit = {}
    /\ faults = 0

(* A fault of the environment: a process is killed or asked to quit, a     *)
(* channel cannot be initialised, a server cannot start, a connection      *)
(* breaks.  Failed calls and the crashes the code causes itself are not    *)
(* counted.                                                                *)
Fault == faults < MaxFaults /\ faults' = faults + 1

(* A stub is called: the Controller gets a fresh correlation id. *)
NewCall(c) ==
    /\ cid' = [cid EXCEPT ![c] = @ + 1]
    /\ tries' = [tries EXCEPT ![c] = 0]
    /\ UNCHANGED <<quit, faults>>

(* The connection broke and the library sends the request of the pending   *)
(* call again.                                                             *)
Reissue(c) ==
    /\ Fault
    /\ tries[c] < MaxRetry
    /\ tries' = [tries EXCEPT ![c] = @ + 1]
    /\ UNCHANGED <<cid, quit>>

AnswersAnyCall(r, c) == r.cli = c

(* A response is handed to the call it answers and to no other one. *)
Answers(r, c) == r.cli = c /\ r.cid = cid[c]

(* SIGINT: from here on IsAskedToQuit() is true in the process. *)
AskToQuit(c) ==
    /\ Fault
    /\ c \notin quit
    /\ quit' = quit \cup {c}
    /\ UNCHANGED <<cid, tries>>

(* A process that ends forgets the signal; correlation ids are never       *)
(* reused, so a response to the dead process reaches no later one.         *)
Forget(c) ==
    /\ quit' = quit \ {c}
    /\ UNCHANGED <<cid, tries>>

BrpcTypeOK ==
    /\ cid \in [Client -> Nat]
    /\ tries \in [Client -> 0 .. MaxRetry]
    /\ quit \subseteq Client
    /\ faults \in 0 .. MaxFaults
=============================================================================
