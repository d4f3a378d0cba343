----------------------------- MODULE SocketServer -----------------------------
(***************************************************************************)
(* The threaded echo server of else/server.cpp (socket2, working) and the  *)
(* clients of else/client.cpp.  The main thread looks for a free slot of   *)
(* `infos', accepts a connection and starts a detached thread on the slot; *)
(* the thread echoes until read returns 0 or -1 and then marks the slot    *)
(* free.  No descriptor is ever closed.                                    *)
(*                                                                         *)
(* The kernel's part is external: the queue of listen, the connections,    *)
(* the limit on descriptors, and the end of a killed client's connection.  *)
(***************************************************************************)
EXTENDS Integers, Sequences

CONSTANTS
    Clients,        \* the processes that run client()
    max,            \* length of infos, 128 in the code
    MaxFds,         \* connections the process may open before accept fails
    Numbers         \* the client's numbers are told apart modulo this bound

ASSUME SocketAssumption == max \in Nat \ {0} /\ MaxFds \in Nat \ {0} /\ Numbers \in Nat \ {0, 1}

VARIABLES
    fd,             \* infos[i].fd
    mpc, i, pinfo, connfd,      \* main thread: control and local variables
    conn,           \* conn[d]: the client at the other end of descriptor d
    backlog,        \* connections that wait for accept
    workers,        \* the threads started, in order
    cpc, number,    \* clients: control, and the number last sent
    toServer, toClient          \* data in flight on each client's connection

mainVars == <<mpc, i, pinfo, connfd>>
clientVars == <<cpc, number>>
vars == <<fd, mainVars, conn, backlog, workers, clientVars, toServer, toClient>>

NoFd == -1
NoData == -1
Slots == 0 .. max - 1
Threads == 1 .. MaxFds      \* indices of workers

Init ==
    /\ fd = [s \in Slots |-> NoFd]
    /\ mpc = "scan" /\ i = 0 /\ pinfo = 0 /\ connfd = NoFd
    /\ conn = <<>> /\ backlog = <<>> /\ workers = <<>>
    /\ cpc = [c \in Clients |-> "start"]
    /\ number = [c \in Clients |-> 0]
    /\ toServer = [c \in Clients |-> NoData]
    /\ toClient = [c \in Clients |-> NoData]

-----------------------------------------------------------------------------
(* The main thread. *)
scanUnchecked ==
    /\ mpc = "scan"
    /\ IF fd[i] = NoFd \/ i = max - 1
       THEN pinfo' = i /\ mpc' = "accept" /\ i' = 0
       ELSE i' = i + 1 /\ UNCHANGED <<mpc, pinfo>>
    /\ UNCHANGED <<fd, connfd, conn, backlog, workers, clientVars, toServer, toClient>>

(* One pass of the loop over infos.  At the last slot, if it is taken, the *)
(* loop sleeps and decrements i, so it looks at the last slot again.       *)
scan ==
    /\ mpc = "scan"
    /\ \/ fd[i] = NoFd /\ pinfo' = i /\ mpc' = "accept" /\ i' = 0
       \/ fd[i] # NoFd /\ i < max - 1 /\ i' = i + 1 /\ UNCHANGED <<mpc, pinfo>>
    /\ UNCHANGED <<fd, connfd, conn, backlog, workers, clientVars, toServer, toClient>>

(* accept: a new descriptor, or -1 once the limit is reached. *)
accept ==
    /\ mpc = "accept"
    /\ Len(conn) < MaxFds /\ backlog # <<>>
    /\ connfd' = Len(conn) + 1 /\ mpc' = "create"
    /\ conn' = Append(conn, Head(backlog))
    /\ backlog' = Tail(backlog)
    /\ UNCHANGED <<fd, i, pinfo, workers, clientVars, toServer, toClient>>

(* With the process go its threads and its connections. *)
processEnds ==
    /\ mpc' = "down" /\ fd' = [s \in Slots |-> NoFd] /\ pinfo' = 0 /\ connfd' = NoFd
    /\ workers' = <<>> /\ conn' = <<>> /\ backlog' = <<>>
    /\ toServer' = [c \in Clients |-> NoData]
    /\ UNCHANGED <<i, clientVars, toClient>>

acceptFails == mpc = "accept" /\ Len(conn) = MaxFds /\ processEnds

create ==
    /\ mpc = "create"
    /\ fd' = [fd EXCEPT ![pinfo] = connfd]
    /\ mpc' = "scan" /\ pinfo' = 0 /\ connfd' = NoFd
    /\ workers' = Append(workers, [pc |-> "load", slot |-> pinfo, rfd |-> NoFd, buf |-> NoData])
    /\ UNCHANGED <<i, conn, backlog, clientVars, toServer, toClient>>

(* The result of pthread_create is not looked at.  When it fails, tid is   *)
(* -1 or that of an earlier thread on the slot, and what pthread_detach    *)
(* makes of it is undefined: a crash, or, for an earlier thread, nothing,  *)
(* and the slot stays taken.                                               *)
createFails ==
    /\ mpc = "create"
    /\ \/ processEnds
       \/ /\ \E k \in DOMAIN workers : workers[k].slot = pinfo
          /\ fd' = [fd EXCEPT ![pinfo] = connfd]
          /\ mpc' = "scan" /\ pinfo' = 0 /\ connfd' = NoFd
          /\ UNCHANGED <<i, conn, backlog, workers, clientVars, toServer, toClient>>

-----------------------------------------------------------------------------
(* working: thread k on its slot. *)
at(k, pc) == k \in DOMAIN workers /\ workers[k].pc = pc

callRead(k) ==
    /\ at(k, "load")
    /\ workers' = [workers EXCEPT ![k].rfd = fd[workers[k].slot], ![k].pc = "read"]
    /\ UNCHANGED <<fd, mainVars, conn, backlog, clientVars, toServer, toClient>>

readData(k) ==
    /\ at(k, "read")
    /\ LET c == conn[workers[k].rfd]
       IN  /\ toServer[c] # NoData
           /\ workers' = [workers EXCEPT ![k].buf = toServer[c], ![k].pc = "write"]
           /\ toServer' = [toServer EXCEPT ![c] = NoData]
    /\ UNCHANGED <<fd, mainVars, conn, backlog, clientVars, toClient>>

readEndKept(k) ==
    /\ at(k, "read")
    /\ LET c == conn[workers[k].rfd] IN cpc[c] = "done" /\ toServer[c] = NoData
    /\ workers' = [workers EXCEPT ![k].pc = "ended", ![k].rfd = NoFd]
    /\ UNCHANGED <<fd, mainVars, conn, backlog, clientVars, toServer, toClient>>

(* read returns 0 or -1: the client is gone. *)
readEnd(k) ==
    /\ at(k, "read")
    /\ LET c == conn[workers[k].rfd] IN cpc[c] = "done" /\ toServer[c] = NoData
    /\ fd' = [fd EXCEPT ![workers[k].slot] = NoFd]
    /\ workers' = [workers EXCEPT ![k].pc = "ended", ![k].rfd = NoFd]
    /\ UNCHANGED <<mainVars, conn, backlog, clientVars, toServer, toClient>>

writeOnce(k) ==
    /\ at(k, "write")
    /\ workers' = [workers EXCEPT ![k].pc = "ended", ![k].rfd = NoFd]
    /\ UNCHANGED <<fd, mainVars, conn, backlog, clientVars, toServer, toClient>>

writeNewest(k) ==
    /\ at(k, "write")
    /\ LET c == conn[Len(conn)]
       IN  toClient' = [toClient EXCEPT ![c] = IF cpc[c] = "done" THEN @ ELSE workers[k].buf]
    /\ workers' = [workers EXCEPT ![k].pc = "load", ![k].rfd = NoFd, ![k].buf = NoData]
    /\ UNCHANGED <<fd, mainVars, conn, backlog, clientVars, toServer>>

(* The echo, on the descriptor the slot holds now; lost on a dead client. *)
write(k) ==
    /\ at(k, "write")
    /\ LET c == conn[fd[workers[k].slot]]
       IN  toClient' = [toClient EXCEPT ![c] = IF cpc[c] = "done" THEN @ ELSE workers[k].buf]
    /\ workers' = [workers EXCEPT ![k].pc = "load", ![k].rfd = NoFd, ![k].buf = NoData]
    /\ UNCHANGED <<fd, mainVars, conn, backlog, clientVars, toServer>>

-----------------------------------------------------------------------------
(* client: connect, then send and recv in turn. *)
connect(c) ==
    /\ cpc[c] = "start"
    /\ \/ mpc # "down" /\ cpc' = [cpc EXCEPT ![c] = "send"] /\ backlog' = Append(backlog, c)
       \/ mpc = "down" /\ cpc' = [cpc EXCEPT ![c] = "done"] /\ UNCHANGED backlog
    /\ UNCHANGED <<fd, mainVars, conn, workers, number, toServer, toClient>>

send(c) ==
    /\ cpc[c] = "send"
    /\ number' = [number EXCEPT ![c] = (@ + 1) % Numbers]
    /\ toServer' = [toServer EXCEPT ![c] = IF mpc = "down" THEN NoData ELSE number'[c]]
    /\ cpc' = [cpc EXCEPT ![c] = "recv"]
    /\ UNCHANGED <<fd, mainVars, conn, backlog, workers, toClient>>

recv(c) ==
    /\ cpc[c] = "recv"
    /\ \/ toClient[c] # NoData /\ cpc' = [cpc EXCEPT ![c] = "send"]
       \/ toClient[c] = NoData /\ mpc = "down" /\ cpc' = [cpc EXCEPT ![c] = "done"]
    /\ toClient' = [toClient EXCEPT ![c] = NoData]
    /\ UNCHANGED <<fd, mainVars, conn, backlog, workers, number, toServer>>

(* A client process ends only when it is killed. *)
kill(c) ==
    /\ cpc[c] \in {"send", "recv"}
    /\ cpc' = [cpc EXCEPT ![c] = "done"]
    /\ number' = [number EXCEPT ![c] = 0]
    /\ toClient' = [toClient EXCEPT ![c] = NoData]
    /\ UNCHANGED <<fd, mainVars, conn, backlog, workers, toServer>>

Main == scan \/ accept \/ acceptFails \/ create \/ createFails
Worker(k) == callRead(k) \/ readData(k) \/ readEnd(k) \/ write(k)
Client(c) == connect(c) \/ send(c) \/ recv(c) \/ kill(c)

Next == Main \/ (\E k \in Threads : Worker(k)) \/ (\E c \in Clients : Client(c))

Spec == Init /\ [][Next]_vars

(* Threads run; a client that waits in recv wakes up. *)
FairSpec ==
    /\ Spec
    /\ WF_vars(Main)
    /\ \A k \in Threads : WF_vars(Worker(k))
    /\ \A c \in Clients : WF_vars(recv(c))

-----------------------------------------------------------------------------
Live(k) == k \in DOMAIN workers /\ workers[k].pc # "ended"

(* A client that waits gets back the number it sent last and nothing else: *)
(* no other client's message, no earlier one, though slots are reused by   *)
(* later connections while threads of earlier ones still run.              *)
EchoIsOwn ==
    \A c \in Clients : toClient[c] # NoData =>
        toClient[c] = number[c] /\ cpc[c] = "recv"

(* A slot has at most one running thread, which still finds there the      *)
(* descriptor it reads from; the slot the main thread has picked has none. *)
(* The slot is picked before accept blocks and filled after it.            *)
SlotIsExclusive ==
    \A k \in Threads : Live(k) =>
        /\ fd[workers[k].slot] # NoFd
        /\ workers[k].rfd \in {NoFd, fd[workers[k].slot]}
        /\ mpc \in {"accept", "create"} => workers[k].slot # pinfo
        /\ \A l \in Threads \ {k} : Live(l) => workers[l].slot # workers[k].slot

(* A client that has a thread is answered, unless it is killed or the      *)
(* server process ends.                                                    *)
Serves(k, c) == Live(k) /\ conn[fd[workers[k].slot]] = c
ServedIsAnswered ==
    \A c \in Clients :
        (cpc[c] = "recv" /\ \E k \in Threads : Serves(k, c)) ~> cpc[c] # "recv"

(* With every slot taken, the end of the client in the last slot lets a    *)
(* waiting connection in, unless the server exits, out of descriptors.     *)
(* Nothing is promised for the other slots: the loop does not go back to   *)
(* them until the last one is free.                                        *)
LastSlotAdmits ==
    ( /\ mpc = "scan" /\ i = max - 1 /\ backlog # <<>>
      /\ \E k \in Threads : Live(k) /\ workers[k].slot = i /\ cpc[conn[fd[i]]] = "done" )
        ~> mpc \in {"create", "down"}
=============================================================================
