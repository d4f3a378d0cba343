------------------------- MODULE SocketServerProofs -------------------------
(***************************************************************************)
(* Proofs about the threaded server for any number of clients, slots,      *)
(* descriptors and messages.                                               *)
(***************************************************************************)
EXTENDS SocketServer, TLAPS

Thread == [pc : {"load", "read", "write", "ended"}, slot : Slots, rfd : Int, buf : Int]

SocketTypeOK ==
    /\ fd \in [Slots -> Int]
    /\ mpc \in {"scan", "accept", "create", "down"}
    /\ i \in Slots /\ pinfo \in Slots /\ connfd \in Int
    /\ conn \in Seq(Clients) /\ backlog \in Seq(Clients)
    /\ workers \in Seq(Thread)
    /\ cpc \in [Clients -> {"start", "send", "recv", "done"}]
    /\ number \in [Clients -> 0 .. Numbers - 1]
    /\ toServer \in [Clients -> Int] /\ toClient \in [Clients -> Int]

(* The slot the main thread has picked stays free until it is filled, with *)
(* the newest descriptor; no other slot holds that one, and no two slots   *)
(* hold the same.                                                          *)
SlotInv ==
    /\ mpc \in {"accept", "create"} => fd[pinfo] = NoFd
    /\ mpc = "create" => connfd = Len(conn) /\ connfd \in DOMAIN conn
    /\ \A s \in Slots : fd[s] # NoFd =>
          /\ fd[s] \in DOMAIN conn
          /\ mpc = "create" => fd[s] # connfd
          /\ \A r \in Slots \ {s} : fd[r] # fd[s]

(* A client connects once. *)
ConnInv ==
    /\ \A d \in DOMAIN conn : cpc[conn[d]] # "start"
    /\ \A d \in DOMAIN backlog : cpc[backlog[d]] # "start"
    /\ \A d, f \in DOMAIN conn : d # f => conn[d] # conn[f]
    /\ \A d, f \in DOMAIN backlog : d # f => backlog[d] # backlog[f]
    /\ \A d \in DOMAIN conn, f \in DOMAIN backlog : conn[d] # backlog[f]

(* A thread that waits in read waits on the descriptor of its slot. *)
ReadInv == \A k \in Threads : at(k, "read") => workers[k].rfd = fd[workers[k].slot]

owner(k) == conn[fd[workers[k].slot]]

(* The number a client waits for is in one place: on the way to the        *)
(* server, in the buffer of its thread, or on the way back.                *)
DataInv ==
    /\ \A c \in Clients : toServer[c] # NoData /\ cpc[c] # "done" =>
          /\ toServer[c] = number[c] /\ cpc[c] = "recv" /\ toClient[c] = NoData
          /\ \A k \in Threads : at(k, "write") => owner(k) # c
    /\ \A k \in Threads : at(k, "write") /\ cpc[owner(k)] # "done" =>
          /\ workers[k].buf = number[owner(k)]
          /\ cpc[owner(k)] = "recv"
          /\ toClient[owner(k)] = NoData

SocketInv ==
    /\ SocketTypeOK
    /\ SlotInv /\ SlotIsExclusive /\ ReadInv
    /\ ConnInv /\ DataInv /\ EchoIsOwn

-----------------------------------------------------------------------------
(* The invariant holds when the server starts. *)
LEMMA InitInv == Init => SocketInv
  BY SocketAssumption
  DEF Init, SocketInv, SocketTypeOK, SlotInv, ConnInv, ReadInv, DataInv, EchoIsOwn, SlotIsExclusive,
      Slots, Thread, NoFd, NoData, at, Live

(* Thread k goes on at p, with rfd and buf as given, and keeps its slot. *)
goesOn(k, p, f, b) ==
    /\ workers' \in Seq(Thread)
    /\ DOMAIN workers' = DOMAIN workers
    /\ \A l \in DOMAIN workers \ {k} : workers'[l] = workers[l]
    /\ k \in DOMAIN workers
    /\ workers'[k].slot = workers[k].slot
    /\ workers'[k].pc = p /\ workers'[k].rfd = f /\ workers'[k].buf = b

(* An open descriptor is some client's. *)
LEMMA ConnType ==
    ASSUME SocketTypeOK, NEW d \in DOMAIN conn
    PROVE  conn[d] \in Clients
  BY DEF SocketTypeOK

(* A worker has a slot of the table. *)
LEMMA ThreadType ==
    ASSUME SocketTypeOK, NEW k \in DOMAIN workers
    PROVE  workers[k] \in Thread /\ workers[k].slot \in Slots
<1>1. workers[k] \in Thread
  BY DEF SocketTypeOK
<1> QED
  BY <1>1, Zenon DEF Thread

(* What goesOn says, from the update of a single thread. *)
LEMMA ThreadGoesOn ==
    ASSUME SocketTypeOK, NEW k \in DOMAIN workers, NEW p \in {"load", "read", "write", "ended"},
           NEW f \in Int, NEW b \in Int,
           workers' = [workers EXCEPT ![k] = [workers[k] EXCEPT !.rfd = f, !.pc = p, !.buf = b]]
    PROVE  goesOn(k, p, f, b)
<1> DEFINE w == [workers[k] EXCEPT !.rfd = f, !.pc = p, !.buf = b]
<1>1. workers \in Seq(Thread) /\ workers[k] \in Thread
  BY ThreadType, Zenon DEF SocketTypeOK
<1>2. w \in Thread /\ w.slot = workers[k].slot /\ w.pc = p /\ w.rfd = f /\ w.buf = b
  BY <1>1, Zenon DEF Thread
<1> HIDE DEF w
<1>3. workers' = [workers EXCEPT ![k] = w]
  BY Zenon DEF w
<1>4. workers' \in Seq(Thread) /\ DOMAIN workers' = DOMAIN workers
  BY <1>1, <1>2, <1>3
<1>5. workers'[k] = w /\ \A l \in DOMAIN workers \ {k} : workers'[l] = workers[l]
  BY <1>1, <1>3, Zenon
<1> QED
  BY <1>2, <1>4, <1>5, Zenon DEF goesOn

(* Each step of a worker, as a step of that thread alone: the call of      *)
(* read,                                                                   *)
LEMMA CallReadThread ==
    ASSUME SocketTypeOK, NEW k \in Threads, callRead(k)
    PROVE  goesOn(k, "read", fd[workers[k].slot], workers[k].buf)
<1>1. k \in DOMAIN workers
  BY Zenon DEF callRead, at
<1>2. workers[k] \in Thread /\ fd[workers[k].slot] \in Int /\ workers[k].buf \in Int
  BY <1>1, ThreadType, Zenon DEF Thread, SocketTypeOK
<1>3. workers' = [workers EXCEPT ![k].rfd = fd[workers[k].slot], ![k].pc = "read"]
  BY Zenon DEF callRead
<1>4. workers' = [workers EXCEPT ![k] = [workers[k] EXCEPT
                     !.rfd = fd[workers[k].slot], !.pc = "read", !.buf = workers[k].buf]]
  BY <1>1, <1>2, <1>3, Zenon DEF SocketTypeOK, Thread
<1> QED
  BY <1>1, <1>2, <1>4, ThreadGoesOn, Zenon

(* read returning data, *)
LEMMA ReadDataThread ==
    ASSUME SocketTypeOK, NEW k \in Threads, readData(k), workers[k].rfd \in DOMAIN conn
    PROVE  goesOn(k, "write", workers[k].rfd, toServer[conn[workers[k].rfd]])
<1> DEFINE d == toServer[conn[workers[k].rfd]]
<1>1. k \in DOMAIN workers
  BY Zenon DEF readData, at
<1>2. workers[k] \in Thread /\ workers[k].rfd \in Int
  BY <1>1, ThreadType, Zenon DEF Thread
<1>3. d \in Int
  <2>1. conn[workers[k].rfd] \in Clients
    BY ConnType, Zenon
  <2> QED
    BY <2>1, Zenon DEF SocketTypeOK
<1>4. workers' = [workers EXCEPT ![k].buf = d, ![k].pc = "write"]
  BY Zenon DEF readData
<1> HIDE DEF d
<1>5. workers' = [workers EXCEPT ![k] = [workers[k] EXCEPT
                     !.rfd = workers[k].rfd, !.pc = "write", !.buf = d]]
  BY <1>1, <1>2, <1>3, <1>4, Zenon DEF SocketTypeOK, Thread
<1> QED
  BY <1>1, <1>2, <1>3, <1>5, ThreadGoesOn, Zenon DEF d

(* read returning 0, *)
LEMMA ReadEndThread ==
    ASSUME SocketTypeOK, NEW k \in Threads, readEnd(k)
    PROVE  goesOn(k, "ended", NoFd, workers[k].buf)
<1>1. k \in DOMAIN workers
  BY Zenon DEF readEnd, at
<1>2. workers[k] \in Thread /\ NoFd \in Int /\ workers[k].buf \in Int
  BY <1>1, ThreadType DEF Thread, NoFd
<1>3. workers' = [workers EXCEPT ![k].pc = "ended", ![k].rfd = NoFd]
  BY Zenon DEF readEnd
<1>4. workers' = [workers EXCEPT ![k] = [workers[k] EXCEPT
                     !.rfd = NoFd, !.pc = "ended", !.buf = workers[k].buf]]
  BY <1>1, <1>2, <1>3, Zenon DEF SocketTypeOK, Thread
<1> QED
  BY <1>1, <1>2, <1>4, ThreadGoesOn, Zenon

(* and write. *)
LEMMA WriteThread ==
    ASSUME SocketTypeOK, NEW k \in Threads, write(k)
    PROVE  goesOn(k, "load", NoFd, NoData)
<1>1. k \in DOMAIN workers
  BY Zenon DEF write, at
<1>2. workers[k] \in Thread /\ NoFd \in Int /\ NoData \in Int
  BY <1>1, ThreadType DEF NoFd, NoData
<1>3. workers' = [workers EXCEPT ![k].pc = "load", ![k].rfd = NoFd, ![k].buf = NoData]
  BY Zenon DEF write
<1>4. workers' = [workers EXCEPT ![k] = [workers[k] EXCEPT
                     !.rfd = NoFd, !.pc = "load", !.buf = NoData]]
  BY <1>1, <1>2, <1>3, Zenon DEF SocketTypeOK, Thread
<1> QED
  BY <1>1, <1>2, <1>4, ThreadGoesOn, Zenon

(* Every step keeps the types; a thread reads from a descriptor it has. *)
LEMMA TypeMain == SocketTypeOK /\ Main => SocketTypeOK'
<1> SUFFICES ASSUME SocketTypeOK, Main PROVE SocketTypeOK'
  BY Zenon
<1>1. CASE scan
  <2>1. 0 \in Slots /\ i \in Slots /\ (i < max - 1 => i + 1 \in Slots)
    BY SocketAssumption DEF SocketTypeOK, Slots
  <2> QED
    BY <1>1, <2>1, Zenon DEF scan, clientVars, SocketTypeOK
<1>2. CASE accept
  <2>1. conn \in Seq(Clients) /\ backlog \in Seq(Clients) /\ backlog # <<>>
    BY <1>2, Zenon DEF accept, SocketTypeOK
  <2>2. Head(backlog) \in Clients /\ Tail(backlog) \in Seq(Clients) /\ Len(conn) + 1 \in Int
    BY <2>1
  <2>3. Append(conn, Head(backlog)) \in Seq(Clients)
    BY <2>1, <2>2
  <2>4. conn' \in Seq(Clients) /\ backlog' \in Seq(Clients) /\ connfd' \in Int /\ mpc' = "create"
    BY <1>2, <2>2, <2>3, Zenon DEF accept
  <2> QED
    BY <1>2, <2>4, Zenon DEF accept, clientVars, SocketTypeOK
<1>3. ASSUME processEnds PROVE SocketTypeOK'
  <2>1. 0 \in Slots /\ NoFd \in Int /\ NoData \in Int /\ <<>> \in Seq(Clients) /\ <<>> \in Seq(Thread)
    BY SocketAssumption DEF NoFd, NoData, Slots
  <2> QED
    BY <1>3, <2>1, Zenon DEF processEnds, clientVars, SocketTypeOK
<1>4. ASSUME pinfo' = 0, mpc' = "scan", connfd' = NoFd, fd' = [fd EXCEPT ![pinfo] = connfd],
             workers' \in Seq(Thread), UNCHANGED <<i, conn, backlog, clientVars, toServer, toClient>>
      PROVE  SocketTypeOK'
  <2>1. 0 \in Slots /\ NoFd \in Int
    BY SocketAssumption DEF NoFd, Slots
  <2> QED
    BY <1>4, <2>1, Zenon DEF clientVars, SocketTypeOK
<1>5. CASE create
  <2> DEFINE w == [pc |-> "load", slot |-> pinfo, rfd |-> NoFd, buf |-> NoData]
  <2>1. w \in Thread
    BY DEF Thread, NoFd, NoData, SocketTypeOK
  <2>2. workers' = Append(workers, w)
    BY <1>5, Zenon DEF create
  <2> HIDE DEF w
  <2>3. workers' \in Seq(Thread)
    BY <2>1, <2>2 DEF SocketTypeOK
  <2> QED
    BY <1>4, <1>5, <2>3, Zenon DEF create
<1>6. CASE createFails
  <2>1. workers \in Seq(Thread)
    BY Zenon DEF SocketTypeOK
  <2> QED
    BY <1>3, <1>4, <1>6, <2>1, Zenon DEF createFails
<1> QED
  BY <1>1, <1>2, <1>3, <1>5, <1>6, Zenon DEF Main, acceptFails

(* The steps of a worker keep the types. *)
LEMMA TypeWorker ==
    ASSUME SocketTypeOK, NEW k \in Threads, Worker(k),
           at(k, "read") => workers[k].rfd \in DOMAIN conn,
           at(k, "write") => fd[workers[k].slot] \in DOMAIN conn
    PROVE  SocketTypeOK'
<1>1. CASE callRead(k)
  BY <1>1, CallReadThread, Zenon DEF callRead, goesOn, mainVars, clientVars, SocketTypeOK
<1>2. CASE readData(k)
  <2>1. conn[workers[k].rfd] \in Clients
    BY <1>2, ConnType, Zenon DEF readData
  <2>2. toServer' \in [Clients -> Int]
    BY <1>2, <2>1 DEF readData, NoData, SocketTypeOK
  <2>3. workers' \in Seq(Thread)
    BY <1>2, ReadDataThread, Zenon DEF readData, goesOn
  <2> QED
    BY <1>2, <2>2, <2>3, Zenon DEF readData, mainVars, clientVars, SocketTypeOK
<1>3. CASE readEnd(k)
  <2>1. workers[k].slot \in Slots
    BY <1>3, ThreadType, Zenon DEF readEnd, at
  <2>2. fd' \in [Slots -> Int]
    BY <1>3, <2>1 DEF readEnd, NoFd, SocketTypeOK
  <2>3. workers' \in Seq(Thread)
    BY <1>3, ReadEndThread, Zenon DEF goesOn
  <2> QED
    BY <1>3, <2>2, <2>3, Zenon DEF readEnd, mainVars, clientVars, SocketTypeOK
<1>4. CASE write(k)
  <2>1. conn[fd[workers[k].slot]] \in Clients
    BY <1>4, ConnType, Zenon DEF write
  <2>2. workers[k].buf \in Int
    BY <1>4, ThreadType, Zenon DEF write, at, Thread
  <2>3. toClient' \in [Clients -> Int]
    BY <1>4, <2>1, <2>2, Zenon DEF write, SocketTypeOK
  <2> QED
    BY <1>4, <2>3, WriteThread, Zenon DEF write, goesOn, mainVars, clientVars, SocketTypeOK
<1> QED
  BY <1>1, <1>2, <1>3, <1>4, Zenon DEF Worker

(* The steps of a client keep the types. *)
LEMMA TypeClient ==
    ASSUME SocketTypeOK, NEW c \in Clients, Client(c)
    PROVE  SocketTypeOK'
<1>1. CASE connect(c)
  <2>1. backlog \in Seq(Clients)
    BY Zenon DEF SocketTypeOK
  <2>2. backlog' = backlog \/ backlog' = Append(backlog, c)
    BY <1>1, Zenon DEF connect
  <2>3. backlog' \in Seq(Clients)
    BY <2>1, <2>2
  <2> QED
    BY <1>1, <2>3, Zenon DEF connect, mainVars, SocketTypeOK
<1>2. CASE send(c)
  <2>0. number[c] \in 0 .. Numbers - 1
    BY Zenon DEF SocketTypeOK
  <2>1. (number[c] + 1) % Numbers \in 0 .. Numbers - 1
    BY <2>0, SocketAssumption
  <2>2. number' \in [Clients -> 0 .. Numbers - 1]
    BY <1>2, <2>1, Zenon DEF send, SocketTypeOK
  <2>3. toServer' \in [Clients -> Int]
    BY <1>2, <2>2, SocketAssumption DEF send, SocketTypeOK, NoData
  <2> QED
    BY <1>2, <2>2, <2>3, Zenon DEF send, mainVars, SocketTypeOK
<1>3. CASE recv(c)
  <2>1. cpc' \in [Clients -> {"start", "send", "recv", "done"}]
    BY <1>3, Zenon DEF recv, SocketTypeOK
  <2>2. NoData \in Int
    BY DEF NoData
  <2>3. toClient' \in [Clients -> Int]
    BY <1>3, <2>2, Zenon DEF recv, SocketTypeOK
  <2> QED
    BY <1>3, <2>1, <2>3, Zenon DEF recv, mainVars, SocketTypeOK
<1>4. CASE kill(c)
  <2>1. NoData \in Int /\ 0 \in 0 .. Numbers - 1
    BY SocketAssumption DEF NoData
  <2> QED
    BY <1>4, <2>1, Zenon DEF kill, mainVars, SocketTypeOK
<1> QED
  BY <1>1, <1>2, <1>3, <1>4, Zenon DEF Client

-----------------------------------------------------------------------------
(* The slots. *)
LEMMA ThreadOwns ==
    ASSUME SocketInv, NEW k \in Threads, Live(k)
    PROVE  /\ workers[k].slot \in Slots
           /\ fd[workers[k].slot] \in DOMAIN conn
           /\ owner(k) \in Clients
           /\ at(k, "read") => workers[k].rfd = fd[workers[k].slot]
<1>1. workers[k].slot \in Slots
  BY ThreadType, Zenon DEF SocketInv, Live
<1>2. fd[workers[k].slot] \in DOMAIN conn
  BY <1>1, Zenon DEF SocketInv, SlotIsExclusive, SlotInv
<1> QED
  BY <1>1, <1>2, ConnType, Zenon DEF SocketInv, ReadInv, owner

(* The accept loop gives each slot a descriptor of its own. *)
LEMMA SlotMain == SocketInv /\ Main => SlotInv'
<1> SUFFICES ASSUME SocketInv, Main PROVE SlotInv'
  BY Zenon
<1> USE DEF SocketInv, SlotInv
<1>1. CASE scan
  BY <1>1, Zenon DEF scan, SocketTypeOK
<1>2. CASE accept
  <2>1. Len(conn') = Len(conn) + 1 /\ DOMAIN conn' = 1 .. Len(conn) + 1 /\ DOMAIN conn = 1 .. Len(conn)
        /\ Len(conn) \in Nat
    BY <1>2 DEF accept, SocketTypeOK
  <2> QED
    BY <1>2, <2>1 DEF accept
<1>3. ASSUME processEnds PROVE SlotInv'
  BY <1>3, SocketAssumption, Zenon DEF processEnds, NoFd, Slots
<1>4. ASSUME mpc = "create", mpc' = "scan", fd' = [fd EXCEPT ![pinfo] = connfd], conn' = conn
      PROVE  SlotInv'
  BY <1>4, Zenon DEF SocketTypeOK
<1> QED
  BY <1>1, <1>2, <1>3, <1>4, Zenon DEF Main, acceptFails, create, createFails

(* The accept loop hands a slot out only when no worker has it. *)
LEMMA ExclusiveMain == SocketInv /\ Main => SlotIsExclusive' /\ ReadInv'
<1> SUFFICES ASSUME SocketInv, Main PROVE SlotIsExclusive' /\ ReadInv'
  BY Zenon
<1> USE DEF SlotIsExclusive, ReadInv, Live, at
<1>1. CASE scan
  BY <1>1, Zenon DEF scan, SocketInv
<1>2. CASE accept
  BY <1>2, Zenon DEF accept, SocketInv
<1>3. ASSUME processEnds PROVE SlotIsExclusive' /\ ReadInv'
  BY <1>3 DEF processEnds
<1>4. ASSUME mpc = "create", mpc' = "scan", fd' = [fd EXCEPT ![pinfo] = connfd]
      PROVE  \A k \in Threads : Live(k) => fd'[workers[k].slot] = fd[workers[k].slot]
  BY <1>4, ThreadOwns, Zenon DEF SocketInv, SocketTypeOK
<1>5. CASE create
  <2> DEFINE new == Len(workers) + 1
  <2>1. /\ DOMAIN workers' = DOMAIN workers \cup {new} /\ new \notin DOMAIN workers
        /\ \A k \in DOMAIN workers : workers'[k] = workers[k]
        /\ workers'[new] = [pc |-> "load", slot |-> pinfo, rfd |-> NoFd, buf |-> NoData]
    BY <1>5 DEF create, SocketInv, SocketTypeOK
  <2>2. fd'[pinfo] = connfd /\ connfd # NoFd
    BY <1>5 DEF create, SocketInv, SocketTypeOK, SlotInv, NoFd
  <2>3. mpc' = "scan" /\ mpc = "create"
    BY <1>5, Zenon DEF create
  <2> HIDE DEF new
  <2> QED
    BY <1>4, <1>5, <2>1, <2>2, <2>3 DEF create, SocketInv
<1>6. CASE createFails
  BY <1>3, <1>4, <1>6 DEF createFails, SocketInv
<1> QED
  BY <1>1, <1>2, <1>3, <1>5, <1>6, Zenon DEF Main, acceptFails

(* A step of a thread that keeps its slot taken. *)
LEMMA SlotWorker ==
    ASSUME SocketInv, NEW k \in Threads, Worker(k)
    PROVE  SlotInv' /\ SlotIsExclusive' /\ ReadInv'
<1> USE DEF SlotIsExclusive, ReadInv, Live, at
<1>1. Live(k) /\ SocketTypeOK
  BY Zenon DEF Worker, callRead, readData, readEnd, write, SocketInv
<1>2. /\ workers[k].slot \in Slots /\ fd[workers[k].slot] \in DOMAIN conn
      /\ workers[k].pc = "read" => workers[k].rfd = fd[workers[k].slot]
  BY <1>1, ThreadOwns, Zenon
<1>3. ASSUME NEW p \in {"load", "read", "write"}, NEW f, NEW b, goesOn(k, p, f, b),
             p = "read" => f = fd[workers[k].slot], f \in {NoFd, fd[workers[k].slot]},
             UNCHANGED <<fd, mainVars>>
      PROVE  SlotIsExclusive' /\ ReadInv'
  BY <1>1, <1>2, <1>3 DEF goesOn, mainVars, SocketInv
<1>4. ASSUME UNCHANGED <<fd, mainVars, conn>> PROVE SlotInv'
  BY <1>4, Zenon DEF mainVars, SocketInv, SlotInv
<1>5. CASE callRead(k)
  <2>1. goesOn(k, "read", fd[workers[k].slot], workers[k].buf)
    BY <1>1, <1>5, CallReadThread, Zenon
  <2> QED
    BY <1>3, <1>4, <1>5, <2>1, Zenon DEF callRead
<1>6. CASE readData(k)
  <2>1. goesOn(k, "write", workers[k].rfd, toServer[conn[workers[k].rfd]])
    BY <1>1, <1>2, <1>6, ReadDataThread, Zenon DEF readData
  <2>2. workers[k].rfd \in {NoFd, fd[workers[k].slot]}
    BY <1>1, Zenon DEF SocketInv
  <2> QED
    BY <1>3, <1>4, <1>6, <2>1, <2>2, Zenon DEF readData
<1>7. CASE readEnd(k)
  <2>1. goesOn(k, "ended", NoFd, workers[k].buf)
    BY <1>1, <1>7, ReadEndThread, Zenon
  <2>2. fd' = [fd EXCEPT ![workers[k].slot] = NoFd] /\ UNCHANGED <<mpc, pinfo, connfd, conn>>
    BY <1>7, Zenon DEF readEnd, mainVars
  <2>3. \A l \in Threads \ {k} : Live(l) =>
           workers'[l] = workers[l] /\ fd'[workers[l].slot] = fd[workers[l].slot]
    BY <1>1, <1>2, <2>1, <2>2, ThreadOwns, Zenon DEF goesOn, SocketInv, SocketTypeOK
  <2>4. \A l \in Threads : Live(l)' => l # k /\ Live(l)
    BY <2>1, Zenon DEF goesOn
  <2>5. SlotIsExclusive' /\ ReadInv'
    BY <2>2, <2>3, <2>4 DEF SocketInv
  <2>6. SlotInv'
    BY <1>1, <1>2, <2>2, Zenon DEF SocketInv, SlotInv, SocketTypeOK
  <2> QED
    BY <2>5, <2>6, Zenon
<1>8. CASE write(k)
  <2>1. goesOn(k, "load", NoFd, NoData)
    BY <1>1, <1>8, WriteThread, Zenon
  <2> QED
    BY <1>3, <1>4, <1>8, <2>1, Zenon DEF write
<1> QED
  BY <1>5, <1>6, <1>7, <1>8, Zenon DEF Worker

-----------------------------------------------------------------------------
(* The connections. *)
LEMMA ConnMain == SocketInv /\ Main => ConnInv'
<1> SUFFICES ASSUME SocketInv, Main PROVE ConnInv'
  BY Zenon
<1>1. CASE accept
  <2>1. conn \in Seq(Clients) /\ backlog \in Seq(Clients) /\ backlog # <<>>
    BY <1>1, Zenon DEF accept, SocketInv, SocketTypeOK
  <2>2. /\ DOMAIN conn' = DOMAIN conn \cup {Len(conn) + 1} /\ Len(conn) + 1 \notin DOMAIN conn
        /\ \A d \in DOMAIN conn : conn'[d] = conn[d]
        /\ conn'[Len(conn) + 1] = backlog[1] /\ 1 \in DOMAIN backlog
    BY <1>1, <2>1 DEF accept
  <2>3. \A f \in DOMAIN backlog' : f + 1 \in DOMAIN backlog /\ f + 1 # 1 /\ backlog'[f] = backlog[f + 1]
    BY <1>1, <2>1 DEF accept
  <2>4. \A f, g \in DOMAIN backlog' : f # g => f + 1 # g + 1
    BY <1>1, <2>1 DEF accept
  <2>5. cpc' = cpc /\ ConnInv
    BY <1>1, Zenon DEF accept, clientVars, SocketInv
  <2>6. \A d \in DOMAIN conn' : cpc'[conn'[d]] # "start"
    BY <2>2, <2>5 DEF ConnInv
  <2>7. \A d \in DOMAIN backlog' : cpc'[backlog'[d]] # "start"
    BY <2>3, <2>5, Zenon DEF ConnInv
  <2>8. \A d, f \in DOMAIN conn' : d # f => conn'[d] # conn'[f]
    BY <2>2, <2>5 DEF ConnInv
  <2>9. \A d, f \in DOMAIN backlog' : d # f => backlog'[d] # backlog'[f]
    <3> TAKE d, f \in DOMAIN backlog'
    <3> HAVE d # f
    <3>1. backlog[d + 1] # backlog[f + 1]
      BY <2>3, <2>4, <2>5, Zenon DEF ConnInv
    <3> QED
      BY <2>3, <3>1, Zenon
  <2>10. \A d \in DOMAIN conn', f \in DOMAIN backlog' : conn'[d] # backlog'[f]
    BY <2>2, <2>3, <2>5 DEF ConnInv
  <2> QED
    BY <2>6, <2>7, <2>8, <2>9, <2>10, Zenon DEF ConnInv
<1>2. ASSUME processEnds PROVE ConnInv'
  BY <1>2 DEF processEnds, ConnInv
<1>3. ASSUME UNCHANGED <<conn, backlog, clientVars>> PROVE ConnInv'
  BY <1>3, Zenon DEF clientVars, SocketInv, ConnInv
<1> QED
  BY <1>1, <1>2, <1>3, Zenon DEF Main, scan, acceptFails, create, createFails

(* A worker's steps keep the connections and the table together. *)
LEMMA ConnWorker ==
    ASSUME SocketInv, NEW k \in Threads, Worker(k)
    PROVE  ConnInv'
<1>1. UNCHANGED <<conn, backlog, cpc>>
  BY Zenon DEF Worker, callRead, readData, readEnd, write, clientVars
<1> QED
  BY <1>1, Zenon DEF SocketInv, ConnInv

(* So do a client's. *)
LEMMA ConnClient ==
    ASSUME SocketInv, NEW c \in Clients, Client(c)
    PROVE  ConnInv'
<1>1. conn' = conn /\ conn \in Seq(Clients) /\ backlog \in Seq(Clients)
      /\ cpc \in [Clients -> {"start", "send", "recv", "done"}]
  BY Zenon DEF Client, connect, send, recv, kill, SocketInv, SocketTypeOK
<1>2. cpc'[c] # "start" /\ \A d \in Clients \ {c} : cpc'[d] = cpc[d]
  BY <1>1, Zenon DEF Client, connect, send, recv, kill
<1>3. CASE backlog' = backlog
  BY <1>1, <1>2, <1>3 DEF SocketInv, ConnInv
<1>4. CASE cpc[c] = "start" /\ backlog' = Append(backlog, c)
  <2>1. /\ DOMAIN backlog' = DOMAIN backlog \cup {Len(backlog) + 1}
        /\ \A d \in DOMAIN backlog : backlog'[d] = backlog[d]
        /\ backlog'[Len(backlog) + 1] = c
    BY <1>1, <1>4
  <2>2. \A d \in DOMAIN conn : conn[d] \in Clients \ {c}
    BY <1>1, <1>4 DEF SocketInv, ConnInv
  <2>3. \A d \in DOMAIN backlog : backlog[d] \in Clients \ {c}
    BY <1>1, <1>4 DEF SocketInv, ConnInv
  <2>4. ConnInv /\ conn' = conn
    BY <1>1, Zenon DEF SocketInv
  <2>5. /\ \A d \in DOMAIN conn' : cpc'[conn'[d]] # "start"
        /\ \A d \in DOMAIN backlog' : cpc'[backlog'[d]] # "start"
    BY <1>2, <2>1, <2>2, <2>3, <2>4, Zenon DEF ConnInv
  <2>6. \A d, f \in DOMAIN backlog' : d # f => backlog'[d] # backlog'[f]
    BY <2>1, <2>3, <2>4, Zenon DEF ConnInv
  <2>7. \A d \in DOMAIN conn', f \in DOMAIN backlog' : conn'[d] # backlog'[f]
    BY <2>1, <2>2, <2>4 DEF ConnInv
  <2> QED
    BY <2>4, <2>5, <2>6, <2>7, Zenon DEF ConnInv
<1> QED
  BY <1>3, <1>4, Zenon DEF Client, connect, send, recv, kill

-----------------------------------------------------------------------------
(* The data. *)

(* Two threads never serve the same client. *)
LEMMA OwnersDiffer ==
    ASSUME SocketInv, NEW k \in Threads, NEW l \in Threads, k # l, Live(k), Live(l)
    PROVE  owner(k) # owner(l)
<1>1. workers[k].slot \in Slots /\ workers[l].slot \in Slots /\ workers[k].slot # workers[l].slot
  BY ThreadOwns, Zenon DEF SocketInv, SlotIsExclusive
<1>2. fd[workers[k].slot] \in DOMAIN conn /\ fd[workers[l].slot] \in DOMAIN conn
  BY ThreadOwns, Zenon
<1>3. fd[workers[k].slot] # fd[workers[l].slot]
  BY <1>1, Zenon DEF SocketInv, SlotInv, SlotIsExclusive
<1> QED
  BY <1>2, <1>3, Zenon DEF SocketInv, ConnInv, owner

(* What a step leaves alone unless it is about a thread's own data. *)
LEMMA DataFrame ==
    ASSUME SocketInv, UNCHANGED <<cpc, number, toServer, toClient>>,
           \A k \in Threads : at(k, "write")' =>
              at(k, "write") /\ owner(k)' = owner(k) /\ workers'[k].buf = workers[k].buf
    PROVE  DataInv' /\ EchoIsOwn'
  BY Zenon DEF SocketInv, DataInv, EchoIsOwn

(* The accept loop touches no data in flight. *)
LEMMA DataMain == SocketInv /\ Main => DataInv' /\ EchoIsOwn'
<1> SUFFICES ASSUME SocketInv, Main PROVE DataInv' /\ EchoIsOwn'
  BY Zenon
<1>1. ASSUME NEW k \in Threads, at(k, "write")
      PROVE  Live(k) /\ fd[workers[k].slot] \in DOMAIN conn /\ workers[k].slot \in Slots
  BY <1>1, ThreadOwns, Zenon DEF at, Live
<1>2. CASE scan
  BY <1>2, DataFrame, Zenon DEF scan, clientVars, at, owner
<1>3. CASE accept
  <2>1. conn \in Seq(Clients) /\ conn' = Append(conn, Head(backlog))
    BY <1>3, Zenon DEF accept, SocketInv, SocketTypeOK
  <2>2. \A d \in DOMAIN conn : conn'[d] = conn[d]
    BY <2>1
  <2> QED
    BY <1>1, <1>3, <2>2, DataFrame, Zenon DEF accept, clientVars, at, owner
<1>4. ASSUME processEnds PROVE DataInv' /\ EchoIsOwn'
  <2>1. \A c \in Clients : toServer'[c] = NoData
    BY <1>4, Zenon DEF processEnds
  <2>2. \A k \in Threads : ~ at(k, "write")'
    BY <1>4 DEF processEnds, at
  <2> QED
    BY <1>4, <2>1, <2>2, Zenon DEF processEnds, clientVars, SocketInv, DataInv, EchoIsOwn
<1>5. ASSUME mpc = "create", fd' = [fd EXCEPT ![pinfo] = connfd]
      PROVE  \A k \in Threads : at(k, "write") => fd'[workers[k].slot] = fd[workers[k].slot]
  BY <1>1, <1>5, Zenon DEF SocketInv, SocketTypeOK, SlotIsExclusive
<1>6. CASE create
  <2>1. \A k \in Threads : at(k, "write")' => at(k, "write") /\ workers'[k] = workers[k]
    BY <1>6 DEF create, at, SocketInv, SocketTypeOK
  <2> QED
    BY <1>5, <1>6, <2>1, DataFrame, Zenon DEF create, clientVars, owner
<1>7. CASE createFails
  BY <1>4, <1>5, <1>7, DataFrame, Zenon DEF createFails, clientVars, owner, at
<1> QED
  BY <1>2, <1>3, <1>4, <1>6, <1>7, Zenon DEF Main, acceptFails

(* A worker echoes to the client whose bytes it read. *)
LEMMA DataWorker ==
    ASSUME SocketInv, NEW k \in Threads, Worker(k)
    PROVE  DataInv' /\ EchoIsOwn'
<1>1. Live(k) /\ SocketTypeOK
  BY Zenon DEF Worker, callRead, readData, readEnd, write, SocketInv, Live, at
<1>2. owner(k) \in Clients /\ workers[k].slot \in Slots /\ fd[workers[k].slot] \in DOMAIN conn
      /\ (at(k, "read") => workers[k].rfd = fd[workers[k].slot])
  BY <1>1, ThreadOwns, Zenon
<1>3. \A l \in Threads \ {k} : at(l, "write") =>
         owner(l) # owner(k) /\ workers[l].slot # workers[k].slot
  BY <1>1, OwnersDiffer, Zenon DEF at, Live, SocketInv, SlotIsExclusive
<1>4. UNCHANGED <<conn, cpc, number>>
  BY Zenon DEF Worker, callRead, readData, readEnd, write, clientVars
<1>5. CASE callRead(k)
  <2>1. goesOn(k, "read", fd[workers[k].slot], workers[k].buf)
    BY <1>1, <1>5, CallReadThread, Zenon
  <2>2. UNCHANGED <<fd, toServer, toClient>>
    BY <1>5, Zenon DEF callRead
  <2>3. \A l \in Threads : at(l, "write")' => at(l, "write") /\ workers'[l] = workers[l]
    BY <2>1, Zenon DEF goesOn, at
  <2> QED
    BY <1>4, <2>2, <2>3, DataFrame, Zenon DEF owner
<1>6. CASE readData(k)
  <2> DEFINE c == owner(k)
  <2>1. goesOn(k, "write", workers[k].rfd, toServer[c]) /\ toServer[c] # NoData
        /\ toServer' = [toServer EXCEPT ![c] = NoData] /\ UNCHANGED <<fd, toClient>>
    BY <1>1, <1>2, <1>6, ReadDataThread, Zenon DEF readData, owner
  <2>2. \A l \in Threads \ {k} : at(l, "write")' =>
          at(l, "write") /\ owner(l)' = owner(l) /\ workers'[l].buf = workers[l].buf
    BY <1>4, <2>1, Zenon DEF goesOn, at, owner
  <2>3. owner(k)' = c /\ workers'[k].buf = toServer[c]
    BY <1>4, <2>1, Zenon DEF goesOn, owner
  <2>4. EchoIsOwn'
    BY <1>4, <2>1, Zenon DEF EchoIsOwn, SocketInv
  <2>5. c \in Clients /\ toServer'[c] = NoData /\ \A d \in Clients \ {c} : toServer'[d] = toServer[d]
    BY <1>1, <1>2, <2>1, Zenon DEF SocketTypeOK
  <2> HIDE DEF c
  <2>6. cpc[c] # "done" => toServer[c] = number[c] /\ cpc[c] = "recv" /\ toClient[c] = NoData
    BY <2>1, <2>5, Zenon DEF SocketInv, DataInv
  <2>7. DataInv'
    BY <1>3, <1>4, <2>1, <2>2, <2>3, <2>5, <2>6 DEF DataInv, SocketInv
  <2> QED
    BY <2>4, <2>7, Zenon
<1>7. CASE readEnd(k)
  <2>1. goesOn(k, "ended", NoFd, workers[k].buf)
    BY <1>1, <1>7, ReadEndThread, Zenon
  <2>2. fd' = [fd EXCEPT ![workers[k].slot] = NoFd] /\ UNCHANGED <<toServer, toClient>>
    BY <1>7, Zenon DEF readEnd
  <2>3. \A l \in Threads : at(l, "write")' => l # k /\ at(l, "write") /\ workers'[l] = workers[l]
    BY <2>1, Zenon DEF goesOn, at
  <2>4. \A l \in Threads \ {k} : at(l, "write") => fd'[workers[l].slot] = fd[workers[l].slot]
    BY <1>1, <1>2, <1>3, <2>2, ThreadType, Zenon DEF at, SocketTypeOK
  <2> QED
    BY <1>4, <2>2, <2>3, <2>4, DataFrame, Zenon DEF owner
<1>8. CASE write(k)
  <2> DEFINE c == owner(k)
  <2>1. goesOn(k, "load", NoFd, NoData)
    BY <1>1, <1>8, WriteThread, Zenon
  <2>2. at(k, "write") /\ UNCHANGED <<fd, toServer>>
        /\ toClient' = [toClient EXCEPT ![c] = IF cpc[c] = "done" THEN @ ELSE workers[k].buf]
    BY <1>8, Zenon DEF write, owner
  <2>3. \A l \in Threads : at(l, "write")' =>
          l # k /\ at(l, "write") /\ owner(l)' = owner(l) /\ workers'[l].buf = workers[l].buf
    BY <1>4, <2>1, <2>2, Zenon DEF goesOn, at, owner
  <2>4. /\ c \in Clients /\ \A d \in Clients \ {c} : toClient'[d] = toClient[d]
        /\ toClient'[c] = IF cpc[c] = "done" THEN toClient[c] ELSE workers[k].buf
    BY <1>1, <1>2, <2>2, Zenon DEF SocketTypeOK
  <2>5. cpc[c] # "done" => workers[k].buf = number[c] /\ cpc[c] = "recv"
    BY <2>2, Zenon DEF SocketInv, DataInv
  <2>6. cpc[c] # "done" => toServer[c] = NoData
    BY <2>2, <2>4, Zenon DEF SocketInv, DataInv
  <2> HIDE DEF c
  <2>7. EchoIsOwn'
    BY <1>4, <2>4, <2>5, Zenon DEF EchoIsOwn, SocketInv
  <2>8. \A l \in Threads : at(l, "write")' => owner(l) # c
    BY <1>3, <2>3, Zenon DEF c
  <2>9. \A l \in Threads : at(l, "write") => owner(l) \in Clients
    BY ThreadOwns, Zenon DEF at, Live
  <2>10. DataInv'
    BY <1>4, <2>2, <2>3, <2>4, <2>6, <2>8, <2>9 DEF DataInv, SocketInv
  <2> QED
    BY <2>7, <2>10, Zenon
<1> QED
  BY <1>5, <1>6, <1>7, <1>8, Zenon DEF Worker

(* A client's steps leave the data of the others alone. *)
LEMMA DataClient ==
    ASSUME SocketInv, NEW c \in Clients, Client(c)
    PROVE  DataInv' /\ EchoIsOwn'
<1>1. SocketTypeOK /\ DataInv /\ EchoIsOwn
  BY Zenon DEF SocketInv
<1>2. UNCHANGED <<fd, conn, workers>>
  BY Zenon DEF Client, connect, send, recv, kill
<1>3. \A k \in Threads : at(k, "write")' = at(k, "write") /\ owner(k)' = owner(k)
  BY <1>2, Zenon DEF at, owner
<1>4. \A k \in Threads : at(k, "write") => owner(k) \in Clients
  BY ThreadOwns, Zenon DEF at, Live
<1>5. \A d \in Clients \ {c} : /\ cpc'[d] = cpc[d] /\ number'[d] = number[d]
                              /\ toServer'[d] = toServer[d] /\ toClient'[d] = toClient[d]
  BY <1>1, Zenon DEF Client, connect, send, recv, kill, SocketTypeOK
<1>6. CASE connect(c)
  <2>1. UNCHANGED <<number, toServer, toClient>> /\ cpc'[c] # "start" /\ cpc[c] = "start"
    BY <1>1, <1>6, Zenon DEF connect, SocketTypeOK
  <2>2. toClient[c] = NoData /\ toServer[c] = NoData
        /\ \A k \in Threads : at(k, "write") => owner(k) # c
    BY <1>1, <2>1, Zenon DEF DataInv, EchoIsOwn
  <2> QED
    BY <1>1, <1>2, <1>3, <1>4, <1>5, <2>1, <2>2 DEF DataInv, EchoIsOwn
<1>7. CASE send(c)
  <2>1. /\ cpc[c] = "send" /\ cpc'[c] = "recv" /\ toClient' = toClient
        /\ toServer'[c] \in {NoData, number'[c]}
    BY <1>1, <1>7, Zenon DEF send, SocketTypeOK
  <2>2. toClient[c] = NoData /\ \A k \in Threads : at(k, "write") => owner(k) # c
    BY <1>1, <2>1, Zenon DEF DataInv, EchoIsOwn
  <2> QED
    BY <1>1, <1>2, <1>3, <1>4, <1>5, <2>1, <2>2 DEF DataInv, EchoIsOwn
<1>8. CASE recv(c)
  <2>1. /\ cpc[c] = "recv" /\ toClient'[c] = NoData /\ UNCHANGED <<number, toServer>>
        /\ cpc'[c] = "done" \/ (toClient[c] # NoData /\ cpc'[c] = "send")
    BY <1>1, <1>8, Zenon DEF recv, SocketTypeOK
  <2>2. toClient[c] # NoData =>
          toServer[c] = NoData /\ \A k \in Threads : at(k, "write") => owner(k) # c
    BY <1>1, <2>1, Zenon DEF DataInv
  <2> QED
    BY <1>1, <1>2, <1>3, <1>4, <1>5, <2>1, <2>2 DEF DataInv, EchoIsOwn
<1>9. CASE kill(c)
  <2>1. cpc'[c] = "done" /\ toClient'[c] = NoData /\ UNCHANGED toServer
    BY <1>1, <1>9, Zenon DEF kill, SocketTypeOK
  <2> QED
    BY <1>1, <1>2, <1>3, <1>4, <1>5, <2>1 DEF DataInv, EchoIsOwn
<1> QED
  BY <1>6, <1>7, <1>8, <1>9, Zenon DEF Client

(* A client's steps leave the table alone. *)
LEMMA SlotClient ==
    ASSUME SocketInv, NEW c \in Clients, Client(c)
    PROVE  SlotInv' /\ SlotIsExclusive' /\ ReadInv'
<1>1. UNCHANGED <<fd, mainVars, conn, workers>>
  BY Zenon DEF Client, connect, send, recv, kill
<1> QED
  BY <1>1, Zenon DEF mainVars, SocketInv, SlotInv, SlotIsExclusive, ReadInv, Live, at

-----------------------------------------------------------------------------
(* A stuttering step changes nothing. *)
LEMMA SocketStutter == SocketInv /\ UNCHANGED vars => SocketInv'
  BY DEF vars, mainVars, clientVars, SocketInv, SocketTypeOK, SlotInv, ConnInv, ReadInv, DataInv,
         EchoIsOwn, SlotIsExclusive, Live, at, owner

(* Every step keeps the invariant. *)
LEMMA SocketStep == SocketInv /\ [Next]_vars => SocketInv'
<1> SUFFICES ASSUME SocketInv, [Next]_vars PROVE SocketInv'
  BY Zenon
<1>1. CASE Main
  BY <1>1, TypeMain, SlotMain, ExclusiveMain, ConnMain, DataMain, Zenon DEF SocketInv
<1>2. ASSUME NEW k \in Threads, Worker(k) PROVE SocketInv'
  <2>1. /\ at(k, "read") => workers[k].rfd \in DOMAIN conn
        /\ at(k, "write") => fd[workers[k].slot] \in DOMAIN conn
    BY <1>2, ThreadOwns, Zenon DEF at, Live
  <2>2. SocketTypeOK'
    BY <1>2, <2>1, TypeWorker, Zenon DEF SocketInv
  <2> QED
    BY <1>2, <2>2, SlotWorker, ConnWorker, DataWorker, Zenon DEF SocketInv
<1>3. ASSUME NEW c \in Clients, Client(c) PROVE SocketInv'
  BY <1>3, TypeClient, SlotClient, ConnClient, DataClient, Zenon DEF SocketInv
<1> QED
  BY <1>1, <1>2, <1>3, SocketStutter, Zenon DEF Next

(* The invariant always holds. *)
LEMMA SocketInvariant == Spec => []SocketInv
  BY InitInv, SocketStep, PTL DEF Spec

(* For any number of slots, clients and descriptors: a running thread has  *)
(* its slot for itself, and the slot the main thread picked before it      *)
(* blocked in accept is still free when it fills it.                       *)
THEOREM SlotsExclusive == Spec => []SlotIsExclusive
<1>1. SocketInv => SlotIsExclusive
  BY Zenon DEF SocketInv
<1> QED
  BY <1>1, SocketInvariant, PTL

(* For any number of slots, clients and descriptors: what a client gets    *)
(* back is the number it sent last, though no descriptor is closed and     *)
(* slots are reused while threads of earlier connections still run.        *)
THEOREM EchoesOwn == Spec => []EchoIsOwn
<1>1. SocketInv => EchoIsOwn
  BY Zenon DEF SocketInv
<1> QED
  BY <1>1, SocketInvariant, PTL
=============================================================================
