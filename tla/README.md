# A TLA+ model of the fussion threshold signature system

`fussion` is a threshold signature scheme for UAV clusters and a set of four
programs that run it over brpc. This directory models both, with the text
encoding between the programs and the socket demo kept beside them. TLC checks
the models on small instances. TLAPS proves the safety properties of the programs
for every number of UAVs, verifiers, retries, faults and restarts, that together
they implement an abstract threshold service, that the signature scheme is correct
for every prime order and threshold, and that the text encoding is read back as it
was written for every number, vector and finite point.

Paths below are relative to the repository.

## 1. The system

| Part | Source | State | What it does |
|---|---|---|---|
| Trusted authority (TA) | `src/brpcTA.cpp` | `pp`, `b`, `d`, `sk`, `t` | `initParams` draws the parameters. `Register` returns them with a key: encrypted shares for a UAV, `sk` for the reserved ID of the cluster head. |
| UAV signer | `src/brpcUAV.cpp` | `pp_UAV`, `uav` | `registerUAV` once, then `startUAVServer`. The service `sign` makes a partial signature. |
| Aggregator (head) | `src/brpcAgg.cpp` | `pp_AGG`, `t_AGG`, `uavH`, `sigmas` | `getPpAndSk`, then `collectParSigs` asks the ports 8002, 8003, ... once each, then `startServerTran`. The service `Tran` re-encrypts what was collected for a verifier's key. |
| Verifier | `src/brpcVerifier.cpp` | `params`, `T`, `M` | `getParams`, then `verifySignature`: one `Tran` call, `Verify`, print the result, end. |
| Signature scheme | `src/fussion.cpp` | none but `state_gmp` | `Setup`, `KeyGen`, `Sign`, `AggSig`, `Verify`. `fussion()` runs them once in a row. |
| Number helpers | `src/Tools/Tools.cpp` | none | GMP and MIRACL wrappers, hashing, pairing, `BIG_inv`. |
| Codecs | `src/Tools/brpcTools.cpp` | none | Numbers, points and vectors as strings. |
| Socket demo | `else/` | table of 128 slots | Stand-alone echo server and client, not linked with the rest. |
| brpc | library | calls in flight | Synchronous calls with `timeout_ms` and `max_retry`, quit flag. |

All four programs share one weakness in their control flow that shapes the
model: `main` ignores what its steps return. A UAV that could not register still
serves, an aggregator that collected nothing still serves, and a verifier without
parameters still tries to verify. The hard behaviours are therefore the start
order of the processes, failed and late calls, restarts (of the TA above all,
because it draws new parameters), signals in the middle of a loop, and reads past
the end of vectors that are shorter than expected.

What correct means here:

* a result 1 rests on `t` genuine shares of one parameter set;
* a result 0 has an explanation;
* a key, a row and a `Sigma` each reach the process that asked for them;
* servers that hold their key survive every request;
* the verifier ends, and in a calm system it prints 1, unless a draw took a point to
  infinity;
* the algebra cancels for every draw but the few that are named;
* the hash loop ends, or it is known when it does not;
* what is encoded arrives as it was;
* a slot of the socket server belongs to one connection at a time.

The doc `README.md` of the repository says that the verifier specifies the
threshold. In the code the TA sets it (`brpcTA.cpp:147`) and sends it to everyone;
the model follows the code.

## 2. Modules

The **protocol layer** has symbolic keys and signatures. The **algebra layer** has
the formulas over a small field and shows that the symbolic `Verify` is the right
abstraction. The **encoding layer** has the strings the messages are made of, which
the protocol layer takes as values. The socket demo is separate.

```
Brpc <- TA <- UAVNode <- Aggregator <- VerifierNode <- System <- SystemInv <- MCSystem     (TLC)
SystemInv <- SystemProofs                                                  (TLAPS)
ThresholdService, instantiated by System                                   (TLC, TLAPS)
Tools <- Fussion <- MCFussion                                              (TLC)
Fussion, Residues <- FussionArithmetic <- FussionProofs                    (TLAPS)
HashToCoprime                                                              (TLC)
HashToCoprime, Residues <- HashToCoprimeProofs                             (TLAPS)
BigInv <- MCBigInv                                                         (TLC)
BigInv <- BigInvProofs                                                     (TLAPS)
Codec <- MCCodec                                                           (TLC)
Codec <- CodecProofs                                                       (TLAPS)
SocketServer                                                               (TLC)
SocketServer <- SocketServerProofs                                         (TLAPS)
```

**Brpc** (external, written from how the programs use the library). `cid` is the
correlation id of each client's last call, `tries` the retries it used, `quit` the
processes whose `IsAskedToQuit()` is true. Requests and responses are sets. A
request may be handled late, twice (after a retry) or never. A call may fail at
any moment, and its answer may still arrive. `Fault` counts what the environment
does: kills, signals, failed `channel.Init`, failed server starts, broken
connections. A failed call (a timeout) is not counted and is always possible.

**TA**. `pp` is the number of the last run of `initParams`. Two parameter sets are
equal exactly when their numbers are. 0 is the zeroed global of a process that
received none. `issued` is a history of the shares handed out. Of the numbers that a
run draws, `drawn` keeps what `Verify` can tell: `rand_mpz` returns 1 to q, and a value
drawn as q is 0 modulo q. As g it zeroes every power (`gZero`), as one of the first
`t-1` coefficients `b_i` it takes `PK[t-2]` to infinity (`PKInf`), and for some IDs a
share `d_i * ID + b_i` is 0 (`zeros`). `ParamDraws` is the set of outcomes an instance
allows. The actions are `initParams`, `startServerTA`, `Register`, `exitTA`.

**UAVNode**. Each exit of `registerUAV` is an action: the answer
(`registerUAVOk`), the failed call, the failed channel, the skipped call. All of
them lead to `startUAVServer`. `sign` ends the process when `t-1` exceeds the
length of the key. A UAV that draws the reserved ID is sent `sk` in hexadecimal,
which it parses as decimal numbers: it throws, or it keeps an empty key.

**Aggregator**. `collectParSigs` is one action per outcome of one iteration.
`aggI` is its loop variable. A restart clears everything.

**VerifierNode**. `verifySignatureOk` is the whole success branch. When the
`Sigma` has fewer than `T` rows, `Verify` reads out of range: the process crashes,
or, if there is at least one row, it may print either result. `oob` records that.
Otherwise `equation` is the pairing equation, and `garbled` says that a point `Verify`
uses was at infinity when it was sent: `PK[t-2]`, or a signature, because g, beta or a
share is 0 modulo q. The codecs turn such a point into another one (module `Codec`), so
`Verify` may then return either result, whatever the rows are.

**System** composes the four and states the properties.

**ThresholdService** is what they promise together, without calls, messages,
processes or faults. An authority replaces its parameters and issues shares of the
current ones. Each verifier gives one verdict, for good. "Accepted" takes `t` shares
of one parameter set issued for different IDs, and "rejected" takes some share.
The mapping in `System` is small: the epoch is `pp`, the shares are `issued`, and the
verdict is what the verifier printed, or "undefined" when `Verify` read past the end
of the `Sigma` or was given a point that had been at infinity. Why a verifier rejects is not part of the service; that is
`RejectionExplained`.

**Tools** and **Fussion**. G1 and G2 are the multiples of their generators, so the
groups are Z_q and the pairing is a product. `fussion()` is a state machine whose
random draws are choices. `Verify` and both overloads of `getPi_0` are translated
formula by formula. The one function without a closed form, `hashToCoprime`, has
a module of its own.

`inst` holds the sizes `n` and `tm`, so that one run covers several.

**HashToCoprime** is that loop, step by step.

**BigInv** is the loop of `BIG_inv`, one pass per step. When `a` and `m` have a common
factor, or `a` is a multiple of `m`, the last pass divides by 0; what MIRACL returns
then is left open. None of the four programs calls `BIG_inv`.

**Codec** is the text form of numbers, points and vectors, and the responses of
`Register`, `sign` and `Tran` from the handler to the client. A string is a sequence
of digits and separators. `mpz_to_str` writes hexadecimal and `mpzArr_to_str` decimal,
and the prefix of each item chooses the base when it is read. The point at infinity
has no coordinates: `ECP_get` and `ECP2_get` leave the caller's variables as they were,
so any content is possible, the same one for every point at infinity of a vector. G2 has
one number for each coordinate, where the code has two, and the curve keeps its form
`y^2 = x^3 + 4`. `cut` is the loop that takes a string apart at its separators, `concat`
the loop that puts one together; both are functions over the index of the loop, which
is what makes them provable.

**SocketServer** is `socket2` and `working` of `else/server.cpp` with the clients of
`else/client.cpp`. The main thread, each worker and each client take steps of their own, at
the granularity of the reads and writes of `infos[i].fd` and of the system calls. The
main thread picks a slot, blocks in `accept`, and fills the slot afterwards. Workers
free their slots but close no descriptor. `createFails` is a `pthread_create` that
fails unnoticed. The kernel's queue and connections are external.

## 3. Runs

| Run | Instance | Checks |
|---|---|---|
| `system_faults` | 2 UAVs with different IDs, t = 2, 1 verifier, 1 retry, 1 fault | `TypeOK`, `AcceptedByThreshold`, `RejectionExplained`, `RegisteredServersSurvive`, `ImplementsService` |
| `system_restarts` | 2 UAVs started up to twice, which draw another ID or the reserved one, 1 retry, 1 fault | `KeyMatchesId`, `OneSharePerPort` |
| `system_fair` | fair scheduling, no faults; UAVs draw different IDs, equal ones or q, and the TA may draw a share that is 0 | `AcceptedByThreshold`, `RejectionExplained`, `VerifierEnds`, `AggregatorServes` |
| `system_calm` | fair, no call fails, 2 verifiers; the TA draws nothing that is 0, or g, or a coefficient, or a share | `OwnSigma`, `EventuallyAccepted` |
| `system_register_return` | finding | `RegisterReturnsOutcome` is violated |
| `system_tran_short` | finding | `TranAuthenticable` is violated |
| `fussion` | q = 7, n = tm = 2 as in `fussion()`, and t = 3 of tm = 4 | `TypeOK`, `CorrectSignatureVerifies`, `VerifierNeverLoops`, `PiOverloadsAgree`, `PiInterpolates` |
| `hash_loop` | modulus 2310 = 2·3·5·7·11, increment 11 | `TypeOK`, `MultipleNeverReturns`, `ResultInvertible`, `OthersReturn` |
| `big_inv` | a up to 24, m up to 16 | `TypeOK`, `Bezout`, `InverseFound`, `Terminates` |
| `codec` | a group of order 7 over the field of 13 elements, vectors of up to 2 | `NumbersArrive`, `FinitePointsArrive`, `MessageByLeadingDigits`, `OctetFits` |
| `codec_infinity` | finding | `PublicKeyArrives` is violated |
| `socket` | 3 clients, 2 slots, 3 descriptors | `EchoIsOwn`, `SlotIsExclusive`, `ServedIsAnswered`, `LastSlotAdmits` |

What they show:

* **An acceptance is genuine.** However the processes start, fail and restart, an
  in-range result 1 for points that are all finite means `t` rows of different ports
  and different IDs, made from issued shares of the verifier's own parameter set.
* **A rejection has a cause in what was drawn or restarted.** An in-range result 0
  means a point at infinity, an ID that is q, two equal IDs, or, after a restart of the
  TA, values of two parameter sets. Lost, late and repeated calls never cause one.
  The exception for points at infinity is needed on both sides: a `PK[t-2]` that
  arrives as another point makes the equation fail for good rows, and the codec
  does not exclude that it holds for others.
* **Nothing is mixed up.** `registerUAV` stores the ID it drew beside a key that
  does not carry its ID, and the two belong together. The aggregator stores one row
  per port, which rests on brpc's correlation ids: a late answer must not be
  taken for that of the next port.
* **One service.** Faults, retries, restarts and late answers never show: every
  step is a step of `ThresholdService` or invisible in it.
* **Progress.** The verifier and the aggregator's loop end whatever the others do; a
  verifier that crashes has ended too, so the run speaks of waiting, not of success.
  Without failed calls the result is 1 in every interleaving of the calls, unless
  a point was at infinity. A process that starts before its server is covered only as
  long as its call does not give up: when `timeout_ms` is over first, the call fails
  and `main` goes on without its result.
* **The algebra.** For every draw but g ≡ 0, an ID ≡ 0, or equal IDs, verification
  succeeds, zero shares and exponents q-1 and q included.
* **The hash loop.** Its increment 254760293 is one of the factors it avoids, so a
  hash that is a multiple of it never leaves the loop. The chance is about one in
  254760293 for each new verifier key, and it hangs the `Tran` handler of the
  aggregator before it can hang a verifier. Every other hash returns, with an
  invertible result.
* **The inverse.** `BIG_inv` ends for all arguments. It returns the inverse when
  there is one, and otherwise a number whose product with `a` is 0 modulo `m`. With
  m = 1 everything is an inverse.
* **The strings.** All numbers and all finite points arrive, in their places, also
  beside a point at infinity. A message longer than a scalar is signed by its
  leading digits, by everyone alike. The octets that are sent fit their buffer,
  which the uncompressed form, used by a test only, would not.
* **The socket server.** No client gets another's echo, though slots are reused
  while threads of earlier connections still run. A connection that ends in the
  last slot makes room. One that ends in another slot need not: once the scan has
  reached the last slot it stays there.

The three findings:

* `registerUAV` returns 1 after a failed registration; its comment promises -1.
* `Tran` can answer with fewer than `t` rows; its comment promises a signature
  that the verifier can authenticate.
* The public keys need not arrive as they were sent. `rand_mpz` can return q, though
  its comment sets the maximum at q-1; the key is then the point at infinity, and
  its compressed text is read as some other point. The test of `ECP2Arr_to_str` asks
  for equality for every random vector. The chance is 2^-255 per draw.

### Bounds

* **Two UAVs, t = 2.** Two is the smallest threshold, and it has a first row, a
  next row and a row that moves up when the first port fails. The theorems cover
  every other size.
* **MaxRetry = 1, MaxFaults = 1.** One duplicate is enough to be answered twice.
  One fault can hit every step, and failed calls come on top of it without
  bound. A TA restart costs one fault and leaves every other process with old
  parameters. The theorems hold for any budget.
* **MaxUavStarts = 2.** A second life meets the messages of the first.
* **Draws of the TA.** Each of the three ways to a point at infinity is drawn in
  `system_calm`, and the one that depends on who signs, a share that is 0, in
  `system_fair`, beside equal IDs and q. The runs with faults leave them out: `drawn`
  changes no step but what `Verify` returns, and it multiplies their states. The
  theorems hold for every set `ParamDraws`.
* **q = 7.** q-1 has two prime factors, one of which is the increment, as in the
  code. The draws include q-1 and q, and the IDs of the pair are all the values
  `rand_mpz` has. The hash functions are three shifts, so that a key can meet every
  remainder modulo the increment, the one that loops included.
* **MaxHash = 4620.** The values modulo the other factors repeat after 2·3·5·7 = 210
  passes of 11, which is 2310 above the start; the bound is never what stops a
  hash that would return.
* **a up to 24, m up to 16.** Below, equal to and above the modulus, 0, primes, powers
  and common factors. The theorems cover every other argument.
* **Digits.** The bases 16, 10 and 8 are 4, 3 and 2, and the widths 64 and 96 are 2 and 4:
  different bases and widths, numbers of one digit and of several, and messages
  below, at and beyond the width of a scalar. Vectors of 0 (for `Tran`), 1 and 2
  items have a first, a last and no separator. The draws 1, 3 and 7 are points with
  both signs of y and the point at infinity.
* **3 clients, 2 slots, 3 descriptors.** All slots can be taken while a client
  waits, a slot can be reused, and the limit is reached when a further `accept`
  is tried. Numbers are told apart modulo 2, which is enough for a stale echo.

`CHECK_DEADLOCK FALSE` is set in every run: the verifier's program ends, `fussion()`
ends, and servers without clients have nothing to do.

### Fairness

`FairSpec` has weak fairness for the steps of each process that are no faults: the
operating system runs each process, and a stub returns at the latest when
`timeout_ms` is over. Nothing is assumed of delivery, so a call may fail every
time. `CalmSpec` in addition excludes failed calls; it is the system in which
servers are up before their clients give up, and only `EventuallyAccepted` uses
it. `HashToCoprime` and `BigInv` have weak fairness of the loop itself. `SocketServer`
has weak fairness of the main thread, of each worker and of a client that waits in
`recv`; clients need not connect or send, and nothing kills them by necessity.

## 4. Proofs

Every invariant, action property and refinement that a passing run checks is proved
for every value of the constants too. Only the liveness properties are not; the end of
this section says why.

### The four programs

`SystemProofs` proves from `BrpcAssumption`, `TAAssumption` and `UavAssumption` alone
(bounds are natural numbers, `tm >= 2`, the reserved ID and q are different IDs,
draws are IDs, and what a run of the TA draws is any subset of the outcomes `Drawn`):

| Theorem | Statement |
|---|---|
| `Invariance` | `Spec => []IndInv` |
| `TypeCorrect` | `Spec => []TypeOK` |
| `KeysMatchIds` | `Spec => []KeyMatchesId` |
| `OneShare` | `Spec => []OneSharePerPort` |
| `SigmasAreOwn` | `Spec => []OwnSigma` |
| `Acceptance` | `Spec => []AcceptedByThreshold` |
| `Rejection` | `Spec => []RejectionExplained` |
| `ServersSurvive` | `Spec => RegisteredServersSurvive` |
| `Implementation` | `Spec => ImplementsService` |

None of these properties is inductive: each speaks of the end of a path whose
earlier stations are in messages. `IndInv` (module `SystemInv`) follows a share
along that path:

1. `TAInv`: shares come from runs of `initParams` that have happened, and `drawn` has
   one entry for each.
2. `RegisterInv`: no message is newer than its client's last call, and a response
   carries parameters, key and threshold of one run.
3. `OwnIdInv`: what answers a UAV's pending call is about the ID it sent. This
   is the step that needs the freshness in 2: a new call has no old answers.
4. `KeyMatchesId`: so the saved ID and key belong together.
5. `SignInv`: a partial signature on the wire is made of an issued share under its
   own ID, and what answers the pending call comes from the port that was asked.
6. `AggInv`: so appending keeps the rows in port order, below the loop variable.
7. `TranInv`: a `Sigma` on the wire has such rows and goes to the holder of its key.
8. `VerInv`: what a verifier printed is a result of `Verify` for the `Sigma` it was given.
   A later run of `initParams` does not change that: the `Sigma` stems from earlier runs
   (`TADraws`).

`SystemProofs` begins with the type invariant, one lemma per process (`TypeTA`, `TypeUav`,
`TypeAgg`, `TypeVer`), and what each process leaves alone. Then come the rest of
`IndInv`, one lemma per process too (`IndInvTA`, `IndInvUav`, `IndInvAgg`, `IndInvVer`),
the theorems, and the refinement. The steps that show in `ThresholdService` are those of
`initParams`, of `Register` and of `verifySignatureOk`. The last one needs `IndInv`: the
shares behind the rows a verifier accepts were issued, under the parameters it
holds. That a verdict is given once needs one more invariant, `UndecidedInv`: before a
verifier is done, it has read past the end of nothing.

### The signature scheme

`FussionProofs` proves, for every prime order q > 2, every group size and threshold,
every hash function and every draw:

| Theorem | Statement |
|---|---|
| `RunInvariant` | `Spec => []RunInv` |
| `SignaturesVerify` | `Spec => []CorrectSignatureVerifies` |
| `VerifierEnds` | `Spec => []VerifierNeverLoops` |
| `OverloadsAgree` | `Spec => []PiOverloadsAgree` |
| `CoefficientsInterpolate` | `Spec => []PiInterpolates` |
| `FussionTyped` | `Spec => []TypeOK` |

The assumptions are those of the modules `Tools` and `Fussion`: q is a prime above 2,
`tm >= 2` and n at least the threshold, `getFactors()` lists the primes of q-1 and the
increment is one of them (both are so in the code), draws come from `rand_mpz`, and a
digest read as a number is not negative (`ShaAssumption`).

`RunInv` is the inductive invariant: each variable holds what the functions compute
from the draws made so far. Alone, `CorrectSignatureVerifies` is not inductive: at the
last step nothing would be known of how the rows came about. That `RunInv` is
invariant needs no arithmetic. The arithmetic comes in three layers:

1. `Residues`, which is about numbers only: sums, products and powers modulo m,
   inverses modulo a prime, Fermat's little theorem (`Fermat`) and Lagrange
   interpolation at 0 (`Interpolation`). The sum of the coefficients is 1 by an
   induction on the number of points that carries the partial fractions of
   `1 / prod (x[i] - y)` along (`FractionsAll`, `UnitSumAll`); each linear factor
   then lowers the number of points by one (`InterpolatesStep`).
2. `FussionArithmetic`: what each function of the code computes, its loops and
   reductions included. `PiIsCoef` and `SigmaPiIsCoef` are the two overloads of
   `getPi_0`; `UavIs`, `SignIs` and `RowIs` are `getUAV`, `Sign` and one row of
   `AggSig`; `HashInverse` is the exponent `alpha / h` modulo q-1, which may be reduced
   there by `Fermat`; `RowUnblinds` cancels blinding and re-encryption; `VerifySum` is
   the loop of `Verify`.
3. `FussionProofs`: `RowVerifies` puts 2 and `RunInv` together for one row, `ScaledSum` adds
   the rows up by `Interpolation`, and `Correct` is the equation that `Verify` tests.

### The loops

`HashToCoprimeProofs` proves `LoopTypeOK`, `LoopNeverReturns` and `LoopResultInvertible`
(`[]ResultInvertible`) for every modulus and every increment among its primes.
The first two rest on the lemma `AddDivisor`: adding a divisor keeps a number
divisible. The third needs `FactorsAssumption`, that `getFactors()` lists all primes of
q-1: a number that none of them divides has no common factor with q-1
(`NoFactorInverse`).

`BigInvProofs` proves, for every a and every m > 0 and from `BigInvAssumption` alone:

| Theorem | Statement |
|---|---|
| `InvTypeOK` | `Spec => []TypeOK` |
| `InvBezout` | `Spec => []Bezout` |
| `InvCorrect` | `Spec => []InverseFound` |

`Bezout` is the loop invariant: each of the two remainders is its coefficient times
`a`, modulo `m`. For the case without an inverse `LoopInv` adds that
what divides both remainders divides `a` and `m`, so that a remainder 0 at the end
means a common factor (or m = 1).

### The strings

`CodecProofs` proves, for all bases, widths, fields, groups and messages and for vectors
of any length:

| Theorem | Statement |
|---|---|
| `NumberVectorArrives` | `str_to_mpzArr(mpzArr_to_str(mpzs)) = mpzs` for all vectors of numbers |
| `G1VectorArrives` | `str_to_ECPArr` after `ECPArr_to_str` keeps the length and every finite point in its place |
| `G2VectorArrives` | the same for `ECP2Arr_to_str`, compressed, and each octet has `BigLen + 2` digits |
| `CodecInvariant` | `Spec => []CodecInv` |
| `NumbersAlwaysArrive` | `Spec => []NumbersArrive` |
| `FinitePointsAlwaysArrive` | `Spec => []FinitePointsArrive` |
| `MessageAlwaysByLeadingDigits` | `Spec => []MessageByLeadingDigits` |
| `OctetAlwaysFits` | `Spec => []OctetFits` |

The assumptions are `CodecAssumption` (bases of at least 2, a coordinate of at least one
byte, q fits a scalar and F a coordinate) and `CurveAssumption` (F is odd and has no
divisors of zero, and the multiples of the generator are on the curve). The argument
goes from digits to responses:

1. A loop over a sequence has values, and they are determined by its first value and
   its step (`LoopExists`, `LoopIs`). So `Power`, `Value`, `cut` and `concat` satisfy the
   equations of their loops (`PowerStep`, `ValueStep`, `CutStep`, `ConcatStep`).
2. The first i digits of n are worth n divided by a power of the base (`PrefixValue`,
   from `DivideTwice`). All of them are n, so numbers are read back (`DigitsAre`); the
   first `ScalarLen` are what `mpz_to_BIG` takes (`MpzToBIG`). Padding changes nothing
   (`PadIs`).
3. What is joined from pieces without the separator is cut into those pieces
   (`CutTerminated`, `PiecesOfJoin`). Empty pieces are excluded, and none is ever
   written. A decimal item longer than one digit does not begin with 0, so it is not
   taken for octal (`ItemArrives`).
4. x and the sign of y determine a point: two roots of the same square differ by their
   sign, and over an odd field y and F - y have different parities (`RootsDiffer`,
   `SetxArrives`).
5. `CodecInv` says which response is under way, that the fields are what the encoders
   made of it, and that the client has read nothing yet or what the decoders make of
   those fields. The properties speak only of what was read, so they need it.

### The socket server

`SocketServerProofs` proves `SlotsExclusive` (`[]SlotIsExclusive`) and `EchoesOwn`
(`[]EchoIsOwn`) for any number of clients, slots, descriptors and numbers. The two
depend on each other and on four more facts in `SocketInv`:

* `SlotInv`: the slot the main thread picked stays free while it blocks in `accept`, and
  no two slots hold one descriptor;
* `ReadInv`: a thread in `read` waits on the descriptor that its slot holds, which is
  what makes the second load of `infos[i].fd`, in the `write`, harmless;
* `ConnInv`: no two descriptors belong to one client;
* `DataInv`: a number under way is in one place, the socket, the buffer of the
  client's own thread, or the way back.

### Induction, and what is only model-checked

The induction theorems of the library take a predicate as a parameter, which the
provers cannot instantiate. `Residues` and `CodecProofs` have one for a set instead
(`Induction`, from the well-ordering of the natural numbers), and each proof by
induction defines its set. That is enough for loops over an index, over the digits of a
number and over the items of a vector.

Only model-checked is all liveness: `VerifierEnds` of `System`, `AggregatorServes`,
`EventuallyAccepted`, `OthersReturn`, `Terminates`, `ServedIsAnswered`, `LastSlotAdmits`.
Fairness is beyond the prover. The three findings are counterexamples that TLC finds.

## 5. What is not modelled

* **Handlers running at the same time in one process.** Handlers are atomic. Their
  only shared state that changes is `state_gmp`, which `AggSig` seeds again on every
  call, and the draws are free choices in the model. What GMP does when two handlers
  seed and read `state_gmp` at once is left out, and so is a handler that another
  request overtakes.
* **The hash loop inside the protocol layer.** `Tran` and `Verify` return there.
* **Chance events of about 2^-255**: a pairing equation that holds by accident. Draws
  that are 0 modulo q are about as rare; they are modelled because `rand_mpz` returns
  q although its comment sets the maximum at q-1.
* **Helpers nothing but tests uses**: `FP12_to_str`, `str_to_FP12`, `randBig`, `randECP`,
  `randECP2` and the show functions.
* **`socket()` in `else/server.cpp`**, which serves one client in a straight line.
* **Generated protobuf code, vendored headers, MIRACL, GMP, gflags, logging, the
  echo demo.** They are most of the repository's lines. The programs' own code is
  modelled but for what is listed here.
