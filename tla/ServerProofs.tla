----------------------------- MODULE ServerProofs -----------------------------
(***************************************************************************)
(* For any number of workers and connections and any size of the queue: a  *)
(* worker serves the socket it has taken, nothing is used after it was     *)
(* freed, no socket waits while a worker sleeps, and Server implements     *)
(* Dispatch.                                                               *)
(***************************************************************************)
EXTENDS Server, FiniteSetTheorems, TLAPS

Indices == sqTail .. sqHead - 1
At(i) == squeue[i % Size]
Waits(c) == c \in 1 .. accepted /\ fate[c] = "none"
Starting == {"context", "options", "numbers", "security", "ports", "limits",
             "workers", "master"}

(* The order in which the threads begin and end.                           *)
LifeInv ==
  /\ app \in Starting \cup {"null", "ignored"} => mpc = "none"
  /\ app \in (Starting \ {"workers", "master"}) \cup {"null"} => started = 0
  /\ app = "workers" => started < Workers
  /\ mt => app = "running"
  /\ app = "running" /\ ~mt => mpc = "none"
  /\ \A w \in W : w > started => wpc[w] = "none"
  /\ stop # 0 => app \in {"stopping", "freed"}
  /\ mpc \in {"wake", "join", "gone"} => stop # 0 /\ ~ports
  /\ stop = 2 => mpc = "gone"
  /\ mpc = "gone" => stop = 2 /\ \A w \in W : wpc[w] \in {"none", "gone"}
  /\ app = "freed" => stop = 2

(* Each connection that waits is in one place: with the master, in the     *)
(* ring or with a worker.  The master has the last one accepted.           *)
MasterInv ==
  /\ mhold # 0 <=> mpc \in {"put", "wait"}
  /\ mhold # 0 => mhold = accepted /\ Waits(mhold)

(* Those in the ring are in the order of their acceptance.                 *)
RingInv ==
  /\ \A i \in Indices : At(i) \in 1 .. accepted
  /\ app # "freed" => \A i \in Indices : fate[At(i)] = "none"
  /\ \A i, j \in Indices : i < j => At(i) < At(j)
  /\ \A i \in Indices : mhold # 0 => At(i) < mhold

(* What a worker has nobody else has.                                      *)
HoldInv ==
  /\ \A w \in W : hold[w] # 0 => /\ Waits(hold[w])
                                 /\ wpc[w] \in {"check", "serve"}
                                 /\ hold[w] # mhold
  /\ \A w \in W : wpc[w] = "serve" \/ (wpc[w] = "check" /\ stop = 0) => hold[w] # 0
  /\ \A v, w \in W : hold[v] # 0 /\ hold[v] = hold[w] => v = w
  /\ \A w \in W, i \in Indices : hold[w] # At(i)

(* No connection that waits has been forgotten.                            *)
PlaceInv ==
  /\ \A c \in Conns : c > accepted => fate[c] = "none"
  /\ \A c \in Conns : Waits(c) => \/ c = mhold
                                  \/ \E w \in W : hold[w] = c
                                  \/ \E i \in Indices : At(i) = c

PlacesInv == MasterInv /\ RingInv /\ HoldInv /\ PlaceInv

IInv == TypeOK /\ LifeInv /\ PlacesInv
-----------------------------------------------------------------------------
(* Operators of the model. *)

\* An index of the ring is less than twice its size.
LEMMA Slots ==
  \A i \in 0 .. 2 * Size - 1 : /\ i % Size = IF i < Size THEN i ELSE i - Size
                               /\ i % Size \in 0 .. Size - 1
  BY SizeAssumption

\* A signal wakes a waiting worker, if there is one, and nobody else.
LEMMA SignalWakesOne ==
  ASSUME TypeOK, NEW after \in SignalFull(wpc)
  PROVE  \/ after = wpc /\ \A w \in W : wpc[w] # "wait"
         \/ \E w \in W : wpc[w] = "wait" /\ after = [wpc EXCEPT ![w] = "consume"]
  BY DEF SignalFull

\* What the initial state fulfils.
LEMMA InitEstablishes == Init => IInv
  <1> SUFFICES ASSUME Init
               PROVE  IInv
    OBVIOUS
  <1>1. TypeOK
    <2>1. mt \in BOOLEAN /\ ports \in BOOLEAN
      BY Zenon DEF Init
    <2> QED
      BY <2>1, WorkersAssumption, SizeAssumption, ConnsAssumption
         DEF Init, TypeOK, AppPlaces, MasterPlaces, WorkerPlaces, Fates
  <1>2. LifeInv
    BY WorkersAssumption DEF Init, LifeInv, Starting, W
  <1>3. Indices = {}
    BY DEF Init, Indices
  <1>4. PlacesInv
    BY <1>3 DEF Init, PlacesInv, MasterInv, RingInv, HoldInv, PlaceInv, Waits, W, Conns
  <1> QED
    BY <1>1, <1>2, <1>4 DEF IInv
-----------------------------------------------------------------------------
(* TypeOK. *)

LEMMA StartKeepsTypes ==
  ASSUME IInv, Start
  PROVE  TypeOK'
  <1> USE DEF IInv, TypeOK, AppPlaces, MasterPlaces, WorkerPlaces, appVars, queueVars,
              masterVars, workerVars, connVars
  <1>1. CASE CreateContext
    BY <1>1 DEF CreateContext, Phase
  <1>2. CASE ReadOptions
    BY <1>2 DEF ReadOptions, Phase
  <1>3. CASE CheckNumbers
    BY <1>3 DEF CheckNumbers, Phase
  <1>4. CASE InitSecurity
    BY <1>4 DEF InitSecurity, Phase
  <1>5. CASE OpenPorts
    <2>1. ports' \in BOOLEAN /\ mt' \in BOOLEAN
      BY <1>5, Zenon DEF OpenPorts
    <2> QED
      BY <1>5, <2>1 DEF OpenPorts
  <1>6. CASE SetLimits
    BY <1>6 DEF SetLimits, Phase
  <1>7. CASE StartWorker
    <2>1. started' \in 0 .. Workers
      BY <1>7, WorkersAssumption DEF StartWorker, LifeInv
    <2>2. wpc' \in [W -> WorkerPlaces]
      BY <1>7 DEF StartWorker
    <2>3. app' \in AppPlaces /\ mt' \in BOOLEAN /\ ports' \in BOOLEAN
      BY <1>7 DEF StartWorker
    <2> QED
      BY <1>7, <2>1, <2>2, <2>3 DEF StartWorker
  <1>8. CASE StartMaster
    <2>1. ports' \in BOOLEAN /\ mt' \in BOOLEAN
      BY <1>8, Zenon DEF StartMaster
    <2> QED
      BY <1>8, <2>1 DEF StartMaster
  <1> QED
    BY <1>1, <1>2, <1>3, <1>4, <1>5, <1>6, <1>7, <1>8 DEF Start

LEMMA MasterKeepsTypes ==
  ASSUME IInv, Master
  PROVE  TypeOK'
  <1> USE DEF IInv, TypeOK, AppPlaces, MasterPlaces, WorkerPlaces, appVars, queueVars,
              masterVars, workerVars, connVars
  <1>1. CASE AcceptNewConnection
    <2>1. ports' \in BOOLEAN /\ mt' \in BOOLEAN
      BY <1>1, Zenon DEF AcceptNewConnection
    <2>2. accepted' \in 0 .. arrived' /\ mhold' \in 0 .. MaxConns /\ mpc' \in MasterPlaces
      BY <1>1, ConnsAssumption DEF AcceptNewConnection
    <2>3. fate' \in [Conns -> Fates]
      BY <1>1 DEF AcceptNewConnection, Fates
    <2> QED
      BY <1>1, <2>1, <2>2, <2>3 DEF AcceptNewConnection
  <1>2. CASE WaitForRoom
    BY <1>2 DEF WaitForRoom
  <1>3. CASE ProduceSocket
    <2>1. ports' \in BOOLEAN /\ mt' \in BOOLEAN
      BY <1>3, Zenon DEF ProduceSocket
    <2>2. wpc' \in [W -> WorkerPlaces]
      BY <1>3, SignalWakesOne DEF ProduceSocket
    <2>3. /\ squeue' \in [0 .. Size - 1 -> 0 .. MaxConns] /\ sqTail' \in 0 .. Size
          /\ sqHead' \in sqTail' .. sqTail' + Size
      <3>1. CASE Full
        BY <1>3, <3>1 DEF ProduceSocket
      <3>2. CASE ~Full
        <4>1. squeue' \in [0 .. Size - 1 -> 0 .. MaxConns]
          BY <1>3, <3>2 DEF ProduceSocket
        <4>2. sqTail' = sqTail /\ sqHead' = sqHead + 1
          BY <1>3, <3>2 DEF ProduceSocket
        <4> QED
          BY <3>2, <4>1, <4>2, SizeAssumption DEF Full, Filled
      <3> QED
        BY <3>1, <3>2
    <2>4. fate' \in [Conns -> Fates]
      BY <1>3 DEF ProduceSocket, Fates
    <2> QED
      BY <1>3, <2>1, <2>2, <2>3, <2>4, ConnsAssumption DEF ProduceSocket
  <1>4. CASE LeaveLoop
    <2>1. ports' \in BOOLEAN /\ mt' \in BOOLEAN
      BY <1>4, Zenon DEF LeaveLoop
    <2> QED
      BY <1>4, <2>1 DEF LeaveLoop
  <1>5. CASE WakeWorkers
    BY <1>5 DEF WakeWorkers
  <1>6. CASE JoinWorkers
    BY <1>6 DEF JoinWorkers
  <1> QED
    BY <1>1, <1>2, <1>3, <1>4, <1>5, <1>6 DEF Master

LEMMA WorkerKeepsTypes ==
  ASSUME IInv, NEW w \in W, Worker(w)
  PROVE  TypeOK'
  <1> USE DEF IInv, TypeOK, AppPlaces, MasterPlaces, WorkerPlaces, appVars, queueVars,
              masterVars, workerVars, connVars
  <1>1. CASE WorkerInit(w)
    BY <1>1 DEF WorkerInit
  <1>2. CASE GoIdle(w)
    BY <1>2 DEF GoIdle
  <1>3. CASE ConsumeSocket(w)
    <2>1. ports' \in BOOLEAN /\ mt' \in BOOLEAN
      BY <1>3, Zenon DEF ConsumeSocket
    <2>2. /\ sqTail' \in 0 .. Size /\ sqHead' \in sqTail' .. sqTail' + Size
      BY <1>3, SizeAssumption DEF ConsumeSocket, Wrap
    <2>3. hold' \in [W -> 0 .. MaxConns]
      BY <1>3, SizeAssumption, Slots DEF ConsumeSocket
    <2>4. wpc' \in [W -> WorkerPlaces] /\ mpc' \in MasterPlaces
      BY <1>3 DEF ConsumeSocket, SignalEmpty
    <2> QED
      BY <1>3, <2>1, <2>2, <2>3, <2>4 DEF ConsumeSocket
  <1>4. CASE CheckStop(w)
    <2>1. ports' \in BOOLEAN /\ mt' \in BOOLEAN
      BY <1>4, Zenon DEF CheckStop
    <2>2. fate' \in [Conns -> Fates]
      BY <1>4 DEF CheckStop, Fates
    <2>3. hold' \in [W -> 0 .. MaxConns]
      BY <1>4, ConnsAssumption DEF CheckStop
    <2>4. wpc' \in [W -> WorkerPlaces]
      BY <1>4 DEF CheckStop
    <2> QED
      BY <1>4, <2>1, <2>2, <2>3, <2>4 DEF CheckStop
  <1>5. CASE Serve(w)
    <2>1. fate' \in [Conns -> Fates]
      BY <1>5 DEF Serve, Fates
    <2>2. hold' \in [W -> 0 .. MaxConns] /\ wpc' \in [W -> WorkerPlaces]
      BY <1>5, ConnsAssumption DEF Serve
    <2> QED
      BY <1>5, <2>1, <2>2 DEF Serve
  <1> QED
    BY <1>1, <1>2, <1>3, <1>4, <1>5 DEF Worker

LEMMA NextKeepsTypes ==
  ASSUME IInv, Next
  PROVE  TypeOK'
  <1> USE DEF IInv, TypeOK, AppPlaces, MasterPlaces, WorkerPlaces, appVars, queueVars,
              masterVars, workerVars, connVars
  <1>1. CASE MgStop
    <2>1. ports' \in BOOLEAN /\ mt' \in BOOLEAN
      BY <1>1, Zenon DEF MgStop
    <2> QED
      BY <1>1, <2>1 DEF MgStop
  <1>2. CASE FreeContext
    BY <1>2 DEF FreeContext, Fates
  <1>3. CASE Arrive
    BY <1>3, ConnsAssumption DEF Arrive
  <1>4. CASE Spurious
    BY <1>4 DEF Spurious
  <1> QED
    BY <1>1, <1>2, <1>3, <1>4, StartKeepsTypes, MasterKeepsTypes, WorkerKeepsTypes DEF Next
-----------------------------------------------------------------------------
(* LifeInv. *)

LEMMA NextKeepsLives ==
  ASSUME IInv, Next
  PROVE  LifeInv'
  <1> USE DEF IInv, TypeOK, LifeInv, Starting, W, appVars, masterVars, workerVars
  <1>1. CASE Start
    <2>1. CASE CreateContext
      BY <2>1 DEF CreateContext, Phase
    <2>2. CASE ReadOptions
      BY <2>2 DEF ReadOptions, Phase
    <2>3. CASE CheckNumbers
      BY <2>3 DEF CheckNumbers, Phase
    <2>4. CASE InitSecurity
      BY <2>4 DEF InitSecurity, Phase
    <2>5. CASE OpenPorts
      BY <2>5 DEF OpenPorts
    <2>6. CASE SetLimits
      BY <2>6, WorkersAssumption DEF SetLimits, Phase
    <2>7. CASE StartWorker
      <3>1. stop' = 0 /\ mpc' = "none" /\ mt' = mt /\ ~mt
        BY <2>7 DEF StartWorker
      <3>2. /\ app' = "null" => started' = 0
            /\ app' \in {"null", "master", "workers"}
            /\ app' = "workers" => started' < Workers
        BY <2>7, WorkersAssumption DEF StartWorker
      <3>3. \A w \in W : w > started' => wpc'[w] = "none"
        <4>1. CASE started' = started + 1 /\ wpc' = [wpc EXCEPT ![started + 1] = "init"]
          BY <4>1
        <4>2. CASE UNCHANGED <<started, wpc>>
          BY <4>2
        <4> QED
          BY <2>7, <4>1, <4>2 DEF StartWorker
      <3> QED
        BY <3>1, <3>2, <3>3
    <2>8. CASE StartMaster
      BY <2>8 DEF StartMaster
    <2> QED
      BY <1>1, <2>1, <2>2, <2>3, <2>4, <2>5, <2>6, <2>7, <2>8 DEF Start
  <1>2. CASE MgStop
    <2>1. stop = 0 /\ mpc \notin {"wake", "join", "gone"}
      BY <1>2 DEF MgStop
    <2>2. CASE mt
      BY <1>2, <2>1, <2>2 DEF MgStop
    <2>3. CASE ~mt
      BY <1>2, <2>1, <2>3 DEF MgStop
    <2> QED
      BY <2>2, <2>3
  <1>3. CASE FreeContext
    BY <1>3 DEF FreeContext
  <1>4. CASE Arrive
    BY <1>4 DEF Arrive
  <1>5. CASE Master
    <2>1. CASE AcceptNewConnection
      BY <2>1 DEF AcceptNewConnection
    <2>2. CASE WaitForRoom
      BY <2>2 DEF WaitForRoom
    <2>3. CASE ProduceSocket
      BY <2>3, SignalWakesOne DEF ProduceSocket
    <2>4. CASE LeaveLoop
      BY <2>4 DEF LeaveLoop
    <2>5. CASE WakeWorkers
      BY <2>5 DEF WakeWorkers
    <2>6. CASE JoinWorkers
      BY <2>6 DEF JoinWorkers
    <2> QED
      BY <1>5, <2>1, <2>2, <2>3, <2>4, <2>5, <2>6 DEF Master
  <1>6. CASE Spurious
    BY <1>6 DEF Spurious
  <1>7. ASSUME NEW w \in W, Worker(w)
        PROVE  LifeInv'
    <2>1. CASE WorkerInit(w)
      BY <2>1 DEF WorkerInit
    <2>2. CASE GoIdle(w)
      BY <2>2 DEF GoIdle
    <2>3. CASE ConsumeSocket(w)
      BY <2>3 DEF ConsumeSocket, SignalEmpty
    <2>4. CASE CheckStop(w)
      BY <2>4 DEF CheckStop
    <2>5. CASE Serve(w)
      BY <2>5 DEF Serve
    <2> QED
      BY <1>7, <2>1, <2>2, <2>3, <2>4, <2>5 DEF Worker
  <1> QED
    BY <1>1, <1>2, <1>3, <1>4, <1>5, <1>6, <1>7 DEF Next
-----------------------------------------------------------------------------
(* PlacesInv. *)

\* Most actions move no connection: then its places are as they were.
LEMMA QuietKeepsPlaces ==
  ASSUME IInv, UNCHANGED <<queueVars, mhold, hold, accepted, fate>>,
         mpc' \in {"put", "wait"} <=> mpc \in {"put", "wait"},
         \A w \in W : \/ wpc'[w] = wpc[w]
                      \/ wpc[w] \notin {"check", "serve"} /\ wpc'[w] \notin {"check", "serve"}
                      \/ wpc[w] = "check" /\ wpc'[w] = "serve" /\ stop = 0,
         stop' = 0 => stop = 0, app = "freed" => app' = "freed"
  PROVE  PlacesInv'
  <1> USE DEF IInv, PlacesInv
  <1>1. MasterInv'
    BY DEF MasterInv, Waits
  <1>2. Indices' = Indices /\ \A i : At(i)' = At(i)
    BY DEF Indices, At, queueVars
  <1>3. RingInv'
    BY <1>2 DEF RingInv
  <1>4. HoldInv'
    BY <1>2 DEF HoldInv, Waits
  <1>5. PlaceInv'
    BY <1>2 DEF PlaceInv, Waits
  <1> QED
    BY <1>1, <1>3, <1>4, <1>5

LEMMA FreeContextKeepsPlaces ==
  ASSUME IInv, FreeContext
  PROVE  PlacesInv'
  <1> USE DEF IInv, PlacesInv
  <1>1. mhold = 0 /\ \A w \in W : hold[w] = 0 /\ wpc[w] \in {"none", "gone"}
    BY DEF FreeContext, LifeInv, MasterInv, HoldInv
  <1>2. \A c \in Conns : fate'[c] = IF c <= accepted /\ fate[c] = "none" THEN "lost" ELSE fate[c]
    BY DEF FreeContext
  <1>3. \A c \in Conns : ~Waits(c)'
    BY <1>2 DEF FreeContext, Waits
  <1>4. Indices' = Indices /\ \A i : At(i)' = At(i)
    BY DEF FreeContext, queueVars, Indices, At
  <1>5. MasterInv'
    BY <1>1 DEF FreeContext, masterVars, MasterInv
  <1>6. RingInv'
    BY <1>1, <1>4 DEF FreeContext, masterVars, RingInv
  <1>7. HoldInv'
    BY <1>1, <1>4 DEF FreeContext, workerVars, HoldInv, RingInv, TypeOK
  <1>8. PlaceInv'
    BY <1>2, <1>3, ConnsAssumption DEF FreeContext, PlaceInv, TypeOK, Conns
  <1> QED
    BY <1>5, <1>6, <1>7, <1>8

LEMMA AcceptKeepsPlaces ==
  ASSUME IInv, AcceptNewConnection
  PROVE  PlacesInv'
  <1> USE DEF IInv, PlacesInv
  <1>1. mhold = 0 /\ accepted' = accepted + 1 /\ accepted' \in Conns
        /\ accepted \in Nat /\ fate[accepted'] = "none"
    BY ConnsAssumption DEF AcceptNewConnection, MasterInv, PlaceInv, TypeOK, Conns
  <1>2. Indices' = Indices /\ \A i : At(i)' = At(i)
    BY DEF AcceptNewConnection, queueVars, Indices, At
  <1>3. \A c \in Conns : c <= accepted => fate'[c] = fate[c]
    BY <1>1, ConnsAssumption DEF AcceptNewConnection, TypeOK, Conns
  <1>4. UNCHANGED <<app, stop, hold, wpc>>
    BY DEF AcceptNewConnection, appVars, workerVars
  <1>5. \A w \in W : hold[w] # 0 => hold[w] \in 1 .. accepted
    BY DEF HoldInv, Waits
  <1>6. \A i \in Indices : At(i) \in 1 .. accepted
    BY DEF RingInv
  <1>7. 1 .. accepted \subseteq Conns
    BY ConnsAssumption DEF TypeOK, Conns
  <1>8. HoldInv'
    <2>1. mhold' = 0 \/ mhold' = accepted + 1
      BY <1>1 DEF AcceptNewConnection
    <2> QED
      BY <1>1, <1>2, <1>3, <1>4, <1>5, <1>7, <2>1 DEF HoldInv, Waits
  <1>9. CASE mhold' = accepted + 1 /\ mpc' = "put" /\ UNCHANGED fate
    <2>1. MasterInv'
      BY <1>1, <1>9 DEF MasterInv, Waits
    <2>2. RingInv'
      BY <1>1, <1>2, <1>4, <1>6, <1>9 DEF RingInv
    <2>3. PlaceInv'
      BY <1>1, <1>2, <1>4, <1>9 DEF PlaceInv, Waits, Conns
    <2> QED
      BY <1>8, <2>1, <2>2, <2>3
  <1>10. CASE /\ fate' = [fate EXCEPT ![accepted + 1] = "refused"]
              /\ UNCHANGED <<mhold, mpc>>
    <2>1. MasterInv'
      BY <1>1, <1>10 DEF MasterInv
    <2>2. RingInv'
      BY <1>1, <1>2, <1>3, <1>4, <1>6, <1>7, <1>10 DEF RingInv
    <2>3. PlaceInv'
      BY <1>1, <1>2, <1>4, <1>10 DEF PlaceInv, Waits, Conns, TypeOK
    <2> QED
      BY <1>8, <2>1, <2>2, <2>3
  <1> QED
    BY <1>9, <1>10 DEF AcceptNewConnection

LEMMA ProduceKeepsPlaces ==
  ASSUME IInv, ProduceSocket
  PROVE  PlacesInv'
  <1> USE DEF IInv, PlacesInv
  <1>1. /\ mhold = accepted /\ accepted \in Conns /\ Waits(mhold)
        /\ mhold' = 0 /\ mpc' = "poll" /\ UNCHANGED <<app, stop, hold, accepted>>
    BY ConnsAssumption
       DEF ProduceSocket, MasterInv, TypeOK, Conns, Waits, appVars
  <1>2. \A w \in W : wpc[w] \in {"check", "serve"} \/ wpc'[w] \in {"check", "serve"}
                       => wpc'[w] = wpc[w]
    BY SignalWakesOne DEF ProduceSocket, TypeOK
  <1>3. MasterInv'
    BY <1>1 DEF MasterInv
  <1>4. \A i \in Indices : At(i) \in 1 .. accepted /\ At(i) < mhold
    BY <1>1 DEF RingInv, Conns
  <1>5. \A w \in W : hold[w] # mhold /\ (hold[w] # 0 => hold[w] \in 1 .. accepted)
    BY <1>1 DEF HoldInv, Waits, Conns
  <1>6. 1 .. accepted \subseteq Conns
    BY ConnsAssumption DEF TypeOK, Conns
  <1>7. CASE Full
    <2>1. fate' = [fate EXCEPT ![mhold] = "lost"] /\ UNCHANGED queueVars
      BY <1>7 DEF ProduceSocket
    <2>2. Indices' = Indices /\ \A i : At(i)' = At(i)
      BY <2>1 DEF queueVars, Indices, At
    <2>3. \A c \in Conns : fate'[c] = IF c = mhold THEN "lost" ELSE fate[c]
      BY <2>1 DEF TypeOK
    <2>4. RingInv'
      BY <1>1, <1>4, <1>6, <2>2, <2>3 DEF RingInv, Conns
    <2>5. HoldInv'
      BY <1>1, <1>2, <1>5, <1>6, <2>2, <2>3 DEF HoldInv, Waits
    <2>6. PlaceInv'
      BY <1>1, <2>2, <2>3 DEF PlaceInv, Waits, Conns
    <2> QED
      BY <1>3, <2>4, <2>5, <2>6
  <1>8. CASE ~Full
    <2>1. /\ squeue' = [squeue EXCEPT ![sqHead % Size] = mhold]
          /\ sqHead' = sqHead + 1 /\ UNCHANGED <<sqTail, fate>>
      BY <1>8 DEF ProduceSocket
    <2>2. sqHead < sqTail + Size /\ sqTail \in 0 .. Size /\ sqHead \in sqTail .. sqTail + Size
      BY <1>8, SizeAssumption DEF Full, Filled, TypeOK
    <2>3. /\ Indices' = Indices \cup {sqHead} /\ sqHead \notin Indices
          /\ \A i \in Indices : i < sqHead
      BY <2>1, <2>2, SizeAssumption DEF Indices
    <2>4. \A i \in Indices' : i % Size = sqHead % Size <=> i = sqHead
      BY <2>2, <2>3, Slots, SizeAssumption DEF Indices
    <2>5. \A i \in Indices' : At(i)' = IF i = sqHead THEN mhold ELSE At(i)
      <3>1. \A i \in Indices' : i % Size \in 0 .. Size - 1
        BY <2>2, <2>3, Slots, SizeAssumption DEF Indices
      <3> QED
        BY <2>1, <2>4, <3>1 DEF At, TypeOK
    <2>6. RingInv'
      <3>1. \A i, j \in Indices' : i < j => i \in Indices
        BY <2>2, <2>3, SizeAssumption DEF Indices
      <3>2. \A i, j \in Indices' : i < j => At(i)' < At(j)'
        BY <1>4, <2>3, <2>5, <3>1 DEF RingInv
      <3>3. \A i \in Indices' : At(i)' \in 1 .. accepted /\ (app # "freed" => fate[At(i)'] = "none")
        BY <1>1, <1>4, <2>3, <2>5 DEF RingInv, Waits
      <3> QED
        BY <1>1, <2>1, <3>2, <3>3 DEF RingInv
    <2>7. HoldInv'
      BY <1>1, <1>2, <1>5, <2>1, <2>3, <2>5 DEF HoldInv, Waits
    <2>8. PlaceInv'
      <3>1. \E i \in Indices' : At(i)' = mhold
        BY <2>3, <2>5
      <3>2. \A i \in Indices : i \in Indices' /\ At(i)' = At(i)
        BY <2>3, <2>5
      <3>3. \A c \in Conns : Waits(c)' => \/ c = mhold'
                                          \/ \E v \in W : hold'[v] = c
                                          \/ \E i \in Indices' : At(i)' = c
        <4> TAKE c \in Conns
        <4> HAVE Waits(c)'
        <4>1. Waits(c)
          BY <1>1, <2>1 DEF Waits
        <4> QED
          BY <1>1, <3>1, <3>2, <4>1 DEF PlaceInv
      <3>4. UNCHANGED <<accepted, fate>>
        BY <1>1, <2>1
      <3> QED
        BY <3>3, <3>4 DEF PlaceInv
    <2> QED
      BY <1>3, <2>6, <2>7, <2>8
  <1> QED
    BY <1>7, <1>8

\* Taking a socket moves the indices of the others back by d, which is the size or zero.
LEMMA ConsumeKeepsPlaces ==
  ASSUME IInv, NEW w \in W, ConsumeSocket(w)
  PROVE  PlacesInv'
  <1> USE DEF IInv, PlacesInv
  <1>1. /\ wpc[w] = "consume" /\ hold[w] = 0
        /\ UNCHANGED <<app, stop, mhold, accepted, fate>>
        /\ wpc' = [wpc EXCEPT ![w] = "check"]
    BY DEF ConsumeSocket, HoldInv, appVars, connVars
  <1>2. mpc' \in {"put", "wait"} <=> mpc \in {"put", "wait"}
    BY DEF ConsumeSocket, SignalEmpty
  <1>3. MasterInv'
    BY <1>1, <1>2 DEF MasterInv, Waits
  <1>4. CASE sqHead > sqTail
    <2> PICK d \in {0, Size} : d = Wrap(sqTail + 1)
      BY DEF Wrap
    <2>1. /\ hold' = [hold EXCEPT ![w] = At(sqTail)] /\ UNCHANGED squeue
          /\ sqHead' = sqHead - d /\ sqTail' = sqTail + 1 - d
      BY <1>4 DEF ConsumeSocket, At
    <2>2. /\ sqTail \in 0 .. Size /\ sqHead \in sqTail .. sqTail + Size
          /\ d = IF sqTail = Size THEN Size ELSE 0
      BY SizeAssumption DEF Wrap, TypeOK
    <2>3. sqTail \in Indices
      BY <1>4, <2>2 DEF Indices
    <2>4. \A i \in Indices' : i + d \in Indices /\ sqTail < i + d /\ At(i)' = At(i + d)
      BY <2>1, <2>2, Slots, SizeAssumption DEF Indices, At
    <2>5. \A j \in Indices : j # sqTail => j - d \in Indices' /\ At(j - d)' = At(j)
      <3>1. \A j \in Indices : j # sqTail => j - d \in Indices'
        BY <2>1, <2>2, SizeAssumption DEF Indices
      <3>2. \A j \in Indices : j # sqTail => j - d \in Int /\ j - d + d = j
        BY <2>2, SizeAssumption DEF Indices
      <3> TAKE j \in Indices
      <3> HAVE j # sqTail
      <3>3. At(j - d)' = At(j - d + d)
        BY <2>4, <3>1
      <3>4. At(j - d + d) = At(j)
        BY <3>2
      <3> QED
        BY <3>1, <3>3, <3>4
    <2>6. At(sqTail) \in 1 .. accepted /\ Waits(At(sqTail)) /\ At(sqTail) # mhold
      BY <2>3, <1>1 DEF RingInv, Waits, ConsumeSocket, LifeInv
    <2>7. RingInv'
      <3>1. \A i, j \in Indices' : i < j => i + d < j + d
        BY <2>1, <2>2, SizeAssumption DEF Indices
      <3> QED
        BY <1>1, <2>4, <3>1 DEF RingInv
    <2>8. \A v \in W : hold'[v] = IF v = w THEN At(sqTail) ELSE hold[v]
      BY <2>1 DEF TypeOK
    <2>9. HoldInv'
      <3>1. \A i \in Indices : i # sqTail => At(i) # At(sqTail)
        <4>1. \A i \in Indices : i \in Int
          BY <2>2 DEF Indices
        <4> QED
          BY <2>3, <4>1 DEF RingInv
      <3>2. \A v \in W, i \in Indices' : hold'[v] # At(i)'
        BY <2>2, <2>3, <2>4, <2>8, <3>1, SizeAssumption DEF HoldInv, Indices
      <3>3. \A v \in W : wpc'[v] = IF v = w THEN "check" ELSE wpc[v]
        BY <1>1 DEF TypeOK
      <3>4. \A v \in W : hold[v] # At(sqTail)
        BY <2>3 DEF HoldInv
      <3> QED
        BY <1>1, <2>6, <2>8, <3>2, <3>3, <3>4 DEF HoldInv, Waits
    <2>10. PlaceInv'
      <3>1. \A c \in Conns : Waits(c)' => \/ c = mhold'
                                          \/ \E v \in W : hold'[v] = c
                                          \/ \E i \in Indices' : At(i)' = c
        <4> TAKE c \in Conns
        <4> HAVE Waits(c)'
        <4>1. Waits(c)
          BY <1>1 DEF Waits
        <4>2. CASE c = mhold
          BY <1>1, <4>2
        <4>3. CASE \E v \in W : hold[v] = c
          BY <1>1, <2>8, <4>1, <4>3 DEF Waits
        <4>4. CASE \E i \in Indices : At(i) = c
          BY <2>5, <2>8, <4>4
        <4> QED
          BY <4>1, <4>2, <4>3, <4>4 DEF PlaceInv
      <3> QED
        BY <1>1, <3>1 DEF PlaceInv
    <2> QED
      BY <1>3, <2>7, <2>9, <2>10
  <1>5. CASE ~(sqHead > sqTail)
    <2>1. UNCHANGED <<queueVars, hold>>
      BY <1>5 DEF ConsumeSocket, queueVars
    <2>2. stop # 0
      BY <1>5 DEF ConsumeSocket, Idle, Empty, TypeOK
    <2>3. Indices' = Indices /\ \A i : At(i)' = At(i)
      BY <2>1 DEF queueVars, Indices, At
    <2>4. RingInv'
      BY <1>1, <2>3 DEF RingInv
    <2>5. HoldInv'
      BY <1>1, <2>1, <2>2, <2>3 DEF HoldInv, Waits, TypeOK
    <2>6. PlaceInv'
      BY <1>1, <2>1, <2>3 DEF PlaceInv, Waits
    <2> QED
      BY <1>3, <2>4, <2>5, <2>6
  <1> QED
    BY <1>4, <1>5

\* A worker gives up what it has, whether it has served it or not.
LEMMA LeavingKeepsPlaces ==
  ASSUME IInv, NEW w \in W,
         wpc[w] \in {"check", "serve"}, hold' = [hold EXCEPT ![w] = 0],
         wpc'[w] \notin {"check", "serve"}, \A v \in W \ {w} : wpc'[v] = wpc[v],
         \A c \in Conns : IF c = hold[w] THEN fate'[c] # "none" ELSE fate'[c] = fate[c],
         UNCHANGED <<app, stop, queueVars, masterVars, accepted>>
  PROVE  PlacesInv'
  <1> USE DEF IInv, PlacesInv
  <1>1. \A v \in W : hold'[v] = IF v = w THEN 0 ELSE hold[v]
    BY DEF TypeOK
  <1>2. Indices' = Indices /\ \A i : At(i)' = At(i)
    BY DEF queueVars, Indices, At
  <1>3. 1 .. accepted \subseteq Conns /\ 0 \notin Conns
    BY ConnsAssumption DEF TypeOK, Conns
  <1>4. hold[w] # 0 => hold[w] # mhold
    BY DEF HoldInv
  <1>5. MasterInv'
    BY <1>3, <1>4 DEF MasterInv, Waits, masterVars
  <1>6. RingInv'
    BY <1>2, <1>3 DEF RingInv, HoldInv, masterVars
  <1>7. HoldInv'
    <2>1. \A v \in W : hold'[v] # 0 => /\ Waits(hold[v]) /\ hold'[v] = hold[v]
                                       /\ wpc[v] \in {"check", "serve"} /\ wpc'[v] = wpc[v]
                                       /\ hold[v] # mhold /\ hold[v] # hold[w]
      BY <1>1 DEF HoldInv
    <2>2. \A v \in W : hold'[v] # 0 => /\ Waits(hold[v])' /\ hold'[v] # mhold'
                                       /\ wpc'[v] \in {"check", "serve"}
      BY <1>3, <2>1 DEF Waits, masterVars
    <2>3. \A v \in W, i \in Indices : hold'[v] # At(i)
      BY <1>1, <1>3 DEF HoldInv, RingInv
    <2> QED
      BY <1>1, <1>2, <2>2, <2>3 DEF HoldInv
  <1>8. PlaceInv'
    <2>1. \A c \in Conns : Waits(c)' => Waits(c) /\ c # hold[w]
      BY DEF Waits
    <2>2. \A c \in Conns : c > accepted' => fate'[c] = "none"
      BY DEF HoldInv, PlaceInv, Waits, Conns, TypeOK
    <2> QED
      BY <1>1, <1>2, <2>1, <2>2 DEF PlaceInv, masterVars
  <1> QED
    BY <1>5, <1>6, <1>7, <1>8

LEMMA NextKeepsPlaces ==
  ASSUME IInv, Next
  PROVE  PlacesInv'
  <1> USE DEF appVars, queueVars, masterVars, workerVars, connVars
  <1>1. CASE Start
    <2>1. CASE CreateContext \/ ReadOptions \/ CheckNumbers \/ InitSecurity \/ SetLimits
      BY <2>1, QuietKeepsPlaces
         DEF CreateContext, ReadOptions, CheckNumbers, InitSecurity, SetLimits, Phase
    <2>2. CASE OpenPorts
      BY <2>2, QuietKeepsPlaces DEF OpenPorts
    <2>3. CASE StartWorker
      <3>1. wpc[started + 1] = "none"
        BY <2>3, WorkersAssumption DEF StartWorker, IInv, LifeInv, TypeOK, W
      <3>2. \A w \in W : wpc'[w] = wpc[w] \/ (wpc[w] = "none" /\ wpc'[w] = "init")
        BY <2>3, <3>1 DEF StartWorker, IInv, TypeOK
      <3> QED
        BY <2>3, <3>2, QuietKeepsPlaces DEF StartWorker
    <2>4. CASE StartMaster
      <3>1. mpc = "none"
        BY <2>4 DEF StartMaster, IInv, LifeInv, Starting
      <3> QED
        BY <2>4, <3>1, QuietKeepsPlaces DEF StartMaster
    <2> QED
      BY <1>1, <2>1, <2>2, <2>3, <2>4 DEF Start
  <1>2. CASE MgStop
    BY <1>2, QuietKeepsPlaces DEF MgStop
  <1>3. CASE FreeContext
    BY <1>3, FreeContextKeepsPlaces
  <1>4. CASE Arrive
    BY <1>4, QuietKeepsPlaces DEF Arrive
  <1>5. CASE Master
    <2>1. CASE WaitForRoom \/ LeaveLoop
      BY <2>1, QuietKeepsPlaces DEF WaitForRoom, LeaveLoop
    <2>2. CASE WakeWorkers
      BY <2>2, QuietKeepsPlaces DEF WakeWorkers
    <2>3. CASE JoinWorkers
      BY <2>3, QuietKeepsPlaces DEF JoinWorkers
    <2> QED
      BY <1>5, <2>1, <2>2, <2>3, AcceptKeepsPlaces, ProduceKeepsPlaces DEF Master
  <1>6. CASE Spurious
    BY <1>6, QuietKeepsPlaces DEF Spurious, IInv, TypeOK
  <1>7. ASSUME NEW w \in W, Worker(w)
        PROVE  PlacesInv'
    <2>1. CASE WorkerInit(w) \/ GoIdle(w)
      BY <2>1, QuietKeepsPlaces DEF WorkerInit, GoIdle, IInv, TypeOK
    <2>2. CASE ConsumeSocket(w)
      BY <2>2, ConsumeKeepsPlaces
    <2>3. CASE CheckStop(w)
      <3>1. CASE stop = 0
        BY <2>3, <3>1, QuietKeepsPlaces DEF CheckStop, IInv, TypeOK
      <3>2. CASE stop # 0
        <4>1. /\ wpc[w] = "check" /\ wpc'[w] = "gone" /\ \A v \in W \ {w} : wpc'[v] = wpc[v]
              /\ hold' = [hold EXCEPT ![w] = 0]
              /\ \A c \in Conns : IF c = hold[w] THEN fate'[c] # "none" ELSE fate'[c] = fate[c]
          BY <2>3, <3>2 DEF CheckStop, IInv, TypeOK
        <4> QED
          BY <2>3, <4>1, LeavingKeepsPlaces DEF CheckStop
      <3> QED
        BY <3>1, <3>2
    <2>4. CASE Serve(w)
      <3>1. /\ wpc[w] = "serve" /\ wpc'[w] = "consume" /\ \A v \in W \ {w} : wpc'[v] = wpc[v]
            /\ hold' = [hold EXCEPT ![w] = 0]
            /\ \A c \in Conns : IF c = hold[w] THEN fate'[c] # "none" ELSE fate'[c] = fate[c]
        BY <2>4 DEF Serve, IInv, TypeOK
      <3> QED
        BY <2>4, <3>1, LeavingKeepsPlaces DEF Serve
    <2> QED
      BY <1>7, <2>1, <2>2, <2>3, <2>4 DEF Worker
  <1> QED
    BY <1>1, <1>2, <1>3, <1>4, <1>5, <1>6, <1>7 DEF Next
-----------------------------------------------------------------------------
(* The theorems about single states. *)

\* The inductive invariant: the order in which the threads of the server begin and end,
\* and the one place each accepted connection is in until its fate is known.
THEOREM InvariantHolds == Spec => []IInv
  <1>1. IInv /\ [Next]_vars => IInv'
    <2> SUFFICES ASSUME IInv, [Next]_vars
                 PROVE  IInv'
      OBVIOUS
    <2>1. CASE Next
      BY <2>1, NextKeepsTypes, NextKeepsLives, NextKeepsPlaces DEF IInv
    <2>2. CASE UNCHANGED vars
      BY <2>2 DEF IInv, TypeOK, LifeInv, PlacesInv, MasterInv, RingInv, HoldInv, PlaceInv,
                  Waits, Indices, At, vars, appVars, queueVars, masterVars, workerVars, connVars
    <2> QED
      BY <2>1, <2>2
  <1> QED
    BY <1>1, InitEstablishes, PTL DEF Spec

\* The variables of the server keep their types: the ring of produce_socket and
\* consume_socket never holds more than sq_size sockets, and its pointers stay in bounds.
THEOREM TypeCorrect == Spec => []TypeOK
  <1>1. IInv => TypeOK
    BY DEF IInv
  <1> QED
    BY <1>1, InvariantHolds, PTL

\* A worker enters process_new_connection only with a socket that nobody has served,
\* refused or lost, whatever the stop flag does between its two reads.
THEOREM ServesOnlyItsOwn == Spec => []ServesItsOwn
  <1>1. IInv => ServesItsOwn
    BY DEF IInv, PlacesInv, HoldInv, Waits, ServesItsOwn
  <1> QED
    BY <1>1, InvariantHolds, PTL

\* When mg_stop has freed the context, and when mg_start has returned NULL, no thread is
\* left that could use it.
THEOREM FreedMeansQuiet == Spec => []FreedIsQuiet
  <1>1. IInv => FreedIsQuiet
    BY DEF IInv, TypeOK, LifeInv, Starting, W, FreedIsQuiet
  <1> QED
    BY <1>1, InvariantHolds, PTL
-----------------------------------------------------------------------------
(* WorkConserving. *)

Awake == {w \in W : wpc[w] = "consume"}
SomeoneWaits == \E w \in W : wpc[w] = "wait"

\* The workers are finitely many.
LEMMA AwakeIsFinite ==
  \A S \in SUBSET W : IsFiniteSet(S) /\ Cardinality(S) \in Nat
  <1>1. IsFiniteSet(W)
    BY WorkersAssumption, FS_Interval DEF W
  <1> QED
    BY <1>1, FS_Subset, FS_CardinalityType

\* One worker more, or one less, that is awake.
LEMMA OneMore ==
  ASSUME NEW S \in SUBSET W, NEW w \in W, w \notin S
  PROVE  Cardinality(S \cup {w}) = Cardinality(S) + 1
  BY AwakeIsFinite, FS_AddElement

LEMMA OneLess ==
  ASSUME NEW S \in SUBSET W, NEW w \in S
  PROVE  Cardinality(S \ {w}) = Cardinality(S) - 1
  BY AwakeIsFinite, FS_RemoveElement

\* Waking workers, or putting new ones to work, only adds to those that are awake.
LEMMA MoreAwake ==
  ASSUME WorkConserving, UNCHANGED <<sqHead, sqTail>>, TypeOK, Awake \subseteq Awake',
         SomeoneWaits' => SomeoneWaits
  PROVE  WorkConserving'
  <1>1. Awake \in SUBSET W /\ Awake' \in SUBSET W
    BY DEF Awake
  <1>2. Cardinality(Awake) <= Cardinality(Awake')
    BY <1>1, AwakeIsFinite, FS_Subset
  <1> QED
    BY <1>1, <1>2, AwakeIsFinite DEF WorkConserving, Awake, SomeoneWaits, Filled, TypeOK

LEMMA NextKeepsWork ==
  ASSUME IInv, Next, WorkConserving
  PROVE  WorkConserving'
  <1> USE DEF IInv, appVars, queueVars, masterVars, workerVars, connVars
  <1>0. Awake \in SUBSET W /\ Awake' \in SUBSET W /\ TypeOK
    BY DEF Awake
  <1>1. CASE UNCHANGED <<sqHead, sqTail, wpc>>
    BY <1>1, MoreAwake DEF Awake, SomeoneWaits
  <1>2. CASE StartWorker
    <2>1. wpc[started + 1] = "none"
      BY <1>2, WorkersAssumption DEF StartWorker, LifeInv, TypeOK, W
    <2>2. \A w \in W : wpc'[w] = wpc[w] \/ (wpc[w] = "none" /\ wpc'[w] = "init")
      BY <1>2, <2>1 DEF StartWorker, TypeOK
    <2> QED
      BY <1>2, <2>2, MoreAwake DEF StartWorker, Awake, SomeoneWaits
  <1>3. CASE ProduceSocket
    <2>1. CASE wpc' = wpc /\ \A w \in W : wpc[w] # "wait"
      BY <2>1 DEF WorkConserving
    <2>2. CASE \E w \in W : wpc[w] = "wait" /\ wpc' = [wpc EXCEPT ![w] = "consume"]
      <3>1. PICK w \in W : wpc[w] = "wait" /\ wpc' = [wpc EXCEPT ![w] = "consume"]
        BY <2>2
      <3>2. Awake' = Awake \cup {w} /\ w \notin Awake
        BY <3>1 DEF Awake, TypeOK
      <3>3. Cardinality(Awake') = Cardinality(Awake) + 1
        BY <1>0, <3>2, OneMore
      <3>4. Filled <= Cardinality(Awake)
        BY <3>1 DEF WorkConserving, Awake
      <3>5. Filled' = Filled \/ Filled' = Filled + 1
        BY <1>3 DEF ProduceSocket, Filled, TypeOK
      <3>6. Filled' <= Cardinality(Awake')
        BY <1>0, <3>3, <3>4, <3>5, AwakeIsFinite, SizeAssumption DEF Filled, TypeOK
      <3> QED
        BY <3>6 DEF WorkConserving, Awake
    <2> QED
      BY <1>3, <2>1, <2>2, SignalWakesOne DEF ProduceSocket
  <1>4. CASE WakeWorkers
    BY <1>4 DEF WakeWorkers, WorkConserving
  <1>5. CASE Spurious
    BY <1>5, MoreAwake DEF Spurious, Awake, SomeoneWaits, TypeOK
  <1>6. ASSUME NEW w \in W, Worker(w)
        PROVE  WorkConserving'
    <2>1. CASE WorkerInit(w)
      BY <2>1, MoreAwake DEF WorkerInit, Awake, SomeoneWaits, TypeOK
    <2>2. CASE GoIdle(w)
      <3>1. Filled' = 0
        BY <2>2 DEF GoIdle, Idle, Empty, Filled, TypeOK
      <3>2. 0 <= Cardinality(Awake')
        BY <1>0, AwakeIsFinite
      <3> QED
        BY <3>1, <3>2 DEF WorkConserving, Awake
    <2>3. CASE ConsumeSocket(w)
      <3>1. Awake' = Awake \ {w} /\ w \in Awake
        BY <2>3 DEF ConsumeSocket, Awake, TypeOK
      <3>2. Cardinality(Awake') = Cardinality(Awake) - 1
        BY <1>0, <3>1, OneLess
      <3>3. Filled' = 0 \/ Filled' = Filled - 1
        BY <2>3, SizeAssumption DEF ConsumeSocket, Wrap, Filled, TypeOK
      <3>4. SomeoneWaits' => SomeoneWaits
        BY <2>3 DEF ConsumeSocket, SomeoneWaits, TypeOK
      <3>5. SomeoneWaits => Filled <= Cardinality(Awake)
        BY DEF WorkConserving, Awake, SomeoneWaits
      <3>6. SomeoneWaits' => Filled' <= Cardinality(Awake')
        <4>1. Cardinality(Awake) \in Nat /\ Cardinality(Awake) >= 1
          <5>1. Cardinality(Awake') \in Nat /\ Cardinality(Awake) \in Nat
            BY AwakeIsFinite DEF Awake
          <5> QED
            BY <3>2, <5>1
        <4>2. Filled \in Int
          BY SizeAssumption DEF Filled, TypeOK
        <4> QED
          BY <3>2, <3>3, <3>4, <3>5, <4>1, <4>2
      <3> QED
        BY <3>6 DEF WorkConserving, Awake, SomeoneWaits
    <2>4. CASE CheckStop(w)
      BY <2>4, MoreAwake DEF CheckStop, Awake, SomeoneWaits, TypeOK
    <2>5. CASE Serve(w)
      BY <2>5, MoreAwake DEF Serve, Awake, SomeoneWaits, TypeOK
    <2> QED
      BY <1>6, <2>1, <2>2, <2>3, <2>4, <2>5 DEF Worker
  <1> QED
    BY <1>1, <1>2, <1>3, <1>4, <1>5, <1>6
       DEF Next, Start, CreateContext, ReadOptions, CheckNumbers, InitSecurity, OpenPorts,
           SetLimits, Phase, StartMaster, MgStop, FreeContext, Arrive, Master,
           AcceptNewConnection, WaitForRoom, LeaveLoop, JoinWorkers

\* While a worker sleeps there are at least as many workers awake as sockets in the ring:
\* no signal on sq_full is lost.
THEOREM WorkIsConserved == Spec => []WorkConserving
  <1>1. Init => WorkConserving
    BY DEF Init, WorkConserving
  <1>2. IInv /\ WorkConserving /\ [Next]_vars => WorkConserving'
    <2>1. WorkConserving /\ UNCHANGED vars => WorkConserving'
      BY DEF WorkConserving, Filled, vars, queueVars, workerVars
    <2> QED
      BY <2>1, NextKeepsWork
  <1> QED
    BY <1>1, <1>2, InvariantHolds, PTL DEF Spec
-----------------------------------------------------------------------------
(* Server implements Dispatch. *)

\* The number of elements is the same in Dispatch.
LEMMA SameCardinality == \A S : Abstract!Cardinality(S) = Cardinality(S)
  BY DEF Cardinality, Abstract!Cardinality

\* What state says of a connection, one case after the other.
Where(c) == IF c > accepted THEN "absent"
            ELSE IF fate[c] # "none" THEN IF fate[c] = "lost" THEN "dropped" ELSE fate[c]
            ELSE IF \E w \in W : hold[w] = c THEN "busy" ELSE "pending"

LEMMA StateIsWhere == TypeOK => state = [c \in Conns |-> Where(c)]
  BY DEF TypeOK, Fates, state, Where

\* A step that changes the place of one connection.
LEMMA OneMoves ==
  ASSUME TypeOK, TypeOK', NEW c \in Conns, NEW from, NEW to, Where(c) = from,
         \A d \in Conns : Where(d)' = IF d = c THEN to ELSE Where(d)
  PROVE  Abstract!Move(c, from, to)
  <1>1. state' = [d \in Conns |-> Where(d)']
    BY DEF TypeOK, Fates, state, Where
  <1> QED
    BY <1>1, StateIsWhere DEF Abstract!Move

\* A step that changes none.
LEMMA NoneMoves ==
  ASSUME UNCHANGED <<hold, accepted, fate>>, app' = "freed" <=> app = "freed",
         stop' = 0 <=> stop = 0
  PROVE  UNCHANGED Abstract!absVars
  BY DEF Abstract!absVars, state, phase

\* The context is only freed when every thread is gone.
LEMMA PhaseOf ==
  ASSUME IInv
  PROVE  /\ mpc # "gone" => phase = IF stop = 0 THEN "open" ELSE "closing"
         /\ \A w \in W : wpc[w] \notin {"none", "gone"}
                           => phase = IF stop = 0 THEN "open" ELSE "closing"
  BY DEF IInv, LifeInv, phase

\* A pending connection is with the master or in the ring.
LEMMA PendingWaits ==
  ASSUME IInv, NEW c \in Conns, state[c] = "pending"
  PROVE  Waits(c) /\ c # 0 /\ \A w \in W : hold[w] # c
  BY StateIsWhere, ConnsAssumption DEF Where, Waits, IInv, TypeOK, Fates, Conns

\* At most sq_size connections wait while the master has none.
LEMMA RingIsBounded ==
  ASSUME IInv, mhold = 0
  PROVE  Cardinality(Abstract!In("pending")) < Size + 1
  <1> DEFINE at == [i \in Indices |-> At(i)]
             ring == {At(i) : i \in Indices}
  <1>1. IsFiniteSet(Indices) /\ Cardinality(Indices) <= Size
    <2>1. sqTail \in Int /\ sqHead \in Int /\ sqHead - 1 \in Int /\ sqHead - sqTail \in 0 .. Size
      BY SizeAssumption DEF IInv, TypeOK
    <2>2. /\ IsFiniteSet(Indices)
          /\ Cardinality(Indices) = IF sqTail > sqHead - 1 THEN 0 ELSE sqHead - 1 - sqTail + 1
      BY <2>1, FS_Interval DEF Indices
    <2> QED
      BY <2>1, <2>2, SizeAssumption
  <1>2. at \in Surjection(Indices, ring)
    BY DEF Surjection
  <1>3. IsFiniteSet(ring) /\ Cardinality(ring) <= Size
    <2>1. IsFiniteSet(ring) /\ Cardinality(ring) <= Cardinality(Indices)
      BY <1>1, <1>2, FS_Surjection
    <2> QED
      BY <1>1, <2>1, SizeAssumption, FS_CardinalityType
  <1>4. Abstract!In("pending") \subseteq ring
    BY PendingWaits DEF IInv, PlacesInv, PlaceInv, Abstract!In
  <1> QED
    BY <1>3, <1>4, FS_Subset, FS_CardinalityType, SizeAssumption

\* A worker without a connection leaves at most the others busy.
LEMMA OthersAreBusy ==
  ASSUME IInv, NEW w \in W, hold[w] = 0
  PROVE  Cardinality(Abstract!In("busy")) < Workers
  <1> DEFINE has == [v \in W \ {w} |-> hold[v]]
             held == {hold[v] : v \in W \ {w}}
  <1>1. IsFiniteSet(W \ {w}) /\ Cardinality(W \ {w}) = Workers - 1
    <2>1. IsFiniteSet(W) /\ Cardinality(W) = Workers
      BY WorkersAssumption, FS_Interval DEF W
    <2> QED
      BY <2>1, FS_RemoveElement
  <1>2. has \in Surjection(W \ {w}, held)
    BY DEF Surjection
  <1>3. IsFiniteSet(held) /\ Cardinality(held) < Workers
    <2>1. IsFiniteSet(held) /\ Cardinality(held) <= Cardinality(W \ {w})
      BY <1>1, <1>2, FS_Surjection
    <2> QED
      BY <1>1, <2>1, WorkersAssumption, FS_CardinalityType
  <1>4. Abstract!In("busy") \subseteq held
    <2>1. \A c \in Conns : state[c] = "busy" => \E v \in W : hold[v] = c
      BY StateIsWhere DEF Where, IInv, TypeOK, Fates
    <2>2. \A c \in Conns : c # 0
      BY DEF Conns
    <2> QED
      BY <2>1, <2>2 DEF Abstract!In
  <1> QED
    BY <1>3, <1>4, FS_Subset, FS_CardinalityType, WorkersAssumption

LEMMA AcceptIsAbstract ==
  ASSUME IInv, IInv', AcceptNewConnection
  PROVE  \E c \in Conns : Abstract!Accept(c) \/ Abstract!Refuse(c)
  <1> USE DEF IInv, PlacesInv
  <1> PICK c : c = accepted + 1
    OBVIOUS
  <1>1. c \in Conns /\ mhold = 0 /\ fate[c] = "none" /\ accepted' = c /\ hold' = hold
    BY ConnsAssumption DEF AcceptNewConnection, MasterInv, PlaceInv, TypeOK, Conns, workerVars
  <1>2. phase = "open" /\ phase' = "open"
    BY PhaseOf DEF AcceptNewConnection, appVars, phase
  <1>3. \A w \in W : hold[w] # c
    BY ConnsAssumption DEF HoldInv, Waits, TypeOK
  <1>4. \A d \in Conns : d < c => state[d] # "absent"
    <2>1. \A d \in Conns : d < c => d <= accepted
      BY ConnsAssumption DEF TypeOK, Conns
    <2>2. \A d \in Conns : d <= accepted => ~(d > accepted)
      BY ConnsAssumption DEF TypeOK, Conns
    <2>3. \A d \in Conns : d <= accepted => Where(d) # "absent"
      BY <2>2 DEF Where, TypeOK, Fates
    <2> QED
      BY <2>1, <2>3, StateIsWhere
  <1>4a. Where(c) = "absent"
    BY <1>1, ConnsAssumption DEF Where, TypeOK, Conns
  <1>5. CASE mhold' = c /\ mpc' = "put" /\ UNCHANGED fate
    <2>1. \A d \in Conns : Where(d)' = IF d = c THEN "pending" ELSE Where(d)
      BY <1>1, <1>3, <1>5 DEF Where, TypeOK, Conns
    <2>2. Abstract!Move(c, "absent", "pending")
      BY <1>1, <1>4a, <2>1, OneMoves
    <2>3. Cardinality(Abstract!In("pending")) < Size + 1
      BY <1>1, RingIsBounded
    <2> QED
      BY <1>1, <1>2, <1>4, <2>2, <2>3, SameCardinality DEF Abstract!Accept
  <1>6. CASE fate' = [fate EXCEPT ![c] = "refused"] /\ UNCHANGED <<mhold, mpc>>
    <2>1. \A d \in Conns : Where(d)' = IF d = c THEN "refused" ELSE Where(d)
      BY <1>1, <1>6 DEF Where, TypeOK, Conns
    <2>2. Abstract!Move(c, "absent", "refused")
      BY <1>1, <1>4a, <2>1, OneMoves
    <2> QED
      BY <1>1, <1>2, <2>2 DEF Abstract!Refuse
  <1> QED
    BY <1>5, <1>6 DEF AcceptNewConnection

LEMMA ProduceIsAbstract ==
  ASSUME IInv, IInv', ProduceSocket
  PROVE  (\E c \in Conns : Abstract!Drop(c)) \/ UNCHANGED Abstract!absVars
  <1> USE DEF IInv, PlacesInv
  <1>1. CASE Full
    <2>1. /\ mhold \in Conns /\ mhold <= accepted /\ fate[mhold] = "none"
          /\ \A w \in W : hold[w] # mhold
      BY ConnsAssumption DEF ProduceSocket, MasterInv, HoldInv, Waits, TypeOK, Conns
    <2>2. fate' = [fate EXCEPT ![mhold] = "lost"] /\ UNCHANGED <<app, stop, hold, accepted>>
      BY <1>1 DEF ProduceSocket, appVars
    <2>3. phase = "closing" /\ phase' = "closing"
      BY <1>1, <2>2, PhaseOf DEF ProduceSocket, phase
    <2>4. \A d \in Conns : Where(d)' = IF d = mhold THEN "dropped" ELSE Where(d)
      BY <2>1, <2>2 DEF Where, TypeOK, Conns
    <2>5. Where(mhold) = "pending"
      BY <2>1 DEF Where, TypeOK
    <2>6. Abstract!Move(mhold, "pending", "dropped")
      BY <2>1, <2>4, <2>5, OneMoves
    <2> QED
      BY <2>1, <2>3, <2>6 DEF Abstract!Drop
  <1>2. CASE ~Full
    BY <1>2, NoneMoves DEF ProduceSocket, appVars
  <1> QED
    BY <1>1, <1>2

LEMMA ConsumeIsAbstract ==
  ASSUME IInv, IInv', NEW w \in W, ConsumeSocket(w)
  PROVE  (\E c \in Conns : Abstract!Take(c)) \/ UNCHANGED Abstract!absVars
  <1> USE DEF IInv, PlacesInv
  <1>1. /\ wpc[w] = "consume" /\ hold[w] = 0
        /\ UNCHANGED <<app, stop, mhold, accepted, fate>>
    BY DEF ConsumeSocket, HoldInv, appVars, connVars
  <1>2. CASE sqHead > sqTail
    <2>1. PICK c : c = At(sqTail)
      OBVIOUS
    <2>2. hold' = [hold EXCEPT ![w] = c]
      BY <1>2, <2>1 DEF ConsumeSocket, At
    <2>3. sqTail \in Indices /\ \A i \in Indices : i = sqTail \/ sqTail < i
      BY <1>2, SizeAssumption DEF TypeOK, Indices
    <2>4. app # "freed" /\ phase # "over" /\ phase' = phase
      BY <1>1 DEF LifeInv, phase
    <2>5. c \in Conns /\ c <= accepted /\ fate[c] = "none"
      BY <2>1, <2>3, <2>4, ConnsAssumption DEF RingInv, TypeOK, Conns
    <2>6. Where(c) = "pending"
      <3>1. \A v \in W : hold[v] # c
        BY <2>1, <2>3 DEF HoldInv
      <3>2. ~(c > accepted)
        BY <2>5, ConnsAssumption DEF TypeOK, Conns
      <3> QED
        BY <2>5, <3>1, <3>2 DEF Where
    <2>7. \A d \in Conns : Where(d)' = IF d = c THEN "busy" ELSE Where(d)
      <3>1. \A v \in W : hold'[v] = IF v = w THEN c ELSE hold[v]
        BY <2>2 DEF TypeOK
      <3>2. \A d \in Conns : (\E v \in W : hold'[v] = d) <=> d = c \/ \E v \in W : hold[v] = d
        BY <1>1, <3>1 DEF Conns
      <3>3. ~(c > accepted)
        BY <2>5, ConnsAssumption DEF TypeOK, Conns
      <3> QED
        BY <1>1, <2>5, <3>2, <3>3 DEF Where
    <2>8. Abstract!Move(c, "pending", "busy")
      BY <2>5, <2>6, <2>7, OneMoves
    <2>9. \A d \in Abstract!In("pending") : d >= c
      <3>1. \A i \in Indices : At(i) >= c
        BY <2>1, <2>3, ConnsAssumption DEF RingInv, TypeOK
      <3>2. mhold # 0 => mhold >= c
        BY <2>1, <2>3, <2>5, ConnsAssumption DEF RingInv, TypeOK, Conns
      <3> QED
        BY <3>1, <3>2, PendingWaits DEF PlaceInv, Abstract!In
    <2>10. Cardinality(Abstract!In("busy")) < Workers
      BY <1>1, OthersAreBusy
    <2> QED
      BY <1>1, <2>4, <2>5, <2>8, <2>9, <2>10, SameCardinality DEF Abstract!Take
  <1>3. CASE ~(sqHead > sqTail)
    BY <1>1, <1>3, NoneMoves DEF ConsumeSocket
  <1> QED
    BY <1>2, <1>3

\* Serve and CheckStop take the connection from the worker that has it.
LEMMA LeavingMoves ==
  ASSUME IInv, IInv', NEW w \in W, hold[w] # 0, hold' = [hold EXCEPT ![w] = 0],
         NEW f \in {"served", "lost"}, accepted' = accepted,
         fate' = [c \in Conns |-> IF c = hold[w] THEN f ELSE fate[c]]
  PROVE  /\ hold[w] \in Conns
         /\ Abstract!Move(hold[w], "busy", IF f = "lost" THEN "dropped" ELSE f)
  <1> USE DEF IInv, PlacesInv
  <1>1. PICK c : c = hold[w]
    OBVIOUS
  <1>2. c \in Conns /\ c <= accepted /\ fate[c] = "none"
    BY <1>1, ConnsAssumption DEF HoldInv, Waits, TypeOK, Conns
  <1>3. Where(c) = "busy"
    BY <1>1, <1>2 DEF Where, TypeOK
  <1>4. \A d \in Conns : Where(d)' = IF d = c THEN IF f = "lost" THEN "dropped" ELSE f
                                     ELSE Where(d)
    <2>1. \A v \in W : hold'[v] = IF v = w THEN 0 ELSE hold[v]
      BY DEF TypeOK
    <2>2. \A d \in Conns : d # c => ((\E v \in W : hold'[v] = d) <=> \E v \in W : hold[v] = d)
      BY <1>1, <2>1 DEF Conns
    <2>3. \A d \in Conns : fate'[d] = IF d = c THEN f ELSE fate[d]
      BY <1>1
    <2> QED
      BY <1>2, <2>2, <2>3 DEF Where, TypeOK, Conns
  <1> QED
    BY <1>1, <1>2, <1>3, <1>4, OneMoves

LEMMA NextIsAbstract ==
  ASSUME IInv, IInv', Next
  PROVE  Abstract!Next \/ UNCHANGED Abstract!absVars
  <1> USE DEF appVars, queueVars, masterVars, workerVars, connVars
  <1>1. CASE Start
    <2>1. app # "freed" /\ app' # "freed" /\ UNCHANGED <<stop, hold, accepted, fate>>
      BY <1>1 DEF Start, CreateContext, ReadOptions, CheckNumbers, InitSecurity, OpenPorts,
                  SetLimits, Phase, StartWorker, StartMaster
    <2> QED
      BY <2>1, NoneMoves
  <1>2. CASE MgStop
    <2>1. app = "running" /\ stop = 0 /\ UNCHANGED <<hold, accepted, fate>>
      BY <1>2 DEF MgStop, IInv, LifeInv
    <2>2. CASE mt
      <3>1. phase = "open" /\ phase' = "closing"
        BY <1>2, <2>1, <2>2 DEF MgStop, phase
      <3>2. UNCHANGED state
        BY <2>1 DEF state
      <3> QED
        BY <3>1, <3>2 DEF Abstract!Next, Abstract!Close
    <2>3. CASE ~mt
      BY <1>2, <2>1, <2>3, NoneMoves DEF MgStop
    <2> QED
      BY <2>2, <2>3
  <1>3. CASE FreeContext
    <2>1. phase = "closing" /\ phase' = "over"
      BY <1>3 DEF FreeContext, phase
    <2>2. \A w \in W : hold[w] = 0
      BY <1>3 DEF FreeContext, IInv, LifeInv, PlacesInv, HoldInv
    <2>3. \A c \in Conns : c # 0 /\ ~ \E w \in W : hold[w] = c
      BY <2>2 DEF Conns
    <2>4. Abstract!In("busy") = {}
      BY <2>3, StateIsWhere DEF Where, IInv, TypeOK, Fates, Abstract!In
    <2>5. state' = [c \in Conns |-> IF state[c] = "pending" THEN "dropped" ELSE state[c]]
      <3>1. \A c \in Conns : Where(c)' = IF Where(c) = "pending" THEN "dropped" ELSE Where(c)
        <4>1. \A c \in Conns : /\ c <= accepted <=> ~(c > accepted)
                               /\ fate'[c] = IF c <= accepted /\ fate[c] = "none"
                                             THEN "lost" ELSE fate[c]
          BY <1>3, ConnsAssumption DEF FreeContext, IInv, TypeOK, Conns
        <4>2. UNCHANGED <<hold, accepted>>
          BY <1>3 DEF FreeContext
        <4> QED
          BY <2>3, <4>1, <4>2 DEF Where, IInv, TypeOK, Fates
      <3>2. state' = [c \in Conns |-> Where(c)']
        BY DEF IInv, TypeOK, Fates, state, Where
      <3> QED
        BY <3>1, <3>2, StateIsWhere DEF IInv
    <2> QED
      BY <2>1, <2>4, <2>5 DEF Abstract!Next, Abstract!End
  <1>4. CASE Arrive
    BY <1>4, NoneMoves DEF Arrive
  <1>5. CASE Master
    <2>1. CASE AcceptNewConnection
      BY <2>1, AcceptIsAbstract DEF Abstract!Next
    <2>2. CASE ProduceSocket
      BY <2>2, ProduceIsAbstract DEF Abstract!Next
    <2>3. CASE WaitForRoom \/ LeaveLoop \/ WakeWorkers
      BY <2>3, NoneMoves DEF WaitForRoom, LeaveLoop, WakeWorkers
    <2>4. CASE JoinWorkers
      BY <2>4, NoneMoves DEF JoinWorkers, IInv, LifeInv
    <2> QED
      BY <1>5, <2>1, <2>2, <2>3, <2>4 DEF Master
  <1>6. CASE Spurious
    BY <1>6, NoneMoves DEF Spurious
  <1>7. ASSUME NEW w \in W, Worker(w)
        PROVE  Abstract!Next \/ UNCHANGED Abstract!absVars
    <2>1. CASE WorkerInit(w) \/ GoIdle(w)
      BY <2>1, NoneMoves DEF WorkerInit, GoIdle
    <2>2. CASE ConsumeSocket(w)
      BY <2>2, ConsumeIsAbstract DEF Abstract!Next
    <2>3. CASE CheckStop(w)
      <3>1. CASE stop = 0
        BY <2>3, <3>1, NoneMoves DEF CheckStop
      <3>2. CASE stop # 0 /\ hold[w] = 0
        <4>1. fate' = fate /\ hold' = hold
          <5>1. hold \in [W -> 0 .. MaxConns] /\ fate \in [Conns -> Fates] /\ 0 \notin Conns
            BY DEF IInv, TypeOK, Conns
          <5>2. hold' = [hold EXCEPT ![w] = 0]
            BY <2>3, <3>2 DEF CheckStop
          <5>3. fate' = [c \in Conns |-> IF c = 0 THEN "lost" ELSE fate[c]]
            BY <2>3, <3>2 DEF CheckStop
          <5>4. hold' = hold
            BY <3>2, <5>1, <5>2
          <5>5. fate' = fate
            BY <5>1, <5>3
          <5> QED
            BY <5>4, <5>5
        <4> QED
          BY <2>3, <4>1, NoneMoves DEF CheckStop
      <3>3. CASE stop # 0 /\ hold[w] # 0
        <4>1. phase = "closing" /\ UNCHANGED phase
          BY <2>3, <3>3, PhaseOf DEF CheckStop, phase
        <4>2. hold[w] \in Conns /\ Abstract!Move(hold[w], "busy", "dropped")
          BY <2>3, <3>3, LeavingMoves DEF CheckStop
        <4> QED
          BY <4>1, <4>2 DEF Abstract!Next, Abstract!Drop
      <3> QED
        BY <3>1, <3>2, <3>3
    <2>4. CASE Serve(w)
      <3>1. hold[w] # 0
        BY <2>4 DEF Serve, IInv, PlacesInv, HoldInv
      <3>2. hold[w] \in Conns /\ Abstract!Move(hold[w], "busy", "served")
        BY <2>4, <3>1, LeavingMoves DEF Serve
      <3>3. UNCHANGED phase
        BY <2>4 DEF Serve, phase
      <3> QED
        BY <3>2, <3>3 DEF Abstract!Next, Abstract!Finish
    <2> QED
      BY <1>7, <2>1, <2>2, <2>3, <2>4 DEF Worker
  <1> QED
    BY <1>1, <1>2, <1>3, <1>4, <1>5, <1>6, <1>7 DEF Next

\* Every accepted connection is served once, by one worker, in the order of acceptance;
\* none is dropped before mg_stop; and none is in service when the context is freed.
THEOREM ServerImplementsDispatch == Spec => ImplementsDispatch
  <1>1. Init => Abstract!Init
    <2> SUFFICES ASSUME Init
                 PROVE  Abstract!Init
      OBVIOUS
    <2>1. phase = "open"
      BY DEF Init, phase
    <2>2. \A c \in Conns : Where(c) = "absent"
      BY DEF Init, Where, Conns
    <2> QED
      BY <2>1, <2>2, InitEstablishes, StateIsWhere DEF IInv, Abstract!Init
  <1>2. IInv /\ IInv' /\ [Next]_vars => [Abstract!Next]_(Abstract!absVars)
    <2>1. UNCHANGED vars => UNCHANGED Abstract!absVars
      BY NoneMoves DEF vars, appVars, workerVars, connVars
    <2> QED
      BY <2>1, NextIsAbstract
  <1> QED
    BY <1>1, <1>2, InvariantHolds, PTL DEF Spec, ImplementsDispatch, Abstract!Spec
===============================================================================
