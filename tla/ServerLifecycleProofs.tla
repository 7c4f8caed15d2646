------------------------- MODULE ServerLifecycleProofs -------------------------
(***************************************************************************)
(* The connection pool and the shutdown, for every number of requests and   *)
(* connections: a stuck pool stays stuck, through the shutdown too, and the   *)
(* drain of the gRPC server leaves nobody behind.                            *)
(***************************************************************************)
EXTENDS ServerLifecycle, FiniteSetTheorems, TLAPS

-----------------------------------------------------------------------------
(* The pool *)

\* At any moment the requests that hold connections are finitely many.
LEMMA HoldersFinite ==
  /\ IsFiniteSet(InTx) /\ IsFiniteSet(Running)
  /\ Cardinality(InTx) \in Nat /\ Cardinality(Running) \in Nat
<1>1. InTx \in SUBSET Requests /\ Running \in SUBSET Requests
  BY DEF InTx, Running
<1>2. IsFiniteSet(InTx) /\ IsFiniteSet(Running)
  BY <1>1, FS_Subset, PoolAssumption
<1> QED BY <1>2, FS_CardinalityType

\* What a move does to the two sets of holders.
LEMMA MoveHolders ==
  ASSUME TypeOK, NEW r \in Requests, NEW from, NEW to, Move(r, from, to)
  PROVE  /\ InTx' = IF to \in {"inTx", "askStatement", "statement"}
                    THEN InTx \cup {r} ELSE InTx \ {r}
         /\ Running' = IF to \in {"probe", "statement"}
                       THEN Running \cup {r} ELSE Running \ {r}
         /\ r \in InTx <=> from \in {"inTx", "askStatement", "statement"}
         /\ r \in Running <=> from \in {"probe", "statement"}
<1>1. /\ pc' = [pc EXCEPT ![r] = to]
      /\ pc'[r] = to
      /\ \A q \in Requests : q # r => pc'[q] = pc[q]
  BY DEF Move, TypeOK
<1>2. InTx' = IF to \in {"inTx", "askStatement", "statement"}
              THEN InTx \cup {r} ELSE InTx \ {r}
  BY <1>1 DEF InTx
<1>3. Running' = IF to \in {"probe", "statement"}
                 THEN Running \cup {r} ELSE Running \ {r}
  BY <1>1 DEF Running
<1>4. pc[r] = from
  BY DEF Move
<1>5. r \in InTx <=> from \in {"inTx", "askStatement", "statement"}
  BY <1>4 DEF InTx
<1>6. r \in Running <=> from \in {"probe", "statement"}
  BY <1>4 DEF Running
<1> QED BY <1>2, <1>3, <1>5, <1>6

\* Connections a request holds where it is: its transaction's and its statement's.
Held(p) ==
  (IF p \in {"inTx", "askStatement", "statement"} THEN 1 ELSE 0)
  + (IF p \in {"probe", "statement"} THEN 1 ELSE 0)

\* A move changes the connections in use by what the two places hold.
LEMMA MoveInUse ==
  ASSUME TypeOK, NEW r \in Requests, NEW from, NEW to, Move(r, from, to)
  PROVE  InUse' = InUse + Held(to) - Held(from)
<1>1. /\ Cardinality(InTx \cup {r}) = IF r \in InTx THEN Cardinality(InTx)
                                                    ELSE Cardinality(InTx) + 1
      /\ Cardinality(InTx \ {r}) = IF r \in InTx THEN Cardinality(InTx) - 1
                                                 ELSE Cardinality(InTx)
  BY HoldersFinite, FS_AddElement, FS_RemoveElement
<1>2. /\ Cardinality(Running \cup {r}) = IF r \in Running THEN Cardinality(Running)
                                                          ELSE Cardinality(Running) + 1
      /\ Cardinality(Running \ {r}) = IF r \in Running THEN Cardinality(Running) - 1
                                                       ELSE Cardinality(Running)
  BY HoldersFinite, FS_AddElement, FS_RemoveElement
<1>3. Cardinality(InTx') = Cardinality(InTx)
        + (IF to \in {"inTx", "askStatement", "statement"} THEN 1 ELSE 0)
        - (IF from \in {"inTx", "askStatement", "statement"} THEN 1 ELSE 0)
  <2>1. r \in InTx <=> from \in {"inTx", "askStatement", "statement"}
    BY MoveHolders
  <2>2. CASE to \in {"inTx", "askStatement", "statement"}
    <3>1. InTx' = InTx \cup {r}
      BY <2>2, MoveHolders
    <3> QED BY <1>1, <2>1, <2>2, <3>1, HoldersFinite
  <2>3. CASE to \notin {"inTx", "askStatement", "statement"}
    <3>1. InTx' = InTx \ {r}
      BY <2>3, MoveHolders
    <3> QED BY <1>1, <2>1, <2>3, <3>1, HoldersFinite
  <2> QED BY <2>2, <2>3
<1>4. Cardinality(Running') = Cardinality(Running)
        + (IF to \in {"probe", "statement"} THEN 1 ELSE 0)
        - (IF from \in {"probe", "statement"} THEN 1 ELSE 0)
  <2>1. r \in Running <=> from \in {"probe", "statement"}
    BY MoveHolders
  <2>2. CASE to \in {"probe", "statement"}
    <3>1. Running' = Running \cup {r}
      BY <2>2, MoveHolders
    <3> QED BY <1>2, <2>1, <2>2, <3>1, HoldersFinite
  <2>3. CASE to \notin {"probe", "statement"}
    <3>1. Running' = Running \ {r}
      BY <2>3, MoveHolders
    <3> QED BY <1>2, <2>1, <2>3, <3>1, HoldersFinite
  <2> QED BY <2>2, <2>3
<1>5. InUse' = Cardinality(InTx') + Cardinality(Running')
  BY DEF InUse
<1> QED BY <1>3, <1>4, <1>5, HoldersFinite DEF InUse, Held

\* A step of one request, whatever makes it leave.
PoolStep(r) == Arrive(r) \/ Get(r) \/ Work(r) \/ Leave(r)
PoolNext    == \E r \in Requests : PoolStep(r)

\* Giving up and standing still are steps of one request or none.
LEMMA NextIsPoolNext == [Next]_vars => [PoolNext]_vars
BY DEF Next, PoolNext, PoolStep, GiveUp, Quiescent

\* The places between which a request moves, and what each move needs.
LEMMA Moves ==
  ASSUME NEW r \in Requests, PoolStep(r), TypeOK
  PROVE  \/ Free /\ Move(r, "askProbe", "probe")
         \/ Free /\ Move(r, "askBegin", "inTx")
         \/ Free /\ Move(r, "askStatement", "statement")
         \/ \E to \in {"askBegin", "askProbe"} : Move(r, "idle", to)
         \/ \E to \in {"done", "askProbe", "askBegin"} : Move(r, "probe", to)
         \/ \E to \in {"askStatement", "done"} : Move(r, "inTx", to)
         \/ Move(r, "statement", "inTx")
         \/ \E from \in Waiting : Move(r, from, "done")
<1>1. CASE Arrive(r)
  BY <1>1 DEF Arrive
<1>2. CASE Get(r)
  BY <1>2 DEF Get, GetForProbe, BeginTx, GetForStatement
<1>3. CASE Work(r)
  BY <1>3 DEF Work, EndProbe, Ask, EndStatement, EndTx
<1>4. CASE Leave(r)
  BY <1>4 DEF Leave, Move
<1> QED BY <1>1, <1>2, <1>3, <1>4 DEF PoolStep

\* A step keeps requests at the places there are.
LEMMA StepType ==
  ASSUME TypeOK, [PoolNext]_vars
  PROVE  TypeOK'
<1>1. ASSUME NEW r \in Requests, PoolStep(r)
      PROVE  TypeOK'
  <2>1. \E from, to \in {"idle", "askProbe", "probe", "askBegin", "inTx",
                         "askStatement", "statement", "done"} : Move(r, from, to)
    BY <1>1, Moves DEF Waiting
  <2>2. UNCHANGED left \/ Count(r)
    BY <1>1 DEF Arrive, Get, GetForProbe, BeginTx, GetForStatement, Work, EndProbe, Ask,
                EndStatement, EndTx, Leave, PoolStep
  <2>3. left' \in [Requests -> 0..MaxStatements]
    BY <2>2, PoolAssumption DEF Count, TypeOK
  <2> QED BY <2>1, <2>3 DEF Move, TypeOK
<1>2. CASE UNCHANGED vars
  BY <1>2 DEF TypeOK, vars
<1> QED BY <1>1, <1>2 DEF PoolNext

\* How the library uses the pool, needed for the counting: a connection is taken
\* only while one is free.
PoolBounded == InUse <= MaxOpenConns

\* Every step keeps it so.
LEMMA StepBounded ==
  ASSUME TypeOK, PoolBounded, [PoolNext]_vars
  PROVE  PoolBounded'
<1>0. InUse \in Nat /\ MaxOpenConns \in Nat
  BY HoldersFinite, PoolAssumption DEF InUse
<1>1. ASSUME NEW r \in Requests, PoolStep(r)
      PROVE  PoolBounded'
  <2>1. \E from, to : Move(r, from, to) /\ (Held(to) <= Held(from) \/ (Free /\ Held(to) = Held(from) + 1))
    <3>1. CASE \/ Free /\ Move(r, "askProbe", "probe")
               \/ Free /\ Move(r, "askBegin", "inTx")
               \/ Free /\ Move(r, "askStatement", "statement")
      BY <3>1 DEF Held
    <3>2. CASE \/ \E to \in {"askBegin", "askProbe"} : Move(r, "idle", to)
               \/ \E to \in {"done", "askProbe", "askBegin"} : Move(r, "probe", to)
               \/ \E to \in {"askStatement", "done"} : Move(r, "inTx", to)
      BY <3>2 DEF Held
    <3>3. CASE \/ Move(r, "statement", "inTx")
               \/ \E from \in Waiting : Move(r, from, "done")
      BY <3>3 DEF Held, Waiting
    <3> QED BY <1>1, <3>1, <3>2, <3>3, Moves
  <2>2. PICK from, to : Move(r, from, to) /\ (Held(to) <= Held(from) \/ (Free /\ Held(to) = Held(from) + 1))
    BY <2>1
  <2>3. InUse' = InUse + Held(to) - Held(from)
    BY <2>2, MoveInUse
  <2>4. Held(to) \in Int /\ Held(from) \in Int
    BY DEF Held
  <2> QED BY <1>0, <2>2, <2>3, <2>4 DEF PoolBounded, Free
<1>2. CASE UNCHANGED vars
  <2>1. InTx' = InTx /\ Running' = Running
    BY <1>2 DEF InTx, Running, vars
  <2> QED BY <2>1 DEF PoolBounded, InUse
<1> QED BY <1>1, <1>2 DEF PoolNext

\* At first no connection is in use.
LEMMA InitOK ==
  ASSUME Init
  PROVE  TypeOK /\ PoolBounded
<1>1. TypeOK
  BY DEF Init, TypeOK
<1>2. InTx = {} /\ Running = {}
  BY DEF Init, InTx, Running
<1> QED BY <1>1, <1>2, FS_EmptySet, PoolAssumption DEF PoolBounded, InUse

\* A stuck pool moves on only when a client gives up a request in a transaction.
LEMMA StepStuck ==
  ASSUME TypeOK, PoolBounded, [PoolNext]_vars, Stuck, ~Stuck'
  PROVE  \E r \in InTx : pc'[r] = "done"
<1>0. InUse \in Nat /\ MaxOpenConns \in Nat
  BY HoldersFinite, PoolAssumption DEF InUse
<1>1. ASSUME UNCHANGED vars
      PROVE  FALSE
  <2>1. InTx' = InTx /\ Running' = Running /\ pc' = pc
    BY <1>1 DEF InTx, Running, vars
  <2> QED BY <2>1 DEF Stuck, Free, InUse
<1>2. PICK r \in Requests : PoolStep(r)
  BY <1>1 DEF PoolNext
<1>3. ~Free /\ Running = {} /\ \A q \in InTx : pc[q] = "askStatement"
  BY DEF Stuck
<1>4. \/ \E to \in {"askBegin", "askProbe"} : Move(r, "idle", to)
      \/ \E from \in Waiting : Move(r, from, "done")
  <2>1. r \notin Running /\ (r \in InTx => pc[r] = "askStatement")
    BY <1>3
  <2>2. pc[r] \notin {"probe", "statement", "inTx"}
    BY <2>1 DEF Running, InTx
  <2> QED BY <1>2, <1>3, <2>2, Moves DEF Move
<1>5. ASSUME NEW from, NEW to, Move(r, from, to), from \in {"idle", "askProbe", "askBegin"},
             to \in {"askBegin", "askProbe", "done"}
      PROVE  FALSE
  <2>1. InUse' = InUse
    BY <1>0, <1>5, MoveInUse DEF Held
  <2>2. InTx' = InTx /\ Running' = Running
    BY <1>5, MoveHolders
  <2>3. \A q \in InTx : pc'[q] = pc[q]
    BY <1>5 DEF Move, InTx, TypeOK
  <2> QED BY <1>3, <2>1, <2>2, <2>3 DEF Stuck, Free
<1>6. Move(r, "askStatement", "done")
  BY <1>4, <1>5 DEF Waiting
<1>7. r \in InTx /\ pc'[r] = "done"
  BY <1>6 DEF Move, InTx, TypeOK
<1> QED BY <1>7

-----------------------------------------------------------------------------
(* The theorems about the pool *)

\* The places of requests and their numbers of statements.
THEOREM PoolTypeCorrect == Spec => []TypeOK
<1> QED BY InitOK, StepType, NextIsPoolNext, PTL DEF Spec

\* A pool in which every connection waits for one more stays so, whoever else
\* arrives or leaves, until a client gives up a request in a transaction.
THEOREM StuckPoolStaysStuck == Spec => StuckUntilGivenUp
<1>1. TypeOK /\ PoolBounded /\ [Next]_vars => (TypeOK /\ PoolBounded)'
  BY StepType, StepBounded, NextIsPoolNext
<1>2. TypeOK /\ PoolBounded /\ [Next]_vars
        => [Stuck /\ ~Stuck' => \E r \in InTx : pc'[r] = "done"]_vars
  BY StepStuck, NextIsPoolNext
<1> QED BY InitOK, <1>1, <1>2, PTL DEF Spec, StuckUntilGivenUp

-----------------------------------------------------------------------------
(* The shutdown *)

\* A step of the server is one of a request on the pool, or one of main's.
LEMMA ServerSteps ==
  ASSUME ServerNext
  PROVE  \/ \E r \in Requests : PoolStep(r) /\ Up /\ (Arrive(r) => Accepts(r))
         \/ UNCHANGED vars /\ (Signal \/ Main \/ UNCHANGED serverVars)
<1>1. ASSUME NEW r \in Requests, RequestStep(r)
      PROVE  PoolStep(r) /\ Up /\ (Arrive(r) => Accepts(r))
  <2>1. Up /\ ((Accepts(r) /\ Arrive(r)) \/ Get(r) \/ Work(r) \/ GiveUp(r))
    BY <1>1 DEF RequestStep
  <2>2. Get(r) \/ Work(r) \/ GiveUp(r) => ~Arrive(r)
    BY DEF Arrive, Get, GetForProbe, BeginTx, GetForStatement, Work, EndProbe, Ask,
           EndStatement, EndTx, GiveUp, Leave, Waiting, Move
  <2> QED BY <2>1, <2>2 DEF PoolStep, GiveUp
<1>2. ASSUME NEW r \in Requests, CutOff(r)
      PROVE  PoolStep(r) /\ Up /\ (Arrive(r) => Accepts(r))
  <2>1. Up /\ Leave(r)
    BY <1>2 DEF CutOff
  <2>2. ~Arrive(r)
    BY <2>1 DEF Leave, Arrive, Waiting, Move
  <2> QED BY <2>1, <2>2 DEF PoolStep
<1>3. CASE Signal
  BY <1>3 DEF Signal
<1>4. CASE Main
  BY <1>4 DEF Main, CloseRest, BeginDrain, Drained, Deadline, Exit
<1>5. CASE ServerQuiescent
  BY <1>5 DEF ServerQuiescent, serverVars, vars
<1> QED BY <1>1, <1>2, <1>3, <1>4, <1>5 DEF ServerNext

\* What the server does is for the pool a step of one request or none.
LEMMA ServerIsPool ==
  ASSUME [ServerNext]_serverVars
  PROVE  [PoolNext]_vars
<1>1. CASE ServerNext
  BY <1>1, ServerSteps DEF PoolNext
<1>2. CASE UNCHANGED serverVars
  BY <1>2 DEF serverVars, vars
<1> QED BY <1>1, <1>2

\* Only a request that is accepted becomes active.
LEMMA StepActive ==
  ASSUME TypeOK, NEW r \in Requests, PoolStep(r)
  PROVE  \/ Arrive(r) /\ Active' \subseteq Active \cup {r}
         \/ Active' \subseteq Active
<1>1. \E to : pc' = [pc EXCEPT ![r] = to]
  BY Moves DEF Move
<1>2. Active' \subseteq Active \cup {r}
  BY <1>1 DEF Active, TypeOK
<1>3. ASSUME ~Arrive(r)
      PROVE  r \in Active
  BY <1>3 DEF PoolStep, Get, GetForProbe, BeginTx, GetForStatement, Work, EndProbe, Ask,
              EndStatement, EndTx, Leave, Waiting, Move, Active
<1> QED BY <1>2, <1>3

-----------------------------------------------------------------------------

\* A step of the server keeps requests and main at the places there are.
LEMMA ServerTypeStep ==
  ASSUME ServerTypeOK, [ServerNext]_serverVars
  PROVE  ServerTypeOK'
<1>1. TypeOK'
  BY StepType, ServerIsPool DEF ServerTypeOK
<1>2. CASE ServerNext
  <2>1. CASE UNCHANGED mainVars
    BY <1>1, <2>1 DEF mainVars, ServerTypeOK
  <2>2. CASE Signal
    BY <1>1, <2>2 DEF Signal, ServerTypeOK, Phases
  <2>3. CASE Main
    BY <1>1, <2>3 DEF Main, CloseRest, BeginDrain, Drained, Deadline, Exit, ServerTypeOK,
                      Phases, Active
  <2> QED BY <1>2, <2>1, <2>2, <2>3, ServerSteps DEF Up, serverVars, mainVars
<1>3. CASE UNCHANGED serverVars
  BY <1>1, <1>3 DEF serverVars, ServerTypeOK
<1> QED BY <1>2, <1>3

\* The server begins with nobody inside and nothing in use.
LEMMA ServerInitOK ==
  ASSUME ServerInit
  PROVE  ServerTypeOK /\ PoolBounded
BY InitOK DEF ServerInit, ServerTypeOK, Phases

\* Requests and main stay in the places the model knows.
THEOREM ServerTypeCorrect == ServerSpec => []ServerTypeOK
<1> QED BY ServerInitOK, ServerTypeStep, PTL DEF ServerSpec

\* A pool that is stuck stays stuck through the shutdown too: nothing but a request
\* that gives up, or is cut off, undoes it.
THEOREM ServerStuckStaysStuck == ServerSpec => StuckUntilGivenUp
<1>1. ServerTypeOK /\ PoolBounded /\ [ServerNext]_serverVars
        => (ServerTypeOK /\ PoolBounded)'
  BY ServerTypeStep, ServerIsPool, StepBounded DEF ServerTypeOK
<1>2. ServerTypeOK /\ PoolBounded /\ [ServerNext]_serverVars
        => [Stuck /\ ~Stuck' => \E r \in InTx : pc'[r] = "done"]_vars
  BY ServerIsPool, StepStuck DEF ServerTypeOK
<1> QED BY ServerInitOK, <1>1, <1>2, PTL DEF ServerSpec, StuckUntilGivenUp

-----------------------------------------------------------------------------

\* Why nobody is left behind: only the deadline cuts gRPC requests off, and once the
\* drain has begun none arrives, so that the last one to leave is the last.
Nobody == phase \in {"stopped", "exited"} => Active \cap Grpc = {}
DrainInv == ~forced => cut \cap Grpc = {} /\ Nobody

\* From the moment the drain began no gRPC request arrives, and it ends with none.
LEMMA DrainStep ==
  ASSUME ServerTypeOK, DrainInv, [ServerNext]_serverVars
  PROVE  DrainInv'
<1>1. ASSUME NEW r \in Requests, PoolStep(r), Up, Arrive(r) => Accepts(r)
      PROVE  DrainInv'
  <2>1. phase' = phase /\ cut' = cut /\ forced' = forced /\ Grpc' = Grpc
    BY <1>1 DEF Up, mainVars, Grpc
  <2>2. CASE phase \in {"stopped", "exited"}
    <3>1. ~Accepts(r)
      BY <2>2 DEF Accepts
    <3>2. Active' \subseteq Active
      BY <1>1, <3>1, StepActive DEF ServerTypeOK
    <3> QED BY <2>1, <3>2 DEF DrainInv, Nobody
  <2>3. CASE phase \notin {"stopped", "exited"}
    BY <2>1, <2>3 DEF DrainInv, Nobody
  <2> QED BY <2>2, <2>3
<1>2. ASSUME UNCHANGED vars
      PROVE  Active' = Active
  BY <1>2 DEF vars, Active
<1>3. CASE UNCHANGED serverVars
  BY <1>2, <1>3 DEF serverVars, vars, DrainInv, Nobody, Grpc
<1>4. CASE UNCHANGED vars /\ (Signal \/ Main)
  <2>1. Active' = Active /\ Grpc' = Grpc
    BY <1>2, <1>4 DEF Grpc
  <2>2. CASE Signal \/ CloseRest \/ BeginDrain
    BY <2>1, <2>2 DEF Signal, CloseRest, BeginDrain, DrainInv, Nobody, Grpc
  <2>3. CASE Drained
    BY <2>1, <2>3 DEF Drained, DrainInv, Nobody
  <2>4. CASE Deadline
    BY <2>4 DEF Deadline, DrainInv
  <2>5. CASE Exit
    BY <2>1, <2>5 DEF Exit, DrainInv, Nobody
  <2> QED BY <1>4, <2>2, <2>3, <2>4, <2>5 DEF Main
<1> QED BY <1>1, <1>3, <1>4, ServerSteps

\* Unless the deadline passed, the process ends with no gRPC request under way and
\* none cut off, however many there were.
THEOREM NobodyLeftBehind == ServerSpec => []GrpcIsDrained
<1>1. ServerInit => DrainInv
  BY DEF ServerInit, DrainInv, Nobody
<1>2. DrainInv => GrpcIsDrained
  BY DEF DrainInv, Nobody, GrpcIsDrained
<1>3. ServerTypeOK /\ DrainInv /\ [ServerNext]_serverVars => (ServerTypeOK /\ DrainInv)'
  BY ServerTypeStep, DrainStep
<1> QED BY ServerInitOK, <1>1, <1>2, <1>3, PTL DEF ServerSpec

=============================================================================
