------------------------- MODULE SwarmFactoryProofs -------------------------
(***************************************************************************)
(* Proofs about swarm_factory for any number of swarms, databases and      *)
(* operations, and with or without failures of the requests to the swarms. *)
(***************************************************************************)
EXTENDS SwarmFactory, FiniteSetTheorems, TLAPS

Reports == [err : Errors \cup {"already_exists"}, sw : Swarms \cup {None}]
BadNews == {"no_database", "database_error"}
BadAt(o) == {i \in 1 .. Len(results[o]) : results[o][i].err \in BadNews}

\* An operation is at work while it has requests to the swarms outstanding.
Working(o) == asked[o] # {} \/ creating[o] # None

-----------------------------------------------------------------------------
(* The inductive invariant *)

\* The shared counter of has_db is the number of outstanding requests.
Counted == \A o \in Ops : count[o] = Cardinality(asked[o])

\* An operation asks all the swarms first and creates the database afterwards.
Phased ==
    \A o \in Ops :
        /\ o \notin called => ~Working(o) /\ results[o] = <<>>
        /\ asked[o] # {} => creating[o] = None

\* Bad news is the last thing an operation hears.
BadNewsLast ==
    \A o \in Ops :
        /\ Working(o) => BadAt(o) = {}
        /\ \A i, j \in BadAt(o) : i = j

IInv == TypeOK /\ Counted /\ Phased /\ CacheSound /\ GoodNewsTrue /\ BadNewsLast

-----------------------------------------------------------------------------
(* Lemmas about the operators of the model *)

\* A set of swarms is finite, and losing one that answered counts it down by 1.
LEMMA AskedCount ==
    ASSUME NEW A \in SUBSET Swarms
    PROVE  /\ IsFiniteSet(A)
           /\ Cardinality(A) \in 0 .. NumSwarms
           /\ Cardinality(A) = 0 <=> A = {}
           /\ \A s \in A : Cardinality(A \ {s}) = Cardinality(A) - 1
<1>1. IsFiniteSet(Swarms) /\ Cardinality(Swarms) = NumSwarms
  BY FactoryAssumption, FS_Interval DEF Swarms
<1>2. IsFiniteSet(A) /\ Cardinality(A) \in Nat /\ Cardinality(A) <= NumSwarms
  BY <1>1, FS_Subset, FS_CardinalityType
<1>3. \A s \in A : Cardinality(A \ {s}) = Cardinality(A) - 1
  BY <1>2, FS_RemoveElement
<1> QED
  BY <1>2, <1>3, FS_EmptySet, FactoryAssumption

\* The number of swarms itself, which the counter starts with.
LEMMA SwarmCount == Cardinality(Swarms) = NumSwarms
  BY FactoryAssumption, FS_Interval DEF Swarms

\* When there is a swarm, the swarm the first try of do_create_db selects exists.
LEMMA FirstRetryExists == NumSwarms >= 1 => SwarmAt(FirstRetry) \in Swarms
  BY FactoryAssumption DEF SwarmAt, FirstRetry, Swarms

\* What calling a callback adds to the history of the operation.
LEMMA CallbackAppends ==
    ASSUME NEW o \in Ops, results \in [Ops -> Seq(Reports)],
           NEW err \in Errors \cup {"already_exists"},
           NEW sw \in Swarms \cup {None},
           Callback(o, err, sw)
    PROVE  /\ results' \in [Ops -> Seq(Reports)]
           /\ \A p \in Ops : p # o => results'[p] = results[p]
           /\ Len(results[o]) \in Nat
           /\ Len(results'[o]) = Len(results[o]) + 1
           /\ \A i \in 1 .. Len(results[o]) : results'[o][i] = results[o][i]
           /\ results'[o][Len(results[o]) + 1] = [err |-> err, sw |-> sw]
<1> DEFINE r == [err |-> err, sw |-> sw]
<1>1. r \in Reports
  BY DEF Reports
<1>2. results[o] \in Seq(Reports) /\ results'[o] = Append(results[o], r)
  BY DEF Callback
<1>3. \A p \in Ops : p # o => results'[p] = results[p]
  BY DEF Callback
<1> HIDE DEF r
<1>4. Append(results[o], r) \in Seq(Reports)
  BY <1>1, <1>2
<1>5. results' = [results EXCEPT ![o] = Append(results[o], r)]
  BY DEF Callback, r
<1>6. results' \in [Ops -> Seq(Reports)]
  BY <1>4, <1>5
<1>7. /\ Len(results[o]) \in Nat
      /\ Len(results'[o]) = Len(results[o]) + 1
      /\ \A i \in 1 .. Len(results[o]) : results'[o][i] = results[o][i]
      /\ results'[o][Len(results[o]) + 1] = r
  BY <1>1, <1>2
<1> QED
  BY <1>3, <1>6, <1>7 DEF r

-----------------------------------------------------------------------------
(* One step of one operation *)

StepOf(o) ==
    \/ CallCached(o) \/ CallUncached(o)
    \/ \E s \in Swarms : AnsweredHas(o, s)
    \/ AnsweredCreate(o)

\* What the swarms hold only grows, and only o's own bookkeeping changes.
Frame(o) ==
    /\ exists' \in [Swarms -> SUBSET Uuids]
    /\ \A s \in Swarms : exists[s] \subseteq exists'[s]
    /\ called' \subseteq Ops /\ o \in called' /\ called \subseteq called'
    /\ called' \subseteq called \cup {o}
    /\ asked' \in [Ops -> SUBSET Swarms]
    /\ count' \in [Ops -> Int]
    /\ creating' \in [Ops -> Swarms \cup {None}]
    /\ \A p \in Ops \ {o} : /\ asked'[p] = asked[p] /\ creating'[p] = creating[p]
                            /\ count'[p] = count[p]
    /\ count'[o] = Cardinality(asked'[o])
    /\ asked'[o] # {} => creating'[o] = None
    /\ o \in called /\ ~Working(o) => ~Working(o)'

\* What o is told is true, and bad news ends it.
TrueReport(o) ==
    \E err \in Errors \cup {"already_exists"}, sw \in Swarms \cup {None} :
        /\ Callback(o, err, sw)
        /\ err = "success" <=> sw # None
        /\ sw # None => Uuid[o] \in exists'[sw]
        /\ err = "already_exists" => \E s \in Swarms : Uuid[o] \in exists'[s]
        /\ err \in BadNews => o \in called /\ Working(o) /\ ~Working(o)'

\* A step keeps the cache true.
CacheStep ==
    /\ swarm_dbs' \in [Uuids -> Swarms \cup {None}]
    /\ \A u \in Uuids : swarm_dbs'[u] # None => u \in exists'[swarm_dbs'[u]]

\* The counters are integers, which the steps that leave them alone need.
LEMMA CountType ==
    ASSUME IInv
    PROVE  count \in [Ops -> Int] /\ \A p \in Ops : count[p] = Cardinality(asked[p])
<1>1. count \in [Ops -> 0 .. NumSwarms] /\ 0 .. NumSwarms \subseteq Int
  BY FactoryAssumption DEF IInv, TypeOK
<1> QED
  BY <1>1 DEF IInv, Counted

\* The callback of has_db, given a true answer, gives a true report or starts to
\* create the database.
LEMMA HasCallbackEffect ==
    ASSUME NEW o \in Ops, TypeOK, NumSwarms >= 1, NEW err \in Errors,
           NEW sw \in Swarms \cup {None},
           HasCallback(o, err, sw), creating[o] = None,
           sw # None => err = "success" /\ Uuid[o] \in exists'[sw],
           sw = None => /\ err = "no_database"
                        /\ o \in called /\ Working(o) /\ asked'[o] = {}
    PROVE  /\ creating' \in [Ops -> Swarms \cup {None}]
           /\ \A p \in Ops \ {o} : creating'[p] = creating[p]
           /\ sw # None => creating'[o] = None
           /\ UNCHANGED results \/ TrueReport(o)
<1> USE DEF TypeOK
<1>1. CASE Kind[o] = "has"
  <2>1. Callback(o, err, sw) /\ creating' = creating
    BY <1>1 DEF HasCallback
  <2>2. err # "already_exists"
    BY DEF Errors
  <2>3. err \in BadNews => o \in called /\ Working(o) /\ ~Working(o)'
    BY <2>1 DEF BadNews, Working
  <2>4. err = "success" => sw # None /\ Uuid[o] \in exists'[sw]
    BY DEF BadNews
  <2>5. TrueReport(o)
    BY <2>1, <2>2, <2>3, <2>4 DEF TrueReport
  <2> QED
    BY <2>1, <2>5
<1>2. CASE Kind[o] = "create" /\ sw # None
  <2>1. Callback(o, "already_exists", None) /\ creating' = creating
    BY <1>2 DEF HasCallback
  <2>2. sw \in Swarms /\ Uuid[o] \in exists'[sw]
    BY <1>2
  <2>3. "already_exists" # "success" /\ "already_exists" \notin BadNews
    BY DEF BadNews
  <2>4. TrueReport(o)
    BY <2>1, <2>2, <2>3 DEF TrueReport
  <2> QED
    BY <2>1, <2>4
<1>3. CASE Kind[o] = "create" /\ sw = None
  <2>1. results' = results
        /\ creating' = [creating EXCEPT ![o] = SwarmAt(FirstRetry)]
    BY <1>3 DEF HasCallback, do_create_db
  <2> QED
    BY <1>3, <2>1, FirstRetryExists
<1> QED
  BY <1>1, <1>2, <1>3, FactoryAssumption

\* A call answered from the cache: the cached swarm has the database.
LEMMA CallCachedEffect ==
    ASSUME NEW o \in Ops, IInv, CallCached(o)
    PROVE  Frame(o) /\ CacheStep /\ (UNCHANGED results \/ TrueReport(o))
<1> DEFINE sw == swarm_dbs[Uuid[o]]
<1>1. Uuid[o] \in Uuids /\ sw \in Swarms /\ Uuid[o] \in exists[sw]
  BY FactoryAssumption DEF IInv, TypeOK, CacheSound, CallCached
<1>2. NumSwarms >= 1
  BY <1>1, FactoryAssumption DEF Swarms
<1>3. sw # None /\ "success" \in Errors
  BY <1>1 DEF Swarms, None, Errors
<1>4. /\ HasCallback(o, "success", sw)
      /\ UNCHANGED <<exists, swarm_dbs, asked, count>>
      /\ o \notin called /\ called' = called \cup {o}
  BY DEF CallCached, Begin
<1>5. asked[o] = {} /\ creating[o] = None
  BY <1>4 DEF IInv, Phased, Working
<1>6. /\ creating' \in [Ops -> Swarms \cup {None}]
      /\ \A p \in Ops \ {o} : creating'[p] = creating[p]
      /\ creating'[o] = None
      /\ UNCHANGED results \/ TrueReport(o)
  <2> HIDE DEF sw
  <2>1. TypeOK /\ Uuid[o] \in exists'[sw] /\ sw \in Swarms \cup {None}
    BY <1>1, <1>4 DEF IInv
  <2> QED
    BY <1>2, <1>3, <1>4, <1>5, <2>1, HasCallbackEffect
<1>7. Frame(o)
  BY <1>4, <1>5, <1>6, CountType DEF Frame, Working, IInv, TypeOK
<1>8. CacheStep
  BY <1>4 DEF IInv, TypeOK, CacheSound, CacheStep
<1> QED
  BY <1>6, <1>7, <1>8

\* A call that asks every swarm.
LEMMA CallUncachedEffect ==
    ASSUME NEW o \in Ops, IInv, CallUncached(o)
    PROVE  Frame(o) /\ CacheStep /\ (UNCHANGED results \/ TrueReport(o))
<1>1. /\ UNCHANGED <<exists, swarm_dbs, creating, results>>
      /\ asked' = [asked EXCEPT ![o] = Swarms]
      /\ count' = [count EXCEPT ![o] = NumSwarms]
      /\ o \notin called /\ called' = called \cup {o}
  BY DEF CallUncached, Begin
<1>2. creating[o] = None
  BY <1>1 DEF IInv, Phased, Working
<1>3. Frame(o)
  BY <1>1, <1>2, SwarmCount, FactoryAssumption DEF Frame, IInv, TypeOK
<1>4. CacheStep
  BY <1>1 DEF IInv, TypeOK, CacheSound, CacheStep
<1> QED
  BY <1>1, <1>3, <1>4

\* The answer of one swarm to has_uuid: success is reported and cached for a
\* swarm that has the database, and the last of the answers decides otherwise.
LEMMA AnswerHasEffect ==
    ASSUME NEW o \in Ops, NEW s \in Swarms, NEW err \in Errors, IInv,
           AnswerHas(o, s, err)
    PROVE  Frame(o) /\ CacheStep /\ (UNCHANGED results \/ TrueReport(o))
<1>1. /\ s \in asked[o]
      /\ asked' = [asked EXCEPT ![o] = @ \ {s}]
      /\ count' = [count EXCEPT ![o] = @ - 1]
      /\ UNCHANGED <<exists, called>>
  BY DEF AnswerHas
<1>2. NumSwarms >= 1
  BY FactoryAssumption DEF Swarms
<1>3. creating[o] = None /\ o \in called /\ Working(o)
  BY <1>1 DEF IInv, Phased, Working
<1>4. /\ asked' \in [Ops -> SUBSET Swarms]
      /\ asked'[o] = asked[o] \ {s}
      /\ count' \in [Ops -> Int]
      /\ count'[o] = Cardinality(asked'[o])
  BY <1>1, AskedCount DEF IInv, TypeOK, Counted
<1>5. count'[o] = 0 <=> asked'[o] = {}
  BY <1>4, AskedCount
<1>6. Uuid[o] \in Uuids
  BY FactoryAssumption
<1>7. /\ creating' \in [Ops -> Swarms \cup {None}]
      /\ \A p \in Ops \ {o} : creating'[p] = creating[p]
      /\ asked'[o] # {} => creating'[o] = None
      /\ UNCHANGED results \/ TrueReport(o)
  <2>1. CASE err = "success"
    <3>1. HasCallback(o, "success", s)
      BY <2>1 DEF AnswerHas
    <3>2. Uuid[o] \in exists'[s]
      BY <1>1, <2>1 DEF AnswerHas, HasOutcome
    <3>3. s # None /\ s \in Swarms \cup {None} /\ TypeOK /\ "success" \in Errors
      BY DEF Swarms, None, IInv, Errors
    <3> QED
      BY <1>2, <1>3, <3>1, <3>2, <3>3, HasCallbackEffect
  <2>2. CASE err # "success" /\ LastAnswer(o)
    <3>1. HasCallback(o, "no_database", None) /\ asked'[o] = {}
      BY <1>5, <2>2 DEF AnswerHas, LastAnswer
    <3>2. TypeOK /\ None \in Swarms \cup {None} /\ "no_database" \in Errors
      BY DEF IInv, Errors
    <3> QED
      BY <1>2, <1>3, <3>1, <3>2, HasCallbackEffect
  <2>3. CASE err # "success" /\ ~LastAnswer(o)
    BY <1>3, <2>3 DEF AnswerHas, IInv, TypeOK
  <2> QED
    BY <2>1, <2>2, <2>3
<1>8. Frame(o)
  BY <1>1, <1>3, <1>4, <1>7 DEF Frame, IInv, TypeOK
<1>9. CacheStep
  <2>1. CASE err = "success"
    <3>1. swarm_dbs' = [swarm_dbs EXCEPT ![Uuid[o]] = s] /\ Uuid[o] \in exists'[s]
      BY <1>1, <2>1 DEF AnswerHas, HasOutcome, Remember
    <3> QED
      BY <1>1, <1>6, <3>1 DEF IInv, TypeOK, CacheSound, CacheStep
  <2>2. CASE err # "success"
    BY <1>1, <2>2 DEF AnswerHas, Remember, IInv, TypeOK, CacheSound, CacheStep
  <2> QED
    BY <2>1, <2>2
<1> QED
  BY <1>7, <1>8, <1>9

\* A created database is on the swarm that is reported and cached.
LEMMA AnswerCreatedEffect ==
    ASSUME NEW o \in Ops, IInv, AnswerCreated(o)
    PROVE  Frame(o) /\ CacheStep /\ (UNCHANGED results \/ TrueReport(o))
<1> DEFINE s == creating[o]
<1>1. /\ s # None
      /\ exists' = [exists EXCEPT ![s] = @ \cup {Uuid[o]}]
      /\ swarm_dbs' = [swarm_dbs EXCEPT ![Uuid[o]] = s]
      /\ Callback(o, "success", s)
      /\ creating' = [creating EXCEPT ![o] = None]
      /\ UNCHANGED <<called, asked, count>>
  BY DEF AnswerCreated
<1>2. s \in Swarms /\ Uuid[o] \in Uuids
  BY <1>1, FactoryAssumption DEF IInv, TypeOK
<1>3. /\ exists' \in [Swarms -> SUBSET Uuids]
      /\ \A t \in Swarms : exists[t] \subseteq exists'[t]
      /\ Uuid[o] \in exists'[s]
  BY <1>1, <1>2 DEF IInv, TypeOK
<1>4. asked[o] = {} /\ o \in called
  BY <1>1 DEF IInv, Phased, Working
<1>5. Frame(o)
  BY <1>1, <1>3, <1>4, CountType DEF Frame, Working, IInv, TypeOK
<1>6. CacheStep
  BY <1>1, <1>2, <1>3 DEF IInv, TypeOK, CacheSound, CacheStep
<1>7. TrueReport(o)
  <2> HIDE DEF s
  <2>1. "success" \in Errors \cup {"already_exists"} /\ "success" \notin BadNews
        /\ "success" # "already_exists"
    BY DEF Errors, BadNews
  <2> QED
    BY <1>1, <1>2, <1>3, <2>1 DEF TrueReport
<1> QED
  BY <1>5, <1>6, <1>7

\* A failed creation is tried on a swarm before, and reported by the last try.
LEMMA AnswerCreateFailedEffect ==
    ASSUME NEW o \in Ops, IInv, AnswerCreateFailed(o)
    PROVE  Frame(o) /\ CacheStep /\ (UNCHANGED results \/ TrueReport(o))
<1> DEFINE s == creating[o]
<1>1. /\ s # None
      /\ \/ UNCHANGED exists
         \/ exists' = [exists EXCEPT ![s] = @ \cup {Uuid[o]}]
      /\ UNCHANGED <<swarm_dbs, called, asked, count>>
  BY DEF AnswerCreateFailed
<1>2. s \in Swarms /\ Uuid[o] \in Uuids
  BY <1>1, FactoryAssumption DEF IInv, TypeOK
<1>3. /\ exists' \in [Swarms -> SUBSET Uuids]
      /\ \A t \in Swarms : exists[t] \subseteq exists'[t]
  <2> HIDE DEF s
  <2>1. CASE UNCHANGED exists
    BY <2>1 DEF IInv, TypeOK
  <2>2. CASE exists' = [exists EXCEPT ![s] = @ \cup {Uuid[o]}]
    BY <1>2, <2>2 DEF IInv, TypeOK
  <2> QED
    BY <1>1, <2>1, <2>2
<1>4. asked[o] = {} /\ o \in called /\ Working(o)
  BY <1>1 DEF IInv, Phased, Working
<1>5. CacheStep
  BY <1>1, <1>3 DEF IInv, TypeOK, CacheSound, CacheStep
<1>6. CASE s > SwarmAt(0)
  <2>1. creating' = [creating EXCEPT ![o] = s - 1] /\ results' = results
    BY <1>2, <1>6 DEF AnswerCreateFailed, do_create_db, SwarmAt, Swarms
  <2>2. s - 1 \in Swarms
    BY <1>2, <1>6, FactoryAssumption DEF SwarmAt, Swarms
  <2> HIDE DEF s
  <2>3. creating' \in [Ops -> Swarms \cup {None}]
        /\ \A p \in Ops \ {o} : creating'[p] = creating[p]
    BY <2>1, <2>2 DEF IInv, TypeOK
  <2>4. Frame(o)
    BY <1>1, <1>3, <1>4, <2>3, CountType DEF Frame, IInv, TypeOK
  <2> QED
    BY <1>5, <2>1, <2>4
<1>7. CASE ~(s > SwarmAt(0))
  <2>1. /\ Callback(o, "database_error", None)
        /\ creating' = [creating EXCEPT ![o] = None]
    BY <1>7 DEF AnswerCreateFailed
  <2>2. ~Working(o)'
    BY <1>1, <1>4, <2>1 DEF Working, IInv, TypeOK
  <2>3. TrueReport(o)
    <3>1. /\ "database_error" \in Errors \cup {"already_exists"}
          /\ "database_error" \notin {"success", "already_exists"}
      BY DEF Errors
    <3> QED
      BY <1>4, <2>1, <2>2, <3>1 DEF TrueReport
  <2>4. Frame(o)
    BY <1>1, <1>3, <1>4, <2>1, CountType DEF Frame, Working, IInv, TypeOK
  <2> QED
    BY <1>5, <2>3, <2>4
<1> QED
  BY <1>6, <1>7

\* Every step of an operation is one of these.
LEMMA StepEffect ==
    ASSUME NEW o \in Ops, IInv, StepOf(o)
    PROVE  Frame(o) /\ CacheStep /\ (UNCHANGED results \/ TrueReport(o))
  BY CallCachedEffect, CallUncachedEffect, AnswerHasEffect, AnswerCreatedEffect,
     AnswerCreateFailedEffect DEF StepOf, AnsweredHas, AnsweredCreate

-----------------------------------------------------------------------------
(* The invariant is preserved *)

\* The histories of a step keep their type, and grow by what a report appends.
LEMMA ResultsStep ==
    ASSUME NEW o \in Ops, IInv, UNCHANGED results \/ TrueReport(o)
    PROVE  results' \in [Ops -> Seq(Reports)]
<1>1. results \in [Ops -> Seq(Reports)]
  BY DEF IInv, TypeOK, Reports
<1>2. CASE TrueReport(o)
  <2>1. PICK err \in Errors \cup {"already_exists"}, sw \in Swarms \cup {None} :
             Callback(o, err, sw)
    BY <1>2 DEF TrueReport
  <2> QED
    BY <1>1, <2>1, CallbackAppends
<1> QED
  BY <1>1, <1>2

\* The types are kept: the counter stays between 0 and the number of swarms
\* because it counts outstanding requests.
LEMMA TypeStep ==
    ASSUME NEW o \in Ops, IInv, StepOf(o)
    PROVE  TypeOK' /\ Counted' /\ Phased'
<1>1. Frame(o) /\ CacheStep /\ (UNCHANGED results \/ TrueReport(o))
  BY StepEffect
<1>2. results' \in [Ops -> Seq(Reports)]
  BY <1>1, ResultsStep
<1>3. \A p \in Ops : count'[p] = Cardinality(asked'[p])
  BY <1>1 DEF Frame, IInv, Counted
<1>4. \A p \in Ops : count'[p] \in 0 .. NumSwarms
  BY <1>1, <1>3, AskedCount DEF Frame
<1>5. count' \in [Ops -> 0 .. NumSwarms]
  BY <1>1, <1>4 DEF Frame
<1>6. TypeOK'
  BY <1>1, <1>2, <1>5 DEF Frame, CacheStep, TypeOK, Reports
<1>7. \A p \in Ops \ {o} : results'[p] = results[p]
  <2>1. results \in [Ops -> Seq(Reports)]
    BY DEF IInv, TypeOK, Reports
  <2> QED
    BY <1>1, <2>1, CallbackAppends DEF TrueReport
<1>8. Phased'
  BY <1>1, <1>7 DEF Frame, IInv, Phased, Working
<1> QED
  BY <1>3, <1>6, <1>8 DEF Counted

\* Good news stays true, because a swarm never loses a database.
LEMMA GoodNewsStep ==
    ASSUME NEW o \in Ops, IInv, StepOf(o)
    PROVE  GoodNewsTrue'
<1>1. Frame(o) /\ (UNCHANGED results \/ TrueReport(o))
  BY StepEffect
<1>2. results \in [Ops -> Seq(Reports)]
  BY DEF IInv, TypeOK, Reports
<1> SUFFICES ASSUME NEW p \in Ops, NEW i \in 1 .. Len(results'[p])
             PROVE  /\ results'[p][i].err = "success" =>
                         /\ results'[p][i].sw # None
                         /\ Uuid[p] \in exists'[results'[p][i].sw]
                    /\ results'[p][i].err = "already_exists" =>
                         \E s \in Swarms : Uuid[p] \in exists'[s]
  BY DEF GoodNewsTrue, Told, Holders
<1>3. CASE i \in 1 .. Len(results[p]) /\ results'[p][i] = results[p][i]
  <2> DEFINE r == results[p][i]
  <2>1. r \in Told(p) /\ r \in Reports
    BY <1>2, <1>3 DEF Told
  <2>2. /\ r.err = "success" => r.sw # None /\ Uuid[p] \in exists[r.sw]
        /\ r.err = "already_exists" => \E s \in Swarms : Uuid[p] \in exists[s]
    BY <2>1 DEF IInv, GoodNewsTrue, Holders
  <2>3. r.sw \in Swarms \cup {None}
    BY <2>1 DEF Reports
  <2> HIDE DEF r
  <2>4. /\ r.err = "success" => r.sw # None /\ Uuid[p] \in exists'[r.sw]
        /\ r.err = "already_exists" => \E s \in Swarms : Uuid[p] \in exists'[s]
    BY <1>1, <2>2, <2>3 DEF Frame
  <2> QED
    BY <1>3, <2>4 DEF r
<1>4. CASE UNCHANGED results
  BY <1>3, <1>4
<1>5. CASE TrueReport(o)
  <2>1. PICK err \in Errors \cup {"already_exists"}, sw \in Swarms \cup {None} :
             /\ Callback(o, err, sw)
             /\ err = "success" => sw # None /\ Uuid[o] \in exists'[sw]
             /\ err = "already_exists" => \E s \in Swarms : Uuid[o] \in exists'[s]
    BY <1>5 DEF TrueReport
  <2>2. /\ \A q \in Ops : q # o => results'[q] = results[q]
        /\ Len(results[o]) \in Nat
        /\ Len(results'[o]) = Len(results[o]) + 1
        /\ \A k \in 1 .. Len(results[o]) : results'[o][k] = results[o][k]
        /\ results'[o][Len(results[o]) + 1] = [err |-> err, sw |-> sw]
    BY <1>2, <2>1, CallbackAppends
  <2>3. CASE p = o /\ i = Len(results[o]) + 1
    BY <2>1, <2>2, <2>3
  <2>4. CASE ~(p = o /\ i = Len(results[o]) + 1)
    <3>1. i \in 1 .. Len(results[p]) /\ results'[p][i] = results[p][i]
      BY <2>2, <2>4
    <3> QED
      BY <1>3, <3>1
  <2> QED
    BY <2>3, <2>4
<1> QED
  BY <1>1, <1>4, <1>5

\* Bad news comes last: it is given by the step that ends the operation, and an
\* operation that has ended does not start again.
LEMMA BadNewsStep ==
    ASSUME NEW o \in Ops, IInv, StepOf(o)
    PROVE  BadNewsLast'
<1>1. Frame(o) /\ (UNCHANGED results \/ TrueReport(o))
  BY StepEffect
<1>2. results \in [Ops -> Seq(Reports)]
  BY DEF IInv, TypeOK, Reports
<1>3. \A p \in Ops \ {o} : Working(p)' = Working(p)
  BY <1>1 DEF Frame, Working
<1>4. o \notin called => BadAt(o) = {}
  BY <1>2 DEF IInv, Phased, BadAt
<1>5. Working(o)' => BadAt(o) = {}
  BY <1>1, <1>4 DEF Frame, IInv, BadNewsLast
<1>6. CASE UNCHANGED results
  <2>1. \A p \in Ops : BadAt(p)' = BadAt(p)
    BY <1>6 DEF BadAt
  <2> QED
    BY <1>3, <1>5, <2>1 DEF BadNewsLast, IInv
<1>7. CASE TrueReport(o)
  <2>1. PICK err \in Errors \cup {"already_exists"}, sw \in Swarms \cup {None} :
             /\ Callback(o, err, sw)
             /\ err \in BadNews => o \in called /\ Working(o) /\ ~Working(o)'
    BY <1>7 DEF TrueReport
  <2>2. /\ \A q \in Ops : q # o => results'[q] = results[q]
        /\ Len(results[o]) \in Nat
        /\ Len(results'[o]) = Len(results[o]) + 1
        /\ \A k \in 1 .. Len(results[o]) : results'[o][k] = results[o][k]
        /\ results'[o][Len(results[o]) + 1] = [err |-> err, sw |-> sw]
    BY <1>2, <2>1, CallbackAppends
  <2>3. \A p \in Ops \ {o} : BadAt(p)' = BadAt(p)
    BY <2>2 DEF BadAt
  <2>4. CASE err \in BadNews
    <3>1. BadAt(o) = {} /\ ~Working(o)'
      BY <2>1, <2>4 DEF IInv, BadNewsLast
    <3>2. BadAt(o)' \subseteq {Len(results[o]) + 1}
      BY <2>2, <3>1 DEF BadAt
    <3> QED
      BY <1>3, <2>3, <3>1, <3>2 DEF BadNewsLast, IInv
  <2>5. CASE err \notin BadNews
    <3>1. BadAt(o)' = BadAt(o)
      BY <2>2, <2>5 DEF BadAt
    <3> QED
      BY <1>3, <1>5, <2>3, <3>1 DEF BadNewsLast, IInv
  <2> QED
    BY <2>4, <2>5
<1> QED
  BY <1>1, <1>6, <1>7

-----------------------------------------------------------------------------
(* What swarm_factory guarantees *)

\* The factory starts with an empty cache and no operation.
LEMMA InitIInv == Init => IInv
<1> SUFFICES ASSUME Init PROVE IInv
  OBVIOUS
<1>1. exists \in [Swarms -> SUBSET Uuids]
  BY DEF Init
<1>2. count \in [Ops -> 0 .. NumSwarms]
  BY FactoryAssumption DEF Init
<1>3. results \in [Ops -> Seq(Reports)] /\ \A o \in Ops : results[o] = <<>>
  BY DEF Init
<1>4. TypeOK
  BY <1>1, <1>2, <1>3 DEF Init, TypeOK, Reports
<1>5. Counted /\ Phased
  BY FS_EmptySet DEF Init, Counted, Phased, Working
<1>6. CacheSound
  BY DEF Init, CacheSound
<1>7. \A o \in Ops : Told(o) = {} /\ BadAt(o) = {}
  BY <1>3 DEF Told, BadAt
<1>8. GoodNewsTrue /\ BadNewsLast
  BY <1>7 DEF GoodNewsTrue, BadNewsLast
<1> QED
  BY <1>4, <1>5, <1>6, <1>8 DEF IInv

\* The conjuncts hold together in every reachable state.
LEMMA Invariance == Spec => []IInv
<1>1. IInv /\ [Next]_vars => IInv'
  <2> SUFFICES ASSUME IInv, [Next]_vars PROVE IInv'
    OBVIOUS
  <2>1. ASSUME NEW o \in Ops, StepOf(o) PROVE IInv'
    <3>1. CacheSound'
      BY <2>1, StepEffect DEF CacheStep, CacheSound
    <3> QED
      BY <2>1, <3>1, TypeStep, GoodNewsStep, BadNewsStep DEF IInv
  <2>2. CASE UNCHANGED vars
    <3>1. TypeOK' /\ Counted' /\ Phased' /\ CacheSound'
      BY <2>2 DEF vars, IInv, TypeOK, Counted, Phased, Working, CacheSound
    <3>2. \A o \in Ops : /\ Told(o)' = Told(o) /\ BadAt(o)' = BadAt(o)
                         /\ Working(o)' = Working(o)
      BY <2>2 DEF vars, Told, BadAt, Working
    <3>3. \A u : Holders(u)' = Holders(u)
      BY <2>2 DEF vars, Holders
    <3>4. GoodNewsTrue' /\ BadNewsLast'
      BY <2>2, <3>2, <3>3 DEF vars, IInv, GoodNewsTrue, BadNewsLast
    <3> QED
      BY <3>1, <3>4 DEF IInv
  <2> QED
    BY <2>1, <2>2 DEF Next, StepOf
<1> QED
  BY <1>1, InitIInv, PTL DEF Spec

\* The members of swarm_factory keep their types: the counter of has_db never
\* wraps and every swarm do_create_db selects exists, for any number of swarms.
THEOREM TypeCorrect == Spec => []TypeOK
<1>1. IInv => TypeOK
  BY DEF IInv
<1> QED
  BY <1>1, Invariance, PTL

\* The cache only ever names a swarm that holds the database.
THEOREM CacheAlwaysSound == Spec => []CacheSound
<1>1. IInv => CacheSound
  BY DEF IInv
<1> QED
  BY <1>1, Invariance, PTL

\* A caller told of success, or that the database exists, was told the truth.
THEOREM GoodNewsAlwaysTrue == Spec => []GoodNewsTrue
<1>1. IInv => GoodNewsTrue
  BY DEF IInv
<1> QED
  BY <1>1, Invariance, PTL

\* An operation is told at most once that its database is not there or could not
\* be created, for any number of swarms and answers in any order.
THEOREM BadNewsAtMostOnce == Spec => []BadNewsOnce
<1>1. IInv => BadNewsOnce
  <2> SUFFICES ASSUME IInv, NEW o \in Ops PROVE Cardinality(BadAt(o)) <= 1
    BY DEF BadNewsOnce, BadAt, BadNews
  <2>1. CASE BadAt(o) = {}
    BY <2>1, FS_EmptySet
  <2>2. CASE BadAt(o) # {}
    <3>1. PICK i \in BadAt(o) : BadAt(o) = {i}
      BY <2>2 DEF IInv, BadNewsLast
    <3> QED
      BY <3>1, FS_Singleton
  <2> QED
    BY <2>1, <2>2
<1> QED
  BY <1>1, Invariance, PTL

-----------------------------------------------------------------------------
(* Every call comes back: what EveryOpCallsBack rests on *)

\* An operation that was started and has not called back has a request to a
\* swarm outstanding, whose answer will go on with it.
NeverForgotten ==
    \A o \in Ops : o \in called /\ results[o] = <<>> => Working(o)

\* The answers an operation can still get: those of the swarms asked, each of
\* which may be followed by the tries to create the database, or the tries left.
Remaining(o) == IF asked[o] # {} THEN NumSwarms + count[o] ELSE creating[o]

\* A step either starts an operation, or is an answer to one, and an answer
\* leaves fewer to come and those of the other operations alone.
AnswersRunOut ==
    \E o \in Ops :
        /\ \A p \in Ops \ {o} : Remaining(p)' = Remaining(p)
        /\ \/ o \notin called
           \/ Remaining(o)' < Remaining(o)

\* A callback leaves a mark in the history of its operation.
LEMMA CallbackHeard ==
    ASSUME NEW o \in Ops, TypeOK,
           NEW err \in Errors \cup {"already_exists"},
           NEW sw \in Swarms \cup {None},
           Callback(o, err, sw)
    PROVE  results'[o] # <<>>
<1>1. results \in [Ops -> Seq(Reports)]
  BY DEF TypeOK, Reports
<1>2. Len(results[o]) \in Nat /\ Len(results'[o]) = Len(results[o]) + 1
  BY <1>1, CallbackAppends
<1>3. Len(<<>>) = 0
  OBVIOUS
<1> QED
  BY <1>2, <1>3

\* The callback of has_db either calls the client back or goes on to create.
LEMMA HasCallbackGoesOn ==
    ASSUME NEW o \in Ops, TypeOK, NumSwarms >= 1, NEW err \in Errors,
           NEW sw \in Swarms \cup {None}, HasCallback(o, err, sw)
    PROVE  results'[o] # <<>> \/ creating'[o] # None
<1>1. CASE Callback(o, err, sw)
  BY <1>1, CallbackHeard
<1>2. CASE Callback(o, "already_exists", None)
  BY <1>2, CallbackHeard
<1>3. CASE do_create_db(o, FirstRetry)
  <2>1. SwarmAt(FirstRetry) # None
    BY FirstRetryExists DEF Swarms, None
  <2> QED
    BY <1>3, <2>1 DEF do_create_db, TypeOK
<1> QED
  BY <1>1, <1>2, <1>3 DEF HasCallback

\* A step of an operation calls back, or leaves a request outstanding.
LEMMA StepGoesOn ==
    ASSUME NEW o \in Ops, IInv, NumSwarms >= 1, StepOf(o)
    PROVE  results'[o] # <<>> \/ Working(o)'
<1> USE DEF IInv
<1>1. CASE CallCached(o)
  <2>1. /\ HasCallback(o, "success", swarm_dbs[Uuid[o]])
        /\ swarm_dbs[Uuid[o]] \in Swarms \cup {None} /\ "success" \in Errors
    BY <1>1, FactoryAssumption DEF CallCached, TypeOK, Errors
  <2> QED
    BY <2>1, HasCallbackGoesOn DEF Working
<1>2. CASE CallUncached(o)
  <2>1. asked'[o] = Swarms /\ 1 \in Swarms
    BY <1>2, FactoryAssumption DEF CallUncached, TypeOK, Swarms
  <2> QED
    BY <2>1 DEF Working
<1>3. ASSUME NEW s \in Swarms, NEW err \in Errors, AnswerHas(o, s, err)
      PROVE  results'[o] # <<>> \/ Working(o)'
  <2>1. CASE HasCallback(o, "success", s)
    <3>1. "success" \in Errors /\ s \in Swarms \cup {None}
      BY DEF Errors
    <3> QED
      BY <2>1, <3>1, HasCallbackGoesOn DEF Working
  <2>2. CASE HasCallback(o, "no_database", None)
    <3>1. "no_database" \in Errors /\ None \in Swarms \cup {None}
      BY DEF Errors
    <3> QED
      BY <2>2, <3>1, HasCallbackGoesOn DEF Working
  <2>3. CASE ~LastAnswer(o)
    <3>1. Frame(o)
      BY <1>3, AnswerHasEffect
    <3>2. asked'[o] # {}
      BY <2>3, <3>1, FS_EmptySet DEF Frame, LastAnswer
    <3> QED
      BY <3>2 DEF Working
  <2> QED
    BY <1>3, <2>1, <2>2, <2>3 DEF AnswerHas
<1>4. CASE AnswerCreated(o)
  <2>1. Callback(o, "success", creating[o]) /\ creating[o] \in Swarms \cup {None}
        /\ "success" \in Errors \cup {"already_exists"}
    BY <1>4 DEF AnswerCreated, TypeOK, Errors
  <2> QED
    BY <2>1, CallbackHeard
<1>5. CASE AnswerCreateFailed(o)
  <2>1. CASE creating[o] > SwarmAt(0)
    <3>1. creating'[o] = SwarmAt(creating[o] - 2)
      BY <1>5, <2>1 DEF AnswerCreateFailed, do_create_db, TypeOK
    <3>2. creating[o] \in Int
      BY FactoryAssumption DEF TypeOK, Swarms, None
    <3>3. creating'[o] # None
      BY <2>1, <3>1, <3>2 DEF SwarmAt, None
    <3> QED
      BY <3>3 DEF Working
  <2>2. CASE ~(creating[o] > SwarmAt(0))
    <3>1. Callback(o, "database_error", None)
          /\ "database_error" \in Errors \cup {"already_exists"}
      BY <1>5, <2>2 DEF AnswerCreateFailed, Errors
    <3> QED
      BY <3>1, CallbackHeard
  <2> QED
    BY <2>1, <2>2
<1> QED
  BY <1>1, <1>2, <1>3, <1>4, <1>5 DEF StepOf, AnsweredHas, AnsweredCreate

\* Where the registry lists a swarm, no operation is ever forgotten: one that has
\* not called back has a request outstanding, however lookups and creations of
\* the same database, their retries and their failures interleave.
THEOREM NoOpForgotten == NumSwarms >= 1 => (Spec => []NeverForgotten)
<1> SUFFICES ASSUME NumSwarms >= 1 PROVE Spec => []NeverForgotten
  OBVIOUS
<1>1. Init => NeverForgotten
  BY DEF Init, NeverForgotten
<1>2. IInv /\ NeverForgotten /\ [Next]_vars => NeverForgotten'
  <2> SUFFICES ASSUME IInv, NeverForgotten, [Next]_vars,
                      NEW p \in Ops, p \in called', results'[p] = <<>>
               PROVE  Working(p)'
    BY DEF NeverForgotten
  <2>1. ASSUME NEW o \in Ops, StepOf(o) PROVE Working(p)'
    <3>1. Frame(o) /\ (UNCHANGED results \/ TrueReport(o))
      BY <2>1, StepEffect
    <3>2. CASE p = o
      BY <2>1, <3>2, StepGoesOn
    <3>3. CASE p # o
      <4>1. results \in [Ops -> Seq(Reports)]
        BY DEF IInv, TypeOK, Reports
      <4>2. results'[p] = results[p]
        BY <3>1, <3>3, <4>1, CallbackAppends DEF TrueReport
      <4>3. p \in called /\ Working(p)
        BY <3>1, <3>3, <4>2 DEF Frame, NeverForgotten
      <4> QED
        BY <3>1, <3>3, <4>3 DEF Frame, Working
    <3> QED
      BY <3>2, <3>3
  <2>2. CASE UNCHANGED vars
    BY <2>2 DEF vars, NeverForgotten, Working
  <2> QED
    BY <2>1, <2>2 DEF Next, StepOf
<1> QED
  BY <1>1, <1>2, Invariance, PTL DEF Spec

\* What an operation that asks or creates still has to hear is a natural number.
LEMMA RemainingType ==
    ASSUME IInv, NEW o \in Ops
    PROVE  /\ Remaining(o) \in Nat
           /\ asked[o] # {} => count[o] \in Nat /\ count[o] >= 1
           /\ creating[o] \in 0 .. NumSwarms
<1>1. count[o] = Cardinality(asked[o]) /\ asked[o] \in SUBSET Swarms
  BY DEF IInv, TypeOK, Counted
<1>2. count[o] \in 0 .. NumSwarms /\ (count[o] = 0 <=> asked[o] = {})
  BY <1>1, AskedCount
<1>3. creating[o] \in 0 .. NumSwarms
  BY FactoryAssumption DEF IInv, TypeOK, Swarms, None
<1> QED
  BY <1>2, <1>3, FactoryAssumption DEF Remaining

\* Every answer of a swarm is progress: has_db is called back a bounded number of
\* times, do_create_db retries with fewer swarms left, and no answer to one
\* operation asks anything anew for it or for another.
THEOREM AnswersAlwaysRunOut == Spec => [][AnswersRunOut]_vars
<1>1. IInv /\ IInv' /\ [Next]_vars => [AnswersRunOut]_vars
  <2> SUFFICES ASSUME IInv, IInv', NEW o \in Ops, StepOf(o) PROVE AnswersRunOut
    BY DEF Next, StepOf
  <2>1. Frame(o)
    BY StepEffect
  <2>2. \A p \in Ops \ {o} : Remaining(p)' = Remaining(p)
    BY <2>1 DEF Frame, Remaining
  <2>3. /\ Remaining(o) \in Nat
        /\ asked[o] # {} => count[o] \in Nat /\ count[o] >= 1
        /\ creating[o] \in 0 .. NumSwarms
    BY RemainingType
  <2>4. creating'[o] \in 0 .. NumSwarms
    BY <2>1, FactoryAssumption DEF Frame, Swarms, None
  <2>5. ASSUME NEW s \in Swarms, NEW err \in Errors, AnswerHas(o, s, err)
        PROVE  Remaining(o)' < Remaining(o)
    <3>1. asked[o] # {} /\ count'[o] = count[o] - 1
      BY <2>5 DEF AnswerHas, IInv, TypeOK
    <3> QED
      BY <2>3, <2>4, <3>1, FactoryAssumption DEF Remaining
  <2>6. CASE AnsweredCreate(o)
    <3>1. creating[o] # None /\ asked[o] = {} /\ asked' = asked
      BY <2>6 DEF AnsweredCreate, AnswerCreated, AnswerCreateFailed, IInv, Phased
    <3>2. creating'[o] \in {None, creating[o] - 1}
      BY <2>3, <2>6 DEF AnsweredCreate, AnswerCreated, AnswerCreateFailed,
                        do_create_db, SwarmAt, IInv, TypeOK
    <3>3. Remaining(o)' = creating'[o] /\ Remaining(o) = creating[o]
      BY <3>1 DEF Remaining
    <3>4. creating'[o] < creating[o]
      BY <2>3, <3>1, <3>2, FactoryAssumption DEF None
    <3> QED
      BY <2>2, <3>3, <3>4 DEF AnswersRunOut
  <2>7. CASE CallCached(o) \/ CallUncached(o)
    BY <2>2, <2>7 DEF CallCached, CallUncached, Begin, AnswersRunOut
  <2> QED
    BY <2>2, <2>5, <2>6, <2>7 DEF StepOf, AnsweredHas, AnswersRunOut
<1> QED
  BY <1>1, Invariance, PTL DEF Spec
=============================================================================
