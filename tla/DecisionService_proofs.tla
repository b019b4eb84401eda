----------------------- MODULE DecisionService_proofs -----------------------
(***************************************************************************)
(* The decision service for any number of threads, requests, candidates    *)
(* and promotions: no request decides under stale knobs, and requests that *)
(* do not overlap get their own decision.                                  *)
(***************************************************************************)
EXTENDS DecisionService, TLAPS

InShadow == {"reuse", "agent", "remember"}

\* A request is under way exactly from its arrival, and one that was compared
\* has candidates.
RequestsAreUnderWay ==
  \A t \in Threads :
    /\ thread[t].pc \in {"lookup", "read", "store", "decide"} =>
         thread[t].request \in Requests \cup {Empty}
    /\ thread[t].pc \in {"reuse", "agent"} => thread[t].request \in Requests

\* Nobody holds a stat of a file that was not written yet.
StatsWereTaken == \A t \in Threads : champion.stamp >= thread[t].stat

\* The cached payload is no older than the stat it is found under.
CacheIsCurrent == cachePayload.stamp >= cacheKey

\* Without overlap one thread at a time is between the cache's two ends.
OneInShadow ==
  overlapped \/ \A t, u \in Threads :
                  thread[t].pc \in InShadow /\ thread[u].pc \in InShadow => t = u

\* Whoever is about to store or to answer holds its own decision.
HoldsItsOwn ==
  \A t \in Threads : thread[t].pc = "remember" => thread[t].decision = Fingerprint(t)

\* Without overlap a thread that reuses the decision finds its own.
ReusesItsOwn ==
  overlapped \/ \A t \in Threads : thread[t].pc = "reuse" => lastDecision = Fingerprint(t)

\* Without overlap the fingerprint kept is that of the decision kept, or of the
\* one about to be.
KeyFitsDecision ==
  \/ overlapped
  \/ lastKey = NoDecision
  \/ \E t \in Threads : thread[t].pc = "remember" /\ lastKey = thread[t].decision
  \/ lastKey = lastDecision /\ \A t \in Threads : thread[t].pc # "remember"

Inv ==
  /\ TypeOK
  /\ RequestsAreUnderWay
  /\ StatsWereTaken
  /\ CacheIsCurrent
  /\ KnobsAreCurrent
  /\ OneInShadow
  /\ HoldsItsOwn
  /\ ReusesItsOwn
  /\ KeyFitsDecision
  /\ AnswersItsRequest

-----------------------------------------------------------------------------
(* Types. *)

LEMMA TypeInit == Init => TypeOK /\ RequestsAreUnderWay
<1> SUFFICES ASSUME Init PROVE TypeOK /\ RequestsAreUnderWay
  OBVIOUS
<1>1. NoFile \in Files /\ NoDecision \in Decisions
  BY DEF Files, Decisions, NoFile, NoDecision
<1>2. Waiting \in Locals
  BY <1>1 DEF Locals, Waiting
<1>3. /\ Waiting.pc = "waiting" /\ Waiting.stat = 0
      /\ NoFile.stamp = 0
  BY DEF Waiting, NoFile
<1>4. thread \in [Threads -> Locals]
  BY <1>2 DEF Init
<1>5. RequestsAreUnderWay
  BY <1>3 DEF Init, RequestsAreUnderWay
<1>6. champion \in Files /\ champion.stamp = 0
  BY <1>1, <1>3 DEF Init
<1>7. TypeOK
  <2>1. champion.stamp <= MaxWrites /\ asked \in 0 .. MaxRequests
    BY <1>6, ServiceAssumption DEF Init
  <2>2. /\ cachePayload \in Files /\ cacheKey \in Nat /\ overlapped \in BOOLEAN
        /\ lastKey = NoDecision /\ lastDecision = NoDecision
    BY <1>1 DEF Init
  <2> QED
    BY <1>1, <1>4, <1>6, <2>1, <2>2 DEF TypeOK
<1> QED
  BY <1>5, <1>7

\* A fingerprint has the type of a decision, and that of a request with
\* candidates is not the absent one.
LEMMA FingerprintType ==
  ASSUME TypeOK, NEW t \in Threads
  PROVE  /\ Fingerprint(t) \in Decisions
         /\ Fingerprint(t).request = thread[t].request
         /\ thread[t].request \in Requests => Fingerprint(t) # NoDecision
BY ServiceAssumption DEF TypeOK, Locals, Files, Decisions, Fingerprint, NoDecision

\* A thread that moves on keeps its type,
LEMMA MovesOn ==
  ASSUME thread \in [Threads -> Locals], NEW t \in Threads,
         NEW p \in {"lookup", "read", "store", "decide", "reuse", "agent", "remember", "respond"}
  PROVE  [thread EXCEPT ![t].pc = p] \in [Threads -> Locals]
<1>1. thread[t] \in Locals
  OBVIOUS
<1>2. [thread[t] EXCEPT !.pc = p] \in Locals
  BY <1>1 DEF Locals
<1> QED
  BY <1>2

\* with the knobs it loaded,
LEMMA MovesOnWithKnobs ==
  ASSUME thread \in [Threads -> Locals], NEW t \in Threads,
         NEW p \in {"lookup", "read", "store", "decide", "reuse", "agent", "remember", "respond"}, NEW v \in Files
  PROVE  [thread EXCEPT ![t].pc = p, ![t].knobs = v] \in [Threads -> Locals]
<1> DEFINE m == [thread[t] EXCEPT !.pc = p]
<1>1. thread[t] \in Locals
  OBVIOUS
<1>2. m \in Locals
  BY <1>1 DEF Locals
<1>3. [m EXCEPT !.knobs = v] \in Locals
  BY <1>2 DEF Locals
<1>4. [thread EXCEPT ![t].pc = p, ![t].knobs = v]
        = [thread EXCEPT ![t] = [m EXCEPT !.knobs = v]]
  OBVIOUS
<1> QED
  BY <1>3, <1>4

\* with the decision it made or reused,
LEMMA MovesOnWithDecision ==
  ASSUME thread \in [Threads -> Locals], NEW t \in Threads,
         NEW p \in {"lookup", "read", "store", "decide", "reuse", "agent", "remember", "respond"}, NEW v \in Decisions
  PROVE  [thread EXCEPT ![t].pc = p, ![t].decision = v] \in [Threads -> Locals]
<1> DEFINE m == [thread[t] EXCEPT !.pc = p]
<1>1. thread[t] \in Locals
  OBVIOUS
<1>2. m \in Locals
  BY <1>1 DEF Locals
<1>3. [m EXCEPT !.decision = v] \in Locals
  BY <1>2 DEF Locals
<1>4. [thread EXCEPT ![t].pc = p, ![t].decision = v]
        = [thread EXCEPT ![t] = [m EXCEPT !.decision = v]]
  OBVIOUS
<1> QED
  BY <1>3, <1>4

\* and with the request it took and what it was told of the file.
LEMMA MovesOnWithRequest ==
  ASSUME thread \in [Threads -> Locals], NEW t \in Threads,
         NEW p \in {"lookup", "decide"},
         NEW r \in Requests \cup {Empty}, NEW n \in Nat
  PROVE  [thread EXCEPT ![t].pc = p, ![t].request = r, ![t].stat = n] \in [Threads -> Locals]
<1> DEFINE m == [thread[t] EXCEPT !.pc = p]
           k == [m EXCEPT !.request = r]
<1>1. thread[t] \in Locals
  OBVIOUS
<1>2. m \in Locals
  BY <1>1 DEF Locals
<1>3. k \in Locals
  BY <1>2 DEF Locals
<1>4. [k EXCEPT !.stat = n] \in Locals
  BY <1>3 DEF Locals
<1>5. [thread EXCEPT ![t].pc = p, ![t].request = r, ![t].stat = n]
        = [thread EXCEPT ![t] = [k EXCEPT !.stat = n]]
  OBVIOUS
<1> QED
  BY <1>4, <1>5

\* The thread that takes a request keeps its type.
LEMMA RequestKeepsType ==
  ASSUME TypeOK, NEW t \in Threads, NEW r \in Requests \cup {Empty}, Request(t, r)
  PROVE  thread' \in [Threads -> Locals]
<1>1. thread \in [Threads -> Locals] /\ champion.stamp \in Nat
  BY DEF TypeOK, Files
<1>2. CASE champion = NoFile
  <2>1. thread' = [thread EXCEPT ![t].pc = "decide", ![t].request = r,
                                 ![t].stat = champion.stamp]
    BY <1>2 DEF Request
  <2>2. [thread EXCEPT ![t].pc = "decide", ![t].request = r, ![t].stat = champion.stamp]
          \in [Threads -> Locals]
    BY <1>1, MovesOnWithRequest
  <2> QED
    BY <2>1, <2>2
<1>3. CASE champion # NoFile
  <2>1. thread' = [thread EXCEPT ![t].pc = "lookup", ![t].request = r,
                                 ![t].stat = champion.stamp]
    BY <1>3 DEF Request
  <2>2. [thread EXCEPT ![t].pc = "lookup", ![t].request = r, ![t].stat = champion.stamp]
          \in [Threads -> Locals]
    BY <1>1, MovesOnWithRequest
  <2> QED
    BY <2>1, <2>2
<1> QED
  BY <1>2, <1>3

LEMMA TypeStep ==
  ASSUME TypeOK, RequestsAreUnderWay, [Next]_vars
  PROVE  TypeOK' /\ RequestsAreUnderWay'
<1> USE ServiceAssumption
<1> USE DEF TypeOK, RequestsAreUnderWay, Locals, caches, ghosts
<1>a. /\ \A f \in Files : f.stamp \in Nat
      /\ NoFile \in Files /\ NoFile.stamp = 0 /\ NoDecision \in Decisions
  BY DEF Files, Decisions, NoFile, NoDecision
<1>b. Waiting \in Locals /\ Waiting.pc = "waiting" /\ Waiting.stat = 0
  BY <1>a DEF Waiting
<1>1. ASSUME NEW t \in Threads, NEW r \in Requests \cup {Empty}, Request(t, r)
      PROVE  TypeOK' /\ RequestsAreUnderWay'
  <2>1. /\ thread[t] = Waiting
        /\ thread'[t].request = r /\ thread'[t].stat = champion.stamp
        /\ thread'[t].pc \in {"decide", "lookup"}
    BY <1>1 DEF Request
  <2>2. thread' \in [Threads -> Locals]
    BY <1>1, RequestKeepsType
  <2>3. \A u \in Threads \ {t} : thread'[u] = thread[u]
    BY <1>1 DEF Request
  <2>4. TypeOK'
    BY <1>1, <1>a, <2>1, <2>2, <2>3 DEF Request
  <2>5. RequestsAreUnderWay'
    BY <2>1, <2>3
  <2> QED
    BY <2>4, <2>5
<1>2. ASSUME NEW t \in Threads, Lookup(t)
      PROVE  TypeOK' /\ RequestsAreUnderWay'
  <2>1. thread' \in [Threads -> Locals]
    <3>1. CASE cacheKey = thread[t].stat /\ cachePayload # NoFile
      <4>1. thread' = [thread EXCEPT ![t].pc = "decide", ![t].knobs = cachePayload]
        BY <1>2, <3>1 DEF Lookup
      <4> QED
        BY <4>1, MovesOnWithKnobs
    <3>2. CASE ~(cacheKey = thread[t].stat /\ cachePayload # NoFile)
      <4>1. thread' = [thread EXCEPT ![t].pc = "read"]
        BY <1>2, <3>2 DEF Lookup
      <4> QED
        BY <4>1, MovesOn
    <3> QED
      BY <3>1, <3>2
  <2>2. \A u \in Threads : /\ thread'[u].request = thread[u].request
                           /\ thread'[u].stat = thread[u].stat
    BY <1>2 DEF Lookup
  <2>3. \A u \in Threads \ {t} : thread'[u] = thread[u]
    BY <1>2 DEF Lookup
  <2>4. thread[t].pc = "lookup" /\ thread'[t].pc \in {"decide", "read"}
    BY <1>2 DEF Lookup
  <2> QED
    BY <1>2, <2>1, <2>2, <2>3, <2>4 DEF Lookup
<1>3. ASSUME NEW t \in Threads, Read(t)
      PROVE  TypeOK' /\ RequestsAreUnderWay'
  <2>1. thread' = [thread EXCEPT ![t].pc = "store", ![t].knobs = champion]
    BY <1>3 DEF Read
  <2>2. thread' \in [Threads -> Locals]
    BY <2>1, MovesOnWithKnobs
  <2>3. RequestsAreUnderWay'
    BY <1>3 DEF Read
  <2> QED
    BY <1>3, <2>2, <2>3 DEF Read
<1>4. ASSUME NEW t \in Threads, Store(t)
      PROVE  TypeOK' /\ RequestsAreUnderWay'
  <2>1. thread' = [thread EXCEPT ![t].pc = "decide"] /\ thread[t].pc = "store"
    BY <1>4 DEF Store, Goes
  <2>2. thread' \in [Threads -> Locals]
    BY <2>1, MovesOn
  <2>3. RequestsAreUnderWay'
    BY <2>1
  <2>4. thread[t].stat \in Nat /\ thread[t].knobs \in Files
    OBVIOUS
  <2> QED
    BY <1>4, <2>2, <2>3, <2>4 DEF Store
<1>5. ASSUME NEW t \in Threads, NoEdge(t)
      PROVE  TypeOK' /\ RequestsAreUnderWay'
  <2>1. Fingerprint(t) \in Decisions
    BY FingerprintType
  <2>2. thread' = [thread EXCEPT ![t].pc = "remember", ![t].decision = Fingerprint(t)]
    BY <1>5 DEF NoEdge
  <2>3. thread' \in [Threads -> Locals]
    BY <2>1, <2>2, MovesOnWithDecision
  <2>4. RequestsAreUnderWay'
    BY <2>2
  <2>5. overlapped' \in BOOLEAN
    BY <1>5 DEF NoEdge, Enters
  <2> QED
    BY <1>5, <1>a, <2>3, <2>4, <2>5 DEF NoEdge, Enters
<1>6. ASSUME NEW t \in Threads, Compare(t)
      PROVE  TypeOK' /\ RequestsAreUnderWay'
  <2>1. PICK p \in {"reuse", "agent"} : thread' = [thread EXCEPT ![t].pc = p]
    BY <1>6 DEF Compare, Goes
  <2>2. thread' \in [Threads -> Locals]
    BY <2>1, MovesOn
  <2>3. RequestsAreUnderWay'
    <3>1. thread[t].request \in Requests
      BY <1>6 DEF Compare, Enters
    <3> QED
      BY <2>1, <3>1
  <2>4. overlapped' \in BOOLEAN
    BY <1>6 DEF Compare, Enters
  <2> QED
    BY <1>6, <2>2, <2>3, <2>4 DEF Compare, Enters
<1>7. ASSUME NEW t \in Threads, Reuse(t)
      PROVE  TypeOK' /\ RequestsAreUnderWay'
  <2>1. thread' = [thread EXCEPT ![t].pc = "respond", ![t].decision = lastDecision]
    BY <1>7 DEF Reuse
  <2>2. thread' \in [Threads -> Locals]
    BY <2>1, MovesOnWithDecision
  <2>3. RequestsAreUnderWay'
    BY <2>1
  <2> QED
    BY <1>7, <2>2, <2>3 DEF Reuse
<1>8. ASSUME NEW t \in Threads, AgentFails(t)
      PROVE  TypeOK' /\ RequestsAreUnderWay'
  <2>1. thread' = [thread EXCEPT ![t].pc = "respond", ![t].decision = Fingerprint(t)]
    BY <1>8 DEF AgentFails
  <2>2. thread' \in [Threads -> Locals]
    BY <2>1, FingerprintType, MovesOnWithDecision
  <2>3. RequestsAreUnderWay'
    BY <2>1
  <2> QED
    BY <1>8, <2>2, <2>3 DEF AgentFails
<1>9. ASSUME NEW t \in Threads, AgentDecides(t)
      PROVE  TypeOK' /\ RequestsAreUnderWay'
  <2>1. thread' = [thread EXCEPT ![t].pc = "remember", ![t].decision = Fingerprint(t)]
    BY <1>9 DEF AgentDecides
  <2>2. thread' \in [Threads -> Locals]
    BY <2>1, FingerprintType, MovesOnWithDecision
  <2>3. RequestsAreUnderWay'
    BY <2>1
  <2>4. lastKey' \in Decisions /\ lastKey'.request \in Requests
    BY <1>9, FingerprintType DEF AgentDecides
  <2> QED
    BY <1>9, <2>2, <2>3, <2>4 DEF AgentDecides
<1>10. ASSUME NEW t \in Threads, Remember(t)
      PROVE  TypeOK' /\ RequestsAreUnderWay'
  <2>1. thread' = [thread EXCEPT ![t].pc = "respond"]
    BY <1>10 DEF Remember, Goes
  <2>2. thread' \in [Threads -> Locals]
    BY <2>1, MovesOn
  <2>3. RequestsAreUnderWay'
    BY <2>1
  <2> QED
    BY <1>10, <2>2, <2>3 DEF Remember
<1>11. ASSUME NEW t \in Threads, Respond(t)
      PROVE  TypeOK' /\ RequestsAreUnderWay'
  BY <1>11, <1>b DEF Respond
<1>12. ASSUME NEW c \in Candidates, ChampionReplaced(c)
      PROVE  TypeOK' /\ RequestsAreUnderWay'
  <2>1. champion' \in Files /\ champion'.stamp = champion.stamp + 1
    BY <1>12 DEF ChampionReplaced, Files
  <2> QED
    BY <1>12, <1>a, <2>1 DEF ChampionReplaced
<1>13. CASE Restart
  <2>1. thread' \in [Threads -> Locals]
    BY <1>13, <1>b DEF Restart
  <2>2. TypeOK'
    BY <1>13, <1>a, <2>1 DEF Restart
  <2>3. RequestsAreUnderWay'
    BY <1>13, <1>b DEF Restart
  <2> QED
    BY <2>2, <2>3
<1>14. CASE UNCHANGED vars
  BY <1>14 DEF vars
<1> QED
  BY <1>1, <1>2, <1>3, <1>4, <1>5, <1>6, <1>7, <1>8, <1>9, <1>10, <1>11, <1>12, <1>13, <1>14
     DEF Next
-----------------------------------------------------------------------------
(* Knobs. *)

KnobsInv == StatsWereTaken /\ CacheIsCurrent /\ KnobsAreCurrent

LEMMA KnobsInit == Init => KnobsInv
<1> SUFFICES ASSUME Init PROVE KnobsInv
  OBVIOUS
<1>1. /\ champion.stamp = 0 /\ cachePayload.stamp = 0 /\ cacheKey = 0
      /\ Waiting.pc = "waiting" /\ Waiting.stat = 0
  BY DEF Init, NoFile, Waiting
<1>2. ASSUME NEW t \in Threads
      PROVE  /\ champion.stamp >= thread[t].stat
             /\ thread[t].pc = "waiting"
  <2>1. thread[t] = Waiting
    BY <1>2 DEF Init
  <2> QED
    BY <1>1, <2>1
<1> QED
  BY <1>1, <1>2 DEF KnobsInv, StatsWereTaken, CacheIsCurrent, KnobsAreCurrent

\* What a step means for one thread u, and for the cache.
LEMMA KnobsStep ==
  ASSUME TypeOK, KnobsInv, [Next]_vars
  PROVE  KnobsInv'
<1> DEFINE Late(pc) == pc \notin {"waiting", "lookup", "read"}
           Fine(u) == /\ champion'.stamp >= thread'[u].stat
                      /\ Late(thread'[u].pc) => thread'[u].knobs.stamp >= thread'[u].stat
           Goal == (\A u \in Threads : Fine(u)) /\ cachePayload'.stamp >= cacheKey'
<1> SUFFICES Goal
  BY DEF KnobsInv, StatsWereTaken, CacheIsCurrent, KnobsAreCurrent
<1>a. /\ champion.stamp \in Nat /\ cachePayload.stamp \in Nat /\ cacheKey \in Nat
      /\ cachePayload.stamp >= cacheKey
  BY DEF TypeOK, Files, KnobsInv, CacheIsCurrent
<1>b. ASSUME NEW u \in Threads
      PROVE  /\ thread[u].stat \in Nat /\ thread[u].knobs.stamp \in Nat
             /\ champion.stamp >= thread[u].stat
             /\ Late(thread[u].pc) => thread[u].knobs.stamp >= thread[u].stat
  BY <1>b DEF TypeOK, Locals, Files, KnobsInv, StatsWereTaken, KnobsAreCurrent
\* Most steps leave the files, the stats and the knobs alone.
<1>c. ASSUME UNCHANGED <<champion, cacheKey, cachePayload>>,
             \A u \in Threads : /\ thread'[u].stat = thread[u].stat
                                /\ thread'[u].knobs = thread[u].knobs
                                /\ Late(thread'[u].pc) => Late(thread[u].pc)
      PROVE  Goal
  <2>1. ASSUME NEW u \in Threads PROVE Fine(u)
    BY <1>b, <1>c, <2>1
  <2> QED
    BY <1>a, <1>c, <2>1
<1> USE DEF TypeOK
<1>1. ASSUME NEW t \in Threads, NEW r \in Requests \cup {Empty}, Request(t, r)
      PROVE  Goal
  <2>1. Fine(t)
    <3>1. thread'[t].stat = champion.stamp /\ thread'[t].knobs = NoFile
      BY <1>1 DEF Request, Waiting, Locals
    <3>2. Late(thread'[t].pc) => champion = NoFile
      BY <1>1 DEF Request, Locals
    <3> QED
      BY <1>1, <1>a, <3>1, <3>2 DEF Request, NoFile
  <2>2. ASSUME NEW u \in Threads, u # t PROVE Fine(u)
    <3>1. thread'[u] = thread[u] /\ champion' = champion
      BY <1>1, <2>2 DEF Request
    <3> QED
      BY <1>b, <3>1
  <2>3. cachePayload'.stamp >= cacheKey'
    BY <1>1, <1>a DEF Request, NoFile
  <2> QED
    BY <2>1, <2>2, <2>3
<1>2. ASSUME NEW t \in Threads, Lookup(t)
      PROVE  Goal
  <2>1. Fine(t)
    BY <1>2, <1>a, <1>b DEF Lookup, Locals
  <2>2. ASSUME NEW u \in Threads, u # t PROVE Fine(u)
    <3>1. thread'[u] = thread[u] /\ champion' = champion
      BY <1>2, <2>2 DEF Lookup
    <3> QED
      BY <1>b, <3>1
  <2> QED
    BY <1>2, <1>a, <2>1, <2>2 DEF Lookup, caches
<1>3. ASSUME NEW t \in Threads, Read(t)
      PROVE  Goal
  <2>1. Fine(t)
    BY <1>3, <1>a, <1>b DEF Read, Locals
  <2>2. ASSUME NEW u \in Threads, u # t PROVE Fine(u)
    <3>1. thread'[u] = thread[u] /\ champion' = champion
      BY <1>3, <2>2 DEF Read
    <3> QED
      BY <1>b, <3>1
  <2> QED
    BY <1>3, <1>a, <2>1, <2>2 DEF Read, caches
<1>4. ASSUME NEW t \in Threads, Store(t)
      PROVE  Goal
  <2>1. cachePayload'.stamp >= cacheKey'
    BY <1>4, <1>b DEF Store
  <2>2. ASSUME NEW u \in Threads PROVE Fine(u)
    <3>1. /\ thread'[u].stat = thread[u].stat /\ thread'[u].knobs = thread[u].knobs
          /\ Late(thread'[u].pc) => Late(thread[u].pc)
          /\ champion' = champion
      BY <1>4, <2>2 DEF Store, Goes, Locals
    <3> QED
      BY <1>b, <3>1
  <2> QED
    BY <2>1, <2>2
<1>5. ASSUME NEW t \in Threads, NoEdge(t)
      PROVE  Goal
  BY <1>5, <1>c DEF NoEdge, Enters, Locals
<1>6. ASSUME NEW t \in Threads, Compare(t)
      PROVE  Goal
  BY <1>6, <1>c DEF Compare, Enters, Goes, Locals, caches
<1>7. ASSUME NEW t \in Threads, Reuse(t)
      PROVE  Goal
  BY <1>7, <1>c DEF Reuse, Locals, caches
<1>8. ASSUME NEW t \in Threads, AgentFails(t)
      PROVE  Goal
  BY <1>8, <1>c DEF AgentFails, Locals, caches
<1>9. ASSUME NEW t \in Threads, AgentDecides(t)
      PROVE  Goal
  BY <1>9, <1>c DEF AgentDecides, Locals
<1>10. ASSUME NEW t \in Threads, Remember(t)
      PROVE  Goal
  BY <1>10, <1>c DEF Remember, Goes, Locals
<1>11. ASSUME NEW t \in Threads, Respond(t)
      PROVE  Goal
  <2>1. Fine(t)
    BY <1>11, <1>a DEF Respond, Waiting, Locals
  <2>2. ASSUME NEW u \in Threads, u # t PROVE Fine(u)
    <3>1. thread'[u] = thread[u] /\ champion' = champion
      BY <1>11, <2>2 DEF Respond
    <3> QED
      BY <1>b, <3>1
  <2> QED
    BY <1>11, <1>a, <2>1, <2>2 DEF Respond, caches
<1>12. ASSUME NEW c \in Candidates, ChampionReplaced(c)
      PROVE  Goal
  <2>1. ASSUME NEW u \in Threads PROVE Fine(u)
    <3>1. thread'[u] = thread[u] /\ champion'.stamp = champion.stamp + 1
      BY <1>12, <2>1 DEF ChampionReplaced
    <3> QED
      BY <1>a, <1>b, <3>1
  <2> QED
    BY <1>12, <1>a, <2>1 DEF ChampionReplaced, caches
<1>13. CASE Restart
  <2>1. ASSUME NEW u \in Threads PROVE Fine(u)
    <3>1. thread'[u] = Waiting /\ champion' = champion
      BY <1>13, <2>1 DEF Restart
    <3> QED
      BY <1>a, <3>1 DEF Waiting
  <2> QED
    BY <1>13, <2>1 DEF Restart, NoFile
<1>14. CASE UNCHANGED vars
  BY <1>14, <1>c DEF vars
<1> QED
  BY <1>1, <1>2, <1>3, <1>4, <1>5, <1>6, <1>7, <1>8, <1>9, <1>10, <1>11, <1>12, <1>13, <1>14
     DEF Next
-----------------------------------------------------------------------------
(* Decisions. *)

ShadowInv == OneInShadow /\ HoldsItsOwn /\ ReusesItsOwn /\ KeyFitsDecision /\ AnswersItsRequest

LEMMA ShadowInit == Init => ShadowInv
<1> SUFFICES ASSUME Init PROVE ShadowInv
  OBVIOUS
<1>1. \A t \in Threads : thread[t].pc = "waiting"
  BY DEF Init, Waiting
<1> QED
  BY <1>1 DEF Init, InShadow, ShadowInv, OneInShadow, HoldsItsOwn, ReusesItsOwn,
     KeyFitsDecision, AnswersItsRequest

\* What thread t does in the shadow, by the field: every other thread is left
\* alone, and t's request and knobs are.
Moves(t, to) ==
  /\ \A u \in Threads \ {t} : thread'[u] = thread[u]
  /\ thread'[t].pc = to
  /\ thread'[t].request = thread[t].request /\ thread'[t].knobs = thread[t].knobs

LEMMA FingerprintsStay ==
  ASSUME NEW t \in Threads, NEW to, Moves(t, to), NEW u \in Threads
  PROVE  Fingerprint(u)' = Fingerprint(u)
<1>1. thread'[u].request = thread[u].request /\ thread'[u].knobs = thread[u].knobs
  BY DEF Moves
<1> QED
  BY <1>1 DEF Fingerprint

\* Without overlap whoever enters the shadow finds nobody there.
LEMMA EntersAlone ==
  ASSUME TypeOK, NEW t \in Threads, Enters(t), ~overlapped'
  PROVE  ~overlapped /\ \A u \in Threads : thread[u].pc \notin InShadow
BY DEF Enters, InShadow

LEMMA ShadowStep ==
  ASSUME TypeOK, RequestsAreUnderWay, ShadowInv, [Next]_vars
  PROVE  ShadowInv'
<1>a. /\ HoldsItsOwn
      /\ overlapped \/ (OneInShadow /\ ReusesItsOwn /\ KeyFitsDecision /\ AnswersItsRequest)
  BY DEF ShadowInv
\* Most steps outside the shadow leave all of it alone.
<1>b. ASSUME UNCHANGED <<lastKey, lastDecision, overlapped>>,
             \A u \in Threads :
               \/ thread'[u] = thread[u]
               \/ /\ thread[u].pc \notin InShadow
                  /\ thread'[u].pc \notin InShadow \cup {"respond"}
      PROVE  ShadowInv'
  <2>1. \A u \in Threads : thread'[u] = thread[u] => Fingerprint(u)' = Fingerprint(u)
    BY DEF Fingerprint
  <2>2. \A u \in Threads : thread'[u].pc \in InShadow \cup {"respond"} => thread'[u] = thread[u]
    BY <1>b
  <2>3. \A u \in Threads : thread[u].pc \in InShadow => thread'[u] = thread[u]
    BY <1>b
  <2>4. OneInShadow'
    BY <1>b, <2>2, <1>a DEF OneInShadow
  <2>5. HoldsItsOwn'
    BY <2>1, <2>2, <1>a DEF HoldsItsOwn, InShadow
  <2>6. ReusesItsOwn'
    BY <1>b, <2>1, <2>2, <1>a DEF ReusesItsOwn, InShadow
  <2>7. KeyFitsDecision'
    BY <1>b, <2>2, <2>3, <1>a DEF KeyFitsDecision, InShadow
  <2>8. AnswersItsRequest'
    BY <1>b, <2>1, <2>2, <1>a DEF AnswersItsRequest
  <2> QED
    BY <2>4, <2>5, <2>6, <2>7, <2>8 DEF ShadowInv
<1> USE DEF TypeOK, Locals
<1>1. ASSUME NEW t \in Threads, NEW r \in Requests \cup {Empty}, Request(t, r)
      PROVE  ShadowInv'
  BY <1>1, <1>b DEF Request, Waiting, InShadow
<1>2. ASSUME NEW t \in Threads, Lookup(t)
      PROVE  ShadowInv'
  BY <1>2, <1>b DEF Lookup, InShadow, caches, ghosts
<1>3. ASSUME NEW t \in Threads, Read(t)
      PROVE  ShadowInv'
  BY <1>3, <1>b DEF Read, InShadow, caches, ghosts
<1>4. ASSUME NEW t \in Threads, Store(t)
      PROVE  ShadowInv'
  BY <1>4, <1>b DEF Store, Goes, InShadow, ghosts
<1>5. ASSUME NEW t \in Threads, NoEdge(t)
      PROVE  ShadowInv'
  <2>1. /\ Moves(t, "remember") /\ thread'[t].decision = Fingerprint(t)
        /\ lastKey' = NoDecision /\ Enters(t)
    BY <1>5 DEF NoEdge, Moves
  <2>2. \A u \in Threads : Fingerprint(u)' = Fingerprint(u)
    BY <2>1, FingerprintsStay
  <2>3. HoldsItsOwn'
    BY <2>1, <2>2, <1>a DEF HoldsItsOwn, Moves
  <2>4. CASE overlapped'
    BY <2>3, <2>4 DEF ShadowInv, OneInShadow, ReusesItsOwn, KeyFitsDecision, AnswersItsRequest
  <2>5. CASE ~overlapped'
    <3>1. ~overlapped /\ \A u \in Threads : thread[u].pc \notin InShadow
      BY <2>1, <2>5, EntersAlone
    <3>2. OneInShadow'
      BY <2>1, <3>1 DEF OneInShadow, Moves
    <3>3. ReusesItsOwn'
      BY <2>1, <3>1 DEF ReusesItsOwn, Moves, InShadow
    <3>4. KeyFitsDecision'
      BY <2>1 DEF KeyFitsDecision
    <3>5. AnswersItsRequest'
      BY <2>1, <2>2, <3>1, <1>a DEF AnswersItsRequest, Moves
    <3> QED
      BY <2>3, <3>2, <3>3, <3>4, <3>5 DEF ShadowInv
  <2> QED
    BY <2>4, <2>5
<1>6. ASSUME NEW t \in Threads, Compare(t)
      PROVE  ShadowInv'
  <2> DEFINE to == IF lastDecision # NoDecision /\ lastKey = Fingerprint(t) THEN "reuse" ELSE "agent"
  <2>1. /\ Moves(t, to) /\ thread[t].request \in Requests /\ Enters(t)
        /\ lastKey' = lastKey /\ lastDecision' = lastDecision
    BY <1>6 DEF Compare, Enters, Goes, Moves, caches, RequestsAreUnderWay
  <2>2. \A u \in Threads : Fingerprint(u)' = Fingerprint(u)
    BY <2>1, FingerprintsStay
  <2>3. to \in {"reuse", "agent"} /\ (to = "reuse" => lastKey = Fingerprint(t))
    OBVIOUS
  <2> HIDE DEF to
  <2>4. HoldsItsOwn'
    BY <2>1, <2>2, <2>3, <1>a DEF HoldsItsOwn, Moves
  <2>5. CASE overlapped'
    BY <2>4, <2>5 DEF ShadowInv, OneInShadow, ReusesItsOwn, KeyFitsDecision, AnswersItsRequest
  <2>6. CASE ~overlapped'
    <3>1. ~overlapped /\ \A u \in Threads : thread[u].pc \notin InShadow
      BY <2>1, <2>6, EntersAlone
    <3>2. lastKey = NoDecision \/ lastKey = lastDecision
      BY <3>1, <1>a DEF KeyFitsDecision, InShadow
    <3>3. OneInShadow'
      BY <2>1, <3>1 DEF OneInShadow, Moves
    <3>4. ReusesItsOwn'
      <4>1. to = "reuse" => lastDecision = Fingerprint(t)
        BY <2>1, <2>3, <3>2, FingerprintType
      <4> QED
        BY <2>1, <2>2, <3>1, <4>1 DEF ReusesItsOwn, Moves, InShadow
    <3>5. KeyFitsDecision'
      BY <2>1, <2>3, <3>1, <3>2 DEF KeyFitsDecision, Moves, InShadow
    <3>6. AnswersItsRequest'
      BY <2>1, <2>2, <2>3, <3>1, <1>a DEF AnswersItsRequest, Moves
    <3> QED
      BY <2>4, <3>3, <3>4, <3>5, <3>6 DEF ShadowInv
  <2> QED
    BY <2>5, <2>6
<1>7. ASSUME NEW t \in Threads, Reuse(t)
      PROVE  ShadowInv'
  <2>1. /\ Moves(t, "respond") /\ thread'[t].decision = lastDecision /\ thread[t].pc = "reuse"
        /\ lastKey' = lastKey /\ lastDecision' = lastDecision /\ overlapped' = overlapped
    BY <1>7 DEF Reuse, Moves, caches, ghosts
  <2>2. \A u \in Threads : Fingerprint(u)' = Fingerprint(u)
    BY <2>1, FingerprintsStay
  <2>3. HoldsItsOwn'
    BY <2>1, <2>2, <1>a DEF HoldsItsOwn, Moves
  <2>4. OneInShadow'
    BY <2>1, <1>a DEF OneInShadow, Moves, InShadow
  <2>5. ReusesItsOwn'
    BY <2>1, <2>2, <1>a DEF ReusesItsOwn, Moves
  <2>6. KeyFitsDecision'
    BY <2>1, <1>a DEF KeyFitsDecision, Moves
  <2>7. AnswersItsRequest'
    BY <2>1, <2>2, <1>a DEF AnswersItsRequest, ReusesItsOwn, Moves
  <2> QED
    BY <2>3, <2>4, <2>5, <2>6, <2>7 DEF ShadowInv
<1>8. ASSUME NEW t \in Threads, AgentFails(t)
      PROVE  ShadowInv'
  <2>1. /\ Moves(t, "respond") /\ thread'[t].decision = Fingerprint(t) /\ thread[t].pc = "agent"
        /\ lastKey' = lastKey /\ lastDecision' = lastDecision /\ overlapped' = overlapped
    BY <1>8 DEF AgentFails, Moves, caches, ghosts
  <2>2. \A u \in Threads : Fingerprint(u)' = Fingerprint(u)
    BY <2>1, FingerprintsStay
  <2>3. HoldsItsOwn'
    BY <2>1, <2>2, <1>a DEF HoldsItsOwn, Moves
  <2>4. OneInShadow'
    BY <2>1, <1>a DEF OneInShadow, Moves, InShadow
  <2>5. ReusesItsOwn'
    BY <2>1, <2>2, <1>a DEF ReusesItsOwn, Moves
  <2>6. KeyFitsDecision'
    BY <2>1, <1>a DEF KeyFitsDecision, Moves
  <2>7. AnswersItsRequest'
    BY <2>1, <2>2, <1>a DEF AnswersItsRequest, Moves
  <2> QED
    BY <2>3, <2>4, <2>5, <2>6, <2>7 DEF ShadowInv
<1>9. ASSUME NEW t \in Threads, AgentDecides(t)
      PROVE  ShadowInv'
  <2>1. /\ Moves(t, "remember") /\ thread'[t].decision = Fingerprint(t) /\ thread[t].pc = "agent"
        /\ lastKey' = Fingerprint(t) /\ lastDecision' = lastDecision /\ overlapped' = overlapped
    BY <1>9 DEF AgentDecides, Moves, ghosts
  <2>2. \A u \in Threads : Fingerprint(u)' = Fingerprint(u)
    BY <2>1, FingerprintsStay
  <2>3. HoldsItsOwn'
    BY <2>1, <2>2, <1>a DEF HoldsItsOwn, Moves
  <2>4. OneInShadow'
    BY <2>1, <1>a DEF OneInShadow, Moves, InShadow
  <2>5. ReusesItsOwn'
    BY <2>1, <2>2, <1>a DEF ReusesItsOwn, Moves
  <2>6. KeyFitsDecision'
    BY <2>1 DEF KeyFitsDecision, Moves
  <2>7. AnswersItsRequest'
    BY <2>1, <2>2, <1>a DEF AnswersItsRequest, Moves
  <2> QED
    BY <2>3, <2>4, <2>5, <2>6, <2>7 DEF ShadowInv
<1>10. ASSUME NEW t \in Threads, Remember(t)
      PROVE  ShadowInv'
  <2>1. /\ Moves(t, "respond") /\ thread'[t].decision = thread[t].decision
        /\ thread[t].pc = "remember"
        /\ lastKey' = lastKey /\ lastDecision' = thread[t].decision /\ overlapped' = overlapped
    BY <1>10 DEF Remember, Goes, Moves, ghosts
  <2>2. \A u \in Threads : Fingerprint(u)' = Fingerprint(u)
    BY <2>1, FingerprintsStay
  <2>3. HoldsItsOwn'
    BY <2>1, <2>2, <1>a DEF HoldsItsOwn, Moves
  \* Without overlap t is alone in the shadow.
  <2>4. overlapped \/ \A u \in Threads : thread'[u].pc \notin InShadow
    BY <2>1, <1>a DEF OneInShadow, Moves, InShadow
  <2>5. OneInShadow' /\ ReusesItsOwn'
    BY <2>1, <2>4 DEF OneInShadow, ReusesItsOwn, InShadow
  <2>6. KeyFitsDecision'
    <3>1. overlapped \/ lastKey = NoDecision \/ lastKey = thread[t].decision
      BY <2>1, <1>a DEF KeyFitsDecision, OneInShadow, InShadow
    <3> QED
      BY <2>1, <2>4, <3>1 DEF KeyFitsDecision, InShadow
  <2>7. AnswersItsRequest'
    BY <2>1, <2>2, <1>a DEF AnswersItsRequest, HoldsItsOwn, Moves
  <2> QED
    BY <2>3, <2>5, <2>6, <2>7 DEF ShadowInv
<1>11. ASSUME NEW t \in Threads, Respond(t)
      PROVE  ShadowInv'
  BY <1>11, <1>b DEF Respond, Waiting, InShadow, caches, ghosts
<1>12. ASSUME NEW c \in Candidates, ChampionReplaced(c)
      PROVE  ShadowInv'
  BY <1>12, <1>b DEF ChampionReplaced, caches, ghosts
<1>13. CASE Restart
  <2>1. lastKey' = NoDecision /\ \A u \in Threads : thread'[u].pc = "waiting"
    BY <1>13 DEF Restart, Waiting
  <2> QED
    BY <2>1 DEF ShadowInv, OneInShadow, HoldsItsOwn, ReusesItsOwn, KeyFitsDecision,
       AnswersItsRequest, InShadow
<1>14. CASE UNCHANGED vars
  BY <1>14, <1>b DEF vars
<1> QED
  BY <1>1, <1>2, <1>3, <1>4, <1>5, <1>6, <1>7, <1>8, <1>9, <1>10, <1>11, <1>12, <1>13, <1>14
     DEF Next

-----------------------------------------------------------------------------
(* The theorems. *)

LEMMA Invariant == Spec => []Inv
<1> USE DEF Inv, KnobsInv, ShadowInv
<1>1. Init => Inv
  BY TypeInit, KnobsInit, ShadowInit
<1>2. Inv /\ [Next]_vars => Inv'
  BY TypeStep, KnobsStep, ShadowStep
<1> QED
  BY <1>1, <1>2, PTL DEF Spec

\* The service's variables keep their types (decisions/champion.py,
\* decisions/shadow.py).
THEOREM TypeCorrect == Spec => []TypeOK
<1>1. Inv => TypeOK
  BY DEF Inv
<1> QED
  BY <1>1, Invariant, PTL

\* No request decides under knobs older than the champion.json in place when
\* it arrived, for any number of threads and promotions (_load_payload).
THEOREM KnobsAlwaysCurrent == Spec => []KnobsAreCurrent
<1>1. Inv => KnobsAreCurrent
  BY DEF Inv
<1> QED
  BY <1>1, Invariant, PTL

\* Requests that do not overlap get the decision made for their own
\* fingerprint, for any number of threads and requests (decide_shadow_tick).
THEOREM AlwaysAnswersItsRequest == Spec => []AnswersItsRequest
<1>1. Inv => AnswersItsRequest
  BY DEF Inv
<1> QED
  BY <1>1, Invariant, PTL
=============================================================================
