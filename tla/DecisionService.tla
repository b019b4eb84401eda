-------------------------- MODULE DecisionService --------------------------
(***************************************************************************)
(* POST /v1/decision on a threading HTTP server.  A request loads the      *)
(* champion's knobs through a cache that is keyed by what stat says of the *)
(* file and guarded by a lock for each look and each store; then it asks   *)
(* decide_shadow_tick, which keeps the last decision and the fingerprint   *)
(* it was made for in two globals, under no lock.                          *)
(*                                                                         *)
(* A request is what its candidates and context hash to, or Empty when it  *)
(* has no candidates.  The knobs are part of the fingerprint: they cap the *)
(* size and add vetoes.  A decision is the fingerprint it was made for.    *)
(* The two reads of the cached decision and the two writes are steps: a    *)
(* thread may be switched between any two.  champion.json is replaced by   *)
(* other processes (Promotion) at any moment; a new file has a new stat.   *)
(***************************************************************************)
EXTENDS Integers

CONSTANTS
  Threads, Requests, Empty, None,
  Candidates,       \* what may be promoted
  MaxRequests, MaxWrites       \* bounds

VARIABLES
  champion,         \* champion.json: the candidate, and what stat tells of it
  cacheKey, cachePayload,       \* decisions/champion.py
  lastKey, lastDecision,        \* decisions/shadow.py
  thread,           \* per thread: pc and locals
  asked,            \* requests so far
  overlapped        \* history: two requests were in decide_shadow_tick at once

vars == <<champion, cacheKey, cachePayload, lastKey, lastDecision, thread, asked, overlapped>>

NoFile == [id |-> None, stamp |-> 0]
NoDecision == [request |-> None, knobs |-> None]
Waiting == [pc |-> "waiting", request |-> None, stat |-> 0, knobs |-> NoFile,
            decision |-> NoDecision]

ASSUME ServiceAssumption ==
  /\ Empty \notin Requests /\ None \notin Requests \cup {Empty} \cup Candidates
  /\ MaxRequests \in Nat /\ MaxWrites \in Nat

Init ==
  /\ champion = NoFile
  /\ cacheKey = 0 /\ cachePayload = NoFile
  /\ lastKey = NoDecision /\ lastDecision = NoDecision
  /\ thread = [t \in Threads |-> Waiting]
  /\ asked = 0
  /\ overlapped = FALSE

caches == <<cacheKey, cachePayload, lastKey, lastDecision>>
ghosts == <<asked, overlapped>>

\* _write_champion, in another process.
ChampionReplaced(c) ==
  /\ champion.stamp < MaxWrites
  /\ champion' = [id |-> c, stamp |-> champion.stamp + 1]
  /\ UNCHANGED <<caches, thread, ghosts>>

Goes(t, pc) == thread' = [thread EXCEPT ![t].pc = pc]

-----------------------------------------------------------------------------
(* _load_payload. *)

\* A request arrives and stats the file; without one the cache is emptied.
Request(t, r) ==
  /\ thread[t] = Waiting /\ asked < MaxRequests
  /\ asked' = asked + 1
  /\ thread' = [thread EXCEPT ![t].pc = IF champion = NoFile THEN "decide" ELSE "lookup",
                              ![t].request = r, ![t].stat = champion.stamp]
  /\ IF champion = NoFile
       THEN cacheKey' = 0 /\ cachePayload' = NoFile
       ELSE UNCHANGED <<cacheKey, cachePayload>>
  /\ UNCHANGED <<champion, lastKey, lastDecision, overlapped>>

\* Under the lock: is the payload cached for this stat?
Lookup(t) ==
  /\ thread[t].pc = "lookup"
  /\ thread' = IF cacheKey = thread[t].stat /\ cachePayload # NoFile
                 THEN [thread EXCEPT ![t].pc = "decide", ![t].knobs = cachePayload]
                 ELSE [thread EXCEPT ![t].pc = "read"]
  /\ UNCHANGED <<champion, caches, ghosts>>

Read(t) ==
  /\ thread[t].pc = "read"
  /\ thread' = [thread EXCEPT ![t].pc = "store", ![t].knobs = champion]
  /\ UNCHANGED <<champion, caches, ghosts>>

\* Mutant: the payload is stored under what stat says after it was read.
StoreRestatted(t) ==
  /\ thread[t].pc = "store"
  /\ cacheKey' = champion.stamp /\ cachePayload' = thread[t].knobs
  /\ Goes(t, "decide")
  /\ UNCHANGED <<champion, lastKey, lastDecision, ghosts>>

\* Under the lock: the payload is stored under the stat taken before it was read.
Store(t) ==
  /\ thread[t].pc = "store"
  /\ cacheKey' = thread[t].stat /\ cachePayload' = thread[t].knobs
  /\ Goes(t, "decide")
  /\ UNCHANGED <<champion, lastKey, lastDecision, ghosts>>

-----------------------------------------------------------------------------
(* decide_shadow_tick. *)

Fingerprint(t) ==
  [request |-> thread[t].request,
   knobs |-> IF thread[t].request = Empty THEN None ELSE thread[t].knobs.id]

\* Thread t enters decide_shadow_tick.
Enters(t) ==
  /\ thread[t].pc = "decide"
  /\ overlapped' = (overlapped \/
       \E u \in Threads \ {t} : thread[u].pc \in {"reuse", "agent", "remember"})
  /\ UNCHANGED <<champion, asked>>

\* Mutant: the fingerprint is left.
NoEdgeKeepsKey(t) ==
  /\ Enters(t) /\ thread[t].request = Empty
  /\ thread' = [thread EXCEPT ![t].pc = "remember", ![t].decision = Fingerprint(t)]
  /\ UNCHANGED caches

\* No candidates: the fingerprint is cleared, then the decision replaced.
NoEdge(t) ==
  /\ Enters(t) /\ thread[t].request = Empty
  /\ lastKey' = NoDecision
  /\ thread' = [thread EXCEPT ![t].pc = "remember", ![t].decision = Fingerprint(t)]
  /\ UNCHANGED <<cacheKey, cachePayload, lastDecision>>

\* An unchanged fingerprint reuses the decision, a changed one asks the agent.
Compare(t) ==
  /\ Enters(t) /\ thread[t].request # Empty
  /\ Goes(t, IF lastDecision # NoDecision /\ lastKey = Fingerprint(t) THEN "reuse" ELSE "agent")
  /\ UNCHANGED caches

Reuse(t) ==
  /\ thread[t].pc = "reuse"
  /\ thread' = [thread EXCEPT ![t].pc = "respond", ![t].decision = lastDecision]
  /\ UNCHANGED <<champion, caches, ghosts>>

\* The agent fails: ABSTAIN, and nothing is kept.
AgentFails(t) ==
  /\ thread[t].pc = "agent"
  /\ thread' = [thread EXCEPT ![t].pc = "respond", ![t].decision = Fingerprint(t)]
  /\ UNCHANGED <<champion, caches, ghosts>>

AgentDecides(t) ==
  /\ thread[t].pc = "agent"
  /\ thread' = [thread EXCEPT ![t].pc = "remember", ![t].decision = Fingerprint(t)]
  /\ lastKey' = Fingerprint(t)
  /\ UNCHANGED <<champion, cacheKey, cachePayload, lastDecision, ghosts>>

Remember(t) ==
  /\ thread[t].pc = "remember"
  /\ lastDecision' = thread[t].decision
  /\ Goes(t, "respond")
  /\ UNCHANGED <<champion, cacheKey, cachePayload, lastKey, ghosts>>

\* The confidence floor and the response touch no shared state.
Respond(t) ==
  /\ thread[t].pc = "respond"
  /\ thread' = [thread EXCEPT ![t] = Waiting]
  /\ UNCHANGED <<champion, caches, ghosts>>

\* The process dies and is started again.
Restart ==
  /\ \E t \in Threads : thread[t] # Waiting
  /\ cacheKey' = 0 /\ cachePayload' = NoFile
  /\ lastKey' = NoDecision /\ lastDecision' = NoDecision
  /\ thread' = [t \in Threads |-> Waiting]
  /\ overlapped' = FALSE
  /\ UNCHANGED <<champion, asked>>

Next ==
  \/ \E t \in Threads :
       \/ \E r \in Requests \cup {Empty} : Request(t, r)
       \/ Lookup(t) \/ Read(t) \/ Store(t)
       \/ NoEdge(t) \/ Compare(t) \/ Reuse(t)
       \/ AgentFails(t) \/ AgentDecides(t) \/ Remember(t) \/ Respond(t)
  \/ \E c \in Candidates : ChampionReplaced(c)
  \/ Restart

Spec == Init /\ [][Next]_vars

-----------------------------------------------------------------------------
(* Properties. *)

Files == [id : Candidates \cup {None}, stamp : Nat]
Decisions == [request : Requests \cup {Empty, None}, knobs : Candidates \cup {None}]
Locals == [pc : {"waiting", "lookup", "read", "store", "decide",
                 "reuse", "agent", "remember", "respond"},
           request : Requests \cup {Empty, None}, stat : Nat,
           knobs : Files, decision : Decisions]

\* Types; the cached fingerprint is never that of a request without
\* candidates.
TypeOK ==
  /\ champion \in Files /\ champion.stamp <= MaxWrites
  /\ cachePayload \in Files /\ cacheKey \in Nat
  /\ lastKey \in Decisions /\ lastDecision \in Decisions
  /\ lastKey # NoDecision => lastKey.request \in Requests
  /\ thread \in [Threads -> Locals]
  /\ asked \in 0 .. MaxRequests
  /\ overlapped \in BOOLEAN

\* The knobs a request decides under are no older than the champion.json that
\* was in place when it arrived, however promotions, rollbacks and other
\* requests interleave with the cache (_load_payload).
KnobsAreCurrent ==
  \A t \in Threads : thread[t].pc \notin {"waiting", "lookup", "read"} =>
    thread[t].knobs.stamp >= thread[t].stat

\* While requests pass through decide_shadow_tick one after the other, since
\* the process started, each gets the decision made for its own candidates
\* under the knobs it loaded (_decision_cache_key, decide_shadow_tick).
AnswersItsRequest ==
  overlapped \/ \A t \in Threads : thread[t].pc = "respond" =>
                  thread[t].decision = Fingerprint(t)
=============================================================================
