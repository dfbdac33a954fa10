--------------------------- MODULE EmbeddingQueue ---------------------------
(***************************************************************************)
(* The embedding service of a daemon (src/engine/embeddings.ts): two       *)
(* caches, a bounded first-in first-out queue in front of a native library *)
(* that computes one vector at a time, a deadline on each computation, and *)
(* a circuit breaker with a half-open state.                               *)
(*                                                                         *)
(* A step is what the event loop does without an await.  The loop of       *)
(* drainEmbedQueue waits only for a computation, so queueDraining is TRUE  *)
(* exactly while running names a call.                                     *)
(***************************************************************************)
EXTENDS Naturals, Sequences, SequencesExt

CONSTANTS
  Callers,      \* the callers of embed(), each with one call at a time
  Text,         \* caller -> the text it asks for
  CacheSize,    \* maxCacheSize
  QueueMax,     \* maxQueueDepth
  MaxTimeouts,  \* maxConsecutiveTimeouts
  Nobody,       \* no caller
  MaxFaults     \* bound on wedges of the library, failed computations, vectors
                \* of a wrong width and lost writes to the second cache

VARIABLES
  phase,     \* "loading", "failed", "ready", "disposing" or "disposed"
  pc,        \* caller -> "idle", "cached" (waits for the second cache),
             \* "queued", "run", "ok" or "err"
  got,       \* caller -> the vector its last call was resolved with
  queue,     \* embedQueue
  running,   \* the call that is computed, or Nobody
  timeouts,  \* consecutiveTimeouts, no larger than MaxTimeouts
  opened,    \* breakerOpenedAt: "no", "hot" (less than a minute ago) or "cool"
  cache,     \* the first cache, the oldest entry first
  stored,    \* text -> what embedding_cache holds for it
  writes,    \* texts with a write to embedding_cache under way
  wedged,    \* the library answers nothing for now
  faults

service == <<phase, wedged, faults>>
calls   == <<pc, got>>
line    == <<queue, running>>
breaker == <<timeouts, opened>>
caches  == <<cache, stored, writes>>
vars == <<service, calls, line, breaker, caches>>

Texts   == {Text[c] : c \in Callers}
Vectors == {"none", "fit", "unfit"}
Settled == {"idle", "ok", "err"}
Entries == [text : Texts, vec : Vectors \ {"none"}]

TypeOK ==
  /\ phase \in {"loading", "failed", "ready", "disposing", "disposed"}
  /\ pc \in [Callers -> Settled \cup {"cached", "queued", "run"}]
  /\ got \in [Callers -> Vectors]
  /\ queue \in Seq(Callers) /\ Len(queue) <= QueueMax
  /\ running \in Callers \cup {Nobody}
  /\ timeouts \in 0..MaxTimeouts /\ opened \in {"no", "hot", "cool"}
  /\ cache \in Seq(Entries) /\ Len(cache) <= CacheSize
  /\ stored \in [Texts -> Vectors] /\ writes \subseteq Texts
  /\ wedged \in BOOLEAN /\ faults \in 0..MaxFaults

(* An older daemon may have stored vectors of another width.               *)
Init ==
  /\ phase = "loading" /\ wedged = FALSE /\ faults = 0
  /\ pc = [c \in Callers |-> "idle"] /\ got = [c \in Callers |-> "none"]
  /\ queue = <<>> /\ running = Nobody
  /\ timeouts = 0 /\ opened = "no"
  /\ cache = <<>> /\ writes = {}
  /\ stored \in [Texts -> {"none", "unfit"}]

-----------------------------------------------------------------------------
(* A definition named Bad... is a faulty variant of the one it precedes;   *)
(* no action uses it.                                                      *)

Ready   == phase \in {"ready", "disposing"}
Tripped == timeouts >= MaxTimeouts

Cached(t) == \E i \in DOMAIN cache : cache[i].text = t
Lookup(t) == CHOOSE i \in DOMAIN cache : cache[i].text = t

(* Map.set after the eviction: an entry that is there keeps its place.  A  *)
(* full cache evicts even if the text is in it.                            *)
BadPut(t, v) == Append(cache, [text |-> t, vec |-> v])
Put(t, v) ==
  LET kept == IF Len(cache) >= CacheSize THEN Tail(cache) ELSE cache
      new  == [text |-> t, vec |-> v]
  IN  IF \E e \in ToSet(kept) : e.text = t
      THEN [i \in DOMAIN kept |-> IF kept[i].text = t THEN new ELSE kept[i]]
      ELSE Append(kept, new)

(* A vector of the second cache counts as a hit only at the right width.   *)
BadServable(v) == v # "none"
Servable(v) == v = "fit"

(* What the loop does with items before it waits for a computation: an     *)
(* open breaker that has not cooled down rejects all of them.              *)
BadRefuses(t, o) == t >= MaxTimeouts /\ o = "no"
Refuses(t, o) == t >= MaxTimeouts /\ o # "cool"

(* The loop goes on with the items q, when the calls stand as p says and   *)
(* the breaker as t and o.                                                 *)
Drain(q, p, t, o) ==
  IF Refuses(t, o)
  THEN /\ queue' = <<>> /\ running' = Nobody
       /\ pc' = [c \in Callers |-> IF c \in ToSet(q) THEN "err" ELSE p[c]]
       /\ timeouts' = t
       /\ opened' = IF q # <<>> /\ o = "no" THEN "hot" ELSE o
  ELSE /\ timeouts' = t /\ opened' = o
       /\ IF q = <<>>
          THEN queue' = <<>> /\ running' = Nobody /\ pc' = p
          ELSE queue' = Tail(q) /\ running' = Head(q) /\ pc' = [p EXCEPT ![Head(q)] = "run"]

Settle(c, s) == [pc EXCEPT ![c] = s]

-----------------------------------------------------------------------------
(* initialize                                                              *)
Load ==
  /\ phase = "loading"
  /\ phase' \in {"ready", "failed"}
  /\ UNCHANGED <<wedged, faults, calls, line, breaker, caches>>

(* embed, up to its first await.                                           *)
Ask(c) ==
  /\ pc[c] \in Settled
  /\ \/ /\ ~Ready
        /\ pc' = Settle(c, "err") /\ got' = [got EXCEPT ![c] = "none"] /\ UNCHANGED cache
     \/ /\ Ready /\ Cached(Text[c])
        /\ LET i == Lookup(Text[c])
           IN  /\ cache' = Append(RemoveAt(cache, i), cache[i])
               /\ got' = [got EXCEPT ![c] = cache[i].vec]
        /\ pc' = Settle(c, "ok")
     \/ /\ Ready /\ ~Cached(Text[c])
        /\ pc' = Settle(c, "cached") /\ got' = [got EXCEPT ![c] = "none"] /\ UNCHANGED cache
  /\ UNCHANGED <<service, line, breaker, stored, writes>>

(* embed, when the second cache has answered with a vector ...             *)
Hit(c) ==
  /\ pc[c] = "cached" /\ Servable(stored[Text[c]])
  /\ pc' = Settle(c, "ok")
  /\ got' = [got EXCEPT ![c] = stored[Text[c]]]
  /\ cache' = Put(Text[c], stored[Text[c]])
  /\ UNCHANGED <<service, line, breaker, stored, writes>>

(* ... or with nothing of use, or not at all: the call is refused by a     *)
(* full queue, or queued; the loop is started if it does not run.          *)
HasRoom == Len(queue) < QueueMax
Miss(c) ==
  /\ pc[c] = "cached"
  /\ \/ /\ ~HasRoom
        /\ pc' = Settle(c, "err") /\ UNCHANGED <<line, breaker>>
     \/ /\ HasRoom /\ running # Nobody
        /\ pc' = Settle(c, "queued") /\ queue' = Append(queue, c)
        /\ UNCHANGED <<running, breaker>>
     \/ /\ HasRoom /\ running = Nobody
        /\ Drain(Append(queue, c), Settle(c, "queued"), timeouts, opened)
  /\ UNCHANGED <<service, got, caches>>

(* computeAndSettle: a vector, whatever its width, closes the breaker.     *)
BadClosed == <<timeouts, opened>>
Closed == <<0, "no">>
Computed ==
  /\ running # Nobody /\ ~wedged /\ Ready
  /\ got' = [got EXCEPT ![running] = "fit"]
  /\ cache' = Put(Text[running], "fit")
  /\ writes' = writes \cup {Text[running]}
  /\ Drain(queue, Settle(running, "ok"), Closed[1], Closed[2])
  /\ UNCHANGED <<service, stored>>

(* A vector of the wrong width is neither kept nor handed out.             *)
WrongWidth ==
  /\ running # Nobody /\ ~wedged /\ Ready /\ faults < MaxFaults
  /\ faults' = faults + 1
  /\ Drain(queue, Settle(running, "err"), Closed[1], Closed[2])
  /\ UNCHANGED <<phase, wedged, got, caches>>

(* The library rejects: a disposed context does so always.                 *)
ComputeFails ==
  /\ running # Nobody
  /\ phase \in {"disposing", "disposed"} \/ (faults < MaxFaults /\ ~wedged)
  /\ faults' = IF phase = "ready" THEN faults + 1 ELSE faults
  /\ Drain(queue, Settle(running, "err"), timeouts, opened)
  /\ UNCHANGED <<phase, wedged, got, caches>>

(* The deadline of the computation.                                        *)
Reopened(t) == IF t >= MaxTimeouts THEN "hot" ELSE opened
DeadlinePasses ==
  /\ running # Nobody /\ wedged
  /\ LET t == IF Tripped THEN timeouts ELSE timeouts + 1
     IN  Drain(queue, Settle(running, "err"), t, Reopened(t))
  /\ UNCHANGED <<service, got, caches>>

(* A minute has passed since the breaker was opened.                       *)
CoolDown ==
  /\ opened = "hot" /\ opened' = "cool"
  /\ UNCHANGED <<service, calls, line, timeouts, caches>>

(* l2Put: its write lands, or is lost.                                     *)
WriteLands(t) ==
  /\ t \in writes /\ writes' = writes \ {t}
  /\ \/ stored' = [stored EXCEPT ![t] = "fit"] /\ UNCHANGED faults
     \/ faults < MaxFaults /\ faults' = faults + 1 /\ UNCHANGED stored
  /\ UNCHANGED <<phase, wedged, calls, line, breaker, cache>>

(* purgeStaleEmbedCache: l2Get no longer sees the row.                     *)
PurgeStored(t) ==
  /\ stored[t] # "none" /\ stored' = [stored EXCEPT ![t] = "none"]
  /\ UNCHANGED <<service, calls, line, breaker, cache, writes>>

(* dispose, before and after the library is released.  The queue is        *)
(* emptied; the item that is computed goes on.                             *)
BadRejected(S) == {}
Rejected(S) == S
Dispose ==
  /\ phase = "ready" /\ phase' = "disposing"
  /\ pc' = [c \in Callers |-> IF c \in Rejected(ToSet(queue)) THEN "err" ELSE pc[c]]
  /\ queue' = <<>>
  /\ UNCHANGED <<wedged, faults, got, running, breaker, caches>>

Disposed ==
  /\ phase = "disposing" /\ phase' = "disposed"
  /\ cache' = <<>>
  /\ UNCHANGED <<wedged, faults, calls, line, breaker, stored, writes>>

(* The library hangs, or recovers.                                         *)
Wedge ==
  /\ ~wedged /\ faults < MaxFaults
  /\ wedged' = TRUE /\ faults' = faults + 1
  /\ UNCHANGED <<phase, calls, line, breaker, caches>>

Unwedge ==
  /\ wedged /\ wedged' = FALSE
  /\ UNCHANGED <<phase, faults, calls, line, breaker, caches>>

Next ==
  \/ Load \/ Computed \/ WrongWidth \/ ComputeFails \/ DeadlinePasses \/ CoolDown
  \/ Dispose \/ Disposed \/ Wedge \/ Unwedge
  \/ \E c \in Callers : Ask(c) \/ Hit(c) \/ Miss(c)
  \/ \E t \in Texts : WriteLands(t) \/ PurgeStored(t)

Spec == Init /\ [][Next]_vars

(* Queries are answered, timers fire, and a library that does not hang     *)
(* answers.  Nothing is assumed of the callers.                            *)
Fairness ==
  /\ WF_vars(Computed) /\ WF_vars(ComputeFails) /\ WF_vars(DeadlinePasses) /\ WF_vars(CoolDown)
  /\ \A c \in Callers : WF_vars(Hit(c) \/ Miss(c))
FairSpec == Spec /\ Fairness

-----------------------------------------------------------------------------
(* A vector of another width than the indexes have is never handed out or  *)
(* kept in the cache of this daemon, wherever it comes from: one of them   *)
(* breaks every similarity query (embeddings.ts:137, 348).  And while the  *)
(* breaker is open and hot nothing is computed and nobody waits.  What the *)
(* second cache holds, and of which text, is not said.                     *)
EmbedsFit ==
  /\ \A c \in Callers : pc[c] = "ok" => got[c] = "fit"
  /\ \A e \in ToSet(cache) : e.vec = "fit"
  /\ opened = "hot" => running = Nobody /\ queue = <<>>

CallsSettle == \A c \in Callers : []<>(pc[c] \in Settled)

BreakerCloses ==
  /\ <>[](~wedged /\ phase = "ready")
  /\ []<>(\E c \in Callers : pc[c] = "cached" /\ ~Servable(stored[Text[c]]))
  => []<>~Tripped

(* Every call of embed() settles, whatever the library, the caches and     *)
(* dispose() do (embeddings.ts:270, 318, 402).  And a breaker that was     *)
(* opened closes again, if the library has recovered and calls go on that  *)
(* no cache answers (embeddings.ts:291).                                   *)
EmbedSettles == CallsSettle /\ BreakerCloses

(* What the comment at embeddings.ts:291 says of the half-open state: one  *)
(* item is the probe, and a probe that fails opens the breaker again.      *)
ProbeReopens ==
  [][phase = "ready" /\ Tripped /\ running # Nobody /\ pc'[running] = "err"
       => opened' # "cool"]_vars
=============================================================================
