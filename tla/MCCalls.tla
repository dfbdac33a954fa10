------------------------------ MODULE MCCalls ------------------------------
(* Instances for TLC of the two modules about calls that must end: the     *)
(* tool calls of IpcRelay and the embed() calls of EmbeddingQueue.  They   *)
(* share no state, so a behaviour is one of the first or one of the        *)
(* second, and the other stands still; part says which.                    *)
EXTENDS IpcRelay

CONSTANTS
  c1, c2,                        \* IpcRelay
  Callers, Others, x, y, Nobody, \* EmbeddingQueue
  CacheSize, QueueMax, MaxTimeouts, MaxSlips

(* Callers ask for the same text, but for some.                            *)
TextOf == [e \in Callers |-> IF e \in Others THEN y ELSE x]

(* A cache has room for a text, a breaker does not open by itself.         *)
ASSUME EmbedAssumption ==
  /\ Nobody \notin Callers /\ CacheSize \in Nat \ {0} /\ QueueMax \in Nat
  /\ MaxTimeouts \in Nat \ {0} /\ MaxSlips \in Nat

VARIABLES part, phase, at, got, queue, running, timeouts, opened, cache, stored, writes,
          wedged, slips

E == INSTANCE EmbeddingQueue WITH Text <- TextOf, MaxFaults <- MaxSlips, pc <- at, faults <- slips

embedVars == <<phase, at, got, queue, running, timeouts, opened, cache, stored, writes, wedged,
               slips>>
CallsVars == <<part, vars, embedVars>>

CallsInit ==
  /\ part \in {"relay", "embed"}
  /\ Init /\ (part = "embed" => mode = "up" /\ ~outdated /\ ~enforced)
  /\ E!Init /\ (part = "relay" => \A t \in E!Texts : stored[t] = "none")

Relay(A) == part = "relay" /\ A /\ UNCHANGED <<part, embedVars>>
Embed(A) == part = "embed" /\ A /\ UNCHANGED <<part, vars>>

CallsNext ==
  \/ \E c \in Calls :
       \/ Relay(Arrive(c)) \/ Relay(Retry(c)) \/ Relay(Answer(c)) \/ Relay(CallTimesOut(c))
       \/ Relay(Refuse(c)) \/ Relay(Run(c))
  \/ \E i \in Clients : Relay(DialLands(i)) \/ Relay(DialRefused(i))
  \/ Relay(EnsureFinds) \/ Relay(EnsureFails) \/ Relay(FlightDials) \/ Relay(FlightRefused)
  \/ Relay(FlightLands) \/ Relay(AskSupersede) \/ Relay(SupersedeAnswered)
  \/ Relay(SupersedeThrows) \/ Relay(Redialed) \/ Relay(RedialRefused)
  \/ Relay(HealthKeeps) \/ Relay(HealthAlone) \/ Relay(ShutdownEnds)
  \/ \E why \in {"error", "unauth"} : Relay(GreetFails(why))
  \/ \E s \in Sockets : Relay(SocketCloses(s)) \/ Relay(SocketBreaks(s))
  \/ Relay(Booted) \/ Relay(DaemonDies) \/ Relay(OtherSpawns)
  \/ Embed(E!Load) \/ Embed(E!Computed) \/ Embed(E!WrongWidth) \/ Embed(E!ComputeFails)
  \/ Embed(E!DeadlinePasses) \/ Embed(E!CoolDown) \/ Embed(E!Dispose) \/ Embed(E!Disposed)
  \/ Embed(E!Wedge) \/ Embed(E!Unwedge)
  \/ \E c \in Callers : Embed(E!Ask(c)) \/ Embed(E!Hit(c)) \/ Embed(E!Miss(c))
  \/ \E t \in E!Texts : Embed(E!WriteLands(t)) \/ Embed(E!PurgeStored(t))

(* The fairness of the two modules, each for its own behaviours.           *)
CallsFairness ==
  /\ \A c \in Calls : WF_CallsVars(Relay(Retry(c))) /\ WF_CallsVars(Relay(CallTimesOut(c)))
  /\ \A i \in Clients : WF_CallsVars(Relay(DialLands(i) \/ DialRefused(i)))
  /\ \A s \in Sockets : WF_CallsVars(Relay(SocketCloses(s)))
  /\ WF_CallsVars(Relay(Flight))
  /\ WF_CallsVars(Embed(E!Computed)) /\ WF_CallsVars(Embed(E!ComputeFails))
  /\ WF_CallsVars(Embed(E!DeadlinePasses)) /\ WF_CallsVars(Embed(E!CoolDown))
  /\ \A c \in Callers : WF_CallsVars(Embed(E!Hit(c) \/ E!Miss(c)))

CallsSpec == CallsInit /\ [][CallsNext]_CallsVars /\ CallsFairness

(* The variables of both modules have their types.                         *)
CallsTypeOK == TypeOK /\ E!TypeOK

(* EmbedsFit of EmbeddingQueue: no vector of a wrong width is served, and  *)
(* nobody waits for an open breaker (embeddings.ts:137, 348).              *)
EmbedsFit == E!EmbedsFit

(* Every call ends: a tool call is answered or fails (EveryCallEnds of     *)
(* IpcRelay, mcp-client/index.ts:307); every embed() settles, and its      *)
(* breaker closes again (EmbedSettles of EmbeddingQueue, embeddings.ts:270 *)
(* and 291).                                                               *)
CallsEnd == EveryCallEnds /\ E!EmbedSettles
=============================================================================
