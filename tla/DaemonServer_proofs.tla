------------------------ MODULE DaemonServer_proofs -------------------------
(***************************************************************************)
(* Theorems about the connection server, for any number of sockets and     *)
(* requests and any ceilings.                                              *)
(***************************************************************************)
EXTENDS DaemonServer, FiniteSetTheorems, TLAPS

(* While the daemon is up the map has every open connection, and it never  *)
(* has one that was not accepted yet.                                      *)
Registered ==
  /\ phase = "up" => \A s \in Sockets : conn[s] = "open" => s \in clients
  /\ \A s \in Sockets : conn[s] = "none" => s \notin clients

(* Only the owners of the token are authenticated, and only they acted.    *)
TokenKept == requireAuth => authed \subseteq Owners /\ acted \subseteq Owners

(* The callbacks of a supersede are counted by its latch.                  *)
CallsCounted == calls = IF supersedeFired THEN 1 ELSE 0

MapInv == NothingLeftBehind /\ Registered /\ TokenKept /\ CallsCounted /\ IdleArmed

-----------------------------------------------------------------------------
LEMMA ServerInitTypeOK == Init => TypeOK
<1> SUFFICES ASSUME Init PROVE TypeOK
  OBVIOUS
<1>1. /\ requireAuth \in BOOLEAN /\ phase \in Phases
      /\ pendingSupersede \in BOOLEAN /\ supersedeFired \in BOOLEAN
      /\ grace \in BOOLEAN /\ idle \in BOOLEAN /\ asked \in BOOLEAN
  BY Zenon DEF Init, Phases
<1>2. /\ conn \in [Sockets -> ConnStates] /\ perSock \in [Sockets -> Nat]
      /\ rpc \in [Requests -> [sock : Sockets, kind : Kinds] \cup {Free}]
      /\ clients \subseteq Sockets /\ authed \subseteq Sockets /\ acted \subseteq Sockets
      /\ inFlight \in Nat /\ calls \in Nat /\ phantoms \in Nat
  BY DEF Init, ConnStates
<1> QED BY <1>1, <1>2 DEF TypeOK

LEMMA DropType ==
  ASSUME TypeOK, NEW S, Drop(S)
  PROVE  /\ clients' \subseteq Sockets /\ authed' \subseteq Sockets
         /\ perSock' \in [Sockets -> Nat]
BY DEF TypeOK, Drop

LEMMA EntersType ==
  ASSUME TypeOK, NEW k \in Requests, NEW s \in Sockets, NEW kind \in Kinds, Enters(k, s, kind)
  PROVE  /\ inFlight' \in Nat
         /\ rpc' \in [Requests -> [sock : Sockets, kind : Kinds] \cup {Free}]
BY DEF TypeOK, Enters

LEMMA DaemonTypeOK ==
  ASSUME TypeOK, BeginCleanup
  PROVE  phase' \in Phases
BY DEF TypeOK, BeginCleanup, Phases

(* The steps of a connection.                                              *)
LEMMA ConnectionTypeOK ==
  ASSUME TypeOK, NEW s \in Sockets, Connect(s) \/ Breaks(s) \/ Vanishes(s) \/ SocketEvent(s)
  PROVE  TypeOK'
<1> USE DEF sockets, requests, timers
<1>1. CASE Connect(s)
  BY <1>1 DEF TypeOK, Connect, Register, ConnStates
<1>2. CASE Breaks(s)
  BY <1>2 DEF TypeOK, Breaks, ConnStates
<1>3. CASE Vanishes(s)
  BY <1>3 DEF TypeOK, Vanishes, ConnStates
<1>4. CASE SocketEvent(s)
  <2>1. conn' \in [Sockets -> ConnStates] /\ UNCHANGED <<requireAuth, inFlight, rpc, pendingSupersede, asked, acted, phantoms>>
    BY <1>4 DEF TypeOK, SocketEvent, ConnStates
  <2>2. /\ clients' \subseteq Sockets /\ authed' \subseteq Sockets
        /\ perSock' \in [Sockets -> Nat]
    BY <1>4, DropType DEF SocketEvent
  <2>3. idle' \in BOOLEAN
    BY <1>4 DEF TypeOK, SocketEvent, ArmIdle
  <2>4. \/ supersedeFired' = TRUE /\ calls' = calls + 1 /\ BeginCleanup /\ grace' = FALSE
        \/ UNCHANGED <<supersedeFired, calls, phase, grace>>
    BY <1>4 DEF SocketEvent
  <2>5. /\ supersedeFired' \in BOOLEAN /\ calls' \in Nat
        /\ grace' \in BOOLEAN /\ phase' \in Phases
    <3>1. CASE UNCHANGED <<supersedeFired, calls, phase, grace>>
      BY <3>1 DEF TypeOK
    <3>2. CASE supersedeFired' = TRUE /\ calls' = calls + 1 /\ BeginCleanup /\ grace' = FALSE
      <4>1. phase' \in Phases
        BY <3>2, DaemonTypeOK
      <4>2. calls' \in Nat
        BY <3>2 DEF TypeOK
      <4> QED BY <3>2, <4>1, <4>2
    <3> QED BY <2>4, <3>1, <3>2
  <2> QED BY <2>1, <2>2, <2>3, <2>5 DEF TypeOK
<1> QED BY <1>1, <1>2, <1>3, <1>4

(* Counting requests.                                                      *)
LEMMA RequestSets ==
  ASSUME NEW S \in SUBSET Requests
  PROVE  /\ IsFiniteSet(S) /\ Cardinality(S) \in Nat
         /\ \A T \in SUBSET S : Cardinality(T) \in Nat /\ Cardinality(T) <= Cardinality(S)
         /\ \A k \in Requests \ S : Cardinality(S \cup {k}) = Cardinality(S) + 1
         /\ \A k \in S : Cardinality(S \ {k}) = Cardinality(S) - 1
<1>1. IsFiniteSet(S)
  BY ServerAssumption, FS_Subset
<1>2. Cardinality(S) \in Nat
  BY <1>1, FS_CardinalityType
<1>3. \A T \in SUBSET S : Cardinality(T) \in Nat /\ Cardinality(T) <= Cardinality(S)
  BY <1>1, FS_Subset, FS_CardinalityType
<1>4. \A k : k \notin S => Cardinality(S \cup {k}) = Cardinality(S) + 1
  BY <1>1, FS_AddElement
<1>5. \A k \in S : Cardinality(S \ {k}) = Cardinality(S) - 1
  BY <1>1, FS_RemoveElement
<1> QED BY <1>1, <1>2, <1>3, <1>4, <1>5

(* What a request that enters or ends does to the sets of requests.        *)
LEMMA ToolSets ==
  ASSUME TypeOK, NEW k \in Requests, NEW s \in Sockets, Enters(k, s, "tool")
  PROVE  /\ k \notin Live /\ Live' = Live \cup {k} /\ Tools' = Tools \cup {k}
         /\ \A q \in Sockets :
              ToolsOf(q)' = IF q = s THEN ToolsOf(q) \cup {k} ELSE ToolsOf(q)
<1>1. /\ rpc[k] = Free /\ rpc' = [rpc EXCEPT ![k] = [sock |-> s, kind |-> "tool"]]
      /\ [sock |-> s, kind |-> "tool"] # Free
  BY ServerAssumption DEF Enters, Kinds
<1>2. k \notin Live /\ Live' = Live \cup {k}
  BY <1>1 DEF Live, TypeOK
<1>3. Tools' = Tools \cup {k}
  BY <1>1, <1>2 DEF Tools, Live, TypeOK
<1>4. ASSUME NEW q \in Sockets
      PROVE  ToolsOf(q)' = IF q = s THEN ToolsOf(q) \cup {k} ELSE ToolsOf(q)
  BY <1>1, <1>2 DEF ToolsOf, Live, TypeOK
<1> QED BY <1>2, <1>3, <1>4

LEMMA MetaSets ==
  ASSUME TypeOK, NEW k \in Requests, NEW s \in Sockets, Enters(k, s, "meta")
  PROVE  /\ k \notin Live /\ Live' = Live \cup {k} /\ Tools' = Tools
         /\ \A q \in Sockets : ToolsOf(q)' = ToolsOf(q)
<1>1. /\ rpc[k] = Free /\ rpc' = [rpc EXCEPT ![k] = [sock |-> s, kind |-> "meta"]]
      /\ [sock |-> s, kind |-> "meta"] # Free
  BY ServerAssumption DEF Enters, Kinds
<1>2. k \notin Live /\ Live' = Live \cup {k}
  BY <1>1 DEF Live, TypeOK
<1>3. Tools' = Tools
  BY <1>1, <1>2 DEF Tools, Live, TypeOK
<1>4. ASSUME NEW q \in Sockets PROVE ToolsOf(q)' = ToolsOf(q)
  BY <1>1, <1>2 DEF ToolsOf, Live, TypeOK
<1> QED BY <1>2, <1>3, <1>4

LEMMA EndsSets ==
  ASSUME TypeOK, NEW k \in Requests, Ends(k)
  PROVE  /\ k \in Live /\ Live' = Live \ {k} /\ Tools' \subseteq Tools
         /\ rpc[k].sock \in Sockets
         /\ \A q \in Sockets :
              \/ ToolsOf(q)' = ToolsOf(q)
              \/ q = rpc[k].sock /\ k \in ToolsOf(q) /\ ToolsOf(q)' = ToolsOf(q) \ {k}
<1>1. /\ rpc[k] # Free /\ rpc' = [rpc EXCEPT ![k] = Free]
      /\ rpc[k].sock \in Sockets
  BY DEF Ends, TypeOK
<1>2. k \in Live /\ Live' = Live \ {k} /\ Tools' \subseteq Tools
  BY <1>1 DEF Live, Tools, TypeOK
<1>3. ASSUME NEW q \in Sockets
      PROVE  \/ ToolsOf(q)' = ToolsOf(q)
             \/ q = rpc[k].sock /\ k \in ToolsOf(q) /\ ToolsOf(q)' = ToolsOf(q) \ {k}
  <2>1. ToolsOf(q)' = ToolsOf(q) \ {k}
    BY <1>1, <1>2 DEF ToolsOf, Live, TypeOK
  <2>2. k \in ToolsOf(q) => q = rpc[k].sock
    BY DEF ToolsOf
  <2> QED BY <2>1, <2>2
<1> QED BY <1>1, <1>2, <1>3

-----------------------------------------------------------------------------
(* Types, the rest of them.                                                *)

LEMMA CallTypeOK ==
  ASSUME TypeOK, NEW k \in Requests, NEW s \in Sockets,
         \/ CallTool(k, s) \/ Handshake(k, s) \/ Health(k, s)
         \/ RequestSupersede(k, s) \/ Shutdown(k, s)
  PROVE  TypeOK'
<1> USE DEF timers
<1>1. CASE CallTool(k, s)
  <2>1. inFlight' \in Nat /\ rpc' \in [Requests -> [sock : Sockets, kind : Kinds] \cup {Free}]
    BY <1>1, EntersType DEF CallTool, Kinds
  <2> QED BY <1>1, <2>1 DEF TypeOK, CallTool
<1>2. ASSUME NEW method, CallMeta(k, s, method)
      PROVE  /\ inFlight' \in Nat
             /\ rpc' \in [Requests -> [sock : Sockets, kind : Kinds] \cup {Free}]
             /\ UNCHANGED <<requireAuth, conn, phase, calls, phantoms>>
  BY <1>2, EntersType DEF CallMeta, Kinds
<1>3. CASE Handshake(k, s)
  BY <1>2, <1>3 DEF TypeOK, Handshake
<1>4. CASE Health(k, s)
  BY <1>2, <1>4, DropType DEF TypeOK, Health
<1>5. CASE RequestSupersede(k, s)
  BY <1>2, <1>5 DEF TypeOK, RequestSupersede, MarkPendingSupersede
<1>6. CASE Shutdown(k, s)
  BY <1>2, <1>6 DEF TypeOK, Shutdown
<1> QED BY <1>1, <1>3, <1>4, <1>5, <1>6

LEMMA EndsTypeOK ==
  ASSUME TypeOK, LoadBounded, NEW k \in Requests, Ends(k)
  PROVE  TypeOK'
<1>1. inFlight - 1 \in Nat
  <2>1. k \in Live /\ Live \in SUBSET Requests
    BY EndsSets DEF Live
  <2>2. Cardinality(Live) - 1 \in Nat
    BY <2>1, RequestSets
  <2> QED BY <2>2 DEF LoadBounded
<1>2. perSock' \in [Sockets -> Nat]
  BY EndsSets DEF Ends, DecInFlight, TypeOK
<1> QED BY <1>1, <1>2 DEF TypeOK, Ends, timers

LEMMA TimerTypeOK ==
  ASSUME TypeOK, PruneTimer \/ SessionReaper \/ IdleFires \/ GraceFires \/ ShutdownRuns \/ Signal
  PROVE  TypeOK'
<1> USE DEF sockets, requests, timers
<1>1. CASE PruneTimer
  BY <1>1, DropType DEF TypeOK, PruneTimer, ArmIdle
<1>2. CASE SessionReaper
  BY <1>2, DropType DEF TypeOK, SessionReaper
<1>3. CASE IdleFires
  BY <1>3, DaemonTypeOK DEF TypeOK, IdleFires
<1>4. CASE GraceFires
  <2>1. CASE supersedeFired
    BY <1>4, <2>1 DEF TypeOK, GraceFires
  <2>2. CASE ~supersedeFired
    <3>1. Drop(Dead) /\ BeginCleanup
      BY <1>4, <2>2 DEF GraceFires
    <3>2. phase' \in Phases /\ calls' \in Nat /\ idle' \in BOOLEAN
      BY <1>4, <2>2, <3>1, DaemonTypeOK DEF TypeOK, GraceFires
    <3> QED BY <1>4, <2>2, <3>1, <3>2, DropType DEF TypeOK, GraceFires
  <2> QED BY <2>1, <2>2
<1>5. CASE ShutdownRuns \/ Signal
  BY <1>5, DaemonTypeOK DEF TypeOK, ShutdownRuns, Signal, EndDaemon
<1> QED BY <1>1, <1>2, <1>3, <1>4, <1>5

LEMMA CleanupTypeOK ==
  ASSUME TypeOK, Drained \/ Disposed \/ Exits
  PROVE  TypeOK'
<1> USE DEF sockets, requests, timers
<1>1. CASE Drained
  <2>1. conn' \in [Sockets -> ConnStates]
    BY <1>1 DEF Drained, TypeOK, ConnStates
  <2> QED BY <1>1, <2>1, DropType DEF TypeOK, Drained, Phases
<1>2. CASE Disposed \/ Exits
  BY <1>2 DEF TypeOK, Disposed, Exits, Phases
<1> QED BY <1>1, <1>2

LEMMA ServerNextTypeOK ==
  TypeOK /\ LoadBounded /\ [Next]_vars => TypeOK'
<1> SUFFICES ASSUME TypeOK, LoadBounded, [Next]_vars PROVE TypeOK'
  OBVIOUS
<1>1. CASE UNCHANGED vars
  BY <1>1 DEF vars, sockets, requests, timers, TypeOK
<1>2. CASE Next
  BY <1>2, ConnectionTypeOK, CallTypeOK, EndsTypeOK, TimerTypeOK, CleanupTypeOK DEF Next
<1> QED BY <1>1, <1>2

-----------------------------------------------------------------------------
(* The load: counters against the handlers that really run.                *)

Load == LoadBounded /\ QuotaNotLeaked

LEMMA InitLoad == Init => Load
<1> SUFFICES ASSUME Init PROVE Load
  OBVIOUS
<1>1. Live = {} /\ Tools = {} /\ \A s \in Sockets : ToolsOf(s) = {}
  BY DEF Init, Live, Tools, ToolsOf
<1>2. inFlight = 0 /\ \A s \in Sockets : perSock[s] = 0
  BY DEF Init
<1> QED BY <1>1, <1>2, FS_EmptySet, ServerAssumption DEF Load, LoadBounded, QuotaNotLeaked

(* A step that starts and ends no request at most forgets what sockets     *)
(* are charged with.                                                       *)
LEMMA QuietLoad ==
  ASSUME TypeOK, Load, UNCHANGED requests,
         \A s \in Sockets : perSock'[s] \in {perSock[s], 0}
  PROVE  Load'
<1>1. Live' = Live /\ Tools' = Tools /\ \A s \in Sockets : ToolsOf(s)' = ToolsOf(s)
  BY DEF requests, Live, Tools, ToolsOf
<1>2. LoadBounded'
  BY <1>1 DEF Load, LoadBounded, requests
<1>3. ASSUME NEW s \in Sockets PROVE perSock'[s] <= Cardinality(ToolsOf(s))
  <2>1. ToolsOf(s) \in SUBSET Requests
    BY DEF ToolsOf, Live
  <2>2. Cardinality(ToolsOf(s)) \in Nat /\ perSock[s] \in Nat
    BY <2>1, RequestSets DEF TypeOK
  <2> QED BY <2>2 DEF Load, QuotaNotLeaked
<1> QED BY <1>1, <1>2, <1>3 DEF Load, QuotaNotLeaked

(* A request that enters is counted; if it is charged to its socket, it is *)
(* a tool request, which is let in under both ceilings.                    *)
LEMMA CallLoad ==
  ASSUME TypeOK, Load, NEW k \in Requests,
         k \notin Live, Live' = Live \cup {k}, inFlight' = inFlight + 1,
         Tools' = Tools \/ (Tools' = Tools \cup {k} /\ inFlight < MaxInFlight),
         \A q \in Sockets :
           \/ ToolsOf(q)' = ToolsOf(q) /\ perSock'[q] \in {perSock[q], 0}
           \/ ToolsOf(q)' = ToolsOf(q) \cup {k} /\ perSock'[q] = perSock[q] + 1
  PROVE  Load'
<1>1. Live \in SUBSET Requests /\ Tools \in SUBSET Live /\ Tools \in SUBSET Requests
  BY DEF Live, Tools
<1>2. /\ Cardinality(Live) \in Nat /\ Cardinality(Tools) \in Nat
      /\ Cardinality(Tools) <= Cardinality(Live)
      /\ inFlight = Cardinality(Live)
      /\ Cardinality(Tools) <= MaxInFlight /\ MaxInFlight \in Nat
  BY <1>1, RequestSets, ServerAssumption DEF Load, LoadBounded
<1>3. /\ Cardinality(Live \cup {k}) = Cardinality(Live) + 1
      /\ Cardinality(Tools \cup {k}) = Cardinality(Tools) + 1
  <2>1. k \in Requests \ Live /\ k \in Requests \ Tools
    BY <1>1
  <2> QED BY <1>1, <2>1, RequestSets
<1>4. LoadBounded'
  <2>1. inFlight' = Cardinality(Live')
    BY <1>2, <1>3
  <2>2. Cardinality(Tools') <= MaxInFlight
    <3>1. CASE Tools' = Tools
      BY <1>2, <3>1
    <3>2. CASE Tools' = Tools \cup {k} /\ inFlight < MaxInFlight
      BY <1>2, <1>3, <3>2
    <3> QED BY <3>1, <3>2
  <2> QED BY <2>1, <2>2 DEF LoadBounded
<1>5. ASSUME NEW q \in Sockets PROVE perSock'[q] <= Cardinality(ToolsOf(q))'
  <2>1. ToolsOf(q) \in SUBSET Requests /\ k \in Requests \ ToolsOf(q)
    BY DEF ToolsOf, Live
  <2>2. /\ Cardinality(ToolsOf(q)) \in Nat /\ perSock[q] \in Nat
        /\ perSock[q] <= Cardinality(ToolsOf(q))
        /\ Cardinality(ToolsOf(q) \cup {k}) = Cardinality(ToolsOf(q)) + 1
    BY <2>1, RequestSets DEF TypeOK, Load, QuotaNotLeaked
  <2>3. CASE ToolsOf(q)' = ToolsOf(q) /\ perSock'[q] \in {perSock[q], 0}
    BY <2>2, <2>3
  <2>4. CASE ToolsOf(q)' = ToolsOf(q) \cup {k} /\ perSock'[q] = perSock[q] + 1
    BY <2>2, <2>4
  <2> QED BY <2>3, <2>4
<1> QED BY <1>4, <1>5 DEF Load, QuotaNotLeaked

(* A request that ends is counted down once, and its socket is charged     *)
(* with one less: never with more than still runs.                         *)
LEMMA EndsLoad ==
  ASSUME TypeOK, Load, NEW k \in Requests, Ends(k)
  PROVE  Load'
<1>1. Live \in SUBSET Requests /\ Tools \in SUBSET Requests
  BY DEF Live, Tools
<1>2. /\ Cardinality(Live \ {k}) = Cardinality(Live) - 1
      /\ Cardinality(Tools) \in Nat /\ Cardinality(Tools') \in Nat
      /\ Cardinality(Tools') <= Cardinality(Tools)
  <2>1. k \in Live /\ Tools' \in SUBSET Tools
    BY EndsSets
  <2> QED BY <1>1, <2>1, RequestSets
<1>3. LoadBounded'
  <2>1. /\ inFlight = Cardinality(Live) /\ inFlight' = inFlight - 1 /\ Live' = Live \ {k}
        /\ Cardinality(Tools) <= MaxInFlight /\ MaxInFlight \in Nat
    BY EndsSets, ServerAssumption DEF Ends, Load, LoadBounded
  <2> QED BY <1>2, <2>1 DEF LoadBounded
<1>4. ASSUME NEW q \in Sockets PROVE perSock'[q] <= Cardinality(ToolsOf(q))'
  <2>1. ToolsOf(q) \in SUBSET Requests
    BY DEF ToolsOf, Live
  <2>2. /\ Cardinality(ToolsOf(q)) \in Nat /\ perSock[q] \in Nat
        /\ perSock[q] <= Cardinality(ToolsOf(q))
        /\ k \in ToolsOf(q) => Cardinality(ToolsOf(q) \ {k}) = Cardinality(ToolsOf(q)) - 1
    BY <2>1, RequestSets DEF TypeOK, Load, QuotaNotLeaked
  <2>3. perSock'[q] = IF q # rpc[k].sock \/ perSock[q] = 0 THEN perSock[q] ELSE perSock[q] - 1
    BY EndsSets DEF Ends, DecInFlight, TypeOK
  <2>4. CASE ToolsOf(q)' = ToolsOf(q)
    BY <2>2, <2>3, <2>4
  <2>5. CASE q = rpc[k].sock /\ k \in ToolsOf(q) /\ ToolsOf(q)' = ToolsOf(q) \ {k}
    <3>1. Cardinality(ToolsOf(q) \ {k}) \in Nat
      BY <2>1, RequestSets
    <3> QED BY <2>2, <2>3, <2>5, <3>1
  <2> QED BY <2>4, <2>5, EndsSets
<1> QED BY <1>3, <1>4 DEF Load, QuotaNotLeaked

LEMMA DropForgets ==
  ASSUME TypeOK, NEW S, Drop(S)
  PROVE  \A s \in Sockets : perSock'[s] \in {perSock[s], 0}
BY DEF TypeOK, Drop

LEMMA NextLoad == TypeOK /\ Load /\ [Next]_vars => Load'
<1> SUFFICES ASSUME TypeOK, Load, [Next]_vars PROVE Load'
  OBVIOUS
<1>1. ASSUME NEW s \in Sockets, Connect(s) \/ Breaks(s) \/ Vanishes(s) \/ SocketEvent(s)
      PROVE  Load'
  <2>1. UNCHANGED requests
    BY <1>1 DEF Connect, Breaks, Vanishes, SocketEvent
  <2>2. perSock' = perSock \/ Drop(Dead \cup {s})
    BY <1>1 DEF Connect, Breaks, Vanishes, SocketEvent
  <2> QED BY <2>1, <2>2, DropForgets, QuietLoad
<1>2. ASSUME NEW k \in Requests, NEW s \in Sockets, CallTool(k, s)
      PROVE  Load'
  <2>1. Enters(k, s, "tool") /\ inFlight < MaxInFlight /\ inFlight' = inFlight + 1
    BY <1>2 DEF CallTool, HasRoom, Enters
  <2>2. \A q \in Sockets : perSock'[q] = IF q = s THEN perSock[q] + 1 ELSE perSock[q]
    BY <1>2 DEF CallTool, TypeOK
  <2> QED BY <2>1, <2>2, ToolSets, CallLoad
<1>3. ASSUME NEW k \in Requests, NEW s \in Sockets,
             \/ Handshake(k, s) \/ Health(k, s) \/ RequestSupersede(k, s) \/ Shutdown(k, s)
      PROVE  Load'
  <2>1. Enters(k, s, "meta") /\ inFlight' = inFlight + 1
    BY <1>3 DEF Handshake, Health, RequestSupersede, Shutdown, CallMeta, Enters
  <2>2. perSock' = perSock \/ Drop(Dead)
    BY <1>3 DEF Handshake, Health, RequestSupersede, Shutdown
  <2>3. \A q \in Sockets : perSock'[q] \in {perSock[q], 0}
    BY <2>2, DropForgets
  <2>4. /\ k \notin Live /\ Live' = Live \cup {k} /\ Tools' = Tools
        /\ \A q \in Sockets : ToolsOf(q)' = ToolsOf(q)
    BY <2>1, MetaSets
  <2>5. k \notin Live /\ Live' = Live \cup {k} /\ inFlight' = inFlight + 1
    BY <2>1, <2>4
  <2>6. Tools' = Tools \/ (Tools' = Tools \cup {k} /\ inFlight < MaxInFlight)
    BY <2>4
  <2>7. ASSUME NEW q \in Sockets
        PROVE  \/ ToolsOf(q)' = ToolsOf(q) /\ perSock'[q] \in {perSock[q], 0}
               \/ ToolsOf(q)' = ToolsOf(q) \cup {k} /\ perSock'[q] = perSock[q] + 1
    <3>1. perSock'[q] \in {perSock[q], 0}
      BY <2>3
    <3>2. ToolsOf(q)' = ToolsOf(q)
      BY <2>1, MetaSets
    <3> QED BY <3>1, <3>2
  <2> QED BY <2>5, <2>6, <2>7, CallLoad
<1>4. ASSUME NEW k \in Requests, Ends(k) PROVE Load'
  BY <1>4, EndsLoad
<1>5. CASE \/ PruneTimer \/ SessionReaper \/ IdleFires \/ GraceFires \/ ShutdownRuns \/ Signal
           \/ Drained \/ Disposed \/ Exits \/ UNCHANGED vars
  <2>1. UNCHANGED requests
    BY <1>5 DEF PruneTimer, SessionReaper, IdleFires, GraceFires, ShutdownRuns, Signal, Drained,
                Disposed, Exits, vars
  <2>2. perSock' = perSock \/ Drop(Dead) \/ Drop(Sockets)
    BY <1>5 DEF PruneTimer, SessionReaper, IdleFires, GraceFires, ShutdownRuns, Signal, Drained,
                Disposed, Exits, vars, sockets
  <2> QED BY <2>1, <2>2, DropForgets, QuietLoad
<1> QED BY <1>1, <1>2, <1>3, <1>4, <1>5 DEF Next

-----------------------------------------------------------------------------
(* The maps of the server against the connections.                         *)

LEMMA InitMaps == Init => MapInv
<1> SUFFICES ASSUME Init PROVE MapInv
  OBVIOUS
<1>1. NothingLeftBehind /\ Registered
  BY DEF Init, NothingLeftBehind, Registered
<1>2. TokenKept /\ CallsCounted /\ IdleArmed
  BY Zenon DEF Init, TokenKept, CallsCounted, IdleArmed
<1> QED BY <1>1, <1>2 DEF MapInv

(* Forgetting sockets that are not open loses no entry that is needed.     *)
LEMMA DropMaps ==
  ASSUME TypeOK, NothingLeftBehind, Registered, NEW S, Drop(S),
         S \subseteq Dead, conn' = conn, phase' = "up" => phase = "up"
  PROVE  NothingLeftBehind' /\ Registered'
<1>1. NothingLeftBehind'
  BY DEF TypeOK, NothingLeftBehind, Drop
<1>2. Registered'
  BY DEF Registered, Drop, Dead
<1> QED BY <1>1, <1>2

(* gracefulCleanup takes the daemon out of its working phase.              *)
LEMMA Latched ==
  ASSUME BeginCleanup
  PROVE  phase' # "up"
BY DEF BeginCleanup

LEMMA ConnectMaps ==
  ASSUME TypeOK, MapInv, NEW s \in Sockets, Connect(s)
  PROVE  MapInv'
<1>1. NothingLeftBehind'
  BY DEF TypeOK, MapInv, NothingLeftBehind, Connect, Register
<1>2. Registered'
  BY DEF TypeOK, MapInv, Registered, Connect, Register
<1>3. TokenKept' /\ CallsCounted'
  BY Zenon DEF MapInv, TokenKept, CallsCounted, Connect
<1>4. IdleArmed'
  BY DEF TypeOK, IdleArmed, Connect
<1> QED BY <1>1, <1>2, <1>3, <1>4 DEF MapInv

LEMMA LossMaps ==
  ASSUME TypeOK, MapInv, NEW s \in Sockets, Breaks(s) \/ Vanishes(s)
  PROVE  MapInv'
<1>1. /\ conn[s] \in {"open", "ended"}
      /\ conn' \in {[conn EXCEPT ![s] = "down"], [conn EXCEPT ![s] = "phantom"]}
      /\ UNCHANGED <<requireAuth, clients, authed, perSock, timers, phase, calls, acted>>
  BY DEF Breaks, Vanishes
<1>2. NothingLeftBehind' /\ Registered'
  BY <1>1 DEF TypeOK, MapInv, NothingLeftBehind, Registered
<1>3. TokenKept' /\ CallsCounted'
  BY Zenon, <1>1 DEF MapInv, TokenKept, CallsCounted, timers
<1>4. IdleArmed'
  BY <1>1 DEF TypeOK, IdleArmed
<1> QED BY <1>2, <1>3, <1>4 DEF MapInv

(* The close event: what is dropped was closed or lost, and if nobody      *)
(* else is there the idle reaper is armed.                                 *)
LEMMA SocketEventMaps ==
  ASSUME TypeOK, MapInv, NEW s \in Sockets, SocketEvent(s)
  PROVE  MapInv'
<1> DEFINE last == clients \subseteq Dead \cup {s}
<1>1. /\ conn[s] = "down" /\ conn' = [conn EXCEPT ![s] = "closed"]
      /\ Drop(Dead \cup {s}) /\ ArmIdle(last)
      /\ UNCHANGED <<requireAuth, acted>>
  BY DEF SocketEvent
<1>2. \/ supersedeFired' = TRUE /\ calls' = calls + 1 /\ ~supersedeFired /\ phase' # "up"
      \/ UNCHANGED <<supersedeFired, calls, phase>>
  BY Latched DEF SocketEvent, SupersedeReady
<1>3. NothingLeftBehind'
  BY <1>1 DEF TypeOK, MapInv, NothingLeftBehind, Drop
<1>4. Registered'
  BY <1>1, <1>2 DEF TypeOK, MapInv, Registered, Drop, Dead
<1>5. TokenKept'
  BY <1>1 DEF MapInv, TokenKept, Drop
<1>6. CallsCounted'
  BY <1>2 DEF MapInv, CallsCounted, TypeOK
<1>7. IdleArmed'
  <2> SUFFICES ASSUME \A q \in Sockets : conn'[q] \in {"none", "closed"}
               PROVE  idle'
    BY DEF IdleArmed
  <2>1. \A q \in clients : q \in Dead \cup {s}
    BY <1>1 DEF TypeOK, Dead
  <2> QED BY <1>1, <2>1 DEF ArmIdle
<1> QED BY <1>3, <1>4, <1>5, <1>6, <1>7 DEF MapInv

LEMMA CallToolMaps ==
  ASSUME TypeOK, MapInv, NEW k \in Requests, NEW s \in Sockets, CallTool(k, s)
  PROVE  MapInv'
<1> USE DEF timers
<1>1. conn[s] # "closed"
  BY DEF CallTool, Admitted
<1>2. NothingLeftBehind' /\ Registered'
  BY <1>1 DEF TypeOK, MapInv, NothingLeftBehind, Registered, CallTool
<1>3. TokenKept'
  <2>1. requireAuth => s \in authed
    BY DEF CallTool, Admitted, PreAuth
  <2> QED BY <2>1 DEF MapInv, TokenKept, CallTool
<1>4. CallsCounted' /\ IdleArmed'
  BY Zenon DEF MapInv, CallsCounted, IdleArmed, CallTool
<1> QED BY <1>2, <1>3, <1>4 DEF MapInv

(* Only the handshake writes the maps, and it needs a connection that can  *)
(* still talk; only an authenticated socket gets past the gate otherwise.  *)
LEMMA CallMetaMaps ==
  ASSUME TypeOK, MapInv, NEW k \in Requests, NEW s \in Sockets,
         \/ Handshake(k, s) \/ Health(k, s) \/ RequestSupersede(k, s) \/ Shutdown(k, s)
  PROVE  MapInv'
<1> USE DEF timers
<1>1. UNCHANGED <<requireAuth, conn, phase, calls, supersedeFired, idle>>
  BY DEF CallMeta, Handshake, Health, RequestSupersede, Shutdown
<1>2. NothingLeftBehind' /\ Registered'
  <2>1. CASE Handshake(k, s)
    <3>1. conn[s] \in {"open", "ended"} /\ perSock' = perSock
      BY <2>1 DEF Handshake, CallMeta, Admitted
    <3>2. clients' \in {clients, clients \cup {s}} /\ authed' \in {authed, authed \cup {s}}
      BY <2>1 DEF Handshake
    <3> QED BY <1>1, <3>1, <3>2 DEF TypeOK, MapInv, NothingLeftBehind, Registered
  <2>2. CASE Health(k, s)
    <3>1. Drop(Dead)
      BY <2>2 DEF Health
    <3> QED BY <1>1, <3>1, DropMaps DEF MapInv
  <2>3. CASE RequestSupersede(k, s) \/ Shutdown(k, s)
    <3>1. UNCHANGED <<clients, authed, perSock>>
      BY <2>3 DEF RequestSupersede, Shutdown
    <3> QED BY <1>1, <3>1 DEF MapInv, NothingLeftBehind, Registered
  <2> QED BY <2>1, <2>2, <2>3
<1>3. TokenKept'
  <2>1. CASE Handshake(k, s)
    <3>1. acted' = acted /\ (authed' = authed \/ (authed' = authed \cup {s} /\ (requireAuth => s \in Owners)))
      BY <2>1 DEF Handshake
    <3> QED BY <1>1, <3>1 DEF MapInv, TokenKept
  <2>2. CASE Health(k, s)
    <3>1. acted' = acted /\ authed' \subseteq authed
      BY <2>2 DEF Health, Drop
    <3> QED BY <1>1, <3>1 DEF MapInv, TokenKept
  <2>3. CASE RequestSupersede(k, s) \/ Shutdown(k, s)
    <3>1. /\ requireAuth => s \in authed
          /\ authed' = authed /\ (acted' = acted \/ acted' = acted \cup {s})
      BY <2>3 DEF RequestSupersede, Shutdown, CallMeta, Admitted, PreAuth
    <3> QED BY <1>1, <3>1 DEF MapInv, TokenKept
  <2> QED BY <2>1, <2>2, <2>3
<1>4. CallsCounted' /\ IdleArmed'
  BY Zenon, <1>1 DEF MapInv, CallsCounted, IdleArmed
<1> QED BY <1>2, <1>3, <1>4 DEF MapInv

LEMMA EndsMaps ==
  ASSUME TypeOK, LoadBounded, MapInv, NEW k \in Requests, Ends(k)
  PROVE  MapInv'
<1> USE DEF timers
<1>1. \A s \in Sockets : perSock[s] = 0 => perSock'[s] = 0
  BY EndsSets DEF Ends, DecInFlight, TypeOK
<1>2. NothingLeftBehind' /\ Registered'
  BY <1>1 DEF MapInv, NothingLeftBehind, Registered, Ends
<1>3. TokenKept' /\ CallsCounted' /\ IdleArmed'
  BY Zenon DEF MapInv, TokenKept, CallsCounted, IdleArmed, Ends
<1> QED BY <1>2, <1>3 DEF MapInv

(* The sweeps.                                                             *)
LEMMA SweepMaps ==
  ASSUME TypeOK, MapInv, PruneTimer \/ SessionReaper
  PROVE  MapInv'
<1> USE DEF timers
<1>1. /\ Drop(Dead) /\ idle' \in {idle, TRUE}
      /\ UNCHANGED <<requireAuth, conn, supersedeFired, phase, calls, acted>>
  BY DEF PruneTimer, SessionReaper, ArmIdle, TypeOK
<1>2. NothingLeftBehind' /\ Registered'
  BY <1>1, DropMaps DEF MapInv
<1>3. TokenKept'
  BY <1>1 DEF MapInv, TokenKept, Drop
<1>4. CallsCounted' /\ IdleArmed'
  <2>1. idle => idle'
    BY <1>1
  <2> QED BY Zenon, <1>1, <2>1 DEF MapInv, CallsCounted, IdleArmed
<1> QED BY <1>2, <1>3, <1>4 DEF MapInv

(* The ends of the daemon: whatever disarms the idle reaper has left the   *)
(* working phase, except an idle timer that finds clients.                 *)
LEMMA EndingMaps ==
  ASSUME TypeOK, MapInv, IdleFires \/ GraceFires \/ ShutdownRuns \/ Signal
  PROVE  MapInv'
<1> USE DEF timers, sockets
<1>1. UNCHANGED <<requireAuth, conn, acted>>
  BY DEF IdleFires, GraceFires, ShutdownRuns, Signal
<1>2. UNCHANGED <<clients, authed, perSock>> \/ Drop(Dead)
  BY DEF IdleFires, GraceFires, ShutdownRuns, Signal
<1>3. phase' = "up" => phase = "up" /\ (idle' = idle \/ (idle' = FALSE /\ clients # {} /\ clients' = clients))
  BY Latched DEF IdleFires, GraceFires, ShutdownRuns, Signal, EndDaemon
<1>4. \/ supersedeFired' = TRUE /\ calls' = calls + 1 /\ ~supersedeFired
      \/ UNCHANGED <<supersedeFired, calls>>
  BY DEF IdleFires, GraceFires, ShutdownRuns, Signal
<1>5. NothingLeftBehind' /\ Registered'
  <2>1. CASE UNCHANGED <<clients, authed, perSock>>
    BY <1>1, <1>3, <2>1 DEF MapInv, NothingLeftBehind, Registered
  <2>2. CASE Drop(Dead)
    BY <1>1, <1>3, <2>2, DropMaps DEF MapInv
  <2> QED BY <1>2, <2>1, <2>2
<1>6. TokenKept'
  BY <1>1, <1>2 DEF MapInv, TokenKept, Drop
<1>7. CallsCounted'
  BY <1>4 DEF MapInv, CallsCounted, TypeOK
<1>8. IdleArmed'
  <2> SUFFICES ASSUME phase' = "up", \A s \in Sockets : conn'[s] \in {"none", "closed"}
               PROVE  idle'
    BY DEF IdleArmed
  <2>1. clients = {}
    BY <1>1 DEF TypeOK, MapInv, NothingLeftBehind, Registered
  <2>2. idle
    BY <1>1, <1>3 DEF MapInv, IdleArmed
  <2> QED BY <1>3, <2>1, <2>2
<1> QED BY <1>5, <1>6, <1>7, <1>8 DEF MapInv

(* close(), disposal and exit.                                             *)
LEMMA CleanupMaps ==
  ASSUME TypeOK, MapInv, Drained \/ Disposed \/ Exits
  PROVE  MapInv'
<1> USE DEF timers, sockets
<1>1. phase' # "up" /\ UNCHANGED <<requireAuth, supersedeFired, calls, acted>>
  BY DEF Drained, Disposed, Exits
<1>2. NothingLeftBehind' /\ Registered'
  <2>1. CASE Drained
    BY <1>1, <2>1 DEF TypeOK, MapInv, NothingLeftBehind, Registered, Drained, Drop
  <2>2. CASE Disposed \/ Exits
    BY <1>1, <2>2 DEF MapInv, NothingLeftBehind, Registered, Disposed, Exits
  <2> QED BY <2>1, <2>2
<1>3. TokenKept'
  BY <1>1 DEF MapInv, TokenKept, Drained, Disposed, Exits, Drop
<1>4. CallsCounted' /\ IdleArmed'
  BY Zenon, <1>1 DEF MapInv, CallsCounted, IdleArmed
<1> QED BY <1>2, <1>3, <1>4 DEF MapInv

LEMMA NextMaps == TypeOK /\ Load /\ MapInv /\ [Next]_vars => MapInv'
<1> SUFFICES ASSUME TypeOK, Load, MapInv, [Next]_vars PROVE MapInv'
  OBVIOUS
<1>1. CASE UNCHANGED vars
  BY Zenon, <1>1 DEF vars, sockets, timers, MapInv, NothingLeftBehind, Registered, TokenKept,
                     CallsCounted, IdleArmed
<1>2. CASE \E s \in Sockets : Connect(s) \/ Breaks(s) \/ Vanishes(s) \/ SocketEvent(s)
  BY <1>2, ConnectMaps, LossMaps, SocketEventMaps
<1>3. CASE \E k \in Requests, s \in Sockets :
             \/ CallTool(k, s) \/ Handshake(k, s) \/ Health(k, s)
             \/ RequestSupersede(k, s) \/ Shutdown(k, s)
  BY <1>3, CallToolMaps, CallMetaMaps
<1>4. CASE \E k \in Requests : Ends(k)
  BY <1>4, EndsMaps DEF Load
<1>5. CASE PruneTimer \/ SessionReaper \/ IdleFires \/ GraceFires \/ ShutdownRuns \/ Signal
  BY <1>5, SweepMaps, EndingMaps
<1>6. CASE Drained \/ Disposed \/ Exits
  BY <1>6, CleanupMaps
<1> QED BY <1>1, <1>2, <1>3, <1>4, <1>5, <1>6 DEF Next

-----------------------------------------------------------------------------
(* The theorems.                                                           *)

ServerInv == TypeOK /\ Load /\ MapInv

(* The inductive invariant: the counters against the handlers that run,    *)
(* and the maps against the connections.                                   *)
THEOREM ServerInvariant == Spec => []ServerInv
<1>1. Init => ServerInv
  BY ServerInitTypeOK, InitLoad, InitMaps DEF ServerInv
<1>2. ServerInv /\ [Next]_vars => ServerInv'
  BY ServerNextTypeOK, NextLoad, NextMaps DEF ServerInv, Load
<1> QED BY <1>1, <1>2, PTL DEF Spec

(* The server's variables keep their types: in particular its two request  *)
(* counters never go below zero.                                           *)
THEOREM ServerTypeCorrect == Spec => []TypeOK
<1>1. ServerInv => TypeOK
  BY DEF ServerInv
<1> QED BY <1>1, ServerInvariant, PTL

(* However many connections there are, and however many of them break in   *)
(* the middle of a call, no more than MaxInFlight tool requests run, and   *)
(* rpcsInFlight, which close() waits for, is the number of running         *)
(* handlers.                                                               *)
THEOREM LoadIsBounded == Spec => []LoadBounded
<1>1. ServerInv => LoadBounded
  BY DEF ServerInv, Load
<1> QED BY <1>1, ServerInvariant, PTL

(* decInFlightForSocket and the three ways of dropping a socket never      *)
(* leave a connection charged with a request that has ended.               *)
THEOREM QuotaIsReturned == Spec => []QuotaNotLeaked
<1>1. ServerInv => QuotaNotLeaked
  BY DEF ServerInv, Load
<1> QED BY <1>1, ServerInvariant, PTL

(* The gate of dispatchLine: on TCP only owners of the token run a tool or *)
(* change the life cycle of the daemon.                                    *)
THEOREM GateHolds == Spec => []OwnersOnly
<1>1. ServerInv => OwnersOnly
  BY DEF ServerInv, MapInv, TokenKept, OwnersOnly
<1> QED BY <1>1, ServerInvariant, PTL

(* A close event leaves nothing of its connection in the three maps, and   *)
(* nothing that still runs for it puts anything back.                      *)
THEOREM ClosedIsForgotten == Spec => []NothingLeftBehind
<1>1. ServerInv => NothingLeftBehind
  BY DEF ServerInv, MapInv
<1> QED BY <1>1, ServerInvariant, PTL

(* A supersede is carried out by one of its two paths, never by both.      *)
THEOREM SupersedeOnce == Spec => []OneSupersedeCallback
<1>1. ServerInv => OneSupersedeCallback
  BY DEF ServerInv, MapInv, CallsCounted, OneSupersedeCallback
<1> QED BY <1>1, ServerInvariant, PTL

(* The last clean disconnect always finds or leaves the idle reaper armed. *)
THEOREM ReaperIsArmed == Spec => []IdleArmed
<1>1. ServerInv => IdleArmed
  BY DEF ServerInv, MapInv
<1> QED BY <1>1, ServerInvariant, PTL

(* The idle reaper and the graceful supersede end the daemon only when no  *)
(* connection is open.                                                     *)
THEOREM EndsInPeace == Spec => PeacefulEnd
<1> DEFINE Peaceful == IdleFires \/ (\E s \in Sockets : SocketEvent(s)) =>
                         phase' = phase \/ \A s \in Sockets : conn'[s] # "open"
<1>1. ServerInv /\ [Next]_vars => [Peaceful]_vars
  <2> SUFFICES ASSUME ServerInv PROVE Peaceful
    OBVIOUS
  <2>1. /\ phase = "up" => \A s \in Sockets : conn[s] = "open" => s \in clients
        /\ conn \in [Sockets -> ConnStates]
    BY DEF ServerInv, MapInv, Registered, TypeOK
  <2>2. CASE IdleFires
    <3>1. phase' = phase \/ (clients = {} /\ phase = "up" /\ conn' = conn)
      BY <2>2 DEF IdleFires, BeginCleanup, sockets
    <3> QED BY <2>1, <3>1
  <2>3. ASSUME NEW s \in Sockets, SocketEvent(s)
        PROVE  phase' = phase \/ \A q \in Sockets : conn'[q] # "open"
    <3>1. phase' = phase \/ (clients \subseteq Dead \cup {s} /\ phase = "up")
      BY <2>3 DEF SocketEvent, BeginCleanup
    <3>2. conn' = [conn EXCEPT ![s] = "closed"]
      BY <2>3 DEF SocketEvent
    <3> QED BY <2>1, <3>1, <3>2 DEF Dead
  <2> QED BY <2>2, <2>3
<1> QED BY <1>1, ServerInvariant, PTL DEF Spec, PeacefulEnd

(* gracefulCleanup runs once: nothing takes the end of the daemon back.    *)
THEOREM CleansUpOnce == Spec => CleanupOnce
<1>1. ServerInv /\ [Next]_vars => [Stage[phase'] >= Stage[phase]]_vars
  <2> SUFFICES ASSUME ServerInv, [Next]_vars PROVE Stage[phase'] >= Stage[phase]
    OBVIOUS
  <2>1. phase \in Phases
    BY DEF ServerInv, TypeOK
  <2>2. \/ phase' = phase \/ BeginCleanup
        \/ phase = "draining" /\ phase' = "ending"
        \/ phase = "ending" /\ phase' = "disposed"
        \/ phase # "gone" /\ phase' = "gone"
    BY DEF Next, vars, Connect, Breaks, Vanishes, SocketEvent, CallTool, CallMeta, Handshake,
           Health, RequestSupersede, Shutdown, Ends, PruneTimer, SessionReaper, IdleFires,
           GraceFires, ShutdownRuns, Signal, EndDaemon, Drained, Disposed, Exits
  <2> QED BY <2>1, <2>2 DEF Stage, Phases, BeginCleanup
<1> QED BY <1>1, ServerInvariant, PTL DEF Spec, CleanupOnce

-----------------------------------------------------------------------------
(* The three properties that the parts above make up.                      *)

(* The counters are exact where they bound the load, and never charge a    *)
(* connection for what has ended; and only owners get through the gate.    *)
THEOREM AdmissionHolds == Spec => []Admission
<1>1. LoadBounded /\ QuotaNotLeaked /\ OwnersOnly => Admission
  BY DEF Admission, Counters
<1> QED BY <1>1, LoadIsBounded, QuotaIsReturned, GateHolds, PTL

(* The maps and the timers agree with the connections.                     *)
THEOREM MapsHold == Spec => []Maps
<1>1. NothingLeftBehind /\ IdleArmed /\ OneSupersedeCallback => Maps
  BY DEF Maps
<1> QED BY <1>1, ClosedIsForgotten, ReaperIsArmed, SupersedeOnce, PTL

(* A daemon ends once, and of itself only when it is nobody's.             *)
THEOREM EndingsHold == Spec => Endings
BY CleansUpOnce, EndsInPeace DEF Endings
=============================================================================
