---------------------------- MODULE Calls_proofs ----------------------------
(* Proofs about the two modules that MCCalls composes: which socket a      *)
(* close event is about, when a call may be sent and run again, and what   *)
(* embed() hands out.                                                      *)
EXTENDS MCCalls, SequenceTheorems, TLAPS

-----------------------------------------------------------------------------
(* The relay.  A client has its socket to itself: a socket that is not     *)
(* closed is that of its client, or the client has none.                   *)
SocketsFit ==
  /\ \A i \in Clients : cur[i] # 0 => life[cur[i]] # "closed" /\ owner[cur[i]] = i
  /\ \A s \in Sockets : life[s] # "closed" => owner[s] \in Clients /\ cur[owner[s]] \in {0, s}

(* A client that is dialed, or that will be, has no socket left to close.  *)
Bare(i) == cur[i] = 0 /\ \A s \in Sockets : life[s] # "closed" => owner[s] # i

DialsFit ==
  /\ flight # "none" => ipc = 0
  /\ fresh = 0 <=> flight \in {"none", "ensure"}
  /\ flight \in {"dial", "redial"} => Bare(fresh)
  /\ flight \in {"greet", "supersede", "health", "shutdown"} => cur[fresh] # 0
  /\ flight = "redial" => fresh \in stripped
  /\ flight \in {"supersede", "health"} => cur[fresh] \in greeted \/ fresh \in stripped
  /\ fresh \notin dialing
  /\ \A i \in dialing : Bare(i)
  /\ ipc # 0 /\ cur[ipc] = 0 => Bare(ipc)

(* A call that was sent is on a socket of its client; if it was sent again *)
(* the socket is greeted or the client was stripped, and only in the       *)
(* latter case is it sent again after a dial.                              *)
CallFits(c) ==
  /\ reply[c] # "none" <=> pc[c] = "sent"
  /\ pc[c] = "sent" =>
       /\ on[c] \in Sockets /\ life[on[c]] # "closed" /\ owner[on[c]] = via[c] /\ via[c] # fresh
       /\ c \in second => on[c] \in greeted \/ via[c] \in stripped
  /\ pc[c] = "dial" => via[c] \in dialing /\ (c \in second => via[c] \in stripped)
  /\ pc[c] \in {"new", "backoff"} => c \notin second

(* The first attempt counts only if it may have run: it was cut off, or    *)
(* the daemon was busy.                                                    *)
Before(c) == IF c \in second /\ first[c] \in {"cut", "busy"} THEN 1 ELSE 0
RunsCounted(c) ==
  /\ ran[c] <= Before(c) + 1
  /\ pc[c] \in {"new", "wait", "dial"} \/ reply[c] \in {"asked", "lost", "boot", "unauth"}
       => ran[c] <= Before(c)
  /\ pc[c] = "backoff" => first[c] \in Transient
  /\ pc[c] = "backoff" /\ first[c] \notin {"cut", "busy"} => ran[c] = 0

(* The types, by what they are about.                                      *)
DaemonTypes ==
  mode \in {"down", "boot", "up"} /\ outdated \in BOOLEAN /\ enforced \in BOOLEAN
RelayTypes ==
  /\ ipc \in 0..MaxClients /\ flight \in Flights
  /\ recycled \in BOOLEAN /\ fresh \in 0..MaxClients /\ stripped \subseteq Clients
SocketTypes ==
  /\ cur \in [Clients -> 0..MaxSockets] /\ dialing \subseteq Clients
  /\ owner \in [Sockets -> 0..MaxClients]
  /\ life \in [Sockets -> {"open", "ended", "dead", "closed"}]
  /\ greeted \subseteq Sockets
CallTypes ==
  /\ pc \in [Calls -> {"new", "wait", "dial", "sent", "backoff"} \cup Ended]
  /\ second \subseteq Calls
  /\ via \in [Calls -> 0..MaxClients] /\ on \in [Calls -> 0..MaxSockets]
  /\ first \in [Calls -> Transient \cup {"none"}]
  /\ reply \in [Calls -> {"none", "asked", "lost", "ok", "busy", "boot", "unauth"}]
  /\ ran \in [Calls -> Nat]
Types == DaemonTypes /\ RelayTypes /\ SocketTypes /\ CallTypes /\ faults \in 0..MaxFaults

RelayInv ==
  /\ Types /\ SocketsFit /\ DialsFit
  /\ \A c \in Calls : CallFits(c) /\ RunsCounted(c)

LEMMA RelayTypeOK == RelayInv => TypeOK
<1> SUFFICES ASSUME RelayInv PROVE TypeOK
  OBVIOUS
<1>1. Types /\ \A c \in Calls : RunsCounted(c)
  BY DEF RelayInv
<1>2. ran \in [Calls -> 0..2]
  <2>1. ran \in [Calls -> Nat]
    BY <1>1 DEF Types, CallTypes
  <2>2. ASSUME NEW c \in Calls PROVE ran[c] \in 0..2
    BY <1>1, <2>1 DEF RunsCounted, Before
  <2> QED
    BY <2>1, <2>2
<1> QED
  BY <1>1, <1>2 DEF Types, DaemonTypes, RelayTypes, SocketTypes, CallTypes, TypeOK

LEMMA RelayStart == Init => RelayInv
<1> SUFFICES ASSUME Init PROVE RelayInv
  OBVIOUS
<1> USE RelayAssumption DEF Init
<1>1. Types
  <2>1. 0 \in 0..MaxClients /\ 0 \in 0..MaxSockets /\ 0 \in 0..MaxFaults
    OBVIOUS
  <2>2. DaemonTypes
    BY DEF DaemonTypes
  <2>3. RelayTypes
    BY <2>1 DEF RelayTypes, Flights
  <2>4. SocketTypes
    BY <2>1 DEF SocketTypes
  <2>5. CallTypes
    BY <2>1 DEF CallTypes
  <2> QED
    BY <2>1, <2>2, <2>3, <2>4, <2>5 DEF Types
<1>2. SocketsFit /\ DialsFit
  BY DEF SocketsFit, DialsFit
<1>3. \A c \in Calls : CallFits(c) /\ RunsCounted(c)
  BY DEF CallFits, RunsCounted, Before
<1> QED
  BY <1>1, <1>2, <1>3 DEF RelayInv

-----------------------------------------------------------------------------
(* What a step does to a call: nothing, or it writes, rejects or forgets   *)
(* it.                                                                     *)
Kept(d) == reply'[d] = reply[d] /\ via'[d] = via[d] /\ on'[d] = on[d] /\ ran'[d] = ran[d]
Forgotten(d) ==
  /\ reply'[d] = "none" /\ via'[d] = 0 /\ on'[d] = 0
  /\ ran'[d] = ran[d] \/ (reply[d] = "asked" /\ ran'[d] = ran[d] + 1)
Same(d) == Kept(d) /\ pc'[d] = pc[d] /\ first'[d] = first[d] /\ (d \in second' <=> d \in second)
Out(d, why) ==
  /\ Forgotten(d) /\ pc'[d] = After(d, why) /\ (d \in second' <=> d \in second)
  /\ first'[d] = IF d \notin second /\ why \in Transient THEN why ELSE first[d]
Sent(d, i, s) ==
  /\ pc'[d] = "sent" /\ via'[d] = i /\ on'[d] = s /\ reply'[d] = "asked"
  /\ first'[d] = first[d] /\ ran'[d] = ran[d] /\ (d \in second' <=> d \in second)

LEMMA ForgetDoes ==
  ASSUME CallTypes, NEW C \in SUBSET Calls, Forget(C)
  PROVE  /\ via' \in [Calls -> 0..MaxClients] /\ on' \in [Calls -> 0..MaxSockets]
         /\ reply' \in [Calls -> {"none", "asked", "lost", "ok", "busy", "boot", "unauth"}]
         /\ ran' \in [Calls -> Nat]
         /\ \A d \in C : Forgotten(d)
         /\ \A d \in Calls \ C : Kept(d)
<1>1. PICK R \in SUBSET {c \in C : MayRun(c)} :
        ran' = [c \in Calls |-> IF c \in R THEN ran[c] + 1 ELSE ran[c]]
  BY DEF Forget
<1>2. \A d \in R : d \in C /\ reply[d] = "asked"
  BY DEF MayRun
<1>3. ran' \in [Calls -> Nat]
  BY <1>1 DEF CallTypes
<1>4. /\ via' \in [Calls -> 0..MaxClients] /\ on' \in [Calls -> 0..MaxSockets]
      /\ reply' \in [Calls -> {"none", "asked", "lost", "ok", "busy", "boot", "unauth"}]
  BY RelayAssumption DEF Forget, CallTypes
<1>5. \A d \in C : Forgotten(d)
  BY <1>1, <1>2 DEF Forget, Forgotten, CallTypes
<1>6. \A d \in Calls \ C : Kept(d)
  BY <1>1, <1>2 DEF Forget, Kept, CallTypes
<1> QED
  BY <1>3, <1>4, <1>5, <1>6

LEMMA RejectDoes ==
  ASSUME CallTypes, NEW C \in SUBSET Calls, NEW why, Reject(C, why), UNCHANGED second
  PROVE  /\ CallTypes'
         /\ \A d \in C : Out(d, why)
         /\ \A d \in Calls \ C : Same(d)
<1>1. Forget(C) /\ pc' = Rejected(C, why) /\ first' = Noted(C, why)
  BY DEF Reject
<1>2. \A d \in Calls : After(d, why) \in {"backoff", "failed"}
  BY DEF After
<1>3. CallTypes'
  BY <1>1, <1>2, ForgetDoes DEF CallTypes, Rejected, Noted, Ended
<1>4. \A d \in C : Out(d, why)
  BY <1>1, ForgetDoes DEF Out, Rejected, Noted
<1>5. \A d \in Calls \ C : Same(d)
  BY <1>1, ForgetDoes DEF Same, Rejected, Noted
<1> QED
  BY <1>3, <1>4, <1>5

LEMMA WriteDoes ==
  ASSUME CallTypes, NEW C \in SUBSET Calls, NEW i \in 0..MaxClients, NEW s \in 0..MaxSockets,
         Write(C, i, s), UNCHANGED <<second, first, ran>>
  PROVE  /\ CallTypes'
         /\ \A d \in C : Sent(d, i, s)
         /\ \A d \in Calls \ C : Same(d)
<1>1. CallTypes'
  BY DEF Write, CallTypes
<1>2. \A d \in C : Sent(d, i, s)
  BY DEF Write, Sent
<1>3. \A d \in Calls \ C : Same(d)
  BY DEF Write, Same, Kept
<1> QED
  BY <1>1, <1>2, <1>3

(* None of this runs a call too often.                                     *)
LEMMA SameCounts ==
  ASSUME NEW d \in Calls, RunsCounted(d), Same(d)
  PROVE  RunsCounted(d)'
  BY DEF RunsCounted, Before, Same, Kept

LEMMA SentCounts ==
  ASSUME CallTypes, NEW d \in Calls, RunsCounted(d), NEW i, NEW s, Sent(d, i, s),
         pc[d] \in {"new", "wait", "dial"}
  PROVE  RunsCounted(d)'
  BY DEF RunsCounted, Before, Sent, CallTypes

LEMMA OutCounts ==
  ASSUME CallTypes, NEW d \in Calls, RunsCounted(d), NEW why, Out(d, why),
         \/ why \in {"cut", "busy", "error"} \/ reply[d] = why
         \/ pc[d] = "wait" /\ reply[d] = "none"
  PROVE  RunsCounted(d)'
<1>1. /\ ran[d] \in Nat /\ Before(d) \in {0, 1} /\ Before(d)' = IF d \in second THEN Before(d) ELSE 0
  BY DEF CallTypes, Before, Out
<1>2. pc'[d] \in {"backoff", "failed"} /\ reply'[d] = "none"
      /\ (pc'[d] = "backoff" => why \in Transient /\ d \notin second)
  BY DEF Out, After, Forgotten
<1>3. ran'[d] = ran[d] \/ (reply[d] = "asked" /\ ran'[d] = ran[d] + 1)
  BY DEF Out, Forgotten
<1>4. ran'[d] <= Before(d)' + 1
  BY <1>1, <1>3 DEF RunsCounted, Before
<1>5. ASSUME pc'[d] = "backoff"
      PROVE  first'[d] \in Transient /\ (first'[d] \notin {"cut", "busy"} => ran'[d] = 0)
  <2>1. first'[d] = why /\ why \in Transient /\ Before(d) = 0
    BY <1>2, <1>5 DEF Out, Before
  <2>2. CASE why \in {"cut", "busy"}
    BY <2>1, <2>2
  <2>3. CASE reply[d] = why /\ why \in {"boot", "unauth"}
    BY <1>1, <1>3, <2>1, <2>3 DEF RunsCounted
  <2>4. CASE pc[d] = "wait" /\ reply[d] = "none"
    BY <1>1, <1>3, <2>1, <2>4 DEF RunsCounted
  <2> QED
    BY <2>1, <2>2, <2>3, <2>4 DEF Transient
<1> QED
  BY <1>2, <1>4, <1>5 DEF RunsCounted

(* A call that is kept stays where it is; one that is written is on a      *)
(* socket of its client; one that is out is on none.                       *)
LEMMA SameFits ==
  ASSUME NEW d \in Calls, CallFits(d), Same(d),
         pc[d] = "sent" => /\ life'[on[d]] # "closed" /\ owner'[on[d]] = via[d] /\ via[d] # fresh'
                           /\ d \in second => on[d] \in greeted' \/ via[d] \in stripped',
         pc[d] = "dial" => via[d] \in dialing' /\ (d \in second => via[d] \in stripped')
  PROVE  CallFits(d)'
  BY DEF CallFits, Same, Kept

LEMMA SentFits ==
  ASSUME NEW d \in Calls, CallFits(d), NEW i, NEW s \in Sockets, Sent(d, i, s),
         life'[s] # "closed", owner'[s] = i, i # fresh',
         d \in second => s \in greeted' \/ i \in stripped'
  PROVE  CallFits(d)'
  BY DEF CallFits, Sent, Sockets

LEMMA OutFits ==
  ASSUME NEW d \in Calls, NEW why, Out(d, why)
  PROVE  CallFits(d)'
  BY DEF CallFits, Out, Forgotten, After

-----------------------------------------------------------------------------
(* The names that are chosen are free.                                     *)
LEMMA FreeClient ==
  ASSUME FreeClients # {}
  PROVE  First(FreeClients) \in FreeClients
  BY DEF First

LEMMA FreeSocket ==
  ASSUME FreeSockets # {}
  PROVE  First(FreeSockets) \in FreeSockets
  BY DEF First

LEMMA FaultTyped ==
  ASSUME faults \in 0..MaxFaults, faults < MaxFaults, faults' = faults + 1
  PROVE  faults' \in 0..MaxFaults
  BY RelayAssumption

(* Client i, which is bare, gets socket s, which is free.                  *)
LEMMA ConnectedFits ==
  ASSUME SocketTypes, SocketsFit, NEW i \in Clients, NEW s \in FreeSockets, Bare(i),
         Connected(i, s), dialing' \subseteq dialing, greeted' = greeted
  PROVE  /\ SocketTypes' /\ SocketsFit' /\ cur'[i] = s /\ owner'[s] = i /\ life'[s] = "open"
         /\ \A j \in Clients \ {i} : cur'[j] = cur[j] /\ (Bare(j) => Bare(j)')
         /\ \A r \in Sockets \ {s} : owner'[r] = owner[r] /\ life'[r] = life[r]
         /\ \A r \in Sockets : life[r] # "closed" => r # s
<1> USE DEF FreeSockets
<1>1. s \in Sockets /\ s # 0 /\ life[s] = "closed"
  BY DEF Sockets
<1>2. /\ cur'[i] = s /\ owner'[s] = i /\ life'[s] = "open"
      /\ \A j \in Clients \ {i} : cur'[j] = cur[j]
      /\ \A r \in Sockets \ {s} : owner'[r] = owner[r] /\ life'[r] = life[r]
  BY <1>1 DEF Connected, SocketTypes
<1>3. SocketTypes'
  BY <1>1 DEF Connected, SocketTypes, Clients, Sockets
<1>a. \A j \in Clients : cur[j] # 0 => cur[j] \in Sockets
  BY DEF SocketTypes, Sockets
<1>4. SocketsFit'
  <2>1. ASSUME NEW j \in Clients, cur'[j] # 0
        PROVE  life'[cur'[j]] # "closed" /\ owner'[cur'[j]] = j
    <3>1. CASE j = i
      BY <1>2, <3>1
    <3>2. CASE j # i
      <4>1. cur'[j] = cur[j] /\ cur[j] \in Sockets /\ life[cur[j]] # "closed" /\ owner[cur[j]] = j
        BY <1>2, <1>a, <2>1, <3>2 DEF SocketsFit
      <4> QED
        BY <1>1, <1>2, <4>1
    <3> QED
      BY <3>1, <3>2
  <2>2. ASSUME NEW r \in Sockets, life'[r] # "closed"
        PROVE  owner'[r] \in Clients /\ cur'[owner'[r]] \in {0, r}
    <3>1. CASE r = s
      BY <1>2, <3>1
    <3>2. CASE r # s
      <4>1. owner'[r] = owner[r] /\ life[r] # "closed" /\ owner[r] # i
        BY <1>2, <2>2, <3>2 DEF Bare
      <4> QED
        BY <1>2, <4>1 DEF SocketsFit
    <3> QED
      BY <3>1, <3>2
  <2> QED
    BY <2>1, <2>2 DEF SocketsFit
<1>5. \A j \in Clients \ {i} : Bare(j) => Bare(j)'
  BY <1>1, <1>2 DEF Bare
<1> QED
  BY <1>1, <1>2, <1>3, <1>4, <1>5

(* Client i lets go of its socket, which will be closed.                   *)
LEMMA LeaveFits ==
  ASSUME SocketTypes, SocketsFit, NEW i \in Clients, Leave(i),
         UNCHANGED <<owner, dialing>>, greeted' \subseteq Sockets
  PROVE  /\ SocketTypes' /\ SocketsFit' /\ cur'[i] = 0
         /\ \A j \in Clients \ {i} : cur'[j] = cur[j]
         /\ \A r \in Sockets : life'[r] = "closed" <=> life[r] = "closed"
         /\ \A j \in Clients : Bare(j) => Bare(j)'
<1>1. /\ cur'[i] = 0 /\ \A j \in Clients \ {i} : cur'[j] = cur[j]
      /\ \A r \in Sockets : life'[r] = "closed" <=> life[r] = "closed"
  BY DEF Leave, SocketTypes
<1>2. SocketTypes'
  BY RelayAssumption DEF Leave, SocketTypes
<1>a. \A j \in Clients : cur[j] # 0 => cur[j] \in Sockets
  BY DEF SocketTypes, Sockets
<1>3. SocketsFit'
  <2>1. ASSUME NEW j \in Clients, cur'[j] # 0
        PROVE  life'[cur'[j]] # "closed" /\ owner'[cur'[j]] = j
    <3>1. cur'[j] = cur[j] /\ cur[j] \in Sockets /\ life[cur[j]] # "closed" /\ owner[cur[j]] = j
      BY <1>1, <1>a, <2>1 DEF SocketsFit
    <3> QED
      BY <1>1, <3>1
  <2>2. ASSUME NEW r \in Sockets, life'[r] # "closed"
        PROVE  owner'[r] \in Clients /\ cur'[owner'[r]] \in {0, r}
    <3>1. owner[r] \in Clients /\ cur[owner[r]] \in {0, r}
      BY <1>1, <2>2 DEF SocketsFit
    <3>2. cur'[owner[r]] \in {0, cur[owner[r]]}
      BY <1>1, <3>1
    <3> QED
      BY <3>1, <3>2
  <2> QED
    BY <2>1, <2>2 DEF SocketsFit
<1>4. \A j \in Clients : Bare(j) => Bare(j)'
  BY <1>1 DEF Bare
<1> QED
  BY <1>1, <1>2, <1>3, <1>4

(* Nothing new happens to the sockets, but that open ones may break.       *)
LEMMA BreaksFit ==
  ASSUME SocketTypes, SocketsFit, UNCHANGED <<cur, owner>>, dialing' \subseteq Clients,
         greeted' \subseteq Sockets,
         life' \in [Sockets -> {"open", "ended", "dead", "closed"}],
         \A r \in Sockets : life'[r] = "closed" <=> life[r] = "closed"
  PROVE  SocketTypes' /\ SocketsFit' /\ \A j : Bare(j) => Bare(j)'
<1>1. SocketTypes'
  BY DEF SocketTypes
<1>2. SocketsFit'
  <2>1. ASSUME NEW j \in Clients, cur'[j] # 0
        PROVE  life'[cur'[j]] # "closed" /\ owner'[cur'[j]] = j
    <3>1. cur[j] \in Sockets /\ life[cur[j]] # "closed" /\ owner[cur[j]] = j
      BY <2>1 DEF SocketsFit, SocketTypes, Sockets
    <3> QED
      BY <3>1
  <2>2. \A r \in Sockets : life'[r] # "closed" => owner'[r] \in Clients /\ cur'[owner'[r]] \in {0, r}
    BY DEF SocketsFit
  <2> QED
    BY <2>1, <2>2 DEF SocketsFit
<1>3. \A j : Bare(j) => Bare(j)'
  BY DEF Bare
<1> QED
  BY <1>1, <1>2, <1>3

-----------------------------------------------------------------------------
LEMMA ArriveKeeps == ASSUME RelayInv, NEW c \in Calls, Arrive(c) PROVE RelayInv'
<1> USE DEF daemon, relay, sockets, call, wire
<1>0. /\ Types /\ SocketsFit /\ DialsFit
      /\ DaemonTypes /\ RelayTypes /\ SocketTypes /\ CallTypes
  BY DEF RelayInv, Types
<1>1. /\ pc[c] = "new" /\ UNCHANGED <<daemon, ipc, fresh, stripped, cur, owner, life, greeted>>
      /\ UNCHANGED faults /\ UNCHANGED <<second, first, ran>>
  BY DEF Arrive
<1>2. /\ dialing' \subseteq Clients /\ DialsFit' /\ dialing \subseteq dialing'
      /\ RelayTypes'
  <2>1. CASE dialing' = dialing /\ UNCHANGED <<flight, recycled>>
    BY <1>0, <1>1, <2>1 DEF DialsFit, Bare, RelayTypes, SocketTypes
  <2>2. CASE dialing' = dialing \cup {ipc} /\ ipc # 0 /\ cur[ipc] = 0
             /\ UNCHANGED <<flight, recycled>>
    <3>1. ipc \in Clients /\ ipc # fresh /\ Bare(ipc)
      BY <1>0, <2>2 DEF DialsFit, RelayTypes, Clients
    <3> QED
      BY <1>0, <1>1, <2>2, <3>1 DEF DialsFit, Bare, RelayTypes, SocketTypes
  <2>3. CASE dialing' = dialing /\ ipc = 0 /\ Board
    BY <1>0, <1>1, <2>3 DEF Board, DialsFit, Bare, RelayTypes, SocketTypes, Flights
  <2> QED
    BY <2>1, <2>2, <2>3 DEF Arrive
<1>3. SocketTypes' /\ SocketsFit'
  BY <1>0, <1>1, <1>2 DEF SocketTypes, SocketsFit
<1>4. /\ CallTypes' /\ (\A d \in Calls \ {c} : Same(d))
      /\ \/ Sent(c, ipc, cur[ipc]) /\ ipc \in Clients /\ cur[ipc] \in Sockets
         \/ /\ pc'[c] = "dial" /\ via'[c] = ipc /\ ipc \in dialing'
            /\ reply'[c] = reply[c] /\ ran'[c] = ran[c] /\ UNCHANGED <<second, first>>
         \/ /\ pc'[c] = "wait" /\ Kept(c) /\ UNCHANGED <<second, first>>
  <2>1. CASE ipc # 0 /\ cur[ipc] # 0 /\ Write({c}, ipc, cur[ipc])
    <3>1. ipc \in Clients /\ cur[ipc] \in Sockets /\ cur[ipc] \in 0..MaxSockets
      BY <1>0, <2>1, RelayAssumption DEF RelayTypes, SocketTypes, Clients, Sockets
    <3>2. CallTypes' /\ Sent(c, ipc, cur[ipc]) /\ \A d \in Calls \ {c} : Same(d)
      BY <1>0, <1>1, <2>1, <3>1, WriteDoes DEF RelayTypes
    <3> QED
      BY <3>1, <3>2
  <2>2. CASE /\ dialing' = dialing \cup {ipc} /\ pc' = [pc EXCEPT ![c] = "dial"]
             /\ via' = [via EXCEPT ![c] = ipc] /\ UNCHANGED <<on, reply>>
    BY <1>0, <1>1, <2>2 DEF CallTypes, RelayTypes, Same, Kept
  <2>3. CASE pc' = [pc EXCEPT ![c] = "wait"] /\ UNCHANGED <<via, on, reply>>
    BY <1>0, <1>1, <2>3 DEF CallTypes, Same, Kept
  <2> QED
    BY <2>1, <2>2, <2>3 DEF Arrive
<1>5. ASSUME NEW d \in Calls PROVE CallFits(d)' /\ RunsCounted(d)'
  <2>1. CallFits(d) /\ RunsCounted(d)
    BY DEF RelayInv
  <2>2. CASE Same(d)
    BY <1>0, <1>1, <1>2, <2>1, <2>2, SameCounts, SameFits DEF CallFits
  <2>3. CASE d = c /\ ~Same(d)
    <3>1. CASE Sent(c, ipc, cur[ipc]) /\ ipc \in Clients /\ cur[ipc] \in Sockets
      <4>1. cur[ipc] # 0 /\ c \notin second /\ ipc # fresh
        BY <1>0, <1>1, <2>1, <2>3, <3>1 DEF Sockets, Clients, CallFits, DialsFit
      <4>2. life'[cur[ipc]] # "closed" /\ owner'[cur[ipc]] = ipc /\ ipc # fresh'
        BY <1>0, <1>1, <3>1, <4>1 DEF SocketsFit
      <4> QED
        BY <1>0, <1>1, <2>1, <2>3, <3>1, <4>1, <4>2, SentCounts, SentFits
    <3>2. CASE pc'[c] = "dial" \/ pc'[c] = "wait"
      BY <1>0, <1>1, <1>4, <2>1, <2>3, <3>2 DEF CallFits, RunsCounted, Before, Sent, Kept
    <3> QED
      BY <1>4, <3>1, <3>2, <2>3
  <2> QED
    BY <1>4, <2>2, <2>3
<1>6. DaemonTypes' /\ faults' \in 0..MaxFaults
  BY <1>0, <1>1 DEF DaemonTypes, Types
<1> QED
  BY <1>2, <1>3, <1>4, <1>5, <1>6 DEF RelayInv, Types

LEMMA DialLandsKeeps == ASSUME RelayInv, NEW i \in Clients, DialLands(i) PROVE RelayInv'
<1> USE DEF daemon, relay, sockets, call, wire
<1>0. /\ Types /\ SocketsFit /\ DialsFit
      /\ DaemonTypes /\ RelayTypes /\ SocketTypes /\ CallTypes
  BY DEF RelayInv, Types
<1>1. PICK s \in FreeSockets :
        /\ i \in dialing /\ dialing' = dialing \ {i} /\ Connected(i, s)
        /\ Write({c \in Calls : pc[c] = "dial" /\ via[c] = i}, i, s)
        /\ UNCHANGED <<daemon, relay, greeted, second, first, ran, faults>>
  BY FreeSocket DEF DialLands
<1>2. Bare(i) /\ i # fresh /\ i \in 0..MaxClients /\ s \in Sockets /\ s \in 0..MaxSockets
  BY <1>0, <1>1, RelayAssumption DEF DialsFit, Clients, FreeSockets, Sockets
<1>3. /\ SocketTypes' /\ SocketsFit' /\ cur'[i] = s /\ owner'[s] = i /\ life'[s] = "open"
      /\ \A j \in Clients \ {i} : cur'[j] = cur[j] /\ (Bare(j) => Bare(j)')
      /\ \A r \in Sockets \ {s} : owner'[r] = owner[r] /\ life'[r] = life[r]
      /\ \A r \in Sockets : life[r] # "closed" => r # s
  BY <1>0, <1>1, <1>2, ConnectedFits
<1>4. DialsFit'
  <2>1. ASSUME ipc # 0, cur'[ipc] = 0 PROVE Bare(ipc)'
    <3>1. ipc \in Clients /\ s # 0
      BY <1>0, <1>2, <2>1 DEF RelayTypes, Clients, Sockets
    <3>2. ipc # i
      BY <1>3, <2>1, <3>1
    <3>3. cur[ipc] = 0
      BY <1>3, <2>1, <3>1, <3>2
    <3>4. Bare(ipc) /\ ipc' = ipc
      BY <1>0, <1>1, <2>1, <3>3 DEF DialsFit
    <3> QED
      BY <1>3, <3>1, <3>2, <3>4 DEF Bare
  <2>2. ASSUME flight \in {"dial", "redial"} PROVE Bare(fresh)'
    <3>1. fresh \in Clients /\ fresh' = fresh /\ Bare(fresh)
      BY <1>0, <1>1, <2>2 DEF DialsFit, RelayTypes, Clients
    <3> QED
      BY <1>2, <1>3, <3>1 DEF Bare
  <2>3. flight \in {"greet", "supersede", "health", "shutdown"} => cur'[fresh] = cur[fresh]
    BY <1>0, <1>2, <1>3 DEF DialsFit, RelayTypes, Clients
  <2>4. \A j \in dialing' : Bare(j)'
    BY <1>0, <1>1, <1>3 DEF DialsFit, SocketTypes
  <2> QED
    BY <1>0, <1>1, <2>1, <2>2, <2>3, <2>4 DEF DialsFit
<1>5. DEFINE C == {c \in Calls : pc[c] = "dial" /\ via[c] = i}
<1>6. CallTypes' /\ (\A d \in C : Sent(d, i, s)) /\ (\A d \in Calls \ C : Same(d))
  BY <1>0, <1>1, <1>2, WriteDoes
<1>7. ASSUME NEW d \in Calls PROVE CallFits(d)' /\ RunsCounted(d)'
  <2>1. CallFits(d) /\ RunsCounted(d)
    BY DEF RelayInv
  <2>2. CASE d \in C
    <3>1. Sent(d, i, s) /\ pc[d] = "dial" /\ (d \in second => i \in stripped)
      BY <1>6, <2>1, <2>2 DEF CallFits
    <3>2. i # fresh' /\ life'[s] # "closed" /\ owner'[s] = i /\ stripped' = stripped
      BY <1>1, <1>2, <1>3
    <3> QED
      BY <1>0, <1>2, <2>1, <3>1, <3>2, SentCounts, SentFits
  <2>3. CASE d \notin C
    <3>1. Same(d)
      BY <1>6, <2>3
    <3>2. pc[d] = "dial" => via[d] \in dialing' /\ (d \in second => via[d] \in stripped')
      BY <1>1, <2>1, <2>3 DEF CallFits
    <3>3. pc[d] = "sent" => /\ life'[on[d]] # "closed" /\ owner'[on[d]] = via[d] /\ via[d] # fresh'
                            /\ d \in second => on[d] \in greeted' \/ via[d] \in stripped'
      BY <1>1, <1>3, <2>1 DEF CallFits
    <3> QED
      BY <2>1, <3>1, <3>2, <3>3, SameCounts, SameFits
  <2> QED
    BY <2>2, <2>3
<1>8. DaemonTypes' /\ RelayTypes' /\ faults' \in 0..MaxFaults
  BY <1>0, <1>1 DEF DaemonTypes, RelayTypes, Types
<1> QED
  BY <1>3, <1>4, <1>6, <1>7, <1>8 DEF RelayInv, Types

(* The steps that leave the sockets, the dials and the daemon's flight     *)
(* alone, and only touch calls.                                            *)
LEMMA CallsKeep ==
  ASSUME RelayInv, UNCHANGED <<daemon, relay, sockets>>, CallTypes', faults' \in 0..MaxFaults,
         NEW C \in SUBSET Calls, \A d \in C : CallFits(d)' /\ RunsCounted(d)',
         \A d \in Calls \ C : Same(d)
  PROVE  RelayInv'
<1> USE DEF daemon, relay, sockets
<1>1. DaemonTypes' /\ RelayTypes' /\ SocketTypes' /\ SocketsFit' /\ DialsFit'
  BY DEF RelayInv, Types, DaemonTypes, RelayTypes, SocketTypes, SocketsFit, DialsFit, Bare
<1>2. ASSUME NEW d \in Calls \ C PROVE CallFits(d)' /\ RunsCounted(d)'
  <2>1. CallFits(d) /\ RunsCounted(d) /\ Same(d)
    BY <1>2 DEF RelayInv
  <2> QED
    BY <2>1, SameCounts, SameFits DEF CallFits
<1> QED
  BY <1>1, <1>2 DEF RelayInv, Types

LEMMA CallStepsKeep ==
  ASSUME RelayInv, NEW c \in Calls, Answer(c) \/ CallTimesOut(c) \/ Refuse(c) \/ Run(c)
  PROVE  RelayInv'
<1> USE DEF call, wire
<1>0. CallTypes /\ CallFits(c) /\ RunsCounted(c) /\ faults \in 0..MaxFaults
  BY DEF RelayInv, Types
<1>1. CASE (Answer(c) /\ reply[c] = "ok") \/ CallTimesOut(c)
  <2>1. /\ pc[c] = "sent" /\ UNCHANGED <<daemon, relay, sockets, second, first, faults>>
        /\ pc' = [pc EXCEPT ![c] = "answered"] \/ pc' = [pc EXCEPT ![c] = "timedOut"]
        /\ Forget({c})
    BY <1>1 DEF Answer, CallTimesOut
  <2>2. CallTypes' /\ Forgotten(c) /\ \A d \in Calls \ {c} : Same(d)
    BY <1>0, <2>1, ForgetDoes DEF CallTypes, Same, Ended
  <2>3. CallFits(c)' /\ RunsCounted(c)'
    BY <1>0, <2>1, <2>2 DEF CallFits, RunsCounted, Before, Forgotten, CallTypes
  <2> QED
    BY <1>0, <2>1, <2>2, <2>3, CallsKeep
<1>2. CASE Answer(c) /\ reply[c] # "ok"
  <2>1. /\ UNCHANGED <<daemon, relay, sockets, second, faults>> /\ Reject({c}, reply[c])
    BY <1>2 DEF Answer
  <2>2. CallTypes' /\ Out(c, reply[c]) /\ \A d \in Calls \ {c} : Same(d)
    BY <1>0, <2>1, RejectDoes
  <2>3. CallFits(c)' /\ RunsCounted(c)'
    BY <1>0, <2>2, OutFits, OutCounts
  <2> QED
    BY <1>0, <2>1, <2>2, <2>3, CallsKeep
<1>3. CASE Refuse(c) \/ Run(c)
  <2>1. PICK what \in {"ok", "busy", "boot", "unauth"} :
          /\ reply[c] = "asked" /\ reply' = [reply EXCEPT ![c] = what]
          /\ UNCHANGED <<daemon, relay, sockets, pc, second, via, on, first>>
          /\ ran' = ran \/ (ran' = [ran EXCEPT ![c] = @ + 1] /\ what \in {"ok", "busy"})
    BY <1>3 DEF Refuse, Run, Respond, MayRun
  <2>2. faults' \in 0..MaxFaults
    BY <1>0, <1>3, FaultTyped DEF Refuse, Run
  <2>3. CallTypes' /\ \A d \in Calls \ {c} : Same(d)
    BY <1>0, <2>1 DEF CallTypes, Same, Kept
  <2>4. CallFits(c)'
    BY <1>0, <2>1 DEF CallFits, CallTypes, sockets, relay
  <2>5. reply'[c] = what /\ (ran'[c] = ran[c] \/ (ran'[c] = ran[c] + 1 /\ what \in {"ok", "busy"}))
        /\ ran[c] \in Nat /\ Before(c)' = Before(c) /\ Before(c) \in {0, 1}
        /\ pc'[c] = pc[c] /\ pc[c] = "sent"
    BY <1>0, <2>1 DEF CallTypes, Before, CallFits
  <2>6. RunsCounted(c)'
    BY <1>0, <2>1, <2>5 DEF RunsCounted
  <2>7. UNCHANGED <<daemon, relay, sockets>>
    BY <2>1
  <2>8. {c} \in SUBSET Calls /\ \A d \in {c} : CallFits(d)' /\ RunsCounted(d)'
    BY <2>4, <2>6
  <2> QED
    BY <2>2, <2>3, <2>7, <2>8, CallsKeep
<1> QED
  BY <1>1, <1>2, <1>3

LEMMA DialRefusedKeeps == ASSUME RelayInv, NEW i \in Clients, DialRefused(i) PROVE RelayInv'
<1> USE DEF daemon, relay, sockets, call, wire
<1> DEFINE C == {c \in Calls : pc[c] = "dial" /\ via[c] = i}
<1>0. /\ Types /\ SocketsFit /\ DialsFit
      /\ DaemonTypes /\ RelayTypes /\ SocketTypes /\ CallTypes
  BY DEF RelayInv, Types
<1>1. /\ dialing' = dialing \ {i} /\ Forget(C)
      /\ pc' = [c \in Calls |-> IF c \in C THEN "refused" ELSE pc[c]]
      /\ UNCHANGED <<daemon, relay, cur, owner, life, greeted, second, first, faults>>
  BY DEF DialRefused
<1>2. DaemonTypes' /\ RelayTypes' /\ SocketTypes' /\ SocketsFit' /\ DialsFit'
  BY <1>0, <1>1
  DEF DaemonTypes, RelayTypes, SocketTypes, SocketsFit, DialsFit, Bare
<1>3. /\ via' \in [Calls -> 0..MaxClients] /\ on' \in [Calls -> 0..MaxSockets]
      /\ reply' \in [Calls -> {"none", "asked", "lost", "ok", "busy", "boot", "unauth"}]
      /\ ran' \in [Calls -> Nat]
      /\ (\A d \in C : Forgotten(d)) /\ \A d \in Calls \ C : Kept(d)
  BY <1>0, <1>1, ForgetDoes
<1>4. CallTypes'
  BY <1>0, <1>1, <1>3 DEF CallTypes, Ended
<1>5. ASSUME NEW d \in Calls PROVE CallFits(d)' /\ RunsCounted(d)'
  <2>1. CallFits(d) /\ RunsCounted(d)
    BY DEF RelayInv
  <2>2. CASE d \in C
    <3>1. pc[d] = "dial" /\ reply[d] = "none" /\ pc'[d] = "refused" /\ Forgotten(d)
          /\ UNCHANGED <<first, second>>
      BY <1>1, <1>3, <2>1, <2>2 DEF CallFits
    <3> QED
      BY <1>0, <2>1, <3>1 DEF CallFits, RunsCounted, Before, Forgotten, CallTypes
  <2>3. CASE d \notin C
    <3>1. Same(d)
      BY <1>1, <1>3, <2>3 DEF Same
    <3>2. pc[d] = "dial" => via[d] \in dialing' /\ (d \in second => via[d] \in stripped')
      BY <1>1, <2>1, <2>3 DEF CallFits
    <3> QED
      BY <1>1, <2>1, <3>1, <3>2, SameCounts, SameFits DEF CallFits
  <2> QED
    BY <2>2, <2>3
<1>6. faults' \in 0..MaxFaults
  BY <1>0, <1>1 DEF Types
<1> QED
  BY <1>2, <1>4, <1>5, <1>6 DEF RelayInv, Types

LEMMA RetryKeeps == ASSUME RelayInv, NEW c \in Calls, Retry(c) PROVE RelayInv'
<1> USE DEF daemon, relay, sockets, call, wire
<1>0. /\ Types /\ SocketsFit /\ DialsFit
      /\ DaemonTypes /\ RelayTypes /\ SocketTypes /\ CallTypes
  BY DEF RelayInv, Types
<1>1. PICK C \in SUBSET Calls :
        /\ C = (IF ipc = 0 THEN {} ELSE Pending(ipc))
        /\ pc' = [Rejected(C, "cut") EXCEPT ![c] = "wait"] /\ first' = Noted(C, "cut") /\ Forget(C)
  BY DEF Retry, Pending
<1>2. /\ pc[c] = "backoff" /\ second' = second \cup {c} /\ ipc' = 0 /\ Board
      /\ IF ipc = 0 THEN UNCHANGED <<cur, life>> ELSE Leave(ipc)
      /\ UNCHANGED <<daemon, fresh, stripped, dialing, owner, greeted, faults>>
  BY DEF Retry
<1>3. c \notin C /\ \A d \in C : pc[d] = "sent" /\ via[d] = ipc
  BY <1>1, <1>2 DEF Pending
<1>4. /\ SocketTypes' /\ SocketsFit' /\ \A j \in Clients : Bare(j) => Bare(j)'
      /\ \A r \in Sockets : life'[r] = "closed" <=> life[r] = "closed"
      /\ \A j \in Clients : j # ipc => cur'[j] = cur[j]
  <2>1. CASE ipc = 0
    BY <1>0, <1>2, <2>1 DEF SocketTypes, SocketsFit, Bare
  <2>2. CASE ipc # 0
    <3>1. ipc \in Clients /\ greeted' \subseteq Sockets
      BY <1>0, <1>2, <2>2 DEF RelayTypes, SocketTypes, Clients
    <3> QED
      BY <1>0, <1>2, <2>2, <3>1, LeaveFits
  <2> QED
    BY <2>1, <2>2
<1>5. RelayTypes' /\ DialsFit'
  <2>1. RelayTypes'
    BY <1>0, <1>2, RelayAssumption DEF RelayTypes, Board, Flights
  <2>2. ASSUME flight' \in {"dial", "redial"} PROVE Bare(fresh)'
    <3>1. flight \in {"dial", "redial"} /\ fresh \in Clients /\ fresh' = fresh /\ Bare(fresh)
      BY <1>0, <1>2, <2>2 DEF Board, DialsFit, RelayTypes, Clients
    <3> QED
      BY <1>4, <3>1 DEF Bare
  <2>3. ASSUME flight' \in {"greet", "supersede", "health", "shutdown"}
        PROVE  cur'[fresh] = cur[fresh] /\ flight' = flight
    <3>1. flight' = flight /\ fresh \in Clients /\ fresh # ipc
      BY <1>0, <1>2, <2>3 DEF Board, DialsFit, RelayTypes, Clients
    <3> QED
      BY <1>4, <3>1
  <2>4. \A j \in dialing' : Bare(j)'
    BY <1>0, <1>2, <1>4 DEF DialsFit, SocketTypes
  <2> QED
    BY <1>0, <1>2, <2>1, <2>2, <2>3, <2>4 DEF Board, DialsFit
<1>6. /\ via' \in [Calls -> 0..MaxClients] /\ on' \in [Calls -> 0..MaxSockets]
      /\ reply' \in [Calls -> {"none", "asked", "lost", "ok", "busy", "boot", "unauth"}]
      /\ ran' \in [Calls -> Nat]
      /\ (\A d \in C : Forgotten(d)) /\ \A d \in Calls \ C : Kept(d)
  BY <1>0, <1>1, ForgetDoes
<1>7. CallTypes'
  BY <1>0, <1>1, <1>2, <1>6 DEF CallTypes, Rejected, Noted, After, Ended
<1>8. (\A d \in C : Out(d, "cut")) /\ \A d \in Calls \ (C \cup {c}) : Same(d)
  BY <1>0, <1>1, <1>2, <1>3, <1>6 DEF Out, Same, Rejected, Noted, CallTypes
<1>9. Kept(c) /\ pc'[c] = "wait" /\ first'[c] = first[c]
  BY <1>0, <1>1, <1>3, <1>6 DEF Rejected, Noted, CallTypes
<1>10. ASSUME NEW d \in Calls PROVE CallFits(d)' /\ RunsCounted(d)'
  <2>1. CallFits(d) /\ RunsCounted(d)
    BY DEF RelayInv
  <2>2. CASE d \in C
    BY <1>0, <1>8, <2>1, <2>2, OutFits, OutCounts
  <2>3. CASE d = c
    <3>1. reply[c] = "none" /\ reply'[c] = "none" /\ c \notin second /\ c \in second' /\ ran'[c] = ran[c]
      BY <1>2, <1>9, <2>1, <2>3 DEF CallFits, Kept
    <3>2. ran[c] \in Nat /\ ran[c] <= 1 /\ (first[c] \in {"cut", "busy"} \/ ran[c] = 0)
      BY <1>0, <1>2, <2>1, <2>3, <3>1 DEF RunsCounted, Before, CallTypes
    <3> QED
      BY <1>9, <2>3, <3>1, <3>2 DEF CallFits, RunsCounted, Before
  <2>4. CASE d \notin C /\ d # c
    <3>1. Same(d)
      BY <1>8, <2>4
    <3>2. /\ fresh' = fresh /\ greeted' = greeted /\ owner' = owner /\ dialing' = dialing
          /\ stripped' = stripped /\ (d \in second' <=> d \in second)
      BY <1>2, <2>4
    <3> QED
      BY <1>4, <2>1, <3>1, <3>2, SameCounts, SameFits DEF CallFits
  <2> QED
    BY <2>2, <2>3, <2>4
<1>11. DaemonTypes' /\ faults' \in 0..MaxFaults
  BY <1>0, <1>2 DEF DaemonTypes, Types
<1> QED
  BY <1>4, <1>5, <1>7, <1>10, <1>11 DEF RelayInv, Types

(* The promise of the flight is rejected: who waited for it is out.        *)
LEMMA FlightFailsCalls ==
  ASSUME RelayInv, NEW why \in {"error", "cut", "unauth"}, FlightFails(why), UNCHANGED second
  PROVE  /\ CallTypes' /\ flight' = "none" /\ fresh' = 0 /\ RelayTypes'
         /\ UNCHANGED <<ipc, stripped>>
         /\ \A d \in Waiting : Out(d, why) /\ CallFits(d)' /\ RunsCounted(d)'
         /\ \A d \in Calls \ Waiting : Same(d) /\ RunsCounted(d)'
<1>0. CallTypes /\ RelayTypes /\ Waiting \subseteq Calls /\ Reject(Waiting, why)
  BY DEF RelayInv, Types, Waiting, FlightFails
<1>1. /\ CallTypes' /\ (\A d \in Waiting : Out(d, why)) /\ \A d \in Calls \ Waiting : Same(d)
  BY <1>0, RejectDoes
<1>2. RelayTypes' /\ flight' = "none" /\ fresh' = 0 /\ UNCHANGED <<ipc, stripped>>
  <2>1. /\ flight' = "none" /\ fresh' = 0 /\ recycled' = FALSE
        /\ ipc' = ipc /\ stripped' = stripped
    BY DEF FlightFails
  <2>2. ipc \in 0..MaxClients /\ stripped \subseteq Clients
    BY <1>0 DEF RelayTypes
  <2>3. "none" \in Flights /\ 0 \in 0..MaxClients /\ FALSE \in BOOLEAN
    BY RelayAssumption DEF Flights
  <2> QED
    BY <2>1, <2>2, <2>3 DEF RelayTypes
<1>3. ASSUME NEW d \in Waiting PROVE CallFits(d)' /\ RunsCounted(d)'
  <2>1. d \in Calls /\ RunsCounted(d) /\ Out(d, why) /\ pc[d] = "wait" /\ reply[d] = "none"
    BY <1>0, <1>1 DEF RelayInv, Waiting, CallFits
  <2> QED
    BY <1>0, <2>1, OutFits, OutCounts
<1>4. ASSUME NEW d \in Calls \ Waiting PROVE RunsCounted(d)'
  BY <1>1, SameCounts DEF RelayInv
<1> QED
  BY <1>1, <1>2, <1>3, <1>4

LEMMA FlightFailsKeeps ==
  ASSUME RelayInv,
         EnsureFails \/ FlightRefused \/ \E why \in {"error", "unauth"} : GreetFails(why)
  PROVE  RelayInv'
<1> USE DEF daemon, relay, sockets
<1>1. PICK why \in {"error", "unauth"} :
        FlightFails(why) /\ UNCHANGED <<daemon, sockets, second>> /\ flight # "none"
  BY DEF EnsureFails, FlightRefused, GreetFails
<1>2. /\ CallTypes' /\ flight' = "none" /\ fresh' = 0 /\ RelayTypes'
      /\ UNCHANGED <<ipc, stripped>>
      /\ \A d \in Waiting : Out(d, why) /\ CallFits(d)' /\ RunsCounted(d)'
      /\ \A d \in Calls \ Waiting : Same(d) /\ RunsCounted(d)'
  BY <1>1, FlightFailsCalls
<1>3. DaemonTypes' /\ SocketTypes' /\ SocketsFit'
  BY <1>1 DEF RelayInv, Types, DaemonTypes, SocketTypes, SocketsFit
<1>4. ipc = 0 /\ ipc' = 0 /\ fresh' \notin dialing'
  BY <1>1, <1>2 DEF RelayInv, DialsFit, Types, SocketTypes, Clients
<1>5. DialsFit'
  BY <1>1, <1>2, <1>4 DEF RelayInv, DialsFit, Bare
<1>6. ASSUME NEW d \in Calls \ Waiting PROVE CallFits(d)'
  <2>1. CallFits(d) /\ Same(d)
    BY <1>2 DEF RelayInv
  <2>2. via[d] # 0 \/ pc[d] # "sent"
    BY <2>1 DEF CallFits, RelayInv, SocketsFit, Clients
  <2> QED
    BY <1>1, <1>2, <2>1, <2>2, SameFits DEF CallFits
<1>7. faults' \in 0..MaxFaults
  BY FaultTyped DEF EnsureFails, FlightRefused, GreetFails, RelayInv, Types
<1> QED
  BY <1>2, <1>3, <1>5, <1>6, <1>7 DEF RelayInv, Types

LEMMA EnsureFindsKeeps == ASSUME RelayInv, EnsureFinds PROVE RelayInv'
<1> USE DEF daemon, relay, sockets, call, wire
<1>1. PICK i \in FreeClients :
        /\ flight = "ensure" /\ fresh' = i /\ flight' = "dial"
        /\ mode' = IF mode = "down" THEN "boot" ELSE mode
        /\ outdated' = (mode # "down" /\ outdated)
        /\ stripped' = stripped \ {i}
        /\ UNCHANGED <<enforced, ipc, recycled, sockets, call, wire, faults>>
  BY FreeClient DEF EnsureFinds
<1>2. i \in Clients /\ i # 0 /\ i \notin dialing /\ cur[i] = 0
      /\ \A s \in Sockets : life[s] # "closed" => owner[s] # i
  BY <1>1 DEF FreeClients, Clients
<1>3. DaemonTypes' /\ SocketTypes' /\ SocketsFit' /\ CallTypes' /\ faults' \in 0..MaxFaults
  BY <1>1 DEF RelayInv, Types, DaemonTypes, SocketTypes, SocketsFit, CallTypes
<1>4. RelayTypes'
  BY <1>1, <1>2 DEF RelayInv, Types, RelayTypes, Clients, Flights
<1>5. DialsFit'
  BY <1>1, <1>2 DEF RelayInv, DialsFit, Bare
<1>6. ASSUME NEW d \in Calls PROVE CallFits(d)' /\ RunsCounted(d)'
  <2>1. CallFits(d) /\ RunsCounted(d) /\ Same(d)
    BY <1>1 DEF RelayInv, Same, Kept
  <2>2. (pc[d] = "sent" => via[d] # i) /\ (pc[d] = "dial" => via[d] # i)
    BY <1>2, <2>1 DEF CallFits
  <2> QED
    BY <1>1, <2>1, <2>2, SameCounts, SameFits DEF CallFits
<1> QED
  BY <1>3, <1>4, <1>5, <1>6 DEF RelayInv, Types

LEMMA FlightDialsKeeps == ASSUME RelayInv, FlightDials \/ Redialed PROVE RelayInv'
<1> USE DEF daemon, relay, sockets, call, wire
<1>0. /\ Types /\ SocketsFit /\ DialsFit
      /\ DaemonTypes /\ RelayTypes /\ SocketTypes /\ CallTypes
  BY DEF RelayInv, Types
<1>1. PICK s \in FreeSockets :
        /\ Connected(fresh, s)
        /\ \/ flight = "dial" /\ flight' = "greet"
           \/ flight = "redial" /\ flight' = "health"
        /\ UNCHANGED <<daemon, ipc, recycled, fresh, stripped, dialing, greeted,
                       call, wire, faults>>
  BY FreeSocket DEF FlightDials, Redialed
<1>2. fresh \in Clients /\ Bare(fresh) /\ ipc = 0 /\ s \in Sockets /\ s # 0
  BY <1>0, <1>1 DEF DialsFit, RelayTypes, Clients, FreeSockets, Sockets
<1>3. /\ SocketTypes' /\ SocketsFit' /\ cur'[fresh] = s /\ owner'[s] = fresh /\ life'[s] = "open"
      /\ \A j \in Clients \ {fresh} : cur'[j] = cur[j] /\ (Bare(j) => Bare(j)')
      /\ \A r \in Sockets \ {s} : owner'[r] = owner[r] /\ life'[r] = life[r]
      /\ \A r \in Sockets : life[r] # "closed" => r # s
  BY <1>0, <1>1, <1>2, ConnectedFits
<1>4. DialsFit'
  <2>1. \A j \in dialing' : Bare(j)'
    BY <1>0, <1>1, <1>3 DEF DialsFit, SocketTypes
  <2> QED
    BY <1>0, <1>1, <1>2, <1>3, <2>1 DEF DialsFit
<1>5. ASSUME NEW d \in Calls PROVE CallFits(d)' /\ RunsCounted(d)'
  <2>1. CallFits(d) /\ RunsCounted(d) /\ Same(d)
    BY <1>1 DEF RelayInv, Same, Kept
  <2>2. pc[d] = "sent" => /\ life'[on[d]] # "closed" /\ owner'[on[d]] = via[d] /\ via[d] # fresh'
                          /\ d \in second => on[d] \in greeted' \/ via[d] \in stripped'
    BY <1>1, <1>3, <2>1 DEF CallFits
  <2> QED
    BY <1>1, <2>1, <2>2, SameCounts, SameFits DEF CallFits
<1>6. DaemonTypes' /\ RelayTypes' /\ CallTypes' /\ faults' \in 0..MaxFaults
  BY <1>0, <1>1 DEF DaemonTypes, RelayTypes, CallTypes, Types, Flights
<1> QED
  BY <1>3, <1>4, <1>5, <1>6 DEF RelayInv, Types

(* The client of the flight is handed over, with its socket s or with      *)
(* none.  Only a client that was stripped comes without a greeted socket.  *)
LEMMA HandOverKeeps ==
  ASSUME RelayInv, NEW i \in Clients, i = fresh, NEW s \in 0..MaxSockets, HandOver(s),
         UNCHANGED <<daemon, second, first, ran, faults>>,
         stripped' \in SUBSET Clients, stripped \subseteq stripped',
         cur' \in [Clients -> 0..MaxSockets], owner' \in [Sockets -> 0..MaxClients],
         life' \in [Sockets -> {"open", "ended", "dead", "closed"}], greeted' \in SUBSET Sockets,
         SocketsFit', cur'[i] = s, s = 0 => Bare(i)', s \in greeted' \/ i \in stripped',
         \A j \in dialing : Bare(j)',
         \A d \in Calls : pc[d] = "sent" =>
           /\ life'[on[d]] # "closed" /\ owner'[on[d]] = via[d]
           /\ on[d] \in greeted => on[d] \in greeted'
  PROVE  RelayInv'
<1> USE DEF daemon, relay, sockets, call, wire
<1>0. /\ Types /\ SocketsFit /\ DialsFit
      /\ DaemonTypes /\ RelayTypes /\ SocketTypes /\ CallTypes
  BY DEF RelayInv, Types
<1>1. /\ ipc' = i /\ fresh' = 0 /\ flight' = "none" /\ recycled' = FALSE
      /\ i # 0 /\ 0 \in 0..MaxClients /\ i \in 0..MaxClients /\ Waiting \in SUBSET Calls
  BY RelayAssumption DEF HandOver, Clients, Waiting
<1>2. dialing' \in SUBSET Clients /\ \A j \in dialing' : Bare(j)'
  <2>1. dialing' = dialing \/ (s = 0 /\ dialing' = dialing \cup {i})
    BY DEF HandOver
  <2>2. dialing \in SUBSET Clients
    BY <1>0 DEF SocketTypes
  <2> QED
    BY <2>1, <2>2
<1>3. DaemonTypes' /\ RelayTypes' /\ SocketTypes' /\ faults' \in 0..MaxFaults
  BY <1>0, <1>1, <1>2 DEF DaemonTypes, RelayTypes, SocketTypes, Types, Flights
<1>4. DialsFit'
  <2>1. 0 \notin dialing'
    BY <1>2 DEF Clients
  <2> QED
    BY <1>1, <1>2, <2>1 DEF DialsFit
<1>5. /\ CallTypes' /\ \A d \in Calls \ Waiting : Same(d)
      /\ \/ s # 0 /\ \A d \in Waiting : Sent(d, i, s)
         \/ /\ s = 0 /\ (Waiting # {} => i \in dialing')
            /\ \A d \in Waiting : /\ pc'[d] = "dial" /\ via'[d] = i /\ reply'[d] = reply[d]
                                  /\ ran'[d] = ran[d] /\ UNCHANGED <<second, first>>
  <2>1. CASE s # 0
    <3>1. Write(Waiting, i, s)
      BY <2>1 DEF HandOver
    <3> QED
      BY <1>0, <1>1, <2>1, <3>1, WriteDoes
  <2>2. CASE s = 0
    <3>1. /\ dialing' = IF Waiting = {} THEN dialing ELSE dialing \cup {i}
          /\ pc' = [d \in Calls |-> IF d \in Waiting THEN "dial" ELSE pc[d]]
          /\ via' = [d \in Calls |-> IF d \in Waiting THEN i ELSE via[d]]
          /\ UNCHANGED <<on, reply>>
      BY <2>2 DEF HandOver
    <3>2. CallTypes'
      BY <1>0, <1>1, <3>1 DEF CallTypes
    <3>3. \A d \in Calls \ Waiting : Same(d)
      BY <3>1 DEF Same, Kept
    <3> QED
      BY <1>1, <2>2, <3>1, <3>2, <3>3
  <2> QED
    BY <2>1, <2>2
<1>6. ASSUME NEW d \in Calls PROVE CallFits(d)' /\ RunsCounted(d)'
  <2>1. CallFits(d) /\ RunsCounted(d)
    BY DEF RelayInv
  <2>2. CASE d \in Waiting /\ s # 0
    <3>1. s \in Sockets /\ Sent(d, i, s) /\ pc[d] = "wait"
      BY <1>5, <2>2 DEF Waiting, Sockets
    <3>2. life'[s] # "closed" /\ owner'[s] = i /\ i # fresh'
      BY <1>1, <2>2 DEF SocketsFit
    <3> QED
      BY <1>0, <2>1, <3>1, <3>2, SentCounts, SentFits
  <2>3. CASE d \in Waiting /\ s = 0
    <3>1. /\ pc'[d] = "dial" /\ via'[d] = i /\ reply'[d] = reply[d] /\ ran'[d] = ran[d]
          /\ UNCHANGED <<second, first>> /\ i \in dialing' /\ pc[d] = "wait"
      BY <1>5, <2>3 DEF Waiting
    <3>2. i \in stripped'
      BY <2>3 DEF Sockets
    <3> QED
      BY <2>1, <3>1, <3>2 DEF CallFits, RunsCounted, Before
  <2>4. CASE d \notin Waiting
    <3>1. Same(d) /\ dialing \subseteq dialing'
      BY <1>5, <2>4 DEF HandOver
    <3>2. pc[d] = "sent" => via[d] # fresh'
      <4>1. ASSUME pc[d] = "sent" PROVE via[d] \in Clients
        BY <1>0, <2>1, <4>1 DEF CallFits, SocketsFit
      <4> QED
        BY <1>1, <4>1 DEF Clients
    <3> QED
      BY <2>1, <3>1, <3>2, SameCounts, SameFits DEF CallFits
  <2> QED
    BY <2>2, <2>3, <2>4
<1> QED
  BY <1>3, <1>4, <1>5, <1>6 DEF RelayInv, Types

LEMMA FlightLandsKeeps ==
  ASSUME RelayInv, FlightLands \/ SupersedeAnswered \/ HealthKeeps \/ RedialRefused
  PROVE  RelayInv'
<1> USE DEF daemon, relay, sockets, call, wire
<1>0. /\ Types /\ SocketsFit /\ DialsFit
      /\ DaemonTypes /\ RelayTypes /\ SocketTypes /\ CallTypes
  BY DEF RelayInv, Types
<1>1. /\ UNCHANGED <<daemon, stripped, cur, owner, life, second, first, ran, faults>>
      /\ \/ /\ flight = "greet" /\ greeted' = greeted \cup {cur[fresh]} /\ HandOver(cur[fresh])
         \/ /\ flight \in {"supersede", "health"} /\ greeted' = greeted /\ HandOver(cur[fresh])
         \/ flight = "redial" /\ greeted' = greeted /\ HandOver(0)
  BY DEF FlightLands, SupersedeAnswered, HealthKeeps, RedialRefused, Greeted
<1>2. PICK i \in Clients : i = fresh
  BY <1>0, <1>1 DEF DialsFit, RelayTypes, Clients
<1>3. PICK s \in 0..MaxSockets : s = cur[i]
  BY <1>0 DEF SocketTypes
<1>4. HandOver(s) /\ (s = 0 => Bare(i)) /\ (s \in greeted' \/ i \in stripped)
      /\ (greeted' = greeted \/ (s # 0 /\ greeted' = greeted \cup {s}))
  <2>1. CASE flight = "redial"
    BY <1>0, <1>1, <1>2, <1>3, <2>1 DEF DialsFit, Bare
  <2>2. CASE flight # "redial"
    BY <1>0, <1>1, <1>2, <1>3, <2>2 DEF DialsFit
  <2> QED
    BY <2>1, <2>2
<1>5. greeted' \in SUBSET Sockets /\ greeted \subseteq greeted'
  <2>1. greeted \in SUBSET Sockets
    BY <1>0 DEF SocketTypes
  <2>2. s # 0 => s \in Sockets
    BY DEF Sockets
  <2> QED
    BY <1>4, <2>1, <2>2
<1>6. /\ cur' \in [Clients -> 0..MaxSockets] /\ owner' \in [Sockets -> 0..MaxClients]
      /\ life' \in [Sockets -> {"open", "ended", "dead", "closed"}]
      /\ stripped' \in SUBSET Clients /\ stripped \subseteq stripped'
  BY <1>0, <1>1 DEF SocketTypes, RelayTypes
<1>7. SocketsFit' /\ cur'[i] = s /\ \A j : Bare(j) => Bare(j)'
  BY <1>0, <1>1, <1>3 DEF SocketsFit, Bare
<1>8. \A j \in dialing : Bare(j)'
  BY <1>0, <1>7 DEF DialsFit
<1>9. \A d \in Calls : pc[d] = "sent" =>
        /\ life'[on[d]] # "closed" /\ owner'[on[d]] = via[d]
        /\ on[d] \in greeted => on[d] \in greeted'
  BY <1>1, <1>5 DEF RelayInv, CallFits
<1> QED
  BY <1>1, <1>2, <1>4, <1>5, <1>6, <1>7, <1>8, <1>9, HandOverKeeps

(* The flight goes on with its client, which has passed the handshake.     *)
LEMMA FlightAsksKeeps ==
  ASSUME RelayInv, AskSupersede \/ SupersedeThrows \/ HealthAlone
  PROVE  RelayInv'
<1> USE DEF daemon, relay, sockets, call, wire
<1>0. /\ Types /\ SocketsFit /\ DialsFit
      /\ DaemonTypes /\ RelayTypes /\ SocketTypes /\ CallTypes
  BY DEF RelayInv, Types
<1>1. /\ UNCHANGED <<daemon, ipc, fresh, stripped, cur, dialing, owner, life, call, wire>>
      /\ \/ /\ flight = "greet" /\ flight' = "supersede" /\ recycled' = recycled
            /\ greeted' = greeted \cup {cur[fresh]}
         \/ /\ flight = "supersede" /\ flight' = "health" /\ recycled' = recycled
            /\ greeted' = greeted
         \/ flight = "health" /\ flight' = "shutdown" /\ recycled' = TRUE /\ greeted' = greeted
  BY DEF AskSupersede, SupersedeThrows, HealthAlone, Greeted
<1>2. fresh \in Clients /\ cur[fresh] \in Sockets
  BY <1>0, <1>1 DEF DialsFit, RelayTypes, SocketTypes, Clients, Sockets
<1>3. greeted' \in SUBSET Sockets /\ greeted \subseteq greeted'
  BY <1>0, <1>1, <1>2 DEF SocketTypes
<1>4. DaemonTypes' /\ CallTypes' /\ RelayTypes'
  BY <1>0, <1>1 DEF DaemonTypes, CallTypes, RelayTypes, Flights
<1>5. SocketTypes' /\ SocketsFit'
  BY <1>0, <1>1, <1>3 DEF SocketTypes, SocketsFit
<1>6. DialsFit'
  BY <1>0, <1>1 DEF DialsFit, Bare
<1>7. ASSUME NEW d \in Calls PROVE CallFits(d)' /\ RunsCounted(d)'
  <2>1. CallFits(d) /\ RunsCounted(d) /\ Same(d)
    BY <1>1 DEF RelayInv, Same, Kept
  <2> QED
    BY <1>1, <1>3, <2>1, SameCounts, SameFits DEF CallFits
<1>8. faults' \in 0..MaxFaults
  BY <1>0, FaultTyped DEF AskSupersede, SupersedeThrows, HealthAlone, Types
<1> QED
  BY <1>4, <1>5, <1>6, <1>7, <1>8 DEF RelayInv, Types

LEMMA ShutdownEndsKeeps == ASSUME RelayInv, ShutdownEnds PROVE RelayInv'
<1> USE DEF daemon, relay, sockets, call, wire
<1>0. /\ Types /\ SocketsFit /\ DialsFit
      /\ DaemonTypes /\ RelayTypes /\ SocketTypes /\ CallTypes
  BY DEF RelayInv, Types
<1>1. /\ flight = "shutdown" /\ Leave(fresh) /\ flight' = "ensure" /\ fresh' = 0
      /\ UNCHANGED <<daemon, ipc, recycled, stripped, dialing, owner, greeted,
                     call, wire, faults>>
  BY DEF ShutdownEnds
<1>2. fresh \in Clients /\ ipc = 0 /\ greeted' \subseteq Sockets /\ 0 \notin dialing
  BY <1>0, <1>1 DEF DialsFit, RelayTypes, SocketTypes, Clients
<1>3. /\ SocketTypes' /\ SocketsFit' /\ cur'[fresh] = 0
      /\ \A r \in Sockets : life'[r] = "closed" <=> life[r] = "closed"
      /\ \A j \in Clients : Bare(j) => Bare(j)'
  BY <1>0, <1>1, <1>2, LeaveFits
<1>4. DialsFit'
  <2>1. \A j \in dialing' : Bare(j)'
    BY <1>0, <1>1, <1>3 DEF DialsFit, SocketTypes
  <2> QED
    BY <1>1, <1>2, <2>1 DEF DialsFit
<1>5. DaemonTypes' /\ RelayTypes' /\ CallTypes' /\ faults' \in 0..MaxFaults
  BY <1>0, <1>1, RelayAssumption DEF DaemonTypes, RelayTypes, CallTypes, Types, Flights
<1>6. ASSUME NEW d \in Calls PROVE CallFits(d)' /\ RunsCounted(d)'
  <2>1. CallFits(d) /\ RunsCounted(d) /\ Same(d)
    BY <1>1 DEF RelayInv, Same, Kept
  <2>2. pc[d] = "sent" => via[d] # 0
    BY <1>0, <2>1 DEF CallFits, SocketsFit, Clients
  <2> QED
    BY <1>1, <1>3, <2>1, <2>2, SameCounts, SameFits DEF CallFits
<1> QED
  BY <1>3, <1>4, <1>5, <1>6 DEF RelayInv, Types

-----------------------------------------------------------------------------
(* The close event of a socket is about its own client and no other socket *)
(* of it.                                                                  *)
LEMMA SocketClosesKeeps ==
  ASSUME RelayInv, NEW s \in Sockets, SocketCloses(s)
  PROVE  RelayInv' /\ cur[owner[s]] \in {0, s}
<1> USE DEF daemon, relay, sockets
<1>0. /\ Types /\ SocketsFit /\ DialsFit
      /\ DaemonTypes /\ RelayTypes /\ SocketTypes /\ CallTypes
  BY DEF RelayInv, Types
<1>1. /\ life[s] \in {"ended", "dead"}
      /\ life' = [life EXCEPT ![s] = "closed"] /\ greeted' = greeted \ {s}
      /\ cur' = [cur EXCEPT ![owner[s]] = 0] /\ owner' = [owner EXCEPT ![s] = 0]
      /\ UNCHANGED <<daemon, second, faults>>
  BY DEF SocketCloses
<1>2. PICK i \in Clients : i = owner[s] /\ cur[i] \in {0, s} /\ ~Bare(i)
  BY <1>0, <1>1 DEF SocketsFit, Bare
<1>3. s # 0 /\ 0 \in 0..MaxClients /\ 0 \in 0..MaxSockets
  BY RelayAssumption DEF Sockets
<1>4. /\ cur'[i] = 0 /\ \A j \in Clients \ {i} : cur'[j] = cur[j]
      /\ life'[s] = "closed" /\ owner'[s] = 0
      /\ \A r \in Sockets \ {s} : owner'[r] = owner[r] /\ life'[r] = life[r]
  BY <1>0, <1>1, <1>2 DEF SocketTypes
<1>5. /\ DaemonTypes' /\ faults' \in 0..MaxFaults
      /\ cur' \in [Clients -> 0..MaxSockets] /\ owner' \in [Sockets -> 0..MaxClients]
      /\ life' \in [Sockets -> {"open", "ended", "dead", "closed"}] /\ greeted' \in SUBSET Sockets
  BY <1>0, <1>1, <1>3 DEF SocketTypes, DaemonTypes, Types
<1>6. SocketsFit'
  <2>1. ASSUME NEW j \in Clients, cur'[j] # 0
        PROVE  life'[cur'[j]] # "closed" /\ owner'[cur'[j]] = j
    <3>1. j # i /\ cur'[j] = cur[j] /\ cur[j] \in Sockets
          /\ life[cur[j]] # "closed" /\ owner[cur[j]] = j
      BY <1>0, <1>4, <2>1 DEF SocketsFit, SocketTypes, Sockets
    <3>2. cur[j] # s
      BY <1>2, <3>1
    <3> QED
      BY <1>4, <3>1, <3>2
  <2>2. ASSUME NEW r \in Sockets, life'[r] # "closed"
        PROVE  owner'[r] \in Clients /\ cur'[owner'[r]] \in {0, r}
    <3>1. r # s /\ owner'[r] = owner[r] /\ owner[r] \in Clients /\ cur[owner[r]] \in {0, r}
      BY <1>0, <1>4, <2>2 DEF SocketsFit
    <3> QED
      BY <1>4, <3>1
  <2> QED
    BY <2>1, <2>2 DEF SocketsFit
<1>7. \A j \in Clients : Bare(j) => Bare(j)'
  BY <1>2, <1>3, <1>4 DEF Bare, Clients
<1>a. Bare(i)' \/ \E r \in Sockets \ {s} : life[r] # "closed" /\ owner[r] = i
  BY <1>3, <1>4 DEF Bare, Clients
<1>b. ASSUME UNCHANGED dialing
      PROVE  SocketTypes' /\ \A j \in dialing' : Bare(j)'
  BY <1>0, <1>5, <1>7, <1>b DEF DialsFit, SocketTypes
(* The flight's own client: no call has been written to its socket.        *)
<1>8. CASE i = fresh
  <2>1. ASSUME NEW d \in Calls, pc[d] = "sent"
        PROVE  /\ on[d] \in Sockets \ {s} /\ via[d] # 0 /\ via[d] # fresh
               /\ life'[on[d]] # "closed" /\ owner'[on[d]] = via[d]
               /\ on[d] \in greeted => on[d] \in greeted'
    <3>1. on[d] \in Sockets /\ life[on[d]] # "closed" /\ owner[on[d]] = via[d] /\ via[d] # fresh
      BY <2>1 DEF RelayInv, CallFits
    <3>2. via[d] # 0
      BY <1>0, <3>1 DEF SocketsFit, Clients
    <3>3. on[d] # s
      BY <1>2, <1>8, <3>1
    <3> QED
      BY <1>1, <1>4, <3>1, <3>2, <3>3
  <2>2. cur[i] # 0 => Bare(i)'
    <3>1. ASSUME cur[i] = s, NEW r \in Sockets \ {s}, life[r] # "closed", owner[r] = i PROVE FALSE
      <4>1. s \in {0, r}
        BY <1>0, <3>1 DEF SocketsFit
      <4> QED
        BY <1>3, <3>1, <4>1
    <3> QED
      BY <1>2, <1>a, <3>1
  <2>3. i # 0 /\ ipc = 0 /\ fresh \notin dialing /\ 0 \notin dialing
    BY <1>0, <1>8 DEF DialsFit, SocketTypes, Clients
  <2>4. CASE flight = "greet" /\ FlightFails("cut") /\ UNCHANGED dialing
    <3>1. /\ CallTypes' /\ flight' = "none" /\ fresh' = 0 /\ RelayTypes'
          /\ UNCHANGED <<ipc, stripped>>
          /\ \A d \in Waiting : Out(d, "cut") /\ CallFits(d)' /\ RunsCounted(d)'
          /\ \A d \in Calls \ Waiting : Same(d) /\ RunsCounted(d)'
      BY <1>1, <2>4, FlightFailsCalls
    <3>2. DialsFit'
      BY <1>b, <2>3, <2>4, <3>1 DEF DialsFit
    <3>3. ASSUME NEW d \in Calls \ Waiting PROVE CallFits(d)'
      <4>1. CallFits(d) /\ Same(d)
        BY <3>1 DEF RelayInv
      <4> QED
        BY <2>1, <2>4, <3>1, <4>1, SameFits DEF CallFits
    <3> QED
      BY <1>2, <1>5, <1>6, <1>b, <2>4, <3>1, <3>2, <3>3 DEF RelayInv, Types
  <2>5. CASE /\ UNCHANGED <<ipc, recycled, dialing, pc, via, on, first, wire>>
             /\ \/ flight = "supersede" /\ flight' = "redial" /\ Strip /\ fresh' = fresh
                \/ flight = "shutdown" /\ flight' = "ensure" /\ fresh' = 0 /\ stripped' = stripped
    <3>1. stripped \subseteq stripped' /\ stripped' \in SUBSET Clients
          /\ (flight' = "redial" => fresh' \in stripped')
      BY <1>0, <1>2, <1>8, <2>5 DEF Strip, RelayTypes
    <3>2. RelayTypes' /\ CallTypes'
      BY <1>0, <1>1, <1>3, <2>5, <3>1 DEF RelayTypes, CallTypes, Flights, wire
    <3>3. cur[i] # 0 /\ cur[i] = s
      BY <1>0, <1>2, <1>8, <2>5 DEF DialsFit
    <3>4. DialsFit'
      BY <1>8, <1>b, <2>2, <2>3, <2>5, <3>1, <3>3 DEF DialsFit, Bare
    <3>5. ASSUME NEW d \in Calls PROVE CallFits(d)' /\ RunsCounted(d)'
      <4>1. CallFits(d) /\ RunsCounted(d) /\ Same(d)
        BY <1>1, <2>5 DEF RelayInv, Same, Kept, wire
      <4> QED
        BY <2>1, <2>5, <3>1, <4>1, SameCounts, SameFits DEF CallFits
    <3> QED
      BY <1>2, <1>5, <1>6, <1>b, <2>5, <3>2, <3>4, <3>5 DEF RelayInv, Types
  <2>6. CASE flight = "health" /\ HandOver(0) /\ Strip /\ UNCHANGED <<first, ran>>
    <3>1. stripped' \in SUBSET Clients /\ stripped \subseteq stripped' /\ i \in stripped'
      BY <1>0, <1>2, <1>8, <2>6 DEF Strip, RelayTypes
    <3>2. Bare(i)' /\ cur'[i] = 0 /\ \A j \in dialing : Bare(j)'
      BY <1>0, <1>4, <1>7, <1>8, <2>2, <2>6 DEF DialsFit, SocketTypes
    <3>3. RelayInv'
      BY <1>1, <1>3, <1>5, <1>6, <1>8, <2>1, <2>6, <3>1, <3>2, HandOverKeeps
    <3> QED
      BY <1>2, <3>3
  <2> QED
    BY <1>2, <1>8, <2>4, <2>5, <2>6 DEF SocketCloses
<1>9. CASE i # fresh
  <2>1. /\ Reject(Pending(i), "cut") /\ UNCHANGED <<relay, second, dialing>>
        /\ Pending(i) \in SUBSET Calls
    BY <1>1, <1>2, <1>9 DEF SocketCloses, Pending
  <2>2. /\ CallTypes' /\ (\A d \in Pending(i) : Out(d, "cut"))
        /\ \A d \in Calls \ Pending(i) : Same(d)
    BY <1>0, <2>1, RejectDoes
  <2>3. DialsFit'
    <3>1. \A j \in dialing' : Bare(j)'
      BY <1>b, <2>1
    <3>2. ASSUME flight' \in {"dial", "redial"} PROVE Bare(fresh)'
      <4>1. fresh \in Clients /\ fresh' = fresh /\ Bare(fresh)
        BY <1>0, <2>1, <3>2 DEF DialsFit, RelayTypes, Clients
      <4> QED
        BY <1>7, <4>1 DEF Bare
    <3>3. ASSUME flight' \in {"greet", "supersede", "health", "shutdown"}
          PROVE  /\ cur'[fresh] # 0
                 /\ flight \in {"supersede", "health"} =>
                      cur'[fresh] \in greeted' \/ fresh \in stripped
      <4>1. fresh \in Clients /\ fresh # i /\ cur[fresh] # 0 /\ flight' = flight
        BY <1>0, <1>9, <2>1, <3>3 DEF DialsFit, RelayTypes, Clients
      <4>2. cur'[fresh] = cur[fresh] /\ owner[cur[fresh]] = fresh
        BY <1>0, <1>4, <4>1 DEF SocketsFit
      <4>3. cur[fresh] # s
        BY <1>2, <4>1, <4>2
      <4> QED
        BY <1>0, <1>1, <4>1, <4>2, <4>3 DEF DialsFit
    <3>4. ASSUME ipc' # 0, cur'[ipc'] = 0 PROVE Bare(ipc)'
      <4>1. ipc \in Clients /\ ipc' = ipc
        BY <1>0, <2>1, <3>4 DEF RelayTypes, Clients
      <4>2. CASE ipc = i
        <5>1. cur[i] = s
          BY <1>0, <1>2, <4>1, <4>2 DEF DialsFit, Clients
        <5>2. Bare(i)'
          <6>1. ASSUME NEW r \in Sockets \ {s}, life[r] # "closed", owner[r] = i PROVE FALSE
            <7>1. s \in {0, r}
              BY <1>0, <5>1, <6>1 DEF SocketsFit
            <7> QED
              BY <1>3, <6>1, <7>1
          <6> QED
            BY <1>a, <6>1
        <5> QED
          BY <4>1, <4>2, <5>2 DEF Bare
      <4>3. CASE ipc # i
        BY <1>0, <1>4, <1>7, <3>4, <4>1, <4>3 DEF DialsFit, Bare
      <4> QED
        BY <4>2, <4>3
    <3> QED
      BY <1>0, <1>1, <2>1, <3>1, <3>2, <3>3, <3>4 DEF DialsFit
  <2>4. ASSUME NEW d \in Calls PROVE CallFits(d)' /\ RunsCounted(d)'
    <3>1. CallFits(d) /\ RunsCounted(d)
      BY DEF RelayInv
    <3>2. CASE d \in Pending(i)
      BY <1>0, <2>2, <3>1, <3>2, OutFits, OutCounts
    <3>3. CASE d \notin Pending(i)
      <4>1. Same(d) /\ (pc[d] = "sent" => on[d] # s)
        BY <1>2, <2>2, <3>1, <3>3 DEF Pending, CallFits
      <4> QED
        BY <1>1, <1>4, <2>1, <3>1, <4>1, SameCounts, SameFits DEF CallFits
    <3> QED
      BY <3>2, <3>3
  <2>5. RelayTypes'
    BY <1>0, <2>1 DEF RelayTypes
  <2> QED
    BY <1>2, <1>5, <1>6, <1>b, <2>1, <2>2, <2>3, <2>4, <2>5 DEF RelayInv, Types
<1> QED
  BY <1>8, <1>9

(* The daemon starts, dies or is spawned by another; a socket breaks.      *)
LEMMA OutsideKeeps ==
  ASSUME RelayInv,
         Booted \/ OtherSpawns \/ DaemonDies \/ (\E s \in Sockets : SocketBreaks(s)) \/ UNCHANGED vars
  PROVE  RelayInv' /\ \A s \in Sockets : life'[s] = "closed" <=> life[s] = "closed"
<1> USE DEF daemon, relay, sockets, call, wire
<1>0. /\ Types /\ SocketsFit /\ DialsFit
      /\ DaemonTypes /\ RelayTypes /\ SocketTypes /\ CallTypes
  BY DEF RelayInv, Types
<1>1. UNCHANGED <<enforced, relay, cur, dialing, owner, greeted, call, ran>>
  BY DEF Booted, OtherSpawns, DaemonDies, SocketBreaks, vars
<1>2. /\ life' \in [Sockets -> {"open", "ended", "dead", "closed"}]
      /\ \A s \in Sockets : life'[s] = "closed" <=> life[s] = "closed"
  BY <1>0 DEF Booted, OtherSpawns, DaemonDies, SocketBreaks, vars, SocketTypes
<1>3. /\ reply' \in [Calls -> {"none", "asked", "lost", "ok", "busy", "boot", "unauth"}]
      /\ \A d \in Calls : reply'[d] = reply[d] \/ (reply[d] = "asked" /\ reply'[d] = "lost")
  BY <1>0 DEF Booted, OtherSpawns, DaemonDies, SocketBreaks, vars, CallTypes
<1>4. DaemonTypes'
  BY <1>0 DEF Booted, OtherSpawns, DaemonDies, SocketBreaks, vars, DaemonTypes
<1>5. faults' \in 0..MaxFaults
  <2>1. faults' = faults \/ (faults < MaxFaults /\ faults' = faults + 1)
    BY DEF Booted, OtherSpawns, DaemonDies, SocketBreaks, vars
  <2> QED
    BY <1>0, <2>1, FaultTyped DEF Types
<1>6. SocketTypes' /\ SocketsFit' /\ \A j : Bare(j) => Bare(j)'
  BY <1>0, <1>1, <1>2, BreaksFit DEF SocketTypes
<1>7. RelayTypes' /\ CallTypes'
  BY <1>0, <1>1, <1>3 DEF RelayTypes, CallTypes
<1>8. DialsFit'
  <2>1. \A j \in dialing : Bare(j)'
    BY <1>0, <1>6 DEF DialsFit
  <2>2. (flight \in {"dial", "redial"} => Bare(fresh)') /\ (ipc # 0 /\ cur[ipc] = 0 => Bare(ipc)')
    BY <1>0, <1>1, <1>6 DEF DialsFit, Bare
  <2> QED
    BY <1>0, <1>1, <2>1, <2>2 DEF DialsFit, Bare
<1>9. ASSUME NEW d \in Calls PROVE CallFits(d)' /\ RunsCounted(d)'
  <2>1. CallFits(d) /\ RunsCounted(d)
    BY DEF RelayInv
  <2>2. CallFits(d)'
    BY <1>1, <1>2, <1>3, <2>1 DEF CallFits
  <2>3. RunsCounted(d)'
    BY <1>1, <1>3, <2>1 DEF RunsCounted, Before
  <2> QED
    BY <2>2, <2>3
<1> QED
  BY <1>2, <1>4, <1>5, <1>6, <1>7, <1>8, <1>9 DEF RelayInv, Types

-----------------------------------------------------------------------------
(* Only a close event closes a socket.                                     *)
LEMMA OthersKeepSockets ==
  ASSUME RelayInv, Next, NEW s \in Sockets, life[s] # "closed", life'[s] = "closed"
  PROVE  SocketCloses(s)
<1> USE DEF daemon, relay, sockets, call, wire
<1>0. life \in [Sockets -> {"open", "ended", "dead", "closed"}]
  BY DEF RelayInv, Types, SocketTypes
<1>1. life' # life
  OBVIOUS
<1>2. ASSUME NEW r \in Sockets, SocketCloses(r) PROVE r = s
  BY <1>0, <1>2 DEF SocketCloses
<1>3. ~ \E i : Connected(i, First(FreeSockets)) \/ Leave(i)
  BY <1>0 DEF Connected, Leave
<1>4. ~(Booted \/ OtherSpawns \/ DaemonDies \/ (\E r \in Sockets : SocketBreaks(r)))
  BY OutsideKeeps
<1>5. ~ \E c \in Calls : Arrive(c) \/ Answer(c) \/ CallTimesOut(c)
  BY <1>1 DEF Arrive, Answer, CallTimesOut
<1>6. ~ \E c \in Calls : Refuse(c) \/ Run(c)
  BY <1>1 DEF Refuse, Run, Respond
<1>7. ~ \E c \in Calls : Retry(c)
  BY <1>1, <1>3 DEF Retry
<1>8. ~ \E i \in Clients : DialLands(i) \/ DialRefused(i)
  BY <1>1, <1>3 DEF DialLands, DialRefused
<1>9. ~ Flight
  BY <1>1, <1>3 DEF Flight, EnsureFinds, EnsureFails, FlightDials, FlightRefused, FlightLands,
                    AskSupersede, SupersedeAnswered, SupersedeThrows, Redialed, RedialRefused,
                    HealthKeeps, HealthAlone, ShutdownEnds, GreetFails
<1> QED
  BY <1>2, <1>4, <1>5, <1>6, <1>7, <1>8, <1>9 DEF Next

LEMMA RelayKeeps == ASSUME RelayInv, [Next]_vars PROVE RelayInv'
<1>1. ASSUME NEW c \in Calls,
             Arrive(c) \/ Retry(c) \/ Answer(c) \/ CallTimesOut(c) \/ Refuse(c) \/ Run(c)
      PROVE  RelayInv'
  BY <1>1, ArriveKeeps, RetryKeeps, CallStepsKeep
<1>2. ASSUME NEW i \in Clients, DialLands(i) \/ DialRefused(i) PROVE RelayInv'
  BY <1>2, DialLandsKeeps, DialRefusedKeeps
<1>3. CASE Flight
  BY <1>3, FlightFailsKeeps, EnsureFindsKeeps, FlightDialsKeeps, FlightLandsKeeps,
     FlightAsksKeeps, ShutdownEndsKeeps
  DEF Flight
<1>4. ASSUME NEW s \in Sockets, SocketCloses(s) \/ SocketBreaks(s) PROVE RelayInv'
  BY <1>4, SocketClosesKeeps, OutsideKeeps
<1>5. CASE Booted \/ DaemonDies \/ OtherSpawns \/ UNCHANGED vars
  BY <1>5, OutsideKeeps
<1> QED
  BY <1>1, <1>2, <1>3, <1>4, <1>5 DEF Next

(* The invariant of the relay: every variable has its type, a client and   *)
(* its socket belong to each other, and a call that was sent is on an open *)
(* socket of its client (ipc-client.ts:263, mcp-client/index.ts:304).      *)
THEOREM RelayInvariant == Spec => []RelayInv
<1>1. Init => RelayInv
  BY RelayStart
<1>2. RelayInv /\ [Next]_vars => RelayInv'
  BY RelayKeeps
<1> QED
  BY <1>1, <1>2, PTL DEF Spec

(* A call is run twice only if its first connection was lost or closed     *)
(* under it or the daemon was busy; and a retry is written to a socket     *)
(* that has passed the handshake, or to one that its client dialed bare    *)
(* after it had lost the greeted one while its flight was settling the     *)
(* daemon's version (RetryIsSafe, mcp-client/index.ts:163, 304).           *)
THEOREM RetriesAreSafe == Spec => []RetryIsSafe
<1>1. RelayInv => RetryIsSafe
  <2> SUFFICES ASSUME RelayInv PROVE RetryIsSafe
    OBVIOUS
  <2>1. ASSUME NEW c \in Calls, ran[c] = 2 PROVE first[c] \in {"cut", "busy"}
    <3>1. RunsCounted(c)
      BY DEF RelayInv
    <3> QED
      BY <2>1, <3>1 DEF RunsCounted, Before
  <2>2. ASSUME NEW c \in second, pc[c] = "sent" PROVE on[c] \in greeted \/ via[c] \in stripped
    <3>1. c \in Calls
      BY DEF RelayInv, Types, CallTypes
    <3> QED
      BY <2>2, <3>1 DEF RelayInv, CallFits
  <2> QED
    BY <2>1, <2>2 DEF RetryIsSafe, TwiceOnlyIfCut, GreetedOrStripped
<1> QED
  BY <1>1, RelayInvariant, PTL

(* The close event of a socket finds its client on this socket or on none, *)
(* never on one that was dialed since (CloseIsOwn, ipc-client.ts:263).     *)
THEOREM ClosesAreOwn == Spec => CloseIsOwn
<1>1. RelayInv /\ [Next]_vars
      => [\A s \in Sockets : life[s] # "closed" /\ life'[s] = "closed" =>
            cur[owner[s]] \in {0, s}]_vars
  <2> SUFFICES ASSUME RelayInv, Next, NEW s \in Sockets, life[s] # "closed", life'[s] = "closed"
               PROVE  cur[owner[s]] \in {0, s}
    OBVIOUS
  <2> QED
    BY OthersKeepSockets, SocketClosesKeeps
<1> QED
  BY <1>1, RelayInvariant, PTL DEF Spec, CloseIsOwn

-----------------------------------------------------------------------------
(* The embedding service.  An open breaker that is hot has been tripped,   *)
(* so that the loop refuses what it finds.                                 *)
EmbedCalls ==
  /\ at \in [Callers -> E!Settled \cup {"cached", "queued", "run"}]
  /\ got \in [Callers -> E!Vectors]
  /\ \A c \in Callers : at[c] = "ok" => got[c] = "fit"
Line ==
  /\ queue \in Seq(Callers) /\ Len(queue) <= QueueMax /\ running \in Callers \cup {Nobody}
  /\ timeouts \in 0..MaxTimeouts /\ opened \in {"no", "hot", "cool"}
  /\ opened = "hot" => timeouts >= MaxTimeouts /\ running = Nobody /\ queue = <<>>
FitEntries == {e \in E!Entries : e.vec = "fit"}
CacheFits == cache \in Seq(FitEntries) /\ Len(cache) <= CacheSize
StoreTypes ==
  /\ phase \in {"loading", "failed", "ready", "disposing", "disposed"}
  /\ stored \in [E!Texts -> E!Vectors] /\ writes \subseteq E!Texts
  /\ wedged \in BOOLEAN /\ slips \in 0..MaxSlips

EmbedInv == EmbedCalls /\ Line /\ CacheFits /\ StoreTypes

LEMMA EmbedTypeOK == EmbedInv => E!TypeOK /\ EmbedsFit
<1> SUFFICES ASSUME EmbedInv PROVE E!TypeOK /\ EmbedsFit
  OBVIOUS
<1>1. cache \in Seq(E!Entries) /\ Len(cache) <= CacheSize /\ \A e \in E!ToSet(cache) : e.vec = "fit"
  BY DEF EmbedInv, CacheFits, E!ToSet, FitEntries
<1> QED
  BY <1>1 DEF EmbedInv, EmbedCalls, Line, StoreTypes, E!TypeOK, EmbedsFit, E!EmbedsFit

(* The loop leaves a line that fits, and makes no call "ok".               *)
LEMMA DrainFits ==
  ASSUME NEW q \in Seq(Callers), Len(q) <= QueueMax,
         NEW p \in [Callers -> E!Settled \cup {"cached", "queued", "run"}],
         NEW n \in 0..MaxTimeouts, NEW o \in {"no", "hot", "cool"}, o = "hot" => n >= MaxTimeouts,
         E!Drain(q, p, n, o)
  PROVE  /\ Line' /\ at' \in [Callers -> E!Settled \cup {"cached", "queued", "run"}]
         /\ \A c \in Callers : at'[c] = "ok" => p[c] = "ok"
<1>1. CASE E!Refuses(n, o)
  <2>1. /\ queue' = <<>> /\ running' = Nobody /\ timeouts' = n
        /\ at' = [c \in Callers |-> IF c \in E!ToSet(q) THEN "err" ELSE p[c]]
        /\ opened' = IF q # <<>> /\ o = "no" THEN "hot" ELSE o
    BY <1>1 DEF E!Drain
  <2>2. n >= MaxTimeouts
    BY <1>1 DEF E!Refuses
  <2> QED
    BY <2>1, <2>2, EmbedAssumption DEF Line, E!Settled
<1>2. CASE ~E!Refuses(n, o)
  <2>1. o # "hot"
    BY <1>2 DEF E!Refuses
  <2>2. /\ timeouts' = n /\ opened' = o
        /\ IF q = <<>>
           THEN queue' = <<>> /\ running' = Nobody /\ at' = p
           ELSE queue' = Tail(q) /\ running' = Head(q) /\ at' = [p EXCEPT ![Head(q)] = "run"]
    BY <1>2 DEF E!Drain
  <2>3. CASE q = <<>>
    BY <2>1, <2>2, <2>3, EmbedAssumption DEF Line
  <2>4. CASE q # <<>>
    <3>1. Head(q) \in Callers /\ Tail(q) \in Seq(Callers) /\ Len(Tail(q)) = Len(q) - 1
          /\ Len(q) \in Nat
      BY <2>4
    <3>b. Len(Tail(q)) <= QueueMax
      BY <3>1, EmbedAssumption
    <3>2. Line'
      BY <2>1, <2>2, <2>4, <3>1, <3>b DEF Line
    <3> QED
      BY <2>2, <2>4, <3>1, <3>2
  <2> QED
    BY <2>3, <2>4
<1> QED
  BY <1>1, <1>2

LEMMA PutFits ==
  ASSUME CacheFits, NEW c \in Callers, cache' = E!Put(TextOf[c], "fit")
  PROVE  CacheFits'
<1> DEFINE kept == IF Len(cache) >= CacheSize THEN Tail(cache) ELSE cache
           new  == [text |-> TextOf[c], vec |-> "fit"]
<1>1. new \in FitEntries
  BY DEF FitEntries, E!Entries, E!Vectors, E!Texts
<1>2. kept \in Seq(FitEntries) /\ Len(kept) < CacheSize
  <2>1. CASE Len(cache) >= CacheSize
    <3>1. cache # <<>> /\ Len(cache) = CacheSize
      BY <2>1, EmbedAssumption DEF CacheFits
    <3> QED
      BY <2>1, <3>1, EmbedAssumption DEF CacheFits
  <2>2. CASE ~(Len(cache) >= CacheSize)
    BY <2>2, EmbedAssumption DEF CacheFits
  <2> QED
    BY <2>1, <2>2
<1>3. \/ cache' = [i \in DOMAIN kept |-> IF kept[i].text = TextOf[c] THEN new ELSE kept[i]]
      \/ cache' = Append(kept, new)
  BY DEF E!Put
<1> HIDE DEF kept, new
<1>4. CASE cache' = [i \in DOMAIN kept |-> IF kept[i].text = TextOf[c] THEN new ELSE kept[i]]
  <2>1. DOMAIN kept = 1..Len(kept) /\ \A i \in 1..Len(kept) : kept[i] \in FitEntries
    BY <1>2
  <2>2. cache' \in [1..Len(kept) -> FitEntries] /\ Len(kept) \in Nat
    BY <1>1, <1>2, <1>4, <2>1
  <2>3. cache' \in Seq(FitEntries) /\ Len(cache') = Len(kept)
    BY <2>2
  <2> QED
    BY <1>2, <2>3, EmbedAssumption DEF CacheFits, FitEntries
<1>5. CASE cache' = Append(kept, new)
  <2>1. cache' \in Seq(FitEntries) /\ Len(cache') = Len(kept) + 1 /\ Len(kept) \in Nat
    BY <1>1, <1>2, <1>5
  <2> QED
    BY <1>2, <2>1, EmbedAssumption DEF CacheFits
<1> QED
  BY <1>3, <1>4, <1>5

LEMMA EmbedStart == E!Init => EmbedInv
<1> SUFFICES ASSUME E!Init PROVE EmbedInv
  OBVIOUS
<1> USE EmbedAssumption DEF E!Init
<1>1. EmbedCalls
  BY DEF EmbedCalls, E!Settled, E!Vectors
<1>2. Line /\ CacheFits
  BY DEF Line, CacheFits
<1>3. StoreTypes
  <2>1. stored \in [E!Texts -> {"none", "unfit"}]
    OBVIOUS
  <2>2. stored \in [E!Texts -> E!Vectors]
    BY <2>1 DEF E!Vectors
  <2>3. phase = "loading" /\ writes = {} /\ wedged = FALSE /\ slips \in 0..MaxSlips
    OBVIOUS
  <2> QED
    BY <2>2, <2>3 DEF StoreTypes
<1> QED
  BY <1>1, <1>2, <1>3 DEF EmbedInv

(* A computation ends: it settles its call, and the loop goes on.          *)
LEMMA ComputationKeeps ==
  ASSUME EmbedInv, E!Computed \/ E!WrongWidth \/ E!ComputeFails \/ E!DeadlinePasses
  PROVE  EmbedInv'
<1> USE DEF E!service, E!calls, E!line, E!breaker, E!caches
<1>0. EmbedCalls /\ Line /\ CacheFits /\ StoreTypes
  BY DEF EmbedInv
<1>1. running \in Callers /\ running # Nobody /\ opened # "hot"
  BY <1>0 DEF Line, E!Computed, E!WrongWidth, E!ComputeFails, E!DeadlinePasses
<1>2. PICK s \in {"ok", "err"}, n \in 0..MaxTimeouts, o \in {"no", "hot", "cool"} :
        /\ E!Drain(queue, E!Settle(running, s), n, o)
        /\ o = "hot" => n >= MaxTimeouts
        /\ s = "ok" => E!Computed
  <2>1. CASE E!Computed
    BY <2>1, EmbedAssumption DEF E!Computed, E!Closed
  <2>2. CASE E!WrongWidth
    BY <2>2, EmbedAssumption DEF E!WrongWidth, E!Closed
  <2>3. CASE E!ComputeFails
    BY <1>0, <1>1, <2>3 DEF E!ComputeFails, Line
  <2>4. CASE E!DeadlinePasses
    <3>1. PICK n : /\ n = (IF E!Tripped THEN timeouts ELSE timeouts + 1)
                   /\ E!Drain(queue, E!Settle(running, "err"), n, E!Reopened(n))
      BY <2>4 DEF E!DeadlinePasses
    <3>2. n \in 0..MaxTimeouts
      BY <1>0, <3>1, EmbedAssumption DEF Line, E!Tripped
    <3>3. /\ E!Reopened(n) \in {"no", "hot", "cool"}
          /\ E!Reopened(n) = "hot" => n >= MaxTimeouts
      BY <1>0, <1>1 DEF E!Reopened, Line
    <3> QED
      BY <3>1, <3>2, <3>3
  <2> QED
    BY <2>1, <2>2, <2>3, <2>4
<1>3. E!Settle(running, s) \in [Callers -> E!Settled \cup {"cached", "queued", "run"}]
  BY <1>0 DEF EmbedCalls, E!Settle, E!Settled
<1>4. /\ Line' /\ at' \in [Callers -> E!Settled \cup {"cached", "queued", "run"}]
      /\ \A c \in Callers : at'[c] = "ok" => E!Settle(running, s)[c] = "ok"
  BY <1>0, <1>2, <1>3, DrainFits DEF Line
<1>5. CASE E!Computed
  <2>1. /\ got' = [got EXCEPT ![running] = "fit"] /\ cache' = E!Put(TextOf[running], "fit")
        /\ writes' = writes \cup {TextOf[running]} /\ UNCHANGED <<phase, wedged, slips, stored>>
    BY <1>5 DEF E!Computed
  <2>2. CacheFits'
    BY <1>0, <1>1, <2>1, PutFits
  <2>3. EmbedCalls'
    BY <1>0, <1>1, <1>4, <2>1 DEF EmbedCalls, E!Settle, E!Vectors
  <2>4. StoreTypes'
    BY <1>0, <1>1, <2>1 DEF StoreTypes, E!Texts
  <2> QED
    BY <1>4, <2>2, <2>3, <2>4 DEF EmbedInv
<1>6. CASE ~E!Computed
  <2>1. /\ s = "err" /\ UNCHANGED <<phase, wedged, got, cache, stored, writes>>
        /\ slips' = slips \/ (slips < MaxSlips /\ slips' = slips + 1) \/ phase = "ready"
    BY <1>2, <1>6 DEF E!WrongWidth, E!ComputeFails, E!DeadlinePasses
  <2>2. EmbedCalls' /\ CacheFits'
    BY <1>0, <1>4, <2>1 DEF EmbedCalls, CacheFits, E!Settle
  <2>3. slips' = slips \/ (slips < MaxSlips /\ slips' = slips + 1)
    BY <1>6 DEF E!WrongWidth, E!ComputeFails, E!DeadlinePasses
  <2>4. StoreTypes'
    BY <1>0, <2>1, <2>3, EmbedAssumption DEF StoreTypes
  <2> QED
    BY <1>4, <2>2, <2>4 DEF EmbedInv
<1> QED
  BY <1>5, <1>6

LEMMA AskKeeps == ASSUME EmbedInv, NEW c \in Callers, E!Ask(c) PROVE EmbedInv'
<1> USE DEF E!service, E!calls, E!line, E!breaker, E!caches
<1>0. EmbedCalls /\ Line /\ CacheFits /\ StoreTypes
  BY DEF EmbedInv
<1>1. Line' /\ StoreTypes'
  BY <1>0 DEF E!Ask, Line, StoreTypes
<1>2. CASE UNCHANGED cache /\ got' = [got EXCEPT ![c] = "none"]
           /\ (at' = E!Settle(c, "err") \/ at' = E!Settle(c, "cached"))
  BY <1>0, <1>1, <1>2 DEF EmbedInv, EmbedCalls, CacheFits, E!Settle, E!Settled, E!Vectors
<1>3. CASE E!Cached(TextOf[c]) /\ at' = E!Settle(c, "ok")
           /\ \E i \in {E!Lookup(TextOf[c])} :
                /\ cache' = Append(E!RemoveAt(cache, i), cache[i])
                /\ got' = [got EXCEPT ![c] = cache[i].vec]
  <2>1. PICK i \in DOMAIN cache :
          /\ cache' = Append(E!RemoveAt(cache, i), cache[i])
          /\ got' = [got EXCEPT ![c] = cache[i].vec]
    BY <1>3 DEF E!Cached, E!Lookup
  <2>2. i \in 1..Len(cache) /\ cache[i] \in FitEntries /\ Len(cache) \in Nat
    BY <1>0, <2>1 DEF CacheFits
  <2>3. SubSeq(cache, 1, i - 1) \in Seq(FitEntries) /\ Len(SubSeq(cache, 1, i - 1)) = i - 1
    BY <1>0, <2>2 DEF CacheFits
  <2>4. /\ SubSeq(cache, i + 1, Len(cache)) \in Seq(FitEntries)
        /\ Len(SubSeq(cache, i + 1, Len(cache))) = Len(cache) - i
    BY <1>0, <2>2 DEF CacheFits
  <2>5. E!RemoveAt(cache, i) \in Seq(FitEntries) /\ Len(E!RemoveAt(cache, i)) = Len(cache) - 1
    <3>1. E!RemoveAt(cache, i) = SubSeq(cache, 1, i - 1) \o SubSeq(cache, i + 1, Len(cache))
      BY DEF E!RemoveAt
    <3> DEFINE a == SubSeq(cache, 1, i - 1)
               b == SubSeq(cache, i + 1, Len(cache))
    <3>2. a \in Seq(FitEntries) /\ b \in Seq(FitEntries) /\ E!RemoveAt(cache, i) = a \o b
          /\ Len(a) = i - 1 /\ Len(b) = Len(cache) - i
      BY <2>3, <2>4, <3>1
    <3> HIDE DEF a, b
    <3>3. a \o b \in Seq(FitEntries) /\ Len(a \o b) = Len(a) + Len(b)
      BY <3>2, ConcatProperties
    <3> QED
      BY <2>2, <3>2, <3>3
  <2>6. CacheFits'
    BY <1>0, <2>1, <2>2, <2>5 DEF CacheFits, FitEntries
  <2>7. EmbedCalls'
    BY <1>0, <1>3, <2>1, <2>2
    DEF EmbedCalls, E!Settle, E!Settled, E!Vectors, FitEntries
  <2> QED
    BY <1>1, <2>6, <2>7 DEF EmbedInv
<1> QED
  BY <1>2, <1>3 DEF E!Ask

LEMMA AnswersKeep == ASSUME EmbedInv, NEW c \in Callers, E!Hit(c) \/ E!Miss(c) PROVE EmbedInv'
<1> USE DEF E!service, E!calls, E!line, E!breaker, E!caches
<1>0. EmbedCalls /\ Line /\ CacheFits /\ StoreTypes
  BY DEF EmbedInv
<1>1. CASE E!Hit(c)
  <2>1. /\ at' = E!Settle(c, "ok") /\ got' = [got EXCEPT ![c] = "fit"]
        /\ cache' = E!Put(TextOf[c], "fit")
        /\ UNCHANGED <<phase, wedged, slips, queue, running, timeouts, opened, stored, writes>>
    BY <1>1 DEF E!Hit, E!Servable
  <2>2. EmbedCalls' /\ Line' /\ StoreTypes'
    BY <1>0, <2>1 DEF EmbedCalls, Line, StoreTypes, E!Settle, E!Settled, E!Vectors
  <2> QED
    BY <1>0, <2>1, <2>2, PutFits DEF EmbedInv
<1>2. CASE E!Miss(c)
  <2>1. UNCHANGED <<phase, wedged, slips, got, cache, stored, writes>>
    BY <1>2 DEF E!Miss
  <2>2. CacheFits' /\ StoreTypes'
    BY <1>0, <2>1 DEF CacheFits, StoreTypes
  <2>3. /\ Line' /\ at' \in [Callers -> E!Settled \cup {"cached", "queued", "run"}]
        /\ \A d \in Callers : at'[d] = "ok" => at[d] = "ok"
    <3>1. CASE at' = E!Settle(c, "err") /\ UNCHANGED <<queue, running, timeouts, opened>>
      BY <1>0, <3>1 DEF Line, EmbedCalls, E!Settle, E!Settled
    <3>2. CASE /\ E!HasRoom /\ running # Nobody /\ at' = E!Settle(c, "queued")
               /\ queue' = Append(queue, c) /\ UNCHANGED <<running, timeouts, opened>>
      BY <1>0, <3>2, EmbedAssumption DEF Line, EmbedCalls, E!Settle, E!Settled, E!HasRoom
    <3>3. CASE /\ E!HasRoom /\ running = Nobody
               /\ E!Drain(Append(queue, c), E!Settle(c, "queued"), timeouts, opened)
      <4>1. Append(queue, c) \in Seq(Callers) /\ Len(Append(queue, c)) <= QueueMax
        BY <1>0, <3>3, EmbedAssumption DEF Line, E!HasRoom
      <4>2. /\ E!Settle(c, "queued") \in [Callers -> E!Settled \cup {"cached", "queued", "run"}]
            /\ \A d \in Callers : E!Settle(c, "queued")[d] = "ok" => at[d] = "ok"
        BY <1>0 DEF EmbedCalls, E!Settle, E!Settled
      <4>3. timeouts \in 0..MaxTimeouts /\ opened \in {"no", "hot", "cool"}
            /\ (opened = "hot" => timeouts >= MaxTimeouts)
        BY <1>0 DEF Line
      <4> QED
        BY <3>3, <4>1, <4>2, <4>3, DrainFits
    <3> QED
      BY <1>2, <3>1, <3>2, <3>3 DEF E!Miss
  <2>4. EmbedCalls'
    BY <1>0, <2>1, <2>3 DEF EmbedCalls
  <2> QED
    BY <2>2, <2>3, <2>4 DEF EmbedInv
<1> QED
  BY <1>1, <1>2

(* Everything else: the service, its caches and its clock.                 *)
LEMMA ServiceKeeps ==
  ASSUME EmbedInv,
         \/ E!Load \/ E!CoolDown \/ E!Dispose \/ E!Disposed \/ E!Wedge \/ E!Unwedge
         \/ \E t \in E!Texts : E!WriteLands(t) \/ E!PurgeStored(t)
         \/ UNCHANGED embedVars
  PROVE  EmbedInv'
<1> USE DEF E!service, E!calls, E!line, E!breaker, E!caches
<1>0. EmbedCalls /\ Line /\ CacheFits /\ StoreTypes
  BY DEF EmbedInv
<1>1. EmbedCalls'
  <2>1. CASE E!Dispose
    BY <1>0, <2>1 DEF E!Dispose, EmbedCalls, E!Settled
  <2>2. CASE UNCHANGED <<at, got>>
    BY <1>0, <2>2 DEF EmbedCalls
  <2> QED
    BY <2>1, <2>2 DEF E!Load, E!CoolDown, E!Disposed, E!Wedge, E!Unwedge, E!WriteLands,
                      E!PurgeStored, embedVars
<1>2. Line'
  <2>1. CASE E!Dispose
    BY <1>0, <2>1, EmbedAssumption DEF E!Dispose, Line
  <2>2. CASE E!CoolDown
    BY <1>0, <2>2 DEF E!CoolDown, Line
  <2>3. CASE UNCHANGED <<queue, running, timeouts, opened>>
    BY <1>0, <2>3 DEF Line
  <2> QED
    BY <2>1, <2>2, <2>3 DEF E!Load, E!Disposed, E!Wedge, E!Unwedge, E!WriteLands,
                            E!PurgeStored, embedVars
<1>3. CacheFits'
  <2>1. CASE cache' = <<>>
    BY <2>1, EmbedAssumption DEF CacheFits
  <2>2. CASE UNCHANGED cache
    BY <1>0, <2>2 DEF CacheFits
  <2> QED
    BY <2>1, <2>2 DEF E!Load, E!CoolDown, E!Dispose, E!Disposed, E!Wedge, E!Unwedge,
                      E!WriteLands, E!PurgeStored, embedVars
<1>4. StoreTypes'
  <2>1. slips' = slips \/ (slips < MaxSlips /\ slips' = slips + 1)
    BY DEF E!Load, E!CoolDown, E!Dispose, E!Disposed, E!Wedge, E!Unwedge,
           E!WriteLands, E!PurgeStored, embedVars
  <2>2. slips' \in 0..MaxSlips
    BY <1>0, <2>1, EmbedAssumption DEF StoreTypes
  <2>3. CASE \E t \in E!Texts : E!WriteLands(t) \/ E!PurgeStored(t)
    BY <1>0, <2>2, <2>3 DEF StoreTypes, E!WriteLands, E!PurgeStored, E!Vectors
  <2>4. CASE ~ \E t \in E!Texts : E!WriteLands(t) \/ E!PurgeStored(t)
    BY <1>0, <2>2, <2>4 DEF StoreTypes, E!Load, E!CoolDown, E!Dispose, E!Disposed, E!Wedge,
                            E!Unwedge, embedVars
  <2> QED
    BY <2>3, <2>4
<1> QED
  BY <1>1, <1>2, <1>3, <1>4 DEF EmbedInv

-----------------------------------------------------------------------------
(* A step of the composition is one of the relay or one of the service.    *)
LEMMA StepsAreSteps ==
  ASSUME [CallsNext]_CallsVars
  PROVE  [Next]_vars /\ (EmbedInv => EmbedInv')
<1>1. CASE UNCHANGED embedVars /\ [Next]_vars
  BY <1>1, ServiceKeeps
<1>2. CASE /\ UNCHANGED vars
           /\ \/ E!Load \/ E!CoolDown \/ E!Dispose \/ E!Disposed \/ E!Wedge \/ E!Unwedge
              \/ \E t \in E!Texts : E!WriteLands(t) \/ E!PurgeStored(t)
  BY <1>2, ServiceKeeps
<1>3. CASE UNCHANGED vars /\ (E!Computed \/ E!WrongWidth \/ E!ComputeFails \/ E!DeadlinePasses)
  BY <1>3, ComputationKeeps
<1>4. CASE UNCHANGED vars /\ \E c \in Callers : E!Ask(c) \/ E!Hit(c) \/ E!Miss(c)
  BY <1>4, AskKeeps, AnswersKeep
<1>5. CASE UNCHANGED CallsVars
  BY <1>1, <1>5 DEF CallsVars
<1>6. CASE CallsNext
  <2> USE DEF Relay, Embed
  <2>1. ASSUME NEW c \in Calls,
               \/ Relay(Arrive(c)) \/ Relay(Retry(c)) \/ Relay(Answer(c)) \/ Relay(CallTimesOut(c))
               \/ Relay(Refuse(c)) \/ Relay(Run(c))
        PROVE  UNCHANGED embedVars /\ [Next]_vars
    BY <2>1 DEF Next
  <2>2. ASSUME NEW i \in Clients, Relay(DialLands(i)) \/ Relay(DialRefused(i))
        PROVE  UNCHANGED embedVars /\ [Next]_vars
    BY <2>2 DEF Next
  <2>3. CASE \/ Relay(EnsureFinds) \/ Relay(EnsureFails) \/ Relay(FlightDials)
             \/ Relay(FlightRefused) \/ Relay(FlightLands) \/ Relay(AskSupersede)
             \/ Relay(SupersedeAnswered) \/ Relay(SupersedeThrows) \/ Relay(Redialed)
             \/ Relay(RedialRefused) \/ Relay(HealthKeeps) \/ Relay(HealthAlone)
             \/ Relay(ShutdownEnds) \/ \E why \in {"error", "unauth"} : Relay(GreetFails(why))
    BY <1>1, <2>3 DEF Next, Flight
  <2>4. ASSUME NEW s \in Sockets, Relay(SocketCloses(s)) \/ Relay(SocketBreaks(s))
        PROVE  UNCHANGED embedVars /\ [Next]_vars
    BY <2>4 DEF Next
  <2>5. CASE Relay(Booted) \/ Relay(DaemonDies) \/ Relay(OtherSpawns)
    BY <1>1, <2>5 DEF Next
  <2>6. CASE \/ Embed(E!Load) \/ Embed(E!Computed) \/ Embed(E!WrongWidth) \/ Embed(E!ComputeFails)
             \/ Embed(E!DeadlinePasses) \/ Embed(E!CoolDown) \/ Embed(E!Dispose)
             \/ Embed(E!Disposed) \/ Embed(E!Wedge) \/ Embed(E!Unwedge)
    BY <1>2, <1>3, <2>6
  <2>7. CASE \E c \in Callers : Embed(E!Ask(c)) \/ Embed(E!Hit(c)) \/ Embed(E!Miss(c))
    BY <1>4, <2>7
  <2>8. CASE \E t \in E!Texts : Embed(E!WriteLands(t)) \/ Embed(E!PurgeStored(t))
    BY <1>2, <2>8
  <2> QED
    BY <1>1, <1>6, <2>1, <2>2, <2>3, <2>4, <2>5, <2>6, <2>7, <2>8 DEF CallsNext
<1> QED
  BY <1>5, <1>6

LEMMA RelayRefined == CallsSpec => Spec
<1>1. CallsInit => Init
  BY DEF CallsInit
<1>2. [CallsNext]_CallsVars => [Next]_vars
  BY StepsAreSteps
<1> QED
  BY <1>1, <1>2, PTL DEF CallsSpec, Spec

(* The invariant of the embedding service: a breaker that is open and hot  *)
(* has been tripped, with nothing computed and nobody waiting, and every   *)
(* entry of the first cache has the right width (embeddings.ts:137, 291).  *)
THEOREM EmbedInvariant == CallsSpec => []EmbedInv
<1>1. CallsInit => EmbedInv
  BY EmbedStart DEF CallsInit
<1>2. EmbedInv /\ [CallsNext]_CallsVars => EmbedInv'
  BY StepsAreSteps
<1> QED
  BY <1>1, <1>2, PTL DEF CallsSpec

(* No vector of another width is handed out or cached, and nobody waits    *)
(* for an open breaker (EmbedsFit, embeddings.ts:137, 348).                *)
THEOREM VectorsFit == CallsSpec => []EmbedsFit
<1>1. EmbedInv => EmbedsFit
  BY EmbedTypeOK
<1> QED
  BY <1>1, EmbedInvariant, PTL

(* The variables of both parts have their types: the cache, the queue and  *)
(* the runs of a call stay within their bounds (embeddings.ts:137,         *)
(* mcp-client/index.ts:304).                                               *)
THEOREM CallsAreTyped == CallsSpec => []CallsTypeOK
<1>1. RelayInv /\ EmbedInv => CallsTypeOK
  BY RelayTypeOK, EmbedTypeOK DEF CallsTypeOK
<1> QED
  BY <1>1, RelayRefined, RelayInvariant, EmbedInvariant, PTL
=============================================================================
