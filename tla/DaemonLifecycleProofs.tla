------------------------- MODULE DaemonLifecycleProofs -------------------------
(* Theorems about DaemonLifecycle, for any processes and bounds: one secret, and one  *)
(* listening daemon, whatever starts, crashes and stops run beside one another.       *)
EXTENDS DaemonLifecycle, TLAPS

-----------------------------------------------------------------------------
(* The inductive invariant *)

\* The phases in which start() has returned from ensureBrokerSecret.
Equipped == {"initialize", "bind", "listen", "chmod", "serving", "failed"}

\* A server is there from listen() to the end of the process or of the connections.
Serves == \A d \in listening : phase[d] \in {"chmod", "serving", "failed"}

\* The file is empty while its creator has not written it, and it has one creator.
OneWriter ==
  /\ \A d \in Daemons : phase[d] = "write" => secretFile = "empty"
  /\ \A d, e \in Daemons : phase[d] = "write" /\ phase[e] = "write" => d = e

\* Nobody holds a secret that is not in the file.
Filed == \A d \in Daemons : secretOf[d] # None => secretOf[d] = secretFile

Held == \A d \in Daemons : phase[d] \in Equipped => secretOf[d] # None

SecretInv == TypeOK /\ Serves /\ OneWriter /\ Filed /\ Held

ClientRecords ==
  [at: {"idle", "asking", "waiting", "connected", "ended"}, to: Daemons \cup {None}]

-----------------------------------------------------------------------------
(* What the steps have in common *)

\* Connections that are dropped leave clients of the same type.
LEMMA DroppedType ==
  ASSUME TypeOK, NEW d, Dropped(d)
  PROVE  client' \in [Clients -> ClientRecords]
  BY DEF TypeOK, Dropped, ClientRecords

\* Phases change by Goto only.
LEMMA Moves ==
  [Next]_vars => (\E d : \E next \in Phases : Goto(d, next)) \/ UNCHANGED <<phase, collided>>
<1> SUFFICES ASSUME [Next]_vars
             PROVE  (\E d : \E next \in Phases : Goto(d, next)) \/ UNCHANGED <<phase, collided>>
  OBVIOUS
<1> USE DEF Phases, Starting
<1>1. ASSUME NEW d, UserStarts(d) \/ Check(d) \/ Inspect(d) \/ Probe(d) \/ Unlink(d)
      PROVE  \E next \in Phases : Goto(d, next)
  BY <1>1 DEF UserStarts, Check, Inspect, Probe, Unlink
<1>2. ASSUME NEW d, ReadSecret(d) \/ RereadSecret(d) \/ CreateSecret(d) \/ WriteSecret(d)
      PROVE  \E next \in Phases : Goto(d, next)
  BY <1>2 DEF ReadSecret, RereadSecret, Reads, CreateSecret, OpenSecret, WriteSecret
<1>3. ASSUME NEW d, InitializeAudit(d) \/ Bind(d) \/ Listen(d) \/ Chmod(d) \/ StartFails(d)
      PROVE  \E next \in Phases : Goto(d, next)
  BY <1>3 DEF InitializeAudit, Bind, Listen, Chmod, StartFails
<1>4. ASSUME NEW d, Stops(d) \/ StopUnlinks(d) \/ Crash(d)
      PROVE  \E next \in Phases : Goto(d, next)
  BY <1>4 DEF Stops, StopUnlinks, Crash
<1>5. ASSUME NEW c, ClientStep(c)
      PROVE  (\E d : \E next \in Phases : Goto(d, next)) \/ UNCHANGED <<phase, collided>>
  BY <1>5 DEF ClientStep, ClientAsks, ClientConnects, ClientGivesUp, ClientLeaves, ClientSpawns,
              processes
<1>6. CASE ActivateKillSwitch \/ ClearKillSwitch \/ UNCHANGED vars
  BY <1>6 DEF ActivateKillSwitch, ClearKillSwitch, processes, vars
<1> QED BY <1>1, <1>2, <1>3, <1>4, <1>5, <1>6
        DEF Next, DaemonStep, MonitorStops, StopRequested, DisconnectFails

\* A process that goes on keeps the types of the phases.
LEMMA GotoType ==
  ASSUME TypeOK, NEW d, NEW next \in Phases, Goto(d, next)
  PROVE  phase' \in [Daemons -> Phases] /\ collided' \in BOOLEAN
<1>1. phase' \in [Daemons -> Phases]
  BY DEF TypeOK, Goto
<1>2. collided' = (collided \/ Collision')
  BY DEF Goto
<1>3. Collision' \in BOOLEAN
  BY DEF Collision
<1> QED BY <1>1, <1>2, <1>3 DEF TypeOK

\* The types hold in every step.
LEMMA TypeStep == TypeOK /\ [Next]_vars => TypeOK'
<1> SUFFICES ASSUME TypeOK, [Next]_vars PROVE TypeOK'
  OBVIOUS
<1>0. MaxFaults \in Nat /\ MaxSwitches \in Nat
  BY LifecycleAssumption
<1> USE <1>0
<1>a. phase' \in [Daemons -> Phases] /\ collided' \in BOOLEAN
  BY Moves, GotoType DEF TypeOK
<1> USE <1>a
<1> USE DEF TypeOK, bounds, files, processes
<1>1. ASSUME NEW d \in Daemons, UserStarts(d) \/ Check(d) \/ Inspect(d) \/ Probe(d) \/ Unlink(d)
      PROVE  TypeOK'
  BY <1>1 DEF UserStarts, Check, Inspect, Probe, Unlink, UnlinkSocket, Phases, Starting
<1>2. ASSUME NEW d \in Daemons, ReadSecret(d) \/ RereadSecret(d)
      PROVE  TypeOK'
  BY <1>2 DEF ReadSecret, RereadSecret, Reads, Phases, Starting
<1>3. ASSUME NEW d \in Daemons, CreateSecret(d) \/ WriteSecret(d)
      PROVE  TypeOK'
  BY <1>3 DEF CreateSecret, OpenSecret, WriteSecret, Phases, Starting
<1>4. ASSUME NEW d \in Daemons, InitializeAudit(d) \/ Bind(d) \/ Listen(d) \/ Chmod(d) \/ StartFails(d)
      PROVE  TypeOK'
  BY <1>4 DEF InitializeAudit, Bind, Listen, Chmod, StartFails, Phases, Starting
<1>5. ASSUME NEW d, Stops(d), faults' \in 0..MaxFaults, UNCHANGED switches
      PROVE  TypeOK'
  <2>1. client' \in [Clients -> ClientRecords]
    BY <1>5, DroppedType DEF Stops
  <2> QED BY <1>5, <2>1 DEF Stops, Phases, ClientRecords
<1>6. ASSUME NEW d \in Daemons, Crash(d)
      PROVE  TypeOK'
  <2>1. client' \in [Clients -> ClientRecords]
    BY <1>6, DroppedType DEF Crash
  <2> QED BY <1>6, <2>1 DEF Crash, Phases, ClientRecords
<1>7. ASSUME NEW d \in Daemons, MonitorStops(d) \/ StopRequested(d) \/ StopUnlinks(d)
      PROVE  TypeOK'
  <2>1. CASE MonitorStops(d)
    BY <2>1, <1>5 DEF MonitorStops
  <2>2. CASE StopRequested(d)
    <3>1. faults' \in 0..MaxFaults /\ UNCHANGED switches /\ Stops(d)
      BY <2>2 DEF StopRequested
    <3> QED BY <3>1, <1>5
  <2>3. CASE StopUnlinks(d)
    BY <2>3 DEF StopUnlinks, UnlinkSocket, Phases
  <2> QED BY <1>7, <2>1, <2>2, <2>3
<1>8. ASSUME NEW c \in Clients, ClientStep(c)
      PROVE  TypeOK'
  <2>1. ASSUME NEW at \in {"idle", "asking", "waiting", "connected", "ended"},
               NEW to \in Daemons \cup {None}, Client(c, at, to)
        PROVE  client' \in [Clients -> ClientRecords]
    BY <2>1 DEF Client, ClientRecords
  <2>2. CASE ClientAsks(c)
    BY <2>2, <2>1 DEF ClientAsks, ClientRecords
  <2>3. CASE ClientConnects(c)
    <3>1. socketPath \in Daemons
      BY <2>3 DEF ClientConnects, PathServed
    <3> QED BY <3>1, <2>3, <2>1 DEF ClientConnects, ClientRecords
  <2>4. CASE ClientGivesUp(c) \/ ClientLeaves(c)
    BY <2>4, <2>1 DEF ClientGivesUp, ClientLeaves, ClientRecords
  <2>5. ASSUME NEW d \in Daemons, ClientSpawns(c, d)
        PROVE  TypeOK'
    BY <2>5, <2>1 DEF ClientSpawns, ClientRecords, Phases, Starting
  <2> QED BY <1>8, <2>2, <2>3, <2>4, <2>5 DEF ClientStep
<1>9. ASSUME NEW c \in Clients, DisconnectFails(c)
      PROVE  TypeOK'
  <2>1. faults' \in 0..MaxFaults /\ UNCHANGED switches /\ Stops(client[c].to)
    BY <1>9 DEF DisconnectFails
  <2> QED BY <2>1, <1>5
<1>10. CASE ActivateKillSwitch \/ ClearKillSwitch
  <2>1. switches < MaxSwitches /\ switches' = switches + 1
    BY <1>10, Zenon DEF ActivateKillSwitch, ClearKillSwitch
  <2>2. switches' \in 0..MaxSwitches
    BY <2>1
  <2>3. marker' \in BOOLEAN
    BY <1>10, Zenon DEF ActivateKillSwitch, ClearKillSwitch
  <2>4. UNCHANGED <<phase, listening, secretOf, client, socketPath, secretFile, faults, collided>>
    BY <1>10, Zenon DEF ActivateKillSwitch, ClearKillSwitch
  <2>5. collided' \in BOOLEAN
    BY <2>4
  <2> QED BY <2>2, <2>3, <2>4, <2>5
<1>11. CASE UNCHANGED vars
  BY <1>11 DEF vars
<1> QED BY <1>1, <1>2, <1>3, <1>4, <1>6, <1>7, <1>8, <1>9, <1>10, <1>11 DEF Next, DaemonStep

\* Every step keeps the invariant.  Only the steps of one start touch the secret.
LEMMA SecretStep == SecretInv /\ [Next]_vars => SecretInv'
<1> SUFFICES ASSUME SecretInv, [Next]_vars PROVE SecretInv'
  OBVIOUS
<1>0. TypeOK' /\ None \notin Daemons /\ "empty" \notin Daemons
  BY TypeStep, LifecycleAssumption DEF SecretInv
<1> USE <1>0
<1> USE DEF SecretInv, TypeOK, Serves, OneWriter, Filed, Held, Equipped, Goto
<1>1. ASSUME NEW d \in Daemons, UserStarts(d) \/ Check(d) \/ Inspect(d) \/ Probe(d) \/ Unlink(d)
      PROVE  SecretInv'
  BY <1>1 DEF UserStarts, Check, Inspect, Probe, Unlink, files
<1>2. ASSUME NEW d \in Daemons, ReadSecret(d) \/ RereadSecret(d)
      PROVE  SecretInv'
  BY <1>2 DEF ReadSecret, RereadSecret, Reads, files
<1>3. ASSUME NEW d \in Daemons, CreateSecret(d)
      PROVE  SecretInv'
  <2>1. CASE secretFile = None
    <3>1. \A e \in Daemons : secretOf[e] = None /\ phase[e] # "write"
      BY <2>1, LifecycleAssumption
    <3> QED BY <1>3, <2>1, <3>1 DEF CreateSecret, OpenSecret
  <2>2. CASE secretFile # None
    BY <1>3, <2>2 DEF CreateSecret, OpenSecret
  <2> QED BY <2>1, <2>2
<1>4. ASSUME NEW d \in Daemons, WriteSecret(d)
      PROVE  SecretInv'
  <2>1. \A e \in Daemons : secretOf[e] = None
    BY <1>4 DEF WriteSecret
  <2>2. \A e \in Daemons : phase[e] = "write" => e = d
    BY <1>4 DEF WriteSecret
  <2> QED BY <1>4, <2>1, <2>2 DEF WriteSecret
<1>5. ASSUME NEW d \in Daemons, InitializeAudit(d) \/ Bind(d) \/ Listen(d) \/ Chmod(d) \/ StartFails(d)
      PROVE  SecretInv'
  BY <1>5 DEF InitializeAudit, Bind, Listen, Chmod, StartFails, Starting, files
<1>6. ASSUME NEW d, Stops(d)
      PROVE  SecretInv'
  BY <1>6 DEF Stops
<1>7. ASSUME NEW d \in Daemons, Crash(d) \/ StopUnlinks(d)
      PROVE  SecretInv'
  BY <1>7 DEF Crash, StopUnlinks, files
<1>8. ASSUME NEW c \in Clients, ClientStep(c)
      PROVE  SecretInv'
  <2>1. ASSUME NEW d \in Daemons, ClientSpawns(c, d)
        PROVE  SecretInv'
    BY <2>1 DEF ClientSpawns, files
  <2>2. ASSUME UNCHANGED <<phase, listening, secretOf, secretFile>>
        PROVE  SecretInv'
    BY <2>2
  <2> QED BY <1>8, <2>1, <2>2 DEF ClientStep, ClientAsks, ClientConnects, ClientGivesUp,
             ClientLeaves, processes, files
<1>9. CASE ActivateKillSwitch \/ ClearKillSwitch \/ UNCHANGED vars
  <2>1. UNCHANGED <<phase, listening, secretOf, secretFile>>
    BY <1>9 DEF ActivateKillSwitch, ClearKillSwitch, processes, vars, files
  <2> QED BY <2>1
<1> QED BY <1>1, <1>2, <1>3, <1>4, <1>5, <1>6, <1>7, <1>8, <1>9
        DEF Next, DaemonStep, MonitorStops, StopRequested, DisconnectFails

LEMMA SecretInit == Init => SecretInv
<1> SUFFICES ASSUME Init PROVE SecretInv
  OBVIOUS
<1> USE LifecycleAssumption DEF Init
<1>0. "off" \in Phases /\ 0 \in 0..MaxFaults /\ 0 \in 0..MaxSwitches
  BY DEF Phases
<1>1. TypeOK
  BY <1>0 DEF TypeOK
<1>2. Serves /\ OneWriter /\ Filed /\ Held
  BY DEF Serves, OneWriter, Filed, Held, Equipped
<1> QED BY <1>1, <1>2 DEF SecretInv

-----------------------------------------------------------------------------
(* The theorems *)

\* Processes, clients and files keep their types in every behaviour.
THEOREM LifecycleTypeCorrect == Spec => []TypeOK
<1>1. Init => TypeOK
  BY SecretInit DEF SecretInv
<1> QED BY <1>1, TypeStep, PTL DEF Spec

\* However many daemons start, crash and stop at whatever moments, all that hold a secret
\* hold the one that is in the file, and every listening daemon holds it
\* (ensureBrokerSecret, start).
THEOREM SecretIsShared == Spec => []SecretShared
<1>1. SecretInv => SecretShared
  BY DEF SecretInv, TypeOK, Serves, Filed, Held, Equipped, SecretShared
<1> QED BY <1>1, SecretInit, SecretStep, PTL DEF Spec

-----------------------------------------------------------------------------
(* Daemons exclude one another *)

\* A server is there until the process ends or stops, and so is the other end of a
\* connection.
Reachable ==
  /\ \A d \in Daemons : phase[d] \in {"chmod", "serving", "failed"} => d \in listening
  /\ \A c \in Clients : client[c].at = "connected" => client[c].to \in listening

\* The name is that of whoever bound or listens, and who is about to remove it has seen
\* that nobody listens, or has just stopped being the one that does.
Exclusive ==
  /\ listening \subseteq {socketPath}
  /\ \A d \in Daemons : phase[d] = "listen" => socketPath = d
  /\ \A d \in Daemons : phase[d] \in {"unlink", "stopping"} => listening = {}
  /\ ~Collision

ExcludeInv == SecretInv /\ Reachable /\ (~collided => Exclusive)

\* Nobody leaves the listening daemons but by stopping or ending, which closes his
\* connections.
LEMMA ReachableStep == TypeOK /\ Reachable /\ [Next]_vars => Reachable'
<1> SUFFICES ASSUME TypeOK, Reachable, [Next]_vars PROVE Reachable'
  OBVIOUS
<1> USE DEF Reachable, TypeOK
<1>1. ASSUME NEW d, NEW next, next \notin {"chmod", "serving", "failed"}, Goto(d, next),
             UNCHANGED <<listening, client>>
      PROVE  Reachable'
  BY <1>1 DEF Goto
<1>2. ASSUME NEW d \in Daemons, UserStarts(d) \/ Check(d) \/ Inspect(d) \/ Probe(d) \/ Unlink(d)
                                \/ StopUnlinks(d) \/ StartFails(d)
      PROVE  Reachable'
  BY <1>1, <1>2 DEF UserStarts, Check, Inspect, Probe, Unlink, StopUnlinks, StartFails
<1>3. ASSUME NEW d \in Daemons, ReadSecret(d) \/ RereadSecret(d) \/ CreateSecret(d)
                                \/ WriteSecret(d) \/ InitializeAudit(d) \/ Bind(d)
      PROVE  Reachable'
  BY <1>1, <1>3 DEF ReadSecret, RereadSecret, Reads, CreateSecret, OpenSecret, WriteSecret,
                    InitializeAudit, Bind
<1>4. ASSUME NEW d \in Daemons, Listen(d) \/ Chmod(d) PROVE Reachable'
  BY <1>4 DEF Listen, Chmod, Goto
<1>5. ASSUME NEW d, NEW next \in {"stopping", "gone"}, Goto(d, next), Dropped(d),
             listening' = listening \ {d}
      PROVE  Reachable'
  <2>1. \A e \in Daemons : phase'[e] \in {"chmod", "serving", "failed"} => e \in listening'
    BY <1>5 DEF Goto
  <2>2. ASSUME NEW c \in Clients, client'[c].at = "connected" PROVE client'[c].to \in listening'
    <3>1. client'[c] = client[c] /\ client[c] # [at |-> "connected", to |-> d]
      BY <1>5, <2>2 DEF Dropped
    <3>2. client[c] \in [at: {"idle", "asking", "waiting", "connected", "ended"},
                         to: Daemons \cup {None}]
      OBVIOUS
    <3>3. client[c].to # d
      BY <2>2, <3>1, <3>2
    <3> QED BY <1>5, <2>2, <3>1, <3>3
  <2> QED BY <2>1, <2>2
<1>6. ASSUME NEW d, Stops(d) \/ Crash(d) PROVE Reachable'
  BY <1>5, <1>6 DEF Stops, Crash
<1>7. ASSUME NEW c \in Clients, ClientStep(c) PROVE Reachable'
  <2>1. ASSUME NEW at, NEW to, Client(c, at, to), UNCHANGED <<phase, listening>>,
               at = "connected" => to \in listening
        PROVE  Reachable'
    BY <2>1 DEF Client
  <2>2. ASSUME NEW d \in Daemons, ClientSpawns(c, d) PROVE Reachable'
    BY <2>2 DEF ClientSpawns, Goto, Client
  <2> QED
    BY <1>7, <2>1, <2>2 DEF ClientStep, ClientAsks, ClientConnects, ClientGivesUp, ClientLeaves,
                            processes, PathServed
<1>8. CASE ActivateKillSwitch \/ ClearKillSwitch \/ UNCHANGED vars
  <2>1. UNCHANGED <<phase, listening, client>>
    BY <1>8 DEF ActivateKillSwitch, ClearKillSwitch, processes, vars
  <2> QED BY <2>1
<1> QED
  BY <1>2, <1>3, <1>4, <1>6, <1>7, <1>8
     DEF Next, DaemonStep, MonitorStops, StopRequested, DisconnectFails

\* The history variable keeps what has happened, and sees what happens.
LEMMA CollidedStep == [Next]_vars /\ ~collided' => ~collided /\ (~Collision' \/ UNCHANGED phase)
<1> SUFFICES ASSUME [Next]_vars, ~collided' PROVE ~collided /\ (~Collision' \/ UNCHANGED phase)
  OBVIOUS
<1>1. ASSUME NEW d, NEW next, Goto(d, next) PROVE ~collided /\ ~Collision'
  BY <1>1 DEF Goto
<1>2. CASE \E d, next : Goto(d, next)
  BY <1>2, Zenon DEF Goto
<1>3. CASE UNCHANGED <<phase, collided>>
  BY <1>3
<1> QED BY <1>2, <1>3, Moves

LEMMA ExcludeStep == ExcludeInv /\ [Next]_vars => ExcludeInv'
<1> SUFFICES ASSUME ExcludeInv, [Next]_vars, ~collided' PROVE Exclusive'
  BY SecretStep, ReachableStep DEF ExcludeInv, SecretInv
<1>1. None \notin Daemons /\ TypeOK /\ Serves /\ Reachable
  BY LifecycleAssumption DEF ExcludeInv, SecretInv
<1>2. Exclusive /\ (~Collision' \/ UNCHANGED phase)
  BY CollidedStep DEF ExcludeInv
<1>3. ~Collision'
  BY <1>2 DEF Exclusive, Collision
\* A step that does not touch the socket, and after which the process is not about to.
<1>4. ASSUME UNCHANGED <<phase, listening, socketPath>> PROVE Exclusive'
  BY <1>2, <1>3, <1>4 DEF Exclusive
<1>5. ASSUME NEW d \in Daemons, NEW next, Goto(d, next),
             next \notin {"listen", "unlink", "stopping"},
             listening' \subseteq listening, UNCHANGED socketPath
      PROVE  Exclusive'
  BY <1>1, <1>2, <1>3, <1>5 DEF Exclusive, Goto, TypeOK
<1>6. ASSUME NEW d \in Daemons, UserStarts(d) \/ Check(d) \/ Inspect(d) PROVE Exclusive'
  BY <1>5, <1>6 DEF UserStarts, Check, Inspect, files
\* Who finds nobody behind the name knows that nobody listens.
<1>7. ASSUME NEW d \in Daemons, Probe(d) PROVE Exclusive'
  <2>1. CASE Answers
    BY <1>5, <1>7, <2>1 DEF Probe, files
  <2>2. CASE ~Answers
    <3>1. listening = {}
      BY <1>2, <2>2 DEF Exclusive, Answers, PathServed
    <3> QED
      BY <1>1, <1>2, <1>3, <1>7, <2>2, <3>1 DEF Probe, Exclusive, Goto, files, TypeOK
  <2> QED BY <2>1, <2>2
\* While nobody listens, and nobody is about to, the name may go.
<1>8. ASSUME NEW d \in Daemons, Unlink(d) \/ StopUnlinks(d) PROVE Exclusive'
  <2>1. phase[d] \in {"unlink", "stopping"} /\ listening' = {}
    BY <1>2, <1>8 DEF Unlink, StopUnlinks, Exclusive
  <2>2. \A e \in Daemons : phase[e] # "listen"
    BY <1>2, <2>1 DEF Exclusive, Collision
  <2>3. Goto(d, "read") \/ Goto(d, "gone")
    BY <1>8 DEF Unlink, StopUnlinks
  <2> QED
    BY <1>1, <1>3, <2>1, <2>2, <2>3 DEF Exclusive, Goto, TypeOK
<1>9. ASSUME NEW d \in Daemons, ReadSecret(d) \/ RereadSecret(d) \/ CreateSecret(d) \/ WriteSecret(d)
      PROVE  Exclusive'
  <2>1. PICK next \in {"create", "gone", "initialize", "write", "reread"} : Goto(d, next)
    BY <1>9 DEF ReadSecret, RereadSecret, Reads, CreateSecret, OpenSecret, WriteSecret
  <2>2. UNCHANGED <<listening, socketPath>>
    BY <1>9 DEF ReadSecret, RereadSecret, Reads, CreateSecret, WriteSecret, files
  <2> QED
    BY <1>5, <2>1, <2>2
<1>10. ASSUME NEW d \in Daemons, InitializeAudit(d) \/ Chmod(d) \/ StartFails(d) PROVE Exclusive'
  BY <1>5, <1>10 DEF InitializeAudit, Chmod, StartFails, files
\* Whoever binds a free name finds that nobody listens or has bound.
<1>11. ASSUME NEW d \in Daemons, Bind(d) PROVE Exclusive'
  <2>1. CASE socketPath = None
    <3>1. listening = {} /\ \A e \in Daemons : phase[e] # "listen"
      BY <1>1, <1>2, <2>1 DEF Exclusive, TypeOK
    <3>2. socketPath' = d /\ listening' = {} /\ Goto(d, "listen")
      BY <1>11, <2>1, <3>1 DEF Bind
    <3> QED
      BY <1>1, <1>3, <3>1, <3>2 DEF Exclusive, Goto, TypeOK
  <2>2. CASE socketPath # None
    BY <1>5, <1>11, <2>2 DEF Bind
  <2> QED
    BY <2>1, <2>2
<1>12. ASSUME NEW d \in Daemons, Listen(d) PROVE Exclusive'
  <2>1. socketPath' = d /\ listening' \subseteq {d} /\ Goto(d, "chmod")
    BY <1>2, <1>12 DEF Listen, Exclusive, files
  <2>2. \A e \in Daemons : phase[e] = "listen" => e = d
    BY <1>2, <1>12 DEF Listen, Exclusive
  <2>3. \A e \in Daemons : phase[e] \notin {"unlink", "stopping"}
    BY <1>2, <1>12 DEF Listen, Exclusive, Collision
  <2> QED
    BY <1>1, <1>3, <2>1, <2>2, <2>3 DEF Exclusive, Goto, TypeOK
\* The one that stops is the one that listened.
<1>13. ASSUME NEW d \in listening, Stops(d) PROVE Exclusive'
  <2>1. d \in Daemons /\ socketPath = d /\ listening' = {} /\ Goto(d, "stopping")
    BY <1>1, <1>2, <1>13 DEF Exclusive, Stops, TypeOK
  <2>2. \A e \in Daemons : phase[e] # "listen"
    BY <1>1, <1>2, <2>1, <1>13 DEF Exclusive, Serves
  <2> QED
    BY <1>1, <1>3, <2>1, <2>2 DEF Exclusive, Goto, TypeOK
<1>14. ASSUME NEW d \in Daemons, MonitorStops(d) \/ StopRequested(d) PROVE Exclusive'
  BY <1>1, <1>13, <1>14 DEF MonitorStops, StopRequested, Reachable
<1>15. ASSUME NEW c \in Clients, DisconnectFails(c) PROVE Exclusive'
  BY <1>1, <1>13, <1>15 DEF DisconnectFails, Reachable
<1>16. ASSUME NEW d \in Daemons, Crash(d) PROVE Exclusive'
  BY <1>5, <1>16 DEF Crash, files
<1>17. ASSUME NEW c \in Clients, ClientStep(c) PROVE Exclusive'
  <2>1. ASSUME NEW d \in Daemons, ClientSpawns(c, d) PROVE Exclusive'
    BY <1>5, <2>1 DEF ClientSpawns, files
  <2> QED
    BY <1>4, <1>17, <2>1 DEF ClientStep, ClientAsks, ClientConnects, ClientGivesUp, ClientLeaves,
                             processes, files
<1>18. CASE ActivateKillSwitch \/ ClearKillSwitch \/ UNCHANGED vars
  BY <1>4, <1>18 DEF ActivateKillSwitch, ClearKillSwitch, processes, files, vars
<1> QED
  BY <1>6, <1>7, <1>8, <1>9, <1>10, <1>11, <1>12, <1>14, <1>15, <1>16, <1>17, <1>18
     DEF Next, DaemonStep

\* Over a stale socket or none, through every crash, failure and stop, at most one daemon
\* listens and the socket file stays its own, as long as nobody was about to remove the name
\* while another was between bind(2) and listen(2).
THEOREM StartsAreExclusive == Spec => []StartsExclude
<1>1. Init => ExcludeInv
  <2> SUFFICES ASSUME Init PROVE ExcludeInv
    OBVIOUS
  <2>1. SecretInv
    BY SecretInit
  <2> QED
    BY <2>1 DEF Init, ExcludeInv, Reachable, Exclusive, Collision
<1>2. ExcludeInv => StartsExclude
  BY DEF ExcludeInv, Exclusive, StartsExclude
<1> QED
  BY <1>1, <1>2, ExcludeStep, PTL DEF Spec

=============================================================================
