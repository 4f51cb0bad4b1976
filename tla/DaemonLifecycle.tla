--------------------------- MODULE DaemonLifecycle ---------------------------
(***************************************************************************)
(* Broker processes that start, serve and stop on one set of files: start, *)
(* stop and the kill-switch monitor of apps/broker/src/daemon.ts, the      *)
(* secret of auth.ts, the marker of kill-switch.ts, and the clients of     *)
(* autostart.ts that start a broker when they find none.                   *)
(*                                                                         *)
(* Nothing but the file system keeps two processes apart.  An action is    *)
(* one file or socket operation, so that any operation of another process  *)
(* may come between two of them, and a process may end before any.         *)
(* broker.secret stands for authority.secret, made the same way after it;  *)
(* permissions, owners and symbolic links are left out, and Windows, which *)
(* has no socket file.                                                     *)
(***************************************************************************)
EXTENDS Naturals

CONSTANTS
  Daemons,     \* processes that run `tabgrant daemon`; each is started once
  Clients,     \* processes that connect to the broker
  None,        \* a model value: no such file
  MaxFaults,   \* bound on processes ended and operations that fail
  MaxSwitches  \* bound on uses of the kill switch

ASSUME LifecycleAssumption ==
  /\ None \notin Daemons \cup {"empty", "stale"} /\ {"empty", "stale"} \cap Daemons = {}
  /\ MaxFaults \in Nat /\ MaxSwitches \in Nat

VARIABLES
  phase,       \* phase[d]: the next operation of d, or what it has become
  listening,   \* the daemons whose server accepts connections
  secretOf,    \* secretOf[d]: the secret d holds, by the daemon that made it
  client,      \* client[c]: what c does, and the daemon it is connected to
  socketPath,  \* the socket file: whose server is bound to it; stale when that had ended before
  secretFile,  \* the secret in the file, or "empty"
  marker,      \* disabled.json is there
  faults, switches,  \* so far
  collided     \* history: one was about to remove the name that another had just bound

processes == <<phase, listening, secretOf>>
files == <<socketPath, secretFile, marker>>
bounds == <<faults, switches>>
vars == <<processes, client, files, bounds, collided>>

Starting == {"check", "inspect", "probe", "unlink", "read", "create", "write", "reread",
             "initialize", "bind", "listen", "chmod"}
Phases == Starting \cup {"off", "serving", "failed", "stopping", "gone"}

TypeOK ==
  /\ phase \in [Daemons -> Phases] /\ listening \subseteq Daemons
  /\ secretOf \in [Daemons -> Daemons \cup {None}]
  /\ client \in [Clients -> [at: {"idle", "asking", "waiting", "connected", "ended"},
                             to: Daemons \cup {None}]]
  /\ socketPath \in Daemons \cup {None, "stale"}
  /\ secretFile \in Daemons \cup {None, "empty"}
  /\ marker \in BOOLEAN /\ collided \in BOOLEAN
  /\ faults \in 0..MaxFaults /\ switches \in 0..MaxSwitches

Init ==
  /\ phase = [d \in Daemons |-> "off"] /\ listening = {}
  /\ secretOf = [d \in Daemons |-> None]
  /\ client = [c \in Clients |-> [at |-> "idle", to |-> None]]
  /\ socketPath \in {None, "stale"} /\ secretFile = None /\ marker \in BOOLEAN
  /\ faults = 0 /\ switches = 0 /\ collided = FALSE

\* Between bind(2) and listen(2) of one daemon another is about to remove the name.
Collision ==
  \E d, e \in Daemons : phase[d] = "listen" /\ phase[e] \in {"unlink", "stopping"}

\* Only StartsExclude reads collided.
Goto(d, next) ==
  /\ phase' = [phase EXCEPT ![d] = next]
  /\ collided' = (collided \/ Collision')

\* Who connects to the path reaches a server.
PathServed == socketPath \in listening

\* The connections of a daemon that goes away.
Dropped(d) ==
  client' = [c \in Clients |->
    IF client[c] = [at |-> "connected", to |-> d] THEN [at |-> "ended", to |-> None]
    ELSE client[c]]

-----------------------------------------------------------------------------
(* start: the kill switch, the socket of another daemon *)

\* `tabgrant daemon`
UserStarts(d) ==
  /\ phase[d] = "off"
  /\ Goto(d, "check")
  /\ UNCHANGED <<listening, secretOf, client, files, bounds>>

\* assertKillSwitchDisabled.  A start that fails ends the process.
Check(d) ==
  /\ phase[d] = "check"
  /\ Goto(d, IF marker THEN "gone" ELSE "inspect")
  /\ UNCHANGED <<listening, secretOf, client, files, bounds>>

\* removeOwnedStaleSocket: lstat
Inspect(d) ==
  /\ phase[d] = "inspect"
  /\ Goto(d, IF socketPath = None THEN "read" ELSE "probe")
  /\ UNCHANGED <<listening, secretOf, client, files, bounds>>

\* Mutant: a socket that is there is stale.
AnswersNobody == FALSE

\* socketAcceptsConnections
Answers == PathServed

Probe(d) ==
  /\ phase[d] = "probe"
  /\ Goto(d, IF Answers THEN "gone" ELSE "unlink")
  /\ UNCHANGED <<listening, secretOf, client, files, bounds>>

\* Mutant: a stale socket is left to listen().
UnlinkNothing == UNCHANGED socketPath

\* Whatever has the name now, or nothing.
UnlinkSocket == socketPath' = None

Unlink(d) ==
  /\ phase[d] = "unlink"
  /\ UnlinkSocket /\ Goto(d, "read")
  /\ UNCHANGED <<listening, secretOf, client, secretFile, marker, bounds>>

-----------------------------------------------------------------------------
(* start: ensureBrokerSecret *)

\* Mutant: what the file holds is not examined.
ReadsAnything(d, missing) ==
  /\ Goto(d, IF secretFile = None THEN missing ELSE "initialize")
  /\ secretOf' = IF secretFile # None THEN [secretOf EXCEPT ![d] = secretFile] ELSE secretOf
  /\ UNCHANGED <<listening, client, files, bounds>>

\* readBrokerSecret, with what follows when there is no such file.  An empty file is
\* malformed.
Reads(d, missing) ==
  /\ Goto(d, IF secretFile = None THEN missing
             ELSE IF secretFile = "empty" THEN "gone" ELSE "initialize")
  /\ secretOf' = IF secretFile \in Daemons THEN [secretOf EXCEPT ![d] = secretFile] ELSE secretOf
  /\ UNCHANGED <<listening, client, files, bounds>>

ReadSecret(d) == phase[d] = "read" /\ Reads(d, "create")
RereadSecret(d) == phase[d] = "reread" /\ Reads(d, "gone")

\* Mutant: the file is opened with "w".
TruncateSecret(d) == secretFile' = "empty" /\ Goto(d, "write")

\* open(secretPath, "wx")
OpenSecret(d) ==
  IF secretFile = None THEN secretFile' = "empty" /\ Goto(d, "write")
  ELSE UNCHANGED secretFile /\ Goto(d, "reread")

CreateSecret(d) ==
  /\ phase[d] = "create"
  /\ OpenSecret(d)
  /\ UNCHANGED <<listening, secretOf, client, socketPath, marker, bounds>>

WriteSecret(d) ==
  /\ phase[d] = "write"
  /\ secretFile' = d /\ secretOf' = [secretOf EXCEPT ![d] = d]
  /\ Goto(d, "initialize")
  /\ UNCHANGED <<listening, client, socketPath, marker, bounds>>

-----------------------------------------------------------------------------
(* start: the audit log, the server *)

\* audit.initialize()
InitializeAudit(d) ==
  /\ phase[d] = "initialize"
  /\ Goto(d, "bind")
  /\ UNCHANGED <<listening, secretOf, client, files, bounds>>

\* server.listen: bind(2) makes the socket file.  EADDRINUSE when the name is taken.
Bind(d) ==
  /\ phase[d] = "bind"
  /\ IF socketPath = None THEN socketPath' = d /\ Goto(d, "listen")
     ELSE UNCHANGED socketPath /\ Goto(d, "gone")
  /\ UNCHANGED <<listening, secretOf, client, secretFile, marker, bounds>>

\* listen(2): until now who connects is refused.
Listen(d) ==
  /\ phase[d] = "listen"
  /\ listening' = listening \cup {d} /\ Goto(d, "chmod")
  /\ UNCHANGED <<secretOf, client, files, bounds>>

\* Without the file, start() fails before the monitor is started, but the server keeps the
\* process running: main() only sets its exit code.
Chmod(d) ==
  /\ phase[d] = "chmod"
  /\ Goto(d, IF socketPath = None THEN "failed" ELSE "serving")
  /\ UNCHANGED <<listening, secretOf, client, files, bounds>>

\* An operation of start() fails, before there is a server.  listen(2) on a socket just
\* bound has nothing to fail on, and what a failing chmod leaves is in Chmod.
StartFails(d) ==
  /\ phase[d] \in Starting \ {"listen", "chmod"} /\ faults < MaxFaults
  /\ faults' = faults + 1
  /\ Goto(d, "gone")
  /\ UNCHANGED <<listening, secretOf, client, files, switches>>

-----------------------------------------------------------------------------
(* stop, the monitor of the kill switch, the end of a process *)

\* Connections are destroyed, and closing the server removes the name, whoever has it.
Stops(d) ==
  /\ listening' = listening \ {d} /\ socketPath' = None
  /\ Dropped(d)
  /\ Goto(d, "stopping")
  /\ UNCHANGED <<secretOf, secretFile, marker>>

\* Mutant: the monitor looks only while its own socket is there.
SeesOwnKill(d) == marker /\ socketPath = d

\* readKillSwitch, every 200 ms; a marker that cannot be read counts as well.
SeesKill(d) == marker

MonitorStops(d) ==
  /\ phase[d] = "serving" /\ SeesKill(d)
  /\ Stops(d)
  /\ UNCHANGED bounds

\* SIGINT, SIGTERM
StopRequested(d) ==
  /\ phase[d] = "serving" /\ faults < MaxFaults
  /\ faults' = faults + 1
  /\ Stops(d)
  /\ UNCHANGED switches

\* trackDisconnect: a connection closes whose audit record fails, also when start() has
\* failed or has not ended.
DisconnectFails(c) ==
  /\ client[c].at = "connected" /\ faults < MaxFaults
  /\ faults' = faults + 1
  /\ Stops(client[c].to)
  /\ UNCHANGED switches

\* unlink, again whoever has the name.  Then nothing keeps the process running.
StopUnlinks(d) ==
  /\ phase[d] = "stopping"
  /\ UnlinkSocket /\ Goto(d, "gone")
  /\ UNCHANGED <<listening, secretOf, client, secretFile, marker, bounds>>

\* The process is killed, or crashes.
Crash(d) ==
  /\ phase[d] \notin {"off", "gone"} /\ faults < MaxFaults
  /\ faults' = faults + 1
  /\ Goto(d, "gone") /\ listening' = listening \ {d} /\ Dropped(d)
  /\ UNCHANGED <<secretOf, files, switches>>

-----------------------------------------------------------------------------
(* `tabgrant kill`, `tabgrant enable --confirm` *)

\* The marker is renamed into place unless it is there.
ActivateKillSwitch ==
  /\ ~marker /\ switches < MaxSwitches
  /\ marker' = TRUE /\ switches' = switches + 1
  /\ UNCHANGED <<processes, client, socketPath, secretFile, faults, collided>>

ClearKillSwitch ==
  /\ marker /\ switches < MaxSwitches
  /\ marker' = FALSE /\ switches' = switches + 1
  /\ UNCHANGED <<processes, client, socketPath, secretFile, faults, collided>>

-----------------------------------------------------------------------------
(* connectBrokerWithAutostart *)

Client(c, at, d) == client' = [client EXCEPT ![c] = [at |-> at, to |-> d]]

ClientAsks(c) ==
  /\ client[c].at = "idle"
  /\ Client(c, IF marker THEN "ended" ELSE "asking", None)
  /\ UNCHANGED <<processes, files, bounds, collided>>

\* connectBroker: the secret is read when the socket is connected, and session.hello must
\* prove it.
ClientConnects(c) ==
  /\ client[c].at \in {"asking", "waiting"} /\ PathServed
  /\ IF secretFile = secretOf[socketPath] THEN Client(c, "connected", socketPath)
     ELSE Client(c, "ended", None)
  /\ UNCHANGED <<processes, files, bounds, collided>>

\* Nobody listens: a daemon is spawned, and waited for.
ClientSpawns(c, d) ==
  /\ client[c].at = "asking" /\ ~PathServed /\ phase[d] = "off"
  /\ Goto(d, "check")
  /\ Client(c, "waiting", None)
  /\ UNCHANGED <<listening, secretOf, files, bounds>>

\* After 20 attempts.
ClientGivesUp(c) ==
  /\ client[c].at = "waiting" /\ ~PathServed
  /\ Client(c, "ended", None)
  /\ UNCHANGED <<processes, files, bounds, collided>>

ClientLeaves(c) ==
  /\ client[c].at = "connected"
  /\ Client(c, "ended", None)
  /\ UNCHANGED <<processes, files, bounds, collided>>

-----------------------------------------------------------------------------
\* What a process does next by itself.
DaemonStep(d) ==
  \/ Check(d) \/ Inspect(d) \/ Probe(d) \/ Unlink(d)
  \/ ReadSecret(d) \/ CreateSecret(d) \/ WriteSecret(d) \/ RereadSecret(d)
  \/ InitializeAudit(d) \/ Bind(d) \/ Listen(d) \/ Chmod(d)
  \/ MonitorStops(d) \/ StopUnlinks(d)

ClientStep(c) ==
  \/ ClientAsks(c) \/ ClientConnects(c) \/ ClientGivesUp(c) \/ ClientLeaves(c)
  \/ \E d \in Daemons : ClientSpawns(c, d)

Next ==
  \/ \E d \in Daemons :
       UserStarts(d) \/ DaemonStep(d) \/ StartFails(d) \/ StopRequested(d) \/ Crash(d)
  \/ \E c \in Clients : ClientStep(c) \/ DisconnectFails(c)
  \/ ActivateKillSwitch \/ ClearKillSwitch

\* File operations end, and the timer of the monitor fires.
Spec == Init /\ [][Next]_vars /\ \A d \in Daemons : WF_vars(DaemonStep(d))

-----------------------------------------------------------------------------
(* Properties *)

\* There is one secret: daemons that start at the same time, or after one that ended half
\* way, never hold different ones, and a listening daemon's is in the file, so that no
\* client that reaches a daemon is refused (ensureBrokerSecret, connectBroker).
SecretShared ==
  /\ \A d \in Daemons : secretOf[d] # None => secretOf[d] = secretFile
  /\ \A d \in listening : secretOf[d] # None

\* At most one daemon listens, and the socket file is its own, whatever is started over a
\* stale socket, fails, crashes or stops (removeOwnedStaleSocket, listen, stop), with one
\* exception: a daemon was about to remove the name, having found nobody behind it or on
\* its way out, while another was between bind(2) and listen(2).
StartsExclude == ~collided => listening \subseteq {socketPath}

\* A daemon that has started stops when the kill switch is used, unless it is cleared
\* first (startKillSwitchMonitor), with or without its socket.
KillStops ==
  \A d \in Daemons : phase[d] = "serving" /\ marker ~> ~marker \/ d \notin listening

\* Starting succeeds for somebody: unless an operation fails, a process ends or a daemon is
\* stopping meanwhile, a start that passes the kill switch leads to a daemon that can be
\* reached, also when others start with it and a stale socket is in the way.
StartsSucceed ==
  \A d \in Daemons :
    phase[d] = "inspect" ~>
      PathServed \/ faults > 0 \/ \E e \in Daemons : phase[e] = "stopping"

\* "the running broker monitors that marker, closes connections, and stops"
\* (docs/SECURITY_ARCHITECTURE.md:253): a connection does not outlive the kill switch.
KillClosesConnections ==
  \A c \in Clients : client[c].at = "connected" /\ marker ~> ~marker \/ client[c].at # "connected"

=============================================================================
