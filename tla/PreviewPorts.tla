----------------------------- MODULE PreviewPorts -----------------------------
(***************************************************************************)
(* The TCP ports on which Serval listens for the driver's streaming        *)
(* channels. Three copies of each have to agree before a worker connects:  *)
(* the path parameter, the host and port the worker uses, and what Serval  *)
(* was told with PUT /server/destination.                                  *)
(*                                                                         *)
(* acquireStart moves channels off busy ports (ensurePreviewTcpPortsFree), *)
(* pushes the paths again, and retries GET /measurement/start once if      *)
(* Serval answers "Address already in use" (acquire.cpp). Other threads    *)
(* and programs interfere: ports become busy and free, and the connection  *)
(* poll thread pushes the paths, without the port lock, when Serval comes  *)
(* back (serval_http.cpp).                                                 *)
(***************************************************************************)
EXTENDS Integers, Sequences

CONSTANTS
  NumChannels,   \* streaming channels that are on, the last one is PrvHst
  MaxPort,       \* 65535
  Contested      \* ports that other programs listen on at times

ASSUME PortsAssumption ==
  NumChannels \in Nat \ {0} /\ MaxPort \in Nat \ {0} /\ Contested \subseteq 1..MaxPort

Channels == 1..NumChannels
Hst == NumChannels
Ports == 1..MaxPort

VARIABLES
  path,        \* the port in each channel's path parameter (*Base)
  endpoint,    \* the port each channel's worker connects to (*Port_)
  told,        \* the port Serval was last told for each channel
  busy,        \* ports somebody listens on
  pc,          \* where acquireStart is
  forced,      \* is this the rotation before the retry?
  cur,         \* the channel ensurePreviewTcpPortsFree looks at
  reserved,    \* its reservedPorts
  changed,     \* has it changed a path?
  calm,        \* has no port become busy since the forced rotation began?
  disturbed,   \* was a path not, or not certainly, pushed to Serval?
  read         \* the paths the reconnecting thread has read, in order

scan == <<forced, cur, reserved, changed>>
vars == <<path, endpoint, told, busy, pc, scan, calm, disturbed, read>>

\* The variables keep their types.
TypeOK ==
  /\ path \in [Channels -> Ports] /\ endpoint \in [Channels -> Ports]
  /\ told \in [Channels -> Ports]
  /\ busy \subseteq Ports
  /\ pc \in {"idle", "scan", "push", "start", "streaming"}
  /\ forced \in BOOLEAN /\ cur \in 1..(NumChannels + 1)
  /\ reserved \subseteq Ports
  /\ changed \in BOOLEAN /\ calm \in BOOLEAN /\ disturbed \in BOOLEAN
  /\ read \in Seq(Ports) /\ Len(read) <= NumChannels

Init ==
  /\ path \in [Channels -> Ports] /\ endpoint = path /\ told = path
  /\ busy \in SUBSET Contested
  /\ pc = "idle" /\ forced = FALSE /\ cur = 1 /\ reserved = {} /\ changed = FALSE
  /\ calm = FALSE /\ disturbed = FALSE
  /\ read = <<>>

-----------------------------------------------------------------------------
\* writeOctet: the worker of a channel uses the path at once, Serval does not;
\* PrvHst's path is parsed only when its worker is created.
WritePath(ch, port) ==
  /\ pc = "idle" /\ port # path[ch]
  /\ path' = [path EXCEPT ![ch] = port]
  /\ endpoint' = IF ch = Hst THEN endpoint ELSE [endpoint EXCEPT ![ch] = port]
  /\ disturbed' = TRUE
  /\ UNCHANGED <<told, busy, pc, scan, calm, read>>

\* fileWriter: PUT /server/destination succeeds, or fails, and may have reached
\* Serval nevertheless.
Push(ok) ==
  /\ told' = path \/ (~ok /\ UNCHANGED told)
  /\ disturbed' = (~ok \/ read # <<>>)

\* WriteData = 1.
WriteData ==
  /\ pc = "idle"
  /\ \E ok \in BOOLEAN : Push(ok)
  /\ UNCHANGED <<path, endpoint, busy, pc, scan, calm, read>>

-----------------------------------------------------------------------------
BeginScan(force) ==
  /\ pc' = "scan" /\ forced' = force /\ calm' = force
  /\ UNCHANGED <<cur, reserved, changed>>

\* The locals of ensurePreviewTcpPortsFree, and of acquireStart, when they return.
LeaveScan == cur' = 1 /\ reserved' = {} /\ changed' = FALSE
LeaveStart == LeaveScan /\ forced' = FALSE /\ calm' = FALSE

StartAcquisition ==
  /\ pc = "idle" /\ BeginScan(FALSE)
  /\ UNCHANGED <<path, endpoint, told, busy, disturbed, read>>

\* Mutant: the ports of channels already moved are not remembered.
CandidatesIgnoreReserved(port) == {p \in Ports : p > port /\ p \notin busy}

\* nextFreeTcpPort searches upwards only.
Candidates(port) == {p \in Ports : p > port /\ p \notin reserved \cup {port} \cup busy}

\* A channel keeps a port on which nobody listens, unless all have to move.
KeepPort ==
  /\ pc = "scan" /\ cur <= NumChannels
  /\ ~forced /\ path[cur] \notin busy
  /\ reserved' = reserved \cup {path[cur]} /\ cur' = cur + 1
  /\ UNCHANGED <<path, endpoint, told, busy, pc, forced, changed, calm, disturbed,
                 read>>

MovePort ==
  /\ pc = "scan" /\ cur <= NumChannels
  /\ forced \/ path[cur] \in busy
  /\ \E port \in Candidates(path[cur]) :
       /\ \A p \in Candidates(path[cur]) : port <= p
       /\ path' = [path EXCEPT ![cur] = port]
       /\ reserved' = reserved \cup {path[cur], port}
  /\ cur' = cur + 1 /\ changed' = TRUE
  /\ UNCHANGED <<endpoint, told, busy, pc, forced, calm, disturbed, read>>

\* No port is left: acquireStart fails, and the paths that have been changed
\* are neither synchronised nor pushed.
NoPortLeft ==
  /\ pc = "scan" /\ cur <= NumChannels
  /\ forced \/ path[cur] \in busy
  /\ Candidates(path[cur]) = {}
  /\ pc' = "idle" /\ LeaveStart /\ disturbed' = (disturbed \/ changed)
  /\ UNCHANGED <<path, endpoint, told, busy, read>>

\* syncTcpStreamEndpoints, which leaves PrvHst out.
Synced == [ch \in Channels |-> IF ch = Hst THEN endpoint[ch] ELSE path[ch]]

EndScan ==
  /\ pc = "scan" /\ cur = NumChannels + 1
  /\ endpoint' = Synced
  /\ pc' = IF changed THEN "push" ELSE "start"
  /\ LeaveScan
  /\ UNCHANGED <<path, told, busy, forced, calm, disturbed, read>>

\* Mutant: the start goes on although the push has failed.
PushPathsIgnoresFailure ==
  /\ pc = "push"
  /\ \E ok \in BOOLEAN : Push(ok)
  /\ pc' = "start"
  /\ UNCHANGED <<path, endpoint, busy, scan, calm, read>>

\* Without the push, acquireStart fails.
PushPaths ==
  /\ pc = "push"
  /\ \/ Push(TRUE) /\ pc' = "start" /\ UNCHANGED <<scan, calm>>
     \/ Push(FALSE) /\ pc' = "idle" /\ LeaveStart
  /\ UNCHANGED <<path, endpoint, busy, read>>

-----------------------------------------------------------------------------
\* Serval cannot listen twice on one port, or on one that is in use.
Conflict ==
  \/ \E ch \in Channels : told[ch] \in busy
  \/ \E c, d \in Channels : c # d /\ told[c] = told[d]

Listening == {told[ch] : ch \in Channels}

\* Mutant: nothing but the scan refreshes what the workers use.
StartServesStale ==
  /\ pc = "start" /\ ~Conflict
  /\ busy' = busy \cup Listening /\ pc' = "streaming" /\ LeaveStart
  /\ UNCHANGED <<path, endpoint, told, disturbed, read>>

\* GET /measurement/start succeeds. The endpoints are synchronised again, and
\* PrvHst's is parsed, before the workers are created.
StartServes ==
  /\ pc = "start" /\ ~Conflict
  /\ busy' = busy \cup Listening /\ endpoint' = path
  /\ pc' = "streaming" /\ LeaveStart
  /\ UNCHANGED <<path, told, disturbed, read>>

\* "Address already in use": once, every channel is moved.
RetryForced ==
  /\ pc = "start" /\ Conflict /\ ~forced
  /\ BeginScan(TRUE)
  /\ UNCHANGED <<path, endpoint, told, busy, disturbed, read>>

\* The second conflict, or a failure of any other kind: Serval may have
\* started without the driver knowing.
StartFails ==
  /\ pc = "start" /\ (Conflict => forced)
  /\ busy' \in {busy, IF Conflict THEN busy ELSE busy \cup Listening}
  /\ pc' = "idle" /\ LeaveStart
  /\ UNCHANGED <<path, endpoint, told, disturbed, read>>

\* The measurement stops; Serval goes on listening.
StopAcquisition ==
  /\ pc = "streaming" /\ pc' = "idle"
  /\ UNCHANGED <<path, endpoint, told, busy, scan, calm, disturbed, read>>

-----------------------------------------------------------------------------
\* Serval gives up a listener, or another program takes or leaves a port.
PortReleased(port) ==
  /\ port \in busy /\ busy' = busy \ {port}
  /\ UNCHANGED <<path, endpoint, told, pc, scan, calm, disturbed, read>>

PortTaken(port) ==
  /\ port \notin busy /\ busy' = busy \cup {port} /\ calm' = FALSE
  /\ UNCHANGED <<path, endpoint, told, pc, scan, disturbed, read>>

\* refreshOnReconnect on the connection poll thread: fileWriter reads one path
\* after the other ...
ReconnectReads ==
  /\ Len(read) < NumChannels
  /\ read' = Append(read, path[Len(read) + 1])
  /\ calm' = FALSE /\ disturbed' = TRUE
  /\ UNCHANGED <<path, endpoint, told, busy, pc, scan>>

\* ... and pushes what it has read, whatever has happened since.
ReconnectPushes ==
  /\ Len(read) = NumChannels
  /\ told' \in {read, told} /\ read' = <<>>
  /\ calm' = FALSE /\ disturbed' = TRUE
  /\ UNCHANGED <<path, endpoint, busy, pc, scan>>

Next ==
  \/ \E ch \in Channels, port \in Ports : WritePath(ch, port)
  \/ WriteData \/ StartAcquisition \/ StopAcquisition
  \/ KeepPort \/ MovePort \/ NoPortLeft \/ EndScan \/ PushPaths
  \/ StartServes \/ RetryForced \/ StartFails
  \/ \E port \in Ports : PortReleased(port)
  \/ \E port \in Contested : PortTaken(port)
  \/ ReconnectReads \/ ReconnectPushes

Spec == Init /\ [][Next]_vars

-----------------------------------------------------------------------------
\* When a measurement starts, each worker is sent to the port on which Serval
\* listens for its channel: what acquireStart changes in a scan that fails or
\* that is repeated has reached Serval by then. Only a path nobody pushed, a
\* push that failed, or one of the poll thread's can have broken this, until
\* the next push that succeeds.
AgreeAtStartStep ==
  [][(pc = "start" /\ pc' = "streaming" /\ ~disturbed) => endpoint' = told]_vars

\* After the forced rotation no two channels share a port, even if the first
\* rotation had moved one onto the port of another.
ForcedIsDistinct ==
  (forced /\ pc \in {"push", "start"}) =>
     \A c, d \in Channels : c # d => path[c] # path[d]

\* One retry is enough: the start after the forced rotation finds the address
\* in use again only if a port was taken, or Serval told otherwise, meanwhile.
RetryIsEnough == (forced /\ pc = "start" /\ calm) => ~Conflict
=============================================================================
