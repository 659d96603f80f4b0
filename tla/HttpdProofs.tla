----------------------------- MODULE HttpdProofs ------------------------------
(***************************************************************************)
(* Proofs about Httpd: for any number of sockets, any length of the client *)
(* list, any number of connections, and peers of every kind.               *)
(***************************************************************************)
EXTENDS Httpd, FiniteSetTheorems, TLAPS

(* The walk serves a client of the list that sock_select() found ready, so *)
(* its descriptor is one of a hardware socket.                             *)
WalkInv == Serving => i < connected /\ fd \in ready

(* From the moment sock_select() has seen the CON bit of a socket until    *)
(* sock_accept() clears one, there is such a bit.                          *)
Accepting == pc \in {"acceptCleanup", "acceptClear", "acceptListen", "acceptScan"}
SeenInv ==
    /\ Accepting => Listener \in ready
    /\ (Accepting \/ pc \in {"poll", "pollPool"}) /\ Listener \in ready =>
          \E s \in Sockets : "CON" \in ir[s]

(* A connection that was answered and is still open is about to be closed. *)
AnswerInv ==
    \A s \in Sockets : ans[s] /\ sr[s] = "ESTABLISHED" => pc = "close" /\ s = fd

(* A listening socket has no data, and while a request is being read, its  *)
(* socket does not listen: nobody can connect to it.                       *)
Reading == pc \in {"readUri", "uriStatus"} \/ (pc = "respond" /\ method)
RequestInv ==
    /\ \A s \in Sockets : rx[s] > 0 => sr[s] # "LISTEN"
    /\ Reading => ~moved /\ sr[fd] # "LISTEN"

LEMMA NextSocket == ASSUME NEW k \in Sockets PROVE (k + 1) % NSOCKS \in Sockets
BY PoolAssumption DEF Sockets

(* A socket that is served is a socket. *)
LEMMA ServedIsSocket ==
    ASSUME TypeOK, WalkInv, Serving
    PROVE  fd \in Sockets /\ i \in 0 .. (HTTPD_MAX_CLIENTS - 1) /\ connected > 0
<1>1. i \in 0 .. (HTTPD_MAX_CLIENTS - 1) /\ connected > 0
  BY HttpdAssumption DEF TypeOK, WalkInv
<1>2. clients[i] \in Sockets \cup {NoSock} /\ clients[i] \in Sockets \cup {Listener}
  BY <1>1 DEF TypeOK, WalkInv, fd
<1>3. NoSock # Listener
  BY PoolAssumption DEF NoSock, Listener
<1> QED BY <1>1, <1>2, <1>3 DEF fd
-----------------------------------------------------------------------------
(* Type correctness, and with it the bounds of the walk. *)

(* What a step of the network keeps. *)
LEMMA PeerTypes ==
    ASSUME PoolTypeOK, NEW s \in Sockets, Peer(s)
    PROVE  PoolTypeOK'
<1> USE DEF PoolTypeOK, Statuses, IrBits
<1>1. CASE Connect(s)
  BY <1>1, PoolAssumption DEF Connect
<1>2. CASE Send(s)
  BY <1>2, PoolAssumption DEF Send
<1>3. CASE HangUp(s)
  BY <1>3 DEF HangUp
<1>4. CASE Closes(s)
  BY <1>4 DEF Closes, FinAnswered, LastAck, GiveUp
<1> QED BY <1>1, <1>2, <1>3, <1>4 DEF Peer

LEMMA CleanupTypes ==
    ASSUME TypeOK
    PROVE  /\ CleanupKind(n) \in {{}, {"DISCON"}, {"TIMEOUT"}}
           /\ Clear(n, bit) => PoolTypeOK'
           /\ Relist(n) => PoolTypeOK'
<1>1. CleanupKind(n) \in {{}, {"DISCON"}, {"TIMEOUT"}}
  BY DEF CleanupKind
<1>2. Clear(n, bit) => PoolTypeOK'
  BY DEF TypeOK, PoolTypeOK, Clear
<1>3. Relist(n) => PoolTypeOK'
  BY PoolAssumption DEF TypeOK, PoolTypeOK, Relist, Statuses
<1> QED BY <1>1, <1>2, <1>3

LEMMA ScanTypes ==
    ASSUME TypeOK
    PROVE  /\ SelectNext => n' \in Sockets /\ pc' \in {"cleanup", "poll"}
                             /\ timeout' \in 0 .. SELECT_TIMEOUT
                             /\ ready' \subseteq Sockets \cup {Listener}
           /\ AcceptNext => n' \in Sockets /\ pc' \in {"acceptCleanup", "acceptScan"}
                             /\ UNCHANGED << timeout, ready >>
<1>1. SelectNext => n' \in Sockets /\ pc' \in {"cleanup", "poll"}
                     /\ timeout' \in 0 .. SELECT_TIMEOUT
                     /\ ready' \subseteq Sockets \cup {Listener}
  <2>1. CASE n + 1 < NSOCKS
    <3>1. n \in Sockets /\ timeout \in 0 .. SELECT_TIMEOUT /\ ready \subseteq Sockets \cup {Listener}
      BY DEF TypeOK
    <3>2. SelectNext => n' = n + 1 /\ pc' = "cleanup" /\ timeout' = timeout /\ ready' = ready
      BY <2>1 DEF SelectNext
    <3>3. n + 1 \in Sockets
      BY <2>1, <3>1, PoolAssumption DEF Sockets
    <3> QED BY <3>1, <3>2, <3>3
  <2>2. CASE ~(n + 1 < NSOCKS)
    BY <2>2, PoolAssumption, HttpdAssumption DEF SelectNext, Sockets
  <2> QED BY <2>1, <2>2
<1>2. AcceptNext => n' \in Sockets /\ pc' \in {"acceptCleanup", "acceptScan"}
                     /\ UNCHANGED << timeout, ready >>
  BY PoolAssumption DEF TypeOK, AcceptNext, Sockets
<1> QED BY <1>1, <1>2

LEMMA InitTypes == Init => TypeOK /\ WalkInv
<1> SUFFICES ASSUME Init PROVE TypeOK /\ WalkInv
  OBVIOUS
<1>1. PoolTypeOK
  BY PoolAssumption DEF Init, Listening, PoolTypeOK, Statuses
<1>2. pc \in Steps /\ n \in Sockets /\ bit \in {{}, {"DISCON"}, {"TIMEOUT"}}
  BY PoolAssumption DEF Init, Steps, Sockets
<1>3. timeout \in 0 .. SELECT_TIMEOUT /\ ready \subseteq Sockets \cup {Listener}
  BY HttpdAssumption DEF Init
<1>4. /\ fdset \subseteq Sockets
      /\ clients \in [0 .. (HTTPD_MAX_CLIENTS - 1) -> Sockets \cup {NoSock}]
      /\ connected \in 0 .. HTTPD_MAX_CLIENTS
  BY PoolAssumption, HttpdAssumption DEF Init, NoClients, Sockets
<1>5. i \in 0 .. HTTPD_MAX_CLIENTS /\ method \in BOOLEAN /\ moved \in BOOLEAN
  <2>1. i = 0 /\ method = FALSE /\ moved = FALSE
    BY DEF Init
  <2>2. 0 \in 0 .. HTTPD_MAX_CLIENTS
    BY HttpdAssumption
  <2> QED BY <2>1, <2>2
<1>6. TypeOK
  BY <1>1, <1>2, <1>3, <1>4, <1>5 DEF TypeOK
<1> QED BY <1>6 DEF Init, WalkInv, Serving

LEMMA RestartTypes == Restart => TypeOK' /\ WalkInv'
<1> SUFFICES ASSUME Restart PROVE TypeOK' /\ WalkInv'
  OBVIOUS
<1>1. PoolTypeOK'
  BY PoolAssumption DEF Restart, Listening, PoolTypeOK, Statuses
<1>2. pc' \in Steps /\ n' \in Sockets /\ bit' \in {{}, {"DISCON"}, {"TIMEOUT"}}
  BY PoolAssumption DEF Restart, Steps, Sockets
<1>3. timeout' \in 0 .. SELECT_TIMEOUT /\ ready' \subseteq Sockets \cup {Listener}
  BY HttpdAssumption DEF Restart
<1>4. /\ fdset' \subseteq Sockets
      /\ clients' \in [0 .. (HTTPD_MAX_CLIENTS - 1) -> Sockets \cup {NoSock}]
      /\ connected' \in 0 .. HTTPD_MAX_CLIENTS
  BY PoolAssumption, HttpdAssumption DEF Restart, NoClients, Sockets
<1>5. i' \in 0 .. HTTPD_MAX_CLIENTS /\ method' \in BOOLEAN /\ moved' \in BOOLEAN
  <2>1. i' = 0 /\ method' = FALSE /\ moved' = FALSE
    BY DEF Restart
  <2>2. 0 \in 0 .. HTTPD_MAX_CLIENTS
    BY HttpdAssumption
  <2> QED BY <2>1, <2>2
<1>6. TypeOK'
  BY <1>1, <1>2, <1>3, <1>4, <1>5 DEF TypeOK
<1> QED BY <1>6 DEF Restart, WalkInv, Serving

LEMMA TakeTypes ==
    ASSUME PoolTypeOK, NEW s \in Sockets, TakePart(s)
    PROVE  PoolTypeOK'
BY PoolAssumption DEF PoolTypeOK, TakePart

LEMMA ServerTypes ==
    ASSUME TypeOK, WalkInv, Server
    PROVE  TypeOK' /\ WalkInv'
<1>1. CASE SelectCleanup
  BY <1>1, CleanupTypes, ScanTypes
     DEF TypeOK, Steps, WalkInv, Serving, SelectCleanup, CleanupRead, CleanupClear, CleanupListen, ramVars, poolVars, PoolTypeOK
<1>2. CASE PollClient
  <2>1. n + 1 < NSOCKS => n + 1 \in Sockets
    BY PoolAssumption DEF TypeOK, Sockets
  <2>2. n' \in Sockets /\ pc' \in {"poll", "pollPool"}
    BY <1>2, <2>1, PoolAssumption DEF PollClient, Sockets
  <2>3. ready' \subseteq Sockets \cup {Listener}
    BY <1>2 DEF TypeOK, PollClient
  <2>4. UNCHANGED << sr, ir, rx, ans, bit, timeout, fdset, clients, connected, i, method, moved >>
    BY <1>2 DEF PollClient, poolVars
  <2> QED BY <2>2, <2>3, <2>4 DEF TypeOK, PoolTypeOK, WalkInv, Serving, Steps
<1>3. CASE PollPool
  <2>1. n + 1 < NSOCKS => n + 1 \in Sockets
    BY PoolAssumption DEF TypeOK, Sockets
  <2>2. n' \in Sockets /\ pc' \in {"poll", "pollPool", "acceptCleanup", "walk"}
    BY <1>3, <2>1, PoolAssumption DEF PollPool, Sockets
  <2>3. ready' \subseteq Sockets \cup {Listener}
    BY <1>3 DEF TypeOK, PollPool
  <2>4. timeout' \in 0 .. SELECT_TIMEOUT
    <3>1. timeout \in 0 .. SELECT_TIMEOUT
      BY DEF TypeOK
    <3> QED BY <1>3, <3>1, HttpdAssumption DEF PollPool
  <2>5. UNCHANGED << sr, ir, rx, ans, bit, fdset, clients, connected, i, method, moved >>
    BY <1>3 DEF PollPool, poolVars
  <2> QED BY <2>2, <2>3, <2>4, <2>5 DEF TypeOK, PoolTypeOK, WalkInv, Serving, Steps
<1>4. CASE AcceptCleanup
  BY <1>4, CleanupTypes, ScanTypes
     DEF TypeOK, Steps, WalkInv, Serving, AcceptCleanup, CleanupRead, CleanupClear, CleanupListen, ramVars, poolVars, PoolTypeOK
<1>5. CASE AcceptScan
  BY <1>5, NextSocket DEF TypeOK, PoolTypeOK, poolVars, WalkInv, Serving, Steps, AcceptScan, ClearCon
<1>6. CASE AddClient
  <2>1. n' \in Sockets /\ pc' \in {"walk", "overrun"}
    BY <1>6, PoolAssumption DEF TypeOK, AddClient, Sockets
  <2>2. /\ clients' \in [0 .. (HTTPD_MAX_CLIENTS - 1) -> Sockets \cup {NoSock}]
        /\ connected' \in 0 .. HTTPD_MAX_CLIENTS /\ fdset' \subseteq Sockets
    BY <1>6, HttpdAssumption DEF TypeOK, AddClient
  <2>3. UNCHANGED << sr, ir, rx, ans, bit, timeout, ready, i, method, moved >>
    BY <1>6 DEF AddClient, poolVars
  <2> QED BY <2>1, <2>2, <2>3 DEF TypeOK, PoolTypeOK, WalkInv, Serving, Steps
<1>7. CASE WalkOn
  BY <1>7, HttpdAssumption DEF TypeOK, PoolTypeOK, poolVars, WalkInv, Serving, Steps, WalkOn, fd
<1>8. CASE WalkDone
  BY <1>8, HttpdAssumption DEF TypeOK, PoolTypeOK, poolVars, WalkInv, Serving, Steps, WalkDone
<1>9. CASE ReadMethod
  <2>1. PoolTypeOK'
    BY <1>9, ServedIsSocket, TakeTypes DEF TypeOK, PoolTypeOK, poolVars, ReadMethod, Serving
  <2>2. method' \in BOOLEAN /\ moved' \in BOOLEAN
    BY <1>9 DEF TypeOK, ReadMethod
  <2>3. pc' \in {"readUri", "respond", "methodStatus"}
    BY <1>9 DEF ReadMethod
  <2>4. Serving /\ UNCHANGED << n, bit, timeout, ready, fdset, clients, connected, i >>
    BY <1>9 DEF ReadMethod, Serving
  <2> QED BY <2>1, <2>2, <2>3, <2>4 DEF TypeOK, WalkInv, Steps, fd
<1>10. CASE MethodStatus
  BY <1>10 DEF TypeOK, PoolTypeOK, poolVars, WalkInv, Serving, Steps, MethodStatus, fd
<1>11. CASE ReadUri
  <2>1. PoolTypeOK'
    BY <1>11, ServedIsSocket, TakeTypes DEF TypeOK, PoolTypeOK, poolVars, ReadUri, Serving
  <2>2. Serving /\ pc' \in {"respond", "uriStatus"} /\ UNCHANGED << ramVars, moved >>
    BY <1>11 DEF ReadUri, Serving
  <2> QED BY <2>1, <2>2 DEF TypeOK, WalkInv, Steps, fd, ramVars
<1>12. CASE UriStatus
  BY <1>12 DEF TypeOK, PoolTypeOK, poolVars, ramVars, WalkInv, Serving, Steps, UriStatus, fd
<1>13. CASE Respond
  BY <1>13, ServedIsSocket DEF TypeOK, PoolTypeOK, ramVars, WalkInv, Serving, Steps, Respond, WriteAnswer, fd
<1>14. CASE Close
  <2>1. Serving /\ fd \in Sockets /\ i \in 0 .. (HTTPD_MAX_CLIENTS - 1) /\ connected > 0
    BY <1>14, ServedIsSocket DEF Close, Serving
  <2>2. PoolTypeOK'
    BY <1>14, <2>1, PoolAssumption DEF TypeOK, PoolTypeOK, Close, Disconnect, Statuses
  <2>3. PICK last : /\ last \in IF connected < HTTPD_MAX_CLIENTS
                                 THEN {clients[connected]} ELSE Sockets \cup {NoSock}
                    /\ clients' = [clients EXCEPT ![i] = last]
    BY <1>14 DEF Close
  <2>4. last \in Sockets \cup {NoSock}
    BY <2>3, HttpdAssumption DEF TypeOK
  <2>5. clients' \in [0 .. (HTTPD_MAX_CLIENTS - 1) -> Sockets \cup {NoSock}]
    BY <2>3, <2>4 DEF TypeOK
  <2>6. connected' \in 0 .. HTTPD_MAX_CLIENTS /\ fdset' \subseteq Sockets
    BY <1>14, <2>1, HttpdAssumption DEF TypeOK, Close
  <2>7. /\ pc' = "walk" /\ method' = FALSE /\ moved' = FALSE
        /\ UNCHANGED << n, bit, timeout, ready, i >>
    BY <1>14 DEF Close
  <2> QED BY <2>2, <2>5, <2>6, <2>7 DEF TypeOK, WalkInv, Serving, Steps
<1> QED BY <1>1, <1>2, <1>3, <1>4, <1>5, <1>6, <1>7, <1>8, <1>9, <1>10, <1>11, <1>12, <1>13, <1>14 DEF Server

LEMMA PeerStepTypes ==
    ASSUME TypeOK, WalkInv, NEW s \in Sockets, PeerStep(s)
    PROVE  TypeOK' /\ WalkInv'
<1>1. PoolTypeOK'
  BY PeerTypes DEF TypeOK, PeerStep
<1>2. UNCHANGED << pc, ramVars >>
  BY DEF PeerStep
<1>3. moved' \in BOOLEAN
  <2>1. moved' = (moved \/ (Serving /\ s = fd /\ sr[s] = "LISTEN"))
    BY DEF PeerStep
  <2> QED BY <2>1
<1> QED BY <1>1, <1>2, <1>3 DEF TypeOK, ramVars, WalkInv, Serving, fd

LEMMA NextTypes == TypeOK /\ WalkInv /\ [Next]_vars => TypeOK' /\ WalkInv'
<1> SUFFICES ASSUME TypeOK, WalkInv, [Next]_vars
             PROVE  TypeOK' /\ WalkInv'
  OBVIOUS
<1>1. CASE Server
  BY <1>1, ServerTypes
<1>2. CASE Restart
  BY <1>2, RestartTypes
<1>3. ASSUME NEW s \in Sockets, PeerStep(s) PROVE TypeOK' /\ WalkInv'
  BY <1>3, PeerStepTypes
<1>4. CASE UNCHANGED vars
  BY <1>4 DEF vars, poolVars, ramVars, TypeOK, PoolTypeOK, WalkInv, Serving, fd
<1> QED BY <1>1, <1>2, <1>3, <1>4 DEF Next

LEMMA TypesAndWalk == Spec => [](TypeOK /\ WalkInv)
BY InitTypes, NextTypes, PTL DEF Spec

(* Every variable keeps its type: no step writes behind the list of        *)
(* clients (httpd.c:336-358), and the walk keeps to its entries.           *)
THEOREM TypeCorrect == Spec => []TypeOK
BY TypesAndWalk, PTL
-----------------------------------------------------------------------------
(* A socket whose connection has ended can be found by the clean-up.       *)

Ended(s) == sr[s] \in {"CLOSE_WAIT", "LAST_ACK", "CLOSED"}
Flagged(s) == ir[s] \cap {"DISCON", "TIMEOUT"} # {}
BeingRelisted(s) == pc \in {"cleanupListen", "acceptListen"} /\ n = s

LEMMA PeerFlags ==
    ASSUME PoolTypeOK, NEW s \in Sockets, Peer(s), NEW t \in Sockets, Ended(t)'
    PROVE  Flagged(t)' \/ (Ended(t) /\ (Flagged(t) => Flagged(t)'))
<1> USE DEF PoolTypeOK, Ended, Flagged
<1>1. CASE Connect(s)
  BY <1>1 DEF Connect
<1>2. CASE Send(s)
  BY <1>2 DEF Send
<1>3. CASE HangUp(s)
  BY <1>3 DEF HangUp
<1>4. CASE Closes(s)
  BY <1>4 DEF Closes, FinAnswered, LastAck, GiveUp
<1> QED BY <1>1, <1>2, <1>3, <1>4 DEF Peer

(* Whatever ends a clean-up of one socket leaves the status alone.         *)
LEMMA ServerFlags ==
    ASSUME TypeOK, WalkInv, EndedIsFlagged, Server, NEW t \in Sockets, Ended(t)'
    PROVE  Flagged(t)' \/ BeingRelisted(t)'
<1> USE DEF Ended, Flagged, BeingRelisted
<1>0. /\ sr \in [Sockets -> Statuses] /\ ir \in [Sockets -> SUBSET IrBits]
      /\ Ended(t) => Flagged(t) \/ BeingRelisted(t)
      /\ n \in Sockets
  BY DEF TypeOK, PoolTypeOK, EndedIsFlagged
<1>1. CASE SelectCleanup
  BY <1>0, <1>1 DEF SelectCleanup, CleanupRead, CleanupClear, CleanupListen, Clear, Relist, poolVars, ramVars
<1>2. CASE PollClient \/ PollPool
  BY <1>0, <1>2 DEF PollClient, PollPool, poolVars
<1>4. CASE AcceptCleanup
  BY <1>0, <1>4 DEF AcceptCleanup, CleanupRead, CleanupClear, CleanupListen, Clear, Relist, poolVars, ramVars
<1>5. CASE AcceptScan
  BY <1>0, <1>5 DEF AcceptScan, ClearCon, poolVars
<1>6. CASE AddClient \/ WalkOn \/ WalkDone
  BY <1>0, <1>6 DEF AddClient, WalkOn, WalkDone, poolVars
<1>7. CASE ReadMethod \/ MethodStatus \/ ReadUri \/ UriStatus \/ Respond
  BY <1>0, <1>7 DEF ReadMethod, MethodStatus, ReadUri, UriStatus, Respond, WriteAnswer, TakePart, poolVars, ramVars
<1>8. CASE Close
  BY <1>0, <1>8 DEF Close, Disconnect
<1> QED BY <1>1, <1>2, <1>4, <1>5, <1>6, <1>7, <1>8 DEF Server

LEMMA NextFlags == TypeOK /\ WalkInv /\ EndedIsFlagged /\ [Next]_vars => EndedIsFlagged'
<1> SUFFICES ASSUME TypeOK, WalkInv, EndedIsFlagged, [Next]_vars,
                    NEW t \in Sockets, Ended(t)'
             PROVE  Flagged(t)' \/ BeingRelisted(t)'
  BY DEF EndedIsFlagged, Ended, Flagged, BeingRelisted
<1>1. CASE Server
  BY <1>1, ServerFlags
<1>2. CASE Restart
  BY <1>2 DEF Restart, Listening, Ended
<1>3. ASSUME NEW s \in Sockets, PeerStep(s) PROVE Flagged(t)' \/ BeingRelisted(t)'
  <2>1. Flagged(t)' \/ (Ended(t) /\ (Flagged(t) => Flagged(t)'))
    BY <1>3, PeerFlags DEF TypeOK, PeerStep
  <2>2. BeingRelisted(t) => BeingRelisted(t)'
    BY <1>3 DEF PeerStep, ramVars, BeingRelisted
  <2> QED BY <2>1, <2>2 DEF EndedIsFlagged, Ended, Flagged, BeingRelisted
<1>4. CASE UNCHANGED vars
  BY <1>4 DEF vars, poolVars, ramVars, EndedIsFlagged, Ended, Flagged, BeingRelisted
<1> QED BY <1>1, <1>2, <1>3, <1>4 DEF Next

(* A connection that is over never gets lost: in every state its socket    *)
(* carries a bit that a later clean-up acts on, or is just being put back  *)
(* into LISTEN, whatever the peers do between the accesses of socket.c.    *)
THEOREM EndedAlwaysFlagged == Spec => []EndedIsFlagged
<1>1. Init => EndedIsFlagged
  BY DEF Init, Listening, EndedIsFlagged
<1> QED BY <1>1, NextFlags, TypesAndWalk, PTL DEF Spec
-----------------------------------------------------------------------------
(* sock_accept() finds a connection. *)

(* Neither peers nor the clean-up take a CON bit away. *)
LEMMA PeerKeepsCon ==
    ASSUME PoolTypeOK, NEW s \in Sockets, Peer(s), NEW t \in Sockets, PoolEvent(t)
    PROVE  PoolEvent(t)'
BY DEF PoolTypeOK, PoolEvent, Peer, Connect, Send, HangUp, Closes, FinAnswered, LastAck, GiveUp

LEMMA CleanupKeepsCon ==
    ASSUME TypeOK, SelectCleanup \/ AcceptCleanup, NEW t \in Sockets, PoolEvent(t)
    PROVE  PoolEvent(t)'
<1>1. ir \in [Sockets -> SUBSET IrBits] /\ n \in Sockets /\ "CON" \notin bit
  BY DEF TypeOK, PoolTypeOK
<1> QED BY <1>1 DEF PoolEvent, SelectCleanup, AcceptCleanup, CleanupRead, CleanupClear,
                    CleanupListen, Clear, Relist, poolVars

LEMMA ServerSeen ==
    ASSUME TypeOK, WalkInv, SeenInv, Server
    PROVE  SeenInv'
<1> USE DEF SeenInv, Accepting, PoolEvent
<1>1. CASE SelectCleanup
  <2>1. pc' \in {"cleanup", "cleanupClear", "cleanupListen"} \/ (pc' = "poll" /\ ready' = {})
    BY <1>1 DEF SelectCleanup, CleanupRead, CleanupClear, CleanupListen, SelectNext
  <2> QED BY <2>1
<1>2. CASE PollClient
  <2>1. Listener \notin Sockets
    BY PoolAssumption DEF Listener, Sockets
  <2>2. Listener \in ready' => Listener \in ready
    BY <1>2, <2>1 DEF PollClient, TypeOK
  <2> QED BY <1>2, <2>2 DEF PollClient, poolVars
<1>3. CASE PollPool
  <2>1. n \in Sockets /\ pc = "pollPool" /\ ir' = ir
    BY <1>3 DEF PollPool, TypeOK, poolVars
  <2>2. Listener \in ready' => \E s \in Sockets : "CON" \in ir[s]
    BY <1>3, <2>1 DEF PollPool
  <2>3. pc' \in {"pollPool", "poll", "walk"} \/ (pc' = "acceptCleanup" /\ Listener \in ready')
    BY <1>3 DEF PollPool
  <2> QED BY <2>1, <2>2, <2>3
<1>4. CASE AcceptCleanup
  <2>1. Accepting /\ ready' = ready
    BY <1>4 DEF AcceptCleanup, CleanupRead, CleanupClear, CleanupListen, AcceptNext, ramVars
  <2>2. PICK t \in Sockets : PoolEvent(t)
    BY <2>1
  <2>3. PoolEvent(t)'
    BY <1>4, <2>2, CleanupKeepsCon
  <2> QED BY <2>1, <2>3
<1>5. CASE AcceptScan
  BY <1>5 DEF AcceptScan, poolVars
<1>6. CASE AddClient \/ WalkOn \/ WalkDone
  BY <1>6 DEF AddClient, WalkOn, WalkDone
<1>7. CASE ReadMethod \/ MethodStatus \/ ReadUri \/ UriStatus \/ Respond \/ Close
  BY <1>7 DEF ReadMethod, MethodStatus, ReadUri, UriStatus, Respond, Close
<1> QED BY <1>1, <1>2, <1>3, <1>4, <1>5, <1>6, <1>7 DEF Server

LEMMA NextSeen == TypeOK /\ WalkInv /\ SeenInv /\ [Next]_vars => SeenInv'
<1> SUFFICES ASSUME TypeOK, WalkInv, SeenInv, [Next]_vars
             PROVE  SeenInv'
  OBVIOUS
<1>1. CASE Server
  BY <1>1, ServerSeen
<1>2. CASE Restart
  BY <1>2 DEF Restart, SeenInv, Accepting
<1>3. ASSUME NEW s \in Sockets, PeerStep(s) PROVE SeenInv'
  <2>1. UNCHANGED << pc, ready >>
    BY <1>3 DEF PeerStep, ramVars
  <2>2. \A t \in Sockets : PoolEvent(t) => PoolEvent(t)'
    BY <1>3, PeerKeepsCon DEF TypeOK, PeerStep
  <2> QED BY <2>1, <2>2 DEF SeenInv, Accepting, PoolEvent
<1>4. CASE UNCHANGED vars
  BY <1>4 DEF vars, poolVars, ramVars, SeenInv, Accepting
<1> QED BY <1>1, <1>2, <1>3, <1>4 DEF Next

(* sock_accept() never scans for a connection that is not there, although  *)
(* it cleans up the pool first and peers hang up at any time.              *)
THEOREM AcceptAlwaysFinds == Spec => []AcceptFindsConnection
<1>1. Init => SeenInv
  BY DEF Init, SeenInv, Accepting
<1>2. SeenInv => AcceptFindsConnection
  BY DEF SeenInv, Accepting, AcceptFindsConnection, PoolEvent
<1> QED BY <1>1, <1>2, NextSeen, TypesAndWalk, PTL DEF Spec
-----------------------------------------------------------------------------
(* A connection is answered once, and nobody else gets the answer. *)

Answered(s) == ans[s] /\ sr[s] = "ESTABLISHED"

LEMMA PeerAnswers ==
    ASSUME PoolTypeOK, NEW s \in Sockets, Peer(s), NEW t \in Sockets, Answered(t)'
    PROVE  Answered(t)
BY DEF PoolTypeOK, Answered, Peer, Connect, Send, HangUp, Closes, FinAnswered, LastAck, GiveUp

LEMMA ServerAnswers ==
    ASSUME TypeOK, WalkInv, AnswerInv, Server, NEW t \in Sockets, Answered(t)'
    PROVE  pc' = "close" /\ t = fd'
<1> USE DEF Answered
<1>0. /\ sr \in [Sockets -> Statuses] /\ ans \in [Sockets -> BOOLEAN] /\ n \in Sockets
      /\ Answered(t) => pc = "close" /\ t = fd
  BY DEF TypeOK, PoolTypeOK, AnswerInv
<1>1. CASE SelectCleanup
  BY <1>0, <1>1 DEF SelectCleanup, CleanupRead, CleanupClear, CleanupListen, Clear, Relist, poolVars
<1>2. CASE PollClient \/ PollPool
  BY <1>0, <1>2 DEF PollClient, PollPool, poolVars
<1>4. CASE AcceptCleanup
  BY <1>0, <1>4 DEF AcceptCleanup, CleanupRead, CleanupClear, CleanupListen, Clear, Relist, poolVars
<1>5. CASE AcceptScan
  BY <1>0, <1>5 DEF AcceptScan, ClearCon, poolVars
<1>6. CASE AddClient \/ WalkOn \/ WalkDone
  BY <1>0, <1>6 DEF AddClient, WalkOn, WalkDone, poolVars
<1>7. CASE ReadMethod \/ MethodStatus \/ ReadUri \/ UriStatus
  BY <1>0, <1>7 DEF ReadMethod, MethodStatus, ReadUri, UriStatus, TakePart, poolVars
<1>8. CASE Respond
  BY <1>0, <1>8 DEF Respond, WriteAnswer, ramVars, fd
<1>9. CASE Close
  <2>1. fd \in Sockets /\ sr'[fd] # "ESTABLISHED"
    BY <1>0, <1>9, ServedIsSocket DEF Close, Disconnect, Serving
  <2>2. Answered(t)
    BY <1>0, <1>9, <2>1 DEF Close, Disconnect
  <2> QED BY <1>0, <2>1, <2>2
<1> QED BY <1>1, <1>2, <1>4, <1>5, <1>6, <1>7, <1>8, <1>9 DEF Server

LEMMA NextAnswers == TypeOK /\ WalkInv /\ AnswerInv /\ [Next]_vars => AnswerInv'
<1> SUFFICES ASSUME TypeOK, WalkInv, AnswerInv, [Next]_vars, NEW t \in Sockets, Answered(t)'
             PROVE  pc' = "close" /\ t = fd'
  BY DEF AnswerInv, Answered
<1>1. CASE Server
  BY <1>1, ServerAnswers
<1>2. CASE Restart
  BY <1>2 DEF Restart, Listening, Answered
<1>3. ASSUME NEW s \in Sockets, PeerStep(s) PROVE pc' = "close" /\ t = fd'
  <2>1. Answered(t)
    BY <1>3, PeerAnswers DEF TypeOK, PeerStep
  <2> QED BY <1>3, <2>1 DEF PeerStep, ramVars, fd, AnswerInv, Answered
<1>4. CASE UNCHANGED vars
  BY <1>4 DEF vars, poolVars, ramVars, fd, AnswerInv, Answered
<1> QED BY <1>1, <1>2, <1>3, <1>4 DEF Next

(* No connection gets two answers, though the list of clients may hold a   *)
(* descriptor twice, or one that was removed before.                       *)
THEOREM AlwaysAnsweredOnce == Spec => []AnsweredOnce
<1>1. Init => AnswerInv
  BY DEF Init, Listening, AnswerInv
<1>2. TypeOK /\ WalkInv /\ AnswerInv => AnsweredOnce
  <2> SUFFICES ASSUME TypeOK, WalkInv, AnswerInv, pc = "respond" PROVE ~Answered(fd)
    BY DEF AnsweredOnce, Answered
  <2>1. fd \in Sockets
    BY ServedIsSocket DEF Serving
  <2> QED BY <2>1 DEF AnswerInv, Answered
<1> QED BY <1>1, <1>2, NextAnswers, TypesAndWalk, PTL DEF Spec

LEMMA PeerRequests ==
    ASSUME PoolTypeOK, NEW s \in Sockets, Peer(s), NEW t \in Sockets
    PROVE  /\ (rx[t] > 0 => sr[t] # "LISTEN") => (rx'[t] > 0 => sr'[t] # "LISTEN")
           /\ sr[t] # "LISTEN" => sr'[t] # "LISTEN"
BY DEF PoolTypeOK, Peer, Connect, Send, HangUp, Closes, FinAnswered, LastAck, GiveUp

LEMMA ServerRequests ==
    ASSUME TypeOK, WalkInv, RequestInv, Server
    PROVE  RequestInv'
<1>0. /\ sr \in [Sockets -> Statuses] /\ rx \in [Sockets -> 0 .. RxMax] /\ n \in Sockets
      /\ \A t \in Sockets : rx[t] > 0 => sr[t] # "LISTEN"
      /\ RxMax \in Nat
  BY PoolAssumption DEF TypeOK, PoolTypeOK, RequestInv
<1> USE DEF RequestInv, Reading
<1>1. CASE SelectCleanup
  <2>1. pc' \in {"cleanup", "cleanupClear", "cleanupListen", "poll"}
    BY <1>1 DEF SelectCleanup, CleanupRead, CleanupClear, CleanupListen, SelectNext
  <2> QED BY <1>0, <1>1, <2>1
          DEF SelectCleanup, CleanupRead, CleanupClear, CleanupListen, Clear, Relist, poolVars
<1>2. CASE PollClient \/ PollPool
  BY <1>0, <1>2 DEF PollClient, PollPool, poolVars
<1>4. CASE AcceptCleanup
  <2>1. pc' \in {"acceptCleanup", "acceptClear", "acceptListen", "acceptScan"}
    BY <1>4 DEF AcceptCleanup, CleanupRead, CleanupClear, CleanupListen, AcceptNext
  <2> QED BY <1>0, <1>4, <2>1
          DEF AcceptCleanup, CleanupRead, CleanupClear, CleanupListen, Clear, Relist, poolVars
<1>5. CASE AcceptScan
  BY <1>0, <1>5 DEF AcceptScan, ClearCon, poolVars
<1>6. CASE AddClient \/ WalkOn \/ WalkDone
  BY <1>0, <1>6 DEF AddClient, WalkOn, WalkDone, poolVars
<1>7. CASE ReadMethod
  <2>1. fd \in Sockets /\ fd' = fd
    BY <1>7, ServedIsSocket DEF ReadMethod, Serving, fd
  <2>2. CASE rx[fd] > 0
    <3>1. TakePart(fd) /\ moved' = FALSE
      BY <1>7, <2>2 DEF ReadMethod
    <3> QED BY <1>0, <2>1, <2>2, <3>1 DEF TakePart
  <2>3. CASE ~(rx[fd] > 0)
    BY <1>0, <1>7, <2>3 DEF ReadMethod, poolVars
  <2> QED BY <2>2, <2>3
<1>8. CASE MethodStatus
  BY <1>0, <1>8 DEF MethodStatus, poolVars
<1>9. CASE ReadUri \/ UriStatus
  <2>1. fd \in Sockets /\ fd' = fd /\ moved' = moved /\ sr' = sr /\ Reading
    BY <1>9, ServedIsSocket DEF ReadUri, UriStatus, Serving, ramVars, fd, TakePart, poolVars
  <2>2. \A t \in Sockets : rx'[t] > 0 => rx[t] > 0
    BY <1>0, <1>9, <2>1 DEF ReadUri, UriStatus, TakePart, poolVars
  <2> QED BY <1>0, <2>1, <2>2
<1>10. CASE Respond
  BY <1>0, <1>10 DEF Respond, WriteAnswer, ramVars
<1>11. CASE Close
  BY <1>0, <1>11 DEF Close, Disconnect
<1> QED BY <1>1, <1>2, <1>4, <1>5, <1>6, <1>7, <1>8, <1>9, <1>10, <1>11 DEF Server

LEMMA NextRequests == TypeOK /\ WalkInv /\ RequestInv /\ [Next]_vars => RequestInv'
<1> SUFFICES ASSUME TypeOK, WalkInv, RequestInv, [Next]_vars
             PROVE  RequestInv'
  OBVIOUS
<1>1. CASE Server
  BY <1>1, ServerRequests
<1>2. CASE Restart
  BY <1>2 DEF Restart, Listening, RequestInv, Reading
<1>3. ASSUME NEW s \in Sockets, PeerStep(s) PROVE RequestInv'
  <2>1. \A t \in Sockets : rx'[t] > 0 => sr'[t] # "LISTEN"
    BY <1>3, PeerRequests DEF TypeOK, PeerStep, RequestInv
  <2>2. Reading' => Reading /\ fd \in Sockets /\ fd' = fd
    BY <1>3, ServedIsSocket DEF PeerStep, ramVars, Reading, Serving, fd
  <2>3. Reading' => sr'[fd] # "LISTEN"
    BY <1>3, <2>2, PeerRequests DEF TypeOK, PeerStep, RequestInv
  <2>4. Reading' => ~moved'
    BY <1>3, <2>2 DEF PeerStep, RequestInv
  <2> QED BY <2>1, <2>2, <2>3, <2>4 DEF RequestInv
<1>4. CASE UNCHANGED vars
  BY <1>4 DEF vars, poolVars, ramVars, fd, RequestInv, Reading
<1> QED BY <1>1, <1>2, <1>3, <1>4 DEF Next

(* Between the request and its answer no other peer can get the socket.    *)
THEOREM NeverCrossTalk == Spec => []NoCrossTalk
<1>1. Init => RequestInv
  BY DEF Init, Listening, RequestInv, Reading
<1>2. RequestInv => NoCrossTalk
  BY DEF RequestInv, Reading, NoCrossTalk
<1> QED BY <1>1, <1>2, NextRequests, TypesAndWalk, PTL DEF Spec
-----------------------------------------------------------------------------
(* One polite connection at a time: the list of clients is exact. *)

IsOpen(s) == sr[s] \notin {"LISTEN", "CLOSED"}
Clearing == pc \in {"cleanupClear", "acceptClear"}
Relisting == pc \in {"cleanupListen", "acceptListen"}

(* A flag means what it says, and only an ended connection is cleaned up.  *)
FlagsMean ==
    /\ \A s \in Sockets :
          /\ "TIMEOUT" \notin ir[s]
          /\ "DISCON" \in ir[s] => Ended(s)
          /\ "CON" \in ir[s] => sr[s] = "ESTABLISHED" /\ ~ans[s] /\ s \notin fdset
    /\ Clearing => Ended(n) /\ bit = {"DISCON"}
    /\ Relisting => Ended(n) /\ "DISCON" \notin ir[n]

(* Only one connection is open, and it is not closed before its answer.    *)
OneOpen == \A s, t \in Sockets : IsOpen(s) /\ IsOpen(t) => s = t
HangUpsWait == \A s \in Sockets : sr[s] = "CLOSE_WAIT" => pc = "close" /\ s = fd
NewClient ==
    pc = "add" => sr[n] = "ESTABLISHED" /\ ~ans[n] /\ n \notin fdset /\ "CON" \notin ir[n]

(* The list is empty or holds the one client that is watched. *)
WatchedOpen == \A s \in fdset : sr[s] \in {"ESTABLISHED", "CLOSE_WAIT"}
ListExact ==
    \/ connected = 0 /\ fdset = {}
    \/ connected = 1 /\ fdset = {clients[0]}

SeqInv == FlagsMean /\ OneOpen /\ HangUpsWait /\ NewClient /\ WatchedOpen /\ ListExact

LEMMA InitSequential == Init => SeqInv
<1> SUFFICES ASSUME Init PROVE SeqInv
  OBVIOUS
<1>1. n \in Sockets
  BY PoolAssumption DEF Init, Sockets
<1> QED BY <1>1 DEF Init, Listening, NoClients, SeqInv, FlagsMean, OneOpen, HangUpsWait, NewClient,
              WatchedOpen, ListExact, IsOpen, Ended, Clearing, Relisting

LEMMA RestartSequential == Restart => SeqInv'
<1> SUFFICES ASSUME Restart PROVE SeqInv'
  OBVIOUS
<1>1. n' \in Sockets
  BY PoolAssumption DEF Restart, Sockets
<1> QED BY <1>1 DEF Restart, Listening, NoClients, SeqInv, FlagsMean, OneOpen, HangUpsWait, NewClient,
              WatchedOpen, ListExact, IsOpen, Ended, Clearing, Relisting

(* With a limit of one, a peer connects only when no connection is open.   *)
LEMMA ConnectsAlone ==
    ASSUME MaxOpen = 1, TypeOK, NEW s \in Sockets, Connect(s)
    PROVE  \A t \in Sockets : ~IsOpen(t)
<1>1. IsFiniteSet(Open) /\ Open \in SUBSET Sockets
  <2>1. IsFiniteSet(Sockets)
    BY PoolAssumption, FS_Interval DEF Sockets
  <2> QED BY <2>1, FS_Subset DEF Open
<1>2. Cardinality(Open) \in Nat /\ Cardinality(Open) < 1
  BY <1>1, FS_CardinalityType DEF Connect
<1>3. Open = {}
  BY <1>1, <1>2, FS_EmptySet
<1> QED BY <1>3 DEF Open, IsOpen

LEMMA PeerSequential ==
    ASSUME MaxOpen = 1, Polite, TypeOK, WalkInv, AnswerInv, SeqInv,
           NEW s \in Sockets, PeerStep(s)
    PROVE  SeqInv'
<1> USE DEF FlagsMean, OneOpen, HangUpsWait, NewClient, WatchedOpen, ListExact, IsOpen, Ended,
            Clearing, Relisting
<1>0. /\ sr \in [Sockets -> Statuses] /\ ir \in [Sockets -> SUBSET IrBits]
      /\ ans \in [Sockets -> BOOLEAN] /\ n \in Sockets /\ fdset \subseteq Sockets
  BY DEF TypeOK, PoolTypeOK
<1>1. UNCHANGED << pc, n, bit, fdset, clients, connected, i, fd >>
  BY DEF PeerStep, ramVars, fd
<1>2. ListExact'
  BY <1>1 DEF SeqInv
<1>3. CASE Connect(s)
  <2>1. \A t \in Sockets : ~IsOpen(t)
    BY <1>3, ConnectsAlone
  <2>2. \A t \in Sockets : sr[t] \in {"LISTEN", "CLOSED"}
    BY <2>1
  <2>3. fdset = {} /\ pc # "add"
    BY <1>0, <2>2 DEF SeqInv
  <2>4. FlagsMean'
    BY <1>0, <1>1, <1>3, <2>2, <2>3 DEF SeqInv, Connect
  <2>5. OneOpen' /\ HangUpsWait' /\ NewClient' /\ WatchedOpen'
    BY <1>0, <1>1, <1>3, <2>2, <2>3 DEF SeqInv, Connect
  <2> QED BY <1>2, <2>4, <2>5 DEF SeqInv
<1>4. CASE Send(s)
  BY <1>0, <1>1, <1>2, <1>4 DEF SeqInv, Send
<1>5. CASE HangUp(s)
  <2>1. sr[s] = "ESTABLISHED" /\ ans[s] /\ pc = "close" /\ s = fd
    BY <1>5 DEF HangUp, AnswerInv
  <2>2. FlagsMean'
    BY <1>0, <1>1, <1>5, <2>1 DEF SeqInv, HangUp
  <2>3. OneOpen' /\ HangUpsWait' /\ NewClient' /\ WatchedOpen'
    BY <1>0, <1>1, <1>5, <2>1 DEF SeqInv, HangUp
  <2> QED BY <1>2, <2>2, <2>3 DEF SeqInv
<1>6. CASE FinAnswered(s)
  <2>1. FlagsMean'
    BY <1>0, <1>1, <1>6 DEF SeqInv, FinAnswered
  <2>2. OneOpen' /\ HangUpsWait' /\ NewClient' /\ WatchedOpen'
    BY <1>0, <1>1, <1>6 DEF SeqInv, FinAnswered
  <2> QED BY <1>2, <2>1, <2>2 DEF SeqInv
<1>7. CASE LastAck(s)
  <2>1. FlagsMean'
    BY <1>0, <1>1, <1>7 DEF SeqInv, LastAck
  <2>2. OneOpen' /\ HangUpsWait' /\ NewClient' /\ WatchedOpen'
    BY <1>0, <1>1, <1>7 DEF SeqInv, LastAck
  <2> QED BY <1>2, <2>1, <2>2 DEF SeqInv
<1> QED BY <1>3, <1>4, <1>5, <1>6, <1>7 DEF PeerStep, Peer, Closes, GiveUp

LEMMA ServerSequential ==
    ASSUME MaxOpen = 1, Polite, TypeOK, WalkInv, AnswerInv, SeqInv, Server
    PROVE  SeqInv'
<1> USE DEF FlagsMean, OneOpen, HangUpsWait, NewClient, WatchedOpen, ListExact, IsOpen, Ended,
            Clearing, Relisting
<1>0. /\ sr \in [Sockets -> Statuses] /\ ir \in [Sockets -> SUBSET IrBits]
      /\ ans \in [Sockets -> BOOLEAN] /\ n \in Sockets /\ fdset \subseteq Sockets
  BY DEF TypeOK, PoolTypeOK
<1>1. ASSUME SelectCleanup \/ AcceptCleanup PROVE SeqInv'
  <2>1. /\ UNCHANGED << fdset, clients, connected, i, fd >>
        /\ pc' # "add" /\ pc \notin {"close", "add"}
    BY <1>0, <1>1 DEF SelectCleanup, AcceptCleanup, CleanupRead, CleanupClear, CleanupListen,
                 Clear, Relist, poolVars, ramVars, fd, SelectNext, AcceptNext
  <2>2. CASE /\ pc \in {"cleanup", "acceptCleanup"}
             /\ UNCHANGED poolVars
             /\ IF CleanupKind(n) = {}
                  THEN pc' \in {"cleanup", "poll", "acceptCleanup", "acceptScan"}
                  ELSE /\ pc' \in {"cleanupClear", "acceptClear"}
                       /\ bit' = CleanupKind(n) /\ n' = n
    <3>1. CleanupKind(n) \in {{}, {"DISCON"}} /\ (CleanupKind(n) # {} => "DISCON" \in ir[n])
      BY <1>0 DEF SeqInv, CleanupKind
    <3>2. FlagsMean'
      BY <1>0, <2>1, <2>2, <3>1 DEF SeqInv, poolVars
    <3> QED BY <1>0, <2>1, <2>2, <3>2 DEF SeqInv, poolVars
  <2>3. CASE Clearing /\ Clear(n, bit) /\ pc' \in {"cleanupListen", "acceptListen"}
             /\ UNCHANGED << n, fdset, clients, connected, i >>
    <3>1. FlagsMean'
      BY <1>0, <2>3 DEF SeqInv, Clear
    <3> QED BY <1>0, <2>1, <2>3, <3>1 DEF SeqInv, Clear
  <2>4. CASE Relisting /\ Relist(n)
             /\ pc' \in {"cleanup", "poll", "acceptCleanup", "acceptScan"}
    <3>1. FlagsMean'
      BY <1>0, <2>1, <2>4 DEF SeqInv, Relist
    <3> QED BY <1>0, <2>1, <2>4, <3>1 DEF SeqInv, Relist
  <2>5. CASE SelectCleanup
    BY <2>2, <2>3, <2>4, <2>5
       DEF SelectCleanup, CleanupRead, CleanupClear, CleanupListen, SelectNext, ramVars
  <2>6. CASE AcceptCleanup
    BY <2>2, <2>3, <2>4, <2>6
       DEF AcceptCleanup, CleanupRead, CleanupClear, CleanupListen, AcceptNext, ramVars
  <2> QED BY <1>1, <2>5, <2>6
<1>2. CASE PollClient \/ PollPool
  BY <1>0, <1>2 DEF SeqInv, PollClient, PollPool, poolVars
<1>3. CASE AcceptScan
  <2>1. CASE PoolEvent(n)
    <3>1. ClearCon(n) /\ pc' = "add" /\ UNCHANGED << n, fdset, clients, connected, i >> /\ pc = "acceptScan"
      BY <1>3, <2>1 DEF AcceptScan
    <3>2. FlagsMean'
      BY <1>0, <3>1 DEF SeqInv, ClearCon
    <3> QED BY <1>0, <2>1, <3>1, <3>2 DEF SeqInv, ClearCon, PoolEvent
  <2>2. CASE ~PoolEvent(n)
    BY <1>0, <1>3, <2>2 DEF SeqInv, AcceptScan, poolVars
  <2> QED BY <2>1, <2>2
<1>4. CASE AddClient
  <2>1. fdset = {} /\ connected = 0 /\ \A s \in Sockets : "CON" \notin ir[s]
    BY <1>0, <1>4 DEF SeqInv, AddClient
  <2>2. /\ clients' = [clients EXCEPT ![0] = n] /\ connected' = 1 /\ fdset' = {n}
        /\ pc' = "walk" /\ UNCHANGED << sr, ir, ans >>
    BY <1>4, <2>1, HttpdAssumption DEF AddClient, poolVars
  <2>3. ListExact'
    BY <2>2, HttpdAssumption DEF TypeOK
  <2>4. FlagsMean'
    BY <1>0, <2>1, <2>2 DEF SeqInv
  <2>5. OneOpen' /\ HangUpsWait' /\ NewClient' /\ WatchedOpen'
    BY <1>0, <1>4, <2>2 DEF SeqInv, AddClient
  <2> QED BY <2>3, <2>4, <2>5 DEF SeqInv
<1>5. CASE WalkOn \/ WalkDone \/ MethodStatus \/ UriStatus
  BY <1>0, <1>5 DEF SeqInv, WalkOn, WalkDone, MethodStatus, UriStatus, poolVars, ramVars, fd
<1>6. CASE ReadMethod \/ ReadUri
  BY <1>0, <1>6 DEF SeqInv, ReadMethod, ReadUri, TakePart, poolVars, ramVars, fd
<1>7. CASE Respond \/ Close
  <2>1. fd \in Sockets /\ i = 0 /\ connected = 1 /\ fdset = {fd}
    BY <1>7, ServedIsSocket DEF SeqInv, Respond, Close, Serving, WalkInv, TypeOK, fd
  <2>2. CASE Respond
    <3>1. FlagsMean'
      BY <1>0, <2>1, <2>2 DEF SeqInv, Respond, WriteAnswer, ramVars
    <3> QED BY <1>0, <2>1, <2>2, <3>1 DEF SeqInv, Respond, WriteAnswer, ramVars, fd
  <2>3. CASE Close
    <3>1. connected' = 0 /\ fdset' = {} /\ pc' = "walk" /\ UNCHANGED << ir, ans, n, bit >>
      BY <2>1, <2>3 DEF Close, Disconnect
    <3>2. sr' = [sr EXCEPT ![fd] = CASE @ = "ESTABLISHED" -> "FIN_WAIT"
                                     [] @ = "CLOSE_WAIT" -> "LAST_ACK" [] OTHER -> @]
      BY <2>3 DEF Close, Disconnect
    <3>3. FlagsMean'
      BY <1>0, <2>1, <3>1, <3>2 DEF SeqInv
    <3>4. OneOpen' /\ HangUpsWait' /\ NewClient' /\ WatchedOpen'
      BY <1>0, <2>1, <2>3, <3>1, <3>2 DEF SeqInv, Close
    <3> QED BY <3>1, <3>3, <3>4 DEF SeqInv
  <2> QED BY <1>7, <2>2, <2>3
<1> QED BY <1>1, <1>2, <1>3, <1>4, <1>5, <1>6, <1>7 DEF Server

LEMMA NextSequential ==
    ASSUME MaxOpen = 1, Polite
    PROVE  TypeOK /\ WalkInv /\ AnswerInv /\ SeqInv /\ [Next]_vars => SeqInv'
<1> SUFFICES ASSUME TypeOK, WalkInv, AnswerInv, SeqInv, [Next]_vars
             PROVE  SeqInv'
  OBVIOUS
<1>1. CASE Server
  BY <1>1, ServerSequential
<1>2. CASE Restart
  BY <1>2, RestartSequential
<1>3. ASSUME NEW s \in Sockets, PeerStep(s) PROVE SeqInv'
  BY <1>3, PeerSequential
<1>4. CASE UNCHANGED vars
  BY <1>4 DEF vars, poolVars, ramVars, fd, SeqInv, FlagsMean, OneOpen, HangUpsWait, NewClient,
              WatchedOpen, ListExact, IsOpen, Ended, Clearing, Relisting
<1> QED BY <1>1, <1>2, <1>3, <1>4 DEF Next

(* If connections come one at a time and wait for their answers, the list  *)
(* of clients is exact between two rounds, although the entry taken over   *)
(* at a removal is the wrong one (httpd.c:358).  Two connections at a time *)
(* are enough to lose a client.                                            *)
THEOREM ListAlwaysMatches ==
    ASSUME MaxOpen = 1, Polite
    PROVE  Spec => []ListMatchesSet
<1>1. SeqInv => ListMatchesSet
  <2> SUFFICES ASSUME SeqInv PROVE Listed = fdset /\ Cardinality(fdset) = connected
    BY DEF ListMatchesSet
  <2>1. CASE connected = 0 /\ fdset = {}
    <3>1. Listed = {}
      BY <2>1 DEF Listed
    <3> QED BY <2>1, <3>1, FS_EmptySet
  <2>2. CASE connected = 1 /\ fdset = {clients[0]}
    <3>1. Listed = {clients[0]}
      BY <2>2 DEF Listed
    <3> QED BY <2>2, <3>1, FS_Singleton
  <2> QED BY <2>1, <2>2 DEF SeqInv, ListExact
<1>2. Init => AnswerInv
  BY DEF Init, Listening, AnswerInv
<1> QED BY <1>1, <1>2, InitSequential, NextSequential, NextAnswers, TypesAndWalk, PTL DEF Spec
=============================================================================
