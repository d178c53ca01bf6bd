--------------------------- MODULE DeviceConnections ---------------------------
(***************************************************************************)
(* One device between its row in PostgreSQL, its presence in Redis and its *)
(* connections to the instances: the handshake and the serve goroutine of  *)
(* the gateway (backend/internal/adapter/ws), DeviceService                *)
(* (backend/internal/app/device.go) and the presence keys                  *)
(* (backend/internal/adapter/redis/client.go).                             *)
(*                                                                         *)
(* A connection goes through its phases one statement at a time: between   *)
(* the check of the token and the hub, and between the hub and the         *)
(* presence keys, users revoke, delete and rename the device, list their   *)
(* devices, and other connections of the same device come and go.          *)
(***************************************************************************)
CONSTANTS
    Instances,  \* backend instances
    Conns,      \* serve goroutines, each for one connection after the other
    Names,      \* display names of the device
    NoConn,     \* no connection
    NoInstance  \* where nothing runs

ASSUME ConstantsAssumption ==
    /\ NoConn \notin Conns
    /\ NoInstance \notin Instances
    /\ Names # {}

VARIABLES
    row,      \* devices: the name, and what the row says of the credential
    phase,    \* how far each serve goroutine is
    at,       \* the instance it runs on
    held,     \* the name in the row it read for the handshake
    evicts,   \* the connection it replaced in the hub and has still to close
    drained,  \* the connection that the shutdown of an instance took out of the
              \* hub and has still to close
    closed,   \* Conn.closed
    hub,      \* Hub.byDevice of each instance, for the device
    alive,    \* presence:device:<id> exists
    listed,   \* presence:user:<id> contains the device
    listing,  \* the goroutine that lists the user's devices
    revoke    \* the one that revokes or deletes it: its step and instance

presence == <<alive, listed>>
users    == <<listing, revoke>>
connVars == <<phase, at, held, evicts, drained, closed, hub>>
vars == <<row, phase, at, held, evicts, drained, closed, hub, alive, listed,
          listing, revoke>>

\* idle: waits for an AUTH frame; checked: the token is good; accepted: ACK
\* written; registered: in the hub; serving: in readPump; leaving: out of it;
\* left: out of the hub.
Phases == {"idle", "checked", "accepted", "registered", "closing", "serving",
           "leaving", "left"}

\* From Hub.Register to the deferred Unregister.
Joined == {"registered", "closing", "serving", "leaving"}

\* A revoked or deleted row has revoked_at set, whether or not it has expired too.
Withdrawn == {"revoked", "deleted"}
Standings == {"valid", "expired"} \cup Withdrawn

AtRest == [step |-> "rest", at |-> NoInstance]

Goto(c, p) == phase' = [phase EXCEPT ![c] = p]

-----------------------------------------------------------------------------
(***************************************************************************)
(* The handshake.                                                          *)
(***************************************************************************)
\* Device.TokenValid, and ByID reads no deleted row.
Usable == row.standing = "valid"

\* The token is the device's, and the row says it may still be used.  A refused
\* connection gets an ERROR frame and is over: nothing changes.
AuthenticateDevice(c, i) ==
    /\ phase[c] = "idle"
    /\ Usable
    /\ at' = [at EXCEPT ![c] = i]
    /\ held' = [held EXCEPT ![c] = row.name]
    /\ Goto(c, "checked")
    /\ UNCHANGED <<row, evicts, drained, closed, hub, presence, users>>

\* Faulty: every column is written back, with what the row was when it was read.
UpdateEveryColumn(name) ==
    IF row.standing = "deleted" THEN row ELSE [name |-> name, standing |-> "valid"]

\* DeviceStore.Update leaves the credentials alone and deleted rows too.
UpdateRow(name) ==
    IF row.standing = "deleted" THEN row ELSE [row EXCEPT !.name = name]

\* The row is written back with the capabilities the agent reports, if it reports
\* any; a failure is only logged.
UpdateFromHandshake(c) ==
    /\ phase[c] = "checked"
    /\ row' \in {row, UpdateRow(held[c])}
    /\ Goto(c, "accepted")
    /\ UNCHANGED <<at, held, evicts, drained, closed, hub, presence, users>>

-----------------------------------------------------------------------------
(***************************************************************************)
(* The hub and the serve goroutine.                                        *)
(***************************************************************************)
\* Faulty: the connection that is replaced stays open.
RegisterOver(c) ==
    /\ phase[c] = "accepted"
    /\ hub' = [hub EXCEPT ![at[c]] = c]
    /\ Goto(c, "registered")
    /\ UNCHANGED <<row, at, held, evicts, drained, closed, presence, users>>

\* The map is changed under the lock ...
Register(c) ==
    /\ phase[c] = "accepted"
    /\ evicts' = [evicts EXCEPT ![c] = hub[at[c]]]
    /\ hub' = [hub EXCEPT ![at[c]] = c]
    /\ Goto(c, "registered")
    /\ UNCHANGED <<row, at, held, drained, closed, presence, users>>

\* ... and the connection it replaces is closed outside it.
CloseEvicted(c) ==
    /\ phase[c] = "registered"
    /\ closed' = [d \in Conns |-> closed[d] \/ d = evicts[c]]
    /\ evicts' = [evicts EXCEPT ![c] = NoConn]
    /\ Goto(c, "closing")
    /\ UNCHANGED <<row, at, held, drained, hub, presence, users>>

\* The TTL key and the membership of the user's set are written together.
Online  == alive' = TRUE /\ listed' = TRUE
Offline == alive' = FALSE /\ listed' = FALSE

\* onDeviceConnected; a failure is only logged.
MarkOnline(c) ==
    /\ phase[c] = "closing"
    /\ Online \/ UNCHANGED presence
    /\ Goto(c, "serving")
    /\ UNCHANGED <<row, at, held, evicts, drained, closed, hub, users>>

\* Faulty: a heartbeat records last_seen_at only.
TouchRowOnly(c) ==
    /\ phase[c] = "serving"
    /\ Goto(c, IF closed[c] THEN "leaving" ELSE "serving")
    /\ UNCHANGED <<row, at, held, evicts, drained, closed, hub, presence, users>>

\* A PING refreshes the presence.  readPump looks at the closed channel between
\* two frames, so a closed connection still has the frame it waited for handled.
Touch(c) ==
    /\ phase[c] = "serving"
    /\ Online
    /\ Goto(c, IF closed[c] THEN "leaving" ELSE "serving")
    /\ UNCHANGED <<row, at, held, evicts, drained, closed, hub, users>>

\* The socket fails, its peer falls silent, or it closes after the close frame.
Leave(c) ==
    /\ phase[c] = "serving"
    /\ Goto(c, "leaving")
    /\ UNCHANGED <<row, at, held, evicts, drained, closed, hub, presence, users>>

\* writePump fails, or a sender finds the queue full.
CloseSlow(c) ==
    /\ phase[c] \in Joined
    /\ ~closed[c]
    /\ closed' = [closed EXCEPT ![c] = TRUE]
    /\ UNCHANGED <<row, phase, at, held, evicts, drained, hub, presence, users>>

\* Only the connection's own entry is removed.
Unregister(c) ==
    /\ phase[c] = "leaving"
    /\ hub' = [hub EXCEPT ![at[c]] = IF @ = c THEN NoConn ELSE @]
    /\ closed' = [closed EXCEPT ![c] = TRUE]
    /\ Goto(c, "left")
    /\ UNCHANGED <<row, at, held, evicts, drained, presence, users>>

\* Presence is cleared whether or not the device has another connection by now.  What
\* the goroutine serves next is another Conn, which nobody holds yet.
OnDisconnect(c) ==
    /\ phase[c] = "left"
    /\ Offline \/ UNCHANGED presence
    /\ closed' = [closed EXCEPT ![c] = FALSE]
    /\ evicts' = [d \in Conns |-> IF evicts[d] = c THEN NoConn ELSE evicts[d]]
    /\ drained' = [i \in Instances |-> IF drained[i] = c THEN NoConn ELSE drained[i]]
    /\ at' = [at EXCEPT ![c] = NoInstance]
    /\ Goto(c, "idle")
    /\ UNCHANGED <<row, held, hub, users>>

\* Faulty: the map is emptied and nobody closes what was in it.
CloseNobody(i) ==
    /\ hub[i] # NoConn
    /\ hub' = [hub EXCEPT ![i] = NoConn]
    /\ UNCHANGED <<row, phase, at, held, evicts, drained, closed, presence, users>>

\* Shutdown empties the map under the lock ...
CloseAll(i) ==
    /\ hub[i] # NoConn
    /\ drained[i] = NoConn
    /\ drained' = [drained EXCEPT ![i] = hub[i]]
    /\ hub' = [hub EXCEPT ![i] = NoConn]
    /\ UNCHANGED <<row, phase, at, held, evicts, closed, presence, users>>

\* ... and closes what was in it after, while handshakes go on.
CloseDrained(i) ==
    /\ drained[i] # NoConn
    /\ closed' = [closed EXCEPT ![drained[i]] = TRUE]
    /\ drained' = [drained EXCEPT ![i] = NoConn]
    /\ UNCHANGED <<row, phase, at, held, evicts, hub, presence, users>>

\* The process of an instance dies; nobody clears the presence keys.
Crash(i) ==
    LET gone(c) == at[c] = i
    IN  /\ \E c \in Conns : gone(c)
        /\ phase' = [c \in Conns |-> IF gone(c) THEN "idle" ELSE phase[c]]
        /\ at' = [c \in Conns |-> IF gone(c) THEN NoInstance ELSE at[c]]
        /\ evicts' = [c \in Conns |-> IF gone(c) THEN NoConn ELSE evicts[c]]
        /\ closed' = [c \in Conns |-> closed[c] /\ ~gone(c)]
        /\ hub' = [hub EXCEPT ![i] = NoConn]
        /\ drained' = [drained EXCEPT ![i] = NoConn]
        /\ revoke' = IF revoke.at = i THEN AtRest ELSE revoke
        /\ UNCHANGED <<row, held, presence, listing>>

-----------------------------------------------------------------------------
(***************************************************************************)
(* The users' requests, and time.                                          *)
(***************************************************************************)
\* Presence.OnlineForUser has read the set, some time ago, and finds no key for the
\* device ...
FindStaleMember ==
    /\ listing = "rest"
    /\ ~alive
    /\ listing' = "stale"
    /\ UNCHANGED <<row, connVars, presence, revoke>>

\* ... and removes it from the set, although it may be back by now.
PruneMember ==
    /\ listing = "stale"
    /\ listed' = FALSE
    /\ listing' = "rest"
    /\ UNCHANGED <<row, connVars, alive, revoke>>

\* Rename reads the row and writes it back; of what it read only the columns that
\* are left out here matter.
Rename(n) ==
    /\ row.standing # "deleted"
    /\ row' = UpdateRow(n)
    /\ UNCHANGED <<connVars, presence, users>>

\* Revoke or Delete: the row first; a second revocation finds no row to change ...
RevokeRow(i, standing) ==
    /\ revoke.step = "rest"
    /\ row.standing \notin {standing, "deleted"}
    /\ row' = [row EXCEPT !.standing = standing]
    /\ revoke' = [step |-> "close", at |-> i]
    /\ UNCHANGED <<connVars, presence, listing>>

\* ... then the connection, if it is on this instance ...
CloseDevice ==
    /\ revoke.step = "close"
    /\ closed' = [c \in Conns |-> closed[c] \/ c = hub[revoke.at]]
    /\ revoke' = [revoke EXCEPT !.step = "offline"]
    /\ UNCHANGED <<row, phase, at, held, evicts, drained, hub, presence, listing>>

\* ... then presence.
RevokeOffline ==
    /\ revoke.step = "offline"
    /\ Offline \/ UNCHANGED presence
    /\ revoke' = AtRest
    /\ UNCHANGED <<row, connVars, listing>>

\* token_expires_at passes.
TokenExpires ==
    /\ row.standing = "valid"
    /\ row' = [row EXCEPT !.standing = "expired"]
    /\ UNCHANGED <<connVars, presence, users>>

\* The TTL of 2.5 heartbeats passes without a refresh.
Expire ==
    /\ alive
    /\ alive' = FALSE
    /\ UNCHANGED <<row, connVars, listed, users>>

-----------------------------------------------------------------------------
Init ==
    /\ row \in [name: Names, standing: {"valid"}]
    /\ phase = [c \in Conns |-> "idle"]
    /\ at = [c \in Conns |-> NoInstance]
    /\ held = [c \in Conns |-> row.name]
    /\ evicts = [c \in Conns |-> NoConn]
    /\ drained = [i \in Instances |-> NoConn]
    /\ closed = [c \in Conns |-> FALSE]
    /\ hub = [i \in Instances |-> NoConn]
    /\ alive = FALSE
    /\ listed = FALSE
    /\ listing = "rest"
    /\ revoke = AtRest

Open(c) == UpdateFromHandshake(c) \/ Register(c) \/ CloseEvicted(c) \/ MarkOnline(c)
Serve(c) == Touch(c) \/ Leave(c) \/ CloseSlow(c)
End(c)   == Unregister(c) \/ OnDisconnect(c)
Revoking == CloseDevice \/ RevokeOffline
Listing  == FindStaleMember \/ PruneMember

Next ==
    \/ \E c \in Conns, i \in Instances : AuthenticateDevice(c, i)
    \/ \E c \in Conns : Open(c) \/ Serve(c) \/ End(c)
    \/ \E i \in Instances : CloseAll(i) \/ CloseDrained(i) \/ Crash(i)
    \/ Listing
    \/ \E n \in Names : Rename(n)
    \/ \E i \in Instances, standing \in Withdrawn : RevokeRow(i, standing)
    \/ Revoking
    \/ TokenExpires
    \/ Expire

Spec == Init /\ [][Next]_vars

\* The key is not refreshed because nothing serves the device.
ExpireUnserved == (\A c \in Conns : phase[c] # "serving") /\ Expire

(***************************************************************************)
(* Goroutines do not stop in the middle of their work; a closed connection *)
(* ends, at the latest when its peer is silent for HeartbeatTimeout; a     *)
(* connection that stays open is kept so by heartbeats, and Redis answers  *)
(* some of them; keys expire.  Nothing is promised of users, of agents     *)
(* and of the network.                                                     *)
(***************************************************************************)
FairSpec ==
    /\ Spec
    /\ \A c \in Conns :
          /\ WF_vars(Open(c) \/ End(c))
          /\ WF_vars(closed[c] /\ Leave(c))
          /\ WF_vars(Touch(c))
    /\ \A i \in Instances : WF_vars(CloseDrained(i))
    /\ WF_vars(Revoking)
    /\ WF_vars(ExpireUnserved)

-----------------------------------------------------------------------------
(***************************************************************************)
(* Properties.                                                             *)
(***************************************************************************)
\* Type invariant.
TypeOK ==
    /\ row \in [name: Names, standing: Standings]
    /\ phase \in [Conns -> Phases]
    /\ at \in [Conns -> Instances \cup {NoInstance}]
    /\ held \in [Conns -> Names]
    /\ evicts \in [Conns -> Conns \cup {NoConn}]
    /\ drained \in [Instances -> Conns \cup {NoConn}]
    /\ closed \in [Conns -> BOOLEAN]
    /\ hub \in [Instances -> Conns \cup {NoConn}]
    /\ alive \in BOOLEAN
    /\ listed \in BOOLEAN
    /\ listing \in {"rest", "stale"}
    /\ revoke \in {AtRest} \cup [step: {"close", "offline"}, at: Instances]

\* The connection that replaced c, or the shutdown of its instance, has still to
\* close it.
AboutToClose(c) ==
    \/ \E d \in Conns : evicts[d] = c
    \/ \E i \in Instances : drained[i] = c

\* Every connection the hub knows is between Register and Unregister on that
\* instance; one that it does not know is closed or about to be.
Accounted ==
    /\ \A i \in Instances :
          hub[i] # NoConn => phase[hub[i]] \in Joined /\ at[hub[i]] = i
    /\ \A c \in Conns :
          /\ phase[c] \in Joined /\ hub[at[c]] # c => closed[c] \/ AboutToClose(c)
          /\ evicts[c] # NoConn => phase[c] = "registered"

\* A goroutine that serves a connection runs on an instance; only a connection that
\* was in the hub can be closed or be about to be; and what is about to be closed is
\* on the instance of the connection that replaced it or that shuts down.
Placed ==
    /\ \A c \in Conns :
          /\ (phase[c] = "idle") = (at[c] = NoInstance)
          /\ closed[c] => phase[c] \in Joined \cup {"left"}
          /\ evicts[c] # NoConn =>
                phase[evicts[c]] \in Joined \cup {"left"} /\ at[evicts[c]] = at[c]
    /\ \A i \in Instances : drained[i] # NoConn =>
          phase[drained[i]] \in Joined \cup {"left"} /\ at[drained[i]] = i

\* However connections of the device come and go, at most one of them on an
\* instance is open, apart from one that its replacement or the shutdown is about to
\* close.
OneServing ==
    \A c, d \in Conns :
        /\ c # d /\ at[c] = at[d]
        /\ phase[c] \in Joined /\ phase[d] \in Joined
        /\ ~closed[c] /\ ~closed[d]
        => AboutToClose(c) \/ AboutToClose(d)

IInv == TypeOK /\ Accounted /\ Placed /\ OneServing

\* The device cannot come back: it may not authenticate, and no connection is past
\* the check.
ShutOut == ~Usable /\ \A c \in Conns : phase[c] = "idle"

\* No request or handshake that read the row before a revocation writes the
\* credential back, and a device that is shut out stays out.
RevocationHolds ==
    [][/\ row.standing \in Withdrawn => row'.standing \in Withdrawn
       /\ ShutOut => ShutOut']_vars

\* The connection that the hub no longer knows, replaced or shut down, ends; its
\* agent's heartbeats do not keep it.
OrphansEnd ==
    \A c \in Conns : (phase[c] = "serving" /\ hub[at[c]] # c) ~> phase[c] # "serving"

Shown == alive /\ listed

\* Presence is repaired: as long as some connection serves the device it is shown as
\* online again and again, whatever a late disconnect or a listing removed; and once
\* no connection is left it ends up offline.
PresenceConverges ==
    /\ \A c \in Conns : <>[](phase[c] = "serving") => []<>Shown
    /\ (<>[](\A c \in Conns : phase[c] = "idle")) => <>[](~alive)

(***************************************************************************)
(* What the documentation says and the code does not do.                   *)
(***************************************************************************)
\* app/device.go:208 "Revoke invalidates a device's credentials and disconnects it."
RevokedIsDisconnected ==
    [](row.standing \in Withdrawn => <>(\A c \in Conns : phase[c] = "idle"))

\* app/device.go:298 "UpdateFromHandshake records what the AUTH frame reported about
\* the device.": the name is not among it, only a rename changes the name.
OnlyRenameRenames == [][row'.name # row.name => \E n \in Names : Rename(n)]_vars

=============================================================================
