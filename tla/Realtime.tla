------------------------------ MODULE Realtime ------------------------------
(***************************************************************************)
(* RealtimeGateway (src/src/core/realtime/realtime.module.ts) with its      *)
(* InspectorState: sockets connect, are authenticated across two awaits,    *)
(* one of them a call of PermissionService.abilityFor(), join rooms with    *)
(* the ability they were given, and disconnect at any moment.  Broadcasts    *)
(* come from the outbox dispatcher and from LISTEN/NOTIFY.                   *)
(***************************************************************************)
EXTENDS PermissionCache

CONSTANTS
  Sockets,    \* connections; each authenticates with one call
  Channels,   \* three-part channel names, the rooms a client can name
  RightOf     \* what canSubscribeToChannel() asks of the ability

ASSUME RealtimeAssumption ==
  /\ Sockets \subseteq Calls
  /\ RightOf \in [Channels -> Rights]

VARIABLES
  link,       \* the transport, as Socket.IO knows it
  auth,       \* how far authenticateConnection() is
  registry,   \* liveSockets and InspectorState.sockets, always changed together
  rooms,      \* Socket.IO's rooms of a socket
  listed,     \* the channels InspectorState lists for a socket
  hungUp      \* history: disconnected before it was accepted

socketVars == <<link, auth, registry, rooms, listed, hungUp>>

\* Type invariant of the sockets and their registry.
SocketTypeOK ==
  /\ link \in [Sockets -> {"new", "up", "down"}]
  /\ auth \in [Sockets -> {"none", "session", "ability", "accepted", "refused"}]
  /\ registry \subseteq Sockets
  /\ rooms \in [Sockets -> SUBSET Channels]
  /\ listed \in [Sockets -> SUBSET Channels]
  /\ hungUp \in [Sockets -> BOOLEAN]

SocketInit ==
  /\ link = [s \in Sockets |-> "new"]
  /\ auth = [s \in Sockets |-> "none"]
  /\ registry = {}
  /\ rooms = [s \in Sockets |-> {}]
  /\ listed = [s \in Sockets |-> {}]
  /\ hungUp = [s \in Sockets |-> FALSE]

-----------------------------------------------------------------------------
\* Variant of Drop: handleDisconnect() forgets to tell the inspector.
DropUnnoticed(s) ==
  /\ link' = [link EXCEPT ![s] = "down"]
  /\ rooms' = [rooms EXCEPT ![s] = {}]
  /\ UNCHANGED <<registry, listed>>

\* Socket.IO closes the connection: it leaves all rooms and handleDisconnect()
\* forgets the socket and removes its listeners.
Drop(s) ==
  /\ link' = [link EXCEPT ![s] = "down"]
  /\ rooms' = [rooms EXCEPT ![s] = {}]
  /\ registry' = registry \ {s}
  /\ listed' = [listed EXCEPT ![s] = {}]

\* handleConnection(): authentication starts and nobody waits for it.
Connect(s) ==
  /\ link[s] = "new"
  /\ link' = [link EXCEPT ![s] = "up"]
  /\ auth' = [auth EXCEPT ![s] = "session"]
  /\ UNCHANGED <<registry, rooms, listed, hungUp, cacheVars>>

\* getSession() found the user; abilityFor() is called next.
SessionFound(s) ==
  /\ auth[s] = "session"
  /\ auth' = [auth EXCEPT ![s] = "ability"]
  /\ UNCHANGED <<link, registry, rooms, listed, hungUp, cacheVars>>

\* getSession() found nobody or threw: client.disconnect(true).
SessionRefused(s) ==
  /\ auth[s] = "session"
  /\ auth' = [auth EXCEPT ![s] = "refused"]
  /\ IF link[s] = "up"
     THEN Drop(s)
     ELSE UNCHANGED <<link, rooms, registry, listed>>
  /\ UNCHANGED <<hungUp, cacheVars>>

\* acceptConnection(), whatever became of the connection meanwhile.  The answer
\* of abilityFor() stays the socket's (client.data.ability) for its lifetime: its
\* call never returns to idle and got[s] is what it may do.
Accept(s) ==
  /\ auth[s] = "ability"
  /\ pc[s] = "done"
  /\ auth' = [auth EXCEPT ![s] = "accepted"]
  /\ registry' = registry \cup {s}
  /\ listed' = [listed EXCEPT ![s] = {}]
  /\ UNCHANGED <<link, rooms, hungUp, cacheVars>>

\* The "subscribe" listener: join() and recordSubscribe() if the ability allows.
Subscribe(s, ch) ==
  /\ link[s] = "up"
  /\ auth[s] = "accepted"
  /\ RightOf[ch] \in got[s]
  /\ rooms' = [rooms EXCEPT ![s] = @ \cup {ch}]
  /\ listed' = [listed EXCEPT ![s] = IF s \in registry THEN @ \cup {ch} ELSE @]
  /\ UNCHANGED <<link, auth, registry, hungUp, cacheVars>>

\* The "unsubscribe" listener: leave() and recordUnsubscribe().
Unsubscribe(s, ch) ==
  /\ link[s] = "up"
  /\ auth[s] = "accepted"
  /\ rooms' = [rooms EXCEPT ![s] = @ \ {ch}]
  /\ listed' = [listed EXCEPT ![s] = @ \ {ch}]
  /\ UNCHANGED <<link, auth, registry, hungUp, cacheVars>>

\* The client goes away, in whatever state its authentication is.
HangUp(s) ==
  /\ link[s] = "up"
  /\ Drop(s)
  /\ hungUp' = [hungUp EXCEPT ![s] = auth[s] # "accepted"]
  /\ UNCHANGED <<auth, cacheVars>>

\* disconnectSocket(): the administrator closes a socket the inspector lists;
\* one that is already down is only forgotten.
AdminDisconnect(s) ==
  /\ s \in registry
  /\ Drop(s)
  /\ UNCHANGED <<auth, hungUp, cacheVars>>

\* Whom broadcast() reaches, and the recipientCount recordEvent() notes.
Recipients(ch) == {s \in Sockets : ch \in rooms[s]}
Subscribers(ch) == {s \in registry : ch \in listed[s]}

\* A socket's authentication, the part that is the gateway's own.
Authenticate(s) == SessionFound(s) \/ SessionRefused(s) \/ Accept(s)

Converse(s) ==
  \/ Connect(s)
  \/ HangUp(s)
  \/ AdminDisconnect(s)
  \/ \E ch \in Channels : Subscribe(s, ch) \/ Unsubscribe(s, ch)

-----------------------------------------------------------------------------
(***************************************************************************)
(* What the inspector shows and hasSocket() answers is what is connected:   *)
(* accepted sockets that are up are registered, and a registered socket is  *)
(* up, but for one case: acceptConnection() also registers a socket that    *)
(* went away during authenticateConnection(), and only an administrator     *)
(* removes that one.                                                        *)
(***************************************************************************)
RegistryIsLive ==
  \A s \in Sockets :
    /\ s \in registry => link[s] = "up" \/ hungUp[s]
    /\ link[s] = "up" /\ auth[s] = "accepted" => s \in registry

(***************************************************************************)
(* The recipientCount that broadcast() records is the number of sockets     *)
(* Socket.IO delivers to: InspectorState's list of subscribers is the room. *)
(***************************************************************************)
CountsAreTrue == \A ch \in Channels : Subscribers(ch) = Recipients(ch)
=============================================================================
