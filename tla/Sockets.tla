------------------------------- MODULE Sockets -------------------------------
(***************************************************************************)
(* The socket registry: one Map from user to socket in the memory of the   *)
(* API process.  A connection overwrites the user's entry, a disconnect    *)
(* deletes it by user whichever socket it belongs to, and notifyUser emits *)
(* to the socket that the Map has, if it has one.  Socket.IO notices only  *)
(* after a ping timeout that a client has gone, so a client that comes     *)
(* back can connect before the disconnect of its old socket is handled.    *)
(***************************************************************************)
EXTENDS WalletDb

CONSTANTS
  Sockets,    \* connections that can be made, numbered in the order they are
  SocketUser, \* the user in the token of each connection's handshake
  NoSocket    \* a user that has no entry in the Map

ASSUME SocketsAssumption ==
  /\ Sockets \subseteq Nat
  /\ SocketUser \in [Sockets -> Merchants]
  /\ NoSocket \notin Sockets

VARIABLES
  link,     \* each connection: new, open, severed (client gone) or closed
  registry, \* connectedUsers
  pushed    \* what was emitted, as <<id of a ledger row, socket>>

connectionVars == <<link, registry>>

\* What a handler that moves money leaves besides the money.
effectVars == <<logVars, pushed>>

SocketsInit ==
  /\ link = [s \in Sockets |-> "new"]
  /\ registry = [m \in Merchants |-> NoSocket]
  /\ pushed = {}

\* The connections the server takes for open.
Live(s) == link[s] \in {"open", "severed"}

-----------------------------------------------------------------------------
Connect(s) ==
  /\ link[s] = "new"
  /\ \A t \in Sockets : t < s => link[t] # "new"
  /\ link' = [link EXCEPT ![s] = "open"]
  /\ registry' = [registry EXCEPT ![SocketUser[s]] = s]

(* The client is gone, and the server has not noticed yet.                 *)
Sever(s) ==
  /\ link[s] = "open"
  /\ link' = [link EXCEPT ![s] = "severed"]
  /\ UNCHANGED registry

\* Mutated form: a socket that was disconnected stays in the Map.
DisconnectOnly(s) ==
  /\ Live(s)
  /\ link' = [link EXCEPT ![s] = "closed"]
  /\ UNCHANGED registry

Disconnect(s) ==
  /\ Live(s)
  /\ link' = [link EXCEPT ![s] = "closed"]
  /\ registry' = [registry EXCEPT ![SocketUser[s]] = NoSocket]

SocketsNext ==
  /\ \E s \in Sockets : Connect(s) \/ Sever(s) \/ Disconnect(s)
  /\ UNCHANGED <<walletVars, cache, effectVars>>

\* The sockets that an event for user m reaches.
Reached(m) == {s \in Sockets : registry[m] = s /\ link[s] = "open"}

\* Mutated form: io.emit, to everybody who is connected.
NotifyAll(m, id) == pushed' = pushed \union ({id} \X {s \in Sockets : link[s] = "open"})

NotifyUser(m, id) == pushed' = pushed \union ({id} \X Reached(m))

LinksCut == [s \in Sockets |-> IF link[s] = "new" THEN "new" ELSE "closed"]
=============================================================================
