---------------------------- MODULE McpSessions ----------------------------
(***************************************************************************)
(* Stateful MCP sessions: the map from session ids to transports that the  *)
(* POST and DELETE routes of /mcp share.  The event loop runs a route from *)
(* one await to the next without interruption, and that is a step.         *)
(*                                                                         *)
(* Stateless requests, which get a transport of their own, are left out;   *)
(* the SDK's transport is known by what the routes ask of it.              *)
(***************************************************************************)
EXTENDS Integers

CONSTANTS
    Ids,           \* session ids
    MaxPending     \* bound: requests of one session that are being answered

ASSUME MaxPendingAssumption == MaxPending \in Nat

VARIABLES
    sessions,      \* McpSessionStore.sessions: the ids in the map
    transport,     \* id -> none, connecting, open, closing, closed
    pending        \* id -> requests handed to the transport, not yet answered

sessionsVars == <<sessions, transport, pending>>

(* initialize without a session id: createStateful, then the await of        *)
(* connectSession,                                                           *)
Initialize(id) ==
    /\ transport[id] = "none"
    /\ transport' = [transport EXCEPT ![id] = "connecting"]
    /\ UNCHANGED <<sessions, pending>>

(* then the request itself, on which the transport mints the id.             *)
SessionInitialized(id) ==
    /\ transport[id] = "connecting"
    /\ transport' = [transport EXCEPT ![id] = "open"]
    /\ sessions' = sessions \cup {id}
    /\ UNCHANGED pending

(* handlePost with a session id: found in the map and handed over at once;   *)
(* otherwise 404.                                                            *)
HandlePost(id) ==
    /\ id \in sessions
    /\ pending[id] < MaxPending
    /\ pending' = [pending EXCEPT ![id] = @ + 1]
    /\ UNCHANGED <<sessions, transport>>

Answer(id) ==
    /\ pending[id] > 0
    /\ pending' = [pending EXCEPT ![id] = @ - 1]
    /\ UNCHANGED <<sessions, transport>>

(* McpSessionStore.delete up to its await: the entry goes, the transport and *)
(* the server begin to close,                                                *)
Unlisted_Later(id) == sessions    \* mutant: the entry goes when they have closed
Unlisted(id) == sessions \ {id}
DeleteBegin(id) ==
    /\ id \in sessions
    /\ sessions' = Unlisted(id)
    /\ transport' = [transport EXCEPT ![id] = "closing"]
    /\ UNCHANGED pending

(* and after it.  Requests in hand are cut off. *)
DeleteEnd(id) ==
    /\ transport[id] = "closing"
    /\ transport' = [transport EXCEPT ![id] = "closed"]
    /\ sessions' = sessions \ {id}
    /\ pending' = [pending EXCEPT ![id] = 0]

SessionsInit ==
    /\ sessions = {}
    /\ transport = [id \in Ids |-> "none"]
    /\ pending = [id \in Ids |-> 0]

SessionsNext ==
    \E id \in Ids : \/ Initialize(id) \/ SessionInitialized(id)
                    \/ HandlePost(id) \/ Answer(id)
                    \/ DeleteBegin(id) \/ DeleteEnd(id)

SessionsSpec == SessionsInit /\ [][SessionsNext]_sessionsVars

-----------------------------------------------------------------------------
(* "Delete first so a concurrent request cannot reuse a closing session":    *)
(* no request is handed to a transport that has begun to close.              *)
ClosingIsFinal ==
    [][\A id \in Ids : pending'[id] > pending[id] => transport[id] = "open"]_sessionsVars
=============================================================================
