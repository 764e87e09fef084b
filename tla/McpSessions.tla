----------------------------- MODULE McpSessions -----------------------------
(***************************************************************************)
(* MCPSessionRegistry of belief/mcp/session.py under a dispatcher that     *)
(* several callers share (BeliefMCPServer.handle of belief/mcp/server.py): *)
(* requests that resolve a session and go on to use its tools, while       *)
(* sessions and the dispatcher are closed.  A tools instance is known by   *)
(* the request that made the registry build it.                            *)
(***************************************************************************)
EXTENDS FiniteSets, Naturals

CONSTANTS
  Requests,     \* calls of BeliefMCPServer.handle
  Closers,      \* calls of close_session
  Sessions,     \* normalized session ids
  Default,      \* DEFAULT_SESSION_ID
  MaxSessions,  \* max_sessions
  Boot,         \* the instance that the constructor builds for Default
  Server,       \* the call of BeliefMCPServer.close
  None

Instances == Requests \cup {Boot}
Kinds == {"scan", "validate", "read"}

ASSUME SessionsAssumption ==
  /\ Default \in Sessions
  /\ MaxSessions \in Nat \ {0}
  /\ IsFiniteSet(Sessions)
  /\ Boot \notin Requests
  /\ Server \notin Closers \cup Requests /\ Requests \cap Closers = {}
  /\ None \notin Requests \cup {Boot} \cup Sessions

VARIABLES
  closed,    \* the dispatcher is in state CLOSED
  registry,  \* registry[s]: the instance of session s
  runs,      \* runs[i]: the requests whose runs instance i retains
  busy,      \* the request that holds the shared validation semaphore
  pc,        \* where a request or a closer is
  session, kind,  \* session[r], kind[r]: what a request is about
  tools,     \* tools[r]: the instance that request r resolved
  clearing,  \* clearing[c]: the instances that closer c has still to clear
  seen,      \* history: seen[r], the runs that request r read
  gone,      \* history: instances that the registry has let go
  late       \* history: requests that were about to publish when what they use was closed

vars == <<closed, registry, runs, busy, pc, session, kind, tools, clearing, seen, gone,
          late>>

held == <<registry, runs, busy>>      \* what requests and closers share
about == <<session, kind, tools, seen>>
dropped == <<gone, late>>

Calls == Requests \cup Closers \cup {Server}

Open == {s \in Sessions : registry[s] # None}

Init ==
  /\ closed = FALSE
  /\ registry = [s \in Sessions |-> IF s = Default THEN Boot ELSE None]
  /\ runs = [i \in Instances |-> {}]
  /\ busy = None
  /\ pc = [c \in Calls |-> "idle"]
  /\ session = [r \in Requests |-> Default]
  /\ kind = [r \in Requests |-> "read"]
  /\ tools = [r \in Requests |-> None]
  /\ clearing = [c \in Closers \cup {Server} |-> {}]
  /\ seen = [r \in Requests |-> {}]
  /\ gone = {} /\ late = {}

Goto(c, place) == pc' = [pc EXCEPT ![c] = place]

-----------------------------------------------------------------------------
(* Requests.                                                               *)

\* _request_lifecycle_error has read the state; the session comes later
Handle(r, s, k) ==
  /\ pc[r] = "idle"
  /\ ~closed
  /\ session' = [session EXCEPT ![r] = s]
  /\ kind' = [kind EXCEPT ![r] = k]
  /\ Goto(r, "resolve")
  /\ UNCHANGED <<closed, held, tools, clearing, seen, dropped>>

HandleClosed(r) ==
  /\ pc[r] = "idle"
  /\ closed
  /\ Goto(r, "done")
  /\ UNCHANGED <<closed, held, about, clearing, dropped>>

Resolved(r, i) ==
  /\ tools' = [tools EXCEPT ![r] = i]
  /\ Goto(r, kind[r])
  /\ UNCHANGED <<closed, runs, busy, session, kind, clearing, seen, dropped>>

ResolveExisting(r) ==
  /\ pc[r] = "resolve"
  /\ registry[session[r]] # None
  /\ Resolved(r, registry[session[r]])
  /\ UNCHANGED registry

\* mutant: the default session is shared instead of building another
ResolveShared(r) ==
  /\ pc[r] = "resolve"
  /\ registry[session[r]] = None
  /\ Resolved(r, registry[Default])
  /\ UNCHANGED registry

ResolveNew(r) ==
  /\ pc[r] = "resolve"
  /\ registry[session[r]] = None
  /\ Cardinality(Open) < MaxSessions
  /\ registry' = [registry EXCEPT ![session[r]] = r]
  /\ Resolved(r, r)

ResolveRefused(r) ==
  /\ pc[r] = "resolve"
  /\ registry[session[r]] = None
  /\ Cardinality(Open) >= MaxSessions
  /\ Goto(r, "done")
  /\ UNCHANGED <<closed, held, about, clearing, dropped>>

\* the factory raises: nothing is registered
BuildFails(r) ==
  /\ pc[r] = "resolve"
  /\ registry[session[r]] = None
  /\ Cardinality(Open) < MaxSessions
  /\ Goto(r, "done")
  /\ UNCHANGED <<closed, held, about, clearing, dropped>>

\* a tool of the session publishes a run in the instance it was given
Publish(r) ==
  /\ pc[r] \in {"scan", "publish"}
  /\ runs' = [runs EXCEPT ![tools[r]] = @ \cup {r}]
  /\ Goto(r, IF pc[r] = "scan" THEN "done" ELSE "release")
  /\ UNCHANGED <<closed, registry, busy, about, clearing, dropped>>

Read(r) ==
  /\ pc[r] = "read"
  /\ seen' = [seen EXCEPT ![r] = runs[tools[r]]]
  /\ Goto(r, "done")
  /\ UNCHANGED <<closed, held, session, kind, tools, clearing, dropped>>

\* mutant: each session has a semaphore of its own
ValidateOwn(r) ==
  /\ pc[r] = "validate"
  /\ \A q \in Requests : tools[q] = tools[r] => pc[q] \notin {"publish", "release"}
  /\ busy' = r
  /\ Goto(r, "publish")
  /\ UNCHANGED <<closed, registry, runs, about, clearing, dropped>>

Validate(r) ==
  /\ pc[r] = "validate"
  /\ busy = None
  /\ busy' = r
  /\ Goto(r, "publish")
  /\ UNCHANGED <<closed, registry, runs, about, clearing, dropped>>

ValidateBusy(r) ==
  /\ pc[r] = "validate"
  /\ busy # None
  /\ Goto(r, "done")
  /\ UNCHANGED <<closed, held, about, clearing, dropped>>

\* the validation raises, or is cancelled: nothing is published
ValidateFails(r) ==
  /\ pc[r] = "publish"
  /\ Goto(r, "release")
  /\ UNCHANGED <<closed, held, about, clearing, dropped>>

ReleaseCapacity(r) ==
  /\ pc[r] = "release"
  /\ busy' = None
  /\ Goto(r, "done")
  /\ UNCHANGED <<closed, registry, runs, about, clearing, dropped>>

-----------------------------------------------------------------------------
(* close_session and BeliefMCPServer.close.                                *)

\* the default session is cleared under the lock, and stays
CloseDefault(c) ==
  /\ pc[c] = "idle"
  /\ runs' = [runs EXCEPT ![registry[Default]] = {}]
  /\ Goto(c, "done")
  /\ UNCHANGED <<closed, registry, busy, about, clearing, dropped>>

\* under way, with its run still to come
Ahead == {r \in Requests : pc[r] \in {"resolve", "scan", "validate", "publish"}}

LetGo(s) ==
  /\ registry' = [registry EXCEPT ![s] = None]
  /\ gone' = gone \cup {registry[s]}
  /\ late' = late \cup {r \in Ahead : tools[r] = registry[s]}

\* the registry forgets the session now; its instance is cleared after the unlock
Pop(c, s) ==
  /\ pc[c] = "idle"
  /\ s # Default
  /\ registry[s] # None
  /\ LetGo(s)
  /\ clearing' = [clearing EXCEPT ![c] = {registry[s]}]
  /\ Goto(c, "clear")
  /\ UNCHANGED <<closed, runs, busy, about>>

PopNothing(c) ==
  /\ pc[c] = "idle"
  /\ \E s \in Sessions \ {Default} : registry[s] = None
  /\ Goto(c, "done")
  /\ UNCHANGED <<closed, held, about, clearing, dropped>>

Clear(c, i) ==
  /\ pc[c] = "clear"
  /\ i \in clearing[c]
  /\ runs' = [runs EXCEPT ![i] = {}]
  /\ clearing' = [clearing EXCEPT ![c] = @ \ {i}]
  /\ UNCHANGED <<closed, registry, busy, pc, about, dropped>>

Cleared(c) ==
  /\ pc[c] = "clear"
  /\ clearing[c] = {}
  /\ Goto(c, "done")
  /\ UNCHANGED <<closed, held, about, clearing, dropped>>

\* mutant: the dispatcher goes on serving
CloseServing ==
  /\ pc[Server] = "idle"
  /\ Goto(Server, "close_all")
  /\ UNCHANGED <<closed, held, about, clearing, dropped>>

\* the stdio runtime has waited for its requests before; another transport need not
CloseServer ==
  /\ pc[Server] = "idle"
  /\ closed' = TRUE
  /\ Goto(Server, "close_all")
  /\ UNCHANGED <<held, about, clearing, dropped>>

CloseAll ==
  /\ pc[Server] = "close_all"
  /\ clearing' = [clearing EXCEPT ![Server] = {registry[s] : s \in Open}]
  /\ registry' = [s \in Sessions |-> IF s = Default THEN registry[s] ELSE None]
  /\ gone' = gone \cup {registry[s] : s \in Open \ {Default}}
  /\ late' = late \cup Ahead
  /\ Goto(Server, "clear")
  /\ UNCHANGED <<closed, runs, busy, about>>

-----------------------------------------------------------------------------

Request(r) ==
  \/ \E s \in Sessions, k \in Kinds : Handle(r, s, k)
  \/ HandleClosed(r)
  \/ ResolveExisting(r) \/ ResolveNew(r) \/ ResolveRefused(r) \/ BuildFails(r)
  \/ Publish(r) \/ Read(r)
  \/ Validate(r) \/ ValidateBusy(r) \/ ValidateFails(r) \/ ReleaseCapacity(r)

Close(c) ==
  \/ CloseDefault(c)
  \/ \E s \in Sessions : Pop(c, s)
  \/ PopNothing(c)

Next ==
  \/ \E r \in Requests : Request(r)
  \/ \E c \in Closers : Close(c)
  \/ \E c \in Closers \cup {Server} : Cleared(c) \/ \E i \in Instances : Clear(c, i)
  \/ CloseServer
  \/ CloseAll

Spec == Init /\ [][Next]_vars

-----------------------------------------------------------------------------
(* Properties.                                                             *)

Places == {"idle", "resolve", "scan", "validate", "read", "publish", "release",
           "clear", "close_all", "done"}

\* Every variable has its type.
TypeOK ==
  /\ closed \in BOOLEAN
  /\ registry \in [Sessions -> Instances \cup {None}]
  /\ registry[Default] = Boot
  /\ runs \in [Instances -> SUBSET Requests]
  /\ busy \in Requests \cup {None}
  /\ pc \in [Calls -> Places]
  /\ session \in [Requests -> Sessions]
  /\ kind \in [Requests -> Kinds]
  /\ tools \in [Requests -> Instances \cup {None}]
  /\ clearing \in [Closers \cup {Server} -> SUBSET Instances]
  /\ seen \in [Requests -> SUBSET Requests]
  /\ gone \subseteq Instances /\ late \subseteq Requests

\* "A cross-session read cannot succeed": nobody reads, or will find in the instance it
\* holds, a run of another session, whatever is closed and opened again in between.
Isolation ==
  \A r \in Requests :
    \A q \in seen[r] \cup (IF tools[r] = None THEN {} ELSE runs[tools[r]]) :
      session[q] = session[r]

\* resolve creates an instance once: two requests of one session work on different
\* instances only when the registry has let one of them go.
OneStorePerSession ==
  \A r, q \in Requests :
    tools[r] # None /\ tools[q] # None /\ session[r] = session[q] =>
      tools[r] = tools[q] \/ tools[r] \in gone \/ tools[q] \in gone

\* "Closing a session drops its retained state": no session gets an instance back that
\* has been dropped, whose runs may be cleared late and published into once more.
DroppedForGood == \A s \in Sessions : registry[s] \notin gone

\* "Exceeding the session bound is refused".
WithinCapacity == Cardinality(Open) <= MaxSessions

\* "One concurrent local validation remains true for the process": also between an
\* instance that has been dropped and the one that took its place.
OneValidation ==
  \A r, q \in Requests :
    /\ kind[r] = "validate" /\ pc[r] \in {"publish", "release"}
    /\ kind[q] = "validate" /\ pc[q] \in {"publish", "release"}
    => r = q

\* "Closing a session drops its retained state", "Server shutdown clears every session":
\* once it is cleared, an instance that was let go, or any instance after close_all, holds
\* no runs but those of requests that were already under way, and had not published yet,
\* when it was closed.  Those the code lets in, and no other.
RetainedIsLate ==
  \A i \in Instances :
    /\ i \in gone \/ pc[Server] \in {"clear", "done"}
    /\ \A c \in Closers \cup {Server} : i \notin clearing[c]
    => runs[i] \subseteq late

=============================================================================
