----------------------------- MODULE Lifecycle -----------------------------
(***************************************************************************)
(* What the rmw functions of one process create and destroy: C++ objects,  *)
(* blocks of malloc, and the callbacks on those objects that the ndn-cxx   *)
(* scheduler, the ndn::Face and DiscoveryClient hold.                      *)
(*                                                                         *)
(* The destructors of Publisher and Subscriber are those the compiler      *)
(* writes.  They destroy the members, and the destructor of the heartbeat  *)
(* cancels its event; nothing takes back what the face and the discovery   *)
(* client hold.  A callback run on a destroyed object, and a free of what  *)
(* is not allocated, have no meaning in C++: the program is then `broken', *)
(* and nothing more is said of it.                                         *)
(*                                                                         *)
(* The caller is legal: it destroys what it was given, once.               *)
(***************************************************************************)
EXTENDS Integers, FiniteSets

CONSTANTS
  Nodes, Pubs, Subs,        \* what the caller may create, each once
  Guards, WaitSets,         \*   (a deleted one is not created again)
  Clients,
  Ids,                      \* publisher identifiers heard by discovery
  MaxGraphGuards,           \* bound: calls of
                            \*   rmw_node_get_graph_guard_condition per node
  MaxBuffers                \* bound: the messages of a publisher

Handles == Nodes \cup Pubs \cup Subs \cup Guards \cup WaitSets \cup Clients

Emitters == Nodes \cup Pubs \cup Subs

ASSUME LifecycleAssumption ==
  /\ MaxGraphGuards \in Nat
  /\ MaxBuffers \in Nat
  /\ Ids \subseteq Nat
  /\ Nodes \cap (Pubs \cup Subs) = {} /\ Pubs \cap Subs = {}
  /\ Clients \cap (Guards \cup WaitSets) = {} /\ Guards \cap WaitSets = {}
  /\ Emitters \cap (Guards \cup WaitSets \cup Clients) = {}

VARIABLES
  used,         \* the creations asked for, those that failed included
  open,         \* the handles the caller has and did not destroy
  deleted,      \* the handles the caller destroyed
  objects,      \* the C++ objects that exist, named after their handle
  heap,         \* the blocks of malloc: a kind and the handle it belongs to
  events,       \* the scheduler: an emitter and a number for every event
  evt,          \* _evt of each emitter
  held,         \* what the face and _pubs_cb will call: an object, the kind
                \*   of the callback, and the publisher it is about
  discovery,    \* DiscoveryClient::instance() has been built
  discovered,   \* _discovered_publishers of the topic
  broken        \* "no", "callback" or "free"

lifeVars ==
  <<used, open, deleted, objects, heap, events, evt, held, discovery,
    discovered, broken>>

Block(kind, x) == <<kind, x, 0>>

NoId == -1

Held(o, kind) == <<o, kind, NoId>>

\* What the caller can reach from a handle.
NodeParts == {"node", "name", "namespace"}

BlocksOf(x) ==
  CASE x \in Nodes -> {Block(kind, x) : kind \in NodeParts}
    [] x \in Clients -> {}          \* the static variable of rmw_create_client
    [] OTHER -> {Block("handle", x)}

LifeInit ==
  /\ used = {}
  /\ open = {}
  /\ deleted = {}
  /\ objects = {}
  /\ heap = {}
  /\ events = {}
  /\ evt = [o \in Emitters |-> 0]
  /\ held = {}
  /\ discovery = FALSE
  /\ discovered = {}
  /\ broken = "no"

-----------------------------------------------------------------------------
(* The heartbeat. *)

\* A number for a new event that no pending event of the emitter has.
NewEvent(o, pending) ==
  CHOOSE k \in 0..Cardinality(pending) : <<o, k>> \notin pending

\* heartbeat: the next event is scheduled and remembered in _evt.
Schedule(o, pending) ==
  LET k == NewEvent(o, pending)
  IN  /\ events' = pending \cup {<<o, k>>}
      /\ evt' = [evt EXCEPT ![o] = k]

\* Mutant of Cancel: the destructor leaves the event.
CancelNone(o) == UNCHANGED <<events, evt>>

\* The destructor of DiscoveryHeartbeatEmiter.
Cancel(o) ==
  /\ events' = events \ {<<o, evt[o]>>}
  /\ UNCHANGED evt

RunHeartbeat(e) ==
  /\ e \in events
  /\ IF e[1] \in objects
       THEN Schedule(e[1], events \ {e}) /\ UNCHANGED broken
       ELSE broken' = "callback" /\ UNCHANGED <<events, evt>>
  /\ UNCHANGED <<used, open, deleted, objects, heap, held, discovery, discovered>>

-----------------------------------------------------------------------------
(* Creation. *)

New(x) == x \notin used /\ used' = used \cup {x}

\* rmw_create_node, and the DiscoveryClient on its first use.
CreateNode(n) ==
  /\ New(n)
  /\ open' = open \cup {n}
  /\ objects' = objects \cup {n}
  /\ heap' = heap \cup BlocksOf(n)
  /\ Schedule(n, events)
  /\ discovery' = TRUE
  /\ UNCHANGED <<deleted, held, discovered, broken>>

\* rmw_create_publisher: the constructor sends the probe.
CreatePublisher(p) ==
  /\ New(p)
  /\ open' = open \cup {p}
  /\ objects' = objects \cup {p}
  /\ heap' = heap \cup BlocksOf(p)
  /\ Schedule(p, events)
  /\ held' = held \cup {Held(p, "probe")}
  /\ UNCHANGED <<deleted, discovery, discovered, broken>>

\* rmw_create_subscription: a request to every publisher known, and the callback
\* for those to come.
CreateSubscription(s) ==
  /\ New(s)
  /\ open' = open \cup {s}
  /\ objects' = objects \cup {s}
  /\ heap' = heap \cup BlocksOf(s)
  /\ Schedule(s, events)
  /\ discovery' = TRUE
  /\ held' = held \cup {Held(s, "discovery")} \cup {<<s, "sync", i>> : i \in discovered}
  /\ UNCHANGED <<deleted, discovered, broken>>

\* rmw_create_publisher and rmw_create_subscription for a type support of another
\* implementation: the handle is allocated, and NULL is returned.
CreateForeign(x) ==
  /\ x \in Pubs \cup Subs
  /\ New(x)
  /\ heap' = heap \cup BlocksOf(x)
  /\ UNCHANGED <<open, deleted, objects, events, evt, held, discovery, discovered,
                 broken>>

\* rmw_create_guard_condition, rmw_create_wait_set and rmw_create_client
CreatePlain(x) ==
  /\ x \in Guards \cup WaitSets \cup Clients
  /\ New(x)
  /\ open' = open \cup {x}
  /\ heap' = heap \cup BlocksOf(x)
  /\ UNCHANGED <<deleted, objects, events, evt, held, discovery, discovered, broken>>

\* rmw_node_get_graph_guard_condition: a new one at every call, which nothing
\* frees.
GetGraphGuardCondition(n) ==
  /\ n \in open
  /\ \E k \in 1..MaxGraphGuards :
       /\ <<"graph guard", n, k>> \notin heap
       /\ heap' = heap \cup {<<"graph guard", n, k>>}
  /\ UNCHANGED <<used, open, deleted, objects, events, evt, held, discovery,
                 discovered, broken>>

\* rmw_publish: the buffer of push, whose content the packet copies, is freed by
\* nothing but the realloc to 0 bytes of a message of which no field was written.
Publish(p) ==
  /\ p \in open
  /\ \/ UNCHANGED heap
     \/ \E k \in 1..MaxBuffers :
          /\ <<"buffer", p, k>> \notin heap
          /\ heap' = heap \cup {<<"buffer", p, k>>}
  /\ UNCHANGED <<used, open, deleted, objects, events, evt, held, discovery,
                 discovered, broken>>

-----------------------------------------------------------------------------
(* Destruction. *)

\* The legal caller forgets a handle it destroys.
Destroy(x) ==
  /\ x \in open
  /\ open' = open \ {x}
  /\ deleted' = deleted \cup {x}

Free(b) ==
  /\ heap' = heap \ {b}
  /\ broken' = IF b \in heap THEN broken ELSE "free"

\* rmw_destroy_node: only the rmw_node_t is freed.
DestroyNode(n) ==
  /\ Destroy(n)
  /\ Free(Block("node", n))
  /\ UNCHANGED <<used, objects, events, evt, held, discovery, discovered>>

\* Mutant of DestroyEndpoint: what is held for the object is taken back.
DestroyEndpointClean(x) ==
  /\ Destroy(x)
  /\ objects' = objects \ {x}
  /\ Cancel(x)
  /\ Free(Block("handle", x))
  /\ held' = {c \in held : c[1] # x}
  /\ UNCHANGED <<used, discovery, discovered>>

\* rmw_destroy_publisher and rmw_destroy_subscription: delete, then free.
DestroyEndpoint(x) ==
  /\ Destroy(x)
  /\ objects' = objects \ {x}
  /\ Cancel(x)
  /\ Free(Block("handle", x))
  /\ UNCHANGED <<used, held, discovery, discovered>>

\* Mutant of DestroyPlain: a client is freed like the others.
DestroyPlainFrees(x) ==
  /\ Destroy(x)
  /\ Free(Block("handle", x))
  /\ UNCHANGED <<used, objects, events, evt, held, discovery, discovered>>

\* rmw_destroy_guard_condition and rmw_destroy_wait_set free; rmw_destroy_client
\* does nothing.
DestroyPlain(x) ==
  /\ Destroy(x)
  /\ IF x \in Clients THEN UNCHANGED <<heap, broken>> ELSE Free(Block("handle", x))
  /\ UNCHANGED <<used, objects, events, evt, held, discovery, discovered>>

-----------------------------------------------------------------------------
(* The callbacks that the face holds, run in rmw_wait.  An answer to the     *)
(* probe of a publisher that exists sends another probe, and an interest     *)
(* that meets a filter of one changes nothing here.                          *)

Owners == <<used, open, deleted, objects, heap, events, evt>>

\* Mutant of ProbeFree: only the filter on data is set.
ProbeFreeDataOnly(p) ==
  /\ p \in objects
  /\ Held(p, "probe") \in held
  /\ held' = (held \ {Held(p, "probe")}) \cup {Held(p, "data filter")}
  /\ UNCHANGED <<Owners, discovery, discovered, broken>>

\* onFreeId: the heartbeat is renamed and the two filters are set.
ProbeFree(p) ==
  /\ p \in objects
  /\ Held(p, "probe") \in held
  /\ held' = (held \ {Held(p, "probe")}) \cup
               {Held(p, "sync filter"), Held(p, "data filter")}
  /\ UNCHANGED <<Owners, discovery, discovered, broken>>

\* onData, of a sync or a data request.
Received(s, i) ==
  /\ s \in objects
  /\ \E kind \in {"sync", "data"} :
       /\ <<s, kind, i>> \in held
       /\ held' = (held \ {<<s, kind, i>>}) \cup {<<s, "data", i>>}
  /\ UNCHANGED <<Owners, discovery, discovered, broken>>

\* onError of a data request.
Failed(s, i) ==
  /\ s \in objects
  /\ <<s, "data", i>> \in held
  /\ held' = (held \ {<<s, "data", i>>}) \cup {<<s, "sync", i>>}
  /\ UNCHANGED <<Owners, discovery, discovered, broken>>

\* The Nack of a sync request calls an empty function, which is bound to no
\* object.
SyncNack(s, i) ==
  /\ <<s, "sync", i>> \in held
  /\ held' = held \ {<<s, "sync", i>>}
  /\ UNCHANGED <<Owners, discovery, discovered, broken>>

\* Whatever else ends what is held for an object that no longer exists.
CallbackOfDeleted(c) ==
  /\ c[1] \notin objects
  /\ c[2] # "discovery"
  /\ broken' = "callback"
  /\ UNCHANGED <<Owners, held, discovery, discovered>>

\* DiscoveryClient::onInterest: the first heartbeat of a publisher runs every
\* callback in _pubs_cb.
OnHeartbeat(i) ==
  LET called == {c[1] : c \in {x \in held : x[2] = "discovery"}}
  IN  /\ discovery
      /\ i \notin discovered
      /\ IF called \subseteq objects
           THEN /\ discovered' = discovered \cup {i}
                /\ held' = held \cup {<<s, "sync", i>> : s \in called}
                /\ UNCHANGED broken
           ELSE broken' = "callback" /\ UNCHANGED <<discovered, held>>
      /\ UNCHANGED <<Owners, discovery>>

LifeNext ==
  /\ broken = "no"
  /\ \/ \E n \in Nodes :
          CreateNode(n) \/ DestroyNode(n) \/ GetGraphGuardCondition(n)
     \/ \E p \in Pubs : CreatePublisher(p) \/ Publish(p) \/ ProbeFree(p)
     \/ \E s \in Subs :
          \/ CreateSubscription(s)
          \/ \E i \in Ids : Received(s, i) \/ Failed(s, i) \/ SyncNack(s, i)
     \/ \E x \in Pubs \cup Subs : CreateForeign(x) \/ DestroyEndpoint(x)
     \/ \E x \in Guards \cup WaitSets \cup Clients :
          CreatePlain(x) \/ DestroyPlain(x)
     \/ \E e \in events : RunHeartbeat(e)
     \/ \E i \in Ids : OnHeartbeat(i)
     \/ \E c \in held : CallbackOfDeleted(c)

LifeSpec == LifeInit /\ [][LifeNext]_lifeVars

-----------------------------------------------------------------------------
\* The creations that returned NULL.
FailedOnes == used \ (open \cup deleted)

\* A heartbeat beats once a second as long as its object exists and no longer: the
\* event in the scheduler is always the one _evt remembers, so that the destructor
\* (discovery.hpp:37) cancels it whenever it runs.
HeartbeatsOfTheLiving ==
  events = {<<o, evt[o]>> : o \in objects}

\* What a handle started does not end with it.  A node that was destroyed is
\* announced for ever, and its Node object is never deleted (rmw_node.cpp:96).  What
\* is held for a publisher or a subscription does not depend on whether it still
\* exists (rmw_pub.cpp:164, rmw_sub.cpp:159): for a publisher its probe, or else both
\* of its filters; for a subscription its discovery callback, and one request at most
\* to each publisher discovered.
LeftBehind ==
  /\ \A n \in Nodes \cap deleted : n \in objects /\ <<n, evt[n]>> \in events
  /\ \A x \in (Pubs \cup Subs) \cap (open \cup deleted) :
       LET kinds(I) == {c[2] : c \in {h \in held : h[1] = x /\ h[3] \in I}}
       IN  IF x \in Pubs
             THEN kinds({NoId}) \in {{"probe"}, {"sync filter", "data filter"}}
             ELSE /\ kinds({NoId}) = {"discovery"}
                  /\ \A i \in Ids : kinds({i}) \in
                       IF i \in discovered THEN {{}, {"sync"}, {"data"}} ELSE {{}}

\* After the first subscription is destroyed, no new publisher is ever discovered:
\* its heartbeat runs the callback of the destroyed object (rmw_sub.cpp:159,
\* discovery.hpp:154).
NoDiscoveryAfterDestroy ==
  [][Subs \cap deleted # {} => discovered' = discovered]_lifeVars

\* The caller never frees what is not allocated, and what is allocated is what its
\* handles reach and four leaks: the names of a destroyed node, the handle of a
\* creation that failed, the graph guard conditions and the buffers of push.
MemoryAccounted ==
  /\ broken # "free"
  /\ {b \in heap : b[1] \notin {"graph guard", "buffer"}} =
       (UNION {BlocksOf(x) : x \in open \cup FailedOnes}) \cup
       (UNION {BlocksOf(n) \ {Block("node", n)} : n \in Nodes \cap deleted})
=============================================================================
