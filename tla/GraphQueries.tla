---------------------------- MODULE GraphQueries ----------------------------
(***************************************************************************)
(* The tables of class DiscoveryClient (discovery.hpp), which heartbeats   *)
(* fill, and the two functions of rmw_node.cpp that copy them into arrays  *)
(* of the caller, rmw_get_node_names and rmw_get_topic_names_and_types.    *)
(*                                                                         *)
(* A copy is a loop of allocations, any of which may fail.  `live' holds   *)
(* the blocks allocated and not freed, `result' the arrays.  The functions *)
(* of rcutils and rmw on arrays are external: an array starts with null    *)
(* pointers, finishing it frees all it points to, and an array of no       *)
(* element is a null pointer.                                              *)
(*                                                                         *)
(* Heartbeats are heard in rmw_wait, hence never during a call.            *)
(***************************************************************************)
EXTENDS Naturals, Sequences, FiniteSets, SequencesExt

CONSTANTS
  NodeNames,    \* the names given to rmw_create_node, by any process
  Topics,       \* the topic names
  Ids,          \* the publisher identifiers
  Null          \* the null pointer

\* The rest of the name of a discovery interest, as a URI: a topic name starts
\* with a slash already, a node name gets one.
NodeUri(n) == <<"/", n>>

ASSUME NullAssumption ==
  Null \notin Topics \cup {NodeUri(n) : n \in NodeNames}

VARIABLES
  nodes,        \* the keys of _discovered_nodes
  pubs,         \* the keys of _discovered_publishers: topic and identifier
  subs,         \* the keys of _discovered_subscribers
  call,         \* the function that runs: "none", "nodes" or "topics"
  list,         \* its copy of the table
  index,        \* the elements it has copied to the arrays
  result,       \* the arrays of the caller
  live,         \* the blocks allocated and not freed
  ret           \* what the last call returned, until the caller is done with it

tables == <<nodes, pubs, subs>>

queryVars == <<tables, call, list, index, result, live, ret>>

NoArrays == [names |-> <<>>, types |-> <<>>]

\* The array of the types of a topic.
NoTypes == "no types"

QueryInit ==
  /\ nodes = {} /\ pubs = {} /\ subs = {}
  /\ call = "none" /\ ret = "none"
  /\ list = <<>> /\ index = 0
  /\ result = NoArrays
  /\ live = {}

-----------------------------------------------------------------------------
(* DiscoveryClient::onInterest: a heartbeat adds a key to a table.           *)

Heard == call = "none" /\ UNCHANGED <<call, list, index, result, live, ret>>

HearNode(n) ==
  Heard /\ nodes' = nodes \cup {NodeUri(n)} /\ UNCHANGED <<pubs, subs>>

HearPublisher(t, i) ==
  Heard /\ pubs' = pubs \cup {<<t, i>>} /\ UNCHANGED <<nodes, subs>>

HearSubscriber(t) ==
  Heard /\ subs' = subs \cup {t} /\ UNCHANGED <<nodes, pubs>>

\* getDiscoveredNames
DiscoveredNames == SetToSeq(nodes)

TopicsOf(publishers) == {p[1] : p \in publishers}

\* Mutant of DiscoveredTopics: a topic of both tables is listed twice.
DiscoveredTopicsTwice == SetToSeq(subs) \o SetToSeq(TopicsOf(pubs))

\* getDiscoveredTopics: the keys of both tables, each with an empty set of types.
DiscoveredTopics == SetToSeq(subs \cup TopicsOf(pubs))

-----------------------------------------------------------------------------
(* The arrays. *)

Nulls(n) == [k \in 1..n |-> Null]

\* The blocks that finishing the arrays frees.
Reachable(arrays) ==
  {<<"array", f>> : f \in {f \in {"names", "types"} : arrays[f] # <<>>}} \cup
  {<<"name", k>> : k \in {k \in DOMAIN arrays.names : arrays.names[k] # Null}}

\* Allocations that succeed, or else are undone together.
Begin(function, copy, arrays) ==
  /\ call = "none" /\ ret = "none"
  /\ list' = copy /\ index' = 0
  /\ \/ /\ call' = function
        /\ result' = arrays
        /\ live' = live \cup Reachable(arrays)
        /\ UNCHANGED ret
     \/ /\ copy # <<>>
        /\ ret' = "bad alloc"
        /\ UNCHANGED <<call, result, live>>
  /\ UNCHANGED tables

Return(code) == ret' = code /\ call' = "none"

\* Mutant of FailCleanup: what was copied so far is left to the caller.
FailCleanupNone == Return("bad alloc") /\ UNCHANGED <<live, result, index>>

\* An allocation in the loop fails: fini, and RMW_RET_BAD_ALLOC.
FailCleanup ==
  /\ live' = live \ Reachable(result)
  /\ result' = NoArrays
  /\ Return("bad alloc")
  /\ UNCHANGED index

\* rcutils_strdup, stored in the array of names.
StoreName ==
  /\ index < Len(list)
  /\ result.names[index + 1] = Null
  /\ result' = [result EXCEPT !.names[index + 1] = list[index + 1]]
  /\ live' = live \cup {<<"name", index + 1>>}
  /\ UNCHANGED <<call, ret>>

Returned ==
  /\ call # "none"
  /\ index = Len(list)
  /\ Return("ok")
  /\ UNCHANGED <<tables, list, index, result, live>>

-----------------------------------------------------------------------------
(* The two functions. *)

GetNodeNames ==
  Begin("nodes", DiscoveredNames,
        [NoArrays EXCEPT !.names = Nulls(Len(DiscoveredNames))])

\* The loop of rmw_get_node_names.
CopyNode ==
  /\ call = "nodes"
  /\ \/ StoreName /\ index' = index + 1
     \/ index < Len(list) /\ FailCleanup
  /\ UNCHANGED <<tables, list>>

\* With no topic at all the result is left as it is.
GetTopics ==
  LET n == Len(DiscoveredTopics)
  IN  Begin("topics", DiscoveredTopics, [names |-> Nulls(n), types |-> Nulls(n)])

\* The loop of rmw_get_topic_names_and_types: the name, then its types, whose
\* own loop runs over the empty set.
CopyTopic ==
  /\ call = "topics"
  /\ \/ StoreName /\ UNCHANGED index
     \/ /\ index < Len(list)
        /\ result.names[index + 1] # Null
        /\ result' = [result EXCEPT !.types[index + 1] = NoTypes]
        /\ index' = index + 1
        /\ UNCHANGED <<call, live, ret>>
     \/ index < Len(list) /\ FailCleanup
  /\ UNCHANGED <<tables, list>>

\* The caller is done: it finishes the arrays of a call that succeeded.
CallerDone ==
  /\ ret # "none"
  /\ ret' = "none"
  /\ IF ret = "ok"
       THEN live' = live \ Reachable(result) /\ result' = NoArrays
       ELSE UNCHANGED <<live, result>>
  /\ list' = <<>> /\ index' = 0
  /\ UNCHANGED <<tables, call>>

QueryNext ==
  \/ \E n \in NodeNames : HearNode(n)
  \/ \E t \in Topics : HearSubscriber(t) \/ \E i \in Ids : HearPublisher(t, i)
  \/ GetNodeNames \/ CopyNode
  \/ GetTopics \/ CopyTopic
  \/ Returned \/ CallerDone

QuerySpec == QueryInit /\ [][QueryNext]_queryVars

-----------------------------------------------------------------------------
\* Whichever allocation fails, a call that returns an error leaves nothing
\* allocated, not even the part already copied; and all that a call that succeeds
\* allocates is freed with its result (rmw_node.cpp:116 and 160).
NothingLost ==
  /\ live = Reachable(result)
  /\ ret = "bad alloc" => live = {}

\* A call that succeeds returns the table whole, every name once, also for a topic
\* that is both published and subscribed (discovery.hpp:118).
CompleteCopy ==
  [][(call # "none" /\ ret' = "ok") =>
       LET table == IF call = "nodes" THEN nodes ELSE subs \cup TopicsOf(pubs)
       IN  /\ ToSet(result.names) = table
           /\ Len(result.names) = Cardinality(table)
           /\ call = "topics" => result.types = [k \in DOMAIN list |-> NoTypes]
    ]_queryVars
=============================================================================
