--------------------------- MODULE LifecycleProofs ---------------------------
(***************************************************************************)
(* Proofs about Lifecycle, for every number of nodes, publishers,          *)
(* subscriptions and other handles, and any identifiers.                   *)
(***************************************************************************)
EXTENDS Lifecycle, TLAPS

\* The handles the caller was given, whether or not it destroyed them.
Given == open \cup deleted

LifeTypeOK ==
  /\ used \subseteq Handles
  /\ Given \subseteq used
  /\ open \cap deleted = {}
  /\ objects \subseteq Emitters \cap Given
  /\ DOMAIN evt = Emitters
  /\ discovered \subseteq Ids

\* The object of a node exists for ever, that of an endpoint until it is destroyed.
ObjectsExist ==
  /\ Nodes \cap Given \subseteq objects
  /\ (Pubs \cup Subs) \cap deleted \cap objects = {}

PubKinds == {"probe", "sync filter", "data filter"}

(***************************************************************************)
(* What is held, callback by callback.                                     *)
(***************************************************************************)
Known(x, kind, i) ==
  \/ x \in Pubs \cap Given /\ kind \in PubKinds /\ i = NoId
  \/ x \in Subs \cap Given /\ kind = "discovery" /\ i = NoId
  \/ x \in Subs \cap Given /\ kind \in {"sync", "data"} /\ i \in discovered

HeldKnown == \A c \in held : c = <<c[1], c[2], c[3]>> /\ Known(c[1], c[2], c[3])

ProbeOrFilters ==
  \A p \in Pubs \cap Given :
    /\ Held(p, "sync filter") \in held <=> Held(p, "data filter") \in held
    /\ Held(p, "probe") \in held <=> Held(p, "sync filter") \notin held

DiscoveryHeld == \A s \in Subs \cap Given : Held(s, "discovery") \in held

OneRequest ==
  \A s \in Subs, i \in Ids : ~(<<s, "sync", i>> \in held /\ <<s, "data", i>> \in held)

HeldInv == HeldKnown /\ ProbeOrFilters /\ DiscoveryHeld /\ OneRequest

(***************************************************************************)
(* MemoryAccounted, block by block.                                        *)
(***************************************************************************)
Leaks == {"graph guard", "buffer"}

\* What a handle has on the heap: all of it before it is destroyed, then the names
\* of a node.
Accounted(b) ==
  \/ \E x \in used \ deleted : b \in BlocksOf(x)
  \/ \E n \in Nodes \cap deleted : b \in BlocksOf(n) \ {Block("node", n)}

MemoryByBlock ==
  /\ broken # "free"
  /\ \A b \in heap : b[1] \in Leaks \/ Accounted(b)
  /\ \A x \in used \ deleted : BlocksOf(x) \subseteq heap
  /\ \A n \in Nodes \cap deleted : BlocksOf(n) \ {Block("node", n)} \subseteq heap

LifeInv ==
  /\ LifeTypeOK
  /\ ObjectsExist
  /\ HeartbeatsOfTheLiving
  /\ HeldInv
  /\ MemoryByBlock

-----------------------------------------------------------------------------
(* Handles and objects. *)

\* The kinds of handles are disjoint.
LEMMA KindsDisjoint ==
  /\ \A x \in Nodes : x \notin Pubs \cup Subs \cup Guards \cup WaitSets \cup Clients
  /\ \A x \in Pubs : x \notin Nodes \cup Subs \cup Guards \cup WaitSets \cup Clients
  /\ \A x \in Subs : x \notin Nodes \cup Pubs \cup Guards \cup WaitSets \cup Clients
  /\ \A x \in Guards \cup WaitSets : x \notin Emitters \cup Clients
  /\ \A x \in Clients : x \notin Emitters \cup Guards \cup WaitSets
  /\ NoId \notin Ids
  BY LifecycleAssumption DEF Emitters, NoId

\* What the caller was given, and its objects, by step.
LEMMA LifeTypeStep ==
  ASSUME LifeTypeOK, ObjectsExist, [LifeNext]_lifeVars
  PROVE  LifeTypeOK' /\ ObjectsExist'
<1> USE KindsDisjoint
    DEF LifeTypeOK, ObjectsExist, Given, Handles, Emitters, Owners
<1>1. ASSUME NEW n \in Nodes, CreateNode(n)
      PROVE  LifeTypeOK' /\ ObjectsExist'
  BY <1>1 DEF CreateNode, New, Schedule
<1>2. ASSUME NEW n \in Nodes, DestroyNode(n)
      PROVE  LifeTypeOK' /\ ObjectsExist'
  BY <1>2 DEF DestroyNode, Destroy
<1>3. ASSUME NEW p \in Pubs, CreatePublisher(p)
      PROVE  LifeTypeOK' /\ ObjectsExist'
  BY <1>3 DEF CreatePublisher, New, Schedule
<1>4. ASSUME NEW s \in Subs, CreateSubscription(s)
      PROVE  LifeTypeOK' /\ ObjectsExist'
  BY <1>4 DEF CreateSubscription, New, Schedule
<1>5. ASSUME NEW x \in Pubs \cup Subs, CreateForeign(x)
      PROVE  LifeTypeOK' /\ ObjectsExist'
  BY <1>5 DEF CreateForeign, New
<1>6. ASSUME NEW x \in Pubs \cup Subs, DestroyEndpoint(x)
      PROVE  LifeTypeOK' /\ ObjectsExist'
  BY <1>6 DEF DestroyEndpoint, Destroy, Cancel
<1>7. ASSUME NEW x \in Guards \cup WaitSets \cup Clients, CreatePlain(x)
      PROVE  LifeTypeOK' /\ ObjectsExist'
  BY <1>7 DEF CreatePlain, New
<1>8. ASSUME NEW x \in Guards \cup WaitSets \cup Clients, DestroyPlain(x)
      PROVE  LifeTypeOK' /\ ObjectsExist'
  BY <1>8 DEF DestroyPlain, Destroy
<1>9. ASSUME NEW e \in events, RunHeartbeat(e)
      PROVE  LifeTypeOK' /\ ObjectsExist'
  BY <1>9 DEF RunHeartbeat, Schedule
<1>10. ASSUME NEW i \in Ids, OnHeartbeat(i)
       PROVE  LifeTypeOK' /\ ObjectsExist'
  BY <1>10 DEF OnHeartbeat
<1>11. CASE UNCHANGED <<used, open, deleted, objects, evt, discovered>>
  BY <1>11
<1> QED
  BY <1>1, <1>2, <1>3, <1>4, <1>5, <1>6, <1>7, <1>8, <1>9, <1>10, <1>11
     DEF LifeNext, GetGraphGuardCondition, Publish, ProbeFree, Received, Failed,
         SyncNack, CallbackOfDeleted, lifeVars

-----------------------------------------------------------------------------
(* The heartbeats. *)

LEMMA CreatedBeats ==
  ASSUME HeartbeatsOfTheLiving, LifeTypeOK, NEW o \in Emitters, o \notin objects,
         Schedule(o, events), objects' = objects \cup {o}
  PROVE  HeartbeatsOfTheLiving'
  BY DEF HeartbeatsOfTheLiving, LifeTypeOK, Schedule

LEMMA BeatsStep ==
  ASSUME LifeTypeOK, HeartbeatsOfTheLiving, [LifeNext]_lifeVars
  PROVE  HeartbeatsOfTheLiving'
<1> USE DEF LifeTypeOK, Given
<1>1. ASSUME NEW n \in Nodes, CreateNode(n)
      PROVE  HeartbeatsOfTheLiving'
  BY <1>1, CreatedBeats DEF CreateNode, New, Emitters
<1>2. ASSUME NEW p \in Pubs, CreatePublisher(p)
      PROVE  HeartbeatsOfTheLiving'
  BY <1>2, CreatedBeats DEF CreatePublisher, New, Emitters
<1>3. ASSUME NEW s \in Subs, CreateSubscription(s)
      PROVE  HeartbeatsOfTheLiving'
  BY <1>3, CreatedBeats DEF CreateSubscription, New, Emitters
<1>4. ASSUME NEW x \in Pubs \cup Subs, DestroyEndpoint(x)
      PROVE  HeartbeatsOfTheLiving'
  <2>1. /\ events' = events \ {<<x, evt[x]>>} /\ evt' = evt
        /\ objects' = objects \ {x}
    BY <1>4 DEF DestroyEndpoint, Cancel
  <2> QED
    BY <2>1 DEF HeartbeatsOfTheLiving
<1>5. ASSUME NEW e \in events, RunHeartbeat(e)
      PROVE  HeartbeatsOfTheLiving'
  <2>1. PICK o \in objects : e = <<o, evt[o]>>
    BY DEF HeartbeatsOfTheLiving
  <2> DEFINE k == NewEvent(o, events \ {e})
  <2>2. /\ events' = (events \ {e}) \cup {<<o, k>>}
        /\ evt' = [evt EXCEPT ![o] = k]
        /\ objects' = objects
    BY <1>5, <2>1 DEF RunHeartbeat, Schedule
  <2> HIDE DEF k
  <2> QED
    BY <2>1, <2>2 DEF HeartbeatsOfTheLiving
<1>6. CASE UNCHANGED <<objects, events, evt>>
  BY <1>6 DEF HeartbeatsOfTheLiving
<1> QED
  BY <1>1, <1>2, <1>3, <1>4, <1>5, <1>6
     DEF LifeNext, GetGraphGuardCondition, Publish, ProbeFree, Received, Failed,
         SyncNack, CallbackOfDeleted, OnHeartbeat, CreateForeign, CreatePlain,
         DestroyNode, DestroyPlain, Owners, lifeVars

-----------------------------------------------------------------------------
(* What is held. *)

\* Nothing is held for a handle that is new.
LEMMA NothingHeldYet ==
  ASSUME LifeTypeOK, HeldInv, NEW x, x \notin used, NEW kind, NEW i
  PROVE  <<x, kind, i>> \notin held
  BY DEF HeldInv, HeldKnown, Known, LifeTypeOK

LEMMA HeldKnownGrows ==
  ASSUME HeldKnown, Given \subseteq Given', discovered \subseteq discovered', NEW new,
         held' \subseteq held \cup new,
         \A c \in new : c = <<c[1], c[2], c[3]>> /\ Known(c[1], c[2], c[3])'
  PROVE  HeldKnown'
  BY DEF HeldKnown, Known

LEMMA HeldStep ==
  ASSUME LifeTypeOK, HeldInv, [LifeNext]_lifeVars
  PROVE  HeldInv'
<1> USE KindsDisjoint DEF LifeTypeOK, Given, HeldInv, Held
<1>1. ASSUME NEW p \in Pubs, CreatePublisher(p)
      PROVE  HeldInv'
  <2>1. /\ p \notin used
        /\ Given' = Given \cup {p}
        /\ held' = held \cup {Held(p, "probe")}
        /\ discovered' = discovered
    BY <1>1 DEF CreatePublisher, New
  <2>2. \A kind, i : <<p, kind, i>> \notin held
    BY <2>1, NothingHeldYet
  <2> HIDE DEF Given
  <2>3. HeldKnown'
    <3> DEFINE new == {<<p, "probe", NoId>>}
    <3>1. Known(p, "probe", NoId)'
      BY <2>1 DEF Known, PubKinds
    <3>2. \A c \in new : c = <<c[1], c[2], c[3]>> /\ Known(c[1], c[2], c[3])'
      BY <3>1
    <3>3. held' \subseteq held \cup new
      BY <2>1
    <3> HIDE DEF new
    <3> QED
      BY <2>1, <3>2, <3>3, HeldKnownGrows
  <2>4. ProbeOrFilters'
    BY <2>1, <2>2 DEF ProbeOrFilters
  <2>5. DiscoveryHeld' /\ OneRequest'
    BY <2>1 DEF DiscoveryHeld, OneRequest
  <2> QED
    BY <2>3, <2>4, <2>5
<1>2. ASSUME NEW s \in Subs, CreateSubscription(s)
      PROVE  HeldInv'
  <2>1. /\ s \notin used
        /\ Given' = Given \cup {s}
        /\ held' = held \cup {Held(s, "discovery")}
                        \cup {<<s, "sync", i>> : i \in discovered}
        /\ discovered' = discovered
    BY <1>2 DEF CreateSubscription, New
  <2>2. \A kind, i : <<s, kind, i>> \notin held
    BY <2>1, NothingHeldYet
  <2> HIDE DEF Given
  <2>3. HeldKnown'
    <3> DEFINE new == {<<s, "discovery", NoId>>} \cup {<<s, "sync", i>> : i \in discovered}
    <3>1. /\ Known(s, "discovery", NoId)'
          /\ \A i \in discovered : Known(s, "sync", i)'
      BY <2>1 DEF Known
    <3>2. \A c \in new : c = <<c[1], c[2], c[3]>> /\ Known(c[1], c[2], c[3])'
      BY <3>1
    <3>3. held' \subseteq held \cup new
      BY <2>1
    <3> HIDE DEF new
    <3> QED
      BY <2>1, <3>2, <3>3, HeldKnownGrows
  <2>4. ProbeOrFilters'
    BY <2>1 DEF ProbeOrFilters
  <2>5. DiscoveryHeld' /\ OneRequest'
    BY <2>1, <2>2 DEF DiscoveryHeld, OneRequest
  <2> QED
    BY <2>3, <2>4, <2>5
<1>3. ASSUME NEW p \in Pubs, ProbeFree(p)
      PROVE  HeldInv'
  <2>1. /\ Held(p, "probe") \in held
        /\ held' = (held \ {Held(p, "probe")}) \cup
                     {Held(p, "sync filter"), Held(p, "data filter")}
        /\ Given' = Given /\ discovered' = discovered
    BY <1>3 DEF ProbeFree, Owners
  <2>2. p \in Given
    BY <2>1 DEF HeldKnown, Known
  <2> HIDE DEF Given
  <2>3. HeldKnown'
    <3> DEFINE filters == {"sync filter", "data filter"}
               new == {<<p, kind, NoId>> : kind \in filters}
    <3>1. \A kind \in filters : Known(p, kind, NoId)'
      BY <2>1, <2>2 DEF Known, PubKinds
    <3> HIDE DEF filters
    <3>2. \A c \in new : c = <<c[1], c[2], c[3]>> /\ Known(c[1], c[2], c[3])'
      BY <3>1
    <3>3. held' \subseteq held \cup new
      BY <2>1 DEF filters
    <3> HIDE DEF new
    <3> QED
      BY <2>1, <3>2, <3>3, HeldKnownGrows
  <2>4. ProbeOrFilters'
    BY <2>1 DEF ProbeOrFilters
  <2>5. DiscoveryHeld' /\ OneRequest'
    BY <2>1 DEF DiscoveryHeld, OneRequest
  <2> QED
    BY <2>3, <2>4, <2>5
<1>4. ASSUME NEW s \in Subs, NEW i \in Ids,
             Received(s, i) \/ Failed(s, i) \/ SyncNack(s, i)
      PROVE  HeldInv'
  <2>1. PICK kind \in {"sync", "data"}, new \in {"none", "sync", "data"} :
          /\ <<s, kind, i>> \in held
          /\ held' = (held \ {<<s, kind, i>>}) \cup
                       (IF new = "none" THEN {} ELSE {<<s, new, i>>})
    BY <1>4 DEF Received, Failed, SyncNack
  <2>2. Given' = Given /\ discovered' = discovered
    BY <1>4 DEF Received, Failed, SyncNack, Owners
  <2>3. s \in Given /\ i \in discovered
    BY <2>1 DEF HeldKnown, Known
  <2> HIDE DEF Given
  <2>4. HeldKnown'
    <3> DEFINE added == {<<s, "sync", i>>, <<s, "data", i>>}
    <3>1. Known(s, "sync", i)' /\ Known(s, "data", i)'
      BY <2>2, <2>3 DEF Known
    <3>2. \A c \in added : c = <<c[1], c[2], c[3]>> /\ Known(c[1], c[2], c[3])'
      BY <3>1
    <3>3. held' \subseteq held \cup added
      BY <2>1
    <3> HIDE DEF added
    <3> QED
      BY <2>2, <3>2, <3>3, HeldKnownGrows
  <2>5. ProbeOrFilters'
    BY <2>1, <2>2 DEF ProbeOrFilters
  <2>6. DiscoveryHeld' /\ OneRequest'
    BY <2>1, <2>2 DEF DiscoveryHeld, OneRequest
  <2> QED
    BY <2>4, <2>5, <2>6
<1>5. ASSUME NEW i \in Ids, OnHeartbeat(i)
      PROVE  HeldInv'
  <2> DEFINE called == {c[1] : c \in {x \in held : x[2] = "discovery"}}
  <2>1. Given' = Given
    BY <1>5 DEF OnHeartbeat, Owners
  <2>2. CASE UNCHANGED <<held, discovered>>
    BY <2>1, <2>2 DEF HeldKnown, Known, ProbeOrFilters, DiscoveryHeld, OneRequest
  <2>3. CASE /\ i \notin discovered
             /\ discovered' = discovered \cup {i}
             /\ held' = held \cup {<<s, "sync", i>> : s \in called}
    <3>1. \A s \in called : s \in Subs \cap Given
      BY DEF HeldKnown, Known, PubKinds
    <3>2. \A x, kind : <<x, kind, i>> \notin held
      BY <2>3 DEF HeldKnown, Known
    <3> HIDE DEF Given, called
    <3>3. HeldKnown'
      <4> DEFINE new == {<<s, "sync", i>> : s \in called}
      <4>1. \A s \in called : Known(s, "sync", i)'
        BY <2>1, <2>3, <3>1 DEF Known
      <4>2. \A c \in new : c = <<c[1], c[2], c[3]>> /\ Known(c[1], c[2], c[3])'
        BY <4>1
      <4>3. held' \subseteq held \cup new
        BY <2>3
      <4> HIDE DEF new
      <4> QED
        BY <2>1, <2>3, <4>2, <4>3, HeldKnownGrows
    <3>4. ProbeOrFilters'
      BY <2>1, <2>3 DEF ProbeOrFilters
    <3>5. DiscoveryHeld' /\ OneRequest'
      BY <2>1, <2>3, <3>2 DEF DiscoveryHeld, OneRequest
    <3> QED
      BY <3>3, <3>4, <3>5
  <2> QED
    BY <1>5, <2>2, <2>3 DEF OnHeartbeat
<1>6. CASE /\ UNCHANGED <<held, discovered>>
           /\ \A x \in Pubs \cup Subs : x \in Given' <=> x \in Given
  BY <1>6 DEF HeldKnown, Known, ProbeOrFilters, DiscoveryHeld, OneRequest
<1>7. ASSUME UNCHANGED <<held, discovered>>,
             \/ UNCHANGED <<open, deleted>>
             \/ \E x \in Handles : Destroy(x)
             \/ \E x \in Nodes \cup Guards \cup WaitSets \cup Clients :
                  open' = open \cup {x} /\ deleted' = deleted
      PROVE  HeldInv'
  <2>1. \A x \in Pubs \cup Subs : x \in Given' <=> x \in Given
    BY <1>7 DEF Destroy
  <2> QED
    BY <1>6, <1>7, <2>1
<1> QED
  BY <1>1, <1>2, <1>3, <1>4, <1>5, <1>7
     DEF LifeNext, GetGraphGuardCondition, Publish, CallbackOfDeleted, CreateForeign,
         CreatePlain, CreateNode, DestroyNode, DestroyPlain, DestroyEndpoint,
         RunHeartbeat, Owners, Handles, lifeVars

-----------------------------------------------------------------------------
(* The memory. *)

\* The blocks of a handle carry its name, and a leak is none of them.
LEMMA BlocksOfOne ==
  ASSUME NEW x \in Handles
  PROVE  /\ \A b \in BlocksOf(x) : b[2] = x /\ b[1] \notin Leaks
         /\ x \in Nodes => BlocksOf(x) = {Block(kind, x) : kind \in NodeParts}
         /\ x \in Clients => BlocksOf(x) = {}
         /\ x \notin Nodes \cup Clients => BlocksOf(x) = {Block("handle", x)}
<1>0. \A kind : Block(kind, x)[1] = kind /\ Block(kind, x)[2] = x
  BY DEF Block
<1>1. CASE x \in Nodes
  <2>1. x \notin Clients /\ BlocksOf(x) = {Block(kind, x) : kind \in NodeParts}
    BY <1>1, KindsDisjoint DEF BlocksOf
  <2> QED
    BY <1>0, <1>1, <2>1 DEF NodeParts, Leaks
<1>2. CASE x \in Clients
  <2>1. x \notin Nodes /\ BlocksOf(x) = {}
    BY <1>2, KindsDisjoint DEF BlocksOf, Emitters
  <2> QED
    BY <1>2, <2>1
<1>3. CASE x \notin Nodes \cup Clients
  <2>1. BlocksOf(x) = {Block("handle", x)}
    BY <1>3 DEF BlocksOf
  <2>2. "handle" \notin Leaks
    BY DEF Leaks
  <2> QED
    BY <1>0, <1>3, <2>1, <2>2
<1> QED
  BY <1>1, <1>2, <1>3

LEMMA MemoryWhole ==
  ASSUME LifeTypeOK, MemoryByBlock
  PROVE  MemoryAccounted
<1> DEFINE mine == UNION {BlocksOf(x) : x \in open \cup FailedOnes}
           names == UNION {BlocksOf(n) \ {Block("node", n)} : n \in Nodes \cap deleted}
           kept == {b \in heap : b[1] \notin {"graph guard", "buffer"}}
<1>1. open \cup FailedOnes = used \ deleted
  BY DEF LifeTypeOK, FailedOnes, Given
<1>2. used \subseteq Handles /\ Nodes \subseteq Handles
  BY DEF LifeTypeOK, Handles
<1>3. kept \subseteq mine \cup names
  BY <1>1 DEF MemoryByBlock, Accounted, Leaks
<1>4. \A x \in open \cup FailedOnes : BlocksOf(x) \subseteq kept
  <2> TAKE x \in open \cup FailedOnes
  <2>1. x \in Handles /\ BlocksOf(x) \subseteq heap
    BY <1>1, <1>2 DEF MemoryByBlock
  <2> QED
    BY <2>1, BlocksOfOne DEF Leaks
<1>5. \A n \in Nodes \cap deleted : BlocksOf(n) \ {Block("node", n)} \subseteq kept
  <2> TAKE n \in Nodes \cap deleted
  <2>1. n \in Handles /\ BlocksOf(n) \ {Block("node", n)} \subseteq heap
    BY <1>2 DEF MemoryByBlock
  <2> QED
    BY <2>1, BlocksOfOne DEF Leaks
<1>6. mine \subseteq kept /\ names \subseteq kept
  BY <1>4, <1>5
<1>7. broken # "free" /\ kept = mine \cup names => MemoryAccounted
  BY DEF MemoryAccounted
<1>8. broken # "free"
  BY DEF MemoryByBlock
<1> HIDE DEF mine, names, kept
<1>9. kept = mine \cup names
  BY <1>3, <1>6
<1> QED
  BY <1>7, <1>8, <1>9

\* A handle is created.
LEMMA MemoryCreated ==
  ASSUME LifeTypeOK, MemoryByBlock, NEW x \in Handles, x \notin used,
         used' = used \cup {x}, deleted' = deleted, broken' = broken,
         heap' = heap \cup BlocksOf(x)
  PROVE  MemoryByBlock'
<1>1. x \notin deleted
  BY DEF LifeTypeOK, Given
<1> QED
  BY <1>1 DEF MemoryByBlock, Accounted

\* A handle that is not a node's is destroyed, and what it has is freed.
LEMMA MemoryDestroyed ==
  ASSUME LifeTypeOK, MemoryByBlock, NEW x \in Handles, x \notin Nodes,
         Destroy(x), used' = used,
         \/ x \notin Clients /\ Free(Block("handle", x))
         \/ x \in Clients /\ UNCHANGED <<heap, broken>>
  PROVE  MemoryByBlock'
<1>1. x \in used \ deleted /\ deleted' = deleted \cup {x}
  BY DEF LifeTypeOK, Given, Destroy
<1>2. BlocksOf(x) \subseteq heap
  BY <1>1 DEF MemoryByBlock
<1>3. heap' = heap \ BlocksOf(x) /\ broken' = broken
  BY <1>2, BlocksOfOne DEF Free
<1>4. \A y \in used : y # x => BlocksOf(y) \cap BlocksOf(x) = {}
  BY BlocksOfOne DEF LifeTypeOK
<1>5. used \subseteq Handles /\ deleted \subseteq used
  BY DEF LifeTypeOK, Given
<1>6. \A b : Accounted(b) /\ b \notin BlocksOf(x) => Accounted(b)'
  BY <1>1 DEF Accounted
<1>7. \A y \in used' \ deleted' : BlocksOf(y) \subseteq heap'
  BY <1>1, <1>3, <1>4 DEF MemoryByBlock
<1>8. \A n \in Nodes \cap deleted' : BlocksOf(n) \ {Block("node", n)} \subseteq heap'
  BY <1>1, <1>3, <1>4, <1>5 DEF MemoryByBlock
<1> QED
  BY <1>3, <1>6, <1>7, <1>8 DEF MemoryByBlock

\* Of a node only the rmw_node_t is freed.
LEMMA MemoryOfNode ==
  ASSUME LifeTypeOK, MemoryByBlock, NEW n \in Nodes, Destroy(n), used' = used,
         Free(Block("node", n))
  PROVE  MemoryByBlock'
<1> DEFINE node == Block("node", n)
<1>1. n \in used \ deleted /\ deleted' = deleted \cup {n}
  BY DEF LifeTypeOK, Given, Destroy
<1>2. node \in BlocksOf(n) /\ BlocksOf(n) \subseteq heap
  BY <1>1, BlocksOfOne DEF MemoryByBlock, NodeParts, Handles
<1>3. heap' = heap \ {node} /\ broken' = broken
  BY <1>2 DEF Free
<1>4. \A y \in used : y # n => node \notin BlocksOf(y)
  BY <1>1, <1>2, BlocksOfOne DEF LifeTypeOK
<1>5. used \subseteq Handles /\ deleted \subseteq used
  BY DEF LifeTypeOK, Given
<1>6. \A b : Accounted(b) /\ b # node => Accounted(b)'
  BY <1>1 DEF Accounted
<1>7. \A y \in used' \ deleted' : BlocksOf(y) \subseteq heap'
  BY <1>1, <1>3, <1>4 DEF MemoryByBlock
<1>8. \A m \in Nodes \cap deleted' : BlocksOf(m) \ {Block("node", m)} \subseteq heap'
  BY <1>1, <1>2, <1>3, <1>4, <1>5 DEF MemoryByBlock
<1> QED
  BY <1>3, <1>6, <1>7, <1>8 DEF MemoryByBlock

\* Blocks that nobody frees come, or nothing changes.
LEMMA MemoryLeaked ==
  ASSUME MemoryByBlock, UNCHANGED <<used, deleted>>, broken' # "free",
         heap \subseteq heap', \A b \in heap' \ heap : b[1] \in Leaks
  PROVE  MemoryByBlock'
  BY DEF MemoryByBlock, Accounted

LEMMA MemoryStep ==
  ASSUME LifeTypeOK, MemoryByBlock, [LifeNext]_lifeVars
  PROVE  MemoryByBlock'
<1> USE DEF Handles, Owners
<1>3. ASSUME NEW n \in Nodes, CreateNode(n)
      PROVE  MemoryByBlock'
  BY <1>3, MemoryCreated DEF CreateNode, New
<1>4. ASSUME NEW p \in Pubs, CreatePublisher(p)
      PROVE  MemoryByBlock'
  BY <1>4, MemoryCreated DEF CreatePublisher, New
<1>5. ASSUME NEW s \in Subs, CreateSubscription(s)
      PROVE  MemoryByBlock'
  BY <1>5, MemoryCreated DEF CreateSubscription, New
<1>6. ASSUME NEW x \in Pubs \cup Subs, CreateForeign(x)
      PROVE  MemoryByBlock'
  BY <1>6, MemoryCreated DEF CreateForeign, New
<1>7. ASSUME NEW x \in Guards \cup WaitSets \cup Clients, CreatePlain(x)
      PROVE  MemoryByBlock'
  BY <1>7, MemoryCreated DEF CreatePlain, New
<1>8. ASSUME NEW n \in Nodes, DestroyNode(n)
      PROVE  MemoryByBlock'
  BY <1>8, MemoryOfNode DEF DestroyNode
<1>9. ASSUME NEW x \in Pubs \cup Subs, DestroyEndpoint(x)
      PROVE  MemoryByBlock'
  BY <1>9, MemoryDestroyed, KindsDisjoint DEF DestroyEndpoint
<1>10. ASSUME NEW x \in Guards \cup WaitSets \cup Clients, DestroyPlain(x)
       PROVE  MemoryByBlock'
  BY <1>10, MemoryDestroyed, KindsDisjoint DEF DestroyPlain, Emitters
<1>11. ASSUME NEW n \in Nodes, GetGraphGuardCondition(n)
       PROVE  MemoryByBlock'
  <2>1. PICK k \in 1..MaxGraphGuards : heap' = heap \cup {<<"graph guard", n, k>>}
    BY <1>11 DEF GetGraphGuardCondition
  <2>2. <<"graph guard", n, k>>[1] \in Leaks
    BY DEF Leaks
  <2>3. UNCHANGED <<used, deleted, broken>>
    BY <1>11 DEF GetGraphGuardCondition
  <2> QED
    BY <2>1, <2>2, <2>3, MemoryLeaked DEF MemoryByBlock
<1>12. ASSUME NEW p \in Pubs, Publish(p)
       PROVE  MemoryByBlock'
  <2>1. CASE heap' = heap
    BY <1>12, <2>1, MemoryLeaked DEF Publish, MemoryByBlock
  <2>2. ASSUME NEW k \in 1..MaxBuffers, heap' = heap \cup {<<"buffer", p, k>>}
        PROVE  MemoryByBlock'
    <3>1. <<"buffer", p, k>>[1] \in Leaks
      BY DEF Leaks
    <3>2. UNCHANGED <<used, deleted, broken>>
      BY <1>12 DEF Publish
    <3> QED
      BY <2>2, <3>1, <3>2, MemoryLeaked DEF MemoryByBlock
  <2> QED
    BY <1>12, <2>1, <2>2 DEF Publish
<1>13. CASE /\ UNCHANGED <<used, deleted, heap>>
            /\ broken' \in {broken, "callback"}
  BY <1>13, MemoryLeaked DEF MemoryByBlock
<1> QED
  BY <1>3, <1>4, <1>5, <1>6, <1>7, <1>8, <1>9, <1>10, <1>11, <1>12, <1>13
     DEF LifeNext, ProbeFree, Received, Failed, SyncNack, CallbackOfDeleted,
         OnHeartbeat, RunHeartbeat, lifeVars

-----------------------------------------------------------------------------
(* The theorems. *)

LEMMA LifeInvInit == LifeInit => LifeInv
<1> SUFFICES ASSUME LifeInit PROVE LifeInv
  OBVIOUS
<1>1. LifeTypeOK /\ ObjectsExist /\ HeartbeatsOfTheLiving /\ HeldInv
  BY DEF LifeInit, LifeTypeOK, Given, ObjectsExist, HeartbeatsOfTheLiving, HeldInv,
         HeldKnown, ProbeOrFilters, DiscoveryHeld, OneRequest
<1>2. MemoryByBlock
  BY DEF LifeInit, MemoryByBlock
<1> QED
  BY <1>1, <1>2 DEF LifeInv

LEMMA LifeInvStep == LifeInv /\ [LifeNext]_lifeVars => LifeInv'
  BY LifeTypeStep, BeatsStep, HeldStep, MemoryStep DEF LifeInv

\* The inductive invariant holds.
LEMMA LifeInvHolds == LifeSpec => []LifeInv
  BY LifeInvInit, LifeInvStep, PTL DEF LifeSpec

\* Every object that exists has exactly one event in the scheduler, the one that
\* _evt remembers, so that the destructor of the heartbeat cancels it whenever it
\* runs; and no event is left of an object that was deleted.
THEOREM HeartbeatsCorrect == LifeSpec => []HeartbeatsOfTheLiving
<1>1. LifeInv => HeartbeatsOfTheLiving
  BY DEF LifeInv
<1> QED
  BY <1>1, LifeInvHolds, PTL

\* In whatever order a legal caller creates, uses and destroys handles, nothing is
\* freed that is not allocated, and all that stays allocated is reached from a
\* handle or is one of the four leaks.
THEOREM MemoryCorrect == LifeSpec => []MemoryAccounted
<1>1. LifeInv => MemoryAccounted
  BY MemoryWhole DEF LifeInv
<1> QED
  BY <1>1, LifeInvHolds, PTL

\* The kinds of what is held for x about the publishers I.
KindsHeld(x, I) == {c[2] : c \in {h \in held : h[1] = x /\ h[3] \in I}}

LEMMA KindsHeldAre ==
  ASSUME HeldKnown, NEW x, NEW i, NEW kind
  PROVE  kind \in KindsHeld(x, {i}) <=> <<x, kind, i>> \in held
<1>1. ASSUME kind \in KindsHeld(x, {i})
      PROVE  <<x, kind, i>> \in held
  <2>1. PICK c \in held : c[1] = x /\ c[3] \in {i} /\ c[2] = kind
    BY <1>1 DEF KindsHeld
  <2>2. c = <<c[1], c[2], c[3]>>
    BY DEF HeldKnown
  <2>3. c = <<x, kind, i>>
    BY <2>1, <2>2
  <2> QED
    BY <2>3
<1>2. ASSUME <<x, kind, i>> \in held
      PROVE  kind \in KindsHeld(x, {i})
  <2> DEFINE c == <<x, kind, i>>
  <2>1. c \in held /\ c[1] = x /\ c[2] = kind /\ c[3] \in {i}
    BY <1>2
  <2> HIDE DEF c
  <2> QED
    BY <2>1 DEF KindsHeld
<1> QED
  BY <1>1, <1>2

\* What a publisher, and a subscription, leaves with the face.
LEMMA HeldForPublisher ==
  ASSUME LifeTypeOK, HeldInv, NEW p \in Pubs \cap Given
  PROVE  KindsHeld(p, {NoId}) \in {{"probe"}, {"sync filter", "data filter"}}
<1>1. \A kind : kind \in KindsHeld(p, {NoId}) <=> Held(p, kind) \in held
  BY KindsHeldAre DEF HeldInv, Held
<1>2. \A kind : Held(p, kind) \in held => kind \in PubKinds
  BY KindsDisjoint DEF HeldInv, HeldKnown, Known, Held
<1>3. CASE Held(p, "probe") \in held
  <2>1. Held(p, "sync filter") \notin held /\ Held(p, "data filter") \notin held
    BY <1>3 DEF HeldInv, ProbeOrFilters
  <2>2. KindsHeld(p, {NoId}) = {"probe"}
    BY <1>1, <1>2, <1>3, <2>1 DEF PubKinds
  <2> QED
    BY <2>2
<1>4. CASE Held(p, "probe") \notin held
  <2>1. Held(p, "sync filter") \in held /\ Held(p, "data filter") \in held
    BY <1>4 DEF HeldInv, ProbeOrFilters
  <2>2. KindsHeld(p, {NoId}) = {"sync filter", "data filter"}
    BY <1>1, <1>2, <1>4, <2>1 DEF PubKinds
  <2> QED
    BY <2>2
<1> QED
  BY <1>3, <1>4

LEMMA HeldForSubscription ==
  ASSUME LifeTypeOK, HeldInv, NEW s \in Subs \cap Given
  PROVE  /\ KindsHeld(s, {NoId}) = {"discovery"}
         /\ \A i \in Ids : KindsHeld(s, {i}) \in
              IF i \in discovered THEN {{}, {"sync"}, {"data"}} ELSE {{}}
<1>1. \A kind, i : kind \in KindsHeld(s, {i}) <=> <<s, kind, i>> \in held
  BY KindsHeldAre DEF HeldInv
<1>2. \A kind : <<s, kind, NoId>> \in held <=> kind = "discovery"
  <2>1. NoId \notin discovered
    BY KindsDisjoint DEF LifeTypeOK
  <2> QED
    BY <2>1, KindsDisjoint
       DEF HeldInv, HeldKnown, Known, DiscoveryHeld, Held
<1>3. KindsHeld(s, {NoId}) = {"discovery"}
  BY <1>1, <1>2
<1>4. ASSUME NEW i \in Ids
      PROVE  KindsHeld(s, {i}) \in
               IF i \in discovered THEN {{}, {"sync"}, {"data"}} ELSE {{}}
  <2>1. \A kind : <<s, kind, i>> \in held =>
                    kind \in {"sync", "data"} /\ i \in discovered
    BY KindsDisjoint DEF HeldInv, HeldKnown, Known
  <2>2. ~(<<s, "sync", i>> \in held /\ <<s, "data", i>> \in held)
    BY DEF HeldInv, OneRequest
  <2>3. CASE <<s, "sync", i>> \in held
    <3>1. \A kind : kind \in KindsHeld(s, {i}) <=> kind = "sync"
      BY <1>1, <2>1, <2>2, <2>3
    <3>2. KindsHeld(s, {i}) = {"sync"}
      BY <3>1
    <3> QED
      BY <2>1, <2>3, <3>2
  <2>4. CASE <<s, "data", i>> \in held
    <3>1. \A kind : kind \in KindsHeld(s, {i}) <=> kind = "data"
      BY <1>1, <2>1, <2>2, <2>4
    <3>2. KindsHeld(s, {i}) = {"data"}
      BY <3>1
    <3> QED
      BY <2>1, <2>4, <3>2
  <2>5. CASE <<s, "sync", i>> \notin held /\ <<s, "data", i>> \notin held
    <3>1. \A kind : <<s, kind, i>> \notin held
      BY <2>1, <2>5
    <3>2. KindsHeld(s, {i}) = {}
      BY <1>1, <3>1
    <3> QED
      BY <3>2
  <2> QED
    BY <2>3, <2>4, <2>5
<1> QED
  BY <1>3, <1>4

\* What a handle started outlives it: the heartbeat of a node, the probe or the
\* filters of a publisher, the discovery callback of a subscription and its request
\* to each publisher, of which there is never more than one.
THEOREM LeftBehindCorrect == LifeSpec => []LeftBehind
<1>1. LifeInv => LeftBehind
  <2> SUFFICES ASSUME LifeInv PROVE LeftBehind
    OBVIOUS
  <2> USE DEF LifeInv
  <2>1. \A n \in Nodes \cap deleted : n \in objects /\ <<n, evt[n]>> \in events
    BY DEF ObjectsExist, HeartbeatsOfTheLiving, Given
  <2>2. ASSUME NEW x \in (Pubs \cup Subs) \cap (open \cup deleted)
        PROVE  IF x \in Pubs
                 THEN KindsHeld(x, {NoId}) \in {{"probe"}, {"sync filter", "data filter"}}
                 ELSE /\ KindsHeld(x, {NoId}) = {"discovery"}
                      /\ \A i \in Ids : KindsHeld(x, {i}) \in
                           IF i \in discovered THEN {{}, {"sync"}, {"data"}} ELSE {{}}
    <3>1. CASE x \in Pubs
      BY <3>1, HeldForPublisher DEF Given
    <3>2. CASE x \notin Pubs
      BY <3>2, HeldForSubscription DEF Given
    <3> QED
      BY <3>1, <3>2
  <2> QED
    BY <2>1, <2>2 DEF LeftBehind, KindsHeld
<1> QED
  BY <1>1, LifeInvHolds, PTL

\* Once a subscription was destroyed, the discovery of publishers is over: the
\* callback of the destroyed object stands in the way of every first heartbeat.
THEOREM NoDiscoveryCorrect == LifeSpec => NoDiscoveryAfterDestroy
<1>1. LifeInv /\ [LifeNext]_lifeVars =>
        [Subs \cap deleted # {} => discovered' = discovered]_lifeVars
  <2> SUFFICES ASSUME LifeInv, LifeNext, NEW s \in Subs \cap deleted
               PROVE  discovered' = discovered
    OBVIOUS
  <2> USE DEF LifeInv
  <2>1. Held(s, "discovery") \in held /\ s \notin objects
    BY DEF ObjectsExist, HeldInv, DiscoveryHeld, Given
  <2>2. ASSUME NEW i \in Ids, OnHeartbeat(i)
        PROVE  discovered' = discovered
    <3> DEFINE called == {c[1] : c \in {x \in held : x[2] = "discovery"}}
    <3>1. s \in called
      BY <2>1 DEF Held
    <3>2. ~(called \subseteq objects)
      BY <2>1, <3>1
    <3> QED
      BY <2>2, <3>2 DEF OnHeartbeat
  <2> QED
    BY <2>2 DEF LifeNext, Owners, CreateNode, DestroyNode, GetGraphGuardCondition,
                CreatePublisher, Publish, ProbeFree, CreateSubscription, Received,
                Failed, SyncNack, CreateForeign, DestroyEndpoint, CreatePlain,
                DestroyPlain, RunHeartbeat, CallbackOfDeleted
<1> QED
  BY <1>1, LifeInvHolds, PTL DEF LifeSpec, NoDiscoveryAfterDestroy
=============================================================================
