------------------------- MODULE GraphQueriesProofs -------------------------
(***************************************************************************)
(* Proofs about GraphQueries, for every set of nodes, topics and           *)
(* publishers, and whichever allocation fails.                             *)
(***************************************************************************)
EXTENDS GraphQueries, FiniteSetTheorems, SequenceTheorems, TLAPS

Names == {NodeUri(n) : n \in NodeNames} \cup Topics

Arrays == [names : Seq(Names \cup {Null}), types : Seq({Null, NoTypes})]

QueryTypeOK ==
  /\ nodes \subseteq Names /\ IsFiniteSet(nodes)
  /\ pubs \subseteq Topics \X Ids /\ IsFiniteSet(pubs)
  /\ subs \subseteq Topics /\ IsFiniteSet(subs)
  /\ call \in {"none", "nodes", "topics"}
  /\ ret \in {"none", "ok", "bad alloc"}
  /\ list \in Seq(Names)
  /\ index \in 0..Len(list)
  /\ result \in Arrays

\* Nothing is returned before the end of a call, and an error leaves no array.
ResultKept ==
  /\ call # "none" => ret = "none"
  /\ call = "none" /\ ret # "ok" => result = NoArrays

\* How far a call has come: the first `index' elements are copied, and no array has
\* anything else in it.
Filled ==
  \A k \in 1..Len(list) :
    /\ result.names[k] \in {Null, list[k]}
    /\ k <= index => result.names[k] = list[k]

Typed == \A k \in 1..index : result.types[k] = NoTypes

Progress ==
  /\ call = "nodes" => list = DiscoveredNames /\ result.types = <<>>
  /\ call = "topics" =>
       list = DiscoveredTopics /\ Len(result.types) = Len(list) /\ Typed
  /\ call # "none" => Len(result.names) = Len(list) /\ Filled

QueryInv == QueryTypeOK /\ ResultKept /\ Progress /\ NothingLost

-----------------------------------------------------------------------------
(* Operators. *)

\* The sequence of a table has every element once.
LEMMA SetToSeqIs ==
  ASSUME NEW S, IsFiniteSet(S)
  PROVE  /\ SetToSeq(S) \in Seq(S)
         /\ Len(SetToSeq(S)) = Cardinality(S)
         /\ ToSet(SetToSeq(S)) = S
<1> DEFINE n == Cardinality(S)
           f == SetToSeq(S)
<1>1. n \in Nat /\ ExistsBijection(1..n, S)
  BY FS_CardinalityType
<1>2. \E g \in [1..n -> S] : IsInjective(g)
  BY <1>1 DEF ExistsBijection, Bijection, Injection
<1>3. f \in [1..n -> S] /\ IsInjective(f)
  BY <1>2 DEF SetToSeq
<1>4. f \in Injection(1..n, S)
  BY <1>3 DEF Injection
<1>5. IsFiniteSet(1..n) /\ Cardinality(1..n) = n
  BY <1>1, FS_Interval
<1>6. f \in Surjection(1..n, S)
  BY <1>4, <1>5, FS_Injection
<1> HIDE DEF f, n
<1>7. f \in Seq(S) /\ Len(f) = n
  BY <1>1, <1>3
<1>8. ToSet(f) = S
  BY <1>3, <1>6 DEF ToSet, Surjection
<1> QED
  BY <1>7, <1>8 DEF f, n

\* The topics of finitely many publishers are finitely many.
LEMMA TopicsOfFinite ==
  ASSUME NEW P, IsFiniteSet(P)
  PROVE  IsFiniteSet(TopicsOf(P))
<1> DEFINE f == [p \in P |-> p[1]]
<1>1. f \in Surjection(P, TopicsOf(P))
  BY DEF Surjection, TopicsOf
<1> QED
  BY <1>1, FS_Surjection

\* What finishing arrays frees, block by block.
LEMMA ReachableIs ==
  ASSUME NEW a \in Arrays
  PROVE  \A b : b \in Reachable(a) <=>
           \/ b = <<"array", "names">> /\ a.names # <<>>
           \/ b = <<"array", "types">> /\ a.types # <<>>
           \/ \E k \in DOMAIN a.names : a.names[k] # Null /\ b = <<"name", k>>
  BY DEF Reachable, Arrays

LEMMA ReachableNone == NoArrays \in Arrays /\ Reachable(NoArrays) = {}
<1>1. NoArrays \in Arrays /\ NoArrays.names = <<>> /\ NoArrays.types = <<>>
  BY DEF NoArrays, Arrays
<1>2. DOMAIN NoArrays.names = {}
  BY <1>1
<1> QED
  BY <1>1, <1>2, ReachableIs

LEMMA TablesListed ==
  ASSUME QueryTypeOK
  PROVE  /\ DiscoveredNames \in Seq(Names)
         /\ Len(DiscoveredNames) = Cardinality(nodes)
         /\ ToSet(DiscoveredNames) = nodes
         /\ DiscoveredTopics \in Seq(Names)
         /\ Len(DiscoveredTopics) = Cardinality(subs \cup TopicsOf(pubs))
         /\ ToSet(DiscoveredTopics) = subs \cup TopicsOf(pubs)
<1> DEFINE T == subs \cup TopicsOf(pubs)
<1>1. nodes \subseteq Names /\ IsFiniteSet(nodes)
  BY DEF QueryTypeOK
<1>2. T \subseteq Names
  BY DEF QueryTypeOK, TopicsOf, Names
<1>3. IsFiniteSet(T)
  BY TopicsOfFinite, FS_Union DEF QueryTypeOK
<1> HIDE DEF T
<1>4. /\ DiscoveredNames \in Seq(nodes)
      /\ Len(DiscoveredNames) = Cardinality(nodes)
      /\ ToSet(DiscoveredNames) = nodes
  BY <1>1, SetToSeqIs DEF DiscoveredNames
<1>5. /\ DiscoveredTopics \in Seq(T)
      /\ Len(DiscoveredTopics) = Cardinality(T)
      /\ ToSet(DiscoveredTopics) = T
  BY <1>3, SetToSeqIs DEF DiscoveredTopics, T
<1>6. \A S, R : S \subseteq R => Seq(S) \subseteq Seq(R)
  BY SeqMonotonic
<1> QED
  BY <1>1, <1>2, <1>4, <1>5, <1>6 DEF T

\* Arrays with null pointers.
LEMMA NullsType ==
  ASSUME NEW n \in Nat
  PROVE  /\ Nulls(n) \in Seq({Null})
         /\ Nulls(n) \in Seq(Names \cup {Null})
         /\ Nulls(n) \in Seq({Null, NoTypes})
         /\ Len(Nulls(n)) = n
  BY DEF Nulls

-----------------------------------------------------------------------------
(* The steps of a call. *)

LEMMA BeginKeeps ==
  ASSUME QueryInv, NEW function \in {"nodes", "topics"}, NEW copy \in Seq(Names),
         NEW arrays \in Arrays, Begin(function, copy, arrays),
         Len(arrays.names) = Len(copy),
         \A k \in 1..Len(copy) : arrays.names[k] = Null,
         function = "nodes" => copy = DiscoveredNames /\ arrays.types = <<>>,
         function = "topics" =>
           copy = DiscoveredTopics /\ Len(arrays.types) = Len(copy)
  PROVE  QueryInv'
<1>1. /\ call = "none" /\ ret = "none" /\ list' = copy /\ index' = 0
      /\ UNCHANGED <<nodes, pubs, subs>>
  BY DEF Begin, tables
<1>2. result = NoArrays /\ live = {}
  BY <1>1, ReachableNone DEF QueryInv, ResultKept, NothingLost
<1>3. DiscoveredNames' = DiscoveredNames /\ DiscoveredTopics' = DiscoveredTopics
  BY <1>1 DEF DiscoveredNames, DiscoveredTopics
<1>4. index' \in 0..Len(list')
  BY <1>1
<1>5. CASE /\ call' = function /\ result' = arrays
           /\ live' = live \cup Reachable(arrays) /\ ret' = ret
  <2>1. QueryTypeOK'
    BY <1>1, <1>4, <1>5 DEF QueryInv, QueryTypeOK
  <2>2. ResultKept' /\ NothingLost'
    BY <1>1, <1>2, <1>5 DEF ResultKept, NothingLost
  <2>3. Filled' /\ Typed'
    BY <1>1, <1>5 DEF Filled, Typed
  <2>4. Progress'
    BY <1>1, <1>3, <1>5, <2>3 DEF Progress
  <2> QED
    BY <2>1, <2>2, <2>4 DEF QueryInv
<1>6. CASE ret' = "bad alloc" /\ UNCHANGED <<call, result, live>>
  <2>1. QueryTypeOK'
    BY <1>1, <1>4, <1>6 DEF QueryInv, QueryTypeOK
  <2>2. ResultKept' /\ NothingLost' /\ Progress'
    BY <1>1, <1>2, <1>6, ReachableNone DEF ResultKept, NothingLost, Progress
  <2> QED
    BY <2>1, <2>2 DEF QueryInv
<1> QED
  BY <1>5, <1>6 DEF Begin

\* A failed allocation: all that the call had allocated is freed.
LEMMA FailKeeps ==
  ASSUME QueryInv, FailCleanup, UNCHANGED <<tables, list>>
  PROVE  QueryInv'
<1>1. /\ result' = NoArrays /\ ret' = "bad alloc" /\ call' = "none"
      /\ UNCHANGED <<nodes, pubs, subs, list, index>>
  BY DEF FailCleanup, Return, tables
<1>2. live' = {}
  BY DEF FailCleanup, QueryInv, NothingLost
<1>3. QueryTypeOK'
  BY <1>1, ReachableNone DEF QueryInv, QueryTypeOK
<1> QED
  BY <1>1, <1>2, <1>3, ReachableNone
     DEF QueryInv, ResultKept, NothingLost, Progress

\* A name is copied, and is then reached from the result.
LEMMA StoreReached ==
  ASSUME QueryInv, call # "none", StoreName
  PROVE  /\ result' \in Arrays /\ result'.types = result.types
         /\ Len(result'.names) = Len(result.names)
         /\ result'.names[index + 1] = list[index + 1]
         /\ \A k \in DOMAIN list :
              k # index + 1 => result'.names[k] = result.names[k]
         /\ live' = Reachable(result')
<1> DEFINE k == index + 1
<1>1. list \in Seq(Names) /\ index \in 0..Len(list) /\ result \in Arrays
  BY DEF QueryInv, QueryTypeOK
<1>2. k \in 1..Len(list) /\ list[k] \in Names
  BY <1>1 DEF StoreName
<1>3. list[k] # Null
  BY <1>2, NullAssumption DEF Names
<1>4. /\ result.names \in Seq(Names \cup {Null}) /\ Len(result.names) = Len(list)
      /\ result.types \in Seq({Null, NoTypes})
      /\ result = [names |-> result.names, types |-> result.types]
  BY <1>1 DEF Arrays, QueryInv, Progress
<1> DEFINE filled == [result.names EXCEPT ![k] = list[k]]
<1>5. result' = [names |-> filled, types |-> result.types]
  BY <1>4 DEF StoreName
<1>6. /\ filled \in Seq(Names \cup {Null}) /\ Len(filled) = Len(result.names)
      /\ DOMAIN filled = DOMAIN result.names
      /\ filled[k] = list[k]
      /\ \A j \in DOMAIN result.names : j # k => filled[j] = result.names[j]
  BY <1>2, <1>4
<1> HIDE DEF filled
<1>7. /\ result' \in Arrays /\ result'.names = filled
      /\ result'.types = result.types
  BY <1>4, <1>5, <1>6 DEF Arrays
<1>8. result.names # <<>> /\ filled # <<>>
  BY <1>2, <1>4, <1>6
<1>9. live' = Reachable(result) \cup {<<"name", k>>}
  BY DEF StoreName, QueryInv, NothingLost
<1>10. \A j \in DOMAIN filled :
         filled[j] # Null <=> result.names[j] # Null \/ j = k
  BY <1>3, <1>6
<1>11. k \in DOMAIN filled
  BY <1>2, <1>4, <1>6
<1>12. ASSUME NEW b
       PROVE  b \in Reachable(result') <=> b \in Reachable(result) \/ b = <<"name", k>>
  BY <1>1, <1>6, <1>7, <1>8, <1>10, <1>11, ReachableIs
<1>13. live' = Reachable(result')
  BY <1>9, <1>12
<1>14. DOMAIN list = DOMAIN result.names
  BY <1>1, <1>4
<1> QED
  BY <1>6, <1>7, <1>13, <1>14

LEMMA CopyNodeKeeps ==
  ASSUME QueryInv, CopyNode
  PROVE  QueryInv'
<1>1. call = "nodes" /\ UNCHANGED <<tables, list>>
  BY DEF CopyNode
<1>2. /\ list \in Seq(Names) /\ index \in 0..Len(list) /\ Len(list) \in Nat
      /\ list = DiscoveredNames /\ UNCHANGED <<nodes, pubs, subs>>
      /\ DOMAIN list = 1..Len(list) /\ Filled
  <2>1. list \in Seq(Names) /\ index \in 0..Len(list)
    BY DEF QueryInv, QueryTypeOK
  <2>2. list = DiscoveredNames /\ Filled /\ UNCHANGED <<nodes, pubs, subs>>
    BY <1>1 DEF QueryInv, Progress, tables
  <2> QED
    BY <2>1, <2>2
<1>3. CASE StoreName /\ index' = index + 1
  <2>1. /\ result' \in Arrays /\ result'.types = result.types
        /\ Len(result'.names) = Len(result.names)
        /\ result'.names[index + 1] = list[index + 1]
        /\ \A k \in DOMAIN list :
             k # index + 1 => result'.names[k] = result.names[k]
        /\ live' = Reachable(result')
    BY <1>1, <1>3, StoreReached
  <2>2. UNCHANGED <<call, ret>> /\ index < Len(list)
    BY <1>3 DEF StoreName
  <2>3. index' \in 0..Len(list')
    BY <1>1, <1>2, <1>3, <2>2
  <2>4. QueryTypeOK'
    BY <1>1, <1>2, <2>1, <2>2, <2>3 DEF QueryInv, QueryTypeOK
  <2>5. ResultKept' /\ NothingLost'
    BY <1>1, <2>1, <2>2 DEF QueryInv, ResultKept, NothingLost
  <2>6. Filled'
    BY <1>1, <1>2, <1>3, <2>1 DEF Filled
  <2>7. Progress'
    BY <1>1, <1>2, <2>1, <2>2, <2>6 DEF QueryInv, Progress, DiscoveredNames
  <2> QED
    BY <2>4, <2>5, <2>7 DEF QueryInv
<1> QED
  BY <1>1, <1>3, FailKeeps DEF CopyNode

LEMMA CopyTopicKeeps ==
  ASSUME QueryInv, CopyTopic
  PROVE  QueryInv'
<1>1. call = "topics" /\ UNCHANGED <<tables, list>>
  BY DEF CopyTopic
<1>2. /\ list \in Seq(Names) /\ index \in 0..Len(list) /\ Len(list) \in Nat
      /\ result \in Arrays /\ ret = "none"
      /\ Len(result.names) = Len(list) /\ Len(result.types) = Len(list)
      /\ list = DiscoveredTopics /\ UNCHANGED <<nodes, pubs, subs>>
      /\ DOMAIN list = 1..Len(list) /\ Filled /\ Typed
  BY <1>1 DEF QueryInv, QueryTypeOK, ResultKept, Progress, tables
<1>3. CASE StoreName /\ UNCHANGED index
  <2>1. /\ result' \in Arrays /\ result'.types = result.types
        /\ Len(result'.names) = Len(result.names)
        /\ result'.names[index + 1] = list[index + 1]
        /\ \A k \in DOMAIN list :
             k # index + 1 => result'.names[k] = result.names[k]
        /\ live' = Reachable(result')
    BY <1>1, <1>3, StoreReached
  <2>2. UNCHANGED <<call, ret>>
    BY <1>3 DEF StoreName
  <2>3. QueryTypeOK'
    BY <1>1, <1>2, <1>3, <2>1, <2>2 DEF QueryInv, QueryTypeOK
  <2>4. ResultKept' /\ NothingLost'
    BY <1>1, <1>2, <2>1, <2>2 DEF QueryInv, ResultKept, NothingLost
  <2>5. Filled' /\ Typed'
    BY <1>1, <1>2, <1>3, <2>1 DEF Filled, Typed
  <2>6. Progress'
    BY <1>1, <1>2, <2>1, <2>2, <2>5 DEF Progress, DiscoveredTopics
  <2> QED
    BY <2>3, <2>4, <2>6 DEF QueryInv
<1>4. CASE /\ index < Len(list)
           /\ result.names[index + 1] # Null
           /\ result' = [result EXCEPT !.types[index + 1] = NoTypes]
           /\ index' = index + 1
           /\ UNCHANGED <<call, live, ret>>
  <2> DEFINE k == index + 1
             filled == [result.types EXCEPT ![k] = NoTypes]
  <2>1. k \in 1..Len(list) /\ index' = k
    BY <1>2, <1>4
  <2>2. /\ result.names \in Seq(Names \cup {Null})
        /\ result.types \in Seq({Null, NoTypes})
        /\ result = [names |-> result.names, types |-> result.types]
    BY <1>2 DEF Arrays
  <2>3. result' = [names |-> result.names, types |-> filled]
    BY <1>4, <2>2
  <2>4. /\ filled \in Seq({Null, NoTypes}) /\ Len(filled) = Len(list)
        /\ filled[k] = NoTypes
        /\ \A j \in 1..Len(list) : j # k => filled[j] = result.types[j]
    BY <1>2, <2>1, <2>2
  <2> HIDE DEF filled
  <2>5. result' \in Arrays /\ result'.names = result.names /\ result'.types = filled
    BY <2>2, <2>3, <2>4 DEF Arrays
  <2>6. filled # <<>> /\ result.types # <<>>
    BY <1>2, <2>1, <2>2, <2>4
  <2>7. \A b : b \in Reachable(result') <=> b \in Reachable(result)
    BY <1>2, <2>5, <2>6, ReachableIs
  <2>8. live' = Reachable(result')
    BY <1>4, <2>7 DEF QueryInv, NothingLost
  <2>9. QueryTypeOK'
    BY <1>1, <1>2, <1>4, <2>1, <2>5 DEF QueryInv, QueryTypeOK
  <2>10. ResultKept' /\ NothingLost'
    BY <1>1, <1>2, <1>4, <2>8 DEF ResultKept, NothingLost
  <2>11. Filled'
    BY <1>1, <1>2, <1>4, <2>1, <2>5 DEF Filled
  <2>12. Typed'
    BY <1>2, <2>1, <2>4, <2>5 DEF Typed
  <2>13. Progress'
    BY <1>1, <1>2, <1>4, <2>4, <2>5, <2>11, <2>12 DEF Progress, DiscoveredTopics
  <2> QED
    BY <2>9, <2>10, <2>13 DEF QueryInv
<1> QED
  BY <1>1, <1>3, <1>4, FailKeeps DEF CopyTopic

-----------------------------------------------------------------------------
(* The invariant. *)

LEMMA QueryInvInit == QueryInit => QueryInv
<1> SUFFICES ASSUME QueryInit PROVE QueryInv
  OBVIOUS
<1>1. IsFiniteSet({})
  BY FS_EmptySet
<1>2. QueryTypeOK
  BY <1>1, ReachableNone DEF QueryInit, QueryTypeOK
<1> QED
  BY <1>2, ReachableNone DEF QueryInit, QueryInv, ResultKept, Progress, NothingLost

\* A heartbeat adds a key to a table, between two calls.
LEMMA HeardKeeps ==
  ASSUME QueryInv, Heard, QueryTypeOK'
  PROVE  QueryInv'
  BY DEF Heard, QueryInv, ResultKept, Progress, NothingLost

LEMMA HearKeeps ==
  ASSUME QueryInv,
         \/ \E n \in NodeNames : HearNode(n)
         \/ \E t \in Topics : HearSubscriber(t) \/ \E i \in Ids : HearPublisher(t, i)
  PROVE  QueryInv'
<1>1. ASSUME NEW S, NEW x, IsFiniteSet(S)
      PROVE  IsFiniteSet(S \cup {x})
  BY <1>1, FS_AddElement
<1>2. ASSUME NEW n \in NodeNames, HearNode(n)
      PROVE  QueryInv'
  <2>1. QueryTypeOK'
    BY <1>1, <1>2 DEF HearNode, Heard, QueryInv, QueryTypeOK, Names
  <2> QED
    BY <1>2, <2>1, HeardKeeps DEF HearNode
<1>3. ASSUME NEW t \in Topics, HearSubscriber(t)
      PROVE  QueryInv'
  <2>1. QueryTypeOK'
    BY <1>1, <1>3 DEF HearSubscriber, Heard, QueryInv, QueryTypeOK
  <2> QED
    BY <1>3, <2>1, HeardKeeps DEF HearSubscriber
<1>4. ASSUME NEW t \in Topics, NEW i \in Ids, HearPublisher(t, i)
      PROVE  QueryInv'
  <2>1. pubs \subseteq Topics \X Ids /\ IsFiniteSet(pubs)
    BY DEF QueryInv, QueryTypeOK
  <2>2. pubs' = pubs \cup {<<t, i>>}
    BY <1>4 DEF HearPublisher
  <2>3. pubs' \subseteq Topics \X Ids
    BY <2>1, <2>2
  <2>4. IsFiniteSet(pubs')
    BY <1>1, <2>1, <2>2
  <2>5. QueryTypeOK'
    BY <1>4, <2>3, <2>4 DEF HearPublisher, Heard, QueryInv, QueryTypeOK
  <2> QED
    BY <1>4, <2>5, HeardKeeps DEF HearPublisher
<1> QED
  BY <1>2, <1>3, <1>4

LEMMA GetNodeNamesKeeps ==
  ASSUME QueryInv, GetNodeNames
  PROVE  QueryInv'
<1> DEFINE n == Len(DiscoveredNames)
           arrays == [NoArrays EXCEPT !.names = Nulls(n)]
<1>1. DiscoveredNames \in Seq(Names) /\ n \in Nat
  BY TablesListed DEF QueryInv
<1>2. arrays = [names |-> Nulls(n), types |-> <<>>]
  BY DEF NoArrays
<1>3. /\ Nulls(n) \in Seq(Names \cup {Null}) /\ Len(Nulls(n)) = n
      /\ \A k \in 1..n : Nulls(n)[k] = Null
  BY <1>1, NullsType DEF Nulls
<1>4. /\ arrays \in Arrays /\ arrays.types = <<>> /\ Len(arrays.names) = n
      /\ \A k \in 1..n : arrays.names[k] = Null
  <2>1. <<>> \in Seq({Null, NoTypes})
    OBVIOUS
  <2>2. arrays \in Arrays
    BY <1>2, <1>3, <2>1 DEF Arrays
  <2> QED
    BY <1>2, <1>3, <2>2
<1>5. Begin("nodes", DiscoveredNames, arrays)
  BY DEF GetNodeNames
<1> HIDE DEF arrays
<1> QED
  BY <1>1, <1>4, <1>5, BeginKeeps

LEMMA GetTopicsKeeps ==
  ASSUME QueryInv, GetTopics
  PROVE  QueryInv'
<1> DEFINE n == Len(DiscoveredTopics)
           arrays == [names |-> Nulls(n), types |-> Nulls(n)]
<1>1. DiscoveredTopics \in Seq(Names) /\ n \in Nat
  BY TablesListed DEF QueryInv
<1>2. /\ Nulls(n) \in Seq(Names \cup {Null}) /\ Len(Nulls(n)) = n
      /\ Nulls(n) \in Seq({Null, NoTypes})
      /\ \A k \in 1..n : Nulls(n)[k] = Null
  BY <1>1, NullsType DEF Nulls
<1>3. /\ arrays \in Arrays /\ Len(arrays.types) = n /\ Len(arrays.names) = n
      /\ \A k \in 1..n : arrays.names[k] = Null
  BY <1>2 DEF Arrays
<1>4. Begin("topics", DiscoveredTopics, arrays)
  BY DEF GetTopics
<1> HIDE DEF arrays
<1> QED
  BY <1>1, <1>3, <1>4, BeginKeeps

\* A call succeeds, and the caller is done with what it got.
LEMMA ReturnedKeeps ==
  ASSUME QueryInv, Returned
  PROVE  QueryInv'
  BY DEF Returned, Return, tables, QueryInv, QueryTypeOK, ResultKept, Progress,
         NothingLost

LEMMA CallerDoneKeeps ==
  ASSUME QueryInv, CallerDone
  PROVE  QueryInv'
<1>1. /\ ret # "none" /\ ret' = "none" /\ list' = <<>> /\ index' = 0
      /\ UNCHANGED <<nodes, pubs, subs, call>>
  BY DEF CallerDone, tables
<1>2. call = "none"
  BY <1>1 DEF QueryInv, ResultKept
<1>3. result' = NoArrays /\ live' = {}
  <2>1. CASE ret = "ok"
    BY <2>1 DEF CallerDone, QueryInv, NothingLost
  <2>2. CASE ret # "ok"
    <3>1. result = NoArrays
      BY <1>2, <2>2 DEF QueryInv, ResultKept
    <3>2. live = {}
      BY <3>1, ReachableNone DEF QueryInv, NothingLost
    <3> QED
      BY <2>2, <3>1, <3>2 DEF CallerDone
  <2> QED
    BY <2>1, <2>2
<1>4. QueryTypeOK'
  <2>1. <<>> \in Seq(Names) /\ Len(<<>>) = 0
    OBVIOUS
  <2>2. list' \in Seq(Names) /\ index' \in 0..Len(list')
    BY <1>1, <2>1
  <2>3. result' \in Arrays
    BY <1>3, ReachableNone
  <2> QED
    BY <1>1, <2>2, <2>3 DEF QueryInv, QueryTypeOK
<1> QED
  BY <1>1, <1>2, <1>3, <1>4, ReachableNone
     DEF QueryInv, ResultKept, Progress, NothingLost

LEMMA QueryInvStep == QueryInv /\ [QueryNext]_queryVars => QueryInv'
<1> SUFFICES ASSUME QueryInv, [QueryNext]_queryVars PROVE QueryInv'
  OBVIOUS
<1>1. CASE UNCHANGED queryVars
  BY <1>1 DEF queryVars, tables, QueryInv, QueryTypeOK, ResultKept, Progress, Filled,
              Typed, DiscoveredNames, DiscoveredTopics, NothingLost
<1>2. CASE QueryNext
  BY <1>2, HearKeeps, GetNodeNamesKeeps, CopyNodeKeeps, GetTopicsKeeps,
     CopyTopicKeeps, ReturnedKeeps, CallerDoneKeeps
     DEF QueryNext
<1> QED
  BY <1>1, <1>2

\* The inductive invariant holds.
LEMMA QueryInvHolds == QuerySpec => []QueryInv
  BY QueryInvInit, QueryInvStep, PTL DEF QuerySpec

\* Whichever allocation fails, what is allocated is what finishing the arrays of the
\* caller frees, and nothing after an error.
THEOREM NothingLostCorrect == QuerySpec => []NothingLost
<1>1. QueryInv => NothingLost
  BY DEF QueryInv
<1> QED
  BY <1>1, QueryInvHolds, PTL

\* A call that succeeds returns every name of its table once, whatever the order
\* in which the heartbeats filled it.
THEOREM CompleteCopyCorrect == QuerySpec => CompleteCopy
<1> DEFINE table == IF call = "nodes" THEN nodes ELSE subs \cup TopicsOf(pubs)
           Whole == /\ ToSet(result.names) = table
                    /\ Len(result.names) = Cardinality(table)
                    /\ call = "topics" => result.types = [k \in DOMAIN list |-> NoTypes]
<1>1. ASSUME QueryInv, QueryNext, call # "none", ret' = "ok"
      PROVE  Whole
  <2>1. ret = "none" /\ call \in {"nodes", "topics"}
    BY <1>1 DEF QueryInv, QueryTypeOK, ResultKept
  <2>2. index = Len(list)
    BY <1>1, <2>1
       DEF QueryNext, HearNode, HearSubscriber, HearPublisher, Heard, GetNodeNames,
           GetTopics, Begin, CopyNode, CopyTopic, StoreName, FailCleanup, Return,
           Returned, CallerDone
  <2>3. /\ list \in Seq(Names) /\ result \in Arrays
        /\ Len(result.names) = Len(list) /\ Filled
        /\ call = "topics" => Len(result.types) = Len(list) /\ Typed
    BY <1>1 DEF QueryInv, QueryTypeOK, Progress
  <2>4. result.names \in Seq(Names \cup {Null}) /\ result.types \in Seq({Null, NoTypes})
    BY <2>3 DEF Arrays
  <2>5. \A k \in 1..Len(list) : result.names[k] = list[k]
    BY <2>2, <2>3 DEF Filled
  <2>6. result.names = list
    BY <2>3, <2>4, <2>5
  <2>7. ToSet(list) = table /\ Len(list) = Cardinality(table)
    BY <1>1, <2>1, TablesListed DEF QueryInv, Progress
  <2>8. call = "topics" => result.types = [k \in DOMAIN list |-> NoTypes]
    BY <2>2, <2>3, <2>4 DEF Typed
  <2> QED
    BY <2>6, <2>7, <2>8
<1>2. QueryInv /\ [QueryNext]_queryVars =>
        [call # "none" /\ ret' = "ok" => Whole]_queryVars
  BY <1>1
<1> QED
  BY <1>2, QueryInvHolds, PTL DEF QuerySpec, CompleteCopy
=============================================================================
