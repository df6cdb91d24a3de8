-------------------------- MODULE FlowCacheProofs --------------------------
(***************************************************************************)
(* Proofs about FlowCache: what concurrent lookups of flows may and may    *)
(* not find in the cache.                                                  *)
(***************************************************************************)
EXTENDS FlowCache, TLAPS

LEMMA TypeInit == Init => TypeOK
<1> SUFFICES ASSUME Init PROVE TypeOK
  OBVIOUS
<1>1. cache = Null
  BY DEF Init
<1> QED  BY <1>1 DEF Init, TypeOK

\* The maps that a new and a completed cache are.
LEMMA CreateFacts ==
  ASSUME NEW r, Create(r)
  PROVE  cache' \in [{} -> Nat] /\ cache' # Null /\ DOMAIN cache' = {}
<1>1. cache' \in [{} -> Nat]
  BY DEF Create
<1>2. {} \in SUBSET Stacks
  OBVIOUS
<1> QED  BY <1>1, <1>2, NullIsDistinct

LEMMA StoreFacts ==
  ASSUME TypeOK, NEW r \in Requests, Store(r)
  PROVE  /\ \E D \in SUBSET Stacks : cache' \in [D -> Nat]
         /\ cache' # Null
         /\ want[r] \in DOMAIN cache' /\ cache'[want[r]] = flow[r]
<1>1. PICK D \in SUBSET Stacks : cache \in [D -> Nat]
  BY DEF Store, TypeOK
<1>2. cache' \in [D \cup {want[r]} -> Nat] /\ D \cup {want[r]} \in SUBSET Stacks
  BY <1>1 DEF Store, TypeOK
<1>3. want[r] \in DOMAIN cache' /\ cache'[want[r]] = flow[r]
  BY DEF Store
<1> QED  BY <1>2, <1>3, NullIsDistinct

LEMMA StepType ==
  ASSUME TypeOK, NEW r \in Requests, Step(r)
  PROVE  TypeOK'
<1> USE DEF TypeOK, Goto, files, history
<1>1. CASE Test(r)
  BY <1>1 DEF Test
<1>2. CASE Create(r)
  BY <1>2, CreateFacts DEF Create
<1>3. CASE NoMap(r)
  BY <1>3 DEF NoMap
<1>4. CASE Lookup(r)
  BY <1>4 DEF Lookup
<1>5. CASE Build(r)
  BY <1>5 DEF Build
<1>6. CASE BuildBreaks(r)
  BY <1>6 DEF BuildBreaks
<1>7. CASE Store(r)
  BY <1>7, StoreFacts DEF Store
<1>8. CASE Reread(r)
  <2>1. got' \in [Requests -> Nat \cup {Null}]
    BY <1>8 DEF Reread
  <2> QED  BY <1>8, <2>1 DEF Reread
<1> QED  BY <1>1, <1>2, <1>3, <1>4, <1>5, <1>6, <1>7, <1>8 DEF Step

LEMMA TypeNext == TypeOK /\ [Next]_vars => TypeOK'
<1> SUFFICES ASSUME TypeOK, [Next]_vars PROVE TypeOK'
  OBVIOUS
<1>1. ASSUME NEW r \in Requests, Step(r)
      PROVE  TypeOK'
  BY <1>1, StepType
<1>2. ASSUME NEW r \in Requests, NEW k \in Stacks, Begin(r, k)
      PROVE  TypeOK'
  <2>1. met' \in [Requests -> BOOLEAN]
    BY <1>2 DEF Begin, TypeOK, UnderWay
  <2> QED  BY <1>2, <2>1 DEF Begin, TypeOK, Goto, files
<1>3. ASSUME NEW k \in Stacks, Edit(k)
      PROVE  TypeOK'
  BY <1>3 DEF Edit, TypeOK, request
<1>4. ASSUME NEW k \in Stacks, NEW flag \in BOOLEAN, Clear(k, flag)
      PROVE  TypeOK'
  <2>1. cleared' \in [Requests -> BOOLEAN]
    BY <1>4 DEF Clear, TypeOK, UnderWay
  <2> QED  BY <1>4, <2>1 DEF Clear, TypeOK, request
<1>5. ASSUME NEW k \in Stacks, NEW flag \in BOOLEAN, Save(k, flag)
      PROVE  TypeOK'
  BY <1>5 DEF Save, TypeOK, request
<1>6. CASE UNCHANGED vars
  BY <1>6 DEF vars, TypeOK
<1> QED  BY <1>1, <1>2, <1>3, <1>4, <1>5, <1>6 DEF Next

\* Every variable keeps its type.
THEOREM TypeCorrect == Spec => []TypeOK
BY TypeInit, TypeNext, PTL DEF Spec
-----------------------------------------------------------------------------
(***************************************************************************)
(* The invariant.                                                          *)
(***************************************************************************)
LEMMA FilesInvNext ==
  ASSUME TypeOK, FlowInv, [Next]_vars
  PROVE  FilesInv'
<1> USE DEF FlowInv, FilesInv
<1>0. \A k \in Stacks : disk[k] \in Nat /\ floor[k] \in Nat
  BY DEF TypeOK
<1>1. ASSUME NEW r \in Requests, Step(r)
      PROVE  FilesInv'
  <2>1. disk' = disk /\ floor' = floor
    BY <1>1 DEF Step, Test, Create, NoMap, Lookup, Build, BuildBreaks, Store, Reread, files
  <2>2. CASE Create(r)
    BY <2>1, <2>2 DEF Create
  <2>3. CASE Store(r)
    <3>1. flow[r] <= disk[want[r]]
      BY <2>3 DEF Store, RequestInv
    <3> QED  BY <2>1, <2>3, <3>1 DEF Store
  <2>4. CASE cache' = cache
    BY <2>1, <2>4
  <2> QED  BY <1>1, <2>2, <2>3, <2>4
           DEF Step, Test, NoMap, Lookup, Build, BuildBreaks, Reread
<1>2. ASSUME NEW r \in Requests, NEW k \in Stacks, Begin(r, k)
      PROVE  FilesInv'
  BY <1>2 DEF Begin, files
<1>3. ASSUME NEW k \in Stacks, Edit(k)
      PROVE  FilesInv'
  <2>1. \A j \in Stacks : disk'[j] \in Nat /\ disk'[j] >= disk[j]
    BY <1>0, <1>3 DEF Edit, TypeOK
  <2>2. cache' = cache /\ floor' = floor
    BY <1>3 DEF Edit
  <2>3. cache # Null => DOMAIN cache \subseteq Stacks /\ \A j \in DOMAIN cache : cache[j] \in Nat
    BY DEF TypeOK
  <2> QED  BY <1>0, <2>1, <2>2, <2>3
<1>4. ASSUME NEW k \in Stacks, NEW flag \in BOOLEAN, Clear(k, flag)
      PROVE  FilesInv'
  BY <1>0, <1>4 DEF Clear
<1>5. ASSUME NEW k \in Stacks, NEW flag \in BOOLEAN, Save(k, flag)
      PROVE  FilesInv'
  BY <1>5 DEF Save
<1>6. CASE UNCHANGED vars
  BY <1>6 DEF vars
<1> QED  BY <1>1, <1>2, <1>3, <1>4, <1>5, <1>6 DEF Next

\* A step of a lookup concerns one request that was under way.
LEMMA StepFrame ==
  ASSUME TypeOK, NEW r \in Requests, Step(r)
  PROVE  /\ UnderWay(r)
         /\ UNCHANGED <<want, dev, begun, met, cleared, disk, floor>>
         /\ \A q \in Requests \ {r} :
              pc'[q] = pc[q] /\ flow'[q] = flow[q] /\ got'[q] = got[q]
         /\ cache' = cache \/ Create(r) \/ Store(r)
BY DEF Step, Test, Create, NoMap, Lookup, Build, BuildBreaks, Store, Reread, files, history,
       Goto, UnderWay, TypeOK

LEMMA MeetInvNext ==
  ASSUME TypeOK, MeetInv, [Next]_vars
  PROVE  MeetInv'
<1> USE DEF MeetInv
<1>1. ASSUME NEW r \in Requests, Step(r)
      PROVE  MeetInv'
  <2>1. met' = met /\ \A q \in Requests : UnderWay(q)' => UnderWay(q)
    BY <1>1, StepFrame DEF UnderWay
  <2> QED  BY <2>1
<1>2. ASSUME NEW r \in Requests, NEW k \in Stacks, Begin(r, k)
      PROVE  MeetInv'
  <2>1. \A q \in Requests \ {r} : UnderWay(q)' <=> UnderWay(q)
    BY <1>2 DEF Begin, Goto, TypeOK, UnderWay
  <2>2. /\ met'[r] = (\E p \in Requests \ {r} : UnderWay(p))
        /\ \A q \in Requests \ {r} : met'[q] = (met[q] \/ UnderWay(q))
    BY <1>2 DEF Begin
  <2> QED  BY <2>1, <2>2
<1>3. ASSUME met' = met, pc' = pc
      PROVE  MeetInv'
  BY <1>3 DEF UnderWay
<1> QED  BY <1>1, <1>2, <1>3 DEF Next, Edit, Clear, Save, request, vars

LEMMA RequestInvStep ==
  ASSUME TypeOK, FlowInv, NEW q \in Requests, Step(q), NEW r \in Requests
  PROVE  RequestInv(r)'
<1>0. FilesInv /\ RequestInv(r) /\ RequestInv(q) /\ MeetInv
  BY DEF FlowInv
<1>1. CASE r # q
  <2>1. /\ pc'[r] = pc[r] /\ flow'[r] = flow[r]
        /\ UNCHANGED <<want, dev, begun, met, cleared, disk, floor>>
    BY <1>1, StepFrame
  <2>2. UnderWay(r) => met[r]
    BY <1>0, <1>1, StepFrame DEF MeetInv
  <2>3. cache # Null => cache' # Null
    BY StepFrame, CreateFacts, StoreFacts
  <2>4. pc[r] \in {"test", "create", "lookup", "build", "store", "reread"} => met[r]
    BY <2>2 DEF UnderWay
  <2> QED  BY <1>0, <2>1, <2>3, <2>4 DEF RequestInv, UnderWay
<1>2. CASE r = q
  <2>0. begun[q] \in Nat /\ disk[want[q]] \in Nat /\ floor[want[q]] \in Nat
    BY DEF TypeOK
  <2> USE DEF RequestInv, UnderWay, Goto, Cached, history, files
  <2>1. CASE Test(q)
    BY <1>0, <2>1 DEF Test, TypeOK
  <2>2. CASE Create(q)
    <3>1. pc[q] = "create" /\ pc'[q] = "lookup"
      BY <2>2 DEF Create, TypeOK
    <3>2. UNCHANGED <<want, dev, begun, met, cleared, disk, floor, flow>>
      BY <2>2 DEF Create
    <3>3. cache' # Null /\ ~ Cached(q)'
      BY <2>2, <3>2, CreateFacts
    <3> HIDE DEF Cached
    <3> QED  BY <1>0, <1>2, <2>0, <3>1, <3>2, <3>3
  <2>3. CASE NoMap(q)
    BY <1>0, <2>3 DEF NoMap, TypeOK
  <2>4. CASE Lookup(q)
    BY <1>0, <2>4 DEF Lookup, IsMissing, TypeOK
  <2>5. CASE Build(q)
    BY <1>0, <2>0, <2>5 DEF Build, TypeOK, FilesInv
  <2>6. CASE BuildBreaks(q)
    BY <1>0, <2>6 DEF BuildBreaks, TypeOK
  <2>7. CASE Store(q)
    <3>1. pc[q] = "store" /\ pc'[q] = "reread"
      BY <2>7 DEF Store, TypeOK
    <3>2. UNCHANGED <<want, dev, begun, met, cleared, disk, floor, flow>>
      BY <2>7 DEF Store
    <3>3. cache' # Null /\ Cached(q)' /\ cache'[want[q]] = flow[q]
      BY <2>7, <3>2, StoreFacts
    <3> HIDE DEF Cached
    <3> QED  BY <1>0, <1>2, <2>0, <3>1, <3>2, <3>3
  <2>8. CASE Reread(q)
    BY <1>0, <2>8 DEF Reread, TypeOK
  <2> QED  BY <1>2, <2>1, <2>2, <2>3, <2>4, <2>5, <2>6, <2>7, <2>8 DEF Step
<1> QED  BY <1>1, <1>2

LEMMA RequestInvNext ==
  ASSUME TypeOK, FlowInv, [Next]_vars, NEW r \in Requests
  PROVE  RequestInv(r)'
<1>0. FilesInv /\ RequestInv(r) /\ MeetInv
  BY DEF FlowInv
<1>1. ASSUME NEW q \in Requests, Step(q)
      PROVE  RequestInv(r)'
  BY <1>1, RequestInvStep
<1>2. ASSUME NEW q \in Requests, NEW k \in Stacks, Begin(q, k)
      PROVE  RequestInv(r)'
  <2>1. UNCHANGED <<cache, disk, floor, flow>>
    BY <1>2 DEF Begin, files
  <2>2. CASE r = q
    <3>1. pc'[r] = "test" /\ want'[r] = k /\ begun'[r] = disk[k] /\ disk[k] \in Nat
      BY <1>2, <2>2 DEF Begin, Goto, TypeOK
    <3>2. Cached(r)' => cache[k] <= disk[k]
      BY <1>0, <2>1, <3>1 DEF Cached, FilesInv
    <3> QED  BY <2>1, <3>1, <3>2 DEF RequestInv, UnderWay
  <2>3. CASE r # q
    <3>1. /\ pc'[r] = pc[r] /\ want'[r] = want[r] /\ begun'[r] = begun[r]
          /\ dev'[r] = dev[r] /\ cleared'[r] = cleared[r] /\ (met[r] => met'[r])
      BY <1>2, <2>3 DEF Begin, Goto, TypeOK
    <3> QED  BY <1>0, <2>1, <3>1 DEF RequestInv, UnderWay, Cached
  <2> QED  BY <2>2, <2>3
<1>3. ASSUME NEW k \in Stacks, Edit(k)
      PROVE  RequestInv(r)'
  <2>1. /\ UNCHANGED <<pc, want, dev, flow, begun, met, cleared, cache, floor>>
        /\ \A j \in Stacks : disk[j] \in Nat /\ disk'[j] \in Nat /\ disk'[j] >= disk[j]
    BY <1>3 DEF Edit, request, TypeOK
  <2>2. want[r] \in Stacks /\ begun[r] \in Nat /\ flow[r] \in Nat
    BY DEF TypeOK
  <2> QED  BY <1>0, <2>1, <2>2 DEF RequestInv, UnderWay, Cached
<1>4. ASSUME NEW k \in Stacks, NEW flag \in BOOLEAN, Clear(k, flag)
      PROVE  RequestInv(r)'
  <2>1. /\ UNCHANGED <<pc, want, dev, flow, begun, met, disk>>
        /\ cache' = Null
        /\ cleared'[r] = (cleared[r] \/ UnderWay(r))
    BY <1>4 DEF Clear, request
  <2> QED  BY <1>0, <2>1 DEF RequestInv, UnderWay, Cached
<1>5. ASSUME UNCHANGED <<pc, want, dev, flow, begun, met, cleared, cache, disk, floor>>
      PROVE  RequestInv(r)'
  BY <1>0, <1>5 DEF RequestInv, UnderWay, Cached
<1> QED  BY <1>1, <1>2, <1>3, <1>4, <1>5 DEF Next, Save, request, vars

LEMMA FlowInvInit == Init => FlowInv
BY DEF Init, FlowInv, FilesInv, MeetInv, RequestInv, UnderWay, Cached

\* The cache holds no flow of the future, requests know of each other, and each
\* is where the map allows it to be.
THEOREM FlowInvariant == Spec => []FlowInv
<1>1. TypeOK /\ FlowInv /\ [Next]_vars => FlowInv'
  <2> SUFFICES ASSUME TypeOK, FlowInv, [Next]_vars PROVE FlowInv'
    OBVIOUS
  <2>1. MeetInv'
    BY MeetInvNext DEF FlowInv
  <2> QED  BY <2>1, FilesInvNext, RequestInvNext DEF FlowInv
<1> QED  BY <1>1, FlowInvInit, TypeCorrect, PTL DEF Spec
-----------------------------------------------------------------------------
(***************************************************************************)
(* The properties.                                                         *)
(***************************************************************************)
AnswersInv == LookupsAnswer /\ LoneDevLookupsAreFresh

LEMMA AnswersStep ==
  ASSUME TypeOK, FlowInv, AnswersInv, NEW q \in Requests, Step(q)
  PROVE  AnswersInv'
<1>0. RequestInv(q)
  BY DEF FlowInv
<1>1. ASSUME NEW r \in Requests \ {q}
      PROVE  /\ pc'[r] = pc[r] /\ got'[r] = got[r]
             /\ UNCHANGED <<met, cleared, dev, begun>>
  BY StepFrame
<1>2. pc'[q] = "failed" => cleared[q]
  <2>1. CASE NoMap(q)
    <3> QED  BY <1>0, <2>1 DEF NoMap, RequestInv
  <2>2. CASE ~ NoMap(q)
    BY <2>2 DEF Step, Test, Create, Lookup, Build, BuildBreaks, Store, Reread, Goto, TypeOK
  <2> QED  BY <2>1, <2>2
<1>3. pc'[q] = "done" =>
        /\ pc[q] = "reread"
        /\ got'[q] = IF want[q] \in DOMAIN cache THEN cache[want[q]] ELSE Null
        /\ cache # Null
  BY DEF Step, Test, Create, NoMap, Lookup, Build, BuildBreaks, Store, Reread, Goto, TypeOK
<1>4. pc'[q] = "done" /\ got'[q] = Null => cleared[q] \/ met[q]
  <2> SUFFICES ASSUME pc'[q] = "done", got'[q] = Null, ~ cleared[q], ~ met[q]
               PROVE  FALSE
    OBVIOUS
  <2>1. want[q] \in DOMAIN cache
    BY <1>0, <1>3 DEF RequestInv, Cached
  <2>2. cache[want[q]] \in Nat
    BY <1>3, <2>1 DEF TypeOK
  <2> QED  BY <1>3, <2>1, <2>2, NullIsDistinct
<1>5. pc'[q] = "done" /\ dev[q] /\ ~ met[q] /\ got'[q] # Null => got'[q] >= begun[q]
  BY <1>0, <1>3 DEF RequestInv, Cached
<1>6. UNCHANGED <<met, cleared, dev, begun>>
  BY StepFrame
<1> QED  BY <1>1, <1>2, <1>4, <1>5, <1>6
         DEF AnswersInv, LookupsAnswer, LoneDevLookupsAreFresh

LEMMA AnswersNext == TypeOK /\ FlowInv /\ AnswersInv /\ [Next]_vars => AnswersInv'
<1> SUFFICES ASSUME TypeOK, FlowInv, AnswersInv, [Next]_vars PROVE AnswersInv'
  OBVIOUS
<1> USE DEF AnswersInv, LookupsAnswer, LoneDevLookupsAreFresh
<1>1. ASSUME NEW q \in Requests, Step(q)
      PROVE  AnswersInv'
  BY <1>1, AnswersStep
<1>2. ASSUME NEW q \in Requests, NEW k \in Stacks, Begin(q, k)
      PROVE  AnswersInv'
  <2>1. pc'[q] = "test"
    BY <1>2 DEF Begin, Goto, TypeOK
  <2>2. ASSUME NEW r \in Requests \ {q}
        PROVE  /\ pc'[r] = pc[r] /\ got'[r] = got[r] /\ dev'[r] = dev[r]
               /\ begun'[r] = begun[r] /\ cleared'[r] = cleared[r]
               /\ met[r] => met'[r]
    BY <1>2, <2>2 DEF Begin, Goto, TypeOK
  <2> QED  BY <2>1, <2>2
<1>3. ASSUME UNCHANGED <<pc, got, dev, begun, met>>,
             \A r \in Requests : cleared[r] => cleared'[r]
      PROVE  AnswersInv'
  BY <1>3
<1> QED  BY <1>1, <1>2, <1>3 DEF Next, Edit, Clear, Save, request, vars

LEMMA AnswersInit == Init => AnswersInv
BY DEF Init, AnswersInv, LookupsAnswer, LoneDevLookupsAreFresh

\* A lookup comes away empty-handed only if the cache was cleared or another
\* lookup was under way.
THEOREM LookupsAreAnswered == Spec => []LookupsAnswer
<1>1. AnswersInv => LookupsAnswer
  BY DEF AnswersInv
<1> QED  BY <1>1, AnswersInit, AnswersNext, TypeCorrect, FlowInvariant, PTL DEF Spec

\* A lookup in devMode that is alone sees all edits made before it.
THEOREM LoneDevLookups == Spec => []LoneDevLookupsAreFresh
<1>1. AnswersInv => LoneDevLookupsAreFresh
  BY DEF AnswersInv
<1> QED  BY <1>1, AnswersInit, AnswersNext, TypeCorrect, FlowInvariant, PTL DEF Spec

\* A step that changes an entry of the cache is the store of a request.
LEMMA EntriesAreStored ==
  ASSUME TypeOK, [Next]_vars, NEW k, cache' # Null, k \in DOMAIN cache',
         ~ (cache # Null /\ k \in DOMAIN cache /\ cache'[k] = cache[k])
  PROVE  \E r \in Requests :
           /\ Store(r) /\ k = want[r] /\ cache'[k] = flow[r] /\ pc'[r] = "reread"
<1>1. cache' # cache
  OBVIOUS
<1>2. PICK r \in Requests : Step(r)
  BY <1>1 DEF Next, vars, Begin, Edit, Clear, Save, files
<1>3. Store(r)
  BY <1>1, <1>2, StepFrame, CreateFacts
<1>4. k = want[r] /\ cache'[k] = flow[r]
  BY <1>3 DEF Store
<1>5. pc'[r] = "reread"
  BY <1>3 DEF Store, Goto, TypeOK
<1> QED  BY <1>3, <1>4, <1>5

\* A cached flow is replaced by an older one only by a lookup that had company.
THEOREM CachedFlowsNeverAge == Spec => FlowsNeverAge
<1>1. ASSUME TypeOK, FlowInv, [Next]_vars, NEW k \in Stacks, cache # Null, cache' # Null,
             k \in DOMAIN cache, k \in DOMAIN cache', cache'[k] < cache[k]
      PROVE  \E r \in Requests : pc[r] = "store" /\ want[r] = k /\ met[r]
  <2>1. cache[k] \in Nat
    BY <1>1 DEF TypeOK
  <2>2. PICK r \in Requests : Store(r) /\ k = want[r] /\ cache'[k] = flow[r]
    BY <1>1, <2>1, EntriesAreStored
  <2>3. pc[r] = "store" /\ RequestInv(r) /\ Cached(r)
    BY <1>1, <2>2 DEF Store, FlowInv, Cached
  <2>4. flow[r] >= begun[r] /\ (~ met[r] => cache[k] <= begun[r])
    BY <2>2, <2>3 DEF RequestInv
  <2>5. flow[r] \in Nat /\ begun[r] \in Nat
    BY <1>1 DEF TypeOK
  <2> QED  BY <1>1, <2>1, <2>2, <2>3, <2>4, <2>5
<1>2. TypeOK /\ FlowInv /\ [Next]_vars =>
        [\A k \in Stacks :
           cache # Null /\ cache' # Null /\ k \in DOMAIN cache /\ k \in DOMAIN cache'
             /\ cache'[k] < cache[k] =>
           \E r \in Requests : pc[r] = "store" /\ want[r] = k /\ met[r]]_vars
  BY <1>1
<1> QED  BY <1>2, TypeCorrect, FlowInvariant, PTL DEF Spec, FlowsNeverAge

\* Files older than the last clearCache come back only by a lookup that was
\* under way at that time.
THEOREM OldLookupsSpoil == Spec => OnlyOldLookupsSpoil
<1>1. ASSUME TypeOK, FlowInv, [Next]_vars, NEW k \in Stacks, Stale(k)', ~ Stale(k)
      PROVE  \E r \in Requests : pc[r] = "store" /\ pc'[r] = "reread" /\ cleared[r]
  <2>1. CASE floor' = floor
    <3>1. PICK r \in Requests :
            Store(r) /\ k = want[r] /\ cache'[k] = flow[r] /\ pc'[r] = "reread"
      BY <1>1, <2>1, EntriesAreStored DEF Stale
    <3>2. pc[r] = "store" /\ RequestInv(r)
      BY <1>1, <3>1 DEF Store, FlowInv
    <3>3. flow[r] \in Nat /\ floor[k] \in Nat /\ flow[r] < floor[k]
      BY <1>1, <2>1, <3>1 DEF Stale, TypeOK
    <3> QED  BY <3>1, <3>2, <3>3 DEF RequestInv
  <2>2. CASE floor' # floor
    <3>1. cache' = Null
      BY <1>1, <2>2, StepFrame DEF Next, vars, Begin, Edit, Clear, Save, files
    <3> QED  BY <1>1, <3>1 DEF Stale
  <2> QED  BY <2>1, <2>2
<1>2. TypeOK /\ FlowInv /\ [Next]_vars =>
        [\A k \in Stacks : Stale(k)' /\ ~ Stale(k) =>
           \E r \in Requests : pc[r] = "store" /\ pc'[r] = "reread" /\ cleared[r]]_vars
  BY <1>1
<1> QED  BY <1>2, TypeCorrect, FlowInvariant, PTL DEF Spec, OnlyOldLookupsSpoil
=============================================================================
