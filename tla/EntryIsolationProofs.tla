------------------------ MODULE EntryIsolationProofs ------------------------
(***************************************************************************)
(* Proofs about the isolation protocol, for any plan, any folders and any  *)
(* number of changes by other processes.                                   *)
(***************************************************************************)
EXTENDS EntryIsolation, TLAPS

\* While the run lasts it has an entry at hand.
HasEntry == pc # "done" => next =< Len(Plan)

\* What the executor is about to remove, by name, is what it looked at, unless
\* another process took that and put something there since.
RemovalIsSafe ==
    /\ pc \in {"reference", "remove"} =>
         \/ at[DetachedPlace] = Current
         \/ Current \in taken /\ at[DetachedPlace] \in late \cup {Nothing}
    /\ pc = "unlink" =>
         at[PrivatePlace] \in {Placeholder(Current), Nothing} \cup late
    /\ removed \subseteq Entries \cup Placeholders \cup late

\* No private name of an entry exists before its placeholder is made.
Unattempted(i) ==
    i > next \/ (i = next /\ pc \in {"boundary", "claim", "create"})
PrivateNamesAreFresh ==
    \A i \in 1 .. Len(Plan), d \in Dirs, k \in 1 .. Attempts :
        Unattempted(i) => at[<<d, Private(Plan[i], k)>>] = Nothing

\* The inductive invariant.
IInv ==
    /\ TypeOK
    /\ HasEntry
    /\ RemovalIsSafe
    /\ PrivateNamesAreFresh
    /\ NothingIsLost

\* The type invariant, in the parts a step of the executor leaves alone or
\* changes together.
TreeType ==
    /\ at \in [Places -> Objects \cup {Nothing}]
    /\ removed \subseteq Objects
ObjectsType ==
    /\ changed \subseteq Objects /\ taken \subseteq Objects
    /\ linked \subseteq Entries
    /\ brought \subseteq Strangers /\ late \subseteq Strangers
    /\ changes \in 0 .. MaxChanges
GateType ==
    soft \in BOOLEAN /\ hard \in BOOLEAN /\ mutation \in MutationStates
EntryType ==
    /\ parent \in Dirs /\ private \in 1 .. Attempts
    /\ pending \in Outcomes /\ moving \in {"move", "swap"}
    /\ refused \in BOOLEAN /\ single \in BOOLEAN /\ counted \in BOOLEAN
    /\ reference \in BOOLEAN
ReportType ==
    /\ next \in 1 .. Len(Plan) + 1 /\ pc \in Phases
    /\ DOMAIN outcome \subseteq Entries
    /\ \A e \in DOMAIN outcome : outcome[e] \in Outcomes
    /\ otherLinks \in BOOLEAN /\ freed \subseteq Entries
    /\ stopped \in BOOLEAN /\ complete \in BOOLEAN
    /\ HasEntry
TransientType == noLink \in BOOLEAN /\ registered \subseteq Places

-----------------------------------------------------------------------------
\* The entry at hand, and the three places the executor names for it.
LEMMA PlacesLemma ==
    ASSUME TypeOK, HasEntry, pc # "done"
    PROVE  /\ Current \in Entries
           /\ OwnPlace \in Places /\ DetachedPlace \in Places
           /\ PrivatePlace \in Places
           /\ OwnPlace # DetachedPlace /\ OwnPlace # PrivatePlace
<1>1. Current \in Entries
  BY IsolationAssumption DEF TypeOK, HasEntry, Current
<1>2. 1 \in 1 .. Attempts /\ private \in 1 .. Attempts /\ parent \in Dirs
  BY IsolationAssumption DEF TypeOK
<1>3. Own(Current) \in Names
  BY <1>1 DEF Names, OwnNames
<1>4. Private(Current, 1) \in Names /\ Private(Current, private) \in Names
  BY <1>1, <1>2 DEF Names, PrivateNames
<1>5. /\ Own(Current) # Private(Current, 1)
      /\ Own(Current) # Private(Current, private)
  BY <1>2 DEF Own, Private
<1> QED
  BY <1>1, <1>2, <1>3, <1>4, <1>5
  DEF Places, OwnPlace, DetachedPlace, PrivatePlace

\* A name of an entry is never one of the executor's private names.
LEMMA NamesApart ==
    \A n \in OwnNames : \A e, k : k \in 1 .. Attempts => n # Private(e, k)
BY IsolationAssumption DEF OwnNames, Own, Private

\* The parts make up the type invariant, before a step and after it.
LEMMA TypeParts ==
    /\ TypeOK /\ HasEntry <=>
         /\ TreeType /\ ObjectsType /\ GateType /\ EntryType
         /\ ReportType /\ TransientType
    /\ (TypeOK /\ HasEntry)' <=>
         /\ TreeType' /\ ObjectsType' /\ GateType' /\ EntryType'
         /\ ReportType' /\ TransientType'
BY Zenon DEF TypeOK, HasEntry, TreeType, ObjectsType, GateType, EntryType,
             ReportType, TransientType

\* The initial state satisfies the invariant.
LEMMA InitIInv ==
    ASSUME Init PROVE IInv
<1> USE IsolationAssumption DEF Init
<1>1. at \in [Places -> Objects \cup {Nothing}]
  <2>1. \A place \in Places : Planned(place) # {} =>
           (CHOOSE e \in Planned(place) : TRUE) \in Entries
    BY DEF Planned
  <2> QED
    BY <2>1 DEF Objects
<1>2. TypeOK
  <2>1. TreeType
    BY <1>1 DEF TreeType
  <2>2. ObjectsType
    BY DEF ObjectsType
  <2>3. GateType
    BY DEF GateType, MutationStates
  <2>4. EntryType
    <3>1. parent \in Dirs /\ private \in 1 .. Attempts
      BY DEF Dirs
    <3>2. pending \in Outcomes /\ moving \in {"move", "swap"}
      BY DEF Outcomes
    <3> QED
      BY <3>1, <3>2 DEF EntryType
  <2>5. ReportType
    <3>1. DOMAIN outcome = {}
      OBVIOUS
    <3>2. next \in 1 .. Len(Plan) + 1 /\ pc \in Phases /\ HasEntry
      BY DEF Phases, HasEntry
    <3>3. stopped \in BOOLEAN /\ complete \in BOOLEAN /\ otherLinks \in BOOLEAN
      OBVIOUS
    <3> QED
      BY <3>1, <3>2, <3>3 DEF ReportType
  <2>6. TransientType
    BY DEF TransientType
  <2> QED
    BY <2>1, <2>2, <2>3, <2>4, <2>5, <2>6, TypeParts
<1>3. HasEntry
  BY DEF HasEntry
<1>4. RemovalIsSafe
  BY DEF RemovalIsSafe
<1>5. PrivateNamesAreFresh
  <2> SUFFICES ASSUME NEW i \in 1 .. Len(Plan), NEW d \in Dirs,
                      NEW k \in 1 .. Attempts
               PROVE  at[<<d, Private(Plan[i], k)>>] = Nothing
    BY DEF PrivateNamesAreFresh
  <2>1. Plan[i] \in Entries
    OBVIOUS
  <2>2. <<d, Private(Plan[i], k)>> \in Places
    BY <2>1 DEF Places, Names, PrivateNames
  <2>3. Planned(<<d, Private(Plan[i], k)>>) = {}
    BY DEF Planned, Own, Private
  <2> QED
    BY <2>2, <2>3
<1>6. NothingIsLost
  <2> SUFFICES ASSUME NEW e \in Entries PROVE InTree(e)
    BY DEF NothingIsLost
  <2>1. <<Parent[e], Own(e)>> \in Places
    BY DEF Places, Names, OwnNames
  <2>2. Planned(<<Parent[e], Own(e)>>) = {e}
    BY DEF Planned, Own
  <2>3. at[<<Parent[e], Own(e)>>] = e
    BY <2>1, <2>2
  <2> QED
    BY <2>1, <2>3 DEF InTree
<1> QED
  BY <1>2, <1>3, <1>4, <1>5, <1>6 DEF IInv

\* Recording an outcome keeps the types of the report and moves on.
LEMMA RecordsLemma ==
    ASSUME TypeOK, HasEntry, pc # "done", NEW result \in Outcomes,
           Records(result)
    PROVE  EntryType' /\ ReportType' /\ TransientType'
<1> USE IsolationAssumption
<1>1. Current \in Entries
  BY PlacesLemma
<1>2. EntryType'
  BY 1 \in 1 .. Attempts DEF Records, LeavesEntry, EntryType, Dirs, Outcomes
<1>3. TransientType'
  BY DEF Records, TransientType
<1>4. DOMAIN outcome' \subseteq Entries
      /\ \A e \in DOMAIN outcome' : outcome'[e] \in Outcomes
  BY <1>1 DEF Records, TypeOK
<1>5. otherLinks' \in BOOLEAN /\ stopped' \in BOOLEAN
  BY Zenon DEF Records
<1>6. complete' \in BOOLEAN /\ freed' \subseteq Entries
  BY <1>1 DEF Records, TypeOK
<1>7. next' \in 1 .. Len(Plan) + 1 /\ pc' \in Phases /\ HasEntry'
  BY DEF Records, TypeOK, HasEntry, Last, Phases
<1> QED
  BY <1>2, <1>3, <1>4, <1>5, <1>6, <1>7 DEF ReportType

\* So does going on with the same entry.
LEMMA GoesLemma ==
    ASSUME TypeOK, HasEntry, pc # "done", NEW phase \in Phases \ {"done"},
           Goes(phase)
    PROVE  ReportType'
BY DEF Goes, ReportType, TypeOK, HasEntry, report

\* A part whose variables do not change keeps its type.
LEMMA UnchangedParts ==
    ASSUME TypeOK, HasEntry
    PROVE  /\ UNCHANGED <<at, removed>> => TreeType'
           /\ UNCHANGED objects => ObjectsType'
           /\ UNCHANGED gate => GateType'
           /\ UNCHANGED entry => EntryType'
           /\ UNCHANGED <<noLink, registered>> => TransientType'
<1>1. UNCHANGED <<at, removed>> => TreeType'
  BY DEF TypeOK, TreeType
<1>2. UNCHANGED objects => ObjectsType'
  BY DEF TypeOK, ObjectsType, objects
<1>3. UNCHANGED gate => GateType'
  BY DEF TypeOK, GateType, gate
<1>4. UNCHANGED entry => EntryType'
  BY DEF TypeOK, EntryType, entry, links
<1>5. UNCHANGED <<noLink, registered>> => TransientType'
  BY DEF TypeOK, TransientType
<1> QED
  BY <1>1, <1>2, <1>3, <1>4, <1>5

\* Every step of another process keeps the types.
LEMMA TypeOthers ==
    ASSUME TypeOK, HasEntry, Others
    PROVE  TypeOK' /\ HasEntry'
<1> USE IsolationAssumption
<1>1. Interferes => GateType' /\ EntryType' /\ ReportType' /\ TransientType'
  <2> SUFFICES ASSUME Interferes
               PROVE  GateType' /\ EntryType' /\ ReportType' /\ TransientType'
    OBVIOUS
  <2>1. ReportType'
    BY DEF Interferes, ReportType, TypeOK, HasEntry, report
  <2> QED
    BY <2>1, UnchangedParts DEF Interferes
<1>2. Interferes => changes' \in 0 .. MaxChanges
  BY DEF Interferes, TypeOK
<1>3. \A place \in Places : at[place] \in Objects \cup {Nothing}
  BY DEF TypeOK
<1>4. ASSUME NEW place \in Places, NEW s \in Strangers, Put(place, s)
      PROVE  TypeOK' /\ HasEntry'
  <2>1. TreeType'
    BY <1>4 DEF Put, Interferes, TreeType, TypeOK, Objects
  <2>2. ObjectsType'
    BY <1>2, <1>3, <1>4 DEF Put, ObjectsType, TypeOK
  <2> QED
    BY <1>1, <1>4, <2>1, <2>2, TypeParts DEF Put
<1>5. ASSUME NEW place \in Places, TakeAway(place)
      PROVE  TypeOK' /\ HasEntry'
  <2>1. TreeType'
    BY <1>5 DEF TakeAway, Interferes, TreeType, TypeOK
  <2>2. ObjectsType'
    BY <1>2, <1>3, <1>5 DEF TakeAway, ObjectsType, TypeOK
  <2> QED
    BY <1>1, <1>5, <2>1, <2>2, TypeParts DEF TakeAway
<1>6. ASSUME NEW o \in Objects, Write(o)
      PROVE  TypeOK' /\ HasEntry'
  <2>1. TreeType'
    BY <1>6 DEF Write, Interferes, TreeType, TypeOK
  <2>2. ObjectsType'
    BY <1>2, <1>6 DEF Write, ObjectsType, TypeOK
  <2> QED
    BY <1>1, <1>6, <2>1, <2>2, TypeParts DEF Write
<1>7. ASSUME NEW e \in Entries, Link(e) \/ Unlink(e)
      PROVE  TypeOK' /\ HasEntry'
  <2>1. TreeType'
    BY <1>7 DEF Link, Unlink, Interferes, TreeType, TypeOK
  <2>2. ObjectsType'
    BY <1>2, <1>7 DEF Link, Unlink, ObjectsType, TypeOK
  <2> QED
    BY <1>1, <1>7, <2>1, <2>2, TypeParts DEF Link, Unlink
<1> QED
  BY <1>4, <1>5, <1>6, <1>7 DEF Others

\* Every step of the executor keeps the types.
LEMMA TypeExecutor ==
    ASSUME TypeOK, HasEntry, Executor
    PROVE  TypeOK' /\ HasEntry'
<1> USE IsolationAssumption
<1>0. /\ pc # "done"
      /\ Current \in Entries
      /\ OwnPlace \in Places /\ DetachedPlace \in Places
      /\ PrivatePlace \in Places
  <2>1. pc # "done"
    BY DEF Executor, At, CannotOpenRoot, CannotReadPlan, Skips, OpensParent,
           Claims, CreatesPlaceholder, Begins, Isolates, Inspects,
           OpensReference, RemovesEntry, CountsLinks, ChecksOwnName,
           MovesPlaceholder, SwapsBack, VerifiesPlaceholder, UnlinksPlaceholder
  <2> QED
    BY <2>1, PlacesLemma
<1> DEFINE Same == /\ UNCHANGED <<at, removed>> => TreeType'
                   /\ UNCHANGED objects => ObjectsType'
                   /\ UNCHANGED gate => GateType'
                   /\ UNCHANGED entry => EntryType'
                   /\ UNCHANGED <<noLink, registered>> => TransientType'
<1>a. Same
  BY UnchangedParts
<1>b. \A result \in Outcomes :
         Records(result) => EntryType' /\ ReportType' /\ TransientType'
  BY <1>0, RecordsLemma
<1>c. \A phase \in Phases \ {"done"} : Goes(phase) => ReportType'
  BY <1>0, GoesLemma
<1>d. {"Failed", "Changed", "Missing", "Unattempted", "Deleted"} \subseteq Outcomes
  BY DEF Outcomes
<1>e. \A place \in Places : at[place] \in Objects \cup {Nothing}
  BY DEF TypeOK
<1>f. Phases \ {"done"} =
        {"boundary", "claim", "create", "begin", "isolate", "inspect",
         "revalidate", "reference", "remove", "count", "check", "move",
         "swap", "verify", "unlink"}
  BY DEF Phases
<1>g. TreeType
  BY TypeParts
<1>h. ASSUME NEW place \in Places, at[place] # Nothing,
             at' = [at EXCEPT ![place] = Nothing],
             removed' = removed \cup {at[place]}
      PROVE  TreeType'
  <2>1. at[place] \in Objects
    BY <1>e, <1>h
  <2> QED
    BY <1>g, <1>h, <2>1 DEF TreeType
<1>1. CASE CannotOpenRoot \/ CannotReadPlan
  <2>1. ReportType'
    <3>1. DOMAIN outcome' \subseteq Entries
          /\ \A e \in DOMAIN outcome' : outcome'[e] \in Outcomes
      <4>1. CASE CannotOpenRoot
        BY <4>1, <1>d DEF CannotOpenRoot
      <4>2. CASE CannotReadPlan
        <5>1. Plan[Len(Plan)] \in Entries
          OBVIOUS
        <5> QED
          BY <4>2, <5>1, <1>d DEF CannotReadPlan, TypeOK
      <4> QED
        BY <1>1, <4>1, <4>2
    <3>2. next' \in 1 .. Len(Plan) + 1 /\ pc' \in Phases /\ HasEntry'
      BY <1>1 DEF CannotOpenRoot, CannotReadPlan, TypeOK, Phases, HasEntry
    <3> QED
      BY <1>1, <3>1, <3>2 DEF CannotOpenRoot, CannotReadPlan, ReportType, TypeOK
  <2> QED
    BY <1>1, <1>a, <2>1, TypeParts DEF CannotOpenRoot, CannotReadPlan
<1>2. CASE Skips
  BY <1>2, <1>a, <1>b, <1>d, TypeParts DEF Skips
<1>3. CASE OpensParent
  <2>1. TreeType' /\ ObjectsType' /\ GateType'
    BY <1>3, <1>a DEF OpensParent
  <2>2. CASE Records("Changed") \/ Records("Failed")
    BY <2>1, <2>2, <1>b, <1>d, TypeParts
  <2>3. CASE /\ parent' \in Dirs /\ Goes("claim")
             /\ UNCHANGED <<private, pending, moving, refused, links, noLink,
                            registered>>
    <3>1. EntryType' /\ TransientType'
      BY <2>3 DEF EntryType, TransientType, TypeOK, links
    <3> QED
      BY <2>1, <2>3, <3>1, <1>c, <1>f, TypeParts
  <2> QED
    BY <1>3, <2>2, <2>3 DEF OpensParent
<1>4. CASE Claims
  <2>1. TreeType' /\ ObjectsType'
    BY <1>4, <1>a DEF Claims
  <2>2. GateType'
    BY <1>4 DEF Claims, GateType, TypeOK, MutationStates
  <2>3. EntryType' /\ ReportType' /\ TransientType'
    BY <1>4, <1>a, <1>b, <1>c, <1>d, <1>f DEF Claims
  <2> QED
    BY <2>1, <2>2, <2>3, TypeParts
<1>5. CASE CreatesPlaceholder
  <2>1. ObjectsType' /\ GateType'
    BY <1>5, <1>a DEF CreatesPlaceholder
  <2>2. TreeType'
    <3>1. Placeholder(Current) \in Objects
      BY <1>0 DEF Objects, Placeholders
    <3>2. removed' = removed /\ (UNCHANGED at \/ Makes(DetachedPlace))
      BY <1>5 DEF CreatesPlaceholder
    <3>3. CASE Makes(DetachedPlace)
      BY <1>0, <1>g, <3>1, <3>2, <3>3 DEF Makes, TreeType
    <3>4. CASE UNCHANGED at
      BY <1>a, <3>2, <3>4
    <3> QED
      BY <3>2, <3>3, <3>4
  <2>3. EntryType' /\ ReportType' /\ TransientType'
    <3>1. CASE Records("Failed")
      BY <3>1, <1>b, <1>d
    <3>2. CASE registered' = registered \cup {DetachedPlace} /\ Goes("begin")
               /\ UNCHANGED <<entry, noLink>>
      BY <3>2, <1>0, <1>a, <1>c, <1>f DEF TransientType, TypeOK
    <3> QED
      BY <1>5, <3>1, <3>2 DEF CreatesPlaceholder
  <2> QED
    BY <2>1, <2>2, <2>3, TypeParts
<1>6. CASE Begins
  <2>1. TreeType' /\ ObjectsType' /\ TransientType'
    BY <1>6, <1>a DEF Begins
  <2>2. GateType'
    BY <1>6 DEF Begins, GateType, TypeOK, MutationStates
  <2>3. ReportType'
    BY <1>6, <1>c, <1>f DEF Begins
  <2>4. EntryType'
    BY <1>6, <1>d DEF Begins, EntryType, TypeOK, links
  <2> QED
    BY <2>1, <2>2, <2>3, <2>4, TypeParts
<1>7. CASE Isolates
  <2>1. ObjectsType' /\ GateType' /\ TransientType'
    BY <1>7, <1>a DEF Isolates
  <2>2. TreeType'
    BY <1>7, <1>0 DEF Isolates, Exchange, TreeType, TypeOK
  <2>3. ReportType'
    BY <1>7, <1>c, <1>f DEF Isolates
  <2>4. EntryType'
    BY <1>7, <1>d DEF Isolates, EntryType, TypeOK, links
  <2> QED
    BY <2>1, <2>2, <2>3, <2>4, TypeParts
<1>8. CASE Inspects
  <2>1. TreeType' /\ ObjectsType' /\ GateType' /\ TransientType'
    BY <1>8, <1>a DEF Inspects
  <2>2. Looks("revalidate") \/ Looks("reference")
    BY <1>8 DEF Inspects
  <2>3. ReportType'
    BY <2>2, <1>c, <1>f DEF Looks, Leaves
  <2>4. pending' \in Outcomes /\ moving' \in {"move", "swap"}
    BY <2>2, <1>d DEF Looks, Leaves, TypeOK
  <2>5. single' \in BOOLEAN /\ counted' \in BOOLEAN
    BY <2>2 DEF Looks, TypeOK
  <2>6. EntryType'
    BY <1>8, <2>4, <2>5 DEF Inspects, EntryType, TypeOK
  <2> QED
    BY <2>1, <2>3, <2>6, TypeParts
<1>9. CASE OpensReference
  <2>1. TreeType' /\ ObjectsType' /\ GateType' /\ TransientType'
    BY <1>9, <1>a DEF OpensReference
  <2>2. ReportType'
    BY <1>9, <1>c, <1>f DEF OpensReference
  <2>3. EntryType'
    BY <1>9 DEF OpensReference, EntryType, TypeOK
  <2> QED
    BY <2>1, <2>2, <2>3, TypeParts
<1>10. CASE RemovesEntry
  <2>1. ObjectsType' /\ GateType' /\ TransientType'
    BY <1>10, <1>a DEF RemovesEntry
  <2>2. TreeType'
    BY <1>10, <1>0, <1>a, <1>h DEF RemovesEntry
  <2>3. ReportType'
    BY <1>10, <1>c, <1>f DEF RemovesEntry, Leaves
  <2>4. pending' \in Outcomes /\ moving' \in {"move", "swap"}
    BY <1>10, <1>d DEF RemovesEntry, Leaves
  <2>5. EntryType'
    BY <1>10, <2>4 DEF RemovesEntry, EntryType, TypeOK, links
  <2> QED
    BY <2>1, <2>2, <2>3, <2>5, TypeParts
<1>11. CASE CountsLinks
  <2>1. TreeType' /\ ObjectsType' /\ GateType'
    BY <1>11, <1>a DEF CountsLinks
  <2>2. ReportType'
    BY <1>11, <1>c, <1>f DEF CountsLinks
  <2>3. noLink' \in BOOLEAN
    BY <1>11, Zenon DEF CountsLinks, NoLinkIsLeft
  <2>4. counted' \in BOOLEAN
    BY <1>11, Zenon DEF CountsLinks
  <2>5. EntryType' /\ TransientType'
    BY <1>11, <2>3, <2>4 DEF CountsLinks, EntryType, TransientType, TypeOK
  <2> QED
    BY <2>1, <2>2, <2>5, TypeParts
<1>12. CASE ChecksOwnName
  BY <1>12, <1>a, <1>b, <1>c, <1>d, <1>f, TypeParts DEF ChecksOwnName, TypeOK
<1>13. CASE MovesPlaceholder
  <2>1. ObjectsType' /\ GateType' /\ removed' = removed
    BY <1>13, <1>a DEF MovesPlaceholder
  <2>2. CASE Moves
    <3>1. TreeType'
      BY <2>1, <2>2, <1>0 DEF Moves, TreeType, TypeOK
    <3> QED
      BY <2>1, <2>2, <3>1, <1>a, <1>c, <1>f, TypeParts DEF Moves
  <2>3. CASE private < Attempts /\ TriesName(private + 1)
    <3>1. private + 1 \in 1 .. Attempts
      BY <2>3 DEF TypeOK
    <3>2. <<parent, Private(Current, private + 1)>> \in Places
      BY <1>0, <3>1 DEF Places, Names, PrivateNames, TypeOK
    <3>3. EntryType' /\ TransientType'
      BY <2>3, <3>1, <3>2, <1>0
      DEF TriesName, EntryType, TransientType, TypeOK, links
    <3> QED
      BY <2>1, <2>3, <3>3, <1>a, <1>c, <1>f, TypeParts DEF TriesName
  <2>4. CASE Records("Failed") /\ UNCHANGED at
    BY <2>1, <2>4, <1>a, <1>b, <1>d, TypeParts
  <2> QED
    BY <1>13, <2>2, <2>3, <2>4 DEF MovesPlaceholder
<1>14. CASE SwapsBack
  <2>1. ObjectsType' /\ GateType'
    BY <1>14, <1>a DEF SwapsBack
  <2>2. TreeType'
    BY <1>14, <1>0 DEF SwapsBack, Exchange, TreeType, TypeOK
  <2>3. EntryType' /\ ReportType' /\ TransientType'
    BY <1>14, <1>a, <1>b, <1>c, <1>d, <1>f DEF SwapsBack
  <2> QED
    BY <2>1, <2>2, <2>3, TypeParts
<1>15. CASE VerifiesPlaceholder
  BY <1>15, <1>a, <1>b, <1>c, <1>d, <1>f, TypeParts DEF VerifiesPlaceholder
<1>16. CASE UnlinksPlaceholder
  <2>1. ObjectsType'
    BY <1>16, <1>a DEF UnlinksPlaceholder
  <2>2. GateType'
    <3>1. (soft \/ pending = "Unattempted") \in BOOLEAN
      OBVIOUS
    <3> QED
      BY <1>16, <3>1 DEF UnlinksPlaceholder, GateType, TypeOK
  <2>3. TreeType'
    BY <1>16, <1>0, <1>a, <1>h DEF UnlinksPlaceholder
  <2>4. EntryType' /\ ReportType' /\ TransientType'
    BY <1>16, <1>b, <1>d DEF UnlinksPlaceholder, TypeOK
  <2> QED
    BY <2>1, <2>2, <2>3, <2>4, TypeParts
<1> QED
  BY <1>1, <1>2, <1>3, <1>4, <1>5, <1>6, <1>7, <1>8, <1>9, <1>10, <1>11,
     <1>12, <1>13, <1>14, <1>15, <1>16 DEF Executor

\* Every step keeps the types.
LEMMA TypeStep ==
    ASSUME TypeOK, HasEntry, [Next]_vars
    PROVE  TypeOK' /\ HasEntry'
<1>1. CASE RequestStop
  <2>1. TreeType' /\ ObjectsType' /\ EntryType' /\ TransientType'
    BY <1>1, UnchangedParts DEF RequestStop
  <2>2. GateType'
    BY <1>1 DEF RequestStop, GateType, TypeOK, MutationStates
  <2>3. ReportType'
    BY <1>1 DEF RequestStop, ReportType, TypeOK, HasEntry, report
  <2> QED
    BY <2>1, <2>2, <2>3, TypeParts
<1>2. CASE UNCHANGED vars
  <2>1. ReportType'
    BY <1>2 DEF vars, ReportType, TypeOK, HasEntry, report
  <2> QED
    BY <1>2, <2>1, UnchangedParts, TypeParts DEF vars
<1> QED
  BY <1>1, <1>2, TypeOthers, TypeExecutor DEF Next

-----------------------------------------------------------------------------
(***************************************************************************)
(* What a step does to the names.                                          *)
(***************************************************************************)
\* The executor takes what a place holds out of the tree.
Removes(place) ==
    /\ at[place] # Nothing
    /\ at' = [at EXCEPT ![place] = Nothing]
    /\ removed' = removed \cup {at[place]}

\* The ways a step of the executor changes the tree.
NamesStep ==
    \/ UNCHANGED <<at, removed>>
    \/ pc = "create" /\ Makes(DetachedPlace) /\ UNCHANGED removed
    \/ /\ pc \in {"isolate", "swap"}
       /\ Exchange(OwnPlace, DetachedPlace) /\ UNCHANGED removed
    \/ /\ pc = "move"
       /\ at[PrivatePlace] = Nothing
       /\ at' = [at EXCEPT ![OwnPlace] = Nothing,
                           ![PrivatePlace] = at[OwnPlace]]
       /\ UNCHANGED removed
    \/ pc = "remove" /\ Removes(DetachedPlace)
    \/ pc = "unlink" /\ Removes(PrivatePlace)

\* Every step of the executor changes the tree in one of these ways.
LEMMA NamesStepLemma ==
    ASSUME Executor
    PROVE  NamesStep /\ UNCHANGED objects
<1> USE DEF NamesStep, At
<1>1. CASE CannotOpenRoot \/ CannotReadPlan \/ Skips \/ OpensParent \/ Claims
  BY <1>1 DEF CannotOpenRoot, CannotReadPlan, Skips, OpensParent, Claims
<1>2. CASE CreatesPlaceholder
  BY <1>2 DEF CreatesPlaceholder
<1>3. CASE Begins \/ Inspects \/ OpensReference \/ CountsLinks \/ ChecksOwnName
           \/ VerifiesPlaceholder
  BY <1>3 DEF Begins, Inspects, OpensReference, CountsLinks, ChecksOwnName,
              VerifiesPlaceholder
<1>4. CASE Isolates \/ SwapsBack
  BY <1>4 DEF Isolates, SwapsBack
<1>5. CASE RemovesEntry
  BY <1>5 DEF RemovesEntry, Removes
<1>6. CASE MovesPlaceholder
  BY <1>6 DEF MovesPlaceholder, Moves, TriesName
<1>7. CASE UnlinksPlaceholder
  BY <1>7 DEF UnlinksPlaceholder, Removes
<1> QED
  BY <1>1, <1>2, <1>3, <1>4, <1>5, <1>6, <1>7 DEF Executor

\* Another process puts a stranger at a place.
Puts(place, s) ==
    /\ place[2] \in OwnNames \/ place \in Seen
    /\ at' = [at EXCEPT ![place] = s]
    /\ brought' = brought \cup {s}
    /\ taken' = taken \cup ({at[place]} \ {Nothing})
    /\ late' = IF place \in LookedAt THEN late \cup {s} ELSE late

\* Another process empties a place.
Empties(place) ==
    /\ at' = [at EXCEPT ![place] = Nothing]
    /\ taken' = taken \cup {at[place]}
    /\ UNCHANGED <<brought, late>>

\* What another process does to the tree: it leaves it alone, puts a stranger
\* at a name it can know of, or empties a place.
LEMMA OthersLemma ==
    ASSUME Others
    PROVE  /\ UNCHANGED <<removed, next, pc, parent, private>>
           /\ \/ UNCHANGED <<at, brought, taken, late>>
              \/ \E place \in Places, s \in Strangers : Puts(place, s)
              \/ \E place \in Places : Empties(place)
<1>1. ASSUME NEW place \in Places, NEW s \in Strangers, Put(place, s)
      PROVE  UNCHANGED <<removed, next, pc, parent, private>> /\ Puts(place, s)
  BY <1>1, Zenon DEF Put, Puts, Interferes, entry
<1>2. ASSUME NEW place \in Places, TakeAway(place)
      PROVE  UNCHANGED <<removed, next, pc, parent, private>> /\ Empties(place)
  BY <1>2 DEF TakeAway, Empties, Interferes, entry
<1>3. ASSUME NEW o \in Objects, Write(o)
      PROVE  UNCHANGED <<removed, next, pc, parent, private, at, brought, taken,
                         late>>
  BY <1>3 DEF Write, Interferes, entry
<1>4. ASSUME NEW e \in Entries, Link(e) \/ Unlink(e)
      PROVE  UNCHANGED <<removed, next, pc, parent, private, at, brought, taken,
                         late>>
  BY <1>4 DEF Link, Unlink, Interferes, entry
<1> QED
  BY <1>1, <1>2, <1>3, <1>4 DEF Others

\* What it leaves at a place is what was there, a stranger or nothing; what was
\* there is taken when it is there no longer; and a stranger it puts where the
\* executor has looked for the last time is late.
LEMMA OthersPlace ==
    ASSUME TypeOK, Others, NEW p \in Places
    PROVE  /\ taken \subseteq taken' /\ late \subseteq late'
           /\ at'[p] \in {at[p], Nothing} \cup Strangers
           /\ at[p] # Nothing /\ at'[p] # at[p] => at[p] \in taken'
           /\ at'[p] # at[p] /\ at'[p] # Nothing =>
                 /\ p[2] \in OwnNames \/ p \in Seen
                 /\ p \in LookedAt => at'[p] \in late'
<1>1. at \in [Places -> Objects \cup {Nothing}]
  BY DEF TypeOK
<1>2. CASE UNCHANGED <<at, brought, taken, late>>
  BY <1>2
<1>3. ASSUME NEW place \in Places, NEW s \in Strangers, Puts(place, s)
      PROVE  /\ taken \subseteq taken' /\ late \subseteq late'
             /\ at'[p] \in {at[p], Nothing} \cup Strangers
             /\ at[p] # Nothing /\ at'[p] # at[p] => at[p] \in taken'
             /\ at'[p] # at[p] /\ at'[p] # Nothing =>
                   /\ p[2] \in OwnNames \/ p \in Seen
                   /\ p \in LookedAt => at'[p] \in late'
  <2>1. CASE p = place
    BY <1>1, <1>3, <2>1 DEF Puts
  <2>2. CASE p # place
    BY <1>1, <1>3, <2>2 DEF Puts
  <2> QED
    BY <2>1, <2>2
<1>4. ASSUME NEW place \in Places, Empties(place)
      PROVE  /\ taken \subseteq taken' /\ late \subseteq late'
             /\ at'[p] \in {at[p], Nothing}
             /\ at[p] # Nothing /\ at'[p] # at[p] => at[p] \in taken'
  BY <1>1, <1>4 DEF Empties
<1> QED
  BY <1>2, <1>3, <1>4, OthersLemma

\* Every step leaves a name to each object nobody removed.
LEMMA LostStep ==
    ASSUME IInv, [Next]_vars
    PROVE  NothingIsLost'
<1> USE IsolationAssumption
<1>1. TypeOK /\ HasEntry /\ NothingIsLost
  BY DEF IInv
<1>2. CASE Executor
  <2>1. NamesStep /\ brought' = brought /\ taken' = taken
    BY <1>2, NamesStepLemma DEF objects
  <2>2. removed \subseteq removed'
    BY <2>1 DEF NamesStep, Removes
  <2> SUFFICES ASSUME NEW o \in Entries \cup brought,
                      o \notin removed', o \notin taken
               PROVE  \E place \in Places : at'[place] = o
    BY <2>1 DEF NothingIsLost, InTree
  <2>3. PICK p \in Places : at[p] = o
    BY <1>1, <2>2 DEF NothingIsLost, InTree
  <2>4. o # Nothing
    BY <1>1 DEF TypeOK, Objects
  <2>5. at \in [Places -> Objects \cup {Nothing}]
    BY <1>1 DEF TypeOK
  <2>6. CASE UNCHANGED <<at, removed>>
    BY <2>3, <2>6
  <2>7. CASE pc # "done" /\ ~UNCHANGED <<at, removed>>
    <3>1. /\ Current \in Entries
          /\ OwnPlace \in Places /\ DetachedPlace \in Places
          /\ PrivatePlace \in Places
          /\ OwnPlace # DetachedPlace /\ OwnPlace # PrivatePlace
      BY <1>1, <2>7, PlacesLemma
    <3>2. CASE pc = "create" /\ Makes(DetachedPlace)
      <4>1. at[DetachedPlace] = Nothing
        <5>1. next \in 1 .. Len(Plan) /\ 1 \in 1 .. Attempts /\ parent \in Dirs
          BY <1>1, <2>7 DEF TypeOK, HasEntry
        <5>2. Unattempted(next)
          BY <3>2 DEF Unattempted
        <5> QED
          BY <5>1, <5>2 DEF IInv, PrivateNamesAreFresh, DetachedPlace, Current
      <4> QED
        BY <2>3, <2>4, <2>5, <3>1, <3>2, <4>1 DEF Makes
    <3>3. CASE Exchange(OwnPlace, DetachedPlace)
      BY <2>3, <2>5, <3>1, <3>3 DEF Exchange
    <3>4. CASE /\ at[PrivatePlace] = Nothing
               /\ at' = [at EXCEPT ![OwnPlace] = Nothing,
                                   ![PrivatePlace] = at[OwnPlace]]
      BY <2>3, <2>4, <2>5, <3>1, <3>4
    <3>5. CASE Removes(DetachedPlace) \/ Removes(PrivatePlace)
      BY <2>3, <2>5, <3>1, <3>5 DEF Removes
    <3> QED
      BY <2>1, <2>7, <3>2, <3>3, <3>4, <3>5 DEF NamesStep
  <2> QED
    BY <2>1, <2>6, <2>7 DEF NamesStep
<1>3. CASE Others
  <2>1. at \in [Places -> Objects \cup {Nothing}]
    BY <1>1 DEF TypeOK
  <2>2. removed' = removed
    BY <1>3, OthersLemma
  <2>3. CASE UNCHANGED <<at, brought, taken>>
    BY <1>1, <2>2, <2>3 DEF NothingIsLost, InTree
  <2>4. ASSUME NEW place \in Places, NEW s \in Strangers,
               at' = [at EXCEPT ![place] = s], brought' = brought \cup {s},
               taken' = taken \cup ({at[place]} \ {Nothing})
        PROVE  NothingIsLost'
    <3> SUFFICES ASSUME NEW o \in Entries \cup brought \cup {s},
                        o \notin removed, o \notin taken'
                 PROVE  \E p \in Places : at'[p] = o
      BY <2>2, <2>4 DEF NothingIsLost, InTree
    <3>2. CASE o = s
      BY <2>1, <2>4, <3>2
    <3>3. CASE o # s
      <4>1. PICK p \in Places : at[p] = o
        BY <1>1, <2>4, <3>3 DEF NothingIsLost, InTree
      <4>2. o # Nothing
        BY <1>1, <3>3 DEF TypeOK, Objects
      <4>3. p # place
        BY <2>4, <4>1, <4>2
      <4> QED
        BY <2>1, <2>4, <4>1, <4>3
    <3> QED
      BY <3>2, <3>3
  <2>5. ASSUME NEW place \in Places, at' = [at EXCEPT ![place] = Nothing],
               brought' = brought, taken' = taken \cup {at[place]}
        PROVE  NothingIsLost'
    <3> SUFFICES ASSUME NEW o \in Entries \cup brought,
                        o \notin removed, o \notin taken'
                 PROVE  \E p \in Places : at'[p] = o
      BY <2>2, <2>5 DEF NothingIsLost, InTree
    <3>1. PICK p \in Places : at[p] = o
      BY <1>1, <2>5 DEF NothingIsLost, InTree
    <3> QED
      BY <2>1, <2>5, <3>1
  <2> QED
    BY <1>3, <2>3, <2>4, <2>5, OthersLemma DEF Puts, Empties
<1>4. CASE RequestStop \/ UNCHANGED vars
  BY <1>1, <1>4 DEF RequestStop, vars, objects, NothingIsLost, InTree
<1> QED
  BY <1>2, <1>3, <1>4 DEF Next

\* An entry that is still unattempted after a step of the executor was so
\* before it; and the step made no name for it.
LEMMA AttemptLemma ==
    ASSUME TypeOK, HasEntry, Executor, NEW i \in 1 .. Len(Plan),
           Unattempted(i)'
    PROVE  Unattempted(i) /\ (i = next => UNCHANGED at)
<1> USE DEF Unattempted, At
<1>1. next \in Nat /\ next + 1 > next
  BY DEF TypeOK
<1>2. ASSUME NEW result, Records(result)
      PROVE  Unattempted(i) /\ i # next
  BY <1>1, <1>2 DEF Records
<1>3. ASSUME NEW phase, Goes(phase), phase \notin {"boundary", "claim", "create"}
      PROVE  Unattempted(i) /\ i # next
  BY <1>1, <1>3 DEF Goes
<1>4. CASE CannotOpenRoot \/ CannotReadPlan
  BY <1>1, <1>4 DEF CannotOpenRoot, CannotReadPlan
<1>5. CASE Skips
  BY <1>5, <1>2 DEF Skips
<1>6. CASE OpensParent \/ Claims
  BY <1>6, <1>2 DEF OpensParent, Claims, Goes
<1>7. CASE CreatesPlaceholder
  BY <1>7, <1>2, <1>3 DEF CreatesPlaceholder
<1>8. CASE Begins \/ Isolates \/ OpensReference \/ CountsLinks
  BY <1>8, <1>3 DEF Begins, Isolates, OpensReference, CountsLinks
<1>9. CASE Inspects
  BY <1>9, <1>3 DEF Inspects, Looks, Leaves
<1>10. CASE RemovesEntry
  BY <1>10, <1>3 DEF RemovesEntry, Leaves
<1>11. CASE ChecksOwnName
  BY <1>11, <1>2, <1>3 DEF ChecksOwnName, TypeOK
<1>12. CASE MovesPlaceholder
  BY <1>12, <1>2, <1>3 DEF MovesPlaceholder, Moves, TriesName
<1>13. CASE SwapsBack \/ VerifiesPlaceholder \/ UnlinksPlaceholder
  BY <1>13, <1>2, <1>3 DEF SwapsBack, VerifiesPlaceholder, UnlinksPlaceholder
<1> QED
  BY <1>4, <1>5, <1>6, <1>7, <1>8, <1>9, <1>10, <1>11, <1>12, <1>13
  DEF Executor

\* Every step leaves the private names of an unattempted entry unused.
LEMMA FreshStep ==
    ASSUME IInv, [Next]_vars
    PROVE  PrivateNamesAreFresh'
<1> USE IsolationAssumption
<1>1. TypeOK /\ HasEntry /\ PrivateNamesAreFresh
  BY DEF IInv
<1> SUFFICES ASSUME NEW i \in 1 .. Len(Plan), NEW d \in Dirs,
                    NEW k \in 1 .. Attempts, Unattempted(i)'
             PROVE  at'[<<d, Private(Plan[i], k)>>] = Nothing
  BY DEF PrivateNamesAreFresh
<1> DEFINE place == <<d, Private(Plan[i], k)>>
<1>2. Plan[i] \in Entries /\ place \in Places
  <2>1. Plan[i] \in Entries
    OBVIOUS
  <2> QED
    BY <2>1 DEF Places, Names, PrivateNames
<1>3. at \in [Places -> Objects \cup {Nothing}]
  BY <1>1 DEF TypeOK
<1>4. CASE Executor
  <2>1. Unattempted(i) /\ (i = next => UNCHANGED at)
    BY <1>1, <1>4, AttemptLemma
  <2>2. at[place] = Nothing
    BY <1>1, <2>1 DEF PrivateNamesAreFresh
  <2>3. CASE UNCHANGED at
    BY <2>2, <2>3
  <2>4. CASE ~UNCHANGED at
    <3>1. NamesStep /\ pc # "done"
      BY <1>4, <2>4, NamesStepLemma DEF NamesStep
    <3>2. next \in 1 .. Len(Plan) /\ i # next
      BY <1>1, <2>1, <2>4, <3>1 DEF TypeOK, HasEntry
    <3>3. Plan[i] # Current
      BY <3>2 DEF Current
    <3>4. place # OwnPlace /\ place # DetachedPlace /\ place # PrivatePlace
      BY <3>3 DEF OwnPlace, DetachedPlace, PrivatePlace, Own, Private
    <3> QED
      BY <1>2, <1>3, <2>2, <2>4, <3>1, <3>4
      DEF NamesStep, Makes, Exchange, Removes
  <2> QED
    BY <2>3, <2>4
<1>5. CASE Others
  <2>1. at[place] = Nothing
    <3>1. Unattempted(i)
      BY <1>5, OthersLemma DEF Unattempted
    <3> QED
      BY <1>1, <3>1 DEF PrivateNamesAreFresh
  <2>2. place[2] \notin OwnNames
    BY NamesApart
  <2>3. place \notin Seen
    <3>1. Unattempted(i) /\ pc # "done"
      BY <1>5, OthersLemma DEF Unattempted, Others, Put, TakeAway, Write, Link,
         Unlink, Interferes
    <3>2. next \in 1 .. Len(Plan)
      BY <1>1, <3>1 DEF TypeOK, HasEntry
    <3>3. CASE pc \in {"boundary", "claim", "create"}
      BY <2>1, <3>3 DEF Seen
    <3>4. CASE pc \notin {"boundary", "claim", "create"}
      <4>1. Plan[i] # Current
        BY <3>1, <3>2, <3>4 DEF Unattempted, Current
      <4>2. place # DetachedPlace /\ place # PrivatePlace
        BY <4>1 DEF DetachedPlace, PrivatePlace, Private
      <4> QED
        BY <2>1, <4>2 DEF Seen
    <3> QED
      BY <3>3, <3>4
  <2>4. at'[place] # at[place] /\ at'[place] # Nothing =>
           place[2] \in OwnNames \/ place \in Seen
    BY <1>1, <1>2, <1>5, OthersPlace
  <2>5. at'[place] = Nothing
    <3> HIDE DEF place
    <3> QED
      BY <2>1, <2>2, <2>3, <2>4
  <2> QED
    BY <2>5
<1>6. CASE RequestStop \/ UNCHANGED vars
  <2>1. UNCHANGED <<at, next, pc>>
    BY <1>6 DEF RequestStop, vars
  <2>2. Unattempted(i)
    BY <2>1 DEF Unattempted
  <2> QED
    BY <1>1, <2>1, <2>2 DEF PrivateNamesAreFresh
<1> QED
  BY <1>4, <1>5, <1>6 DEF Next

\* Every step keeps what is about to be removed the object that was looked at.
LEMMA SafeStep ==
    ASSUME IInv, [Next]_vars
    PROVE  RemovalIsSafe'
<1> USE IsolationAssumption
<1>1. TypeOK /\ HasEntry /\ RemovalIsSafe
  BY DEF IInv
<1>2. at \in [Places -> Objects \cup {Nothing}]
  BY <1>1 DEF TypeOK
<1>3. CASE Executor
  <2>1. pc # "done" => Current \in Entries
    BY <1>1, PlacesLemma
  <2>0. UNCHANGED <<taken, late>>
    BY <1>3, NamesStepLemma DEF objects
  <2>2. removed' \subseteq Entries \cup Placeholders \cup late'
    <3>1. CASE removed' = removed
      BY <1>1, <2>0, <3>1 DEF RemovalIsSafe
    <3>2. CASE pc = "remove" /\ Removes(DetachedPlace)
      BY <1>1, <2>0, <2>1, <3>2 DEF RemovalIsSafe, Removes
    <3>3. CASE pc = "unlink" /\ Removes(PrivatePlace)
      BY <1>1, <2>0, <2>1, <3>3 DEF RemovalIsSafe, Removes, Placeholders
    <3> QED
      BY <1>3, <3>1, <3>2, <3>3, NamesStepLemma DEF NamesStep
  <2>3. CASE pc' \notin {"reference", "remove", "unlink"}
    BY <2>2, <2>3 DEF RemovalIsSafe
  <2>4. CASE Inspects
    <3>1. UNCHANGED <<at, parent, private>> /\ next' = next
      BY <2>4 DEF Inspects, Looks, Leaves, Goes
    <3>2. pc' = "reference" => at[DetachedPlace] = Current
      BY <2>4 DEF Inspects, Looks, Leaves, Goes, Matches
    <3>3. pc' \notin {"remove", "unlink"}
      BY <2>4 DEF Inspects, Looks, Leaves, Goes
    <3> QED
      BY <2>2, <3>1, <3>2, <3>3
      DEF RemovalIsSafe, DetachedPlace, Current, Private
  <2>5. CASE OpensReference
    <3>1. /\ UNCHANGED <<at, parent, private, next>>
          /\ pc = "reference" /\ pc' = "remove"
      BY <2>5 DEF OpensReference, Goes, At
    <3> QED
      BY <1>1, <2>0, <2>2, <3>1
      DEF RemovalIsSafe, DetachedPlace, Current, Private
  <2>6. CASE VerifiesPlaceholder
    <3>1. CASE Records("Failed")
      BY <2>2, <3>1 DEF RemovalIsSafe, Records
    <3>2. CASE /\ Untouched(at[PrivatePlace]) /\ Goes("unlink")
               /\ UNCHANGED <<at, parent, private>>
      BY <2>2, <3>2
      DEF RemovalIsSafe, Goes, Untouched, PrivatePlace, Current, Private,
          Placeholder
    <3> QED
      BY <2>6, <3>1, <3>2 DEF VerifiesPlaceholder, entry
  <2>7. CASE ~Inspects /\ ~OpensReference /\ ~VerifiesPlaceholder
    <3>1. pc' \notin {"reference", "remove", "unlink"}
      <4>1. CASE CannotOpenRoot \/ CannotReadPlan \/ Skips \/ OpensParent
                 \/ Claims \/ CreatesPlaceholder
        BY <4>1 DEF CannotOpenRoot, CannotReadPlan, Skips, OpensParent, Claims,
                    CreatesPlaceholder, Records, Goes
      <4>2. CASE Begins \/ Isolates \/ RemovesEntry \/ CountsLinks
        BY <4>2 DEF Begins, Isolates, RemovesEntry, CountsLinks, Leaves, Goes
      <4>3. CASE ChecksOwnName
        BY <1>1, <4>3 DEF ChecksOwnName, Records, Goes, TypeOK
      <4>4. CASE MovesPlaceholder \/ SwapsBack \/ UnlinksPlaceholder
        BY <4>4 DEF MovesPlaceholder, Moves, TriesName, SwapsBack,
                    UnlinksPlaceholder, Records, Goes
      <4> QED
        BY <1>3, <2>7, <4>1, <4>2, <4>3, <4>4 DEF Executor
    <3> QED
      BY <2>3, <3>1
  <2> QED
    BY <2>4, <2>5, <2>6, <2>7
<1>4. CASE Others
  <2>1. UNCHANGED <<removed, next, pc, parent, private>>
    BY <1>4, OthersLemma
  <2>2. /\ DetachedPlace' = DetachedPlace /\ PrivatePlace' = PrivatePlace
        /\ Current' = Current /\ Placeholder(Current)' = Placeholder(Current)
    BY <2>1 DEF DetachedPlace, PrivatePlace, Current, Private, Placeholder
  <2>3. taken \subseteq taken' /\ late \subseteq late'
    BY <1>4, OthersLemma DEF Puts, Empties
  <2>4. ASSUME pc # "done"
        PROVE  DetachedPlace \in Places /\ PrivatePlace \in Places
    BY <1>1, <2>4, PlacesLemma
  <2>5. ASSUME pc \in {"reference", "remove"}
        PROVE  \/ at'[DetachedPlace] = Current
               \/ Current \in taken' /\ at'[DetachedPlace] \in late' \cup {Nothing}
    <3>1. Current \in Entries /\ Current # Nothing
      BY <1>1, <2>5, PlacesLemma DEF Objects
    <3>2. DetachedPlace \in LookedAt
      BY <2>5 DEF LookedAt
    <3>3. \/ at[DetachedPlace] = Current
          \/ Current \in taken /\ at[DetachedPlace] \in late \cup {Nothing}
      BY <1>1, <2>5 DEF RemovalIsSafe
    <3>4. /\ at[DetachedPlace] # Nothing /\ at'[DetachedPlace] # at[DetachedPlace]
               => at[DetachedPlace] \in taken'
          /\ at'[DetachedPlace] # at[DetachedPlace]
               /\ at'[DetachedPlace] # Nothing => at'[DetachedPlace] \in late'
      BY <1>1, <1>4, <2>4, <2>5, <3>2, OthersPlace
    <3> QED
      BY <2>3, <3>1, <3>3, <3>4
  <2>6. ASSUME pc = "unlink"
        PROVE  at'[PrivatePlace] \in {Placeholder(Current), Nothing} \cup late'
    <3>1. PrivatePlace \in LookedAt
      BY <2>6 DEF LookedAt
    <3>2. at[PrivatePlace] \in {Placeholder(Current), Nothing} \cup late
      BY <1>1, <2>6 DEF RemovalIsSafe
    <3>3. at'[PrivatePlace] # at[PrivatePlace] /\ at'[PrivatePlace] # Nothing =>
             at'[PrivatePlace] \in late'
      BY <1>1, <1>4, <2>4, <2>6, <3>1, OthersPlace
    <3> QED
      BY <2>3, <3>2, <3>3
  <2>7. removed' \subseteq Entries \cup Placeholders \cup late'
    BY <1>1, <2>1, <2>3 DEF RemovalIsSafe
  <2> QED
    BY <2>1, <2>2, <2>5, <2>6, <2>7 DEF RemovalIsSafe
<1>5. CASE RequestStop \/ UNCHANGED vars
  <2>1. UNCHANGED <<at, removed, taken, late, next, pc, parent, private>>
    BY <1>5 DEF RequestStop, vars, entry, objects
  <2> QED
    BY <1>1, <2>1
    DEF RemovalIsSafe, DetachedPlace, PrivatePlace, Current, Private, Placeholder
<1> QED
  BY <1>3, <1>4, <1>5 DEF Next

-----------------------------------------------------------------------------
(***************************************************************************)
(* The private names of the entry at hand.                                 *)
(***************************************************************************)
\* The entry at hand has private names from the making of its placeholder on.
Isolating == pc \notin {"boundary", "claim", "create", "done"}

\* Which private name of the entry at hand may be in use.
NameInUse == IF pc \in {"verify", "unlink"} THEN private ELSE 1

\* The placeholder leaves, or has left, for a private name, and the detached
\* name is not what it ends up at.
DetachedIsLeft ==
    \/ pc = "move"
    \/ pc \in {"count", "check"} /\ moving = "move"
    \/ pc \in {"verify", "unlink"} /\ private # 1

\* The private names of the entry at hand are registered, only the detached one
\* and the one the placeholder was moved to hold anything, and once the detached
\* name is left only a stranger can be there.
NamesAreKnown ==
    /\ pc \notin {"move", "verify", "unlink"} => private = 1
    /\ Isolating => DetachedPlace \in registered /\ PrivatePlace \in registered
    /\ Isolating => \A d \in Dirs, k \in 1 .. Attempts :
                      at[<<d, Private(Current, k)>>] # Nothing =>
                        d = parent /\ k \in {1, NameInUse}
    /\ DetachedIsLeft => at[DetachedPlace] \notin {Current, Placeholder(Current)}

\* A private name of the entry at hand is one of two places or neither.
LEMMA PrivatePlaces ==
    ASSUME TypeOK, HasEntry, pc # "done", NEW d \in Dirs, NEW k \in 1 .. Attempts
    PROVE  /\ <<d, Private(Current, k)>> \in Places
           /\ <<d, Private(Current, k)>> # OwnPlace
           /\ <<d, Private(Current, k)>> = DetachedPlace <=> d = parent /\ k = 1
           /\ <<d, Private(Current, k)>> = PrivatePlace <=>
                d = parent /\ k = private
<1> USE IsolationAssumption
<1>1. Current \in Entries
  BY PlacesLemma
<1>2. private \in 1 .. Attempts /\ 1 \in 1 .. Attempts
  BY DEF TypeOK
<1>3. <<d, Private(Current, k)>> \in Places
  BY <1>1 DEF Places, Names, PrivateNames
<1>4. Private(Current, k) # Own(Current)
  BY DEF Own, Private
<1>5. \A j \in 1 .. Attempts : Private(Current, k) = Private(Current, j) <=> k = j
  BY DEF Private
<1> QED
  BY <1>2, <1>3, <1>4, <1>5 DEF OwnPlace, DetachedPlace, PrivatePlace

\* The names of the entry at hand do not change with the tree.
LEMMA NamesSame ==
    ASSUME UNCHANGED <<next, parent>>
    PROVE  /\ Current' = Current /\ OwnPlace' = OwnPlace
           /\ DetachedPlace' = DetachedPlace
           /\ private' = private => PrivatePlace' = PrivatePlace
           /\ Placeholder(Current)' = Placeholder(Current)
BY DEF Current, OwnPlace, DetachedPlace, PrivatePlace, Own, Private, Placeholder

\* Every step of the executor keeps the private names known.
LEMMA KnownExecutor ==
    ASSUME IInv, NamesAreKnown, Executor
    PROVE  NamesAreKnown'
<1> USE IsolationAssumption
<1>0. /\ TypeOK /\ HasEntry /\ pc # "done"
      /\ at \in [Places -> Objects \cup {Nothing}]
      /\ private \in 1 .. Attempts /\ 1 \in 1 .. Attempts /\ parent \in Dirs
      /\ moving \in {"move", "swap"} /\ next \in 1 .. Len(Plan)
  <2>1. pc # "done"
    BY DEF Executor, At, CannotOpenRoot, CannotReadPlan, Skips, OpensParent,
           Claims, CreatesPlaceholder, Begins, Isolates, Inspects,
           OpensReference, RemovesEntry, CountsLinks, ChecksOwnName,
           MovesPlaceholder, SwapsBack, VerifiesPlaceholder, UnlinksPlaceholder
  <2> QED
    BY <2>1 DEF IInv, TypeOK, HasEntry
<1>1. /\ OwnPlace \in Places /\ DetachedPlace \in Places /\ PrivatePlace \in Places
      /\ OwnPlace # DetachedPlace /\ OwnPlace # PrivatePlace
  BY <1>0, PlacesLemma
<1>2. \A d \in Dirs, k \in 1 .. Attempts :
        /\ <<d, Private(Current, k)>> \in Places
        /\ <<d, Private(Current, k)>> # OwnPlace
        /\ <<d, Private(Current, k)>> = DetachedPlace <=> d = parent /\ k = 1
        /\ <<d, Private(Current, k)>> = PrivatePlace <=> d = parent /\ k = private
  BY <1>0, PrivatePlaces
<1>n. Nothing # Current /\ Nothing # Placeholder(Current)
  BY <1>0, PlacesLemma DEF Objects, Placeholders
<1>a. ASSUME pc' \in {"boundary", "claim", "create", "done"}, private' = 1
      PROVE  NamesAreKnown'
  BY <1>a DEF NamesAreKnown, Isolating, DetachedIsLeft
<1>b. ASSUME NEW result, Records(result)
      PROVE  NamesAreKnown'
  BY <1>a, <1>b DEF Records, LeavesEntry
<1>c. ASSUME UNCHANGED <<next, parent, private>>, Isolating', Isolating,
             UNCHANGED <<at, registered>>,
             NameInUse' = NameInUse,
             pc' \notin {"move", "verify", "unlink"} => private = 1,
             DetachedIsLeft' => DetachedIsLeft \/ at[DetachedPlace] = Nothing
      PROVE  NamesAreKnown'
  <2>1. /\ Current' = Current /\ DetachedPlace' = DetachedPlace
        /\ PrivatePlace' = PrivatePlace
        /\ Placeholder(Current)' = Placeholder(Current)
    BY <1>c, NamesSame
  <2>2. \A d, k : <<d, Private(Current', k)>> = <<d, Private(Current, k)>>
    BY <2>1
  <2>3. DetachedIsLeft' =>
           at'[DetachedPlace'] \notin {Current', Placeholder(Current)'}
    BY <1>c, <1>n, <2>1 DEF NamesAreKnown
  <2> QED
    BY <1>c, <2>1, <2>2, <2>3 DEF NamesAreKnown, Private
<1>3. CASE CannotOpenRoot \/ CannotReadPlan
  BY <1>3, <1>a DEF CannotOpenRoot, CannotReadPlan, At, entry, NamesAreKnown
<1>4. CASE Skips
  BY <1>4, <1>b DEF Skips
<1>5. CASE OpensParent \/ Claims
  BY <1>5, <1>a, <1>b DEF OpensParent, Claims, Goes, At, entry, NamesAreKnown
<1>6. CASE CreatesPlaceholder
  <2>1. CASE Records("Failed")
    BY <2>1, <1>b
  <2>2. CASE /\ registered' = registered \cup {DetachedPlace}
             /\ Makes(DetachedPlace) /\ Goes("begin") /\ UNCHANGED entry
    <3>1. pc = "create"
      BY <1>6 DEF CreatesPlaceholder, At
    <3>2. private = 1 /\ PrivatePlace = DetachedPlace
      BY <3>1 DEF NamesAreKnown, DetachedPlace, PrivatePlace
    <3>3. UNCHANGED <<next, parent, private>> /\ pc' = "begin"
      BY <2>2 DEF Goes, entry
    <3>4. /\ Current' = Current /\ DetachedPlace' = DetachedPlace
          /\ PrivatePlace' = PrivatePlace
      BY <3>3, NamesSame
    <3>5. ASSUME NEW d \in Dirs, NEW k \in 1 .. Attempts,
                 at'[<<d, Private(Current, k)>>] # Nothing
          PROVE  d = parent /\ k = 1
      <4>1. at[<<d, Private(Current, k)>>] = Nothing
        <5>1. Unattempted(next)
          BY <3>1 DEF Unattempted
        <5> QED
          BY <5>1, <1>0 DEF IInv, PrivateNamesAreFresh, Current
      <4> QED
        BY <4>1, <3>5, <2>2, <1>0, <1>1, <1>2 DEF Makes
    <3> QED
      BY <2>2, <3>2, <3>3, <3>4, <3>5
      DEF NamesAreKnown, NameInUse, DetachedIsLeft, Private
  <2> QED
    BY <1>6, <2>1, <2>2 DEF CreatesPlaceholder
<1>7. CASE Begins
  BY <1>7, <1>c DEF Begins, Goes, At, Isolating, NameInUse, NamesAreKnown,
                    DetachedIsLeft
<1>d. ASSUME Exchange(OwnPlace, DetachedPlace), pc \in {"isolate", "swap"},
             UNCHANGED <<next, parent, private, registered>>,
             pc' \in {"inspect", "verify"}
      PROVE  NamesAreKnown'
  <2>1. private = 1 /\ Isolating /\ Isolating' /\ NameInUse = 1 /\ NameInUse' = 1
    BY <1>d DEF NamesAreKnown, NameInUse, Isolating
  <2>2. /\ Current' = Current /\ DetachedPlace' = DetachedPlace
        /\ PrivatePlace' = PrivatePlace
    BY <1>d, NamesSame
  <2>3. ASSUME NEW d \in Dirs, NEW k \in 1 .. Attempts,
               at'[<<d, Private(Current, k)>>] # Nothing
        PROVE  d = parent /\ k = 1
    <3>1. CASE <<d, Private(Current, k)>> = DetachedPlace
      BY <3>1, <1>2
    <3>2. CASE <<d, Private(Current, k)>> # DetachedPlace
      <4>1. at'[<<d, Private(Current, k)>>] = at[<<d, Private(Current, k)>>]
        BY <3>2, <1>0, <1>1, <1>2, <1>d DEF Exchange
      <4> QED
        BY <4>1, <2>1, <2>3 DEF NamesAreKnown
    <3> QED
      BY <3>1, <3>2
  <2> QED
    BY <1>d, <2>1, <2>2, <2>3 DEF NamesAreKnown, DetachedIsLeft, Private
<1>8. CASE Isolates
  <2>1. CASE Exchange(OwnPlace, DetachedPlace) /\ Goes("inspect")
    BY <2>1, <1>8, <1>d DEF Isolates, Goes, At
  <2>2. CASE UNCHANGED at /\ Goes("verify")
    BY <2>2, <1>8, <1>c
    DEF Isolates, Goes, At, Isolating, NameInUse, NamesAreKnown, DetachedIsLeft
  <2> QED
    BY <1>8, <2>1, <2>2 DEF Isolates
<1>9. CASE Inspects
  BY <1>9, <1>c DEF Inspects, Looks, Leaves, Goes, At, Isolating, NameInUse,
                    NamesAreKnown, DetachedIsLeft
<1>10. CASE OpensReference
  BY <1>10, <1>c DEF OpensReference, Goes, At, Isolating, NameInUse,
                     NamesAreKnown, DetachedIsLeft
<1>11. CASE RemovesEntry
  <2>1. CASE /\ UNCHANGED at
             /\ \/ at[DetachedPlace] = Nothing /\ Leaves("Missing", "move")
                \/ \E result : Leaves(result, "swap")
    BY <2>1, <1>11, <1>c
    DEF RemovesEntry, Leaves, Goes, At, Isolating, NameInUse, NamesAreKnown,
        DetachedIsLeft
  <2>2. CASE at' = [at EXCEPT ![DetachedPlace] = Nothing] /\ Goes("count")
    <3>1. UNCHANGED <<next, parent, private, registered>>
      BY <1>11, <2>2 DEF RemovesEntry, Goes
    <3>2. /\ Current' = Current /\ DetachedPlace' = DetachedPlace
          /\ PrivatePlace' = PrivatePlace
      BY <3>1, NamesSame
    <3>3. pc = "remove" /\ pc' = "count"
      BY <1>11, <2>2 DEF RemovesEntry, At, Goes
    <3>4. \A d \in Dirs, k \in 1 .. Attempts :
             at'[<<d, Private(Current, k)>>] # Nothing =>
               at[<<d, Private(Current, k)>>] # Nothing
      BY <2>2, <1>0, <1>1, <1>2
    <3>5. at'[DetachedPlace] = Nothing
      BY <2>2, <1>0, <1>1
    <3>6. Nothing # Current' /\ Nothing # Placeholder(Current')
      BY <1>n, <3>2 DEF Placeholder
    <3> QED
      BY <3>1, <3>2, <3>3, <3>4, <3>5, <3>6
      DEF NamesAreKnown, Isolating, NameInUse, Private
  <2> QED
    BY <1>11, <2>1, <2>2 DEF RemovesEntry, Leaves
<1>12. CASE CountsLinks
  BY <1>12, <1>c DEF CountsLinks, Goes, At, Isolating, NameInUse, NamesAreKnown,
                     DetachedIsLeft
<1>13. CASE ChecksOwnName
  <2>1. CASE Goes(moving) /\ UNCHANGED <<entry, noLink, registered>>
    BY <2>1, <1>13, <1>0, <1>c
    DEF ChecksOwnName, Goes, At, Isolating, NameInUse, NamesAreKnown,
        DetachedIsLeft, entry
  <2> QED
    BY <1>13, <1>b, <2>1 DEF ChecksOwnName
<1>14. CASE MovesPlaceholder
  <2>0. /\ pc = "move" /\ Isolating /\ NameInUse = 1
        /\ at[DetachedPlace] \notin {Current, Placeholder(Current)}
    BY <1>14 DEF MovesPlaceholder, At, NamesAreKnown, Isolating, NameInUse,
                 DetachedIsLeft
  <2>1. \A d \in Dirs, k \in 1 .. Attempts :
          at[<<d, Private(Current, k)>>] # Nothing => d = parent /\ k = 1
    BY <2>0 DEF NamesAreKnown
  <2>2. CASE Moves
    <3>1. /\ UNCHANGED <<next, parent, private, registered>>
          /\ pc' = "verify"
      BY <2>2 DEF Moves, Goes, entry
    <3>2. /\ Current' = Current /\ DetachedPlace' = DetachedPlace
          /\ PrivatePlace' = PrivatePlace
      BY <3>1, NamesSame
    <3>3. ASSUME NEW d \in Dirs, NEW k \in 1 .. Attempts,
                 at'[<<d, Private(Current, k)>>] # Nothing
          PROVE  d = parent /\ k \in {1, private}
      BY <3>3, <2>1, <2>2, <1>0, <1>1, <1>2 DEF Moves
    <3>4. private # 1 => at'[DetachedPlace] = at[DetachedPlace]
      <4>1. private # 1 => DetachedPlace # PrivatePlace
        BY <1>0 DEF DetachedPlace, PrivatePlace, Private
      <4> QED
        BY <4>1, <2>2, <1>0, <1>1 DEF Moves
    <3>5. Placeholder(Current)' = Placeholder(Current)
      BY <3>1, NamesSame
    <3> QED
      BY <2>0, <3>1, <3>2, <3>3, <3>4, <3>5
      DEF NamesAreKnown, Isolating, NameInUse, DetachedIsLeft, Private
  <2>3. CASE private < Attempts /\ TriesName(private + 1)
    <3>1. /\ UNCHANGED <<next, parent, at>> /\ private' = private + 1
          /\ registered' = {DetachedPlace, <<parent, Private(Current, private + 1)>>}
          /\ pc' = "move"
      BY <2>3 DEF TriesName, Goes
    <3>2. Current' = Current /\ DetachedPlace' = DetachedPlace
      BY <3>1, NamesSame
    <3>3. PrivatePlace' = <<parent, Private(Current, private + 1)>>
      BY <3>1, <3>2 DEF PrivatePlace, Private
    <3>4. Placeholder(Current)' = Placeholder(Current)
      BY <3>1, NamesSame
    <3> QED
      BY <2>0, <2>1, <3>1, <3>2, <3>3, <3>4
      DEF NamesAreKnown, Isolating, NameInUse, Private
  <2> QED
    BY <1>14, <1>b, <2>2, <2>3 DEF MovesPlaceholder
<1>15. CASE SwapsBack
  <2>1. CASE Exchange(OwnPlace, DetachedPlace) /\ Goes("verify")
             /\ UNCHANGED <<entry, noLink, registered>>
    BY <2>1, <1>15, <1>d DEF SwapsBack, Goes, At, entry
  <2> QED
    BY <1>15, <1>b, <2>1 DEF SwapsBack
<1>16. CASE VerifiesPlaceholder
  <2>1. CASE Goes("unlink") /\ UNCHANGED <<entry, noLink, registered>>
    BY <2>1, <1>16, <1>c
    DEF VerifiesPlaceholder, Goes, At, Isolating, NameInUse, NamesAreKnown,
        DetachedIsLeft, entry
  <2> QED
    BY <1>16, <1>b, <2>1 DEF VerifiesPlaceholder
<1>17. CASE UnlinksPlaceholder
  BY <1>17, <1>b DEF UnlinksPlaceholder
<1> QED
  BY <1>3, <1>4, <1>5, <1>6, <1>7, <1>8, <1>9, <1>10, <1>11, <1>12, <1>13,
     <1>14, <1>15, <1>16, <1>17 DEF Executor

\* Another process leaves the executor's own state alone.
LEMMA OthersFrame ==
    ASSUME Others
    PROVE  UNCHANGED <<removed, gate, next, pc, entry, noLink, registered, report>>
           /\ pc # "done"
BY DEF Others, Put, TakeAway, Write, Link, Unlink, Interferes

\* Another process puts nothing but a stranger at a private name, and makes
\* none that it has not seen.
LEMMA OthersPrivate ==
    ASSUME TypeOK, Others, NEW e \in Entries, NEW d \in Dirs,
           NEW k \in 1 .. Attempts
    PROVE  /\ at'[<<d, Private(e, k)>>]
                \in {at[<<d, Private(e, k)>>], Nothing} \cup Strangers
           /\ at'[<<d, Private(e, k)>>] # Nothing =>
                \/ at[<<d, Private(e, k)>>] # Nothing
                \/ <<d, Private(e, k)>> \in Seen
<1> DEFINE p == <<d, Private(e, k)>>
<1>1. p \in Places
  BY DEF Places, Names, PrivateNames
<1>2. p[2] \notin OwnNames
  BY NamesApart
<1> HIDE DEF p
<1>3. /\ at'[p] \in {at[p], Nothing} \cup Strangers
      /\ at'[p] # Nothing => at[p] # Nothing \/ p \in Seen
  BY <1>1, <1>2, OthersPlace
<1> QED
  BY <1>3 DEF p

\* Every step keeps the private names known.
LEMMA KnownStep ==
    ASSUME IInv, NamesAreKnown, [Next]_vars
    PROVE  NamesAreKnown'
<1>1. CASE Others
  <2>1. UNCHANGED <<next, pc, parent, private, moving, registered>> /\ pc # "done"
    BY <1>1, OthersFrame DEF entry
  <2>2. /\ Current' = Current /\ DetachedPlace' = DetachedPlace
        /\ PrivatePlace' = PrivatePlace
    BY <2>1, NamesSame
  <2>3. Current \in Entries /\ parent \in Dirs /\ 1 \in 1 .. Attempts
    BY <2>1, PlacesLemma, IsolationAssumption DEF IInv, TypeOK
  <2>4. ASSUME Isolating, NEW d \in Dirs, NEW k \in 1 .. Attempts,
               at'[<<d, Private(Current, k)>>] # Nothing
        PROVE  d = parent /\ k \in {1, NameInUse}
    <3>1. \/ at[<<d, Private(Current, k)>>] # Nothing
          \/ <<d, Private(Current, k)>> \in Seen
      BY <1>1, <2>3, <2>4, OthersPrivate DEF IInv
    <3>2. /\ <<d, Private(Current, k)>> = DetachedPlace <=> d = parent /\ k = 1
          /\ <<d, Private(Current, k)>> = PrivatePlace <=>
               d = parent /\ k = private
      BY <2>1, PrivatePlaces DEF IInv
    <3> QED
      BY <2>4, <3>1, <3>2 DEF NamesAreKnown, Seen, NameInUse
  <2>5. at'[DetachedPlace] \in {at[DetachedPlace], Nothing} \cup Strangers
    BY <1>1, <2>3, OthersPrivate DEF DetachedPlace, IInv
  <2>6. /\ Isolating' = Isolating /\ NameInUse' = NameInUse
        /\ DetachedIsLeft' = DetachedIsLeft
        /\ Placeholder(Current)' = Placeholder(Current)
    BY <2>1, NamesSame DEF Isolating, NameInUse, DetachedIsLeft
  <2>7. {Current, Placeholder(Current)} \cap (Strangers \cup {Nothing}) = {}
    BY <2>3, IsolationAssumption DEF Placeholders, Objects
  <2>8. DetachedIsLeft => at'[DetachedPlace] \notin {Current, Placeholder(Current)}
    BY <2>5, <2>7 DEF NamesAreKnown
  <2>9. \A d, k : <<d, Private(Current', k)>> = <<d, Private(Current, k)>>
    BY <2>2
  <2> QED
    BY <2>1, <2>2, <2>4, <2>6, <2>8, <2>9 DEF NamesAreKnown
<1>2. CASE RequestStop \/ UNCHANGED vars
  <2>1. UNCHANGED <<at, next, pc, parent, private, moving, registered>>
    BY <1>2 DEF RequestStop, vars, entry
  <2>2. /\ Current' = Current /\ DetachedPlace' = DetachedPlace
        /\ PrivatePlace' = PrivatePlace
    BY <2>1, NamesSame
  <2>3. /\ Isolating' = Isolating /\ NameInUse' = NameInUse
        /\ DetachedIsLeft' = DetachedIsLeft
        /\ Placeholder(Current)' = Placeholder(Current)
    BY <2>1, NamesSame DEF Isolating, NameInUse, DetachedIsLeft
  <2> QED
    BY <2>1, <2>2, <2>3 DEF NamesAreKnown, Private
<1> QED
  BY <1>1, <1>2, KnownExecutor DEF Next

-----------------------------------------------------------------------------
(***************************************************************************)
(* The outcome of an entry.                                                *)
(***************************************************************************)
\* The phases before the entry's outcome is known, and those after it.
Early == {"boundary", "claim", "create", "begin", "isolate", "inspect",
          "revalidate", "reference", "remove"}
Late == {"check", "move", "swap", "verify", "unlink"}

\* The ways an entry ends.
Ends(result) ==
    /\ Records(result)
    /\ \/ /\ UNCHANGED <<at, removed>>
          /\ \/ result = "Failed"
             \/ result = "Unattempted" /\ pc \in {"boundary", "claim"}
             \/ result = "Changed" /\ pc = "boundary" /\ ~stopped
       \/ /\ pc = "create" /\ result = "Failed"
          /\ Makes(DetachedPlace) /\ UNCHANGED removed
       \/ pc = "unlink" /\ result = pending /\ Removes(PrivatePlace)

\* The ways the executor goes on with an entry.
GoesOn ==
    /\ UNCHANGED <<next, report>>
    /\ pc = "boundary" => ~stopped
    /\ \/ /\ pc \in Early /\ pc' \in Early \ {"boundary"}
          /\ UNCHANGED <<removed, pending, refused, noLink>>
       \/ /\ pc \in Early /\ pc' \in Late
          /\ pending' # "Deleted"
          /\ refused' => refused \/ pending' = "Failed"
          /\ UNCHANGED <<removed, noLink>>
       \/ /\ pc = "remove" /\ pc' = "count"
          /\ Removes(DetachedPlace)
          /\ pending' = "Deleted"
          /\ UNCHANGED <<refused, noLink>>
       \/ /\ pc = "count" /\ pc' = "check"
          /\ noLink' \in {FALSE, NoLinkIsLeft}
          /\ counted' = (counted /\ (IsFile(Current) => noLink'))
          /\ UNCHANGED <<removed, pending, refused>>
       \/ /\ pc \in Late /\ pc' \in Late
          /\ UNCHANGED <<removed, pending, refused, noLink, counted>>

\* Every step of the executor ends the run, ends an entry or goes on with it.
LEMMA StepKinds ==
    ASSUME TypeOK, Executor
    PROVE  \/ CannotOpenRoot \/ CannotReadPlan
           \/ \E result \in Outcomes : Ends(result)
           \/ GoesOn
<1> USE DEF At
<1>1. CASE Skips
  BY <1>1 DEF Skips, Ends, Outcomes
<1>2. CASE OpensParent
  BY <1>2 DEF OpensParent, Ends, Outcomes, GoesOn, Goes, Early
<1>3. CASE Claims
  BY <1>3 DEF Claims, Ends, Outcomes, GoesOn, Goes, Early, entry
<1>4. CASE CreatesPlaceholder
  BY <1>4 DEF CreatesPlaceholder, Ends, Outcomes, GoesOn, Goes, Early, entry
<1>5. CASE Begins
  BY <1>5 DEF Begins, GoesOn, Goes, Early, Late
<1>6. CASE Isolates
  BY <1>6 DEF Isolates, GoesOn, Goes, Early, Late
<1>7. CASE Inspects
  BY <1>7 DEF Inspects, Looks, Leaves, GoesOn, Goes, Early, Late
<1>8. CASE OpensReference
  BY <1>8 DEF OpensReference, GoesOn, Goes, Early
<1>9. CASE RemovesEntry
  BY <1>9 DEF RemovesEntry, Leaves, Removes, GoesOn, Goes, Early, Late
<1>10. CASE CountsLinks
  BY <1>10 DEF CountsLinks, GoesOn, Goes
<1>11. CASE ChecksOwnName
  BY <1>11 DEF ChecksOwnName, Ends, Outcomes, GoesOn, Goes, Late, entry, links,
               TypeOK
<1>12. CASE MovesPlaceholder
  BY <1>12 DEF MovesPlaceholder, Moves, TriesName, Ends, Outcomes, GoesOn,
               Goes, Late, entry, links
<1>13. CASE SwapsBack
  BY <1>13 DEF SwapsBack, Ends, Outcomes, GoesOn, Goes, Late, entry, links
<1>14. CASE VerifiesPlaceholder
  BY <1>14 DEF VerifiesPlaceholder, Ends, Outcomes, GoesOn, Goes, Late, entry, links
<1>15. CASE UnlinksPlaceholder
  BY <1>15 DEF UnlinksPlaceholder, Ends, Removes, Outcomes, TypeOK
<1> QED
  BY <1>1, <1>2, <1>3, <1>4, <1>5, <1>6, <1>7, <1>8, <1>9, <1>10, <1>11,
     <1>12, <1>13, <1>14, <1>15 DEF Executor

\* The entry is removed, or was taken and something put in its stead was.
RemovedOrTaken(e) == e \in removed \/ (e \in taken /\ removed \cap late # {})
RemovedOrTakenNext(e) ==
    e \in removed' \/ (e \in taken' /\ removed' \cap late' # {})

\* What is known of the entry at hand: whether it is removed, and that no
\* outcome is recorded for it nor for those after it.
RemovalIsPending ==
    /\ pc \in Early => pending = "Failed"
    /\ pc = "count" => pending = "Deleted"
    /\ pc # "done" =>
         /\ Current \in removed => pending = "Deleted"
         /\ pending = "Deleted" => RemovedOrTaken(Current)
    /\ pc # "done" =>
         \A i \in 1 .. Len(Plan) : i >= next => Plan[i] \notin DOMAIN outcome
    /\ \A i \in 1 .. Len(Plan) : i > next => Plan[i] \notin removed

\* A step of the executor has an entry at hand.
LEMMA AtHand ==
    ASSUME IInv, Executor
    PROVE  /\ TypeOK /\ HasEntry /\ pc # "done"
           /\ next \in 1 .. Len(Plan) /\ Current \in Entries
           /\ at \in [Places -> Objects \cup {Nothing}]
           /\ parent \in Dirs /\ private \in 1 .. Attempts /\ 1 \in 1 .. Attempts
<1>1. pc # "done"
  BY DEF Executor, At, CannotOpenRoot, CannotReadPlan, Skips, OpensParent,
         Claims, CreatesPlaceholder, Begins, Isolates, Inspects,
         OpensReference, RemovesEntry, CountsLinks, ChecksOwnName,
         MovesPlaceholder, SwapsBack, VerifiesPlaceholder, UnlinksPlaceholder
<1>2. next \in 1 .. Len(Plan)
  BY <1>1, IsolationAssumption DEF IInv, TypeOK, HasEntry
<1>3. TypeOK /\ HasEntry
  BY DEF IInv
<1>4. Current \in Entries
  BY <1>1, <1>3, PlacesLemma
<1>5. /\ at \in [Places -> Objects \cup {Nothing}]
      /\ parent \in Dirs /\ private \in 1 .. Attempts
  BY <1>3 DEF TypeOK
<1>6. 1 \in 1 .. Attempts
  BY IsolationAssumption
<1> QED
  BY <1>1, <1>2, <1>3, <1>4, <1>5, <1>6

\* The executor leaves the names of every other entry alone.
LEMMA OtherNames ==
    ASSUME IInv, Executor, NEW e \in Entries, e # Current, NEW d \in Dirs
    PROVE  /\ \A k \in 1 .. Attempts :
                at'[<<d, Private(e, k)>>] = at[<<d, Private(e, k)>>]
           /\ at'[<<d, Own(e)>>] = at[<<d, Own(e)>>]
<1>0. /\ pc # "done" /\ Current \in Entries /\ TypeOK /\ HasEntry
      /\ at \in [Places -> Objects \cup {Nothing}]
  BY AtHand
<1>1. ASSUME NEW p \in Places, p # OwnPlace, p # DetachedPlace, p # PrivatePlace
      PROVE  at'[p] = at[p]
  <2>1. OwnPlace \in Places /\ DetachedPlace \in Places /\ PrivatePlace \in Places
    BY <1>0, PlacesLemma
  <2> QED
    BY <1>0, <1>1, <2>1, NamesStepLemma DEF NamesStep, Makes, Exchange, Removes
<1>2. ASSUME NEW k \in 1 .. Attempts
      PROVE  at'[<<d, Private(e, k)>>] = at[<<d, Private(e, k)>>]
  <2>1. <<d, Private(e, k)>> \in Places
    BY DEF Places, Names, PrivateNames
  <2>2. /\ <<d, Private(e, k)>> # OwnPlace /\ <<d, Private(e, k)>> # DetachedPlace
        /\ <<d, Private(e, k)>> # PrivatePlace
    BY DEF OwnPlace, DetachedPlace, PrivatePlace, Own, Private
  <2> QED
    BY <1>1, <2>1, <2>2
<1>3. at'[<<d, Own(e)>>] = at[<<d, Own(e)>>]
  <2>1. <<d, Own(e)>> \in Places
    BY DEF Places, Names, OwnNames
  <2>2. /\ <<d, Own(e)>> # OwnPlace /\ <<d, Own(e)>> # DetachedPlace
        /\ <<d, Own(e)>> # PrivatePlace
    BY DEF OwnPlace, DetachedPlace, PrivatePlace, Own, Private
  <2> QED
    BY <1>1, <2>1, <2>2
<1> QED
  BY <1>2, <1>3

\* The executor removes an entry in one step alone.
LEMMA RemovedStep ==
    ASSUME IInv, Executor
    PROVE  /\ removed \subseteq removed'
           /\ \A e \in Entries : e \in removed' /\ e \notin removed =>
                 e = Current /\ pc = "remove" /\ Removes(DetachedPlace)
           /\ \A e \in Entries :
                 \/ e = Current /\ pc = "remove" /\ Removes(DetachedPlace)
                 \/ RemovedOrTaken(e)
                 => RemovedOrTakenNext(e)
<1>0. Current \in Entries /\ pc # "done"
  BY AtHand
<1>a. UNCHANGED <<taken, late>> /\ late \subseteq Strangers
  BY NamesStepLemma DEF objects, IInv, TypeOK
<1>b. Entries \cap late = {}
  BY <1>a, IsolationAssumption
<1>1. NamesStep
  BY NamesStepLemma
<1>2. /\ removed \subseteq removed'
      /\ \A e \in Entries : RemovedOrTaken(e) => RemovedOrTakenNext(e)
  BY <1>1, <1>a DEF NamesStep, Removes, RemovedOrTaken, RemovedOrTakenNext
<1>3. CASE removed' = removed /\ ~(pc = "remove" /\ Removes(DetachedPlace))
  BY <1>2, <1>3
<1>4. CASE pc = "remove" /\ Removes(DetachedPlace)
  <2>1. \/ at[DetachedPlace] = Current
        \/ Current \in taken /\ at[DetachedPlace] \in late
    BY <1>4 DEF Removes, IInv, RemovalIsSafe
  <2>2. removed' = removed \cup {at[DetachedPlace]}
    BY <1>4 DEF Removes
  <2>3. \A e \in Entries : e = Current => RemovedOrTakenNext(e)
    BY <1>a, <2>1, <2>2 DEF RemovedOrTakenNext
  <2>4. \A e \in Entries : e \in removed' /\ e \notin removed => e = Current
    BY <1>b, <2>1, <2>2
  <2> QED
    BY <1>2, <1>4, <2>3, <2>4
<1>5. CASE pc = "unlink" /\ Removes(PrivatePlace)
  <2>1. at[PrivatePlace] \in {Placeholder(Current)} \cup late
    BY <1>5 DEF Removes, IInv, RemovalIsSafe
  <2>2. Placeholder(Current) \in Placeholders
    BY <1>0 DEF Placeholders
  <2>3. \A e \in Entries : e \in removed' => e \in removed
    BY <1>5, <1>b, <2>1, <2>2, IsolationAssumption DEF Removes
  <2> QED
    BY <1>2, <1>5, <2>3
<1> QED
  BY <1>1, <1>3, <1>4, <1>5 DEF NamesStep

\* Every step of the executor keeps what is known of the entry at hand.
LEMMA PendingExecutor ==
    ASSUME IInv, RemovalIsPending, Executor
    PROVE  RemovalIsPending'
<1> USE IsolationAssumption
<1>0. /\ TypeOK /\ pc # "done" /\ next \in 1 .. Len(Plan) /\ Current \in Entries
      /\ \A i \in 1 .. Len(Plan) : Plan[i] \in Entries
  BY AtHand
<1>1. ASSUME NEW i \in 1 .. Len(Plan), i > next
      PROVE  Plan[i] # Current
  <2>1. i # next
    BY <1>0, <1>1
  <2> QED
    BY <1>0, <2>1 DEF Current
<1>2. ASSUME NEW i \in 1 .. Len(Plan), i > next
      PROVE  Plan[i] \notin removed'
  BY <1>0, <1>1, <1>2, RemovedStep DEF RemovalIsPending
<1>3. CASE CannotOpenRoot \/ CannotReadPlan
  <2>1. pc' = "done" /\ UNCHANGED next
    BY <1>3 DEF CannotOpenRoot, CannotReadPlan
  <2> QED
    BY <1>2, <2>1 DEF RemovalIsPending, Early
<1>4. ASSUME NEW result \in Outcomes, Ends(result)
      PROVE  RemovalIsPending'
  <2>1. /\ pc' \in {"boundary", "done"} /\ pending' = "Failed"
        /\ next' = next + 1 /\ DOMAIN outcome' = DOMAIN outcome \cup {Current}
        /\ pc' = "boundary" => next # Len(Plan)
    BY <1>4 DEF Ends, Records, LeavesEntry, Last
  <2>2. \A i \in 1 .. Len(Plan) : i >= next' => i > next
    BY <2>1, <1>0
  <2>3. pc' = "boundary" => next' \in 1 .. Len(Plan)
    BY <2>1, <1>0
  <2>4. pc' # "done" => Current' \notin removed'
    BY <2>1, <2>2, <2>3, <1>0, <1>2 DEF Current
  <2>5. \A i \in 1 .. Len(Plan) : i >= next' => Plan[i] \notin DOMAIN outcome'
    <3> SUFFICES ASSUME NEW i \in 1 .. Len(Plan), i >= next'
                 PROVE  Plan[i] \notin DOMAIN outcome'
      OBVIOUS
    <3>1. i > next
      BY <2>2
    <3>2. i >= next
      BY <3>1, <1>0
    <3>3. Plan[i] \notin DOMAIN outcome
      BY <3>2, <1>0 DEF RemovalIsPending
    <3> QED
      BY <2>1, <3>1, <3>3, <1>1
  <2>6. \A i \in 1 .. Len(Plan) : i > next' => Plan[i] \notin removed'
    <3> SUFFICES ASSUME NEW i \in 1 .. Len(Plan), i > next'
                 PROVE  Plan[i] \notin removed'
      OBVIOUS
    <3>1. i > next
      BY <2>1, <1>0
    <3> QED
      BY <3>1, <1>2
  <2> QED
    BY <2>1, <2>4, <2>5, <2>6 DEF RemovalIsPending, Early
<1>5. CASE GoesOn
  <2>1. UNCHANGED <<next, outcome>> /\ Current' = Current
    BY <1>5 DEF GoesOn, report, Current
  <2>2. /\ pc' \in Early => pending' = "Failed"
        /\ pc' = "count" => pending' = "Deleted"
        /\ Current \in removed' => pending' = "Deleted"
        /\ pending' = "Deleted" => RemovedOrTakenNext(Current)
    <3>1. /\ Current \in removed => pending = "Deleted"
          /\ pending = "Deleted" => RemovedOrTaken(Current)
      BY <1>0 DEF RemovalIsPending
    <3>2. CASE pc = "remove" /\ pc' = "count" /\ pending' = "Deleted"
               /\ Removes(DetachedPlace)
      BY <1>0, <3>2, RemovedStep DEF Early
    <3>3. CASE pc \in Early /\ pc' \in Early /\ UNCHANGED <<removed, pending>>
      BY <3>1, <3>3 DEF RemovalIsPending, Early
    <3>4. CASE pc \in Early /\ pc' \in Late /\ pending' # "Deleted"
               /\ UNCHANGED removed
      BY <3>1, <3>4 DEF RemovalIsPending, Early, Late
    <3>5. CASE pc \in Late \cup {"count"} /\ pc' \in Late
               /\ UNCHANGED <<removed, pending>>
      BY <1>0, <3>1, <3>5, RemovedStep DEF Early, Late
    <3> QED
      BY <1>5, <3>2, <3>3, <3>4, <3>5 DEF GoesOn, Late
  <2>3. pc' # "done" =>
          /\ Current' \in removed' => pending' = "Deleted"
          /\ pending' = "Deleted" => RemovedOrTaken(Current)'
    BY <2>1, <2>2 DEF RemovedOrTaken, RemovedOrTakenNext
  <2> QED
    BY <1>0, <1>2, <2>1, <2>2, <2>3 DEF RemovalIsPending
<1> QED
  BY <1>0, <1>3, <1>4, <1>5, StepKinds

\* Every step does.
LEMMA PendingStep ==
    ASSUME IInv, RemovalIsPending, [Next]_vars
    PROVE  RemovalIsPending'
<1>1. CASE Others
  <2>1. taken \subseteq taken' /\ late \subseteq late'
    BY <1>1, OthersLemma DEF Puts, Empties
  <2>2. UNCHANGED <<removed, next, pc, pending, outcome>> /\ Current' = Current
    BY <1>1, OthersFrame DEF Current, entry, report
  <2>3. RemovedOrTaken(Current) => RemovedOrTaken(Current)'
    BY <2>1, <2>2 DEF RemovedOrTaken
  <2> QED
    BY <2>2, <2>3 DEF RemovalIsPending
<1>2. CASE RequestStop \/ UNCHANGED vars
  BY <1>2 DEF RequestStop, vars, entry, report, objects, RemovalIsPending,
              RemovedOrTaken, Current
<1> QED
  BY <1>1, <1>2, PendingExecutor DEF Next

\* Every step of the executor keeps the outcomes true.
LEMMA OutcomeExecutor ==
    ASSUME IInv, NamesAreKnown, RemovalIsPending, OutcomeIsTrue, Executor
    PROVE  OutcomeIsTrue'
<1> USE IsolationAssumption
<1>0. /\ TypeOK /\ HasEntry /\ pc # "done" /\ next \in 1 .. Len(Plan)
      /\ Current \in Entries /\ DOMAIN outcome \subseteq Entries
      /\ at \in [Places -> Objects \cup {Nothing}]
      /\ Current \notin DOMAIN outcome /\ parent \in Dirs
      /\ private \in 1 .. Attempts
  <2>1. TypeOK /\ pc # "done" /\ next \in 1 .. Len(Plan)
    BY AtHand
  <2>2. Current \notin DOMAIN outcome
    <3>1. next >= next
      BY <2>1
    <3> QED
      BY <2>1, <3>1 DEF RemovalIsPending, Current
  <2> QED
    BY <2>1, <2>2, AtHand DEF TypeOK
<1> DEFINE ClearNext(e) == \A d \in Dirs, k \in 1 .. Attempts :
                             at'[<<d, Private(e, k)>>] \notin {e, Placeholder(e)}
<1>n. Nothing # Current /\ Nothing # Placeholder(Current)
  BY <1>0 DEF Objects, Placeholders
\* An outcome recorded earlier stays true.
<1>1. ASSUME NEW e \in DOMAIN outcome
      PROVE  /\ outcome[e] = "Deleted" => RemovedOrTakenNext(e)
             /\ e \in removed' => outcome[e] \in {"Deleted", "Failed"}
             /\ outcome[e] # "Failed" => ClearNext(e)
  <2>1. e \in Entries /\ e # Current
    BY <1>0, <1>1
  <2>2. /\ e \in removed' <=> e \in removed
        /\ RemovedOrTaken(e) => RemovedOrTakenNext(e)
    BY <2>1, RemovedStep
  <2>3. ASSUME NEW d \in Dirs, NEW k \in 1 .. Attempts
        PROVE  at'[<<d, Private(e, k)>>] = at[<<d, Private(e, k)>>]
    BY <2>1, OtherNames
  <2> QED
    BY <1>1, <2>2, <2>3 DEF OutcomeIsTrue, RemovedOrTaken
<1>2. CASE CannotOpenRoot
  BY <1>2 DEF CannotOpenRoot, OutcomeIsTrue
<1>3. CASE CannotReadPlan
  <2>1. /\ DOMAIN outcome' = DOMAIN outcome \cup {Plan[Len(Plan)]}
        /\ \A e \in DOMAIN outcome' :
              outcome'[e] = IF e = Plan[Len(Plan)] THEN "Failed" ELSE outcome[e]
    BY <1>3 DEF CannotReadPlan
  <2> QED
    BY <2>1, <1>1 DEF OutcomeIsTrue, RemovedOrTakenNext, Placeholder
<1>4. CASE GoesOn
  <2>1. outcome' = outcome
    BY <1>4 DEF GoesOn, report
  <2> QED
    BY <2>1, <1>1 DEF OutcomeIsTrue, RemovedOrTakenNext, Placeholder
<1>5. ASSUME NEW result \in Outcomes, Ends(result)
      PROVE  OutcomeIsTrue'
  <2>1. /\ DOMAIN outcome' = DOMAIN outcome \cup {Current}
        /\ \A e \in DOMAIN outcome' :
              outcome'[e] = IF e = Current THEN result ELSE outcome[e]
    BY <1>5 DEF Ends, Records
  <2>2. /\ result = "Deleted" => RemovedOrTakenNext(Current)
        /\ Current \in removed' => result \in {"Deleted", "Failed"}
        /\ result # "Failed" => ClearNext(Current)
    <3>1. CASE result = "Failed"
      BY <3>1
    <3>2. CASE /\ pc \in {"boundary", "claim"} /\ UNCHANGED <<at, removed>>
               /\ result \in {"Unattempted", "Changed"}
      <4>1. Current \notin removed'
        BY <1>0, <3>2 DEF RemovalIsPending, Early
      <4>2. Unattempted(next)
        BY <3>2 DEF Unattempted
      <4>3. ClearNext(Current)
        BY <1>0, <1>n, <3>2, <4>2 DEF IInv, PrivateNamesAreFresh, Current
      <4> QED
        BY <3>2, <4>1, <4>3
    <3>3. CASE pc = "unlink" /\ result = pending /\ Removes(PrivatePlace)
      <4>1. /\ Current \in removed' => result = "Deleted"
            /\ result = "Deleted" => RemovedOrTakenNext(Current)
        BY <1>0, <3>3, RemovedStep DEF RemovalIsPending
      <4>2. ASSUME NEW d \in Dirs, NEW k \in 1 .. Attempts
            PROVE  at'[<<d, Private(Current, k)>>]
                     \notin {Current, Placeholder(Current)}
        <5>1. /\ <<d, Private(Current, k)>> \in Places
              /\ <<d, Private(Current, k)>> = PrivatePlace <=>
                   d = parent /\ k = private
          BY <1>0, PrivatePlaces
        <5>2. at[<<d, Private(Current, k)>>] # Nothing =>
                 d = parent /\ k \in {1, private}
          BY <3>3 DEF NamesAreKnown, Isolating, NameInUse
        <5>3. PrivatePlace \in Places
          BY <1>0, PlacesLemma
        <5>4. CASE d = parent /\ k = private
          BY <1>0, <1>n, <3>3, <5>1, <5>3, <5>4 DEF Removes
        <5>5. CASE ~(d = parent /\ k = private)
          <6>1. at'[<<d, Private(Current, k)>>] = at[<<d, Private(Current, k)>>]
            BY <1>0, <3>3, <5>1, <5>3, <5>5 DEF Removes
          <6>2. CASE at[<<d, Private(Current, k)>>] = Nothing
            BY <1>n, <6>1, <6>2
          <6>3. CASE d = parent /\ k = 1
            <7>1. DetachedIsLeft
              BY <3>3, <5>5, <6>3 DEF DetachedIsLeft
            <7> QED
              BY <6>1, <6>3, <7>1 DEF NamesAreKnown, DetachedPlace
          <6> QED
            BY <5>2, <5>5, <6>2, <6>3
        <5> QED
          BY <5>4, <5>5
      <4> QED
        BY <4>1, <4>2
    <3> QED
      BY <1>5, <3>1, <3>2, <3>3 DEF Ends
  <2> QED
    BY <2>1, <2>2, <1>1 DEF OutcomeIsTrue, RemovedOrTakenNext, Placeholder
<1> QED
  BY <1>0, <1>2, <1>3, <1>4, <1>5, StepKinds

\* Every step does.
LEMMA OutcomeStep ==
    ASSUME IInv, NamesAreKnown, RemovalIsPending, OutcomeIsTrue, [Next]_vars
    PROVE  OutcomeIsTrue'
<1>1. CASE Others
  <2>1. UNCHANGED <<outcome, removed>> /\ DOMAIN outcome \subseteq Entries
    BY <1>1, OthersFrame DEF report, IInv, TypeOK
  <2>2. \A e \in Entries, d \in Dirs, k \in 1 .. Attempts :
           at'[<<d, Private(e, k)>>]
             \in {at[<<d, Private(e, k)>>], Nothing} \cup Strangers
    BY <1>1, OthersPrivate DEF IInv
  <2>3. taken \subseteq taken' /\ late \subseteq late'
    BY <1>1, OthersLemma DEF Puts, Empties
  <2>4. \A e \in Entries :
           {e, Placeholder(e)} \cap (Strangers \cup {Nothing}) = {}
    BY IsolationAssumption DEF Placeholders, Objects
  <2>5. ASSUME NEW e \in DOMAIN outcome
        PROVE  /\ outcome[e] = "Deleted" =>
                    e \in removed \/ (e \in taken' /\ removed \cap late' # {})
               /\ e \in removed => outcome[e] \in {"Deleted", "Failed"}
               /\ outcome[e] # "Failed" =>
                    \A d \in Dirs, k \in 1 .. Attempts :
                        at'[<<d, Private(e, k)>>] \notin {e, Placeholder(e)}
    <3>1. e \in Entries
      BY <2>1, <2>5
    <3>2. ASSUME outcome[e] # "Failed", NEW d \in Dirs, NEW k \in 1 .. Attempts
          PROVE  at'[<<d, Private(e, k)>>] \notin {e, Placeholder(e)}
      <4>1. at[<<d, Private(e, k)>>] \notin {e, Placeholder(e)}
        BY <2>5, <3>2 DEF OutcomeIsTrue
      <4>2. at'[<<d, Private(e, k)>>]
              \in {at[<<d, Private(e, k)>>], Nothing} \cup Strangers
        BY <2>2, <3>1
      <4> QED
        BY <2>4, <3>1, <4>1, <4>2
    <3> QED
      BY <2>3, <2>5, <3>2 DEF OutcomeIsTrue
  <2> QED
    BY <2>1, <2>5 DEF OutcomeIsTrue, Placeholder
<1>2. CASE RequestStop \/ UNCHANGED vars
  BY <1>2 DEF RequestStop, vars, report, objects, OutcomeIsTrue, Placeholder
<1> QED
  BY <1>1, <1>2, OutcomeExecutor DEF Next

-----------------------------------------------------------------------------
(***************************************************************************)
(* The links of the removed files, and the space they free.                *)
(***************************************************************************)
\* An entry has one place at most.
OnePlace == \A e \in Entries, p, q \in Places : at[p] = e /\ at[q] = e => p = q

\* An entry that was removed or taken is out of the tree, so nobody can link it
\* again; and what was read of its links after the removal still holds.
LinksAreKnown ==
    /\ \A e \in Entries \cap (removed \cup taken) : ~InTree(e)
    /\ noLink => pc \in Late /\ Current \in Gone
    /\ pc \in Late /\ pending = "Deleted" /\ IsFile(Current) /\ counted => noLink

\* No step gives an entry a second place, or one that it had not.
LEMMA PlaceStep ==
    ASSUME IInv, OnePlace, [Next]_vars
    PROVE  OnePlace' /\ \A e \in Entries : InTree(e)' => InTree(e)
<1> SUFFICES ASSUME NEW e \in Entries, NEW p \in Places, NEW q \in Places,
                    at'[p] = e
             PROVE  (\E r \in Places : at[r] = e) /\ (at'[q] = e => p = q)
  BY Zenon DEF OnePlace, InTree
<1> USE IsolationAssumption
<1>0. at \in [Places -> Objects \cup {Nothing}]
  BY DEF IInv, TypeOK
<1>1. /\ e # Nothing /\ e \notin Strangers
      /\ \A c \in Entries : e # Placeholder(c)
  <2>1. \A c \in Entries : Placeholder(c) \in Placeholders
    BY DEF Placeholders
  <2>2. e \notin Placeholders /\ e \in Objects /\ e \notin Strangers
    BY DEF Objects
  <2> QED
    BY <2>1, <2>2
<1>2. \A r, s \in Places : at[r] = e /\ at[s] = e => r = s
  BY DEF OnePlace
<1>3. CASE UNCHANGED at
  BY <1>2, <1>3
<1>4. CASE Executor /\ ~UNCHANGED at
  <2>1. /\ TypeOK /\ HasEntry /\ pc # "done" /\ Current \in Entries
    BY <1>4, AtHand
  <2>2. /\ OwnPlace \in Places /\ DetachedPlace \in Places /\ PrivatePlace \in Places
        /\ OwnPlace # DetachedPlace /\ OwnPlace # PrivatePlace
    BY <2>1, PlacesLemma
  <2>3. NamesStep
    BY <1>4, NamesStepLemma
  <2>4. CASE Makes(DetachedPlace)
    BY <1>0, <1>1, <1>2, <2>1, <2>2, <2>4 DEF Makes
  <2>5. CASE Exchange(OwnPlace, DetachedPlace)
    BY <1>0, <1>2, <2>2, <2>5 DEF Exchange
  <2>6. CASE at' = [at EXCEPT ![OwnPlace] = Nothing,
                              ![PrivatePlace] = at[OwnPlace]]
    BY <1>0, <1>1, <1>2, <2>2, <2>6
  <2>7. CASE Removes(DetachedPlace) \/ Removes(PrivatePlace)
    BY <1>0, <1>1, <1>2, <2>2, <2>7 DEF Removes
  <2> QED
    BY <1>4, <2>3, <2>4, <2>5, <2>6, <2>7 DEF NamesStep
<1>5. CASE Others
  <2>1. ASSUME NEW place \in Places, NEW o \in Strangers \cup {Nothing},
               at' = [at EXCEPT ![place] = o]
        PROVE  (\E r \in Places : at[r] = e) /\ (at'[q] = e => p = q)
    BY <1>0, <1>1, <1>2, <2>1
  <2> QED
    BY <1>3, <1>5, <2>1, OthersLemma DEF Puts, Empties
<1>6. CASE RequestStop \/ UNCHANGED vars
  BY <1>3, <1>6 DEF RequestStop, vars
<1> QED
  BY <1>3, <1>4, <1>5, <1>6 DEF Next

\* An entry that is removed or taken stays out of the tree.
LEMMA GoneStep ==
    ASSUME IInv, OnePlace, LinksAreKnown, [Next]_vars
    PROVE  \A e \in Entries \cap (removed' \cup taken') : ~InTree(e)'
<1> SUFFICES ASSUME NEW e \in Entries, e \in removed' \cup taken', InTree(e)'
             PROVE  FALSE
  OBVIOUS
<1>1. InTree(e) /\ e \notin removed /\ e \notin taken
  BY PlaceStep DEF LinksAreKnown
<1>2. CASE Executor
  <2>0. taken' = taken
    BY <1>2, NamesStepLemma DEF objects
  <2>1. e = Current /\ pc = "remove" /\ Removes(DetachedPlace)
    BY <1>1, <1>2, <2>0, RemovedStep
  <2>2. at[DetachedPlace] = e
    BY <1>1, <2>0, <2>1 DEF Removes
  <2>3. /\ TypeOK /\ HasEntry /\ pc # "done"
        /\ at \in [Places -> Objects \cup {Nothing}]
    BY <1>2, AtHand
  <2>4. DetachedPlace \in Places
    BY <2>3, PlacesLemma
  <2>5. PICK p \in Places : at'[p] = e
    BY DEF InTree
  <2>6. p # DetachedPlace
    BY <2>1, <2>3, <2>4, <2>5, IsolationAssumption DEF Removes, Objects
  <2>7. at[p] = e
    BY <2>1, <2>3, <2>4, <2>5, <2>6 DEF Removes
  <2> QED
    BY <2>2, <2>4, <2>6, <2>7 DEF OnePlace
<1>3. CASE Others
  <2>1. e \in taken' /\ removed' = removed
    BY <1>1, <1>3, OthersLemma
  <2>2. /\ at \in [Places -> Objects \cup {Nothing}] /\ e # Nothing
        /\ e \notin Strangers
    BY IsolationAssumption DEF IInv, TypeOK, Objects
  <2>3. PICK p \in Places : at'[p] = e
    BY DEF InTree
  <2>4. ASSUME NEW place \in Places, NEW o \in Strangers \cup {Nothing},
               at' = [at EXCEPT ![place] = o],
               taken' \subseteq taken \cup {at[place]}
        PROVE  FALSE
    <3>1. at[place] = e /\ p # place /\ at[p] = e
      BY <1>1, <2>1, <2>2, <2>3, <2>4
    <3> QED
      BY <3>1 DEF OnePlace
  <2> QED
    BY <1>1, <1>3, <2>1, <2>4, OthersLemma DEF Puts, Empties
<1>4. CASE RequestStop \/ UNCHANGED vars
  BY <1>1, <1>4 DEF RequestStop, vars, objects
<1> QED
  BY <1>2, <1>3, <1>4 DEF Next

\* Another process links only what is in the tree.
LEMMA OthersLinks ==
    ASSUME Others
    PROVE  \A e \in linked' : e \in linked \/ (e \in Entries /\ InTree(e))
<1>1. ASSUME NEW place \in Places, NEW s \in Strangers, Put(place, s)
      PROVE  linked' = linked
  BY <1>1 DEF Put
<1>2. ASSUME NEW place \in Places, TakeAway(place)
      PROVE  /\ linked' \subseteq linked \cup ({at[place]} \cap Entries)
             /\ InTree(at[place])
  BY <1>2 DEF TakeAway, InTree
<1>3. ASSUME NEW o \in Objects, Write(o)
      PROVE  linked' = linked
  BY <1>3 DEF Write
<1>4. ASSUME NEW e \in Entries, Link(e)
      PROVE  linked' = linked \cup {e} /\ InTree(e)
  BY <1>4 DEF Link
<1>5. ASSUME NEW e \in Entries, Unlink(e)
      PROVE  linked' \subseteq linked
  BY <1>5 DEF Unlink
<1> QED
  BY <1>1, <1>2, <1>3, <1>4, <1>5 DEF Others

\* So a file that has gone stays so.
LEMMA OthersGone ==
    ASSUME Others, LinksAreKnown, NEW e \in Entries, e \in Gone
    PROVE  e \in Gone'
<1>1. removed' = removed /\ taken \subseteq taken'
  BY OthersLemma DEF Puts, Empties
<1>2. e \notin linked'
  BY OthersLinks DEF LinksAreKnown, Gone
<1> QED
  BY <1>1, <1>2 DEF Gone

\* Every step keeps what is known of the links, and the space counted as freed
\* free.
LEMMA LinksStep ==
    ASSUME IInv, RemovalIsPending, OnePlace, LinksAreKnown, FreedSpaceIsFree,
           [Next]_vars
    PROVE  LinksAreKnown' /\ FreedSpaceIsFree'
<1> USE IsolationAssumption
<1>0. \A e \in Entries \cap (removed' \cup taken') : ~InTree(e)'
  BY GoneStep
<1>1. CASE Executor
  <2>0. /\ linked' = linked /\ removed \subseteq removed' /\ TypeOK /\ pc # "done"
        /\ taken' = taken /\ Gone \subseteq Gone'
    BY <1>1, NamesStepLemma, RemovedStep, AtHand DEF objects, Gone
  <2>1. pc \in Early => ~noLink
    BY DEF LinksAreKnown, Early, Late
  <2>2. CASE CannotOpenRoot \/ CannotReadPlan
    <3>1. pc = "boundary" /\ pc' = "done" /\ UNCHANGED <<noLink, freed, removed>>
      BY <2>2 DEF CannotOpenRoot, CannotReadPlan, At
    <3>2. ~noLink'
      BY <2>1, <3>1 DEF Early
    <3> QED
      BY <1>0, <2>0, <3>1, <3>2 DEF LinksAreKnown, FreedSpaceIsFree, Late
  <2>3. ASSUME NEW result \in Outcomes, Ends(result)
        PROVE  LinksAreKnown' /\ FreedSpaceIsFree'
    <3>1. /\ ~noLink' /\ pc' \in {"boundary", "done"}
          /\ freed' = IF FreesSpace(result) THEN freed \cup {Current} ELSE freed
      BY <2>3 DEF Ends, Records
    <3>2. FreesSpace(result) => Current \in Gone
      <4> SUFFICES ASSUME FreesSpace(result)
                   PROVE  Current \in Gone
        OBVIOUS
      <4>1. pc = "unlink" /\ pending = "Deleted"
        BY <2>3 DEF FreesSpace, Ends
      <4> QED
        BY <4>1 DEF FreesSpace, LinksAreKnown, Late
    <3> QED
      BY <1>0, <2>0, <3>1, <3>2 DEF LinksAreKnown, FreedSpaceIsFree, Late
  <2>4. CASE GoesOn
    <3>1. UNCHANGED <<next, freed>> /\ Current' = Current
      BY <2>4 DEF GoesOn, report, Current
    <3>2. /\ noLink' => pc' \in Late /\ Current \in Gone'
          /\ pc' \in Late /\ pending' = "Deleted" /\ IsFile(Current) /\ counted'
               => noLink'
      <4>1. CASE pc \in Early /\ pc' \notin Late /\ UNCHANGED noLink
        BY <4>1, <2>1
      <4>2. CASE pc \in Early /\ pending' # "Deleted" /\ UNCHANGED noLink
        BY <4>2, <2>1
      <4>3. CASE /\ pc = "count" /\ pc' = "check"
                 /\ noLink' \in {FALSE, NoLinkIsLeft}
                 /\ counted' = (counted /\ (IsFile(Current) => noLink'))
                 /\ UNCHANGED <<removed, pending>>
        <5>1. Current \in removed \cup taken
          BY <4>3, <2>0 DEF RemovalIsPending, RemovedOrTaken
        <5>2. noLink' => Current \notin linked
          BY <4>3, Zenon DEF NoLinkIsLeft
        <5>3. noLink' => pc' \in Late /\ Current \in Gone'
          BY <4>3, <2>0, <5>1, <5>2 DEF Gone, Late
        <5>4. IsFile(Current) /\ counted' => noLink'
          BY <4>3, Zenon
        <5> QED
          BY <5>3, <5>4
      <4>4. CASE pc \in Late /\ pc' \in Late
                 /\ UNCHANGED <<removed, pending, noLink, counted>>
        BY <4>4, <2>0 DEF LinksAreKnown, Late
      <4> QED
        BY <2>4, <4>1, <4>2, <4>3, <4>4 DEF GoesOn, Early, Late
    <3> QED
      BY <1>0, <2>0, <3>1, <3>2 DEF LinksAreKnown, FreedSpaceIsFree, IsFile
  <2> QED
    BY <1>1, <2>0, <2>2, <2>3, <2>4, StepKinds
<1>2. CASE Others
  <2>1. UNCHANGED <<removed, next, pc, pending, counted, noLink, freed>>
    BY <1>2, OthersFrame DEF entry, links, report
  <2>2. ASSUME NEW e \in Entries, e \in Gone
        PROVE  e \in Gone'
    BY <1>2, <2>2, OthersGone DEF LinksAreKnown
  <2>3. noLink => Current \in Entries
    BY PlacesLemma DEF LinksAreKnown, IInv, Late
  <2>4. freed \subseteq Entries
    BY DEF IInv, TypeOK
  <2>5. Current' = Current
    BY <2>1 DEF Current
  <2>6. LinksAreKnown'
    BY <1>0, <2>1, <2>2, <2>3, <2>5 DEF LinksAreKnown, IsFile
  <2> QED
    BY <2>1, <2>2, <2>4, <2>6 DEF FreedSpaceIsFree
<1>3. CASE RequestStop \/ UNCHANGED vars
  <2>1. UNCHANGED <<removed, linked, taken, next, pc, pending, counted, noLink,
                    freed>>
    BY <1>3 DEF RequestStop, vars, objects, entry, links, report
  <2>2. Current' = Current /\ Gone' = Gone
    BY <2>1 DEF Current, Gone
  <2> QED
    BY <1>0, <2>1, <2>2 DEF LinksAreKnown, FreedSpaceIsFree, IsFile
<1> QED
  BY <1>1, <1>2, <1>3 DEF Next

-----------------------------------------------------------------------------
(***************************************************************************)
(* The report, and the target it is about.                                 *)
(***************************************************************************)
\* Once the loop stops it records nothing but failures and skipped entries, and
\* what it reports of the links is right for each entry before the one at hand.
ReportIsKnown ==
    /\ stopped => pc \in {"boundary", "done"}
    /\ refused => pc \in Late /\ pending = "Failed"
    /\ \A e \in DOMAIN outcome : outcome[e] = "Unattempted" => stopped
    /\ stopped /\ Target \in DOMAIN outcome =>
         outcome[Target] \in {"Unattempted", "Failed"}
    /\ pc = "done" /\ complete =>
         \/ next = Len(Plan) + 1
         \/ Target \in DOMAIN outcome /\ outcome[Target] = "Failed"
    /\ \A i \in 1 .. Len(Plan) : i < next => Plan[i] \in DOMAIN outcome
    /\ ~otherLinks =>
         \A i \in 1 .. Len(Plan) :
            i < next /\ IsFile(Plan[i]) /\ outcome[Plan[i]] # "Unattempted" =>
               Plan[i] \in Gone

\* While the run lasts the target has no outcome until it is at hand.
LEMMA TargetLast ==
    ASSUME IInv, RemovalIsPending, pc # "done"
    PROVE  /\ Target \in Entries /\ Target \notin DOMAIN outcome
           /\ next = Len(Plan) <=> Current = Target
           /\ \A i \in 1 .. Len(Plan) :
                i < next => Plan[i] # Current /\ Plan[i] # Target
<1> USE IsolationAssumption
<1>1. next \in 1 .. Len(Plan) /\ Len(Plan) \in 1 .. Len(Plan)
  BY DEF IInv, TypeOK, HasEntry
<1>2. Target \in Entries
  BY <1>1 DEF Target
<1>3. Target \notin DOMAIN outcome
  <2>1. Len(Plan) >= next
    BY <1>1
  <2> QED
    BY <1>1, <2>1 DEF Target, RemovalIsPending
<1>4. next = Len(Plan) <=> Current = Target
  BY <1>1 DEF Current, Target
<1>5. ASSUME NEW i \in 1 .. Len(Plan), i < next
      PROVE  Plan[i] # Current /\ Plan[i] # Target
  <2>1. i # next /\ i # Len(Plan)
    BY <1>1, <1>5
  <2> QED
    BY <1>1, <2>1 DEF Current, Target
<1> QED
  BY <1>2, <1>3, <1>4, <1>5

\* Every step of the executor keeps what is known of the report.
LEMMA ReportExecutor ==
    ASSUME IInv, RemovalIsPending, LinksAreKnown, ReportIsKnown, Executor
    PROVE  ReportIsKnown'
<1>0. /\ TypeOK /\ pc # "done" /\ next \in 1 .. Len(Plan) /\ Current \in Entries
      /\ DOMAIN outcome \subseteq Entries
  BY AtHand DEF TypeOK
<1>1. /\ Target \in Entries /\ Target \notin DOMAIN outcome
      /\ next = Len(Plan) <=> Current = Target
      /\ \A i \in 1 .. Len(Plan) : i < next => Plan[i] # Current /\ Plan[i] # Target
  BY <1>0, TargetLast
<1>2. Gone \subseteq Gone'
  BY NamesStepLemma, RemovedStep DEF objects, Gone
<1>3. CASE CannotOpenRoot
  <2>1. /\ pc = "boundary" /\ pc' = "done" /\ next = 1 /\ next' = 1
        /\ refused' = refused
        /\ DOMAIN outcome' = Entries /\ \A e \in Entries : outcome'[e] = "Failed"
    BY <1>3, IsolationAssumption DEF CannotOpenRoot, At, entry
  <2>2. ~refused'
    BY <2>1 DEF ReportIsKnown, Late
  <2>3. \A i \in 1 .. Len(Plan) : ~(i < next')
    BY <2>1
  <2> QED
    BY <1>1, <2>1, <2>2, <2>3 DEF ReportIsKnown
<1>4. CASE CannotReadPlan
  <2>1. /\ pc = "boundary" /\ pc' = "done" /\ ~complete'
        /\ UNCHANGED <<next, refused, stopped, otherLinks, removed>>
        /\ DOMAIN outcome' = DOMAIN outcome \cup {Target}
        /\ \A e \in DOMAIN outcome' :
              outcome'[e] = IF e = Target THEN "Failed" ELSE outcome[e]
    BY <1>4 DEF CannotReadPlan, At, entry, Target
  <2>2. ~refused'
    BY <2>1 DEF ReportIsKnown, Late
  <2>3. \A i \in 1 .. Len(Plan) : i < next =>
           Plan[i] \in DOMAIN outcome' /\ outcome'[Plan[i]] = outcome[Plan[i]]
    BY <1>1, <2>1 DEF ReportIsKnown
  <2>4. \A e \in DOMAIN outcome' : outcome'[e] = "Unattempted" => stopped'
    BY <2>1 DEF ReportIsKnown
  <2>5. ~otherLinks' =>
           \A i \in 1 .. Len(Plan) :
              i < next' /\ IsFile(Plan[i]) /\ outcome'[Plan[i]] # "Unattempted" =>
                 Plan[i] \in Gone'
    BY <1>2, <2>1, <2>3 DEF ReportIsKnown
  <2> QED
    BY <2>1, <2>2, <2>3, <2>4, <2>5 DEF ReportIsKnown, IsFile
<1>5. ASSUME NEW result \in Outcomes, Ends(result)
      PROVE  ReportIsKnown'
  <2>1. /\ pc' \in {"boundary", "done"} /\ ~refused' /\ next' = next + 1
        /\ pc' = "done" /\ complete' => next = Len(Plan)
        /\ stopped' = (stopped \/ refused \/ result = "Unattempted")
        /\ otherLinks' = (otherLinks \/ MayHaveOtherLinks(Current, result))
        /\ DOMAIN outcome' = DOMAIN outcome \cup {Current}
        /\ \A e \in DOMAIN outcome' :
              outcome'[e] = IF e = Current THEN result ELSE outcome[e]
    BY <1>5 DEF Ends, Records, LeavesEntry, Last
  <2>2. \A e \in DOMAIN outcome' : outcome'[e] = "Unattempted" => stopped'
    BY <2>1 DEF ReportIsKnown
  <2>3. ASSUME stopped', Target \in DOMAIN outcome'
        PROVE  outcome'[Target] \in {"Unattempted", "Failed"}
    <3>1. outcome'[Target] = result /\ Current = Target
      BY <1>1, <2>1, <2>3
    <3>2. CASE stopped
      BY <1>5, <2>1, <3>1, <3>2 DEF Ends, ReportIsKnown
    <3>3. CASE refused
      BY <1>5, <2>1, <3>1, <3>3 DEF Ends, ReportIsKnown, Late
    <3> QED
      BY <2>1, <2>3, <3>1, <3>2, <3>3
  <2>4. pc' = "done" /\ complete' => next' = Len(Plan) + 1
    BY <2>1
  <2>5. \A i \in 1 .. Len(Plan) : i < next' <=> i < next \/ i = next
    <3>1. next' = next + 1
      BY <2>1
    <3> QED
      BY <1>0, <3>1
  <2>6. \A i \in 1 .. Len(Plan) : i < next' => Plan[i] \in DOMAIN outcome'
    BY <2>1, <2>5 DEF ReportIsKnown, Current
  <2>7. ASSUME ~otherLinks', NEW i \in 1 .. Len(Plan), i < next', IsFile(Plan[i]),
               outcome'[Plan[i]] # "Unattempted"
        PROVE  Plan[i] \in Gone'
    <3>1. ~otherLinks /\ ~MayHaveOtherLinks(Current, result)
      BY <2>1, <2>7
    <3>2. CASE i = next
      <4>1. Plan[i] = Current /\ result # "Unattempted"
        BY <2>1, <2>7, <3>2 DEF Current
      <4>2. noLink
        BY <2>7, <3>1, <4>1 DEF MayHaveOtherLinks
      <4> QED
        BY <1>2, <4>1, <4>2 DEF LinksAreKnown
    <3>3. CASE i < next
      <4>1. Plan[i] # Current /\ Plan[i] \in DOMAIN outcome
        BY <1>1, <3>3 DEF ReportIsKnown
      <4>2. outcome'[Plan[i]] = outcome[Plan[i]]
        BY <2>1, <4>1
      <4> QED
        BY <1>2, <2>7, <3>1, <3>3, <4>2 DEF ReportIsKnown
    <3> QED
      BY <2>5, <2>7, <3>2, <3>3
  <2> QED
    BY <2>1, <2>2, <2>3, <2>4, <2>6, <2>7 DEF ReportIsKnown, IsFile
<1>6. CASE GoesOn
  <2>1. UNCHANGED <<next, outcome, otherLinks, stopped, complete>>
    BY <1>6 DEF GoesOn, report
  <2>2. pc' # "done" /\ pc' # "boundary" /\ ~stopped
    BY <1>0, <1>6 DEF GoesOn, ReportIsKnown, Early, Late
  <2>3. refused' => pc' \in Late /\ pending' = "Failed"
    BY <1>6 DEF GoesOn, ReportIsKnown, Early, Late
  <2>4. ~otherLinks' =>
           \A i \in 1 .. Len(Plan) :
              i < next' /\ IsFile(Plan[i]) /\ outcome'[Plan[i]] # "Unattempted" =>
                 Plan[i] \in Gone'
    BY <1>2, <2>1 DEF ReportIsKnown
  <2> QED
    BY <2>1, <2>2, <2>3, <2>4 DEF ReportIsKnown, IsFile
<1> QED
  BY <1>0, <1>3, <1>4, <1>5, <1>6, StepKinds

\* Every step does.
LEMMA ReportStep ==
    ASSUME IInv, RemovalIsPending, LinksAreKnown, ReportIsKnown, [Next]_vars
    PROVE  ReportIsKnown'
<1>1. CASE Others
  <2>1. UNCHANGED <<removed, next, pc, pending, refused, outcome, otherLinks,
                    stopped, complete>>
    BY <1>1, OthersFrame DEF entry, report
  <2>2. ASSUME NEW e \in Entries, e \in Gone
        PROVE  e \in Gone'
    BY <1>1, <2>2, OthersGone
  <2>3. \A i \in 1 .. Len(Plan) : Plan[i] \in Entries
    BY IsolationAssumption
  <2>4. ~otherLinks' =>
           \A i \in 1 .. Len(Plan) :
              i < next' /\ IsFile(Plan[i]) /\ outcome'[Plan[i]] # "Unattempted" =>
                 Plan[i] \in Gone'
    BY <2>1, <2>2, <2>3 DEF ReportIsKnown
  <2> QED
    BY <2>1, <2>4 DEF ReportIsKnown, IsFile
<1>2. CASE RequestStop \/ UNCHANGED vars
  <2>1. UNCHANGED <<removed, linked, taken, next, pc, pending, refused, outcome,
                    otherLinks, stopped, complete>>
    BY <1>2 DEF RequestStop, vars, objects, entry, report
  <2> QED
    BY <2>1 DEF ReportIsKnown, IsFile, Gone
<1> QED
  BY <1>1, <1>2, ReportExecutor DEF Next

\* The place the target was planned at, the phases in which it is still there
\* and those in which it is at its detached name.
TargetPlace == <<Root, Own(Target)>>
BeforeIsolation == {"boundary", "claim", "create", "begin", "isolate"}
Isolated == {"inspect", "revalidate", "reference", "remove"}

\* Until somebody takes the target away it is at its own name, and once it is
\* isolated at the detached one; it is missed only when neither holds it or the
\* placeholder has gone, and then the check of the placeholder fails.
TargetIsPlaced ==
    /\ pc = "boundary" => parent = Root
    /\ next = Len(Plan) /\ pc # "done" => parent = Root
    /\ pc # "done" /\ (next # Len(Plan) \/ pc \in BeforeIsolation) =>
         Target \in taken \/ at[TargetPlace] = Target
    /\ next = Len(Plan) /\ pc \in Isolated =>
         Target \in taken \/ at[DetachedPlace] = Target
    /\ next = Len(Plan) /\ pc \in Late /\ pending = "Missing" =>
         \/ Target \in taken
         \/ pc = "verify" /\ at[PrivatePlace] # Placeholder(Current)
    /\ Target \in DOMAIN outcome /\ outcome[Target] = "Missing" => Target \in taken

\* An entry that ends leaves the target where it was, or was the target.
LEMMA PlacedEnds ==
    ASSUME IInv, RemovalIsPending, TargetIsPlaced, Executor,
           NEW result \in Outcomes, Ends(result)
    PROVE  TargetIsPlaced'
<1> USE IsolationAssumption
<1>0. /\ TypeOK /\ pc # "done" /\ next \in 1 .. Len(Plan) /\ Current \in Entries
  BY AtHand
<1>1. /\ Target \in Entries /\ Target \notin DOMAIN outcome
      /\ next = Len(Plan) <=> Current = Target
  BY <1>0, TargetLast
<1>2. taken' = taken
  BY NamesStepLemma DEF objects
<1>3. /\ pc' \in {"boundary", "done"} /\ next' = next + 1 /\ parent' = Root
      /\ pc' = "boundary" => next # Len(Plan)
      /\ DOMAIN outcome' = DOMAIN outcome \cup {Current}
      /\ outcome'[Current] = result
  BY DEF Ends, Records, LeavesEntry, Last
<1>4. pc' = "boundary" => Target \in taken \/ at'[TargetPlace] = Target
  <2> SUFFICES ASSUME pc' = "boundary"
               PROVE  Target \in taken \/ at'[TargetPlace] = Target
    OBVIOUS
  <2>1. Target # Current /\ Root \in Dirs
    BY <1>1, <1>3 DEF Dirs
  <2>2. at'[TargetPlace] = at[TargetPlace]
    BY <1>1, <2>1, OtherNames DEF TargetPlace
  <2> QED
    BY <1>0, <1>3, <2>2 DEF TargetIsPlaced
<1>5. Target \in DOMAIN outcome' /\ outcome'[Target] = "Missing" => Target \in taken
  <2> SUFFICES ASSUME Target \in DOMAIN outcome', outcome'[Target] = "Missing"
               PROVE  Target \in taken
    OBVIOUS
  <2>1. Target = Current /\ result = "Missing" /\ next = Len(Plan)
    BY <1>1, <1>3
  <2>2. pc = "unlink" /\ pending = "Missing"
    BY <2>1 DEF Ends
  <2> QED
    BY <2>1, <2>2 DEF TargetIsPlaced, Late
<1> QED
  BY <1>2, <1>3, <1>4, <1>5 DEF TargetIsPlaced, Isolated, Late, TargetPlace

\* Going on with an entry other than the target leaves the target alone.
LEMMA PlacedElsewhere ==
    ASSUME IInv, RemovalIsPending, TargetIsPlaced, Executor, GoesOn,
           next # Len(Plan)
    PROVE  TargetIsPlaced'
<1> USE IsolationAssumption
<1>0. pc # "done" /\ next \in 1 .. Len(Plan)
  BY AtHand
<1>1. Target \in Entries /\ Target # Current /\ Root \in Dirs
  BY <1>0, TargetLast DEF Dirs
<1>2. at'[TargetPlace] = at[TargetPlace] /\ taken' = taken
  BY <1>1, OtherNames, NamesStepLemma DEF TargetPlace, objects
<1>3. UNCHANGED <<next, outcome>> /\ pc' # "boundary"
  BY DEF GoesOn, report, Early, Late
<1> QED
  BY <1>0, <1>2, <1>3 DEF TargetIsPlaced, TargetPlace

\* Every step of the executor keeps the target placed.
LEMMA PlacedExecutor ==
    ASSUME IInv, NamesAreKnown, RemovalIsPending, TargetIsPlaced, Executor
    PROVE  TargetIsPlaced'
<1> USE IsolationAssumption
<1>0. /\ TypeOK /\ HasEntry /\ pc # "done" /\ next \in 1 .. Len(Plan)
      /\ at \in [Places -> Objects \cup {Nothing}] /\ moving \in {"move", "swap"}
  BY AtHand DEF TypeOK
<1>1. CASE CannotOpenRoot \/ CannotReadPlan
  <2>1. pc = "boundary" /\ pc' = "done" /\ UNCHANGED taken
    BY <1>1 DEF CannotOpenRoot, CannotReadPlan, At, objects
  <2>2. Target \in DOMAIN outcome' => outcome'[Target] # "Missing"
    <3>1. Target \notin DOMAIN outcome
      BY <1>0, TargetLast
    <3> QED
      BY <1>1, <3>1 DEF CannotOpenRoot, CannotReadPlan, Target
  <2> QED
    BY <2>1, <2>2 DEF TargetIsPlaced, BeforeIsolation, Isolated, Late
<1>2. ASSUME NEW result \in Outcomes, Ends(result)
      PROVE  TargetIsPlaced'
  BY <1>2, PlacedEnds
<1>3. CASE GoesOn /\ next # Len(Plan)
  BY <1>3, PlacedElsewhere
<1>4. CASE GoesOn /\ next = Len(Plan)
  <2>0. /\ Target \in Entries /\ Current = Target /\ Target # Nothing
        /\ Target \notin DOMAIN outcome
    BY <1>0, <1>4, TargetLast DEF Objects
  <2>1. parent = Root /\ OwnPlace = TargetPlace
    BY <1>0, <1>4, <2>0 DEF TargetIsPlaced, OwnPlace, TargetPlace
  <2>2. /\ next' = next /\ outcome' = outcome /\ taken' = taken
        /\ pc' # "boundary" /\ pc' # "done"
    BY <1>4, NamesStepLemma DEF GoesOn, report, objects, Early, Late
  <2>3. parent' = Root
    <3>1. CASE UNCHANGED parent
      BY <2>1, <3>1
    <3>2. CASE OpensParent
      <4>1. Parent[Current] = Root
        BY <2>0 DEF Target
      <4> QED
        BY <2>2, <3>2, <4>1 DEF OpensParent, ParentHandle, Goes, Records, LeavesEntry
    <3>3. CASE Executor /\ ~OpensParent
      <4>1. ~(\E result \in Outcomes : Records(result))
        BY <2>2, <1>0 DEF Records
      <4>2. /\ {"Failed", "Unattempted", "Changed"} \subseteq Outcomes
            /\ pending \in Outcomes
        BY <1>0 DEF Outcomes, TypeOK
      <4> QED
        BY <3>1, <3>3, <4>1, <4>2, <2>2
        DEF Executor, CannotOpenRoot, CannotReadPlan, Skips, Claims,
            CreatesPlaceholder, Begins, Isolates, Inspects, OpensReference,
            RemovesEntry, CountsLinks, ChecksOwnName, MovesPlaceholder, Moves,
            TriesName, SwapsBack, VerifiesPlaceholder, UnlinksPlaceholder, entry
    <3> QED
      BY <3>2, <3>3
  <2>4. /\ Current' = Current /\ OwnPlace' = OwnPlace /\ TargetPlace' = TargetPlace
        /\ DetachedPlace' = DetachedPlace
        /\ private' = private => PrivatePlace' = PrivatePlace
    BY <2>1, <2>2, <2>3, NamesSame DEF TargetPlace
  <2>5. /\ OwnPlace \in Places /\ DetachedPlace \in Places
        /\ OwnPlace # DetachedPlace
    BY <1>0, PlacesLemma
  <2> DEFINE Placed ==
        /\ pc' \in BeforeIsolation => Target \in taken \/ at'[OwnPlace] = Target
        /\ pc' \in Isolated => Target \in taken \/ at'[DetachedPlace] = Target
        /\ pc' \in Late /\ pending' = "Missing" =>
             \/ Target \in taken
             \/ pc' = "verify" /\ at'[PrivatePlace'] # Placeholder(Current)
  <2>6. Placed
    <3> USE DEF BeforeIsolation, Isolated, Late
    <3>0. /\ pc \in BeforeIsolation => Target \in taken \/ at[OwnPlace] = Target
          /\ pc \in Isolated => Target \in taken \/ at[DetachedPlace] = Target
          /\ pc \in Late /\ pending = "Missing" =>
               \/ Target \in taken
               \/ pc = "verify" /\ at[PrivatePlace] # Placeholder(Current)
      BY <1>0, <1>4, <2>1 DEF TargetIsPlaced
    <3>a. ~(\E result : Records(result))
      BY <2>2, <1>0 DEF Records
    <3>b. Nothing # Placeholder(Current)
      BY <2>0 DEF Objects, Placeholders
    <3>1. CASE OpensParent \/ Claims
      BY <3>0, <3>1, <3>a DEF OpensParent, Claims, Goes, At
    <3>2. CASE CreatesPlaceholder
      <4>1. Makes(DetachedPlace) /\ pc = "create" /\ pc' = "begin"
        BY <3>2, <3>a DEF CreatesPlaceholder, Goes, At
      <4> QED
        BY <4>1, <1>0, <2>5, <3>0 DEF Makes
    <3>3. CASE Begins
      BY <3>0, <3>3 DEF Begins, Goes, At
    <3>4. CASE Isolates
      <4>0. pc = "isolate" /\ private' = private
        BY <3>4 DEF Isolates, At
      <4>1. PrivatePlace = DetachedPlace /\ PrivatePlace' = DetachedPlace
        BY <2>4, <4>0 DEF NamesAreKnown, PrivatePlace, DetachedPlace
      <4>2. CASE Exchange(OwnPlace, DetachedPlace) /\ Goes("inspect")
        BY <4>0, <4>2, <1>0, <2>5, <3>0 DEF Exchange, Goes
      <4>3. CASE /\ at[OwnPlace] = Nothing \/ at[DetachedPlace] = Nothing
                 /\ Goes("verify") /\ UNCHANGED at
        BY <4>0, <4>1, <4>3, <2>0, <3>0, <3>b DEF Goes
      <4>4. CASE pending' = "Failed" /\ Goes("verify")
        BY <4>4 DEF Goes
      <4> QED
        BY <3>4, <4>2, <4>3, <4>4 DEF Isolates
    <3>5. CASE Inspects
      <4>0. pc \in Isolated /\ UNCHANGED at
        BY <3>5 DEF Inspects, At
      <4>1. CASE pc' \in Isolated
        BY <3>0, <4>0, <4>1
      <4>2. CASE pc' = "check" /\ (pending' = "Missing" => at[DetachedPlace] = Nothing)
        BY <3>0, <4>0, <4>2, <2>0
      <4> QED
        BY <3>5, <4>1, <4>2 DEF Inspects, Looks, Leaves, Goes
    <3>6. CASE OpensReference
      BY <3>0, <3>6 DEF OpensReference, Goes, At
    <3>7. CASE RemovesEntry
      <4>0. pc \in Isolated
        BY <3>7 DEF RemovesEntry, At
      <4>1. CASE pc' = "count"
        BY <4>1
      <4>2. CASE pc' = "check" /\ (pending' = "Missing" => at[DetachedPlace] = Nothing)
        BY <3>0, <4>0, <4>2, <2>0
      <4> QED
        BY <3>7, <4>1, <4>2 DEF RemovesEntry, Leaves, Goes
    <3>8. CASE CountsLinks
      <4>1. pc = "count" /\ pc' = "check" /\ pending' = pending
        BY <3>8 DEF CountsLinks, Goes, At
      <4> QED
        BY <4>1 DEF RemovalIsPending
    <3>9. CASE ChecksOwnName \/ MovesPlaceholder \/ SwapsBack
      <4>1. pc \in {"check", "move", "swap"} /\ pc' \in Late /\ pending' = pending
        BY <3>9, <3>a, <1>0
        DEF ChecksOwnName, MovesPlaceholder, Moves, TriesName, SwapsBack, Goes,
            At, entry
      <4> QED
        BY <3>0, <4>1
    <3>10. CASE VerifiesPlaceholder
      <4>1. /\ pc = "verify" /\ pc' = "unlink" /\ UNCHANGED <<pending, private, at>>
            /\ at[PrivatePlace] = Placeholder(Current)
        BY <3>10, <3>a DEF VerifiesPlaceholder, Goes, At, entry, Untouched
      <4> QED
        BY <3>0, <4>1, <2>4
    <3> QED
      BY <2>2, <3>a, <3>1, <3>2, <3>3, <3>4, <3>5, <3>6, <3>7, <3>8, <3>9, <3>10
      DEF Executor, CannotOpenRoot, CannotReadPlan, Skips, UnlinksPlaceholder
  <2>7. Placeholder(Current)' = Placeholder(Current)
    BY <2>4 DEF Placeholder
  <2> QED
    BY <1>4, <2>0, <2>1, <2>2, <2>3, <2>4, <2>6, <2>7 DEF TargetIsPlaced
<1> QED
  BY <1>0, <1>1, <1>2, <1>3, <1>4, StepKinds

\* What another process takes out of the tree is known to be taken.
LEMMA OthersTake ==
    ASSUME TypeOK, Others
    PROVE  /\ taken \subseteq taken'
           /\ \A p \in Places : at[p] # Nothing /\ at'[p] # at[p] => at[p] \in taken'
<1>1. taken \subseteq taken'
  BY OthersLemma DEF Puts, Empties
<1> QED
  BY <1>1, OthersPlace

\* Every step keeps the target placed.
LEMMA PlacedStep ==
    ASSUME IInv, NamesAreKnown, RemovalIsPending, TargetIsPlaced, [Next]_vars
    PROVE  TargetIsPlaced'
<1> USE IsolationAssumption
<1>1. CASE Others
  <2>1. UNCHANGED <<next, pc, parent, private, pending, outcome>> /\ pc # "done"
    BY <1>1, OthersFrame DEF entry, report
  <2>2. /\ DetachedPlace' = DetachedPlace /\ PrivatePlace' = PrivatePlace
        /\ TargetPlace' = TargetPlace
    BY <2>1, NamesSame DEF TargetPlace
  <2>3. TypeOK /\ HasEntry
    BY DEF IInv
  <2>4. /\ DetachedPlace \in Places /\ PrivatePlace \in Places
        /\ Current \in Entries /\ parent \in Dirs /\ private \in 1 .. Attempts
    BY <2>1, <2>3, PlacesLemma DEF TypeOK
  <2>5. TargetPlace \in Places /\ Target # Nothing
    <3>1. Target \in Entries /\ Root \in Dirs
      BY <2>1, TargetLast DEF Dirs
    <3> QED
      BY <3>1 DEF TargetPlace, Places, Names, OwnNames, Objects
  <2>6. /\ taken \subseteq taken'
        /\ \A p \in Places : at[p] = Target => at'[p] = Target \/ Target \in taken'
    BY <1>1, <2>3, <2>5, OthersTake
  <2>7. /\ Placeholder(Current)' = Placeholder(Current)
        /\ at[PrivatePlace] # Placeholder(Current) =>
             at'[PrivatePlace] # Placeholder(Current)
    <3>1. Placeholder(Current) \notin Strangers \cup {Nothing}
      BY <2>4 DEF Placeholders, Objects
    <3>2. at'[PrivatePlace] \in {at[PrivatePlace], Nothing} \cup Strangers
      BY <1>1, <2>3, <2>4, OthersPlace
    <3> QED
      BY <2>1, <3>1, <3>2, NamesSame
  <2> QED
    BY <2>1, <2>2, <2>4, <2>5, <2>6, <2>7 DEF TargetIsPlaced
<1>2. CASE RequestStop \/ UNCHANGED vars
  <2>1. UNCHANGED <<at, taken, next, pc, parent, private, pending, outcome>>
    BY <1>2 DEF RequestStop, vars, objects, entry, report
  <2>2. /\ DetachedPlace' = DetachedPlace /\ PrivatePlace' = PrivatePlace
        /\ TargetPlace' = TargetPlace
        /\ Placeholder(Current)' = Placeholder(Current)
    BY <2>1, NamesSame DEF TargetPlace
  <2> QED
    BY <2>1, <2>2 DEF TargetIsPlaced
<1> QED
  BY <1>1, <1>2, PlacedExecutor DEF Next

\* The initial state.
LEMMA InitExact ==
    ASSUME Init
    PROVE  /\ NamesAreKnown /\ RemovalIsPending /\ OutcomeIsTrue /\ OnePlace
           /\ LinksAreKnown /\ FreedSpaceIsFree /\ ReportIsKnown /\ TargetIsPlaced
<1> USE IsolationAssumption DEF Init
<1>0. DOMAIN outcome = {}
  OBVIOUS
<1>1. NamesAreKnown
  BY DEF NamesAreKnown, Isolating, DetachedIsLeft
<1>2. RemovalIsPending /\ OutcomeIsTrue
  BY <1>0 DEF RemovalIsPending, OutcomeIsTrue, Early
<1>3. ASSUME NEW e \in Entries, NEW p \in Places, at[p] = e
      PROVE  p = <<Parent[e], Own(e)>>
  <2>1. e # Nothing
    BY DEF Objects
  <2>2. e \in Planned(p)
    BY <1>3, <2>1 DEF Planned
  <2> QED
    BY <2>2 DEF Planned
<1>4. OnePlace
  BY <1>3 DEF OnePlace
<1>5. LinksAreKnown /\ FreedSpaceIsFree
  BY DEF LinksAreKnown, FreedSpaceIsFree, Late
<1>6. ReportIsKnown
  BY <1>0 DEF ReportIsKnown
<1>7. TargetIsPlaced
  <2>1. Target \in Entries /\ Parent[Target] = Root
    BY DEF Target
  <2>2. TargetPlace \in Places
    BY <2>1 DEF TargetPlace, Places, Names, OwnNames, Dirs
  <2>3. Planned(TargetPlace) = {Target}
    BY <2>1 DEF Planned, TargetPlace, Own
  <2>4. at[TargetPlace] = Target
    BY <2>2, <2>3
  <2> QED
    BY <1>0, <2>4 DEF TargetIsPlaced, Isolated, Late
<1> QED
  BY <1>1, <1>2, <1>4, <1>5, <1>6, <1>7

\* The strengthening the exactness of the report needs.
ExactIInv ==
    /\ IInv /\ NamesAreKnown /\ RemovalIsPending /\ OutcomeIsTrue /\ OnePlace
    /\ LinksAreKnown /\ FreedSpaceIsFree /\ ReportIsKnown /\ TargetIsPlaced

-----------------------------------------------------------------------------
(***************************************************************************)
(* The theorems.                                                           *)
(***************************************************************************)
\* The invariant holds in every state of every execution of a plan
\* (execute_plan_unix_with_mutation_gate), whatever other processes do.
THEOREM IsolationInvariant == Spec => []IInv
<1>1. Init => IInv
  BY InitIInv
<1>2. IInv /\ [Next]_vars => IInv'
  BY TypeStep, SafeStep, FreshStep, LostStep DEF IInv
<1> QED
  BY <1>1, <1>2, PTL DEF Spec

\* The executor's state stays well formed (execute_unix_entry).
THEOREM IsolationTypeCorrect == Spec => []TypeOK
<1>1. IInv => TypeOK
  BY DEF IInv
<1> QED
  BY <1>1, IsolationInvariant, PTL

\* Only reviewed objects and the executor's own placeholders are ever removed
\* (execute_unix_entry, remove_verified_placeholder), for any plan and any
\* number of changes made by other processes at any point of the protocol, at
\* the private names too, except what is put at a private name between the last
\* look at it and its removal.
THEOREM ReviewedOnly == Spec => []OnlyReviewedIsRemoved
<1>1. IInv => OnlyReviewedIsRemoved
  BY IsolationAssumption DEF IInv, RemovalIsSafe, OnlyReviewedIsRemoved
<1> QED
  BY <1>1, IsolationInvariant, PTL

\* No step of the protocol leaves an object that nobody removed without a name
\* (create_placeholder, exchange_names, restore_detached,
\* finalize_placeholder): neither an entry nor what another process put there.
THEOREM NothingLost == Spec => []NothingIsLost
<1>1. IInv => NothingIsLost
  BY DEF IInv
<1> QED
  BY <1>1, IsolationInvariant, PTL

\* The strengthened invariant holds in every state of every execution of a
\* plan (execute_plan_unix_with_mutation_gate), whatever other processes do.
THEOREM ReportInvariant == Spec => []ExactIInv
<1>1. Init => ExactIInv
  BY InitIInv, InitExact DEF ExactIInv
<1>2. ExactIInv /\ [Next]_vars => ExactIInv'
  <2> SUFFICES ASSUME ExactIInv, [Next]_vars PROVE ExactIInv'
    OBVIOUS
  <2>1. IInv'
    BY TypeStep, SafeStep, FreshStep, LostStep DEF IInv, ExactIInv
  <2>2. NamesAreKnown' /\ RemovalIsPending' /\ OutcomeIsTrue'
    BY KnownStep, PendingStep, OutcomeStep DEF ExactIInv
  <2>3. OnePlace' /\ LinksAreKnown' /\ FreedSpaceIsFree'
    BY PlaceStep, LinksStep DEF ExactIInv
  <2>4. ReportIsKnown' /\ TargetIsPlaced'
    BY ReportStep, PlacedStep DEF ExactIInv
  <2> QED
    BY <2>1, <2>2, <2>3, <2>4 DEF ExactIInv
<1> QED
  BY <1>1, <1>2, PTL DEF Spec

\* Registered names cover every private name in use (create_placeholder,
\* finalize_placeholder).
LEMMA KnownImplies ==
    ASSUME IInv, NamesAreKnown
    PROVE  PrivateNamesAreRegistered
<1> SUFFICES ASSUME pc \notin {"boundary", "done"}, NEW d \in Dirs,
                    NEW k \in 1 .. Attempts,
                    at[<<d, Private(Current, k)>>] # Nothing
             PROVE  <<d, Private(Current, k)>> \in registered
  BY DEF PrivateNamesAreRegistered
<1>1. CASE Isolating
  <2>1. k = 1 \/ k = private
    BY <1>1 DEF NamesAreKnown, NameInUse
  <2> QED
    BY <1>1, <2>1 DEF NamesAreKnown, DetachedPlace, PrivatePlace
<1>2. CASE ~Isolating
  <2>1. Unattempted(next)
    BY <1>2 DEF Unattempted, Isolating
  <2>2. next \in 1 .. Len(Plan)
    BY IsolationAssumption DEF IInv, TypeOK, HasEntry
  <2> QED
    BY <2>1, <2>2 DEF IInv, PrivateNamesAreFresh, Current
<1> QED
  BY <1>1, <1>2

\* A scan that runs beside a deletion finds each private name it meets
\* registered, so none is taken for a file of the user's.
THEOREM PrivateNamesRegistered == Spec => []PrivateNamesAreRegistered
<1>1. ExactIInv => PrivateNamesAreRegistered
  BY KnownImplies DEF ExactIInv
<1> QED
  BY <1>1, ReportInvariant, PTL

\* Every outcome recorded (DeletionReport) says what happened to its entry, and
\* only a failure leaves a private name behind.
THEOREM OutcomesTrue == Spec => []OutcomeIsTrue
<1>1. ExactIInv => OutcomeIsTrue
  BY DEF ExactIInv
<1> QED
  BY <1>1, ReportInvariant, PTL

\* Space is reported as freed (DeletionSummary::note) only for files whose last
\* link has gone, even when another process links and unlinks them meanwhile.
THEOREM FreedIsFree == Spec => []FreedSpaceIsFree
<1>1. ExactIInv => FreedSpaceIsFree
  BY DEF ExactIInv
<1> QED
  BY <1>1, ReportInvariant, PTL

\* A report the map is corrected by (target_was_removed, and no file removed
\* with other links) is about a target that has gone with all its files.
LEMMA ExactImplies ==
    ASSUME ExactIInv
    PROVE  DescribedRemovalIsExact
<1> USE IsolationAssumption DEF ExactIInv
<1> SUFFICES ASSUME TargetWasRemoved, ~otherLinks
             PROVE  /\ Target \in removed \cup taken
                    /\ \A e \in Entries : IsFile(e) => e \in Gone
  BY DEF DescribedRemovalIsExact
<1>1. /\ pc = "done" /\ complete /\ Target \in DOMAIN outcome
      /\ outcome[Target] \in {"Deleted", "Missing"}
  BY DEF TargetWasRemoved
<1>2. Target \in removed \cup taken
  BY <1>1 DEF OutcomeIsTrue, TargetIsPlaced
<1>3. ~stopped /\ next = Len(Plan) + 1
  BY <1>1 DEF ReportIsKnown
<1>4. ASSUME NEW e \in Entries, IsFile(e)
      PROVE  e \in Gone
  <2>1. PICK i \in 1 .. Len(Plan) : e = Plan[i]
    OBVIOUS
  <2>2. i < next
    BY <1>3
  <2>3. outcome[Plan[i]] # "Unattempted"
    BY <1>3, <2>2 DEF ReportIsKnown
  <2> QED
    BY <1>4, <2>1, <2>2, <2>3 DEF ReportIsKnown
<1> QED
  BY <1>2, <1>4

\* So a removal is described only when it is exact, for any plan and any number
\* of changes made by other processes.
THEOREM DescribedRemovalExact == Spec => []DescribedRemovalIsExact
<1>1. ExactIInv => DescribedRemovalIsExact
  BY ExactImplies
<1> QED
  BY <1>1, ReportInvariant, PTL
=============================================================================
