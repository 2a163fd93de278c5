--------------------------- MODULE EntryIsolation ---------------------------
(***************************************************************************)
(* How one confirmed plan is executed on Linux and macOS: the loop over    *)
(* its entries and the isolation protocol of each of them                  *)
(* (src/src/deletion.rs: execute_plan_unix_with_mutation_gate,             *)
(* execute_unix_entry, restore_detached, finalize_placeholder), one system *)
(* call per step, while other processes change the same tree between any   *)
(* two of them.                                                            *)
(*                                                                         *)
(* Other processes put objects at names of their own, at the entries' own  *)
(* names, and at a private name of the executor's once it can be seen: the *)
(* name is drawn at random, so it cannot be guessed before it is made, but *)
(* the folder it is made in is theirs too.  They take away whatever they   *)
(* find, a private name included.                                          *)
(***************************************************************************)
EXTENDS Integers, Sequences, FiniteSets

CONSTANTS
    Entries,     \* planned entries; each stands for the object it names too
    Strangers,   \* objects other processes may bring into the tree
    Folders,     \* which of these are directories
    Root,        \* the scan root, which the target is planned in
    Nothing,     \* what a name that does not exist holds
    Parent,      \* the folder each entry was planned in
    Plan,        \* the entries in the order the executor takes them
    Attempts,    \* PLACEHOLDER_NAME_ATTEMPTS
    MaxChanges   \* bound on what other processes do

Placeholder(e) == [placeholder |-> e]
Placeholders == {Placeholder(e) : e \in Entries}
Objects == Entries \cup Strangers \cup Placeholders
Dirs == Folders \cup {Root}

\* An entry's own name, and the private names the executor makes up for it: 1
\* is the detached name, the others are tried when that one is refused.
Own(o) == [of |-> o, private |-> 0]
Private(e, k) == [of |-> e, private |-> k]
OwnNames == {Own(o) : o \in Entries \cup Strangers}
PrivateNames == {Private(e, k) : e \in Entries, k \in 1 .. Attempts}
Names == OwnNames \cup PrivateNames
Places == Dirs \X Names

ASSUME IsolationAssumption ==
    /\ Nothing \notin Objects
    /\ Entries \cap Strangers = {}
    /\ (Entries \cup Strangers) \cap Placeholders = {}
    /\ Root \notin Entries \cup Strangers \cup {Nothing}
    /\ Folders \subseteq Entries \cup Strangers
    /\ Parent \in [Entries -> Dirs]
    /\ Plan \in Seq(Entries) /\ Len(Plan) > 0
    /\ Entries = {Plan[i] : i \in 1 .. Len(Plan)}
    /\ \A i, j \in 1 .. Len(Plan) : Plan[i] = Plan[j] => i = j
    /\ Parent[Plan[Len(Plan)]] = Root
    /\ Attempts \in Nat \ {0}
    /\ MaxChanges \in Nat

\* The target the plan was made for comes last.
Target == Plan[Len(Plan)]

Outcomes == {"Deleted", "Changed", "Missing", "Failed", "Unattempted"}
Phases == {"boundary", "claim", "create", "begin", "isolate", "inspect",
           "revalidate", "reference", "remove", "count", "check", "move",
           "swap", "verify", "unlink", "done"}
MutationStates == {"PREPARING", "CLAIMED", "STARTED", "STOP_REQUESTED"}

VARIABLES
    at,         \* what each place holds
    removed,    \* objects whose name the executor has removed
    changed,    \* objects written since they were reviewed or made
    linked,     \* planned files that have another link outside the plan
    taken,      \* objects other processes took out of the tree
    brought,    \* strangers other processes have brought into it
    late,       \* those put at a name the executor no longer looks at but is
                \* about to remove
    changes,    \* how often other processes acted
    soft,       \* soft_cancelled
    hard,       \* hard_cancelled: the program is shutting down
    mutation,   \* mutation_state
    next,       \* position in the plan
    pc,         \* where the executor is in the entry
    parent,     \* the directory handle it holds
    private,    \* which private name the placeholder goes to
    pending,    \* the outcome this entry has if the rest succeeds
    moving,     \* "move" or "swap": how the placeholder leaves the own name
    refused,    \* the rename was refused for an entry past PATH_MAX
    single,     \* the object had one link when it was isolated
    counted,    \* link_count of the entry is Some(1)
    reference,  \* a LinkReference is held
    noLink,     \* no_link_survived
    registered, \* registered private names, as places
    outcome,    \* outcome of each entry that has one
    otherLinks, \* deleted_with_other_links
    freed,      \* entries whose allocation is reported as freed
    stopped,    \* the loop runs no further entry
    complete    \* every result was stored

objects == <<changed, linked, taken, brought, late, changes>>
gate    == <<soft, hard, mutation>>
links   == <<single, counted, reference>>
entry   == <<parent, private, pending, moving, refused, links>>
report  == <<outcome, otherLinks, freed, stopped, complete>>
vars == <<at, removed, objects, gate, next, pc, entry, noLink, registered,
          report>>

\* When the plan is confirmed its entries are where they were planned.
Planned(place) == {e \in Entries : place = <<Parent[e], Own(e)>>}

Init ==
    /\ at = [place \in Places |->
               IF Planned(place) = {} THEN Nothing
               ELSE CHOOSE e \in Planned(place) : TRUE]
    /\ removed = {} /\ changed = {} /\ taken = {} /\ brought = {} /\ late = {}
    /\ linked \in SUBSET (Entries \ Folders)
    /\ changes = 0
    /\ soft = FALSE /\ hard = FALSE /\ mutation = "PREPARING"
    /\ next = 1 /\ pc = "boundary"
    /\ parent = Root /\ private = 1
    /\ pending = "Failed" /\ moving = "move" /\ refused = FALSE
    /\ single = FALSE /\ counted = FALSE /\ reference = FALSE
    /\ noLink = FALSE
    /\ registered = {}
    /\ outcome = <<>> /\ otherLinks = FALSE /\ freed = {}
    /\ stopped = FALSE /\ complete = TRUE

Current == Plan[next]
OwnPlace == <<parent, Own(Current)>>
DetachedPlace == <<parent, Private(Current, 1)>>
PrivatePlace == <<parent, Private(Current, private)>>

IsFile(e) == e \notin Folders

-----------------------------------------------------------------------------
(***************************************************************************)
(* Other processes.                                                        *)
(***************************************************************************)
Interferes ==
    /\ changes < MaxChanges
    /\ pc # "done"
    /\ changes' = changes + 1
    /\ UNCHANGED <<removed, gate, next, pc, entry, noLink, registered, report>>

InTree(o) == \E place \in Places : at[place] = o
LiveDirs == {d \in Dirs : d = Root \/ InTree(d)}

\* The private names that can have been seen: those that hold something, the
\* detached name from the moment the placeholder is made, and the fresh name it
\* was moved to.
Seen ==
    {place \in Places : at[place] # Nothing}
    \cup (IF pc \in {"boundary", "claim", "create", "done"} THEN {}
          ELSE {DetachedPlace})
    \cup (IF pc \in {"verify", "unlink"} THEN {PrivatePlace} ELSE {})

\* Where the executor has looked for the last time, and what it removes next by
\* that name.
LookedAt ==
    IF pc \in {"reference", "remove"} THEN {DetachedPlace}
    ELSE IF pc = "unlink" THEN {PrivatePlace} ELSE {}

\* A new object at a name of its own, over an entry's (a program that saves by
\* renaming over the name it read, say) or at a private name.
Put(place, stranger) ==
    /\ Interferes
    /\ place[1] \in LiveDirs
    /\ place[2] \in OwnNames \/ place \in Seen
    /\ stranger \notin brought
    /\ brought' = brought \cup {stranger}
    /\ late' = IF place \in LookedAt THEN late \cup {stranger} ELSE late
    /\ at' = [at EXCEPT ![place] = stranger]
    /\ taken' = taken \cup ({at[place]} \ {Nothing})
    /\ UNCHANGED <<changed, linked>>

\* What a place holds is removed, or renamed to somewhere out of the plan, where
\* a file lives on.
TakeAway(place) ==
    /\ Interferes
    /\ at[place] # Nothing
    /\ at' = [at EXCEPT ![place] = Nothing]
    /\ taken' = taken \cup {at[place]}
    /\ linked' \in {linked, linked \cup ({at[place]} \cap (Entries \ Folders))}
    /\ UNCHANGED <<changed, brought, late>>

\* A planned object or a placeholder is written, wherever it is.
Write(o) ==
    /\ Interferes
    /\ o \notin Strangers
    /\ InTree(o)
    /\ changed' = changed \cup {o}
    /\ UNCHANGED <<at, linked, taken, brought, late>>

Link(e) ==
    /\ Interferes
    /\ IsFile(e) /\ InTree(e)
    /\ linked' = linked \cup {e}
    /\ UNCHANGED <<at, changed, taken, brought, late>>

Unlink(e) ==
    /\ Interferes
    /\ e \in linked
    /\ linked' = linked \ {e}
    /\ UNCHANGED <<at, changed, taken, brought, late>>

\* The owner asks for a stop: the soft flag, then request_stop.  A shutdown
\* raises the hard flag as well.
RequestStop ==
    /\ pc # "done"
    /\ ~soft \/ ~hard
    /\ soft' = TRUE
    /\ hard' \in {hard, TRUE}
    /\ mutation' = IF mutation \in {"PREPARING", "CLAIMED"}
                   THEN "STOP_REQUESTED" ELSE mutation
    /\ UNCHANGED <<at, removed, objects, next, pc, entry, noLink, registered,
                   report>>

-----------------------------------------------------------------------------
(***************************************************************************)
(* The end of an entry.                                                    *)
(***************************************************************************)
Last == next = Len(Plan)

\* Mutant: only an entry recorded as deleted is asked about its links.
DeletedMayHaveOtherLinks(e, result) ==
    IsFile(e) /\ result = "Deleted" /\ ~noLink

\* removed_with_other_links.
MayHaveOtherLinks(e, result) ==
    IsFile(e) /\ result # "Unattempted" /\ ~noLink

\* DeletionSummary::note counts the allocation of these.
FreesSpace(result) == result = "Deleted" /\ IsFile(Current) /\ counted

\* The handle is closed and the locals of execute_unix_entry are gone.
LeavesEntry ==
    /\ parent' = Root /\ private' = 1
    /\ pending' = "Failed" /\ moving' = "move" /\ refused' = FALSE
    /\ single' = FALSE /\ counted' = FALSE /\ reference' = FALSE

\* The outcome is recorded and the transient names are released.  A result
\* that cannot be stored ends the run, as does a rename refused for an entry
\* past PATH_MAX.
Records(result) ==
    /\ outcome' = [e \in (DOMAIN outcome) \cup {Current} |->
                     IF e = Current THEN result ELSE outcome[e]]
    /\ otherLinks' = (otherLinks \/ MayHaveOtherLinks(Current, result))
    /\ freed' = IF FreesSpace(result) THEN freed \cup {Current} ELSE freed
    /\ stopped' = (stopped \/ refused \/ result = "Unattempted")
    /\ noLink' = FALSE
    /\ registered' = {}
    /\ next' = next + 1
    /\ complete' \in BOOLEAN
    /\ pc' = IF complete' /\ ~Last THEN "boundary" ELSE "done"
    /\ LeavesEntry

At(phase) == pc = phase
Goes(phase) ==
    /\ pc' = phase
    /\ UNCHANGED <<next, report>>

-----------------------------------------------------------------------------
(***************************************************************************)
(* The executor, system call by system call.                               *)
(***************************************************************************)
\* failed_report: the root can no longer be opened as the one that was
\* scanned, and every entry fails.
CannotOpenRoot ==
    /\ At("boundary")
    /\ next = 1
    /\ outcome' = [e \in {Plan[i] : i \in DOMAIN Plan} |-> "Failed"]
    /\ complete' \in BOOLEAN
    /\ pc' = "done"
    /\ UNCHANGED <<at, removed, objects, gate, next, entry, noLink, registered,
                   otherLinks, freed, stopped>>

\* plan_read_failure_report: the rest of the plan cannot be read.
CannotReadPlan ==
    /\ At("boundary")
    /\ outcome' = [e \in (DOMAIN outcome) \cup {Plan[Len(Plan)]} |->
                     IF e = Plan[Len(Plan)] THEN "Failed" ELSE outcome[e]]
    /\ complete' = FALSE
    /\ pc' = "done"
    /\ UNCHANGED <<at, removed, objects, gate, next, entry, noLink, registered,
                   otherLinks, freed, stopped>>

\* The loop looks at the stop before each entry.
Skips ==
    /\ At("boundary")
    /\ stopped \/ soft \/ hard
    /\ Records("Unattempted")
    /\ UNCHANGED <<at, removed, objects, gate>>

\* open_parent: the folders above the entry, by name, from the root's handle.
Opened[e \in Entries \cup Dirs] ==
    IF e = Root THEN Root
    ELSE IF e \notin Entries THEN Nothing
    ELSE LET folder == Opened[Parent[e]] IN
         IF folder \in Dirs THEN at[<<folder, Own(e)>>] ELSE Nothing

ParentHandle ==
    IF Parent[Current] = Root THEN Root ELSE Opened[Parent[Current]]

OpensParent ==
    /\ At("boundary")
    /\ ~stopped /\ ~soft /\ ~hard
    /\ \/ /\ ParentHandle \in Dirs
          /\ parent' = ParentHandle
          /\ Goes("claim")
          /\ UNCHANGED <<private, pending, moving, refused, links, noLink,
                         registered>>
       \/ ParentHandle = Nothing /\ Records("Changed")
       \/ Records("Failed")
    /\ UNCHANGED <<at, removed, objects, gate>>

StopAsked == hard \/ mutation = "STOP_REQUESTED"

\* try_claim_mutation.
Claims ==
    /\ At("claim")
    /\ \/ /\ StopAsked
          /\ Records("Unattempted")
          /\ soft' = TRUE
          /\ UNCHANGED mutation
       \/ /\ ~StopAsked
          /\ mutation' = IF mutation = "PREPARING" THEN "CLAIMED" ELSE mutation
          /\ Goes("create")
          /\ UNCHANGED <<entry, noLink, registered, soft>>
    /\ UNCHANGED <<at, removed, objects, hard>>

\* create_placeholder registers the name before it makes it.  It may fail
\* before it has made the file, or after, when it cannot read it back.
Makes(place) == at' = [at EXCEPT ![place] = Placeholder(Current)]

CreatesPlaceholder ==
    /\ At("create")
    /\ \/ /\ registered' = registered \cup {DetachedPlace}
          /\ Makes(DetachedPlace)
          /\ Goes("begin")
          /\ UNCHANGED <<entry, noLink>>
       \/ Records("Failed") /\ (UNCHANGED at \/ Makes(DetachedPlace))
    /\ UNCHANGED <<removed, objects, gate>>

\* try_begin_mutation.
Begins ==
    /\ At("begin")
    /\ \/ /\ StopAsked
          /\ soft' = TRUE
          /\ pending' = "Unattempted"
          /\ Goes("verify")
          /\ UNCHANGED mutation
       \/ /\ ~StopAsked
          /\ mutation' = "STARTED"
          /\ Goes("isolate")
          /\ UNCHANGED <<pending, soft>>
    /\ UNCHANGED <<at, removed, objects, hard, parent, private, moving, refused,
                   links, noLink, registered>>

Exchange(one, other) ==
    at' = [at EXCEPT ![one] = at[other], ![other] = at[one]]

\* isolate_entry.  The system may refuse the rename.
Isolates ==
    /\ At("isolate")
    /\ \/ /\ at[OwnPlace] # Nothing /\ at[DetachedPlace] # Nothing
          /\ Exchange(OwnPlace, DetachedPlace)
          /\ Goes("inspect")
          /\ UNCHANGED <<pending, refused>>
       \/ /\ at[OwnPlace] = Nothing \/ at[DetachedPlace] = Nothing
          /\ pending' = "Missing"
          /\ Goes("verify")
          /\ UNCHANGED <<at, refused>>
       \/ /\ pending' = "Failed"
          /\ refused' \in BOOLEAN
          /\ Goes("verify")
          /\ UNCHANGED at
    /\ UNCHANGED <<removed, objects, gate, parent, private, moving, links,
                   noLink, registered>>

\* matches_for_execution: a folder is compared by identity alone.
Matches(o) == o = Current /\ (IsFile(o) => o \notin changed)

\* The placeholder is to leave the own name, by `how`, for this outcome.
Leaves(result, how) ==
    /\ pending' = result
    /\ moving' = how
    /\ Goes("check")

\* One look at the isolated entry, by inspect_child.  The first look finds out
\* whether the object has one link; the second is what its space is counted
\* from.
Looks(then) ==
    \/ /\ Matches(at[DetachedPlace])
       /\ counted' = (Current \notin linked)
       /\ single' = IF then = "revalidate" THEN Current \notin linked
                    ELSE single
       /\ Goes(then)
       /\ UNCHANGED <<pending, moving>>
    \/ /\ \/ at[DetachedPlace] = Nothing /\ Leaves("Missing", "move")
          \/ /\ at[DetachedPlace] # Nothing /\ ~Matches(at[DetachedPlace])
             /\ Leaves("Changed", "swap")
          \/ Leaves("Failed", "swap")
       /\ UNCHANGED <<single, counted>>

\* Mutant: the isolated entry is looked at once.
InspectsOnce ==
    /\ \/ At("inspect") /\ Looks("revalidate")
       \/ /\ At("revalidate") /\ Goes("reference")
          /\ UNCHANGED <<single, counted, pending, moving>>
    /\ UNCHANGED <<at, removed, objects, gate, parent, private, refused,
                   reference, noLink, registered>>

Inspects ==
    /\ \/ At("inspect") /\ Looks("revalidate")
       \/ At("revalidate") /\ Looks("reference")
    /\ UNCHANGED <<at, removed, objects, gate, parent, private, refused,
                   reference, noLink, registered>>

\* LinkReference::open, for a file that had one link.
OpensReference ==
    /\ At("reference")
    /\ \/ /\ IsFile(Current) /\ single /\ at[DetachedPlace] = Current
          /\ reference' = TRUE
       \/ reference' = FALSE
    /\ Goes("remove")
    /\ UNCHANGED <<at, removed, objects, gate, parent, private, pending,
                   moving, refused, single, counted, noLink, registered>>

Empty(d) == \A name \in Names : at[<<d, name>>] = Nothing

\* remove_dir or remove_file, as the entry was planned.
RemovesEntry ==
    /\ At("remove")
    /\ LET o == at[DetachedPlace] IN
         \/ /\ o # Nothing
            /\ o \in Dirs <=> Current \in Dirs
            /\ o \in Dirs => Empty(o)
            /\ at' = [at EXCEPT ![DetachedPlace] = Nothing]
            /\ removed' = removed \cup {o}
            /\ pending' = "Deleted" /\ moving' = "move"
            /\ Goes("count")
         \/ /\ \/ o = Nothing /\ Leaves("Missing", "move")
               \/ /\ o \in Dirs /\ Current \in Dirs /\ ~Empty(o)
                  /\ Leaves("Changed", "swap")
               \/ o # Nothing /\ Leaves("Failed", "swap")
            /\ UNCHANGED <<at, removed>>
    /\ UNCHANGED <<objects, gate, parent, private, refused, links, noLink,
                   registered>>

\* Mutant: the links are those of the look before the removal.
HadOneLink == single

\* The links that outlived the removal, read through the reference held across
\* it; the read may fail.
NoLinkIsLeft == reference /\ Current \notin linked

CountsLinks ==
    /\ At("count")
    /\ noLink' \in {FALSE, NoLinkIsLeft}
    /\ counted' = (counted /\ (IsFile(Current) => noLink'))
    /\ Goes("check")
    /\ UNCHANGED <<at, removed, objects, gate, parent, private, pending,
                   moving, refused, single, reference, registered>>

Untouched(o) == o = Placeholder(Current) /\ o \notin changed

\* finalize_placeholder and restore_detached both look first whether the own
\* name still holds the placeholder.
ChecksOwnName ==
    /\ At("check")
    /\ \/ /\ Untouched(at[OwnPlace])
          /\ Goes(moving)
          /\ UNCHANGED <<entry, noLink, registered>>
       \/ Records("Failed")
    /\ UNCHANGED <<at, removed, objects, gate>>

Moves ==
    /\ at[OwnPlace] # Nothing /\ at[PrivatePlace] = Nothing
    /\ at' = [at EXCEPT ![OwnPlace] = Nothing, ![PrivatePlace] = at[OwnPlace]]
    /\ Goes("verify")
    /\ UNCHANGED <<entry, noLink, registered>>

\* A fresh private name is registered, in the place of the fresh one before it.
TriesName(k) ==
    /\ private' = k
    /\ registered' = {DetachedPlace, <<parent, Private(Current, k)>>}
    /\ Goes("move")
    /\ UNCHANGED <<at, parent, pending, moving, refused, links, noLink>>

\* Mutant: the fresh name is not registered.
TriesNameUnregistered ==
    /\ At("move")
    /\ \/ Moves
       \/ /\ private < Attempts
          /\ private' = private + 1
          /\ Goes("move")
          /\ UNCHANGED <<at, parent, pending, moving, refused, links, noLink,
                         registered>>
       \/ Records("Failed") /\ UNCHANGED at
    /\ UNCHANGED <<removed, objects, gate>>

\* Mutant: once every name was refused the first is tried again.
TriesNamesForever ==
    /\ At("move")
    /\ \/ Moves
       \/ TriesName(IF private < Attempts THEN private + 1 ELSE 1)
       \/ Records("Failed") /\ UNCHANGED at
    /\ UNCHANGED <<removed, objects, gate>>

\* The rename that never replaces: a name refused as taken is not used again.
MovesPlaceholder ==
    /\ At("move")
    /\ \/ Moves
       \/ private < Attempts /\ TriesName(private + 1)
       \/ Records("Failed") /\ UNCHANGED at
    /\ UNCHANGED <<removed, objects, gate>>

\* Mutant: the entry goes back by a rename over whatever the name holds.
RenamesBack ==
    /\ At("swap")
    /\ \/ /\ at[DetachedPlace] # Nothing
          /\ at' = [at EXCEPT ![OwnPlace] = at[DetachedPlace],
                              ![DetachedPlace] = Nothing]
          /\ Goes("verify")
          /\ UNCHANGED <<entry, noLink, registered>>
       \/ Records("Failed") /\ UNCHANGED at
    /\ UNCHANGED <<removed, objects, gate>>

SwapsBack ==
    /\ At("swap")
    /\ \/ /\ at[OwnPlace] # Nothing /\ at[DetachedPlace] # Nothing
          /\ Exchange(OwnPlace, DetachedPlace)
          /\ Goes("verify")
          /\ UNCHANGED <<entry, noLink, registered>>
       \/ Records("Failed") /\ UNCHANGED at
    /\ UNCHANGED <<removed, objects, gate>>

\* Mutant: the outcome stands whether or not the placeholder can go.
VerifiesInVain ==
    /\ At("verify")
    /\ \/ /\ Untouched(at[PrivatePlace])
          /\ Goes("unlink")
          /\ UNCHANGED <<entry, noLink, registered>>
       \/ Records(pending)
    /\ UNCHANGED <<at, removed, objects, gate>>

\* remove_verified_placeholder looks, and then removes by name.
VerifiesPlaceholder ==
    /\ At("verify")
    /\ \/ /\ Untouched(at[PrivatePlace])
          /\ Goes("unlink")
          /\ UNCHANGED <<entry, noLink, registered>>
       \/ Records("Failed")
    /\ UNCHANGED <<at, removed, objects, gate>>

UnlinksPlaceholder ==
    /\ At("unlink")
    /\ \/ /\ at[PrivatePlace] \notin Dirs \cup {Nothing}
          /\ at' = [at EXCEPT ![PrivatePlace] = Nothing]
          /\ removed' = removed \cup {at[PrivatePlace]}
          /\ Records(pending)
          /\ soft' = (soft \/ pending = "Unattempted")
       \/ /\ Records("Failed")
          /\ UNCHANGED <<at, removed, soft>>
    /\ UNCHANGED <<objects, hard, mutation>>

-----------------------------------------------------------------------------
Executor ==
    \/ CannotOpenRoot \/ CannotReadPlan \/ Skips \/ OpensParent
    \/ Claims \/ CreatesPlaceholder \/ Begins \/ Isolates \/ Inspects
    \/ OpensReference \/ RemovesEntry \/ CountsLinks \/ ChecksOwnName
    \/ MovesPlaceholder \/ SwapsBack \/ VerifiesPlaceholder
    \/ UnlinksPlaceholder

Others ==
    \/ \E place \in Places, s \in Strangers : Put(place, s)
    \/ \E place \in Places : TakeAway(place)
    \/ \E o \in Objects : Write(o)
    \/ \E e \in Entries : Link(e) \/ Unlink(e)

Next == Executor \/ Others \/ RequestStop

Spec == Init /\ [][Next]_vars

\* The executor is a thread of its own; nothing is assumed of the others.
FairSpec == Spec /\ WF_vars(Executor)

-----------------------------------------------------------------------------
(***************************************************************************)
(* Properties.                                                             *)
(***************************************************************************)
\* Every variable holds what its counterpart in the code can hold.
TypeOK ==
    /\ at \in [Places -> Objects \cup {Nothing}]
    /\ changed \subseteq Objects /\ removed \subseteq Objects
    /\ taken \subseteq Objects
    /\ linked \subseteq Entries
    /\ brought \subseteq Strangers /\ late \subseteq Strangers
    /\ changes \in 0 .. MaxChanges
    /\ soft \in BOOLEAN /\ hard \in BOOLEAN /\ mutation \in MutationStates
    /\ next \in 1 .. Len(Plan) + 1 /\ pc \in Phases
    /\ parent \in Dirs /\ private \in 1 .. Attempts
    /\ pending \in Outcomes /\ moving \in {"move", "swap"}
    /\ refused \in BOOLEAN /\ single \in BOOLEAN /\ counted \in BOOLEAN
    /\ reference \in BOOLEAN /\ noLink \in BOOLEAN
    /\ registered \subseteq Places
    /\ DOMAIN outcome \subseteq Entries
    /\ \A e \in DOMAIN outcome : outcome[e] \in Outcomes
    /\ otherLinks \in BOOLEAN /\ freed \subseteq Entries
    /\ stopped \in BOOLEAN /\ complete \in BOOLEAN

\* "Never add a new identity to the plan": whatever other processes put at an
\* entry's name or at a private one, and whenever they do, the executor removes
\* the objects that were reviewed and its own placeholders.  The system removes
\* by name, so one window is left open: what was put at a private name after the
\* last look at it (the second look at the isolated entry, the check of the
\* placeholder) is removed with that name.  Nothing else is.
OnlyReviewedIsRemoved == removed \cap Strangers \subseteq late

\* What the executor neither removed nor was robbed of keeps a name: an entry
\* that has changed, and what another process put in its place meanwhile.
NothingIsLost ==
    \A o \in (Entries \cup brought) \ (removed \cup taken) : InTree(o)

\* The outcome recorded says what happened.  An entry recorded as deleted was
\* removed by the executor, unless another process took it and put something in
\* its stead in the window after the last look.  Only a failure leaves the entry
\* or the placeholder at a private name, and only a failure may hide a removal.
OutcomeIsTrue ==
    \A e \in DOMAIN outcome :
        /\ outcome[e] = "Deleted" =>
             e \in removed \/ (e \in taken /\ removed \cap late # {})
        /\ e \in removed => outcome[e] \in {"Deleted", "Failed"}
        /\ outcome[e] # "Failed" =>
             \A d \in Dirs, k \in 1 .. Attempts :
                 at[<<d, Private(e, k)>>] \notin {e, Placeholder(e)}

\* Files that are gone: removed, by the executor or by another process, and not
\* left under another link.
Gone == (removed \cup taken) \ linked

\* Space is counted as freed only for a file whose last link has gone.
FreedSpaceIsFree == freed \subseteq Gone

\* DeletionReport::target_was_removed, once the run is over.
TargetWasRemoved ==
    /\ pc = "done"
    /\ ~soft /\ ~hard /\ complete
    /\ Target \in DOMAIN outcome
    /\ outcome[Target] \in {"Deleted", "Missing"}

\* A removal the map may be corrected for without a new scan is one that left
\* neither the target nor another link to one of its files.
DescribedRemovalIsExact ==
    TargetWasRemoved /\ ~otherLinks =>
        /\ Target \in removed \cup taken
        /\ \A e \in Entries : IsFile(e) => e \in Gone

\* A scan that lists the folder while an entry is isolated finds each private
\* name registered.
PrivateNamesAreRegistered ==
    pc \notin {"boundary", "done"} =>
        \A d \in Dirs, k \in 1 .. Attempts :
            at[<<d, Private(Current, k)>>] # Nothing =>
                <<d, Private(Current, k)>> \in registered

\* The run ends, whatever other processes do: every retry is bounded.
RunEnds == <>(pc = "done")
=============================================================================
