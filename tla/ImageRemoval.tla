---------------------------- MODULE ImageRemoval ----------------------------
(* The image page: it lists Docker's images with their tags, containers,    *)
(* parents and space (host/image_management.py, host/image_graph.py), keeps *)
(* what the user ticks across refreshes, and removes the ticked images once *)
(* a dialog that shows their tags and the expected space is confirmed       *)
(* (tui/image_actions.py, tui/images.py).  Every Docker command of the page *)
(* is a step of its own, between which other processes move tags, start     *)
(* containers, remove images, or put another daemon behind the connection.  *)
(* imagePage.ticked is the selection; the tags each image had when it was ticked *)
(* are history, as is all of past, the stock of the dialog included.        *)
EXTENDS Naturals, FiniteSets, Sequences

CONSTANTS
    Images,     \* image IDs: digests, so an image never changes
    Tags,
    Facts,      \* what Docker records of each image, labels included
    Stocks,     \* contents a daemon may have: [present, tags, used]
    MaxMoves    \* steps of other processes

VARIABLES docker, imagePage, dialog, worker, past

imageVars == <<docker, imagePage, dialog, worker, past>>

NoName == "nothing"
Unknown == 999      \* a size shown as unknown

Daemons == [daemon : Nat, present : SUBSET Images, tags : [Tags -> Images \cup {NoName}],
            used : SUBSET Images]

ASSUME ImagesAssumption ==
    /\ NoName \notin Images \cup Tags
    /\ \A s \in Stocks :
          /\ s.tags \in [Tags -> s.present \cup {NoName}]
          /\ s.used \subseteq s.present /\ s.present \subseteq Images

Deep(i) == Len(Facts[i].layers)
Named(d, i) == {t \in Tags : d.tags[t] = i}

\* A layer is known by the chain of layers up to it; each is one unit of space.
Chain(i) == {SubSeq(Facts[i].layers, 1, n) : n \in 1..Deep(i)}
Space(S) == Cardinality(UNION {Chain(i) : i \in S})

-----------------------------------------------------------------------------
(* Where an image comes from: the parent it records, else the one image     *)
(* whose build it names, else the nearest whose layers it begins with.      *)

Under(p, c) == Chain(p) # {} /\ p # c /\ Chain(p) \subseteq Chain(c)
StrictlyUnder(p, c) == Under(p, c) /\ Deep(p) < Deep(c)

Recorded(i) ==
    IF Facts[i].kind = "model" /\ Facts[i].source # NoName
    THEN Facts[i].source ELSE Facts[i].parent

LowerLevel(kind) ==
    CASE kind = "runtime" -> [kind |-> "base", key |-> "platform"]
      [] kind \in {"weights", "model-plan"} -> [kind |-> "runtime", key |-> "environment"]
      [] kind = "model" -> [kind |-> "weights", key |-> "files"]
      [] OTHER -> [kind |-> NoName, key |-> NoName]

Builds(S, i) ==
    LET below == LowerLevel(Facts[i].kind)
    IN  {p \in S : /\ below.key # NoName /\ Facts[i].keys[below.key] # NoName
                   /\ Facts[p].kind = below.kind
                   /\ Facts[p].keys[below.key] = Facts[i].keys[below.key]
                   /\ Under(p, i)}

NearestUnder(S, i) ==
    {p \in S : /\ StrictlyUnder(p, i)
               /\ \A q \in S : StrictlyUnder(q, i) => Deep(q) <= Deep(p)}

Only(S) == IF Cardinality(S) = 1 THEN CHOOSE p \in S : TRUE ELSE NoName

ParentOf(S, i) ==
    IF Recorded(i) # NoName
    THEN IF Recorded(i) \notin S \/ Under(Recorded(i), i) THEN Recorded(i) ELSE NoName
    ELSE Only(IF Builds(S, i) # {} THEN Builds(S, i) ELSE NearestUnder(S, i))

\* As many steps up as there are images, or outside of them before.
Climb(par, i) ==
    LET up[n \in 0..Cardinality(DOMAIN par)] ==
            IF n = 0 THEN i
            ELSE IF up[n - 1] \in DOMAIN par THEN par[up[n - 1]] ELSE NoName
    IN  up[Cardinality(DOMAIN par)]
Circular(par, i) == Climb(par, i) \in DOMAIN par

Uncircled_Trusts(par) == par

\* One image after another is cut off when the way up from it does not end.
Uncircled(par) ==
    LET cut[S \in SUBSET DOMAIN par] ==
            IF S = {} THEN par
            ELSE LET i == CHOOSE j \in S : TRUE
                     before == cut[S \ {i}]
                 IN  IF Circular(before, i) THEN [before EXCEPT ![i] = NoName] ELSE before
    IN  cut[DOMAIN par]

Described(S) == Uncircled([i \in S |-> ParentOf(S, i)])

-----------------------------------------------------------------------------
(* The space a removal would free, as far as the sizes could be read: all   *)
(* layers no other image uses, else what Docker says of a single image.     *)

UsedOnlyBy(inv, ids) ==
    {c \in UNION {Chain(i) : i \in DOMAIN inv.images} :
        \A i \in DOMAIN inv.images : c \in Chain(i) => i \in ids}
UniqueBytes(inv, i) ==
    LET own == {c \in Chain(i) : c \in UsedOnlyBy(inv, {i})}
    IN  IF own = {} \/ inv.space # NoName
        THEN Cardinality(own) ELSE Unknown

Reclaimable(inv, ids) ==
    IF ids = {} \/ \E i \in ids : inv.images[i].used THEN 0
    ELSE IF /\ \A i \in ids : Chain(i) # {}
            /\ inv.space = "layers" \/ UsedOnlyBy(inv, ids) = {}
    THEN Cardinality(UsedOnlyBy(inv, ids))
    ELSE IF Cardinality(ids) = 1 THEN UniqueBytes(inv, CHOOSE i \in ids : TRUE)
    ELSE Unknown

-----------------------------------------------------------------------------
NoInventory == [daemon |-> 0, images |-> <<>>, parents |-> <<>>, space |-> NoName]
NoJob == [kind |-> NoName, step |-> NoName, seen |-> NoInventory,
          todo |-> {}, at |-> NoName, error |-> FALSE]
Stocked(s, n) == [daemon |-> n, present |-> s.present, tags |-> s.tags, used |-> s.used]

NoDialog == [inventory |-> NoInventory, ticked |-> <<>>, estimate |-> 0, stock |-> {}]

ImagesInit ==
    /\ \E s \in Stocks : docker = Stocked(s, 1)
    /\ imagePage = [inventory |-> NoInventory, ticked |-> <<>>, error |-> FALSE, operation |-> NoName]
    /\ dialog = NoDialog
    /\ worker = NoJob
    /\ past = [moved |-> {}, removed |-> {}, calm |-> FALSE, left |-> MaxMoves]

Listed(i) == imagePage.inventory.images[i]
Selected == DOMAIN imagePage.ticked
Listing(kind) == [NoJob EXCEPT !.kind = kind, !.step = "info"]
CanTick == imagePage.operation \in {NoName, "refresh"} /\ imagePage.inventory # NoInventory
Tick(S) == [i \in S |-> IF i \in Selected THEN imagePage.ticked[i] ELSE Listed(i).tags]

-----------------------------------------------------------------------------
(* The page.                                                                *)

RefreshImages ==
    /\ imagePage.operation = NoName
    /\ imagePage' = [imagePage EXCEPT !.operation = "refresh"]
    /\ worker' = Listing("refresh")
    /\ UNCHANGED <<docker, dialog, past>>

Toggle(i) ==
    /\ CanTick /\ i \in DOMAIN imagePage.inventory.images /\ ~Listed(i).used
    /\ imagePage' = [imagePage EXCEPT !.ticked =
            Tick(IF i \in Selected THEN Selected \ {i} ELSE Selected \cup {i})]
    /\ UNCHANGED <<docker, dialog, worker, past>>

SelectModel(i) ==
    /\ CanTick /\ i \in DOMAIN imagePage.inventory.images /\ Facts[i].model # NoName
    /\ imagePage' = [imagePage EXCEPT !.ticked =
            Tick({c \in DOMAIN imagePage.inventory.images :
                    /\ Facts[c].model = Facts[i].model /\ ~Listed(c).used
                    /\ Facts[c].kind \notin {"runtime", "base"}})]
    /\ UNCHANGED <<docker, dialog, worker, past>>

Retained_ById(inv) ==
    IF inv.daemon # imagePage.inventory.daemon THEN {}
    ELSE {i \in Selected \cap DOMAIN inv.images : ~inv.images[i].used}

\* What stays ticked after a new listing: the same images with the same tags.
Retained(inv) ==
    IF inv.daemon # imagePage.inventory.daemon THEN {}
    ELSE {i \in Selected \cap DOMAIN inv.images :
             ~inv.images[i].used /\ inv.images[i].tags = Listed(i).tags}

\* A failed listing leaves the page as it was, and nothing can be removed from it.
ShowImages(inv, error, clear) ==
    imagePage' = [inventory |-> IF inv = NoInventory THEN imagePage.inventory ELSE inv,
             ticked |-> Tick(IF clear THEN {}
                             ELSE IF inv = NoInventory THEN Selected ELSE Retained(inv)),
             error |-> error, operation |-> NoName]

RequestRemoval ==
    /\ imagePage.operation = NoName /\ ~imagePage.error /\ Selected # {}
    /\ imagePage' = [imagePage EXCEPT !.operation = "confirm"]
    /\ dialog' = [inventory |-> imagePage.inventory, ticked |-> imagePage.ticked,
                  estimate |-> Reclaimable(imagePage.inventory, Selected), stock |-> docker.present]
    /\ UNCHANGED <<docker, worker, past>>

Confirmed(yes) ==
    /\ imagePage.operation = "confirm"
    /\ imagePage' = [imagePage EXCEPT !.operation = IF yes THEN "delete" ELSE NoName]
    /\ worker' = IF yes THEN Listing("delete") ELSE worker
    /\ dialog' = IF yes THEN dialog ELSE NoDialog
    /\ UNCHANGED <<docker, past>>

ToRemove == DOMAIN dialog.ticked

-----------------------------------------------------------------------------
(* The worker.  list_images asks for the daemon, the images, the containers *)
(* and, for the page, the space; delete_images lists, compares with what    *)
(* was confirmed, and checks and removes one image after the other.         *)

ListEnds(inv, error) ==
    /\ ShowImages(inv, error \/ worker.error, worker.kind = "after")
    /\ worker' = NoJob /\ dialog' = NoDialog
    /\ past' = [past EXCEPT !.moved = {}, !.removed = {}]

Changed_ById(inv) ==
    \/ inv.daemon # dialog.inventory.daemon
    \/ \E i \in ToRemove : i \notin DOMAIN inv.images \/ inv.images[i].used

\* The listing in which the daemon or a confirmed image is not as it was shown.
Changed(inv) ==
    \/ inv.daemon # dialog.inventory.daemon
    \/ \E i \in ToRemove : \/ i \notin DOMAIN inv.images
                             \/ inv.images[i].tags # dialog.inventory.images[i].tags
                             \/ inv.images[i].used

\* The page is listed again, through the connection that was confirmed.
ThenList(error) == worker' = [Listing("after") EXCEPT !.error = error]

ReadDaemon ==
    /\ worker.step = "info"
    /\ worker' = [worker EXCEPT !.step = "images", !.seen.daemon = docker.daemon]
    /\ past' = IF worker.kind = "delete" THEN past ELSE [past EXCEPT !.calm = TRUE]
    /\ UNCHANGED <<docker, imagePage, dialog>>

ReadImages ==
    /\ worker.step = "images"
    /\ worker' = [worker EXCEPT !.step = "containers",
                  !.seen.images =
                      [i \in docker.present |-> [tags |-> Named(docker, i), used |-> FALSE]]]
    /\ past' = [past EXCEPT !.moved = {}]
    /\ UNCHANGED <<docker, imagePage, dialog>>

ReadContainers ==
    /\ worker.step = "containers"
    /\ LET seen == [worker.seen EXCEPT !.images =
                        [i \in DOMAIN @ |-> [@[i] EXCEPT !.used = i \in docker.used]]]
       IN  IF worker.kind # "delete" THEN worker' = [worker EXCEPT !.step = "space", !.seen = seen]
           ELSE IF Changed(seen) THEN ThenList(TRUE)
           ELSE worker' = [worker EXCEPT !.step = "next", !.seen = seen, !.todo = ToRemove]
    /\ UNCHANGED <<docker, imagePage, dialog, past>>

\* Space is known of each layer, or as Docker counts it, or not at all.
ReadSpace(space) ==
    /\ worker.step = "space"
    /\ ListEnds([worker.seen EXCEPT !.space = space, !.parents = Described(DOMAIN worker.seen.images)], FALSE)
    /\ UNCHANGED docker

\* What the listing of the removal saw the image named by; by its ID if by nothing.
References(i) == worker.seen.images[i].tags

Eligible_Any(i) == TRUE

\* Deeper images first, so that an image goes before the one it is built on.
Eligible(i) == \A j \in worker.todo : Deep(j) <= Deep(i)

CheckImage(i) ==
    /\ worker.step = "next" /\ i \in worker.todo /\ Eligible(i)
    /\ IF /\ docker.daemon = dialog.inventory.daemon
          /\ i \in docker.present /\ References(i) \subseteq Named(docker, i)
       THEN /\ worker' = [worker EXCEPT !.step = "remove", !.todo = @ \ {i}, !.at = i]
            /\ past' = [past EXCEPT !.moved = @ \ (References(i) \cup {NoName})]
       ELSE /\ worker' = [worker EXCEPT !.todo = @ \ {i}]
            /\ UNCHANGED past
    /\ UNCHANGED <<docker, imagePage, dialog>>

AllTried == /\ worker.step = "next" /\ worker.todo = {} /\ ThenList(FALSE)
            /\ UNCHANGED <<docker, imagePage, dialog, past>>

BuiltFrom(d, i) == {c \in d.present : Facts[c].parent = i}

\* Docker unties the tags it is given and removes an image with its last tag,
\* unless a container uses it (then that tag stays) or an image is built on it.
Untied(d, refs, i) ==
    LET gone == {t \in refs : d.tags[t] = i}
    IN  IF gone = Named(d, i) /\ i \in d.used
        THEN gone \ {CHOOSE t \in gone : TRUE} ELSE gone
Dropped(d, i) == i \notin d.used /\ BuiltFrom(d, i) = {}
Removal(d, refs) ==
    LET held == {i \in d.present : Named(d, i) \cap refs # {}}
        untied == UNION {Untied(d, refs, i) : i \in held}
        gone == {i \in held : Named(d, i) \subseteq untied /\ Dropped(d, i)}
    IN  [d EXCEPT !.tags = [t \in Tags |-> IF t \in untied THEN NoName ELSE @[t]],
                  !.present = @ \ gone]
\* By its ID an image is removed with a tag it has got since, but not with two.
RemovalById(d, i) ==
    IF i \notin d.present \/ ~Dropped(d, i) \/ Cardinality(Named(d, i)) > 1 THEN d
    ELSE [d EXCEPT !.tags = [t \in Tags |-> IF @[t] = i THEN NoName ELSE @[t]],
                   !.present = @ \ {i}]

RemoveImage ==
    /\ worker.step = "remove"
    /\ docker' = IF References(worker.at) = {} THEN RemovalById(docker, worker.at)
                 ELSE Removal(docker, References(worker.at))
    /\ past' = [past EXCEPT !.removed = @
                  \cup {[tag |-> t, image |-> docker.tags[t], late |-> t \in past.moved] :
                           t \in {u \in Tags : docker.tags[u] # docker'.tags[u]}}
                  \cup {[tag |-> NoName, image |-> i,
                         late |-> past.moved \cap (Named(docker, i) \cup {NoName}) # {}] :
                           i \in docker.present \ docker'.present}]
    /\ worker' = [worker EXCEPT !.step = "next"]
    /\ UNCHANGED <<imagePage, dialog>>

\* A command fails or times out: the listing, or the removal of one image.
CommandFails ==
    /\ worker.kind # NoName
    /\ CASE worker.step \in {"info", "images", "containers", "space"} /\ worker.kind # "delete" ->
                ListEnds(NoInventory, TRUE)
         [] OTHER ->
                /\ \/ worker.kind = "delete" /\ worker.step \notin {"next", "remove"} /\ ThenList(TRUE)
                   \/ worker.step = "remove" /\ worker' = [worker EXCEPT !.step = "next"]
                   \/ \E i \in worker.todo : /\ worker.step = "next" /\ Eligible(i)
                                          /\ worker' = [worker EXCEPT !.todo = @ \ {i}]
                /\ past' = [past EXCEPT !.calm = FALSE]
                /\ UNCHANGED <<imagePage, dialog>>
    /\ UNCHANGED docker

-----------------------------------------------------------------------------
(* Other processes.                                                         *)

Disturb(tags) ==
    /\ past.left > 0
    /\ past' = [past EXCEPT !.left = @ - 1, !.calm = FALSE,
                !.moved = IF worker.kind = "delete" THEN @ \cup tags ELSE @]
    /\ UNCHANGED <<imagePage, dialog, worker>>

\* A tag is given to an image, which is built or pulled if it is not there.
MoveTag(t, i) ==
    /\ docker.tags[t] # i
    /\ Facts[i].parent \in docker.present \cup {NoName}
    /\ docker' = [docker EXCEPT !.tags[t] = i, !.present = @ \cup {i}]
    /\ Disturb({t})

StartContainer(i) ==
    /\ i \in docker.present \ docker.used
    /\ docker' = [docker EXCEPT !.used = @ \cup {i}]
    /\ Disturb({})

RemoveOutside(t) ==
    /\ docker.tags[t] # NoName /\ docker' = Removal(docker, {t}) /\ docker' # docker
    /\ Disturb({t})

ReplaceDaemon(s) ==
    /\ docker' = Stocked(s, docker.daemon + 1)
    /\ Disturb(Tags \cup {NoName})

ImagesNext ==
    \/ RefreshImages \/ RequestRemoval \/ ReadDaemon \/ ReadImages \/ ReadContainers
    \/ AllTried \/ RemoveImage \/ CommandFails
    \/ \E yes \in BOOLEAN : Confirmed(yes)
    \/ \E space \in {"layers", "docker-df", NoName} : ReadSpace(space)
    \/ \E i \in Images : Toggle(i) \/ SelectModel(i) \/ CheckImage(i) \/ StartContainer(i)
    \/ \E t \in Tags : RemoveOutside(t) \/ \E i \in Images : MoveTag(t, i)
    \/ \E s \in Stocks : ReplaceDaemon(s)

ImagesSpec == ImagesInit /\ [][ImagesNext]_imageVars

-----------------------------------------------------------------------------
ImagesTypeOK ==
    /\ docker.present \subseteq Images /\ docker.used \subseteq docker.present
    /\ \A t \in Tags : docker.tags[t] \in docker.present \cup {NoName}
    /\ Selected \subseteq DOMAIN imagePage.inventory.images
    /\ imagePage.operation \in {NoName, "refresh", "confirm", "delete"}
    /\ (worker.kind = NoName) <=> (imagePage.operation \in {NoName, "confirm"})

\* A tag or an image goes only if the dialog showed it, with the tags it had
\* when the user ticked it -- however many refreshes, failed readings and steps
\* of other processes lie between -- or if it changed hands after the last look.
OnlyShownGoes ==
    \A r \in past.removed :
        \/ r.late
        \/ /\ r.image \in ToRemove
           /\ dialog.inventory.images[r.image].tags = dialog.ticked[r.image]
           /\ r.tag \in dialog.ticked[r.image] \cup {NoName}

\* When nobody disturbed a removal it frees no more than the dialog said, and
\* exactly that if every image went; an image stays only under one that was
\* not chosen, or whose layers are the same as its own.
UndisturbedIsDone ==
    worker.kind = "after" /\ worker.step = "info" /\ ~worker.error /\ past.calm =>
        LET stays == ToRemove \cap docker.present
            freed == Space(dialog.stock) - Space(docker.present)
        IN  /\ \A i \in stays : \E c \in dialog.stock :
                   /\ Facts[c].parent = i
                   /\ c \in ToRemove \ stays => Deep(c) <= Deep(i)
            /\ dialog.estimate # Unknown =>
                   /\ freed <= dialog.estimate
                   /\ stays = {} => freed = dialog.estimate

\* Whatever labels and build records say, the way up from an image ends.
TreeIsForest == \A i \in DOMAIN imagePage.inventory.parents : ~Circular(imagePage.inventory.parents, i)

\* The confirmation of a removal on the image page (delete_images): only what
\* was shown goes, an undisturbed removal does what the dialog said, and the
\* tree the user chooses from has no circle.
RemovalIsConfirmed == ImagesTypeOK /\ OnlyShownGoes /\ UndisturbedIsDone /\ TreeIsForest
=============================================================================
