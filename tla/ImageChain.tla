------------------------------ MODULE ImageChain ------------------------------
(***************************************************************************)
(* The chain of images a run measures: platform, environment, model plan   *)
(* and service (host/dependency_images.py, host/runtime_images.py), built  *)
(* by several processes over one Docker daemon while the checkout is being *)
(* edited, and removed from the TUI (host/image_management.py).            *)
(*                                                                         *)
(* A source version stands for a content digest, an image ID for a sha256. *)
(* Edits only go forward: a checkout that returns to an earlier content    *)
(* between two reads of a digest is not told apart by the code either.     *)
(***************************************************************************)
EXTENDS Integers, Sequences, FiniteSets, Functions

CONSTANTS
    Builders,       \* processes that prepare an image
    MaxSourceEdits, \* bound: edits of the checkout
    MaxImages,      \* bound: images that are ever built or pulled
    MaxRemovals     \* bound: images removed from the TUI

VARIABLES
    source,         \* the checkout: dep (locks, dependency recipes), app (service code)
    images,         \* every image ever made; its ID is its place
    tags,           \* name -> image ID
    builder,        \* of each process: the variables of prepare_runtime_image
    removal,        \* what delete_images is about to remove
    removed         \* IDs whose removal was asked for, IDs that went with their last tag

chainVars == <<source, images, tags, builder, removal, removed>>

NoImage == 0
Platform == 1  Environment == 2  Model == 3  Service == 4

\* A name is a kind and a digest of what the image is made from.
NameOf(level_, dep_, app_, base_) == [level |-> level_, dep |-> dep_, app |-> app_, base |-> base_]
RequestName(req) == NameOf(Service, req.dep, req.app, NoImage)
Tagged(name) == name \in DOMAIN tags
Present(id) == id \in DOMAIN images /\ id \notin removed.gone

Idle == [pc |-> "idle", req |-> [dep |-> 0, app |-> 0], level |-> Platform, dep |-> 0,
         name |-> NameOf(Platform, 0, 0, NoImage), base |-> NoImage, context |-> 0, id |-> NoImage]

ChainInit ==
    /\ source = [dep |-> 1, app |-> 1]
    /\ images = <<>> /\ tags = <<>>
    /\ builder = [b \in Builders |-> Idle]
    /\ removal = [id |-> NoImage, names |-> {}]
    /\ removed = [asked |-> {}, gone |-> {}]

Set(b, r) == builder' = [builder EXCEPT ![b] = r]
Proceed(b, to) == Set(b, [builder[b] EXCEPT !.pc = to])
Raise(b) == Set(b, [Idle EXCEPT !.pc = "failed"])
Done(b, id_) == Set(b, [Idle EXCEPT !.pc = "done", !.req = builder[b].req, !.id = id_])
world == <<source, images, tags, removal, removed>>

\* docker tag: the name now stands for this image.
GiveName(name, id_) == tags' = [n \in DOMAIN tags \cup {name} |-> IF n = name THEN id_ ELSE tags[n]]

EditSource ==
    /\ source.dep + source.app < 2 + MaxSourceEdits
    /\ \E part_ \in {"dep", "app"} : source' = [source EXCEPT ![part_] = @ + 1]
    /\ UNCHANGED <<images, tags, builder, removal, removed>>
-----------------------------------------------------------------------------
(* Preparing an image                                                      *)

BeginBuild(b) ==
    /\ builder[b].pc = "idle"
    /\ Set(b, [Idle EXCEPT !.pc = "begun", !.req = source])
    /\ UNCHANGED world

\* verified_image of --skip-build: what the labels and manifests of the image say
\* is compared with the request and with the locks as they are now.
Verified(id, req) ==
    /\ images[id].name = RequestName(req)
    /\ source.dep = req.dep

Reuse(b) ==
    /\ builder[b].pc = "begun" /\ Tagged(RequestName(builder[b].req))
    /\ LET id == tags[RequestName(builder[b].req)]
       IN IF Verified(id, builder[b].req)
          THEN Done(b, id) ELSE Raise(b)
    /\ UNCHANGED world

\* prepare_environment_image reads the locks anew.
Rebuild(b) ==
    /\ builder[b].pc = "begun"
    /\ Set(b, [builder[b] EXCEPT !.pc = "look", !.dep = source.dep])
    /\ UNCHANGED world

\* The name under which the image of this level is cached; model_fingerprint reads
\* the files of the model layer at this moment.
CacheName(s) ==
    CASE s.level = Platform -> NameOf(Platform, s.dep, 0, NoImage)
      [] s.level = Environment -> NameOf(Environment, s.dep, 0, s.base)
      [] s.level = Model -> NameOf(Model, 0, source.app, s.base)
      [] s.level = Service -> RequestName(s.req)

\* Mutant: what was read of the checkout is not compared again.
Unchanged_Trusted(s) == TRUE

\* The checkout is still the one the name was computed from.
Unchanged(s) == IF s.level <= Environment THEN source.dep = s.dep ELSE source = s.req

\* checked_image: the labels and the manifest inside the image must agree with the name.
Checked(image, name) == image.name = name /\ image.from = {name.dep}

\* A hit or a miss; the final image is always built.
Look(b) ==
    /\ builder[b].pc = "look"
    /\ LET s == [builder[b] EXCEPT !.name = CacheName(builder[b])]
       IN IF s.level = Environment /\ ~Unchanged(s) THEN Raise(b)
          ELSE IF s.level = Service \/ ~Tagged(s.name) THEN Set(b, [s EXCEPT !.pc = "miss"])
          ELSE IF s.level <= Environment /\ ~Checked(images[tags[s.name]], s.name) THEN Raise(b)
          ELSE Set(b, [s EXCEPT !.pc = "found", !.id = tags[s.name]])
    /\ UNCHANGED world

\* docker pull of a prebuilt image: what the registry holds under a fingerprint may
\* be something else, which is never replaced by a local build.  A second pull
\* returns the image that is there.
Pulled(name) == {id \in DOMAIN images : Present(id) /\ images[id].pulled /\ images[id].name = name}

Pull(b) ==
    LET s == builder[b]
        Take(id, image) == IF Checked(image, s.name)
                           THEN /\ GiveName(s.name, id)
                                /\ Set(b, [s EXCEPT !.pc = "found", !.id = id])
                           ELSE Raise(b) /\ UNCHANGED tags
    IN  /\ s.pc = "miss" /\ s.level <= Environment
        /\ \/ \E id \in Pulled(s.name) : Take(id, images[id]) /\ UNCHANGED images
           \/ /\ Pulled(s.name) = {} /\ Len(images) < MaxImages
              /\ \E dep_ \in {s.name.dep, s.name.dep + 1} :
                   LET image == [name |-> s.name, from |-> {dep_}, base |-> s.base, pulled |-> TRUE]
                   IN  images' = Append(images, image) /\ Take(Len(images) + 1, image)
        /\ UNCHANGED <<source, removal, removed>>

\* docker tag acprof-build-source, then the build context is copied.
Copy(b) ==
    LET s == builder[b]
    IN  /\ s.pc = "miss"
        /\ IF s.base # NoImage /\ ~Present(s.base) THEN Raise(b)
           ELSE Set(b, [s EXCEPT !.pc = "copied",
                            !.context = IF s.level <= Environment THEN source.dep ELSE source.app])
        /\ UNCHANGED world

\* require_image_source and the fingerprint, then docker build.
Build(b) ==
    LET s == builder[b]
    IN  /\ s.pc = "copied"
        /\ \/ Raise(b) /\ UNCHANGED images
           \/ /\ (s.base # NoImage => Present(s.base)) /\ Unchanged(s)
              /\ Len(images) < MaxImages
              /\ images' = Append(images, [name |-> s.name, base |-> s.base, pulled |-> FALSE,
                    from |-> {s.context} \cup (IF s.level <= Environment THEN {s.dep} ELSE {})])
              /\ Set(b, [s EXCEPT !.pc = "built", !.id = Len(images')])
        /\ UNCHANGED <<source, tags, removal, removed>>

\* Both are compared once more before the name is given to the image.
Publish(b) ==
    LET s == builder[b]
    IN  /\ s.pc = "built"
        /\ IF /\ s.base # NoImage => Present(s.base)
              /\ Unchanged(s) /\ Present(s.id)
              /\ s.level <= Environment => Checked(images[s.id], s.name)
              /\ s.level = Service => Verified(s.id, s.req)
           THEN /\ GiveName(s.name, s.id)
                /\ CASE s.level <= Environment -> Proceed(b, "again")
                     [] s.level = Model -> Proceed(b, "found")
                     [] s.level = Service -> Done(b, s.id)
           ELSE Raise(b) /\ UNCHANGED tags
        /\ UNCHANGED <<source, images, removal, removed>>

\* The name is looked up again: another process may have moved it by now.
LookAgain(b) ==
    LET s == builder[b]
    IN  /\ s.pc = "again"
        /\ IF Tagged(s.name) /\ Checked(images[tags[s.name]], s.name)
           THEN Set(b, [s EXCEPT !.pc = "found", !.id = tags[s.name]]) ELSE Raise(b)
        /\ UNCHANGED world

Descend(b) ==
    LET s == builder[b]
    IN  /\ s.pc = "found"
        /\ IF /\ s.level <= Environment => Unchanged(s)
              /\ s.level = Environment => Tagged(s.name) /\ tags[s.name] = s.id
           THEN Set(b, [s EXCEPT !.pc = "look", !.level = @ + 1, !.base = s.id])
           ELSE Raise(b)
        /\ UNCHANGED world
-----------------------------------------------------------------------------
(* delete_images                                                           *)

NamesOf(id) == {n \in DOMAIN tags : tags[n] = id}

\* The tags of the image are those the user confirmed: the whole list is compared,
\* then the references of each image once more, so that when they were shown
\* makes no difference.
Inspect ==
    /\ removal.id = NoImage /\ Cardinality(removed.asked) < MaxRemovals
    /\ \E id \in Range(tags) : removal' = [id |-> id, names |-> NamesOf(id)]
    /\ UNCHANGED <<source, images, tags, builder, removed>>

\* docker image rm of the names: an image goes with its last one.  A pulled image
\* has the name of the registry as well, one of those removed if it was chosen.
Remove ==
    LET lost == {tags[n] : n \in removal.names \cap DOMAIN tags}
        kept == Restrict(tags, DOMAIN tags \ removal.names)
    IN  /\ removal.id # NoImage
        /\ tags' = kept
        /\ removed' = [asked |-> removed.asked \cup {removal.id},
                       gone |-> removed.gone \cup {id \in lost : /\ id \notin Range(kept)
                                                             /\ images[id].pulled => id = removal.id}]
        /\ removal' = [id |-> NoImage, names |-> {}]
        /\ UNCHANGED <<source, images, builder>>

ChainNext ==
    \/ EditSource
    \/ \E b \in Builders : BeginBuild(b) \/ Reuse(b) \/ Rebuild(b) \/ Look(b) \/ Pull(b) \/ Copy(b)
                           \/ Build(b) \/ Publish(b) \/ LookAgain(b) \/ Descend(b)
    \/ Inspect \/ Remove

ChainSpec == ChainInit /\ [][ChainNext]_chainVars
-----------------------------------------------------------------------------
\* The images an image was built on, itself included: no chain is longer.
Base(id) == IF id = NoImage THEN NoImage ELSE images[id].base
Below(id) == {id, Base(id), Base(Base(id)), Base(Base(Base(id)))} \ {NoImage}

\* What a layer may be made from if it is to serve a request.
Serves(id, req) ==
    images[id].from = {IF images[id].name.level <= Environment THEN req.dep ELSE req.app}

\* Every layer of an image that is handed to a run was made from the checkout whose
\* fingerprint the run recorded, and so were the images that a name in the cache
\* offers to later runs: whoever edits, builds, retags or removes meanwhile.
ImageIsItsRequest ==
    /\ \A b \in Builders : builder[b].pc = "done" =>
            \A layer \in Below(builder[b].id) : Serves(layer, builder[b].req)
    /\ \A name \in DOMAIN tags : images[tags[name]].name = name
    /\ \A name \in DOMAIN tags : name.level = Service =>
            \A layer \in Below(tags[name]) : Serves(layer, [dep |-> name.dep, app |-> name.app])

\* The comment of delete_images: the references are compared so that no other
\* image is removed after another process moved a name.
OnlyChosenGo == removed.gone \subseteq removed.asked
=============================================================================
