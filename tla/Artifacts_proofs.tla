---------------------------- MODULE Artifacts_proofs ----------------------------
(***************************************************************************)
(* The chain of images (ImageChain), their removal (ImageRemoval), the     *)
(* screen (ScreenTasks), the plan of the inputs (InputPlanning) and the    *)
(* attempts of a coverage run (CoverageState), for any number of processes *)
(* that prepare images, any daemons, any budget of a day at the screen,    *)
(* any requests and tokenizers, any sample of models, and any bounds.      *)
(*                                                                         *)
(* Images: each layer of an image that a run gets, or that a name in the   *)
(* cache offers, was made from the checkout it is named for.  The invariant*)
(* follows the data through the four levels.  A checkout is only compared  *)
(* when an image is built and named, and what a layer was copied from, what*)
(* its name says and what the request recorded were read at different      *)
(* moments; since an edit never restores an older version, a value read in *)
(* between lies between the request and the checkout, and the comparison at*)
(* the end makes all of them equal.                                        *)
(*                                                                         *)
(* Removal: only what the dialog showed as the user ticked it goes, unless *)
(* it changed hands after the last look.                                   *)
(*                                                                         *)
(* Screen: nothing of the interface runs beside a child, and what is shown *)
(* and started is what the user chose.                                     *)
(*                                                                         *)
(* Planning: the bisection ends at the nearest text because more words     *)
(* never have fewer tokens, and the memory scan at the smallest size that  *)
(* works because it goes up and only a lack of memory takes it further.    *)
(*                                                                         *)
(* Coverage: what is known of the models is replayed from the attempts, so *)
(* a replay is followed attempt by attempt and row by row: only a row that *)
(* is recorded changes it, and of one model. There is one debt at a time,  *)
(* and its container belongs to the scope of the attempt where it arose.   *)
(***************************************************************************)
EXTENDS ImageChain, ScreenTasks, ImageRemoval, InputPlanning, CoverageState,
        FiniteSetTheorems, WellFoundedInduction, TLAPS

Checkouts == [dep : Nat, app : Nat]
Names == [level : 1..4, dep : Nat, app : Nat, base : Nat]
ImageRecords == [name : Names, from : SUBSET Nat, base : Nat, pulled : BOOLEAN]
Working == {"look", "miss", "copied", "built", "again", "found"}
BuilderRecords == [pc : {"idle", "begun", "failed", "done"} \cup Working, req : Checkouts,
                   level : 1..4, dep : Nat, name : Names, base : Nat, context : Nat, id : Nat]

\* An image was made from what its name says.
Sound(image) ==
    image.from = {IF image.name.level <= Environment THEN image.name.dep ELSE image.name.app}

IsLayer(im, id, level_) == id \in 1..Len(im) /\ im[id].name.level = level_ /\ Sound(im[id])

\* Of an image: it stands on a sound one of the level below, the names agree on
\* what both are made from, and only a pulled image may not be sound.
ImageFits(im, id) ==
    LET image == im[id]
        name == im[id].name
    IN  /\ name.level > Environment => Sound(image)
        /\ name.level = Platform => image.base = NoImage
        /\ name.level > Platform => IsLayer(im, image.base, name.level - 1)
        /\ name.level \in {Environment, Model} => name.base = image.base
        /\ name.level = Environment => im[image.base].name.dep = name.dep
        /\ name.level = Service => /\ name.base = NoImage /\ im[image.base].name.app = name.app
                                   /\ im[im[image.base].base].name.dep = name.dep

\* Of a process: what it stands on, and that what it has read of the checkout
\* lies between its request and the checkout of now.
OnBase(im, src, s) ==
    /\ s.req.dep <= s.dep /\ s.dep <= src.dep
    /\ s.level = Platform => s.base = NoImage
    /\ s.level > Platform => IsLayer(im, s.base, s.level - 1)
    /\ s.level \in {Environment, Model} => im[s.base].name.dep = s.dep
    /\ s.level = Service => /\ im[im[s.base].base].name.dep = s.dep
                            /\ s.req.app <= im[s.base].name.app /\ im[s.base].name.app <= src.app

IsNamed(src, s) ==
    /\ s.level <= Environment => s.name = NameOf(s.level, s.dep, 0, s.base)
    /\ s.level = Model => /\ s.name = NameOf(Model, 0, s.name.app, s.base)
                          /\ s.req.app <= s.name.app /\ s.name.app <= src.app
    /\ s.level = Service => s.name = RequestName(s.req)

HasCopied(src, s) ==
    /\ s.level <= Environment => s.dep <= s.context /\ s.context <= src.dep
    /\ s.level > Environment => s.req.app <= s.context /\ s.context <= src.app

BuilderFits(im, src, s) ==
    /\ s.req.dep <= src.dep /\ s.req.app <= src.app
    /\ s.pc = "begun" => s.level = Platform /\ s.base = NoImage
    /\ s.pc \in Working => OnBase(im, src, s)
    /\ s.pc \in Working \ {"look"} => IsNamed(src, s)
    /\ s.pc = "copied" => HasCopied(src, s)
    /\ s.pc \in {"built", "found"} => IsLayer(im, s.id, s.level) /\ im[s.id].name = s.name
    /\ s.pc = "again" => s.level <= Environment
    /\ s.pc = "found" => s.level <= Model
    /\ s.pc = "done" => s.id \in 1..Len(im) /\ im[s.id].name = RequestName(s.req)

ChainTypes ==
    /\ source \in Checkouts /\ images \in Seq(ImageRecords)
    /\ builder \in [Builders -> BuilderRecords]
ImagesFit == \A id \in 1..Len(images) : ImageFits(images, id)
TagsFit ==
    \A name \in DOMAIN tags :
        /\ name \in Names /\ tags[name] \in 1..Len(images)
        /\ images[tags[name]].name = name /\ Sound(images[tags[name]])
BuildersFit == \A b \in Builders : BuilderFits(images, source, builder[b])

ChainInv == ChainTypes /\ ImagesFit /\ TagsFit /\ BuildersFit
-----------------------------------------------------------------------------
(* The images only grow, the checkout only goes forward.                   *)

Extends(im, im2) ==
    /\ im \in Seq(ImageRecords) /\ im2 \in Seq(ImageRecords) /\ Len(im) <= Len(im2)
    /\ \A id \in 1..Len(im) : im2[id] = im[id]

Fit(im) == \A id \in 1..Len(im) : ImageFits(im, id)

LEMMA ImageTypes ==
    ASSUME NEW im \in Seq(ImageRecords), NEW id \in 1..Len(im)
    PROVE  /\ im[id] \in ImageRecords /\ im[id].name \in Names /\ im[id].base \in Nat /\ im[id].from \in SUBSET Nat
           /\ im[id].name.level \in 1..4 /\ im[id].name.dep \in Nat /\ im[id].name.app \in Nat
<1>1. im[id] \in ImageRecords
  OBVIOUS
<1> QED
  BY <1>1 DEF ImageRecords, Names

LEMMA LayersStay ==
    ASSUME NEW im, NEW im2, Extends(im, im2), NEW id, NEW level_, IsLayer(im, id, level_)
    PROVE  IsLayer(im2, id, level_) /\ im2[id] = im[id]
<1>1. Len(im) \in Nat /\ Len(im2) \in Nat
  BY DEF Extends
<1> QED
  BY <1>1 DEF Extends, IsLayer

LEMMA LowerLayer ==
    ASSUME NEW im, Fit(im), im \in Seq(ImageRecords), NEW id, NEW level_ \in 2..4, IsLayer(im, id, level_)
    PROVE  IsLayer(im, im[id].base, level_ - 1)
BY ImageTypes DEF Fit, IsLayer, ImageFits, Platform

LEMMA ImagesStay ==
    ASSUME NEW im, NEW im2, Extends(im, im2), Fit(im), NEW id \in 1..Len(im)
    PROVE  ImageFits(im2, id)
<1>1. im2[id] = im[id] /\ ImageFits(im, id) /\ im \in Seq(ImageRecords)
  BY DEF Extends, Fit
<1>2. im[id].name.level \in 1..4
  BY <1>1, ImageTypes
<1>3. im[id].name.level > Platform =>
         IsLayer(im2, im[id].base, im[id].name.level - 1) /\ im2[im[id].base] = im[im[id].base]
  BY <1>1, LayersStay DEF ImageFits
<1>4. CASE im[id].name.level = Service
  <2>1. IsLayer(im, im[id].base, 3)
    BY <1>1, <1>4 DEF ImageFits, Platform, Service
  <2>2. IsLayer(im, im[im[id].base].base, 2)
    BY <1>1, <2>1, LowerLayer
  <2>3. im2[im[im[id].base].base] = im[im[im[id].base].base]
    BY <2>2, LayersStay
  <2> QED
    BY <1>1, <1>2, <1>3, <1>4, <2>3 DEF ImageFits, Platform, Environment, Model, Service
<1>5. CASE im[id].name.level # Service
  BY <1>1, <1>2, <1>3, <1>5 DEF ImageFits, Platform, Environment, Model, Service
<1> QED
  BY <1>4, <1>5

LEMMA BuildersStay ==
    ASSUME NEW im, NEW im2, Extends(im, im2), Fit(im), NEW src \in Checkouts, NEW src2 \in Checkouts,
           src.dep <= src2.dep, src.app <= src2.app, NEW s \in BuilderRecords, BuilderFits(im, src, s)
    PROVE  BuilderFits(im2, src2, s)
<1>1. /\ src.dep \in Nat /\ src2.dep \in Nat /\ src.app \in Nat /\ src2.app \in Nat
      /\ s.req.dep \in Nat /\ s.req.app \in Nat /\ s.level \in 1..4 /\ s.dep \in Nat
      /\ s.name \in Names /\ s.name.app \in Nat /\ s.context \in Nat
  BY DEF Checkouts, BuilderRecords, Names
<1>2. im \in Seq(ImageRecords) /\ Len(im) \in Nat /\ Len(im2) \in Nat /\ Len(im) <= Len(im2)
  BY DEF Extends
<1>3. s.req.dep <= src2.dep /\ s.req.app <= src2.app
  BY <1>1 DEF BuilderFits
<1>4. s.pc \in Working => OnBase(im2, src2, s)
  <2> SUFFICES ASSUME s.pc \in Working, OnBase(im, src, s) PROVE OnBase(im2, src2, s)
    BY DEF BuilderFits
  <2>1. s.level > Platform => IsLayer(im, s.base, s.level - 1)
    BY DEF OnBase
  <2>2. s.level > Platform => IsLayer(im2, s.base, s.level - 1) /\ im2[s.base] = im[s.base]
    BY <2>1, LayersStay
  <2>3. CASE s.level = Service
    <3>1. IsLayer(im, s.base, 3)
      BY <2>1, <2>3 DEF Platform, Service
    <3>2. IsLayer(im, im[s.base].base, 2) /\ im[s.base].name.app \in Nat
      BY <1>2, <3>1, LowerLayer, ImageTypes DEF IsLayer
    <3>3. im2[im[s.base].base] = im[im[s.base].base]
      BY <3>2, LayersStay
    <3> QED
      BY <1>1, <2>2, <2>3, <3>2, <3>3 DEF OnBase, Platform, Environment, Model, Service
  <2>4. CASE s.level # Service
    BY <1>1, <2>2, <2>4 DEF OnBase, Platform, Environment, Model, Service
  <2> QED
    BY <2>3, <2>4
<1>5. s.pc \in Working \ {"look"} => IsNamed(src2, s)
  BY <1>1 DEF BuilderFits, IsNamed
<1>6. s.pc = "copied" => HasCopied(src2, s)
  BY <1>1 DEF BuilderFits, HasCopied
<1>7. s.pc \in {"built", "found"} => IsLayer(im2, s.id, s.level) /\ im2[s.id].name = s.name
  BY LayersStay DEF BuilderFits
<1>8. s.pc = "done" => s.id \in 1..Len(im2) /\ im2[s.id].name = RequestName(s.req)
  BY <1>2 DEF BuilderFits, Extends
<1> QED
  BY <1>3, <1>4, <1>5, <1>6, <1>7, <1>8 DEF BuilderFits
-----------------------------------------------------------------------------
(* One step changes one process, and at most adds an image or a tag.       *)

LEMMA ChainBounds ==
    ASSUME ChainInv, NEW b \in Builders
    PROVE  /\ source \in Checkouts /\ source.dep \in Nat /\ source.app \in Nat
           /\ images \in Seq(ImageRecords) /\ Len(images) \in Nat /\ DOMAIN images = 1..Len(images)
           /\ Fit(images)
           /\ builder[b] \in BuilderRecords /\ BuilderFits(images, source, builder[b])
           /\ builder[b].req \in Checkouts /\ builder[b].req.dep \in Nat /\ builder[b].req.app \in Nat
           /\ builder[b].level \in 1..4 /\ builder[b].dep \in Nat /\ builder[b].name \in Names
           /\ builder[b].base \in Nat /\ builder[b].context \in Nat /\ builder[b].id \in Nat
<1>1. source \in Checkouts /\ images \in Seq(ImageRecords) /\ builder[b] \in BuilderRecords
  BY DEF ChainInv, ChainTypes
<1>2. Fit(images) /\ BuilderFits(images, source, builder[b])
  BY DEF ChainInv, ImagesFit, Fit, BuildersFit
<1>3. Len(images) \in Nat /\ DOMAIN images = 1..Len(images)
  BY <1>1
<1> QED
  BY <1>1, <1>2, <1>3 DEF Checkouts, BuilderRecords

LEMMA SetKeeps ==
    ASSUME ChainInv, NEW b \in Builders, NEW s \in BuilderRecords, Set(b, s), source' = source,
           Extends(images, images'), Fit(images'), TagsFit', BuilderFits(images', source, s)
    PROVE  ChainInv'
<1>1. /\ builder \in [Builders -> BuilderRecords] /\ source \in Checkouts
      /\ source.dep \in Nat /\ source.app \in Nat
  BY ChainBounds DEF ChainInv, ChainTypes
<1>2. builder' \in [Builders -> BuilderRecords] /\ builder'[b] = s
      /\ \A c \in Builders \ {b} : builder'[c] = builder[c]
  BY <1>1 DEF Set
<1>3. ChainTypes'
  BY <1>1, <1>2 DEF ChainTypes, Extends
<1>4. \A c \in Builders \ {b} : BuilderFits(images', source', builder'[c])
  <2> SUFFICES ASSUME NEW c \in Builders \ {b} PROVE BuilderFits(images', source, builder[c])
    BY <1>2
  <2>1. Fit(images) /\ builder[c] \in BuilderRecords /\ BuilderFits(images, source, builder[c])
    BY ChainBounds
  <2>2. source.dep <= source.dep /\ source.app <= source.app
    BY <1>1
  <2> QED
    BY <1>1, <2>1, <2>2, BuildersStay
<1>5. BuildersFit'
  BY <1>2, <1>4 DEF BuildersFit
<1> QED
  BY <1>3, <1>5 DEF ChainInv, ImagesFit, Fit

LEMMA NothingBuilt ==
    ASSUME ChainInv, images' = images
    PROVE  Extends(images, images') /\ Fit(images') /\ (tags' = tags => TagsFit')
<1>1. images \in Seq(ImageRecords) /\ Len(images) \in Nat
  BY DEF ChainInv, ChainTypes
<1> QED
  BY <1>1 DEF ChainInv, ImagesFit, Fit, Extends, TagsFit

LEMMA ImageAdded ==
    ASSUME ChainInv, NEW image \in ImageRecords, images' = Append(images, image), ImageFits(images', Len(images) + 1)
    PROVE  /\ Extends(images, images') /\ Fit(images') /\ (tags' = tags => TagsFit')
           /\ Len(images') = Len(images) + 1 /\ Len(images) + 1 \in 1..Len(images')
           /\ images'[Len(images) + 1] = image
<1>1. images \in Seq(ImageRecords) /\ Len(images) \in Nat /\ Fit(images)
  BY DEF ChainInv, ChainTypes, ImagesFit, Fit
<1>2. /\ images' \in Seq(ImageRecords) /\ Len(images') = Len(images) + 1
      /\ images'[Len(images) + 1] = image /\ \A id \in 1..Len(images) : images'[id] = images[id]
  BY <1>1
<1>3. Extends(images, images')
  BY <1>1, <1>2 DEF Extends
<1>4. \A id \in 1..Len(images) : ImageFits(images', id)
  BY <1>1, <1>3, ImagesStay
<1>5. Fit(images')
  BY <1>1, <1>2, <1>4 DEF Fit
<1>6. tags' = tags => TagsFit'
  BY <1>1, <1>2 DEF ChainInv, TagsFit
<1> QED
  BY <1>1, <1>2, <1>3, <1>5, <1>6

\* A name is given to an image that was made from what the name says.
LEMMA NameGiven ==
    ASSUME TagsFit, NEW name \in Names, NEW id \in 1..Len(images'), images'[id].name = name,
           Sound(images'[id]), GiveName(name, id), Extends(images, images')
    PROVE  TagsFit'
<1>1. /\ DOMAIN tags' = {name} \cup DOMAIN tags /\ tags'[name] = id
      /\ \A n \in DOMAIN tags \ {name} : tags'[n] = tags[n]
  BY DEF GiveName
<1>2. Len(images) \in Nat /\ Len(images') \in Nat
  BY DEF Extends
<1> SUFFICES ASSUME NEW n \in DOMAIN tags'
             PROVE  /\ n \in Names /\ tags'[n] \in 1..Len(images')
                    /\ images'[tags'[n]].name = n /\ Sound(images'[tags'[n]])
  BY DEF TagsFit
<1>3. CASE n = name
  BY <1>1, <1>3
<1>4. CASE n # name
  BY <1>1, <1>2, <1>4 DEF TagsFit, Extends
<1> QED
  BY <1>3, <1>4

LEMMA RaiseKeeps ==
    ASSUME ChainInv, NEW b \in Builders, Raise(b), source' = source,
           Extends(images, images'), Fit(images'), TagsFit'
    PROVE  ChainInv'
<1> DEFINE s == [Idle EXCEPT !.pc = "failed"]
<1>1. s \in BuilderRecords /\ s.pc = "failed" /\ s.req.dep = 0 /\ s.req.app = 0
  BY DEF Idle, BuilderRecords, Checkouts, Names, NameOf, Platform, NoImage
<1>2. BuilderFits(images', source, s)
  <2> HIDE DEF s
  <2>1. source.dep \in Nat /\ source.app \in Nat
    BY ChainBounds
  <2> QED
    BY <1>1, <2>1 DEF BuilderFits, Working
<1>3. Set(b, s)
  BY DEF Raise
<1> HIDE DEF s
<1> QED
  BY <1>1, <1>2, <1>3, SetKeeps

LEMMA DoneKeeps ==
    ASSUME ChainInv, NEW b \in Builders, NEW id_ \in 1..Len(images), Done(b, id_),
           images[id_].name = RequestName(builder[b].req),
           source' = source, images' = images, TagsFit'
    PROVE  ChainInv'
<1> DEFINE s == [Idle EXCEPT !.pc = "done", !.req = builder[b].req, !.id = id_]
<1>1. builder[b].req \in Checkouts /\ id_ \in Nat /\ BuilderFits(images, source, builder[b])
  BY ChainBounds
<1>2. s \in BuilderRecords /\ s.pc = "done" /\ s.req = builder[b].req /\ s.id = id_
  <2>1. /\ Idle \in BuilderRecords
        /\ DOMAIN Idle = {"pc", "req", "level", "dep", "name", "base", "context", "id"}
    BY DEF Idle, BuilderRecords, Checkouts, Names, NameOf, Platform, NoImage
  <2> QED
    BY <1>1, <2>1 DEF BuilderRecords
<1>3. Set(b, s)
  BY DEF Done
<1> HIDE DEF s
<1>4. BuilderFits(images', source, s)
  BY <1>1, <1>2 DEF BuilderFits, Working
<1>5. Extends(images, images') /\ Fit(images')
  BY NothingBuilt
<1> QED
  BY <1>2, <1>3, <1>4, <1>5, SetKeeps
-----------------------------------------------------------------------------
(* The actions                                                             *)

LEMMA EditSourceKeeps ==
    ASSUME ChainInv, EditSource PROVE ChainInv'
<1>1. UNCHANGED <<images, tags, builder, removal, removed>>
  BY DEF EditSource
<1>2. source \in Checkouts /\ source.dep \in Nat /\ source.app \in Nat
  BY DEF ChainInv, ChainTypes, Checkouts
<1>3. source' \in Checkouts /\ source.dep <= source'.dep /\ source.app <= source'.app
  BY <1>2 DEF EditSource, Checkouts
<1>4. /\ images \in Seq(ImageRecords) /\ Fit(images) /\ Len(images) \in Nat
      /\ builder \in [Builders -> BuilderRecords]
  BY DEF ChainInv, ChainTypes, ImagesFit, Fit
<1>5. Extends(images, images)
  BY <1>4 DEF Extends
<1>6. \A b \in Builders : BuilderFits(images, source', builder[b])
  <2> SUFFICES ASSUME NEW b \in Builders PROVE BuilderFits(images, source', builder[b])
    OBVIOUS
  <2>1. builder[b] \in BuilderRecords /\ BuilderFits(images, source, builder[b])
    BY ChainBounds
  <2> QED
    BY <1>2, <1>3, <1>4, <1>5, <2>1, BuildersStay
<1> QED
  BY <1>1, <1>3, <1>4, <1>6 DEF ChainInv, ChainTypes, ImagesFit, TagsFit, BuildersFit

LEMMA BeginBuildKeeps ==
    ASSUME ChainInv, NEW b \in Builders, BeginBuild(b) PROVE ChainInv'
<1> DEFINE s == [Idle EXCEPT !.pc = "begun", !.req = source]
<1>1. UNCHANGED world /\ Set(b, s)
  BY DEF BeginBuild
<1>2. source' = source /\ images' = images /\ tags' = tags
  BY <1>1 DEF world
<1>3. /\ s \in BuilderRecords /\ s.pc = "begun" /\ s.req = source
      /\ s.level = Platform /\ s.base = NoImage
  <2>1. /\ Idle \in BuilderRecords
        /\ DOMAIN Idle = {"pc", "req", "level", "dep", "name", "base", "context", "id"}
        /\ Idle.level = Platform /\ Idle.base = NoImage
    BY DEF Idle, BuilderRecords, Checkouts, Names, NameOf, Platform, NoImage
  <2> QED
    BY <2>1, ChainBounds DEF BuilderRecords
<1> HIDE DEF s
<1>4. BuilderFits(images', source, s)
  BY <1>3, ChainBounds DEF BuilderFits, Working
<1> QED
  BY <1>1, <1>2, <1>3, <1>4, NothingBuilt, SetKeeps

LEMMA ReuseKeeps ==
    ASSUME ChainInv, NEW b \in Builders, Reuse(b) PROVE ChainInv'
<1> DEFINE id == tags[RequestName(builder[b].req)]
<1>1. source' = source /\ images' = images /\ tags' = tags
  BY DEF Reuse, world
<1>2. RequestName(builder[b].req) \in DOMAIN tags
  BY DEF Reuse, Tagged
<1>3. id \in 1..Len(images) /\ images[id].name = RequestName(builder[b].req)
  BY <1>2 DEF ChainInv, TagsFit
<1>4. Done(b, id) \/ Raise(b)
  BY DEF Reuse
<1>5. Extends(images, images') /\ Fit(images') /\ TagsFit'
  BY <1>1, NothingBuilt
<1> HIDE DEF id
<1> QED
  BY <1>1, <1>3, <1>4, <1>5, DoneKeeps, RaiseKeeps

LEMMA RebuildKeeps ==
    ASSUME ChainInv, NEW b \in Builders, Rebuild(b) PROVE ChainInv'
<1> DEFINE s == [builder[b] EXCEPT !.pc = "look", !.dep = source.dep]
<1>1. builder[b].pc = "begun" /\ UNCHANGED world /\ Set(b, s)
  BY DEF Rebuild
<1>2. source' = source /\ images' = images /\ tags' = tags
  BY <1>1 DEF world
<1>3. s \in BuilderRecords /\ s.pc = "look" /\ s.dep = source.dep /\ s.req = builder[b].req
      /\ s.level = builder[b].level /\ s.base = builder[b].base
  BY ChainBounds DEF BuilderRecords, Working
<1>4. s.level = Platform /\ s.base = NoImage
  BY <1>1, <1>3, ChainBounds DEF BuilderFits
<1> HIDE DEF s
<1>5. OnBase(images, source, s)
  BY <1>3, <1>4, ChainBounds DEF OnBase, BuilderFits, Platform, Environment, Model, Service
<1>6. BuilderFits(images', source, s)
  BY <1>2, <1>3, <1>5, ChainBounds DEF BuilderFits
<1> QED
  BY <1>1, <1>2, <1>3, <1>6, NothingBuilt, SetKeeps

LEMMA NameFits ==
    ASSUME ChainInv, NEW b \in Builders, OnBase(images, source, builder[b]),
           NEW name, name = CacheName(builder[b])
    PROVE  /\ name \in Names /\ name.level = builder[b].level
           /\ builder[b].level <= Environment => name = NameOf(builder[b].level, builder[b].dep, 0, builder[b].base)
           /\ builder[b].level = Model => name = NameOf(Model, 0, source.app, builder[b].base) /\ name.app = source.app
           /\ builder[b].level = Service => name = RequestName(builder[b].req)
<1>1. CASE builder[b].level = Platform
  <2>1. name = NameOf(Platform, builder[b].dep, 0, NoImage) /\ builder[b].base = NoImage
    BY <1>1 DEF CacheName, OnBase, Platform, Environment, Model, Service
  <2> QED
    BY <1>1, <2>1, ChainBounds DEF NameOf, Names, Platform, Environment, Model, Service, NoImage
<1>2. CASE builder[b].level = Environment
  <2>1. name = NameOf(Environment, builder[b].dep, 0, builder[b].base)
    BY <1>2 DEF CacheName, Platform, Environment, Model, Service
  <2> QED
    BY <1>2, <2>1, ChainBounds DEF NameOf, Names, Platform, Environment, Model, Service
<1>3. CASE builder[b].level = Model
  <2>1. name = NameOf(Model, 0, source.app, builder[b].base)
    BY <1>3 DEF CacheName, Platform, Environment, Model, Service
  <2> QED
    BY <1>3, <2>1, ChainBounds DEF NameOf, Names, Platform, Environment, Model, Service
<1>4. CASE builder[b].level = Service
  <2>1. name = RequestName(builder[b].req)
    BY <1>4 DEF CacheName, Platform, Environment, Model, Service
  <2> QED
    BY <1>4, <2>1, ChainBounds DEF RequestName, NameOf, Names, Platform, Environment, Model, Service, NoImage
<1> QED
  BY <1>1, <1>2, <1>3, <1>4, ChainBounds DEF Platform, Environment, Model, Service

LEMMA LookKeeps ==
    ASSUME ChainInv, NEW b \in Builders, Look(b) PROVE ChainInv'
<1> DEFINE s == [builder[b] EXCEPT !.name = CacheName(builder[b])]
           name == CacheName(builder[b])
<1>1. builder[b].pc = "look" /\ UNCHANGED world
  BY DEF Look
<1>2. source' = source /\ images' = images /\ tags' = tags
  BY <1>1 DEF world
<1>3. Extends(images, images') /\ Fit(images') /\ TagsFit'
  BY <1>2, NothingBuilt
<1>4. OnBase(images, source, builder[b])
  BY <1>1, ChainBounds DEF BuilderFits, Working
<1>5. /\ name \in Names /\ name.level = builder[b].level
      /\ builder[b].level <= Environment => name = NameOf(builder[b].level, builder[b].dep, 0, builder[b].base)
      /\ builder[b].level = Model => name = NameOf(Model, 0, source.app, builder[b].base) /\ name.app = source.app
      /\ builder[b].level = Service => name = RequestName(builder[b].req)
  BY <1>4, NameFits
<1>6. \/ Raise(b)
      \/ Set(b, [s EXCEPT !.pc = "miss"])
      \/ /\ Tagged(s.name) /\ s.level # Service
         /\ Set(b, [s EXCEPT !.pc = "found", !.id = tags[s.name]])
  BY Zenon DEF Look
<1>7. /\ s \in BuilderRecords /\ s.name = name /\ s.level = builder[b].level /\ s.req = builder[b].req
      /\ s.dep = builder[b].dep /\ s.base = builder[b].base
  <2> HIDE DEF name
  <2> QED
    BY <1>5, ChainBounds DEF BuilderRecords, name
<1> HIDE DEF s, name
<1>8. \A r \in BuilderRecords :
         /\ r.name = name /\ r.level = builder[b].level /\ r.req = builder[b].req
         /\ r.dep = builder[b].dep /\ r.base = builder[b].base
         => IsNamed(source, r) /\ OnBase(images, source, r)
  <2> TAKE r \in BuilderRecords
  <2> HAVE /\ r.name = name /\ r.level = builder[b].level /\ r.req = builder[b].req
           /\ r.dep = builder[b].dep /\ r.base = builder[b].base
  <2>1. OnBase(images, source, r)
    BY <1>4 DEF OnBase
  <2>2. source.app <= source.app /\ builder[b].req.app <= source.app
    BY ChainBounds DEF BuilderFits
  <2>3. IsNamed(source, r)
    BY <1>5, <2>2, ChainBounds DEF IsNamed
  <2> QED
    BY <2>1, <2>3
<1>9. CASE Set(b, [s EXCEPT !.pc = "miss"])
  <2> DEFINE r == [s EXCEPT !.pc = "miss"]
  <2>1. r \in BuilderRecords /\ r.pc = "miss" /\ r.name = name /\ r.level = builder[b].level
        /\ r.req = builder[b].req /\ r.dep = builder[b].dep /\ r.base = builder[b].base
    BY <1>7 DEF BuilderRecords, Working
  <2>2. Set(b, r)
    BY <1>9
  <2> HIDE DEF r
  <2>3. BuilderFits(images', source, r)
    BY <1>2, <1>8, <2>1, ChainBounds DEF BuilderFits
  <2> QED
    BY <1>2, <1>3, <2>1, <2>2, <2>3, SetKeeps
<1>10. CASE /\ Tagged(s.name) /\ s.level # Service
            /\ Set(b, [s EXCEPT !.pc = "found", !.id = tags[s.name]])
  <2> DEFINE r == [s EXCEPT !.pc = "found", !.id = tags[s.name]]
  <2>1. /\ tags[name] \in 1..Len(images) /\ tags[name] \in Nat
        /\ images[tags[name]].name = name /\ Sound(images[tags[name]])
    BY <1>7, <1>10 DEF ChainInv, TagsFit, Tagged
  <2>2. r \in BuilderRecords /\ r.pc = "found" /\ r.name = name /\ r.level = builder[b].level
        /\ r.req = builder[b].req /\ r.dep = builder[b].dep /\ r.base = builder[b].base /\ r.id = tags[name]
    BY <1>7, <2>1 DEF BuilderRecords, Working
  <2>3. Set(b, r)
    BY <1>10
  <2> HIDE DEF r
  <2>4. IsLayer(images, r.id, r.level) /\ r.level <= Model
    BY <1>5, <1>7, <1>10, <2>1, <2>2, ChainBounds DEF IsLayer, Model, Service
  <2>5. BuilderFits(images', source, r)
    BY <1>2, <1>8, <2>1, <2>2, <2>4, ChainBounds DEF BuilderFits
  <2> QED
    BY <1>2, <1>3, <2>2, <2>3, <2>5, SetKeeps
<1> QED
  BY <1>2, <1>3, <1>6, <1>9, <1>10, RaiseKeeps

LEMMA CopyKeeps ==
    ASSUME ChainInv, NEW b \in Builders, Copy(b) PROVE ChainInv'
<1> DEFINE context == IF builder[b].level <= Environment THEN source.dep ELSE source.app
           s == [builder[b] EXCEPT !.pc = "copied", !.context = context]
<1>1. builder[b].pc = "miss" /\ UNCHANGED world /\ (Raise(b) \/ Set(b, s))
  BY DEF Copy
<1>2. source' = source /\ images' = images /\ tags' = tags
  BY <1>1 DEF world
<1>3. Extends(images, images') /\ Fit(images') /\ TagsFit'
  BY <1>2, NothingBuilt
<1>4. context \in Nat
  BY ChainBounds
<1>5. s \in BuilderRecords /\ s.pc = "copied" /\ s.context = context /\ s.name = builder[b].name
      /\ s.level = builder[b].level /\ s.req = builder[b].req /\ s.dep = builder[b].dep /\ s.base = builder[b].base
  <2> HIDE DEF context
  <2> QED
    BY <1>4, ChainBounds DEF BuilderRecords, Working
<1> HIDE DEF s
<1>6. OnBase(images, source, builder[b]) /\ IsNamed(source, builder[b]) /\ builder[b].dep <= source.dep
  BY <1>1, ChainBounds DEF BuilderFits, Working, OnBase
<1>7. OnBase(images, source, s) /\ IsNamed(source, s)
  BY <1>5, <1>6 DEF OnBase, IsNamed
<1>8. HasCopied(source, s)
  BY <1>5, <1>6, ChainBounds DEF HasCopied, BuilderFits, Environment
<1>9. BuilderFits(images', source, s)
  BY <1>2, <1>5, <1>7, <1>8, ChainBounds DEF BuilderFits
<1> QED
  BY <1>1, <1>2, <1>3, <1>5, <1>9, SetKeeps, RaiseKeeps

\* What a process has to know of the image it has: it is the one its name says.
LEMMA FoundFits ==
    ASSUME NEW im, NEW src, NEW s \in BuilderRecords, NEW r \in BuilderRecords,
           BuilderFits(im, src, s), s.pc \in Working \ {"look"}, s.level <= Model,
           r.pc = "found", r.name = s.name, r.level = s.level, r.req = s.req, r.dep = s.dep, r.base = s.base,
           IsLayer(im, r.id, s.level), im[r.id].name = s.name
    PROVE  BuilderFits(im, src, r)
BY DEF BuilderFits, Working, OnBase, IsNamed

LEMMA CheckedIsSound ==
    ASSUME ChainInv, NEW b \in Builders, builder[b].pc \in Working \ {"look"}, builder[b].level <= Environment,
           NEW image, Checked(image, builder[b].name)
    PROVE  Sound(image) /\ image.name = builder[b].name /\ image.name.level = builder[b].level
<1>1. builder[b].name = NameOf(builder[b].level, builder[b].dep, 0, builder[b].base)
  BY ChainBounds DEF BuilderFits, Working, IsNamed
<1> QED
  BY <1>1 DEF Checked, Sound, NameOf

\* A name is given to a sound image that a process goes on with.
LEMMA TakeKeeps ==
    ASSUME ChainInv, NEW b \in Builders, builder[b].pc \in Working \ {"look"}, builder[b].level <= Model,
           NEW id \in 1..Len(images'), IsLayer(images', id, builder[b].level), images'[id].name = builder[b].name,
           Set(b, [builder[b] EXCEPT !.pc = "found", !.id = id]), source' = source,
           Extends(images, images'), Fit(images'), TagsFit'
    PROVE  ChainInv'
<1> DEFINE s == [builder[b] EXCEPT !.pc = "found", !.id = id]
<1>1. id \in Nat
  BY DEF Extends
<1>2. s \in BuilderRecords /\ s.pc = "found" /\ s.id = id /\ s.name = builder[b].name
      /\ s.level = builder[b].level /\ s.req = builder[b].req /\ s.dep = builder[b].dep /\ s.base = builder[b].base
  BY <1>1, ChainBounds DEF BuilderRecords, Working
<1>3. Set(b, s)
  OBVIOUS
<1> HIDE DEF s
<1>4. BuilderFits(images', source, builder[b])
  <2>1. source \in Checkouts /\ source.dep <= source.dep /\ source.app <= source.app
    BY ChainBounds
  <2> QED
    BY <2>1, ChainBounds, BuildersStay
<1>5. BuilderFits(images', source, s)
  BY <1>2, <1>4, FoundFits, ChainBounds
<1> QED
  BY <1>2, <1>3, <1>5, SetKeeps

LEMMA PullKeeps ==
    ASSUME ChainInv, NEW b \in Builders, Pull(b) PROVE ChainInv'
<1> DEFINE s == builder[b]
           Take(id, image) == IF Checked(image, s.name)
                              THEN GiveName(s.name, id) /\ Set(b, [s EXCEPT !.pc = "found", !.id = id])
                              ELSE Raise(b) /\ UNCHANGED tags
           New(dep_) == [name |-> s.name, from |-> {dep_}, base |-> s.base, pulled |-> TRUE]
<1>1. s.pc = "miss" /\ s.level <= Environment /\ source' = source
  BY DEF Pull
<1>2. \/ \E id \in Pulled(s.name) : Take(id, images[id]) /\ images' = images
      \/ \E dep_ \in {s.name.dep, s.name.dep + 1} :
            images' = Append(images, New(dep_)) /\ Take(Len(images) + 1, New(dep_))
  BY DEF Pull
<1>3. /\ s.pc \in Working \ {"look"} /\ s.level <= Model /\ s.name \in Names
      /\ IsNamed(source, s) /\ OnBase(images, source, s)
  BY <1>1, ChainBounds DEF BuilderFits, Working, Environment, Model
<1>4. ASSUME NEW id \in Pulled(s.name), Take(id, images[id]), images' = images
      PROVE  ChainInv'
  <2>1. id \in 1..Len(images)
    BY <1>4, ChainBounds DEF Pulled
  <2>2. Extends(images, images') /\ Fit(images')
    BY <1>4, NothingBuilt
  <2>3. CASE Checked(images[id], s.name)
    <3>1. /\ IsLayer(images', id, s.level) /\ images'[id].name = s.name /\ Sound(images'[id])
          /\ id \in 1..Len(images')
      BY <1>1, <1>3, <1>4, <2>1, <2>3, CheckedIsSound DEF IsLayer
    <3>2. TagsFit'
      BY <1>3, <1>4, <2>2, <2>3, <3>1, NameGiven DEF ChainInv
    <3> QED
      BY <1>1, <1>3, <1>4, <2>2, <2>3, <3>1, <3>2, TakeKeeps
  <2>4. CASE ~Checked(images[id], s.name)
    <3>1. Raise(b) /\ TagsFit'
      BY <1>4, <2>4, NothingBuilt
    <3> QED
      BY <1>1, <2>2, <3>1, RaiseKeeps
  <2> QED
    BY <2>3, <2>4
<1>5. ASSUME NEW dep_ \in {s.name.dep, s.name.dep + 1},
             images' = Append(images, New(dep_)), Take(Len(images) + 1, New(dep_))
      PROVE  ChainInv'
  <2> DEFINE image == New(dep_)
             id == Len(images) + 1
  <2>1. /\ image \in ImageRecords /\ image.name = s.name /\ image.base = s.base
        /\ image.from = {dep_}
    BY <1>3, ChainBounds DEF ImageRecords, Names
  <2>2. s.name.level = s.level /\ s.name.dep = s.dep /\ s.name.base = s.base /\ s.level \in {Platform, Environment}
    BY <1>1, <1>3, ChainBounds DEF IsNamed, NameOf, Platform, Environment
  <2> HIDE DEF image
  <2>3. images' \in Seq(ImageRecords) /\ Len(images') = Len(images) + 1 /\ images'[id] = image
        /\ Extends(images, images')
    BY <1>5, <2>1, ChainBounds DEF Extends, image
  <2>4. s.level > Platform => IsLayer(images', s.base, s.level - 1) /\ images'[s.base] = images[s.base]
    BY <1>3, <2>3, LayersStay DEF OnBase
  <2>5. ImageFits(images', id)
    BY <1>3, <2>1, <2>2, <2>3, <2>4 DEF ImageFits, OnBase, Platform, Environment, Model, Service
  <2>6. /\ Fit(images') /\ (tags' = tags => TagsFit') /\ id \in 1..Len(images')
    BY <1>5, <2>1, <2>5, ImageAdded DEF image
  <2>7. CASE Checked(image, s.name)
    <3>1. GiveName(s.name, id) /\ Set(b, [s EXCEPT !.pc = "found", !.id = id])
      BY <1>5, <2>7 DEF image
    <3>2. Sound(image) /\ IsLayer(images', id, s.level) /\ images'[id].name = s.name
      BY <1>1, <1>3, <2>3, <2>6, <2>7, CheckedIsSound DEF IsLayer
    <3>3. TagsFit'
      BY <1>3, <2>3, <2>6, <3>1, <3>2, NameGiven DEF ChainInv
    <3> QED
      BY <1>1, <1>3, <2>3, <2>6, <3>1, <3>2, <3>3, TakeKeeps
  <2>8. CASE ~Checked(image, s.name)
    <3>1. Raise(b) /\ tags' = tags
      BY <1>5, <2>8 DEF image
    <3> QED
      BY <1>1, <2>3, <2>6, <3>1, RaiseKeeps
  <2> QED
    BY <2>7, <2>8
<1> QED
  BY <1>2, <1>4, <1>5

LEMMA BuildKeeps ==
    ASSUME ChainInv, NEW b \in Builders, Build(b) PROVE ChainInv'
<1> DEFINE s == builder[b]
           image == [name |-> s.name, base |-> s.base, pulled |-> FALSE,
                     from |-> {s.context} \cup (IF s.level <= Environment THEN {s.dep} ELSE {})]
           id == Len(images) + 1
           r == [s EXCEPT !.pc = "built", !.id = Len(images')]
<1>1. s.pc = "copied" /\ source' = source /\ tags' = tags
  BY DEF Build
<1>2. \/ Raise(b) /\ images' = images
      \/ Unchanged(s) /\ images' = Append(images, image) /\ Set(b, r)
  BY DEF Build
<1>3. OnBase(images, source, s) /\ IsNamed(source, s) /\ HasCopied(source, s)
  BY <1>1, ChainBounds DEF BuilderFits, Working
<1>4. CASE Raise(b) /\ images' = images
  BY <1>1, <1>4, NothingBuilt, RaiseKeeps
<1>5. CASE Unchanged(s) /\ images' = Append(images, image) /\ Set(b, r)
  <2>1. /\ image \in ImageRecords /\ image.name = s.name /\ image.base = s.base
        /\ image.from = {s.context} \cup (IF s.level <= Environment THEN {s.dep} ELSE {})
    BY ChainBounds DEF ImageRecords
  <2> HIDE DEF image
  <2>2. images' \in Seq(ImageRecords) /\ Len(images') = id /\ images'[id] = image
        /\ Extends(images, images') /\ id \in 1..Len(images')
    BY <1>5, <2>1, ChainBounds DEF Extends
  <2>3. s.level > Platform => IsLayer(images', s.base, s.level - 1) /\ images'[s.base] = images[s.base]
    BY <1>3, <2>2, LayersStay DEF OnBase
  <2>4. /\ s.req.dep <= s.dep /\ s.dep <= source.dep
        /\ s.req.dep \in Nat /\ s.req.app \in Nat /\ s.dep \in Nat /\ s.context \in Nat
        /\ source.dep \in Nat /\ source.app \in Nat /\ s.level \in 1..4
    BY <1>3, ChainBounds DEF OnBase
  <2>5. ASSUME s.level <= Environment PROVE ImageFits(images', id) /\ Sound(image) /\ s.name.level = s.level
    <3>1. source.dep = s.dep /\ s.context = s.dep
      BY <1>3, <1>5, <2>4, <2>5 DEF Unchanged, HasCopied
    <3>2. s.name.level = s.level /\ s.name.dep = s.dep /\ s.name.base = s.base
      BY <1>3, <2>5 DEF IsNamed, NameOf
    <3>3. Sound(image)
      BY <2>1, <2>5, <3>1, <3>2 DEF Sound
    <3>4. ImageFits(images', id)
      BY <1>3, <2>1, <2>2, <2>3, <2>4, <2>5, <3>2, <3>3
         DEF ImageFits, OnBase, Platform, Environment, Model, Service
    <3> QED
      BY <3>2, <3>3, <3>4
  <2>6. ASSUME s.level = Model PROVE ImageFits(images', id) /\ Sound(image) /\ s.name.level = s.level
    <3>1. /\ s.name = NameOf(Model, 0, s.name.app, s.base) /\ s.req.app <= s.name.app /\ s.name.app <= source.app
          /\ s.name.app \in Nat
      BY <1>3, <2>6, ChainBounds DEF IsNamed, Names, Environment, Model
    <3>2. source.app = s.req.app
      BY <1>5, <2>6 DEF Unchanged, Environment, Model
    <3>3. s.context = s.name.app
      BY <1>3, <2>4, <2>6, <3>1, <3>2 DEF HasCopied, Environment, Model
    <3>4. s.name.level = s.level /\ s.name.base = s.base
      BY <2>6, <3>1 DEF NameOf
    <3>5. Sound(image)
      BY <2>1, <2>6, <3>3, <3>4 DEF Sound, Environment, Model
    <3>6. ImageFits(images', id)
      BY <1>3, <2>1, <2>2, <2>3, <2>4, <2>6, <3>4, <3>5
         DEF ImageFits, OnBase, Platform, Environment, Model, Service
    <3> QED
      BY <3>4, <3>5, <3>6
  <2>7. ASSUME s.level = Service PROVE ImageFits(images', id) /\ Sound(image) /\ s.name.level = s.level
    <3>1. s.name = RequestName(s.req) /\ source = s.req
      BY <1>3, <1>5, <2>7 DEF IsNamed, Unchanged, Environment, Service
    <3>2. /\ s.name.level = Service /\ s.name.app = s.req.app /\ s.name.dep = s.req.dep
          /\ s.name.base = NoImage
      BY <3>1 DEF RequestName, NameOf
    <3>3. s.context = s.req.app /\ s.dep = s.req.dep
      BY <1>3, <2>4, <2>7, <3>1 DEF HasCopied, Environment, Service
    <3>4. Sound(image)
      BY <2>1, <2>7, <3>2, <3>3 DEF Sound, Environment, Service
    <3>5. /\ images[s.base].name.app = s.name.app
          /\ images[images[s.base].base].name.dep = s.name.dep
      <4>1. IsLayer(images, s.base, 3)
        BY <1>3, <2>7 DEF OnBase, Platform, Service
      <4>2. images[s.base].name.app \in Nat
        BY <4>1, ChainBounds, ImageTypes DEF IsLayer
      <4> QED
        BY <1>3, <2>4, <2>7, <3>1, <3>2, <3>3, <4>2 DEF OnBase, Service
    <3>6. images'[images[s.base].base] = images[images[s.base].base]
      <4>1. IsLayer(images, s.base, 3)
        BY <1>3, <2>7 DEF OnBase, Platform, Service
      <4>2. IsLayer(images, images[s.base].base, 2)
        BY <4>1, LowerLayer, ChainBounds
      <4> QED
        BY <2>2, <4>2, LayersStay
    <3>7. IsLayer(images', s.base, 3) /\ images'[s.base] = images[s.base]
      BY <2>3, <2>7 DEF Platform, Service
    <3>8. /\ image.base = s.base /\ image.name = s.name /\ images'[id] = image
          /\ images'[image.base].name.app = s.name.app
          /\ images'[images'[image.base].base].name.dep = s.name.dep
      BY <2>1, <2>2, <3>5, <3>6, <3>7
    <3>9. ImageFits(images', id)
      BY <3>2, <3>4, <3>7, <3>8 DEF ImageFits, Platform, Environment, Model, Service
    <3> QED
      BY <2>7, <3>2, <3>4, <3>9
  <2>8. ImageFits(images', id) /\ Sound(image) /\ s.name.level = s.level
    BY <2>4, <2>5, <2>6, <2>7 DEF Environment, Model, Service
  <2>9. Fit(images') /\ TagsFit'
    BY <1>1, <1>5, <2>1, <2>8, ImageAdded DEF image
  <2>10. r \in BuilderRecords /\ r.pc = "built" /\ r.id = id /\ r.name = s.name
         /\ r.level = s.level /\ r.req = s.req /\ r.dep = s.dep /\ r.base = s.base
    <3>1. Len(images') = id /\ id \in Nat
      BY <2>2, ChainBounds
    <3>2. r = [s EXCEPT !.pc = "built", !.id = id]
      BY <3>1
    <3> HIDE DEF id, r
    <3> QED
      BY <3>1, <3>2, ChainBounds DEF BuilderRecords, Working
  <2>11. BuilderFits(images', source, s)
    <3>1. source \in Checkouts /\ source.dep <= source.dep /\ source.app <= source.app
      BY ChainBounds
    <3> QED
      BY <2>2, <3>1, ChainBounds, BuildersStay
  <2> HIDE DEF r, s
  <2>12. IsLayer(images', r.id, r.level) /\ images'[r.id].name = r.name
    BY <2>1, <2>2, <2>8, <2>10 DEF IsLayer
  <2>13. BuilderFits(images', source, r)
    BY <1>1, <2>10, <2>11, <2>12 DEF BuilderFits, Working, OnBase, IsNamed
  <2> QED
    BY <1>1, <1>5, <2>2, <2>9, <2>10, <2>13, SetKeeps
<1> QED
  BY <1>2, <1>4, <1>5

LEMMA PublishKeeps ==
    ASSUME ChainInv, NEW b \in Builders, Publish(b) PROVE ChainInv'
<1> DEFINE s == builder[b]
<1>1. s.pc = "built" /\ source' = source /\ images' = images
  BY DEF Publish
<1>2. \/ Raise(b) /\ tags' = tags
      \/ /\ GiveName(s.name, s.id)
         /\ CASE s.level <= Environment -> Proceed(b, "again")
              [] s.level = Model -> Proceed(b, "found")
              [] s.level = Service -> Done(b, s.id)
  BY DEF Publish
<1>3. /\ IsLayer(images, s.id, s.level) /\ images[s.id].name = s.name /\ IsNamed(source, s)
      /\ OnBase(images, source, s)
  BY <1>1, ChainBounds DEF BuilderFits, Working
<1>4. Extends(images, images') /\ Fit(images')
  BY <1>1, NothingBuilt
<1>5. CASE Raise(b) /\ tags' = tags
  BY <1>1, <1>4, <1>5, NothingBuilt, RaiseKeeps
<1>6. CASE GiveName(s.name, s.id)
  <2>1. TagsFit'
    BY <1>1, <1>3, <1>4, <1>6, NameGiven, ChainBounds DEF ChainInv, IsLayer
  <2>2. ASSUME s.level <= Environment, Proceed(b, "again") PROVE ChainInv'
    <3> DEFINE r == [s EXCEPT !.pc = "again"]
    <3>1. r \in BuilderRecords /\ r.pc = "again" /\ r.name = s.name
          /\ r.level = s.level /\ r.req = s.req /\ r.dep = s.dep /\ r.base = s.base
      BY ChainBounds DEF BuilderRecords, Working
    <3>2. Set(b, r)
      BY <2>2 DEF Proceed
    <3> HIDE DEF r
    <3>3. BuilderFits(images', source, r)
      BY <1>1, <1>3, <2>2, <3>1, ChainBounds DEF BuilderFits, OnBase, IsNamed
    <3> QED
      BY <1>1, <1>4, <2>1, <3>1, <3>2, <3>3, SetKeeps
  <2>3. ASSUME s.level = Model, Proceed(b, "found") PROVE ChainInv'
    <3> DEFINE r == [s EXCEPT !.pc = "found"]
    <3>1. r \in BuilderRecords /\ r.pc = "found" /\ r.name = s.name /\ r.id = s.id
          /\ r.level = s.level /\ r.req = s.req /\ r.dep = s.dep /\ r.base = s.base
      BY ChainBounds DEF BuilderRecords, Working
    <3>2. Set(b, r)
      BY <2>3 DEF Proceed
    <3> HIDE DEF r
    <3>3. s.level <= Model /\ s.pc \in Working \ {"look"}
      BY <1>1, <2>3 DEF Model, Working
    <3>4. BuilderFits(images', source, r)
      BY <1>1, <1>3, <3>1, <3>3, ChainBounds, FoundFits
    <3> QED
      BY <1>1, <1>4, <2>1, <3>1, <3>2, <3>4, SetKeeps
  <2>4. ASSUME s.level = Service, Done(b, s.id) PROVE ChainInv'
    <3>1. s.name = RequestName(s.req) /\ s.id \in 1..Len(images)
      BY <1>3, <2>4 DEF IsNamed, IsLayer
    <3> QED
      BY <1>1, <1>3, <2>1, <2>4, <3>1, DoneKeeps
  <2> QED
    <3>1. s.level \in 1..4
      BY ChainBounds
    <3>2. CASE s.level <= Environment
      <4>1. s.level # Model /\ s.level # Service
        BY <3>1, <3>2 DEF Environment, Model, Service
      <4> QED
        BY <1>2, <1>6, <1>5, <2>2, <3>2, <4>1
    <3>3. CASE s.level = Model
      <4>1. ~(s.level <= Environment) /\ s.level # Service
        BY <3>3 DEF Environment, Model, Service
      <4> QED
        BY <1>2, <1>6, <1>5, <2>3, <3>3, <4>1
    <3>4. CASE s.level = Service
      <4>1. ~(s.level <= Environment) /\ s.level # Model
        BY <3>4 DEF Environment, Model, Service
      <4> QED
        BY <1>2, <1>6, <1>5, <2>4, <3>4, <4>1
    <3> QED
      BY <3>1, <3>2, <3>3, <3>4 DEF Environment, Model, Service
<1> QED
  BY <1>2, <1>5, <1>6

LEMMA LookAgainKeeps ==
    ASSUME ChainInv, NEW b \in Builders, LookAgain(b) PROVE ChainInv'
<1> DEFINE s == builder[b]
           id == tags[s.name]
<1>1. s.pc = "again" /\ source' = source /\ images' = images /\ tags' = tags
  BY DEF LookAgain, world
<1>2. \/ Raise(b)
      \/ Tagged(s.name) /\ Checked(images[id], s.name) /\ Set(b, [s EXCEPT !.pc = "found", !.id = id])
  BY DEF LookAgain
<1>3. s.level <= Environment /\ s.level <= Model /\ s.pc \in Working \ {"look"}
  BY <1>1, ChainBounds DEF BuilderFits, Working, Environment, Model
<1>4. Extends(images, images') /\ Fit(images') /\ TagsFit'
  BY <1>1, NothingBuilt
<1>5. ASSUME Tagged(s.name), Checked(images[id], s.name), Set(b, [s EXCEPT !.pc = "found", !.id = id])
      PROVE  ChainInv'
  <2>1. id \in 1..Len(images')
    BY <1>1, <1>5 DEF ChainInv, TagsFit, Tagged
  <2>2. IsLayer(images', id, s.level) /\ images'[id].name = s.name
    BY <1>1, <1>3, <1>5, <2>1, CheckedIsSound DEF IsLayer
  <2> HIDE DEF id
  <2> QED
    BY <1>1, <1>3, <1>4, <1>5, <2>1, <2>2, TakeKeeps
<1> QED
  BY <1>1, <1>2, <1>4, <1>5, RaiseKeeps

LEMMA DescendKeeps ==
    ASSUME ChainInv, NEW b \in Builders, Descend(b) PROVE ChainInv'
<1> DEFINE s == builder[b]
           r == [s EXCEPT !.pc = "look", !.level = @ + 1, !.base = s.id]
<1>1. s.pc = "found" /\ source' = source /\ images' = images /\ tags' = tags
  BY DEF Descend, world
<1>2. Raise(b) \/ Set(b, r)
  BY DEF Descend
<1>3. Extends(images, images') /\ Fit(images') /\ TagsFit'
  BY <1>1, NothingBuilt
<1>4. /\ OnBase(images, source, s) /\ IsNamed(source, s) /\ IsLayer(images, s.id, s.level)
      /\ images[s.id].name = s.name /\ s.level \in 1..3
  BY <1>1, ChainBounds DEF BuilderFits, Working, Model
<1>5. r \in BuilderRecords /\ r.pc = "look" /\ r.level = s.level + 1 /\ r.base = s.id
      /\ r.req = s.req /\ r.dep = s.dep
  <2>1. s.level + 1 \in 1..4 /\ s \in BuilderRecords /\ s.id \in Nat
    BY <1>4, ChainBounds
  <2>2. r = [s EXCEPT !.pc = "look", !.level = s.level + 1, !.base = s.id]
    BY <2>1 DEF BuilderRecords
  <2> HIDE DEF r, s
  <2> QED
    BY <2>1, <2>2 DEF BuilderRecords, Working
<1> HIDE DEF r
<1>6. OnBase(images, source, r)
  <2>1. IsLayer(images, r.base, r.level - 1)
    BY <1>4, <1>5
  <2>2. CASE s.level <= Environment
    <3>1. images[r.base].name.dep = r.dep
      BY <1>4, <1>5, <2>2 DEF IsNamed, NameOf
    <3> QED
      BY <1>4, <1>5, <2>1, <2>2, <3>1 DEF OnBase, Platform, Environment, Model, Service
  <2>3. CASE s.level = Model
    <3>1. images[s.id].base = s.base
      <4>1. ImageFits(images, s.id)
        BY <1>4, ChainBounds DEF Fit, IsLayer
      <4>2. images[s.id].name.level = Model /\ s.name.base = s.base
        BY <1>4, <2>3 DEF IsNamed, NameOf, IsLayer
      <4> QED
        BY <1>4, <4>1, <4>2 DEF ImageFits
    <3>2. s.req.app <= s.name.app /\ s.name.app <= source.app
      BY <1>4, <2>3 DEF IsNamed
    <3> QED
      BY <1>4, <1>5, <2>1, <2>3, <3>1, <3>2 DEF OnBase, Platform, Environment, Model, Service
  <2> QED
    BY <1>4, <2>2, <2>3 DEF Environment, Model
<1>7. BuilderFits(images', source, r)
  BY <1>1, <1>5, <1>6, ChainBounds DEF BuilderFits
<1> QED
  BY <1>1, <1>2, <1>3, <1>5, <1>7, SetKeeps, RaiseKeeps

LEMMA InspectKeeps ==
    ASSUME ChainInv, Inspect PROVE ChainInv'
BY DEF Inspect, ChainInv, ChainTypes, ImagesFit, TagsFit, BuildersFit

LEMMA RemoveKeeps ==
    ASSUME ChainInv, Remove PROVE ChainInv'
<1>1. UNCHANGED <<source, images, builder>>
  BY DEF Remove
<1>2. tags' = Restrict(tags, DOMAIN tags \ removal.names)
  BY DEF Remove
<1>3. DOMAIN tags' \subseteq DOMAIN tags /\ \A name \in DOMAIN tags' : tags'[name] = tags[name]
  BY <1>2 DEF Restrict
<1> QED
  BY <1>1, <1>3 DEF ChainInv, ChainTypes, ImagesFit, TagsFit, BuildersFit
-----------------------------------------------------------------------------
(* The theorem                                                             *)

LEMMA ChainStarts == ChainInit => ChainInv
<1> SUFFICES ASSUME ChainInit PROVE ChainInv
  OBVIOUS
<1>1. source = [dep |-> 1, app |-> 1] /\ images = <<>> /\ tags = <<>>
      /\ builder = [b \in Builders |-> Idle]
  BY DEF ChainInit
<1>2. Idle \in BuilderRecords /\ Idle.pc = "idle" /\ Idle.req.dep = 0 /\ Idle.req.app = 0
  BY DEF Idle, BuilderRecords, Checkouts, Names, NameOf, Platform, NoImage
<1>3. ChainTypes
  BY <1>1, <1>2 DEF ChainTypes, Checkouts
<1>4. Len(images) = 0 /\ DOMAIN tags = {}
  BY <1>1
<1>5. BuildersFit
  BY <1>1, <1>2 DEF BuildersFit, BuilderFits, Working
<1> QED
  BY <1>3, <1>4, <1>5 DEF ChainInv, ImagesFit, TagsFit

LEMMA ChainStepKeeps == ChainInv /\ [ChainNext]_chainVars => ChainInv'
<1> SUFFICES ASSUME ChainInv, [ChainNext]_chainVars PROVE ChainInv'
  OBVIOUS
<1>1. CASE UNCHANGED chainVars
  BY <1>1 DEF chainVars, ChainInv, ChainTypes, ImagesFit, TagsFit, BuildersFit
<1>2. ASSUME NEW b \in Builders,
             \/ BeginBuild(b) \/ Reuse(b) \/ Rebuild(b) \/ Look(b) \/ Pull(b) \/ Copy(b)
             \/ Build(b) \/ Publish(b) \/ LookAgain(b) \/ Descend(b)
      PROVE  ChainInv'
  BY <1>2, BeginBuildKeeps, ReuseKeeps, RebuildKeeps, LookKeeps, PullKeeps, CopyKeeps, BuildKeeps,
     PublishKeeps, LookAgainKeeps, DescendKeeps
<1> QED
  BY <1>1, <1>2, EditSourceKeeps, InspectKeeps, RemoveKeeps DEF ChainNext

\* Below a sound service image every layer serves what the service is named for.
LEMMA LayersServe ==
    ASSUME ChainInv, NEW req, NEW id \in 1..Len(images), images[id].name = RequestName(req),
           NEW layer \in Below(id)
    PROVE  Serves(layer, req)
<1>1. images \in Seq(ImageRecords) /\ Fit(images)
  BY DEF ChainInv, ChainTypes, ImagesFit, Fit
<1>2. images[id].name.level = Service /\ images[id].name.dep = req.dep /\ images[id].name.app = req.app
  BY DEF RequestName, NameOf
<1>3. IsLayer(images, id, 4) /\ id # NoImage
  BY <1>1, <1>2 DEF Fit, ImageFits, IsLayer, Environment, Service, NoImage
<1> DEFINE m == images[id].base
           e == images[m].base
           p == images[e].base
<1>4. IsLayer(images, m, 3) /\ IsLayer(images, e, 2) /\ IsLayer(images, p, 1)
  BY <1>1, <1>3, LowerLayer
<1>5. m # NoImage /\ e # NoImage /\ p # NoImage
  <2>1. \A i \in 1..Len(images) : i # NoImage
    BY <1>1 DEF NoImage
  <2> HIDE DEF m, e, p
  <2> QED
    BY <1>4, <2>1 DEF IsLayer
<1>6. images[m].name.app = req.app /\ images[e].name.dep = req.dep
  BY <1>1, <1>2 DEF Fit, ImageFits
<1>7. images[p].name.dep = req.dep
  BY <1>1, <1>4, <1>6 DEF Fit, ImageFits, IsLayer, Environment
<1>8. Serves(id, req) /\ Serves(m, req) /\ Serves(e, req) /\ Serves(p, req)
  <2> HIDE DEF m, e, p
  <2> QED
    BY <1>2, <1>3, <1>4, <1>6, <1>7 DEF Serves, IsLayer, Sound, Environment
<1>9. layer \in {id, m, e, p}
  BY <1>3, <1>5 DEF Below, Base
<1> QED
  BY <1>8, <1>9

\* Every layer of an image a run gets, and of a service image that a name offers,
\* was made from the checkout the run recorded or the name stands for, whoever
\* edits, builds, pulls, retags or removes meanwhile (dependency_images.py and
\* runtime_images.py).
THEOREM ImagesAreTheirRequests == ChainSpec => []ImageIsItsRequest
<1>1. ChainInit => ChainInv
  BY ChainStarts
<1>2. ChainInv /\ [ChainNext]_chainVars => ChainInv'
  BY ChainStepKeeps
<1>3. ChainInv => ImageIsItsRequest
  <2> SUFFICES ASSUME ChainInv PROVE ImageIsItsRequest
    OBVIOUS
  <2>1. ASSUME NEW b \in Builders, builder[b].pc = "done", NEW layer \in Below(builder[b].id)
        PROVE  Serves(layer, builder[b].req)
    BY <2>1, ChainBounds, LayersServe DEF BuilderFits
  <2>2. \A name \in DOMAIN tags : images[tags[name]].name = name
    BY DEF ChainInv, TagsFit
  <2>3. ASSUME NEW name \in DOMAIN tags, name.level = Service, NEW layer \in Below(tags[name])
        PROVE  Serves(layer, [dep |-> name.dep, app |-> name.app])
    <3>1. /\ name \in Names /\ tags[name] \in 1..Len(images) /\ images[tags[name]].name = name
      BY DEF ChainInv, TagsFit
    <3>2. name.base = NoImage
      <4>1. ImageFits(images, tags[name])
        BY <3>1 DEF ChainInv, ImagesFit
      <4> QED
        BY <2>3, <3>1, <4>1 DEF ImageFits
    <3>3. name = RequestName([dep |-> name.dep, app |-> name.app])
      BY <2>3, <3>1, <3>2 DEF RequestName, NameOf, Names
    <3> QED
      BY <3>1, <3>3, <2>3, LayersServe
  <2> QED
    BY <2>1, <2>2, <2>3 DEF ImageIsItsRequest
<1> QED
  BY <1>1, <1>2, <1>3, PTL DEF ChainSpec
-----------------------------------------------------------------------------
(* The screen.  The invariant: every background thread is one the          *)
(* interface still counts as under way (ThreadsFit), the dialogs that may   *)
(* start one belong to an operation that keeps a child from starting        *)
(* (DialogsFit), what a page shows is what its last request read            *)
(* (PagesFit), and a review or a plan that may resume an experiment carries *)
(* the record that was chosen (ReviewsFit).                                 *)

Jobs == Pages \cup {"review", "check", "load", "refresh", "delete", "storage"}
Settings == [env : Envs \cup {Nil}, target : {"there", "fresh", Nil}, resume : BOOLEAN]
Paths == Sources \cup {Nil}
ThreadRecords ==
    [job : Jobs, token : Nat \ {0}, path : Paths, cfg : Settings, asked : Nat, seen : Nat,
     sure : BOOLEAN, answer : {Nil, "new", "resume", "restart", "error"}]
PageRecords == [value : Paths, changed : BOOLEAN, shown : Paths, token : Nat, path : Paths]

CheckRecords == [running : BOOLEAN, completed : BOOLEAN, checking : Envs \cup {Nil},
                 checked : Envs \cup {Nil}, ok : BOOLEAN]
ScreenRecords ==
    [kind : {Nil, "review", "picker", "environment", "launch", "delete", "storage"},
     seen : Nat, fresh : Settings]
OperationRecords == [op : {Nil, "refresh", "confirm", "delete", "storage"}, loading : BOOLEAN]
DirRecords == [version : Nat \ {0}, env : Envs, done : BOOLEAN, writer : BOOLEAN]
TaskRecords == [kind : {Nil, "run", "tool", "stats"}, cfg : Settings, asked : Nat, seen : Nat]

ScreenTypes ==
    /\ form \in Settings
    /\ page \in [Pages -> PageRecords]
    /\ preflight \in CheckRecords
    /\ after \in [cfg : Settings, asked : Nat]
    /\ reading \subseteq Nat
    /\ recovery \in [token : Nat, set : SUBSET Nat]
    /\ imagesOp \in OperationRecords
    /\ screen \in ScreenRecords
    /\ task \in TaskRecords
    /\ threads \subseteq ThreadRecords
    /\ dir \in DirRecords
    /\ remains = [budget |-> remains.budget, token |-> remains.token]
    /\ remains.token \in Nat \ {0}

\* What tells the interface that a thread is under way.
Counted(t) ==
    /\ t.job \in Pages \cup {"review", "load"} => t.token \in reading
    /\ t.job = "check" => preflight.running
    /\ t.job \in {"refresh", "delete"} => imagesOp.op = t.job
    /\ t.job = "storage" => imagesOp.loading

Alike(t, u) ==
    \/ t.token = u.token
    \/ t.job = u.job /\ t.job \in {"check", "refresh", "delete", "storage"}

ThreadsFit ==
    /\ \A t \in threads : t.token < remains.token /\ Counted(t)
    /\ \A t, u \in threads : Alike(t, u) => t = u

DialogsFit ==
    /\ imagesOp.loading => imagesOp.op = "storage"
    /\ screen.kind = "storage" => imagesOp.op = "storage" /\ ~Running
    /\ screen.kind = "delete" => imagesOp.op = "confirm"

PagesFit ==
    /\ \A p \in Pages : /\ page[p].token < remains.token
                        /\ page[p].shown # Nil => page[p].token # 0 /\ page[p].shown = page[p].path
    /\ \A t \in threads : t.job \in Pages /\ t.token = page[t.job].token => t.path = page[t.job].path
    /\ ShownIsChosen

ReviewFits(t) ==
    /\ t.sure /\ t.cfg.resume => t.asked # 0
    /\ t.answer = "resume" => t.seen # 0 /\ t.asked \in {0, t.seen}
    /\ t.answer = "new" => ~t.cfg.resume

ReviewsFit ==
    /\ \A t \in threads : ReviewFits(t)
    /\ after.cfg.resume => after.asked # 0
    /\ ~screen.fresh.resume

TasksInv == ScreenTypes /\ ThreadsFit /\ DialogsFit /\ RunsAlone /\ PagesFit /\ ReviewsFit
-----------------------------------------------------------------------------
LEMMA OnePage ==
    ASSUME NEW f \in [Pages -> PageRecords], NEW p \in Pages, NEW r \in PageRecords
    PROVE  /\ [f EXCEPT ![p] = r] \in [Pages -> PageRecords]
           /\ [f EXCEPT ![p] = r][p] = r
           /\ \A q \in Pages \ {p} : [f EXCEPT ![p] = r][q] = f[q]
  OBVIOUS

LEMMA TypeInv == ASSUME TasksInv, NEW p \in Pages, Type(p) PROVE TasksInv'
  <1>0. page \in [Pages -> PageRecords] /\ page[p] \in PageRecords
    BY DEF TasksInv, ScreenTypes
  <1>1. PICK v \in Sources : page' = [page EXCEPT ![p].value = v, ![p].changed = TRUE]
    BY DEF Type
  <1> DEFINE r == [page[p] EXCEPT !.value = v, !.changed = TRUE]
  <1>2. r \in PageRecords
    BY <1>0 DEF PageRecords, Paths
  <1>3. page' = [page EXCEPT ![p] = r]
    BY <1>0, <1>1
  <1>4. page' \in [Pages -> PageRecords] /\ page'[p] = r /\ \A q \in Pages \ {p} : page'[q] = page[q]
    BY <1>0, <1>2, <1>3, OnePage
  <1>5. /\ remains' = [budget |-> remains'.budget, token |-> remains'.token]
        /\ remains'.token = remains.token
    BY DEF TasksInv, ScreenTypes, Type, Edit, Spend
  <1>6. ScreenTypes'
    BY <1>4, <1>5 DEF TasksInv, ScreenTypes, Type
  <1>7. ThreadsFit' /\ DialogsFit' /\ RunsAlone' /\ ReviewsFit'
    BY <1>5 DEF TasksInv, Type, ThreadsFit, DialogsFit, RunsAlone, ReviewsFit, Counted, Running
  <1>8. r.changed /\ r.token = page[p].token /\ r.path = page[p].path /\ r.shown = page[p].shown
    BY <1>0 DEF PageRecords
  <1>9. PagesFit'
    BY <1>4, <1>5, <1>8 DEF TasksInv, Type, PagesFit, ShownIsChosen, ScreenTypes, ThreadRecords
  <1> QED BY <1>6, <1>7, <1>9 DEF TasksInv

LEMMA SourceChangedInv == ASSUME TasksInv, NEW p \in Pages, SourceChanged(p) PROVE TasksInv'
  <1>0. page \in [Pages -> PageRecords] /\ page[p] \in PageRecords
    BY DEF TasksInv, ScreenTypes
  <1> DEFINE r == IF page[p].token # 0 /\ page[p].value = page[p].path
                  THEN [page[p] EXCEPT !.changed = FALSE]
                  ELSE [page[p] EXCEPT !.changed = FALSE, !.token = 0, !.shown = Nil]
  <1>2. r \in PageRecords
    BY <1>0 DEF PageRecords, Paths
  <1>3. page' = [page EXCEPT ![p] = r]
    BY <1>0 DEF SourceChanged
  <1>4. page' \in [Pages -> PageRecords] /\ page'[p] = r /\ \A q \in Pages \ {p} : page'[q] = page[q]
    BY <1>0, <1>2, <1>3, OnePage
  <1>6. ScreenTypes'
    BY <1>4 DEF TasksInv, ScreenTypes, SourceChanged
  <1>7. ThreadsFit' /\ DialogsFit' /\ RunsAlone' /\ ReviewsFit'
    BY DEF TasksInv, SourceChanged, ThreadsFit, DialogsFit, RunsAlone, ReviewsFit, Counted, Running
  <1>8. \/ /\ r.token = page[p].token /\ r.path = page[p].path /\ r.shown = page[p].shown
           /\ r.value = page[p].value /\ r.value = r.path
        \/ r.token = 0 /\ r.shown = Nil
    BY <1>0 DEF PageRecords
  <1>9. PagesFit'
    BY <1>4, <1>8 DEF TasksInv, SourceChanged, PagesFit, ShownIsChosen, ScreenTypes, ThreadRecords
  <1> QED BY <1>6, <1>7, <1>9 DEF TasksInv
-----------------------------------------------------------------------------
\* Threads that start and end.

LEMMA NoConfigFits == NoConfig \in Settings /\ ~NoConfig.resume
  BY DEF NoConfig, Settings

LEMMA ThreadIsRecord ==
    ASSUME TasksInv, NEW j \in Jobs
    PROVE  /\ Thread(j) \in ThreadRecords
           /\ Thread(j).job = j /\ Thread(j).token = Token /\ Thread(j).answer = Nil
           /\ Thread(j).sure = FALSE
  BY NoConfigFits DEF TasksInv, ScreenTypes, Thread, ThreadRecords, Paths, Token

LEMMA ReviewerIsRecord ==
    ASSUME TasksInv, NEW c \in Settings, NEW a \in Nat, NEW s \in BOOLEAN
    PROVE  /\ Reviewer(c, a, s) \in ThreadRecords
           /\ Reviewer(c, a, s).job = "review" /\ Reviewer(c, a, s).token = Token
           /\ Reviewer(c, a, s).cfg = c /\ Reviewer(c, a, s).asked = a
           /\ Reviewer(c, a, s).sure = s /\ Reviewer(c, a, s).answer = Nil
  <1>1. Thread("review") \in ThreadRecords /\ Thread("review").job = "review"
        /\ Thread("review").token = Token /\ Thread("review").answer = Nil
    BY ThreadIsRecord DEF Jobs
  <1> QED BY <1>1 DEF Reviewer, ThreadRecords

LEMMA Starts ==
    ASSUME TasksInv, NEW t \in ThreadRecords, t.token = Token, NEW others \in SUBSET threads,
           Start(t, others)
    PROVE  /\ threads' = others \cup {t} /\ threads' \subseteq ThreadRecords
           /\ remains' = [budget |-> remains'.budget, token |-> remains'.token]
           /\ remains'.token \in Nat \ {0} /\ remains'.token = remains.token + 1
           /\ \A u \in others : u.token < t.token /\ u.token \in Nat
  BY DEF TasksInv, ScreenTypes, ThreadsFit, Start, Token, ThreadRecords

LEMMA StartFits ==
    ASSUME TasksInv, NEW t \in ThreadRecords, t.token = Token, NEW others \in SUBSET threads,
           Start(t, others), Counted(t)', \A u \in others : Counted(u)' /\ ~Alike(u, t)
    PROVE  ThreadsFit'
  <1>1. /\ threads' = others \cup {t} /\ remains'.token = remains.token + 1
        /\ \A u \in others : u.token < t.token /\ u.token \in Nat
    BY Starts
  <1>2. \A u \in others : u.token < remains.token
    BY DEF TasksInv, ThreadsFit
  <1>3. remains.token \in Nat /\ t.token = remains.token
    BY DEF TasksInv, ScreenTypes, Token
  <1>4. \A u, w \in others : Alike(u, w) => u = w
    BY DEF TasksInv, ThreadsFit
  <1>5. \A u \in threads' : u.token < remains'.token /\ Counted(u)'
    BY <1>1, <1>2, <1>3
  <1>6. \A u, w \in threads' : Alike(u, w) => u = w
    BY <1>1, <1>4 DEF Alike
  <1> QED BY <1>5, <1>6 DEF ThreadsFit, Alike

LEMMA FewerFit ==
    ASSUME TasksInv, threads' \subseteq threads, remains'.token = remains.token,
           \A u \in threads' : Counted(u)'
    PROVE  ThreadsFit'
  BY DEF TasksInv, ThreadsFit, Alike

LEMMA PagesStay ==
    ASSUME TasksInv, page' = page, remains'.token \in Nat, remains'.token >= remains.token,
           \A t \in threads' : t.job \in Pages => t \in threads
    PROVE  PagesFit'
  <1>1. remains.token \in Nat /\ \A p \in Pages : page[p].token \in Nat
    BY DEF TasksInv, ScreenTypes, PageRecords
  <1> QED BY <1>1 DEF TasksInv, PagesFit, ShownIsChosen

\* The old ones are others than the one that starts now.
LEMMA Older == ASSUME TasksInv, NEW u \in threads PROVE u.token # Token /\ Counted(u)
  BY DEF TasksInv, ThreadsFit, ScreenTypes, ThreadRecords, Token
-----------------------------------------------------------------------------
\* One lemma per action.

\* What BeginRead does to the pages, whatever it was changed in before.
LEMMA BeginReadFits ==
    ASSUME TasksInv, NEW p \in Pages, NEW v \in Paths, NEW f \in [Pages -> PageRecords],
           BeginRead(f, p, v), ~Running', preflight' = preflight, imagesOp' = imagesOp,
           \A q \in Pages \ {p} : f[q] = page[q]
    PROVE  /\ page' \in [Pages -> PageRecords] /\ reading' \subseteq Nat
           /\ threads' \subseteq ThreadRecords
           /\ remains' = [budget |-> remains'.budget, token |-> remains'.token]
           /\ remains'.token \in Nat \ {0}
           /\ ThreadsFit' /\ RunsAlone' /\ PagesFit'
           /\ (\A t \in threads : ReviewFits(t)) => \A t \in threads' : ReviewFits(t)
  <1> DEFINE r == [value |-> v, changed |-> f[p].changed, shown |-> Nil, token |-> Token, path |-> v]
  <1>1. p \in Jobs /\ Token \in Nat \ {0} /\ remains.token = Token /\ f[p] \in PageRecords
    BY DEF Jobs, TasksInv, ScreenTypes, Token
  <1>2. Thread(p) \in ThreadRecords /\ Thread(p).job = p /\ Thread(p).token = Token
        /\ Thread(p).answer = Nil /\ Thread(p).sure = FALSE
    BY <1>1, ThreadIsRecord
  <1>16. [Thread(p) EXCEPT !.path = v] \in ThreadRecords
    BY <1>2 DEF ThreadRecords
  <1>3. PICK new \in ThreadRecords : /\ new = [Thread(p) EXCEPT !.path = v]
                                    /\ new.job = p /\ new.token = Token /\ new.path = v
                                    /\ new.answer = Nil /\ new.sure = FALSE
    BY <1>2, <1>16 DEF ThreadRecords
  <1>4. r \in PageRecords
    BY <1>1 DEF PageRecords, Paths
  <1>5. page' = [f EXCEPT ![p] = r]
    BY DEF BeginRead
  <1>6. page' \in [Pages -> PageRecords] /\ page'[p] = r /\ \A q \in Pages \ {p} : page'[q] = page[q]
    BY <1>4, <1>5, OnePage
  <1>7. Start(new, threads) /\ reading' = reading \cup {Token}
    BY <1>3 DEF BeginRead, Spawn
  <1>8. /\ threads' = threads \cup {new} /\ threads' \subseteq ThreadRecords
        /\ remains' = [budget |-> remains'.budget, token |-> remains'.token]
        /\ remains'.token \in Nat \ {0} /\ remains'.token = remains.token + 1
        /\ \A u \in threads : u.token < new.token /\ u.token \in Nat
    BY <1>3, <1>7, Starts
  <1>9. reading' \subseteq Nat
    BY <1>1, <1>7 DEF TasksInv, ScreenTypes
  <1>10. Counted(new)'
    BY <1>1, <1>3, <1>7 DEF Counted, Pages
  <1>11. \A u \in threads : Counted(u)' /\ ~Alike(u, new)
    BY <1>3, <1>7, <1>8, Older DEF Counted, Alike, Pages
  <1>12. ThreadsFit'
    BY <1>3, <1>7, <1>10, <1>11, StartFits
  <1>13. PagesFit'
    <2>1. \A q \in Pages : /\ page'[q].token < remains'.token
                           /\ page'[q].shown # Nil => page'[q].token # 0 /\ page'[q].shown = page'[q].path
                           /\ page'[q].shown # Nil /\ ~page'[q].changed => page'[q].shown = page'[q].value
      <3>1. \A q \in Pages : page[q].token \in Nat
        BY DEF TasksInv, ScreenTypes, PageRecords
      <3> QED BY <1>1, <1>6, <1>8, <3>1 DEF TasksInv, PagesFit, ShownIsChosen
    <2>2. ASSUME NEW t \in threads', t.job \in Pages, t.token = page'[t.job].token
          PROVE  t.path = page'[t.job].path
      <3>1. CASE t = new
        BY <1>3, <1>6, <3>1
      <3>2. CASE t \in threads /\ t.job = p
        BY <1>3, <1>6, <1>8, <2>2, <3>2, Older
      <3>3. CASE t \in threads /\ t.job # p
        BY <1>6, <2>2, <3>3 DEF TasksInv, PagesFit
      <3> QED BY <1>8, <3>1, <3>2, <3>3
    <2> QED BY <2>1, <2>2 DEF PagesFit, ShownIsChosen
  <1>14. RunsAlone'
    BY DEF RunsAlone
  <1>15. ReviewFits(new)
    BY <1>3 DEF ReviewFits, Nil
  <1> QED BY <1>6, <1>8, <1>9, <1>12, <1>13, <1>14, <1>15

LEMMA ReadInv == ASSUME TasksInv, NEW p \in Pages, Read(p) PROVE TasksInv'
  <1>1. page \in [Pages -> PageRecords] /\ page[p].value \in Paths
    BY DEF TasksInv, ScreenTypes, PageRecords
  <1>2. ~Running'
    BY DEF Read, Allows, Running, Pages
  <1>3. /\ page' \in [Pages -> PageRecords] /\ reading' \subseteq Nat
        /\ threads' \subseteq ThreadRecords
        /\ remains' = [budget |-> remains'.budget, token |-> remains'.token]
        /\ remains'.token \in Nat \ {0}
        /\ ThreadsFit' /\ RunsAlone' /\ PagesFit'
        /\ (\A t \in threads : ReviewFits(t)) => \A t \in threads' : ReviewFits(t)
    BY <1>1, <1>2, BeginReadFits DEF Read
  <1>4. ScreenTypes'
    BY <1>3 DEF TasksInv, ScreenTypes, Read
  <1>5. DialogsFit' /\ ReviewsFit'
    BY <1>3 DEF TasksInv, DialogsFit, ReviewsFit, Read, Running
  <1> QED BY <1>3, <1>4, <1>5 DEF TasksInv

LEMMA ReadEndsInv == ASSUME TasksInv, NEW t \in threads, ReadEnds(t) PROVE TasksInv'
  <1>0. /\ page \in [Pages -> PageRecords] /\ t \in ThreadRecords /\ t.job \in Pages
        /\ threads \subseteq ThreadRecords /\ t.path \in Paths /\ t.token # 0
    BY DEF TasksInv, ScreenTypes, ThreadRecords, ReadEnds
  <1> DEFINE shown_ == [page[t.job] EXCEPT !.shown = t.path]
             offered == [page["report"] EXCEPT !.value = t.path, !.changed = TRUE]
  <1>1. shown_ \in PageRecords /\ offered \in PageRecords
    BY <1>0 DEF PageRecords, Pages
  <1>2. /\ shown_.shown = t.path /\ shown_.path = page[t.job].path /\ shown_.token = page[t.job].token
        /\ shown_.value = page[t.job].value
        /\ offered.changed /\ offered.shown = page["report"].shown
        /\ offered.token = page["report"].token /\ offered.path = page["report"].path
    BY <1>0 DEF PageRecords, Pages
  <1>3. \/ page' = page
        \/ Wanted(t) /\ page' = [page EXCEPT ![t.job] = shown_]
        \/ Wanted(t) /\ t.job = "summary"
             /\ page' = [[page EXCEPT !["summary"] = shown_] EXCEPT !["report"] = offered]
    BY <1>0 DEF ReadEnds, Pages
  <1>4. /\ page' \in [Pages -> PageRecords]
        /\ \/ page' = page
           \/ Wanted(t) /\ page'[t.job] = shown_ /\ \A q \in Pages \ {t.job} : page'[q] = page[q]
           \/ Wanted(t) /\ t.job = "summary" /\ page'["summary"] = shown_ /\ page'["report"] = offered
    BY <1>0, <1>1, <1>3 DEF Pages
  <1> HIDE DEF shown_, offered
  <1>5. Wanted(t) => t.path = page[t.job].path /\ page[t.job].token # 0 /\ page[t.job].value = t.path
    BY <1>0 DEF TasksInv, PagesFit, Wanted
  <1>6. \A q \in Pages : /\ page'[q].token = page[q].token /\ page'[q].path = page[q].path
                         /\ page'[q].shown # page[q].shown =>
                              page'[q].shown = page[q].path /\ page[q].token # 0 /\ page'[q].value = page[q].path
                         /\ page'[q].shown = page[q].shown /\ ~page'[q].changed /\ page[q].shown # Nil =>
                              page'[q].value = page[q].shown
    <2>1. CASE page' = page
      BY <2>1 DEF TasksInv, PagesFit, ShownIsChosen
    <2>2. CASE Wanted(t) /\ page'[t.job] = shown_ /\ \A q \in Pages \ {t.job} : page'[q] = page[q]
      <3>1. ASSUME NEW q \in Pages, q # t.job PROVE page'[q] = page[q]
        BY <2>2, <3>1
      <3> QED BY <1>2, <1>5, <2>2, <3>1 DEF TasksInv, PagesFit, ShownIsChosen
    <2>3. CASE Wanted(t) /\ t.job = "summary" /\ page'["summary"] = shown_ /\ page'["report"] = offered
      BY <1>2, <1>5, <2>3 DEF TasksInv, PagesFit, ShownIsChosen, Pages
    <2> QED BY <1>4, <2>1, <2>2, <2>3
  <1>7. threads' = threads \ {t} /\ reading' = reading \ {t.token} /\ remains' = remains
    BY DEF ReadEnds
  <1>8. ScreenTypes'
    BY <1>4, <1>7 DEF TasksInv, ScreenTypes, ReadEnds
  <1>9. \A u \in threads' : Counted(u)'
    BY <1>7 DEF TasksInv, ThreadsFit, Counted, Alike, ReadEnds
  <1>10. ThreadsFit'
    BY <1>7, <1>9, FewerFit
  <1>11. DialogsFit' /\ RunsAlone' /\ ReviewsFit'
    BY <1>7 DEF TasksInv, DialogsFit, RunsAlone, Running, ReviewsFit, ReadEnds
  <1>12. PagesFit'
    BY <1>0, <1>6, <1>7 DEF TasksInv, PagesFit, ShownIsChosen
  <1> QED BY <1>8, <1>10, <1>11, <1>12 DEF TasksInv

LEMMA CancelReadsInv == ASSUME TasksInv, CancelReads PROVE TasksInv'
  <1>1. page \in [Pages -> PageRecords]
    BY DEF TasksInv, ScreenTypes
  <1>2. \A p \in Pages : [page[p] EXCEPT !.token = 0, !.shown = Nil] \in PageRecords
    BY <1>1 DEF PageRecords, Paths
  <1>3. page' = [p \in Pages |-> [page[p] EXCEPT !.token = 0, !.shown = Nil]]
    BY DEF CancelReads
  <1>4. page' \in [Pages -> PageRecords] /\ \A p \in Pages : page'[p].token = 0 /\ page'[p].shown = Nil
    BY <1>1, <1>2, <1>3 DEF PageRecords
  <1>5. recovery' \in [token : Nat, set : SUBSET Nat]
    BY DEF TasksInv, ScreenTypes, CancelReads
  <1>12. UNCHANGED <<form, preflight, reading, imagesOp, screen, task, threads, dir, remains>>
    BY DEF CancelReads
  <1>10. after' \in [cfg : Settings, asked : Nat] /\ ~after'.cfg.resume
    BY DEF CancelReads, NoPlan, NoConfig, Settings
  <1>6. ScreenTypes'
    BY <1>4, <1>5, <1>10, <1>12 DEF TasksInv, ScreenTypes
  <1>7. ThreadsFit' /\ DialogsFit' /\ RunsAlone'
    BY DEF TasksInv, ThreadsFit, Counted, DialogsFit, RunsAlone, Running, CancelReads
  <1>8. ReviewsFit'
    BY <1>10 DEF TasksInv, ReviewsFit, CancelReads
  <1>11. remains.token \in Nat \ {0} /\ \A t \in threads : t.token # 0
    BY DEF TasksInv, ScreenTypes, ThreadRecords
  <1>9. PagesFit'
    BY <1>4, <1>11, <1>12 DEF PagesFit, ShownIsChosen
  <1> QED BY <1>6, <1>7, <1>8, <1>9 DEF TasksInv
-----------------------------------------------------------------------------
\* A thread that is no reading of a page starts.
LEMMA JobStarts ==
    ASSUME TasksInv, NEW t \in ThreadRecords, t.token = Token, t.job \notin Pages, ReviewFits(t),
           NEW others \in SUBSET threads, Start(t, others), page' = page, ~Running', Counted(t)',
           \A u \in others : Counted(u)' /\ ~Alike(u, t)
    PROVE  /\ threads' \subseteq ThreadRecords
           /\ remains' = [budget |-> remains'.budget, token |-> remains'.token]
           /\ remains'.token \in Nat \ {0}
           /\ ThreadsFit' /\ RunsAlone' /\ PagesFit'
           /\ \A u \in threads' : ReviewFits(u)
  <1>1. /\ threads' = others \cup {t} /\ threads' \subseteq ThreadRecords
        /\ remains' = [budget |-> remains'.budget, token |-> remains'.token]
        /\ remains'.token \in Nat \ {0} /\ remains'.token = remains.token + 1
    BY Starts
  <1>2. ThreadsFit'
    BY StartFits
  <1>3. remains.token \in Nat
    BY DEF TasksInv, ScreenTypes
  <1>4. PagesFit'
    BY <1>1, <1>3, PagesStay
  <1>5. \A u \in threads' : ReviewFits(u)
    BY <1>1 DEF TasksInv, ReviewsFit
  <1> QED BY <1>1, <1>2, <1>4, <1>5 DEF RunsAlone

\* A review starts, alone or as a check ends.
LEMMA ReviewStarts ==
    ASSUME TasksInv, NEW c \in Settings, NEW a \in Nat, NEW s \in BOOLEAN, s /\ c.resume => a # 0,
           NEW others \in SUBSET threads, Start(Reviewer(c, a, s), others),
           reading' = reading \cup {Token}, recovery' = [recovery EXCEPT !.token = Token],
           UNCHANGED <<page, imagesOp>>, ~Running',
           \A u \in others : u.job = "check" => preflight'.running
    PROVE  /\ threads' \subseteq ThreadRecords /\ reading' \subseteq Nat
           /\ recovery' \in [token : Nat, set : SUBSET Nat]
           /\ remains' = [budget |-> remains'.budget, token |-> remains'.token]
           /\ remains'.token \in Nat \ {0}
           /\ ThreadsFit' /\ RunsAlone' /\ PagesFit'
           /\ \A u \in threads' : ReviewFits(u)
  <1>1. PICK t \in ThreadRecords : /\ t = Reviewer(c, a, s)
                                   /\ t.job = "review" /\ t.token = Token /\ t.cfg = c
                                   /\ t.asked = a /\ t.sure = s /\ t.answer = Nil
    BY ReviewerIsRecord
  <1>2. ReviewFits(t)
    BY <1>1 DEF ReviewFits, Nil
  <1>3. Start(t, others)
    BY <1>1
  <1>4. Counted(t)'
    BY <1>1 DEF Counted, Pages
  <1>5. \A u \in others : Counted(u)' /\ ~Alike(u, t)
    BY <1>1, Older DEF Counted, Alike
  <1>6. t.job \notin Pages
    BY <1>1 DEF Pages
  <1>7. Token \in Nat /\ reading \subseteq Nat /\ recovery \in [token : Nat, set : SUBSET Nat]
    BY DEF TasksInv, ScreenTypes, Token
  <1> QED BY <1>1, <1>2, <1>3, <1>4, <1>5, <1>6, <1>7, JobStarts

LEMMA SettingsOf == /\ \A e \in Envs : [env |-> e, target |-> "there", resume |-> TRUE] \in Settings
                    /\ \A c \in Settings : Fresh(c) \in Settings /\ ~Fresh(c).resume
  BY DEF Settings, Fresh

LEMMA FrozenFits == ASSUME TasksInv PROVE Frozen \in Settings
  BY SettingsOf DEF TasksInv, ScreenTypes, DirRecords, Frozen

LEMMA RequestRunInv == ASSUME TasksInv, RequestRun PROVE TasksInv'
  <1>1. UNCHANGED <<form, page, preflight, after, imagesOp, screen, task, dir>> /\ ~Running
    BY DEF RequestRun, Allows, Occupied, Pages
  <1>2. PICK f \in Settings : f = form
    BY DEF TasksInv, ScreenTypes
  <1>3. PICK t \in ThreadRecords : t = Reviewer(f, 0, FALSE) /\ t.token = Token
    BY ReviewerIsRecord
  <1>4. /\ Start(Reviewer(f, 0, FALSE), threads)
        /\ reading' = reading \cup {Token} /\ recovery' = [recovery EXCEPT !.token = Token]
    BY <1>2, <1>3 DEF RequestRun, Review, Spawn
  <1>5. ~Running' /\ \A u \in threads : u.job = "check" => preflight'.running
    BY <1>1, Older DEF Running, Counted
  <1>6. /\ threads' \subseteq ThreadRecords /\ reading' \subseteq Nat
        /\ recovery' \in [token : Nat, set : SUBSET Nat]
        /\ remains' = [budget |-> remains'.budget, token |-> remains'.token]
        /\ remains'.token \in Nat \ {0}
        /\ ThreadsFit' /\ RunsAlone' /\ PagesFit'
        /\ \A u \in threads' : ReviewFits(u)
    BY <1>1, <1>4, <1>5, ReviewStarts
  <1>7. ScreenTypes'
    BY <1>1, <1>6 DEF TasksInv, ScreenTypes
  <1>8. DialogsFit' /\ ReviewsFit'
    BY <1>1, <1>6 DEF TasksInv, DialogsFit, Running, ReviewsFit
  <1> QED BY <1>6, <1>7, <1>8 DEF TasksInv

LEMMA ReviewReadsInv == ASSUME TasksInv, NEW t \in threads, ReviewReads(t) PROVE TasksInv'
  <1>1. UNCHANGED <<form, page, preflight, after, reading, recovery, imagesOp, screen, task, dir, remains>>
    BY DEF ReviewReads
  <1>2. PICK a \in {"new", "resume", "restart", "error"} :
          /\ threads' = (threads \ {t}) \cup
                         {[t EXCEPT !.answer = a, !.seen = IF a = "resume" THEN dir.version ELSE 0]}
          /\ a = "new" => ~t.cfg.resume
          /\ a = "resume" => t.asked \in {0, dir.version}
    BY DEF ReviewReads
  <1>3. t \in ThreadRecords /\ t.job = "review" /\ dir.version \in Nat \ {0}
    BY DEF ReviewReads, TasksInv, ScreenTypes, DirRecords
  <1>4. PICK v \in Nat : v = (IF a = "resume" THEN dir.version ELSE 0)
    BY <1>3
  <1>5. [t EXCEPT !.answer = a, !.seen = v] \in ThreadRecords
    BY <1>3 DEF ThreadRecords
  <1>6. PICK u \in ThreadRecords :
          /\ u = [t EXCEPT !.answer = a, !.seen = v]
          /\ u.job = "review" /\ u.token = t.token /\ u.cfg = t.cfg /\ u.asked = t.asked
          /\ u.sure = t.sure /\ u.answer = a /\ u.seen = v
    BY <1>3, <1>5 DEF ThreadRecords
  <1>7. threads' = (threads \ {t}) \cup {u}
    BY <1>2, <1>4, <1>6
  <1>8. ScreenTypes'
    BY <1>1, <1>6, <1>7 DEF TasksInv, ScreenTypes
  <1>9. ThreadsFit'
    <2>1. \A w \in threads : w.token < remains.token /\ Counted(w)'
      BY <1>1 DEF TasksInv, ThreadsFit, Counted
    <2>2. u.token < remains.token /\ Counted(u)'
      BY <1>3, <1>6, <2>1 DEF Counted, Pages
    <2>3. \A w \in threads \ {t} : ~Alike(w, u) /\ ~Alike(u, w)
      BY <1>3, <1>6 DEF TasksInv, ThreadsFit, Alike
    <2>4. \A w, z \in threads \ {t} : Alike(w, z) => w = z
      BY DEF TasksInv, ThreadsFit
    <2>5. \A w, z \in threads' : Alike(w, z) => w = z
      BY <1>7, <2>3, <2>4
    <2> QED BY <1>1, <1>7, <2>1, <2>2, <2>5 DEF ThreadsFit, Alike
  <1>10. DialogsFit' /\ RunsAlone'
    BY <1>1 DEF TasksInv, DialogsFit, RunsAlone, Running
  <1>11. PagesFit'
    <2>1. \A w \in threads' : w.job \in Pages => w \in threads
      BY <1>6, <1>7 DEF Pages
    <2> QED BY <1>1, <2>1, PagesStay DEF TasksInv, ScreenTypes
  <1>12. ReviewFits(u)
    BY <1>2, <1>3, <1>4, <1>6 DEF TasksInv, ReviewsFit, ReviewFits
  <1>13. ReviewsFit'
    BY <1>1, <1>7, <1>12 DEF TasksInv, ReviewsFit
  <1> QED BY <1>8, <1>9, <1>10, <1>11, <1>13 DEF TasksInv

\* A thread is over; nothing else that tells of threads has changed.
LEMMA ThreadEnds ==
    ASSUME TasksInv, NEW t \in threads, threads' = threads \ {t}, remains' = remains,
           UNCHANGED <<preflight, imagesOp>>, reading' = reading \ {t.token}
    PROVE  ThreadsFit' /\ \A u \in threads' : ReviewFits(u)
  <1>1. \A u \in threads' : Counted(u)'
    BY DEF TasksInv, ThreadsFit, Counted, Alike
  <1> QED BY <1>1, FewerFit DEF TasksInv, ReviewsFit

LEMMA RecoveryTypes ==
    ASSUME TasksInv
    PROVE  [recovery EXCEPT !.token = 0] \in [token : Nat, set : SUBSET Nat]
  BY DEF TasksInv, ScreenTypes

LEMMA ReviewIgnoredInv == ASSUME TasksInv, NEW t \in threads, ReviewIgnored(t) PROVE TasksInv'
  <1>1. /\ UNCHANGED <<form, page, preflight, after, imagesOp, screen, task, dir, remains>>
        /\ threads' = threads \ {t} /\ reading' = reading \ {t.token}
        /\ recovery' \in {recovery, [recovery EXCEPT !.token = 0]}
    BY DEF ReviewIgnored, Answered, Closed
  <1>2. ThreadsFit' /\ \A u \in threads' : ReviewFits(u)
    BY <1>1, ThreadEnds
  <1>3. ScreenTypes'
    BY <1>1, RecoveryTypes DEF TasksInv, ScreenTypes
  <1>4. PagesFit'
    BY <1>1, PagesStay DEF TasksInv, ScreenTypes
  <1>5. DialogsFit' /\ RunsAlone' /\ ReviewsFit'
    BY <1>1, <1>2 DEF TasksInv, DialogsFit, RunsAlone, Running, ReviewsFit
  <1> QED BY <1>2, <1>3, <1>4, <1>5 DEF TasksInv

LEMMA ReviewShownInv == ASSUME TasksInv, NEW t \in threads, ReviewShown(t) PROVE TasksInv'
  <1>1. /\ UNCHANGED <<form, page, preflight, after, imagesOp, task, dir, remains>>
        /\ threads' = threads \ {t} /\ reading' = reading \ {t.token}
        /\ recovery' = [recovery EXCEPT !.token = 0]
        /\ screen' = [kind |-> "review", seen |-> t.seen, fresh |-> Fresh(t.cfg)]
    BY DEF ReviewShown, Answered, Closed
  <1>2. ThreadsFit' /\ \A u \in threads' : ReviewFits(u)
    BY <1>1, ThreadEnds
  <1>3. t.seen \in Nat /\ Fresh(t.cfg) \in Settings /\ ~Fresh(t.cfg).resume
    BY SettingsOf DEF TasksInv, ScreenTypes, ThreadRecords
  <1>4. ScreenTypes'
    BY <1>1, <1>3, RecoveryTypes DEF TasksInv, ScreenTypes, ScreenRecords
  <1>5. PagesFit'
    BY <1>1, PagesStay DEF TasksInv, ScreenTypes
  <1>6. DialogsFit' /\ RunsAlone' /\ ReviewsFit'
    BY <1>1, <1>2, <1>3 DEF TasksInv, DialogsFit, RunsAlone, Running, ReviewsFit
  <1> QED BY <1>2, <1>4, <1>5, <1>6 DEF TasksInv

\* What a guard has to look at for nothing else to be under way.
LEMMA NothingElse ==
    ASSUME TasksInv, NEW t \in threads, t.job = "review",
           reading = {t.token}, ~Maintenance, ~preflight.running
    PROVE  threads = {t}
  BY DEF TasksInv, ThreadsFit, DialogsFit, Alike, Counted, Maintenance, ScreenTypes, ThreadRecords, Jobs, Nil, Pages

LEMMA Nothing == ASSUME TasksInv, ~Reading, ~Maintenance, ~preflight.running PROVE threads = {}
  BY DEF TasksInv, ThreadsFit, DialogsFit, Counted, Maintenance, Reading, ScreenTypes, ThreadRecords, Jobs, Nil, Pages

LEMMA LaunchFits ==
    ASSUME TasksInv, NEW k \in {"run", "tool"}, NEW c \in Settings, NEW a \in Nat, NEW s \in Nat,
           LaunchTask(k, c, a, s)
    PROVE  /\ task' \in TaskRecords
           /\ page' \in [Pages -> PageRecords]
           /\ \A p \in Pages : page'[p] = page[p] \/ (page'[p].token = 0 /\ page'[p].shown = Nil)
  <1>1. page \in [Pages -> PageRecords]
    BY DEF TasksInv, ScreenTypes
  <1> DEFINE r == [page["summary"] EXCEPT !.token = 0, !.shown = Nil]
  <1>2. r \in PageRecords /\ r.token = 0 /\ r.shown = Nil
    BY <1>1 DEF PageRecords, Paths, Pages
  <1>3. page' = page \/ page' = [page EXCEPT !["summary"] = r]
    BY <1>1 DEF LaunchTask, Pages
  <1>4. task' = [kind |-> k, cfg |-> c, asked |-> a, seen |-> s]
    BY DEF LaunchTask
  <1>5. task' \in TaskRecords
    BY <1>4 DEF TaskRecords
  <1> HIDE DEF r
  <1>6. CASE page' = page
    BY <1>1, <1>5, <1>6
  <1>7. CASE page' = [page EXCEPT !["summary"] = r]
    BY <1>1, <1>2, <1>5, <1>7, OnePage DEF Pages
  <1> QED BY <1>3, <1>6, <1>7

LEMMA PagesCleared ==
    ASSUME TasksInv, threads' \subseteq threads, remains' = remains,
           \A p \in Pages : page'[p] = page[p] \/ (page'[p].token = 0 /\ page'[p].shown = Nil)
    PROVE  PagesFit'
  <1>1. remains.token \in Nat \ {0} /\ \A t \in threads : t.token # 0
    BY DEF TasksInv, ScreenTypes, ThreadRecords
  <1> QED BY <1>1 DEF TasksInv, PagesFit, ShownIsChosen

LEMMA ChosenFits ==
    ASSUME TasksInv, NEW t \in threads, Answered(t)
    PROVE  t \in ThreadRecords /\ t.job = "review" /\ Chosen(t) \in Settings
           /\ t.asked \in Nat /\ t.seen \in Nat /\ ReviewFits(t)
  BY FrozenFits DEF TasksInv, ScreenTypes, ThreadRecords, Chosen, ReviewsFit, Answered

LEMMA ReviewLaunchesInv == ASSUME TasksInv, NEW t \in threads, ReviewLaunches(t) PROVE TasksInv'
  <1>1. /\ UNCHANGED <<preflight, after, imagesOp, screen, dir, remains>>
        /\ threads' = threads \ {t} /\ reading' = reading \ {t.token}
        /\ recovery' = [recovery EXCEPT !.token = 0] /\ form' = Chosen(t)
    BY DEF ReviewLaunches, Answered, Closed
  <1>2. /\ t \in ThreadRecords /\ t.job = "review" /\ Chosen(t) \in Settings
        /\ t.asked \in Nat /\ t.seen \in Nat
    BY ChosenFits DEF ReviewLaunches
  <1>3. PICK c \in Settings : c = Chosen(t)
    BY <1>2
  <1>4. ThreadsFit' /\ \A u \in threads' : ReviewFits(u)
    BY <1>1, ThreadEnds
  <1>5. /\ task' \in TaskRecords
        /\ page' \in [Pages -> PageRecords]
        /\ \A p \in Pages : page'[p] = page[p] \/ (page'[p].token = 0 /\ page'[p].shown = Nil)
        /\ task' = task \/ Alone(t)
    <2>1. CASE Alone(t)
      <3>1. LaunchTask("run", c, t.asked, t.seen)
        BY <1>1, <1>3, <2>1 DEF ReviewLaunches
      <3> QED BY <1>2, <2>1, <3>1, LaunchFits
    <2>2. CASE ~Alone(t)
      <3>1. UNCHANGED <<task, page>>
        BY <2>2 DEF ReviewLaunches
      <3> QED BY <3>1 DEF TasksInv, ScreenTypes
    <2> QED BY <2>1, <2>2
  <1>6. ScreenTypes'
    BY <1>1, <1>2, <1>5, RecoveryTypes DEF TasksInv, ScreenTypes
  <1>7. PagesFit'
    BY <1>1, <1>5, PagesCleared
  <1>8. Alone(t) => threads' = {} /\ screen.kind # "storage"
    BY <1>1, <1>2, NothingElse DEF Alone, Maintenance, TasksInv, DialogsFit, Nil
  <1>9. RunsAlone' /\ DialogsFit'
    BY <1>1, <1>5, <1>8 DEF TasksInv, RunsAlone, DialogsFit, Running
  <1>10. ReviewsFit'
    BY <1>1, <1>4 DEF TasksInv, ReviewsFit
  <1> QED BY <1>4, <1>6, <1>7, <1>9, <1>10 DEF TasksInv

\* A check starts: for the form, with a plan that waits for it or without.
LEMMA CheckStarts ==
    ASSUME TasksInv, NEW others \in SUBSET threads, Start(Thread("check"), others),
           NEW e \in Envs \cup {Nil}, ~preflight.running,
           preflight' = [preflight EXCEPT !.running = TRUE, !.checking = e],
           UNCHANGED <<page, imagesOp>>, ~Running',
           \A u \in others : u.token \in reading => u.token \in reading'
    PROVE  /\ threads' \subseteq ThreadRecords
           /\ preflight' \in CheckRecords
           /\ remains' = [budget |-> remains'.budget, token |-> remains'.token]
           /\ remains'.token \in Nat \ {0}
           /\ ThreadsFit' /\ RunsAlone' /\ PagesFit'
           /\ \A u \in threads' : ReviewFits(u)
  <1>1. PICK t \in ThreadRecords : /\ t = Thread("check") /\ t.job = "check" /\ t.token = Token
                                   /\ t.answer = Nil /\ t.sure = FALSE
    BY ThreadIsRecord DEF Jobs
  <1>2. preflight \in CheckRecords
    BY DEF TasksInv, ScreenTypes
  <1>3. preflight' \in CheckRecords /\ preflight'.running
    BY <1>2 DEF CheckRecords
  <1>4. ReviewFits(t) /\ t.job \notin Pages
    BY <1>1 DEF ReviewFits, Nil, Pages
  <1>5. Counted(t)'
    BY <1>1, <1>3 DEF Counted, Pages
  <1>6. \A u \in others : Counted(u)' /\ ~Alike(u, t)
    BY <1>1, <1>3, Older DEF Counted, Alike
  <1>7. Start(t, others)
    BY <1>1
  <1> QED BY <1>1, <1>3, <1>4, <1>5, <1>6, <1>7, JobStarts

LEMMA ReviewChecksInv == ASSUME TasksInv, NEW t \in threads, ReviewChecks(t) PROVE TasksInv'
  <1>1. /\ UNCHANGED <<page, imagesOp, screen, task, dir>>
        /\ reading' = reading \ {t.token} /\ Direct(t)
        /\ recovery' = [recovery EXCEPT !.token = 0] /\ form' = Chosen(t)
        /\ after' = [cfg |-> form', asked |-> t.seen]
    BY DEF ReviewChecks, Answered, Waiting
  <1>2. /\ t \in ThreadRecords /\ t.job = "review" /\ Chosen(t) \in Settings
        /\ t.asked \in Nat /\ t.seen \in Nat /\ ReviewFits(t)
    BY ChosenFits DEF ReviewChecks
  <1>3. after' \in [cfg : Settings, asked : Nat] /\ (after'.cfg.resume => after'.asked # 0)
    BY <1>1, <1>2 DEF Chosen, Direct, ReviewFits
  <1>4. /\ threads' \subseteq ThreadRecords
        /\ preflight' \in CheckRecords
        /\ remains' = [budget |-> remains'.budget, token |-> remains'.token]
        /\ remains'.token \in Nat \ {0}
        /\ ThreadsFit' /\ RunsAlone' /\ PagesFit'
        /\ \A u \in threads' : ReviewFits(u)
    <2>1. CASE Alone(t)
      <3>1. PICK e \in Envs \cup {Nil} : e = Chosen(t).env
        BY <1>2 DEF Settings
      <3>2. preflight' = [preflight EXCEPT !.running = TRUE, !.checking = e]
        BY <1>1, <2>1, <3>1 DEF ReviewChecks
      <3>3. threads = {t} /\ ~preflight.running /\ ~Running'
        BY <1>1, <1>2, <2>1, NothingElse DEF Alone, Running
      <3>4. Start(Thread("check"), {})
        BY <2>1, <3>3 DEF ReviewChecks
      <3>5. PICK none \in SUBSET threads : none = {}
        OBVIOUS
      <3>6. Start(Thread("check"), none) /\ \A u \in none : u.token \in reading => u.token \in reading'
        BY <3>4, <3>5
      <3>7. UNCHANGED <<page, imagesOp>>
        BY <1>1
      <3> QED BY <3>2, <3>3, <3>6, <3>7, CheckStarts
    <2>2. CASE ~Alone(t)
      <3>1. threads' = threads \ {t} /\ remains' = remains /\ preflight' = preflight
        BY <2>2 DEF ReviewChecks, Closed
      <3>2. ThreadsFit' /\ \A u \in threads' : ReviewFits(u)
        BY <1>1, <3>1, ThreadEnds
      <3>3. PagesFit'
        BY <1>1, <3>1, PagesStay DEF TasksInv, ScreenTypes
      <3> QED BY <1>1, <3>1, <3>2, <3>3 DEF TasksInv, ScreenTypes, RunsAlone, Running
    <2> QED BY <2>1, <2>2
  <1>5. ScreenTypes'
    BY <1>1, <1>2, <1>3, <1>4, RecoveryTypes DEF TasksInv, ScreenTypes
  <1>6. DialogsFit' /\ ReviewsFit'
    BY <1>1, <1>3, <1>4 DEF TasksInv, DialogsFit, Running, ReviewsFit
  <1> QED BY <1>4, <1>5, <1>6 DEF TasksInv

LEMMA QuickCheckInv == ASSUME TasksInv, QuickCheck PROVE TasksInv'
  <1>1. /\ UNCHANGED <<form, page, after, reading, recovery, imagesOp, screen, task, dir>>
        /\ ~Running /\ ~preflight.running
        /\ preflight' = [preflight EXCEPT !.running = TRUE, !.checking = form.env]
        /\ Start(Thread("check"), threads)
    BY DEF QuickCheck, Allows, Occupied, Pages, Spawn
  <1>2. PICK e \in Envs \cup {Nil} : e = form.env
    BY DEF TasksInv, ScreenTypes, Settings
  <1>3. preflight' = [preflight EXCEPT !.running = TRUE, !.checking = e] /\ ~Running'
    BY <1>1, <1>2 DEF Running
  <1>4. /\ threads' \subseteq ThreadRecords
        /\ preflight' \in CheckRecords
        /\ remains' = [budget |-> remains'.budget, token |-> remains'.token]
        /\ remains'.token \in Nat \ {0}
        /\ ThreadsFit' /\ RunsAlone' /\ PagesFit'
        /\ \A u \in threads' : ReviewFits(u)
    BY <1>1, <1>3, CheckStarts
  <1>5. ScreenTypes'
    BY <1>1, <1>4 DEF TasksInv, ScreenTypes
  <1>6. DialogsFit' /\ ReviewsFit'
    BY <1>1, <1>4 DEF TasksInv, DialogsFit, Running, ReviewsFit
  <1> QED BY <1>4, <1>5, <1>6 DEF TasksInv

LEMMA CheckEndsInv == ASSUME TasksInv, NEW t \in threads, CheckEnds(t) PROVE TasksInv'
  <1>1. UNCHANGED <<form, page, imagesOp, screen, task, dir>> /\ t.job = "check" /\ after' = NoPlan
    BY DEF CheckEnds
  <1>2. PICK ok_ \in BOOLEAN :
          preflight' = [preflight EXCEPT !.running = FALSE, !.completed = TRUE,
                                         !.checked = preflight.checking, !.ok = ok_]
    BY DEF CheckEnds
  <1>3. preflight \in CheckRecords
    BY DEF TasksInv, ScreenTypes
  <1>4. preflight' \in CheckRecords
    BY <1>2, <1>3 DEF CheckRecords
  <1>5. /\ threads' \subseteq ThreadRecords /\ reading' \subseteq Nat
        /\ recovery' \in [token : Nat, set : SUBSET Nat]
        /\ remains' = [budget |-> remains'.budget, token |-> remains'.token]
        /\ remains'.token \in Nat \ {0}
        /\ ThreadsFit' /\ RunsAlone' /\ PagesFit'
        /\ \A u \in threads' : ReviewFits(u)
    <2>1. \A u \in threads \ {t} : u.job # "check"
      BY <1>1 DEF TasksInv, ThreadsFit, Alike
    <2>2. CASE after # NoPlan /\ form = after.cfg /\ ~Reason(preflight', form) /\ ~Occupied
      <3>1. PICK c \in Settings, a \in Nat : c = after.cfg /\ a = after.asked /\ (c.resume => a # 0)
        BY DEF TasksInv, ScreenTypes, ReviewsFit
      <3>2. /\ Start(Reviewer(c, a, TRUE), threads \ {t}) /\ reading' = reading \cup {Token}
            /\ recovery' = [recovery EXCEPT !.token = Token]
        BY <2>2, <3>1 DEF CheckEnds
      <3>3. PICK others \in SUBSET threads : others = threads \ {t}
        OBVIOUS
      <3>4. ~Running' /\ \A u \in others : u.job = "check" => preflight'.running
        BY <1>1, <2>1, <2>2, <3>3 DEF Occupied, Running
      <3>5. Start(Reviewer(c, a, TRUE), others) /\ UNCHANGED <<page, imagesOp>>
        BY <1>1, <3>2, <3>3
      <3> QED BY <3>1, <3>2, <3>4, <3>5, ReviewStarts
    <2>3. CASE ~(after # NoPlan /\ form = after.cfg /\ ~Reason(preflight', form) /\ ~Occupied)
      <3>1. threads' = threads \ {t} /\ UNCHANGED <<remains, recovery, reading>>
        BY <2>3 DEF CheckEnds, Closed
      <3>2. \A u \in threads' : Counted(u)'
        BY <1>1, <2>1, <3>1 DEF TasksInv, ThreadsFit, Counted
      <3>3. ThreadsFit'
        BY <3>1, <3>2, FewerFit
      <3>4. PagesFit'
        BY <1>1, <3>1, PagesStay DEF TasksInv, ScreenTypes
      <3>5. RunsAlone'
        BY <1>1, <3>1 DEF TasksInv, RunsAlone, Running
      <3> QED BY <3>1, <3>3, <3>4, <3>5 DEF TasksInv, ScreenTypes, ReviewsFit
    <2> QED BY <2>2, <2>3
  <1>6. after' \in [cfg : Settings, asked : Nat] /\ ~after'.cfg.resume
    BY <1>1, NoConfigFits DEF NoPlan
  <1>7. ScreenTypes'
    BY <1>1, <1>4, <1>5, <1>6 DEF TasksInv, ScreenTypes
  <1>8. DialogsFit' /\ ReviewsFit'
    BY <1>1, <1>5, <1>6 DEF TasksInv, DialogsFit, Running, ReviewsFit
  <1> QED BY <1>5, <1>7, <1>8 DEF TasksInv

LEMMA NoScreenFits ==
    NoScreen \in ScreenRecords
    /\ NoScreen.kind = Nil /\ ~NoScreen.fresh.resume
  BY NoConfigFits DEF NoScreen, ScreenRecords

\* A dialog closes, and the review of what was chosen in it may start.
LEMMA ClosesFits ==
    ASSUME TasksInv, screen' = NoScreen,
           UNCHANGED <<form, page, preflight, after, imagesOp, task, dir>>,
           \/ UNCHANGED <<recovery, reading, threads, remains>>
           \/ ~Running /\ \E c \in Settings, a \in Nat, s \in BOOLEAN :
                  (s /\ c.resume => a # 0) /\ Review(Reviewer(c, a, s))
    PROVE  TasksInv'
  <1>1. NoScreen \in ScreenRecords
        /\ NoScreen.kind = Nil /\ ~NoScreen.fresh.resume
    BY NoScreenFits
  <1>2. DialogsFit'
    BY <1>1 DEF TasksInv, DialogsFit, Nil
  <1>3. CASE UNCHANGED <<recovery, reading, threads, remains>>
    <2>1. ScreenTypes' /\ RunsAlone' /\ ReviewsFit'
      BY <1>1, <1>3 DEF TasksInv, ScreenTypes, RunsAlone, Running, ReviewsFit
    <2>2. ThreadsFit' /\ PagesFit'
      BY <1>3 DEF TasksInv, ThreadsFit, Counted, PagesFit, ShownIsChosen
    <2> QED BY <1>2, <2>1, <2>2 DEF TasksInv
  <1>4. ASSUME ~Running, NEW c \in Settings, NEW a \in Nat, NEW s \in BOOLEAN, s /\ c.resume => a # 0,
               Review(Reviewer(c, a, s))
        PROVE  TasksInv'
    <2>1. Reviewer(c, a, s).token = Token
      BY ReviewerIsRecord
    <2>2. /\ Start(Reviewer(c, a, s), threads)
          /\ reading' = reading \cup {Token} /\ recovery' = [recovery EXCEPT !.token = Token]
      BY <1>4, <2>1 DEF Review, Spawn
    <2>3. ~Running' /\ UNCHANGED <<page, imagesOp>> /\ \A u \in threads : u.job = "check" => preflight'.running
      BY <1>4, Older DEF Running, Counted
    <2>4. /\ threads' \subseteq ThreadRecords /\ reading' \subseteq Nat
          /\ recovery' \in [token : Nat, set : SUBSET Nat]
          /\ remains' = [budget |-> remains'.budget, token |-> remains'.token]
          /\ remains'.token \in Nat \ {0}
          /\ ThreadsFit' /\ RunsAlone' /\ PagesFit'
          /\ \A u \in threads' : ReviewFits(u)
      BY <1>4, <2>2, <2>3, ReviewStarts
    <2>5. ScreenTypes'
      BY <1>1, <2>4 DEF TasksInv, ScreenTypes
    <2>6. ReviewsFit'
      BY <1>1, <2>4 DEF TasksInv, ReviewsFit
    <2> QED BY <1>2, <2>4, <2>5, <2>6 DEF TasksInv
  <1> QED BY <1>3, <1>4

LEMMA DecideInv == ASSUME TasksInv, Decide PROVE TasksInv'
  <1>1. /\ screen' = NoScreen /\ UNCHANGED <<form, page, preflight, after, imagesOp, task, dir>>
        /\ \/ UNCHANGED <<recovery, reading, threads, remains>>
           \/ ~Running /\ screen.seen # 0 /\ Review(Reviewer(Frozen, screen.seen, TRUE))
           \/ ~Running /\ Review(Reviewer(screen.fresh, 0, TRUE))
    BY DEF Decide
  <1>2. /\ Frozen \in Settings /\ screen.seen \in Nat
        /\ screen.fresh \in Settings /\ ~screen.fresh.resume
    BY FrozenFits DEF TasksInv, ScreenTypes, ReviewsFit, ScreenRecords
  <1>3. \/ UNCHANGED <<recovery, reading, threads, remains>>
        \/ ~Running /\ \E c \in Settings, a \in Nat, s \in BOOLEAN :
               (s /\ c.resume => a # 0) /\ Review(Reviewer(c, a, s))
    BY <1>1, <1>2
  <1> QED BY <1>1, <1>3, ClosesFits

LEMMA PickInv == ASSUME TasksInv, Pick PROVE TasksInv'
  <1>1. /\ screen' = NoScreen /\ UNCHANGED <<form, page, preflight, after, imagesOp, task, dir>>
        /\ \/ UNCHANGED <<recovery, reading, threads, remains>>
           \/ ~Running /\ Review(Reviewer(Frozen, screen.seen, FALSE))
    BY DEF Pick
  <1>2. Frozen \in Settings /\ screen.seen \in Nat
    BY FrozenFits DEF TasksInv, ScreenTypes, ScreenRecords
  <1>3. \/ UNCHANGED <<recovery, reading, threads, remains>>
        \/ ~Running /\ \E c \in Settings, a \in Nat, s \in BOOLEAN :
               (s /\ c.resume => a # 0) /\ Review(Reviewer(c, a, s))
    BY <1>1, <1>2
  <1> QED BY <1>1, <1>3, ClosesFits

LEMMA CloseSettingsInv == ASSUME TasksInv, CloseSettings PROVE TasksInv'
  <1>1. /\ screen' = NoScreen /\ UNCHANGED <<form, page, preflight, after, imagesOp, task, dir>>
        /\ UNCHANGED <<recovery, reading, threads, remains>>
    BY DEF CloseSettings
  <1> QED BY <1>1, ClosesFits

\* The rest is left as it is, or so far as the invariant looks at it.
LEMMA StaysFit ==
    ASSUME TasksInv, UNCHANGED <<page, threads, reading, preflight, imagesOp, after, remains>>,
           task' = task \/ threads = {}, ~screen'.fresh.resume,
           screen'.kind \in {"delete", "storage"} => UNCHANGED <<screen, task>>
    PROVE  ThreadsFit' /\ DialogsFit' /\ RunsAlone' /\ PagesFit' /\ ReviewsFit'
  <1>1. ThreadsFit' /\ PagesFit' /\ ReviewsFit'
    BY DEF TasksInv, ThreadsFit, Counted, PagesFit, ShownIsChosen, ReviewsFit
  <1>2. RunsAlone' /\ DialogsFit'
    BY DEF TasksInv, RunsAlone, DialogsFit, Running
  <1> QED BY <1>1, <1>2

LEMMA EditFormInv == ASSUME TasksInv, EditForm PROVE TasksInv'
  <1>1. /\ UNCHANGED <<page, preflight, after, reading, recovery, imagesOp, screen, task, threads, dir>>
        /\ form' \in [env : Envs, target : {"there", "fresh"}, resume : {FALSE}]
        /\ \E w \in {"edits"} : remains' = [remains EXCEPT !.budget[w] = @ - 1]
    BY DEF EditForm, Edit, Spend
  <1>2. /\ remains' = [budget |-> remains'.budget, token |-> remains'.token]
        /\ remains'.token = remains.token
    BY <1>1 DEF TasksInv, ScreenTypes
  <1>3. form' \in Settings
    BY <1>1 DEF Settings
  <1>4. ScreenTypes'
    BY <1>1, <1>2, <1>3 DEF TasksInv, ScreenTypes
  <1>5. ThreadsFit' /\ DialogsFit' /\ RunsAlone' /\ PagesFit' /\ ReviewsFit'
    BY <1>1, <1>2 DEF TasksInv, ThreadsFit, Counted, DialogsFit, RunsAlone, Running, PagesFit,
                      ShownIsChosen, ReviewsFit
  <1> QED BY <1>4, <1>5 DEF TasksInv

LEMMA OpenDialogInv ==
    ASSUME TasksInv, OpenSettings \/ RequestTool
    PROVE  TasksInv'
  <1>1. PICK k \in {"environment", "launch"} : screen' = [NoScreen EXCEPT !.kind = k]
    BY DEF OpenSettings, RequestTool
  <1>2. UNCHANGED <<form, page, preflight, after, reading, recovery, imagesOp, task, threads, dir, remains>>
    BY DEF OpenSettings, RequestTool
  <1>3. screen' \in ScreenRecords /\ screen'.kind = k /\ ~screen'.fresh.resume
    BY <1>1, NoScreenFits DEF ScreenRecords
  <1>4. ScreenTypes'
    BY <1>2, <1>3 DEF TasksInv, ScreenTypes
  <1>5. ThreadsFit' /\ DialogsFit' /\ RunsAlone' /\ PagesFit' /\ ReviewsFit'
    BY <1>2, <1>3, StaysFit
  <1> QED BY <1>4, <1>5 DEF TasksInv

LEMMA ConfirmToolInv == ASSUME TasksInv, ConfirmTool PROVE TasksInv'
  <1>1. /\ UNCHANGED <<form, preflight, after, reading, recovery, imagesOp, threads, dir, remains>>
        /\ screen' = NoScreen
    BY DEF ConfirmTool
  <1>2. screen' \in ScreenRecords /\ screen'.kind = Nil /\ ~screen'.fresh.resume
    BY <1>1, NoScreenFits
  <1>3. PICK c \in Settings : c = form
    BY DEF TasksInv, ScreenTypes
  <1>4. /\ task' \in TaskRecords /\ page' \in [Pages -> PageRecords]
        /\ \A p \in Pages : page'[p] = page[p] \/ (page'[p].token = 0 /\ page'[p].shown = Nil)
        /\ task' = task \/ threads = {}
    <2>1. CASE UNCHANGED <<task, page>>
      BY <2>1 DEF TasksInv, ScreenTypes
    <2>2. CASE Allows("run") /\ LaunchTask("tool", c, 0, 0)
      <3>1. ~Reading /\ ~Maintenance /\ ~preflight.running
        BY <2>2 DEF Allows, Occupied, Pages
      <3> QED BY <2>2, <3>1, Nothing, LaunchFits
    <2> QED BY <1>3, <2>1, <2>2 DEF ConfirmTool
  <1>5. ScreenTypes'
    BY <1>1, <1>2, <1>4 DEF TasksInv, ScreenTypes
  <1>6. PagesFit'
    BY <1>1, <1>4, PagesCleared
  <1>7. ThreadsFit' /\ DialogsFit' /\ RunsAlone' /\ ReviewsFit'
    BY <1>1, <1>2, <1>4 DEF TasksInv, ThreadsFit, Counted, DialogsFit, RunsAlone, Running, ReviewsFit, Nil
  <1> QED BY <1>5, <1>6, <1>7 DEF TasksInv

LEMMA StartStatsInv == ASSUME TasksInv, StartStats PROVE TasksInv'
  <1>1. /\ UNCHANGED <<form, preflight, after, reading, recovery, imagesOp, screen, threads, dir, remains>>
        /\ task' = [kind |-> "stats", cfg |-> form, asked |-> 0, seen |-> 0]
        /\ page' = [page EXCEPT !["report"].shown = Nil]
    BY DEF StartStats
  <1>2. threads = {} /\ screen.kind = Nil
    <2>1. ~Reading /\ ~Maintenance /\ ~preflight.running /\ screen.kind = Nil
      BY DEF StartStats, AtMain, Allows, Occupied, Pages
    <2> QED BY <2>1, Nothing
  <1>3. page \in [Pages -> PageRecords] /\ form \in Settings
    BY DEF TasksInv, ScreenTypes
  <1> DEFINE r == [page["report"] EXCEPT !.shown = Nil]
  <1>4. /\ r \in PageRecords /\ r.token = page["report"].token /\ r.path = page["report"].path
        /\ r.shown = Nil
    BY <1>3 DEF PageRecords, Pages, Paths
  <1>5. page' = [page EXCEPT !["report"] = r]
    BY <1>1, <1>3 DEF Pages
  <1> HIDE DEF r
  <1>6. /\ page' \in [Pages -> PageRecords] /\ page'["report"] = r
        /\ \A q \in Pages \ {"report"} : page'[q] = page[q]
    BY <1>3, <1>4, <1>5, OnePage DEF Pages
  <1>7. task' \in TaskRecords
    BY <1>1, <1>3 DEF TaskRecords
  <1>8. ScreenTypes'
    BY <1>1, <1>6, <1>7 DEF TasksInv, ScreenTypes
  <1>9. PagesFit'
    BY <1>1, <1>2, <1>4, <1>6 DEF TasksInv, PagesFit, ShownIsChosen
  <1>10. ThreadsFit' /\ DialogsFit' /\ RunsAlone' /\ ReviewsFit'
    BY <1>1, <1>2 DEF TasksInv, ThreadsFit, Counted, DialogsFit, RunsAlone, Running, ReviewsFit, Nil
  <1> QED BY <1>8, <1>9, <1>10 DEF TasksInv

LEMMA DirFits ==
    ASSUME TasksInv, NEW d \in BOOLEAN, NEW w \in BOOLEAN
    PROVE  /\ [dir EXCEPT !.version = @ + 1, !.done = d] \in DirRecords
           /\ [dir EXCEPT !.writer = w, !.version = @ + 1] \in DirRecords
           /\ [dir EXCEPT !.writer = w, !.done = d] \in DirRecords
           /\ dir \in DirRecords
  <1>1. dir \in DirRecords
    BY DEF TasksInv, ScreenTypes
  <1>2. dir.version + 1 \in Nat \ {0}
    BY <1>1 DEF DirRecords
  <1>3. [dir EXCEPT !.version = @ + 1, !.done = d] \in DirRecords
    BY <1>1, <1>2 DEF DirRecords
  <1>4. [dir EXCEPT !.writer = w, !.version = @ + 1] \in DirRecords
    BY <1>1, <1>2 DEF DirRecords
  <1>5. [dir EXCEPT !.writer = w, !.done = d] \in DirRecords
    BY <1>1 DEF DirRecords
  <1> QED BY <1>1, <1>3, <1>4, <1>5

LEMMA OtherWriterInv == ASSUME TasksInv, OtherWriter PROVE TasksInv'
  <1>1. UNCHANGED <<form, page, preflight, after, reading, recovery, imagesOp, screen, task, threads, remains>>
    BY DEF OtherWriter
  <1>2. dir' \in DirRecords
    BY DirFits DEF OtherWriter
  <1>3. ScreenTypes'
    BY <1>1, <1>2 DEF TasksInv, ScreenTypes
  <1>4. ThreadsFit' /\ DialogsFit' /\ RunsAlone' /\ PagesFit' /\ ReviewsFit'
    BY <1>1 DEF TasksInv, ThreadsFit, Counted, DialogsFit, RunsAlone, Running, PagesFit,
                ShownIsChosen, ReviewsFit
  <1> QED BY <1>3, <1>4 DEF TasksInv

LEMMA TaskEndsInv == ASSUME TasksInv, TaskEnds PROVE TasksInv'
  <1>1. /\ UNCHANGED <<form, preflight, after, recovery, imagesOp, screen>>
        /\ task' = NoTask /\ threads = {}
    BY DEF TaskEnds, TasksInv, RunsAlone
  <1>2. task' \in TaskRecords /\ ~Running'
    BY <1>1, NoConfigFits DEF NoTask, TaskRecords, Running
  <1>3. dir' \in DirRecords
    BY DirFits DEF TaskEnds
  <1>4. page \in [Pages -> PageRecords]
    BY DEF TasksInv, ScreenTypes
  <1> DEFINE opened == [page["summary"] EXCEPT !.changed = TRUE]
  <1>5. opened \in PageRecords
    BY <1>4 DEF PageRecords, Pages
  <1>6. [page EXCEPT !["summary"].changed = TRUE] = [page EXCEPT !["summary"] = opened]
    BY <1>4
  <1> HIDE DEF opened
  <1>7. \/ UNCHANGED <<page, reading, threads, remains>>
        \/ \E p \in Pages, v \in Sources :
             BeginRead(IF p = "summary" THEN [page EXCEPT !["summary"] = opened] ELSE page, p, v)
    BY <1>6 DEF TaskEnds, Spawned, Pages
  <1>8. /\ page' \in [Pages -> PageRecords] /\ reading' \subseteq Nat
        /\ threads' \subseteq ThreadRecords
        /\ remains' = [budget |-> remains'.budget, token |-> remains'.token]
        /\ remains'.token \in Nat \ {0}
        /\ ThreadsFit' /\ RunsAlone' /\ PagesFit'
        /\ \A t \in threads' : ReviewFits(t)
    <2>1. CASE UNCHANGED <<page, reading, threads, remains>>
      <3>1. ThreadsFit' /\ PagesFit' /\ RunsAlone'
        BY <1>1, <2>1 DEF TasksInv, ThreadsFit, PagesFit, ShownIsChosen, RunsAlone
      <3> QED BY <1>1, <2>1, <3>1 DEF TasksInv, ScreenTypes
    <2>2. CASE \E p \in Pages, v \in Sources :
                 BeginRead(IF p = "summary" THEN [page EXCEPT !["summary"] = opened] ELSE page, p, v)
      <3>1. PICK p \in Pages, v \in Sources, f \in [Pages -> PageRecords] :
              BeginRead(f, p, v) /\ \A q \in Pages \ {p} : f[q] = page[q]
        <4>1. PICK p \in Pages, v \in Sources :
                BeginRead(IF p = "summary" THEN [page EXCEPT !["summary"] = opened] ELSE page, p, v)
          BY <2>2
        <4>2. PICK f : f = IF p = "summary" THEN [page EXCEPT !["summary"] = opened] ELSE page
          OBVIOUS
        <4>3. f \in [Pages -> PageRecords] /\ \A q \in Pages \ {p} : f[q] = page[q]
          BY <1>4, <1>5, <4>2, OnePage DEF Pages
        <4> QED BY <4>1, <4>2, <4>3
      <3>2. v \in Paths /\ preflight' = preflight /\ imagesOp' = imagesOp
        BY <1>1 DEF Paths
      <3> QED BY <1>1, <1>2, <3>1, <3>2, BeginReadFits
    <2> QED BY <1>7, <2>1, <2>2
  <1>9. ScreenTypes'
    BY <1>1, <1>2, <1>3, <1>8 DEF TasksInv, ScreenTypes
  <1>10. DialogsFit' /\ ReviewsFit'
    BY <1>1, <1>2, <1>8 DEF TasksInv, DialogsFit, ReviewsFit
  <1> QED BY <1>8, <1>9, <1>10 DEF TasksInv

\* A thread starts that is no reading, review or check.
LEMMA ThreadStarts ==
    ASSUME TasksInv, NEW j \in {"load", "refresh", "delete", "storage"}, Start(Thread(j), threads),
           UNCHANGED <<page, preflight>>, ~Running', reading \subseteq reading',
           (j = "load") => Token \in reading',
           (j \in {"refresh", "delete"}) => imagesOp'.op = j,
           (j = "storage") => imagesOp'.loading,
           \A u \in threads : /\ u.job \in {"refresh", "delete"} => imagesOp'.op = u.job
                              /\ u.job = "storage" => imagesOp'.loading
                              /\ j # "load" => u.job # j
    PROVE  /\ threads' \subseteq ThreadRecords
           /\ remains' = [budget |-> remains'.budget, token |-> remains'.token]
           /\ remains'.token \in Nat \ {0}
           /\ ThreadsFit' /\ RunsAlone' /\ PagesFit'
           /\ \A u \in threads' : ReviewFits(u)
  <1>1. PICK t \in ThreadRecords : /\ t = Thread(j) /\ t.job = j /\ t.token = Token
                                   /\ t.answer = Nil /\ t.sure = FALSE
    BY ThreadIsRecord DEF Jobs
  <1>2. ReviewFits(t) /\ t.job \notin Pages
    BY <1>1 DEF ReviewFits, Nil, Pages
  <1>3. Counted(t)'
    BY <1>1 DEF Counted, Pages
  <1>4. \A u \in threads : Counted(u)' /\ ~Alike(u, t)
    BY <1>1, Older DEF Counted, Alike
  <1>5. Start(t, threads)
    BY <1>1
  <1> QED BY <1>1, <1>2, <1>3, <1>4, <1>5, JobStarts

LEMMA OpenPickerInv == ASSUME TasksInv, OpenPicker PROVE TasksInv'
  <1>1. /\ UNCHANGED <<form, page, preflight, after, recovery, imagesOp, task, dir>>
        /\ ~Running /\ reading' = reading \cup {Token} /\ Start(Thread("load"), threads)
        /\ screen' = [NoScreen EXCEPT !.kind = "picker"]
    BY DEF OpenPicker, Allows, Occupied, Pages, Spawn
  <1>2. screen' \in ScreenRecords /\ screen'.kind = "picker" /\ ~screen'.fresh.resume
    BY <1>1, NoScreenFits DEF ScreenRecords
  <1>3. ~Running' /\ Token \in Nat
    BY <1>1 DEF Running, TasksInv, ScreenTypes, Token
  <1>4. /\ threads' \subseteq ThreadRecords
        /\ remains' = [budget |-> remains'.budget, token |-> remains'.token]
        /\ remains'.token \in Nat \ {0}
        /\ ThreadsFit' /\ RunsAlone' /\ PagesFit'
        /\ \A u \in threads' : ReviewFits(u)
    BY <1>1, <1>3, Older, ThreadStarts DEF Counted
  <1>5. ScreenTypes'
    BY <1>1, <1>2, <1>3, <1>4 DEF TasksInv, ScreenTypes
  <1>6. DialogsFit' /\ ReviewsFit'
    BY <1>1, <1>2, <1>4 DEF TasksInv, DialogsFit, ReviewsFit
  <1> QED BY <1>4, <1>5, <1>6 DEF TasksInv

LEMMA LoadEndsInv == ASSUME TasksInv, NEW t \in threads, LoadEnds(t) PROVE TasksInv'
  <1>1. /\ UNCHANGED <<form, page, preflight, after, recovery, imagesOp, task, dir, remains>>
        /\ threads' = threads \ {t} /\ reading' = reading \ {t.token}
        /\ screen' = IF screen.kind = "picker" THEN [screen EXCEPT !.seen = dir.version] ELSE screen
    BY DEF LoadEnds, Closed
  <1>2. screen' \in ScreenRecords /\ screen'.kind = screen.kind /\ ~screen'.fresh.resume
    BY <1>1 DEF TasksInv, ScreenTypes, ScreenRecords, DirRecords, ReviewsFit
  <1>3. ThreadsFit' /\ \A u \in threads' : ReviewFits(u)
    BY <1>1, ThreadEnds
  <1>4. PagesFit'
    BY <1>1, PagesStay DEF TasksInv, ScreenTypes
  <1>5. ScreenTypes'
    BY <1>1, <1>2 DEF TasksInv, ScreenTypes
  <1>6. DialogsFit' /\ RunsAlone' /\ ReviewsFit'
    BY <1>1, <1>2, <1>3 DEF TasksInv, DialogsFit, RunsAlone, Running, ReviewsFit
  <1> QED BY <1>3, <1>4, <1>5, <1>6 DEF TasksInv

LEMMA OperationFits ==
    ASSUME TasksInv, NEW o \in {Nil, "refresh", "confirm", "delete", "storage"}, Operation(o)
    PROVE  imagesOp' \in OperationRecords /\ imagesOp'.op = o /\ imagesOp'.loading = imagesOp.loading
  <1>1. imagesOp \in OperationRecords /\ imagesOp' = [imagesOp EXCEPT !.op = o]
    BY DEF TasksInv, ScreenTypes, Operation
  <1> QED BY <1>1 DEF OperationRecords

LEMMA RefreshInv == ASSUME TasksInv, Refresh PROVE TasksInv'
  <1>1. /\ UNCHANGED <<form, page, preflight, after, reading, recovery, screen, task, dir>>
        /\ ~Running /\ Start(Thread("refresh"), threads) /\ screen.kind = Nil
        /\ imagesOp' \in OperationRecords /\ imagesOp'.op = "refresh"
        /\ imagesOp'.loading = imagesOp.loading /\ ~imagesOp.loading /\ threads = {}
    <2>1. ~Running /\ ~Reading /\ ~Maintenance /\ ~preflight.running
      BY DEF Refresh, Allows, Occupied, Pages
    <2>2. threads = {} /\ ~imagesOp.loading
      BY <2>1, Nothing DEF Maintenance
    <2>3. Operation("refresh")
      BY DEF Refresh
    <2> QED BY <2>1, <2>2, <2>3, OperationFits DEF Refresh, AtMain, Spawn
  <1>2. ~Running'
    BY <1>1 DEF Running
  <1>3. /\ threads' \subseteq ThreadRecords
        /\ remains' = [budget |-> remains'.budget, token |-> remains'.token]
        /\ remains'.token \in Nat \ {0}
        /\ ThreadsFit' /\ RunsAlone' /\ PagesFit'
        /\ \A u \in threads' : ReviewFits(u)
    BY <1>1, <1>2, ThreadStarts
  <1>4. ScreenTypes'
    BY <1>1, <1>3 DEF TasksInv, ScreenTypes
  <1>5. DialogsFit' /\ ReviewsFit'
    BY <1>1, <1>3 DEF TasksInv, DialogsFit, ReviewsFit, Nil
  <1> QED BY <1>3, <1>4, <1>5 DEF TasksInv

LEMMA RequestDeleteInv == ASSUME TasksInv, RequestDelete PROVE TasksInv'
  <1>1. /\ UNCHANGED <<form, page, preflight, after, reading, recovery, task, threads, dir, remains>>
        /\ imagesOp' \in OperationRecords /\ imagesOp'.op = "confirm" /\ ~imagesOp'.loading
        /\ screen' = [NoScreen EXCEPT !.kind = "delete"] /\ threads = {}
    <2>1. ~Reading /\ ~Maintenance /\ ~preflight.running
      BY DEF RequestDelete, Allows, Occupied, Pages
    <2>2. threads = {} /\ ~imagesOp.loading
      BY <2>1, Nothing DEF Maintenance
    <2>3. Operation("confirm")
      BY DEF RequestDelete
    <2> QED BY <2>2, <2>3, OperationFits DEF RequestDelete
  <1>2. screen' \in ScreenRecords /\ screen'.kind = "delete" /\ ~screen'.fresh.resume
    BY <1>1, NoScreenFits DEF ScreenRecords
  <1>3. ScreenTypes'
    BY <1>1, <1>2 DEF TasksInv, ScreenTypes
  <1>4. PagesFit'
    BY <1>1, PagesStay DEF TasksInv, ScreenTypes
  <1>5. ThreadsFit' /\ DialogsFit' /\ RunsAlone' /\ ReviewsFit'
    BY <1>1, <1>2 DEF TasksInv, ThreadsFit, DialogsFit, RunsAlone, ReviewsFit
  <1> QED BY <1>3, <1>4, <1>5 DEF TasksInv

LEMMA ConfirmDeleteInv == ASSUME TasksInv, ConfirmDelete PROVE TasksInv'
  <1>1. /\ UNCHANGED <<form, page, preflight, after, reading, recovery, task, dir>>
        /\ screen' = NoScreen
    BY DEF ConfirmDelete
  <1>2. screen' \in ScreenRecords /\ screen'.kind = Nil /\ ~screen'.fresh.resume
    BY <1>1, NoScreenFits
  <1>3. imagesOp.op = "confirm" /\ ~imagesOp.loading
        /\ \A u \in threads : u.job \notin {"refresh", "delete", "storage"}
    BY Older DEF TasksInv, DialogsFit, ConfirmDelete, Counted
  <1>4. /\ imagesOp' \in OperationRecords /\ ~imagesOp'.loading
        /\ threads' \subseteq ThreadRecords
        /\ remains' = [budget |-> remains'.budget, token |-> remains'.token]
        /\ remains'.token \in Nat \ {0}
        /\ ThreadsFit' /\ RunsAlone' /\ PagesFit'
        /\ \A u \in threads' : ReviewFits(u)
    <2>1. CASE Operation(Nil) /\ UNCHANGED <<threads, remains>>
      <3>1. imagesOp' \in OperationRecords /\ ~imagesOp'.loading
        BY <1>3, <2>1, OperationFits
      <3>2. \A u \in threads : Counted(u)'
        BY <1>1, <1>3, Older DEF Counted
      <3>3. ThreadsFit'
        BY <2>1, <3>2, FewerFit
      <3>4. PagesFit'
        BY <1>1, <2>1, PagesStay DEF TasksInv, ScreenTypes
      <3> QED BY <1>1, <2>1, <3>1, <3>3, <3>4 DEF TasksInv, ScreenTypes, RunsAlone, Running, ReviewsFit
    <2>2. CASE ~Running /\ Operation("delete") /\ Start(Thread("delete"), threads)
      <3>1. imagesOp' \in OperationRecords /\ ~imagesOp'.loading /\ imagesOp'.op = "delete"
        BY <1>3, <2>2, OperationFits
      <3>2. ~Running'
        BY <1>1, <2>2 DEF Running
      <3> QED BY <1>1, <1>3, <2>2, <3>1, <3>2, ThreadStarts
    <2> QED BY <2>1, <2>2 DEF ConfirmDelete, Spawned, Spawn
  <1>5. ScreenTypes'
    BY <1>1, <1>2, <1>4 DEF TasksInv, ScreenTypes
  <1>6. DialogsFit' /\ ReviewsFit'
    BY <1>1, <1>2, <1>4 DEF TasksInv, DialogsFit, ReviewsFit, Nil
  <1> QED BY <1>4, <1>5, <1>6 DEF TasksInv

LEMMA ImagesEndInv == ASSUME TasksInv, NEW t \in threads, ImagesEnd(t) PROVE TasksInv'
  <1>1. /\ UNCHANGED <<form, page, preflight, after, reading, recovery, screen, task, dir, remains>>
        /\ threads' = threads \ {t} /\ t.job \in {"refresh", "delete"} /\ Operation(Nil)
    BY DEF ImagesEnd, Closed
  <1>2. imagesOp.op = t.job /\ ~imagesOp.loading
    BY <1>1, Older DEF Counted, TasksInv, DialogsFit
  <1>3. imagesOp' \in OperationRecords /\ ~imagesOp'.loading
    BY <1>1, <1>2, OperationFits
  <1>4. \A u \in threads' : u.job \notin {"refresh", "delete", "storage"}
    BY <1>1, <1>2, Older DEF Counted, TasksInv, ThreadsFit, Alike
  <1>5. \A u \in threads' : Counted(u)'
    BY <1>1, <1>4, Older DEF Counted
  <1>6. ThreadsFit'
    BY <1>1, <1>5, FewerFit
  <1>7. PagesFit'
    BY <1>1, PagesStay DEF TasksInv, ScreenTypes
  <1>8. ScreenTypes'
    BY <1>1, <1>3 DEF TasksInv, ScreenTypes
  <1>9. DialogsFit' /\ RunsAlone' /\ ReviewsFit'
    BY <1>1, <1>2, <1>3 DEF TasksInv, DialogsFit, RunsAlone, Running, ReviewsFit
  <1> QED BY <1>6, <1>7, <1>8, <1>9 DEF TasksInv

LEMMA OpenStorageInv == ASSUME TasksInv, OpenStorage \/ RefreshStorage PROVE TasksInv'
  <1>1. /\ UNCHANGED <<form, page, preflight, after, reading, recovery, task, dir>>
        /\ ~Running /\ Start(Thread("storage"), threads)
        /\ imagesOp' \in OperationRecords /\ imagesOp'.op = "storage" /\ imagesOp'.loading
        /\ screen' \in ScreenRecords /\ screen'.kind = "storage" /\ ~screen'.fresh.resume
        /\ \A u \in threads : u.job \notin {"refresh", "delete", "storage"}
    <2>1. CASE OpenStorage
      <3>1. ~Running /\ ~Reading /\ ~Maintenance /\ ~preflight.running
        BY <2>1 DEF OpenStorage, Allows, Occupied, Pages
      <3>2. threads = {}
        BY <3>1, Nothing
      <3>3. screen' \in ScreenRecords /\ screen'.kind = "storage" /\ ~screen'.fresh.resume
        BY <2>1, NoScreenFits DEF OpenStorage, ScreenRecords
      <3>4. imagesOp' \in OperationRecords /\ imagesOp'.op = "storage" /\ imagesOp'.loading
        BY <2>1 DEF OpenStorage, OperationRecords
      <3> QED BY <2>1, <3>1, <3>2, <3>3, <3>4 DEF OpenStorage, Spawn
    <2>2. CASE RefreshStorage
      <3>1. ~Running /\ imagesOp.op = "storage" /\ ~imagesOp.loading /\ screen.kind = "storage"
        BY <2>2 DEF RefreshStorage, TasksInv, DialogsFit
      <3>2. imagesOp' \in OperationRecords /\ imagesOp'.op = "storage" /\ imagesOp'.loading
        BY <2>2, <3>1 DEF RefreshStorage, TasksInv, ScreenTypes, OperationRecords
      <3>3. \A u \in threads : u.job \notin {"refresh", "delete", "storage"}
        BY <3>1, Older DEF Counted
      <3> QED BY <2>2, <3>1, <3>2, <3>3 DEF RefreshStorage, Spawn, TasksInv, ScreenTypes, ReviewsFit
    <2> QED BY <2>1, <2>2
  <1>2. ~Running'
    BY <1>1 DEF Running
  <1>3. /\ threads' \subseteq ThreadRecords
        /\ remains' = [budget |-> remains'.budget, token |-> remains'.token]
        /\ remains'.token \in Nat \ {0}
        /\ ThreadsFit' /\ RunsAlone' /\ PagesFit'
        /\ \A u \in threads' : ReviewFits(u)
    BY <1>1, <1>2, ThreadStarts
  <1>4. ScreenTypes'
    BY <1>1, <1>3 DEF TasksInv, ScreenTypes
  <1>5. DialogsFit' /\ ReviewsFit'
    BY <1>1, <1>2, <1>3 DEF TasksInv, DialogsFit, ReviewsFit
  <1> QED BY <1>3, <1>4, <1>5 DEF TasksInv

LEMMA CloseStorageInv == ASSUME TasksInv, CloseStorage PROVE TasksInv'
  <1>1. /\ UNCHANGED <<form, page, preflight, after, reading, recovery, task, threads, dir, remains>>
        /\ screen' = NoScreen /\ (imagesOp' = imagesOp \/ (~imagesOp.loading /\ Operation(Nil)))
    BY DEF CloseStorage
  <1>2. screen' \in ScreenRecords /\ screen'.kind = Nil /\ ~screen'.fresh.resume
    BY <1>1, NoScreenFits
  <1>3. imagesOp.op = "storage"
    BY DEF CloseStorage, TasksInv, DialogsFit
  <1>4. imagesOp' \in OperationRecords /\ imagesOp'.loading = imagesOp.loading
        /\ (imagesOp'.loading => imagesOp'.op = "storage")
    BY <1>1, <1>3, OperationFits DEF TasksInv, ScreenTypes, OperationRecords
  <1>5. \A u \in threads' : Counted(u)'
    BY <1>1, <1>3, <1>4, Older DEF Counted
  <1>6. ThreadsFit'
    BY <1>1, <1>5, FewerFit
  <1>7. PagesFit'
    BY <1>1, PagesStay DEF TasksInv, ScreenTypes
  <1>8. ScreenTypes'
    BY <1>1, <1>2, <1>4 DEF TasksInv, ScreenTypes
  <1>9. DialogsFit' /\ RunsAlone' /\ ReviewsFit'
    BY <1>1, <1>2, <1>4 DEF TasksInv, DialogsFit, RunsAlone, Running, ReviewsFit, Nil
  <1> QED BY <1>6, <1>7, <1>8, <1>9 DEF TasksInv

LEMMA StorageEndsInv == ASSUME TasksInv, NEW t \in threads, StorageEnds(t) PROVE TasksInv'
  <1>1. /\ UNCHANGED <<form, page, preflight, after, reading, recovery, screen, task, dir, remains>>
        /\ threads' = threads \ {t} /\ t.job = "storage"
        /\ imagesOp' = [op |-> IF screen.kind = "storage" THEN imagesOp.op ELSE Nil, loading |-> FALSE]
    BY DEF StorageEnds, Closed
  <1>2. imagesOp.op = "storage"
    BY <1>1, Older DEF Counted, TasksInv, DialogsFit
  <1>3. imagesOp' \in OperationRecords /\ ~imagesOp'.loading
        /\ (screen.kind = "storage" => imagesOp'.op = "storage")
    BY <1>1, <1>2 DEF OperationRecords
  <1>4. \A u \in threads' : u.job \notin {"refresh", "delete", "storage"}
    BY <1>1, <1>2, Older DEF Counted, TasksInv, ThreadsFit, Alike
  <1>5. \A u \in threads' : Counted(u)'
    BY <1>1, <1>4, Older DEF Counted
  <1>6. ThreadsFit'
    BY <1>1, <1>5, FewerFit
  <1>7. PagesFit'
    BY <1>1, PagesStay DEF TasksInv, ScreenTypes
  <1>8. ScreenTypes'
    BY <1>1, <1>3 DEF TasksInv, ScreenTypes
  <1>9. DialogsFit' /\ RunsAlone' /\ ReviewsFit'
    BY <1>1, <1>2, <1>3 DEF TasksInv, DialogsFit, RunsAlone, Running, ReviewsFit
  <1> QED BY <1>6, <1>7, <1>8, <1>9 DEF TasksInv

LEMMA TasksInvInit == TasksInit => TasksInv
  <1> SUFFICES ASSUME TasksInit PROVE TasksInv
    OBVIOUS
  <1>1. threads = {} /\ reading = {} /\ task = NoTask /\ screen = NoScreen /\ after = NoPlan
        /\ recovery = [token |-> 0, set |-> {}] /\ imagesOp = [op |-> Nil, loading |-> FALSE]
        /\ remains = [budget |-> remains.budget, token |-> remains.token] /\ remains.token = 1
    BY DEF TasksInit
  <1>2. page \in [Pages -> PageRecords]
        /\ \A p \in Pages : page[p].token = 0 /\ page[p].shown = Nil
    BY DEF TasksInit, PageRecords, Paths
  <1>3. screen \in ScreenRecords /\ screen.kind = Nil /\ ~screen.fresh.resume
    BY <1>1, NoScreenFits
  <1>4. task \in TaskRecords /\ ~Running
    BY <1>1, NoConfigFits DEF NoTask, TaskRecords, Running
  <1>5. after \in [cfg : Settings, asked : Nat] /\ ~after.cfg.resume
    BY <1>1, NoConfigFits DEF NoPlan
  <1>6. form \in Settings /\ preflight \in CheckRecords /\ imagesOp \in OperationRecords
    BY DEF TasksInit, Settings, CheckRecords, OperationRecords
  <1>7. dir \in DirRecords /\ recovery \in [token : Nat, set : SUBSET Nat]
    <2>1. recovery \in [token : Nat, set : SUBSET Nat]
      BY <1>1
    <2>2. dir \in [version : {1}, env : Envs, done : {FALSE}, writer : {FALSE}]
      BY DEF TasksInit
    <2>3. PICK e \in Envs : dir = [version |-> 1, env |-> e, done |-> FALSE, writer |-> FALSE]
      BY <2>2
    <2>4. dir \in DirRecords
      BY <2>3 DEF DirRecords
    <2> QED BY <2>1, <2>4
  <1>8. ScreenTypes
    BY <1>1, <1>2, <1>3, <1>4, <1>5, <1>6, <1>7 DEF ScreenTypes
  <1> QED BY <1>1, <1>2, <1>3, <1>4, <1>5, <1>8
          DEF TasksInv, ThreadsFit, DialogsFit, RunsAlone, PagesFit, ReviewsFit, ShownIsChosen, Nil

LEMMA TasksInvStep == TasksInv /\ [TasksNext]_screenVars => TasksInv'
  <1> SUFFICES ASSUME TasksInv, [TasksNext]_screenVars PROVE TasksInv'
    OBVIOUS
  <1>1. ASSUME NEW p \in Pages, Type(p) \/ SourceChanged(p) \/ Read(p) PROVE TasksInv'
    BY <1>1, TypeInv, SourceChangedInv, ReadInv
  <1>2. CASE CancelReads \/ RequestRun \/ QuickCheck \/ Decide
    BY <1>2, CancelReadsInv, RequestRunInv, QuickCheckInv, DecideInv
  <1>3. CASE EditForm \/ OpenPicker \/ Pick \/ OpenSettings \/ CloseSettings
    BY <1>3, EditFormInv, OpenPickerInv, PickInv, OpenDialogInv, CloseSettingsInv
  <1>4. CASE RequestTool \/ ConfirmTool \/ StartStats \/ TaskEnds \/ OtherWriter
    BY <1>4, OpenDialogInv, ConfirmToolInv, StartStatsInv, TaskEndsInv, OtherWriterInv
  <1>5. CASE Refresh \/ RequestDelete \/ ConfirmDelete
    BY <1>5, RefreshInv, RequestDeleteInv, ConfirmDeleteInv
  <1>6. CASE OpenStorage \/ RefreshStorage \/ CloseStorage
    BY <1>6, OpenStorageInv, CloseStorageInv
  <1>7. ASSUME NEW t \in threads, ReadEnds(t) \/ ReviewReads(t) \/ CheckEnds(t)
        PROVE  TasksInv'
    BY <1>7, ReadEndsInv, ReviewReadsInv, CheckEndsInv
  <1>8. ASSUME NEW t \in threads,
               ReviewIgnored(t) \/ ReviewShown(t) \/ ReviewLaunches(t) \/ ReviewChecks(t)
        PROVE  TasksInv'
    BY <1>8, ReviewIgnoredInv, ReviewShownInv, ReviewLaunchesInv, ReviewChecksInv
  <1>9. ASSUME NEW t \in threads, LoadEnds(t) \/ ImagesEnd(t) \/ StorageEnds(t) PROVE TasksInv'
    BY <1>9, LoadEndsInv, ImagesEndInv, StorageEndsInv
  <1>10. CASE UNCHANGED screenVars
    BY <1>10 DEF screenVars, TasksInv, ScreenTypes, ThreadsFit, Counted, DialogsFit, RunsAlone, Running,
                 PagesFit, ShownIsChosen, ReviewsFit
  <1> QED
    BY <1>1, <1>2, <1>3, <1>4, <1>5, <1>6, <1>7, <1>8, <1>9, <1>10 DEF TasksNext

LEMMA ScreenInvariant == TasksSpec => []TasksInv
  BY TasksInvInit, TasksInvStep, PTL DEF TasksSpec

\* Whatever was started and abandoned before, for any number of readings, checks,
\* image operations and edits: no background thread of the interface is left while
\* a child runs (tui/commands.py OperationState, the end of every callback).
THEOREM TheChildRunsAlone == TasksSpec => []RunsAlone
  BY ScreenInvariant, PTL DEF TasksInv

LEMMA StartsStep == TasksInv /\ [TasksNext]_screenVars => [StartsJustified]_screenVars
  <1> SUFFICES ASSUME TasksInv, TasksNext, task'.kind = "run", task.kind = Nil
               PROVE  /\ preflight.completed /\ preflight.ok /\ preflight.checked = task'.cfg.env
                      /\ task'.cfg.resume => task'.seen # 0 /\ task'.asked = task'.seen
    BY DEF StartsJustified
  <1>1. task' # task
    BY DEF Nil
  <1>2. PICK t \in threads : ReviewLaunches(t)
    <2>1. ~UNCHANGED task
      BY <1>1
    <2>2. ~ConfirmTool /\ ~StartStats /\ ~TaskEnds
      BY DEF ConfirmTool, LaunchTask, StartStats, TaskEnds, NoTask, Nil
    <2>3. \A p \in Pages : ~(Type(p) \/ SourceChanged(p) \/ Read(p))
      BY <2>1 DEF Type, SourceChanged, Read
    <2>4. ~(CancelReads \/ RequestRun \/ QuickCheck \/ Decide \/ EditForm \/ OpenPicker \/ Pick)
      BY <2>1 DEF CancelReads, RequestRun, QuickCheck, Decide, EditForm, OpenPicker, Pick
    <2>5. ~(OpenSettings \/ CloseSettings \/ RequestTool \/ OtherWriter \/ Refresh \/ RequestDelete)
      BY <2>1 DEF OpenSettings, CloseSettings, RequestTool, OtherWriter, Refresh, RequestDelete
    <2>6. ~(ConfirmDelete \/ OpenStorage \/ RefreshStorage \/ CloseStorage)
      BY <2>1 DEF ConfirmDelete, OpenStorage, RefreshStorage, CloseStorage
    <2>7. \A t \in threads : ~(\/ ReadEnds(t) \/ ReviewReads(t) \/ ReviewIgnored(t) \/ ReviewShown(t)
                               \/ ReviewChecks(t) \/ CheckEnds(t) \/ LoadEnds(t) \/ ImagesEnd(t)
                               \/ StorageEnds(t))
      BY <2>1 DEF ReadEnds, ReviewReads, ReviewIgnored, ReviewShown, ReviewChecks, CheckEnds, LoadEnds,
                  ImagesEnd, StorageEnds
    <2> QED BY <2>2, <2>3, <2>4, <2>5, <2>6, <2>7 DEF TasksNext
  <1>3. /\ task' = [kind |-> "run", cfg |-> form', asked |-> t.asked, seen |-> t.seen]
        /\ ~Reason(preflight, form') /\ form' = Chosen(t) /\ Direct(t)
    BY <1>1, <1>2 DEF ReviewLaunches, LaunchTask
  <1>4. t \in ThreadRecords /\ ReviewFits(t)
    BY <1>2, ChosenFits DEF ReviewLaunches
  <1>5. form'.resume => t.seen # 0 /\ t.asked = t.seen
    BY <1>3, <1>4 DEF Chosen, Direct, ReviewFits
  <1>6. preflight.completed /\ preflight.ok /\ preflight.checked = form'.env
    BY <1>3 DEF Reason
  <1> QED BY <1>3, <1>5, <1>6

\* What a page shows was read for the selection beside it, and a run starts with
\* settings that were checked and a record that was reviewed, however the user and
\* other processes act in between (tui/app.py, tui/recovery_actions.py).
THEOREM TheUsersChoicesAreKept == TasksSpec => ChoicesAreKept
  <1>1. TasksSpec => []ShownIsChosen
    BY ScreenInvariant, PTL DEF TasksInv, PagesFit
  <1>2. TasksSpec => [][StartsJustified]_screenVars
    BY ScreenInvariant, StartsStep, PTL DEF TasksSpec
  <1> QED BY <1>1, <1>2 DEF ChoicesAreKept, StartsAreJustified
-----------------------------------------------------------------------------
(* Removing images, for any images, tags and daemons.  The invariant       *)
(* follows the names from the tick (AsTicked) through the second listing   *)
(* (Looked, Agreed) to the command (Aimed).                                *)

\* The fields of the records that are updated field by field.
Shaped ==
    /\ DOMAIN imagePage = {"inventory", "ticked", "error", "operation"}
    /\ DOMAIN worker = {"kind", "step", "seen", "todo", "at", "error"}
    /\ DOMAIN worker.seen = {"daemon", "images", "parents", "space"}
    /\ \A i \in DOMAIN worker.seen.images : DOMAIN worker.seen.images[i] = {"tags", "used"}
    /\ DOMAIN past = {"moved", "removed", "calm", "left"}
    /\ docker \in Daemons

\* What the page and its worker are doing; what was removed is told of as long
\* as the dialog that asked for it is.
Engaged ==
    /\ worker.kind \in {NoName, "refresh", "delete", "after"}
    /\ worker.kind = "refresh" <=> imagePage.operation = "refresh"
    /\ worker.kind = NoName => worker.step = NoName
    /\ worker.step \in {"next", "remove"} => worker.kind = "delete"
    /\ worker.step = "space" => worker.kind # "delete"
    /\ imagePage.operation # "delete" => past.removed = {}

\* An image stays ticked only with the tags it had, and the dialog shows them.
AsTicked ==
    /\ \A i \in Selected : imagePage.ticked[i] = Listed(i).tags
    /\ imagePage.operation \in {"confirm", "delete"} =>
          \A i \in ToRemove : /\ i \in DOMAIN dialog.inventory.images
                              /\ dialog.inventory.images[i].tags = dialog.ticked[i]

\* A tag that has not changed hands since the listing is where it was seen.
Looked ==
    worker.kind = "delete" /\ worker.step \in {"containers", "next", "remove"} =>
        \A t \in Tags : \/ t \in past.moved \/ docker.tags[t] = NoName
                        \/ /\ docker.tags[t] \in DOMAIN worker.seen.images
                           /\ t \in References(docker.tags[t])

\* The images to remove are seen as they were shown.
Agreed ==
    worker.step \in {"next", "remove"} =>
        /\ worker.todo \subseteq ToRemove
        /\ \A i \in ToRemove : /\ i \in DOMAIN worker.seen.images
                               /\ References(i) = dialog.inventory.images[i].tags

\* The image that is removed next had, when it was checked, the tags it was seen with.
Aimed ==
    worker.step = "remove" =>
        /\ worker.at \in ToRemove
        /\ \A t \in Tags \cap References(worker.at) : t \in past.moved \/ docker.tags[t] = worker.at

RemovalInv ==
    ImagesTypeOK /\ OnlyShownGoes /\ Shaped /\ Engaged /\ AsTicked /\ Looked /\ Agreed /\ Aimed

LEMMA RemovalStarts == ImagesInit => RemovalInv
  <1> SUFFICES ASSUME ImagesInit PROVE RemovalInv
    OBVIOUS
  <1>1. docker \in Daemons /\ docker.used \subseteq docker.present /\ \A t \in Tags : docker.tags[t] \in docker.present \cup {NoName}
    BY ImagesAssumption DEF ImagesInit, Stocked, Daemons
  <1>2. /\ imagePage = [inventory |-> NoInventory, ticked |-> <<>>, error |-> FALSE, operation |-> NoName]
        /\ dialog = NoDialog /\ worker = NoJob /\ past.removed = {}
        /\ DOMAIN past = {"moved", "removed", "calm", "left"}
    BY DEF ImagesInit
  <1>3. DOMAIN imagePage.ticked = {} /\ DOMAIN worker.seen.images = {}
    BY <1>2 DEF NoJob, NoInventory
  <1>4. worker.kind = NoName /\ worker.step = NoName
    BY <1>2 DEF NoJob
  <1>5. ImagesTypeOK
    BY <1>1, <1>2, <1>3, <1>4, ImagesAssumption DEF ImagesTypeOK, Daemons, Selected
  <1>6. Shaped
    BY <1>1, <1>2, <1>3 DEF Shaped, NoJob, NoInventory
  <1>7. OnlyShownGoes /\ Engaged /\ AsTicked /\ Looked /\ Agreed /\ Aimed
    BY <1>2, <1>3, <1>4 DEF OnlyShownGoes, Engaged, AsTicked, Looked, Agreed, Aimed, Selected, NoName
  <1> QED BY <1>5, <1>6, <1>7 DEF RemovalInv

\* A tick is kept only for an image whose tags it was made with.
LEMMA TickedFits ==
  ASSUME AsTicked, Selected \subseteq DOMAIN imagePage.inventory.images, NEW inv, NEW error, NEW clear,
         ShowImages(inv, error, clear)
  PROVE  /\ Selected' \subseteq (DOMAIN imagePage.inventory.images)'
         /\ \A i \in Selected' : imagePage'.ticked[i] = (Listed(i).tags)'
  <1> DEFINE S == IF clear THEN {} ELSE IF inv = NoInventory THEN Selected ELSE Retained(inv)
  <1>1. imagePage'.ticked = Tick(S) /\ imagePage'.inventory = IF inv = NoInventory THEN imagePage.inventory ELSE inv
    BY DEF ShowImages
  <1>2. S \subseteq Selected
    BY DEF Retained
  <1>3. DOMAIN imagePage'.ticked = S /\ \A i \in S : imagePage'.ticked[i] = imagePage.ticked[i]
    BY <1>1, <1>2 DEF Tick
  <1>4. ASSUME NEW i \in S
        PROVE  i \in DOMAIN imagePage'.inventory.images /\ imagePage'.inventory.images[i].tags = imagePage.ticked[i]
    <2>1. CASE inv = NoInventory
      BY <1>1, <1>2, <2>1 DEF AsTicked, Listed
    <2>2. CASE inv # NoInventory
      BY <1>1, <1>2, <2>2, <1>4 DEF AsTicked, Retained
    <2> QED BY <2>1, <2>2
  <1> QED BY <1>3, <1>4 DEF Selected, Listed

LEMMA ListEndsFits ==
  ASSUME RemovalInv, worker.kind # NoName, NEW inv, NEW error, ListEnds(inv, error), UNCHANGED docker
  PROVE  RemovalInv'
  <1>1. /\ worker' = NoJob /\ dialog' = NoDialog /\ past' = [past EXCEPT !.moved = {}, !.removed = {}]
        /\ ShowImages(inv, error \/ worker.error, worker.kind = "after")
    BY DEF ListEnds
  <1>2. /\ Selected' \subseteq (DOMAIN imagePage.inventory.images)'
        /\ \A i \in Selected' : imagePage'.ticked[i] = (Listed(i).tags)'
    BY <1>1, TickedFits DEF RemovalInv, ImagesTypeOK
  <1>3. DOMAIN imagePage' = {"inventory", "ticked", "error", "operation"} /\ imagePage'.operation = NoName
    BY <1>1 DEF ShowImages
  <1>4. past'.removed = {} /\ DOMAIN past' = {"moved", "removed", "calm", "left"}
    BY <1>1 DEF RemovalInv, Shaped
  <1> QED BY <1>1, <1>2, <1>3, <1>4 DEF RemovalInv, ImagesTypeOK, OnlyShownGoes, Shaped, Engaged,
             AsTicked, Looked, Agreed, Aimed, NoJob, NoDialog, NoInventory, NoName

\* What a removal changes: tags it was given lose their image, and images go
\* with their last tag.
LEMMA RemovalChanges ==
  ASSUME NEW d \in Daemons, d.used \subseteq d.present, NEW refs,
         \A t \in Tags : d.tags[t] \in d.present \cup {NoName}
  PROVE  LET e == Removal(d, refs) IN
         /\ e \in Daemons /\ e.daemon = d.daemon /\ e.used = d.used /\ e.used \subseteq e.present
         /\ e.present \subseteq d.present
         /\ \A t \in Tags : e.tags[t] \in e.present \cup {NoName}
         /\ \A t \in Tags : e.tags[t] = d.tags[t] \/ (e.tags[t] = NoName /\ t \in refs)
         /\ \A i \in d.present \ e.present : Named(d, i) \cap refs # {}
  <1> DEFINE held == {i \in d.present : Named(d, i) \cap refs # {}}
             untied == UNION {Untied(d, refs, i) : i \in held}
             gone == {i \in held : Named(d, i) \subseteq untied /\ Dropped(d, i)}
             e == Removal(d, refs)
  <1>1. e = [d EXCEPT !.tags = [t \in Tags |-> IF t \in untied THEN NoName ELSE d.tags[t]],
                      !.present = d.present \ gone]
    BY DEF Removal
  <1>2. untied \subseteq refs
    BY DEF Untied
  <1>3. \A i \in gone : i \notin d.used /\ Named(d, i) \subseteq untied /\ Named(d, i) \cap refs # {}
    BY DEF Dropped
  <1>4. \A t \in Tags : t \notin untied => d.tags[t] \notin gone
    BY <1>3 DEF Named
  <1> HIDE DEF held, untied, gone
  <1>5. /\ e.tags = [t \in Tags |-> IF t \in untied THEN NoName ELSE d.tags[t]]
        /\ e.present = d.present \ gone /\ e.used = d.used /\ e.daemon = d.daemon
        /\ e = [daemon |-> e.daemon, present |-> e.present, tags |-> e.tags, used |-> e.used]
    BY <1>1 DEF Daemons
  <1> HIDE DEF e
  <1>6. e.tags \in [Tags -> Images \cup {NoName}]
    BY <1>5 DEF Daemons
  <1>7. e \in Daemons
    BY <1>5, <1>6 DEF Daemons
  <1>8. e.used \subseteq e.present /\ \A t \in Tags : e.tags[t] \in e.present \cup {NoName}
    BY <1>3, <1>4, <1>5
  <1>9. /\ \A t \in Tags : e.tags[t] = d.tags[t] \/ (e.tags[t] = NoName /\ t \in refs)
        /\ \A i \in d.present \ e.present : Named(d, i) \cap refs # {}
    BY <1>2, <1>3, <1>5
  <1> QED BY <1>5, <1>7, <1>8, <1>9 DEF e

LEMMA RemovalByIdChanges ==
  ASSUME NEW d \in Daemons, d.used \subseteq d.present, NEW i,
         \A t \in Tags : d.tags[t] \in d.present \cup {NoName}
  PROVE  LET e == RemovalById(d, i) IN
         /\ e \in Daemons /\ e.daemon = d.daemon /\ e.used = d.used /\ e.used \subseteq e.present
         /\ e.present \subseteq d.present
         /\ \A t \in Tags : e.tags[t] \in e.present \cup {NoName}
         /\ \A t \in Tags : e.tags[t] = d.tags[t] \/ (e.tags[t] = NoName /\ d.tags[t] = i)
         /\ \A j \in d.present \ e.present : j = i
  <1> DEFINE e == RemovalById(d, i)
  <1>1. CASE i \notin d.present \/ ~Dropped(d, i) \/ Cardinality(Named(d, i)) > 1
    BY <1>1 DEF RemovalById
  <1>2. CASE ~(i \notin d.present \/ ~Dropped(d, i) \/ Cardinality(Named(d, i)) > 1)
    <2>1. e = [d EXCEPT !.tags = [t \in Tags |-> IF d.tags[t] = i THEN NoName ELSE d.tags[t]],
                        !.present = d.present \ {i}]
      BY <1>2 DEF RemovalById
    <2>2. /\ e.tags = [t \in Tags |-> IF d.tags[t] = i THEN NoName ELSE d.tags[t]]
          /\ e.present = d.present \ {i} /\ e.used = d.used /\ e.daemon = d.daemon
          /\ e = [daemon |-> e.daemon, present |-> e.present, tags |-> e.tags, used |-> e.used]
      BY <2>1 DEF Daemons
    <2>3. i \notin d.used
      BY <1>2 DEF Dropped
    <2> HIDE DEF e
    <2>4. e.tags \in [Tags -> Images \cup {NoName}]
      BY <2>2 DEF Daemons
    <2>5. e \in Daemons
      BY <2>2, <2>4 DEF Daemons
    <2>6. e.used \subseteq e.present /\ \A t \in Tags : e.tags[t] \in e.present \cup {NoName}
      BY <2>2, <2>3
    <2>7. /\ \A t \in Tags : e.tags[t] = d.tags[t] \/ (e.tags[t] = NoName /\ d.tags[t] = i)
          /\ \A j \in d.present \ e.present : j = i
      BY <2>2
    <2> QED BY <2>2, <2>5, <2>6, <2>7 DEF e
  <1> QED BY <1>1, <1>2

\* Another process moves tags; whatever it touches counts as changed.
LEMMA DisturbedFits ==
  ASSUME RemovalInv, NEW touched, Disturb(touched), docker' \in Daemons,
         docker'.used \subseteq docker'.present, \A t \in Tags : docker'.tags[t] \in docker'.present \cup {NoName},
         \A t \in Tags : t \in touched \/ docker'.tags[t] = docker.tags[t]
  PROVE  RemovalInv'
  <1>1. UNCHANGED <<imagePage, dialog, worker>> /\ DOMAIN past' = DOMAIN past /\ past'.removed = past.removed
    BY DEF Disturb, RemovalInv, Shaped
  <1>2. worker.kind = "delete" => past'.moved = past.moved \cup touched
    BY DEF Disturb
  <1>3. ImagesTypeOK'
    BY <1>1 DEF RemovalInv, ImagesTypeOK, Daemons, Selected
  <1>4. OnlyShownGoes' /\ Shaped' /\ Engaged' /\ AsTicked' /\ Agreed'
    BY <1>1 DEF RemovalInv, OnlyShownGoes, Shaped, Engaged, AsTicked, Agreed, ToRemove, Selected, Listed,
       References
  <1>5. Looked' /\ Aimed'
    BY <1>1, <1>2 DEF RemovalInv, Engaged, Looked, Aimed, ToRemove, References
  <1> QED BY <1>3, <1>4, <1>5 DEF RemovalInv

LEMMA RemoveImageFits ==
  ASSUME RemovalInv, RemoveImage
  PROVE  RemovalInv'
  <1> DEFINE i == worker.at
             untied == {u \in Tags : docker.tags[u] # docker'.tags[u]}
             byTag == {[tag |-> t, image |-> docker.tags[t], late |-> t \in past.moved] : t \in untied}
             byImage == {[tag |-> NoName, image |-> j, late |-> past.moved \cap (Named(docker, j) \cup {NoName}) # {}] :
                           j \in docker.present \ docker'.present}
  <1>1. /\ worker.step = "remove" /\ UNCHANGED <<imagePage, dialog>>
        /\ worker' = [worker EXCEPT !.step = "next"]
        /\ past' = [past EXCEPT !.removed = @ \cup byTag \cup byImage]
        /\ docker' = IF References(i) = {} THEN RemovalById(docker, i) ELSE Removal(docker, References(i))
    BY DEF RemoveImage
  <1>2. /\ docker \in Daemons /\ docker.used \subseteq docker.present
        /\ \A t \in Tags : docker.tags[t] \in docker.present \cup {NoName}
        /\ worker.kind = "delete" /\ imagePage.operation = "delete"
        /\ i \in ToRemove /\ References(i) = dialog.ticked[i] /\ dialog.inventory.images[i].tags = dialog.ticked[i]
    BY <1>1 DEF RemovalInv, ImagesTypeOK, Shaped, Engaged, AsTicked, Agreed, Aimed
  <1>3. /\ docker' \in Daemons /\ docker'.used \subseteq docker'.present
        /\ \A t \in Tags : docker'.tags[t] \in docker'.present \cup {NoName}
        /\ \A t \in Tags : docker'.tags[t] = docker.tags[t] \/ docker'.tags[t] = NoName
    BY <1>1, <1>2, RemovalChanges, RemovalByIdChanges
  <1>4. ASSUME NEW t \in untied, t \notin past.moved
        PROVE  docker.tags[t] = i /\ t \in dialog.ticked[i]
    <2>1. CASE References(i) = {}
      <3>1. docker.tags[t] = i /\ docker.tags[t] # NoName
        BY <1>1, <1>2, <1>4, <2>1, RemovalByIdChanges, ImagesAssumption DEF Daemons
      <3> QED BY <1>1, <1>2, <1>4, <2>1, <3>1 DEF RemovalInv, Looked
    <2>2. CASE References(i) # {}
      <3>1. t \in References(i)
        BY <1>1, <1>2, <1>4, <2>2, RemovalChanges
      <3> QED BY <1>1, <1>2, <1>4, <3>1 DEF RemovalInv, Aimed
    <2> QED BY <2>1, <2>2
  <1>5. ASSUME NEW j \in docker.present \ docker'.present, past.moved \cap (Named(docker, j) \cup {NoName}) = {}
        PROVE  j = i
    <2>1. CASE References(i) = {}
      BY <1>1, <1>2, <1>5, <2>1, RemovalByIdChanges
    <2>2. CASE References(i) # {}
      <3>1. PICK t \in Named(docker, j) \cap References(i) : TRUE
        BY <1>1, <1>2, <1>5, <2>2, RemovalChanges
      <3> QED BY <1>1, <1>5, <3>1 DEF RemovalInv, Aimed, Named
    <2> QED BY <2>1, <2>2
  <1>6. /\ DOMAIN past' = {"moved", "removed", "calm", "left"} /\ past'.moved = past.moved
        /\ past'.removed = past.removed \cup byTag \cup byImage
        /\ DOMAIN worker' = DOMAIN worker /\ worker'.step = "next" /\ worker'.kind = worker.kind
        /\ worker'.seen = worker.seen /\ worker'.todo = worker.todo
    BY <1>1 DEF RemovalInv, Shaped
  <1>7. ASSUME NEW r \in byTag \cup byImage
        PROVE  \/ r.late
               \/ r.image \in ToRemove /\ dialog.inventory.images[r.image].tags = dialog.ticked[r.image]
                     /\ r.tag \in dialog.ticked[r.image] \cup {NoName}
    <2>1. CASE r \in byTag
      <3>1. PICK t \in untied : r = [tag |-> t, image |-> docker.tags[t], late |-> t \in past.moved]
        BY <2>1
      <3>2. CASE t \in past.moved
        BY <3>1, <3>2
      <3>3. CASE t \notin past.moved
        BY <1>2, <1>4, <3>1, <3>3
      <3> QED BY <3>2, <3>3
    <2>2. CASE r \in byImage
      <3>1. PICK j \in docker.present \ docker'.present :
              r = [tag |-> NoName, image |-> j, late |-> past.moved \cap (Named(docker, j) \cup {NoName}) # {}]
        BY <2>2
      <3>2. CASE past.moved \cap (Named(docker, j) \cup {NoName}) # {}
        BY <3>1, <3>2
      <3>3. CASE past.moved \cap (Named(docker, j) \cup {NoName}) = {}
        BY <1>2, <1>5, <3>1, <3>3
      <3> QED BY <3>2, <3>3
    <2> QED BY <1>7, <2>1, <2>2
  <1> HIDE DEF byTag, byImage
  <1>8. OnlyShownGoes'
    BY <1>1, <1>6, <1>7 DEF RemovalInv, OnlyShownGoes, ToRemove
  <1>9. ImagesTypeOK' /\ Shaped' /\ Engaged' /\ AsTicked'
    BY <1>1, <1>2, <1>3, <1>6 DEF RemovalInv, ImagesTypeOK, Shaped, Engaged, AsTicked, Daemons, Selected,
       Listed, ToRemove
  <1>10. Looked' /\ Agreed' /\ Aimed'
    BY <1>1, <1>2, <1>3, <1>6 DEF RemovalInv, ImagesTypeOK, OnlyShownGoes, Shaped, Engaged, AsTicked, Looked,
       Agreed, Aimed, References, ToRemove
  <1> QED BY <1>8, <1>9, <1>10 DEF RemovalInv

LEMMA CheckImageFits ==
  ASSUME RemovalInv, NEW i, CheckImage(i)
  PROVE  RemovalInv'
  <1>1. worker.step = "next" /\ worker.kind = "delete" /\ i \in ToRemove /\ UNCHANGED <<docker, imagePage, dialog>>
    BY DEF CheckImage, RemovalInv, Engaged, Agreed
  <1>2. CASE /\ References(i) \subseteq Named(docker, i)
             /\ worker' = [worker EXCEPT !.step = "remove", !.todo = @ \ {i}, !.at = i]
             /\ past' = [past EXCEPT !.moved = @ \ (References(i) \cup {NoName})]
    <2>1. /\ DOMAIN worker' = DOMAIN worker /\ worker'.step = "remove" /\ worker'.at = i
          /\ worker'.kind = worker.kind /\ worker'.seen = worker.seen /\ worker'.todo \subseteq worker.todo
          /\ DOMAIN past' = DOMAIN past /\ past'.moved = past.moved \ (References(i) \cup {NoName})
          /\ past'.removed = past.removed
      BY <1>2
    <2>2. References(i)' = References(i)
      BY <2>1 DEF References
    <2>3. ImagesTypeOK' /\ OnlyShownGoes' /\ Shaped' /\ Engaged' /\ AsTicked' /\ Agreed'
      BY <1>1, <2>1 DEF RemovalInv, ImagesTypeOK, OnlyShownGoes, Shaped, Engaged, AsTicked, Agreed, Selected,
         Listed, ToRemove, References
    <2>4. Aimed'
      BY <1>1, <1>2, <2>1, <2>2 DEF Aimed, ToRemove, Named
    <2>5. ASSUME NEW t \in Tags, t \notin past'.moved, docker.tags[t] # NoName
          PROVE  docker.tags[t] \in DOMAIN worker.seen.images /\ t \in References(docker.tags[t])
      <3>1. CASE t \in References(i)
        BY <1>1, <1>2, <3>1 DEF Named, RemovalInv, Agreed
      <3>2. CASE t \notin References(i)
        BY <1>1, <2>1, <2>5, <3>2, ImagesAssumption DEF RemovalInv, Looked
      <3> QED BY <3>1, <3>2
    <2>6. Looked'
      BY <1>1, <2>1, <2>5 DEF Looked, References
    <2> QED BY <2>3, <2>4, <2>6 DEF RemovalInv
  <1>3. CASE worker' = [worker EXCEPT !.todo = @ \ {i}] /\ UNCHANGED past
    <2>1. /\ DOMAIN worker' = DOMAIN worker /\ worker'.step = worker.step /\ worker'.at = worker.at
          /\ worker'.kind = worker.kind /\ worker'.seen = worker.seen /\ worker'.todo \subseteq worker.todo
      BY <1>3
    <2> QED BY <1>1, <1>3, <2>1 DEF RemovalInv, ImagesTypeOK, OnlyShownGoes, Shaped, Engaged,
               AsTicked, Looked, Agreed, Aimed, Selected, Listed, ToRemove, References
  <1> QED BY <1>2, <1>3 DEF CheckImage

\* The page is listed again after a removal.
LEMMA ThenListFits ==
  ASSUME RemovalInv, worker.kind = "delete", NEW error, ThenList(error), UNCHANGED <<docker, imagePage, dialog>>,
         DOMAIN past' = DOMAIN past, past'.removed = past.removed
  PROVE  RemovalInv'
  <1>1. /\ DOMAIN worker' = DOMAIN worker /\ worker'.kind = "after" /\ worker'.step = "info" /\ worker'.seen = NoInventory
    BY DEF ThenList, Listing, NoJob, RemovalInv, Shaped
  <1> QED BY <1>1 DEF RemovalInv, ImagesTypeOK, OnlyShownGoes, Shaped, Engaged, AsTicked, Looked,
             Agreed, Aimed, NoInventory, Selected, Listed, ToRemove, NoName

LEMMA RemovalSteps == RemovalInv /\ [ImagesNext]_imageVars => RemovalInv'
  <1> SUFFICES ASSUME RemovalInv, [ImagesNext]_imageVars PROVE RemovalInv'
    OBVIOUS
  <1>1. CASE RefreshImages
    <2>1. /\ imagePage.operation = NoName /\ imagePage'.operation = "refresh" /\ DOMAIN imagePage' = DOMAIN imagePage
          /\ imagePage'.inventory = imagePage.inventory /\ imagePage'.ticked = imagePage.ticked
          /\ UNCHANGED <<docker, dialog, past>>
      BY <1>1 DEF RefreshImages, RemovalInv, Shaped
    <2>2. DOMAIN worker' = DOMAIN worker /\ worker'.kind = "refresh" /\ worker'.step = "info" /\ worker'.seen = NoInventory
      BY <1>1 DEF RefreshImages, Listing, NoJob, RemovalInv, Shaped
    <2> QED BY <2>1, <2>2 DEF RemovalInv, ImagesTypeOK, OnlyShownGoes, Shaped, Engaged, AsTicked,
               Looked, Agreed, Aimed, Selected, Listed, NoInventory, NoName
  <1>2. CASE RequestRemoval
    <2>1. /\ imagePage.operation = NoName /\ imagePage'.operation = "confirm" /\ DOMAIN imagePage' = DOMAIN imagePage
          /\ imagePage'.inventory = imagePage.inventory /\ imagePage'.ticked = imagePage.ticked
          /\ dialog'.inventory = imagePage.inventory /\ dialog'.ticked = imagePage.ticked
          /\ UNCHANGED <<docker, worker, past>>
      BY <1>2 DEF RequestRemoval
    <2> QED BY <2>1 DEF RemovalInv, ImagesTypeOK, OnlyShownGoes, Shaped, Engaged, AsTicked, Looked,
               Agreed, Aimed, Selected, Listed, ToRemove, NoName
  <1>3. ASSUME NEW yes \in BOOLEAN, Confirmed(yes)
        PROVE  RemovalInv'
    <2>1. /\ imagePage.operation = "confirm" /\ DOMAIN imagePage' = DOMAIN imagePage
          /\ imagePage'.operation = IF yes THEN "delete" ELSE NoName
          /\ imagePage'.inventory = imagePage.inventory /\ imagePage'.ticked = imagePage.ticked
          /\ UNCHANGED <<docker, past>> /\ past.removed = {}
      BY <1>3 DEF Confirmed, RemovalInv, Shaped, Engaged
    <2>2. CASE yes
      <3>1. /\ DOMAIN worker' = DOMAIN worker /\ worker'.kind = "delete" /\ worker'.step = "info"
            /\ worker'.seen = NoInventory /\ dialog' = dialog
        BY <1>3, <2>2 DEF Confirmed, Listing, NoJob, RemovalInv, Shaped
      <3> QED BY <2>1, <2>2, <3>1 DEF RemovalInv, ImagesTypeOK, OnlyShownGoes, Shaped, Engaged,
                 AsTicked, Looked, Agreed, Aimed, Selected, Listed, ToRemove, NoInventory, NoName
    <2>3. CASE ~yes
      <3>1. worker' = worker
        BY <1>3, <2>3 DEF Confirmed
      <3> QED BY <2>1, <2>3, <3>1 DEF RemovalInv, ImagesTypeOK, OnlyShownGoes, Shaped, Engaged,
                 AsTicked, Looked, Agreed, Aimed, Selected, Listed, NoName
    <2> QED BY <2>2, <2>3
  <1>4. ASSUME NEW i \in Images, Toggle(i) \/ SelectModel(i)
        PROVE  RemovalInv'
    <2>1. PICK S \in SUBSET DOMAIN imagePage.inventory.images : imagePage' = [imagePage EXCEPT !.ticked = Tick(S)]
      BY <1>4 DEF Toggle, SelectModel, RemovalInv, ImagesTypeOK
    <2>2. UNCHANGED <<docker, dialog, worker, past>> /\ imagePage.operation \in {NoName, "refresh"}
      BY <1>4 DEF Toggle, SelectModel, CanTick
    <2>3. /\ DOMAIN imagePage' = DOMAIN imagePage /\ imagePage'.operation = imagePage.operation
          /\ imagePage'.inventory = imagePage.inventory /\ imagePage'.ticked = Tick(S)
      BY <2>1
    <2>4. DOMAIN Tick(S) = S /\ \A j \in S : Tick(S)[j] = Listed(j).tags
      BY DEF Tick, RemovalInv, AsTicked
    <2> QED BY <2>2, <2>3, <2>4 DEF RemovalInv, ImagesTypeOK, OnlyShownGoes, Shaped, Engaged,
               AsTicked, Looked, Agreed, Aimed, Selected, Listed, ToRemove
  <1>5. CASE ReadDaemon
    <2>1. /\ worker.step = "info" /\ DOMAIN worker' = DOMAIN worker /\ worker'.step = "images" /\ worker'.kind = worker.kind
          /\ worker'.seen.images = worker.seen.images /\ DOMAIN worker'.seen = DOMAIN worker.seen
          /\ DOMAIN past' = DOMAIN past /\ past'.removed = past.removed
          /\ UNCHANGED <<docker, imagePage, dialog>>
      BY <1>5 DEF ReadDaemon, RemovalInv, Shaped
    <2> QED BY <2>1 DEF RemovalInv, ImagesTypeOK, OnlyShownGoes, Shaped, Engaged, AsTicked, Looked,
               Agreed, Aimed, Selected, Listed, ToRemove, NoName
  <1>6. CASE ReadImages
    <2>1. /\ worker.step = "images" /\ DOMAIN worker' = DOMAIN worker /\ worker'.step = "containers" /\ worker'.kind = worker.kind
          /\ worker'.seen.images = [i \in docker.present |-> [tags |-> Named(docker, i), used |-> FALSE]]
          /\ DOMAIN worker'.seen = DOMAIN worker.seen
          /\ DOMAIN past' = DOMAIN past /\ past'.removed = past.removed
          /\ UNCHANGED <<docker, imagePage, dialog>>
      BY <1>6 DEF ReadImages, RemovalInv, Shaped
    <2>2. Looked' /\ Shaped'
      BY <2>1 DEF RemovalInv, ImagesTypeOK, Shaped, Looked, References, Named
    <2> QED BY <2>1, <2>2 DEF RemovalInv, ImagesTypeOK, OnlyShownGoes, Engaged, AsTicked, Agreed,
               Aimed, Selected, Listed, ToRemove, NoName
  <1>7. CASE ReadContainers
    <2>1. worker.step = "containers" /\ UNCHANGED <<docker, imagePage, dialog, past>>
      BY <1>7 DEF ReadContainers
    <2> DEFINE seen == [worker.seen EXCEPT !.images =
                            [i \in DOMAIN @ |-> [@[i] EXCEPT !.used = i \in docker.used]]]
    <2>2. /\ DOMAIN seen = DOMAIN worker.seen /\ DOMAIN seen.images = DOMAIN worker.seen.images
          /\ \A i \in DOMAIN seen.images :
                DOMAIN seen.images[i] = {"tags", "used"} /\ seen.images[i].tags = worker.seen.images[i].tags
      BY DEF RemovalInv, Shaped
    <2>3. /\ worker.kind # "delete" => worker' = [worker EXCEPT !.step = "space", !.seen = seen]
          /\ worker.kind = "delete" /\ Changed(seen) => ThenList(TRUE)
          /\ worker.kind = "delete" /\ ~Changed(seen) =>
                worker' = [worker EXCEPT !.step = "next", !.seen = seen, !.todo = ToRemove]
      BY <1>7 DEF ReadContainers
    <2> HIDE DEF seen
    <2>4. CASE worker.kind # "delete"
      <3>1. /\ DOMAIN worker' = DOMAIN worker /\ worker'.step = "space" /\ worker'.kind = worker.kind /\ worker'.seen = seen
        BY <2>3, <2>4 DEF RemovalInv, Shaped
      <3> QED BY <2>1, <2>2, <2>4, <3>1 DEF RemovalInv, ImagesTypeOK, OnlyShownGoes, Shaped, Engaged,
                 AsTicked, Looked, Agreed, Aimed, Selected, Listed, ToRemove, NoName
    <2>5. CASE worker.kind = "delete" /\ Changed(seen)
      BY <2>1, <2>3, <2>5, ThenListFits
    <2>6. CASE worker.kind = "delete" /\ ~Changed(seen)
      <3>1. /\ DOMAIN worker' = DOMAIN worker /\ worker'.step = "next" /\ worker'.kind = worker.kind
            /\ worker'.seen = seen /\ worker'.todo = ToRemove
        BY <2>3, <2>6 DEF RemovalInv, Shaped
      <3>2. \A i \in ToRemove : i \in DOMAIN seen.images /\ seen.images[i].tags = dialog.inventory.images[i].tags
        BY <2>6 DEF Changed
      <3>3. ImagesTypeOK' /\ OnlyShownGoes' /\ Shaped' /\ Engaged' /\ AsTicked'
        BY <2>1, <2>2, <2>6, <3>1 DEF RemovalInv, ImagesTypeOK, OnlyShownGoes, Shaped, Engaged, AsTicked,
           Selected, Listed, ToRemove
      <3>4. Looked' /\ Agreed' /\ Aimed'
        BY <2>1, <2>2, <2>6, <3>1, <3>2 DEF RemovalInv, Looked, Agreed, Aimed, ToRemove, References
      <3> QED BY <3>3, <3>4 DEF RemovalInv
    <2> QED BY <2>4, <2>5, <2>6
  <1>8. ASSUME NEW space, ReadSpace(space)
        PROVE  RemovalInv'
    <2>1. worker.kind # NoName
      BY <1>8 DEF ReadSpace, RemovalInv, Engaged, NoName
    <2> QED BY <1>8, <2>1, ListEndsFits DEF ReadSpace
  <1>9. ASSUME NEW i \in Images, CheckImage(i)
        PROVE  RemovalInv'
    BY <1>9, CheckImageFits
  <1>10. CASE AllTried
    BY <1>10, ThenListFits DEF AllTried, RemovalInv, Engaged
  <1>11. CASE RemoveImage
    BY <1>11, RemoveImageFits
  <1>12. CASE CommandFails
    <2>1. CASE ListEnds(NoInventory, TRUE)
      BY <1>12, <2>1, ListEndsFits DEF CommandFails
    <2>2. CASE /\ \/ worker.kind = "delete" /\ worker.step \notin {"next", "remove"} /\ ThenList(TRUE)
                  \/ worker.step = "remove" /\ worker' = [worker EXCEPT !.step = "next"]
                  \/ \E i \in worker.todo : /\ worker.step = "next" /\ Eligible(i)
                                            /\ worker' = [worker EXCEPT !.todo = @ \ {i}]
               /\ past' = [past EXCEPT !.calm = FALSE]
               /\ UNCHANGED <<docker, imagePage, dialog>>
      <3>1. DOMAIN past' = DOMAIN past /\ past'.removed = past.removed /\ past'.moved = past.moved
        BY <2>2
      <3>2. CASE worker.kind = "delete" /\ worker.step \notin {"next", "remove"} /\ ThenList(TRUE)
        BY <2>2, <3>1, <3>2, ThenListFits
      <3>3. CASE /\ worker.step \in {"next", "remove"}
                 /\ \/ worker' = [worker EXCEPT !.step = "next"]
                    \/ \E i \in worker.todo : worker.step = "next" /\ worker' = [worker EXCEPT !.todo = @ \ {i}]
        <4>1. /\ DOMAIN worker' = DOMAIN worker /\ worker'.step = "next" /\ worker'.kind = worker.kind
              /\ worker'.seen = worker.seen /\ worker'.todo \subseteq worker.todo
          BY <3>3 DEF RemovalInv, Shaped
        <4> QED BY <2>2, <3>1, <3>3, <4>1 DEF RemovalInv, ImagesTypeOK, OnlyShownGoes, Shaped,
                   Engaged, AsTicked, Looked, Agreed, Aimed, Selected, Listed, ToRemove, References
      <3> QED BY <2>2, <3>2, <3>3
    <2> QED BY <1>12, <2>1, <2>2 DEF CommandFails
  <1>13. ASSUME NEW t \in Tags, NEW i \in Images, MoveTag(t, i)
         PROVE  RemovalInv'
    <2>1. docker \in Daemons /\ docker' = [docker EXCEPT !.tags[t] = i, !.present = @ \cup {i}] /\ Disturb({t})
      BY <1>13 DEF MoveTag, RemovalInv, Shaped
    <2>2. /\ docker'.tags = [docker.tags EXCEPT ![t] = i] /\ docker'.present = docker.present \cup {i}
          /\ docker'.used = docker.used /\ docker'.daemon = docker.daemon
          /\ docker' = [daemon |-> docker'.daemon, present |-> docker'.present, tags |-> docker'.tags, used |-> docker'.used]
      BY <2>1 DEF Daemons
    <2>3. docker' \in Daemons
      <3>1. docker'.tags \in [Tags -> Images \cup {NoName}] /\ docker'.present \in SUBSET Images
        BY <2>1, <2>2 DEF Daemons
      <3> QED BY <2>1, <2>2, <3>1 DEF Daemons
    <2>4. /\ docker'.used \subseteq docker'.present
          /\ \A u \in Tags : docker'.tags[u] = IF u = t THEN i ELSE docker.tags[u]
      BY <2>1, <2>2 DEF Daemons, RemovalInv, ImagesTypeOK
    <2> QED BY <2>1, <2>2, <2>3, <2>4, DisturbedFits DEF RemovalInv, ImagesTypeOK
  <1>14. ASSUME NEW i \in Images, StartContainer(i)
         PROVE  RemovalInv'
    <2>1. docker \in Daemons /\ docker' = [docker EXCEPT !.used = @ \cup {i}] /\ Disturb({}) /\ i \in docker.present
      BY <1>14 DEF StartContainer, RemovalInv, Shaped
    <2>2. docker' \in Daemons /\ docker'.tags = docker.tags /\ docker'.present = docker.present /\ docker'.used = docker.used \cup {i}
      BY <2>1 DEF Daemons
    <2> QED BY <2>1, <2>2, DisturbedFits DEF RemovalInv, ImagesTypeOK
  <1>15. ASSUME NEW t \in Tags, RemoveOutside(t)
         PROVE  RemovalInv'
    <2>1. docker' = Removal(docker, {t}) /\ Disturb({t})
      BY <1>15 DEF RemoveOutside
    <2>2. /\ docker \in Daemons /\ docker.used \subseteq docker.present
          /\ \A u \in Tags : docker.tags[u] \in docker.present \cup {NoName}
      BY DEF RemovalInv, ImagesTypeOK, Shaped
    <2>3. /\ docker' \in Daemons /\ docker'.used \subseteq docker'.present
          /\ \A u \in Tags : docker'.tags[u] \in docker'.present \cup {NoName}
          /\ \A u \in Tags : docker'.tags[u] = docker.tags[u] \/ u = t
      BY <2>1, <2>2, RemovalChanges
    <2> QED BY <2>1, <2>3, DisturbedFits
  <1>16. ASSUME NEW s \in Stocks, ReplaceDaemon(s)
         PROVE  RemovalInv'
    <2>1. docker' = Stocked(s, docker.daemon + 1) /\ Disturb(Tags \cup {NoName})
      BY <1>16 DEF ReplaceDaemon
    <2>2. /\ docker'.present = s.present /\ docker'.tags = s.tags /\ docker'.used = s.used /\ docker' \in Daemons
      BY <2>1, ImagesAssumption DEF Stocked, Daemons, RemovalInv, Shaped
    <2> QED BY <2>1, <2>2, ImagesAssumption, DisturbedFits
  <1>17. CASE UNCHANGED imageVars
    BY <1>17 DEF imageVars, RemovalInv, ImagesTypeOK, OnlyShownGoes, Shaped, Engaged, AsTicked, Looked,
       Agreed, Aimed, Selected, Listed, ToRemove, References
  <1> QED BY <1>1, <1>2, <1>3, <1>4, <1>5, <1>6, <1>7, <1>8, <1>9, <1>10, <1>11, <1>12, <1>13, <1>14, <1>15,
             <1>16, <1>17 DEF ImagesNext

\* A tag or an image goes only if the dialog showed it as the user ticked it, or
\* if it changed hands after the last look.
THEOREM OnlyTheShownGoes == ImagesSpec => [](ImagesTypeOK /\ OnlyShownGoes)
  <1>1. RemovalInv => ImagesTypeOK /\ OnlyShownGoes
    BY DEF RemovalInv
  <1> QED BY <1>1, RemovalStarts, RemovalSteps, PTL DEF ImagesSpec

-----------------------------------------------------------------------------
(* Planning.  Beside what is on file, at work and collected at each stage,  *)
(* the invariant says of an automatic text plan that each entry is the best *)
(* for its target (EntriesFit) and which targets are left (Remaining), of   *)
(* the bisection that best fits and nothing above right does (Searched), of *)
(* the scan that every size tried but the last was too small (Scanned).     *)


AutoText == kind = "text" /\ Manual = {}
AutoScales == IntegerScales(request.limit, ScaleCount)
Target == Head(targets)

\* A word count that does not exceed its target.
Fitting(w) == ~Over(w) /\ request.tokens[w] =< Target

Positive == Nat \ {0}

\* What does not change, and what is left to plan.
Asked ==
    /\ request \in PlanningRequests
    /\ probeOn \in BOOLEAN /\ rejected \in BOOLEAN
    /\ targets \in Seq(Positive)

\* What is on file at each stage.
OnFile ==
    /\ planAt \in {"start", "meta", "manual", "check", "search", "upper", "abandon", "write", "materialize"}
          => planFile = <<>>
    /\ planAt = "stop" => planFile = IF AutoText THEN entries ELSE <<>>
    /\ planAt = "failed" => planFile = <<>> \/ (probeOn /\ planFile = entries)
    /\ Planned => planFile = entries
    /\ planAt # "clear" => planFile # OldPlan

\* Which planner is at work where.
AtWork ==
    /\ planAt \in {"clear", "start", "write", "materialize", "planned", "scan", "scanned"} => ~probeOn
    /\ planAt \in {"manual", "search", "upper", "write"} => kind = "text"
    /\ planAt \in {"start", "meta"} => kind # "workload"
    /\ planAt = "check" => kind = "audio"
    /\ planAt \in {"search", "upper"} => Manual = {}
    /\ planAt \in {"manual", "write"} => Manual # {}
    /\ planAt = "materialize" => kind # "text"
    /\ planAt = "meta" /\ kind = "text" => Manual = {}

\* What has been collected where.
Collected ==
    /\ planAt \in {"clear", "start", "meta"} => entries = <<>>
    /\ planAt = "start" /\ kind = "text" => (targets = <<>> <=> Manual = {})
    /\ planAt \in {"start", "manual"} /\ kind = "text" => \A j \in DOMAIN targets : targets[j] =< 2 * MaxWords + 1
    /\ planAt = "write" \/ Planned \/ (planAt = "stop" /\ kind = "text") => entries # <<>>
    /\ planAt = "manual" /\ ~rejected => entries # <<>> \/ targets # <<>>

\* The entries of a text plan are texts the model takes; those of an automatic
\* one are each the best for its target, and larger than the one before.
Best(i) ==
    /\ \A w \in 1 .. AutoScales[i] :
          ~Over(w) => Distance(entries[i].words, AutoScales[i]) =< Distance(w, AutoScales[i])
    /\ i > 1 => entries[i].scale > entries[i - 1].scale
EntriesFit ==
    kind = "text" =>
       /\ entries \in Seq([scale : Positive, words : Words])
       /\ \A i \in DOMAIN entries :
             ~Over(entries[i].words) /\ entries[i].scale = request.tokens[entries[i].words]
       /\ AutoText => \A i \in DOMAIN entries : Best(i)

\* The targets of an automatic plan that have no entry yet.
Remaining ==
    AutoText =>
       /\ planAt \in {"search", "upper"} =>
             /\ request.limit >= ScaleCount
             /\ targets # <<>> /\ Len(entries) + Len(targets) = ScaleCount
             /\ \A j \in DOMAIN targets : targets[j] = AutoScales[Len(entries) + j]
       /\ planAt = "stop" \/ Planned => Len(entries) = ScaleCount

\* The bisection: best fits, and nothing above right does.
Searched ==
    planAt \in {"search", "upper"} =>
        /\ search \in [left : Nat, right : Nat, best : Nat]
        /\ search.left = search.best + 1
        /\ search.best =< search.right /\ search.right =< Target
        /\ search.best # None => Fitting(search.best)
        /\ \A w \in search.right + 1 .. Target : ~Fitting(w)
        /\ planAt = "upper" => search.left > search.right

\* The memory scan: the sizes in their order, each but the last too small.
Scanned ==
    /\ planAt \notin {"scan", "release", "scanned", "failed"} => tries = <<>>
    /\ planAt # "scanned" => verdict = NoVerdict
    /\ planAt \in {"scan", "release"} =>
          /\ needed \in Nat /\ Len(tries) =< Cardinality(Memories)
          /\ tries \in Seq([mem : Memories, status : {"timeout", "cuda_oom", "error", "ok"} \cup Retryable])
          /\ \A i \in DOMAIN tries :
                /\ tries[i].mem = Ascending(Memories)[i]
                /\ tries[i].status \in ProbeOutcomes(tries[i].mem)
                /\ i < Len(tries) \/ planAt = "scan" => tries[i].status \in Retryable
    /\ planAt = "scan" => Len(tries) < Cardinality(Memories)
    /\ planAt = "release" => tries # <<>>

PlanningInv ==
    Asked /\ OnFile /\ AtWork /\ Collected /\ EntriesFit /\ Remaining /\ Searched /\ Scanned /\ SmallestThatWorks
-----------------------------------------------------------------------------
\* What is well founded has a first element in every set of numbers.
LEMMA MinimumOf ==
    ASSUME NEW Less, IsWellFoundedOn(Less, Nat), NEW T, T \subseteq Nat, T # {}
    PROVE  \E x \in T : \A y \in T : ~ (<<y, x>> \in Less)
BY WFMin

\* A set of numbers has a smallest one.
LEMMA LeastOf ==
    ASSUME NEW T, T \subseteq Nat, T # {}
    PROVE  \E x \in T : \A y \in T : x =< y
<1>1. ASSUME NEW Less, IsWellFoundedOn(Less, Nat), \A a, b \in Nat : a < b => <<a, b>> \in Less
      PROVE  \E x \in T : \A y \in T : x =< y
  <2>1. PICK x \in T : \A y \in T : ~ (<<y, x>> \in Less)
    BY <1>1, MinimumOf
  <2>2. \A y \in T : ~(y < x)
    BY <1>1, <2>1
  <2>3. \A y \in T : x =< y
    BY <2>2
  <2> QED
    BY <2>3
<1>2. \A a, b \in Nat : a < b => <<a, b>> \in OpToRel(<, Nat)
  BY Zenon DEF OpToRel
<1> QED
  BY <1>1, <1>2, NatLessThanWellFounded, Zenon

\* A listing of all but the smallest member makes one of all.
LEMMA ListingGrows ==
    ASSUME NEW S, S \subseteq Nat, IsFiniteSet(S), NEW x \in S, \A y \in S : x =< y,
           NEW s, Ascends(s, S \ {x})
    PROVE  \E t : Ascends(t, S)
<1> DEFINE n == Cardinality(S)
           t == [i \in 1 .. n |-> IF i = 1 THEN x ELSE s[i - 1]]
<1>1. n \in Nat \ {0} /\ Cardinality(S \ {x}) = n - 1
  <2>1. Cardinality(S) \in Nat /\ Cardinality(S \ {x}) = Cardinality(S) - 1 /\ Cardinality(S) # 0
    BY FS_CardinalityType, FS_RemoveElement, FS_EmptySet
  <2>2. QED BY <2>1
<1>2. s \in [1 .. n - 1 -> S \ {x}] /\ Range(s) = S \ {x}
      /\ \A i, j \in 1 .. n - 1 : i < j => s[i] < s[j]
  BY <1>1 DEF Ascends
<1>3. t \in [1 .. n -> S]
  BY <1>1, <1>2
<1>4. Range(t) = S
  <2>1. ASSUME NEW y \in S PROVE \E i \in 1 .. n : t[i] = y
    <3>1. CASE y = x
      BY <1>1, <3>1
    <3>2. CASE y # x
      <4>1. PICK j \in 1 .. n - 1 : s[j] = y
        BY <1>2, <3>2 DEF Range
      <4>2. j + 1 \in 1 .. n /\ t[j + 1] = y
        BY <1>1, <4>1
      <4>3. QED BY <4>2
    <3>3. QED BY <3>1, <3>2
  <2>2. DOMAIN t = 1 .. n /\ \A i \in 1 .. n : t[i] \in S
    BY <1>3
  <2> HIDE DEF t
  <2>3. QED BY <2>1, <2>2 DEF Range
<1>5. ASSUME NEW i \in 1 .. n, NEW j \in 1 .. n, i < j PROVE t[i] < t[j]
  <2>1. t[j] = s[j - 1] /\ j - 1 \in 1 .. n - 1
    BY <1>1, <1>5
  <2>2. s[j - 1] \in S /\ s[j - 1] # x
    BY <1>2, <2>1
  <2>3. CASE i = 1
    <3>1. x =< s[j - 1] /\ x \in Nat /\ s[j - 1] \in Nat
      BY <2>2
    <3>2. QED BY <1>1, <2>1, <2>2, <2>3, <3>1
  <2>4. CASE i # 1
    <3>1. i - 1 \in 1 .. n - 1 /\ t[i] = s[i - 1]
      BY <1>1, <1>5, <2>4
    <3>2. i - 1 < j - 1
      BY <1>1, <1>5
    <3>3. s[i - 1] < s[j - 1]
      BY <1>2, <2>1, <3>1, <3>2
    <3>4. QED BY <2>1, <3>1, <3>3
  <2>5. QED BY <2>3, <2>4
<1>6. Ascends(t, S)
  BY <1>3, <1>4, <1>5 DEF Ascends
<1>7. QED BY <1>6

\* The members of a finite set of numbers can be listed from the smallest up.
LEMMA ListingExists ==
    ASSUME NEW S, S \subseteq Nat, IsFiniteSet(S)
    PROVE  \E s : Ascends(s, S)
<1> DEFINE Unlisted == {U \in SUBSET Nat : IsFiniteSet(U) /\ ~\E s : Ascends(s, U)}
           Sizes == {Cardinality(U) : U \in Unlisted}
<1>1. SUFFICES ASSUME S \in Unlisted PROVE FALSE
  OBVIOUS
<1>2. Sizes \subseteq Nat /\ Sizes # {}
  BY <1>1, FS_CardinalityType
<1>3. PICK n \in Sizes : \A m \in Sizes : n =< m
  BY <1>2, LeastOf
<1>4. PICK U \in Unlisted : Cardinality(U) = n
  BY <1>3
<1>5. CASE U = {}
  <2>1. Ascends(<<>>, U)
    BY <1>5, FS_EmptySet DEF Ascends, Range
  <2>2. QED BY <1>4, <2>1
<1>6. CASE U # {}
  <2>1. PICK x \in U : \A y \in U : x =< y
    BY <1>4, <1>6, LeastOf
  <2>2. IsFiniteSet(U \ {x}) /\ Cardinality(U \ {x}) = n - 1
    BY <1>4, FS_RemoveElement
  <2>3. n - 1 \notin Sizes
    BY <1>2, <1>3
  <2>4. U \ {x} \notin Unlisted
    BY <2>2, <2>3
  <2>5. PICK s : Ascends(s, U \ {x})
    BY <1>4, <2>2, <2>4
  <2>6. \E t : Ascends(t, U)
    BY <1>4, <2>1, <2>5, ListingGrows
  <2>7. QED BY <1>4, <2>6
<1>7. QED BY <1>5, <1>6

LEMMA AscendingIsListing ==
    ASSUME NEW S, S \subseteq Nat, IsFiniteSet(S)
    PROVE  Ascends(Ascending(S), S)
<1>1. PICK s : Ascends(s, S)
  BY ListingExists
<1>2. s \in [1 .. Cardinality(S) -> S]
  BY <1>1 DEF Ascends
<1>3. QED BY <1>1, <1>2 DEF Ascending

\* The largest number of a finite set, and of two.
LEMMA LargestOf ==
    ASSUME NEW S, S \subseteq Nat, IsFiniteSet(S), S # {}
    PROVE  Max(S) \in S /\ \A y \in S : y =< Max(S)
<1> DEFINE n == Cardinality(S)
           s == Ascending(S)
<1>1. n \in Nat \ {0}
  BY FS_CardinalityType, FS_EmptySet
<1>2. Ascends(s, S)
  BY AscendingIsListing
<1> HIDE DEF s, n
<1>3. s \in [1 .. n -> S] /\ Range(s) = S /\ \A i, j \in 1 .. n : i < j => s[i] < s[j]
  BY <1>2 DEF Ascends, n
<1>4. s[n] \in S
  BY <1>1, <1>3
<1>5. ASSUME NEW y \in S PROVE s[n] >= y
  <2>1. PICK i \in 1 .. n : s[i] = y
    BY <1>3 DEF Range
  <2>2. i = n \/ s[i] < s[n]
    BY <1>1, <1>3
  <2>3. s[n] \in Nat /\ y \in Nat
    BY <1>4
  <2>4. QED BY <2>1, <2>2, <2>3
<1>6. \E x \in S : \A y \in S : x >= y
  BY <1>4, <1>5
<1>7. Max(S) \in S /\ \A y \in S : Max(S) >= y
  BY <1>6 DEF Max
<1>8. QED BY <1>7

LEMMA LargerOfTwo ==
    ASSUME NEW a \in Nat, NEW b \in Nat
    PROVE  Max({a, b}) = IF a >= b THEN a ELSE b
<1>1. PICK x \in {a, b} : \A y \in {a, b} : x >= y
  OBVIOUS
<1>2. Max({a, b}) \in {a, b} /\ \A y \in {a, b} : Max({a, b}) >= y
  BY <1>1 DEF Max
<1>3. QED BY <1>2

LEMMA SmallerOfTwo ==
    ASSUME NEW a \in Nat, NEW b \in Nat
    PROVE  Min({a, b}) = IF a =< b THEN a ELSE b
<1>1. PICK x \in {a, b} : \A y \in {a, b} : x =< y
  OBVIOUS
<1>2. Min({a, b}) \in {a, b} /\ \A y \in {a, b} : Min({a, b}) =< y
  BY <1>1 DEF Min
<1>3. QED BY <1>2

LEMMA SmallestOf ==
    ASSUME NEW S, S \subseteq Nat, S # {}
    PROVE  Min(S) \in S
<1>1. \E x \in S : \A y \in S : x =< y
  BY LeastOf
<1>2. QED BY <1>1 DEF Min

LEMMA Share ==
    ASSUME NEW a \in Nat, NEW i \in Nat, NEW c \in Nat \ {0}, i =< c
    PROVE  (a * i) \div c \in Nat /\ (a * i) \div c =< a
<1> DEFINE q == (a * i) \div c
<1>1. a * i \in Nat /\ a * i =< a * c
  OBVIOUS
<1>2. q \in Nat /\ c * q =< a * i
  BY <1>1
<1> HIDE DEF q
<1>3. c * q =< c * a
  BY <1>1, <1>2
<1>4. q =< a
  BY <1>2, <1>3
<1>5. QED BY <1>2, <1>4 DEF q

\* Every target is a word count within the limit.
LEMMA ScalesInRange ==
    ASSUME NEW max \in Nat \ {0}, NEW count \in Nat \ {0}, count =< max
    PROVE  IntegerScales(max, count) \in [1 .. count -> 1 .. max]
<1>1. ASSUME NEW i \in 1 .. count PROVE Max({1, (max * i) \div count}) \in 1 .. max
  <2>1. (max * i) \div count \in Nat /\ (max * i) \div count =< max
    BY Share
  <2>2. QED BY <2>1, LargerOfTwo
<1> DEFINE at(i) == IF i = count THEN max ELSE Max({1, (max * i) \div count})
<1>2. ASSUME NEW i \in 1 .. count PROVE at(i) \in 1 .. max
  <2>1. CASE i = count
    BY <2>1
  <2>2. CASE i # count
    BY <1>1, <2>2
  <2>3. QED BY <2>1, <2>2
<1>3. IntegerScales(max, count) = [i \in 1 .. count |-> at(i)]
  <2>1. ~(max < count)
    OBVIOUS
  <2>2. QED BY <2>1 DEF IntegerScales
<1> HIDE DEF at
<1>4. QED BY <1>2, <1>3

\* The command line, the model and its workload.
LEMMA RequestFacts ==
    ASSUME PlanningAssumption, request \in PlanningRequests
    PROVE  /\ kind \in {"text", "audio", "series", "workload"}
           /\ request.limit \in Words
           /\ request.tokens \in [Words -> 1 .. MaxWords + 1]
           /\ \A v, w \in Words : v =< w => request.tokens[v] =< request.tokens[w]
           /\ request.defaults \in Seq(Positive) /\ request.defaults # <<>>
           /\ kind = "text" => request.defaults = <<2>>
           /\ request.scales \in Requests
<1>1. MaxWords \in Nat \ {0}
  BY DEF PlanningAssumption
<1>2. [w \in Words |-> w] \in Tokenizers
  BY <1>1 DEF Tokenizers, Words
<1>3. request.tokens \in Tokenizers
  BY <1>2 DEF PlanningRequests
<1>4. request.tokens \in [Words -> 1 .. MaxWords + 1]
  BY <1>3 DEF Tokenizers
<1>5. ASSUME NEW v \in Words, NEW w \in Words, v =< w PROVE request.tokens[v] =< request.tokens[w]
  <2>1. CASE v = w
    BY <1>1, <1>4, <2>1
  <2>2. CASE v # w
    BY <1>1, <1>3, <1>5, <2>2 DEF Tokenizers, Words
  <2>3. QED BY <2>1, <2>2
<1>6. /\ kind \in {"text", "audio", "series", "workload"} /\ request.limit \in Words
      /\ request.scales \in Requests
  BY DEF PlanningRequests, kind
<1>7. request.defaults \in Seq(Positive) /\ request.defaults # <<>>
      /\ (kind = "text" => request.defaults = <<2>>)
  <2>1. CASE request \in [kind : {"text"}, scales : Requests, policy : {"auto", "minimal"},
                          defaults : {<<2>>}, tokens : Tokenizers, limit : Words]
    <3>1. request.defaults = <<2>>
      BY <2>1
    <3>2. <<2>> \in Seq(Positive) /\ <<2>> # <<>>
      BY DEF Positive
    <3>3. QED BY <3>1, <3>2
  <2>2. CASE request \in [kind : {"audio", "series", "workload"}, scales : Requests,
                          policy : {"auto", "minimal"}, defaults : Defaults,
                          tokens : {[w \in Words |-> w]}, limit : Words]
    BY <2>2 DEF kind, Positive, PlanningAssumption
  <2>3. QED BY <2>1, <2>2 DEF PlanningRequests
<1>8. QED BY <1>4, <1>5, <1>6, <1>7

LEMMA ManualFacts ==
    ASSUME PlanningAssumption, request \in PlanningRequests
    PROVE  /\ IsFiniteSet(Manual) /\ Manual \subseteq Positive
           /\ kind = "text" => Manual \subseteq 1 .. 2 * MaxWords + 1
<1>1. MaxWords \in Nat \ {0}
  BY DEF PlanningAssumption
<1>2. request.scales \subseteq 1 .. 2 * MaxWords + 1
  BY RequestFacts DEF PlanningAssumption
<1>3. IsFiniteSet(request.scales)
  <2>1. IsFiniteSet(1 .. 2 * MaxWords + 1)
    BY <1>1, FS_Interval
  <2>2. QED BY <1>2, <2>1, FS_Subset
<1> DEFINE least == Min(Range(request.defaults))
<1>4. least \in Positive /\ (kind = "text" => least = 2)
  <2>1. Range(request.defaults) \subseteq Positive /\ Range(request.defaults) # {}
    <3>1. request.defaults \in Seq(Positive) /\ 1 \in DOMAIN request.defaults
      BY RequestFacts
    <3>2. \A i \in DOMAIN request.defaults : request.defaults[i] \in Positive
      BY <3>1
    <3>3. QED BY <3>1, <3>2 DEF Range
  <2>2. least \in Range(request.defaults)
    BY <2>1, SmallestOf DEF Positive
  <2>3. ASSUME kind = "text" PROVE least = 2
    <3>1. request.defaults = <<2>>
      BY <2>3, RequestFacts
    <3>2. Range(<<2>>) = {2}
      BY DEF Range
    <3>3. QED BY <2>2, <3>1, <3>2
  <2>4. QED BY <2>1, <2>2, <2>3
<1> HIDE DEF least
<1>5. Manual \in {request.scales, {least}, {}}
  BY DEF Manual, least
<1>6. IsFiniteSet({least}) /\ IsFiniteSet({})
  BY FS_Singleton, FS_EmptySet
<1>7. CASE Manual = request.scales
  BY <1>2, <1>3, <1>7 DEF Positive
<1>8. CASE Manual = {least}
  <2>1. {least} \subseteq Positive /\ (kind = "text" => {least} \subseteq 1 .. 2 * MaxWords + 1)
    BY <1>1, <1>4
  <2>2. QED BY <1>6, <1>8, <2>1
<1>9. CASE Manual = {}
  BY <1>6, <1>9
<1>10. QED BY <1>5, <1>7, <1>8, <1>9

\* A listing of a finite set of scales is a plan of targets.
LEMMA ListingOfScales ==
    ASSUME NEW S, S \subseteq Positive, IsFiniteSet(S)
    PROVE  /\ Ascending(S) \in Seq(Positive) /\ Range(Ascending(S)) = S
           /\ Ascending(S) = <<>> <=> S = {}
<1>1. Ascends(Ascending(S), S)
  BY AscendingIsListing DEF Positive
<1>2. Cardinality(S) \in Nat /\ (Cardinality(S) = 0 <=> S = {})
  BY FS_CardinalityType, FS_EmptySet
<1>3. Ascending(S) \in [1 .. Cardinality(S) -> S] /\ Range(Ascending(S)) = S
  BY <1>1 DEF Ascends
<1>4. Ascending(S) \in Seq(S) /\ Len(Ascending(S)) = Cardinality(S)
  BY <1>2, <1>3
<1>5. QED BY <1>2, <1>3, <1>4

-----------------------------------------------------------------------------
\* What stays as it is while the request does.
LEMMA SameRequest ==
    ASSUME request' = request
    PROVE  /\ kind' = kind /\ Manual' = Manual /\ (AutoText' <=> AutoText) /\ AutoScales' = AutoScales
           /\ \A w : Over(w)' <=> Over(w)
           /\ \A w, target : Distance(w, target)' = Distance(w, target)
<1>1. kind' = kind /\ Manual' = Manual /\ AutoScales' = AutoScales
  BY DEF kind, Manual, AutoScales
<1>2. AutoText' <=> AutoText
  BY <1>1 DEF AutoText
<1>3. \A w : Over(w)' <=> Over(w)
  BY DEF Over
<1>4. \A w, target : Distance(w, target)' = Distance(w, target)
  BY DEF Distance
<1>5. QED BY <1>1, <1>2, <1>3, <1>4

LEMMA EntriesStay ==
    ASSUME EntriesFit, request' = request, entries' = entries
    PROVE  EntriesFit'
<1>1. ASSUME NEW i, Best(i) PROVE Best(i)'
  BY <1>1, SameRequest DEF Best
<1>2. QED BY <1>1, SameRequest DEF EntriesFit

LEMMA ScanIdle ==
    ASSUME Scanned, NoSearchYet, planAt \notin {"scan", "release", "scanned", "failed"},
           planAt' \notin {"scan", "release", "scanned"}
    PROVE  Scanned' /\ SmallestThatWorks'
<1>1. tries' = <<>> /\ verdict' = NoVerdict
  BY DEF Scanned, NoSearchYet
<1>2. QED BY <1>1 DEF Scanned, SmallestThatWorks, NoVerdict

\* The first targets.
LEMMA DefaultsFinite ==
    ASSUME PlanningAssumption, request \in PlanningRequests
    PROVE  IsFiniteSet(Range(request.defaults)) /\ Range(request.defaults) \subseteq Positive
<1>1. request.defaults \in Seq(Positive)
  BY RequestFacts
<1> DEFINE n == Len(request.defaults)
<1>2. n \in Nat /\ DOMAIN request.defaults = 1 .. n /\ \A i \in 1 .. n : request.defaults[i] \in Positive
  BY <1>1
<1> HIDE DEF n
<1>3. IsFiniteSet(1 .. n)
  BY <1>2, FS_Interval
<1>4. Range(request.defaults) = {request.defaults[i] : i \in 1 .. n}
  BY <1>2 DEF Range
<1>5. request.defaults \in Surjection(1 .. n, Range(request.defaults))
  <2>1. request.defaults \in [1 .. n -> Range(request.defaults)]
    BY <1>1, <1>2, <1>4
  <2>2. QED BY <1>4, <2>1 DEF Surjection
<1>6. IsFiniteSet(Range(request.defaults))
  BY <1>3, <1>5, FS_Surjection
<1>7. QED BY <1>2, <1>4, <1>6

LEMMA ChoosePlannerKeeps ==
    ASSUME PlanningAssumption, PlanningInv, ChoosePlanner
    PROVE  PlanningInv'
<1> USE DEF PlanningInv, ChoosePlanner
<1>1. request' = request /\ request \in PlanningRequests /\ planFile' = <<>>
      /\ planAt' \in {"materialize", "start"} /\ (planAt' = "materialize" <=> kind = "workload")
      /\ entries' = <<>> /\ probeOn' = FALSE /\ rejected' \in BOOLEAN
  BY DEF Asked, AtWork, Collected
<1>2. kind' = kind /\ Manual' = Manual
  BY <1>1, SameRequest
<1>3. targets' \in Seq(Positive)
      /\ (kind = "text" => (targets' = <<>> <=> Manual = {}))
      /\ (kind = "text" => \A j \in DOMAIN targets' : targets'[j] =< 2 * MaxWords + 1)
  <2>1. CASE Manual # {}
    <3>1. targets' = Ascending(Manual) /\ targets' \in Seq(Positive) /\ Range(targets') = Manual
          /\ targets' # <<>>
      BY <1>1, <2>1, ManualFacts, ListingOfScales
    <3>2. ASSUME kind = "text", NEW j \in DOMAIN targets' PROVE targets'[j] =< 2 * MaxWords + 1
      <4>1. targets'[j] \in Manual
        BY <3>1, <3>2 DEF Range
      <4>2. Manual \subseteq 1 .. 2 * MaxWords + 1
        BY <1>1, <3>2, ManualFacts
      <4>3. QED BY <4>1, <4>2 DEF PlanningAssumption
    <3>3. QED BY <2>1, <3>1, <3>2
  <2>2. CASE Manual = {} /\ kind = "audio"
    BY <1>1, <2>2, DefaultsFinite, ListingOfScales
  <2>3. CASE Manual = {} /\ kind = "workload"
    BY <1>1, <2>3, RequestFacts
  <2>4. CASE Manual = {} /\ kind \notin {"audio", "workload"}
    BY <2>4
  <2>5. QED BY <2>1, <2>2, <2>3, <2>4
<1>4. Asked'
  BY <1>1, <1>3 DEF Asked
<1>5. OnFile'
  BY <1>1 DEF OnFile, Planned, OldPlan
<1>6. AtWork'
  BY <1>1, <1>2 DEF AtWork
<1>7. Collected'
  BY <1>1, <1>2, <1>3 DEF Collected, Planned
<1>8. EntriesFit'
  BY <1>1 DEF EntriesFit
<1>9. Remaining' /\ Searched'
  BY <1>1 DEF Remaining, Searched, Planned
<1>10. Scanned' /\ SmallestThatWorks'
  BY <1>1, ScanIdle
<1>11. QED BY <1>4, <1>5, <1>6, <1>7, <1>8, <1>9, <1>10

LEMMA StartProbeKeeps ==
    ASSUME PlanningAssumption, PlanningInv, StartProbe
    PROVE  PlanningInv'
<1> USE DEF PlanningInv, StartProbe
<1>1. UNCHANGED <<request, planFile, entries, targets, rejected>> /\ planFile = <<>> /\ entries = <<>>
      /\ planAt' \in {"manual", "meta", "failed"}
  BY DEF OnFile, Collected
<1>2. kind' = kind /\ Manual' = Manual
  BY <1>1, SameRequest
<1>3. Asked'
  BY <1>1 DEF Asked
<1>4. OnFile'
  BY <1>1 DEF OnFile, Planned, OldPlan
<1>5. AtWork'
  BY <1>1, <1>2 DEF AtWork, Collected
<1>6. Collected'
  BY <1>1, <1>2 DEF Collected, Planned
<1>7. EntriesFit'
  BY <1>1, EntriesStay
<1>8. Remaining' /\ Searched'
  BY <1>1 DEF Remaining, Searched, Planned
<1>9. Scanned' /\ SmallestThatWorks'
  BY <1>1, ScanIdle
<1>10. QED BY <1>3, <1>4, <1>5, <1>6, <1>7, <1>8, <1>9

LEMMA UnansweredKeeps ==
    ASSUME PlanningAssumption, PlanningInv, Unanswered
    PROVE  PlanningInv'
<1> USE DEF PlanningInv, Unanswered
<1>1. UNCHANGED <<request, planFile, entries, targets, rejected, probeOn>> /\ planFile = <<>>
      /\ planAt' = "abandon"
  BY DEF OnFile, Failing
<1>2. Asked'
  BY <1>1 DEF Asked
<1>3. OnFile' /\ AtWork' /\ Collected'
  BY <1>1 DEF OnFile, AtWork, Collected, Planned, OldPlan
<1>4. EntriesFit'
  BY <1>1, EntriesStay
<1>5. Remaining' /\ Searched'
  BY <1>1 DEF Remaining, Searched, Planned
<1>6. Scanned' /\ SmallestThatWorks'
  BY <1>1, ScanIdle
<1>7. QED BY <1>2, <1>3, <1>4, <1>5, <1>6

LEMMA Appended ==
    ASSUME NEW S, NEW s \in Seq(S), NEW e \in S
    PROVE  /\ Append(s, e) \in Seq(S) /\ Append(s, e) # <<>> /\ Len(Append(s, e)) = Len(s) + 1
           /\ \A i \in DOMAIN Append(s, e) : Append(s, e)[i] = IF i = Len(s) + 1 THEN e ELSE s[i]
           /\ \A i \in DOMAIN Append(s, e) : i # Len(s) + 1 => i \in DOMAIN s
OBVIOUS

LEMMA EndsOf ==
    ASSUME NEW S, NEW s \in Seq(S), s # <<>>
    PROVE  s[1] \in S /\ s[Len(s)] \in S
OBVIOUS

LEMMA TailOf ==
    ASSUME NEW S, NEW s \in Seq(S), s # <<>>
    PROVE  /\ Tail(s) \in Seq(S) /\ Len(s) \in Nat \ {0} /\ Len(Tail(s)) = Len(s) - 1
           /\ DOMAIN Tail(s) = 1 .. Len(s) - 1
           /\ \A i \in DOMAIN Tail(s) : Tail(s)[i] = s[i + 1] /\ i + 1 \in DOMAIN s
OBVIOUS

\* The targets an automatic text plan starts from.
LEMMA TargetsInRange ==
    ASSUME PlanningAssumption, request \in PlanningRequests, request.limit >= ScaleCount
    PROVE  /\ AutoScales \in Seq(Positive) /\ Len(AutoScales) = ScaleCount
           /\ \A i \in 1 .. ScaleCount : AutoScales[i] \in 1 .. request.limit
           /\ request.limit \in 1 .. MaxWords /\ ScaleCount \in Positive
<1>1. request.limit \in 1 .. MaxWords /\ MaxWords \in Positive /\ ScaleCount \in Positive
  BY RequestFacts DEF PlanningAssumption, Words, Positive
<1>2. AutoScales \in [1 .. ScaleCount -> 1 .. request.limit]
  <2>1. request.limit \in Nat \ {0} /\ ScaleCount \in Nat \ {0} /\ ScaleCount =< request.limit
    BY <1>1 DEF Positive
  <2>2. QED BY <2>1, ScalesInRange DEF AutoScales
<1>3. QED BY <1>1, <1>2 DEF Positive

LEMMA ScaleMetaKeeps ==
    ASSUME PlanningAssumption, PlanningInv, ScaleMeta
    PROVE  PlanningInv'
<1> USE DEF PlanningInv, ScaleMeta
<1>1. /\ UNCHANGED <<request, planFile, entries, rejected, probeOn>> /\ planFile = <<>> /\ entries = <<>>
      /\ request \in PlanningRequests
  BY DEF OnFile, Collected, Asked
<1>2. kind' = kind /\ Manual' = Manual /\ AutoScales' = AutoScales
      /\ kind \in {"text", "audio", "series", "workload"} /\ kind # "workload"
      /\ (kind = "text" => Manual = {})
  BY <1>1, SameRequest, RequestFacts DEF AtWork
<1>3. request.limit \in Nat /\ ScaleCount \in Nat
  BY <1>1, RequestFacts DEF PlanningAssumption, Words
<1>4. CASE kind = "text" /\ AutoScales # <<>>
  <2>1. targets' = AutoScales /\ planAt' = "search"
        /\ search' = [left |-> 1, right |-> AutoScales[1], best |-> None]
    BY <1>4 DEF AutoScales
  <2>2. request.limit >= ScaleCount
    BY <1>3, <1>4 DEF AutoScales, IntegerScales
  <2>3. /\ AutoScales \in Seq(Positive) /\ Len(AutoScales) = ScaleCount /\ ScaleCount \in Positive
        /\ \A i \in 1 .. ScaleCount : AutoScales[i] \in 1 .. request.limit
    BY <1>1, <2>2, TargetsInRange
  <2>4. Target' = AutoScales[1] /\ AutoScales[1] \in Nat
    BY <2>1, <2>3 DEF Target, Positive
  <2>5. Asked'
    BY <1>1, <2>1, <2>3 DEF Asked
  <2>6. OnFile' /\ AtWork' /\ Collected'
    BY <1>1, <1>2, <1>4, <2>1 DEF OnFile, AtWork, Collected, Planned, OldPlan
  <2>7. EntriesFit'
    BY <1>1, EntriesStay
  <2>8. Remaining'
    <3>1. Len(entries') = 0 /\ DOMAIN targets' = 1 .. ScaleCount
      BY <1>1, <2>1, <2>3
    <3>2. targets' # <<>> /\ \A j \in DOMAIN targets' : targets'[j] = AutoScales[0 + j]
      BY <2>1, <2>3, <3>1 DEF Positive
    <3>3. QED BY <1>1, <1>2, <1>3, <2>1, <2>2, <2>3, <3>1, <3>2 DEF Remaining, Planned
  <2>9. Searched'
    BY <2>1, <2>4 DEF Searched, None
  <2>10. Scanned' /\ SmallestThatWorks'
    BY <2>1, ScanIdle
  <2>11. QED BY <2>5, <2>6, <2>7, <2>8, <2>9, <2>10
<1>5. CASE kind # "text" \/ AutoScales = <<>>
  <2>1. /\ planAt' \in {"abandon", "check", "stop"} /\ (planAt' = "check" => kind = "audio")
        /\ (planAt' = "stop" => kind = "series")
        /\ (targets' = targets \/ targets' = <<>>)
    <3>1. CASE kind = "text"
      BY <1>5, <3>1 DEF AutoScales
    <3>2. CASE kind = "audio"
      BY <3>2
    <3>3. CASE kind = "series"
      BY <3>3
    <3>4. QED BY <1>2, <3>1, <3>2, <3>3
  <2>2. Asked'
    <3>1. <<>> \in Seq(Positive) /\ targets \in Seq(Positive)
      BY DEF Asked
    <3>2. QED BY <1>1, <2>1, <3>1 DEF Asked
  <2>3. OnFile'
    BY <1>1, <1>2, <2>1 DEF OnFile, Planned, OldPlan, AutoText
  <2>4. AtWork' /\ Collected'
    BY <1>1, <1>2, <2>1 DEF AtWork, Collected, Planned
  <2>5. EntriesFit'
    BY <1>1, EntriesStay
  <2>6. Remaining' /\ Searched'
    BY <1>2, <2>1 DEF Remaining, Searched, Planned, AutoText
  <2>7. Scanned' /\ SmallestThatWorks'
    BY <2>1, ScanIdle
  <2>8. QED BY <2>2, <2>3, <2>4, <2>5, <2>6, <2>7
<1>6. QED BY <1>2, <1>4, <1>5

LEMMA ProbeManualKeeps ==
    ASSUME PlanningAssumption, PlanningInv, ProbeManual
    PROVE  PlanningInv'
<1> USE DEF PlanningInv, ProbeManual
<1>1. /\ UNCHANGED <<request, planFile, probeOn>> /\ planFile = <<>>
      /\ request \in PlanningRequests /\ kind = "text" /\ Manual # {}
  BY DEF OnFile, AtWork, Asked
<1>2. kind' = kind /\ Manual' = Manual /\ ~AutoText
  BY <1>1, SameRequest DEF AutoText
<1>3. CASE targets = <<>>
  <2>1. planAt' = (IF rejected THEN "abandon" ELSE "stop") /\ UNCHANGED <<entries, targets, rejected>>
    BY <1>3
  <2>2. ~rejected => entries # <<>>
    BY <1>3 DEF Collected
  <2>3. Asked'
    BY <1>1, <2>1 DEF Asked
  <2>4. OnFile'
    BY <1>1, <1>2, <2>1 DEF OnFile, Planned, OldPlan, AutoText
  <2>5. AtWork' /\ Collected'
    BY <1>1, <1>2, <2>1, <2>2 DEF AtWork, Collected, Planned
  <2>6. EntriesFit'
    BY <1>1, <2>1, EntriesStay
  <2>7. Remaining' /\ Searched'
    BY <1>1, <1>2, <2>1 DEF Remaining, Searched, Planned, AutoText
  <2>8. Scanned' /\ SmallestThatWorks'
    BY <2>1, ScanIdle
  <2>9. QED BY <2>3, <2>4, <2>5, <2>6, <2>7, <2>8
<1>4. CASE targets # <<>>
  <2> DEFINE w == Max({1, Head(targets) \div 2})
             e == [scale |-> request.tokens[w], words |-> w]
  <2>1. /\ targets' = Tail(targets) /\ rejected' = (rejected \/ Over(w)) /\ planAt' = "manual"
        /\ entries' = IF Over(w) THEN entries ELSE Append(entries, e)
    BY <1>4
  <2>2. targets \in Seq(Positive) /\ \A j \in DOMAIN targets : targets[j] =< 2 * MaxWords + 1
    BY <1>1 DEF Asked, Collected
  <2>3. w \in Words
    <3>1. Head(targets) \in Nat /\ Head(targets) =< 2 * MaxWords + 1 /\ MaxWords \in Positive
      BY <1>4, <2>2 DEF PlanningAssumption, Positive
    <3>2. Head(targets) \div 2 \in 0 .. MaxWords
      BY <3>1 DEF Positive
    <3>3. w \in 1 .. MaxWords
      BY <3>1, <3>2, LargerOfTwo DEF Positive
    <3>4. QED BY <3>3 DEF Words
  <2>4. request.tokens[w] \in Positive
    BY <1>1, <2>3, RequestFacts DEF PlanningAssumption, Positive
  <2>0. e.scale = request.tokens[w] /\ e.words = w
    OBVIOUS
  <2> HIDE DEF w
  <2>5. Asked'
    BY <1>1, <1>4, <2>1, <2>2 DEF Asked
  <2>6. OnFile' /\ AtWork'
    BY <1>1, <1>2, <2>1 DEF OnFile, AtWork, Planned, OldPlan
  <2>7. entries \in Seq([scale : Positive, words : Words]) /\ e \in [scale : Positive, words : Words]
    BY <1>1, <2>3, <2>4 DEF EntriesFit
  <2> HIDE DEF e
  <2>8. EntriesFit'
    <3>1. entries' \in Seq([scale : Positive, words : Words])
      <4>1. CASE Over(w)
        BY <2>1, <2>7, <4>1
      <4>2. CASE ~Over(w)
        BY <2>1, <2>7, <4>2, Appended
      <4>3. QED BY <4>1, <4>2
    <3>2. ASSUME NEW i \in DOMAIN entries'
          PROVE  ~Over(entries'[i].words) /\ entries'[i].scale = request.tokens[entries'[i].words]
      <4>1. CASE i \in DOMAIN entries
        <5>1. entries'[i] = entries[i]
          BY <2>1, <2>7, <4>1
        <5>2. QED BY <1>1, <4>1, <5>1 DEF EntriesFit
      <4>2. CASE i \notin DOMAIN entries
        <5>1. entries'[i] = e /\ ~Over(w)
          BY <2>1, <2>7, <3>2, <4>2
        <5>2. QED BY <2>0, <5>1
      <4>3. QED BY <4>1, <4>2
    <3>3. QED BY <1>1, <1>2, <3>1, <3>2, SameRequest DEF EntriesFit
  <2>9. Collected'
    <3>1. ~rejected' => entries' # <<>>
      <4>1. CASE Over(w)
        BY <2>1, <4>1
      <4>2. CASE ~Over(w)
        <5>1. entries' = Append(entries, e)
          BY <2>1, <4>2
        <5>2. QED BY <2>7, <5>1, Appended
      <4>3. QED BY <4>1, <4>2
    <3>2. \A j \in DOMAIN targets' : targets'[j] =< 2 * MaxWords + 1
      BY <1>4, <2>1, <2>2
    <3>3. QED BY <2>1, <3>1, <3>2 DEF Collected, Planned
  <2>10. Remaining' /\ Searched'
    BY <2>1 DEF Remaining, Searched, Planned
  <2>11. Scanned' /\ SmallestThatWorks'
    BY <2>1, ScanIdle
  <2>12. QED BY <2>5, <2>6, <2>8, <2>9, <2>10, <2>11
<1>5. QED BY <1>3, <1>4

LEMMA CheckAudioKeeps ==
    ASSUME PlanningAssumption, PlanningInv, CheckAudio
    PROVE  PlanningInv'
<1> USE DEF PlanningInv, CheckAudio
<1>1. UNCHANGED <<request, planFile, targets, rejected, probeOn>> /\ planFile = <<>>
      /\ planAt' \in {"stop", "check", "abandon"} /\ kind = "audio"
  BY DEF OnFile, AtWork
<1>2. kind' = kind
  BY <1>1, SameRequest
<1>3. Asked'
  BY <1>1 DEF Asked
<1>4. OnFile'
  BY <1>1, <1>2 DEF OnFile, Planned, OldPlan, AutoText
<1>5. AtWork' /\ Collected'
  BY <1>1, <1>2 DEF AtWork, Collected, Planned
<1>6. EntriesFit' /\ Remaining'
  BY <1>1, <1>2 DEF EntriesFit, Remaining, AutoText
<1>7. Searched'
  BY <1>1 DEF Searched
<1>8. Scanned' /\ SmallestThatWorks'
  BY <1>1, ScanIdle
<1>9. QED BY <1>3, <1>4, <1>5, <1>6, <1>7, <1>8

\* What the search is about: a target within the limit, tokens that only grow.
LEMMA SearchFacts ==
    ASSUME PlanningAssumption, PlanningInv, planAt \in {"search", "upper"}
    PROVE  /\ AutoText /\ request \in PlanningRequests /\ request.limit \in 1 .. MaxWords
           /\ Target = AutoScales[Len(entries) + 1] /\ Target \in 1 .. request.limit
           /\ Len(entries) + 1 \in 1 .. ScaleCount
           /\ Words = 1 .. MaxWords /\ MaxWords \in Nat
           /\ \A w \in Words : request.tokens[w] \in Positive
           /\ \A v, w \in Words : v =< w => request.tokens[v] =< request.tokens[w]
           /\ targets \in Seq(Positive) /\ targets # <<>>
<1> USE DEF PlanningInv
<1>1. AutoText /\ request \in PlanningRequests /\ targets \in Seq(Positive)
  BY DEF AtWork, AutoText, Asked
<1>2. /\ request.limit >= ScaleCount
      /\ targets # <<>> /\ Len(entries) + Len(targets) = ScaleCount
      /\ \A j \in DOMAIN targets : targets[j] = AutoScales[Len(entries) + j]
  BY <1>1 DEF Remaining
<1>3. \A i \in 1 .. ScaleCount : AutoScales[i] \in 1 .. request.limit
  BY <1>1, <1>2, TargetsInRange
<1>4. request.limit \in 1 .. MaxWords /\ ScaleCount \in Positive
  BY <1>1, <1>2, TargetsInRange
<1>5. entries \in Seq([scale : Positive, words : Words])
  BY <1>1 DEF EntriesFit, AutoText
<1>6. Len(targets) \in Nat \ {0} /\ Len(entries) \in Nat /\ 1 \in DOMAIN targets /\ Target = targets[1]
  BY <1>1, <1>2, <1>5 DEF Target
<1>7. Target = AutoScales[Len(entries) + 1] /\ Len(entries) + 1 \in 1 .. ScaleCount
  BY <1>2, <1>4, <1>6 DEF Positive
<1>8. Target \in 1 .. request.limit
  BY <1>3, <1>7
<1>9. MaxWords \in Nat /\ Words = 1 .. MaxWords
  BY DEF PlanningAssumption, Words
<1>10. \A w \in Words : request.tokens[w] \in Positive
  BY <1>1, <1>9, RequestFacts DEF Positive
<1>11. \A v, w \in Words : v =< w => request.tokens[v] =< request.tokens[w]
  BY <1>1, RequestFacts
<1>12. QED BY <1>1, <1>2, <1>4, <1>7, <1>8, <1>9, <1>10, <1>11

\* A text of more words does not fit if a shorter one does not.
LEMMA OverStaysOver ==
    ASSUME PlanningAssumption, PlanningInv, planAt \in {"search", "upper"},
           NEW v \in 1 .. Target, ~Fitting(v), NEW w \in v .. Target
    PROVE  ~Fitting(w)
<1>1. /\ Target \in Nat /\ Target =< MaxWords /\ Words = 1 .. MaxWords /\ MaxWords \in Nat
      /\ request.limit \in Nat
  BY SearchFacts
<1>2. v \in Words /\ w \in Words /\ v =< w
  BY <1>1
<1>3. request.tokens[v] =< request.tokens[w] /\ request.tokens[v] \in Nat /\ request.tokens[w] \in Nat
  BY <1>2, SearchFacts DEF Positive
<1>4. QED BY <1>1, <1>3 DEF Fitting, Over

LEMMA BisectKeeps ==
    ASSUME PlanningAssumption, PlanningInv, Bisect
    PROVE  PlanningInv'
<1>1. /\ UNCHANGED <<request, planFile, entries, targets, rejected, probeOn>>
      /\ planAt = "search" /\ planAt' \in {"search", "upper"} /\ NoSearchYet
  BY DEF Bisect
<1>2. kind' = kind /\ Manual' = Manual /\ AutoScales' = AutoScales /\ (AutoText' <=> AutoText)
  BY <1>1, SameRequest
<1>3. Asked'
  BY <1>1 DEF Asked, PlanningInv
<1>4. OnFile' /\ AtWork' /\ Collected'
  BY <1>1, <1>2 DEF OnFile, AtWork, Collected, Planned, OldPlan, PlanningInv
<1>5. EntriesFit'
  BY <1>1, EntriesStay DEF PlanningInv
<1>6. Remaining'
  BY <1>1, <1>2 DEF Remaining, Planned, PlanningInv
<1>7. Searched'
  <2>1. /\ search \in [left : Nat, right : Nat, best : Nat]
        /\ search.left = search.best + 1
        /\ search.best =< search.right /\ search.right =< Target
        /\ search.best # None => Fitting(search.best)
        /\ \A w \in search.right + 1 .. Target : ~Fitting(w)
    BY <1>1 DEF Searched, PlanningInv
  <2>2. Target' = Target /\ \A w : Fitting(w)' <=> Fitting(w)
    BY <1>1 DEF Target, Fitting, Over
  <2>3. Target \in Nat
    BY <1>1, SearchFacts
  <2>4. CASE search.left > search.right
    <3>1. planAt' = "upper" /\ search' = search
      BY <2>4 DEF Bisect
    <3>2. QED BY <2>1, <2>2, <2>4, <3>1 DEF Searched
  <2>5. CASE ~(search.left > search.right)
    <3> DEFINE mid == (search.left + search.right) \div 2
    <3>1. mid \in search.left .. search.right /\ mid \in 1 .. Target
      BY <2>1, <2>3, <2>5
    <3>2. planAt' = "search"
          /\ search' = IF Fitting(mid) THEN [search EXCEPT !.best = mid, !.left = mid + 1]
                       ELSE [search EXCEPT !.right = mid - 1]
      BY <2>5 DEF Bisect, Fitting, Target
    <3> HIDE DEF mid
    <3>3. CASE Fitting(mid)
      <4>1. search' = [left |-> mid + 1, right |-> search.right, best |-> mid]
        BY <2>1, <3>2, <3>3
      <4>2. QED BY <2>1, <2>2, <2>3, <3>1, <3>2, <3>3, <4>1 DEF Searched
    <3>4. CASE ~Fitting(mid)
      <4>1. search' = [left |-> search.left, right |-> mid - 1, best |-> search.best]
        BY <2>1, <3>2, <3>4
      <4>2. \A w \in mid .. Target : ~Fitting(w)
        BY <1>1, <3>1, <3>4, OverStaysOver
      <4>3. mid - 1 \in Nat /\ search.best =< mid - 1 /\ mid - 1 =< Target /\ (mid - 1) + 1 = mid
        BY <2>1, <2>3, <3>1
      <4>4. search' \in [left : Nat, right : Nat, best : Nat]
            /\ search'.left = search.left /\ search'.best = search.best /\ search'.right = mid - 1
        BY <2>1, <4>1, <4>3
      <4>5. \A w \in search'.right + 1 .. Target' : ~Fitting(w)'
        BY <2>2, <4>2, <4>3, <4>4
      <4>6. QED BY <2>1, <2>2, <3>2, <4>3, <4>4, <4>5 DEF Searched
    <3>5. QED BY <3>3, <3>4
  <2>6. QED BY <2>4, <2>5
<1>8. Scanned' /\ SmallestThatWorks'
  BY <1>1, ScanIdle DEF PlanningInv
<1>9. QED BY <1>3, <1>4, <1>5, <1>6, <1>7, <1>8 DEF PlanningInv

\* Of one or two candidates one is the nearest.
LEMMA NearestOfTwo ==
    ASSUME NEW ws, NEW a, NEW b, ws \subseteq {a, b}, ws # {}, NEW target,
           \A w \in ws : Distance(w, target) \in Nat /\ request.tokens[w] \in Nat
    PROVE  /\ Nearest(ws, target) \in ws
           /\ \A v \in ws : Distance(Nearest(ws, target), target) =< Distance(v, target)
<1> DEFINE Nearer(w, v) == \/ Distance(w, target) < Distance(v, target)
                           \/ /\ Distance(w, target) = Distance(v, target)
                              /\ request.tokens[w] >= request.tokens[v]
<1>1. \A w, v \in ws : Nearer(w, v) \/ Nearer(v, w)
  OBVIOUS
<1>2. \A w \in ws : Nearer(w, w)
  OBVIOUS
<1>3. Nearest(ws, target) = CHOOSE w \in ws : \A v \in ws : Nearer(w, v)
  BY DEF Nearest
<1>4. \A w, v \in ws : Nearer(w, v) => Distance(w, target) =< Distance(v, target)
  OBVIOUS
<1> HIDE DEF Nearer
<1>5. \E w \in ws : \A v \in ws : Nearer(w, v)
  BY <1>1, <1>2
<1>6. QED BY <1>3, <1>4, <1>5

\* The nearest candidate is as near to its target as any shorter text: what
\* fits is at most best, and what does not fit is no shorter than the next.
LEMMA CandidateIsBest ==
    ASSUME PlanningAssumption, PlanningInv, planAt = "upper", Candidates(Target) # {}
    PROVE  LET w == Nearest(Candidates(Target), Target) IN
           /\ w \in Words /\ ~Over(w) /\ request.tokens[w] \in Positive
           /\ \A v \in 1 .. Target : ~Over(v) => Distance(w, Target) =< Distance(v, Target)
<1> DEFINE found == Candidates(Target)
           w == Nearest(found, Target)
           b == search.best
           upper == IF b = None THEN 1 ELSE Min({Target, b + 1})
<1>1. /\ request.limit \in 1 .. MaxWords /\ Target \in 1 .. request.limit
      /\ Words = 1 .. MaxWords /\ MaxWords \in Nat
      /\ \A v \in Words : request.tokens[v] \in Positive
      /\ \A u, v \in Words : u =< v => request.tokens[u] =< request.tokens[v]
  BY SearchFacts
<1>2. /\ b \in Nat /\ b =< Target /\ (b # None => Fitting(b))
      /\ \A v \in b + 1 .. Target : ~Fitting(v)
  <2>1. /\ search \in [left : Nat, right : Nat, best : Nat]
        /\ search.left = search.best + 1
        /\ search.best =< search.right /\ search.right =< Target
        /\ search.best # None => Fitting(search.best)
        /\ \A v \in search.right + 1 .. Target : ~Fitting(v)
        /\ search.left > search.right
    BY DEF PlanningInv, Searched
  <2>2. search.right = b /\ Target \in Nat
    BY <1>1, <2>1
  <2>3. QED BY <2>1, <2>2
<1>3. upper \in 1 .. Target /\ \A v \in b + 1 .. Target : upper =< v /\ upper = b + 1
  <2>1. Target \in Nat /\ 1 =< Target
    BY <1>1
  <2>2. CASE b = None
    BY <1>2, <2>1, <2>2 DEF None
  <2>3. CASE b # None
    <3>1. Min({Target, b + 1}) = IF Target =< b + 1 THEN Target ELSE b + 1
      BY <1>2, <2>1, SmallerOfTwo
    <3>2. upper = IF Target =< b + 1 THEN Target ELSE b + 1
      BY <2>3, <3>1
    <3>3. b \in Nat /\ b =< Target /\ Target \in Nat /\ 1 =< Target
      BY <1>2, <2>1
    <3> HIDE DEF upper, b
    <3>4. upper \in 1 .. Target
      BY <3>2, <3>3
    <3>5. ASSUME NEW v \in b + 1 .. Target PROVE upper =< v /\ upper = b + 1
      BY <3>2, <3>3
    <3>6. QED BY <3>4, <3>5
  <2>4. QED BY <2>2, <2>3
<1>4. found = {v \in {b, upper} \ {None} : ~Over(v)}
  BY DEF Candidates
<1> HIDE DEF upper
<1>5. found \subseteq {b, upper} /\ \A v \in found : v \in Words /\ ~Over(v)
  BY <1>1, <1>2, <1>3, <1>4 DEF None
<1>6. \A v \in Words : Distance(v, Target) \in Nat /\ request.tokens[v] \in Nat
  BY <1>1 DEF Distance, Positive
<1>7. w \in found /\ \A v \in found : Distance(w, Target) =< Distance(v, Target)
  BY <1>5, <1>6, NearestOfTwo
<1>8. ASSUME NEW v \in 1 .. Target, ~Over(v) PROVE Distance(w, Target) =< Distance(v, Target)
  <2>1. v \in Words /\ w \in Words /\ Target \in Nat
    BY <1>1, <1>5, <1>7
  <2>2. \A u \in Words : Distance(w, Target) \in Nat /\ Distance(u, Target) \in Nat
    BY <1>6, <2>1
  <2>3. ASSUME NEW u \in found, Distance(u, Target) =< Distance(v, Target)
        PROVE  Distance(w, Target) =< Distance(v, Target)
    <3>1. Distance(w, Target) =< Distance(u, Target) /\ u \in Words
      BY <1>5, <1>7
    <3>2. Distance(w, Target) \in Nat /\ Distance(u, Target) \in Nat /\ Distance(v, Target) \in Nat
      BY <2>1, <2>2, <3>1
    <3>3. QED BY <2>3, <3>1, <3>2
  <2>4. CASE request.tokens[v] =< Target
    <3>1. Fitting(v)
      BY <1>8, <2>4 DEF Fitting
    <3>2. v =< b /\ b # None
      BY <1>2, <2>1, <3>1 DEF None
    <3>3. b \in found /\ Fitting(b) /\ b \in Words
      BY <1>1, <1>2, <1>4, <3>2 DEF Fitting, None
    <3>4. request.tokens[v] =< request.tokens[b] /\ request.tokens[b] =< Target
      BY <1>1, <2>1, <3>2, <3>3 DEF Fitting
    <3>5. request.tokens[v] \in Nat /\ request.tokens[b] \in Nat
      BY <1>6, <2>1, <3>3
    <3>6. Distance(b, Target) =< Distance(v, Target)
      BY <2>1, <3>4, <3>5 DEF Distance
    <3>7. QED BY <2>3, <3>3, <3>6
  <2>5. CASE ~(request.tokens[v] =< Target)
    <3>1. ~Fitting(v) /\ request.tokens[v] \in Nat
      BY <1>6, <2>1, <2>5 DEF Fitting
    <3>2. v \in b + 1 .. Target
      <4>1. CASE b = None
        BY <1>2, <2>1, <4>1 DEF None
      <4>2. CASE b # None
        <5>1. Fitting(b) /\ b \in Words
          BY <1>1, <1>2, <4>2 DEF None
        <5>2. request.tokens[b] =< Target /\ request.tokens[b] \in Nat
          BY <1>6, <5>1 DEF Fitting
        <5>3. ~(v =< b)
          BY <1>1, <2>1, <2>5, <3>1, <5>1, <5>2
        <5>4. QED BY <1>2, <2>1, <5>3
      <4>3. QED BY <4>1, <4>2
    <3>3. upper =< v /\ upper \in b + 1 .. Target /\ upper \in Words
      BY <1>1, <1>2, <1>3, <3>2
    <3>4. request.tokens[upper] =< request.tokens[v] /\ request.tokens[upper] \in Nat
      BY <1>1, <1>6, <2>1, <3>3
    <3>5. ~Over(upper)
      BY <1>1, <1>8, <3>1, <3>4 DEF Over
    <3>6. upper \in found
      BY <1>1, <1>4, <3>3, <3>5 DEF None
    <3>7. request.tokens[upper] > Target
      BY <1>2, <2>1, <3>3, <3>4, <3>5 DEF Fitting
    <3>8. Distance(upper, Target) =< Distance(v, Target)
      BY <2>1, <3>1, <3>4, <3>7 DEF Distance
    <3>9. QED BY <2>3, <3>6, <3>8
  <2>6. QED BY <2>4, <2>5
<1>9. w \in Words /\ ~Over(w) /\ request.tokens[w] \in Positive
  BY <1>1, <1>5, <1>7
<1> HIDE DEF w
<1>10. QED BY <1>8, <1>9 DEF w

LEMMA TakeCandidateKeeps ==
    ASSUME PlanningAssumption, PlanningInv, TakeCandidate
    PROVE  PlanningInv'
<1> DEFINE w == Nearest(Candidates(Target), Target)
           grown == Append(entries, [scale |-> request.tokens[w], words |-> w])
<1>1. /\ UNCHANGED <<request, probeOn>> /\ NoSearchYet /\ planAt = "upper" /\ planFile = <<>>
      /\ planFile # OldPlan
  BY DEF TakeCandidate, PlanningInv, OnFile
<1>2. kind' = kind /\ Manual' = Manual /\ AutoScales' = AutoScales /\ (AutoText' <=> AutoText)
  BY <1>1, SameRequest
<1>3. /\ AutoText /\ kind = "text" /\ Manual = {}
      /\ targets \in Seq(Positive) /\ targets # <<>>
      /\ Target = AutoScales[Len(entries) + 1] /\ Len(entries) + 1 \in 1 .. ScaleCount
  BY <1>1, SearchFacts DEF AutoText
<1>4. CASE Candidates(Target) = {} \/ (entries # <<>> /\ request.tokens[w] =< entries[Len(entries)].scale)
  <2>1. planAt' = "abandon" /\ UNCHANGED <<entries, targets, rejected, planFile>>
    BY <1>4 DEF TakeCandidate, Failing, Target
  <2>2. Asked'
    BY <1>1, <2>1 DEF Asked, PlanningInv
  <2>3. OnFile' /\ AtWork' /\ Collected'
    BY <1>1, <2>1 DEF OnFile, AtWork, Collected, Planned, OldPlan, PlanningInv
  <2>4. EntriesFit'
    BY <1>1, <2>1, EntriesStay DEF PlanningInv
  <2>5. Remaining' /\ Searched'
    BY <2>1 DEF Remaining, Searched, Planned
  <2>6. Scanned' /\ SmallestThatWorks'
    BY <1>1, <2>1, ScanIdle DEF PlanningInv
  <2>7. QED BY <2>2, <2>3, <2>4, <2>5, <2>6 DEF PlanningInv
<1>5. CASE ~(Candidates(Target) = {} \/ (entries # <<>> /\ request.tokens[w] =< entries[Len(entries)].scale))
  <2>1. /\ w \in Words /\ ~Over(w) /\ request.tokens[w] \in Positive
        /\ \A v \in 1 .. Target : ~Over(v) => Distance(w, Target) =< Distance(v, Target)
    BY <1>1, <1>5, CandidateIsBest
  <2>2. /\ entries' = grown /\ targets' = Tail(targets) /\ rejected' = rejected
        /\ (Tail(targets) = <<>> => planAt' = "stop" /\ planFile' = grown)
        /\ (Tail(targets) # <<>> => /\ planAt' = "search" /\ planFile' = planFile
                                    /\ search' = [left |-> 1, right |-> targets[2], best |-> None])
    BY <1>5 DEF TakeCandidate, Target
  <2> DEFINE e == [scale |-> request.tokens[w], words |-> w]
             n == Len(entries)
  <2>3. e \in [scale : Positive, words : Words] /\ e.scale = request.tokens[w] /\ e.words = w
    BY <2>1
  <2>4. grown = Append(entries, e) /\ entries \in Seq([scale : Positive, words : Words])
    <3>1. entries \in Seq([scale : Positive, words : Words])
      BY <1>3 DEF PlanningInv, EntriesFit
    <3>2. QED BY <3>1
  <2>5. entries # <<>> => request.tokens[w] > entries[n].scale
    <3>1. ASSUME entries # <<>> PROVE entries[n].scale \in Nat
      <4>1. entries[Len(entries)] \in [scale : Positive, words : Words]
        BY <2>4, <3>1, EndsOf
      <4>2. QED BY <4>1 DEF Positive
    <3>2. QED BY <1>5, <2>1, <3>1 DEF Positive
  <2> HIDE DEF w, e, grown
  <2>6. /\ grown \in Seq([scale : Positive, words : Words]) /\ grown # <<>> /\ Len(grown) = n + 1 /\ n \in Nat
        /\ DOMAIN grown = 1 .. n + 1
        /\ \A i \in DOMAIN grown : grown[i] = IF i = n + 1 THEN e ELSE entries[i]
        /\ DOMAIN entries = 1 .. n
    BY <2>3, <2>4, Appended
  <2> HIDE DEF n
  <2>7. EntriesFit'
    <3>1. ASSUME NEW i \in DOMAIN grown
          PROVE  ~Over(grown[i].words) /\ grown[i].scale = request.tokens[grown[i].words]
      <4>1. CASE i = n + 1
        BY <2>1, <2>3, <2>6, <4>1
      <4>2. CASE i # n + 1
        <5>1. i \in DOMAIN entries /\ grown[i] = entries[i]
          BY <2>6, <4>2
        <5>2. QED BY <1>3, <5>1 DEF PlanningInv, EntriesFit
      <4>3. QED BY <4>1, <4>2
    <3>2. ASSUME NEW i \in DOMAIN grown PROVE Best(i)'
      <4>1. CASE i = n + 1
        <5>1. grown[i] = e /\ AutoScales[i] = Target
          BY <1>3, <2>6, <4>1 DEF n
        <5>2. \A v \in 1 .. AutoScales[i] :
                ~Over(v) => Distance(grown[i].words, AutoScales[i]) =< Distance(v, AutoScales[i])
          BY <2>1, <2>3, <5>1
        <5>3. i > 1 => grown[i].scale > grown[i - 1].scale
          <6>1. ASSUME i > 1 PROVE entries # <<>> /\ grown[i - 1] = entries[n]
            BY <2>6, <4>1, <6>1
          <6>2. QED BY <2>3, <2>5, <5>1, <6>1
        <5>4. QED BY <1>1, <1>2, <2>2, <5>2, <5>3, SameRequest DEF Best
      <4>2. CASE i # n + 1
        <5>1. i \in DOMAIN entries /\ grown[i] = entries[i] /\ (i > 1 => grown[i - 1] = entries[i - 1])
          BY <2>6, <4>2
        <5>2. Best(i)
          BY <1>3, <5>1 DEF PlanningInv, EntriesFit
        <5>3. QED BY <1>1, <1>2, <2>2, <5>1, <5>2, SameRequest DEF Best
      <4>3. QED BY <4>1, <4>2
    <3>3. QED BY <1>1, <1>2, <2>2, <2>6, <3>1, <3>2, SameRequest DEF EntriesFit
  <2>8. Asked'
    BY <1>1, <1>3, <2>2 DEF Asked, PlanningInv
  <2>9. AtWork' /\ Collected'
    BY <1>1, <1>2, <1>3, <2>2, <2>6 DEF AtWork, Collected, Planned, PlanningInv
  <2>10. OnFile'
    <3>1. grown # OldPlan
      <4>1. grown[1] \in [scale : Positive, words : Words]
        BY <2>6, EndsOf
      <4>2. OldPlan[1].scale \notin Positive
        BY DEF OldPlan, None, Positive
      <4>3. QED BY <4>1, <4>2
    <3>2. QED BY <1>1, <1>2, <1>3, <2>2, <3>1 DEF OnFile, Planned, OldPlan
  <2>11. Remaining'
    <3>1. /\ request.limit >= ScaleCount /\ n + Len(targets) = ScaleCount /\ ScaleCount \in Nat
          /\ \A j \in DOMAIN targets : targets[j] = AutoScales[n + j]
      BY <1>1, <1>3 DEF PlanningInv, Remaining, n, PlanningAssumption
    <3>2. CASE Tail(targets) = <<>>
      <4>1. Len(targets) = 1
        <5>1. Len(Tail(targets)) = 0 /\ Len(targets) \in Nat /\ Len(Tail(targets)) = Len(targets) - 1
          BY <1>3, <3>2, TailOf
        <5>2. QED BY <5>1
      <4>2. QED BY <2>2, <2>6, <3>1, <3>2, <4>1 DEF Remaining, Planned
    <3>3. CASE Tail(targets) # <<>>
      <4>1. /\ Len(Tail(targets)) = Len(targets) - 1 /\ DOMAIN Tail(targets) = 1 .. Len(targets) - 1
            /\ \A j \in DOMAIN Tail(targets) : Tail(targets)[j] = targets[j + 1] /\ j + 1 \in DOMAIN targets
            /\ Len(targets) \in Nat
        BY <1>3, TailOf
      <4>2. Len(entries') + Len(targets') = ScaleCount
        <5>1. Len(entries') = n + 1 /\ Len(targets') = Len(targets) - 1
          BY <2>2, <2>6, <4>1
        <5>2. (n + 1) + (Len(targets) - 1) = n + Len(targets)
          BY <2>6, <4>1
        <5>3. QED BY <3>1, <5>1, <5>2
      <4>3. \A j \in DOMAIN targets' : targets'[j] = AutoScales[Len(entries') + j]
        BY <2>2, <2>6, <3>1, <4>1
      <4>4. QED BY <1>1, <1>2, <2>2, <3>1, <3>3, <4>2, <4>3 DEF Remaining, Planned
    <3>4. QED BY <3>2, <3>3
  <2>12. Searched'
    <3>1. CASE Tail(targets) = <<>>
      BY <2>2, <3>1 DEF Searched
    <3>2. CASE Tail(targets) # <<>>
      <4>1. Target' = targets[2] /\ targets[2] \in Nat
        BY <1>3, <2>2, <3>2 DEF Target, Positive
      <4>2. QED BY <2>2, <3>2, <4>1 DEF Searched, None
    <3>3. QED BY <3>1, <3>2
  <2>13. Scanned' /\ SmallestThatWorks'
    BY <1>1, <2>2, ScanIdle DEF PlanningInv
  <2>14. QED BY <2>7, <2>8, <2>9, <2>10, <2>11, <2>12, <2>13 DEF PlanningInv
<1>6. QED BY <1>4, <1>5

LEMMA StopProbeKeeps ==
    ASSUME PlanningAssumption, PlanningInv, StopProbe
    PROVE  PlanningInv'
<1> USE DEF PlanningInv, StopProbe
<1>1. UNCHANGED <<request, planFile, entries, targets, rejected>> /\ probeOn' \in BOOLEAN
      /\ planAt \in {"stop", "abandon"} /\ planAt' \in {"failed", "planned", "write", "materialize"}
      /\ (planAt' # "failed" => planAt = "stop" /\ ~probeOn')
      /\ (planAt' = "planned" <=> planAt' # "failed" /\ AutoText)
      /\ (planAt' = "write" => kind = "text" /\ Manual # {})
      /\ (planAt' = "materialize" => kind # "text")
      /\ (planAt' = "failed" => planAt = "abandon" \/ probeOn')
  BY DEF AutoText
<1>2. kind' = kind /\ Manual' = Manual /\ (AutoText' <=> AutoText)
  BY <1>1, SameRequest
<1>3. planFile # OldPlan /\ (planAt = "abandon" => planFile = <<>>)
      /\ (planAt = "stop" => planFile = IF AutoText THEN entries ELSE <<>>)
  BY <1>1 DEF OnFile
<1>4. Asked'
  BY <1>1 DEF Asked
<1>5. OnFile'
  BY <1>1, <1>2, <1>3 DEF OnFile, Planned, OldPlan, AutoText
<1>6. AtWork'
  BY <1>1, <1>2 DEF AtWork
<1>7. Collected'
  BY <1>1, <1>2 DEF Collected, Planned, AutoText
<1>8. EntriesFit'
  BY <1>1, EntriesStay
<1>9. Remaining'
  BY <1>1, <1>2 DEF Remaining, Planned
<1>10. Searched'
  BY <1>1 DEF Searched
<1>11. Scanned' /\ SmallestThatWorks'
  BY <1>1, ScanIdle
<1>12. QED BY <1>4, <1>5, <1>6, <1>7, <1>8, <1>9, <1>10, <1>11

LEMMA WritePlanKeeps ==
    ASSUME PlanningAssumption, PlanningInv, WritePlan
    PROVE  PlanningInv'
<1> USE DEF PlanningInv, WritePlan
<1>1. UNCHANGED <<request, entries, targets, rejected, probeOn>> /\ planAt' = "planned" /\ planFile' = entries
      /\ planAt = "write" /\ kind = "text" /\ Manual # {} /\ ~probeOn /\ entries # <<>>
  BY DEF AtWork, Collected
<1>2. kind' = kind /\ Manual' = Manual /\ ~AutoText' /\ ~AutoText
  BY <1>1, SameRequest DEF AutoText
<1>3. entries # OldPlan
  <2>1. entries \in Seq([scale : Positive, words : Words])
    BY <1>1 DEF EntriesFit
  <2>2. entries[1] \in [scale : Positive, words : Words]
    BY <1>1, <2>1, EndsOf
  <2>3. OldPlan[1].scale \notin Positive
    BY DEF OldPlan, None, Positive
  <2>4. QED BY <2>2, <2>3
<1>4. Asked'
  BY <1>1 DEF Asked
<1>5. OnFile'
  BY <1>1, <1>3 DEF OnFile, Planned
<1>6. AtWork' /\ Collected'
  BY <1>1, <1>2 DEF AtWork, Collected, Planned
<1>7. EntriesFit'
  BY <1>1, EntriesStay
<1>8. Remaining' /\ Searched'
  BY <1>1, <1>2 DEF Remaining, Searched
<1>9. Scanned' /\ SmallestThatWorks'
  BY <1>1, ScanIdle
<1>10. QED BY <1>4, <1>5, <1>6, <1>7, <1>8, <1>9

\* What a forecasting plan asks for is positive.
LEMMA SeriesPositive ==
    ASSUME PlanningAssumption, PlanningInv
    PROVE  SeriesScales \in Seq(Positive)
<1>1. /\ request \in PlanningRequests /\ targets \in Seq(Positive)
      /\ request.limit \in Positive /\ ScaleCount \in Positive
  BY RequestFacts DEF PlanningInv, Asked, Words, PlanningAssumption, Positive
<1> DEFINE n == Min({ScaleCount, request.limit})
<1>2. n \in Positive /\ n =< request.limit
  BY <1>1, SmallerOfTwo DEF Positive
<1> HIDE DEF n
<1>3. IntegerScales(request.limit, n) \in [1 .. n -> 1 .. request.limit]
  BY <1>1, <1>2, ScalesInRange DEF Positive
<1>4. CASE Manual = {}
  <2>1. SeriesScales = [i \in 1 .. n |-> 2 * IntegerScales(request.limit, n)[i]]
    BY <1>4 DEF SeriesScales, n
  <2>2. ASSUME NEW i \in 1 .. n PROVE 2 * IntegerScales(request.limit, n)[i] \in Positive
    <3>1. IntegerScales(request.limit, n)[i] \in 1 .. request.limit /\ request.limit \in Nat
      BY <1>1, <1>3 DEF Positive
    <3>2. QED BY <3>1 DEF Positive
  <2>3. QED BY <1>2, <2>1, <2>2 DEF Positive
<1>5. CASE Manual # {}
  <2>1. SeriesScales \in {targets, <<>>}
    BY <1>5 DEF SeriesScales
  <2>2. <<>> \in Seq(Positive)
    OBVIOUS
  <2>3. QED BY <1>1, <2>1, <2>2
<1>6. QED BY <1>4, <1>5

LEMMA MaterializeKeeps ==
    ASSUME PlanningAssumption, PlanningInv, Materialize
    PROVE  PlanningInv'
<1> DEFINE scales == IF kind = "series" THEN SeriesScales ELSE targets
           made == [i \in DOMAIN scales |-> [scale |-> scales[i], words |-> None]]
<1>1. /\ UNCHANGED <<request, targets, rejected, probeOn>> /\ NoSearchYet
      /\ planAt = "materialize" /\ kind # "text" /\ ~probeOn /\ planFile = <<>>
  BY DEF Materialize, PlanningInv, AtWork, OnFile
<1>2. kind' = kind
  BY <1>1, SameRequest
<1>3. \/ scales # <<>> /\ entries' = made /\ planFile' = made /\ planAt' = "planned"
      \/ planAt' = "failed" /\ UNCHANGED <<entries, planFile>>
  BY DEF Materialize
<1>4. scales \in Seq(Positive)
  BY SeriesPositive DEF PlanningInv, Asked
<1> HIDE DEF scales
<1>5. ASSUME scales # <<>> PROVE made # <<>> /\ made # OldPlan
  <2>1. 1 \in DOMAIN scales /\ scales[1] \in Positive
    BY <1>4, <1>5
  <2>2. made[1].scale \in Positive /\ DOMAIN made = DOMAIN scales
    BY <2>1
  <2>3. OldPlan[1].scale \notin Positive /\ DOMAIN <<>> = {}
    BY DEF OldPlan, None, Positive
  <2> HIDE DEF made
  <2>4. QED BY <2>1, <2>2, <2>3
<1> HIDE DEF made
<1>6. Asked'
  BY <1>1 DEF Asked, PlanningInv
<1>7. OnFile'
  BY <1>1, <1>3, <1>5 DEF OnFile, Planned, OldPlan
<1>8. AtWork' /\ Collected'
  BY <1>1, <1>2, <1>3, <1>5 DEF AtWork, Collected, Planned
<1>9. EntriesFit' /\ Remaining' /\ Searched'
  BY <1>1, <1>2, <1>3 DEF EntriesFit, Remaining, Searched, AutoText
<1>10. Scanned' /\ SmallestThatWorks'
  BY <1>1, <1>3, ScanIdle DEF PlanningInv
<1>11. QED BY <1>6, <1>7, <1>8, <1>9, <1>10 DEF PlanningInv

-----------------------------------------------------------------------------
\* The scan goes up from the smallest memory, each once.
LEMMA MemoriesInOrder ==
    ASSUME PlanningAssumption
    PROVE  /\ Cardinality(Memories) \in Nat \ {0} /\ Memories \subseteq Positive
           /\ Ascending(Memories) \in [1 .. Cardinality(Memories) -> Memories]
           /\ \A m \in Memories : \E i \in 1 .. Cardinality(Memories) : Ascending(Memories)[i] = m
           /\ \A i, j \in 1 .. Cardinality(Memories) : i < j => Ascending(Memories)[i] < Ascending(Memories)[j]
           /\ Max(Memories) \in Nat
<1>1. Memories \subseteq Nat /\ Memories \subseteq Positive /\ IsFiniteSet(Memories) /\ Memories # {}
  BY DEF PlanningAssumption, Positive
<1>2. Ascends(Ascending(Memories), Memories)
  BY <1>1, AscendingIsListing
<1>3. Cardinality(Memories) \in Nat \ {0}
  BY <1>1, FS_CardinalityType, FS_EmptySet
<1>4. Max(Memories) \in Nat
  BY <1>1, LargestOf
<1>5. Ascending(Memories) \in [1 .. Cardinality(Memories) -> Memories]
      /\ Range(Ascending(Memories)) = Memories
      /\ \A i, j \in 1 .. Cardinality(Memories) : i < j => Ascending(Memories)[i] < Ascending(Memories)[j]
  BY <1>2 DEF Ascends
<1>6. \A m \in Memories : \E i \in 1 .. Cardinality(Memories) : Ascending(Memories)[i] = m
  BY <1>5 DEF Range
<1>7. QED BY <1>1, <1>3, <1>4, <1>5, <1>6

\* The plan stays as it is while memory sizes are tried.
LEMMA PlanStays ==
    ASSUME PlanningInv, Scanning, Planned, Planned', probeOn' \in BOOLEAN,
           planAt' \in {"planned", "scan", "scanned"} => ~probeOn'
    PROVE  Asked' /\ OnFile' /\ AtWork' /\ Collected' /\ EntriesFit' /\ Remaining' /\ Searched'
<1> USE DEF PlanningInv
<1>1. UNCHANGED <<request, planFile, entries, targets, rejected>>
  BY DEF Scanning
<1>2. kind' = kind /\ Manual' = Manual /\ (AutoText' <=> AutoText)
  BY <1>1, SameRequest
<1>3. Asked'
  BY <1>1 DEF Asked
<1>4. OnFile' /\ AtWork' /\ Collected'
  BY <1>1 DEF OnFile, AtWork, Collected, Planned, OldPlan
<1>5. EntriesFit'
  BY <1>1, EntriesStay
<1>6. Remaining' /\ Searched'
  BY <1>1, <1>2 DEF Remaining, Searched, Planned
<1>7. QED BY <1>3, <1>4, <1>5, <1>6

LEMMA BeginScanKeeps ==
    ASSUME PlanningAssumption, PlanningInv, BeginScan
    PROVE  PlanningInv'
<1>1. /\ planAt = "planned" /\ planAt' = "scan" /\ UNCHANGED <<probeOn, tries, verdict>> /\ Scanning
      /\ needed' \in 1 .. Max(Memories) + 1 /\ ~probeOn /\ probeOn \in BOOLEAN
  BY DEF BeginScan, PlanningInv, AtWork, Asked
<1>2. Asked' /\ OnFile' /\ AtWork' /\ Collected' /\ EntriesFit' /\ Remaining' /\ Searched'
  BY <1>1, PlanStays DEF Planned
<1>3. tries' = <<>> /\ verdict' = NoVerdict /\ needed' \in Nat
  BY <1>1, MemoriesInOrder DEF PlanningInv, Scanned
<1>4. Scanned'
  <2>1. tries' \in Seq([mem : Memories, status : {"timeout", "cuda_oom", "error", "ok"} \cup Retryable])
        /\ Len(tries') = 0 /\ DOMAIN tries' = {}
    BY <1>3
  <2>2. QED BY <1>1, <1>3, <2>1, MemoriesInOrder DEF Scanned
<1>5. SmallestThatWorks'
  BY <1>3 DEF SmallestThatWorks, NoVerdict
<1>6. QED BY <1>2, <1>4, <1>5 DEF PlanningInv

LEMMA TryMemoryKeeps ==
    ASSUME PlanningAssumption, PlanningInv, TryMemory
    PROVE  PlanningInv'
<1> DEFINE Try == [mem : Memories, status : {"timeout", "cuda_oom", "error", "ok"} \cup Retryable]
           n == Len(tries)
<1>1. PICK status \in ProbeOutcomes(Candidate) :
        /\ tries' = Append(tries, [mem |-> Candidate, status |-> status])
        /\ probeOn' = (status # "startup_oom")
  BY DEF TryMemory
<1>2. planAt = "scan" /\ planAt' = "release" /\ UNCHANGED <<needed, verdict>> /\ Scanning
  BY DEF TryMemory
<1>3. Asked' /\ OnFile' /\ AtWork' /\ Collected' /\ EntriesFit' /\ Remaining' /\ Searched'
  BY <1>1, <1>2, PlanStays DEF Planned
<1>4. /\ needed \in Nat /\ tries \in Seq(Try) /\ n < Cardinality(Memories) /\ n \in Nat
      /\ \A i \in DOMAIN tries :
            /\ tries[i].mem = Ascending(Memories)[i]
            /\ tries[i].status \in ProbeOutcomes(tries[i].mem)
            /\ tries[i].status \in Retryable
      /\ verdict = NoVerdict
  BY <1>2 DEF PlanningInv, Scanned
<1>5. Candidate = Ascending(Memories)[n + 1] /\ Candidate \in Memories
  <2>1. 1 + n = n + 1 /\ n + 1 \in 1 .. Cardinality(Memories)
    BY <1>4, MemoriesInOrder
  <2>2. QED BY <2>1, MemoriesInOrder DEF Candidate
<1> DEFINE e == [mem |-> Candidate, status |-> status]
<1>6. e \in Try /\ e.mem = Candidate /\ e.status = status
  BY <1>5 DEF ProbeOutcomes, Retryable
<1>7. tries' = Append(tries, e)
  BY <1>1
<1> HIDE DEF e, Try
<1>8. /\ tries' \in Seq(Try) /\ tries' # <<>> /\ Len(tries') = n + 1
      /\ \A i \in DOMAIN tries' : tries'[i] = IF i = n + 1 THEN e ELSE tries[i]
      /\ \A i \in DOMAIN tries' : i # n + 1 => i \in DOMAIN tries
  BY <1>4, <1>6, <1>7, Appended
<1> HIDE DEF n
<1>9. ASSUME NEW i \in DOMAIN tries'
      PROVE  /\ tries'[i].mem = Ascending(Memories)[i]
             /\ tries'[i].status \in ProbeOutcomes(tries'[i].mem)
             /\ i < Len(tries') => tries'[i].status \in Retryable
  <2>1. CASE i = n + 1
    <3>1. tries'[i] = e /\ ~(i < Len(tries'))
      BY <1>4, <1>8, <2>1
    <3>2. QED BY <1>1, <1>5, <1>6, <2>1, <3>1
  <2>2. CASE i # n + 1
    <3>1. tries'[i] = tries[i] /\ i \in DOMAIN tries
      BY <1>8, <2>2
    <3>2. QED BY <1>4, <3>1
  <2>3. QED BY <2>1, <2>2
<1>10. Scanned'
  <2>1. Len(tries') =< Cardinality(Memories)
    BY <1>4, <1>8, MemoriesInOrder
  <2>2. \A m : ProbeOutcomes(m)' = ProbeOutcomes(m)
    BY <1>2 DEF ProbeOutcomes
  <2>3. QED BY <1>2, <1>4, <1>8, <1>9, <2>1, <2>2 DEF Scanned, Try
<1>11. SmallestThatWorks'
  BY <1>2, <1>4 DEF SmallestThatWorks, NoVerdict
<1>12. QED BY <1>3, <1>10, <1>11 DEF PlanningInv

\* What the scan concludes.
LEMMA ScanConcludes ==
    ASSUME PlanningAssumption, PlanningInv, planAt = "release",
           NEW last, last = tries[Len(tries)],
           last.status \in Retryable => Len(tries) = Cardinality(Memories)
    PROVE  /\ last.status = "ok" => last.mem >= needed /\ \A m \in Memories : m < last.mem => m < needed
           /\ last.status \in Retryable => \A m \in Memories : m < needed
<1> DEFINE n == Len(tries)
           mems == Ascending(Memories)
<1>1. /\ needed \in Nat /\ n =< Cardinality(Memories) /\ n \in Nat \ {0} /\ DOMAIN tries = 1 .. n
      /\ \A i \in 1 .. n :
            /\ tries[i].mem = mems[i]
            /\ tries[i].status \in ProbeOutcomes(tries[i].mem)
            /\ i < n => tries[i].status \in Retryable
  BY DEF PlanningInv, Scanned
<1>2. /\ Cardinality(Memories) \in Nat /\ Memories \subseteq Nat
      /\ mems \in [1 .. Cardinality(Memories) -> Memories]
      /\ \A m \in Memories : \E i \in 1 .. Cardinality(Memories) : mems[i] = m
      /\ \A i, j \in 1 .. Cardinality(Memories) : i < j => mems[i] < mems[j]
  BY MemoriesInOrder DEF Positive
<1> HIDE DEF n, mems
<1>3. last = tries[n] /\ last.mem = mems[n] /\ last.status \in ProbeOutcomes(last.mem)
  BY <1>1 DEF n
<1>4. ASSUME NEW i \in 1 .. n, tries[i].status \in Retryable PROVE mems[i] < needed
  BY <1>1, <1>4 DEF ProbeOutcomes, Retryable
<1>5. ASSUME last.status = "ok" PROVE last.mem >= needed /\ \A m \in Memories : m < last.mem => m < needed
  <2>1. last.mem \in Nat
    <3>1. n \in 1 .. Cardinality(Memories)
      BY <1>1, <1>2
    <3>2. mems[n] \in Memories
      BY <1>2, <3>1
    <3>3. QED BY <1>2, <1>3, <3>2
  <2>2. last.mem >= needed
    BY <1>1, <1>3, <1>5, <2>1 DEF ProbeOutcomes
  <2>3. ASSUME NEW m \in Memories, m < last.mem PROVE m < needed
    <3>1. PICK i \in 1 .. Cardinality(Memories) : mems[i] = m
      BY <1>2
    <3>2. i < n
      <4>1. CASE i = n
        BY <1>3, <2>1, <2>3, <3>1, <4>1
      <4>2. CASE i > n
        <5>1. n \in 1 .. Cardinality(Memories) /\ n < i
          BY <1>1, <1>2, <4>2
        <5>2. mems[n] < mems[i] /\ mems[n] \in Memories /\ mems[i] \in Memories
          BY <1>2, <5>1
        <5>3. mems[n] \in Nat /\ mems[i] \in Nat
          BY <1>2, <5>2
        <5>4. QED BY <1>3, <2>3, <3>1, <5>2, <5>3
      <4>3. QED BY <1>1, <1>2, <4>1, <4>2
    <3>3. QED BY <1>1, <1>4, <3>1, <3>2
  <2>4. QED BY <2>2, <2>3
<1>6. ASSUME last.status \in Retryable, NEW m \in Memories PROVE m < needed
  <2>1. n = Cardinality(Memories)
    BY <1>6 DEF n
  <2>2. PICK i \in 1 .. n : mems[i] = m
    BY <1>2, <2>1
  <2>3. tries[i].status \in Retryable
    BY <1>1, <1>3, <1>6
  <2>4. QED BY <1>4, <2>2, <2>3
<1>7. QED BY <1>5, <1>6

LEMMA NextMemoryKeeps ==
    ASSUME PlanningAssumption, PlanningInv, NextMemory
    PROVE  PlanningInv'
<1> DEFINE last == tries[Len(tries)]
<1>1. planAt = "release" /\ UNCHANGED <<tries, needed>> /\ Scanning
      /\ verdict = NoVerdict /\ planFile = entries
  BY DEF NextMemory, PlanningInv, Scanned, OnFile, Planned
<1>2. CASE planAt' = "failed"
  <2>1. probeOn' = TRUE /\ verdict' = verdict
    BY <1>1, <1>2 DEF NextMemory
  <2>2. UNCHANGED <<request, planFile, entries, targets, rejected>>
    BY <1>1 DEF Scanning
  <2>3. Asked'
    BY <2>1, <2>2 DEF Asked, PlanningInv
  <2>4. OnFile' /\ AtWork' /\ Collected'
    BY <1>1, <1>2, <2>1, <2>2 DEF OnFile, AtWork, Collected, Planned, OldPlan, PlanningInv
  <2>5. EntriesFit'
    BY <2>2, EntriesStay DEF PlanningInv
  <2>6. Remaining' /\ Searched'
    BY <1>2 DEF Remaining, Searched, Planned
  <2>7. Scanned' /\ SmallestThatWorks'
    BY <1>1, <1>2, <2>1 DEF Scanned, SmallestThatWorks, NoVerdict
  <2>8. QED BY <2>3, <2>4, <2>5, <2>6, <2>7 DEF PlanningInv
<1>3. CASE planAt' # "failed"
  <2>1. /\ probeOn' = FALSE
        /\ LET exhausted == Len(tries) = Cardinality(Memories) IN
           IF last.status \in Retryable /\ ~exhausted
           THEN planAt' = "scan" /\ verdict' = verdict
           ELSE /\ planAt' = "scanned"
                /\ verdict' = IF last.status = "ok" THEN [status |-> "ok", mem |-> last.mem]
                              ELSE IF last.status \in Retryable THEN [status |-> "oom", mem |-> None]
                              ELSE [status |-> last.status, mem |-> None]
    BY <1>3 DEF NextMemory
  <2>2. planAt' \in {"scan", "scanned"}
    BY <2>1
  <2>3. Asked' /\ OnFile' /\ AtWork' /\ Collected' /\ EntriesFit' /\ Remaining' /\ Searched'
    BY <1>1, <2>1, <2>2, PlanStays DEF Planned
  <2>4. /\ needed \in Nat /\ Len(tries) =< Cardinality(Memories) /\ Len(tries) \in Nat \ {0}
        /\ tries \in Seq([mem : Memories, status : {"timeout", "cuda_oom", "error", "ok"} \cup Retryable])
        /\ \A i \in DOMAIN tries :
              /\ tries[i].mem = Ascending(Memories)[i]
              /\ tries[i].status \in ProbeOutcomes(tries[i].mem)
              /\ i < Len(tries) => tries[i].status \in Retryable
        /\ DOMAIN tries = 1 .. Len(tries)
        /\ tries # <<>>
    BY <1>1 DEF PlanningInv, Scanned
  <2>5. last \in [mem : Memories, status : {"timeout", "cuda_oom", "error", "ok"} \cup Retryable]
    BY <2>4, EndsOf
  <2>6. CASE planAt' = "scan"
    <3>1. verdict' = NoVerdict /\ last.status \in Retryable /\ Len(tries) # Cardinality(Memories)
      BY <1>1, <2>1, <2>6
    <3>2. \A i \in DOMAIN tries : tries[i].status \in Retryable
      BY <2>4, <3>1
    <3>3. \A m : ProbeOutcomes(m)' = ProbeOutcomes(m)
      BY <1>1 DEF ProbeOutcomes
    <3>4. Scanned'
      BY <1>1, <2>4, <2>6, <3>1, <3>2, <3>3, MemoriesInOrder DEF Scanned
    <3>5. SmallestThatWorks'
      BY <3>1 DEF SmallestThatWorks, NoVerdict
    <3>6. QED BY <2>3, <3>4, <3>5 DEF PlanningInv
  <2>7. CASE planAt' = "scanned"
    <3>1. Scanned'
      BY <2>7 DEF Scanned
    <3>2. last.status \in Retryable => Len(tries) = Cardinality(Memories)
      BY <2>1, <2>7
    <3>3. /\ last.status = "ok" => last.mem >= needed /\ \A m \in Memories : m < last.mem => m < needed
          /\ last.status \in Retryable => \A m \in Memories : m < needed
      BY <1>1, <3>2, ScanConcludes
    <3>4. last.status \in {"timeout", "cuda_oom", "error", "ok", "startup_oom", "runtime_oom"}
      BY <2>5 DEF Retryable
    <3>5. SmallestThatWorks'
      <4>1. CASE last.status = "ok"
        BY <1>1, <2>1, <2>7, <3>3, <4>1 DEF SmallestThatWorks, Retryable
      <4>2. CASE last.status \in Retryable
        BY <1>1, <2>1, <2>7, <3>3, <4>2 DEF SmallestThatWorks, Retryable
      <4>3. CASE last.status \in {"timeout", "cuda_oom", "error"}
        BY <1>1, <2>1, <2>7, <4>3 DEF SmallestThatWorks, Retryable
      <4>4. QED BY <3>4, <4>1, <4>2, <4>3 DEF Retryable
    <3>6. QED BY <2>3, <3>1, <3>5 DEF PlanningInv
  <2>8. QED BY <2>2, <2>6, <2>7
<1>4. QED BY <1>2, <1>3

-----------------------------------------------------------------------------
LEMMA PlanningInvInit == PlanningAssumption /\ PlanningInit => PlanningInv
<1> SUFFICES ASSUME PlanningAssumption, PlanningInit PROVE PlanningInv
  OBVIOUS
<1> USE DEF PlanningInit
<1>1. Asked
  <2>1. <<>> \in Seq(Positive)
    OBVIOUS
  <2>2. QED BY <2>1 DEF Asked
<1>2. OnFile /\ AtWork /\ Collected
  BY DEF OnFile, AtWork, Collected, Planned
<1>3. EntriesFit /\ Remaining /\ Searched
  BY DEF EntriesFit, Remaining, Searched, Planned
<1>4. Scanned /\ SmallestThatWorks
  BY DEF Scanned, SmallestThatWorks, NoVerdict
<1>5. QED BY <1>1, <1>2, <1>3, <1>4 DEF PlanningInv

LEMMA PlanningInvNext == PlanningAssumption /\ PlanningInv /\ [PlanningNext]_planVars => PlanningInv'
<1> SUFFICES ASSUME PlanningAssumption, PlanningInv, [PlanningNext]_planVars PROVE PlanningInv'
  OBVIOUS
<1>1. CASE UNCHANGED planVars
  <2>1. UNCHANGED <<request, planAt, probeOn, planFile, entries, targets, rejected, search, tries, needed, verdict>>
    BY <1>1 DEF planVars
  <2>2. kind' = kind /\ Manual' = Manual /\ AutoScales' = AutoScales /\ (AutoText' <=> AutoText)
    BY <2>1, SameRequest
  <2>3. Asked' /\ OnFile' /\ AtWork' /\ Collected'
    BY <2>1, <2>2 DEF PlanningInv, Asked, OnFile, AtWork, Collected, Planned, OldPlan
  <2>4. EntriesFit'
    BY <2>1, EntriesStay DEF PlanningInv
  <2>5. Remaining'
    BY <2>1, <2>2 DEF PlanningInv, Remaining, Planned
  <2>6. Searched'
    BY <2>1 DEF PlanningInv, Searched, Target, Fitting, Over
  <2>7. Scanned' /\ SmallestThatWorks'
    <3>1. \A m : ProbeOutcomes(m)' = ProbeOutcomes(m)
      BY <2>1 DEF ProbeOutcomes
    <3>2. QED BY <2>1, <3>1 DEF PlanningInv, Scanned, SmallestThatWorks
  <2>8. QED BY <2>3, <2>4, <2>5, <2>6, <2>7 DEF PlanningInv
<1>2. CASE PlanningNext
  BY <1>2, ChoosePlannerKeeps, StartProbeKeeps, UnansweredKeeps, ScaleMetaKeeps, ProbeManualKeeps,
     CheckAudioKeeps, BisectKeeps, TakeCandidateKeeps, StopProbeKeeps, WritePlanKeeps,
     MaterializeKeeps, BeginScanKeeps, TryMemoryKeeps, NextMemoryKeeps DEF PlanningNext
<1>3. QED BY <1>1, <1>2

\* A plan on file has been checked entry by entry, and an automatic text plan
\* has for every target the nearest text; the memory scan names the smallest
\* size that works (plan_input_scales, run_largest_scale_probe).
THEOREM PlansAreEarned == PlanningSpec => []PlanIsEarned
<1>1. PlanningInit => PlanningInv
  BY PlanningAssumption, PlanningInvInit
<1>2. PlanningInv /\ [PlanningNext]_planVars => PlanningInv'
  BY PlanningAssumption, PlanningInvNext
<1>3. PlanningInv => PlanIsEarned
  <2> SUFFICES ASSUME PlanningInv PROVE PlanIsEarned
    OBVIOUS
  <2> USE DEF PlanningInv
  <2>1. /\ planAt # "clear" => planFile # OldPlan
        /\ planAt = "failed" /\ ~probeOn => planFile = <<>>
        /\ Planned => planFile = entries /\ entries # <<>>
        /\ planAt \in {"planned", "scan", "scanned"} => ~probeOn
    BY DEF OnFile, AtWork, Collected
  <2>2. Planned /\ kind = "text" => \A i \in DOMAIN entries : ~Over(entries[i].words)
    BY DEF EntriesFit
  <2>3. ASSUME Planned, kind = "text", Manual = {} PROVE NearestToTargets
    <3>1. Len(entries) = ScaleCount
      BY <2>3 DEF Remaining, AutoText
    <3>2. \A i \in DOMAIN entries : Best(i)
      BY <2>3 DEF EntriesFit, AutoText
    <3>3. QED BY <2>2, <2>3, <3>1, <3>2 DEF NearestToTargets, Best, AutoScales
  <2>4. QED BY <2>1, <2>2, <2>3 DEF PlanIsEarned
<1>4. QED BY <1>1, <1>2, <1>3, PTL DEF PlanningSpec
-----------------------------------------------------------------------------
(* Coverage runs                                                           *)

\* What the attempts, the process and the containers are made of.
Stages == {"norow", "none", "cleanup", "runtime"}
RowsOf == [index : Models, attempt : Nat, stage : Stages, debt : BOOLEAN, origin : Nat,
           errors : SUBSET (Nat \X Nat), recovered : BOOLEAN]
Views == [Models -> RowsOf]
Records == [configuration : RunConfigs, indices : SUBSET Models, rows : Seq(RowsOf),
            status : {"running", "interrupted", "complete"}]
Boxes == [model : Models, attempt : Nat, scope : {Scope(c) : c \in RunConfigs}]
Overviews == [configuration : RunConfigs, attempts : SUBSET Nat, rows : BOOLEAN]

InLoop == {"save", "model", "confirm", "evaluate", "record"}
Opened == InLoop \cup {"complete", "interrupted"}

CovTypeOK ==
    /\ overview \in Overviews \cup {NoReport}
    /\ files \in Seq(Records \cup {Void})
    /\ rows \in Views /\ row \in RowsOf /\ model \in Models /\ queue \subseteq Models
    /\ cfg \in RunConfigs /\ pc \in Opened \cup {"idle", "mkdir", "persist", "publish"}
    /\ containers \subseteq Boxes /\ owed \subseteq Models \X Boxes

\* The attempts can be read again, the overview asks for nothing that is not there, and
\* what the last attempt has left is not verified.
OnDisk ==
    /\ overview = NoReport => files = <<>> /\ pc = "idle"
    /\ overview # NoReport => Readable
    /\ Attempts = {} /\ pc \in {"mkdir", "persist"} => cfg = overview.configuration
    /\ Known(Replay) # {} => Attempts # {}
    /\ \A i \in Attempts : (\A j \in Attempts : j <= i) =>
          \A m \in files[i].indices \ Rowed(files[i]) : ~IsVerified(Replay[m])

\* What the process has in memory is on disk; its queue is what its attempt has left.
AtHand ==
    /\ rows = IF pc = "idle" THEN NoRows ELSE Replay
    /\ pc \in {"idle", "mkdir", "persist", "model", "confirm"} => row = NoRow
    /\ pc = "persist" => files # <<>> /\ files[Me] = Void
    /\ pc \in {"mkdir", "persist"} => \A m \in queue : ~IsVerified(rows[m])
    /\ pc \in Opened =>
          /\ Me \in Attempts /\ files[Me].configuration = cfg
          /\ queue = files[Me].indices \ Rowed(files[Me])
    /\ pc = "complete" => queue = {}
    /\ pc = "model" => queue # {}
    /\ pc \in {"confirm", "evaluate", "record"} => model \in queue

\* There is one debt at most, and nothing else is done while it stands.
OneDebt ==
    /\ \A a, b \in Debts(Replay) : a = b
    /\ pc \in {"mkdir", "persist", "model"} \/ (pc = "save" /\ ~row.debt) => Debts(rows) \subseteq queue
    /\ pc \in {"confirm", "evaluate", "record"} => Debts(rows) \subseteq {model}
    /\ pc = "confirm" => rows[model].debt
    /\ pc = "evaluate" => (rows[model].debt => row.recovered)
    /\ pc = "record" => IF row.stage = "cleanup" THEN rows[model].debt /\ row.debt /\ ~row.recovered
                        ELSE rows[model].debt => row.recovered

\* A container that is owed has its debt on record, with an attempt of its scope; what
\* this attempt will create is owed by nobody yet.
Owed ==
    /\ \A o \in owed : o[2] \in containers =>
          /\ o[1] \in Debts(Replay) /\ Replay[o[1]].origin \in Attempts
          /\ Scope(files[Replay[o[1]].origin].configuration) = o[2].scope
    /\ \A c \in containers \cup {o[2] : o \in owed} : c.attempt <= Me
    /\ pc = "persist" => \A c \in containers \cup {o[2] : o \in owed} : c.attempt # Me
    /\ pc \in InLoop => \A o \in owed : o[2].attempt = Me => o[2].model \notin queue
    /\ pc \in InLoop => \A c \in containers : c.attempt = Me /\ c.model \in queue =>
                              pc = "record" /\ c.model = model
    /\ pc = "evaluate" \/ (pc = "record" /\ row.stage # "cleanup") =>
          \A o \in owed : o[1] = model => o[2] \notin containers

CovInv == CovTypeOK /\ OnDisk /\ AtHand /\ OneDebt /\ Owed

-----------------------------------------------------------------------------
\* Induction up to n, over the set of the numbers at which something holds.
LEMMA UpTo ==
    ASSUME NEW n \in Nat, NEW S, 0 \in S, \A i \in 1..n : i - 1 \in S => i \in S
    PROVE  0..n \subseteq S
<1>. DEFINE T == (0..n) \ S
<1>1. ASSUME T # {} PROVE FALSE
  <2>1. T \subseteq Nat
    OBVIOUS
  <2>2. \E k \in T : \A j \in T : k <= j
    <3>. HIDE DEF T
    <3>. QED BY <1>1, <2>1, LeastOf
  <2>3. PICK k \in T : \A j \in T : k <= j
    BY <2>2
  <2>4. k \in 1..n /\ k - 1 \in 0..n /\ k - 1 \notin T
    BY <2>3
  <2>. QED BY <2>3, <2>4
<1>. QED BY <1>1

\* What is computed step by step, within a set of values.
Computes(f, n, V, start, g) == f \in [0..n -> V] /\ f[0] = start /\ \A i \in 1..n : f[i] = g[i][f[i - 1]]

LEMMA StepByStep ==
    ASSUME NEW n \in Nat, NEW V, NEW start \in V, NEW g \in [1..n -> [V -> V]]
    PROVE  \E f : Computes(f, n, V, start, g)
<1>. DEFINE S == {k \in 0..n : \E f \in [0..k -> V] : f[0] = start /\ \A i \in 1..k : f[i] = g[i][f[i - 1]]}
<1>1. 0 \in S
  <2>. DEFINE f == [i \in 0..0 |-> start]
  <2>1. f \in [0..0 -> V] /\ f[0] = start /\ \A i \in 1..0 : f[i] = g[i][f[i - 1]]
    OBVIOUS
  <2>. HIDE DEF f
  <2>2. 0 \in 0..n
    OBVIOUS
  <2>. QED BY <2>1, <2>2
<1>2. ASSUME NEW k \in 1..n, k - 1 \in S PROVE k \in S
  <2>1. PICK f \in [0..(k - 1) -> V] : f[0] = start /\ \A i \in 1..(k - 1) : f[i] = g[i][f[i - 1]]
    BY <1>2
  <2>. DEFINE h == [i \in 0..k |-> IF i = k THEN g[k][f[k - 1]] ELSE f[i]]
  <2>2. f[k - 1] \in V /\ g[k] \in [V -> V]
    BY <2>1
  <2>3. h \in [0..k -> V] /\ h[0] = start
    BY <2>1, <2>2
  <2>4. \A i \in 1..k : h[i] = g[i][h[i - 1]]
    BY <2>1
  <2>. HIDE DEF h
  <2>5. k \in 0..n
    OBVIOUS
  <2>. QED BY <2>3, <2>4, <2>5
<1>3. n \in S
  <2>. HIDE DEF S
  <2>1. 0..n \subseteq S
    BY <1>1, <1>2, UpTo
  <2>. QED BY <2>1
<1>. QED BY <1>3 DEF Computes

\* Two computations that take the same steps.
SameRule(n, f, h) == f[0] = h[0] /\ \A i \in 1..n : f[i - 1] = h[i - 1] => f[i] = h[i]

LEMMA SameSteps ==
    ASSUME NEW n \in Nat, NEW f, NEW h, SameRule(n, f, h)
    PROVE  \A i \in 0..n : f[i] = h[i]
<1>. DEFINE S == {i \in 0..n : f[i] = h[i]}
<1>1. 0 \in S /\ \A i \in 1..n : i - 1 \in S => i \in S
  BY DEF SameRule
<1>2. 0..n \subseteq S
  <2>. HIDE DEF S
  <2>. QED BY <1>1, UpTo
<1>. QED BY <1>2
-----------------------------------------------------------------------------
(* The replay.                                                             *)
LEMMA RetainIs ==
    ASSUME NEW before \in RowsOf, NEW r \in RowsOf, NEW attempt \in Nat
    PROVE  Retain(before, r, attempt) \in RowsOf
BY DEF Retain, RowsOf

LEMMA ToldIs ==
    ASSUME NEW view \in Views, NEW r \in RowsOf
    PROVE  Told(view, r) \in Views
<1>1. r.index \in Models /\ r.attempt \in Nat
  BY DEF RowsOf
<1>2. view[r.index] \in RowsOf
  BY <1>1 DEF Views
<1>3. Retain(view[r.index], r, r.attempt) \in RowsOf
  BY <1>1, <1>2, RetainIs
<1>. QED BY <1>1, <1>3 DEF Told, Views

TellsAll(f, view, list) ==
    /\ f \in [0..Len(list) -> Views] /\ f[0] = view
    /\ \A j \in 1..Len(list) : f[j] = Told(f[j - 1], list[j])

LEMMA ToldAllIs ==
    ASSUME NEW view \in Views, NEW list \in Seq(RowsOf)
    PROVE  \E f : TellsAll(f, view, list) /\ ToldAll(view, list) = f[Len(list)]
<1>. DEFINE L == Len(list)
            Rule(f) == [j \in 0..L |-> IF j = 0 THEN view ELSE Told(f[j - 1], list[j])]
            sofar == CHOOSE f : f = Rule(f)
            g == [j \in 1..L |-> [v \in Views |-> Told(v, list[j])]]
<1>1. L \in Nat /\ \A j \in 1..L : list[j] \in RowsOf
  OBVIOUS
<1>2. g \in [1..L -> [Views -> Views]]
  BY <1>1, ToldIs
<1>3. PICK f \in [0..L -> Views] : f[0] = view /\ \A j \in 1..L : f[j] = g[j][f[j - 1]]
  <2>. HIDE DEF g, L
  <2>1. \E f : Computes(f, L, Views, view, g)
    BY <1>1, <1>2, StepByStep
  <2>. QED BY <2>1 DEF Computes
<1>4. ToldAll(view, list) = sofar[L]
  BY DEF ToldAll
<1>. HIDE DEF L
<1>5. \A j \in 1..L : f[j - 1] \in Views /\ f[j] = Told(f[j - 1], list[j])
  BY <1>1, <1>3
<1>6. f = Rule(f)
  <2>. DEFINE h == Rule(f)
  <2>1. \A j \in 0..L : h[j] = f[j]
    BY <1>1, <1>3, <1>5
  <2>. QED BY <1>3, <2>1
<1>7. sofar = Rule(sofar)
  BY <1>6
<1>. HIDE DEF sofar
<1>8. sofar[0] = view /\ \A j \in 1..L : sofar[j] = Told(sofar[j - 1], list[j])
  BY <1>1, <1>7
<1>9. \A j \in 0..L : f[j] = sofar[j]
  <2>1. SameRule(L, f, sofar)
    BY <1>3, <1>5, <1>8 DEF SameRule
  <2>. QED BY <1>1, <2>1, SameSteps
<1>10. f[L] = sofar[L]
  BY <1>1, <1>9
<1>. QED BY <1>3, <1>4, <1>5, <1>10 DEF TellsAll, L

LEMMA NothingTold == ASSUME NEW view \in Views PROVE ToldAll(view, <<>>) = view
<1>1. <<>> \in Seq(RowsOf) /\ Len(<<>>) = 0
  OBVIOUS
<1>2. PICK f : TellsAll(f, view, <<>>) /\ ToldAll(view, <<>>) = f[Len(<<>>)]
  BY <1>1, ToldAllIs, Zenon
<1>. QED BY <1>1, <1>2 DEF TellsAll

LEMMA OneMoreTold ==
    ASSUME NEW view \in Views, NEW list \in Seq(RowsOf), NEW r \in RowsOf
    PROVE  /\ ToldAll(view, list) \in Views
           /\ ToldAll(view, Append(list, r)) = Told(ToldAll(view, list), r)
<1>. DEFINE more == Append(list, r)
<1>1. PICK f : TellsAll(f, view, list) /\ ToldAll(view, list) = f[Len(list)]
  BY ToldAllIs
<1>2. /\ more \in Seq(RowsOf) /\ Len(more) = Len(list) + 1 /\ Len(list) \in Nat
      /\ more[Len(list) + 1] = r /\ \A j \in 1..Len(list) : more[j] = list[j]
  OBVIOUS
<1>. HIDE DEF more
<1>3. PICK h : TellsAll(h, view, more) /\ ToldAll(view, more) = h[Len(list) + 1]
  BY <1>2, ToldAllIs
<1>4. \A j \in 1..Len(list) : f[j - 1] = h[j - 1] => f[j] = h[j]
  BY <1>1, <1>2, <1>3 DEF TellsAll
<1>5. f[0] = h[0]
  BY <1>1, <1>3 DEF TellsAll
<1>6. \A j \in 0..Len(list) : f[j] = h[j]
  <2>1. SameRule(Len(list), f, h)
    BY <1>4, <1>5 DEF SameRule
  <2>. QED BY <1>2, <2>1, SameSteps
<1>7. h[Len(list)] = f[Len(list)] /\ h[Len(list) + 1] = Told(h[Len(list)], r)
  BY <1>2, <1>3, <1>6 DEF TellsAll
<1>8. f[Len(list)] \in Views
  BY <1>1, <1>2 DEF TellsAll
<1>. QED BY <1>1, <1>3, <1>7, <1>8 DEF more
-----------------------------------------------------------------------------
\* The replay of a list of attempts, which Replay is of those on disk.
Files == Seq(Records \cup {Void})
ReplayOf(fs) ==
    LET sofar[i \in 0..Len(fs)] ==
            IF i = 0 THEN NoRows
            ELSE IF i \in {k \in DOMAIN fs : fs[k] # Void} THEN ToldAll(sofar[i - 1], fs[i].rows)
            ELSE sofar[i - 1]
    IN sofar[Len(fs)]

LEMMA ReplayIs == Replay = ReplayOf(files) /\ Replay' = ReplayOf(files')
BY DEF Replay, ReplayOf, Attempts

\* What one attempt adds.
Adds(view, f) == IF f # Void THEN ToldAll(view, f.rows) ELSE view
Reads(f, fs) ==
    /\ f \in [0..Len(fs) -> Views] /\ f[0] = NoRows
    /\ \A i \in 1..Len(fs) : f[i] = Adds(f[i - 1], fs[i])

LEMMA ToldAllTyped == ASSUME NEW view \in Views, NEW list \in Seq(RowsOf) PROVE ToldAll(view, list) \in Views
<1>1. PICK f : TellsAll(f, view, list) /\ ToldAll(view, list) = f[Len(list)]
  BY ToldAllIs
<1>. QED BY <1>1 DEF TellsAll

LEMMA AddsTyped == ASSUME NEW view \in Views, NEW f \in Records \cup {Void} PROVE Adds(view, f) \in Views
<1>1. CASE f = Void
  BY <1>1 DEF Adds
<1>2. CASE f # Void
  <2>1. f.rows \in Seq(RowsOf)
    BY <1>2 DEF Records
  <2>. QED BY <1>2, <2>1, ToldAllTyped DEF Adds
<1>. QED BY <1>1, <1>2

LEMMA NothingIs == NoRows \in Views
<1>1. 0 \in Models
  BY SampleAssumption DEF Models
<1>2. NoRow \in RowsOf
  BY <1>1 DEF NoRow, RowsOf, Stages
<1>. QED BY <1>2 DEF NoRows, Views

LEMMA VoidIsNone == Void \notin Records
<1>1. ASSUME Void \in Records PROVE FALSE
  <2>1. Void.status \in {"running", "interrupted", "complete"}
    BY <1>1 DEF Records
  <2>2. Void.status = "absent"
    BY DEF Void
  <2>. QED BY <2>1, <2>2
<1>. QED BY <1>1

LEMMA ReplayOfIs ==
    ASSUME NEW fs \in Files
    PROVE  \E f : Reads(f, fs) /\ ReplayOf(fs) = f[Len(fs)]
<1>. DEFINE L == Len(fs)
            Rule(f) == [i \in 0..L |->
                IF i = 0 THEN NoRows
                ELSE IF i \in {k \in DOMAIN fs : fs[k] # Void} THEN ToldAll(f[i - 1], fs[i].rows)
                ELSE f[i - 1]]
            sofar == CHOOSE f : f = Rule(f)
            g == [i \in 1..L |-> [v \in Views |-> Adds(v, fs[i])]]
<1>1. L \in Nat /\ DOMAIN fs = 1..L /\ \A i \in 1..L : fs[i] \in Records \cup {Void}
  BY DEF Files
<1>2. g \in [1..L -> [Views -> Views]]
  BY <1>1, AddsTyped
<1>3. PICK f \in [0..L -> Views] : f[0] = NoRows /\ \A i \in 1..L : f[i] = g[i][f[i - 1]]
  <2>. HIDE DEF g, L
  <2>1. \E f : Computes(f, L, Views, NoRows, g)
    BY <1>1, <1>2, NothingIs, StepByStep
  <2>. QED BY <2>1 DEF Computes
<1>4. ReplayOf(fs) = sofar[L]
  BY DEF ReplayOf
<1>. HIDE DEF L
<1>5. ASSUME NEW i \in 1..L PROVE f[i - 1] \in Views /\ f[i] = Adds(f[i - 1], fs[i])
  <2>1. i - 1 \in 0..L
    BY <1>1
  <2>2. f[i - 1] \in Views /\ f[i] = g[i][f[i - 1]]
    BY <1>3, <2>1
  <2>3. g[i] = [v \in Views |-> Adds(v, fs[i])]
    OBVIOUS
  <2>. HIDE DEF g
  <2>. QED BY <2>2, <2>3
<1>6. f = Rule(f)
  <2>. DEFINE h == Rule(f)
  <2>1. \A i \in 0..L : h[i] = f[i]
    BY <1>1, <1>3, <1>5 DEF Adds
  <2>. QED BY <1>3, <2>1
<1>7. sofar = Rule(sofar)
  BY <1>6
<1>. HIDE DEF sofar
<1>8. sofar[0] = NoRows /\ \A i \in 1..L : sofar[i] = Adds(sofar[i - 1], fs[i])
  BY <1>1, <1>7 DEF Adds
<1>9. \A i \in 0..L : f[i] = sofar[i]
  <2>1. SameRule(L, f, sofar)
    BY <1>3, <1>5, <1>8 DEF SameRule
  <2>. QED BY <1>1, <2>1, SameSteps
<1>10. f[L] = sofar[L]
  BY <1>1, <1>9
<1>. QED BY <1>3, <1>4, <1>5, <1>10 DEF Reads, L

LEMMA ReplayTyped == ASSUME NEW fs \in Files PROVE ReplayOf(fs) \in Views
<1>1. PICK f : Reads(f, fs) /\ ReplayOf(fs) = f[Len(fs)]
  BY ReplayOfIs
<1>2. Len(fs) \in Nat
  BY DEF Files
<1>. QED BY <1>1, <1>2 DEF Reads

LEMMA NoFiles == ReplayOf(<<>>) = NoRows
<1>1. <<>> \in Files /\ Len(<<>>) = 0
  BY DEF Files
<1>2. PICK f : Reads(f, <<>>) /\ ReplayOf(<<>>) = f[Len(<<>>)]
  BY <1>1, ReplayOfIs, Zenon
<1>. QED BY <1>1, <1>2 DEF Reads

\* Attempts that add the same, whatever else is in them.
LEMMA SameReplay ==
    ASSUME NEW fs \in Files, NEW gs \in Files, Len(fs) = Len(gs),
           \A i \in 1..Len(fs) : \A v \in Views : Adds(v, fs[i]) = Adds(v, gs[i])
    PROVE  ReplayOf(fs) = ReplayOf(gs)
<1>1. PICK f : Reads(f, fs) /\ ReplayOf(fs) = f[Len(fs)]
  BY ReplayOfIs
<1>2. PICK h : Reads(h, gs) /\ ReplayOf(gs) = h[Len(gs)]
  BY ReplayOfIs
<1>3. Len(fs) \in Nat
  BY DEF Files
<1>4. SameRule(Len(fs), f, h)
  BY <1>1, <1>2, <1>3 DEF Reads, SameRule
<1>5. \A i \in 0..Len(fs) : f[i] = h[i]
  BY <1>3, <1>4, SameSteps
<1>. QED BY <1>1, <1>2, <1>3, <1>5

\* The last attempt comes last.
LEMMA ReplayOfMore ==
    ASSUME NEW fs \in Files, NEW gs \in Files, Len(gs) = Len(fs) + 1,
           \A i \in 1..Len(fs) : gs[i] = fs[i]
    PROVE  ReplayOf(gs) = Adds(ReplayOf(fs), gs[Len(gs)])
<1>1. PICK f : Reads(f, fs) /\ ReplayOf(fs) = f[Len(fs)]
  BY ReplayOfIs
<1>2. PICK h : Reads(h, gs) /\ ReplayOf(gs) = h[Len(gs)]
  BY ReplayOfIs
<1>3. Len(fs) \in Nat
  BY DEF Files
<1>4. SameRule(Len(fs), f, h)
  BY <1>1, <1>2, <1>3 DEF Reads, SameRule
<1>5. \A i \in 0..Len(fs) : f[i] = h[i]
  BY <1>3, <1>4, SameSteps
<1>6. h[Len(fs)] = f[Len(fs)] /\ h[Len(fs) + 1] = Adds(h[Len(fs)], gs[Len(fs) + 1])
  BY <1>2, <1>3, <1>5 DEF Reads
<1>. QED BY <1>1, <1>2, <1>6

LEMMA OneMoreFile == ASSUME NEW fs \in Files PROVE ReplayOf(Append(fs, Void)) = ReplayOf(fs)
<1>. DEFINE gs == Append(fs, Void)
<1>1. gs \in Files /\ Len(gs) = Len(fs) + 1 /\ (\A i \in 1..Len(fs) : gs[i] = fs[i]) /\ gs[Len(gs)] = Void
  BY DEF Files
<1>. HIDE DEF gs
<1>2. ReplayOf(gs) = Adds(ReplayOf(fs), Void)
  BY <1>1, ReplayOfMore
<1>. QED BY <1>2 DEF Adds, gs

\* A row recorded in the last attempt is told last.
LEMMA OneMoreRow ==
    ASSUME NEW fs \in Files, fs # <<>>, fs[Len(fs)] # Void, NEW r \in RowsOf
    PROVE  /\ [fs EXCEPT ![Len(fs)].rows = Append(@, r)] \in Files
           /\ ReplayOf([fs EXCEPT ![Len(fs)].rows = Append(@, r)]) = Told(ReplayOf(fs), r)
<1>. DEFINE n == Len(fs)
            gs == [fs EXCEPT ![n].rows = Append(@, r)]
            es == [i \in 1..(n - 1) |-> fs[i]]
<1>1. n \in Nat /\ n # 0 /\ fs[n] \in Records
  BY DEF Files
<1>2. [fs[n] EXCEPT !.rows = Append(@, r)] \in Records
  BY <1>1 DEF Records
<1>3. gs \in Files /\ Len(gs) = n
  BY <1>1, <1>2 DEF Files
<1>4. gs[n] = [fs[n] EXCEPT !.rows = Append(@, r)] /\ gs[n].rows = Append(fs[n].rows, r) /\ gs[n] # Void
  <2>1. gs[n] = [fs[n] EXCEPT !.rows = Append(@, r)]
    BY <1>1 DEF Files
  <2>2. gs[n] \in Records /\ gs[n].rows = Append(fs[n].rows, r)
    <3>1. "rows" \in DOMAIN fs[n]
      BY <1>1 DEF Records
    <3>. HIDE DEF gs
    <3>. QED BY <1>2, <2>1, <3>1
  <2>3. gs[n] # Void
    <3>. HIDE DEF gs
    <3>. QED BY <2>2, VoidIsNone
  <2>. QED BY <2>1, <2>2, <2>3
<1>5. es \in Files /\ Len(es) = n - 1 /\ \A i \in 1..(n - 1) : es[i] = fs[i] /\ gs[i] = fs[i]
  <2>1. \A i \in 1..(n - 1) : fs[i] \in Records \cup {Void}
    BY <1>1 DEF Files
  <2>2. es \in Files /\ Len(es) = n - 1
    BY <1>1, <2>1 DEF Files
  <2>3. \A i \in 1..(n - 1) : es[i] = fs[i]
    OBVIOUS
  <2>4. \A i \in 1..(n - 1) : gs[i] = fs[i]
    BY <1>1 DEF Files
  <2>. QED BY <2>2, <2>3, <2>4
<1>. HIDE DEF gs, es
<1>6. ReplayOf(fs) = Adds(ReplayOf(es), fs[n])
  BY <1>1, <1>5, ReplayOfMore
<1>7. ReplayOf(gs) = Adds(ReplayOf(es), gs[n])
  BY <1>1, <1>3, <1>5, ReplayOfMore
<1>8. ReplayOf(es) \in Views
  BY <1>5, ReplayTyped
<1>9. fs[n].rows \in Seq(RowsOf) /\ fs[n] # Void
  BY <1>1 DEF Records
<1>10. ToldAll(ReplayOf(es), Append(fs[n].rows, r)) = Told(ToldAll(ReplayOf(es), fs[n].rows), r)
  BY <1>8, <1>9, OneMoreTold
<1>11. ReplayOf(gs) = Told(ReplayOf(fs), r)
  BY <1>4, <1>6, <1>7, <1>9, <1>10 DEF Adds
<1>. QED BY <1>3, <1>11 DEF gs
-----------------------------------------------------------------------------
(* What the steps choose.                                                  *)
LEMMA GreatestOf ==
    ASSUME NEW n \in Nat, NEW T, T \subseteq 0..n, T # {}
    PROVE  \E x \in T : \A y \in T : y <= x
<1>. DEFINE U == {i \in 0..n : n - i \in T}
<1>1. \A x \in T : n - x \in 0..n /\ n - (n - x) = x
  OBVIOUS
<1>2. U # {} /\ U \subseteq Nat
  <2>1. PICK x \in T : x \in 0..n
    OBVIOUS
  <2>2. n - x \in 0..n /\ n - (n - x) \in T
    BY <1>1, <2>1
  <2>3. n - x \in U
    BY <2>2
  <2>4. U \subseteq Nat
    OBVIOUS
  <2>. HIDE DEF U
  <2>. QED BY <2>3, <2>4
<1>3. \E u \in U : \A w \in U : u <= w
  <2>. HIDE DEF U
  <2>. QED BY <1>2, LeastOf
<1>4. PICK u \in U : \A w \in U : u <= w
  BY <1>3
<1>5. \A y \in T : n - y \in U
  BY <1>1
<1>6. n - u \in T /\ u \in 0..n
  BY <1>4
<1>7. ASSUME NEW y \in T PROVE y <= n - u
  <2>1. n - y \in U /\ y \in 0..n
    BY <1>5
  <2>2. u <= n - y
    BY <1>4, <2>1
  <2>. QED BY <1>6, <2>1, <2>2
<1>. QED BY <1>6, <1>7

LEMMA FilesAre == ASSUME files \in Files PROVE Me \in Nat /\ DOMAIN files = 1..Me /\ Attempts \subseteq 1..Me
BY DEF Files, Me, Attempts

LEMMA LastIdIs ==
    ASSUME files \in Files, Attempts # {}
    PROVE  LastId \in Attempts /\ \A j \in Attempts : j <= LastId
<1>1. Me \in Nat /\ Attempts \subseteq 0..Me
  BY FilesAre
<1>2. \E i \in Attempts : \A j \in Attempts : j <= i
  BY <1>1, GreatestOf
<1>. QED BY <1>2 DEF LastId

LEMMA ForemostIs ==
    ASSUME NEW view \in Views, NEW left \in SUBSET Models, left # {}
    PROVE  /\ Foremost(view, left) \in left
           /\ \A n \in left : view[n].debt => view[Foremost(view, left)].debt
<1>. DEFINE Before(m, n) == IF view[m].debt = view[n].debt THEN m <= n ELSE view[m].debt
            owing == {m \in left : view[m].debt}
<1>1. left \subseteq Nat /\ owing \subseteq left /\ \A m \in left : view[m].debt \in BOOLEAN
  <2>1. \A m \in left : view[m] \in RowsOf
    BY DEF Views
  <2>2. \A r \in RowsOf : r.debt \in BOOLEAN
    BY Zenon DEF RowsOf
  <2>3. Models \subseteq Nat
    BY SampleAssumption DEF Models
  <2>. QED BY <2>1, <2>2, <2>3, Zenon
<1>2. \E m \in left : \A n \in left : Before(m, n)
  <2>1. CASE owing = {}
    <3>1. PICK m \in left : \A n \in left : m <= n
      BY <1>1, LeastOf
    <3>2. \A n \in left : ~view[n].debt
      BY <2>1
    <3>3. \A n \in left : view[m].debt = view[n].debt
      BY <1>1, <3>1, <3>2
    <3>. QED BY <3>1, <3>3
  <2>2. CASE owing # {}
    <3>1. owing \subseteq Nat
      BY <1>1
    <3>2. \E m \in owing : \A n \in owing : m <= n
      <4>. HIDE DEF owing
      <4>. QED BY <2>2, <3>1, LeastOf
    <3>3. PICK m \in owing : \A n \in owing : m <= n
      BY <3>2
    <3>4. m \in left /\ view[m].debt
      BY <3>3
    <3>5. ASSUME NEW n \in left PROVE Before(m, n)
      <4>1. CASE n \in owing
        BY <3>3, <4>1
      <4>2. CASE n \notin owing
        <5>1. ~view[n].debt
          BY <4>2
        <5>2. view[m].debt # view[n].debt
          BY <3>4, <5>1
        <5>. QED BY <3>4, <5>2
      <4>. QED BY <4>1, <4>2
    <3>. QED BY <3>4, <3>5
  <2>. QED BY <2>1, <2>2
<1>3. Foremost(view, left) = CHOOSE m \in left : \A n \in left : Before(m, n)
  BY DEF Foremost
<1>4. Foremost(view, left) \in left /\ \A n \in left : Before(Foremost(view, left), n)
  <2>. HIDE DEF Before
  <2>. QED BY <1>2, <1>3
<1>5. ASSUME NEW n \in left, view[n].debt PROVE view[Foremost(view, left)].debt
  <2>1. Before(Foremost(view, left), n)
    BY <1>4
  <2>. QED BY <1>5, <2>1
<1>. QED BY <1>4, <1>5

LEMMA FilesTyped == ASSUME CovTypeOK PROVE files \in Files /\ Replay \in Views
<1>1. files \in Files
  BY DEF CovTypeOK, Files
<1>. QED BY <1>1, ReplayIs, ReplayTyped

LEMMA FilesStand ==
    ASSUME files' = files
    PROVE  Replay' = Replay /\ Attempts' = Attempts /\ Me' = Me
BY DEF Replay, Attempts, Me

\* The attempts and the overview stay as they are.
LEMMA DiskStands ==
    ASSUME OnDisk, files' = files, overview' = overview,
           overview = NoReport => pc' = "idle",
           Attempts = {} /\ pc' \in {"mkdir", "persist"} => cfg' = overview.configuration
    PROVE  OnDisk'
<1>1. Replay' = Replay /\ Attempts' = Attempts
  BY FilesStand
<1>2. Readable' = Readable
  BY <1>1 DEF Readable, Rowed
<1>3. \A i \in Attempts : Rowed(files'[i]) = Rowed(files[i]) /\ files'[i] = files[i]
  OBVIOUS
<1>4. Known(Replay') = Known(Replay)
  BY <1>1
<1>5. \A m \in Models : IsVerified(Replay'[m]) = IsVerified(Replay[m])
  BY <1>1
<1>. QED BY <1>1, <1>2 DEF OnDisk

LEMMA AlikeRows ==
    ASSUME NEW a \in RowsOf, NEW b \in RowsOf,
           a.index = b.index, a.attempt = b.attempt, a.stage = b.stage, a.debt = b.debt,
           a.origin = b.origin, a.errors = b.errors, a.recovered = b.recovered
    PROVE  a = b
BY DEF RowsOf

LEMMA PutBack ==
    ASSUME NEW r \in RowsOf
    PROVE  /\ \A o : o = r.origin => [r EXCEPT !.origin = o] = r
           /\ \A o, e : r.debt /\ o = r.origin /\ e = r.errors =>
                 [r EXCEPT !.debt = TRUE, !.origin = o, !.errors = e] = r
<1>1. ASSUME NEW o, o = r.origin PROVE [r EXCEPT !.origin = o] = r
  <2>1. [r EXCEPT !.origin = o] \in RowsOf
    BY <1>1 DEF RowsOf
  <2>. QED BY <1>1, <2>1, AlikeRows DEF RowsOf
<1>2. ASSUME NEW o, NEW e, r.debt, o = r.origin, e = r.errors
      PROVE  [r EXCEPT !.debt = TRUE, !.origin = o, !.errors = e] = r
  <2>. DEFINE b == [r EXCEPT !.debt = TRUE, !.origin = o, !.errors = e]
  <2>1. b \in RowsOf
    BY <1>2 DEF RowsOf
  <2>2. /\ b.index = r.index /\ b.attempt = r.attempt /\ b.stage = r.stage
        /\ b.origin = r.origin /\ b.errors = r.errors /\ b.recovered = r.recovered
    BY <1>2 DEF RowsOf
  <2>3. b.debt = r.debt
    <3>1. b.debt /\ r.debt \in BOOLEAN /\ b.debt \in BOOLEAN
      BY <1>2 DEF RowsOf
    <3>. HIDE DEF b
    <3>. QED BY <1>2, <3>1
  <2>. HIDE DEF b
  <2>4. b = r
    BY <2>1, <2>2, <2>3, AlikeRows
  <2>. QED BY <2>4 DEF b
<1>. QED BY <1>1, <1>2

\* Outside the loop containers may go.
LEMMA OwedStands ==
    ASSUME Owed, files' = files, owed' = owed, containers' \subseteq containers,
           pc' \notin InLoop, pc' # "persist", pc' # "evaluate", pc' # "record"
    PROVE  Owed'
<1>1. Replay' = Replay /\ Attempts' = Attempts /\ Me' = Me
  BY FilesStand
<1>2. Debts(Replay') = Debts(Replay)
  BY <1>1
<1>3. \A c \in containers' \cup {o[2] : o \in owed'} : c.attempt <= Me
  BY DEF Owed
<1>. QED BY <1>1, <1>2, <1>3 DEF Owed

\* What the attempts have to say of themselves, and of the overview.
SoundAttempt(i, f) ==
    /\ Rowed(f) \subseteq f.indices
    /\ Len(f.rows) = Cardinality(Rowed(f))
    /\ \A j \in DOMAIN f.rows : f.rows[j].attempt = i
    /\ f.status = "complete" => Rowed(f) = f.indices

LEMMA ReadableIs ==
    Readable <=>
        /\ overview # NoReport
        /\ \A i \in Attempts : SoundAttempt(i, files[i])
        /\ \A i \in Attempts : (\A j \in Attempts : i <= j) => files[i].configuration = overview.configuration
        /\ overview.attempts \subseteq Attempts
        /\ Attempts = {} => ~overview.rows
BY DEF Readable, SoundAttempt

LEMMA ReadableWillBe ==
    Readable' <=>
        /\ overview' # NoReport
        /\ \A i \in Attempts' : SoundAttempt(i, files'[i])
        /\ \A i \in Attempts' : (\A j \in Attempts' : i <= j) => files'[i].configuration = overview'.configuration
        /\ overview'.attempts \subseteq Attempts'
        /\ Attempts' = {} => ~overview'.rows
BY DEF Readable, SoundAttempt

\* The row that is kept of an outcome.
KeptOf(before, r, m, me) == [Retain(before, r, me) EXCEPT !.index = m, !.attempt = me]

\* Kept once, it is what a replay keeps of it again.
IsKept(before, r, m, me, kept) ==
    /\ kept \in RowsOf /\ kept.index = m /\ kept.attempt = me
    /\ Retain(before, kept, me) = kept
    /\ kept.debt <=> (r.debt \/ (before.debt /\ ~r.recovered))
    /\ kept.debt => kept.origin = (IF before.debt /\ ~r.recovered THEN before.origin ELSE me)

LEMMA RetainTwice ==
    ASSUME NEW before \in RowsOf, NEW r \in RowsOf, NEW m \in Models, NEW me \in Nat
    PROVE  IsKept(before, r, m, me, KeptOf(before, r, m, me))
<1>. DEFINE kept == [Retain(before, r, me) EXCEPT !.index = m, !.attempt = me]
<1>0. kept = [Retain(before, r, me) EXCEPT !.index = m, !.attempt = me] /\ KeptOf(before, r, m, me) = kept
  BY DEF KeptOf
<1>. SUFFICES /\ kept \in RowsOf /\ kept.index = m /\ kept.attempt = me
              /\ Retain(before, kept, me) = kept
              /\ kept.debt <=> (r.debt \/ (before.debt /\ ~r.recovered))
              /\ kept.debt => kept.origin = (IF before.debt /\ ~r.recovered THEN before.origin ELSE me)
  BY DEF KeptOf, IsKept
<1>. HIDE DEF kept
<1>1. Retain(before, r, me) \in RowsOf
  BY RetainIs
<1>2. kept \in RowsOf /\ kept.index = m /\ kept.attempt = me
  BY <1>0, <1>1 DEF RowsOf
<1>3. CASE before.debt /\ ~r.recovered
  <2>1. Retain(before, r, me) = [r EXCEPT !.debt = TRUE, !.origin = before.origin, !.errors = before.errors \cup @]
    BY <1>3 DEF Retain
  <2>2. kept = [r EXCEPT !.debt = TRUE, !.origin = before.origin, !.errors = before.errors \cup @,
                         !.index = m, !.attempt = me]
    BY <1>0, <2>1 DEF RowsOf
  <2>3. kept.debt /\ kept.origin = before.origin /\ ~kept.recovered /\ kept.errors = before.errors \cup r.errors
    BY <1>3, <2>2 DEF RowsOf
  <2>4. Retain(before, kept, me) =
           [kept EXCEPT !.debt = TRUE, !.origin = before.origin, !.errors = before.errors \cup @]
    BY <1>3, <2>3 DEF Retain
  <2>5. Retain(before, kept, me) = kept
    <3>1. before.errors \cup kept.errors = kept.errors
      BY <2>3
    <3>2. \A o, e : kept.debt /\ o = kept.origin /\ e = kept.errors =>
             [kept EXCEPT !.debt = TRUE, !.origin = o, !.errors = e] = kept
      BY <1>2, PutBack, Zenon
    <3>3. [kept EXCEPT !.debt = TRUE, !.origin = before.origin, !.errors = before.errors \cup kept.errors] = kept
      BY <2>3, <3>1, <3>2, Zenon
    <3>. QED BY <2>4, <3>3, Zenon
  <2>. QED BY <1>2, <1>3, <2>3, <2>5
<1>4. CASE ~(before.debt /\ ~r.recovered) /\ r.debt
  <2>1. Retain(before, r, me) = [r EXCEPT !.origin = me]
    BY <1>4 DEF Retain
  <2>2. kept.debt /\ kept.origin = me /\ kept.recovered = r.recovered
    BY <1>0, <1>4, <2>1 DEF RowsOf
  <2>3. Retain(before, kept, me) = [kept EXCEPT !.origin = me]
    BY <1>4, <2>2 DEF Retain
  <2>4. Retain(before, kept, me) = kept
    <3>1. \A o : o = kept.origin => [kept EXCEPT !.origin = o] = kept
      BY <1>2, PutBack, Zenon
    <3>2. [kept EXCEPT !.origin = me] = kept
      BY <2>2, <3>1, Zenon
    <3>. QED BY <2>3, <3>2, Zenon
  <2>. QED BY <1>2, <1>4, <2>2, <2>4
<1>5. CASE ~(before.debt /\ ~r.recovered) /\ ~r.debt
  <2>1. Retain(before, r, me) = r
    BY <1>5 DEF Retain
  <2>2. ~kept.debt /\ kept.recovered = r.recovered
    BY <1>0, <1>5, <2>1 DEF RowsOf
  <2>3. Retain(before, kept, me) = kept
    BY <1>5, <2>2 DEF Retain
  <2>. QED BY <1>2, <1>5, <2>2, <2>3
<1>. QED BY <1>3, <1>4, <1>5
-----------------------------------------------------------------------------
(* The steps.                                                              *)
LEMMA NoDebts ==
    /\ Debts(NoRows) = {} /\ Known(NoRows) = {}
    /\ ~NoRow.debt /\ NoRow \in RowsOf /\ AnyConfig \in RunConfigs /\ 0 \in Models
<1>1. NoRow \in RowsOf /\ 0 \in Models /\ AnyConfig \in RunConfigs
  <2>1. 0 \in Models /\ NoRows \in Views /\ NoRows = [m \in Models |-> NoRow]
    BY SampleAssumption, NothingIs DEF Models, NoRows
  <2>. QED BY <2>1, SampleAssumption DEF Views, AnyConfig
<1>. QED BY <1>1 DEF NoRow, NoRows, Debts, Known

LEMMA CovBegins == Init => CovInv
<1>. SUFFICES ASSUME Init PROVE CovInv
  OBVIOUS
<1>. USE DEF Init
<1>1. Replay = NoRows /\ Attempts = {} /\ <<>> \in Files
  BY ReplayIs, NoFiles DEF Attempts, Files
<1>2. NoRow \in RowsOf /\ 0 \in Models /\ AnyConfig \in RunConfigs
  BY NoDebts
<1>3. CovTypeOK
  BY <1>1, <1>2, NothingIs DEF CovTypeOK, Files, Opened, InLoop
<1>4. ~NoRow.debt /\ Debts(NoRows) = {} /\ Known(NoRows) = {}
  BY NoDebts
<1>5. OnDisk
  BY <1>1, <1>4 DEF OnDisk
<1>6. AtHand
  BY <1>1 DEF AtHand, Opened, InLoop
<1>7. OneDebt
  BY <1>1, <1>4 DEF OneDebt
<1>8. Owed
  BY DEF Owed, InLoop
<1>. QED BY <1>3, <1>5, <1>6, <1>7, <1>8 DEF CovInv

LEMMA StartNewKeeps == ASSUME CovInv, NEW c \in RunConfigs, StartNew(c) PROVE CovInv'
<1>. USE DEF StartNew
<1>1. CovTypeOK /\ OnDisk /\ AtHand /\ OneDebt /\ Owed
  BY DEF CovInv
<1>2. Replay' = NoRows /\ Attempts' = {} /\ files = <<>> /\ rows = NoRows /\ row = NoRow
  BY <1>1, ReplayIs, NoFiles DEF OnDisk, AtHand, Attempts
<1>3. overview' \in Overviews /\ overview' # NoReport
  <2>1. overview' \in Overviews
    BY DEF Overviews
  <2>2. "rows" \in DOMAIN overview' /\ "rows" \notin DOMAIN NoReport
    BY DEF NoReport
  <2>. QED BY <2>1, <2>2
<1>4. CovTypeOK'
  BY <1>1, <1>3 DEF CovTypeOK, Opened, InLoop
<1>5. OnDisk'
  <2>1. Readable'
    BY <1>2, <1>3 DEF Readable
  <2>. QED BY <1>2, <1>3, <2>1, NoDebts DEF OnDisk
<1>6. AtHand'
  <2>1. \A m \in Models : ~IsVerified(rows[m])
    BY <1>2 DEF IsVerified, NoRows
  <2>. QED BY <1>2, <2>1 DEF AtHand, Opened, InLoop, IsVerified
<1>7. OneDebt'
  BY <1>2, NoDebts DEF OneDebt, Debts
<1>8. Owed'
  BY <1>1, OwedStands DEF InLoop
<1>. QED BY <1>4, <1>5, <1>6, <1>7, <1>8 DEF CovInv

LEMMA ResumeKeeps ==
    ASSUME CovInv, pc = "idle", NEW c \in RunConfigs, NEW how \in Selectors, Resume(Replay, c, how)
    PROVE  CovInv'
<1>. USE DEF Resume
<1>1. CovTypeOK /\ OnDisk /\ AtHand /\ OneDebt /\ Owed /\ files \in Files /\ Replay \in Views
  BY FilesTyped DEF CovInv
<1>2. Replay' = Replay /\ Attempts' = Attempts /\ Me' = Me
  BY FilesStand
<1>3. /\ Readable /\ (how = "resume" => c = Expected)
      /\ how # "resume" => Selection(Replay, how) # {}
      /\ Debts(Replay) # {} => how # "resume" /\ Debts(Replay) \subseteq Selection(Replay, how)
  BY DEF Accepts
<1>4. pc' \in {"mkdir", "publish"} /\ row = NoRow /\ overview # NoReport
  BY <1>1, <1>3 DEF AtHand, Readable
<1>5. Pending => /\ LastId \in Attempts /\ \A j \in Attempts : j <= LastId
                 /\ files[LastId] \in Records
  <2>. SUFFICES ASSUME Pending PROVE /\ LastId \in Attempts /\ \A j \in Attempts : j <= LastId
                                     /\ files[LastId] \in Records
    OBVIOUS
  <2>1. LastId \in Attempts /\ \A j \in Attempts : j <= LastId
    BY <1>1, LastIdIs DEF Pending
  <2>. QED BY <1>1, <2>1 DEF Files, Attempts
<1>6. queue' \subseteq Models /\ \A m \in queue' : ~IsVerified(Replay[m])
  <2>1. CASE how # "resume"
    BY <2>1 DEF Selection, Matches
  <2>2. CASE how = "resume" /\ Pending
    <3>1. queue' = files[LastId].indices \ Rowed(files[LastId])
      BY <2>2 DEF Selection, Unfinished
    <3>2. files[LastId].indices \subseteq Models
      BY <1>5, <2>2 DEF Records
    <3>. QED BY <1>1, <1>5, <2>2, <3>1, <3>2 DEF OnDisk
  <2>3. CASE how = "resume" /\ ~Pending
    BY <2>3 DEF Selection, Known, IsVerified
  <2>. QED BY <2>1, <2>2, <2>3
<1>7. Attempts = {} => c = overview.configuration
  <2>. SUFFICES ASSUME Attempts = {} PROVE c = overview.configuration
    OBVIOUS
  <2>1. \A m \in Models : Replay[m] = NoRow
    BY <1>1 DEF OnDisk, Known
  <2>2. how = "resume"
    BY <1>3, <2>1 DEF Selection, Matches
  <2>. QED BY <1>3, <2>2 DEF Expected, Pending
<1>8. CovTypeOK'
  BY <1>1, <1>4, <1>6 DEF CovTypeOK, Opened, InLoop
<1>9. OnDisk'
  BY <1>1, <1>4, <1>7, DiskStands
<1>10. AtHand'
  BY <1>1, <1>2, <1>4, <1>6 DEF AtHand, Opened, InLoop, IsVerified
<1>11. OneDebt'
  BY <1>1, <1>2, <1>3, <1>4 DEF OneDebt, Debts
<1>12. Owed'
  BY <1>1, <1>2, <1>4 DEF Owed, InLoop, Debts
<1>. QED BY <1>8, <1>9, <1>10, <1>11, <1>12 DEF CovInv

LEMMA MakeDirectoryKeeps == ASSUME CovInv, MakeDirectory PROVE CovInv'
<1>. USE DEF MakeDirectory
<1>1. CovTypeOK /\ OnDisk /\ AtHand /\ OneDebt /\ Owed /\ files \in Files /\ Replay \in Views
  BY FilesTyped DEF CovInv
<1>2. Replay' = Replay
  BY <1>1, ReplayIs, OneMoreFile
<1>3. Me \in Nat /\ DOMAIN files = 1..Me /\ Attempts \subseteq 1..Me
  BY <1>1, FilesAre
<1>4. /\ files' \in Files /\ Me' = Me + 1 /\ files'[Me + 1] = Void /\ DOMAIN files' = 1..(Me + 1)
      /\ \A i \in 1..Me : files'[i] = files[i]
  BY <1>1, <1>3 DEF Files, Me
<1>5. Attempts' = Attempts /\ \A i \in Attempts : files'[i] = files[i]
  BY <1>3, <1>4 DEF Attempts
<1>6. CovTypeOK'
  BY <1>1, <1>4 DEF CovTypeOK, Opened, InLoop, Files
<1>7. OnDisk'
  <2>1. overview # NoReport /\ Readable
    BY <1>1 DEF OnDisk
  <2>2. \A i \in Attempts : Rowed(files'[i]) = Rowed(files[i])
    BY <1>5
  <2>3. Readable'
    <3>1. \A i \in Attempts' : SoundAttempt(i, files'[i])
      BY <2>1, <1>5, ReadableIs
    <3>. QED BY <2>1, <3>1, <1>5, ReadableIs, ReadableWillBe
  <2>. QED BY <1>1, <1>2, <1>5, <2>1, <2>2, <2>3 DEF OnDisk, Known, IsVerified
<1>8. AtHand'
  BY <1>1, <1>2, <1>3, <1>4 DEF AtHand, Opened, InLoop, IsVerified
<1>9. OneDebt'
  BY <1>1, <1>2 DEF OneDebt, Debts
<1>10. Owed'
  <2>1. \A c \in containers \cup {o[2] : o \in owed} : c.attempt <= Me /\ c.attempt \in Nat
    BY <1>1 DEF Owed, CovTypeOK, Boxes
  <2>2. \A c \in containers \cup {o[2] : o \in owed} : c.attempt <= Me' /\ c.attempt # Me'
    BY <1>3, <1>4, <2>1
  <2>3. ASSUME NEW o \in owed, o[2] \in containers
        PROVE  /\ o[1] \in Debts(Replay') /\ Replay'[o[1]].origin \in Attempts'
               /\ Scope(files'[Replay'[o[1]].origin].configuration) = o[2].scope
    <3>1. /\ o[1] \in Debts(Replay) /\ Replay[o[1]].origin \in Attempts
          /\ Scope(files[Replay[o[1]].origin].configuration) = o[2].scope
      BY <1>1, <2>3 DEF Owed
    <3>. QED BY <3>1, <1>2, <1>5
  <2>. QED BY <2>2, <2>3 DEF Owed, InLoop
<1>. QED BY <1>6, <1>7, <1>8, <1>9, <1>10 DEF CovInv

LEMMA PersistAttemptKeeps == ASSUME CovInv, PersistAttempt PROVE CovInv'
<1>. USE DEF PersistAttempt
<1>1. CovTypeOK /\ OnDisk /\ AtHand /\ OneDebt /\ Owed /\ files \in Files /\ Replay \in Views
  BY FilesTyped DEF CovInv
<1>2. Me \in Nat /\ DOMAIN files = 1..Me /\ Attempts \subseteq 1..Me /\ Me \in 1..Me /\ files[Me] = Void
  BY <1>1, FilesAre DEF AtHand, Files, Me
<1>. DEFINE f == [configuration |-> cfg, indices |-> queue, rows |-> <<>>, status |-> "running"]
<1>3. f \in Records /\ f # Void /\ Rowed(f) = {} /\ f.rows = <<>>
  <2>1. f \in Records
    BY <1>1 DEF CovTypeOK, Records
  <2>2. Rowed(f) = {} /\ f.rows = <<>>
    BY DEF Rowed
  <2>. QED BY <2>1, <2>2, VoidIsNone
<1>4. SoundAttempt(Me, f) /\ f.configuration = cfg /\ f.indices = queue
  <2>1. Rowed(f) = {} /\ f.rows = <<>> /\ f.status = "running" /\ f.indices = queue /\ f.configuration = cfg
    BY <1>3
  <2>2. Cardinality({}) = 0
    BY FS_EmptySet
  <2>. HIDE DEF f
  <2>. QED BY <2>1, <2>2 DEF SoundAttempt
<1>5. files' = [files EXCEPT ![Me] = f]
  OBVIOUS
<1>. HIDE DEF f
<1>6. /\ files' \in Files /\ Me' = Me /\ files'[Me] = f /\ DOMAIN files' = 1..Me
      /\ \A i \in 1..Me : i # Me => files'[i] = files[i]
  <2>1. f \in Records \cup {Void} /\ Me = Len(files)
    BY <1>3 DEF Me
  <2>2. files' \in Files /\ Len(files') = Len(files)
    BY <1>1, <1>2, <1>5, <2>1 DEF Files
  <2>3. files'[Me] = f /\ DOMAIN files' = 1..Me /\ \A i \in 1..Me : i # Me => files'[i] = files[i]
    BY <1>1, <1>2, <1>5
  <2>. QED BY <2>1, <2>2, <2>3 DEF Me
<1>7. Attempts' = Attempts \cup {Me} /\ Me \notin Attempts
  BY <1>2, <1>3, <1>6 DEF Attempts
<1>8. Replay' = Replay
  <2>1. ASSUME NEW i \in 1..Len(files), NEW v \in Views PROVE Adds(v, files[i]) = Adds(v, files'[i])
    <3>1. CASE i = Me
      BY <1>2, <1>3, <1>6, <3>1, NothingTold DEF Adds
    <3>2. CASE i # Me
      BY <1>6, <3>2 DEF Me
    <3>. QED BY <3>1, <3>2
  <2>2. Len(files) = Len(files')
    BY <1>6 DEF Me
  <2>. QED BY <1>1, <1>6, <2>1, <2>2, SameReplay, ReplayIs
<1>9. \A i \in Attempts : files'[i] = files[i] /\ i # Me /\ i \in Nat /\ i < Me
  BY <1>2, <1>6, <1>7
<1>10. CovTypeOK'
  BY <1>1, <1>6 DEF CovTypeOK, Opened, InLoop, Files
<1>11. OnDisk'
  <2>1. overview # NoReport /\ Readable
    BY <1>1 DEF OnDisk
  <2>2. \A i \in Attempts' : SoundAttempt(i, files'[i])
    BY <2>1, <1>4, <1>6, <1>7, <1>9, ReadableIs
  <2>3. ASSUME NEW i \in Attempts', \A j \in Attempts' : i <= j
        PROVE  files'[i].configuration = overview.configuration
    <3>1. CASE i \in Attempts
      BY <2>1, <2>3, <3>1, <1>7, <1>9, ReadableIs
    <3>2. CASE i = Me
      <4>1. Attempts = {}
        BY <2>3, <3>2, <1>2, <1>7, <1>9
      <4>. QED BY <4>1, <3>2, <1>1, <1>4, <1>6 DEF OnDisk
    <3>. QED BY <3>1, <3>2, <1>7
  <2>4. Readable'
    BY <2>1, <2>2, <2>3, <1>7, ReadableIs, ReadableWillBe
  <2>5. ASSUME NEW i \in Attempts', \A j \in Attempts' : j <= i, NEW m \in files'[i].indices \ Rowed(files'[i])
        PROVE  ~IsVerified(Replay'[m])
    <3>1. i = Me
      BY <2>5, <1>2, <1>7, <1>9
    <3>2. m \in queue
      BY <2>5, <3>1, <1>4, <1>6
    <3>. QED BY <3>2, <1>1, <1>8 DEF AtHand
  <2>. QED BY <2>1, <2>4, <2>5, <1>7 DEF OnDisk
<1>12. AtHand'
  <2>1. Me' \in Attempts' /\ files'[Me'].configuration = cfg /\ queue = files'[Me'].indices \ Rowed(files'[Me'])
    BY <1>3, <1>4, <1>6, <1>7
  <2>. QED BY <2>1, <1>1, <1>8 DEF AtHand, Opened, InLoop
<1>13. OneDebt'
  <2>1. Debts(Replay') = Debts(Replay) /\ Debts(rows') = Debts(rows)
    BY <1>8
  <2>. QED BY <2>1, <1>1 DEF OneDebt
<1>14. Owed'
  <2>1. \A c \in containers \cup {o[2] : o \in owed} : c.attempt <= Me /\ c.attempt # Me
    BY <1>1 DEF Owed
  <2>2. ASSUME NEW o \in owed, o[2] \in containers
        PROVE  /\ o[1] \in Debts(Replay') /\ Replay'[o[1]].origin \in Attempts'
               /\ Scope(files'[Replay'[o[1]].origin].configuration) = o[2].scope
    <3>1. /\ o[1] \in Debts(Replay) /\ Replay[o[1]].origin \in Attempts
          /\ Scope(files[Replay[o[1]].origin].configuration) = o[2].scope
      BY <1>1, <2>2 DEF Owed
    <3>. QED BY <3>1, <1>7, <1>8, <1>9
  <2>. QED BY <2>1, <2>2, <1>6 DEF Owed, InLoop
<1>. QED BY <1>10, <1>11, <1>12, <1>13, <1>14 DEF CovInv

\* The overview is rebuilt from what the process has.
LEMMA Reported ==
    ASSUME CovTypeOK, OnDisk, rows = Replay, overview # NoReport, overview' = Report, files' = files,
           pc' \notin {"mkdir", "persist"}
    PROVE  OnDisk' /\ overview' \in Overviews
<1>1. Replay' = Replay /\ Attempts' = Attempts
  BY FilesStand
<1>2. files \in Files /\ Attempts \subseteq Nat
  BY FilesTyped, FilesAre
<1>3. /\ overview' \in Overviews /\ overview'.configuration = overview.configuration
      /\ overview'.attempts = Attempts /\ overview'.rows = (Known(rows) # {})
  BY <1>2 DEF CovTypeOK, Overviews, Report
<1>4. overview' # NoReport
  <2>1. "rows" \in DOMAIN overview' /\ "rows" \notin DOMAIN NoReport
    BY <1>3 DEF NoReport, Overviews
  <2>. QED BY <2>1
<1>5. Readable
  BY DEF OnDisk
<1>6. Attempts = {} => ~overview'.rows
  BY <1>3 DEF OnDisk
<1>7. Readable'
  BY <1>1, <1>3, <1>4, <1>5, <1>6, ReadableIs, ReadableWillBe
<1>8. Known(Replay') = Known(Replay) /\ \A i \in Attempts : Rowed(files'[i]) = Rowed(files[i])
  BY <1>1
<1>. QED BY <1>1, <1>3, <1>4, <1>7, <1>8 DEF OnDisk

LEMMA SaveKeeps == ASSUME CovInv, Save PROVE CovInv'
<1>. USE DEF Save
<1>1. CovTypeOK /\ OnDisk /\ AtHand /\ OneDebt /\ Owed /\ files \in Files /\ Replay \in Views
  BY FilesTyped DEF CovInv
<1>2. Replay' = Replay /\ Attempts' = Attempts /\ Me' = Me
  BY FilesStand
<1>3. /\ pc' \in {"interrupted", "complete", "model"}
      /\ pc' = "complete" => queue = {}
      /\ pc' = "model" => queue # {} /\ ~row.debt
  OBVIOUS
<1>4. rows = Replay /\ overview # NoReport
  BY <1>1 DEF AtHand, OnDisk
<1>5. OnDisk' /\ overview' \in Overviews
  BY <1>1, <1>3, <1>4, Reported
<1>6. CovTypeOK'
  BY <1>1, <1>3, <1>5, NoDebts DEF CovTypeOK, Opened, InLoop
<1>7. AtHand'
  BY <1>1, <1>2, <1>3, <1>4 DEF AtHand, Opened, InLoop
<1>8. OneDebt'
  <2>1. Debts(Replay') = Debts(Replay) /\ Debts(rows') = Debts(rows)
    BY <1>2
  <2>. QED BY <2>1, <1>1, <1>3, NoDebts DEF OneDebt
<1>9. Owed'
  <2>1. CASE pc' # "model"
    BY <2>1, <1>1, <1>3, OwedStands DEF InLoop
  <2>2. CASE pc' = "model"
    <3>1. Debts(Replay') = Debts(Replay)
      BY <1>2
    <3>. QED BY <2>2, <3>1, <1>1, <1>2 DEF Owed, InLoop
  <2>. QED BY <2>1, <2>2
<1>. QED BY <1>5, <1>6, <1>7, <1>8, <1>9 DEF CovInv

LEMMA StartModelKeeps == ASSUME CovInv, StartModel PROVE CovInv'
<1>. USE DEF StartModel
<1>1. CovTypeOK /\ OnDisk /\ AtHand /\ OneDebt /\ Owed /\ files \in Files /\ Replay \in Views
  BY FilesTyped DEF CovInv
<1>2. Replay' = Replay /\ Attempts' = Attempts /\ Me' = Me
  BY FilesStand
<1>3. queue \subseteq Models /\ queue # {} /\ rows = Replay /\ rows \in Views
  BY <1>1 DEF CovTypeOK, AtHand
<1>4. model' \in queue /\ \A n \in queue : rows[n].debt => rows[model'].debt
  BY <1>3, ForemostIs
<1>5. pc' = IF rows[model'].debt THEN "confirm" ELSE "evaluate"
  OBVIOUS
<1>6. Debts(rows) \subseteq {model'}
  BY <1>1, <1>3, <1>4 DEF OneDebt, Debts
<1>7. overview # NoReport
  BY <1>1 DEF OnDisk
<1>8. CovTypeOK'
  BY <1>1, <1>3, <1>4, <1>5 DEF CovTypeOK, Opened, InLoop
<1>9. OnDisk'
  BY <1>1, <1>5, <1>7, DiskStands
<1>10. AtHand'
  BY <1>1, <1>2, <1>3, <1>4, <1>5 DEF AtHand, Opened, InLoop
<1>11. OneDebt'
  <2>1. Debts(Replay') = Debts(Replay) /\ Debts(rows') = Debts(rows) /\ rows'[model'] = rows[model']
    BY <1>2
  <2>. QED BY <2>1, <1>1, <1>5, <1>6 DEF OneDebt
<1>12. Owed'
  <2>1. Debts(Replay') = Debts(Replay)
    BY <1>2
  <2>2. pc' = "evaluate" => \A o \in owed : o[1] = model' => o[2] \notin containers
    BY <1>1, <1>3, <1>5 DEF Owed, Debts
  <2>. QED BY <2>1, <2>2, <1>1, <1>2, <1>5 DEF Owed, InLoop
<1>. QED BY <1>8, <1>9, <1>10, <1>11, <1>12 DEF CovInv

LEMMA FinishKeeps == ASSUME CovInv, Finish PROVE CovInv'
<1>. USE DEF Finish
<1>1. CovTypeOK /\ OnDisk /\ AtHand /\ OneDebt /\ Owed /\ files \in Files /\ Replay \in Views
  BY FilesTyped DEF CovInv
<1>2. /\ Me \in Nat /\ DOMAIN files = 1..Me /\ Attempts \subseteq 1..Me /\ Me \in Attempts
      /\ files[Me] # Void /\ files[Me] \in Records
  <2>1. Me \in Nat /\ DOMAIN files = 1..Me /\ Attempts \subseteq 1..Me /\ Me \in Attempts
    BY <1>1, FilesAre DEF AtHand, Opened
  <2>. QED BY <2>1, <1>1 DEF Attempts, Files
<1>. DEFINE f == [files[Me] EXCEPT !.status = pc]
<1>3. f \in Records /\ f.rows = files[Me].rows /\ f.indices = files[Me].indices
      /\ f.configuration = files[Me].configuration /\ f.status = pc /\ f # Void
  <2>1. f \in Records /\ f.rows = files[Me].rows /\ f.indices = files[Me].indices
      /\ f.configuration = files[Me].configuration /\ f.status = pc
    BY <1>2 DEF Records
  <2>. QED BY <2>1, VoidIsNone
<1>4. files' = [files EXCEPT ![Me] = f]
  OBVIOUS
<1>. HIDE DEF f
<1>5. /\ files' \in Files /\ Me' = Me /\ files'[Me] = f /\ DOMAIN files' = 1..Me
      /\ \A i \in 1..Me : i # Me => files'[i] = files[i]
  <2>1. f \in Records \cup {Void} /\ Me = Len(files)
    BY <1>3 DEF Me
  <2>2. files' \in Files /\ Len(files') = Len(files)
    BY <1>1, <1>2, <1>4, <2>1 DEF Files
  <2>3. files'[Me] = f /\ DOMAIN files' = 1..Me /\ \A i \in 1..Me : i # Me => files'[i] = files[i]
    BY <1>1, <1>2, <1>4
  <2>. QED BY <2>1, <2>2, <2>3 DEF Me
<1>6. Attempts' = Attempts
  BY <1>2, <1>3, <1>5 DEF Attempts
<1>7. Replay' = Replay
  <2>1. ASSUME NEW i \in 1..Len(files), NEW v \in Views PROVE Adds(v, files[i]) = Adds(v, files'[i])
    <3>1. CASE i = Me
      BY <1>2, <1>3, <1>5, <3>1 DEF Adds
    <3>2. CASE i # Me
      BY <1>5, <3>2 DEF Me
    <3>. QED BY <3>1, <3>2
  <2>2. Len(files) = Len(files')
    BY <1>5 DEF Me
  <2>. QED BY <1>1, <1>5, <2>1, <2>2, SameReplay, ReplayIs
<1>8. \A i \in Attempts : /\ files'[i].rows = files[i].rows /\ files'[i].indices = files[i].indices
                          /\ files'[i].configuration = files[i].configuration
                          /\ Rowed(files'[i]) = Rowed(files[i])
                          /\ i # Me => files'[i] = files[i]
  BY <1>2, <1>3, <1>5 DEF Rowed
<1>9. CovTypeOK'
  BY <1>1, <1>5 DEF CovTypeOK, Opened, InLoop, Files
<1>10. OnDisk'
  <2>1. overview # NoReport /\ Readable
    BY <1>1 DEF OnDisk
  <2>2. ASSUME NEW i \in Attempts PROVE SoundAttempt(i, files'[i])
    <3>1. SoundAttempt(i, files[i])
      BY <2>1, ReadableIs
    <3>2. CASE i # Me
      BY <3>1, <3>2, <1>8
    <3>3. CASE i = Me
      <4>1. pc = "complete" => Rowed(files[Me]) = files[Me].indices
        BY <1>1, <3>1, <3>3 DEF AtHand, Opened, SoundAttempt
      <4>2. files'[i].status = pc
        BY <3>3, <1>3, <1>5
      <4>. QED BY <3>1, <3>3, <4>1, <4>2, <1>8 DEF SoundAttempt
    <3>. QED BY <3>2, <3>3
  <2>3. Readable'
    BY <2>1, <2>2, <1>6, <1>8, ReadableIs, ReadableWillBe
  <2>. QED BY <2>1, <2>3, <1>1, <1>6, <1>7, <1>8 DEF OnDisk
<1>11. AtHand'
  BY <1>1, <1>7 DEF AtHand, Opened, InLoop
<1>12. OneDebt'
  <2>1. Debts(Replay') = Debts(Replay) /\ Debts(rows') = Debts(rows)
    BY <1>7
  <2>. QED BY <2>1, <1>1 DEF OneDebt
<1>13. Owed'
  <2>1. ASSUME NEW o \in owed, o[2] \in containers
        PROVE  /\ o[1] \in Debts(Replay') /\ Replay'[o[1]].origin \in Attempts'
               /\ Scope(files'[Replay'[o[1]].origin].configuration) = o[2].scope
    <3>1. /\ o[1] \in Debts(Replay) /\ Replay[o[1]].origin \in Attempts
          /\ Scope(files[Replay[o[1]].origin].configuration) = o[2].scope
      BY <1>1, <2>1 DEF Owed
    <3>. QED BY <3>1, <1>6, <1>7, <1>8
  <2>. QED BY <2>1, <1>1, <1>5 DEF Owed, InLoop
<1>. QED BY <1>9, <1>10, <1>11, <1>12, <1>13 DEF CovInv

LEMMA LastSaveKeeps == ASSUME CovInv, LastSave PROVE CovInv'
<1>. USE DEF LastSave, Forget
<1>1. CovTypeOK /\ OnDisk /\ AtHand /\ OneDebt /\ Owed /\ files \in Files /\ Replay \in Views
  BY FilesTyped DEF CovInv
<1>2. Replay' = Replay /\ Attempts' = Attempts /\ Me' = Me
  BY FilesStand
<1>3. rows = Replay /\ overview # NoReport
  BY <1>1 DEF AtHand, OnDisk
<1>4. OnDisk' /\ overview' \in Overviews
  BY <1>1, <1>3, Reported
<1>5. CovTypeOK'
  BY <1>1, <1>4, NoDebts, NothingIs DEF CovTypeOK, Opened, InLoop
<1>6. AtHand'
  BY <1>1, <1>2 DEF AtHand, Opened, InLoop
<1>7. OneDebt'
  <2>1. Debts(Replay') = Debts(Replay)
    BY <1>2
  <2>. QED BY <2>1, <1>1 DEF OneDebt
<1>8. Owed'
  BY <1>1, OwedStands DEF InLoop
<1>. QED BY <1>4, <1>5, <1>6, <1>7, <1>8 DEF CovInv

\* What a validation under way may leave is owed by nobody.
LEMMA LeftIs ==
    ASSUME CovInv, containers' \in LeftBehind, files' = files, owed' = owed, pc' \notin InLoop, pc' # "persist"
    PROVE  containers' \subseteq Boxes /\ Owed'
<1>1. CovTypeOK /\ OnDisk /\ AtHand /\ OneDebt /\ Owed /\ files \in Files /\ Replay \in Views
  BY FilesTyped DEF CovInv
<1>2. CASE containers' = containers
  <2>1. pc' # "evaluate" /\ pc' # "record"
    BY DEF InLoop
  <2>. QED BY <1>1, <1>2, <2>1, OwedStands DEF CovTypeOK
<1>3. CASE pc = "evaluate" /\ containers' = containers \cup {NewContainer}
  <2>1. Replay' = Replay /\ Attempts' = Attempts /\ Me' = Me /\ Me \in Nat
    BY <1>1, FilesStand, FilesAre
  <2>2. model \in queue /\ model \in Models /\ cfg \in RunConfigs
    BY <1>1, <1>3 DEF AtHand, CovTypeOK
  <2>3. NewContainer \in Boxes /\ NewContainer.attempt = Me /\ NewContainer.model = model
    BY <2>1, <2>2 DEF NewContainer, Boxes
  <2>4. \A o \in owed : o[2] # NewContainer
    BY <1>1, <1>3, <2>2, <2>3 DEF Owed, InLoop
  <2>5. ASSUME NEW o \in owed, o[2] \in containers'
        PROVE  /\ o[1] \in Debts(Replay') /\ Replay'[o[1]].origin \in Attempts'
               /\ Scope(files'[Replay'[o[1]].origin].configuration) = o[2].scope
    <3>1. o[2] \in containers
      BY <1>3, <2>4, <2>5
    <3>2. /\ o[1] \in Debts(Replay) /\ Replay[o[1]].origin \in Attempts
          /\ Scope(files[Replay[o[1]].origin].configuration) = o[2].scope
      BY <1>1, <3>1 DEF Owed
    <3>. QED BY <3>2, <2>1
  <2>6. \A c \in containers' \cup {o[2] : o \in owed'} : c.attempt <= Me'
    <3>1. Me <= Me
      BY <2>1
    <3>. QED BY <1>1, <1>3, <2>1, <2>3, <3>1 DEF Owed
  <2>7. pc' # "evaluate" /\ pc' # "record"
    BY DEF InLoop
  <2>. QED BY <1>1, <1>3, <2>3, <2>5, <2>6, <2>7 DEF Owed, CovTypeOK
<1>. QED BY <1>2, <1>3 DEF LeftBehind

LEMMA InterruptKeeps == ASSUME CovInv, Interrupt PROVE CovInv'
<1>. USE DEF Interrupt
<1>1. CovTypeOK /\ OnDisk /\ AtHand /\ OneDebt /\ Owed /\ files \in Files /\ Replay \in Views
  BY FilesTyped DEF CovInv
<1>2. Replay' = Replay /\ Attempts' = Attempts /\ Me' = Me /\ overview # NoReport
  BY <1>1, FilesStand DEF OnDisk
<1>3. containers' \subseteq Boxes /\ Owed'
  BY LeftIs DEF InLoop
<1>4. CovTypeOK'
  BY <1>1, <1>3, NoDebts DEF CovTypeOK, Opened, InLoop
<1>5. OnDisk'
  BY <1>1, <1>2, DiskStands
<1>6. AtHand'
  BY <1>1, <1>2 DEF AtHand, Opened, InLoop
<1>7. OneDebt'
  <2>1. Debts(Replay') = Debts(Replay)
    BY <1>2
  <2>. QED BY <2>1, <1>1 DEF OneDebt
<1>. QED BY <1>3, <1>4, <1>5, <1>6, <1>7 DEF CovInv

LEMMA KillKeeps == ASSUME CovInv, Kill PROVE CovInv'
<1>. USE DEF Kill, Forget
<1>1. CovTypeOK /\ OnDisk /\ AtHand /\ OneDebt /\ Owed /\ files \in Files /\ Replay \in Views
  BY FilesTyped DEF CovInv
<1>2. Replay' = Replay /\ Attempts' = Attempts /\ Me' = Me /\ overview # NoReport
  BY <1>1, FilesStand DEF OnDisk
<1>3. containers' \subseteq Boxes /\ Owed'
  BY LeftIs DEF InLoop
<1>4. CovTypeOK'
  BY <1>1, <1>3, NoDebts, NothingIs DEF CovTypeOK, Opened, InLoop
<1>5. OnDisk'
  BY <1>1, <1>2, DiskStands
<1>6. AtHand'
  BY <1>1, <1>2 DEF AtHand, Opened, InLoop
<1>7. OneDebt'
  <2>1. Debts(Replay') = Debts(Replay)
    BY <1>2
  <2>. QED BY <2>1, <1>1 DEF OneDebt
<1>. QED BY <1>3, <1>4, <1>5, <1>6, <1>7 DEF CovInv

LEMMA IdsAre ==
    ASSUME CovTypeOK
    PROVE  Unnamed \in Nat \X Nat /\ \A c \in containers : Id(c) \in Nat \X Nat
<1>1. \A c \in containers : c.attempt \in Nat /\ c.model \in Nat
  BY SampleAssumption DEF CovTypeOK, Boxes, Models
<1>. QED BY <1>1 DEF Unnamed, Id

LEMMA OutcomeIs ==
    ASSUME CovTypeOK, NEW stage \in Stages, NEW debt \in BOOLEAN, NEW errors \in SUBSET (Nat \X Nat), Me \in Nat
    PROVE  /\ Outcome(stage, debt, errors) \in RowsOf
           /\ Outcome(stage, debt, errors).stage = stage
           /\ Outcome(stage, debt, errors).recovered = row.recovered
<1>1. row \in RowsOf /\ model \in Models
  BY DEF CovTypeOK
<1>. QED BY <1>1 DEF Outcome, RowsOf

\* An evaluation leaves its own container, if any, and a row that is no cleanup.
LEMMA EvaluateGives ==
    ASSUME CovTypeOK, Evaluate, Me \in Nat
    PROVE  /\ containers' \subseteq containers \cup {NewContainer}
           /\ row' \in RowsOf /\ row'.stage # "cleanup" /\ row'.recovered = row.recovered
<1>. DEFINE Gives == /\ containers' \subseteq containers \cup {NewContainer}
                     /\ row' \in RowsOf /\ row'.stage # "cleanup" /\ row'.recovered = row.recovered
<1>1. {"none", "runtime"} \subseteq Stages /\ TRUE \in BOOLEAN /\ FALSE \in BOOLEAN /\ {} \in SUBSET (Nat \X Nat)
  BY DEF Stages
<1>2. CASE row' = Outcome("runtime", FALSE, {}) /\ UNCHANGED <<containers, faults>>
  BY <1>1, <1>2, OutcomeIs
<1>3. CASE Validate
  <2>1. \A what : what \in Nat \X Nat => Outcome("runtime", TRUE, {what}) \in RowsOf
                    /\ Outcome("runtime", TRUE, {what}).stage # "cleanup"
                    /\ Outcome("runtime", TRUE, {what}).recovered = row.recovered
    <3>. SUFFICES ASSUME NEW what \in Nat \X Nat
                  PROVE  Outcome("runtime", TRUE, {what}) \in RowsOf
                    /\ Outcome("runtime", TRUE, {what}).stage # "cleanup"
                    /\ Outcome("runtime", TRUE, {what}).recovered = row.recovered
      OBVIOUS
    <3>1. {what} \in SUBSET (Nat \X Nat)
      OBVIOUS
    <3>. QED BY <3>1, <1>1, OutcomeIs
  <2>2. \A s \in {"none", "runtime"} : Outcome(s, FALSE, {}) \in RowsOf /\ Outcome(s, FALSE, {}).stage # "cleanup"
            /\ Outcome(s, FALSE, {}).recovered = row.recovered
    <3>1. Outcome("none", FALSE, {}) \in RowsOf /\ Outcome("none", FALSE, {}).stage # "cleanup"
            /\ Outcome("none", FALSE, {}).recovered = row.recovered
      BY <1>1, OutcomeIs
    <3>2. Outcome("runtime", FALSE, {}) \in RowsOf /\ Outcome("runtime", FALSE, {}).stage # "cleanup"
            /\ Outcome("runtime", FALSE, {}).recovered = row.recovered
      BY <1>1, OutcomeIs
    <3>. QED BY <3>1, <3>2
  <2>3. Id(NewContainer) \in Nat \X Nat
    <3>1. NewContainer.attempt = Me /\ NewContainer.model = model /\ model \in Nat
      BY SampleAssumption DEF NewContainer, CovTypeOK, Models
    <3>. QED BY <3>1 DEF Id
  <2>4. Unnamed \in Nat \X Nat /\ Here \subseteq containers /\ \A c \in Here : Id(c) \in Nat \X Nat
    BY IdsAre DEF Here
  <2>5. \/ /\ containers' = containers \ Here
           /\ row' \in {Outcome(s, FALSE, {}) : s \in {"none", "runtime"}}
        \/ /\ containers' \in {containers \ Here, (containers \ Here) \cup {NewContainer}}
           /\ row' \in {Outcome("runtime", TRUE, {what}) : what \in {Unnamed, Id(NewContainer)}}
        \/ /\ containers' = (containers \ Here) \cup {NewContainer}
           /\ row' = Outcome("runtime", FALSE, {})
        \/ \E c \in Here : containers' = containers /\ row' = Outcome("runtime", TRUE, {Id(c)})
        \/ \E gone \in SUBSET {c \in Here : ~Mine(c)} : \E what \in {Unnamed} \cup {Id(c) : c \in Here} :
              containers' = containers \ gone /\ row' = Outcome("runtime", TRUE, {what})
    <3>1. \/ /\ ~\E c \in Here : Mine(c)
             /\ \/ /\ containers' = containers \ Here
                   /\ row' \in {Outcome(s, FALSE, {}) : s \in {"none", "runtime"}}
                   /\ UNCHANGED faults
                \/ /\ Fault
                   /\ containers' \in {containers \ Here, (containers \ Here) \cup {NewContainer}}
                   /\ row' \in {Outcome("runtime", TRUE, {what}) : what \in {Unnamed, Id(NewContainer)}}
                \/ /\ Fault
                   /\ containers' = (containers \ Here) \cup {NewContainer}
                   /\ row' = Outcome("runtime", FALSE, {})
          \/ \E c \in Here : Mine(c) /\ UNCHANGED faults
                /\ containers' = containers /\ row' = Outcome("runtime", TRUE, {Id(c)})
          \/ \E gone \in SUBSET {c \in Here : ~Mine(c)} :
             \E what \in {Unnamed} \cup {Id(c) : c \in Here} :
                Fault /\ containers' = containers \ gone /\ row' = Outcome("runtime", TRUE, {what})
      BY <1>3 DEF Validate, Reclaim
    <3>2. CASE \E c \in Here : Mine(c) /\ UNCHANGED faults
                /\ containers' = containers /\ row' = Outcome("runtime", TRUE, {Id(c)})
      BY <3>2
    <3>3. CASE \E gone \in SUBSET {c \in Here : ~Mine(c)} :
               \E what \in {Unnamed} \cup {Id(c) : c \in Here} :
                  Fault /\ containers' = containers \ gone /\ row' = Outcome("runtime", TRUE, {what})
      BY <3>3
    <3>. QED BY <3>1, <3>2, <3>3
  <2>. HIDE DEF Gives
  <2>6. CASE containers' = containers \ Here /\ row' \in {Outcome(s, FALSE, {}) : s \in {"none", "runtime"}}
    BY <2>2, <2>6 DEF Gives
  <2>7. CASE /\ containers' \in {containers \ Here, (containers \ Here) \cup {NewContainer}}
             /\ row' \in {Outcome("runtime", TRUE, {what}) : what \in {Unnamed, Id(NewContainer)}}
    BY <2>1, <2>3, <2>4, <2>7 DEF Gives
  <2>8. CASE containers' = (containers \ Here) \cup {NewContainer} /\ row' = Outcome("runtime", FALSE, {})
    BY <2>2, <2>8 DEF Gives
  <2>9. CASE \E c \in Here : containers' = containers /\ row' = Outcome("runtime", TRUE, {Id(c)})
    BY <2>1, <2>4, <2>9 DEF Gives
  <2>10. CASE \E gone \in SUBSET {c \in Here : ~Mine(c)} : \E what \in {Unnamed} \cup {Id(c) : c \in Here} :
                 containers' = containers \ gone /\ row' = Outcome("runtime", TRUE, {what})
    <3>1. PICK gone \in SUBSET {c \in Here : ~Mine(c)}, what \in {Unnamed} \cup {Id(c) : c \in Here} :
                 containers' = containers \ gone /\ row' = Outcome("runtime", TRUE, {what})
      BY <2>10
    <3>2. what \in Nat \X Nat
      BY <2>4
    <3>. QED BY <2>1, <3>1, <3>2 DEF Gives
  <2>. QED BY <2>5, <2>6, <2>7, <2>8, <2>9, <2>10
<1>. QED BY <1>2, <1>3 DEF Evaluate

LEMMA EvaluateKeeps == ASSUME CovInv, Evaluate PROVE CovInv'
<1>. USE DEF Evaluate
<1>1. CovTypeOK /\ OnDisk /\ AtHand /\ OneDebt /\ Owed /\ files \in Files /\ Replay \in Views /\ Me \in Nat
  BY FilesTyped, FilesAre DEF CovInv
<1>2. Replay' = Replay /\ Attempts' = Attempts /\ Me' = Me /\ overview # NoReport
  BY <1>1, FilesStand DEF OnDisk
<1>3. /\ containers' \subseteq containers \cup {NewContainer}
      /\ row' \in RowsOf /\ row'.stage # "cleanup" /\ row'.recovered = row.recovered
  BY <1>1, EvaluateGives
<1>4. pc = "evaluate" /\ pc' = "record" /\ UNCHANGED <<overview, files, rows, cfg, queue, model, owed>>
  OBVIOUS
<1>5. model \in queue /\ NewContainer \in Boxes /\ NewContainer.attempt = Me /\ NewContainer.model = model
  <2>1. model \in queue /\ model \in Models /\ cfg \in RunConfigs
    BY <1>1, <1>4 DEF AtHand, CovTypeOK
  <2>. QED BY <2>1, <1>1 DEF NewContainer, Boxes
<1>6. \A o \in owed : o[2] # NewContainer
  BY <1>1, <1>4, <1>5 DEF Owed, InLoop
<1>7. CovTypeOK'
  BY <1>1, <1>3, <1>4, <1>5 DEF CovTypeOK, Opened, InLoop
<1>8. OnDisk'
  BY <1>1, <1>2, <1>4, DiskStands
<1>9. AtHand'
  BY <1>1, <1>2, <1>4 DEF AtHand, Opened, InLoop
<1>10. OneDebt'
  <2>1. Debts(Replay') = Debts(Replay)
    BY <1>2
  <2>. QED BY <2>1, <1>1, <1>3, <1>4 DEF OneDebt
<1>11. Owed'
  <2>1. ASSUME NEW o \in owed, o[2] \in containers'
        PROVE  /\ o[1] \in Debts(Replay') /\ Replay'[o[1]].origin \in Attempts'
               /\ Scope(files'[Replay'[o[1]].origin].configuration) = o[2].scope
    <3>1. o[2] \in containers
      BY <1>3, <1>6, <2>1
    <3>2. /\ o[1] \in Debts(Replay) /\ Replay[o[1]].origin \in Attempts
          /\ Scope(files[Replay[o[1]].origin].configuration) = o[2].scope
      BY <1>1, <3>1 DEF Owed
    <3>. QED BY <3>2, <1>2, <1>4
  <2>2. \A c \in containers' \cup {o[2] : o \in owed'} : c.attempt <= Me'
    <3>1. Me <= Me
      BY <1>1
    <3>. QED BY <3>1, <1>1, <1>2, <1>3, <1>4, <1>5 DEF Owed
  <2>3. \A o \in owed' : o[2].attempt = Me' => o[2].model \notin queue'
    BY <1>1, <1>2, <1>4 DEF Owed, InLoop
  <2>4. \A c \in containers' : c.attempt = Me' /\ c.model \in queue' => pc' = "record" /\ c.model = model'
    BY <1>1, <1>2, <1>3, <1>4, <1>5 DEF Owed, InLoop
  <2>5. \A o \in owed' : o[1] = model' => o[2] \notin containers'
    BY <1>1, <1>3, <1>4, <1>6 DEF Owed
  <2>6. pc' # "persist"
    BY <1>4
  <2>. HIDE DEF Evaluate
  <2>. QED BY <1>4, <2>1, <2>2, <2>3, <2>4, <2>5, <2>6 DEF Owed
<1>. QED BY <1>7, <1>8, <1>9, <1>10, <1>11 DEF CovInv

LEMMA UnconfirmedIs ==
    ASSUME CovTypeOK, NEW extra \in SUBSET (Nat \X Nat)
    PROVE  LET r == Unconfirmed(extra) IN
           r \in RowsOf /\ r.stage = "cleanup" /\ ~r.recovered /\ r.debt = rows[model].debt
<1>1. rows[model] \in RowsOf
  BY DEF CovTypeOK, Views
<1>. QED BY <1>1 DEF Unconfirmed, RowsOf, Stages

\* The attempt to settle a debt: it is settled, on the scope where it arose, or it stands.
Settled ==
    /\ Scope(files[rows[model].origin].configuration) = Scope(cfg)
    /\ containers' = containers \ Here
    /\ pc' = "evaluate" /\ row' \in RowsOf /\ row'.recovered
Stands ==
    /\ containers' \subseteq containers
    /\ pc' = "record" /\ row' \in RowsOf /\ row'.stage = "cleanup" /\ ~row'.recovered
    /\ row'.debt = rows[model].debt

LEMMA ConfirmGives == ASSUME CovTypeOK, ConfirmCleanup PROVE Settled \/ Stands
<1>1. Unnamed \in Nat \X Nat /\ Here \subseteq containers /\ \A c \in Here : Id(c) \in Nat \X Nat
  BY IdsAre DEF Here
<1>2. \A what \in Nat \X Nat : {what} \in SUBSET (Nat \X Nat)
  OBVIOUS
<1>3. CASE Scope(files[rows[model].origin].configuration) = Scope(cfg)
  <2>1. \/ /\ ~\E c \in Here : Mine(c)
           /\ containers' = containers \ Here
           /\ pc' = "evaluate" /\ row' = [NoRow EXCEPT !.recovered = TRUE]
           /\ UNCHANGED faults
        \/ \E c \in Here : Mine(c) /\ UNCHANGED faults
              /\ containers' = containers /\ row' = Unconfirmed({Id(c)}) /\ pc' = "record"
        \/ \E gone \in SUBSET {c \in Here : ~Mine(c)} :
           \E what \in {Unnamed} \cup {Id(c) : c \in Here} :
              Fault /\ containers' = containers \ gone /\ row' = Unconfirmed({what}) /\ pc' = "record"
    BY <1>3 DEF ConfirmCleanup, RecoverDebt, Reclaim
  <2>2. CASE /\ containers' = containers \ Here
             /\ pc' = "evaluate" /\ row' = [NoRow EXCEPT !.recovered = TRUE]
    <3>1. [NoRow EXCEPT !.recovered = TRUE] \in RowsOf /\ [NoRow EXCEPT !.recovered = TRUE].recovered
      BY NoDebts DEF RowsOf
    <3>. QED BY <1>3, <2>2, <3>1 DEF Settled
  <2>3. CASE \E c \in Here : containers' = containers /\ row' = Unconfirmed({Id(c)}) /\ pc' = "record"
    BY <2>3, <1>1, <1>2, UnconfirmedIs DEF Stands
  <2>4. CASE \E gone \in SUBSET {c \in Here : ~Mine(c)} :
             \E what \in {Unnamed} \cup {Id(c) : c \in Here} :
                containers' = containers \ gone /\ row' = Unconfirmed({what}) /\ pc' = "record"
    <3>1. PICK gone \in SUBSET {c \in Here : ~Mine(c)}, what \in {Unnamed} \cup {Id(c) : c \in Here} :
                containers' = containers \ gone /\ row' = Unconfirmed({what}) /\ pc' = "record"
      BY <2>4
    <3>2. {what} \in SUBSET (Nat \X Nat)
      BY <1>1, <1>2
    <3>. QED BY <3>1, <3>2, UnconfirmedIs DEF Stands
  <2>5. CASE \E c \in Here : Mine(c) /\ UNCHANGED faults
              /\ containers' = containers /\ row' = Unconfirmed({Id(c)}) /\ pc' = "record"
    BY <2>3, <2>5
  <2>6. CASE \E gone \in SUBSET {c \in Here : ~Mine(c)} :
             \E what \in {Unnamed} \cup {Id(c) : c \in Here} :
                Fault /\ containers' = containers \ gone /\ row' = Unconfirmed({what}) /\ pc' = "record"
    BY <2>4, <2>6
  <2>. QED BY <2>1, <2>2, <2>5, <2>6
<1>4. CASE Scope(files[rows[model].origin].configuration) # Scope(cfg)
  <2>1. {Unnamed} \in SUBSET (Nat \X Nat)
    BY <1>1, <1>2
  <2>2. row' = Unconfirmed({Unnamed}) /\ pc' = "record" /\ containers' = containers
    BY <1>4 DEF ConfirmCleanup
  <2>. QED BY <2>1, <2>2, UnconfirmedIs DEF Stands
<1>. QED BY <1>3, <1>4

LEMMA ConfirmKeeps == ASSUME CovInv, ConfirmCleanup PROVE CovInv'
<1>1. CovTypeOK /\ OnDisk /\ AtHand /\ OneDebt /\ Owed /\ files \in Files /\ Replay \in Views /\ Me \in Nat
  BY FilesTyped, FilesAre DEF CovInv
<1>2. pc = "confirm" /\ UNCHANGED <<overview, files, rows, cfg, queue, model, owed>>
  BY DEF ConfirmCleanup
<1>3. Replay' = Replay /\ Attempts' = Attempts /\ Me' = Me /\ overview # NoReport /\ rows = Replay
  BY <1>1, <1>2, FilesStand DEF OnDisk, AtHand
<1>4. Settled \/ Stands
  BY <1>1, ConfirmGives
<1>5. containers' \subseteq containers /\ pc' \in {"evaluate", "record"} /\ row' \in RowsOf
  BY <1>4 DEF Settled, Stands
<1>6. CovTypeOK'
  BY <1>1, <1>2, <1>5 DEF CovTypeOK, Opened, InLoop
<1>7. OnDisk'
  BY <1>1, <1>2, <1>3, <1>5, DiskStands
<1>8. AtHand'
  BY <1>1, <1>2, <1>3, <1>5 DEF AtHand, Opened, InLoop
<1>9. rows[model].debt
  BY <1>1, <1>2 DEF OneDebt
<1>10. OneDebt'
  <2>1. Debts(Replay') = Debts(Replay) /\ rows' = rows /\ model' = model
    BY <1>2, <1>3
  <2>2. Debts(rows') = Debts(rows)
    BY <2>1
  <2>3. CASE Settled
    BY <2>1, <2>2, <2>3, <1>1, <1>2 DEF OneDebt, Settled
  <2>4. CASE Stands
    BY <2>1, <2>2, <2>4, <1>1, <1>2, <1>9 DEF OneDebt, Stands
  <2>. QED BY <2>3, <2>4, <1>4
<1>11. Owed'
  <2>1. ASSUME NEW o \in owed, o[2] \in containers'
        PROVE  /\ o[1] \in Debts(Replay') /\ Replay'[o[1]].origin \in Attempts'
               /\ Scope(files'[Replay'[o[1]].origin].configuration) = o[2].scope
    <3>1. o[2] \in containers
      BY <1>5, <2>1
    <3>2. /\ o[1] \in Debts(Replay) /\ Replay[o[1]].origin \in Attempts
          /\ Scope(files[Replay[o[1]].origin].configuration) = o[2].scope
      BY <1>1, <3>1 DEF Owed
    <3>. QED BY <3>2, <1>2, <1>3
  <2>2. \A c \in containers' \cup {o[2] : o \in owed'} : c.attempt <= Me'
    BY <1>1, <1>2, <1>3, <1>5 DEF Owed
  <2>3. \A o \in owed' : o[2].attempt = Me' => o[2].model \notin queue'
    BY <1>1, <1>2, <1>3 DEF Owed, InLoop
  <2>4. \A c \in containers' : c.attempt = Me' /\ c.model \in queue' => pc' = "record" /\ c.model = model'
    BY <1>1, <1>2, <1>3, <1>5 DEF Owed, InLoop
  <2>5. ASSUME pc' = "evaluate" \/ (pc' = "record" /\ row'.stage # "cleanup"), NEW o \in owed', o[1] = model'
        PROVE  o[2] \notin containers'
    <3>1. Settled
      BY <1>4, <2>5 DEF Stands
    <3>2. o \in owed /\ o[1] = model
      BY <1>2, <2>5
    <3>3. o[2] \in containers => Scope(files[Replay[model].origin].configuration) = o[2].scope
      BY <1>1, <3>2 DEF Owed
    <3>. QED BY <1>3, <3>1, <3>3 DEF Settled, Here
  <2>6. pc' # "persist"
    BY <1>5
  <2>. QED BY <1>2, <2>1, <2>2, <2>3, <2>4, <2>5, <2>6 DEF Owed
<1>. QED BY <1>6, <1>7, <1>8, <1>10, <1>11 DEF CovInv

\* What recording does: the row that is kept is the last one the replay hears.
Kept == KeptOf(rows[model], row, model, Me)

LEMMA RecordGives ==
    ASSUME CovInv, Record
    PROVE  /\ Kept \in RowsOf /\ Kept.index = model /\ Kept.attempt = Me /\ row' = Kept
           /\ Kept.debt <=> (row.debt \/ (rows[model].debt /\ ~row.recovered))
           /\ Kept.debt => Kept.origin = (IF rows[model].debt /\ ~row.recovered THEN rows[model].origin ELSE Me)
           /\ Me \in Attempts /\ model \in queue /\ model \in Models /\ files[Me] \in Records
           /\ files' \in Files /\ Me' = Me /\ Attempts' = Attempts
           /\ files'[Me] \in Records /\ files'[Me].rows = Append(files[Me].rows, Kept)
           /\ files'[Me].configuration = files[Me].configuration
           /\ files'[Me].indices = files[Me].indices /\ files'[Me].status = files[Me].status
           /\ \A i \in Attempts : i # Me => files'[i] = files[i]
           /\ rows' = [rows EXCEPT ![model] = Kept] /\ Replay' = rows' /\ rows = Replay /\ overview # NoReport
<1>1. CovTypeOK /\ OnDisk /\ AtHand /\ files \in Files /\ Replay \in Views /\ Me \in Nat /\ DOMAIN files = 1..Me
  BY FilesTyped, FilesAre DEF CovInv
<1>2. pc = "record" /\ rows' = [rows EXCEPT ![model] = Kept] /\ row' = Kept
      /\ files' = [files EXCEPT ![Me].rows = Append(@, Kept)]
  BY DEF Record, Kept, KeptOf
<1>3. rows = Replay /\ Me \in Attempts /\ model \in queue /\ overview # NoReport
  BY <1>1, <1>2 DEF AtHand, OnDisk, Opened, InLoop
<1>4. model \in Models /\ rows[model] \in RowsOf /\ row \in RowsOf
  BY <1>1 DEF CovTypeOK, Views
<1>5. /\ Kept \in RowsOf /\ Kept.index = model /\ Kept.attempt = Me
      /\ Retain(rows[model], Kept, Me) = Kept
      /\ Kept.debt <=> (row.debt \/ (rows[model].debt /\ ~row.recovered))
      /\ Kept.debt => Kept.origin = (IF rows[model].debt /\ ~row.recovered THEN rows[model].origin ELSE Me)
  <2>. HIDE DEF Kept
  <2>1. Kept = KeptOf(rows[model], row, model, Me)
    BY DEF Kept
  <2>2. IsKept(rows[model], row, model, Me, Kept)
    BY <1>1, <1>4, <2>1, RetainTwice
  <2>. QED BY <2>2 DEF IsKept
<1>. HIDE DEF Kept
<1>6. files # <<>> /\ files[Me] # Void /\ files[Me] \in Records /\ Me = Len(files) /\ Me \in 1..Me
  BY <1>1, <1>3 DEF Attempts, Files, Me
<1>7. files' \in Files /\ ReplayOf(files') = Told(ReplayOf(files), Kept)
  <2>1. files' = [files EXCEPT ![Len(files)].rows = Append(@, Kept)]
    BY <1>2, <1>6
  <2>2. files[Len(files)] # Void
    BY <1>6
  <2>3. /\ [files EXCEPT ![Len(files)].rows = Append(@, Kept)] \in Files
        /\ ReplayOf([files EXCEPT ![Len(files)].rows = Append(@, Kept)]) = Told(ReplayOf(files), Kept)
    BY <1>1, <1>5, <1>6, <2>2, OneMoreRow
  <2>. QED BY <2>1, <2>3
<1>8. Told(Replay, Kept) = [Replay EXCEPT ![model] = Kept]
  BY <1>3, <1>5 DEF Told
<1>9. Replay' = rows'
  BY <1>2, <1>3, <1>7, <1>8, ReplayIs
<1>. DEFINE f == [files[Me] EXCEPT !.rows = Append(@, Kept)]
<1>10. /\ f \in Records /\ f.rows = Append(files[Me].rows, Kept)
       /\ f.configuration = files[Me].configuration /\ f.indices = files[Me].indices /\ f.status = files[Me].status
  <2>. DEFINE old == files[Me]
  <2>1. old \in Records /\ old.rows \in Seq(RowsOf)
    BY <1>6 DEF Records
  <2>2. Append(old.rows, Kept) \in Seq(RowsOf)
    BY <1>5, <2>1
  <2>3. f = [old EXCEPT !.rows = Append(old.rows, Kept)]
    OBVIOUS
  <2>. HIDE DEF old, f
  <2>4. /\ f \in Records /\ f.rows = Append(old.rows, Kept)
       /\ f.configuration = old.configuration /\ f.indices = old.indices /\ f.status = old.status
    BY <2>1, <2>2, <2>3 DEF Records
  <2>. QED BY <2>4 DEF old
<1>11. files' = [files EXCEPT ![Me] = f]
  BY <1>2
<1>. HIDE DEF f
<1>12. files'[Me] = f /\ DOMAIN files' = 1..Me /\ \A i \in 1..Me : i # Me => files'[i] = files[i]
  <2>1. Me \in DOMAIN files
    BY <1>1, <1>6
  <2>. QED BY <1>1, <1>11, <2>1, Zenon
<1>13. Me' = Me
  <2>1. Len(files') = Len(files)
    BY <1>6, <1>7, <1>12 DEF Files
  <2>. QED BY <2>1 DEF Me
<1>14. Attempts' = Attempts
  <2>1. f # Void
    BY <1>10, VoidIsNone
  <2>. QED BY <2>1, <1>1, <1>6, <1>12 DEF Attempts
<1>15. \A i \in Attempts : i # Me => files'[i] = files[i]
  BY <1>1, <1>12 DEF Attempts
<1>. QED BY <1>2, <1>3, <1>4, <1>5, <1>6, <1>7, <1>9, <1>10, <1>12, <1>13, <1>14, <1>15

\* An attempt's record with a row more.
OneRowMore(f, r, g) ==
    /\ Rowed(g) = Rowed(f) \cup {r.index} /\ IsFiniteSet(Rowed(f))
    /\ Len(g.rows) = Len(f.rows) + 1
    /\ DOMAIN g.rows = DOMAIN f.rows \cup {Len(f.rows) + 1}
    /\ g.rows[Len(f.rows) + 1] = r /\ \A j \in DOMAIN f.rows : g.rows[j] = f.rows[j]

LEMMA RowedAll ==
    ASSUME NEW f \in Records, f.indices \subseteq Models, Rowed(f) \subseteq f.indices, NEW r,
           NEW g, g.rows = Append(f.rows, r)
    PROVE  OneRowMore(f, r, g)
<1>. DEFINE n == Len(f.rows)
<1>1. f.rows \in Seq(RowsOf) /\ n \in Nat /\ DOMAIN f.rows = 1..n
  BY DEF Records
<1>2. /\ Len(g.rows) = n + 1 /\ DOMAIN g.rows = 1..(n + 1)
      /\ g.rows[n + 1] = r /\ \A j \in 1..n : g.rows[j] = f.rows[j]
  <2>. DEFINE s == f.rows
  <2>1. s \in Seq(RowsOf) /\ n = Len(s)
    BY <1>1
  <2>. HIDE DEF s
  <2>2. /\ Len(Append(s, r)) = n + 1 /\ DOMAIN Append(s, r) = 1..(n + 1)
        /\ Append(s, r)[n + 1] = r /\ \A j \in 1..n : Append(s, r)[j] = s[j]
    BY <2>1
  <2>. QED BY <2>2 DEF s
<1>3. DOMAIN g.rows = DOMAIN f.rows \cup {n + 1}
  BY <1>1, <1>2
<1>4. Rowed(g) = Rowed(f) \cup {r.index}
  <2>. HIDE DEF n
  <2>. QED BY <1>1, <1>2, <1>3 DEF Rowed
<1>5. IsFiniteSet(Rowed(f))
  <2>1. IsFiniteSet(Models)
    <3>1. 0 \in Int /\ N - 1 \in Int
      BY SampleAssumption
    <3>. QED BY <3>1, FS_Interval DEF Models
  <2>2. Rowed(f) \subseteq Models
    OBVIOUS
  <2>. QED BY <2>1, <2>2, FS_Subset
<1>. QED BY <1>1, <1>2, <1>3, <1>4, <1>5 DEF OneRowMore

LEMMA RecordKeeps == ASSUME CovInv, Record PROVE CovInv'
<1>1. CovTypeOK /\ OnDisk /\ AtHand /\ OneDebt /\ Owed /\ files \in Files /\ Replay \in Views /\ Me \in Nat
      /\ Attempts \subseteq 1..Me
  BY FilesTyped, FilesAre DEF CovInv
<1>2. pc = "record" /\ pc' = "save" /\ queue' = queue \ {model} /\ UNCHANGED <<overview, cfg, model, containers>>
  BY DEF Record
<1>3. /\ Kept \in RowsOf /\ Kept.index = model /\ Kept.attempt = Me /\ row' = Kept
      /\ Kept.debt <=> (row.debt \/ (rows[model].debt /\ ~row.recovered))
      /\ Kept.debt => Kept.origin = (IF rows[model].debt /\ ~row.recovered THEN rows[model].origin ELSE Me)
      /\ Me \in Attempts /\ model \in queue /\ model \in Models /\ files[Me] \in Records
      /\ files' \in Files /\ Me' = Me /\ Attempts' = Attempts
      /\ files'[Me] \in Records /\ files'[Me].rows = Append(files[Me].rows, Kept)
      /\ files'[Me].configuration = files[Me].configuration
      /\ files'[Me].indices = files[Me].indices /\ files'[Me].status = files[Me].status
      /\ \A i \in Attempts : i # Me => files'[i] = files[i]
      /\ rows' = [rows EXCEPT ![model] = Kept] /\ Replay' = rows' /\ rows = Replay /\ overview # NoReport
  BY RecordGives
<1>4. Readable /\ SoundAttempt(Me, files[Me])
  BY <1>1, <1>3, ReadableIs DEF OnDisk
<1>5. /\ Rowed(files'[Me]) = Rowed(files[Me]) \cup {model} /\ IsFiniteSet(Rowed(files[Me]))
      /\ Len(files'[Me].rows) = Len(files[Me].rows) + 1
      /\ DOMAIN files'[Me].rows = DOMAIN files[Me].rows \cup {Len(files[Me].rows) + 1}
      /\ files'[Me].rows[Len(files[Me].rows) + 1] = Kept
      /\ \A j \in DOMAIN files[Me].rows : files'[Me].rows[j] = files[Me].rows[j]
  <2>. DEFINE f == files[Me]
              g == files'[Me]
  <2>1. f \in Records /\ f.indices \subseteq Models /\ Rowed(f) \subseteq f.indices /\ g.rows = Append(f.rows, Kept)
    BY <1>3, <1>4 DEF Records, SoundAttempt
  <2>. HIDE DEF f, g
  <2>2. OneRowMore(f, Kept, g)
    BY <2>1, RowedAll
  <2>. QED BY <2>2, <1>3 DEF f, g, OneRowMore
<1>6. queue = files[Me].indices \ Rowed(files[Me]) /\ files[Me].configuration = cfg
  BY <1>1, <1>2 DEF AtHand, Opened, InLoop
<1>7. SoundAttempt(Me, files'[Me])
  <2>1. Rowed(files'[Me]) \subseteq files'[Me].indices
    BY <1>3, <1>4, <1>5, <1>6 DEF SoundAttempt
  <2>2. Len(files'[Me].rows) = Cardinality(Rowed(files'[Me]))
    <3>1. model \notin Rowed(files[Me])
      BY <1>3, <1>6
    <3>2. Cardinality(Rowed(files[Me]) \cup {model}) = Cardinality(Rowed(files[Me])) + 1
      BY <3>1, <1>5, FS_AddElement
    <3>. QED BY <3>2, <1>4, <1>5 DEF SoundAttempt
  <2>3. \A j \in DOMAIN files'[Me].rows : files'[Me].rows[j].attempt = Me
    BY <1>3, <1>4, <1>5 DEF SoundAttempt
  <2>4. files'[Me].status # "complete"
    BY <1>3, <1>4, <1>6 DEF SoundAttempt
  <2>. QED BY <2>1, <2>2, <2>3, <2>4 DEF SoundAttempt
<1>8. CovTypeOK'
  <2>1. rows' \in Views
    BY <1>1, <1>3 DEF CovTypeOK, Views
  <2>2. owed' \subseteq Models \X Boxes
    <3>1. owed \subseteq Models \X Boxes /\ \A c \in Here : <<model, c>> \in Models \X Boxes
      BY <1>1, <1>3 DEF CovTypeOK, Here
    <3>2. owed' \subseteq owed \cup {<<model, c>> : c \in About(row)}
      BY DEF Record
    <3>. QED BY <3>1, <3>2 DEF About
  <2>3. queue' \subseteq Models
    BY <1>1, <1>2 DEF CovTypeOK
  <2>. QED BY <2>1, <2>2, <2>3, <1>1, <1>2, <1>3 DEF CovTypeOK, Files, Opened, InLoop
<1>9. OnDisk'
  <2>1. \A i \in Attempts' : SoundAttempt(i, files'[i])
    BY <1>3, <1>4, <1>7, ReadableIs
  <2>2. \A i \in Attempts' : files'[i].configuration = files[i].configuration
    BY <1>3
  <2>3. Readable'
    BY <2>1, <2>2, <1>2, <1>3, <1>4, ReadableIs, ReadableWillBe
  <2>4. ASSUME NEW i \in Attempts', \A j \in Attempts' : j <= i, NEW m \in files'[i].indices \ Rowed(files'[i])
        PROVE  ~IsVerified(Replay'[m])
    <3>1. i = Me
      BY <2>4, <1>1, <1>3
    <3>2. m \in files[Me].indices \ Rowed(files[Me]) /\ m # model
      BY <2>4, <3>1, <1>3, <1>5
    <3>3. m \in Models
      BY <3>2, <1>3 DEF Records
    <3>4. Replay'[m] = Replay[m]
      BY <3>2, <3>3, <1>1, <1>3 DEF Views
    <3>5. ~IsVerified(Replay[m])
      BY <2>4, <3>1, <3>2, <1>1, <1>3 DEF OnDisk
    <3>. QED BY <3>4, <3>5
  <2>. QED BY <2>3, <2>4, <1>2, <1>3 DEF OnDisk
<1>10. AtHand'
  <2>1. queue' = files'[Me'].indices \ Rowed(files'[Me'])
    BY <1>2, <1>3, <1>5, <1>6
  <2>. QED BY <2>1, <1>2, <1>3, <1>6 DEF AtHand, Opened, InLoop
<1>11. Debts(Replay') = (IF Kept.debt THEN {model} ELSE {}) /\ Debts(Replay) \subseteq {model}
       /\ Replay'[model] = Kept
  <2>1. Debts(Replay) \subseteq {model}
    BY <1>1, <1>2, <1>3 DEF OneDebt
  <2>2. Replay'[model] = Kept /\ \A m \in Models : m # model => Replay'[m] = Replay[m]
    BY <1>1, <1>3 DEF Views
  <2>. QED BY <2>1, <2>2, <1>3 DEF Debts
<1>12. OneDebt'
  <2>1. Debts(rows') = Debts(Replay')
    BY <1>3
  <2>. QED BY <2>1, <1>2, <1>3, <1>11 DEF OneDebt
<1>13. \A i \in Attempts : files'[i].configuration = files[i].configuration
  BY <1>3
<1>14. Owed'
  <2>1. \A o \in owed' : \/ o \in owed
                         \/ /\ row.debt /\ row.stage # "cleanup"
                            /\ o[1] = model /\ o[2] \in containers /\ o[2].scope = Scope(cfg)
    <3>1. \A c \in About(row) : c \in containers /\ c.scope = Scope(cfg)
      BY DEF About, Here
    <3>2. owed' = owed \cup (IF row.debt /\ row.stage # "cleanup" THEN {<<model, c>> : c \in About(row)} ELSE {})
      BY DEF Record
    <3>. QED BY <3>1, <3>2
  <2>2. ASSUME NEW o \in owed', o[2] \in containers
        PROVE  /\ o[1] \in Debts(Replay') /\ Replay'[o[1]].origin \in Attempts'
               /\ Scope(files'[Replay'[o[1]].origin].configuration) = o[2].scope
    <3>1. CASE o \in owed
      <4>1. /\ o[1] \in Debts(Replay) /\ Replay[o[1]].origin \in Attempts
            /\ Scope(files[Replay[o[1]].origin].configuration) = o[2].scope
        BY <1>1, <2>2, <3>1 DEF Owed
      <4>2. o[1] = model /\ rows[model].debt
        BY <4>1, <1>3, <1>11 DEF Debts
      <4>3. row.stage = "cleanup"
        BY <1>1, <1>2, <2>2, <3>1, <4>2 DEF Owed
      <4>4. row.debt /\ ~row.recovered
        BY <4>3, <1>1, <1>2 DEF OneDebt
      <4>5. Kept.debt /\ Kept.origin = Replay[model].origin
        BY <4>2, <4>4, <1>3
      <4>6. Replay'[o[1]].origin = Replay[o[1]].origin /\ o[1] \in Debts(Replay')
        BY <4>2, <4>5, <1>11
      <4>7. Replay[o[1]].origin \in Attempts'
        BY <4>1, <1>3
      <4>8. files'[Replay[o[1]].origin].configuration = files[Replay[o[1]].origin].configuration
        BY <4>1, <1>13
      <4>. QED BY <4>1, <4>6, <4>7, <4>8
    <3>2. CASE o \notin owed
      <4>1. row.debt /\ row.stage # "cleanup" /\ o[1] = model /\ o[2].scope = Scope(cfg)
        BY <2>1, <3>2
      <4>2. rows[model].debt => row.recovered
        BY <4>1, <1>1, <1>2 DEF OneDebt
      <4>3. Kept.debt /\ Kept.origin = Me
        BY <4>1, <4>2, <1>3
      <4>4. Replay'[o[1]].origin = Me /\ o[1] \in Debts(Replay')
        BY <4>1, <4>3, <1>11
      <4>5. Me \in Attempts' /\ files'[Me].configuration = cfg
        BY <1>3, <1>6
      <4>. QED BY <4>1, <4>4, <4>5
    <3>. QED BY <3>1, <3>2
  <2>3. \A c \in containers' \cup {o[2] : o \in owed'} : c.attempt <= Me'
    BY <2>1, <1>1, <1>2, <1>3 DEF Owed
  <2>4. ASSUME NEW o \in owed', o[2].attempt = Me PROVE o[2].model \notin queue'
    <3>1. CASE o \in owed
      BY <2>4, <3>1, <1>1, <1>2 DEF Owed, InLoop
    <3>2. CASE o \notin owed
      <4>1. o[2] \in containers
        BY <2>1, <3>2
      <4>2. o[2].model \in queue => o[2].model = model
        BY <2>4, <4>1, <1>1, <1>2 DEF Owed, InLoop
      <4>. QED BY <4>2, <1>2
    <3>. QED BY <3>1, <3>2
  <2>5. \A c \in containers : c.attempt = Me => c.model \notin queue'
    BY <1>1, <1>2 DEF Owed, InLoop
  <2>. QED BY <2>2, <2>3, <2>4, <2>5, <1>2, <1>3 DEF Owed
<1>. QED BY <1>8, <1>9, <1>10, <1>12, <1>14 DEF CovInv

LEMMA CovStutters == ASSUME CovInv, UNCHANGED vars PROVE CovInv'
<1>. USE DEF vars
<1>1. Replay' = Replay /\ Attempts' = Attempts /\ Me' = Me
  BY FilesStand
<1>2. /\ Readable' = Readable /\ Known(Replay') = Known(Replay)
      /\ Debts(Replay') = Debts(Replay) /\ Debts(rows') = Debts(rows)
  BY <1>1 DEF Readable, Rowed
<1>3. CovTypeOK'
  BY DEF CovInv, CovTypeOK
<1>4. OnDisk'
  <2>1. \A i \in Attempts : Rowed(files'[i]) = Rowed(files[i])
    OBVIOUS
  <2>. QED BY <2>1, <1>1, <1>2 DEF CovInv, OnDisk
<1>5. AtHand'
  BY <1>1 DEF CovInv, AtHand, Opened, InLoop
<1>6. OneDebt'
  BY <1>1, <1>2 DEF CovInv, OneDebt
<1>7. Owed'
  BY <1>1, <1>2 DEF CovInv, Owed, InLoop
<1>. QED BY <1>3, <1>4, <1>5, <1>6, <1>7 DEF CovInv

LEMMA CovStays == ASSUME CovInv, [Next]_vars PROVE CovInv'
<1>1. CASE \E c \in RunConfigs : StartNew(c)
  BY <1>1, StartNewKeeps
<1>2. CASE pc = "idle" /\ \E view \in {Replay}, c \in RunConfigs, how \in Selectors : Resume(view, c, how)
  BY <1>2, ResumeKeeps
<1>3. CASE MakeDirectory
  BY <1>3, MakeDirectoryKeeps
<1>4. CASE PersistAttempt
  BY <1>4, PersistAttemptKeeps
<1>5. CASE Save
  BY <1>5, SaveKeeps
<1>6. CASE StartModel
  BY <1>6, StartModelKeeps
<1>7. CASE ConfirmCleanup
  BY <1>7, ConfirmKeeps
<1>8. CASE Evaluate
  BY <1>8, EvaluateKeeps
<1>9. CASE Record
  BY <1>9, RecordKeeps
<1>10. CASE Finish
  BY <1>10, FinishKeeps
<1>11. CASE LastSave
  BY <1>11, LastSaveKeeps
<1>12. CASE Interrupt
  BY <1>12, InterruptKeeps
<1>13. CASE Kill
  BY <1>13, KillKeeps
<1>14. CASE UNCHANGED vars
  BY <1>14, CovStutters
<1>. QED BY <1>1, <1>2, <1>3, <1>4, <1>5, <1>6, <1>7, <1>8, <1>9, <1>10, <1>11, <1>12, <1>13, <1>14 DEF Next
-----------------------------------------------------------------------------
(* What follows.                                                           *)
LEMMA CanContinue == ASSUME CovInv PROVE Continuable(Replay)
<1>1. CovTypeOK /\ OnDisk /\ OneDebt /\ files \in Files /\ Replay \in Views
  BY FilesTyped DEF CovInv
<1>. SUFFICES ASSUME overview # NoReport PROVE \E c \in RunConfigs, how \in Selectors : Accepts(Replay, c, how)
  BY DEF Continuable
<1>2. Readable
  BY <1>1 DEF OnDisk
<1>3. CASE Debts(Replay) # {}
  <2>1. Debts(Replay) \subseteq Selection(Replay, "cleanup")
    BY DEF Selection, Matches, IsVerified, Debts, NoRow
  <2>2. AnyConfig \in RunConfigs
    BY NoDebts
  <2>3. Accepts(Replay, AnyConfig, "cleanup")
    BY <1>2, <1>3, <2>1 DEF Accepts
  <2>. QED BY <2>2, <2>3 DEF Selectors
<1>4. CASE Debts(Replay) = {}
  <2>1. Expected \in RunConfigs
    <3>1. CASE Pending
      <4>1. files[LastId] \in Records
        BY <1>1, <3>1, LastIdIs DEF Pending, Attempts, Files
      <4>. QED BY <3>1, <4>1 DEF Expected, Records
    <3>2. CASE ~Pending
      BY <1>1, <3>2 DEF Expected, CovTypeOK, Overviews
    <3>. QED BY <3>1, <3>2
  <2>2. Accepts(Replay, Expected, "resume")
    BY <1>2, <1>4 DEF Accepts
  <2>. QED BY <2>1, <2>2 DEF Selectors
<1>. QED BY <1>3, <1>4

LEMMA CovTells == ASSUME CovInv PROVE CrashLosesNothing
<1>1. CovTypeOK /\ AtHand /\ OneDebt /\ Owed
  BY DEF CovInv
<1>2. MemoryIsReplay(Replay)
  BY <1>1 DEF AtHand, MemoryIsReplay
<1>3. Continuable(Replay)
  BY CanContinue
<1>4. DebtHolds(Replay)
  BY <1>1 DEF Owed, DebtHolds
<1>5. StopsWhileOwing(Replay)
  BY <1>1 DEF OneDebt, AtHand, StopsWhileOwing
<1>. QED BY <1>2, <1>3, <1>4, <1>5 DEF CrashLosesNothing, DebtsAreKept

\* Only Record changes what is replayed, of a model that is not verified.
LEMMA VerifiedStands ==
    ASSUME CovInv, [Next]_vars
    PROVE  \A m \in Models : IsVerified(Replay[m]) => IsVerified(Replay'[m])
<1>1. CovTypeOK /\ OnDisk /\ AtHand /\ files \in Files /\ Replay \in Views /\ Me \in Nat /\ Attempts \subseteq 1..Me
  BY FilesTyped, FilesAre DEF CovInv
<1>2. CASE files' = files
  BY <1>2, FilesStand
<1>3. CASE Record
  <2>1. /\ rows' = [rows EXCEPT ![model] = Kept] /\ Replay' = rows' /\ rows = Replay
        /\ model \in queue /\ Me \in Attempts
    BY <1>3, RecordGives
  <2>2. queue = files[Me].indices \ Rowed(files[Me])
    BY <1>1, <1>3 DEF AtHand, Opened, InLoop, Record
  <2>3. \A j \in Attempts : j <= Me
    BY <1>1
  <2>4. ~IsVerified(Replay[model])
    BY <2>1, <2>2, <2>3, <1>1 DEF OnDisk
  <2>5. \A m \in Models : m # model => Replay'[m] = Replay[m]
    BY <2>1, <1>1 DEF Views
  <2>. QED BY <2>4, <2>5
<1>4. CASE MakeDirectory \/ PersistAttempt \/ Finish
  <2>1. CovInv'
    BY CovStays
  <2>2. pc # "idle" /\ pc' # "idle" /\ rows' = rows
    BY <1>4 DEF MakeDirectory, PersistAttempt, Finish
  <2>3. rows = Replay
    BY <1>1, <2>2 DEF AtHand
  <2>4. rows' = Replay'
    BY <2>1, <2>2 DEF CovInv, AtHand
  <2>. QED BY <2>2, <2>3, <2>4
<1>. QED BY <1>2, <1>3, <1>4 DEF Next, StartNew, Resume, Save, StartModel, ConfirmCleanup, Evaluate, LastSave,
                                 Interrupt, Kill, vars

\* Whatever sample and configurations, however many attempts, and wherever an invocation
\* was interrupted or killed: a crash loses nothing but the attempt at hand, a debt stands
\* until its container is gone, and a verified model stays verified.
THEOREM NothingIsEverLost == Spec => NothingIsLost
<1>1. Init => CovInv
  BY CovBegins
<1>2. CovInv /\ [Next]_vars => CovInv'
  BY CovStays
<1>3. CovInv => CrashLosesNothing
  BY CovTells
<1>4. CovInv /\ [Next]_vars =>
         [files' # files => LET before == Replay later == Replay' IN
             \A m \in Models : IsVerified(before[m]) => IsVerified(later[m])]_vars
  BY VerifiedStands
<1>. QED BY <1>1, <1>2, <1>3, <1>4, PTL DEF Spec, NothingIsLost, VerifiedStays
=============================================================================
